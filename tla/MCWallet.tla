------------------------------ MODULE MCWallet ------------------------------
(***************************************************************************)
(* Two units of the wallet checked side by side: the transaction flows and *)
(* selective disclosure.  They share no state, so one of them is chosen at *)
(* the start and the other stands still.                                   *)
(***************************************************************************)
EXTENDS Flows, Disclosure

VARIABLE unit

(* One pool with a note of the account, and one at its bound of             *)
(* transactions, with a spent note, another's note and an unspent one.      *)
StartDef ==
  [p1 |-> <<[owner |-> Account, spends |-> 0]>>,
   p2 |-> <<[owner |-> Account, spends |-> 0], [owner |-> Other, spends |-> 0],
            [owner |-> Account, spends |-> 1]>>]

vars == <<unit, flowVars, disclosureVars>>
Init == unit \in {"flows", "disclosure"} /\ FlowsInit /\ DisclosureInit
FlowsStep == unit = "flows" /\ FlowsNext /\ UNCHANGED <<unit, disclosureVars>>
DisclosureStep == unit = "disclosure" /\ DisclosureNext /\ UNCHANGED <<unit, flowVars>>
Next == FlowsStep \/ DisclosureStep
Spec == Init /\ [][Next]_vars /\ (unit = "disclosure" => DisclosureFairness)
=============================================================================
