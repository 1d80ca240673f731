---------------------------- MODULE MCContracts ----------------------------
(***************************************************************************)
(* The trees and the small contracts, checked in one run: the pool's tree, *)
(* the two ASP contracts, the prover's sparse tree, the prediction market  *)
(* and the key registry with the address book.  They share no state; one   *)
(* of them is chosen at the start and moves, the others stand still.       *)
(***************************************************************************)
EXTENDS PoolTree, AspMembership, ProverSmt, Market, Directory

VARIABLE unit

\* Four bits: keys that part at levels 0, 1 and 3, so that an insertion
\* extends the path over several common bits, a deletion lifts a leaf over
\* several levels and one path is longer than the circuit's.
MCKeys == { <<0,0,0,0>>, <<0,0,0,1>>, <<0,1,0,0>>, <<1,0,0,0>> }

\* One of the keys is blocked with the value zero, which insert_leaf accepts.
MCEntries == {<<k, IF k = <<0,1,0,0>> THEN 0 ELSE 1>> : k \in MCKeys}

treesVars == <<treeVars, membershipVars, exclusionVars, smtVars>>

MCInit ==
  /\ unit \in {"tree", "membership", "exclusion", "smt", "market", "directory"}
  /\ TreeInit /\ SmtInit /\ MarketInit /\ DirectoryInit
  /\ unit # "membership" => membershipAdmin = CHOOSE a \in MembershipAddress : TRUE
  /\ MembershipInit
  /\ unit # "exclusion" => admin = CHOOSE a \in Address : TRUE
  /\ ExclusionInit

TreeStep == unit = "tree" /\ TreeNext
              /\ UNCHANGED <<unit, membershipVars, exclusionVars, smtVars, marketVars, directoryVars>>
MembershipStep == unit = "membership" /\ MembershipNext
              /\ UNCHANGED <<unit, treeVars, exclusionVars, smtVars, marketVars, directoryVars>>
ExclusionStep == unit = "exclusion" /\ ExclusionNext
              /\ UNCHANGED <<unit, treeVars, membershipVars, smtVars, marketVars, directoryVars>>
SmtStep == unit = "smt" /\ SmtNext
              /\ UNCHANGED <<unit, treeVars, membershipVars, exclusionVars, marketVars, directoryVars>>
MarketStep == unit = "market" /\ MarketNext /\ UNCHANGED <<unit, treesVars, directoryVars>>
DirectoryStep == unit = "directory" /\ DirectoryNext /\ UNCHANGED <<unit, treesVars, marketVars>>

MCNext ==
  TreeStep \/ MembershipStep \/ ExclusionStep \/ SmtStep \/ MarketStep \/ DirectoryStep
=============================================================================
