----------------------------- MODULE MCLibrary -----------------------------
(***************************************************************************)
(* Parts that share no state with each other, checked in one run: the      *)
(* transaction planner, the proving pipeline, the hash functions, the      *)
(* circuit build and the key ceremony.  One of them is chosen at the start *)
(* and moves; the others stand still in one of their initial states.       *)
(***************************************************************************)
EXTENDS TxPlanner, Proving, Hashing, CircuitBuild, Ceremony

VARIABLE unit

MCInit ==
  /\ unit \in {"planner", "proving", "hashing", "build", "ceremony"}
  /\ unit # "planner" => values = <<1>> /\ amount = 1 /\ target = "transfer"
  /\ PlannerInit
  /\ unit # "proving" => artifacts = [file |-> 1, extra |-> 0, setup |-> 1]
  /\ ProvingInit
  /\ unit # "hashing" => hashInputs = << <<0, 0>>, <<0, 0>> >>
  /\ HashInit
  /\ BuildInit
  /\ CeremonyInit

PlannerStep == unit = "planner" /\ PlannerNext
                 /\ UNCHANGED <<unit, provingVars, hashVars, buildVars, ceremonyVars>>
ProvingStep == unit = "proving" /\ ProvingNext
                 /\ UNCHANGED <<unit, plannerVars, hashVars, buildVars, ceremonyVars>>
HashingStep == unit = "hashing" /\ HashNext
                 /\ UNCHANGED <<unit, plannerVars, provingVars, buildVars, ceremonyVars>>
BuildStep == unit = "build" /\ BuildNext
                 /\ UNCHANGED <<unit, plannerVars, provingVars, hashVars, ceremonyVars>>
CeremonyStep == unit = "ceremony" /\ CeremonyNext
                 /\ UNCHANGED <<unit, plannerVars, provingVars, hashVars, buildVars>>

MCNext == PlannerStep \/ ProvingStep \/ HashingStep \/ BuildStep \/ CeremonyStep
=============================================================================
