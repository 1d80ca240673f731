------------------------------ MODULE TxPlanner ------------------------------
(***************************************************************************)
(* The wallet's transaction planner: which notes to spend for an amount    *)
(* (find_combination), the chain of two-input transactions that merges     *)
(* them and pays (plan), and the session that runs this chain step by step *)
(* against a frozen snapshot of the wallet (SpendSession).                 *)
(*                                                                         *)
(* The planner sorts the notes by amount, so the wallet is taken in that   *)
(* order: note i is the i-th smallest.  Amounts are positive, as every     *)
(* derived note's is; the sum of a wallet stays below the token supply,    *)
(* so the 128-bit additions never overflow.                                *)
(***************************************************************************)
EXTENDS Integers, Sequences, FiniteSets, Functions, FiniteSetsExt, SequencesExt

CONSTANTS
    MaxNotes,         \* bound: notes in the wallet
    MaxValue,         \* bound: amount of a note
    TransactionLimit, \* TRANSACTION_LIMIT (10)
    IterationLimit    \* steps of one depth-first search (5000)

ASSUME BoundsAreNatural ==
    /\ {MaxNotes, MaxValue, TransactionLimit, IterationLimit} \subseteq Nat
    /\ TransactionLimit >= 2

VARIABLES
    values,  \* amounts of the wallet's notes, ascending
    amount,  \* the amount to send
    target,  \* SpendTarget: "transfer" or "withdraw"
    phase,   \* "new", "running", "done", "refused", "abandoned" or "stuck"
    steps,   \* the plan: [inputs, outputs, final]
    wallet,  \* the session's snapshot: notes [commitment, amount]
    index,   \* step_index, from 1
    sent     \* the transactions on the chain: [inputs, outputs, owners, ext]

plannerVars == <<values, amount, target, phase, steps, wallet, index, sent>>

-----------------------------------------------------------------------------
(* Coin selection.  A result is the sequence of chosen notes and the excess *)
(* of their sum over the goal; Miss is the empty choice.                    *)

Miss == [picks |-> <<>>, excess |-> 0]
Hit(picks, excess) == [picks |-> picks, excess |-> excess]
Found(r) == r.picks # <<>>

\* One iteration of the two-pointer scan: the left pointer moves up while the
\* pair is short of the goal, the right one down after an overshoot.  An exact
\* pair ends the scan, and so does the meeting of the pointers.
TwoScanStep(goal, s) ==
    LET sum == values[s.left] + values[s.right]
        pair == <<s.left, s.right>>
    IN  IF s.left >= s.right \/ (Found(s.best) /\ s.best.excess = 0) THEN s
        ELSE IF sum < goal THEN [s EXCEPT !.left = @ + 1]
        ELSE IF sum = goal THEN [s EXCEPT !.best = Hit(pair, 0)]
        ELSE [s EXCEPT !.right = @ - 1,
                       !.best = IF ~Found(@) \/ sum - goal < @.excess
                                THEN Hit(pair, sum - goal) ELSE @]

\* The window shrinks in every iteration, so there are fewer than the notes.
TwoScan(goal) ==
    LET after[n \in 0 .. Len(values)] ==
          IF n = 0 THEN [left |-> 1, right |-> Len(values), best |-> Miss]
          ELSE TwoScanStep(goal, after[n - 1])
    IN  IF Len(values) < 2 THEN Miss ELSE after[Len(values)].best

\* The first note, in ascending order, that is not below the goal.
OneScan(goal) ==
    LET large == {i \in DOMAIN values : values[i] >= goal}
    IN  IF large = {} THEN Miss ELSE Hit(<<Min(large)>>, values[Min(large)] - goal)

\* The sum of the first picks, one after the other.
RunningSum(picks) ==
    LET sum[n \in 0 .. Len(picks)] == IF n = 0 THEN 0 ELSE sum[n - 1] + values[picks[n]]
    IN  sum

\* The context of a search: the notes taken and their sum, the best choice so
\* far, the nodes that may still be visited, and whether the notes taken are an
\* exact match.
Contexts == [path : Seq(Nat), sum : Nat, best : [picks : Seq(Nat), excess : Nat],
             left : Int, found : BOOLEAN]

\* A full path is an exact match, a better choice or nothing.
Judged(goal, ctx) ==
    IF ctx.sum = goal THEN [ctx EXCEPT !.found = TRUE]
    ELSE IF ctx.sum > goal /\ (~Found(ctx.best) \/ ctx.sum - goal < ctx.best.excess)
    THEN [ctx EXCEPT !.best = Hit(ctx.path, ctx.sum - goal)]
    ELSE ctx

\* The search for k of the candidates: with the next candidate first, then
\* without it, at most IterationLimit nodes.  search[m] has the last m of the
\* candidates left to choose from.
Dfs(candidates, goal, k) ==
    LET search[m \in 0 .. Len(candidates)] == [ctx \in Contexts |->
          IF Len(ctx.path) = k THEN Judged(goal, ctx)
          ELSE IF ctx.sum >= goal \/ m = 0 \/ ctx.left <= 0 THEN ctx
          ELSE LET next == candidates[Len(candidates) - m + 1]
                   with == search[m - 1][[ctx EXCEPT !.path = Append(@, next),
                                                     !.sum = @ + values[next],
                                                     !.left = @ - 1]]
               IN  IF with.found THEN with
                   ELSE search[m - 1][[with EXCEPT !.path = ctx.path, !.sum = ctx.sum]]]
    IN  search[Len(candidates)][[path |-> <<>>, sum |-> 0, best |-> Miss,
                                 left |-> IterationLimit, found |-> FALSE]]

\* The first n notes, largest first.
Descending(n) == [j \in 1 .. n |-> n + 1 - j]

\* The largest notes, until they reach the goal.
Greedy(goal) ==
    LET order == Descending(Len(values))
        total == RunningSum(order)
        enough == {n \in DOMAIN order : total[n] >= goal}
        q == Min(enough)
    IN  IF enough = {} THEN Miss
        ELSE Hit([j \in 1 .. q |-> order[j]], total[q] - goal)

\* Sizes from 3 up to the limit: the first one with an exact match or, failing
\* that, an overshoot of that size.
HitSizes(candidates, goal) ==
    {k \in 3 .. Min({Len(candidates), TransactionLimit}) :
        LET ctx == Dfs(candidates, goal, k) IN ctx.found \/ Found(ctx.best)}

KScanOf(candidates, goal) ==
    LET sizes == HitSizes(candidates, goal)
        hit == Dfs(candidates, goal, Min(sizes))
    IN  IF sizes = {} THEN Greedy(goal)
        ELSE IF hit.found THEN Hit(hit.path, 0)
        ELSE hit.best

\* The number of notes below the goal: the first ones of the sorted wallet.
BelowGoal(goal) == Cardinality({i \in DOMAIN values : values[i] < goal})

\* Mutant: the candidates keep the ascending order of the wallet.
KScanAscending(goal) == KScanOf([j \in 1 .. BelowGoal(goal) |-> j], goal)

KScan(goal) == KScanOf(Descending(BelowGoal(goal)), goal)

FindCombination(goal) ==
    LET two == TwoScan(goal)
        one == OneScan(goal)
    IN  IF values = <<>> THEN Miss
        ELSE IF Found(two) /\ two.excess = 0 THEN two
        ELSE IF Found(one) /\ one.excess = 0 THEN one
        ELSE IF Found(two) THEN two
        ELSE IF Found(one) THEN one
        ELSE KScan(goal)

\* What plan makes of the result: the notes, and whether there is a change
\* output.  An exact result has none; the greedy fallback only knows overshoots,
\* so it has a change of zero when its notes add up to the goal.
ByGreedy(goal, r) ==
    Len(r.picks) > 2 /\ HitSizes(Descending(BelowGoal(goal)), goal) = {}

Combination(goal) ==
    LET r == FindCombination(goal)
    IN  [picks |-> r.picks, excess |-> r.excess,
         change |-> r.excess # 0 \/ ByGreedy(goal, r)]

-----------------------------------------------------------------------------
(* The plan.  A step has one or two inputs; an input that does not exist yet *)
(* at planning time, the merged note of the step before, has no commitment.  *)

NoCommitment == 0
NoteAt(i) == [commitment |-> i, amount |-> values[i]]

\* The sum of the first n picks, which step n - 1 merges into one note.
MergedAmount(picks, n) == RunningSum(picks)[n]

PlannedStep(r, n) ==
    LET last == n = Len(r.picks)
        first == IF n = 2 THEN NoteAt(r.picks[1])
                 ELSE [commitment |-> NoCommitment, amount |-> MergedAmount(r.picks, n - 1)]
    IN  [inputs |-> <<first, NoteAt(r.picks[n])>>,
         outputs |-> IF last THEN <<amount, r.excess>> ELSE <<MergedAmount(r.picks, n), 0>>,
         change |-> r.change, final |-> last]

PlanOf(r) ==
    IF Len(r.picks) = 1
    THEN << [inputs |-> <<NoteAt(r.picks[1])>>, outputs |-> <<amount, r.excess>>,
             change |-> r.change, final |-> TRUE] >>
    ELSE [n \in 1 .. Len(r.picks) - 1 |-> PlannedStep(r, n + 1)]

Plannable(r) == Found(r) /\ Len(r.picks) <= TransactionLimit

Setup ==
    /\ phase = "new"
    /\ LET r == Combination(amount)
       IN  IF Plannable(r)
           THEN phase' = "running" /\ steps' = PlanOf(r)
           ELSE phase' = "refused" /\ UNCHANGED steps
    /\ UNCHANGED <<values, amount, target, wallet, index, sent>>

-----------------------------------------------------------------------------
(* The session. *)

\* resolve_input_note: a planned note by its commitment, a merged one by its
\* amount.
Matches(input, sibling) ==
    IF input.commitment # NoCommitment
    THEN {n \in wallet : n = input}
    ELSE {n \in wallet : n.amount = input.amount /\ n.commitment # sibling.commitment}

InputMatches(step, i) ==
    Matches(step.inputs[i],
            IF Len(step.inputs) = 1 THEN step.inputs[1] ELSE step.inputs[3 - i])

Resolves(step) == \A i \in DOMAIN step.inputs : Cardinality(InputMatches(step, i)) = 1
Resolved(step) == UNION {InputMatches(step, i) : i \in DOMAIN step.inputs}

\* The owners of a step's two outputs.  The recipient of a transfer gets the
\* first one, and the second one too unless it is the change.
OutputOwners(step) ==
    IF ~step.final \/ target = "withdraw" THEN <<"self", "self">>
    ELSE <<"recipient", IF step.change THEN "self" ELSE "recipient">>

\* Mutant: a withdrawal also pays the amount into the first output.
MaterializeDouble(step) ==
    [inputs |-> Resolved(step), outputs |-> step.outputs, owners |-> OutputOwners(step),
     ext |-> IF step.final /\ target = "withdraw" THEN -step.outputs[1] ELSE 0]

\* materialize_step.  A withdrawal leaves the pool as the negative external
\* amount and its change is the first output.
Materialize(step) ==
    LET withdrawal == step.final /\ target = "withdraw"
    IN  [inputs |-> Resolved(step),
         outputs |-> IF withdrawal THEN <<step.outputs[2], 0>> ELSE step.outputs,
         owners |-> OutputOwners(step),
         ext |-> IF withdrawal THEN -step.outputs[1] ELSE 0]

\* A step that has been submitted is completed: its inputs leave the snapshot
\* and a merged note, with the commitment from the proof, joins it.
RunStep ==
    /\ phase = "running"
    /\ LET step == steps[index]
           merged == [commitment |-> MaxNotes + index, amount |-> step.outputs[1]]
       IN  IF ~Resolves(step)
           THEN phase' = "stuck" /\ UNCHANGED <<wallet, index, sent>>
           ELSE /\ sent' = Append(sent, Materialize(step))
                /\ wallet' = (wallet \ Resolved(step)) \cup
                                 (IF step.final THEN {} ELSE {merged})
                /\ index' = index + 1
                /\ phase' = IF index = Len(steps) THEN "done" ELSE "running"
    /\ UNCHANGED <<values, amount, target, steps>>

\* Proving, signing or submitting a step fails: execute_plan returns and the
\* session is dropped; the steps before it stay on the chain.
StepFails ==
    /\ phase = "running"
    /\ phase' = "abandoned"
    /\ UNCHANGED <<values, amount, target, steps, wallet, index, sent>>

\* The thirty polls for the step's confirmation end, or one of them fails, and
\* execute_plan returns the same way, but the transaction is applied later.
ConfirmTimesOut ==
    /\ phase = "running"
    /\ Resolves(steps[index])
    /\ phase' = "abandoned"
    /\ sent' = Append(sent, Materialize(steps[index]))
    /\ UNCHANGED <<values, amount, target, steps, wallet, index>>

Wallets == UNION {{w \in [1 .. n -> 1 .. MaxValue] : \A i, j \in 1 .. n : i <= j => w[i] <= w[j]} :
                     n \in 0 .. MaxNotes}

PlannerInit ==
    /\ values \in Wallets
    /\ amount \in 1 .. MaxNotes * MaxValue + 1
    /\ target \in {"transfer", "withdraw"}
    /\ phase = "new"
    /\ steps = <<>>
    /\ wallet = {NoteAt(i) : i \in DOMAIN values}
    /\ index = 1
    /\ sent = <<>>

PlannerNext == Setup \/ RunStep \/ StepFails \/ ConfirmTimesOut

PlannerSpec == PlannerInit /\ [][PlannerNext]_plannerVars

-----------------------------------------------------------------------------
(* Properties *)

\* The value of a set of notes.
ValueOf(S) == SumFunctionOnSet(values, S)
Pairs == kSubset(2, DOMAIN values)

\* find_combination's first four tiers against their definitions: an exact
\* pair if there is one, else an exact note, else the pair with the least
\* excess of all pairs, else the smallest note above the goal.
SmallTiersOptimal ==
    LET r == FindCombination(amount)
        exact == {S \in Pairs : ValueOf(S) = amount}
        over == {S \in Pairs : ValueOf(S) > amount}
        single == {i \in DOMAIN values : values[i] >= amount}
    IN  /\ exact # {} => ToSet(r.picks) \in exact
        /\ exact = {} /\ (\E i \in single : values[i] = amount) =>
              Len(r.picks) = 1 /\ r.excess = 0
        /\ exact = {} /\ (\A i \in single : values[i] # amount) /\ over # {} =>
              /\ Len(r.picks) = 2
              /\ r.excess = Min({ValueOf(S) - amount : S \in over})
        /\ exact = {} /\ over = {} /\ single # {} => r.picks = <<Min(single)>>

\* "The lowest combination count (with two-note pairs preferred over
\* single-note exact matches)": no fewer notes cover the amount, also when the
\* search for three or more is cut off after IterationLimit nodes.
FewestNotes ==
    LET r == FindCombination(amount)
    IN  Len(r.picks) # 2 =>
            \A S \in SUBSET DOMAIN values :
                Cardinality(S) < Len(r.picks) => ValueOf(S) < amount

\* plan refuses an amount only when no choice of at most TransactionLimit
\* notes covers it, although the search is cut off and the greedy fallback
\* knows nothing of the limit.
RefusedOnlyIfUncoverable ==
    phase = "refused" <=>
        /\ phase # "new"
        /\ \A S \in SUBSET DOMAIN values :
              Cardinality(S) <= TransactionLimit => ValueOf(S) < amount

\* A session never runs into NoNoteForAmount or AmbiguousNoteForAmount: the
\* merged note of the step before is found by its amount alone, and no other
\* note of the wallet has that amount.
SessionNeverStuck == phase # "stuck"

\* What the transactions sent to the recipient's keys or out of the pool.
PaidBy(tx) ==
    LET Out(i) == IF tx.owners[i] = "recipient" THEN tx.outputs[i] ELSE 0
    IN  Out(1) + Out(2) - tx.ext
Paid == SumFunction([s \in DOMAIN sent |-> PaidBy(sent[s])])

\* Every transaction that reached the chain balances, no note is spent twice,
\* and the session as a whole has paid exactly the amount if its last step is
\* on the chain (a session that failed in confirming it included), else
\* nothing: it has only merged the user's own notes.
SpendsBalance ==
    /\ \A s \in DOMAIN sent :
          SumFunction([n \in sent[s].inputs |-> n.amount]) + sent[s].ext
              = sent[s].outputs[1] + sent[s].outputs[2]
    /\ \A s, t \in DOMAIN sent : s # t => sent[s].inputs \cap sent[t].inputs = {}
    /\ Paid = IF sent # <<>> /\ Len(sent) = Len(steps) THEN amount ELSE 0

\* Coin selection is right in each of its tiers: the best one or two notes,
\* otherwise the fewest, and a refusal only of what cannot be covered.
SelectionRight == SmallTiersOptimal /\ FewestNotes /\ RefusedOnlyIfUncoverable

\* A plan that was accepted runs to its end, whatever steps fail or time out,
\* and spends what it says.
PlanRuns == SessionNeverStuck /\ SpendsBalance
=============================================================================
