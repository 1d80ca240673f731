------------------------------- MODULE Market -------------------------------
(***************************************************************************)
(* The social prediction market contract: initialize, submit_vote, resolve *)
(* and close_market, each callable by anyone in any order.  A call that    *)
(* panics changes nothing; the guards are the conditions under which it    *)
(* does not panic.                                                         *)
(*                                                                         *)
(* The proof of a vote is checked against the verification key the caller  *)
(* hands in; a proof stands for the public inputs it was made for.         *)
(***************************************************************************)
EXTENDS Integers, Sequences, FiniteSets

CONSTANTS
    VoteNullifiers, \* nullifiers of the voters
    VoteChoices,    \* vote commitments
    Tallies,        \* numbers given to resolve
    U32Max,         \* the largest u32
    MaxCalls        \* bound on the calls of a behaviour

ASSUME MarketAssumption ==
    /\ {U32Max, MaxCalls} \subseteq Nat
    /\ Tallies \subseteq 0 .. U32Max

VARIABLES
    marketStatus,  \* STATUS, or "unset"
    usedNullifiers,\* USED_NULLIFIERS: one flag for the whole contract
    totalVotes,    \* TOTAL_VOTES
    voterCnt,      \* VOTER_CNT
    marketResult,  \* RESULT, and the threshold it was decided by
    voteLog,       \* nullifiers of all votes counted since deployment
    refusedVotes,  \* nullifiers of votes refused as used while the market was open
    marketCalls

marketVars == <<marketStatus, usedNullifiers, totalVotes, voterCnt, marketResult, voteLog,
                refusedVotes, marketCalls>>

NoResult == [yes |-> 0, no |-> 0, voters |-> 0, threshold |-> 0, minorityWins |-> FALSE,
             set |-> FALSE]

MarketInit ==
    /\ marketStatus = "unset"
    /\ usedNullifiers = FALSE
    /\ totalVotes = 0 /\ voterCnt = 0
    /\ marketResult = NoResult
    /\ voteLog = <<>>
    /\ refusedVotes = {}
    /\ marketCalls = 0

CallCounted == marketCalls < MaxCalls /\ marketCalls' = marketCalls + 1
IsOpen == marketStatus \in {"unset", "open"}

Initialize ==
    /\ CallCounted
    /\ marketStatus' = "open"
    /\ totalVotes' = 0 /\ voterCnt' = 0
    /\ UNCHANGED <<usedNullifiers, marketResult, voteLog, refusedVotes>>

\* verify_groth16 against the caller's key: the number of inputs of the key,
\* then the statement the proof was made for.
VerifyGroth16(proof, inputs, icLen) == Len(inputs) + 1 = icLen /\ proof = inputs

MarkUsed(n) == usedNullifiers' = TRUE

SubmitVote(nullifier, commitment, proof, icLen) ==
    /\ CallCounted
    /\ IsOpen
    /\ ~usedNullifiers
    /\ VerifyGroth16(proof, <<nullifier, commitment>>, icLen)
    /\ totalVotes < U32Max /\ voterCnt < U32Max
    /\ MarkUsed(nullifier)
    /\ totalVotes' = totalVotes + 1
    /\ voterCnt' = voterCnt + 1
    /\ voteLog' = Append(voteLog, nullifier)
    /\ UNCHANGED <<marketStatus, marketResult, refusedVotes>>

\* The same call with a valid proof, refused as "Nullifier already used".
RefuseVote(nullifier, commitment, proof, icLen) ==
    /\ CallCounted
    /\ IsOpen
    /\ usedNullifiers
    /\ VerifyGroth16(proof, <<nullifier, commitment>>, icLen)
    /\ refusedVotes' = refusedVotes \cup {nullifier}
    /\ UNCHANGED <<marketStatus, usedNullifiers, totalVotes, voterCnt, marketResult, voteLog>>

Minority(yes, no) == IF yes < no THEN yes ELSE no

\* Mutant: the product wraps.
WrapsSilently(minority) == TRUE
\* The product must fit 32 bits: the build checks overflow.
PctFits(minority) == minority * 100 <= U32Max
Pct(minority, voters) ==
    ((minority * 100) % (U32Max + 1)) \div (IF voters = 0 THEN 1 ELSE voters)

Resolve(yes, no, voters, threshold) ==
    LET minority == Minority(yes, no)
    IN  /\ CallCounted
        /\ IsOpen
        /\ PctFits(minority)
        /\ marketResult' =
             [yes |-> yes, no |-> no, voters |-> voters, threshold |-> threshold,
              minorityWins |-> Pct(minority, voters) >= threshold, set |-> TRUE]
        /\ marketStatus' = "resolved"
        /\ UNCHANGED <<usedNullifiers, totalVotes, voterCnt, voteLog, refusedVotes>>

CloseMarket ==
    /\ CallCounted
    /\ marketStatus' = "closed"
    /\ UNCHANGED <<usedNullifiers, totalVotes, voterCnt, marketResult, voteLog, refusedVotes>>

VoteProofs == VoteNullifiers \X VoteChoices

MarketNext ==
    \/ Initialize
    \/ \E n \in VoteNullifiers, c \in VoteChoices, p \in VoteProofs, len \in {2, 3} :
           SubmitVote(n, c, p, len) \/ RefuseVote(n, c, p, len)
    \/ \E yes \in Tallies, no \in Tallies, voters \in Tallies, threshold \in {30, 50, 51} :
           Resolve(yes, no, voters, threshold)
    \/ CloseMarket

MarketSpec == MarketInit /\ [][MarketNext]_marketVars

(***************************************************************************)
(* Properties                                                              *)
(***************************************************************************)
\* A decision is the exact comparison of the minority's share with the
\* threshold, at every tally up to the largest: the truncated percentage and
\* the 32-bit product never change it.
MinorityDecided ==
    marketResult.set =>
        LET voters == IF marketResult.voters = 0 THEN 1 ELSE marketResult.voters
        IN  marketResult.minorityWins <=>
              Minority(marketResult.yes, marketResult.no) * 100 >= marketResult.threshold * voters

\* A voter whose nullifier was never used is not turned away as a double voter
\* (submit_vote: the nullifier is a "Unique hash to prevent double-voting").
FreshNullifierVotes == \A n \in refusedVotes : \E i \in DOMAIN voteLog : voteLog[i] = n
=============================================================================
