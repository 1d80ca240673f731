------------------------------- MODULE MCPool -------------------------------
(* Values for the constants of Pool that a .cfg file cannot write.         *)
EXTENDS PoolRefinement

CONSTANTS alice, pool, u1, u2

OneUser == {u1}
TwoUsers == {u1, u2}

Ext(amount, recipient) == [ext_amount |-> amount, recipient |-> recipient]

\* A deposit, a transfer, and withdrawals to an account and to the pool's own
\* address.
MCExt == {Ext(1, alice), Ext(0, alice), Ext(-1, alice), Ext(-1, pool)}
\* With two inputs up to two tokens move at once; three exceed the maximum.
MCExtPair == {Ext(1, alice), Ext(2, alice), Ext(3, alice), Ext(0, alice),
              Ext(-1, alice), Ext(-2, alice)}
MCExtZero == {Ext(0, alice)}

\* A tree that a prover made up: it contains a note nobody paid for.
MCForged == {<<[owner |-> u1, amount |-> 1], [owner |-> u1, amount |-> 0]>>}
NoForged == {}

AllMembers == {Users}
NoneBlocked == {{}}
AnyKeys == SUBSET Users
=============================================================================
