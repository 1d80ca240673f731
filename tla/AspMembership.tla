--------------------------- MODULE AspMembership ---------------------------
(***************************************************************************)
(* The ASP membership contract (contracts/asp-membership): an append-only  *)
(* Merkle tree of approved keys, leaf Poseidon2(publicKey, blinding).      *)
(* A call that fails changes nothing.                                      *)
(***************************************************************************)
EXTENDS MerkleTree

CONSTANTS MembershipLeaf, MembershipAddress

VARIABLES
  membershipAdmin,      \* Admin
  adminInsertOnly,      \* AdminInsertOnly
  filledSubtrees,       \* FilledSubtrees(lvl)
  membershipNextIndex,  \* NextIndex
  membershipRoot,       \* Root
  membershipEvents      \* LeafAdded events, oldest first

membershipVars == <<membershipAdmin, adminInsertOnly, filledSubtrees, membershipNextIndex,
                    membershipRoot, membershipEvents>>

\* __constructor
MembershipInit ==
  /\ membershipAdmin \in MembershipAddress
  /\ adminInsertOnly = TRUE
  /\ filledSubtrees = Zeroes
  /\ membershipNextIndex = 0
  /\ membershipRoot = Zeroes[Levels]
  /\ membershipEvents = <<>>

UpdateMembershipAdmin(caller, newAdmin) ==
  /\ caller = membershipAdmin
  /\ membershipAdmin' = newAdmin
  /\ UNCHANGED <<adminInsertOnly, filledSubtrees, membershipNextIndex, membershipRoot,
                 membershipEvents>>

SetAdminInsertOnly(caller, adminOnly) ==
  /\ caller = membershipAdmin
  /\ adminInsertOnly' = adminOnly
  /\ UNCHANGED <<membershipAdmin, filledSubtrees, membershipNextIndex, membershipRoot,
                 membershipEvents>>

\* Mutant: the event carries the root before the insertion.
LeafAddedEarly(leaf, top) == [leaf |-> leaf, index |-> membershipNextIndex, root |-> membershipRoot]

LeafAdded(leaf, top) == [leaf |-> leaf, index |-> membershipNextIndex, root |-> top.hash]

InsertMembershipLeaf(caller, leaf) ==
  /\ adminInsertOnly => caller = membershipAdmin
  /\ membershipNextIndex < TwoTo[Levels]
  /\ LET top == Climb(filledSubtrees, leaf, membershipNextIndex, 0)
     IN  /\ filledSubtrees' = top.filled
         /\ membershipRoot' = top.hash
         /\ membershipEvents' = Append(membershipEvents, LeafAdded(leaf, top))
  /\ membershipNextIndex' = membershipNextIndex + 1
  /\ UNCHANGED <<membershipAdmin, adminInsertOnly>>

MembershipNext ==
  \/ \E a, b \in MembershipAddress : UpdateMembershipAdmin(a, b)
  \/ \E a \in MembershipAddress, flag \in BOOLEAN : SetAdminInsertOnly(a, flag)
  \/ \E a \in MembershipAddress, leaf \in MembershipLeaf : InsertMembershipLeaf(a, leaf)

MembershipSpec == MembershipInit /\ [][MembershipNext]_membershipVars

-----------------------------------------------------------------------------
ApprovedLeaves == [i \in 1..Len(membershipEvents) |-> membershipEvents[i].leaf]

\* Each LeafAdded event carries the root of the leaves announced so far, at
\* consecutive indices: a client that replays the events can check every
\* root it is given, and ends with the root get_root returns.
EventRootsAgree ==
  /\ membershipNextIndex = Len(membershipEvents)
  /\ \A k \in 1..Len(membershipEvents) :
       /\ membershipEvents[k].index = k - 1
       /\ membershipEvents[k].root = PrefixRoot(SubSeq(ApprovedLeaves, 1, k))
  /\ membershipRoot = PrefixRoot(ApprovedLeaves)

\* Approval is permanent: the path a prover derives from the events proves
\* every approved leaf against the current root, whatever was added since.
ApprovalProvable ==
  \A i \in 0..(membershipNextIndex - 1) :
    CircuitRoot(ApprovedLeaves[i + 1], PathElements(ApprovedLeaves, i), i) = membershipRoot

\* From the events of the membership contract alone a wallet can follow its
\* roots and prove every approval.
ApprovalsProvable == EventRootsAgree /\ ApprovalProvable
=============================================================================
