INIT MCInit
NEXT MCNext
CONSTANTS
  Levels = 3
  Zero = Zero
  RootHistorySize = 3
  Commitment = {c1, c2, c3}
  NoRoot = NoRoot
  MembershipLeaf = {Zero, k1}
  MembershipAddress = {a1, a2}
  Bits = 4
  Keys <- MCKeys
  Values = {0, 1}
  Entries <- MCEntries
  Address = {a1, a2}
  SmtLevels = 3
  SmtValues = {1, 2}
  MaxSmtNodes = 9
  VoteNullifiers = {n1, n2}
  VoteChoices = {v1}
  Tallies = {0, 1, 3, 10, 11, 1023}
  U32Max = 1023
  MaxCalls = 4
  Owners = {o1, o2}
  KeyPairs = {"p1", "p2"}
  MaxRegistrations = 4
  MaxKeyLedger = 3
  BookLimit = 1
INVARIANTS TreesAgree ApprovalsProvable SparseTreesAgree ExclusionDecided MinorityDecided BookIsCurrent
CHECK_DEADLOCK FALSE
