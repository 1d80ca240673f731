SPECIFICATION Spec
CONSTANTS
  Levels = 2
  RootHistorySize = 2
  NIns = 2
  u1 = u1
  u2 = u2
  alice = alice
  pool = pool
  Users <- OneUser
  Accounts = {alice, pool}
  PoolAddr = pool
  MembershipAsps = {asp}
  NonMembershipAsps = {exc}
  MaxDeposit = 2
  AmountBound = 3
  I128Max = 2
  Field = 17
  Supply = 2
  NoteAmounts = {0, 1, 2}
  ExtTried <- MCExtPair
  DummyPaths = {0, 1, 2}
  ForgedRoots <- NoForged
  MemberRootsTried <- AllMembers
  BlockedRootsTried <- NoneBlocked
  NoRoot = NoRoot
INVARIANTS Solvency
PROPERTIES ImplementsLedger
