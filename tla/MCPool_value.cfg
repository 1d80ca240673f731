SPECIFICATION Spec
CONSTANTS
  Levels = 3
  RootHistorySize = 2
  NIns = 1
  u1 = u1
  u2 = u2
  alice = alice
  pool = pool
  Users <- OneUser
  Accounts = {alice, pool}
  PoolAddr = pool
  MembershipAsps = {asp}
  NonMembershipAsps = {exc}
  MaxDeposit = 1
  AmountBound = 2
  I128Max = 1
  Field = 9
  Supply = 1
  NoteAmounts = {0, 1, 8}
  ExtTried <- MCExt
  DummyPaths = {0, 1, 2}
  ForgedRoots <- MCForged
  MemberRootsTried <- AllMembers
  BlockedRootsTried <- NoneBlocked
  NoRoot = NoRoot
INVARIANTS TypeOK HistoryWindow NullifierPublishedOnce EventsRebuildTree WithdrawalWhileRoom
PROPERTIES ImplementsLedger
