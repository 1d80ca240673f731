SPECIFICATION Spec
CONSTANTS
  Levels = 1
  RootHistorySize = 2
  NIns = 2
  u1 = u1
  u2 = u2
  alice = alice
  pool = pool
  Users <- TwoUsers
  Accounts = {alice, pool}
  PoolAddr = pool
  MembershipAsps = {asp, asp2}
  NonMembershipAsps = {exc}
  MaxDeposit = 1
  AmountBound = 2
  I128Max = 1
  Field = 11
  Supply = 0
  NoteAmounts = {0}
  ExtTried <- MCExtZero
  DummyPaths = {0, 1}
  ForgedRoots <- NoForged
  MemberRootsTried <- AnyKeys
  BlockedRootsTried <- AnyKeys
  NoRoot = NoRoot
PROPERTIES SpendsFollowPolicy
