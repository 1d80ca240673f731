CONSTANTS
  VoteNullifiers = {n1, n2}
  VoteChoices = {c1}
  Tallies = {0, 1, 3, 10, 11, 1023}
  U32Max = 1023
  MaxCalls = 4
SPECIFICATION MarketSpec
INVARIANT FreshNullifierVotes
CHECK_DEADLOCK FALSE
