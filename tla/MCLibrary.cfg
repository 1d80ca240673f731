INIT MCInit
NEXT MCNext
CONSTANTS
  MaxNotes = 5
  MaxValue = 5
  TransactionLimit = 4
  IterationLimit = 6
  Byte = 8
  LimbBytes = 1
  Modulus = 769
  MaxExt = 512
  Amounts = {0, 20, 32, 63, 64}
  Exts = {0, 20, 31, 32}
  Blinds = {9}
  HashPrime = 13
  HashWidths = {2, 3, 4, 8}
  HashDigits = {0, 1, 6, 13}
  HalfFull = 1
  PartialRounds = 2
  MaxEdits = 1
  MaxSetups = 3
  MaxFaults = 2
  Zkeys = {z1, z2}
  MaxDraws = 1
  MaxRecompiles = 1
  MaxForced = 1
INVARIANTS SelectionRight PlanRuns ProvedIffAccepted HashesSound ArtifactsAgree KeysAgree
CHECK_DEADLOCK FALSE
