SPECIFICATION Spec
CONSTANTS
  Users = {A, B}
  NoteMax = 7
  ExtMax = 3
  P = 19
  NoteAmounts = {1, 7}
  ExtAmounts = {0, 1, 2}
  MaximumDeposit = 1
  MaxExtAmount = 5
  RootsKept = 2
  MaxLeaves = 6
  Account = A
  Other = B
  Start <- StartDef
  MaxTx = 3
  RootHistory = 2
  Purposes = {"tax", "loan"}
  MaxReceipts = 1
INVARIANTS FlowsDecide NotesFound ReceiptsSound
PROPERTIES GenerationEnds
CHECK_DEADLOCK FALSE
