CONSTANTS
  User = "user"
  AuthExpiration = 1
  MaxU32 = 1000
  MaxSequence = 1000
  BaseFee = 100
  InitialNotes = 3
  Amounts = {3}
  Kinds = {"withdraw", "transact", "deposit", "register"}
  RootHistory = 2
  SnapshotAttempts = 2
  ConfirmPolls = 2
  MaxRequests = 2
  MaxOthers = 1
SPECIFICATION FairSpec
CHECK_DEADLOCK FALSE
INVARIANTS PaymentsKept RetryPaysOnce SentIsSound
 
