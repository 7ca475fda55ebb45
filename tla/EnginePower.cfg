CONSTANTS
  Pages = {p}
  Slots = {0, 1}
  Value = {v, w}
  Nil = Nil
  NoTxn = NoTxn
  Concurrent = FALSE
  PowerLoss = TRUE
  FetchFails = FALSE
  CrashInWindow = FALSE
  CrashAhead = FALSE
  MaxLsn = 5
  MaxTxn = 1
  MaxCkpt = 0
  MaxCrash = 2
SPECIFICATION Spec
INVARIANTS CommittedVisible CommitForced WrittenIsLogged RedoComplete UndoneOnce
SYMMETRY Symmetry
