CONSTANTS
  Pages = {p, q}
  Slots = {0}
  Value = {v}
  Nil = Nil
  NoTxn = NoTxn
  Concurrent = FALSE
  PowerLoss = FALSE
  FetchFails = FALSE
  CrashInWindow = FALSE
  CrashAhead = FALSE
  MaxLsn = 6
  MaxTxn = 2
  MaxCkpt = 1
  MaxCrash = 1
SPECIFICATION Spec
INVARIANTS TypeOK CommittedVisible AnalysisExact RedoComplete WrittenIsLogged
SYMMETRY Symmetry
