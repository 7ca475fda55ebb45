CONSTANTS
  Pages = {p}
  Slots = {0}
  Value = {v}
  Nil = Nil
  NoTxn = NoTxn
  Concurrent = FALSE
  PowerLoss = FALSE
  FetchFails = TRUE
  CrashInWindow = FALSE
  CrashAhead = FALSE
  MaxLsn = 5
  MaxTxn = 1
  MaxCkpt = 0
  MaxCrash = 1
SPECIFICATION Spec
INVARIANT CommittedVisible
SYMMETRY Symmetry
