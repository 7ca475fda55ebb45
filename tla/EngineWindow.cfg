CONSTANTS
  Pages = {p}
  Slots = {0, 1}
  Value = {v}
  Nil = Nil
  NoTxn = NoTxn
  Concurrent = FALSE
  PowerLoss = FALSE
  FetchFails = FALSE
  CrashInWindow = TRUE
  CrashAhead = FALSE
  MaxLsn = 6
  MaxTxn = 1
  MaxCkpt = 1
  MaxCrash = 1
SPECIFICATION Spec
INVARIANT CommittedVisible
SYMMETRY Symmetry
