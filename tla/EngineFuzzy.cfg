CONSTANTS
  Pages = {p}
  Slots = {0}
  Value = {v}
  Nil = Nil
  NoTxn = NoTxn
  Concurrent = TRUE
  PowerLoss = FALSE
  FetchFails = FALSE
  CrashInWindow = FALSE
  CrashAhead = FALSE
  MaxLsn = 5
  MaxTxn = 1
  MaxCkpt = 1
  MaxCrash = 1
SPECIFICATION Spec
INVARIANT LosersOnly
SYMMETRY Symmetry
