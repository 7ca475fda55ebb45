CONSTANTS
  PoolSize = 2
  MaxPages = 3
  MaxLsn = 2
  Handles = {g, h}
  NoPage = NoPage
  NoFrame = NoFrame
  FailingWrites = {"flush_all_pages"}
SPECIFICATION Spec
INVARIANT CleanIsOnDisk
SYMMETRY Symmetry
