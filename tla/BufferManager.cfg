CONSTANTS
  PoolSize = 2
  MaxPages = 3
  MaxLsn = 2
  Handles = {g, h}
  NoPage = NoPage
  NoFrame = NoFrame
  FailingWrites = {"evict", "flush_page"}
SPECIFICATION Spec
INVARIANTS TypeOK PointerStable CleanIsOnDisk WalRule FramesAccountedFor
PROPERTY RefinesPageStore
SYMMETRY Symmetry
