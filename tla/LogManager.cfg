CONSTANTS
  Data = {"marker", "update"}
  Size <- MCSize
  MaxRecords = 5
SPECIFICATION Spec
INVARIANTS TypeOK LsnIsPosition FlushedIsDurable IndexAccurate
PROPERTY RefinesDurableLog
