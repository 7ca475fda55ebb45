CONSTANTS
  Data = {"marker", "update"}
  Size <- MCSize
  MaxRecords = 4
SPECIFICATION TornSpec
INVARIANT FlushedIsDurable
