SPECIFICATION FairSpec
CONSTANTS
  AddrBits = 2
  Data = {d1, d2}
  NoData = NoData
INVARIANTS FillNeverOverstated
PROPERTIES ImplementsQueue EventuallyVisible
