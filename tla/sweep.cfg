CONSTANTS
  e1 = e1
  e2 = e2
  e3 = e3
  h1 = h1
  h2 = h2
  h3 = h3
  Buckets <- MCBuckets
  Pools <- MCPools
  Picked = 3
  First = 2
  PerBucket = 1
  Ns <- MCNs
  MaxStarts = 4
  MaxEvals = 2
SPECIFICATION SweepSpec
SYMMETRY MCSymmetry
CHECK_DEADLOCK FALSE
INVARIANTS
  RateIsOfItsStart
  BatchesAreStratified
