\* Times of 1 and 1.5 seconds, one that a float of two bits rounds up, and one
\* that outgrows an int when it is doubled; rows that last up to eight times as
\* long, or longer than the longest time.  One unit is half a second.
SPECIFICATION FairSpec
CONSTANTS
  Word = 1024
  count = 2
  Second = 2
  IntWord = 512
  FloatBits = 2
  Intervals = {2, 3, 7, 200}
  Requests = {0, 1, 3, 5}
  Elapsed = {1, 4, 13, 300}
  Advances <- SomeAdvances
  MaxRows = 2
  Faults = {"device", "clock"}
INVARIANTS
  TypeOK
  RowsAreGrowth
  MetricsAgree
  EverySampleAccounted
PROPERTIES
  RunNotProlonged
  FiniteRunEnds
