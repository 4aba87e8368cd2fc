\* An interval in which less is read than written.
SPECIFICATION Spec
CONSTANTS
  Word = 1024
  count = 1
  Second = 2
  IntWord = 512
  FloatBits = 4
  Intervals = {2}
  Requests = {3}
  Elapsed = {1}
  Advances <- MoreWritten
  MaxRows = 2
  Faults = {}
INVARIANT TotalTransacted
