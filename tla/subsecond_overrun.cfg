\* A quarter of a second, and a row that takes twice as long.
SPECIFICATION Spec
CONSTANTS
  Word = 1024
  count = 1
  Second = 4
  IntWord = 512
  FloatBits = 4
  Intervals = {1}
  Requests = {3}
  Elapsed = {1, 2}
  Advances <- OneAdvance
  MaxRows = 2
  Faults = {}
INVARIANT NeverCrashes
