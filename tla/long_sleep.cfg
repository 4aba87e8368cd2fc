\* A sampling time beyond an unsigned int.
SPECIFICATION Spec
CONSTANTS
  Word = 1024
  count = 1
  Second = 2
  IntWord = 128
  FloatBits = 4
  Intervals = {300}
  Requests = {3}
  Elapsed = {1}
  Advances <- OneAdvance
  MaxRows = 2
  Faults = {}
INVARIANT SleepsAsTold
