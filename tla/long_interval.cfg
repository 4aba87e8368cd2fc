\* A sampling time that outgrows an int when it is doubled.
SPECIFICATION Spec
CONSTANTS
  Word = 1024
  count = 1
  Second = 2
  IntWord = 512
  FloatBits = 4
  Intervals = {200}
  Requests = {3}
  Elapsed = {1, 300}
  Advances <- OneAdvance
  MaxRows = 2
  Faults = {}
INVARIANT NoSampleLost
