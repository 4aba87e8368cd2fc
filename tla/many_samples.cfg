\* A run of one second for each of more samples than an int can hold once they
\* are multiplied with a few seconds.
SPECIFICATION Spec
CONSTANTS
  Word = 1024
  count = 1
  Second = 2
  IntWord = 64
  FloatBits = 4
  Intervals = {4}
  Requests = {30}
  Elapsed = {1, 5}
  Advances <- OneAdvance
  MaxRows = 2
  Faults = {}
INVARIANT NoSampleLost
