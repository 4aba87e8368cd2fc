\* 1.9 seconds, for which a float of four bits has 2; one unit is a tenth of a
\* second.
SPECIFICATION Spec
CONSTANTS
  Word = 1024
  count = 1
  Second = 10
  IntWord = 512
  FloatBits = 4
  Intervals = {19}
  Requests = {3}
  Elapsed = {1, 30}
  Advances <- OneAdvance
  MaxRows = 2
  Faults = {}
PROPERTY NeverProlonged
