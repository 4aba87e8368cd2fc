\* A slow interval as Stop is called.
SPECIFICATION Spec
CONSTANTS
  Readers = {r1}
  count = 2
  MaxStarts = 1
  MaxInterval = 2
  Kinds = {"perf"}
  Faults = {"slow"}
  Client = {}
  r1 = r1
  r2 = r2
INVARIANT FileOpenWhenUsed
