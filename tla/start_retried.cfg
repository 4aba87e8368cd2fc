\* A failed Start followed by one that succeeds.
SPECIFICATION Spec
CONSTANTS
  Readers = {r1}
  count = 2
  MaxStarts = 2
  MaxInterval = 2
  Kinds = {"perf"}
  Faults = {"start"}
  Client = {"retry"}
  r1 = r1
  r2 = r2
INVARIANT CollectorBufferSafe
