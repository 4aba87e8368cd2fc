\* Sessions one after the other, with the devices they read; none fails once
\* it is started.
SPECIFICATION DevicesSpec
CONSTANTS
  Readers = {r1}
  count = 2
  MaxStarts = 2
  MaxInterval = 3
  Kinds = {"perf"}
  Faults = {"start"}
  Client = {"overlap"}
  r1 = r1
  r2 = r2
INVARIANTS
  CollectorBufferSafe
  OneCollector
  SessionInv
  DevicesInSession
  FreedOnce
  OnlySuccessKeeps
  StopIsAnswered
