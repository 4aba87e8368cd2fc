\* One session in which anything may fail.
SPECIFICATION Spec
CONSTANTS
  Readers = {r1, r2}
  count = 2
  MaxStarts = 1
  MaxInterval = 3
  Kinds = {"perf", "health"}
  Faults = {"start", "alloc", "device", "slow"}
  Client = {}
  r1 = r1
  r2 = r2
INVARIANTS
  TypeOK
  ReaderBufferSafe
  ReleaseOnce
  ReadAfterFirstWrite
  SnapshotOrFailed
  WholeInv
  StopIsAnswered
  ReadIsAnswered
  LockHasHolder
PROPERTY FeedSpec
