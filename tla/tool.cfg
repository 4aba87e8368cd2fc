\* Both ways to call the tool, and everything that may go wrong.
SPECIFICATION Spec
CONSTANTS
  Hardware <- Machines
  IntWord = 32
  Options = {"avail", "collect"}
  Faults = {"user", "context", "number", "devices", "alloc"}
INVARIANTS
  TypeOK
  DevicesInUse
  FreedOnce
  ReleasedAtExit
  SuccessIsEarned
  EveryDimmReported
