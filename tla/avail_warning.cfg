\* pmwatch -a on a machine whose devices libipmctl does not describe.
SPECIFICATION Spec
CONSTANTS
  Hardware <- Machines
  IntWord = 32
  Options = {"avail"}
  Faults = {"devices"}
INVARIANT WarningReadsDevices
