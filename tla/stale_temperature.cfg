\* Two DIMMs, one interval, and a page that does not give every temperature.
SPECIFICATION Spec
CONSTANTS
  count = 2
  Pages <- SomePages
  Half = 8
  Unset = Unset
  MaxRows = 1
  Faults = {}
INVARIANT TemperaturesAreOwn
