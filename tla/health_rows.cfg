\* Two DIMMs, three intervals, full and partial pages; printed and stored.
SPECIFICATION Spec
CONSTANTS
  count = 2
  Pages <- SomePages
  Half = 8
  Unset = Unset
  MaxRows = 3
  Faults = {"device"}
INVARIANTS
  TypeOK
  OwnRow
  UsedIsOwn
  FileAndBufferAgree
