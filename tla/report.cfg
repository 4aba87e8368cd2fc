\* Two runs that print to the same file, each of which may be killed anywhere.
SPECIFICATION Spec
CONSTANTS
  Numeral <- Numbers
  TooLong <- Long
  Commands <- TwoRuns
  OutFile = "out.csv"
  Machines <- Sockets
  MaxRows = 2
INVARIANTS
  TypeOK
  AskedIsDone
  RowsSurvive
  RowsFitHeader
  CutOnlyAtEnd
