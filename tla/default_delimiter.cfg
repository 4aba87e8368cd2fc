\* The command lines of the report's runs, up to the opening of the file.
SPECIFICATION Spec
CONSTANTS
  Numeral <- Numbers
  TooLong <- Long
  Commands <- TwoRuns
  OutFile = "out.csv"
  Machines <- Sockets
  MaxRows = 1
INVARIANT DelimiterAsHelped
