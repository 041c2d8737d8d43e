SPECIFICATION Spec
CONSTANTS
  Procs = {p1, p2}
  MaxOpen = 1
  MaxCount = 3
  CANCELED = canceled
INVARIANTS PrinterSound NoEarlyDone
PROPERTIES FsReturns WriterAnswered
