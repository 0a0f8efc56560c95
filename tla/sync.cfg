SPECIFICATION FairSpec
CONSTANTS
  Image = {i1, i2}
  NoRow = norow
  Filename = {f1, f2}
  Tag = {print, like}
  PrintTag = print
  Manual = {m1}
  Ticker = ticker
  MaxChanges = 1
  MaxManual = 1
  MaxFaults = 1
  Faults = {"query", "download", "stall", "write", "cut", "list", "remove", "crash"}
INVARIANTS CalmRunExact
PROPERTIES ExportSettles
