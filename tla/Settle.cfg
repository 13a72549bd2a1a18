\* Files settle, whatever fails.
SPECIFICATION FairSpec
CONSTANTS
  None = None
  e1 = e1
  e2 = e2
  c1 = c1
  c2 = c2
  file = file
  w1 = w1
  Embedders = {e1}
  Chunkers = {c1, c2}
  Sources = {file}
  Urls = {}
  ChatScoped = {}
  Workers = {w1}
  Dim <- SameSize
  Faults = {"crash", "save", "parse", "embed"}
  Removals = {"delete", "dismiss", "reconcile"}
  MaxCopies = 2
  MaxUploads = 2
  MaxSwitches = 1
  MaxFaults = 2
\* Once every upload is done and nobody asks for anything, nothing happens.
CHECK_DEADLOCK FALSE
PROPERTIES FilesSettle
