\* One upload of a file next to the sweep, the removals, and a crash.
SPECIFICATION Spec
CONSTANTS
  None = None
  e1 = e1
  e2 = e2
  c1 = c1
  c2 = c2
  file = file
  w1 = w1
  w2 = w2
  Embedders = {e1}
  Chunkers = {c1}
  Sources = {file}
  Urls = {}
  ChatScoped = {}
  Workers = {w1, w2}
  Dim <- SameSize
  Faults = {"crash"}
  Removals = {"delete", "dismiss", "reconcile"}
  MaxCopies = 2
  MaxUploads = 1
  MaxSwitches = 0
  MaxFaults = 1
\* Once every upload is done and nobody asks for anything, nothing happens.
CHECK_DEADLOCK FALSE
SYMMETRY WorkerSymmetry
INVARIANTS TypeOK AtMostOneCopy CompletedIsStored ClaimMutex
PROPERTIES SweepSparesLiveUploads
