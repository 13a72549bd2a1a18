\* An upload into a conversation, the re-embed pass of an embedder with another
\* vector size, and the removal of the conversation.
SPECIFICATION Spec
CONSTANTS
  None = None
  e1 = e1
  e2 = e2
  c1 = c1
  c2 = c2
  file = file
  w1 = w1
  w2 = w2
  Embedders = {e1, e2}
  Chunkers = {c1}
  Sources = {file}
  Urls = {}
  ChatScoped = {file}
  Workers = {w1, w2}
  Dim <- OtherSize
  Faults = {}
  Removals = {"delete", "dismiss", "reconcile", "forget"}
  MaxCopies = 2
  MaxUploads = 1
  MaxSwitches = 1
  MaxFaults = 0
\* Once every upload is done and nobody asks for anything, nothing happens.
CHECK_DEADLOCK FALSE
SYMMETRY WorkerSymmetry
INVARIANTS CompletedIsEmbedded
