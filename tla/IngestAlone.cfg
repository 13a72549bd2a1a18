\* One worker, a file and a URL: uploads, a change of embedder and failures, one
\* after the other.
SPECIFICATION Spec
CONSTANTS
  None = None
  e1 = e1
  e2 = e2
  c1 = c1
  c2 = c2
  file = file
  url = url
  w1 = w1
  Embedders = {e1, e2}
  Chunkers = {c1}
  Sources = {file, url}
  Urls = {url}
  ChatScoped = {}
  Workers = {w1}
  Dim <- OtherSize
  Faults = {"crash", "save", "download", "parse", "embed"}
  Removals = {}
  MaxCopies = 2
  MaxUploads = 2
  MaxSwitches = 1
  MaxFaults = 1
\* Once every upload is done and nobody asks for anything, nothing happens.
CHECK_DEADLOCK FALSE
INVARIANTS CompletedAfterPass
