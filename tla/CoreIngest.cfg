SPECIFICATION FairSpec
CONSTANTS
  None = None
  e1 = e1
  e2 = e2
  e3 = e3
  Agents = {a, b}
  Chats = {c}
  Sources = {f, g}
  Urls = {g}
  Uploads = {u1}
  Embedders = {e1, e3}
  Size <- MCSize
  MaxConcurrency = 1
  MaxUploads = 2
  MaxChanges = 1
  MaxFaults = 1
CHECK_DEADLOCK FALSE
INVARIANTS GoesHome PermitsMatch PassRestores BeatsStop
PROPERTIES ComesToRest
