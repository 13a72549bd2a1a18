SPECIFICATION Spec
CONSTANTS
  None = None
  Pods = {p1, p2}
  Plugins = {x}
  Agents = {a}
  Installed = {x}
  Slots = {k1, k2}
  Requests = {"install", "uninstall", "toggle", "agent", "visit"}
  Reinstalls = TRUE
  MaxRequests = 2
  MaxCrashes = 1
\* Once the bounded requests are served, only the listeners poll.
CHECK_DEADLOCK FALSE
SYMMETRY TaskSymmetry
PROPERTIES HandlersInOrder
