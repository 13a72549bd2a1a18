SPECIFICATION Spec
CONSTANTS
  None = None
  Pods = {p1}
  Plugins = {x, y}
  Agents = {a}
  Installed = {}
  Slots = {k1}
  Requests = {"install", "uninstall", "toggle", "agent", "visit"}
  Reinstalls = FALSE
  MaxRequests = 5
  MaxCrashes = 2
\* Once the bounded requests are served, only the listeners poll.
CHECK_DEADLOCK FALSE
SYMMETRY PluginSymmetry
INVARIANTS Bootable CachesMatch AgentsLoad
