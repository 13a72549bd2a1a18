SPECIFICATION FairSpec
CONSTANTS
  None = None
  Pods = {p1, p2}
  Plugins = {x, y}
  Agents = {a}
  Installed = {}
  Slots = {k1}
  Requests = {"install"}
  Reinstalls = FALSE
  MaxRequests = 2
  MaxCrashes = 0
\* Once the bounded requests are served, only the listeners poll.
CHECK_DEADLOCK FALSE
INVARIANTS InstallsAgree
PROPERTIES Spread
