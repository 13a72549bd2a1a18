SPECIFICATION Spec
CONSTANTS
  None = None
  Agents = {a, b}
  SubstringIds = {}
  Categories = {llm}
  Tasks = {t1, t2}
  Ops = {"create", "destroy", "reset", "replace", "use", "update", "clone", "factory"}
  Exclusive = {"reset", "clone", "factory", "use", "update", "create"}
  Uses = {"points"}
  Faults = {"vector", "files", "crash"}
  MaxRequests = 3
  MaxFaults = 1
  MaxOffers = 1
CHECK_DEADLOCK FALSE
SYMMETRY Symmetry
INVARIANTS DestroyLeavesOtherKeys ResetIsFresh SelectionKept GotEach CloneIsFaithful
