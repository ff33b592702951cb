CONSTANTS
  Jobs = {j1}
  Ops = {}
  Configs = {c1}
  Agents = {a1}
  None = None
  MaxFaults = 0
CHECK_DEADLOCK FALSE
SPECIFICATION Spec
INVARIANT ConfigsExcludeUpdater
