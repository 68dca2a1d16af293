SPECIFICATION Spec
CONSTANTS
  None = None
  Clis = {t1}
  Hosts <- OneHost
  MaxNodes = 2
  Hazards = {"abort"}
  MaxFaults = 1
INVARIANTS HostKeepsShare
