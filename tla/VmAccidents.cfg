SPECIFICATION Spec
CONSTANTS
  MaxNodes = 3
  Capacity = 2
  Addrs = {a1, a2}
  Ids = {1, 2, 3, 4, 5}
  Keys = {1, 2, 3, 4}
  None = None
  Hazards = {"abort", "libvirtd", "losekey", "handinstall", "undefine"}
  MaxFaults = 2
SYMMETRY Symmetry
INVARIANTS ReserveNeverClashes BuildsInPlan ReadyMeansOneCluster
PROPERTIES NothingLostUnasked LifecycleKept
