SPECIFICATION Spec
CONSTANTS
  None = None
  Clis = {t1, t2}
  Hosts <- SomeHosts
  MaxNodes = 2
  Hazards = {"abort", "torn", "lost", "netbusy", "reboot", "stop", "handtools"}
  MaxFaults = 1
SYMMETRY Symmetry
INVARIANTS TypeOK OneDistroPerPlace IncapableLeftAlone FoundationStands EvenClusterFits
PROPERTIES SetupSucceeds TenancyKept
