SPECIFICATION Spec
CONSTANTS
  MaxNodes = 1
  Capacity = 1
  Addrs = {a1}
  Ids = {1, 2, 3, 4}
  Keys = {1, 2, 3, 4}
  None = None
  Hazards = {"libvirtd"}
  MaxFaults = 1
SYMMETRY Symmetry
INVARIANTS RemovedMeansNoVm
