SPECIFICATION DownSpec
CONSTANTS
  MaxNodes = 1
  Capacity = 1
  Addrs = {a1}
  Ids = {1, 2, 3, 4}
  Keys = {1, 2, 3, 4}
  None = None
  Hazards = {"abort", "halfinstall", "undefine", "libvirtd"}
  MaxFaults = 2
PROPERTIES StepsForward CommandsEnd DownConverges
