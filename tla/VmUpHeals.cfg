SPECIFICATION UpSpec
CONSTANTS
  MaxNodes = 1
  Capacity = 1
  Addrs = {a1, a2}
  Ids = {1, 2, 3, 4, 5}
  Keys = {1, 2, 3, 4}
  None = None
  Hazards = {"abort", "poweroff", "reboot"}
  MaxFaults = 2
PROPERTIES FirstUpConverges
