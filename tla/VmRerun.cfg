SPECIFICATION UpSpec
CONSTANTS
  MaxNodes = 1
  Capacity = 1
  Addrs = {a1}
  Ids = {1, 2, 3, 4, 5}
  Keys = {1, 2, 3, 4}
  None = None
  Hazards = {}
  MaxFaults = 0
PROPERTIES UpConverges
