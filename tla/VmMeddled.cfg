SPECIFICATION Spec
CONSTANTS
  MaxNodes = 2
  Capacity = 2
  Addrs = {a1, a2, a3}
  Ids = {1, 2, 3, 4}
  Keys = {1, 2, 3, 4}
  None = None
  Hazards = {"abort", "halfinstall", "undefine", "poweroff", "reboot"}
  MaxFaults = 2
SYMMETRY Symmetry
INVARIANTS TypeOK FreshVmTrusted ReadyMeansEnterable ForwardingFollowsServer AddressesLeadHome RemovedMeansGone
PROPERTIES UpLeavesNodesAlone
