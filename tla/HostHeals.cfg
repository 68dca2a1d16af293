SPECIFICATION FairSpec
CONSTANTS
  Addrs = {a1, a2}
  Hazards = {"abort", "halfinstall", "noop", "stubborn", "norenew",
             "unreadable", "reboot", "move", "edit", "handinstall"}
  MaxFaults = 3
  None = None
INVARIANTS TypeOK ReadyMeansCovered RemovedMeansGone
PROPERTIES ForeignConfigKept OneDistribution LifecycleKept StepsForward AddressHeals
