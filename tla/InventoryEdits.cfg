SPECIFICATION Spec
CONSTANTS
  Clis = {t1, t2}
  Names = {n1, n2}
  Optional = {"port"}
  Good = {v1}
  Bad = Bad
  MaxEdits = 1
  MaxCuts = 1
  None = None
SYMMETRY Symmetry
INVARIANTS TypeOK CheckedOrByHand
PROPERTIES BookKept UnreadableUntouched
