SPECIFICATION Spec
CONSTANTS
  Targets = {t1}
  Foreign = {f1}
  Creds = {c1}
  MaxEdits = 1
  MaxCuts = 1
  None = None
SYMMETRY Symmetry
INVARIANTS MergedMeansBackedUp
