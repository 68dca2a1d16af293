SPECIFICATION Spec
CONSTANTS
  Targets = {t1, t2}
  Foreign = {f1}
  Creds = {c1}
  MaxEdits = 2
  MaxCuts = 1
  None = None
SYMMETRY Symmetry
INVARIANTS TypeOK OurPointerResolves BackupKeepsOriginal DownUndoesUp
PROPERTIES OthersUntouched
