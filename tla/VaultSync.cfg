\* One device: locks, saves, syncs, conflicts and crashes; no window that loses edits is hit.
SPECIFICATION Spec
CONSTANTS
  None = None
  Edits = {e1, e2}
  Prompts = {"password"}
  Pairings = {}
  MaxVersion = 3
  MaxQueue = 2
SYMMETRY EditSymmetry
CONSTRAINT Unexposed
INVARIANTS NothingSilentlyLost CleanMeansSynced
PROPERTY ImplementsSyncedVault
