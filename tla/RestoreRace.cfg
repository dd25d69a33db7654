SPECIFICATION Spec
CONSTANTS
  r1 = r1
  r2 = r2
  o1 = o1
  o2 = o2
  None = None
  Restorer <- OneRestorer
  Opener <- Openers
  Overlap = TRUE
  MaxFaults = 0
SYMMETRY RestoreSymmetry
INVARIANTS NoForeignSidecar
