CONSTANTS
  Targets = {t1}
  Runs = {r1, r2}
  None = None
  MaxArms = 1
  MaxRestarts = 1
  Users = "patient"
SPECIFICATION Spec
SYMMETRY RunSymmetry
INVARIANT NotFiredIsTrue
