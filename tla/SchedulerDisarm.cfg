CONSTANTS
  Targets = {t1}
  Runs = {r1, r2}
  None = None
  MaxArms = 2
  MaxRestarts = 0
  Users = "serial"
SPECIFICATION Spec
SYMMETRY RunSymmetry
PROPERTY FiresOnlyArmed
