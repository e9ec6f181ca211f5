CONSTANTS
  Targets = {t1}
  Runs = {r1, r2, r3, r4}
  None = None
  MaxArms = 3
  MaxRestarts = 2
  Users = "patient"
SPECIFICATION Spec
SYMMETRY RunSymmetry
PROPERTY FiresOnlyArmed
PROPERTY CancelledBeforeSent
PROPERTY SettledIsFinal
PROPERTY ImplementsLifecycle
