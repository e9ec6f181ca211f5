CONSTANTS
  Targets = {t1}
  Runs = {r1, r2, r3}
  None = None
  MaxArms = 2
  MaxRestarts = 1
  Users = "any"
SPECIFICATION FairSpec
INVARIANT TypeOK
INVARIANT EntrySound
INVARIANT ArmedIsScheduled
PROPERTY Settles
