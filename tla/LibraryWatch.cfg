SPECIFICATION FairSpec
CONSTANTS
  Root = root
  Sub = {s1}
  MaxChanges = 2
  MaxScans = 1
  MaxBoots = 2
  MaxTime = 2
  Retention = 5
INVARIANT NoForgottenChange
PROPERTY
  ChangesAreIndexed
