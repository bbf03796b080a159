SPECIFICATION FairSpec
CONSTANTS
  Reqs = {r1, r2}
  MaxRows = 2
  MaxRepeats = 0
PROPERTIES DriftNeverPersists
