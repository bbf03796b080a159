SPECIFICATION FairSpec
CONSTANTS
  Reqs = {r1, r2, r3}
  MaxRows = 3
  MaxRepeats = 1
INVARIANTS TypeOK OvershootBounded CounterInv
PROPERTIES DriftHeals
