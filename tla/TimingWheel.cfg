SPECIFICATION WheelSpec
CONSTANTS
  w1 = w1
  w2 = w2
  Waiters = {w1, w2}
  Buckets = 3
  MaxTimeout = 3
  MaxTime = 6
SYMMETRY Symmetry
INVARIANTS NeverEarly FiresInTime NeverClosedTwice AlmostPunctual
CHECK_DEADLOCK FALSE
