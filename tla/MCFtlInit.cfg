SPECIFICATION Spec
CONSTANTS
  s1 = s1
  s2 = s2
  v1 = v1
  v2 = v2
  w1 = w1
  Zero = Zero
  None = None
  NUnit = 3
  NBlock = 2
  Sectors = {s1, s2}
  Values = {v1, v2}
  Writers = {w1}
  MaxCrash = 1
INVARIANT Mounts
CHECK_DEADLOCK FALSE
