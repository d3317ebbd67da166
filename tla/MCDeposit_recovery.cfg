CONSTANTS
  e1 = e1
  k1 = k1
  k2 = k2
  Events = {e1}
  Workers = {k1, k2}
  MinConfirmations = 1
  MaxAttempts = 2
  MaxFaults = 1
SPECIFICATION FairSpec
CHECK_DEADLOCK FALSE
PROPERTY DetectedIsCredited
