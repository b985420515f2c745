\* Crashes, lost writes and leases that lapse under live workers.
SPECIFICATION FairSpec
CONSTANTS
  Attempts = {a1}
  Workers = {w1, w2}
  Tabs = {t1, t2}
  Texts = {x1}
  Blank = blank
  None = none
  MaxTries = 3
  MaxFaults = 1
  MaxStalls = 2
INVARIANTS
  TypeOK
  NeverStranded
  GradedOnce
PROPERTIES
  ClosedIsFinal
  RowsSafety
  JobSettles
