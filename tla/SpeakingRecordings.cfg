\* Two parts, each recorded up to twice, under two workers, one of which may crash or
\* lose its lease.
SPECIFICATION Spec
CONSTANTS
  a1 = a1
  Attempts = {a1}
  Parts = {p1, p2}
  AttemptOf <- OneAttempt
  Workers = {w1, w2}
  Tabs = {t1}
  Blank = blank
  Typed = typed
  None = none
  MaxTries = 1
  MaxRevision = 2
  MaxFaults = 1
SYMMETRY Symmetry
INVARIANTS
  TranscriptIsNewest
  GradedOnce
PROPERTIES
  RowsSafety
