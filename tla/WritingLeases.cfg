\* Two attempts, two workers that crash or lose a write; a live worker keeps its lease.
SPECIFICATION FairSpec
CONSTANTS
  Attempts = {a1, a2}
  Workers = {w1, w2}
  Tabs = {t1}
  Texts = {x1}
  Blank = blank
  None = none
  MaxTries = 2
  MaxFaults = 1
  MaxStalls = 0
PROPERTIES
  StudentTextKept
  PromiseKept
