\* One part under two workers, one of which may crash or lose its lease: everything
\* that is queued ends.
SPECIFICATION FairSpec
CONSTANTS
  a1 = a1
  Attempts = {a1}
  Parts = {p1}
  AttemptOf <- OneAttempt
  Workers = {w1, w2}
  Tabs = {t1}
  Blank = blank
  Typed = typed
  None = none
  MaxTries = 2
  MaxRevision = 1
  MaxFaults = 1
PROPERTIES
  QueuesServed
