\* One lease lost by a live worker is enough to lose what the student saved.
SPECIFICATION Spec
CONSTANTS
  Attempts = {a1}
  Workers = {w1, w2}
  Tabs = {t1}
  Texts = {x1, x2}
  Blank = blank
  None = none
  MaxTries = 3
  MaxFaults = 0
  MaxStalls = 1
SYMMETRY Symmetry
PROPERTIES
  StudentTextKept
