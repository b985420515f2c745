\* Two tabs on a student's session of an objective and a spoken section, or on a
\* guest's trial of two objective sections and a written one.
SPECIFICATION BothSpec
CONSTANTS
  Requests = {r1, r2}
  Guest = FALSE
  Last = 2
  Objective = {1}
  Speaking = {2}
  Budget = 2
  MaxTime = 3
  MaxTakes = 1
  GuestLast = 3
  GuestObjective = {1, 2}
  GuestBudget = 1
  GuestTime = 1
SYMMETRY Symmetry
INVARIANTS
  TypeOK
  TimeConserved
  NoHeadStart
  PassedIsHandedIn
  ReportComplete
PROPERTIES
  OnlyExpiredIsForced
  ReportIsFinal
  GuestSections
\* The clock is bounded and a session that is over takes no more requests.
CHECK_DEADLOCK FALSE
