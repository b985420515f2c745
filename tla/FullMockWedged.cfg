\* A grading whose acknowledgement is lost on its last try.
SPECIFICATION BothSpec
CONSTANTS
  Last = 1
  Objective = {}
  Speaking = {}
  Requests = {r1}
  Guest = FALSE
  Budget = 1
  MaxTime = 1
  MaxTakes = 0
  GuestLast = 1
  GuestObjective = {}
  GuestBudget = 1
  GuestTime = 1
INVARIANTS
  NeverWedged
\* The clock is bounded and a session that is over takes no more requests.
CHECK_DEADLOCK FALSE
