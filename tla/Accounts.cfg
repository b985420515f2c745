\* Two requests on an account that may be deleted and registered again, with up to three
\* refresh sessions; two guesses and two registrations on two codes of two tries;
\* two requests at a time on the free starts of two skills.
SPECIFICATION SumSpec
CONSTANTS
  m1 = m1
  m2 = m2
  s1 = s1
  s2 = s2
  None = none
  Logins = {t1, t2}
  Nobody = nobody
  MaxRow = 2
  MaxChanges = 1
  MaxSessions = 3
  MaxTokens = 1
  Guessers = {t1, t2}
  Registrations = {t1, t2}
  CodeTries = 2
  MaxChallenges = 2
  MaxLost = 1
\* FreeUsage
  Txs = {t1, t2}
  Materials = {m1, m2}
  Skills = {s1, s2}
  SkillOf <- OneSkill
  Paywall = TRUE
  Exempt = FALSE
  Limits = {0, 2}
  MaxStarts = 3
SYMMETRY Symmetry
INVARIANTS
  SessionsHold
  PhoneHolds
  QuotasHold
  OneAtATime
\* Rows, sessions and codes are bounded.
CHECK_DEADLOCK FALSE
