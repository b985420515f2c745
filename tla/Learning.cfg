\* A plan of three days; two drills of one mistake; an attempt of two questions under two
\* requests; four options and three keys; two mistakes pages on one replica.
SPECIFICATION SumSpec
CONSTANTS
  f0 = f0
  f1 = f1
  f2 = f2
  right = right
  partial = partial
  wrong = wrong
  g1 = g1
  g2 = g2
\* StudyPlan
  Span = 3
  WeekLength = 2
  RepeatAfter = 2
  ReviewAfter = 1
  Pause = 2
  Materials = {1}
  OffDays <- SecondDay
  ExamDays = {3}
  Outcomes = {TRUE}
  Withdrawn = {1}
  MaxToday = 3
  MaxTries = 1
\* LearningCycles
  Drills = {1, 2}
  Families = {f0, f1, f2}
  Draft = draft
  Removed = removed
  FirstLabels <- Reviewed
  Delay = 1
  MaxDay = 2
  MaxCycles = 1
  MaxSessions = 2
  MaxRevisions = 2
  MaxReviews = 1
\* Objective
  LastQuestion = 2
  Answers = {right, partial}
  Worth <- ByAnswer
  Points = 2
  Clients = {c1, c2}
\* Grading
  Options <- FourOptions
  Letters <- ThreeLetters
  Capitals <- InCapitals
  Keys <- TwoKeys
  Words = {"yes", "not given"}
  NotGiven = "not given"
  MaxMistakes = 4
  MaxHints = 3
\* GradingPages
  Replicas = {r1}
  Visits = {g1, g2}
  Passages = 1
  CacheSize = 1
  MaxPassageDepth = 4
  MaxStored = 2
  MaxWanted <- OneEach
INVARIANTS
  CyclesHold
  GradesHold
  PagesHold
PROPERTIES
  PlanHolds
\* Days, versions and sessions are bounded.
CHECK_DEADLOCK FALSE
