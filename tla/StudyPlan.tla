------------------------------- MODULE StudyPlan -------------------------------
(***************************************************************************)
(* internal/studyplan: the plan of one student, an aggregate that every    *)
(* request brings up to date before it does anything else.                 *)
(*                                                                         *)
(* A request holds the lock of the plan from its first read to its commit; *)
(* only a start lets go of the database in between, when it asks           *)
(* internal/attempts for the attempt in a transaction of its own.  The     *)
(* student works on attempts meanwhile, and days pass.                     *)
(*                                                                         *)
(* A request that names a stale revision changes nothing, so the revision  *)
(* itself is left out.  Every material has a section of its own; minutes,  *)
(* titles and reasons are left out.                                        *)
(***************************************************************************)
EXTENDS Integers, Sequences, FiniteSets, FiniteSetsExt

CONSTANTS
  Span,        \* days of a plan (30)
  WeekLength,  \* days until the weekly full mock is offered (7)
  RepeatAfter, \* days between two uses of one material (7)
  ReviewAfter, \* days until an attempt is offered for review
  Pause,       \* days without activity that end in a return (7)
  Materials,   \* 1..n
  OffDays,     \* choices of the days that are not study days
  ExamDays,    \* choices of the day of the exam; 0 is none
  Outcomes,    \* choices of whether a result has mistakes to look at
  Withdrawn,   \* materials an editor may take back
  MaxToday,    \* bound on the days that pass
  MaxTries     \* bound on attempts

ASSUME StudyAssumption ==
  /\ {Span, WeekLength, RepeatAfter, ReviewAfter, Pause, MaxToday, MaxTries} \subseteq Nat \ {0}
  /\ Materials \cup ExamDays \subseteq Nat \ {0} /\ Outcomes \subseteq BOOLEAN

VARIABLES
  today,   \* the local day
  goal,    \* the day of the exam in the profile
  onOffer, \* published materials
  works,   \* the student's attempts on them, in order of creation
  plan,    \* study_plans.state, or NoPlan
  old,     \* its History: the days of finished cycles
  opening, \* the start under way between its two transactions, or NoStart
  news     \* fingerprint: something the plan is made from changed since its last reading

studyVars == <<today, goal, onOffer, works, plan, old, opening, news>>

NoPlan == [start |-> 0]
NoStart == [work |-> 0]

Practice(m) == [kind |-> "PRACTICE", m |-> m, src |-> 0, work |-> 0, st |-> "PLANNED", why |-> ""]
Viewing(i) == [kind |-> "REVIEW", m |-> 0, src |-> i, work |-> 0, st |-> "PLANNED", why |-> ""]
Unavailable == [kind |-> "PRACTICE", m |-> 0, src |-> 0, work |-> 0, st |-> "BLOCKED", why |-> ""]

Terminal == {"COMPLETED", "SKIPPED", "MISSED"}

StudyInit ==
  /\ today = 1 /\ goal = 0 /\ onOffer = Materials
  /\ works = <<>> /\ plan = NoPlan /\ old = {} /\ opening = NoStart /\ news = FALSE

StudyTypeOK ==
  /\ today \in 1..MaxToday /\ goal \in ExamDays \cup {0} /\ onOffer \subseteq Materials
  /\ \A i \in DOMAIN works : works[i].st \in {"IN_PROGRESS", "PROCESSING", "SUBMITTED"}
  /\ plan # NoPlan =>
       \A d \in DOMAIN plan.days : \A a \in plan.days[d] :
         /\ a.work \in 0..Len(works) /\ a.src \in 0..Len(works)
         /\ a.st \in Terminal \cup {"PLANNED", "BLOCKED", "IN_PROGRESS", "AWAITING_RESULT"}

Days(p) == p.start..(p.start + Span - 1)

All(days) == UNION {days[d] : d \in DOMAIN days}

\* study_plan_attempts: the attempts that an assignment, of this cycle or an earlier
\* one, has claimed.
Assignments == old \cup (IF plan = NoPlan THEN {} ELSE All(plan.days))

Claims == {a.work : a \in Assignments} \ {0}


-----------------------------------------------------------------------------

\* Faulty variants.
DropsSkips(a) == a.work # 0 \/ a.st = "COMPLETED"

ForgetsUses(days, m) == {works[i].sub : i \in {i \in DOMAIN works : works[i].m = m}}

TwoClaims(i) == TRUE

OldInputs == news

\* What fillFuture keeps of a day it fills again.
Kept(a) == a.st \in Terminal \/ a.work # 0

\* The days fillFuture holds against a material: those of its assignments, except the
\* ones that were missed or skipped without having been begun, and those of its results.
UsedDays(days, m) ==
  {d \in DOMAIN days : \E a \in days[d] :
     a.m = m /\ (a.st \notin {"MISSED", "SKIPPED"} \/ a.work # 0 \/ a.why = "unsuitable")}
  \cup {works[i].sub : i \in {i \in DOMAIN works : works[i].m = m /\ works[i].st = "SUBMITTED"}}

\* Materials whose attempt is being assessed, or was begun from the plan.
ReservedNow(m) == \E i \in DOMAIN works :
  works[i].m = m /\ (works[i].st = "PROCESSING" \/ (works[i].st = "IN_PROGRESS" /\ i \in Claims))

Eligible(days, d) ==
  {m \in onOffer : ~ReservedNow(m) /\ \A u \in UsedDays(days, m) : d - u >= RepeatAfter}

\* Sections in turn: the one used least, then the one never attempted, then the first.
Preferred(days, ms) ==
  LET uses(m) == Cardinality(UsedDays(days, m))
      tried(m) == IF \E i \in DOMAIN works : works[i].m = m THEN 1 ELSE 0
  IN CHOOSE m \in ms : \A n \in ms :
       \/ uses(m) < uses(n)
       \/ uses(m) = uses(n) /\ tried(m) < tried(n)
       \/ uses(m) = uses(n) /\ tried(m) = tried(n) /\ m <= n

\* Results with mistakes to look at, not looked at, refused or planned for it already.
\* A student who returns does not wait.
Reviewable(days, d, wait) ==
  {i \in DOMAIN works :
     /\ works[i].st = "SUBMITTED" /\ works[i].wrong /\ d - works[i].sub >= wait
     /\ \A e \in DOMAIN days : \A a \in days[e] :
          a.src = i => a.st # "COMPLETED" /\ a.why # "unsuitable"
                       /\ ~(a.st = "PLANNED" /\ e >= today)}

Live(a) == a.st \notin {"SKIPPED", "MISSED"}

\* fillFuture, one day: at most one practice and one review besides what is kept, and
\* one of the two on the day of a return.
FilledDay(p, days, d) ==
  LET kept == days[d]
      return == p.back /\ d = today
      eligible == Eligible(days, d)
      begun == \E a \in kept : Live(a) /\ a.m # 0
      practice == IF eligible = {} \/ begun THEN {} ELSE {Practice(Preferred(days, eligible))}
      reviewable == Reviewable(days, d, IF return THEN 0 ELSE ReviewAfter)
      review == IF \/ \E a \in kept : Live(a) /\ a.kind = "REVIEW"
                   \/ return /\ (begun \/ practice # {})
                THEN {} ELSE {Viewing(i) : i \in {i \in reviewable : \A j \in reviewable : j <= i}}
      all == kept \cup practice \cup review
  IN IF p.rest[d] \/ p.mock.on = d THEN kept
     ELSE IF all = {} THEN {Unavailable} ELSE all

\* The days that fillFuture arranges: from `from' to the exam.
OpenDays(p, from) == {d \in Days(p) : d >= from /\ (goal = 0 \/ d < goal)}

\* They are emptied of what has not been begun; a day somebody began stays as it is arranged.
Emptied(p, from) ==
  LET open == OpenDays(p, from)
      anchored(d) == \E a \in p.days[d] : Kept(a) /\ (a.work # 0 \/ a.st = "COMPLETED")
  IN [p EXCEPT
       !.days = [d \in Days(p) |->
         IF d \in open THEN {a \in @[d] : Kept(a)} ELSE @[d]],
       !.rest = [d \in Days(p) |->
         IF d \in open /\ ~anchored(d)
         THEN d \in p.off /\ p.mock.on # d /\ ~(p.back /\ d = today)
         ELSE @[d]]]

WithDay(p, days, d) == [days EXCEPT ![d] = FilledDay(p, days, d)]

\* And filled again one after the other.
Filled(p, from) ==
  LET q == Emptied(p, from)
      upTo[d \in (p.start - 1)..(p.start + Span - 1)] ==
        IF d < p.start THEN q.days
        ELSE IF d \in OpenDays(p, from) THEN WithDay(q, upTo[d - 1], d) ELSE upTo[d - 1]
  IN [q EXCEPT !.days = upTo[p.start + Span - 1]]

\* makePlan.
Made(off, back) ==
  [start |-> today, off |-> off, back |-> back, lastDay |-> today, active |-> today,
   days |-> [d \in today..(today + Span - 1) |-> {}],
   rest |-> [d \in today..(today + Span - 1) |-> FALSE],
   mock |-> [st |-> "AVAILABLE", on |-> 0]]

\* reconcileAttempts, for one assignment: an attempt carries its state over, unless the
\* assignment was skipped.
Carried(a) ==
  IF a.work = 0 \/ a.st = "SKIPPED" THEN a
  ELSE [a EXCEPT !.st = CASE works[a.work].st = "IN_PROGRESS" -> "IN_PROGRESS"
                          [] works[a.work].st = "PROCESSING" -> "AWAITING_RESULT"
                          [] OTHER -> "COMPLETED"]

Carry(p) == [p EXCEPT !.days = [d \in Days(p) |-> {Carried(a) : a \in p.days[d]}]]

\* reconcileDay: what was not begun on its day is missed.
Missed(p) ==
  [p EXCEPT !.days = [d \in Days(p) |->
     {IF d < today /\ a.st \in {"PLANNED", "BLOCKED"} /\ a.work = 0
      THEN [a EXCEPT !.st = "MISSED"] ELSE a : a \in p.days[d]}]]

\* applyExamDeadline: nothing new from the day of the exam on, a scheduled mock included.
Closed(p) ==
  LET over(d) == goal # 0 /\ d >= goal IN
  [p EXCEPT
     !.days = [d \in Days(p) |-> IF over(d) THEN {a \in @[d] : Kept(a)} ELSE @[d]],
     !.rest = [d \in Days(p) |-> @[d] \/ over(d)],
     !.mock = IF over(p.start) \/ over(@.on) THEN [st |-> "DISABLED", on |-> 0] ELSE @]

\* The last day the student did anything.
Activity(p) ==
  Max({p.active} \cup {works[i].start : i \in DOMAIN works}
      \cup {works[i].sub : i \in {i \in DOMAIN works : works[i].sub <= today}})

\* execute, before the request itself: attempts, the new day or the new evidence, the exam.
Current(p) ==
  LET q == [Carry(p) EXCEPT !.active = Activity(p)]
      returning == today - q.active >= Pause
  IN Closed(IF q.lastDay # today
            THEN Filled([Missed(q) EXCEPT !.back = returning, !.lastDay = today],
                        IF returning THEN today ELSE today + 1)
            ELSE IF news THEN Filled(q, today + 1) ELSE q)

-----------------------------------------------------------------------------

Free == opening = NoStart

Ended(p) == today >= p.start + Span

\* The exam has come: nothing is begun any more.
DeadlineReached == goal # 0 /\ today >= goal

\* Service.Get.
GetPlan ==
  /\ Free /\ plan # NoPlan
  /\ plan' = Current(plan)
  /\ news' = FALSE /\ UNCHANGED <<today, goal, onOffer, works, old, opening>>

\* Service.Create: a first plan, the plan that exists, or a new cycle after its end.
CreatePlan(off) ==
  /\ Free
  /\ IF plan = NoPlan
     THEN plan' = Closed(Filled(Made(off, FALSE), today)) /\ old' = old
     ELSE IF Ended(plan)
     THEN /\ old' = old \cup All(Missed(Carry(plan)).days)
          /\ plan' = Closed(Filled(
               [Made(off, today - Activity(plan) >= Pause) EXCEPT !.active = Activity(plan)], today))
     ELSE plan' = Current(plan) /\ old' = old
  /\ news' = FALSE /\ UNCHANGED <<today, goal, onOffer, works, opening>>

\* Service.Settings and Service.Replan.
Replan(off) ==
  /\ Free /\ plan # NoPlan
  /\ plan' = Filled([Current(plan) EXCEPT !.off = off], today + 1)
  /\ news' = FALSE /\ UNCHANGED <<today, goal, onOffer, works, old, opening>>

Changed(p, d, a, b) == [p EXCEPT !.days[d] = (@ \ {a}) \cup {b}]

\* Service.Skip.
Skip(a, why) ==
  LET p == Current(plan) IN
  /\ Free /\ plan # NoPlan /\ ~DeadlineReached
  /\ today \in Days(p) /\ a \in p.days[today]
  /\ a.st \notin Terminal \cup {"AWAITING_RESULT"}
  /\ plan' = Changed(p, today, a, [a EXCEPT !.st = "SKIPPED", !.why = why])
  /\ news' = FALSE /\ UNCHANGED <<today, goal, onOffer, works, old, opening>>

\* Service.Review: the mistakes were looked at.
View(a) ==
  LET p == Current(plan) IN
  /\ Free /\ plan # NoPlan /\ ~DeadlineReached
  /\ today \in Days(p) /\ a \in p.days[today]
  /\ a.kind = "REVIEW" /\ a.st \notin Terminal
  /\ plan' = [Changed(p, today, a, [a EXCEPT !.st = "COMPLETED"]) EXCEPT !.active = today, !.back = FALSE]
  /\ news' = FALSE /\ UNCHANGED <<today, goal, onOffer, works, old, opening>>

\* attempts.Service.Start: the student's draft of the material, or a new attempt.
Resumed(m) == {i \in DOMAIN works : works[i].m = m /\ works[i].st = "IN_PROGRESS"}

NewWork(m) == [m |-> m, st |-> "IN_PROGRESS", start |-> today, sub |-> 0, wrong |-> FALSE]

Begun(m, i) ==
  IF Resumed(m) # {} THEN i \in Resumed(m) /\ works' = works
  ELSE /\ Len(works) < MaxTries /\ i = Len(works) + 1
       /\ works' = Append(works, NewWork(m))

\* Service.Start, its first half: the plan is checked and the attempt is there, in a
\* transaction of its own.
StartAsks(a, i) ==
  LET p == Current(plan) IN
  /\ Free /\ plan # NoPlan /\ ~DeadlineReached
  /\ today \in Days(p) /\ a \in p.days[today]
  /\ a.m \in onOffer /\ a.work = 0 /\ a.st \notin Terminal \cup {"BLOCKED"}
  /\ Begun(a.m, i)
  /\ opening' = [work |-> i, of |-> a, on |-> today, plan |-> p, quiet |-> TRUE]
  /\ news' = (news \/ works' # works)
  /\ UNCHANGED <<today, goal, onOffer, plan, old>>

\* The unique attempt_id of study_plan_attempts, and the check of the attempt's row.
Claimable(i) == i \notin Claims /\ works[i].st = "IN_PROGRESS"

\* The plan is read against fresh inputs, so that the attempt it made is no news to it.
NewsAfterStart == FALSE

\* Its second half: the attempt is claimed for the assignment and the plan stored.
StartCommits ==
  LET a == opening.of
      p == [Changed(opening.plan, opening.on, a,
                    [a EXCEPT !.work = opening.work, !.st = "IN_PROGRESS"])
              EXCEPT !.active = opening.on, !.back = FALSE]
  IN
  /\ opening # NoStart
  /\ plan' = IF Claimable(opening.work) THEN p ELSE plan
  /\ news' = IF Claimable(opening.work) THEN NewsAfterStart ELSE news
  /\ opening' = NoStart
  /\ UNCHANGED <<today, goal, onOffer, works, old>>

\* The process dies, or the connection: the attempt stays, the plan knows nothing of it.
StartDies ==
  /\ opening # NoStart /\ opening' = NoStart
  /\ UNCHANGED <<today, goal, onOffer, works, plan, old, news>>

\* scheduleMock: the one week of the model offers its mock from its last study day on;
\* the day the mock is put on gives up what was not begun.
OfferedFrom(p) == Max({d \in p.start..(p.start + WeekLength - 1) : d \notin p.off} \cup {p.start})

ScheduleMock(d) ==
  LET p == Current(plan) IN
  /\ Free /\ plan # NoPlan /\ ~DeadlineReached
  /\ p.mock.st = "AVAILABLE" /\ today >= OfferedFrom(p)
  /\ d > today /\ d \in Days(p) /\ (goal = 0 \/ d < goal)
  /\ \A a \in p.days[d] : a.work = 0 /\ a.st # "COMPLETED"
  /\ plan' = [p EXCEPT !.mock = [st |-> "SCHEDULED", on |-> d], !.rest[d] = FALSE,
                       !.days[d] = {IF a.st \in {"PLANNED", "BLOCKED"}
                                    THEN [a EXCEPT !.st = "SKIPPED", !.why = "mock"] ELSE a : a \in @}]
  /\ news' = FALSE /\ UNCHANGED <<today, goal, onOffer, works, old, opening>>

DeclineMock ==
  LET p == Current(plan) IN
  /\ Free /\ plan # NoPlan /\ ~DeadlineReached
  /\ p.mock.st = "AVAILABLE" /\ today >= OfferedFrom(p)
  /\ plan' = [p EXCEPT !.mock.st = "DECLINED"]
  /\ news' = FALSE /\ UNCHANGED <<today, goal, onOffer, works, old, opening>>

\* The student and the editors, outside the plan.
News == news' = TRUE /\ opening' = IF Free THEN NoStart ELSE [opening EXCEPT !.quiet = FALSE]

Works(m, i) ==
  /\ Begun(m, i) /\ works' # works
  /\ News /\ UNCHANGED <<today, goal, onOffer, plan, old>>

HandsIn(i, wrong) ==
  /\ works[i].st = "IN_PROGRESS"
  /\ \E st \in {"PROCESSING", "SUBMITTED"} :
       works' = [works EXCEPT ![i].st = st, ![i].sub = today, ![i].wrong = wrong]
  /\ News /\ UNCHANGED <<today, goal, onOffer, plan, old>>

\* The assessment ends, well or not.
Assessed(i) ==
  /\ works[i].st = "PROCESSING"
  /\ \E st \in {"IN_PROGRESS", "SUBMITTED"} :
       works' = [works EXCEPT ![i].st = st, ![i].sub = IF st = "SUBMITTED" THEN today ELSE 0]
  /\ News /\ UNCHANGED <<today, goal, onOffer, plan, old>>

DayPasses ==
  /\ today < MaxToday /\ today' = today + 1
  /\ UNCHANGED <<goal, onOffer, works, plan, old, opening, news>>

GoalMoves(d) ==
  /\ d # goal /\ goal' = d
  /\ News /\ UNCHANGED <<today, onOffer, works, plan, old>>

Withdraws(m) ==
  /\ m \in onOffer /\ onOffer' = onOffer \ {m}
  /\ News /\ UNCHANGED <<today, goal, works, plan, old>>

Today == IF plan = NoPlan \/ today \notin Days(plan) THEN {} ELSE Current(plan).days[today]

StudyNext ==
  \/ GetPlan \/ StartCommits \/ StartDies \/ DeclineMock \/ DayPasses
  \/ \E off \in OffDays : CreatePlan(off) \/ Replan(off)
  \/ \E a \in Today : View(a) \/ \E why \in {"no_time", "unsuitable"} : Skip(a, why)
  \/ \E a \in Today, i \in 1..MaxTries : StartAsks(a, i)
  \/ \E d \in 1..(MaxToday + Span) : ScheduleMock(d)
  \/ \E m \in Withdrawn : Withdraws(m)
  \/ \E m \in Materials, i \in 1..MaxTries : Works(m, i)
  \/ \E i \in DOMAIN works : Assessed(i) \/ \E wrong \in Outcomes : HandsIn(i, wrong)
  \/ \E d \in ExamDays : GoalMoves(d)

StudySpec == StudyInit /\ [][StudyNext]_studyVars

-----------------------------------------------------------------------------

\* One attempt completes one assignment at most, of this cycle or an earlier one,
\* whatever the student begins, resumes, skips or hands in, and whoever dies in between.
OneAttemptOneAssignment ==
  \A a, b \in Assignments : a.work # 0 /\ a.work = b.work => a = b

\* No replan, new day, exam or new cycle loses what was done or decided: an assignment
\* with an attempt, or completed, skipped or missed, stays, and what was completed or
\* skipped stays so.
NothingDoneIsLost ==
  [][\A a \in Assignments : a.work # 0 \/ a.st \in Terminal =>
       \E b \in Assignments' :
         /\ b.m = a.m /\ b.src = a.src /\ b.work = a.work
         /\ a.st \in Terminal => b.st = a.st /\ b.why = a.why]_studyVars

\* The same material is not given again before its interval is over: two assignments of
\* a plan that stand, and were not given up before they were begun, are far enough apart.
RepeatsAreSpaced ==
  plan # NoPlan =>
    \A d, e \in Days(plan) : \A a \in plan.days[d], b \in plan.days[e] :
      d < e /\ a.m = b.m /\ a.m # 0 /\ Live(a) /\ Live(b) => e - d >= RepeatAfter

\* Bringing the plan up to date is idempotent: after a request that changed it, reading
\* it on the same day changes nothing.  (The attempt a start has made is no news; a start
\* during which something else changed takes that for known too, and is left out here.)
QuietReads ==
  [][plan' # plan /\ plan'.lastDay = today' /\ (opening # NoStart => opening.quiet)
       => (Current(plan) = plan)']_studyVars

\* The student's plan: each attempt counts once, repeats keep their distance, what was
\* done stays, and looking at it changes nothing.
PlanHolds ==
  /\ []StudyTypeOK /\ []OneAttemptOneAssignment /\ []RepeatsAreSpaced
  /\ NothingDoneIsLost /\ QuietReads
=============================================================================
