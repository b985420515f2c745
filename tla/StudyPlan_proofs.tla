---------------------------- MODULE StudyPlan_proofs ----------------------------
(***************************************************************************)
(* Proofs about StudyPlan, for any number of days, materials and attempts, *)
(* any rest days and any exam: an attempt counts once, repeats keep their  *)
(* distance, nothing done is lost, and looking at a plan changes nothing.  *)
(***************************************************************************)
EXTENDS StudyPlan, FiniteSetTheorems, WellFoundedInduction, TLAPS

-------------------------------------------------------------------------------
(* The inductive invariant.                                                 *)

WorkRow == [m : Materials, st : {"IN_PROGRESS", "PROCESSING", "SUBMITTED"}, start : Nat, sub : Nat, wrong : BOOLEAN]

\* Attempts are begun and handed in by today.
WorksFit ==
  /\ works \in Seq(WorkRow)
  /\ \A i \in DOMAIN works : works[i].start <= today /\ works[i].sub <= today

Marks == Terminal \cup {"PLANNED", "BLOCKED", "IN_PROGRESS", "AWAITING_RESULT"}

AssignmentRow ==
  [kind : {"PRACTICE", "REVIEW"}, m : Materials \cup {0}, src : Nat, work : Nat, st : Marks,
   why : {"", "no_time", "unsuitable", "mock"}]

\* An assignment with an attempt is of a material and was begun; it is completed when the
\* attempt was handed in for good.
Fits(a) ==
  /\ a \in AssignmentRow /\ a.work \in 0..Len(works) /\ a.src \in 0..Len(works)
  /\ a.kind = "REVIEW" => a.m = 0
  /\ a.work # 0 => a.m # 0 /\ a.st \notin {"PLANNED", "BLOCKED", "MISSED"}
  /\ a.work # 0 /\ a.st = "COMPLETED" => works[a.work].st = "SUBMITTED"

\* One attempt, one assignment; in a plan on one day.
Unique(as) == \A a, b \in as : a.work # 0 /\ a.work = b.work => a = b

ClaimedOnce(days) ==
  \A d, e \in DOMAIN days : \A a \in days[d], b \in days[e] : a.work # 0 /\ a.work = b.work => a = b /\ d = e

\* The same material at its distance.
Spaced(days) ==
  \A d, e \in DOMAIN days : \A a \in days[d], b \in days[e] :
    d < e /\ a.m = b.m /\ a.m # 0 /\ Live(a) /\ Live(b) => e - d >= RepeatAfter

DaysFit(days) == (\A a \in All(days) : Fits(a)) /\ ClaimedOnce(days) /\ Spaced(days)

MockRow == [st : {"AVAILABLE", "SCHEDULED", "DECLINED", "DISABLED"}, on : Nat]

PlanFields == {"start", "off", "back", "lastDay", "active", "days", "rest", "mock"}

IsRow(p) == p = [f \in PlanFields |-> p[f]]

\* The fields of a plan.
Shaped(p) ==
  /\ IsRow(p)
  /\ p.start \in Nat /\ p.back \in BOOLEAN /\ p.lastDay \in Nat /\ p.active \in Nat /\ p.mock \in MockRow
  /\ p.days = [d \in Days(p) |-> p.days[d]] /\ p.rest \in [Days(p) -> BOOLEAN]

PlanFits(p) ==
  /\ Shaped(p) /\ 1 <= p.start /\ p.start <= today /\ p.active <= today
  /\ DaysFit(p.days)

\* What was done or decided of one is so in the other.
Same(a, b) ==
  /\ b.m = a.m /\ b.src = a.src /\ b.work = a.work
  /\ a.st \in Terminal => b.st = a.st /\ b.why = a.why

\* Nothing that is kept is lost between as and bs, and no attempt is claimed that was not.
Retains(as, bs) == \A a \in as : Kept(a) => \E b \in bs : Same(a, b)

ClaimsWithin(as, bs) == \A b \in bs : b.work # 0 => \E a \in as : a.work = b.work

Follows(as, bs) == Retains(as, bs) /\ ClaimsWithin(as, bs)

\* No attempt of an earlier cycle is claimed again.
Apart(as) == \A a \in old, b \in as : a.work # 0 => b.work # a.work

\* Assignments say what their attempts say.
CarriedOver(days) == \A a \in All(days) : Carried(a) = a

Over(d) == goal # 0 /\ d >= goal

\* From the exam on nothing is planned.
ClosedDown(p) ==
  /\ \A d \in Days(p) : Over(d) => p.rest[d] /\ \A a \in p.days[d] : Kept(a)
  /\ Over(p.start) \/ Over(p.mock.on) => p.mock = [st |-> "DISABLED", on |-> 0]

\* A plan that has nothing more to take in.
UpToDate(p) ==
  /\ CarriedOver(p.days) /\ ClosedDown(p)
  /\ \A i \in DOMAIN works : works[i].start <= p.active /\ works[i].sub <= p.active

Opening == [work : Nat, of : AssignmentRow, on : Nat, plan : {opening.plan}, quiet : BOOLEAN]

\* A start between its transactions holds a plan that follows the stored one, and an
\* assignment of it that has no attempt yet.
OpeningFits ==
  opening # NoStart =>
    /\ opening \in Opening /\ plan # NoPlan
    /\ opening.work \in 1..Len(works) /\ opening.on <= today
    /\ PlanFits(opening.plan) /\ Follows(All(plan.days), All(opening.plan.days))
    /\ opening.plan.lastDay = opening.on
    /\ opening.on \in Days(opening.plan) /\ opening.of \in opening.plan.days[opening.on]
    /\ opening.of.m # 0 /\ ~Kept(opening.of)
    /\ opening.quiet => /\ CarriedOver(opening.plan.days) /\ ClosedDown(opening.plan)
                        /\ ~Over(opening.on)

StudyInv ==
  /\ today \in 1..MaxToday /\ goal \in ExamDays \cup {0} /\ onOffer \subseteq Materials /\ news \in BOOLEAN
  /\ WorksFit
  /\ plan # NoPlan => PlanFits(plan) /\ Apart(All(plan.days))
  /\ (\A a \in old : Fits(a)) /\ Unique(old)
  /\ OpeningFits

-------------------------------------------------------------------------------
(* Lemmas.                                                                  *)

LEMMA Numbers ==
  /\ {Span, WeekLength, RepeatAfter, ReviewAfter, Pause, MaxToday, MaxTries} \subseteq Nat \ {0}
  /\ \A m \in Materials : m \in Nat \ {0}
  /\ \A d \in ExamDays : d \in Nat \ {0}
BY StudyAssumption

\* A plan is its fields.
LEMMA SameRow ==
  ASSUME NEW p, IsRow(p), NEW q, IsRow(q), p.start = q.start, p.off = q.off, p.back = q.back,
         p.lastDay = q.lastDay, p.active = q.active, p.days = q.days, p.rest = q.rest, p.mock = q.mock
  PROVE  p = q
<1>1. \A f \in PlanFields : p[f] = q[f]
  BY DEF PlanFields
<1> HIDE DEF PlanFields
<1> QED BY <1>1 DEF IsRow

LEMMA WorksAre ==
  ASSUME WorksFit
  PROVE  /\ Len(works) \in Nat /\ DOMAIN works = 1..Len(works)
         /\ \A i \in 1..Len(works) : works[i] \in WorkRow /\ works[i].m \in Materials
              /\ works[i].st \in {"IN_PROGRESS", "PROCESSING", "SUBMITTED"}
              /\ works[i].start \in Nat /\ works[i].sub \in Nat
<1>1. works \in Seq(WorkRow)
  BY DEF WorksFit
<1>2. Len(works) \in Nat /\ DOMAIN works = 1..Len(works) /\ \A i \in 1..Len(works) : works[i] \in WorkRow
  BY <1>1
<1>3. \A r \in WorkRow : r.m \in Materials /\ r.st \in {"IN_PROGRESS", "PROCESSING", "SUBMITTED"}
        /\ r.start \in Nat /\ r.sub \in Nat
  BY DEF WorkRow
<1> QED BY <1>2, <1>3

\* What follows what follows, follows.
LEMMA RetainsOn ==
  ASSUME NEW as, NEW bs, NEW cs, Retains(as, bs), Retains(bs, cs)
  PROVE  Retains(as, cs)
<1> SUFFICES ASSUME NEW a \in as, Kept(a) PROVE \E c \in cs : Same(a, c)
  BY DEF Retains
<1>1. PICK b \in bs : Same(a, b)
  BY DEF Retains
<1>2. Kept(b)
  BY <1>1 DEF Kept, Same
<1>3. PICK c \in cs : Same(b, c)
  BY <1>2 DEF Retains
<1> QED BY <1>1, <1>3 DEF Same

LEMMA FollowsOn ==
  ASSUME NEW as, NEW bs, NEW cs, Follows(as, bs), Follows(bs, cs)
  PROVE  Follows(as, cs)
<1>1. Retains(as, cs)
  BY RetainsOn DEF Follows
<1>2. ASSUME NEW c \in cs, c.work # 0 PROVE \E a \in as : a.work = c.work
  BY <1>2 DEF Follows, ClaimsWithin
<1> QED BY <1>1, <1>2 DEF Follows, ClaimsWithin

LEMMA FollowsItself == ASSUME NEW as PROVE Follows(as, as)
BY DEF Follows, Retains, ClaimsWithin, Same

\* Where the live ones have not moved, the distances stand.
LEMMA StillSpaced ==
  ASSUME NEW days, Spaced(days), NEW next, DOMAIN next = DOMAIN days,
         \A d \in DOMAIN days : \A b \in next[d] : \E a \in days[d] : b.m = a.m /\ (Live(b) => Live(a))
  PROVE  Spaced(next)
BY DEF Spaced

\* Days that lose what was not kept.
LEMMA Thinned ==
  ASSUME NEW days, DaysFit(days), NEW next, DOMAIN next = DOMAIN days,
         \A d \in DOMAIN days : next[d] \subseteq days[d] /\ \A a \in days[d] : Kept(a) => a \in next[d]
  PROVE  /\ DaysFit(next) /\ Follows(All(days), All(next))
         /\ CarriedOver(days) => CarriedOver(next)
<1>1. All(next) \subseteq All(days)
  BY DEF All
<1>2. \A a \in All(days) : Kept(a) => a \in All(next)
  BY DEF All
<1>3. Spaced(next)
  BY StillSpaced DEF DaysFit
<1>4. ClaimedOnce(next) /\ \A a \in All(next) : Fits(a)
  BY <1>1 DEF DaysFit, ClaimedOnce
<1>5. Follows(All(days), All(next))
  BY <1>1, <1>2 DEF Follows, Retains, ClaimsWithin, Same
<1>6. CarriedOver(days) => CarriedOver(next)
  BY <1>1 DEF CarriedOver
<1> QED BY <1>3, <1>4, <1>5, <1>6 DEF DaysFit

\* Days that gain what has no attempt, at its distance.
LEMMA Grown ==
  ASSUME NEW days, DaysFit(days), NEW next, DOMAIN next = DOMAIN days, Spaced(next),
         \A d \in DOMAIN days : days[d] \subseteq next[d] /\ \A b \in next[d] : b \notin days[d] => Fits(b) /\ b.work = 0
  PROVE  /\ DaysFit(next) /\ Follows(All(days), All(next))
         /\ CarriedOver(days) => CarriedOver(next)
<1>1. All(days) \subseteq All(next)
  BY DEF All
<1>2. \A b \in All(next) : b \in All(days) \/ (Fits(b) /\ b.work = 0)
  BY DEF All
<1>3. ClaimedOnce(next) /\ \A a \in All(next) : Fits(a)
  <2>1. \A d \in DOMAIN days : \A b \in next[d] : b.work # 0 => b \in days[d]
    OBVIOUS
  <2>2. ClaimedOnce(next)
    BY <2>1 DEF DaysFit, ClaimedOnce
  <2> QED BY <1>2, <2>2 DEF DaysFit
<1>4. Follows(All(days), All(next))
  BY <1>1, <1>2 DEF Follows, Retains, ClaimsWithin, Same
<1>5. CarriedOver(days) => CarriedOver(next)
  BY <1>2 DEF CarriedOver, Carried
<1> QED BY <1>3, <1>4, <1>5 DEF DaysFit

-------------------------------------------------------------------------------
(* What every request does to the plan.                                     *)

\* reconcileAttempts, of one assignment.
LEMMA CarriedFits ==
  ASSUME WorksFit, NEW a, Fits(a), NEW b, b = Carried(a)
  PROVE  /\ Fits(b) /\ Same(a, b) /\ Carried(b) = b
         /\ b.m = a.m /\ b.work = a.work /\ (Live(b) => Live(a)) /\ (Kept(b) <=> Kept(a))
<1>1. CASE a.work = 0 \/ a.st = "SKIPPED"
  BY <1>1 DEF Carried, Same, Fits
<1>2. CASE ~(a.work = 0 \/ a.st = "SKIPPED")
  <2>1. a.work \in 1..Len(works) /\ a \in AssignmentRow /\ a.st \notin {"PLANNED", "BLOCKED", "MISSED", "SKIPPED"}
    BY <1>2, WorksAre DEF Fits
  <2>2. PICK st : st = CASE works[a.work].st = "IN_PROGRESS" -> "IN_PROGRESS"
                          [] works[a.work].st = "PROCESSING" -> "AWAITING_RESULT"
                          [] OTHER -> "COMPLETED"
    OBVIOUS
  <2>3. st \in {"IN_PROGRESS", "AWAITING_RESULT", "COMPLETED"} /\ (st = "COMPLETED" => works[a.work].st = "SUBMITTED")
        /\ (works[a.work].st = "SUBMITTED" => st = "COMPLETED")
    BY <2>1, <2>2, WorksAre
  <2>4. b = [a EXCEPT !.st = st]
    BY <1>2, <2>2 DEF Carried
  <2>5. /\ b \in AssignmentRow /\ b.kind = a.kind /\ b.m = a.m /\ b.src = a.src /\ b.work = a.work
        /\ b.st = st /\ b.why = a.why
    BY <2>1, <2>3, <2>4 DEF AssignmentRow, Marks, Terminal
  <2>6. Fits(b)
    BY <1>2, <2>1, <2>3, <2>5 DEF Fits
  <2>7. Same(a, b)
    BY <1>2, <2>1, <2>3, <2>5 DEF Fits, Same, Terminal
  <2>8. Carried(b) = [b EXCEPT !.st = st]
    BY <1>2, <2>2, <2>3, <2>5 DEF Carried
  <2>9. [b EXCEPT !.st = st] = b
    BY <2>5 DEF AssignmentRow
  <2> QED BY <1>2, <2>1, <2>3, <2>5, <2>6, <2>7, <2>8, <2>9 DEF Live, Kept
<1> QED BY <1>1, <1>2

\* A plan whose days have changed and nothing else.
LEMMA NewDays ==
  ASSUME NEW p, Shaped(p), NEW x, NEW r, r = [p EXCEPT !.days = [d \in Days(p) |-> x[d]]]
  PROVE  /\ Shaped(r) /\ Days(r) = Days(p) /\ DOMAIN r.days = Days(p) /\ (\A d \in Days(p) : r.days[d] = x[d])
         /\ r.start = p.start /\ r.off = p.off /\ r.back = p.back /\ r.lastDay = p.lastDay
         /\ r.active = p.active /\ r.rest = p.rest /\ r.mock = p.mock
<1>1. PICK days : days = [d \in Days(p) |-> x[d]]
  OBVIOUS
<1>2. r = [p EXCEPT !.days = days]
  BY <1>1
<1>3. /\ r.start = p.start /\ r.off = p.off /\ r.back = p.back /\ r.lastDay = p.lastDay
      /\ r.active = p.active /\ r.rest = p.rest /\ r.mock = p.mock /\ r.days = days /\ IsRow(r)
  BY <1>2 DEF Shaped, IsRow, PlanFields
<1>4. Days(r) = Days(p)
  BY <1>3 DEF Days
<1> QED BY <1>1, <1>3, <1>4 DEF Shaped

\* reconcileAttempts.
LEMMA CarryFits ==
  ASSUME WorksFit, NEW p, PlanFits(p), NEW r, r = Carry(p)
  PROVE  /\ PlanFits(r) /\ Follows(All(p.days), All(r.days)) /\ CarriedOver(r.days)
         /\ r.start = p.start /\ r.off = p.off /\ r.back = p.back /\ r.lastDay = p.lastDay
         /\ r.active = p.active /\ r.rest = p.rest /\ r.mock = p.mock
<1> DEFINE x == [d \in Days(p) |-> {Carried(a) : a \in p.days[d]}]
<1>0. Shaped(p) /\ DOMAIN p.days = Days(p) /\ DaysFit(p.days)
  BY DEF PlanFits, Shaped
<1>1. r = [p EXCEPT !.days = [d \in Days(p) |-> x[d]]]
  BY DEF Carry
<1>2. /\ Shaped(r) /\ DOMAIN r.days = Days(p) /\ \A d \in Days(p) : r.days[d] = x[d]
      /\ r.start = p.start /\ r.off = p.off /\ r.back = p.back /\ r.lastDay = p.lastDay
      /\ r.active = p.active /\ r.rest = p.rest /\ r.mock = p.mock
  <2> HIDE DEF x
  <2> QED BY <1>0, <1>1, NewDays
<1>3. \A d \in Days(p) : r.days[d] = {Carried(a) : a \in p.days[d]}
  BY <1>2
<1>4. \A b : b \in All(r.days) <=> \E a \in All(p.days) : b = Carried(a)
  BY <1>0, <1>2, <1>3 DEF All
<1>5. \A a \in All(p.days) : LET b == Carried(a) IN
        /\ Fits(b) /\ Same(a, b) /\ Carried(b) = b
        /\ b.m = a.m /\ b.work = a.work /\ (Live(b) => Live(a)) /\ (Kept(b) <=> Kept(a))
  BY <1>0, CarriedFits DEF DaysFit
<1>6. Spaced(r.days)
  <2>1. \A d \in Days(p) : \A b \in r.days[d] : \E a \in p.days[d] : b.m = a.m /\ (Live(b) => Live(a))
    BY <1>0, <1>3, <1>5 DEF All
  <2> QED BY <1>0, <1>2, <2>1, StillSpaced DEF DaysFit
<1>7. ClaimedOnce(r.days)
  <2>1. \A d \in Days(p) : \A b \in r.days[d] : \E a \in p.days[d] : b = Carried(a) /\ b.work = a.work
    BY <1>0, <1>3, <1>5 DEF All
  <2> QED BY <1>0, <1>2, <2>1 DEF ClaimedOnce, DaysFit
<1>8. Follows(All(p.days), All(r.days))
  BY <1>4, <1>5 DEF Follows, Retains, ClaimsWithin
<1>9. CarriedOver(r.days) /\ \A b \in All(r.days) : Fits(b)
  BY <1>4, <1>5 DEF CarriedOver
<1> QED BY <1>2, <1>6, <1>7, <1>8, <1>9 DEF PlanFits, DaysFit

\* reconcileDay, of one assignment.
MissedOf(d, a) ==
  IF d < today /\ a.st \in {"PLANNED", "BLOCKED"} /\ a.work = 0 THEN [a EXCEPT !.st = "MISSED"] ELSE a

LEMMA MissedOne ==
  ASSUME NEW a, Fits(a), NEW d, NEW b, b = MissedOf(d, a)
  PROVE  /\ Fits(b) /\ (Kept(a) => b = a) /\ b.m = a.m /\ b.work = a.work /\ (Live(b) => Live(a))
         /\ (Carried(a) = a => Carried(b) = b)
<1>1. CASE b = a
  BY <1>1
<1>2. CASE a.st \in {"PLANNED", "BLOCKED"} /\ a.work = 0 /\ b = [a EXCEPT !.st = "MISSED"]
  <2>1. /\ b \in AssignmentRow /\ b.kind = a.kind /\ b.m = a.m /\ b.src = a.src /\ b.work = a.work
        /\ b.st = "MISSED" /\ b.why = a.why
    BY <1>2 DEF Fits, AssignmentRow, Marks, Terminal
  <2> QED BY <1>2, <2>1 DEF Fits, Kept, Terminal, Live, Carried
<1> QED BY <1>1, <1>2 DEF MissedOf

\* reconcileDay.
LEMMA MissedFits ==
  ASSUME NEW p, PlanFits(p), NEW r, r = Missed(p)
  PROVE  /\ PlanFits(r) /\ Follows(All(p.days), All(r.days)) /\ (CarriedOver(p.days) => CarriedOver(r.days))
         /\ r.start = p.start /\ r.off = p.off /\ r.back = p.back /\ r.lastDay = p.lastDay
         /\ r.active = p.active /\ r.rest = p.rest /\ r.mock = p.mock
<1> DEFINE x == [d \in Days(p) |-> {MissedOf(d, a) : a \in p.days[d]}]
<1>0. Shaped(p) /\ DOMAIN p.days = Days(p) /\ DaysFit(p.days)
  BY DEF PlanFits, Shaped
<1>1. r = [p EXCEPT !.days = [d \in Days(p) |-> x[d]]]
  BY DEF Missed, MissedOf
<1>2. /\ Shaped(r) /\ DOMAIN r.days = Days(p) /\ \A d \in Days(p) : r.days[d] = x[d]
      /\ r.start = p.start /\ r.off = p.off /\ r.back = p.back /\ r.lastDay = p.lastDay
      /\ r.active = p.active /\ r.rest = p.rest /\ r.mock = p.mock
  <2> HIDE DEF x
  <2> QED BY <1>0, <1>1, NewDays
<1>3. \A d \in Days(p) : r.days[d] = {MissedOf(d, a) : a \in p.days[d]}
  BY <1>2
<1>4. /\ \A b \in All(r.days) : \E d \in Days(p) : \E a \in p.days[d] : b = MissedOf(d, a)
      /\ \A d \in Days(p) : \A a \in p.days[d] : MissedOf(d, a) \in All(r.days)
  BY <1>0, <1>2, <1>3 DEF All
<1>5. \A d \in Days(p) : \A a \in p.days[d] : a \in All(p.days) /\ Fits(a)
  BY <1>0 DEF DaysFit, All
<1>6. \A d \in Days(p) : \A a \in p.days[d] : LET b == MissedOf(d, a) IN
        /\ Fits(b) /\ (Kept(a) => b = a) /\ b.m = a.m /\ b.work = a.work /\ (Live(b) => Live(a))
        /\ (Carried(a) = a => Carried(b) = b)
  BY <1>5, MissedOne
<1>7. Spaced(r.days)
  <2>1. \A d \in Days(p) : \A b \in r.days[d] : \E a \in p.days[d] : b.m = a.m /\ (Live(b) => Live(a))
    BY <1>3, <1>6
  <2> QED BY <1>0, <1>2, <2>1, StillSpaced DEF DaysFit
<1>8. ClaimedOnce(r.days)
  <2>1. \A d \in Days(p) : \A b \in r.days[d] : b.work # 0 => b \in p.days[d]
    BY <1>3, <1>5, <1>6 DEF Kept
  <2> QED BY <1>0, <1>2, <2>1 DEF ClaimedOnce, DaysFit
<1>9. Follows(All(p.days), All(r.days))
  <2>1. \A a \in All(p.days) : Kept(a) => a \in All(r.days)
    BY <1>0, <1>4, <1>6 DEF All
  <2>2. \A b \in All(r.days) : \E a \in All(p.days) : a.work = b.work
    BY <1>4, <1>5, <1>6
  <2> QED BY <2>1, <2>2 DEF Follows, Retains, ClaimsWithin, Same
<1>10. (\A b \in All(r.days) : Fits(b)) /\ (CarriedOver(p.days) => CarriedOver(r.days))
  BY <1>4, <1>5, <1>6 DEF CarriedOver
<1> QED BY <1>2, <1>7, <1>8, <1>9, <1>10 DEF PlanFits, DaysFit

\* What fillFuture empties.
LEMMA EmptiedFits ==
  ASSUME NEW p, PlanFits(p), NEW from, NEW r, r = Emptied(p, from)
  PROVE  /\ PlanFits(r) /\ Follows(All(p.days), All(r.days)) /\ (CarriedOver(p.days) => CarriedOver(r.days))
         /\ r.start = p.start /\ r.off = p.off /\ r.back = p.back /\ r.lastDay = p.lastDay
         /\ r.active = p.active /\ r.mock = p.mock
         /\ \A d \in Days(p) : d \notin OpenDays(p, from) => r.days[d] = p.days[d] /\ r.rest[d] = p.rest[d]
<1>0. Shaped(p) /\ DOMAIN p.days = Days(p) /\ DaysFit(p.days)
  BY DEF PlanFits, Shaped
<1>1. PICK days, rest :
        /\ days = [d \in Days(p) |-> IF d \in OpenDays(p, from) THEN {a \in p.days[d] : Kept(a)} ELSE p.days[d]]
        /\ rest = [d \in Days(p) |->
             IF d \in OpenDays(p, from) /\ ~(\E a \in p.days[d] : Kept(a) /\ (a.work # 0 \/ a.st = "COMPLETED"))
             THEN d \in p.off /\ p.mock.on # d /\ ~(p.back /\ d = today)
             ELSE p.rest[d]]
        /\ r = [p EXCEPT !.days = days, !.rest = rest]
  BY DEF Emptied
<1>2. /\ r.start = p.start /\ r.off = p.off /\ r.back = p.back /\ r.lastDay = p.lastDay
      /\ r.active = p.active /\ r.mock = p.mock /\ r.days = days /\ r.rest = rest /\ IsRow(r)
  BY <1>0, <1>1 DEF Shaped, IsRow, PlanFields
<1>3. Days(r) = Days(p)
  BY <1>2 DEF Days
<1>4. rest \in [Days(p) -> BOOLEAN]
  <2>1. \A d \in Days(p) : rest[d] \in BOOLEAN
    BY <1>0, <1>1 DEF Shaped
  <2> QED BY <1>1, <2>1
<1>5. \A d \in Days(p) : d \notin OpenDays(p, from) => days[d] = p.days[d] /\ rest[d] = p.rest[d]
  BY <1>1
<1>6. DOMAIN days = Days(p) /\ \A d \in Days(p) : days[d] \subseteq p.days[d] /\ \A a \in p.days[d] : Kept(a) => a \in days[d]
  BY <1>1
<1>7. DaysFit(days) /\ Follows(All(p.days), All(days)) /\ (CarriedOver(p.days) => CarriedOver(days))
  BY <1>0, <1>6, Thinned
<1>8. days = [d \in Days(r) |-> days[d]]
  BY <1>1, <1>3
<1>9. Shaped(r)
  BY <1>0, <1>2, <1>3, <1>4, <1>8 DEF Shaped
<1> QED BY <1>2, <1>5, <1>7, <1>9 DEF PlanFits

\* A set of numbers has a least one.
LEMMA LeastOf ==
  ASSUME NEW S \in SUBSET Nat, S # {}
  PROVE  \E x \in S : \A y \in S : x <= y
<1>1. IsWellFoundedOn(OpToRel(<, Nat), Nat)
  BY NatLessThanWellFounded
<1>2. \A x, y \in Nat : x < y => <<x, y>> \in OpToRel(<, Nat)
  BY DEF OpToRel
<1>3. PICK x \in S : \A y \in S : <<y, x>> \notin OpToRel(<, Nat)
  BY <1>1, WFMin
<1>4. \A y \in S : ~(y < x)
  BY <1>2, <1>3
<1> QED BY <1>4

\* The uses of a material can be counted.
LEMMA UsesCounted ==
  ASSUME WorksFit, NEW p, Shaped(p), NEW days, DOMAIN days = Days(p), NEW m
  PROVE  Cardinality(UsedDays(days, m)) \in Nat
<1>1. IsFiniteSet(Days(p))
  <2>1. p.start \in Int /\ p.start + Span - 1 \in Int
    BY Numbers DEF Shaped
  <2> QED BY <2>1, FS_Interval DEF Days
<1>2. IsFiniteSet(DOMAIN works)
  BY WorksAre, FS_Interval
<1>3. IsFiniteSet({works[i].sub : i \in DOMAIN works})
  <2>1. [i \in DOMAIN works |-> works[i].sub] \in Surjection(DOMAIN works, {works[i].sub : i \in DOMAIN works})
    BY DEF Surjection
  <2> QED BY <1>2, <2>1, FS_Surjection
<1>4. UsedDays(days, m) \subseteq Days(p) \cup {works[i].sub : i \in DOMAIN works}
  BY DEF UsedDays
<1>5. IsFiniteSet(UsedDays(days, m))
  BY <1>1, <1>3, <1>4, FS_Union, FS_Subset
<1> QED BY <1>5, FS_CardinalityType

\* The preferred material is one of them.
LEMMA PreferredIsOne ==
  ASSUME WorksFit, NEW p, Shaped(p), NEW days, DOMAIN days = Days(p), NEW ms \in SUBSET Materials, ms # {}
  PROVE  Preferred(days, ms) \in ms
<1> DEFINE uses(m) == Cardinality(UsedDays(days, m))
           tried(m) == IF \E i \in DOMAIN works : works[i].m = m THEN 1 ELSE 0
           first(m, n) == \/ uses(m) < uses(n)
                          \/ uses(m) = uses(n) /\ tried(m) < tried(n)
                          \/ uses(m) = uses(n) /\ tried(m) = tried(n) /\ m <= n
<1>1. \A m : uses(m) \in Nat
  BY UsesCounted
<1>2. \A m : tried(m) \in Nat
  OBVIOUS
<1>3. Preferred(days, ms) = CHOOSE m \in ms : \A n \in ms : first(m, n)
  BY DEF Preferred
<1>4. ms \subseteq Nat
  BY Numbers
<1> HIDE DEF uses, tried
<1>5. PICK u \in {uses(m) : m \in ms} : \A v \in {uses(m) : m \in ms} : u <= v
  <2>1. {uses(m) : m \in ms} \in SUBSET Nat /\ {uses(m) : m \in ms} # {}
    BY <1>1
  <2> QED BY <2>1, LeastOf
<1>6. PICK t \in {tried(m) : m \in {m \in ms : uses(m) = u}} : \A v \in {tried(m) : m \in {m \in ms : uses(m) = u}} : t <= v
  <2>1. {tried(m) : m \in {m \in ms : uses(m) = u}} \in SUBSET Nat /\ {tried(m) : m \in {m \in ms : uses(m) = u}} # {}
    BY <1>2, <1>5
  <2> QED BY <2>1, LeastOf
<1>7. PICK x \in {m \in ms : uses(m) = u /\ tried(m) = t} : \A y \in {m \in ms : uses(m) = u /\ tried(m) = t} : x <= y
  <2>1. {m \in ms : uses(m) = u /\ tried(m) = t} \in SUBSET Nat /\ {m \in ms : uses(m) = u /\ tried(m) = t} # {}
    BY <1>4, <1>6
  <2> QED BY <2>1, LeastOf
<1>8. \A n \in ms : first(x, n)
  <2> SUFFICES ASSUME NEW n \in ms PROVE first(x, n)
    OBVIOUS
  <2>1. u <= uses(n) /\ u \in Nat /\ uses(n) \in Nat /\ uses(x) = u
    BY <1>1, <1>5, <1>7
  <2>2. CASE uses(n) # u
    BY <2>1, <2>2
  <2>3. CASE uses(n) = u
    <3>1. t <= tried(n) /\ t \in Nat /\ tried(n) \in Nat /\ tried(x) = t
      BY <1>2, <1>6, <1>7, <2>3
    <3>2. tried(n) = t => x <= n
      BY <1>7, <2>3
    <3> QED BY <2>1, <2>3, <3>1, <3>2
  <2> QED BY <2>2, <2>3
<1> HIDE DEF first
<1> QED BY <1>3, <1>7, <1>8

\* What fillFuture adds to a day.
LEMMA FilledDayAdds ==
  ASSUME WorksFit, onOffer \subseteq Materials, NEW p, Shaped(p), NEW days, DOMAIN days = Days(p), NEW d \in Days(p)
  PROVE  /\ days[d] \subseteq FilledDay(p, days, d)
         /\ \A b \in FilledDay(p, days, d) : b \notin days[d] =>
              Fits(b) /\ b.work = 0 /\ (b.m # 0 => b.m \in Eligible(days, d))
<1> DEFINE return == p.back /\ d = today
           eligible == Eligible(days, d)
           begun == \E a \in days[d] : Live(a) /\ a.m # 0
           practice == IF eligible = {} \/ begun THEN {} ELSE {Practice(Preferred(days, eligible))}
           reviewable == Reviewable(days, d, IF return THEN 0 ELSE ReviewAfter)
           review == IF \/ \E a \in days[d] : Live(a) /\ a.kind = "REVIEW"
                        \/ return /\ (begun \/ practice # {})
                     THEN {} ELSE {Viewing(i) : i \in {i \in reviewable : \A j \in reviewable : j <= i}}
           all == days[d] \cup practice \cup review
<1>1. eligible = Eligible(days, d) /\ eligible \in SUBSET Materials
  BY DEF Eligible
<1>2. reviewable \subseteq 1..Len(works)
  BY WorksAre DEF Reviewable
<1>3. practice \subseteq {Practice(Preferred(days, eligible))} /\ (practice # {} => eligible # {})
  OBVIOUS
<1>4. review \subseteq {Viewing(i) : i \in reviewable}
  OBVIOUS
<1>5. FilledDay(p, days, d) = IF p.rest[d] \/ p.mock.on = d THEN days[d] ELSE IF all = {} THEN {Unavailable} ELSE all
  BY DEF FilledDay
<1> HIDE DEF return, eligible, begun, practice, reviewable, review
<1>6. \A b \in practice : Fits(b) /\ b.work = 0 /\ b.m \in eligible
  <2> SUFFICES ASSUME NEW b \in practice PROVE Fits(b) /\ b.work = 0 /\ b.m \in eligible
    OBVIOUS
  <2>1. eligible # {} /\ b = Practice(Preferred(days, eligible))
    BY <1>3
  <2>2. PICK m \in Materials : m \in eligible /\ b = Practice(m)
    BY <1>1, <2>1, PreferredIsOne
  <2>3. b \in AssignmentRow /\ b.m = m /\ b.kind = "PRACTICE" /\ b.src = 0 /\ b.work = 0
    BY <2>2 DEF Practice, AssignmentRow, Marks, Terminal
  <2> QED BY <2>2, <2>3, WorksAre DEF Fits
<1>7. \A b \in review : Fits(b) /\ b.work = 0 /\ b.m = 0
  <2> SUFFICES ASSUME NEW b \in review PROVE Fits(b) /\ b.work = 0 /\ b.m = 0
    OBVIOUS
  <2>1. PICK i \in 1..Len(works) : b = Viewing(i)
    BY <1>2, <1>4
  <2>2. b \in AssignmentRow /\ b.m = 0 /\ b.src = i /\ b.work = 0
    <3>1. i \in Nat
      BY WorksAre
    <3> QED BY <2>1, <3>1 DEF Viewing, AssignmentRow, Marks, Terminal
  <2> QED BY <2>1, <2>2, WorksAre DEF Fits
<1>8. Fits(Unavailable) /\ Unavailable.work = 0 /\ Unavailable.m = 0
  BY WorksAre DEF Unavailable, Fits, AssignmentRow, Marks, Terminal
<1> QED BY <1>1, <1>5, <1>6, <1>7, <1>8

\* What an emptied plan may have gained: practice at its distance and what has no attempt,
\* on the days that are open.
Arranged(base, open, days) ==
  /\ days = [d \in DOMAIN base |-> days[d]] /\ Spaced(days)
  /\ \A d \in DOMAIN base :
       /\ base[d] \subseteq days[d]
       /\ \A b \in days[d] : b \notin base[d] => Fits(b) /\ b.work = 0 /\ d \in open

LEMMA WithDayArranges ==
  ASSUME WorksFit, onOffer \subseteq Materials, NEW q, Shaped(q), NEW open, NEW days, Arranged(q.days, open, days),
         NEW d \in Days(q), d \in open
  PROVE  Arranged(q.days, open, WithDay(q, days, d))
<1>1. DOMAIN q.days = Days(q) /\ DOMAIN days = Days(q) /\ q.start \in Nat /\ RepeatAfter \in Nat \ {0} /\ Span \in Nat
  BY Numbers DEF Shaped, Arranged
<1>2. PICK next : next = WithDay(q, days, d)
  OBVIOUS
<1>3. DOMAIN next = Days(q) /\ next[d] = FilledDay(q, days, d) /\ \A e \in Days(q) : e # d => next[e] = days[e]
  BY <1>1, <1>2 DEF WithDay
<1>4. next = [e \in DOMAIN q.days |-> next[e]]
  BY <1>1, <1>2 DEF WithDay
<1>5. /\ \A e \in Days(q) : days[e] \subseteq next[e]
      /\ \A e \in Days(q) : \A b \in next[e] : b \notin days[e] => e = d /\ Fits(b) /\ b.work = 0
                                                 /\ (b.m # 0 => b.m \in Eligible(days, d))
  BY <1>1, <1>3, FilledDayAdds
<1>6. Spaced(next)
  <2> SUFFICES ASSUME NEW e \in Days(q), NEW f \in Days(q), NEW a \in next[e], NEW b \in next[f],
                      e < f, a.m = b.m, a.m # 0, Live(a), Live(b)
               PROVE  f - e >= RepeatAfter
    BY <1>3 DEF Spaced
  <2>0. e \in Int /\ f \in Int
    BY <1>1 DEF Days
  <2>1. CASE a \in days[e] /\ b \in days[f]
    BY <1>1, <2>1 DEF Arranged, Spaced
  <2>2. CASE b \notin days[f]
    <3>1. f = d /\ a.m \in Eligible(days, d)
      BY <1>5, <2>2
    <3>2. a \in days[e]
      BY <1>5, <2>0, <3>1
    <3>3. e \in UsedDays(days, a.m)
      BY <1>1, <3>2 DEF UsedDays, Live
    <3> QED BY <3>1, <3>3 DEF Eligible
  <2>3. CASE a \notin days[e]
    <3>1. e = d /\ b.m \in Eligible(days, d)
      BY <1>5, <2>3
    <3>2. b \in days[f]
      BY <1>5, <2>0, <3>1
    <3>3. f \in UsedDays(days, b.m)
      BY <1>1, <3>2 DEF UsedDays, Live
    <3>4. d - f >= RepeatAfter
      BY <3>1, <3>3 DEF Eligible
    <3> QED BY <1>1, <2>0, <3>1, <3>4
  <2> QED BY <2>1, <2>2, <2>3
<1>7. ASSUME NEW e \in Days(q)
      PROVE  q.days[e] \subseteq next[e] /\ \A b \in next[e] : b \notin q.days[e] => Fits(b) /\ b.work = 0 /\ e \in open
  <2>1. q.days[e] \subseteq days[e] /\ \A b \in days[e] : b \notin q.days[e] => Fits(b) /\ b.work = 0 /\ e \in open
    BY <1>1 DEF Arranged
  <2> QED BY <1>5, <2>1
<1>8. Arranged(q.days, open, next)
  BY <1>1, <1>4, <1>6, <1>7 DEF Arranged
<1> QED BY <1>2, <1>8

\* fillFuture.
LEMMA FilledFits ==
  ASSUME WorksFit, onOffer \subseteq Materials, NEW p, PlanFits(p), NEW from, NEW r, r = Filled(p, from)
  PROVE  /\ PlanFits(r) /\ Follows(All(p.days), All(r.days)) /\ (CarriedOver(p.days) => CarriedOver(r.days))
         /\ r.start = p.start /\ r.off = p.off /\ r.back = p.back /\ r.lastDay = p.lastDay
         /\ r.active = p.active /\ r.mock = p.mock
         /\ \A d \in Days(p) : d \notin OpenDays(p, from) => r.days[d] = p.days[d] /\ r.rest[d] = p.rest[d]
<1>1. PICK q : q = Emptied(p, from)
  OBVIOUS
<1>2. /\ PlanFits(q) /\ Follows(All(p.days), All(q.days)) /\ (CarriedOver(p.days) => CarriedOver(q.days))
      /\ q.start = p.start /\ q.off = p.off /\ q.back = p.back /\ q.lastDay = p.lastDay
      /\ q.active = p.active /\ q.mock = p.mock
      /\ \A d \in Days(p) : d \notin OpenDays(p, from) => q.days[d] = p.days[d] /\ q.rest[d] = p.rest[d]
  BY <1>1, EmptiedFits
<1>3. PICK a \in Nat, b \in Nat : a = p.start - 1 /\ b = p.start + Span - 1 /\ a <= b /\ a + 1 = p.start
  BY Numbers DEF PlanFits, Shaped
<1>4. Days(p) = (a + 1)..b /\ Days(q) = (a + 1)..b
  BY <1>2, <1>3 DEF Days
<1> DEFINE open == OpenDays(p, from)
           Next1(days, d) == IF d \in open THEN WithDay(q, days, d) ELSE days
           Steps(g, n) == g = [d \in a..n |-> IF d < p.start THEN q.days
                                               ELSE IF d \in OpenDays(p, from) THEN WithDay(q, g[d - 1], d) ELSE g[d - 1]]
           upTo == CHOOSE g : Steps(g, b)
<1>5. r = [q EXCEPT !.days = upTo[b]]
  BY <1>1, <1>3 DEF Filled
<1>6. \A n \in Nat : n >= a /\ (\E g : Steps(g, n)) => \E g : Steps(g, n + 1)
  <2> SUFFICES ASSUME NEW n \in Nat, n >= a, NEW g, Steps(g, n) PROVE \E h : Steps(h, n + 1)
    OBVIOUS
  <2> DEFINE h == [d \in a..(n + 1) |-> IF d = n + 1 THEN Next1(g[n], n + 1) ELSE g[d]]
  <2>1. \A d \in a..(n + 1) : h[d] = IF d < p.start THEN q.days ELSE Next1(h[d - 1], d)
    <3> SUFFICES ASSUME NEW d \in a..(n + 1) PROVE h[d] = IF d < p.start THEN q.days ELSE Next1(h[d - 1], d)
      OBVIOUS
    <3> HIDE DEF Next1
    <3>1. CASE d = a
      <4>1. g[a] = IF a < p.start THEN q.days ELSE Next1(g[a - 1], a)
        <5> USE DEF Next1
        <5> QED BY <3>1
      <4>2. a < p.start /\ h[a] = g[a]
        BY <1>3
      <4> QED BY <3>1, <4>1, <4>2
    <3>2. CASE d = n + 1
      <4>1. h[d - 1] = g[n] /\ ~(d < p.start)
        BY <1>3, <3>2
      <4> QED BY <3>2, <4>1
    <3>3. CASE d \in (a + 1)..n
      <4>1. h[d - 1] = g[d - 1] /\ h[d] = g[d] /\ ~(d < p.start)
        BY <1>3, <3>3
      <4>2. g[d] = IF d < p.start THEN q.days ELSE Next1(g[d - 1], d)
        <5> USE DEF Next1
        <5> QED BY <3>3
      <4> QED BY <4>1, <4>2
    <3> QED BY <1>3, <3>1, <3>2, <3>3
  <2>2. h = [d \in a..(n + 1) |-> IF d < p.start THEN q.days ELSE Next1(h[d - 1], d)]
    <3>1. h = [d \in a..(n + 1) |-> h[d]]
      OBVIOUS
    <3> HIDE DEF h, Next1
    <3> QED BY <2>1, <3>1
  <2>3. PICK f : f = h
    OBVIOUS
  <2> QED BY <2>2, <2>3
<1>7. \E g : Steps(g, a)
  <2>1. Steps([d \in a..a |-> q.days], a)
    BY <1>3
  <2> QED BY <2>1
<1>8. \E g : Steps(g, b)
  <2> DEFINE Fails == {n \in Nat : n >= a /\ ~\E g : Steps(g, n)}
  <2> SUFFICES ASSUME Fails # {} PROVE FALSE
    BY <1>3
  <2> HIDE DEF Steps
  <2>1. PICK n \in Fails : \A k \in Fails : n <= k
    BY LeastOf
  <2>2. n \in Nat /\ n >= a /\ ~\E g : Steps(g, n)
    BY <2>1
  <2>3. n - 1 \in Nat /\ n - 1 >= a /\ n - 1 < n /\ (n - 1) + 1 = n
    <3>1. n # a
      BY <1>7, <2>2
    <3> QED BY <1>3, <2>2, <3>1
  <2>4. \E g : Steps(g, n - 1)
    BY <2>1, <2>2, <2>3
  <2> QED BY <1>6, <2>2, <2>3, <2>4
<1>9. Steps(upTo, b)
  BY <1>8
<1> HIDE DEF upTo
<1>10. upTo[a] = q.days /\ \A d \in (a + 1)..b : upTo[d] = Next1(upTo[d - 1], d)
  <2>1. a \in a..b /\ a < p.start /\ \A d \in (a + 1)..b : d \in a..b /\ ~(d < p.start)
    BY <1>3
  <2>2. \A d \in a..b : upTo[d] = IF d < p.start THEN q.days ELSE Next1(upTo[d - 1], d)
    BY <1>9
  <2> QED BY <2>1, <2>2
<1> HIDE DEF Steps, Next1
<1>11. \A n \in a..b : Arranged(q.days, open, upTo[n])
  <2> DEFINE Fails == {n \in a..b : ~Arranged(q.days, open, upTo[n])}
  <2> SUFFICES ASSUME Fails # {} PROVE FALSE
    OBVIOUS
  <2>1. PICK n \in Fails : \A k \in Fails : n <= k
    <3>1. Fails \in SUBSET Nat /\ Fails # {}
      BY <1>3
    <3> HIDE DEF Fails
    <3> QED BY <3>1, LeastOf
  <2>2. n \in a..b /\ ~Arranged(q.days, open, upTo[n])
    BY <2>1
  <2>3. Arranged(q.days, open, q.days)
    BY <1>2 DEF Arranged, PlanFits, DaysFit, Shaped
  <2>4. n \in (a + 1)..b /\ n - 1 \in a..b /\ n - 1 < n
    <3>1. n # a
      BY <1>10, <2>2, <2>3
    <3> QED BY <1>3, <2>2, <3>1
  <2>5. Arranged(q.days, open, upTo[n - 1])
    BY <2>1, <2>2, <2>4
  <2>6. upTo[n] = upTo[n - 1] \/ (n \in open /\ upTo[n] = WithDay(q, upTo[n - 1], n))
    BY <1>10, <2>4 DEF Next1
  <2>7. n \in Days(q) /\ Shaped(q)
    BY <1>2, <1>4, <2>4 DEF PlanFits
  <2> QED BY <2>2, <2>5, <2>6, <2>7, WithDayArranges
<1>12. PICK days : days = upTo[b] /\ Arranged(q.days, open, days) /\ r = [q EXCEPT !.days = days]
  BY <1>3, <1>5, <1>11
<1>13. Shaped(q) /\ DOMAIN q.days = Days(q) /\ DaysFit(q.days)
  BY <1>2 DEF PlanFits, Shaped
<1>14. DaysFit(days) /\ Follows(All(q.days), All(days)) /\ (CarriedOver(q.days) => CarriedOver(days))
  <2>1. DOMAIN days = DOMAIN q.days /\ Spaced(days)
    BY <1>12 DEF Arranged
  <2>2. \A d \in DOMAIN q.days : q.days[d] \subseteq days[d] /\ \A x \in days[d] : x \notin q.days[d] => Fits(x) /\ x.work = 0
    BY <1>12 DEF Arranged
  <2> HIDE DEF open
  <2> QED BY <1>13, <2>1, <2>2, Grown
<1>15. r = [q EXCEPT !.days = [d \in Days(q) |-> days[d]]]
  BY <1>12, <1>13 DEF Arranged
<1>16. /\ Shaped(r) /\ Days(r) = Days(q) /\ DOMAIN r.days = Days(q) /\ (\A d \in Days(q) : r.days[d] = days[d])
       /\ r.start = q.start /\ r.off = q.off /\ r.back = q.back /\ r.lastDay = q.lastDay
       /\ r.active = q.active /\ r.rest = q.rest /\ r.mock = q.mock
  BY <1>13, <1>15, NewDays
<1>17. r.days = days
  BY <1>12, <1>13, <1>16 DEF Arranged, Shaped
<1>18. PlanFits(r)
  BY <1>2, <1>14, <1>16, <1>17 DEF PlanFits
<1>19. Follows(All(p.days), All(r.days))
  BY <1>2, <1>14, <1>17, FollowsOn
<1>20. \A d \in Days(p) : d \notin open => days[d] = q.days[d]
  BY <1>4, <1>12, <1>13 DEF Arranged
<1> QED BY <1>2, <1>4, <1>14, <1>16, <1>17, <1>18, <1>19, <1>20

\* applyExamDeadline.
LEMMA ClosedFits ==
  ASSUME NEW p, PlanFits(p), NEW r, r = Closed(p)
  PROVE  /\ PlanFits(r) /\ Follows(All(p.days), All(r.days)) /\ (CarriedOver(p.days) => CarriedOver(r.days))
         /\ r.start = p.start /\ r.off = p.off /\ r.back = p.back /\ r.lastDay = p.lastDay
         /\ r.active = p.active /\ ClosedDown(r) /\ (ClosedDown(p) => r = p)
         /\ \A d \in Days(p) : ~Over(d) => r.days[d] = p.days[d]
<1>0. Shaped(p) /\ DOMAIN p.days = Days(p) /\ DaysFit(p.days) /\ IsRow(p)
  BY DEF PlanFits, Shaped
<1>1. PICK days, rest, mock :
        /\ days = [d \in Days(p) |-> IF Over(d) THEN {a \in p.days[d] : Kept(a)} ELSE p.days[d]]
        /\ rest = [d \in Days(p) |-> p.rest[d] \/ Over(d)]
        /\ mock = IF Over(p.start) \/ Over(p.mock.on) THEN [st |-> "DISABLED", on |-> 0] ELSE p.mock
        /\ r = [p EXCEPT !.days = days, !.rest = rest, !.mock = mock]
  BY DEF Closed, Over
<1>2. /\ r.start = p.start /\ r.off = p.off /\ r.back = p.back /\ r.lastDay = p.lastDay
      /\ r.active = p.active /\ r.mock = mock /\ r.days = days /\ r.rest = rest /\ IsRow(r)
  BY <1>0, <1>1 DEF IsRow, PlanFields
<1>3. Days(r) = Days(p)
  BY <1>2 DEF Days
<1>4. rest \in [Days(p) -> BOOLEAN]
  <2>1. \A d \in Days(p) : rest[d] \in BOOLEAN
    BY <1>1
  <2> QED BY <1>1, <2>1
<1>5. mock \in MockRow
  BY <1>0, <1>1 DEF Shaped, MockRow
<1>6. DOMAIN days = Days(p) /\ \A d \in Days(p) : days[d] \subseteq p.days[d] /\ \A a \in p.days[d] : Kept(a) => a \in days[d]
  BY <1>1
<1>7. DaysFit(days) /\ Follows(All(p.days), All(days)) /\ (CarriedOver(p.days) => CarriedOver(days))
  BY <1>0, <1>6, Thinned
<1>8. days = [d \in Days(r) |-> days[d]]
  BY <1>1, <1>3
<1>9. PlanFits(r)
  BY <1>0, <1>2, <1>3, <1>4, <1>5, <1>7, <1>8 DEF Shaped, PlanFits
<1>10. ClosedDown(r)
  <2>1. \A d \in Days(p) : Over(d) => rest[d] /\ \A a \in days[d] : Kept(a)
    BY <1>1
  <2>2. Over(p.start) \/ Over(mock.on) => mock = [st |-> "DISABLED", on |-> 0]
    BY <1>1
  <2> QED BY <1>2, <1>3, <2>1, <2>2 DEF ClosedDown
<1>11. ASSUME ClosedDown(p) PROVE r = p
  <2>1. \A d \in Days(p) : days[d] = p.days[d]
    BY <1>1, <1>11 DEF ClosedDown
  <2>2. \A d \in Days(p) : rest[d] = p.rest[d]
    BY <1>0, <1>1, <1>11 DEF ClosedDown, Shaped
  <2>3. days = p.days /\ rest = p.rest
    BY <1>0, <1>1, <2>1, <2>2 DEF Shaped
  <2>4. mock = p.mock
    BY <1>1, <1>11 DEF ClosedDown
  <2> QED BY <1>0, <1>2, <2>3, <2>4, SameRow
<1>12. \A d \in Days(p) : ~Over(d) => days[d] = p.days[d]
  BY <1>1
<1> QED BY <1>2, <1>7, <1>9, <1>10, <1>11, <1>12

\* The last day of activity is there, and nothing was begun or handed in after it.
LEMMA ActivityIs ==
  ASSUME WorksFit, today \in Nat, NEW p, p.active \in Nat, p.active <= today
  PROVE  /\ Activity(p) \in Nat /\ Activity(p) <= today /\ p.active <= Activity(p)
         /\ \A i \in DOMAIN works : works[i].start <= Activity(p) /\ works[i].sub <= Activity(p)
         /\ (\A i \in DOMAIN works : works[i].start <= p.active /\ works[i].sub <= p.active) => Activity(p) = p.active
<1> DEFINE acts == {p.active} \cup {works[i].start : i \in DOMAIN works}
                     \cup {works[i].sub : i \in {i \in DOMAIN works : works[i].sub <= today}}
<1>1. \A i \in DOMAIN works : /\ works[i].start \in Nat /\ works[i].sub \in Nat
                              /\ works[i].start <= today /\ works[i].sub <= today
  BY WorksAre DEF WorksFit
<1>2. /\ p.active \in acts /\ \A i \in DOMAIN works : works[i].start \in acts /\ works[i].sub \in acts
      /\ \A x \in acts : x \in Nat /\ x <= today
  BY <1>1
<1>3. \A x \in acts : x = p.active \/ \E i \in DOMAIN works : x = works[i].start \/ x = works[i].sub
  OBVIOUS
<1>4. Activity(p) = CHOOSE x \in acts : \A y \in acts : x >= y
  BY DEF Activity, Max
<1> HIDE DEF acts
<1>5. \E x \in acts : \A y \in acts : x >= y
  <2>1. {today - x : x \in acts} \in SUBSET Nat /\ {today - x : x \in acts} # {}
    BY <1>2
  <2>2. PICK x \in acts : \A u \in {today - y : y \in acts} : today - x <= u
    BY <2>1, LeastOf
  <2>3. \A y \in acts : today - x <= today - y
    BY <2>2
  <2> QED BY <1>2, <2>3
<1>6. Activity(p) \in acts /\ \A y \in acts : Activity(p) >= y
  BY <1>4, <1>5
<1>7. /\ Activity(p) \in Nat /\ Activity(p) <= today /\ p.active <= Activity(p)
      /\ \A i \in DOMAIN works : works[i].start <= Activity(p) /\ works[i].sub <= Activity(p)
  BY <1>1, <1>2, <1>6
<1>8. (\A i \in DOMAIN works : works[i].start <= p.active /\ works[i].sub <= p.active) => Activity(p) <= p.active
  BY <1>1, <1>3, <1>6
<1> QED BY <1>7, <1>8

\* A plan with the same days.
LEMMA SameDaysFit ==
  ASSUME NEW p, PlanFits(p), NEW r, IsRow(r), r.start = p.start, r.days = p.days, r.rest = p.rest,
         r.back \in BOOLEAN, r.lastDay \in Nat, r.active \in Nat, r.active <= today, r.mock \in MockRow
  PROVE  PlanFits(r)
<1>1. Days(r) = Days(p)
  BY DEF Days
<1> QED BY <1>1 DEF PlanFits, Shaped

Settled == WorksFit /\ today \in Nat /\ onOffer \subseteq Materials /\ goal \in Nat

\* The plan as execute brings it up to date: nothing lost, nothing more to take in.
LEMMA CurrentFits ==
  ASSUME Settled, NEW p, PlanFits(p), NEW r, r = Current(p)
  PROVE  /\ PlanFits(r) /\ Follows(All(p.days), All(r.days)) /\ UpToDate(r)
         /\ r.start = p.start /\ r.lastDay = today
<1> USE DEF Settled
<1>1. PICK c : c = Carry(p)
  OBVIOUS
<1>2. /\ PlanFits(c) /\ Follows(All(p.days), All(c.days)) /\ CarriedOver(c.days)
      /\ c.start = p.start /\ c.lastDay = p.lastDay /\ c.active = p.active
  BY <1>1, CarryFits
<1>3. /\ Activity(p) \in Nat /\ Activity(p) <= today
      /\ \A i \in DOMAIN works : works[i].start <= Activity(p) /\ works[i].sub <= Activity(p)
  BY ActivityIs DEF PlanFits, Shaped
<1>4. PICK q : q = [c EXCEPT !.active = Activity(p)]
  OBVIOUS
<1>5. /\ q.start = c.start /\ q.off = c.off /\ q.back = c.back /\ q.lastDay = c.lastDay /\ q.active = Activity(p)
      /\ q.days = c.days /\ q.rest = c.rest /\ q.mock = c.mock /\ IsRow(q)
  BY <1>2, <1>4 DEF PlanFits, Shaped, IsRow, PlanFields
<1>6. PlanFits(q)
  <2>1. q.back \in BOOLEAN /\ q.lastDay \in Nat /\ q.mock \in MockRow
    BY <1>2, <1>5 DEF PlanFits, Shaped
  <2> QED BY <1>2, <1>3, <1>5, <2>1, SameDaysFit
<1> DEFINE returning == today - q.active >= Pause
<1>7. returning \in BOOLEAN
  BY <1>3, <1>5, Numbers
<1>8. r = Closed(IF q.lastDay # today
            THEN Filled([Missed(q) EXCEPT !.back = returning, !.lastDay = today],
                        IF returning THEN today ELSE today + 1)
            ELSE IF news THEN Filled(q, today + 1) ELSE q)
  BY <1>1, <1>2, <1>4 DEF Current
<1> HIDE DEF returning
<1>9. PICK f : /\ r = Closed(f) /\ PlanFits(f) /\ Follows(All(c.days), All(f.days)) /\ CarriedOver(f.days)
               /\ f.start = p.start /\ f.lastDay = today /\ f.active = Activity(p)
  <2>1. CASE q.lastDay # today
    <3>1. PICK m : m = Missed(q)
      OBVIOUS
    <3>2. /\ PlanFits(m) /\ Follows(All(q.days), All(m.days)) /\ CarriedOver(m.days)
          /\ m.start = q.start /\ m.active = q.active
      BY <1>2, <1>5, <1>6, <3>1, MissedFits
    <3>3. PICK n : n = [m EXCEPT !.back = returning, !.lastDay = today]
      OBVIOUS
    <3>4. /\ n.start = m.start /\ n.off = m.off /\ n.back = returning /\ n.lastDay = today /\ n.active = m.active
          /\ n.days = m.days /\ n.rest = m.rest /\ n.mock = m.mock /\ IsRow(n)
      BY <3>2, <3>3 DEF PlanFits, Shaped, IsRow, PlanFields
    <3>5. PlanFits(n)
      <4>1. n.active \in Nat /\ n.active <= today /\ n.mock \in MockRow
        BY <3>2, <3>4 DEF PlanFits, Shaped
      <4>2. n.back \in BOOLEAN
        BY <1>7, <3>4
      <4> QED BY <3>2, <3>4, <4>1, <4>2, SameDaysFit
    <3>6. PICK f : f = Filled(n, IF returning THEN today ELSE today + 1)
      OBVIOUS
    <3>7. /\ PlanFits(f) /\ Follows(All(n.days), All(f.days)) /\ CarriedOver(f.days)
          /\ f.start = n.start /\ f.lastDay = n.lastDay /\ f.active = n.active
      BY <3>2, <3>4, <3>5, <3>6, FilledFits
    <3>8. Follows(All(c.days), All(f.days))
      BY <1>5, <3>2, <3>4, <3>7, FollowsOn
    <3> QED BY <1>2, <1>5, <1>8, <2>1, <3>1, <3>2, <3>3, <3>4, <3>6, <3>7, <3>8
  <2>2. CASE q.lastDay = today /\ news
    <3>1. PICK f : f = Filled(q, today + 1)
      OBVIOUS
    <3>2. /\ PlanFits(f) /\ Follows(All(q.days), All(f.days)) /\ CarriedOver(f.days)
          /\ f.start = q.start /\ f.lastDay = q.lastDay /\ f.active = q.active
      BY <1>2, <1>5, <1>6, <3>1, FilledFits
    <3> QED BY <1>2, <1>5, <1>8, <2>2, <3>1, <3>2
  <2>3. CASE q.lastDay = today /\ ~news
    BY <1>2, <1>5, <1>6, <1>8, <2>3, FollowsItself
  <2> QED BY <2>1, <2>2, <2>3
<1>10. /\ PlanFits(r) /\ Follows(All(f.days), All(r.days)) /\ CarriedOver(r.days)
       /\ r.start = f.start /\ r.lastDay = f.lastDay /\ r.active = f.active /\ ClosedDown(r)
  BY <1>9, ClosedFits
<1>11. Follows(All(p.days), All(r.days))
  BY <1>2, <1>9, <1>10, FollowsOn
<1> QED BY <1>3, <1>9, <1>10, <1>11 DEF UpToDate

\* A plan that is up to date is read as it is.
LEMMA CurrentStays ==
  ASSUME Settled, NEW p, PlanFits(p), UpToDate(p), p.lastDay = today, ~news
  PROVE  Current(p) = p
<1> USE DEF Settled
<1>0. Shaped(p) /\ IsRow(p) /\ DOMAIN p.days = Days(p)
  BY DEF PlanFits, Shaped
<1>1. Carry(p) = p
  <2>1. PICK days : days = [d \in Days(p) |-> {Carried(a) : a \in p.days[d]}]
    OBVIOUS
  <2>2. \A d \in Days(p) : days[d] = p.days[d]
    <3> SUFFICES ASSUME NEW d \in Days(p) PROVE days[d] = p.days[d]
      OBVIOUS
    <3>1. \A a \in p.days[d] : Carried(a) = a
      BY <1>0 DEF UpToDate, CarriedOver, All
    <3> QED BY <2>1, <3>1
  <2>3. days = p.days
    BY <1>0, <2>1, <2>2 DEF Shaped
  <2>4. Carry(p) = [p EXCEPT !.days = p.days]
    BY <2>1, <2>3 DEF Carry
  <2> QED BY <1>0, <2>4 DEF IsRow, PlanFields
<1>2. Activity(p) = p.active
  BY ActivityIs DEF PlanFits, Shaped, UpToDate
<1>3. [p EXCEPT !.active = p.active] = p
  BY <1>0 DEF IsRow, PlanFields
<1>4. Current(p) = Closed(p)
  BY <1>1, <1>2, <1>3 DEF Current
<1> QED BY <1>4, ClosedFits DEF UpToDate

\* One assignment of one day changes.
LEMMA ChangedFits ==
  ASSUME WorksFit, NEW p, PlanFits(p), NEW d \in Days(p), NEW a \in p.days[d], NEW b, Fits(b), b.m = a.m, Live(b) => Live(a),
         b.work # 0 => b.work = a.work \/ \A c \in All(p.days) : c.work # b.work,
         NEW r, r = Changed(p, d, a, b)
  PROVE  /\ PlanFits(r)
         /\ (Kept(a) => Same(a, b)) => Retains(All(p.days), All(r.days))
         /\ \A c \in All(r.days) : c = b \/ c \in All(p.days)
         /\ r.start = p.start /\ r.off = p.off /\ r.back = p.back /\ r.lastDay = p.lastDay
         /\ r.active = p.active /\ r.rest = p.rest /\ r.mock = p.mock
         /\ \A e \in Days(p) : \A c \in r.days[e] : c \in p.days[e] \/ (e = d /\ c = b)
<1>0. Shaped(p) /\ DOMAIN p.days = Days(p) /\ DaysFit(p.days)
  BY DEF PlanFits, Shaped
<1>1. PICK x : x = [p.days EXCEPT ![d] = (@ \ {a}) \cup {b}]
  OBVIOUS
<1>2. x = [e \in Days(p) |-> x[e]] /\ \A e \in Days(p) : x[e] = IF e = d THEN (p.days[d] \ {a}) \cup {b} ELSE p.days[e]
  BY <1>0, <1>1
<1>3. r = [p EXCEPT !.days = [e \in Days(p) |-> x[e]]]
  <2>1. r = [p EXCEPT !.days = x]
    BY <1>0, <1>1 DEF Changed, Shaped, IsRow, PlanFields
  <2> QED BY <1>2, <2>1
<1>4. /\ Shaped(r) /\ Days(r) = Days(p) /\ DOMAIN r.days = Days(p) /\ (\A e \in Days(p) : r.days[e] = x[e])
      /\ r.start = p.start /\ r.off = p.off /\ r.back = p.back /\ r.lastDay = p.lastDay
      /\ r.active = p.active /\ r.rest = p.rest /\ r.mock = p.mock
  BY <1>0, <1>3, NewDays
<1>5. /\ \A e \in Days(p) : \A c \in r.days[e] : c \in p.days[e] \/ (e = d /\ c = b)
      /\ \A e \in Days(p) : \A c \in p.days[e] : c \in r.days[e] \/ (e = d /\ c = a)
      /\ b \in r.days[d] /\ (a \in r.days[d] => a = b)
  BY <1>2, <1>4
<1>6. /\ \A c \in All(r.days) : c = b \/ c \in All(p.days)
      /\ \A c \in All(p.days) : c \in All(r.days) \/ c = a
      /\ a \in All(p.days) /\ b \in All(r.days)
  BY <1>0, <1>4, <1>5 DEF All
<1>7. Spaced(r.days)
  <2>1. \A e \in Days(p) : \A c \in r.days[e] : \E o \in p.days[e] : c.m = o.m /\ (Live(c) => Live(o))
    BY <1>5
  <2> QED BY <1>0, <1>4, <2>1, StillSpaced DEF DaysFit
<1>8. ClaimedOnce(r.days)
  <2> SUFFICES ASSUME NEW e \in Days(p), NEW f \in Days(p), NEW u \in r.days[e], NEW v \in r.days[f],
                      u.work # 0, u.work = v.work
               PROVE  u = v /\ e = f
    BY <1>4 DEF ClaimedOnce
  <2>1. CASE u \in p.days[e] /\ v \in p.days[f]
    BY <1>0, <2>1 DEF DaysFit, ClaimedOnce
  <2>2. ASSUME NEW g \in Days(p), NEW w \in p.days[g], w \in r.days[g], w.work # 0, w.work = b.work PROVE w = b /\ g = d
    <3>1. w \in All(p.days)
      BY <1>0 DEF All
    <3>2. b.work = a.work
      BY <2>2, <3>1
    <3>3. w = a /\ g = d
      BY <1>0, <2>2, <3>2 DEF DaysFit, ClaimedOnce
    <3> QED BY <1>5, <2>2, <3>3
  <2> QED BY <1>5, <2>1, <2>2
<1>9. \A c \in All(r.days) : Fits(c)
  BY <1>0, <1>6 DEF DaysFit
<1>10. PlanFits(r)
  BY <1>4, <1>7, <1>8, <1>9 DEF PlanFits, DaysFit
<1>11. (Kept(a) => Same(a, b)) => Retains(All(p.days), All(r.days))
  BY <1>6 DEF Retains, Same
<1> QED BY <1>4, <1>5, <1>6, <1>10, <1>11

-------------------------------------------------------------------------------
(* The steps.                                                               *)

LEMMA TypesOf ==
  ASSUME StudyInv
  PROVE  Settled /\ today \in Nat \ {0}
BY Numbers DEF StudyInv, Settled

LEMMA IsAPlan == ASSUME NEW p, PlanFits(p) PROVE p # NoPlan
BY DEF PlanFits, NoPlan

\* What a plan that follows another claims was claimed already.
LEMMA StillApart ==
  ASSUME NEW as, NEW bs, ClaimsWithin(as, bs), Apart(as)
  PROVE  Apart(bs)
BY DEF ClaimsWithin, Apart

\* A request stores its plan.
LEMMA PlanStored ==
  ASSUME StudyInv, plan # NoPlan, NEW r, plan' = r, PlanFits(r), Retains(All(plan.days), All(r.days)), Apart(All(r.days)),
         opening' = NoStart, news' \in BOOLEAN, UNCHANGED <<today, goal, onOffer, works, old>>
  PROVE  /\ StudyInv'
         /\ \A a \in Assignments : Kept(a) => \E b \in Assignments' : Same(a, b)
<1>1. r # NoPlan
  BY IsAPlan
<1>2. PlanFits(plan)'
  BY DEF PlanFits, DaysFit, Fits
<1>3. Apart(All(plan.days))'
  BY DEF Apart
<1>4. OpeningFits'
  BY DEF OpeningFits, NoStart
<1>5. WorksFit' /\ (\A a \in old' : Fits(a)') /\ Unique(old')
  BY DEF StudyInv, WorksFit, Fits
<1>6. StudyInv'
  BY <1>1, <1>2, <1>3, <1>4, <1>5 DEF StudyInv
<1>7. Assignments = old \cup All(plan.days) /\ Assignments' = old \cup All(r.days)
  BY <1>1 DEF Assignments
<1> QED BY <1>6, <1>7 DEF Retains, Same

\* The two action properties, of one step.
LosesNothing == \A a \in Assignments : Kept(a) => \E b \in Assignments' : Same(a, b)

ReadsQuietly ==
  plan' # plan /\ plan'.lastDay = today' /\ (opening # NoStart => opening.quiet) => (Current(plan) = plan)'

StepHolds == StudyInv' /\ LosesNothing /\ ReadsQuietly

\* A stored plan that is up to date is read as it is.
LEMMA StoredStays ==
  StudyInv /\ plan # NoPlan /\ UpToDate(plan) /\ plan.lastDay = today /\ ~news => Current(plan) = plan
BY TypesOf, CurrentStays DEF StudyInv

\* A request stores a plan that has taken everything in.
LEMMA RequestHolds ==
  ASSUME StudyInv, plan # NoPlan, NEW r, plan' = r, PlanFits(r), Retains(All(plan.days), All(r.days)), Apart(All(r.days)),
         UpToDate(r), r.lastDay = today, opening' = NoStart, news' = FALSE, UNCHANGED <<today, goal, onOffer, works, old>>
  PROVE  StepHolds
<1>1. StudyInv' /\ LosesNothing
  BY PlanStored DEF LosesNothing
<1>2. (plan # NoPlan)'
  BY IsAPlan
<1>3. UpToDate(plan)'
  BY DEF UpToDate, CarriedOver, Carried, ClosedDown, Over
<1>4. (StudyInv /\ plan # NoPlan /\ UpToDate(plan) /\ plan.lastDay = today /\ ~news => Current(plan) = plan)'
  BY StoredStays, PTL
<1>5. (Current(plan) = plan)'
  BY <1>1, <1>2, <1>3, <1>4
<1> QED BY <1>1, <1>5 DEF StepHolds, ReadsQuietly

\* What a request starts from.
LEMMA CurrentOf ==
  ASSUME StudyInv, plan # NoPlan, NEW p, p = Current(plan)
  PROVE  /\ PlanFits(p) /\ Retains(All(plan.days), All(p.days)) /\ Apart(All(p.days))
         /\ UpToDate(p) /\ p.lastDay = today /\ p.start = plan.start /\ Follows(All(plan.days), All(p.days))
<1>1. /\ PlanFits(p) /\ Follows(All(plan.days), All(p.days)) /\ UpToDate(p)
      /\ p.start = plan.start /\ p.lastDay = today
  BY TypesOf, CurrentFits DEF StudyInv
<1>2. Apart(All(p.days))
  BY <1>1, StillApart DEF StudyInv, Follows
<1> QED BY <1>1, <1>2 DEF Follows

LEMMA GetPlanHolds == ASSUME StudyInv, GetPlan PROVE StepHolds
<1>1. PICK p : p = Current(plan)
  OBVIOUS
<1> QED BY <1>1, CurrentOf, RequestHolds DEF GetPlan, Free

LEMMA ReplanHolds == ASSUME StudyInv, NEW off, Replan(off) PROVE StepHolds
<1>1. PICK p : p = Current(plan)
  OBVIOUS
<1>2. PICK q : q = [p EXCEPT !.off = off]
  OBVIOUS
<1>3. PICK r : r = Filled(q, today + 1)
  OBVIOUS
<1>4. plan # NoPlan /\ plan' = r /\ opening' = NoStart /\ news' = FALSE /\ UNCHANGED <<today, goal, onOffer, works, old>>
  BY <1>1, <1>2, <1>3 DEF Replan, Free
<1>5. /\ PlanFits(p) /\ Retains(All(plan.days), All(p.days)) /\ Apart(All(p.days))
      /\ UpToDate(p) /\ p.lastDay = today
  BY <1>1, <1>4, CurrentOf
<1>6. /\ q.start = p.start /\ q.off = off /\ q.back = p.back /\ q.lastDay = p.lastDay /\ q.active = p.active
      /\ q.days = p.days /\ q.rest = p.rest /\ q.mock = p.mock /\ IsRow(q)
  BY <1>2, <1>5 DEF PlanFits, Shaped, IsRow, PlanFields
<1>7. PlanFits(q)
  <2>1. q.back \in BOOLEAN /\ q.lastDay \in Nat /\ q.active \in Nat /\ q.active <= today /\ q.mock \in MockRow
    BY <1>5, <1>6 DEF PlanFits, Shaped
  <2> QED BY <1>5, <1>6, <2>1, SameDaysFit
<1>8. /\ PlanFits(r) /\ Follows(All(q.days), All(r.days)) /\ (CarriedOver(q.days) => CarriedOver(r.days))
      /\ r.start = q.start /\ r.lastDay = q.lastDay /\ r.active = q.active /\ r.mock = q.mock
      /\ \A d \in Days(q) : d \notin OpenDays(q, today + 1) => r.days[d] = q.days[d] /\ r.rest[d] = q.rest[d]
  BY <1>3, <1>7, TypesOf, FilledFits DEF Settled
<1>9. Days(r) = Days(q) /\ Days(q) = Days(p)
  BY <1>6, <1>8 DEF Days
<1>10. \A d \in Days(q) : Over(d) => d \notin OpenDays(q, today + 1)
  <2>1. goal \in Nat /\ \A d \in Days(q) : d \in Int
    BY <1>7, TypesOf, Numbers DEF Settled, Days, PlanFits, Shaped
  <2> QED BY <2>1 DEF Over, OpenDays
<1>11. ClosedDown(r)
  BY <1>5, <1>6, <1>8, <1>9, <1>10 DEF UpToDate, ClosedDown
<1>12. UpToDate(r)
  BY <1>5, <1>6, <1>8, <1>11 DEF UpToDate
<1>13. Retains(All(plan.days), All(r.days)) /\ Apart(All(r.days))
  BY <1>5, <1>6, <1>8, RetainsOn, StillApart DEF Follows
<1> QED BY <1>4, <1>5, <1>6, <1>8, <1>12, <1>13, RequestHolds

\* A request that changes one assignment of the day.
LEMMA TodayHolds ==
  ASSUME StudyInv, plan # NoPlan, ~DeadlineReached, NEW p, p = Current(plan), today \in Days(p), NEW a \in p.days[today],
         NEW b, Fits(b), b.m = a.m, b.src = a.src, b.work = a.work, a.st \notin Terminal, Live(a), Carried(b) = b, Kept(b),
         NEW r, IsRow(r), r.start = p.start, r.days = Changed(p, today, a, b).days, r.rest = p.rest, r.mock = p.mock,
         r.lastDay = p.lastDay, r.back \in BOOLEAN, r.active \in {p.active, today},
         plan' = r, opening' = NoStart, news' = FALSE, UNCHANGED <<today, goal, onOffer, works, old>>
  PROVE  StepHolds
<1>1. /\ PlanFits(p) /\ Retains(All(plan.days), All(p.days)) /\ Apart(All(p.days))
      /\ UpToDate(p) /\ p.lastDay = today
  BY CurrentOf
<1>2. PICK q : q = Changed(p, today, a, b)
  OBVIOUS
<1>3. /\ PlanFits(q) /\ ((Kept(a) => Same(a, b)) => Retains(All(p.days), All(q.days)))
      /\ \A c \in All(q.days) : c = b \/ c \in All(p.days)
      /\ q.start = p.start /\ q.rest = p.rest /\ q.mock = p.mock
      /\ \A e \in Days(p) : \A c \in q.days[e] : c \in p.days[e] \/ (e = today /\ c = b)
  BY <1>1, <1>2, ChangedFits, TypesOf DEF Settled
<1>4. q.days = r.days /\ Days(r) = Days(p) /\ a \in All(p.days)
  <2>1. DOMAIN p.days = Days(p)
    BY <1>1 DEF PlanFits, Shaped
  <2> QED BY <1>2, <2>1 DEF Days, All
<1>5. today \in Nat /\ p.active \in Nat /\ p.active <= today /\ p.lastDay \in Nat /\ p.mock \in MockRow
  BY <1>1, TypesOf DEF Settled, PlanFits, Shaped
<1>6. PlanFits(r)
  <2>1. r.active \in Nat /\ r.active <= today /\ r.lastDay \in Nat /\ r.mock \in MockRow
    BY <1>5
  <2>2. r.start = q.start /\ r.days = q.days /\ r.rest = q.rest
    BY <1>3, <1>4
  <2> QED BY <1>3, <2>1, <2>2, SameDaysFit
<1>7. Retains(All(plan.days), All(r.days))
  <2>1. Retains(All(p.days), All(q.days))
    BY <1>3 DEF Same
  <2> QED BY <1>1, <1>4, <2>1, RetainsOn
<1>8. Apart(All(r.days))
  <2>1. ClaimsWithin(All(p.days), All(r.days))
    BY <1>3, <1>4 DEF ClaimsWithin
  <2> QED BY <1>1, <2>1, StillApart
<1>9. UpToDate(r)
  <2>1. CarriedOver(r.days)
    BY <1>1, <1>3, <1>4 DEF UpToDate, CarriedOver
  <2>2. ClosedDown(r)
    BY <1>1, <1>3, <1>4 DEF UpToDate, ClosedDown, DeadlineReached, Over
  <2>3. \A i \in DOMAIN works : works[i].start <= r.active /\ works[i].sub <= r.active
    <3>1. CASE r.active = p.active
      BY <1>1, <3>1 DEF UpToDate
    <3>2. CASE r.active = today
      BY <3>2 DEF StudyInv, WorksFit
    <3> QED BY <3>1, <3>2
  <2> QED BY <2>1, <2>2, <2>3 DEF UpToDate
<1> QED BY <1>1, <1>6, <1>7, <1>8, <1>9, RequestHolds

\* An assignment of the current plan, and its row.
LEMMA OfToday ==
  ASSUME StudyInv, plan # NoPlan, NEW p, p = Current(plan), today \in Days(p), NEW a \in p.days[today]
  PROVE  Fits(a) /\ a \in AssignmentRow /\ p.back \in BOOLEAN
<1>1. PlanFits(p)
  BY CurrentOf
<1>2. a \in All(p.days)
  BY <1>1 DEF PlanFits, Shaped, All
<1> QED BY <1>1, <1>2 DEF PlanFits, Shaped, DaysFit, Fits

LEMMA ChangedIs ==
  ASSUME NEW p, Shaped(p), NEW d, NEW a, NEW b, NEW r, r = Changed(p, d, a, b)
  PROVE  /\ r.start = p.start /\ r.off = p.off /\ r.back = p.back /\ r.lastDay = p.lastDay
         /\ r.active = p.active /\ r.rest = p.rest /\ r.mock = p.mock /\ IsRow(r)
<1>1. PICK x : x = [p.days EXCEPT ![d] = (@ \ {a}) \cup {b}]
  OBVIOUS
<1>2. r = [p EXCEPT !.days = x]
  BY <1>1 DEF Changed, Shaped, IsRow, PlanFields
<1> QED BY <1>2 DEF Shaped, IsRow, PlanFields

LEMMA SkipHolds == ASSUME StudyInv, NEW a, NEW why \in {"no_time", "unsuitable"}, Skip(a, why) PROVE StepHolds
<1>1. PICK p : p = Current(plan)
  OBVIOUS
<1>2. /\ plan # NoPlan /\ ~DeadlineReached /\ today \in Days(p) /\ a \in p.days[today]
      /\ a.st \notin Terminal \cup {"AWAITING_RESULT"}
      /\ opening' = NoStart /\ news' = FALSE /\ UNCHANGED <<today, goal, onOffer, works, old>>
  BY <1>1 DEF Skip, Free
<1>3. PICK b : b = [a EXCEPT !.st = "SKIPPED", !.why = why]
  OBVIOUS
<1>4. PICK r : r = Changed(p, today, a, b)
  OBVIOUS
<1>5. plan' = r
  BY <1>1, <1>3, <1>4 DEF Skip
<1>6. Fits(a) /\ a \in AssignmentRow /\ p.back \in BOOLEAN
  BY <1>1, <1>2, OfToday
<1>7. /\ b \in AssignmentRow /\ b.kind = a.kind /\ b.m = a.m /\ b.src = a.src /\ b.work = a.work
      /\ b.st = "SKIPPED"
  BY <1>3, <1>6 DEF AssignmentRow, Marks, Terminal
<1>8. Fits(b) /\ Carried(b) = b /\ Kept(b) /\ Live(a)
  BY <1>2, <1>6, <1>7 DEF Fits, Carried, Kept, Live, Terminal
<1>9. Shaped(p)
  BY <1>1, <1>2, CurrentOf DEF PlanFits
<1>10. /\ r.start = p.start /\ r.back = p.back /\ r.lastDay = p.lastDay
       /\ r.active = p.active /\ r.rest = p.rest /\ r.mock = p.mock /\ IsRow(r)
  BY <1>4, <1>9, ChangedIs
<1>11. r.back \in BOOLEAN /\ r.active \in {p.active, today} /\ a.st \notin Terminal /\ r.days = Changed(p, today, a, b).days
  BY <1>2, <1>4, <1>6, <1>10
<1> QED BY <1>1, <1>2, <1>5, <1>7, <1>8, <1>10, <1>11, TodayHolds

LEMMA ViewHolds == ASSUME StudyInv, NEW a, View(a) PROVE StepHolds
<1>1. PICK p : p = Current(plan)
  OBVIOUS
<1>2. /\ plan # NoPlan /\ ~DeadlineReached /\ today \in Days(p) /\ a \in p.days[today]
      /\ a.kind = "REVIEW" /\ a.st \notin Terminal
      /\ opening' = NoStart /\ news' = FALSE /\ UNCHANGED <<today, goal, onOffer, works, old>>
  BY <1>1 DEF View, Free
<1>3. PICK b : b = [a EXCEPT !.st = "COMPLETED"]
  OBVIOUS
<1>4. PICK q : q = Changed(p, today, a, b)
  OBVIOUS
<1>5. PICK r : r = [q EXCEPT !.active = today, !.back = FALSE]
  OBVIOUS
<1>6. plan' = r
  BY <1>1, <1>3, <1>4, <1>5 DEF View
<1>7. Fits(a) /\ a \in AssignmentRow /\ p.back \in BOOLEAN
  BY <1>1, <1>2, OfToday
<1>8. /\ b \in AssignmentRow /\ b.kind = a.kind /\ b.m = a.m /\ b.src = a.src /\ b.work = a.work
      /\ b.st = "COMPLETED"
  BY <1>3, <1>7 DEF AssignmentRow, Marks, Terminal
<1>9. a.work = 0
  BY <1>2, <1>7 DEF Fits
<1>10. Fits(b) /\ Carried(b) = b /\ Kept(b) /\ Live(a)
  BY <1>2, <1>7, <1>8, <1>9 DEF Fits, Carried, Kept, Live, Terminal
<1>11. Shaped(p)
  BY <1>1, <1>2, CurrentOf DEF PlanFits
<1>12. /\ q.start = p.start /\ q.back = p.back /\ q.lastDay = p.lastDay
       /\ q.active = p.active /\ q.rest = p.rest /\ q.mock = p.mock /\ IsRow(q)
  BY <1>4, <1>11, ChangedIs
<1>13. /\ r.start = q.start /\ r.back = FALSE /\ r.lastDay = q.lastDay
       /\ r.active = today /\ r.rest = q.rest /\ r.mock = q.mock /\ r.days = q.days /\ IsRow(r)
  BY <1>5, <1>12 DEF IsRow, PlanFields
<1>14. r.back \in BOOLEAN /\ r.active \in {p.active, today} /\ r.days = Changed(p, today, a, b).days
  BY <1>4, <1>13
<1> QED BY <1>1, <1>2, <1>6, <1>8, <1>10, <1>12, <1>13, <1>14, TodayHolds

LEMMA DeclineHolds == ASSUME StudyInv, DeclineMock PROVE StepHolds
<1>1. PICK p : p = Current(plan)
  OBVIOUS
<1>2. PICK r : r = [p EXCEPT !.mock.st = "DECLINED"]
  OBVIOUS
<1>3. /\ plan # NoPlan /\ p.mock.st = "AVAILABLE" /\ plan' = r
      /\ opening' = NoStart /\ news' = FALSE /\ UNCHANGED <<today, goal, onOffer, works, old>>
  BY <1>1, <1>2 DEF DeclineMock, Free
<1>4. /\ PlanFits(p) /\ Retains(All(plan.days), All(p.days)) /\ Apart(All(p.days))
      /\ UpToDate(p) /\ p.lastDay = today
  BY <1>1, <1>3, CurrentOf
<1>5. /\ r.start = p.start /\ r.back = p.back /\ r.lastDay = p.lastDay /\ r.days = p.days
      /\ r.active = p.active /\ r.rest = p.rest /\ r.mock = [p.mock EXCEPT !.st = "DECLINED"] /\ IsRow(r)
  <2>1. PICK mock : mock = [p.mock EXCEPT !.st = "DECLINED"]
    OBVIOUS
  <2>2. r = [p EXCEPT !.mock = mock]
    BY <1>2, <1>4, <2>1 DEF PlanFits, Shaped, IsRow, PlanFields
  <2> QED BY <1>4, <2>1, <2>2 DEF PlanFits, Shaped, IsRow, PlanFields
<1>6. r.mock \in MockRow /\ r.mock.on = p.mock.on
  BY <1>4, <1>5 DEF PlanFits, Shaped, MockRow
<1>7. PlanFits(r)
  <2>1. r.back \in BOOLEAN /\ r.lastDay \in Nat /\ r.active \in Nat /\ r.active <= today
    BY <1>4, <1>5 DEF PlanFits, Shaped
  <2> QED BY <1>4, <1>5, <1>6, <2>1, SameDaysFit
<1>8. UpToDate(r)
  <2>1. ~Over(p.start) /\ ~Over(p.mock.on)
    BY <1>3, <1>4 DEF UpToDate, ClosedDown
  <2> QED BY <1>4, <1>5, <1>6, <2>1 DEF UpToDate, ClosedDown, Days
<1> QED BY <1>3, <1>4, <1>5, <1>7, <1>8, RequestHolds

-------------------------------------------------------------------------------
(* What happens outside the plan.                                           *)

\* Time goes on, attempts are begun and handed in, and none that was handed in for good is
\* taken back.
Onward ==
  /\ today' \in 1..MaxToday /\ today <= today' /\ goal' \in ExamDays \cup {0} /\ onOffer' \subseteq Materials
  /\ news' \in BOOLEAN /\ WorksFit' /\ Len(works) <= Len(works')
  /\ \A i \in 1..Len(works) : works[i].st = "SUBMITTED" => works'[i].st = "SUBMITTED"

\* An assignment goes on fitting.
LEMMA FitsOnward ==
  ASSUME StudyInv, Onward, NEW a, Fits(a)
  PROVE  /\ a.work \in 0..Len(works') /\ a.src \in 0..Len(works')
         /\ a.work # 0 /\ a.st = "COMPLETED" => works'[a.work].st = "SUBMITTED"
<1>1. Len(works) \in Nat /\ WorksFit
  BY WorksAre DEF StudyInv
<1>2. Len(works') \in Nat
  BY DEF Onward, WorksFit
<1>3. a.work \in 0..Len(works) /\ a.src \in 0..Len(works) /\ (a.work # 0 /\ a.st = "COMPLETED" => works[a.work].st = "SUBMITTED")
  BY DEF Fits
<1>4. a.work # 0 => a.work \in 1..Len(works)
  BY <1>1, <1>3
<1> QED BY <1>1, <1>2, <1>3, <1>4 DEF Onward

LEMMA AllOnward ==
  ASSUME StudyInv, Onward
  PROVE  \A a : Fits(a) => Fits(a)'
<1> SUFFICES ASSUME NEW a, Fits(a) PROVE Fits(a)'
  OBVIOUS
<1> QED BY FitsOnward DEF Fits

LEMMA PlanOnward ==
  ASSUME StudyInv, Onward, NEW p, PlanFits(p)
  PROVE  PlanFits(p)'
<1>1. today \in Nat /\ today' \in Nat /\ today <= today'
  BY TypesOf, Numbers DEF Settled, Onward
<1>2. p.start \in Nat /\ p.active \in Nat
  BY DEF PlanFits, Shaped
<1>3. \A a \in All(p.days) : Fits(a)'
  BY AllOnward DEF PlanFits, DaysFit
<1> QED BY <1>1, <1>2, <1>3 DEF PlanFits, DaysFit

LEMMA OutsideHolds ==
  ASSUME StudyInv, Onward, UNCHANGED <<plan, old>>, OpeningFits'
  PROVE  StepHolds
<1>1. PICK p : p = plan
  OBVIOUS
<1>2. p # NoPlan => PlanFits(p) /\ Apart(All(p.days))
  BY <1>1 DEF StudyInv
<1>3. p # NoPlan => PlanFits(p)'
  BY <1>2, PlanOnward
<1>4. plan' # NoPlan => PlanFits(plan)' /\ Apart(All(plan.days))'
  BY <1>1, <1>2, <1>3 DEF Apart, PlanFits, DaysFit, Fits
<1>5. \A a \in old' : Fits(a)'
  BY AllOnward DEF StudyInv
<1>6. StudyInv'
  BY <1>4, <1>5 DEF StudyInv, Onward, Unique
<1>7. LosesNothing
  BY DEF LosesNothing, Assignments, Same
<1> QED BY <1>6, <1>7 DEF StepHolds, ReadsQuietly

\* A start under way, while time goes on.
LEMMA StartOnward ==
  ASSUME StudyInv, Onward, UNCHANGED plan,
         IF opening = NoStart THEN opening' = NoStart
         ELSE \/ opening' = [opening EXCEPT !.quiet = FALSE]
              \/ opening' = opening /\ UNCHANGED <<works, goal>>
  PROVE  OpeningFits'
<1>1. CASE opening = NoStart
  BY <1>1 DEF OpeningFits
<1>2. CASE opening # NoStart
  <2>1. PICK p : p = opening.plan
    OBVIOUS
  <2>2. /\ opening \in Opening /\ plan # NoPlan
        /\ opening.work \in 1..Len(works) /\ opening.on <= today
        /\ PlanFits(p) /\ Follows(All(plan.days), All(p.days))
        /\ p.lastDay = opening.on
        /\ opening.on \in Days(p) /\ opening.of \in p.days[opening.on]
        /\ opening.of.m # 0 /\ ~Kept(opening.of)
    BY <1>2, <2>1 DEF StudyInv, OpeningFits
  <2>3. PlanFits(p)'
    BY <2>2, PlanOnward
  <2>4. /\ opening'.plan = p /\ opening'.work = opening.work /\ opening'.of = opening.of /\ opening'.on = opening.on
        /\ opening' \in Opening' /\ opening' # NoStart
        /\ opening'.quiet => opening.quiet /\ UNCHANGED <<works, goal>>
    <3>1. opening' \in Opening
      BY <1>2, <2>2 DEF Opening
    <3>2. /\ opening'.plan = p /\ opening'.work = opening.work /\ opening'.of = opening.of /\ opening'.on = opening.on
          /\ opening'.quiet => opening.quiet /\ UNCHANGED <<works, goal>>
      BY <1>2, <2>1, <2>2 DEF Opening
    <3>3. opening' # NoStart
      BY <2>2, <3>2, WorksAre DEF NoStart, StudyInv
    <3> QED BY <2>1, <3>1, <3>2, <3>3 DEF Opening
  <2>5. Len(works) \in Nat /\ Len(works') \in Nat /\ Len(works) <= Len(works') /\ today \in Nat /\ today' \in Nat /\ today <= today'
    BY TypesOf, WorksAre, Numbers DEF Settled, Onward, WorksFit
  <2>6. opening'.work \in 1..Len(works') /\ opening'.on <= today'
    <3>1. opening.on \in Nat
      BY <2>2 DEF Opening
    <3> QED BY <2>2, <2>4, <2>5, <3>1
  <2>7. opening'.quiet => CarriedOver(p.days)' /\ ClosedDown(p)' /\ ~Over(opening.on)'
    <3> SUFFICES ASSUME opening'.quiet PROVE CarriedOver(p.days)' /\ ClosedDown(p)' /\ ~Over(opening.on)'
      OBVIOUS
    <3>1. CarriedOver(p.days) /\ ClosedDown(p) /\ ~Over(opening.on)
      BY <1>2, <2>1, <2>4 DEF StudyInv, OpeningFits
    <3> QED BY <2>4, <3>1 DEF CarriedOver, Carried, ClosedDown, Over
  <2>8. PlanFits(opening.plan)'
    BY <2>3, <2>4 DEF PlanFits, DaysFit, Fits
  <2>9. opening'.quiet => CarriedOver(opening.plan.days)' /\ ClosedDown(opening.plan)' /\ ~Over(opening.on)'
    BY <2>4, <2>7 DEF CarriedOver, Carried, ClosedDown, Over
  <2> QED BY <2>2, <2>4, <2>6, <2>8, <2>9 DEF OpeningFits
<1> QED BY <1>1, <1>2

\* The student begins or goes on with an attempt.
LEMMA BegunFits ==
  ASSUME StudyInv, NEW m \in Materials, NEW i, Begun(m, i), UNCHANGED today
  PROVE  /\ WorksFit' /\ Len(works) <= Len(works') /\ (\A k \in 1..Len(works) : works'[k] = works[k])
         /\ i \in 1..Len(works') /\ Len(works') \in Nat
<1>0. works \in Seq(WorkRow) /\ Len(works) \in Nat /\ DOMAIN works = 1..Len(works) /\ today \in Nat /\ WorksFit
  BY TypesOf, WorksAre DEF StudyInv, WorksFit, Settled
<1>1. CASE Resumed(m) # {}
  BY <1>0, <1>1 DEF Begun, Resumed, WorksFit
<1>2. CASE Resumed(m) = {}
  <2>1. i = Len(works) + 1 /\ works' = Append(works, NewWork(m))
    BY <1>2 DEF Begun
  <2>2. NewWork(m) \in WorkRow /\ NewWork(m).start = today /\ NewWork(m).sub = 0
    BY <1>0 DEF NewWork, WorkRow
  <2>3. /\ works' \in Seq(WorkRow) /\ Len(works') = Len(works) + 1 /\ DOMAIN works' = 1..(Len(works) + 1)
        /\ (\A k \in 1..Len(works) : works'[k] = works[k]) /\ works'[Len(works) + 1] = NewWork(m)
    BY <1>0, <2>1, <2>2
  <2>4. \A k \in DOMAIN works' : works'[k].start <= today /\ works'[k].sub <= today
    BY <1>0, <2>2, <2>3 DEF WorksFit
  <2> QED BY <1>0, <2>1, <2>3, <2>4 DEF WorksFit
<1> QED BY <1>1, <1>2

LEMMA WorksHolds == ASSUME StudyInv, NEW m \in Materials, NEW i, Works(m, i) PROVE StepHolds
<1>1. Onward
  BY BegunFits DEF Works, News, Onward, StudyInv
<1>2. OpeningFits'
  BY <1>1, StartOnward DEF Works, News, Free
<1> QED BY <1>1, <1>2, OutsideHolds DEF Works

\* An attempt changes its state.
LEMMA WorkTurned ==
  ASSUME StudyInv, NEW i \in DOMAIN works, works[i].st # "SUBMITTED", UNCHANGED today,
         NEW st \in {"IN_PROGRESS", "PROCESSING", "SUBMITTED"}, NEW sub \in {0, today}, NEW wrong \in BOOLEAN,
         works' = [works EXCEPT ![i] = [@ EXCEPT !.st = st, !.sub = sub, !.wrong = wrong]]
  PROVE  /\ WorksFit' /\ Len(works) <= Len(works')
         /\ \A k \in 1..Len(works) : works[k].st = "SUBMITTED" => works'[k].st = "SUBMITTED"
<1>0. works \in Seq(WorkRow) /\ Len(works) \in Nat /\ DOMAIN works = 1..Len(works) /\ today \in Nat /\ WorksFit
  BY TypesOf, WorksAre DEF StudyInv, WorksFit, Settled
<1>1. PICK row : row = [works[i] EXCEPT !.st = st, !.sub = sub, !.wrong = wrong]
  OBVIOUS
<1>2. works[i] \in WorkRow
  BY <1>0
<1>3. row \in WorkRow /\ row.start = works[i].start /\ row.sub = sub
  <2>1. sub \in Nat
    BY <1>0
  <2> QED BY <1>1, <1>2, <2>1 DEF WorkRow
<1>4. works' = [works EXCEPT ![i] = row]
  BY <1>1
<1>5. /\ works' \in Seq(WorkRow) /\ Len(works') = Len(works) /\ DOMAIN works' = 1..Len(works)
      /\ works'[i] = row /\ \A k \in 1..Len(works) : k # i => works'[k] = works[k]
  BY <1>0, <1>3, <1>4
<1>6. \A k \in DOMAIN works' : works'[k].start <= today /\ works'[k].sub <= today
  BY <1>0, <1>3, <1>5 DEF WorksFit
<1> QED BY <1>0, <1>5, <1>6 DEF WorksFit

LEMMA HandsInHolds == ASSUME StudyInv, NEW i \in DOMAIN works, NEW wrong \in Outcomes, HandsIn(i, wrong) PROVE StepHolds
<1>0. wrong \in BOOLEAN /\ works[i].st = "IN_PROGRESS" /\ News /\ UNCHANGED <<today, goal, onOffer, plan, old>>
  BY StudyAssumption DEF HandsIn
<1>1. PICK st \in {"PROCESSING", "SUBMITTED"} :
        works' = [works EXCEPT ![i].st = st, ![i].sub = today, ![i].wrong = wrong]
  BY DEF HandsIn
<1>2. works \in Seq(WorkRow) /\ works[i] \in WorkRow
  BY WorksAre DEF StudyInv, WorksFit
<1>3. works' = [works EXCEPT ![i] = [@ EXCEPT !.st = st, !.sub = today, !.wrong = wrong]]
  BY <1>1, <1>2 DEF WorkRow
<1>4. /\ WorksFit' /\ Len(works) <= Len(works')
      /\ \A k \in 1..Len(works) : works[k].st = "SUBMITTED" => works'[k].st = "SUBMITTED"
  BY <1>0, <1>3, WorkTurned
<1>5. Onward
  BY <1>0, <1>4, TypesOf DEF News, Onward, StudyInv, Settled
<1>6. OpeningFits'
  BY <1>0, <1>5, StartOnward DEF News, Free
<1> QED BY <1>0, <1>5, <1>6, OutsideHolds

LEMMA AssessedHolds == ASSUME StudyInv, NEW i \in DOMAIN works, Assessed(i) PROVE StepHolds
<1>0. works[i].st = "PROCESSING" /\ News /\ UNCHANGED <<today, goal, onOffer, plan, old>>
  BY DEF Assessed
<1>1. PICK st \in {"IN_PROGRESS", "SUBMITTED"} :
        works' = [works EXCEPT ![i].st = st, ![i].sub = IF st = "SUBMITTED" THEN today ELSE 0]
  BY DEF Assessed
<1>2. works \in Seq(WorkRow) /\ works[i] \in WorkRow
  BY WorksAre DEF StudyInv, WorksFit
<1>3. PICK sub \in {0, today} : works' = [works EXCEPT ![i].st = st, ![i].sub = sub]
  BY <1>1
<1>4. works' = [works EXCEPT ![i] = [@ EXCEPT !.st = st, !.sub = sub, !.wrong = works[i].wrong]] /\ works[i].wrong \in BOOLEAN
  BY <1>2, <1>3 DEF WorkRow
<1>5. /\ WorksFit' /\ Len(works) <= Len(works')
      /\ \A k \in 1..Len(works) : works[k].st = "SUBMITTED" => works'[k].st = "SUBMITTED"
  BY <1>0, <1>4, WorkTurned
<1>6. Onward
  BY <1>0, <1>5, TypesOf DEF News, Onward, StudyInv, Settled
<1>7. OpeningFits'
  BY <1>0, <1>6, StartOnward DEF News, Free
<1> QED BY <1>0, <1>6, <1>7, OutsideHolds

\* Days pass, the goal moves, materials are taken back.
LEMMA OthersHold ==
  ASSUME StudyInv, DayPasses \/ (\E d \in ExamDays : GoalMoves(d)) \/ (\E m \in Withdrawn : Withdraws(m))
  PROVE  StepHolds
<1>1. /\ today' \in 1..MaxToday /\ today <= today' /\ goal' \in ExamDays \cup {0} /\ onOffer' \subseteq Materials
      /\ news' \in BOOLEAN /\ UNCHANGED <<works, plan, old>>
  <2>1. today \in 1..MaxToday /\ goal \in ExamDays \cup {0} /\ onOffer \subseteq Materials /\ news \in BOOLEAN /\ MaxToday \in Nat
    BY Numbers DEF StudyInv
  <2>2. CASE DayPasses
    BY <2>1, <2>2 DEF DayPasses
  <2>3. CASE \E d \in ExamDays : GoalMoves(d)
    BY <2>1, <2>3 DEF GoalMoves, News
  <2>4. CASE \E m \in Withdrawn : Withdraws(m)
    BY <2>1, <2>4 DEF Withdraws, News
  <2> QED BY <2>2, <2>3, <2>4
<1>2. WorksFit'
  <2>1. \A i \in DOMAIN works : works[i].start \in Nat /\ works[i].sub \in Nat
    BY WorksAre DEF StudyInv
  <2>2. today \in Nat /\ today' \in Nat
    BY <1>1, TypesOf, Numbers DEF Settled
  <2> QED BY <1>1, <2>1, <2>2 DEF WorksFit, StudyInv
<1>3. Onward
  BY <1>1, <1>2, WorksAre DEF Onward, StudyInv
<1>4. OpeningFits'
  BY <1>1, <1>3, StartOnward DEF DayPasses, GoalMoves, Withdraws, News, Free
<1> QED BY <1>1, <1>3, <1>4, OutsideHolds

-------------------------------------------------------------------------------
(* Starts, mocks and new cycles.                                            *)

LEMMA StartAsksHolds == ASSUME StudyInv, NEW a, NEW i, StartAsks(a, i) PROVE StepHolds
<1>1. PICK p : p = Current(plan)
  OBVIOUS
<1>2. /\ plan # NoPlan /\ ~DeadlineReached /\ today \in Days(p) /\ a \in p.days[today]
      /\ a.m \in onOffer /\ a.work = 0 /\ a.st \notin Terminal /\ Begun(a.m, i)
      /\ opening' = [work |-> i, of |-> a, on |-> today, plan |-> p, quiet |-> TRUE]
      /\ news' \in BOOLEAN /\ UNCHANGED <<today, goal, onOffer, plan, old>>
  BY <1>1 DEF StartAsks
<1>3. PlanFits(p) /\ UpToDate(p) /\ p.lastDay = today /\ Follows(All(plan.days), All(p.days))
  BY <1>1, <1>2, CurrentOf
<1>4. a.m \in Materials /\ a.m # 0 /\ a \in AssignmentRow
  BY <1>1, <1>2, OfToday, Numbers DEF StudyInv
<1>5. /\ WorksFit' /\ Len(works) <= Len(works') /\ (\A k \in 1..Len(works) : works'[k] = works[k])
      /\ i \in 1..Len(works') /\ Len(works') \in Nat
  BY <1>2, <1>4, BegunFits
<1>6. Onward
  BY <1>2, <1>5, TypesOf DEF Onward, StudyInv, Settled
<1>7. OpeningFits'
  <2>1. /\ opening'.work = i /\ opening'.of = a /\ opening'.on = today /\ opening'.plan = p /\ opening'.quiet = TRUE
        /\ opening' # NoStart
    <3>1. i # 0
      BY <1>5
    <3> QED BY <1>2, <3>1 DEF NoStart
  <2>2. opening' \in [work : Nat, of : AssignmentRow, on : Nat, plan : {opening'.plan}, quiet : BOOLEAN]
    <3>1. i \in Nat /\ today \in Nat
      BY <1>5, TypesOf DEF Settled
    <3> QED BY <1>2, <1>4, <3>1
  <2>3. PlanFits(p)'
    BY <1>3, <1>6, PlanOnward
  <2>4. PlanFits(opening.plan)'
    BY <2>1, <2>3 DEF PlanFits, DaysFit, Fits
  <2>5. CarriedOver(opening.plan.days)'
    <3>1. \A b \in All(p.days) : b.work \in 0..Len(works)
      BY <1>3 DEF PlanFits, DaysFit, Fits
    <3>2. \A b \in All(p.days) : b.work # 0 => b.work \in 1..Len(works)
      BY <3>1, WorksAre DEF StudyInv
    <3>3. \A b \in All(p.days) : Carried(b) = b
      BY <1>3 DEF UpToDate, CarriedOver
    <3>4. \A b \in All(p.days) : Carried(b)' = b
      BY <1>5, <3>2, <3>3 DEF Carried
    <3> QED BY <2>1, <3>4 DEF CarriedOver, Carried
  <2>6. ClosedDown(opening.plan)' /\ ~Over(opening.on)'
    BY <1>2, <1>3, <2>1 DEF UpToDate, ClosedDown, Over, DeadlineReached
  <2>7. ~Kept(a)
    BY <1>2 DEF Kept
  <2>8. today <= today'
    BY <1>2, TypesOf DEF Settled
  <2> QED BY <1>2, <1>3, <1>4, <1>5, <2>1, <2>2, <2>4, <2>5, <2>6, <2>7, <2>8 DEF OpeningFits, Opening
<1> QED BY <1>2, <1>6, <1>7, OutsideHolds

LEMMA StartDiesHolds == ASSUME StudyInv, StartDies PROVE StepHolds
<1>1. Onward
  BY TypesOf, WorksAre DEF StartDies, Onward, StudyInv, Settled, WorksFit
<1>2. OpeningFits'
  BY DEF StartDies, OpeningFits
<1> QED BY <1>1, <1>2, OutsideHolds DEF StartDies

\* The attempt is claimed for one assignment, and by no other.
LEMMA StartCommitsHolds == ASSUME StudyInv, StartCommits PROVE StepHolds
<1>1. CASE ~Claimable(opening.work)
  <2>1. Onward
    BY <1>1, TypesOf, WorksAre DEF StartCommits, Onward, StudyInv, Settled, WorksFit
  <2>2. OpeningFits'
    BY DEF StartCommits, OpeningFits
  <2> QED BY <1>1, <2>1, <2>2, OutsideHolds DEF StartCommits
<1>2. CASE Claimable(opening.work)
  <2>1. PICK i, a, d, p : i = opening.work /\ a = opening.of /\ d = opening.on /\ p = opening.plan
    OBVIOUS
  <2>2. /\ opening \in Opening /\ plan # NoPlan /\ i \in 1..Len(works) /\ d <= today
        /\ PlanFits(p) /\ Follows(All(plan.days), All(p.days)) /\ p.lastDay = d
        /\ d \in Days(p) /\ a \in p.days[d] /\ a.m # 0 /\ ~Kept(a)
        /\ opening.quiet => CarriedOver(p.days) /\ ClosedDown(p) /\ ~Over(d)
    BY <2>1 DEF StudyInv, OpeningFits, StartCommits
  <2>3. PICK b : b = [a EXCEPT !.work = i, !.st = "IN_PROGRESS"]
    OBVIOUS
  <2>4. PICK q : q = Changed(p, d, a, b)
    OBVIOUS
  <2>5. PICK r : r = [q EXCEPT !.active = d, !.back = FALSE]
    OBVIOUS
  <2>6. /\ plan' = r /\ opening' = NoStart /\ news' = FALSE /\ UNCHANGED <<today, goal, onOffer, works, old>>
    BY <1>2, <2>1, <2>3, <2>4, <2>5 DEF StartCommits, NewsAfterStart
  <2>7. DOMAIN p.days = Days(p) /\ Shaped(p) /\ a \in All(p.days)
    BY <2>2 DEF PlanFits, Shaped, All
  <2>8. Fits(a) /\ a \in AssignmentRow /\ a.work = 0 /\ a.st \notin Terminal
    BY <2>2, <2>7 DEF PlanFits, DaysFit, Fits, Kept
  <2>9. Len(works) \in Nat /\ i \in Nat /\ i # 0 /\ d \in Nat /\ today \in Nat /\ WorksFit
    BY <2>2, <2>1, WorksAre, TypesOf DEF Opening, Settled
  <2>10. /\ b \in AssignmentRow /\ b.kind = a.kind /\ b.m = a.m /\ b.src = a.src /\ b.work = i /\ b.st = "IN_PROGRESS"
    BY <2>3, <2>8, <2>9 DEF AssignmentRow, Marks
  <2>11. Fits(b) /\ (Live(b) => Live(a)) /\ ~Kept(a)
    BY <2>2, <2>8, <2>9, <2>10 DEF Fits, Live, Terminal
  <2>12. i \notin Claims /\ works[i].st = "IN_PROGRESS"
    BY <1>2, <2>1 DEF Claimable
  <2>13. \A c \in old \cup All(plan.days) : c.work # i
    BY <2>2, <2>9, <2>12 DEF Claims, Assignments
  <2>14. \A c \in All(p.days) : c.work # i
    BY <2>2, <2>9, <2>13 DEF Follows, ClaimsWithin
  <2>15. /\ PlanFits(q) /\ Retains(All(p.days), All(q.days)) /\ \A c \in All(q.days) : c = b \/ c \in All(p.days)
         /\ q.start = p.start /\ q.back = p.back /\ q.lastDay = p.lastDay
         /\ q.active = p.active /\ q.rest = p.rest /\ q.mock = p.mock
         /\ \A e \in Days(p) : \A c \in q.days[e] : c \in p.days[e] \/ (e = d /\ c = b)
    <3>1. b.work # 0 => b.work = a.work \/ \A c \in All(p.days) : c.work # b.work
      BY <2>10, <2>14
    <3>2. PlanFits(p) /\ d \in Days(p) /\ a \in p.days[d] /\ Fits(b) /\ b.m = a.m /\ (Live(b) => Live(a)) /\ WorksFit
      BY <2>2, <2>9, <2>10, <2>11
    <3>3. /\ PlanFits(q) /\ ((Kept(a) => Same(a, b)) => Retains(All(p.days), All(q.days)))
          /\ \A c \in All(q.days) : c = b \/ c \in All(p.days)
          /\ q.start = p.start /\ q.back = p.back /\ q.lastDay = p.lastDay
          /\ q.active = p.active /\ q.rest = p.rest /\ q.mock = p.mock
          /\ \A e \in Days(p) : \A c \in q.days[e] : c \in p.days[e] \/ (e = d /\ c = b)
      BY <2>4, <3>1, <3>2, ChangedFits
    <3> QED BY <2>11, <3>3
  <2>16. /\ r.start = q.start /\ r.back = FALSE /\ r.lastDay = q.lastDay /\ r.days = q.days
         /\ r.active = d /\ r.rest = q.rest /\ r.mock = q.mock /\ IsRow(r)
    BY <2>5, <2>15 DEF PlanFits, Shaped, IsRow, PlanFields
  <2>17. PlanFits(r)
    <3>1. r.back \in BOOLEAN /\ r.lastDay \in Nat /\ r.active \in Nat /\ r.active <= today /\ r.mock \in MockRow
      BY <2>2, <2>9, <2>15, <2>16 DEF PlanFits, Shaped
    <3> QED BY <2>15, <2>16, <3>1, SameDaysFit
  <2>18. Retains(All(plan.days), All(r.days))
    BY <2>2, <2>15, <2>16, RetainsOn DEF Follows
  <2>19. Apart(All(r.days))
    <3>1. Apart(All(p.days))
      BY <2>2, StillApart DEF StudyInv, Follows
    <3> QED BY <2>10, <2>13, <2>15, <2>16, <3>1 DEF Apart
  <2>20. StudyInv' /\ LosesNothing
    BY <2>2, <2>6, <2>17, <2>18, <2>19, PlanStored DEF LosesNothing
  <2>21. CASE opening.quiet /\ d = today
    <3>1. CarriedOver(r.days)
      <4>1. Carried(b) = b
        BY <2>9, <2>10, <2>12 DEF Carried, AssignmentRow
      <4> QED BY <2>2, <2>15, <2>16, <2>21, <4>1 DEF CarriedOver
    <3>2. ClosedDown(r)
      <4>1. Days(r) = Days(p)
        BY <2>15, <2>16 DEF Days
      <4>2. ~Over(d) /\ ClosedDown(p)
        BY <2>2, <2>21
      <4> QED BY <2>15, <2>16, <4>1, <4>2 DEF ClosedDown
    <3>3. UpToDate(r)
      BY <2>9, <2>16, <2>21, <3>1, <3>2 DEF UpToDate, WorksFit
    <3> QED BY <2>2, <2>6, <2>15, <2>16, <2>17, <2>18, <2>19, <2>21, <3>3, RequestHolds
  <2>22. CASE ~(opening.quiet /\ d = today)
    <3>1. opening # NoStart /\ plan'.lastDay = d /\ today' = today
      BY <2>2, <2>6, <2>15, <2>16 DEF StartCommits
    <3>2. ReadsQuietly
      BY <2>22, <3>1 DEF ReadsQuietly
    <3> QED BY <2>20, <3>2 DEF StepHolds
  <2> QED BY <2>21, <2>22
<1> QED BY <1>1, <1>2

\* What a day gives up for its mock.
GivenUp(a) == IF a.st \in {"PLANNED", "BLOCKED"} THEN [a EXCEPT !.st = "SKIPPED", !.why = "mock"] ELSE a

LEMMA GivenUpFits ==
  ASSUME NEW a, Fits(a), a.work = 0, NEW b, b = GivenUp(a)
  PROVE  /\ Fits(b) /\ b.work = 0 /\ b.m = a.m /\ (Live(b) => Live(a)) /\ Carried(b) = b
         /\ (Kept(a) => b = a)
<1>1. CASE b = a
  BY <1>1 DEF Carried
<1>2. CASE a.st \in {"PLANNED", "BLOCKED"} /\ b = [a EXCEPT !.st = "SKIPPED", !.why = "mock"]
  <2>1. /\ b \in AssignmentRow /\ b.kind = a.kind /\ b.m = a.m /\ b.src = a.src /\ b.work = a.work
        /\ b.st = "SKIPPED" /\ b.why = "mock"
    BY <1>2 DEF Fits, AssignmentRow, Marks, Terminal
  <2> QED BY <1>2, <2>1 DEF Fits, Kept, Terminal, Live, Carried
<1> QED BY <1>1, <1>2 DEF GivenUp

LEMMA ScheduleHolds == ASSUME StudyInv, NEW d, ScheduleMock(d) PROVE StepHolds
<1>1. PICK p : p = Current(plan)
  OBVIOUS
<1>2. /\ plan # NoPlan /\ p.mock.st = "AVAILABLE" /\ d \in Days(p) /\ (goal = 0 \/ d < goal)
      /\ \A a \in p.days[d] : a.work = 0 /\ a.st # "COMPLETED"
      /\ plan' = [p EXCEPT !.mock = [st |-> "SCHEDULED", on |-> d], !.rest[d] = FALSE,
                           !.days[d] = {IF a.st \in {"PLANNED", "BLOCKED"}
                                        THEN [a EXCEPT !.st = "SKIPPED", !.why = "mock"] ELSE a : a \in @}]
      /\ opening' = NoStart /\ news' = FALSE /\ UNCHANGED <<today, goal, onOffer, works, old>>
  BY <1>1 DEF ScheduleMock, Free
<1>3. /\ PlanFits(p) /\ Retains(All(plan.days), All(p.days)) /\ Apart(All(p.days))
      /\ UpToDate(p) /\ p.lastDay = today
  BY <1>1, <1>2, CurrentOf
<1>4. Shaped(p) /\ DOMAIN p.days = Days(p) /\ DaysFit(p.days) /\ DOMAIN p.rest = Days(p)
  BY <1>3 DEF PlanFits, Shaped
<1>5. PICK days, rest, mock :
        /\ days = [p.days EXCEPT ![d] = {GivenUp(a) : a \in p.days[d]}]
        /\ rest = [p.rest EXCEPT ![d] = FALSE] /\ mock = [st |-> "SCHEDULED", on |-> d]
  OBVIOUS
<1>6. PICK r : r = [p EXCEPT !.mock = mock, !.rest = rest, !.days = days]
  OBVIOUS
<1>7. plan' = r
  <2>1. {IF a.st \in {"PLANNED", "BLOCKED"} THEN [a EXCEPT !.st = "SKIPPED", !.why = "mock"] ELSE a : a \in p.days[d]} =
          {GivenUp(a) : a \in p.days[d]}
    BY DEF GivenUp
  <2>2. plan' = [p EXCEPT !.mock = [st |-> "SCHEDULED", on |-> d], !.rest[d] = FALSE,
                          !.days[d] = {GivenUp(a) : a \in p.days[d]}]
    BY <1>2, <2>1
  <2> QED BY <1>4, <1>5, <1>6, <2>2 DEF Shaped, IsRow, PlanFields
<1>8. /\ r.start = p.start /\ r.back = p.back /\ r.lastDay = p.lastDay /\ r.days = days
      /\ r.active = p.active /\ r.rest = rest /\ r.mock = mock /\ IsRow(r)
  BY <1>4, <1>6 DEF Shaped, IsRow, PlanFields
<1>9. /\ DOMAIN days = Days(p) /\ rest \in [Days(p) -> BOOLEAN]
      /\ \A e \in Days(p) : e # d => days[e] = p.days[e] /\ rest[e] = p.rest[e]
      /\ days[d] = {GivenUp(a) : a \in p.days[d]}
  BY <1>2, <1>4, <1>5 DEF Shaped
<1>10. \A a \in p.days[d] : LET b == GivenUp(a) IN
         /\ Fits(b) /\ b.work = 0 /\ b.m = a.m /\ (Live(b) => Live(a)) /\ Carried(b) = b /\ (Kept(a) => b = a)
  <2>1. \A a \in p.days[d] : Fits(a)
    BY <1>2, <1>4 DEF DaysFit, All
  <2> QED BY <1>2, <2>1, GivenUpFits
<1>11. /\ \A b \in All(days) : b \in All(p.days) \/ (Fits(b) /\ b.work = 0 /\ Carried(b) = b)
       /\ \A a \in All(p.days) : Kept(a) => a \in All(days)
       /\ \A e \in Days(p) : \A b \in days[e] : b.work # 0 => b \in p.days[e]
       /\ \A e \in Days(p) : \A b \in days[e] : \E a \in p.days[e] : b.m = a.m /\ (Live(b) => Live(a))
  <2>1. \A e \in Days(p) : \A a \in p.days[e] : Kept(a) => a \in days[e]
    BY <1>9, <1>10
  <2>2. \A b \in days[d] : \E a \in p.days[d] : b = GivenUp(a)
    BY <1>9
  <2>3. \A b \in days[d] : /\ Fits(b) /\ b.work = 0 /\ Carried(b) = b
                           /\ \E a \in p.days[d] : b.m = a.m /\ (Live(b) => Live(a))
    BY <1>10, <2>2
  <2>4. \A e \in Days(p) : e # d => days[e] = p.days[e]
    BY <1>9
  <2> QED BY <1>4, <1>9, <2>1, <2>3, <2>4 DEF All
<1>12. DaysFit(days)
  <2>1. Spaced(days)
    BY <1>4, <1>9, <1>11, StillSpaced DEF DaysFit
  <2>2. ClaimedOnce(days)
    BY <1>4, <1>9, <1>11 DEF DaysFit, ClaimedOnce
  <2> QED BY <1>4, <1>11, <2>1, <2>2 DEF DaysFit
<1>13. Days(r) = Days(p) /\ d \in Nat
  BY <1>2, <1>4, <1>8, Numbers DEF Days, Shaped
<1>14. PlanFits(r)
  <2>1. mock \in MockRow
    BY <1>5, <1>13 DEF MockRow
  <2>2. days = [e \in Days(r) |-> days[e]]
    BY <1>4, <1>5, <1>13 DEF Shaped
  <2> QED BY <1>3, <1>8, <1>9, <1>12, <1>13, <2>1, <2>2 DEF PlanFits, Shaped
<1>15. Retains(All(plan.days), All(r.days)) /\ Apart(All(r.days))
  <2>1. Retains(All(p.days), All(r.days)) /\ ClaimsWithin(All(p.days), All(r.days))
    BY <1>8, <1>11 DEF Retains, ClaimsWithin, Same
  <2> QED BY <1>3, <2>1, RetainsOn, StillApart
<1>16. UpToDate(r)
  <2>1. CarriedOver(days)
    BY <1>3, <1>11 DEF UpToDate, CarriedOver
  <2>2. ~Over(d) /\ ~Over(p.start)
    <3>1. goal \in Nat
      BY TypesOf DEF Settled
    <3> QED BY <1>2, <1>3, <1>13, <3>1 DEF Over, UpToDate, ClosedDown
  <2>3. ClosedDown(r)
    BY <1>3, <1>5, <1>8, <1>9, <1>13, <2>2 DEF UpToDate, ClosedDown
  <2> QED BY <1>3, <1>8, <2>1, <2>3 DEF UpToDate
<1> QED BY <1>2, <1>3, <1>7, <1>8, <1>14, <1>15, <1>16, RequestHolds

\* A plan made today: its days filled, and closed from the exam on.
LEMMA MadeFits ==
  ASSUME StudyInv, NEW off, NEW back \in BOOLEAN, NEW q, IsRow(q),
         q.start = today, q.back = back, q.lastDay = today, q.active \in Nat, q.active <= today,
         \A i \in DOMAIN works : works[i].start <= q.active /\ works[i].sub <= q.active,
         q.days = Made(off, back).days, q.rest = Made(off, back).rest, q.mock = Made(off, back).mock,
         NEW r, r = Closed(Filled(q, today))
  PROVE  /\ PlanFits(r) /\ UpToDate(r) /\ r.lastDay = today /\ \A b \in All(r.days) : b.work = 0
<1>0. today \in Nat /\ 1 <= today
  BY TypesOf
<1>1. /\ q.days = [d \in Days(q) |-> {}] /\ q.rest = [d \in Days(q) |-> FALSE] /\ q.mock = [st |-> "AVAILABLE", on |-> 0]
  BY DEF Made, Days
<1>2. All(q.days) = {}
  BY <1>1 DEF All
<1>3. PlanFits(q)
  <2>1. q.mock \in MockRow
    BY <1>1 DEF MockRow
  <2>2. q.days = [d \in Days(q) |-> q.days[d]] /\ q.rest \in [Days(q) -> BOOLEAN]
    BY <1>1
  <2>3. Shaped(q)
    BY <1>0, <2>1, <2>2 DEF Shaped
  <2>4. DaysFit(q.days)
    BY <1>1, <1>2 DEF DaysFit, ClaimedOnce, Spaced
  <2> QED BY <1>0, <2>3, <2>4 DEF PlanFits
<1>4. PICK f : f = Filled(q, today)
  OBVIOUS
<1>5. /\ PlanFits(f) /\ Follows(All(q.days), All(f.days)) /\ (CarriedOver(q.days) => CarriedOver(f.days))
      /\ f.lastDay = q.lastDay /\ f.active = q.active
  BY <1>3, <1>4, TypesOf, FilledFits DEF Settled
<1>6. /\ PlanFits(r) /\ Follows(All(f.days), All(r.days)) /\ (CarriedOver(f.days) => CarriedOver(r.days))
      /\ r.lastDay = f.lastDay /\ r.active = f.active /\ ClosedDown(r)
  BY <1>4, <1>5, ClosedFits
<1>7. CarriedOver(q.days)
  BY <1>2 DEF CarriedOver
<1>8. UpToDate(r)
  BY <1>5, <1>6, <1>7 DEF UpToDate
<1>9. \A b \in All(r.days) : b.work = 0
  BY <1>2, <1>5, <1>6 DEF Follows, ClaimsWithin
<1> QED BY <1>5, <1>6, <1>8, <1>9

LEMMA CreatePlanHolds == ASSUME StudyInv, NEW off, CreatePlan(off) PROVE StepHolds
<1>0. today \in Nat /\ Settled /\ Pause \in Nat
  BY TypesOf, Numbers
<1>1. opening' = NoStart /\ news' = FALSE /\ UNCHANGED <<today, goal, onOffer, works>>
  BY DEF CreatePlan, Free
<1>2. CASE plan # NoPlan /\ ~Ended(plan)
  <2>1. PICK p : p = Current(plan)
    OBVIOUS
  <2> QED BY <1>1, <1>2, <2>1, CurrentOf, RequestHolds DEF CreatePlan
<1>3. ASSUME old \subseteq old', \A a \in old' : Fits(a), Unique(old'),
             NEW r, plan' = r, PlanFits(r), UpToDate(r), r.lastDay = today, \A b \in All(r.days) : b.work = 0,
             plan = NoPlan \/ Retains(All(plan.days), old')
      PROVE  StepHolds
  <2>1. r # NoPlan
    BY <1>3, IsAPlan
  <2>2. PlanFits(plan)' /\ Apart(All(plan.days))'
    BY <1>1, <1>3 DEF PlanFits, DaysFit, Fits, Apart
  <2>3. WorksFit' /\ (\A a \in old' : Fits(a)') /\ Unique(old')
    BY <1>1, <1>3 DEF StudyInv, WorksFit, Fits
  <2>4. StudyInv'
    BY <1>1, <2>2, <2>3 DEF StudyInv, OpeningFits
  <2>5. old' \subseteq Assignments'
    BY DEF Assignments
  <2>6. LosesNothing
    BY <1>3, <2>5 DEF LosesNothing, Assignments, Retains, Same
  <2>7. UpToDate(plan)'
    BY <1>1, <1>3 DEF UpToDate, CarriedOver, Carried, ClosedDown, Over
  <2>8. (StudyInv /\ plan # NoPlan /\ UpToDate(plan) /\ plan.lastDay = today /\ ~news => Current(plan) = plan)'
    BY StoredStays, PTL
  <2>9. (Current(plan) = plan)'
    BY <1>1, <1>3, <2>1, <2>4, <2>7, <2>8
  <2> QED BY <2>4, <2>6, <2>9 DEF StepHolds, ReadsQuietly
<1>4. CASE plan = NoPlan
  <2>0. PICK back \in BOOLEAN : back = FALSE
    OBVIOUS
  <2>1. PICK q : q = Made(off, back)
    OBVIOUS
  <2>2. /\ q.start = today /\ q.back = back /\ q.lastDay = today /\ q.active = today /\ IsRow(q)
        /\ q.active \in Nat /\ q.active <= today
        /\ q.days = Made(off, back).days /\ q.rest = Made(off, back).rest /\ q.mock = Made(off, back).mock
    <3>1. IsRow(q)
      BY <2>1 DEF Made, IsRow, PlanFields
    <3>2. q.start = today /\ q.back = back /\ q.lastDay = today /\ q.active = today
      BY <2>1 DEF Made
    <3> QED BY <1>0, <2>1, <3>1, <3>2
  <2>3. PICK r : r = Closed(Filled(q, today))
    OBVIOUS
  <2>4. plan' = r /\ old' = old
    BY <1>4, <2>0, <2>1, <2>3 DEF CreatePlan
  <2>5. \A i \in DOMAIN works : works[i].start <= q.active /\ works[i].sub <= q.active
    BY <2>2 DEF StudyInv, WorksFit
  <2>6. PlanFits(r) /\ UpToDate(r) /\ r.lastDay = today /\ \A b \in All(r.days) : b.work = 0
    BY <2>2, <2>3, <2>5, MadeFits
  <2>7. old \subseteq old' /\ (\A a \in old' : Fits(a)) /\ Unique(old')
    BY <2>4 DEF StudyInv
  <2> QED BY <1>3, <1>4, <2>4, <2>6, <2>7
<1>5. CASE plan # NoPlan /\ Ended(plan)
  <2>1. PICK c : c = Carry(plan)
    OBVIOUS
  <2>2. PICK m : m = Missed(c)
    OBVIOUS
  <2>3. PlanFits(plan) /\ Apart(All(plan.days)) /\ (\A a \in old : Fits(a)) /\ Unique(old)
    BY <1>5 DEF StudyInv
  <2>4. PlanFits(c) /\ Follows(All(plan.days), All(c.days))
    BY <1>0, <2>1, <2>3, CarryFits DEF Settled
  <2>5. PlanFits(m) /\ Follows(All(c.days), All(m.days))
    BY <2>2, <2>4, MissedFits
  <2>6. Follows(All(plan.days), All(m.days))
    BY <2>4, <2>5, FollowsOn
  <2>7. Apart(All(m.days))
    BY <2>3, <2>6, StillApart DEF Follows
  <2>8. old' = old \cup All(m.days)
    BY <1>5, <2>1, <2>2 DEF CreatePlan
  <2>9. (\A a \in old' : Fits(a)) /\ Unique(old')
    <3>1. (\A a \in All(m.days) : Fits(a)) /\ Unique(All(m.days))
      BY <2>5 DEF PlanFits, DaysFit, ClaimedOnce, Unique, All
    <3> QED BY <2>3, <2>7, <2>8, <3>1 DEF Unique, Apart
  <2>10. PICK act : act = Activity(plan)
    OBVIOUS
  <2>11. act \in Nat /\ act <= today /\ \A i \in DOMAIN works : works[i].start <= act /\ works[i].sub <= act
    BY <1>0, <2>3, <2>10, ActivityIs DEF Settled, PlanFits, Shaped
  <2> DEFINE back == today - act >= Pause
  <2>12. back \in BOOLEAN
    BY <1>0, <2>11
  <2>13. PICK q : q = [Made(off, back) EXCEPT !.active = act]
    OBVIOUS
  <2>14. /\ q.start = today /\ q.back = back /\ q.lastDay = today /\ q.active = act /\ IsRow(q)
         /\ q.days = Made(off, back).days /\ q.rest = Made(off, back).rest /\ q.mock = Made(off, back).mock
    BY <2>13 DEF Made, IsRow, PlanFields
  <2>15. PICK r : r = Closed(Filled(q, today))
    OBVIOUS
  <2>16. plan' = r
    BY <1>5, <2>10, <2>13, <2>15 DEF CreatePlan
  <2> HIDE DEF back
  <2>17. PlanFits(r) /\ UpToDate(r) /\ r.lastDay = today /\ \A b \in All(r.days) : b.work = 0
    BY <2>11, <2>12, <2>14, <2>15, MadeFits
  <2>18. old \subseteq old' /\ Retains(All(plan.days), old')
    BY <2>6, <2>8 DEF Follows, Retains
  <2> QED BY <1>3, <2>9, <2>16, <2>17, <2>18
<1> QED BY <1>2, <1>4, <1>5

-------------------------------------------------------------------------------
(* The theorem.                                                             *)

LEMMA PlanStarts == StudyInit => StudyInv
<1> SUFFICES ASSUME StudyInit PROVE StudyInv
  OBVIOUS
<1>1. works \in Seq(WorkRow) /\ DOMAIN works = {}
  BY DEF StudyInit
<1>2. WorksFit
  BY <1>1 DEF WorksFit
<1>3. today \in 1..MaxToday /\ goal = 0 /\ onOffer \subseteq Materials /\ news \in BOOLEAN
  <2>1. MaxToday \in Nat \ {0}
    BY Numbers
  <2>2. today = 1 /\ goal = 0 /\ onOffer = Materials /\ news = FALSE
    BY DEF StudyInit
  <2>3. 1 \in 1..MaxToday
    BY <2>1
  <2> QED BY <2>2, <2>3
<1>4. plan = NoPlan /\ old = {} /\ OpeningFits
  BY DEF StudyInit, OpeningFits
<1> QED BY <1>2, <1>3, <1>4 DEF StudyInv, Unique

LEMMA PlanSteps == StudyInv /\ [StudyNext]_studyVars => StepHolds
<1> SUFFICES ASSUME StudyInv, [StudyNext]_studyVars PROVE StepHolds
  OBVIOUS
<1>1. CASE UNCHANGED studyVars
  <2>1. Onward
    BY <1>1, TypesOf, WorksAre DEF studyVars, Onward, StudyInv, Settled, WorksFit
  <2>2. OpeningFits'
    BY <1>1, <2>1, StartOnward DEF studyVars
  <2> QED BY <1>1, <2>1, <2>2, OutsideHolds DEF studyVars
<1>2. CASE GetPlan
  BY <1>2, GetPlanHolds
<1>3. CASE StartCommits
  BY <1>3, StartCommitsHolds
<1>4. CASE StartDies
  BY <1>4, StartDiesHolds
<1>5. CASE DeclineMock
  BY <1>5, DeclineHolds
<1>6. CASE DayPasses \/ (\E d \in ExamDays : GoalMoves(d)) \/ (\E m \in Withdrawn : Withdraws(m))
  BY <1>6, OthersHold
<1>7. CASE \E off \in OffDays : CreatePlan(off) \/ Replan(off)
  BY <1>7, CreatePlanHolds, ReplanHolds
<1>8. CASE \E a \in Today : View(a) \/ \E why \in {"no_time", "unsuitable"} : Skip(a, why)
  BY <1>8, ViewHolds, SkipHolds
<1>9. CASE \E a \in Today, i \in 1..MaxTries : StartAsks(a, i)
  BY <1>9, StartAsksHolds
<1>10. CASE \E d \in 1..(MaxToday + Span) : ScheduleMock(d)
  BY <1>10, ScheduleHolds
<1>11. CASE \E m \in Materials, i \in 1..MaxTries : Works(m, i)
  BY <1>11, WorksHolds
<1>12. CASE \E i \in DOMAIN works : Assessed(i) \/ \E wrong \in Outcomes : HandsIn(i, wrong)
  BY <1>12, AssessedHolds, HandsInHolds
<1> QED BY <1>1, <1>2, <1>3, <1>4, <1>5, <1>6, <1>7, <1>8, <1>9, <1>10, <1>11, <1>12 DEF StudyNext

LEMMA PlanFacts == StudyInv => StudyTypeOK /\ OneAttemptOneAssignment /\ RepeatsAreSpaced
<1> SUFFICES ASSUME StudyInv PROVE StudyTypeOK /\ OneAttemptOneAssignment /\ RepeatsAreSpaced
  OBVIOUS
<1>1. plan # NoPlan => /\ DOMAIN plan.days = Days(plan) /\ (\A a \in All(plan.days) : Fits(a)) /\ ClaimedOnce(plan.days)
                       /\ Spaced(plan.days) /\ Apart(All(plan.days))
  BY DEF StudyInv, PlanFits, Shaped, DaysFit
<1>2. StudyTypeOK
  <2>1. \A i \in DOMAIN works : works[i].st \in {"IN_PROGRESS", "PROCESSING", "SUBMITTED"}
    BY WorksAre DEF StudyInv
  <2>2. plan # NoPlan => \A d \in DOMAIN plan.days : \A a \in plan.days[d] : Fits(a)
    BY <1>1 DEF All
  <2>3. \A a : Fits(a) => a.work \in 0..Len(works) /\ a.src \in 0..Len(works) /\ a.st \in Marks
    BY DEF Fits, AssignmentRow
  <2> QED BY <2>1, <2>2, <2>3 DEF StudyTypeOK, StudyInv, Marks
<1>3. OneAttemptOneAssignment
  <2>1. CASE plan = NoPlan
    BY <2>1 DEF OneAttemptOneAssignment, Assignments, StudyInv, Unique
  <2>2. CASE plan # NoPlan
    <3>1. Unique(All(plan.days)) /\ Unique(old) /\ Apart(All(plan.days))
      BY <1>1, <2>2 DEF ClaimedOnce, Unique, All, StudyInv
    <3> QED BY <2>2, <3>1 DEF OneAttemptOneAssignment, Assignments, Unique, Apart
  <2> QED BY <2>1, <2>2
<1>4. RepeatsAreSpaced
  BY <1>1 DEF RepeatsAreSpaced, Spaced
<1> QED BY <1>2, <1>3, <1>4

\* The student's plan, for any number of days, materials and attempts, any rest days and
\* any exam: each attempt counts for one assignment, of this cycle or an earlier one;
\* repeats of a material keep their distance; nothing that was done or decided is lost by a
\* replan, a new day, the exam or a new cycle, not even when a start dies between its two
\* transactions; and a plan that was brought up to date is read unchanged.
THEOREM PlanKept == StudySpec => PlanHolds
<1>1. StudySpec => []StudyInv
  BY PlanStarts, PlanSteps, PTL DEF StudySpec, StepHolds
<1>2. StudySpec => []StudyTypeOK /\ []OneAttemptOneAssignment /\ []RepeatsAreSpaced
  BY <1>1, PlanFacts, PTL
<1>3. StudyInv /\ [StudyNext]_studyVars =>
        \A a \in Assignments : a.work # 0 \/ a.st \in Terminal =>
          \E b \in Assignments' :
            /\ b.m = a.m /\ b.src = a.src /\ b.work = a.work
            /\ a.st \in Terminal => b.st = a.st /\ b.why = a.why
  BY PlanSteps DEF StepHolds, LosesNothing, Kept, Same
<1>4. StudyInv /\ [StudyNext]_studyVars =>
        (plan' # plan /\ plan'.lastDay = today' /\ (opening # NoStart => opening.quiet) => (Current(plan) = plan)')
  BY PlanSteps DEF StepHolds, ReadsQuietly
<1>5. StudySpec => NothingDoneIsLost
  BY <1>1, <1>3, PTL DEF StudySpec, NothingDoneIsLost
<1>6. StudySpec => QuietReads
  BY <1>1, <1>4, PTL DEF StudySpec, QuietReads
<1> QED BY <1>2, <1>5, <1>6 DEF PlanHolds

===============================================================================
