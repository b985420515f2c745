---------------------------- MODULE LearningCycles ----------------------------
(***************************************************************************)
(* internal/studyplan, learning: a mistake opens a cycle; the student      *)
(* corrects it, and the correction is demonstrated by two drills of the    *)
(* same skill, of families he has not met, one of them days later.         *)
(* Meanwhile editors review and withdraw drills, whose families decide     *)
(* what is independent.                                                    *)
(*                                                                         *)
(* Every request holds the lock of the plan (StudyPlan), brings the cycles *)
(* up to date and then acts: one step here.  A request with a stale        *)
(* revision, or one that repeats an idempotency key, changes nothing and   *)
(* is left out, as are the exam, the minutes of a day and the text of      *)
(* answers.  All drills are of one skill and of sources of their own, and  *)
(* the student has met their sources nowhere else.                         *)
(***************************************************************************)
EXTENDS Integers, Sequences, FiniteSets, FiniteSetsExt

CONSTANTS
  Drills,       \* identifiers, 1..n: loaded in this order
  Families,     \* families an editor gives
  Draft,        \* not reviewed: of no known family
  Removed,    \* withdrawn by an editor: no longer loaded
  FirstLabels,  \* what the drills and, at 0, the source of the mistake are at first
  Delay,        \* days until a check counts as delayed (3)
  MaxDay,       \* bound on the days that pass
  MaxCycles,    \* bound on cycles
  MaxSessions,  \* bound on drills that are begun
  MaxRevisions, \* bound on corrections of one mistake
  MaxReviews    \* bound on decisions of editors

ASSUME LearningAssumption ==
  /\ Drills \subseteq Nat \ {0}
  /\ {Draft, Removed} \cap Families = {} /\ Draft # Removed
  /\ FirstLabels \in [{0} \cup Drills -> Families \cup {Draft, Removed}]
  /\ {Delay, MaxDay, MaxCycles, MaxSessions, MaxRevisions, MaxReviews} \subseteq Nat /\ MaxDay > 0

VARIABLES
  date,     \* the local day
  label,    \* study_learning_content_metadata: of the drills and, at 0, of the mistake's source
  reviews,  \* number of decisions of editors
  cycles,   \* Learning.Cycles
  sessions, \* Learning.Sessions
  agenda,   \* the assignments of the plan that are checks of a cycle
  synced    \* ghost: a request has loaded the labels of now

learningVars == <<date, label, reviews, cycles, sessions, agenda, synced>>

NoCorrection == [verdict |-> "none", assisted |-> FALSE, on |-> 0]

\* A cycle for a mistake in a drill (the session) or, 0, in an attempt.
NewCycle(s) ==
  [src |-> s, fix |-> NoCorrection, gen |-> 0, skipped |-> FALSE, checks |-> <<>>,
   status |-> "needs-practice"]

LearningInit ==
  /\ date = 1 /\ reviews = 0
  /\ label = FirstLabels /\ synced = TRUE
  /\ cycles = <<NewCycle(0)>> /\ sessions = <<>> /\ agenda = {}

Verdicts == {"correct", "incorrect", "unverified"}

Assisted == BOOLEAN

LearningTypeOK ==
  /\ date \in 1..MaxDay /\ reviews \in 0..MaxReviews
  /\ label \in [{0} \cup Drills -> Families \cup {Draft, Removed}] /\ synced \in BOOLEAN
  /\ \A i \in DOMAIN sessions :
       /\ sessions[i].d \in Drills /\ sessions[i].cyc \in 0..Len(cycles)
       /\ sessions[i].st \in {"in-progress", "submitted"}
  /\ \A c \in DOMAIN cycles :
       /\ cycles[c].status \in {"needs-practice", "correction-saved", "awaiting-transfer", "demonstrated"}
       /\ cycles[c].src \in 0..Len(sessions)
  /\ \A a \in agenda : a.c \in DOMAIN cycles /\ a.s \in 0..Len(sessions)

-----------------------------------------------------------------------------

\* Faulty variants.
AnyCorrection(c, s) == c.fix.verdict = "correct" /\ ~c.fix.assisted /\ ~c.skipped

KeepsChecks(c) == c.checks

\* The family of the mistake of a cycle; that of a drill must be the one it has now.
SourceFamily(c) == IF c.src = 0 THEN label[0] ELSE label[sessions[c.src].d]

\* sourceOriginMatches.
OfSource(c, d) == c.src # 0 /\ sessions[c.src].d = d

\* familySeen, knownSessionOrigin: the family was met in a session or a mistake, or the
\* drill itself was.  A drill without a family counts as met.
Seen(d) ==
  \/ label[d] \notin Families
  \/ \E i \in DOMAIN sessions : sessions[i].fam = label[d] \/ sessions[i].d = d
  \/ \E c \in DOMAIN cycles : SourceFamily(cycles[c]) = label[d] \/ OfSource(cycles[c], d)

\* syncLearning: a session stays independent while its drill is reviewed as it was.
Upheld(s) == [s EXCEPT !.indep = @ /\ label[s.d] = s.fam]

\* refreshCycleIndexed, for one check: the families are compared as they are now.
Counts(c, k, ss) ==
  LET s == ss[k.s] IN
  /\ s.indep /\ label[s.d] = s.fam /\ s.fam \in Families
  /\ SourceFamily(c) \in Families /\ SourceFamily(c) # s.fam /\ ~OfSource(c, s.d)

\* refreshCycleIndexed: two families, one of them delayed, demonstrate a correct
\* correction made without help.
Refreshed(c, ss) ==
  LET good == {i \in DOMAIN c.checks : c.checks[i].passed /\ Counts(c, c.checks[i], ss)}
      families == {ss[c.checks[i].s].fam : i \in good}
      enough == Cardinality(families) >= 2 /\ \E i \in good : c.checks[i].delayed
      correct == c.fix.verdict = "correct" /\ ~c.fix.assisted
  IN [c EXCEPT !.status =
       CASE c.fix.verdict \in {"none", "incorrect"} -> "needs-practice"
         [] correct /\ enough -> "demonstrated"
         [] correct /\ ~enough -> "awaiting-transfer"
         [] OTHER -> "correction-saved"]

RefreshedAll(cs, ss) == [c \in DOMAIN cs |-> Refreshed(cs[c], ss)]

SyncedSessions == [i \in DOMAIN sessions |-> Upheld(sessions[i])]

SyncedCycles == RefreshedAll(cycles, SyncedSessions)

\* hasOpenCycleSession: a session of an assignment that was skipped is not open.
Open(ss, plans, c) ==
  \E i \in DOMAIN ss :
    /\ ss[i].st = "in-progress" /\ ss[i].cyc = c
    /\ ~\E a \in plans : a.s = i /\ a.st = "SKIPPED"

\* transferDrillEligible.
Transfers(c, d) ==
  /\ c.status = "awaiting-transfer" /\ ~c.skipped
  /\ SourceFamily(c) \in Families /\ label[d] \in Families
  /\ label[d] # SourceFamily(c) /\ ~Seen(d) /\ ~OfSource(c, d)

NextCheckDate(c) == c.fix.on + Delay

\* A planned check that stays: bound to the correction and the family it was made for.
Stays(cs, ss, plans, a) ==
  /\ a.gen = cs[a.c].gen /\ label[a.d] = a.fam /\ Transfers(cs[a.c], a.d)
  /\ ~Open(ss, plans, a.c) /\ a.on >= NextCheckDate(cs[a.c])

\* A cycle that awaits its checks and has none gets one, on the first free day, of the
\* first drill nothing is planned of.
WithCheck(cs, ss, as, c) ==
  LET fits == {d \in Drills :
        /\ Transfers(cs[c], d)
        /\ \A a \in as : a.st = "PLANNED" => a.d # d /\ a.fam # label[d]}
      days == {x \in (date + 1)..MaxDay :
        x >= NextCheckDate(cs[c]) /\ ~\E a \in as : a.on = x /\ a.st # "SKIPPED"}
  IN IF \/ \E a \in as : a.c = c /\ a.st = "PLANNED" /\ a.on >= date
        \/ Open(ss, as, c) \/ fits = {} \/ days = {}
     THEN as
     ELSE as \cup {[c |-> c, d |-> Min(fits), gen |-> cs[c].gen, fam |-> label[Min(fits)],
                    on |-> Min(days), st |-> "PLANNED", s |-> 0]}

\* reconcileLearningAssignments: checks that no longer fit are dropped, and then each
\* cycle in its turn gets the one it lacks.
Reconciled(cs, ss, plans) ==
  LET kept == {a \in plans : a.st # "PLANNED" \/ a.on < date \/ Stays(cs, ss, plans, a)}
      upTo[c \in 0..Len(cs)] == IF c = 0 THEN kept ELSE WithCheck(cs, ss, upTo[c - 1], c)
  IN upTo[Len(cs)]

\* reconcileDay, for the checks of the plan.
Overdue(plans) == {IF a.st = "PLANNED" /\ a.on < date THEN [a EXCEPT !.st = "MISSED"] ELSE a : a \in plans}

\* What every request stores besides what it does itself.
Stored(cs, ss, plans) ==
  /\ sessions' = ss /\ cycles' = cs
  /\ agenda' = Reconciled(cs, ss, Overdue(plans))
  /\ synced' = TRUE
  /\ UNCHANGED <<date, label, reviews>>

\* Any request that reads.
LookAtCycles == Stored(SyncedCycles, SyncedSessions, agenda)

\* A new correction starts the checks of its cycle anew.
ChecksAfter(c) == <<>>

\* learningAction, correction.
Correct(i, verdict, assisted) ==
  LET c == SyncedCycles[i]
      fixed == [c EXCEPT !.fix = [verdict |-> verdict, assisted |-> assisted, on |-> date],
                         !.gen = @ + 1, !.checks = ChecksAfter(c)]
  IN
  /\ ~c.skipped /\ c.gen < MaxRevisions
  /\ Stored([SyncedCycles EXCEPT ![i] = Refreshed(fixed, SyncedSessions)], SyncedSessions, agenda)

\* learningAction, skip.
SkipCycle(i) ==
  /\ ~cycles[i].skipped
  /\ Stored([SyncedCycles EXCEPT ![i].skipped = TRUE], SyncedSessions, agenda)

Session(d, i) ==
  [d |-> d, fam |-> label[d], cyc |-> i, gen |-> IF i = 0 THEN 0 ELSE cycles[i].gen,
   seen |-> Seen(d), st |-> "in-progress", help |-> FALSE, indep |-> FALSE, on |-> date]

\* learningAction, start: free practice (0) or for a cycle; a reviewed drill is not
\* spent on a cycle that does not await its checks.
StartDrill(d, i) ==
  /\ label[d] # Removed /\ Len(sessions) < MaxSessions
  /\ i # 0 => /\ ~cycles[i].skipped /\ cycles[i].fix # NoCorrection
              /\ label[d] \in Families => SyncedCycles[i].status = "awaiting-transfer"
              /\ ~Open(sessions, agenda, i)
  /\ ~\E k \in DOMAIN sessions : sessions[k].st = "in-progress" /\ sessions[k].d = d /\ sessions[k].cyc = i
  /\ LET ss == Append(SyncedSessions, Session(d, i)) IN
     Stored(RefreshedAll(SyncedCycles, ss), ss, agenda)

\* learningAction, start of a check of the plan on its day.
StartPlanned(a) ==
  /\ a.st = "PLANNED" /\ a.on = date /\ Len(sessions) < MaxSessions
  /\ Stays(SyncedCycles, SyncedSessions, agenda, a)
  /\ LET ss == Append(SyncedSessions, Session(a.d, a.c)) IN
     Stored(RefreshedAll(SyncedCycles, ss), ss,
            (agenda \ {a}) \cup {[a EXCEPT !.st = "IN_PROGRESS", !.s = Len(ss)]})

\* Service.Skip, for a check.
SkipPlanned(a) ==
  /\ a.st \in {"PLANNED", "IN_PROGRESS"} /\ a.on = date
  /\ Stored(SyncedCycles, SyncedSessions, (agenda \ {a}) \cup {[a EXCEPT !.st = "SKIPPED"]})

\* The correction a session was begun under still stands.
SameCorrection(c, s) ==
  c.gen = s.gen /\ c.fix.verdict = "correct" /\ ~c.fix.assisted /\ ~c.skipped

\* learningAction, submit.
Independent(c, s, assisted) ==
  /\ SameCorrection(c, s)
  /\ label[s.d] = s.fam /\ s.fam \in Families /\ ~s.seen /\ ~assisted
  /\ SourceFamily(c) \in Families /\ SourceFamily(c) # s.fam /\ ~OfSource(c, s.d)

SubmitDrill(k, verdict, assisted) ==
  LET s == sessions[k]
      c == SyncedCycles[s.cyc]
      mine == s.cyc # 0
      done == [s EXCEPT !.st = "submitted", !.help = assisted,
                        !.indep = mine /\ Independent(c, s, assisted)]
      ss == [SyncedSessions EXCEPT ![k] = done]
      check == [s |-> k, passed |-> verdict = "correct",
                delayed |-> SameCorrection(c, s) /\ date - c.fix.on >= Delay]
      checked == IF mine THEN [SyncedCycles EXCEPT ![s.cyc].checks = Append(@, check)]
                 ELSE SyncedCycles
      opened == IF verdict = "incorrect" THEN Append(checked, NewCycle(k)) ELSE checked
  IN
  /\ s.st = "in-progress"
  /\ ~\E a \in agenda : a.s = k /\ a.st = "SKIPPED"
  /\ verdict = "incorrect" => Len(cycles) < MaxCycles
  /\ Stored(RefreshedAll(opened, ss), ss,
            {IF a.s = k THEN [a EXCEPT !.st = "COMPLETED"] ELSE a : a \in agenda})

\* EditorialHandler.Review: of a drill or of the source of the mistake.
Review(x, l) ==
  /\ reviews < MaxReviews /\ l # label[x]
  /\ label' = [label EXCEPT ![x] = l] /\ reviews' = reviews + 1 /\ synced' = FALSE
  /\ UNCHANGED <<date, cycles, sessions, agenda>>

NextDay ==
  /\ date < MaxDay /\ date' = date + 1
  /\ UNCHANGED <<label, reviews, cycles, sessions, agenda, synced>>

LearningNext ==
  \/ LookAtCycles \/ NextDay
  \/ \E i \in DOMAIN cycles : SkipCycle(i) \/ \E v \in Verdicts, h \in Assisted : Correct(i, v, h)
  \/ \E d \in Drills, i \in 0..Len(cycles) : StartDrill(d, i)
  \/ \E a \in agenda : StartPlanned(a) \/ SkipPlanned(a)
  \/ \E k \in DOMAIN sessions, v \in Verdicts, h \in Assisted : SubmitDrill(k, v, h)
  \/ \E x \in {0} \cup Drills, l \in Families \cup {Draft, Removed} : Review(x, l)

LearningSpec == LearningInit /\ [][LearningNext]_learningVars

-----------------------------------------------------------------------------

\* What "demonstrated" promises, whatever the student begins, leaves open and corrects
\* again and the editors review in between: a correct correction made without help and,
\* after it, two drills solved without help, whose families differ from each other and
\* from that of the mistake, are reviewed as such now, and had not been met before; one
\* of them at least Delay days after the correction.
DemonstratedIsEarned ==
  \A c \in DOMAIN cycles : cycles[c].status = "demonstrated" /\ synced =>
    LET fix == cycles[c].fix
        earned(k) ==
          /\ sessions[k].cyc = c /\ sessions[k].gen = cycles[c].gen
          /\ ~sessions[k].help /\ sessions[k].on >= fix.on
          /\ label[sessions[k].d] = sessions[k].fam /\ sessions[k].fam \in Families
          /\ sessions[k].fam # SourceFamily(cycles[c])
          /\ \A j \in 1..(k - 1) : sessions[j].fam # sessions[k].fam /\ sessions[j].d # sessions[k].d
        passed == {i \in DOMAIN cycles[c].checks :
                     cycles[c].checks[i].passed /\ earned(cycles[c].checks[i].s)}
    IN /\ fix.verdict = "correct" /\ ~fix.assisted
       /\ \E i, j \in passed :
            /\ sessions[cycles[c].checks[i].s].fam # sessions[cycles[c].checks[j].s].fam
            /\ cycles[c].checks[i].delayed

\* One open task for a cycle at a time: a session under way or a check that is planned
\* for today or later, never two, so that no unseen family is spent twice.
OneTaskPerCycle ==
  \A c \in DOMAIN cycles :
    Cardinality({k \in DOMAIN sessions :
                   /\ sessions[k].cyc = c /\ sessions[k].st = "in-progress"
                   /\ ~\E a \in agenda : a.s = k /\ a.st = "SKIPPED"})
    + Cardinality({a \in agenda : a.c = c /\ a.st = "PLANNED" /\ a.on >= date}) <= 1

\* Learning cycles: what is said to be demonstrated was, by one task at a time.
CyclesHold == LearningTypeOK /\ DemonstratedIsEarned /\ OneTaskPerCycle
=============================================================================
