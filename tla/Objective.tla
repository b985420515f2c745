------------------------------- MODULE Objective -------------------------------
(***************************************************************************)
(* internal/attempts: a Listening or Reading attempt, alone or a section   *)
(* of a mock.  Answers are saved in one statement; a hand-in reads the     *)
(* saved answers, grades them with those it carries and stores them all in *)
(* a transaction; a page is put together from several reads.  FullMock     *)
(* has the clocks of a mock: here the section is open, or its time is up   *)
(* and the mock itself hands in what was saved.                            *)
(***************************************************************************)
EXTENDS Integers, FiniteSets

CONSTANTS
  LastQuestion, \* of the version the attempt is pinned to
  Answers,      \* what a student may answer
  Worth,        \* points an answer is awarded (module Grading)
  Points,       \* points of a question
  Clients       \* requests under way at once

Questions == 1..LastQuestion

Blank == "blank"     \* an answer of {}
NoRow == "no row"
Ungraded == -1

ASSUME ObjectiveAssumption ==
  /\ LastQuestion \in Nat /\ Points \in Nat \ {0} /\ Worth \in [Answers -> 0..Points]
  /\ Blank \notin Answers /\ NoRow \notin Answers

VARIABLES
  status,   \* attempts.status
  score,    \* attempts.score
  saved,    \* attempt_answers.answer
  marks,    \* attempt_answers.points_awarded
  tasks,    \* user_skill_progress.completed_tasks
  exam,     \* full_mock_sessions.status, or "NONE" for a practice
  timeUp,   \* the section's deadline has passed
  ask       \* requests, and what they have read so far

objectiveVars == <<status, score, saved, marks, tasks, exam, timeUp, ask>>
attemptRow == <<status, score, saved, marks, tasks>>

Silent == [op |-> "none", at |-> "idle"]

\* What a save or a hand-in carries.
Inputs == {[q \in {} |-> Blank]} \cup UNION {[{q} -> Answers] : q \in Questions}

ObjectiveInit ==
  /\ status = "IN_PROGRESS" /\ score = Ungraded /\ tasks = 0
  /\ saved = [q \in Questions |-> NoRow] /\ marks = [q \in Questions |-> Ungraded]
  /\ exam \in {"NONE", "IN_PROGRESS"} /\ timeUp = FALSE
  /\ ask = [c \in Clients |-> Silent]

ObjectiveTypeOK ==
  /\ status \in {"IN_PROGRESS", "SUBMITTED", "ABANDONED"}
  /\ score \in {Ungraded} \cup 0..(Points * LastQuestion) /\ tasks \in Nat
  /\ saved \in [Questions -> Answers \cup {Blank, NoRow}]
  /\ marks \in [Questions -> {Ungraded} \cup 0..Points]
  /\ exam \in {"NONE", "IN_PROGRESS", "SUBMITTED", "ABANDONED"} /\ timeUp \in BOOLEAN
  /\ \A c \in Clients : ask[c].at \in {"idle", "saving", "reading", "storing", "looking", "loading", "shown"}

-----------------------------------------------------------------------------

\* Faulty variants.
AnyTime == TRUE

-----------------------------------------------------------------------------

To(c, r) == ask' = [ask EXCEPT ![c] = r]

Done(c) == To(c, Silent)

\* ValidateAttemptAccess, for a section that is the current one.
MayAct == exam = "NONE" \/ (exam = "IN_PROGRESS" /\ ~timeUp)

\* The status the statement of SaveAnswers finds under the lock of the row.
MaySave == status = "IN_PROGRESS"

\* The status the transaction of Submit finds.
MayGrade == status = "IN_PROGRESS"

\* Save, hand in: the attempt is the caller's, under way and accessible.
Ask(c, op, input) ==
  /\ ask[c] = Silent /\ status = "IN_PROGRESS"
  /\ IF op = "expired" THEN exam = "IN_PROGRESS" /\ timeUp /\ DOMAIN input = {} ELSE MayAct
  /\ To(c, [op |-> op, at |-> IF op = "save" THEN "saving" ELSE "reading", input |-> input])
  /\ UNCHANGED <<attemptRow, exam, timeUp>>

SaveAnswers(c) ==
  /\ ask[c].at = "saving" /\ Done(c)
  /\ saved' = IF MaySave
              THEN [q \in Questions |-> IF q \in DOMAIN ask[c].input THEN ask[c].input[q] ELSE saved[q]]
              ELSE saved
  /\ UNCHANGED <<status, score, marks, tasks, exam, timeUp>>

\* ListAnswers of a hand-in.
ListAnswers(c) ==
  /\ ask[c].at = "reading"
  /\ To(c, [op |-> ask[c].op, at |-> "storing", input |-> ask[c].input, seen |-> saved])
  /\ UNCHANGED <<attemptRow, exam, timeUp>>

\* The answers of a hand-in over those that were saved; a question without any is blank.
Given(r) ==
  [q \in Questions |-> CASE q \in DOMAIN r.input -> r.input[q]
                         [] r.seen[q] # NoRow -> r.seen[q]
                         [] OTHER -> Blank]

PointsOf(a) == IF a = Blank THEN 0 ELSE Worth[a]

\* The score: what the questions were awarded, one after the other.
Total(m) ==
  LET upTo[q \in 0..LastQuestion] == IF q = 0 THEN 0 ELSE upTo[q - 1] + m[q]
  IN upTo[LastQuestion]

Submit(c) ==
  /\ ask[c].at = "storing" /\ Done(c)
  /\ IF MayGrade
     THEN /\ status' = "SUBMITTED" /\ saved' = Given(ask[c])
          /\ marks' = [q \in Questions |-> PointsOf(Given(ask[c])[q])]
          /\ score' = Total(marks')
          /\ tasks' = tasks + 1
     ELSE UNCHANGED attemptRow
  /\ UNCHANGED <<exam, timeUp>>

-----------------------------------------------------------------------------

\* The review of a section is locked until its mock is submitted.
ReviewLocked == exam \in {"IN_PROGRESS", "ABANDONED"}

NothingSaved == [q \in Questions |-> Ungraded]

\* own: the row of the attempt, before everything else.
LookAtAttempt(c) ==
  /\ ask[c] = Silent
  /\ To(c, [op |-> "get", at |-> "looking", was |-> status])
  /\ UNCHANGED <<attemptRow, exam, timeUp>>

\* ReviewAttempt.
Locked(c) ==
  /\ ask[c].at = "looking"
  /\ To(c, IF ReviewLocked /\ ask[c].was # "IN_PROGRESS"
           THEN [op |-> "get", at |-> "shown", was |-> ask[c].was, marks |-> NothingSaved]
           ELSE [op |-> "get", at |-> "loading", was |-> ask[c].was])
  /\ UNCHANGED <<attemptRow, exam, timeUp>>

\* ListAnswers of a page: with the points awarded, whatever the status was.
Load(c) ==
  /\ ask[c].at = "loading"
  /\ To(c, [op |-> "get", at |-> "shown", was |-> ask[c].was, marks |-> marks])
  /\ UNCHANGED <<attemptRow, exam, timeUp>>

\* ListMistakeAttempts: one statement.
InBank == status = "SUBMITTED" /\ ~ReviewLocked /\ score < Points * LastQuestion

Mistakes(m) == {q \in Questions : m[q] # Points}

\* Service.Mistakes: lists the attempts, then loads their answers.
ListMistakes(c) ==
  /\ ask[c] = Silent /\ status = "SUBMITTED" /\ ~ReviewLocked
  /\ To(c, [op |-> "mistakes", at |-> "loading", was |-> status])
  /\ UNCHANGED <<attemptRow, exam, timeUp>>

Read(c) == ask[c].at = "shown" /\ Done(c) /\ UNCHANGED <<attemptRow, exam, timeUp>>

-----------------------------------------------------------------------------

\* The mock: the time of the section runs out, the mock ends or is given up.
TimePasses ==
  /\ exam = "IN_PROGRESS" /\ ~timeUp /\ timeUp' = TRUE
  /\ UNCHANGED <<attemptRow, exam, ask>>

FinishExam ==
  /\ exam = "IN_PROGRESS" /\ status = "SUBMITTED" /\ exam' = "SUBMITTED"
  /\ UNCHANGED <<attemptRow, timeUp, ask>>

AbandonExam ==
  /\ exam = "IN_PROGRESS" /\ exam' = "ABANDONED"
  /\ status' = IF status = "IN_PROGRESS" THEN "ABANDONED" ELSE status
  /\ UNCHANGED <<score, saved, marks, tasks, timeUp, ask>>

ObjectiveNext ==
  \/ \E c \in Clients :
       \/ \E i \in Inputs, op \in {"save", "submit", "expired"} : Ask(c, op, i)
       \/ SaveAnswers(c) \/ ListAnswers(c) \/ Submit(c)
       \/ LookAtAttempt(c) \/ Locked(c) \/ Load(c) \/ ListMistakes(c) \/ Read(c)
  \/ TimePasses \/ FinishExam \/ AbandonExam

ObjectiveSpec == ObjectiveInit /\ [][ObjectiveNext]_objectiveVars

-----------------------------------------------------------------------------

\* The grade of an attempt is that of the answers stored with it, counted once, however
\* late saves, the student's hand-in and that of the expired section interleave; the
\* bank of mistakes lists it exactly when its review shows a mistake.
GradeMatchesAnswers ==
  /\ status = "SUBMITTED" =>
       /\ \A q \in Questions : saved[q] # NoRow /\ marks[q] = PointsOf(saved[q])
       /\ score = Total(marks)
  /\ tasks = IF status = "SUBMITTED" THEN 1 ELSE 0
  /\ InBank => Mistakes(marks) # {}
=============================================================================
