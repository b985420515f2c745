------------------------ MODULE WritingPipeline_proofs ------------------------
(***************************************************************************)
(* Proofs about WritingPipeline, for any number of attempts, workers, tabs *)
(* and texts, and any bound on tries, faults and stalls.                   *)
(***************************************************************************)
EXTENDS WritingPipeline, FiniteSetTheorems, TLAPS

\* The initial state is well typed.
LEMMA TypeInit == Init => TypeOK
BY WritingAssumption DEF Init, TypeOK, Status, JobStatus, Content, TabState, WorkerState,
   IdleTab, IdleWorker

\* Every step keeps every variable in its range.
LEMMA TypeStep == TypeOK /\ [Next]_vars => TypeOK'
<1> SUFFICES ASSUME TypeOK, [Next]_vars PROVE TypeOK'
  OBVIOUS
<1> USE WritingAssumption
<1>1. ASSUME NEW a \in Attempts, NEW x \in Content, SaveAnswers(a, x) PROVE TypeOK'
  BY <1>1 DEF TypeOK, SaveAnswers
<1>2. ASSUME NEW t \in Tabs, NEW a \in Attempts, NEW x \in Content \cup {None}, BeginSubmit(t, a, x)
      PROVE TypeOK'
  BY <1>2 DEF TypeOK, BeginSubmit, Applied, Content, TabState
<1>3. ASSUME NEW t \in Tabs, Validate(t) PROVE TypeOK'
  BY <1>3 DEF TypeOK, Validate, TabState, IdleTab, rows
<1>4. ASSUME NEW t \in Tabs, RejectSubmit(t) PROVE TypeOK'
  BY <1>4 DEF TypeOK, RejectSubmit, TabState, rows
<1>5. ASSUME NEW t \in Tabs, QueueWritingAssessment(t) PROVE TypeOK'
  <2>1. tab[t].attempt \in Attempts /\ Applied(tab[t].attempt, tab[t].input) \in Content
    BY <1>5 DEF TypeOK, QueueWritingAssessment, TabState, IdleTab, Applied, Content
  <2> QED BY <1>5, <2>1 DEF TypeOK, QueueWritingAssessment, TabState, Status, JobStatus
<1>6. ASSUME NEW a \in Attempts, RetryAssessment(a) PROVE TypeOK'
  BY <1>6 DEF TypeOK, RetryAssessment, RetriedTries, Status, JobStatus
<1>7. ASSUME NEW a \in Attempts, AbandonAttempt(a) PROVE TypeOK'
  BY <1>7 DEF TypeOK, AbandonAttempt, Status
<1>8. ASSUME NEW w \in Workers, RecoverWritingJobs(w) PROVE TypeOK'
  <2>1. worker' \in [Workers -> WorkerState]
    BY <1>8 DEF TypeOK, RecoverWritingJobs, Step, At, WorkerState
  <2>2. \A a \in Attempts : Refund(tries[a]) \in 0..MaxTries
    BY DEF TypeOK, Refund
  <2> QED BY <1>8, <2>1, <2>2 DEF TypeOK, RecoverWritingJobs, JobStatus
<1>9. ASSUME NEW w \in Workers, NothingPending(w) PROVE TypeOK'
  BY <1>9 DEF TypeOK, NothingPending, Release, WorkerState, IdleWorker, rows
<1>10. ASSUME NEW w \in Workers, NEW a \in Attempts, ClaimWritingAssessment(w, a) PROVE TypeOK'
  <2>1. worker' \in [Workers -> WorkerState]
    BY <1>10 DEF TypeOK, ClaimWritingAssessment, WorkerState
  <2> QED BY <1>10, <2>1 DEF TypeOK, ClaimWritingAssessment, Due, JobStatus
<1>11. ASSUME NEW w \in Workers, GetAttempt(w) PROVE TypeOK'
  BY <1>11 DEF TypeOK, GetAttempt, Step, At, WorkerState, rows
<1>12. ASSUME NEW w \in Workers, ReadAnswers(w) PROVE TypeOK'
  <2>1. worker[w].attempt \in Attempts /\ answers[worker[w].attempt] \in Content
    BY <1>12 DEF TypeOK, ReadAnswers, At, WorkerState
  <2>2. worker' \in [Workers -> WorkerState]
    BY <1>12, <2>1 DEF TypeOK, ReadAnswers, AfterRead, At, WorkerState, Content
  <2> QED BY <1>12, <2>2 DEF TypeOK, ReadAnswers, rows
<1>13. ASSUME NEW w \in Workers, ReadError(w) PROVE TypeOK'
  BY <1>13 DEF TypeOK, ReadError, Step, WorkerState, Content, rows
<1>14. ASSUME NEW w \in Workers, Evaluate(w) PROVE TypeOK'
  BY <1>14 DEF TypeOK, Evaluate, Step, At, WorkerState, Content, rows
<1>15. ASSUME NEW w \in Workers, Submit(w) \/ SubmitUnacknowledged(w) PROVE TypeOK'
  <2>1. worker[w].attempt \in Attempts /\ worker[w].text \in Texts
    BY <1>15 DEF TypeOK, Submit, SubmitUnacknowledged, At, WorkerState
  <2>2. worker' \in [Workers -> WorkerState]
    BY <1>15, <2>1 DEF TypeOK, Submit, SubmitUnacknowledged, At, Step, WorkerState, Content
  <2>3. faults' \in 0..MaxFaults
    BY <1>15 DEF TypeOK, Submit, SubmitUnacknowledged
  <2> QED
    BY <1>15, <2>1, <2>2, <2>3
       DEF TypeOK, Submit, SubmitUnacknowledged, Graded, Status, Content
<1>16. ASSUME NEW w \in Workers, SubmitError(w) PROVE TypeOK'
  BY <1>16 DEF TypeOK, SubmitError, Step, At, WorkerState, Content, rows
<1>17. ASSUME NEW w \in Workers, CompleteWritingAssessment(w) PROVE TypeOK'
  BY <1>17 DEF TypeOK, CompleteWritingAssessment, Release, JobStatus, WorkerState, IdleWorker
<1>18. ASSUME NEW w \in Workers, FailWritingAssessment(w) PROVE TypeOK'
  BY <1>18 DEF TypeOK, FailWritingAssessment, AfterFailure, StatusAfterFailure, Release,
     JobStatus, Status, WorkerState, IdleWorker
<1>19. ASSUME NEW a \in Attempts, LeaseLapses(a) PROVE TypeOK'
  BY <1>19 DEF TypeOK, LeaseLapses
<1>20. ASSUME NEW w \in Workers, RenewWritingAssessment(w) PROVE TypeOK'
  BY <1>20 DEF TypeOK, RenewWritingAssessment
<1>21. ASSUME NEW w \in Workers, Crash(w) PROVE TypeOK'
  BY <1>21 DEF TypeOK, Crash, Release, WorkerState, IdleWorker, rows
<1>22. CASE UNCHANGED vars
  BY <1>22 DEF TypeOK, vars
<1> QED
  BY <1>1, <1>2, <1>3, <1>4, <1>5, <1>6, <1>7, <1>8, <1>9, <1>10, <1>11, <1>12, <1>13, <1>14,
     <1>15, <1>16, <1>17, <1>18, <1>19, <1>20, <1>21, <1>22
     DEF Next, StudentNext, WorkerNext, Process, Environment

\* Every variable keeps its range: no job has more tries than the CHECK
\* constraint of migration 000027 allows, and no worker evaluates a blank text.
THEOREM TypeCorrect == Spec => []TypeOK
BY TypeInit, TypeStep, PTL DEF Spec

-------------------------------------------------------------------------------
(* The safety of the queue, under crashes, lost writes and leases that lapse *)
(* under live workers.                                                       *)

\* A worker is about to close the job only of an attempt that has been graded.
CompletingIsGraded ==
  \A w \in Workers : At(w, "completing") => status[worker[w].attempt] = "SUBMITTED"

\* A worker processes only attempts that were queued once.
HeldWasQueued ==
  \A w \in Workers : worker[w].attempt # None => job[worker[w].attempt] # "NONE"

\* Nothing is queued or claimed for an attempt the student holds or that was
\* abandoned.  (This is also why FailWritingAssessment, which locks the job and
\* then the attempt, cannot deadlock with submit and retry, which lock the
\* attempt and then the job.)
NoJobWhileEditable ==
  \A a \in Attempts : status[a] \in {"IN_PROGRESS", "ABANDONED"} => job[a] \in {"NONE", "FAILED"}

\* CompleteWritingAssessment has no guard on the job, yet READY is only ever
\* said of a graded attempt.
ReadyMeansGraded ==
  \A a \in Attempts : job[a] = "READY" => status[a] = "SUBMITTED"

\* The two halves of GradedOnce.
Counted == completed = Cardinality({a \in Attempts : status[a] = "SUBMITTED"})

MarkMatchesText ==
  \A a \in Attempts :
    evaluation[a] = IF status[a] = "SUBMITTED" THEN answers[a] ELSE None

\* NeverStranded is not inductive: that a failing worker cannot strand an attempt
\* takes NoJobWhileEditable, that a completing one cannot takes CompletingIsGraded.
IInv ==
  /\ TypeOK
  /\ NeverStranded
  /\ NoJobWhileEditable
  /\ TriesMatchJob
  /\ Counted
  /\ MarkMatchesText
  /\ ReadyMeansGraded
  /\ CompletingIsGraded
  /\ HeldWasQueued

\* The number of graded attempts goes up by one when one more is graded.
LEMMA OneMoreGraded ==
  ASSUME NEW st, NEW S, IsFiniteSet(S), NEW a \in S, st[a] # "SUBMITTED",
         st \in [S -> Status]
  PROVE  Cardinality({b \in S : [st EXCEPT ![a] = "SUBMITTED"][b] = "SUBMITTED"})
           = Cardinality({b \in S : st[b] = "SUBMITTED"}) + 1
<1> DEFINE G == {b \in S : st[b] = "SUBMITTED"}
<1>1. {b \in S : [st EXCEPT ![a] = "SUBMITTED"][b] = "SUBMITTED"} = G \cup {a}
  OBVIOUS
<1>2. IsFiniteSet(G) /\ a \notin G
  BY FS_Subset
<1> QED BY <1>1, <1>2, FS_AddElement

\* Every step keeps the inductive invariant.  Only a step that moves an attempt
\* or its job, or a worker to "completing", can disturb it.
LEMMA IInvStep == IInv /\ [Next]_vars => IInv'
<1> SUFFICES ASSUME IInv, [Next]_vars PROVE IInv'
  OBVIOUS
<1> USE WritingAssumption DEF IInv, TypeOK, Status, JobStatus, At
<1> DEFINE Queue == /\ NeverStranded /\ NoJobWhileEditable /\ TriesMatchJob
                    /\ MarkMatchesText /\ ReadyMeansGraded /\ CompletingIsGraded /\ HeldWasQueued
<1> USE DEF NeverStranded, NoJobWhileEditable, TriesMatchJob, MarkMatchesText, ReadyMeansGraded,
            CompletingIsGraded, HeldWasQueued
<1>0. TypeOK /\ TypeOK'
  BY TypeStep
<1>same. ASSUME completed' = completed, evaluation' = evaluation,
                \A a \in Attempts : status'[a] = "SUBMITTED" <=> status[a] = "SUBMITTED"
         PROVE  Counted'
  <2>1. {a \in Attempts : status'[a] = "SUBMITTED"} = {a \in Attempts : status[a] = "SUBMITTED"}
    BY <1>same
  <2> QED BY <1>same, <2>1 DEF Counted
<1>1. ASSUME NEW a \in Attempts, NEW x \in Content, SaveAnswers(a, x) PROVE Queue' /\ Counted'
  <2>1. Queue'
    BY <1>1, <1>0 DEF SaveAnswers, MaySave
  <2>2. Counted'
    BY <1>1, <1>0, <1>same DEF SaveAnswers, MaySave
  <2> QED BY <2>1, <2>2
<1>2. ASSUME NEW t \in Tabs, NEW a \in Attempts, NEW x \in Content \cup {None}, BeginSubmit(t, a, x)
      PROVE  Queue' /\ Counted'
  <2>1. Queue'
    BY <1>2, <1>0 DEF TabState, BeginSubmit, MaySave
  <2>2. Counted'
    BY <1>2, <1>0, <1>same DEF BeginSubmit, MaySave
  <2> QED BY <2>1, <2>2
<1>3. ASSUME NEW t \in Tabs, Validate(t) PROVE Queue' /\ Counted'
  <2>1. Queue'
    BY <1>3, <1>0 DEF TabState, Validate, rows
  <2>2. Counted'
    BY <1>3, <1>0, <1>same DEF Validate, rows
  <2> QED BY <2>1, <2>2
<1>4. ASSUME NEW t \in Tabs, RejectSubmit(t) PROVE Queue' /\ Counted'
  <2>1. Queue'
    BY <1>4, <1>0 DEF TabState, RejectSubmit, rows
  <2>2. Counted'
    BY <1>4, <1>0, <1>same DEF RejectSubmit, rows
  <2> QED BY <2>1, <2>2
<1>5. ASSUME NEW t \in Tabs, QueueWritingAssessment(t) PROVE Queue' /\ Counted'
  <2>1. Queue'
    BY <1>5, <1>0 DEF TabState, QueueWritingAssessment, MaySave
  <2>2. Counted'
    BY <1>5, <1>0, <1>same DEF QueueWritingAssessment, MaySave
  <2> QED BY <2>1, <2>2
<1>6. ASSUME NEW a \in Attempts, RetryAssessment(a) PROVE Queue' /\ Counted'
  <2>1. Queue'
    BY <1>6, <1>0 DEF RetryAssessment, MayRetry, RetriedTries
  <2>2. Counted'
    BY <1>6, <1>0, <1>same DEF RetryAssessment, MayRetry, RetriedTries
  <2> QED BY <2>1, <2>2
<1>7. ASSUME NEW a \in Attempts, AbandonAttempt(a) PROVE Queue' /\ Counted'
  <2>1. Queue'
    BY <1>7, <1>0 DEF AbandonAttempt, MayAbandon
  <2>2. Counted'
    BY <1>7, <1>0, <1>same DEF AbandonAttempt, MayAbandon
  <2> QED BY <2>1, <2>2
<1>8. ASSUME NEW w \in Workers, RecoverWritingJobs(w) PROVE Queue' /\ Counted'
  <2>1. Queue'
    BY <1>8, <1>0 DEF WorkerState, RecoverWritingJobs, Lapsed, Refund, Step
  <2>2. Counted'
    BY <1>8, <1>0, <1>same DEF RecoverWritingJobs, Lapsed, Refund, Step
  <2> QED BY <2>1, <2>2
<1>9. ASSUME NEW w \in Workers, NothingPending(w) PROVE Queue' /\ Counted'
  <2>1. Queue'
    BY <1>9, <1>0 DEF WorkerState, NothingPending, Release, IdleWorker, rows
  <2>2. Counted'
    BY <1>9, <1>0, <1>same DEF NothingPending, Release, IdleWorker, rows
  <2> QED BY <2>1, <2>2
<1>10. ASSUME NEW w \in Workers, NEW a \in Attempts, ClaimWritingAssessment(w, a) PROVE Queue' /\ Counted'
  <2>1. Queue'
    BY <1>10, <1>0 DEF WorkerState, ClaimWritingAssessment, Due
  <2>2. Counted'
    BY <1>10, <1>0, <1>same DEF ClaimWritingAssessment, Due
  <2> QED BY <2>1, <2>2
<1>11. ASSUME NEW w \in Workers, GetAttempt(w) PROVE Queue' /\ Counted'
  <2>1. Queue'
    BY <1>11, <1>0 DEF WorkerState, GetAttempt, Step, rows
  <2>2. Counted'
    BY <1>11, <1>0, <1>same DEF GetAttempt, Step, rows
  <2> QED BY <2>1, <2>2
<1>12. ASSUME NEW w \in Workers, ReadAnswers(w) PROVE Queue' /\ Counted'
  <2>1. Queue'
    BY <1>12, <1>0 DEF WorkerState, ReadAnswers, AfterRead, rows
  <2>2. Counted'
    BY <1>12, <1>0, <1>same DEF ReadAnswers, AfterRead, rows
  <2> QED BY <2>1, <2>2
<1>13. ASSUME NEW w \in Workers, ReadError(w) PROVE Queue' /\ Counted'
  <2>1. Queue'
    BY <1>13, <1>0 DEF WorkerState, ReadError, Step, rows
  <2>2. Counted'
    BY <1>13, <1>0, <1>same DEF ReadError, Step, rows
  <2> QED BY <2>1, <2>2
<1>14. ASSUME NEW w \in Workers, Evaluate(w) PROVE Queue' /\ Counted'
  <2>1. Queue'
    BY <1>14, <1>0 DEF WorkerState, Evaluate, Step, rows
  <2>2. Counted'
    BY <1>14, <1>0, <1>same DEF Evaluate, Step, rows
  <2> QED BY <2>1, <2>2
<1>15. ASSUME NEW w \in Workers, Submit(w) \/ SubmitUnacknowledged(w) PROVE Queue' /\ Counted'
  <2>1. worker[w].attempt \in Attempts /\ worker[w].text \in Texts
    BY <1>15 DEF Submit, SubmitUnacknowledged, WorkerState
  <2>2. ASSUME Submit(w) PROVE Queue'
    BY <2>1, <2>2, <1>0 DEF Submit, MayGrade, Graded, Step, WorkerState
  <2>3. ASSUME SubmitUnacknowledged(w) PROVE Queue'
    BY <2>1, <2>3, <1>0 DEF SubmitUnacknowledged, MayGrade, Graded, Step, WorkerState
  <2>4. Counted'
    BY <2>1, <1>15, <1>0, OneMoreGraded
       DEF Counted, Submit, SubmitUnacknowledged, MayGrade, Graded
  <2> QED BY <1>15, <2>2, <2>3, <2>4
<1>16. ASSUME NEW w \in Workers, SubmitError(w) PROVE Queue' /\ Counted'
  <2>1. Queue'
    BY <1>16, <1>0 DEF WorkerState, SubmitError, Step, rows
  <2>2. Counted'
    BY <1>16, <1>0, <1>same DEF SubmitError, Step, rows
  <2> QED BY <2>1, <2>2
<1>17. ASSUME NEW w \in Workers, CompleteWritingAssessment(w) PROVE Queue' /\ Counted'
  <2>1. Queue'
    BY <1>17, <1>0 DEF WorkerState, CompleteWritingAssessment, Release, IdleWorker
  <2>2. Counted'
    BY <1>17, <1>0, <1>same DEF CompleteWritingAssessment, Release, IdleWorker
  <2> QED BY <2>1, <2>2
<1>18. ASSUME NEW w \in Workers, FailWritingAssessment(w) PROVE Queue' /\ Counted'
  <2>1. Queue'
    BY <1>18, <1>0 DEF WorkerState, FailWritingAssessment, AfterFailure, StatusAfterFailure, Release, IdleWorker
  <2>2. Counted'
    BY <1>18, <1>0, <1>same DEF FailWritingAssessment, AfterFailure, StatusAfterFailure, Release, IdleWorker
  <2> QED BY <2>1, <2>2
<1>19. ASSUME NEW a \in Attempts, LeaseLapses(a) PROVE Queue' /\ Counted'
  <2>1. Queue'
    BY <1>19, <1>0 DEF LeaseLapses
  <2>2. Counted'
    BY <1>19, <1>0, <1>same DEF LeaseLapses
  <2> QED BY <2>1, <2>2
<1>20. ASSUME NEW w \in Workers, RenewWritingAssessment(w) PROVE Queue' /\ Counted'
  <2>1. Queue'
    BY <1>20, <1>0 DEF WorkerState, RenewWritingAssessment
  <2>2. Counted'
    BY <1>20, <1>0, <1>same DEF RenewWritingAssessment
  <2> QED BY <2>1, <2>2
<1>21. ASSUME NEW w \in Workers, Crash(w) PROVE Queue' /\ Counted'
  <2>1. Queue'
    BY <1>21, <1>0 DEF WorkerState, Crash, Release, IdleWorker, rows
  <2>2. Counted'
    BY <1>21, <1>0, <1>same DEF Crash, Release, IdleWorker, rows
  <2> QED BY <2>1, <2>2
<1>22. CASE UNCHANGED vars
  BY <1>22, <1>0, <1>same DEF vars
<1> QED
  BY <1>0, <1>1, <1>2, <1>3, <1>4, <1>5, <1>6, <1>7, <1>8, <1>9, <1>10, <1>11, <1>12, <1>13,
     <1>14, <1>15, <1>16, <1>17, <1>18, <1>19, <1>20, <1>21, <1>22
     DEF Next, StudentNext, WorkerNext, Process, Environment

\* The inductive invariant holds at first.
LEMMA IInvInit == Init => IInv
<1> SUFFICES ASSUME Init PROVE IInv
  OBVIOUS
<1>1. TypeOK
  BY TypeInit
<1>2. {a \in Attempts : status[a] = "SUBMITTED"} = {}
  BY DEF Init
<1>3. Counted
  BY <1>2, FS_EmptySet DEF Init, Counted
<1> QED
  BY <1>1, <1>3 DEF Init, IInv, NeverStranded, NoJobWhileEditable, TriesMatchJob,
     MarkMatchesText, ReadyMeansGraded, CompletingIsGraded, HeldWasQueued, At, IdleWorker

\* A submission is never stranded in PROCESSING without a job to grade it, nothing
\* is queued for an attempt the student holds, a queued job has a try left, READY
\* is said of graded attempts only; for any number of workers, crashes and stalls.
THEOREM QueueSafe ==
  Spec => [](NeverStranded /\ NoJobWhileEditable /\ TriesMatchJob /\ ReadyMeansGraded)
<1>1. IInv => NeverStranded /\ NoJobWhileEditable /\ TriesMatchJob /\ ReadyMeansGraded
  BY DEF IInv
<1> QED BY <1>1, IInvInit, IInvStep, PTL DEF Spec

\* However many workers evaluate one submission, it counts once in the student's
\* progress and has one evaluation, of the text it is shown with.
THEOREM GradedExactlyOnce == Spec => []GradedOnce
<1>1. IInv => GradedOnce
  BY DEF IInv, GradedOnce, Counted, MarkMatchesText
<1> QED BY <1>1, IInvInit, IInvStep, PTL DEF Spec

\* What no step changes of an attempt that is graded or abandoned.
Final(a) ==
  status[a] \in {"SUBMITTED", "ABANDONED"} =>
    status'[a] = status[a] /\ answers'[a] = answers[a] /\ evaluation'[a] = evaluation[a]

\* A step leaves closed attempts alone.
LEMMA FinalStep == TypeOK /\ [Next]_vars => \A a \in Attempts : Final(a)
<1> SUFFICES ASSUME TypeOK, [Next]_vars, NEW b \in Attempts PROVE Final(b)
  OBVIOUS
<1> USE DEF TypeOK, Final
<1>1. ASSUME NEW a \in Attempts, NEW x \in Content, SaveAnswers(a, x) PROVE Final(b)
  BY <1>1 DEF SaveAnswers, MaySave
<1>2. ASSUME NEW t \in Tabs, NEW a \in Attempts, NEW x \in Content \cup {None}, BeginSubmit(t, a, x)
      PROVE Final(b)
  BY <1>2 DEF BeginSubmit, MaySave
<1>3. ASSUME NEW t \in Tabs, Validate(t) \/ RejectSubmit(t) PROVE Final(b)
  BY <1>3 DEF Validate, RejectSubmit, rows
<1>4. ASSUME NEW t \in Tabs, QueueWritingAssessment(t) PROVE Final(b)
  BY <1>4 DEF QueueWritingAssessment, MaySave
<1>5. ASSUME NEW a \in Attempts, RetryAssessment(a) \/ AbandonAttempt(a) PROVE Final(b)
  BY <1>5 DEF RetryAssessment, MayRetry, AbandonAttempt, MayAbandon
<1>6. ASSUME NEW w \in Workers, NEW a \in Attempts, ClaimWritingAssessment(w, a) PROVE Final(b)
  BY <1>6 DEF ClaimWritingAssessment
<1>7. ASSUME NEW w \in Workers, RecoverWritingJobs(w) \/ NothingPending(w) PROVE Final(b)
  BY <1>7 DEF RecoverWritingJobs, NothingPending, rows
<1>8. ASSUME NEW w \in Workers, GetAttempt(w) \/ ReadAnswers(w) \/ ReadError(w) \/ Evaluate(w)
      PROVE Final(b)
  BY <1>8 DEF GetAttempt, ReadAnswers, ReadError, Evaluate, rows
<1>9. ASSUME NEW w \in Workers, Submit(w) \/ SubmitUnacknowledged(w) \/ SubmitError(w)
      PROVE Final(b)
  BY <1>9 DEF Submit, SubmitUnacknowledged, Graded, MayGrade, SubmitError, rows
<1>10. ASSUME NEW w \in Workers, CompleteWritingAssessment(w) \/ FailWritingAssessment(w)
       PROVE Final(b)
  BY <1>10 DEF CompleteWritingAssessment, FailWritingAssessment, StatusAfterFailure
<1>11. ASSUME NEW a \in Attempts, LeaseLapses(a) PROVE Final(b)
  BY <1>11 DEF LeaseLapses
<1>12. ASSUME NEW w \in Workers, RenewWritingAssessment(w) \/ Crash(w) PROVE Final(b)
  BY <1>12 DEF RenewWritingAssessment, Crash, rows
<1>13. CASE UNCHANGED vars
  BY <1>13 DEF vars
<1> QED
  BY <1>1, <1>2, <1>3, <1>4, <1>5, <1>6, <1>7, <1>8, <1>9, <1>10, <1>11, <1>12, <1>13
     DEF Next, StudentNext, WorkerNext, Process, Environment

\* No late save, retry, stale worker or replayed request changes a closed attempt.
THEOREM ClosedStaysClosed == Spec => ClosedIsFinal
<1>1. TypeOK /\ [Next]_vars =>
        [\A a \in Attempts :
           status[a] \in {"SUBMITTED", "ABANDONED"} =>
             /\ status'[a] = status[a]
             /\ answers'[a] = answers[a]
             /\ evaluation'[a] = evaluation[a]]_vars
  BY FinalStep DEF Final
<1> QED BY <1>1, TypeCorrect, PTL DEF Spec, ClosedIsFinal

-------------------------------------------------------------------------------
(* While a live worker keeps its lease (MaxStalls = 0), the pipeline          *)
(* implements the promise of module Submission.                              *)

\* No two workers process one attempt.
OneHolder ==
  \A v, w \in Workers :
    worker[v].attempt = worker[w].attempt /\ worker[v].attempt # None => v = w

\* A worker that processes an attempt has its job claimed and leased, finds the
\* attempt still PROCESSING, and has read the text that is still stored.
HolderOwns ==
  \A w \in Workers :
    LET a == worker[w].attempt IN
    /\ a # None => job[a] = "PROCESSING" /\ leased[a]
    /\ worker[w].pc \in {"reading", "evaluating", "persisting"} => status[a] = "PROCESSING"
    /\ worker[w].pc \in {"evaluating", "persisting"} => worker[w].text = answers[a]

LInv == IInv /\ OneHolder /\ HolderOwns

\* Without stalls the stronger invariant is inductive.
LEMMA LInvStep == ASSUME MaxStalls = 0 PROVE LInv /\ [Next]_vars => LInv'
<1> SUFFICES ASSUME LInv, [Next]_vars PROVE OneHolder' /\ HolderOwns'
  BY IInvStep DEF LInv
<1> USE WritingAssumption DEF LInv, TypeOK, OneHolder, HolderOwns, At, WorkerState, Status
<1>0. TypeOK /\ NoJobWhileEditable
  BY DEF IInv
<1>1. ASSUME NEW a \in Attempts, NEW x \in Content, SaveAnswers(a, x)
      PROVE OneHolder' /\ HolderOwns'
  BY <1>1, <1>0 DEF SaveAnswers, MaySave
<1>2. ASSUME NEW t \in Tabs, NEW a \in Attempts, NEW x \in Content \cup {None}, BeginSubmit(t, a, x)
      PROVE OneHolder' /\ HolderOwns'
  BY <1>2, <1>0 DEF BeginSubmit, MaySave
<1>3. ASSUME NEW t \in Tabs, Validate(t) \/ RejectSubmit(t) PROVE OneHolder' /\ HolderOwns'
  BY <1>3, <1>0 DEF Validate, RejectSubmit, rows
<1>4. ASSUME NEW t \in Tabs, QueueWritingAssessment(t) PROVE OneHolder' /\ HolderOwns'
  BY <1>4, <1>0 DEF QueueWritingAssessment, MaySave, TabState, IdleTab,
     NoJobWhileEditable
<1>5. ASSUME NEW a \in Attempts, RetryAssessment(a) \/ AbandonAttempt(a)
      PROVE OneHolder' /\ HolderOwns'
  BY <1>5, <1>0 DEF RetryAssessment, MayRetry, AbandonAttempt, MayAbandon
<1>6. ASSUME NEW w \in Workers, RecoverWritingJobs(w) PROVE OneHolder' /\ HolderOwns'
  BY <1>6, <1>0 DEF RecoverWritingJobs, Lapsed, Step
<1>7. ASSUME NEW w \in Workers, NothingPending(w) PROVE OneHolder' /\ HolderOwns'
  BY <1>7, <1>0 DEF NothingPending, Release, IdleWorker, rows
<1>8. ASSUME NEW w \in Workers, NEW a \in Attempts, ClaimWritingAssessment(w, a)
      PROVE OneHolder' /\ HolderOwns'
  BY <1>8, <1>0 DEF ClaimWritingAssessment, Due
<1>9. ASSUME NEW w \in Workers, GetAttempt(w) PROVE OneHolder' /\ HolderOwns'
  BY <1>9, <1>0 DEF GetAttempt, Step, rows, NoJobWhileEditable
<1>10. ASSUME NEW w \in Workers, ReadAnswers(w) PROVE OneHolder' /\ HolderOwns'
  BY <1>10, <1>0 DEF ReadAnswers, AfterRead, rows
<1>11. ASSUME NEW w \in Workers, ReadError(w) PROVE OneHolder' /\ HolderOwns'
  BY <1>11, <1>0 DEF ReadError, Step, rows
<1>12. ASSUME NEW w \in Workers, Evaluate(w) PROVE OneHolder' /\ HolderOwns'
  BY <1>12, <1>0 DEF Evaluate, Step, rows
<1>13. ASSUME NEW w \in Workers, Submit(w) \/ SubmitUnacknowledged(w)
       PROVE OneHolder' /\ HolderOwns'
  BY <1>13, <1>0 DEF Submit, SubmitUnacknowledged, Graded, MayGrade, Step
<1>14. ASSUME NEW w \in Workers, SubmitError(w) PROVE OneHolder' /\ HolderOwns'
  BY <1>14, <1>0 DEF SubmitError, Step, rows
<1>15. ASSUME NEW w \in Workers, CompleteWritingAssessment(w) PROVE OneHolder' /\ HolderOwns'
  BY <1>15, <1>0 DEF CompleteWritingAssessment, Release, IdleWorker
<1>16. ASSUME NEW w \in Workers, FailWritingAssessment(w) PROVE OneHolder' /\ HolderOwns'
  BY <1>16, <1>0 DEF FailWritingAssessment, StatusAfterFailure, Release, IdleWorker
<1>17. ASSUME NEW a \in Attempts, LeaseLapses(a) PROVE OneHolder' /\ HolderOwns'
  BY <1>17, <1>0 DEF LeaseLapses, Holders, Holds
<1>18. ASSUME NEW w \in Workers, RenewWritingAssessment(w) PROVE OneHolder' /\ HolderOwns'
  BY <1>18, <1>0 DEF RenewWritingAssessment
<1>19. ASSUME NEW w \in Workers, Crash(w) PROVE OneHolder' /\ HolderOwns'
  BY <1>19, <1>0 DEF Crash, Release, IdleWorker, rows
<1>20. CASE UNCHANGED vars
  BY <1>20 DEF vars, OneHolder, HolderOwns
<1> QED
  BY <1>1, <1>2, <1>3, <1>4, <1>5, <1>6, <1>7, <1>8, <1>9, <1>10, <1>11, <1>12, <1>13, <1>14,
     <1>15, <1>16, <1>17, <1>18, <1>19, <1>20
     DEF Next, StudentNext, WorkerNext, Process, Environment

\* Two workers never process one attempt at the same time.
THEOREM OneWorkerPerAttempt == ASSUME MaxStalls = 0 PROVE Spec => []OneHolder
<1>1. Init => LInv
  BY IInvInit DEF Init, LInv, OneHolder, HolderOwns, IdleWorker
<1>2. LInv => OneHolder
  BY DEF LInv
<1> QED BY <1>1, <1>2, LInvStep, PTL DEF Spec

\* What a worker stores at the end is what the student has saved.
LEMMA SubmitKeepsText ==
  ASSUME LInv, NEW w \in Workers, Submit(w) \/ SubmitUnacknowledged(w) PROVE answers' = answers
<1> USE DEF Submit, SubmitUnacknowledged
<1>1. worker[w].attempt \in Attempts /\ worker[w].text = answers[worker[w].attempt]
  BY DEF LInv, IInv, TypeOK, HolderOwns, At, WorkerState
<1> QED BY <1>1 DEF LInv, IInv, TypeOK, Graded

\* No worker replaces a text the student saved after the worker read the attempt.
THEOREM TextKept == ASSUME MaxStalls = 0 PROVE Spec => StudentTextKept
<1>1. Init => LInv
  BY IInvInit DEF Init, LInv, OneHolder, HolderOwns, IdleWorker
<1>2. LInv => [\A w \in Workers :
                 Submit(w) \/ SubmitUnacknowledged(w) => answers' = answers]_vars
  BY SubmitKeepsText
<1> QED BY <1>1, <1>2, LInvStep, PTL DEF Spec, StudentTextKept

\* The initial state is one of the abstract Submission.
LEMMA InitPromise == Init => Promise!Init
BY DEF Init, Promise!Init

\* Each step of the student or of a worker is a step of the promise or none.
LEMMA StepPromise == LInv /\ [Next]_vars => [Promise!Next]_(Promise!vars)
<1> SUFFICES ASSUME LInv, [Next]_vars PROVE Promise!Next \/ UNCHANGED Promise!vars
  OBVIOUS
<1> USE WritingAssumption DEF Promise!vars
<1>0. TypeOK /\ HolderOwns
  BY DEF LInv, IInv
<1>1. ASSUME NEW a \in Attempts, NEW x \in Content, SaveAnswers(a, x) PROVE Promise!Next
  <2>1. Promise!Write(a, x)
    BY <1>1 DEF SaveAnswers, MaySave, Promise!Write
  <2> QED BY <2>1 DEF Promise!Next, Content
<1>2. ASSUME NEW t \in Tabs, NEW a \in Attempts, NEW x \in Content \cup {None}, BeginSubmit(t, a, x)
      PROVE Promise!Next
  <2>1. Applied(a, x) \in Content
    BY <1>0 DEF Applied, TypeOK
  <2>2. Promise!Write(a, Applied(a, x))
    BY <1>2 DEF BeginSubmit, MaySave, Promise!Write
  <2> QED BY <2>1, <2>2 DEF Promise!Next, Content
<1>3. ASSUME NEW t \in Tabs, QueueWritingAssessment(t) PROVE Promise!Next
  <2> DEFINE a == tab[t].attempt
             x == Applied(a, tab[t].input)
  <2>1. a \in Attempts /\ x \in Content
    BY <1>0, <1>3 DEF TypeOK, QueueWritingAssessment, TabState, IdleTab, Applied, Content
  <2>2. Promise!HandIn(a, x)
    BY <1>3 DEF QueueWritingAssessment, MaySave, Promise!HandIn, Promise!Move
  <2> QED BY <2>1, <2>2 DEF Promise!Next, Content
<1>4. ASSUME NEW a \in Attempts, RetryAssessment(a) PROVE Promise!Next
  <2>1. answers[a] \in Content /\ answers = [answers EXCEPT ![a] = answers[a]]
    BY <1>0 DEF TypeOK
  <2>2. Promise!HandIn(a, answers[a])
    BY <1>4, <2>1 DEF RetryAssessment, MayRetry, Promise!HandIn, Promise!Move
  <2> QED BY <2>1, <2>2 DEF Promise!Next, Content
<1>5. ASSUME NEW a \in Attempts, AbandonAttempt(a) PROVE Promise!Next
  <2>1. Promise!Abandon(a)
    BY <1>5 DEF AbandonAttempt, MayAbandon, Promise!Abandon, Promise!Move
  <2> QED BY <2>1 DEF Promise!Next
<1>6. ASSUME NEW w \in Workers, Submit(w) \/ SubmitUnacknowledged(w) PROVE Promise!Next
  <2> DEFINE a == worker[w].attempt
  <2>1. a \in Attempts /\ worker[w].text \in Texts
    BY <1>0, <1>6 DEF TypeOK, Submit, SubmitUnacknowledged, At, WorkerState
  <2>2. status[a] = "PROCESSING" /\ worker[w].text = answers[a]
    BY <1>0, <1>6 DEF HolderOwns, Submit, SubmitUnacknowledged, At
  <2>3. answers' = answers
    BY <1>6, SubmitKeepsText
  <2>4. Promise!Grade(a)
    BY <1>6, <2>1, <2>2, <2>3
       DEF Submit, SubmitUnacknowledged, Graded, Promise!Grade, Promise!Move
  <2> QED BY <2>1, <2>4 DEF Promise!Next
<1>7. ASSUME NEW w \in Workers, FailWritingAssessment(w) PROVE Promise!Next \/ UNCHANGED Promise!vars
  <2> DEFINE a == worker[w].attempt
  <2>1. a \in Attempts
    BY <1>0, <1>7 DEF TypeOK, FailWritingAssessment, At, WorkerState
  <2>2. CASE StatusAfterFailure(a) = status[a]
    BY <1>0, <1>7, <2>1, <2>2 DEF TypeOK, FailWritingAssessment
  <2>3. CASE StatusAfterFailure(a) # status[a]
    <3>1. Promise!GiveBack(a)
      BY <1>7, <2>3 DEF FailWritingAssessment, StatusAfterFailure, Promise!GiveBack, Promise!Move
    <3> QED BY <2>1, <3>1 DEF Promise!Next
  <2> QED BY <2>2, <2>3
<1>8. ASSUME NEW t \in Tabs, Validate(t) \/ RejectSubmit(t) PROVE UNCHANGED Promise!vars
  BY <1>8 DEF Validate, RejectSubmit, rows
<1>9. ASSUME NEW w \in Workers, Process(w), ~Submit(w), ~FailWritingAssessment(w)
      PROVE UNCHANGED Promise!vars
  BY <1>9 DEF Process, GetAttempt, ReadAnswers, ReadError, Evaluate, SubmitError,
     CompleteWritingAssessment, rows
<1>10. ASSUME NEW w \in Workers, RecoverWritingJobs(w) \/ NothingPending(w) PROVE UNCHANGED Promise!vars
  BY <1>10 DEF RecoverWritingJobs, NothingPending, rows
<1>11. ASSUME NEW w \in Workers, NEW a \in Attempts, ClaimWritingAssessment(w, a)
       PROVE UNCHANGED Promise!vars
  BY <1>11 DEF ClaimWritingAssessment
<1>12. CASE Environment
  BY <1>6, <1>12 DEF Environment, LeaseLapses, RenewWritingAssessment, Crash, rows
<1>13. CASE UNCHANGED vars
  BY <1>13 DEF vars
<1> QED
  BY <1>1, <1>2, <1>3, <1>4, <1>5, <1>6, <1>7, <1>8, <1>9, <1>10, <1>11, <1>12, <1>13
     DEF Next, StudentNext, WorkerNext

\* What is graded is what was handed in, or it is given back unchanged: the
\* pipeline implements the safety part of the promise.
THEOREM ImplementsPromise == ASSUME MaxStalls = 0 PROVE Spec => Promise!Safety
<1>1. Init => LInv
  BY IInvInit DEF Init, LInv, OneHolder, HolderOwns, IdleWorker
<1> QED BY <1>1, LInvStep, InitPromise, StepPromise, PTL DEF Spec, Promise!Safety

-------------------------------------------------------------------------------
(* What the rest of the system sees of the queue, whatever lapses.           *)

\* Every step is a step of AssessmentJob, or none.
LEMMA StepRows == IInv /\ [Next]_vars => [Rows!Next]_(Rows!vars)
<1> SUFFICES ASSUME IInv, [Next]_vars PROVE Rows!Next \/ UNCHANGED Rows!vars
  OBVIOUS
<1> USE WritingAssumption DEF Rows!vars
<1>0. TypeOK /\ HeldWasQueued /\ NoJobWhileEditable /\ CompletingIsGraded
  BY DEF IInv
<1>1. ASSUME NEW t \in Tabs, QueueWritingAssessment(t) PROVE Rows!Next
  <2>1. PICK a \in Attempts : a = tab[t].attempt
    BY <1>0, <1>1 DEF TypeOK, QueueWritingAssessment, TabState, IdleTab
  <2>2. Rows!Queue(a)
    BY <1>0, <1>1, <2>1 DEF TypeOK, QueueWritingAssessment, MaySave, Rows!Queue
  <2> QED BY <2>1, <2>2 DEF Rows!Next
<1>2. ASSUME NEW a \in Attempts, RetryAssessment(a) PROVE Rows!Next
  <2>1. Rows!Queue(a)
    BY <1>0, <1>2 DEF TypeOK, RetryAssessment, MayRetry, Rows!Queue
  <2> QED BY <2>1 DEF Rows!Next
<1>3. ASSUME NEW a \in Attempts, AbandonAttempt(a) PROVE Rows!Next
  <2>1. Rows!Abandon(a)
    BY <1>3 DEF AbandonAttempt, MayAbandon, Rows!Abandon
  <2> QED BY <2>1 DEF Rows!Next
<1>4. ASSUME NEW w \in Workers, Submit(w) \/ SubmitUnacknowledged(w) PROVE Rows!Next
  <2>1. PICK a \in Attempts : a = worker[w].attempt
    BY <1>0, <1>4 DEF TypeOK, Submit, SubmitUnacknowledged, At, WorkerState
  <2>2. job[a] # "NONE" /\ status[a] \in {"IN_PROGRESS", "PROCESSING"}
    BY <1>0, <1>4, <2>1 DEF HeldWasQueued, Submit, SubmitUnacknowledged, MayGrade
  <2>3. Rows!Grade(a)
    BY <1>0, <1>4, <2>1, <2>2
       DEF TypeOK, JobStatus, Submit, SubmitUnacknowledged, Graded, Rows!Grade
  <2> QED BY <2>1, <2>3 DEF Rows!Next
<1>5. ASSUME NEW w \in Workers, CompleteWritingAssessment(w) PROVE Rows!Next
  <2>1. PICK a \in Attempts : a = worker[w].attempt
    BY <1>0, <1>5 DEF TypeOK, CompleteWritingAssessment, At, WorkerState
  <2>2. job[a] # "NONE" /\ status[a] = "SUBMITTED"
    BY <1>0, <1>5, <2>1 DEF HeldWasQueued, CompletingIsGraded, CompleteWritingAssessment
  <2>3. Rows!Close(a)
    BY <1>0, <1>5, <2>1, <2>2 DEF TypeOK, JobStatus, CompleteWritingAssessment, Rows!Close
  <2> QED BY <2>1, <2>3 DEF Rows!Next
<1>6. ASSUME NEW w \in Workers, FailWritingAssessment(w) PROVE Rows!Next \/ UNCHANGED Rows!vars
  <2>1. PICK a \in Attempts : a = worker[w].attempt
    BY <1>0, <1>6 DEF TypeOK, FailWritingAssessment, At, WorkerState
  <2>2. CASE job[a] = "PROCESSING" /\ AfterFailure(a) = "FAILED"
    <3>1. Rows!GiveUp(a)
      BY <1>0, <1>6, <2>1, <2>2
         DEF TypeOK, FailWritingAssessment, StatusAfterFailure, Rows!GiveUp
    <3> QED BY <2>1, <3>1 DEF Rows!Next
  <2>3. CASE ~(job[a] = "PROCESSING" /\ AfterFailure(a) = "FAILED")
    <3>1. job'[a] = job[a] \/ (job[a] = "PROCESSING" /\ job'[a] = "QUEUED")
      BY <1>0, <1>6, <2>1, <2>3 DEF TypeOK, FailWritingAssessment, AfterFailure
    <3>2. status' = status
      BY <1>0, <1>6, <2>1, <2>3
         DEF TypeOK, FailWritingAssessment, AfterFailure, StatusAfterFailure, NoJobWhileEditable,
             IInv, NeverStranded
    <3> QED BY <1>0, <1>6, <2>1, <3>1, <3>2 DEF TypeOK, FailWritingAssessment
  <2> QED BY <2>2, <2>3
<1>7. ASSUME NEW w \in Workers, NEW a \in Attempts, ClaimWritingAssessment(w, a)
      PROVE UNCHANGED Rows!vars
  BY <1>0, <1>7 DEF TypeOK, ClaimWritingAssessment, Due
<1>8. ASSUME NEW w \in Workers, RecoverWritingJobs(w) PROVE UNCHANGED Rows!vars
  BY <1>0, <1>8 DEF TypeOK, RecoverWritingJobs, Lapsed
<1>9. ASSUME NEW w \in Workers,
             \/ NothingPending(w) \/ GetAttempt(w) \/ ReadAnswers(w) \/ ReadError(w)
             \/ Evaluate(w) \/ SubmitError(w) \/ RenewWritingAssessment(w) \/ Crash(w)
      PROVE UNCHANGED Rows!vars
  BY <1>9 DEF NothingPending, GetAttempt, ReadAnswers, ReadError, Evaluate, SubmitError,
     RenewWritingAssessment, Crash, rows
<1>10. ASSUME NEW a \in Attempts, LeaseLapses(a) PROVE UNCHANGED Rows!vars
  BY <1>10 DEF LeaseLapses
<1>11. ASSUME NEW t \in Tabs, Validate(t) \/ RejectSubmit(t) PROVE UNCHANGED Rows!vars
  BY <1>11 DEF Validate, RejectSubmit, rows
<1>12. ASSUME NEW a \in Attempts, NEW x \in Content, SaveAnswers(a, x) PROVE UNCHANGED Rows!vars
  BY <1>12 DEF SaveAnswers
<1>13. ASSUME NEW t \in Tabs, NEW a \in Attempts, NEW x \in Content \cup {None}, BeginSubmit(t, a, x)
       PROVE UNCHANGED Rows!vars
  BY <1>13 DEF BeginSubmit
<1>14. CASE UNCHANGED vars
  BY <1>14 DEF vars
<1> QED
  BY <1>1, <1>2, <1>3, <1>4, <1>5, <1>6, <1>7, <1>8, <1>9, <1>10, <1>11, <1>12, <1>13, <1>14
     DEF Next, StudentNext, WorkerNext, Process, Environment

\* The attempt and job rows of the pipeline move as the machine AssessmentJob
\* says, also when leases lapse under live workers.
THEOREM ImplementsRows == Spec => RowsSafety
<1>1. Init => Rows!Init
  BY DEF Init, Rows!Init
<1> QED BY <1>1, IInvInit, IInvStep, StepRows, PTL DEF Spec, RowsSafety, Rows!Spec
===============================================================================
