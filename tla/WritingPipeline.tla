---------------------------- MODULE WritingPipeline ----------------------------
(***************************************************************************)
(* Asynchronous grading of Writing attempts.                               *)
(*                                                                         *)
(*   internal/attempts          the rows of attempts, attempt_answers,     *)
(*                              writing_assessment_jobs, writing_evalua-   *)
(*                              tions and user_skill_progress, and the     *)
(*                              transactions on them                       *)
(*   internal/writingpipeline   the workers that claim, evaluate, persist  *)
(*                                                                         *)
(* PostgreSQL rows are the only shared state; each action below is one     *)
(* transaction (or one external call) of the code, so every interleaving   *)
(* of transactions of the API replicas and of the workers is a behaviour.  *)
(* An essay is one text: the tasks of an attempt are read and written      *)
(* together.  next_attempt_at and the five-second ticker only delay a      *)
(* worker, and a model worker may be delayed for ever so long; they have   *)
(* no state here.                                                          *)
(***************************************************************************)
EXTENDS Naturals, FiniteSets

CONSTANTS
  Attempts,    \* Writing attempts of one student
  Workers,     \* worker loops, in the API process or in cmd/worker
  Tabs,        \* submit requests the student can have in flight
  Texts,       \* non-blank texts
  Blank,       \* a text that is empty once trimmed
  None,        \* no attempt, no input, no evaluation
  MaxTries,    \* the 3 of "attempts < 3"
  MaxFaults,   \* bound: process crashes and lost job writes
  MaxStalls    \* bound: leases that lapse under a worker that is still running

ASSUME WritingAssumption ==
  /\ IsFiniteSet(Attempts)
  /\ None \notin Attempts \cup Texts \cup {Blank}
  /\ Blank \notin Texts
  /\ MaxTries \in Nat \ {0}
  /\ MaxFaults \in Nat
  /\ MaxStalls \in Nat

VARIABLES
  status,      \* attempts.status
  answers,     \* attempt_answers: the essay as stored
  job,         \* writing_assessment_jobs.status, "NONE" before the first submit
  tries,       \* writing_assessment_jobs.attempts
  leased,      \* updated_at is less than two minutes old
  evaluation,  \* writing_evaluations: the text it is about, None without a row
  completed,   \* user_skill_progress.completed_tasks
  tab,         \* progress of each submit request
  worker,      \* progress of each worker loop
  faults,      \* history: faults so far
  stalls       \* history: stalls so far

rows == <<status, answers, job, tries, leased, evaluation, completed>>
vars == <<status, answers, job, tries, leased, evaluation, completed,
          tab, worker, faults, stalls>>

Status == {"IN_PROGRESS", "PROCESSING", "SUBMITTED", "ABANDONED"}
JobStatus == {"NONE", "QUEUED", "PROCESSING", "READY", "FAILED"}
Content == Texts \cup {Blank}

IdleTab == [stage |-> "idle", attempt |-> None, input |-> None]
IdleWorker == [pc |-> "idle", attempt |-> None, text |-> None]

TabState == {IdleTab} \cup
  [stage : {"saved", "validated"}, attempt : Attempts, input : Content \cup {None}]

\* A worker loop between two jobs, or inside processAssessment: it knows the
\* attempt it claimed, and the text once it has read one.
WorkerState ==
  [pc : {"idle", "polling"}, attempt : {None}, text : {None}]
  \cup [pc : {"claimed", "reading"}, attempt : Attempts, text : {None}]
  \cup [pc : {"evaluating", "persisting"}, attempt : Attempts, text : Texts]
  \cup [pc : {"completing", "failing"}, attempt : Attempts, text : Content \cup {None}]

TypeOK ==
  /\ status \in [Attempts -> Status]
  /\ answers \in [Attempts -> Content]
  /\ job \in [Attempts -> JobStatus]
  /\ tries \in [Attempts -> 0..MaxTries]
  /\ leased \in [Attempts -> BOOLEAN]
  /\ evaluation \in [Attempts -> Texts \cup {None}]
  /\ completed \in Nat
  /\ tab \in [Tabs -> TabState]
  /\ worker \in [Workers -> WorkerState]
  /\ faults \in 0..MaxFaults
  /\ stalls \in 0..MaxStalls

Init ==
  /\ status = [a \in Attempts |-> "IN_PROGRESS"]
  /\ answers = [a \in Attempts |-> Blank]
  /\ job = [a \in Attempts |-> "NONE"]
  /\ tries = [a \in Attempts |-> 0]
  /\ leased = [a \in Attempts |-> FALSE]
  /\ evaluation = [a \in Attempts |-> None]
  /\ completed = 0
  /\ tab = [t \in Tabs |-> IdleTab]
  /\ worker = [w \in Workers |-> IdleWorker]
  /\ faults = 0
  /\ stalls = 0

-------------------------------------------------------------------------------
(* Faulty variants of operators defined below, the slips the properties are *)
(* there to notice.  No specification uses them.                            *)

MaySaveUnlessClosed(a) == status[a] \in {"IN_PROGRESS", "PROCESSING"}

RetriedTriesKept(a) == tries[a]

RefundNothing(n) == n

LapsedNever(a) == FALSE

AfterReadUnchecked(x) == "evaluating"

MayGradeAlways(a) == status[a] # "ABANDONED"

MayGradeAbandoned(a) == status[a] # "SUBMITTED"

StatusAfterFailureKept(a) == status[a]

StatusAfterAnyFailure(a) == IF status[a] = "PROCESSING" THEN "IN_PROGRESS" ELSE status[a]

-------------------------------------------------------------------------------
(* The student: autosave, submit, retry.                                    *)

\* Repository.SaveAnswers locks the attempt and writes in one statement, and
\* only while the attempt is IN_PROGRESS.
MaySave(a) == status[a] = "IN_PROGRESS"

SaveAnswers(a, x) ==
  /\ MaySave(a)
  /\ answers' = [answers EXCEPT ![a] = x]
  /\ UNCHANGED <<status, job, tries, leased, evaluation, completed,
                 tab, worker, faults, stalls>>

\* The text an attempt holds once the input of a request is applied; an empty
\* request (SubmitSavedForExpiredExam) leaves the stored text.
Applied(a, input) == IF input = None THEN answers[a] ELSE input

\* submitWriting, first transaction: the final revision is saved before
\* anything is validated.
BeginSubmit(t, a, input) ==
  /\ tab[t].stage = "idle"
  /\ MaySave(a)
  /\ answers' = [answers EXCEPT ![a] = Applied(a, input)]
  /\ tab' = [tab EXCEPT ![t] = [stage |-> "saved", attempt |-> a, input |-> input]]
  /\ UNCHANGED <<status, job, tries, leased, evaluation, completed,
                 worker, faults, stalls>>

\* submitWriting: the stored answers are read back, overlaid with the input
\* and checked, and the daily limit has allowed the request.
Validate(t) ==
  /\ tab[t].stage = "saved"
  /\ Applied(tab[t].attempt, tab[t].input) # Blank
  /\ tab' = [tab EXCEPT ![t].stage = "validated"]
  /\ UNCHANGED <<rows, worker, faults, stalls>>

\* A request ends early: incomplete text, daily limit, attempt no longer
\* IN_PROGRESS, lost connection.
RejectSubmit(t) ==
  /\ tab[t].stage # "idle"
  /\ tab' = [tab EXCEPT ![t] = IdleTab]
  /\ UNCHANGED <<rows, worker, faults, stalls>>

\* QueueWritingAssessment: attempt row locked and re-checked, answers upserted,
\* attempt PROCESSING, job reset to QUEUED with no tries, in one transaction.
QueueWritingAssessment(t) ==
  LET a == tab[t].attempt
      x == Applied(a, tab[t].input)
  IN /\ tab[t].stage = "validated"
     /\ MaySave(a)
     /\ answers' = [answers EXCEPT ![a] = x]
     /\ status' = [status EXCEPT ![a] = "PROCESSING"]
     /\ job' = [job EXCEPT ![a] = "QUEUED"]
     /\ tries' = [tries EXCEPT ![a] = 0]
     /\ tab' = [tab EXCEPT ![t] = IdleTab]
     /\ UNCHANGED <<leased, evaluation, completed, worker, faults, stalls>>

\* RetryAssessment: only a FAILED job of an IN_PROGRESS attempt; the answers
\* already stored are what is handed in again.
MayRetry(a) == status[a] = "IN_PROGRESS" /\ job[a] = "FAILED"

RetriedTries(a) == 0

RetryAssessment(a) ==
  /\ MayRetry(a)
  /\ status' = [status EXCEPT ![a] = "PROCESSING"]
  /\ job' = [job EXCEPT ![a] = "QUEUED"]
  /\ tries' = [tries EXCEPT ![a] = RetriedTries(a)]
  /\ UNCHANGED <<answers, leased, evaluation, completed, tab, worker, faults, stalls>>

\* The Full Mock that owns the attempt closes it: AbandonSection, Finish and
\* Abandon all guard on IN_PROGRESS.
MayAbandon(a) == status[a] = "IN_PROGRESS"

AbandonAttempt(a) ==
  /\ MayAbandon(a)
  /\ status' = [status EXCEPT ![a] = "ABANDONED"]
  /\ UNCHANGED <<answers, job, tries, leased, evaluation, completed,
                 tab, worker, faults, stalls>>

-------------------------------------------------------------------------------
(* The workers.                                                             *)

Step(w, pc) == worker' = [worker EXCEPT ![w].pc = pc]
Release(w) == worker' = [worker EXCEPT ![w] = IdleWorker]
At(w, pc) == worker[w].pc = pc

\* A worker inside processAssessment, where the heartbeat goroutine runs.
Holds(w, a) == worker[w].attempt = a

Holders(a) == {w \in Workers : Holds(w, a)}

\* Ticker branch of Run: RecoverWritingJobs requeues every lapsed job and gives
\* the interrupted try back.
Refund(n) == IF n = 0 THEN 0 ELSE n - 1

Lapsed(a) == job[a] = "PROCESSING" /\ ~leased[a]

RecoverWritingJobs(w) ==
  /\ At(w, "idle")
  /\ Step(w, "polling")
  /\ job' = [a \in Attempts |-> IF Lapsed(a) THEN "QUEUED" ELSE job[a]]
  /\ tries' = [a \in Attempts |-> IF Lapsed(a) THEN Refund(tries[a]) ELSE tries[a]]
  /\ UNCHANGED <<status, answers, leased, evaluation, completed,
                 tab, faults, stalls>>

Due(a) == job[a] = "QUEUED" /\ tries[a] < MaxTries

\* PendingWritingAssessmentIDs returned nothing, or listing failed.
NothingPending(w) ==
  /\ At(w, "polling")
  /\ Release(w)
  /\ UNCHANGED <<rows, tab, faults, stalls>>

\* ClaimWritingAssessment, of the pending job just listed or of one named by a
\* Redis wake-up: a conditional update, so one of several claimants wins.
ClaimWritingAssessment(w, a) ==
  /\ worker[w].pc \in {"idle", "polling"}
  /\ Due(a)
  /\ job' = [job EXCEPT ![a] = "PROCESSING"]
  /\ tries' = [tries EXCEPT ![a] = @ + 1]
  /\ leased' = [leased EXCEPT ![a] = TRUE]
  /\ worker' = [worker EXCEPT ![w] = [pc |-> "claimed", attempt |-> a, text |-> None]]
  /\ UNCHANGED <<status, answers, evaluation, completed, tab, faults, stalls>>

\* Repository.Get: an attempt that is SUBMITTED already only has its job closed.
GetAttempt(w) ==
  /\ At(w, "claimed")
  /\ Step(w, IF status[worker[w].attempt] = "SUBMITTED" THEN "completing" ELSE "reading")
  /\ UNCHANGED <<rows, tab, faults, stalls>>

\* ListAnswers and the loop over the tasks: a blank text fails the try.
AfterRead(x) == IF x = Blank THEN "failing" ELSE "evaluating"

ReadAnswers(w) ==
  LET x == answers[worker[w].attempt]
  IN /\ At(w, "reading")
     /\ worker' = [worker EXCEPT ![w].pc = AfterRead(x), ![w].text = x]
     /\ UNCHANGED <<rows, tab, faults, stalls>>

\* A read of the attempt, the material or the answers returned an error.
ReadError(w) ==
  /\ worker[w].pc \in {"claimed", "reading"}
  /\ Step(w, "failing")
  /\ UNCHANGED <<rows, tab, faults, stalls>>

\* Evaluator.Evaluate: the external call returns a band or an error.
Evaluate(w) ==
  /\ At(w, "evaluating")
  /\ \E outcome \in {"persisting", "failing"} : Step(w, outcome)
  /\ UNCHANGED <<rows, tab, faults, stalls>>

\* Repository.Submit: with the attempt locked, the evaluated text is stored back
\* as the answers, the attempt becomes SUBMITTED, the completed tasks of the
\* student go up by one and the evaluation is inserted.
MayGrade(a) == status[a] \in {"IN_PROGRESS", "PROCESSING"}

Graded(a, x) ==
  /\ answers' = [answers EXCEPT ![a] = x]
  /\ status' = [status EXCEPT ![a] = "SUBMITTED"]
  /\ completed' = completed + 1
  /\ evaluation' = [evaluation EXCEPT ![a] = x]

Submit(w) ==
  LET a == worker[w].attempt
      x == worker[w].text
  IN /\ At(w, "persisting")
     /\ MayGrade(a)
     /\ Graded(a, x)
     /\ Step(w, "completing")
     /\ UNCHANGED <<job, tries, leased, tab, faults, stalls>>

\* The transaction committed, but its acknowledgement was lost: processAssessment
\* takes it for a failure.
SubmitUnacknowledged(w) ==
  LET a == worker[w].attempt
      x == worker[w].text
  IN /\ At(w, "persisting")
     /\ MayGrade(a)
     /\ faults < MaxFaults
     /\ Graded(a, x)
     /\ faults' = faults + 1
     /\ Step(w, "failing")
     /\ UNCHANGED <<job, tries, leased, tab, stalls>>

\* Repository.Submit returned ErrAlreadySubmitted, or its transaction failed.
SubmitError(w) ==
  /\ At(w, "persisting")
  /\ Step(w, "failing")
  /\ UNCHANGED <<rows, tab, faults, stalls>>

\* CompleteWritingAssessment: whatever the job is, it becomes READY.
CompleteWritingAssessment(w) ==
  /\ At(w, "completing")
  /\ job' = [job EXCEPT ![worker[w].attempt] = "READY"]
  /\ Release(w)
  /\ UNCHANGED <<status, answers, tries, leased, evaluation, completed,
                 tab, faults, stalls>>

\* FailWritingAssessment: a PROCESSING job is requeued, or FAILED when its tries
\* are used up; a FAILED job gives a PROCESSING attempt back to the student.
AfterFailure(a) ==
  IF job[a] # "PROCESSING" THEN job[a]
  ELSE IF tries[a] >= MaxTries THEN "FAILED" ELSE "QUEUED"

StatusAfterFailure(a) ==
  IF status[a] = "PROCESSING" /\ AfterFailure(a) = "FAILED" THEN "IN_PROGRESS" ELSE status[a]

FailWritingAssessment(w) ==
  LET a == worker[w].attempt
  IN /\ At(w, "failing")
     /\ job' = [job EXCEPT ![a] = AfterFailure(a)]
     /\ status' = [status EXCEPT ![a] = StatusAfterFailure(a)]
     /\ Release(w)
     /\ UNCHANGED <<answers, tries, leased, evaluation, completed,
                    tab, faults, stalls>>

-------------------------------------------------------------------------------
(* Leases, crashes, lost writes.                                            *)

\* Two minutes pass without a renewal.  Nobody renews the job of a worker that
\* is gone; a live worker loses its lease when its heartbeat cannot reach the
\* database (RenewWritingAssessment's error is ignored) or its process hangs.
LeaseLapses(a) ==
  /\ job[a] = "PROCESSING"
  /\ leased[a]
  /\ leased' = [leased EXCEPT ![a] = FALSE]
  /\ IF Holders(a) = {} THEN UNCHANGED stalls
     ELSE stalls < MaxStalls /\ stalls' = stalls + 1
  /\ UNCHANGED <<status, answers, job, tries, evaluation, completed,
                 tab, worker, faults>>

\* The heartbeat of any worker that processes the attempt, whoever claimed it.
RenewWritingAssessment(w) ==
  /\ worker[w].attempt # None
  /\ Lapsed(worker[w].attempt)
  /\ leased' = [leased EXCEPT ![worker[w].attempt] = TRUE]
  /\ UNCHANGED <<status, answers, job, tries, evaluation, completed,
                 tab, worker, faults, stalls>>

\* The process dies, or shutdown cancels the context of every later write; or a
\* final CompleteWritingAssessment or FailWritingAssessment does not reach the
\* database.  The loop starts over without its attempt.
Crash(w) ==
  /\ worker[w].attempt # None
  /\ faults < MaxFaults
  /\ faults' = faults + 1
  /\ Release(w)
  /\ UNCHANGED <<rows, tab, stalls>>

-------------------------------------------------------------------------------
StudentNext ==
  \/ \E a \in Attempts, x \in Content : SaveAnswers(a, x)
  \/ \E t \in Tabs, a \in Attempts, x \in Content \cup {None} : BeginSubmit(t, a, x)
  \/ \E t \in Tabs : Validate(t) \/ RejectSubmit(t) \/ QueueWritingAssessment(t)
  \/ \E a \in Attempts : RetryAssessment(a) \/ AbandonAttempt(a)

Process(w) ==
  \/ GetAttempt(w) \/ ReadAnswers(w) \/ ReadError(w) \/ Evaluate(w)
  \/ Submit(w) \/ SubmitError(w)
  \/ CompleteWritingAssessment(w) \/ FailWritingAssessment(w)

WorkerNext(w) ==
  \/ RecoverWritingJobs(w) \/ NothingPending(w)
  \/ \E a \in Attempts : ClaimWritingAssessment(w, a)
  \/ Process(w)

Environment ==
  \/ \E a \in Attempts : LeaseLapses(a)
  \/ \E w \in Workers : RenewWritingAssessment(w) \/ SubmitUnacknowledged(w) \/ Crash(w)

Next == StudentNext \/ (\E w \in Workers : WorkerNext(w)) \/ Environment

Spec == Init /\ [][Next]_vars

\* A worker loop keeps running: every database call and every evaluation returns
\* (they all run under a timeout).  Wake-ups cannot starve the ticker, because
\* select picks at random among the channels that are ready.  Pending jobs are
\* taken in next_attempt_at order, so none is passed over for ever.  The lease of
\* a job nobody processes lapses by the clock.
Fairness ==
  /\ \A w \in Workers : WF_vars(Process(w)) /\ SF_vars(RecoverWritingJobs(w))
                        /\ WF_vars(At(w, "polling") /\ WorkerNext(w))
  /\ \A a \in Attempts : SF_vars(\E w \in Workers : ClaimWritingAssessment(w, a))
  /\ \A a \in Attempts : WF_vars(Holders(a) = {} /\ LeaseLapses(a))

FairSpec == Spec /\ Fairness

-------------------------------------------------------------------------------
(* Safety.                                                                  *)

\* An attempt that the student may not touch because it is being graded has a
\* job some worker will still take or is working on: a submission is never
\* stranded, whatever crashes, lapses or is retried in between.
NeverStranded ==
  \A a \in Attempts : status[a] = "PROCESSING" => job[a] \in {"QUEUED", "PROCESSING"}

\* A QUEUED job has a try left, so that some worker can claim it, and a claimed
\* job has used one, so that giving it back never needs the clamp at zero.
TriesMatchJob ==
  \A a \in Attempts :
    /\ job[a] = "QUEUED" => tries[a] < MaxTries
    /\ job[a] = "PROCESSING" => tries[a] > 0

\* Several workers may evaluate the same submission when leases lapse; the
\* student's progress counts it once, exactly the graded attempts have an
\* evaluation, and the text shown next to a band is the one it was given for.
GradedOnce ==
  /\ completed = Cardinality({a \in Attempts : status[a] = "SUBMITTED"})
  /\ \A a \in Attempts :
       evaluation[a] = IF status[a] = "SUBMITTED" THEN answers[a] ELSE None

\* A graded or abandoned attempt is final: no late save, retry, stale worker or
\* replayed request changes its status, its text or its evaluation.
ClosedIsFinal ==
  [][\A a \in Attempts :
       status[a] \in {"SUBMITTED", "ABANDONED"} =>
         /\ status'[a] = status[a]
         /\ answers'[a] = answers[a]
         /\ evaluation'[a] = evaluation[a]]_vars

\* No worker replaces a text the student saved: "A timeout must leave the
\* student's work available for retry" (attempts/service.go).
StudentTextKept ==
  [][\A w \in Workers :
       Submit(w) \/ SubmitUnacknowledged(w) => answers' = answers]_vars

\* What the pipeline implements while a live worker keeps its lease.
Promise == INSTANCE Submission

\* Every hand-in is graded once, for the text that was handed in, or given back
\* unchanged: the abstract submission, liveness included.
PromiseKept == Promise!Spec

\* What the rest of the system sees of the queue.
Rows ==
  INSTANCE AssessmentJob WITH
    job <- [a \in Attempts |-> IF job[a] \in {"QUEUED", "PROCESSING"} THEN "ACTIVE" ELSE job[a]]

\* Also when leases lapse under live workers, attempts and jobs move as the
\* machine that module FullMock is built on: a job is queued only together with
\* its attempt, and READY is said of graded attempts only.
RowsSafety == Rows!Spec

-------------------------------------------------------------------------------
(* Liveness.                                                                *)

\* Every job comes to rest, also one whose worker graded the attempt and died
\* before saying so.
JobSettles ==
  \A a \in Attempts : job[a] \in {"QUEUED", "PROCESSING"} ~> job[a] \in {"READY", "FAILED"}
===============================================================================
