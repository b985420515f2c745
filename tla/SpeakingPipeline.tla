---------------------------- MODULE SpeakingPipeline ----------------------------
(***************************************************************************)
(* Asynchronous transcription and grading of Speaking attempts.            *)
(*                                                                         *)
(*   internal/attempts          the rows of attempts, attempt_answers,     *)
(*                              speaking_recordings, speaking_transcrip-   *)
(*                              tions, speaking_assessment_jobs and        *)
(*                              speaking_evaluations, and the transactions *)
(*                              on them                                    *)
(*   internal/speakingpipeline  the workers of both queues                 *)
(*                                                                         *)
(* As in WritingPipeline each action is one transaction or external call.  *)
(* New are the recordings, which may be replaced while they are being      *)
(* transcribed, and an assessment that is put off until the transcriptions *)
(* it needs have ended.  Workers have the speech service (the path without *)
(* it, AssessSpeaking, has one queue and is like Writing).  The Redis      *)
(* lists only make a worker look earlier.                                  *)
(***************************************************************************)
EXTENDS Naturals, FiniteSets

CONSTANTS
  Attempts,     \* Speaking attempts of one student
  Parts,        \* the parts of all attempts, with one recording each at most
  AttemptOf,    \* the attempt a part belongs to
  Workers,      \* worker loops
  Tabs,         \* uploads and submit requests the student can have in flight
  Blank,        \* a text that is empty once trimmed
  Typed,        \* a text the student typed instead of speaking
  None,         \* nothing in hand, no input, no evaluation
  MaxTries,     \* the 3 of "attempts < 3"
  MaxRevision,  \* bound: recordings of one part
  MaxFaults     \* bound: process crashes, lost writes or reads of a claimed job, and
                \* leases that lapse under a worker that is still running

\* What a part may be heard to say: the transcript of one of its recordings, by its
\* revision, or one of the texts.
Words == {Blank, Typed} \cup 1..MaxRevision

ASSUME SpeakingAssumption ==
  /\ IsFiniteSet(Attempts)
  /\ AttemptOf \in [Parts -> Attempts]
  /\ Attempts \cap Parts = {}
  /\ None \notin Attempts \cup Parts \cup Words
  /\ Blank # Typed
  /\ Blank \notin Nat /\ Typed \notin Nat
  /\ MaxTries \in Nat \ {0}
  /\ MaxRevision \in Nat
  /\ MaxFaults \in Nat

VARIABLES
  status,      \* attempts.status
  answers,     \* attempt_answers, part by part
  evaluation,  \* speaking_evaluations: what was graded of each part, or None
  completed,   \* user_skill_progress.completed_tasks
  job,         \* speaking_assessment_jobs
  revision,    \* speaking_recordings.revision, 0 without a recording; it is also
               \* recording_revision, which changes in the same transaction
  stt,         \* speaking_transcriptions: the queue columns
  transcript,  \* speaking_transcriptions.transcript
  tab,         \* progress of each request of the student
  worker,      \* progress of each worker loop
  faults       \* history: faults so far

rows == <<status, answers, evaluation, completed, job, revision, stt, transcript>>
vars == <<status, answers, evaluation, completed, job, revision, stt, transcript,
          tab, worker, faults>>

Status == {"IN_PROGRESS", "PROCESSING", "SUBMITTED", "ABANDONED"}

\* A row of either queue.  LAPSED is a PROCESSING row that nobody renewed for two
\* minutes.
Claimed == {"PROCESSING", "LAPSED"}
Active == {"QUEUED"} \cup Claimed
Entry == [status : {"NONE", "READY", "FAILED"} \cup Active, tries : 0..MaxTries]

PartsOf(a) == {p \in Parts : AttemptOf[p] = a}

IdleTab == [stage |-> "idle", item |-> None, input |-> None, texts |-> {}]
IdleWorker == [pc |-> "idle", item |-> None, revision |-> 0, words |-> None]

\* The text a submit request brings for one part.
Inputs == {None} \cup [part : Parts, text : {Blank, Typed}]

TabState ==
  {IdleTab}
  \cup [stage : {"uploading"}, item : Parts, input : {None}, texts : {{}}]
  \cup [stage : {"submitting"}, item : Attempts, input : Inputs, texts : SUBSET Parts]
  \cup [stage : {"validated"}, item : Attempts, input : Inputs, texts : {{}}]

WorkerState ==
  [pc : {"idle"}, item : {None}, revision : {0}, words : {None}]
  \* inside processTranscription
  \cup [pc : {"loading"}, item : Parts, revision : {0}, words : {None}]
  \cup [pc : {"transcribing", "dropping"}, item : Parts, revision : 1..MaxRevision, words : {None}]
  \cup [pc : {"storing"}, item : Parts, revision : 1..MaxRevision, words : Words]
  \* inside processAssessment
  \cup [pc : {"claimed", "reading", "completing", "failing", "deferring"},
        item : Attempts, revision : {0}, words : {None}]
  \cup [pc : {"listening", "evaluating", "persisting"},
        item : Attempts, revision : {0}, words : [Parts -> Words]]

TypeOK ==
  /\ status \in [Attempts -> Status]
  /\ answers \in [Parts -> Words]
  /\ evaluation \in [Parts -> Words \cup {None}]
  /\ completed \in Nat
  /\ job \in [Attempts -> Entry]
  /\ revision \in [Parts -> 0..MaxRevision]
  /\ stt \in [Parts -> Entry]
  /\ transcript \in [Parts -> Words]
  /\ tab \in [Tabs -> TabState]
  /\ worker \in [Workers -> WorkerState]
  /\ faults \in 0..MaxFaults

NoEntry == [status |-> "NONE", tries |-> 0]

Init ==
  /\ status = [a \in Attempts |-> "IN_PROGRESS"]
  /\ answers = [p \in Parts |-> Blank]
  /\ evaluation = [p \in Parts |-> None]
  /\ completed = 0
  /\ job = [a \in Attempts |-> NoEntry]
  /\ revision = [p \in Parts |-> 0]
  /\ stt = [p \in Parts |-> NoEntry]
  /\ transcript = [p \in Parts |-> Blank]
  /\ tab = [t \in Tabs |-> IdleTab]
  /\ worker = [w \in Workers |-> IdleWorker]
  /\ faults = 0

-------------------------------------------------------------------------------
(* Faulty variants of operators defined below, the slips the properties are *)
(* there to notice.  No specification uses them.                            *)

SameRecordingAlways(w) == stt[worker[w].item].status \in Claimed

RefundNothing(n) == n

RefundCharged(n) == n + 1

AfterFailureKept(a, e) == status[a]

MayGradeAlways(a) == status[a] # "ABANDONED"

WaitsUntilReady(p) == revision[p] > 0 /\ stt[p].status # "READY"

-------------------------------------------------------------------------------
(* Rows of the two queues: the same statements on either table.             *)

Queued == [status |-> "QUEUED", tries |-> 0]

Due(e) == e.status = "QUEUED" /\ e.tries < MaxTries

Claim(e) == [status |-> "PROCESSING", tries |-> e.tries + 1]

\* GREATEST(attempts-1, 0): an interrupted or deferred try is given back.
Refund(n) == IF n = 0 THEN 0 ELSE n - 1

Requeued(e) == [status |-> "QUEUED", tries |-> Refund(e.tries)]

Recovered(e) == IF e.status = "LAPSED" THEN Requeued(e) ELSE e

Ready(e) == [e EXCEPT !.status = "READY"]

\* A try failed: the next one is queued, or there is none left.
Failed(e) ==
  IF e.status \notin Claimed THEN e
  ELSE [e EXCEPT !.status = IF e.tries >= MaxTries THEN "FAILED" ELSE "QUEUED"]

-------------------------------------------------------------------------------
(* The student: autosave, recordings, submit, retry.                        *)

MaySave(a) == status[a] = "IN_PROGRESS"

SaveAnswers(p, x) ==
  /\ MaySave(AttemptOf[p])
  /\ answers' = [answers EXCEPT ![p] = x]
  /\ UNCHANGED <<status, evaluation, completed, job, revision, stt, transcript,
                 tab, worker, faults>>

\* StoreSpeakingRecording finds the attempt IN_PROGRESS and uploads the file.
BeginUpload(t, p) ==
  /\ tab[t].stage = "idle"
  /\ MaySave(AttemptOf[p])
  /\ tab' = [tab EXCEPT ![t] = [IdleTab EXCEPT !.stage = "uploading", !.item = p]]
  /\ UNCHANGED <<rows, worker, faults>>

\* UpsertSpeakingRecording: the next revision, its transcription queued afresh;
\* the attempt is not looked at again.
UpsertSpeakingRecording(t) ==
  LET p == tab[t].item
  IN /\ tab[t].stage = "uploading"
     /\ revision[p] < MaxRevision
     /\ revision' = [revision EXCEPT ![p] = @ + 1]
     /\ stt' = [stt EXCEPT ![p] = Queued]
     /\ transcript' = [transcript EXCEPT ![p] = Blank]
     /\ tab' = [tab EXCEPT ![t] = IdleTab]
     /\ UNCHANGED <<status, answers, evaluation, completed, job, worker, faults>>

\* The answers once the input of a request is applied.
Applied(input) == IF input = None THEN answers ELSE [answers EXCEPT ![input.part] = input.text]

\* Service.Submit finds the attempt IN_PROGRESS and lists the saved answers (in one
\* step: while the attempt is not IN_PROGRESS no text of a request that succeeds
\* changes).  An empty request, that of an expired exam, hands in what is stored.
BeginSubmit(t, a, input) ==
  /\ tab[t].stage = "idle"
  /\ MaySave(a)
  /\ input # None => AttemptOf[input.part] = a
  /\ tab' = [tab EXCEPT ![t] = [stage |-> "submitting", item |-> a, input |-> input,
                               texts |-> {p \in PartsOf(a) : Applied(input)[p] # Blank}]]
  /\ UNCHANGED <<rows, worker, faults>>

\* submitSpeaking lists the recordings after the answers: each part has a recording or
\* a text, and the daily limit has allowed the request.
Validate(t) ==
  /\ tab[t].stage = "submitting"
  /\ \A p \in PartsOf(tab[t].item) : revision[p] > 0 \/ p \in tab[t].texts
  /\ tab' = [tab EXCEPT ![t].stage = "validated", ![t].texts = {}]
  /\ UNCHANGED <<rows, worker, faults>>

\* A request ends early: failed upload, incomplete attempt, daily limit, lost
\* connection, attempt no longer IN_PROGRESS.
RejectRequest(t) ==
  /\ tab[t].stage # "idle"
  /\ tab' = [tab EXCEPT ![t] = IdleTab]
  /\ UNCHANGED <<rows, worker, faults>>

\* QueueSpeakingAssessment: attempt locked and re-checked, answers upserted,
\* attempt PROCESSING, job reset, in one transaction.  Transcriptions that have
\* FAILED stay so.
QueueSpeakingAssessment(t) ==
  LET a == tab[t].item
  IN /\ tab[t].stage = "validated"
     /\ MaySave(a)
     /\ answers' = Applied(tab[t].input)
     /\ status' = [status EXCEPT ![a] = "PROCESSING"]
     /\ job' = [job EXCEPT ![a] = Queued]
     /\ tab' = [tab EXCEPT ![t] = IdleTab]
     /\ UNCHANGED <<evaluation, completed, revision, stt, transcript, worker, faults>>

\* RetryAssessment queues what FAILED once more: the job and the transcriptions.
RetriedTranscriptions(a) ==
  [p \in Parts |-> IF AttemptOf[p] = a /\ stt[p].status = "FAILED" THEN Queued ELSE stt[p]]

RetryAssessment(a) ==
  /\ status[a] = "IN_PROGRESS"
  /\ job[a].status = "FAILED"
  /\ job' = [job EXCEPT ![a] = Queued]
  /\ stt' = RetriedTranscriptions(a)
  /\ status' = [status EXCEPT ![a] = "PROCESSING"]
  /\ UNCHANGED <<answers, evaluation, completed, revision, transcript,
                 tab, worker, faults>>

\* The Full Mock that owns the attempt closes it.
AbandonAttempt(a) ==
  /\ status[a] = "IN_PROGRESS"
  /\ status' = [status EXCEPT ![a] = "ABANDONED"]
  /\ UNCHANGED <<answers, evaluation, completed, job, revision, stt, transcript,
                 tab, worker, faults>>

-------------------------------------------------------------------------------
(* The workers: what both queues share.                                     *)

At(w, pc) == worker[w].pc = pc
Step(w, pc) == worker' = [worker EXCEPT ![w].pc = pc]
Release(w) == worker' = [worker EXCEPT ![w] = IdleWorker]
Fails(w) ==
  worker' = [worker EXCEPT ![w] =
               [pc |-> "failing", item |-> worker[w].item, revision |-> 0, words |-> None]]

\* Ticker branch of Run: both tables in one transaction.  What it then takes from the
\* lists of pending work it claims like what a wake-up names.
RecoverSpeakingJobs(w) ==
  /\ At(w, "idle")
  /\ job' = [a \in Attempts |-> Recovered(job[a])]
  /\ stt' = [p \in Parts |-> Recovered(stt[p])]
  /\ UNCHANGED <<status, answers, evaluation, completed, revision, transcript,
                 tab, worker, faults>>

-------------------------------------------------------------------------------
(* processTranscription.                                                    *)

ClaimTranscription(w, p) ==
  /\ At(w, "idle")
  /\ Due(stt[p])
  /\ stt' = [stt EXCEPT ![p] = Claim(@)]
  /\ worker' = [worker EXCEPT ![w] =
                  [pc |-> "loading", item |-> p, revision |-> 0, words |-> None]]
  /\ UNCHANGED <<status, answers, evaluation, completed, job, revision, transcript,
                 tab, faults>>

\* The recording is read after the claim was committed: it may be a newer one.
LoadRecording(w) ==
  /\ At(w, "loading")
  /\ worker' = [worker EXCEPT ![w].pc = "transcribing", ![w].revision = revision[worker[w].item]]
  /\ UNCHANGED <<rows, tab, faults>>

\* The file is opened and sent to the speech service: it hears the recording or
\* nothing, or either call fails (the file may have been replaced meanwhile).
Transcribe(w) ==
  /\ At(w, "transcribing")
  /\ \/ \E x \in {Blank, worker[w].revision} :
          worker' = [worker EXCEPT ![w].pc = "storing", ![w].words = x]
     \/ Step(w, "dropping")
  /\ UNCHANGED <<rows, tab, faults>>

\* Complete and FailTranscription touch only a claimed row of the revision that
\* was transcribed.
SameRecording(w) ==
  LET p == worker[w].item
  IN stt[p].status \in Claimed /\ revision[p] = worker[w].revision

CompleteTranscription(w) ==
  LET p == worker[w].item
  IN /\ At(w, "storing")
     /\ IF SameRecording(w)
        THEN /\ stt' = [stt EXCEPT ![p] = Ready(@)]
             /\ transcript' = [transcript EXCEPT ![p] = worker[w].words]
        ELSE UNCHANGED <<stt, transcript>>
     /\ Release(w)
     /\ UNCHANGED <<status, answers, evaluation, completed, job, revision,
                    tab, faults>>

FailTranscription(w) ==
  LET p == worker[w].item
  IN /\ At(w, "dropping")
     /\ stt' = IF SameRecording(w) THEN [stt EXCEPT ![p] = Failed(@)] ELSE stt
     /\ Release(w)
     /\ UNCHANGED <<status, answers, evaluation, completed, job, revision, transcript,
                    tab, faults>>

-------------------------------------------------------------------------------
(* processAssessment.                                                       *)

ClaimAssessment(w, a) ==
  /\ At(w, "idle")
  /\ Due(job[a])
  /\ job' = [job EXCEPT ![a] = Claim(@)]
  /\ worker' = [worker EXCEPT ![w] =
                  [pc |-> "claimed", item |-> a, revision |-> 0, words |-> None]]
  /\ UNCHANGED <<status, answers, evaluation, completed, revision, stt, transcript,
                 tab, faults>>

GetAttempt(w) ==
  /\ At(w, "claimed")
  /\ Step(w, IF status[worker[w].item] = "SUBMITTED" THEN "completing" ELSE "reading")
  /\ UNCHANGED <<rows, tab, faults>>

ListAnswers(w) ==
  LET a == worker[w].item
  IN /\ At(w, "reading")
     /\ worker' = [worker EXCEPT ![w].pc = "listening",
                     ![w].words = [p \in Parts |-> IF AttemptOf[p] = a THEN answers[p] ELSE Blank]]
     /\ UNCHANGED <<rows, tab, faults>>

\* A read of the attempt, the material, the answers or the recordings failed.
ReadError(w) ==
  /\ worker[w].pc \in {"claimed", "reading", "listening"}
  /\ Fails(w)
  /\ UNCHANGED <<rows, tab, faults>>

\* A recording whose transcription has not ended puts the assessment off.
Waits(p) == revision[p] > 0 /\ stt[p].status \in Active

\* What is graded of each part: its transcript, or without a recording its text.
Heard(a, words) ==
  [p \in Parts |-> IF AttemptOf[p] = a /\ revision[p] > 0 THEN transcript[p] ELSE words[p]]

\* A recording that could not be transcribed, or a part that says nothing.
Unheard(p, words) == stt[p].status = "FAILED" \/ (~Waits(p) /\ words[p] = Blank)

\* ListSpeakingRecordings and the loop over the parts, which stops at the first
\* part that waits or is unheard; the order of the parts is the material's.
ListSpeakingRecordings(w) ==
  LET a == worker[w].item
      words == Heard(a, worker[w].words)
      waiting == {p \in PartsOf(a) : Waits(p)}
      unheard == {p \in PartsOf(a) : Unheard(p, words)}
  IN /\ At(w, "listening")
     /\ \/ /\ waiting # {}
           /\ worker' = [worker EXCEPT ![w].pc = "deferring", ![w].words = None]
        \/ unheard # {} /\ Fails(w)
        \/ /\ waiting \cup unheard = {}
           /\ worker' = [worker EXCEPT ![w].pc = "evaluating", ![w].words = words]
     /\ UNCHANGED <<rows, tab, faults>>

\* DeferAssessment: a claimed job is queued again, its try given back.
DeferAssessment(w) ==
  LET a == worker[w].item
  IN /\ At(w, "deferring")
     /\ job' = [job EXCEPT ![a] = IF @.status \in Claimed THEN Requeued(@) ELSE @]
     /\ Release(w)
     /\ UNCHANGED <<status, answers, evaluation, completed, revision, stt, transcript,
                    tab, faults>>

\* EvaluateSpeaking: the external call returns bands or an error.
EvaluateSpeaking(w) ==
  /\ At(w, "evaluating")
  /\ Step(w, "persisting") \/ Fails(w)
  /\ UNCHANGED <<rows, tab, faults>>

\* Repository.Submit, shared with Writing.
MayGrade(a) == status[a] \in {"IN_PROGRESS", "PROCESSING"}

Graded(a, words) ==
  /\ MayGrade(a)
  /\ answers' = [p \in Parts |-> IF AttemptOf[p] = a THEN words[p] ELSE answers[p]]
  /\ evaluation' = [p \in Parts |-> IF AttemptOf[p] = a THEN words[p] ELSE evaluation[p]]
  /\ status' = [status EXCEPT ![a] = "SUBMITTED"]
  /\ completed' = completed + 1
  /\ UNCHANGED <<job, revision, stt, transcript, tab>>

Submit(w) ==
  LET a == worker[w].item
  IN /\ At(w, "persisting")
     /\ Graded(a, worker[w].words)
     /\ worker' = [worker EXCEPT ![w].pc = "completing", ![w].words = None]
     /\ UNCHANGED faults

\* The transaction committed, but the worker takes it for a failure.
SubmitUnacknowledged(w) ==
  /\ At(w, "persisting")
  /\ faults < MaxFaults
  /\ Graded(worker[w].item, worker[w].words)
  /\ faults' = faults + 1
  /\ Fails(w)

\* ErrAlreadySubmitted, or the transaction failed.
SubmitError(w) ==
  /\ At(w, "persisting")
  /\ Fails(w)
  /\ UNCHANGED <<rows, tab, faults>>

CompleteAssessment(w) ==
  LET a == worker[w].item
  IN /\ At(w, "completing")
     /\ job' = [job EXCEPT ![a] = Ready(@)]
     /\ Release(w)
     /\ UNCHANGED <<status, answers, evaluation, completed, revision, stt, transcript,
                    tab, faults>>

\* FailAssessment: a job that ends FAILED gives the attempt back.
StatusAfterFailure(a, e) ==
  IF status[a] = "PROCESSING" /\ e.status = "FAILED" THEN "IN_PROGRESS" ELSE status[a]

FailAssessment(w) ==
  LET a == worker[w].item
  IN /\ At(w, "failing")
     /\ job' = [job EXCEPT ![a] = Failed(@)]
     /\ status' = [status EXCEPT ![a] = StatusAfterFailure(a, Failed(job[a]))]
     /\ Release(w)
     /\ UNCHANGED <<answers, evaluation, completed, revision, stt, transcript,
                    tab, faults>>

-------------------------------------------------------------------------------
(* Leases, crashes, lost reads and writes.                                  *)

\* The heartbeat of a worker keeps the row of what it processes; that of a
\* transcription only once the recording is loaded and while it is the newest.
Renews(w, item) ==
  /\ worker[w].item = item
  /\ worker[w].pc # "loading"
  /\ item \in Parts => worker[w].revision = revision[item]

\* A worker that is still at work on an item, whether or not it renews the row yet.
Holders(item) ==
  {w \in Workers : worker[w].item = item /\ (Renews(w, item) \/ At(w, "loading"))}

\* Two minutes without a renewal: by the clock when nobody is at work on the row,
\* else because a live worker hangs or cannot reach the database.
Lapse(item) ==
  IF Holders(item) = {} THEN UNCHANGED faults ELSE faults < MaxFaults /\ faults' = faults + 1

TranscriptionLapses(p) ==
  /\ stt[p].status = "PROCESSING"
  /\ stt' = [stt EXCEPT ![p].status = "LAPSED"]
  /\ Lapse(p)
  /\ UNCHANGED <<status, answers, evaluation, completed, job, revision, transcript,
                 tab, worker>>

AssessmentLapses(a) ==
  /\ job[a].status = "PROCESSING"
  /\ job' = [job EXCEPT ![a].status = "LAPSED"]
  /\ Lapse(a)
  /\ UNCHANGED <<status, answers, evaluation, completed, revision, stt, transcript,
                 tab, worker>>

RenewTranscription(w, p) ==
  /\ Renews(w, p)
  /\ stt[p].status = "LAPSED"
  /\ stt' = [stt EXCEPT ![p].status = "PROCESSING"]
  /\ UNCHANGED <<status, answers, evaluation, completed, job, revision, transcript,
                 tab, worker, faults>>

RenewAssessment(w, a) ==
  /\ Renews(w, a)
  /\ job[a].status = "LAPSED"
  /\ job' = [job EXCEPT ![a].status = "PROCESSING"]
  /\ UNCHANGED <<status, answers, evaluation, completed, revision, stt, transcript,
                 tab, worker, faults>>

\* The process dies, the claimed recording cannot be read, or the last write of a
\* job (Complete, Fail, Defer) does not reach the database: the errors of these are
\* at most logged.
Crash(w) ==
  /\ worker[w].item # None
  /\ faults < MaxFaults
  /\ faults' = faults + 1
  /\ Release(w)
  /\ UNCHANGED <<rows, tab>>

-------------------------------------------------------------------------------
StudentNext ==
  \/ \E p \in Parts, x \in {Blank, Typed} : SaveAnswers(p, x)
  \/ \E t \in Tabs, p \in Parts : BeginUpload(t, p)
  \/ \E t \in Tabs, a \in Attempts, input \in Inputs : BeginSubmit(t, a, input)
  \/ \E t \in Tabs : \/ UpsertSpeakingRecording(t) \/ Validate(t)
                     \/ QueueSpeakingAssessment(t) \/ RejectRequest(t)
  \/ \E a \in Attempts : RetryAssessment(a) \/ AbandonAttempt(a)

Process(w) ==
  \/ LoadRecording(w) \/ Transcribe(w) \/ CompleteTranscription(w) \/ FailTranscription(w)
  \/ GetAttempt(w) \/ ListAnswers(w) \/ ListSpeakingRecordings(w) \/ ReadError(w)
  \/ DeferAssessment(w) \/ EvaluateSpeaking(w) \/ Submit(w) \/ SubmitError(w)
  \/ CompleteAssessment(w) \/ FailAssessment(w)

WorkerNext(w) ==
  \/ RecoverSpeakingJobs(w)
  \/ \E p \in Parts : ClaimTranscription(w, p)
  \/ \E a \in Attempts : ClaimAssessment(w, a)
  \/ Process(w)

Environment ==
  \/ \E p \in Parts : TranscriptionLapses(p)
  \/ \E a \in Attempts : AssessmentLapses(a)
  \/ \E w \in Workers : SubmitUnacknowledged(w) \/ Crash(w)
  \/ \E w \in Workers, p \in Parts : RenewTranscription(w, p)
  \/ \E w \in Workers, a \in Attempts : RenewAssessment(w, a)

Next == StudentNext \/ (\E w \in Workers : WorkerNext(w)) \/ Environment

Spec == Init /\ [][Next]_vars

\* As in WritingPipeline: calls return or time out, the ticker is not starved by
\* wake-ups, both lists of pending jobs are in next_attempt_at order, and a lease
\* nobody renews lapses by the clock.
Fairness ==
  /\ \A w \in Workers : WF_vars(Process(w)) /\ SF_vars(RecoverSpeakingJobs(w))
  /\ \A p \in Parts : SF_vars(\E w \in Workers : ClaimTranscription(w, p))
  /\ \A a \in Attempts : SF_vars(\E w \in Workers : ClaimAssessment(w, a))
  /\ \A p \in Parts : WF_vars(Holders(p) = {} /\ TranscriptionLapses(p))
  /\ \A a \in Attempts : WF_vars(Holders(a) = {} /\ AssessmentLapses(a))

FairSpec == Spec /\ Fairness

-------------------------------------------------------------------------------
(* Safety.                                                                  *)

\* An attempt being graded has a job that some worker will still take or works on,
\* and a queued row of either queue has a try left, a claimed one has used one:
\* deferrals and recoveries give tries back, late failures and retries do not add
\* up to a row nobody takes.
NeverStranded ==
  /\ \A a \in Attempts : status[a] = "PROCESSING" => job[a].status \in Active
  /\ \A e \in {job[a] : a \in Attempts} \cup {stt[p] : p \in Parts} :
       /\ e.status = "QUEUED" => e.tries < MaxTries
       /\ e.status \in Claimed => e.tries > 0

\* "Completion from an obsolete worker cannot overwrite the newer result"
\* (docs/SPEAKING_STT.md): a transcript that is READY is of the newest recording,
\* however many workers transcribe however many revisions.
TranscriptIsNewest ==
  \A p \in Parts : stt[p].status = "READY" => transcript[p] \in {Blank, revision[p]}

\* However many workers grade a submission, it counts once, no part of it is
\* silent, and what was graded is what is shown, also when a part is recorded
\* again after the attempt was closed.
GradedOnce ==
  /\ completed = Cardinality({a \in Attempts : status[a] = "SUBMITTED"})
  /\ \A p \in Parts :
       IF status[AttemptOf[p]] = "SUBMITTED"
       THEN evaluation[p] = answers[p] /\ answers[p] # Blank
       ELSE evaluation[p] = None

\* What the rest of the system sees of the assessment queue.
Rows ==
  INSTANCE AssessmentJob WITH
    job <- [a \in Attempts |-> IF job[a].status \in Active THEN "ACTIVE" ELSE job[a].status]

\* Attempts and jobs move as the machine that module FullMock is built on:
\* recordings and deferrals do not show.
RowsSafety == Rows!Spec

-------------------------------------------------------------------------------
(* Liveness.                                                                *)

\* Every transcription ends, and every assessment, however often it is put off.
JobsSettle ==
  /\ \A p \in Parts : stt[p].status \in Active ~> stt[p].status \in {"READY", "FAILED"}
  /\ \A a \in Attempts : job[a].status \in Active ~> job[a].status \in {"READY", "FAILED"}

\* Nothing in either queue is left without a try, and everything in them ends.
QueuesServed == []TypeOK /\ []NeverStranded /\ JobsSettle
===============================================================================
