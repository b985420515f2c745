------------------------ MODULE SpeakingPipeline_proofs ------------------------
(***************************************************************************)
(* Proofs about SpeakingPipeline, for any number of attempts, parts,       *)
(* workers and requests, and any bound on tries, revisions and faults.     *)
(***************************************************************************)
EXTENDS SpeakingPipeline, FiniteSetTheorems, TLAPS

\* The statements on a row of a queue keep it in its range: a claim is of a row with
\* a try left, a refund does not go below zero.
LEMMA EntryRange ==
  /\ NoEntry \in Entry
  /\ Queued \in Entry
  /\ \A e \in Entry : /\ Recovered(e) \in Entry /\ Requeued(e) \in Entry
                      /\ Ready(e) \in Entry /\ Failed(e) \in Entry
                      /\ Due(e) => Claim(e) \in Entry
BY SpeakingAssumption
   DEF NoEntry, Queued, Entry, Active, Claimed, Recovered, Requeued, Refund, Ready, Failed, Due, Claim

\* What the queue of transcriptions holds has been recorded, and so has what a worker
\* has claimed: it finds a recording to load.
Recorded ==
  /\ \A p \in Parts : stt[p].status # "NONE" => revision[p] > 0
  /\ \A w \in Workers : At(w, "loading") => revision[worker[w].item] > 0

\* The range of every variable, with what a worker that loads a recording needs.
TypeInv == TypeOK /\ Recorded

\* The initial state is well typed.
LEMMA TypeInit == Init => TypeInv
<1> SUFFICES ASSUME Init PROVE TypeInv
  OBVIOUS
<1>1. TypeOK
  BY SpeakingAssumption, EntryRange
     DEF Init, TypeOK, Status, Words, TabState, WorkerState, IdleTab, IdleWorker
<1>2. Recorded
  BY DEF Init, Recorded, At, IdleWorker, NoEntry
<1> QED BY <1>1, <1>2 DEF TypeInv

\* A worker that stops working on its item, for whatever reason.
LEMMA Stops ==
  ASSUME TypeOK, NEW w \in Workers,
         \/ Release(w)
         \/ worker[w].item \in Attempts /\ Fails(w)
  PROVE  worker' \in [Workers -> WorkerState]
BY DEF TypeOK, Release, Fails, WorkerState, IdleWorker

\* A worker that goes on from one step to the next of the same assessment.
LEMMA GoesOn ==
  ASSUME TypeOK, NEW w \in Workers, NEW pc,
         \/ /\ worker[w].pc \in {"claimed", "reading"}
            /\ pc \in {"reading", "completing"}
         \/ /\ worker[w].pc = "evaluating"
            /\ pc = "persisting"
         \/ /\ worker[w].pc = "transcribing"
            /\ pc = "dropping",
         Step(w, pc)
  PROVE  worker' \in [Workers -> WorkerState]
BY DEF TypeOK, Step, WorkerState

\* What a worker has in hand, by the step it is at.
LEMMA InHand ==
  ASSUME TypeOK, NEW w \in Workers
  PROVE  /\ worker[w].pc \in {"loading", "transcribing", "dropping", "storing"}
              => worker[w].item \in Parts
         /\ worker[w].pc \in {"transcribing", "dropping", "storing"}
              => worker[w].revision \in 1..MaxRevision
         /\ worker[w].pc = "storing" => worker[w].words \in Words
         /\ worker[w].pc \in {"claimed", "reading", "listening", "evaluating", "persisting",
                              "completing", "failing", "deferring"}
              => worker[w].item \in Attempts
         /\ worker[w].pc \in {"listening", "evaluating", "persisting"}
              => worker[w].words \in [Parts -> Words]
         /\ worker[w].item \in Attempts \cup Parts \cup {None}
BY DEF TypeOK, WorkerState

\* What a request of the student has in hand.
LEMMA InTab ==
  ASSUME TypeOK, NEW t \in Tabs
  PROVE  /\ tab[t].stage = "uploading" => tab[t].item \in Parts
         /\ tab[t].stage \in {"submitting", "validated"}
              => tab[t].item \in Attempts /\ tab[t].input \in Inputs
BY DEF TypeOK, TabState, IdleTab

\* The answers of a request are texts.
LEMMA AppliedRange == ASSUME TypeOK, NEW input \in Inputs PROVE Applied(input) \in [Parts -> Words]
BY SpeakingAssumption DEF TypeOK, Applied, Inputs, Words

\* A step of a worker that is not about to load a recording afterwards.
LEMMA RecordedKept ==
  ASSUME TypeInv, NEW w \in Workers, UNCHANGED <<revision, stt>>,
         \A v \in Workers \ {w} : worker'[v] = worker[v],
         worker'[w].pc # "loading"
  PROVE  Recorded'
BY DEF TypeInv, TypeOK, Recorded, At

\* Every step keeps every variable in its range.
LEMMA TypeStep == TypeInv /\ [Next]_vars => TypeInv'
<1> SUFFICES ASSUME TypeInv, [Next]_vars PROVE TypeInv'
  OBVIOUS
<1> USE SpeakingAssumption, EntryRange, InHand, InTab DEF TypeInv
<1>student. ASSUME StudentNext PROVE TypeInv'
  <2>1. ASSUME NEW p \in Parts, NEW x \in {Blank, Typed}, SaveAnswers(p, x) PROVE TypeInv'
    BY <2>1 DEF TypeOK, Recorded, SaveAnswers, Words, At
  <2>2. ASSUME NEW t \in Tabs, NEW p \in Parts, BeginUpload(t, p) PROVE TypeInv'
    BY <2>2 DEF TypeOK, Recorded, BeginUpload, TabState, IdleTab, rows, At
  <2>3. ASSUME NEW t \in Tabs, NEW a \in Attempts, NEW input \in Inputs, BeginSubmit(t, a, input)
        PROVE  TypeInv'
    <3>1. tab' \in [Tabs -> TabState]
      BY <2>3 DEF TypeOK, BeginSubmit, TabState, PartsOf
    <3> QED BY <2>3, <3>1 DEF TypeOK, Recorded, BeginSubmit, rows, At
  <2>4. ASSUME NEW t \in Tabs, UpsertSpeakingRecording(t) PROVE TypeInv'
    <3>1. TypeOK'
      BY <2>4 DEF TypeOK, UpsertSpeakingRecording, TabState, Words
    <3>2. Recorded'
      BY <2>4 DEF TypeOK, Recorded, UpsertSpeakingRecording, At
    <3> QED BY <3>1, <3>2
  <2>5. ASSUME NEW t \in Tabs, Validate(t) PROVE TypeInv'
    <3>1. tab' \in [Tabs -> TabState]
      <4>1. tab[t] \in [stage : {"submitting"}, item : Attempts, input : Inputs, texts : SUBSET Parts]
        BY <2>5 DEF TypeOK, Validate, TabState, IdleTab
      <4>2. [tab[t] EXCEPT !.stage = "validated", !.texts = {}] \in TabState
        BY <4>1 DEF TabState
      <4> QED BY <2>5, <4>2 DEF TypeOK, Validate
    <3> QED BY <2>5, <3>1 DEF TypeOK, Recorded, Validate, rows, At
  <2>6. ASSUME NEW t \in Tabs, QueueSpeakingAssessment(t) PROVE TypeInv'
    <3>1. answers' \in [Parts -> Words]
      BY <2>6, AppliedRange DEF TypeInv, QueueSpeakingAssessment
    <3>2. TypeOK'
      BY <2>6, <3>1 DEF TypeOK, QueueSpeakingAssessment, Status, TabState
    <3>3. Recorded'
      BY <2>6 DEF Recorded, QueueSpeakingAssessment, At
    <3> QED BY <3>2, <3>3
  <2>7. ASSUME NEW t \in Tabs, RejectRequest(t) PROVE TypeInv'
    BY <2>7 DEF TypeOK, Recorded, RejectRequest, TabState, rows, At
  <2>8. ASSUME NEW a \in Attempts, RetryAssessment(a) PROVE TypeInv'
    <3>1. TypeOK'
      BY <2>8 DEF TypeOK, RetryAssessment, RetriedTranscriptions, Status
    <3>2. Recorded'
      BY <2>8 DEF TypeOK, Recorded, RetryAssessment, RetriedTranscriptions, Queued, At
    <3> QED BY <3>1, <3>2
  <2>9. ASSUME NEW a \in Attempts, AbandonAttempt(a) PROVE TypeInv'
    BY <2>9 DEF TypeOK, Recorded, AbandonAttempt, Status, At
  <2> QED
    BY <1>student, <2>1, <2>2, <2>3, <2>4, <2>5, <2>6, <2>7, <2>8, <2>9 DEF StudentNext
<1>transcription. ASSUME NEW w \in Workers,
                         \/ RecoverSpeakingJobs(w)
                         \/ \E p \in Parts : ClaimTranscription(w, p)
                         \/ LoadRecording(w) \/ Transcribe(w)
                         \/ CompleteTranscription(w) \/ FailTranscription(w)
                  PROVE  TypeInv'
  <2>1. ASSUME RecoverSpeakingJobs(w) PROVE TypeInv'
    <3>1. TypeOK'
      BY <2>1 DEF TypeOK, RecoverSpeakingJobs
    <3>2. Recorded'
      BY <2>1 DEF TypeOK, Recorded, RecoverSpeakingJobs, Recovered, At
    <3> QED BY <3>1, <3>2
  <2>2. ASSUME NEW p \in Parts, ClaimTranscription(w, p) PROVE TypeInv'
    <3>1. worker' \in [Workers -> WorkerState]
      BY <2>2 DEF TypeOK, ClaimTranscription, WorkerState
    <3>2. TypeOK'
      BY <2>2, <3>1 DEF TypeOK, ClaimTranscription
    <3>3. Recorded'
      BY <2>2 DEF TypeOK, Recorded, ClaimTranscription, Due, Claim, At
    <3> QED BY <3>2, <3>3
  <2>3. ASSUME LoadRecording(w) PROVE TypeInv'
    <3>1. worker[w].item \in Parts /\ revision[worker[w].item] \in 1..MaxRevision
      BY <2>3 DEF TypeOK, Recorded, LoadRecording, At
    <3>2. worker' \in [Workers -> WorkerState]
      BY <2>3, <3>1 DEF TypeOK, LoadRecording, At, WorkerState
    <3> QED BY <2>3, <3>2 DEF TypeOK, Recorded, LoadRecording, At, rows
  <2>4. ASSUME Transcribe(w) PROVE TypeInv'
    <3>1. worker' \in [Workers -> WorkerState]
      BY <2>4, GoesOn DEF TypeOK, Transcribe, At, WorkerState, Words
    <3>2. TypeOK'
      BY <2>4, <3>1 DEF TypeOK, Transcribe, rows
    <3>3. Recorded'
      <4>1. worker'[w].pc # "loading" /\ \A v \in Workers \ {w} : worker'[v] = worker[v]
        BY <2>4 DEF TypeOK, Transcribe, Step, rows, WorkerState, At
      <4> QED BY <2>4, <4>1, RecordedKept DEF Transcribe, Step, rows
    <3> QED BY <3>2, <3>3
  <2>5. ASSUME CompleteTranscription(w) PROVE TypeInv'
    <3>1. worker' \in [Workers -> WorkerState]
      BY <2>5, Stops DEF CompleteTranscription
    <3>2. TypeOK'
      BY <2>5, <3>1 DEF TypeOK, CompleteTranscription, SameRecording, At
    <3>3. Recorded'
      BY <2>5 DEF TypeOK, Recorded, CompleteTranscription, SameRecording, Ready, Release, IdleWorker,
         At, Claimed
    <3> QED BY <3>2, <3>3
  <2>6. ASSUME FailTranscription(w) PROVE TypeInv'
    <3>1. worker' \in [Workers -> WorkerState]
      BY <2>6, Stops DEF FailTranscription
    <3>2. TypeOK'
      BY <2>6, <3>1 DEF TypeOK, FailTranscription, At
    <3>3. Recorded'
      BY <2>6 DEF TypeOK, Recorded, FailTranscription, SameRecording, Failed, Release, IdleWorker,
         At, Claimed
    <3> QED BY <3>2, <3>3
  <2> QED BY <1>transcription, <2>1, <2>2, <2>3, <2>4, <2>5, <2>6
<1>assessment. ASSUME NEW w \in Workers,
                      \/ \E a \in Attempts : ClaimAssessment(w, a)
                      \/ GetAttempt(w) \/ ListAnswers(w) \/ ListSpeakingRecordings(w)
                      \/ ReadError(w) \/ DeferAssessment(w) \/ EvaluateSpeaking(w)
                      \/ Submit(w) \/ SubmitUnacknowledged(w) \/ SubmitError(w)
                      \/ CompleteAssessment(w) \/ FailAssessment(w)
               PROVE  TypeInv'
  <2>1. ASSUME NEW a \in Attempts, ClaimAssessment(w, a) PROVE TypeInv'
    <3>1. worker' \in [Workers -> WorkerState]
      BY <2>1 DEF TypeOK, ClaimAssessment, WorkerState
    <3> QED BY <2>1, <3>1 DEF TypeOK, Recorded, ClaimAssessment, At
  <2>2. ASSUME GetAttempt(w) PROVE TypeInv'
    <3>1. worker' \in [Workers -> WorkerState]
      BY <2>2, GoesOn DEF GetAttempt, At
    <3> QED BY <2>2, <3>1 DEF TypeOK, Recorded, GetAttempt, Step, At, rows
  <2>3. ASSUME ListAnswers(w) PROVE TypeInv'
    <3>1. [p \in Parts |-> IF AttemptOf[p] = worker[w].item THEN answers[p] ELSE Blank]
            \in [Parts -> Words]
      BY DEF TypeOK, Words
    <3>2. worker' \in [Workers -> WorkerState]
      <4> DEFINE words == [p \in Parts |-> IF AttemptOf[p] = worker[w].item THEN answers[p] ELSE Blank]
      <4>1. worker[w] \in [pc : {"reading"}, item : Attempts, revision : {0}, words : {None}]
        BY <2>3 DEF TypeOK, ListAnswers, At, WorkerState
      <4>2. [worker[w] EXCEPT !.pc = "listening", !.words = words] \in WorkerState
        BY <3>1, <4>1 DEF WorkerState
      <4> QED BY <2>3, <4>2 DEF TypeOK, ListAnswers
    <3> QED BY <2>3, <3>2 DEF TypeOK, Recorded, ListAnswers, At, rows
  <2>4. ASSUME ListSpeakingRecordings(w) PROVE TypeInv'
    <3>1. worker[w].item \in Attempts /\ worker[w].words \in [Parts -> Words]
      BY <2>4 DEF ListSpeakingRecordings, At
    <3>2. Heard(worker[w].item, worker[w].words) \in [Parts -> Words]
      BY <3>1 DEF TypeOK, Heard
    <3>3. worker' \in [Workers -> WorkerState]
      BY <2>4, <3>1, <3>2, Stops DEF TypeOK, ListSpeakingRecordings, At, WorkerState
    <3>4. TypeOK'
      BY <2>4, <3>3 DEF TypeOK, ListSpeakingRecordings, rows
    <3>5. Recorded'
      <4>1. worker'[w].pc # "loading" /\ \A v \in Workers \ {w} : worker'[v] = worker[v]
        BY <2>4 DEF TypeOK, ListSpeakingRecordings, Fails, rows, WorkerState, At
      <4> QED BY <2>4, <4>1, RecordedKept DEF ListSpeakingRecordings, Fails, rows
    <3> QED BY <3>4, <3>5
  <2>5. ASSUME ReadError(w) PROVE TypeInv'
    <3>1. worker' \in [Workers -> WorkerState]
      BY <2>5, Stops DEF ReadError
    <3> QED BY <2>5, <3>1 DEF TypeOK, Recorded, ReadError, Fails, At, rows
  <2>6. ASSUME DeferAssessment(w) PROVE TypeInv'
    <3>1. worker' \in [Workers -> WorkerState]
      BY <2>6, Stops DEF DeferAssessment
    <3> QED BY <2>6, <3>1 DEF TypeOK, Recorded, DeferAssessment, Release, IdleWorker, At
  <2>7. ASSUME EvaluateSpeaking(w) PROVE TypeInv'
    <3>1. worker' \in [Workers -> WorkerState]
      BY <2>7, Stops, GoesOn DEF EvaluateSpeaking, At
    <3>2. TypeOK'
      BY <2>7, <3>1 DEF TypeOK, EvaluateSpeaking, rows
    <3>3. Recorded'
      <4>1. worker'[w].pc # "loading" /\ \A v \in Workers \ {w} : worker'[v] = worker[v]
        BY <2>7 DEF TypeOK, EvaluateSpeaking, Step, Fails, rows, WorkerState, At
      <4> QED BY <2>7, <4>1, RecordedKept DEF EvaluateSpeaking, Step, Fails, rows
    <3> QED BY <3>2, <3>3
  <2>8. ASSUME Submit(w) \/ SubmitUnacknowledged(w) PROVE TypeInv'
    <3>1. worker[w].item \in Attempts /\ worker[w].words \in [Parts -> Words]
      BY <2>8 DEF Submit, SubmitUnacknowledged, At
    <3>2. worker' \in [Workers -> WorkerState]
      BY <2>8, <3>1, Stops DEF TypeOK, Submit, SubmitUnacknowledged, At, WorkerState
    <3>3. faults' \in 0..MaxFaults
      BY <2>8 DEF TypeOK, Submit, SubmitUnacknowledged
    <3>4. TypeOK'
      BY <2>8, <3>1, <3>2, <3>3 DEF TypeOK, Submit, SubmitUnacknowledged, Graded, Status
    <3>5. Recorded'
      <4>1. worker'[w].pc # "loading" /\ \A v \in Workers \ {w} : worker'[v] = worker[v]
        BY <2>8 DEF TypeOK, Submit, SubmitUnacknowledged, Graded, Fails, WorkerState, At
      <4> QED BY <2>8, <4>1, RecordedKept DEF Submit, SubmitUnacknowledged, Graded, Fails
    <3> QED BY <3>4, <3>5
  <2>9. ASSUME SubmitError(w) PROVE TypeInv'
    <3>1. worker' \in [Workers -> WorkerState]
      BY <2>9, Stops DEF SubmitError, At
    <3> QED BY <2>9, <3>1 DEF TypeOK, Recorded, SubmitError, Fails, At, rows
  <2>10. ASSUME CompleteAssessment(w) PROVE TypeInv'
    <3>1. worker' \in [Workers -> WorkerState]
      BY <2>10, Stops DEF CompleteAssessment
    <3> QED BY <2>10, <3>1 DEF TypeOK, Recorded, CompleteAssessment, Release, IdleWorker, At
  <2>11. ASSUME FailAssessment(w) PROVE TypeInv'
    <3>1. worker' \in [Workers -> WorkerState]
      BY <2>11, Stops DEF FailAssessment
    <3>2. \A a \in Attempts, e \in Entry : StatusAfterFailure(a, e) \in Status
      BY DEF TypeOK, StatusAfterFailure, Status
    <3> QED BY <2>11, <3>1, <3>2 DEF TypeOK, Recorded, FailAssessment, Release, IdleWorker, At
  <2> QED
    BY <1>assessment, <2>1, <2>2, <2>3, <2>4, <2>5, <2>6, <2>7, <2>8, <2>9, <2>10, <2>11
<1>lease. ASSUME \/ \E p \in Parts : TranscriptionLapses(p)
                 \/ \E a \in Attempts : AssessmentLapses(a)
                 \/ \E w \in Workers, p \in Parts : RenewTranscription(w, p)
                 \/ \E w \in Workers, a \in Attempts : RenewAssessment(w, a)
                 \/ \E w \in Workers : Crash(w)
          PROVE  TypeInv'
  <2>0. /\ \A e \in Entry, x \in Claimed : [e EXCEPT !.status = x] \in Entry
        /\ \A item : Lapse(item) => faults' \in 0..MaxFaults
    BY DEF TypeOK, Entry, Active, Lapse
  <2>1. ASSUME NEW p \in Parts, TranscriptionLapses(p) \/ \E w \in Workers : RenewTranscription(w, p)
        PROVE  TypeInv'
    <3>1. PICK x \in Claimed : stt[p].status \in Claimed /\ stt' = [stt EXCEPT ![p].status = x]
      BY <2>1 DEF TranscriptionLapses, RenewTranscription, Claimed
    <3>2. stt' \in [Parts -> Entry] /\ Recorded'
      BY <2>0, <2>1, <3>1
         DEF TypeOK, Recorded, TranscriptionLapses, RenewTranscription, Entry, Claimed, At
    <3> QED BY <2>0, <2>1, <3>2 DEF TypeOK, TranscriptionLapses, RenewTranscription
  <2>2. ASSUME NEW a \in Attempts, AssessmentLapses(a) \/ \E w \in Workers : RenewAssessment(w, a)
        PROVE  TypeInv'
    <3>1. PICK x \in Claimed : job' = [job EXCEPT ![a].status = x]
      BY <2>2 DEF AssessmentLapses, RenewAssessment, Claimed
    <3>2. job' \in [Attempts -> Entry]
      BY <2>0, <3>1 DEF TypeOK
    <3>3. Recorded'
      BY <2>2 DEF Recorded, AssessmentLapses, RenewAssessment, At
    <3> QED BY <2>0, <2>2, <3>2, <3>3 DEF TypeOK, AssessmentLapses, RenewAssessment
  <2>3. ASSUME NEW w \in Workers, Crash(w) PROVE TypeInv'
    <3>1. worker' \in [Workers -> WorkerState]
      BY <2>3, Stops DEF Crash
    <3> QED BY <2>3, <3>1 DEF TypeOK, Recorded, Crash, Release, IdleWorker, rows, At
  <2> QED BY <1>lease, <2>1, <2>2, <2>3
<1>stutter. CASE UNCHANGED vars
  BY <1>stutter DEF TypeOK, Recorded, vars, At
<1> QED
  BY <1>student, <1>transcription, <1>assessment, <1>lease, <1>stutter
     DEF Next, WorkerNext, Process, Environment

\* Every variable keeps its range: in particular no row of either queue has more tries
\* than the CHECK constraints of migration 000024 allow.
THEOREM TypeCorrect == Spec => []TypeOK
<1>1. TypeInv => TypeOK
  BY DEF TypeInv
<1> QED BY <1>1, TypeInit, TypeStep, PTL DEF Spec

-------------------------------------------------------------------------------
(* The two queues, under crashes, lost writes and leases that lapse under   *)
(* live workers.                                                            *)

\* A queued row has a try left, a claimed one has used one.
TriesLeft(e) ==
  /\ e.status = "QUEUED" => e.tries < MaxTries
  /\ e.status \in Claimed => e.tries > 0

\* The statements on a row keep its tries in order: a refund is of a try that was used.
LEMMA TriesKept ==
  /\ TriesLeft(NoEntry) /\ TriesLeft(Queued)
  /\ \A e \in Entry : TriesLeft(e) =>
       /\ TriesLeft(Recovered(e)) /\ TriesLeft(Ready(e)) /\ TriesLeft(Failed(e))
       /\ e.status \in Claimed => TriesLeft(Requeued(e))
       /\ Due(e) => TriesLeft(Claim(e))
BY SpeakingAssumption
   DEF TriesLeft, NoEntry, Queued, Entry, Active, Claimed, Recovered, Requeued, Refund, Ready,
       Failed, Due, Claim

AllTriesLeft ==
  /\ \A a \in Attempts : TriesLeft(job[a])
  /\ \A p \in Parts : TriesLeft(stt[p])

JobWhileProcessing == \A a \in Attempts : status[a] = "PROCESSING" => job[a].status \in Active

\* Nothing is queued or claimed for an attempt the student holds or that was abandoned.
NoJobWhileEditable ==
  \A a \in Attempts : status[a] \in {"IN_PROGRESS", "ABANDONED"} => job[a].status \in {"NONE", "FAILED"}

\* A worker assesses only attempts that were queued once, and closes the job only of one
\* that has been graded.
AtWorkOnQueued ==
  \A w \in Workers : worker[w].item \in Attempts =>
    /\ job[worker[w].item].status # "NONE"
    /\ At(w, "completing") => status[worker[w].item] = "SUBMITTED"

QueueInv == AllTriesLeft /\ JobWhileProcessing /\ NoJobWhileEditable /\ AtWorkOnQueued

\* NeverStranded in the parts the proof tells apart.
LEMMA NeverStrandedParts == NeverStranded <=> JobWhileProcessing /\ AllTriesLeft
BY DEF NeverStranded, JobWhileProcessing, AllTriesLeft, TriesLeft

\* A step that changes no attempt, ends nothing in the assessment queue, and leaves each
\* worker on its item, with none, or with a part.
LEMMA RowsMoved ==
  ASSUME TypeInv, TypeInv', QueueInv, status' = status, AllTriesLeft',
         \A a \in Attempts : \/ job'[a] = job[a]
                             \/ job[a].status \in Active /\ job'[a].status \in Active,
         \A w \in Workers : \/ worker'[w].item \in Parts \cup {None}
                            \/ /\ worker'[w].item = worker[w].item
                               /\ worker'[w].pc = "completing" =>
                                    \/ worker[w].pc = "completing"
                                    \/ status[worker[w].item] = "SUBMITTED"
  PROVE  QueueInv'
<1>1. JobWhileProcessing' /\ NoJobWhileEditable'
  BY DEF QueueInv, JobWhileProcessing, NoJobWhileEditable, Active, Claimed
<1>2. AtWorkOnQueued'
  BY SpeakingAssumption DEF QueueInv, AtWorkOnQueued, Active, Claimed, At
<1> QED BY <1>1, <1>2 DEF QueueInv

\* A step that touches neither attempts nor queues.
LEMMA QueueKept ==
  ASSUME TypeInv, TypeInv', QueueInv, UNCHANGED <<status, job, stt>>,
         \A w \in Workers : \/ worker'[w].item \in Parts \cup {None}
                            \/ /\ worker'[w].item = worker[w].item
                               /\ worker'[w].pc = "completing" =>
                                    \/ worker[w].pc = "completing"
                                    \/ status[worker[w].item] = "SUBMITTED"
  PROVE  QueueInv'
<1>1. AllTriesLeft'
  BY DEF QueueInv, AllTriesLeft, TriesLeft
<1>2. status' = status /\ job' = job
  OBVIOUS
<1> QED BY <1>1, <1>2, RowsMoved

\* Recovery takes no row out of its queue.
LEMMA RecoveredRow ==
  ASSUME NEW e
  PROVE  Recovered(e) = e \/ (e.status \in Active /\ Recovered(e).status \in Active)
BY DEF Recovered, Requeued, Active, Claimed

\* Every step keeps the queues in order.
LEMMA QueueStep == TypeInv /\ QueueInv /\ [Next]_vars => QueueInv'
<1> SUFFICES ASSUME TypeInv, QueueInv, [Next]_vars PROVE QueueInv'
  OBVIOUS
<1>0. TypeInv'
  BY TypeStep
<1> USE <1>0, SpeakingAssumption, EntryRange, TriesKept, InHand, InTab
<1> USE DEF QueueInv, AllTriesLeft, JobWhileProcessing, NoJobWhileEditable, AtWorkOnQueued, At
<1>typed. TypeOK /\ TypeOK'
  BY DEF TypeInv
<1>student. ASSUME StudentNext PROVE QueueInv'
  <2>1. ASSUME NEW p \in Parts, NEW x \in {Blank, Typed}, SaveAnswers(p, x) PROVE QueueInv'
    BY <2>1, QueueKept DEF SaveAnswers
  <2>2. ASSUME NEW t \in Tabs,
               \/ \E p \in Parts : BeginUpload(t, p)
               \/ \E a \in Attempts, input \in Inputs : BeginSubmit(t, a, input)
               \/ Validate(t) \/ RejectRequest(t)
        PROVE  QueueInv'
    BY <2>2, QueueKept DEF BeginUpload, BeginSubmit, Validate, RejectRequest, rows
  <2>3. ASSUME NEW t \in Tabs, UpsertSpeakingRecording(t) PROVE QueueInv'
    BY <2>3, <1>typed DEF TypeOK, UpsertSpeakingRecording
  <2>4. ASSUME NEW t \in Tabs, QueueSpeakingAssessment(t) PROVE QueueInv'
    BY <2>4, <1>typed DEF TypeOK, QueueSpeakingAssessment, MaySave, Queued, Active
  <2>5. ASSUME NEW a \in Attempts, RetryAssessment(a) PROVE QueueInv'
    BY <2>5, <1>typed DEF TypeOK, RetryAssessment, RetriedTranscriptions, Queued, Active
  <2>6. ASSUME NEW a \in Attempts, AbandonAttempt(a) PROVE QueueInv'
    BY <2>6, <1>typed DEF TypeOK, AbandonAttempt
  <2> QED BY <1>student, <2>1, <2>2, <2>3, <2>4, <2>5, <2>6 DEF StudentNext
<1>recover. ASSUME NEW w \in Workers, RecoverSpeakingJobs(w) PROVE QueueInv'
  <2>1. AllTriesLeft'
    BY <1>recover, <1>typed DEF TypeOK, RecoverSpeakingJobs
  <2>2. \A a \in Attempts : \/ job'[a] = job[a]
                            \/ job[a].status \in Active /\ job'[a].status \in Active
    <3>1. \A a \in Attempts : job[a] \in Entry /\ job'[a] = Recovered(job[a])
      BY <1>recover, <1>typed DEF TypeOK, RecoverSpeakingJobs
    <3> QED BY <3>1, RecoveredRow
  <2>3. UNCHANGED <<status, worker>>
    BY <1>recover DEF RecoverSpeakingJobs
  <2> QED BY <2>1, <2>2, <2>3, RowsMoved
<1>transcription. ASSUME NEW w \in Workers,
                         \/ \E p \in Parts : ClaimTranscription(w, p)
                         \/ LoadRecording(w) \/ Transcribe(w)
                         \/ CompleteTranscription(w) \/ FailTranscription(w)
                  PROVE  QueueInv'
  <2>1. /\ status' = status /\ job' = job
        /\ \A v \in Workers \ {w} : worker'[v] = worker[v]
        /\ worker'[w].item \in Parts \cup {None}
    BY <1>transcription, <1>typed
       DEF TypeOK, WorkerState, ClaimTranscription, LoadRecording, Transcribe, CompleteTranscription,
           FailTranscription, Release, Step, IdleWorker, rows
  <2>2. \A p \in Parts : TriesLeft(stt'[p])
    BY <1>transcription, <1>typed
       DEF TypeOK, ClaimTranscription, LoadRecording, Transcribe, CompleteTranscription,
           FailTranscription, rows
  <2>3. AllTriesLeft'
    BY <2>1, <2>2
  <2> QED BY <2>1, <2>3, RowsMoved
<1>assessment. ASSUME NEW w \in Workers,
                      \/ \E a \in Attempts : ClaimAssessment(w, a)
                      \/ GetAttempt(w) \/ ListAnswers(w) \/ ListSpeakingRecordings(w)
                      \/ ReadError(w) \/ DeferAssessment(w) \/ EvaluateSpeaking(w)
                      \/ Submit(w) \/ SubmitUnacknowledged(w) \/ SubmitError(w)
                      \/ CompleteAssessment(w) \/ FailAssessment(w)
               PROVE  QueueInv'
  <2>1. ASSUME NEW a \in Attempts, ClaimAssessment(w, a) PROVE QueueInv'
    BY <2>1, <1>typed DEF TypeOK, ClaimAssessment, Due, Claim, Active, Claimed
  <2>2. ASSUME \/ GetAttempt(w) \/ ListAnswers(w) \/ ListSpeakingRecordings(w)
               \/ ReadError(w) \/ EvaluateSpeaking(w) \/ SubmitError(w)
        PROVE  QueueInv'
    <3>1. /\ \A v \in Workers \ {w} : worker'[v] = worker[v]
          /\ worker'[w].item = worker[w].item
          /\ worker'[w].pc = "completing" => status[worker[w].item] = "SUBMITTED"
      BY <2>2, <1>typed
         DEF TypeOK, WorkerState, GetAttempt, ListAnswers, ListSpeakingRecordings, ReadError,
             EvaluateSpeaking, SubmitError, Step, Fails
    <3>2. UNCHANGED <<status, job, stt>>
      BY <2>2 DEF GetAttempt, ListAnswers, ListSpeakingRecordings, ReadError, EvaluateSpeaking,
                  SubmitError, rows
    <3> QED BY <3>1, <3>2, QueueKept
  <2>3. ASSUME DeferAssessment(w) PROVE QueueInv'
    BY <2>3, <1>typed DEF TypeOK, DeferAssessment, Release, IdleWorker, Requeued, Active, Claimed
  <2>4. ASSUME Submit(w) \/ SubmitUnacknowledged(w) PROVE QueueInv'
    <3>1. /\ \A v \in Workers \ {w} : worker'[v] = worker[v]
          /\ worker'[w].item = worker[w].item /\ worker[w].item \in Attempts
      BY <2>4, <1>typed DEF TypeOK, WorkerState, Submit, SubmitUnacknowledged, Fails
    <3>2. UNCHANGED <<job, stt>> /\ status' = [status EXCEPT ![worker[w].item] = "SUBMITTED"]
      BY <2>4 DEF Submit, SubmitUnacknowledged, Graded
    <3>3. AllTriesLeft' /\ JobWhileProcessing' /\ NoJobWhileEditable'
      BY <1>typed, <3>1, <3>2 DEF TypeOK, TriesLeft
    <3>4. \A v \in Workers : worker'[v].item = worker[v].item
      BY <3>1
    <3>5. \A v \in Workers : worker'[v].pc = "completing" =>
            worker[v].pc = "completing" \/ worker[v].item = worker[w].item
      BY <3>1
    <3>6. AtWorkOnQueued'
      BY <1>typed, <3>1, <3>2, <3>4, <3>5 DEF TypeOK
    <3> QED BY <3>3, <3>6
  <2>5. ASSUME CompleteAssessment(w) PROVE QueueInv'
    BY <2>5, <1>typed DEF TypeOK, CompleteAssessment, Release, IdleWorker, Ready, Active, Claimed
  <2>6. ASSUME FailAssessment(w) PROVE QueueInv'
    BY <2>6, <1>typed
       DEF TypeOK, FailAssessment, StatusAfterFailure, Failed, Release, IdleWorker, Active, Claimed
  <2> QED BY <1>assessment, <2>1, <2>2, <2>3, <2>4, <2>5, <2>6
<1>lease. ASSUME \/ \E p \in Parts : TranscriptionLapses(p)
                 \/ \E a \in Attempts : AssessmentLapses(a)
                 \/ \E w \in Workers, p \in Parts : RenewTranscription(w, p)
                 \/ \E w \in Workers, a \in Attempts : RenewAssessment(w, a)
          PROVE  QueueInv'
  <2>1. \A e \in Entry, x \in Claimed : e.status \in Claimed /\ TriesLeft(e)
                                        => TriesLeft([e EXCEPT !.status = x])
    BY DEF Entry, TriesLeft, Claimed
  <2>2. ASSUME NEW p \in Parts, TranscriptionLapses(p) \/ \E w \in Workers : RenewTranscription(w, p)
        PROVE  QueueInv'
    <3>1. PICK x \in Claimed : stt[p].status \in Claimed /\ stt' = [stt EXCEPT ![p].status = x]
      BY <2>2 DEF TranscriptionLapses, RenewTranscription, Claimed
    <3>2. \A q \in Parts : TriesLeft(stt'[q])
      BY <1>typed, <2>1, <3>1 DEF TypeOK
    <3>3. UNCHANGED <<status, job, worker>>
      BY <2>2 DEF TranscriptionLapses, RenewTranscription
    <3>4. AllTriesLeft'
      BY <3>2, <3>3
    <3> QED BY <3>3, <3>4, RowsMoved
  <2>3. ASSUME NEW a \in Attempts, AssessmentLapses(a) \/ \E w \in Workers : RenewAssessment(w, a)
        PROVE  QueueInv'
    <3>1. PICK x \in Claimed : job[a].status \in Claimed /\ job' = [job EXCEPT ![a].status = x]
      BY <2>3 DEF AssessmentLapses, RenewAssessment, Claimed
    <3>2. \A b \in Attempts : TriesLeft(job'[b])
      BY <1>typed, <2>1, <3>1 DEF TypeOK
    <3>3. UNCHANGED <<status, stt, worker>>
      BY <2>3 DEF AssessmentLapses, RenewAssessment
    <3>4. \A b \in Attempts : \/ job'[b] = job[b]
                              \/ job[b].status \in Active /\ job'[b].status \in Active
      BY <1>typed, <3>1 DEF TypeOK, Entry, Active
    <3>5. AllTriesLeft'
      BY <3>2, <3>3
    <3> QED BY <3>3, <3>4, <3>5, RowsMoved
  <2> QED BY <1>lease, <2>2, <2>3
<1>crash. ASSUME NEW w \in Workers, Crash(w) PROVE QueueInv'
  BY <1>crash, <1>typed, QueueKept DEF TypeOK, Crash, Release, IdleWorker, rows
<1>stutter. CASE UNCHANGED vars
  BY <1>stutter, QueueKept DEF vars
<1> QED
  BY <1>student, <1>recover, <1>transcription, <1>assessment, <1>lease, <1>crash, <1>stutter
     DEF Next, WorkerNext, Process, Environment

\* The queues are empty at first.
LEMMA QueueInit == Init => QueueInv
BY SpeakingAssumption, TriesKept
   DEF Init, QueueInv, AllTriesLeft, JobWhileProcessing, NoJobWhileEditable, AtWorkOnQueued,
       NoEntry, IdleWorker

\* No submission is ever stranded: an attempt in PROCESSING has a job that some worker
\* will still take or works on, and no row of either queue is left without a try; for
\* any number of attempts, recordings, workers, crashes and lapsed leases.
THEOREM QueuesSafe == Spec => [](NeverStranded /\ NoJobWhileEditable)
<1>1. TypeInv /\ QueueInv => NeverStranded /\ NoJobWhileEditable
  BY NeverStrandedParts DEF QueueInv
<1> QED BY <1>1, TypeInit, TypeStep, QueueInit, QueueStep, PTL DEF Spec

-------------------------------------------------------------------------------
(* Transcripts.                                                             *)

\* A worker about to store a transcript has heard the revision it names.
HearsItsRevision ==
  \A w \in Workers : At(w, "storing") => worker[w].words \in {Blank, worker[w].revision}

TranscriptInv == TranscriptIsNewest /\ HearsItsRevision

\* A step that changes nothing of the recordings and lets no worker hear anything new.
LEMMA TranscriptsKept ==
  ASSUME TranscriptInv, UNCHANGED <<revision, transcript>>,
         \A p \in Parts : stt'[p].status = "READY" => stt[p].status = "READY",
         \A w \in Workers : worker'[w] = worker[w] \/ worker'[w].pc # "storing"
  PROVE  TranscriptInv'
BY DEF TranscriptInv, TranscriptIsNewest, HearsItsRevision, At

\* Every step keeps the transcripts those of the newest recordings.
LEMMA TranscriptStep == TypeInv /\ TranscriptInv /\ [Next]_vars => TranscriptInv'
<1> SUFFICES ASSUME TypeInv, TranscriptInv, [Next]_vars PROVE TranscriptInv'
  OBVIOUS
<1>typed. TypeOK
  BY DEF TypeInv
<1>1. ASSUME NEW t \in Tabs, UpsertSpeakingRecording(t) PROVE TranscriptInv'
  BY <1>1, <1>typed, InTab
     DEF TypeOK, TranscriptInv, TranscriptIsNewest, HearsItsRevision, UpsertSpeakingRecording,
         Queued, At
<1>2. ASSUME NEW w \in Workers, Transcribe(w) PROVE TranscriptInv'
  <2>1. UNCHANGED <<revision, transcript, stt>>
    BY <1>2 DEF Transcribe, rows
  <2>2. \A v \in Workers \ {w} : worker'[v] = worker[v]
    BY <1>2, <1>typed DEF TypeOK, Transcribe, Step
  <2>3. worker'[w].pc = "storing" => worker'[w].words \in {Blank, worker'[w].revision}
    BY <1>2, <1>typed DEF TypeOK, Transcribe, Step, At, WorkerState
  <2> QED BY <2>1, <2>2, <2>3 DEF TranscriptInv, TranscriptIsNewest, HearsItsRevision, At
<1>3. ASSUME NEW w \in Workers, CompleteTranscription(w) PROVE TranscriptInv'
  <2>1. /\ worker[w].item \in Parts
        /\ worker[w].words \in {Blank, worker[w].revision}
        /\ revision' = revision
    BY <1>3, <1>typed, InHand DEF CompleteTranscription, TranscriptInv, HearsItsRevision, At
  <2>2. TranscriptIsNewest'
    BY <1>3, <1>typed, <2>1
       DEF TypeOK, TranscriptInv, TranscriptIsNewest, CompleteTranscription, SameRecording
  <2>3. HearsItsRevision'
    BY <1>3, <1>typed
       DEF TypeOK, TranscriptInv, HearsItsRevision, CompleteTranscription, Release, IdleWorker, At
  <2> QED BY <2>2, <2>3 DEF TranscriptInv
<1>student. ASSUME StudentNext, \A t \in Tabs : ~UpsertSpeakingRecording(t) PROVE TranscriptInv'
  <2>1. UNCHANGED <<revision, transcript, worker>>
    BY <1>student
       DEF StudentNext, SaveAnswers, BeginUpload, BeginSubmit, Validate, RejectRequest,
           QueueSpeakingAssessment, RetryAssessment, AbandonAttempt, rows
  <2>2. \A p \in Parts : stt'[p].status = "READY" => stt[p].status = "READY"
    <3>1. CASE \E a \in Attempts : RetryAssessment(a)
      BY <3>1, <1>typed DEF TypeOK, RetryAssessment, RetriedTranscriptions, Queued
    <3>2. CASE stt' = stt
      BY <3>2
    <3> QED
      BY <1>student, <3>1, <3>2
         DEF StudentNext, SaveAnswers, BeginUpload, BeginSubmit, Validate, RejectRequest,
             QueueSpeakingAssessment, AbandonAttempt, rows
  <2> QED BY <2>1, <2>2, TranscriptsKept
<1>worker. ASSUME NEW w \in Workers,
                  \/ RecoverSpeakingJobs(w) \/ \E p \in Parts : ClaimTranscription(w, p)
                  \/ LoadRecording(w) \/ FailTranscription(w) \/ Crash(w)
           PROVE  TranscriptInv'
  <2>1. UNCHANGED <<revision, transcript>>
    BY <1>worker DEF RecoverSpeakingJobs, ClaimTranscription, LoadRecording, FailTranscription,
       Crash, rows
  <2>2. \A p \in Parts : stt'[p].status = "READY" => stt[p].status = "READY"
    <3>1. ASSUME RecoverSpeakingJobs(w)
          PROVE  \A p \in Parts : stt'[p].status = "READY" => stt[p].status = "READY"
      BY <3>1, <1>typed DEF TypeOK, RecoverSpeakingJobs, Recovered, Requeued
    <3>2. ASSUME \E p \in Parts : ClaimTranscription(w, p)
          PROVE  \A p \in Parts : stt'[p].status = "READY" => stt[p].status = "READY"
      BY <3>2, <1>typed DEF TypeOK, ClaimTranscription, Claim
    <3>3. ASSUME FailTranscription(w)
          PROVE  \A p \in Parts : stt'[p].status = "READY" => stt[p].status = "READY"
      BY <3>3, <1>typed DEF TypeOK, FailTranscription, Failed, Entry
    <3>4. CASE stt' = stt
      BY <3>4
    <3> QED BY <1>worker, <3>1, <3>2, <3>3, <3>4 DEF LoadRecording, Crash, rows
  <2>3. \A v \in Workers : worker'[v] = worker[v] \/ worker'[v].pc # "storing"
    BY <1>worker, <1>typed
       DEF TypeOK, WorkerState, RecoverSpeakingJobs, ClaimTranscription, LoadRecording,
           FailTranscription, Crash, Release, IdleWorker
  <2> QED BY <2>1, <2>2, <2>3, TranscriptsKept
<1>assessment. ASSUME NEW w \in Workers,
                      \/ \E a \in Attempts : ClaimAssessment(w, a)
                      \/ GetAttempt(w) \/ ListAnswers(w) \/ ListSpeakingRecordings(w)
                      \/ ReadError(w) \/ DeferAssessment(w) \/ EvaluateSpeaking(w)
                      \/ Submit(w) \/ SubmitUnacknowledged(w) \/ SubmitError(w)
                      \/ CompleteAssessment(w) \/ FailAssessment(w)
               PROVE  TranscriptInv'
  <2>1. UNCHANGED <<revision, transcript, stt>>
    BY <1>assessment
       DEF ClaimAssessment, GetAttempt, ListAnswers, ListSpeakingRecordings, ReadError,
           DeferAssessment, EvaluateSpeaking, Submit, SubmitUnacknowledged, Graded, SubmitError,
           CompleteAssessment, FailAssessment, rows
  <2>2. \A v \in Workers : worker'[v] = worker[v] \/ worker'[v].pc # "storing"
    BY <1>assessment, <1>typed
       DEF TypeOK, WorkerState, ClaimAssessment, GetAttempt, ListAnswers, ListSpeakingRecordings,
           ReadError, DeferAssessment, EvaluateSpeaking, Submit, SubmitUnacknowledged, SubmitError,
           CompleteAssessment, FailAssessment, Step, Fails, Release, IdleWorker
  <2> QED BY <2>1, <2>2, TranscriptsKept
<1>lease. ASSUME \/ \E p \in Parts : TranscriptionLapses(p)
                 \/ \E a \in Attempts : AssessmentLapses(a)
                 \/ \E w \in Workers, p \in Parts : RenewTranscription(w, p)
                 \/ \E w \in Workers, a \in Attempts : RenewAssessment(w, a)
          PROVE  TranscriptInv'
  <2>1. UNCHANGED <<revision, transcript, worker>>
    BY <1>lease DEF TranscriptionLapses, AssessmentLapses, RenewTranscription, RenewAssessment
  <2>2. \A p \in Parts : stt'[p].status = "READY" => stt[p].status = "READY"
    BY <1>lease, <1>typed
       DEF TypeOK, Entry, TranscriptionLapses, AssessmentLapses, RenewTranscription, RenewAssessment
  <2> QED BY <2>1, <2>2, TranscriptsKept
<1>stutter. CASE UNCHANGED vars
  BY <1>stutter, TranscriptsKept DEF vars
<1> QED
  BY <1>1, <1>2, <1>3, <1>student, <1>worker, <1>assessment, <1>lease, <1>stutter
     DEF Next, WorkerNext, Process, Environment

\* However many workers transcribe however many revisions, a finished transcript is of
\* the newest recording: "completion from an obsolete worker cannot overwrite the newer
\* result" (docs/SPEAKING_STT.md).
THEOREM NewestTranscript == Spec => []TranscriptIsNewest
<1>1. Init => TranscriptInv
  BY DEF Init, TranscriptInv, TranscriptIsNewest, HearsItsRevision, NoEntry, IdleWorker, At
<1>2. TranscriptInv => TranscriptIsNewest
  BY DEF TranscriptInv
<1> QED BY <1>1, <1>2, TypeInit, TypeStep, TranscriptStep, PTL DEF Spec

-------------------------------------------------------------------------------
(* Grading.                                                                 *)

\* A submit request brings a text for a part of its own attempt.
OwnInput ==
  \A t \in Tabs :
    tab[t].stage \in {"submitting", "validated"} /\ tab[t].input # None
      => AttemptOf[tab[t].input.part] = tab[t].item

\* What a worker has evaluated or sent to be evaluated has no silent part.
NothingSilent ==
  \A w \in Workers : worker[w].pc \in {"evaluating", "persisting"} =>
    \A p \in PartsOf(worker[w].item) : worker[w].words[p] # Blank

\* The two halves of GradedOnce.
Counted == completed = Cardinality({a \in Attempts : status[a] = "SUBMITTED"})

MarkMatchesText ==
  \A p \in Parts :
    IF status[AttemptOf[p]] = "SUBMITTED"
    THEN evaluation[p] = answers[p] /\ answers[p] # Blank
    ELSE evaluation[p] = None

GradeInv == OwnInput /\ NothingSilent /\ Counted /\ MarkMatchesText

\* The number of graded attempts goes up by one when one more is graded.
LEMMA OneMoreGraded ==
  ASSUME NEW st, NEW S, IsFiniteSet(S), NEW a \in S, st[a] # "SUBMITTED", st \in [S -> Status]
  PROVE  Cardinality({b \in S : [st EXCEPT ![a] = "SUBMITTED"][b] = "SUBMITTED"})
           = Cardinality({b \in S : st[b] = "SUBMITTED"}) + 1
<1> DEFINE G == {b \in S : st[b] = "SUBMITTED"}
<1>1. {b \in S : [st EXCEPT ![a] = "SUBMITTED"][b] = "SUBMITTED"} = G \cup {a}
  OBVIOUS
<1>2. IsFiniteSet(G) /\ a \notin G
  BY FS_Subset
<1> QED BY <1>1, <1>2, FS_AddElement

\* A step that grades nothing and changes no text of a graded attempt.
LEMMA GradesKept ==
  ASSUME TypeInv, GradeInv, UNCHANGED <<evaluation, completed>>,
         \A a \in Attempts : status'[a] = "SUBMITTED" <=> status[a] = "SUBMITTED",
         \A p \in Parts : status[AttemptOf[p]] = "SUBMITTED" => answers'[p] = answers[p]
  PROVE  Counted' /\ MarkMatchesText'
<1>1. {a \in Attempts : status'[a] = "SUBMITTED"} = {a \in Attempts : status[a] = "SUBMITTED"}
  OBVIOUS
<1>2. Counted'
  BY <1>1 DEF GradeInv, Counted
<1>3. MarkMatchesText'
  BY SpeakingAssumption DEF GradeInv, MarkMatchesText
<1> QED BY <1>2, <1>3

\* A worker that changes its step: it has nothing new to evaluate.
LEMMA SilenceKept ==
  ASSUME GradeInv,
         \A w \in Workers : \/ worker'[w] = worker[w]
                            \/ worker'[w].pc \notin {"evaluating", "persisting"}
                            \/ /\ worker[w].pc = "evaluating"
                               /\ worker'[w].item = worker[w].item
                               /\ worker'[w].words = worker[w].words
  PROVE  NothingSilent'
BY DEF GradeInv, NothingSilent, PartsOf

\* Every step keeps the marks those of the texts.
LEMMA GradeStep == TypeInv /\ GradeInv /\ [Next]_vars => GradeInv'
<1> SUFFICES ASSUME TypeInv, GradeInv, [Next]_vars PROVE GradeInv'
  OBVIOUS
<1>typed. TypeOK
  BY DEF TypeInv
<1>save. ASSUME NEW p \in Parts, NEW x \in {Blank, Typed}, SaveAnswers(p, x) PROVE GradeInv'
  <2>1. Counted' /\ MarkMatchesText'
    BY <1>save, <1>typed, GradesKept DEF TypeOK, SaveAnswers, MaySave
  <2> QED BY <1>save, <2>1 DEF GradeInv, OwnInput, NothingSilent, SaveAnswers
<1>request. ASSUME NEW t \in Tabs,
                   \/ \E p \in Parts : BeginUpload(t, p)
                   \/ \E a \in Attempts, input \in Inputs : BeginSubmit(t, a, input)
                   \/ UpsertSpeakingRecording(t) \/ Validate(t) \/ RejectRequest(t)
            PROVE  GradeInv'
  <2>1. UNCHANGED <<status, answers, evaluation, completed, worker>>
    BY <1>request DEF BeginUpload, BeginSubmit, UpsertSpeakingRecording, Validate, RejectRequest, rows
  <2>2. Counted' /\ MarkMatchesText'
    BY <2>1, GradesKept
  <2>3. OwnInput'
    <3>1. /\ \A s \in Tabs \ {t} : tab'[s] = tab[s]
          /\ \/ tab'[t].stage \in {"idle", "uploading"}
             \/ tab'[t].input # None => AttemptOf[tab'[t].input.part] = tab'[t].item
      <4>1. CASE \E p \in Parts : BeginUpload(t, p)
        BY <4>1, <1>typed DEF TypeOK, BeginUpload, IdleTab
      <4>2. CASE \E a \in Attempts, input \in Inputs : BeginSubmit(t, a, input)
        BY <4>2, <1>typed DEF TypeOK, BeginSubmit
      <4>3. CASE UpsertSpeakingRecording(t) \/ RejectRequest(t)
        BY <4>3, <1>typed DEF TypeOK, UpsertSpeakingRecording, RejectRequest, IdleTab
      <4>4. CASE Validate(t)
        <5>1. tab[t] \in [stage : {"submitting"}, item : Attempts, input : Inputs, texts : SUBSET Parts]
          BY <4>4, <1>typed DEF TypeOK, Validate, TabState, IdleTab
        <5>2. /\ tab'[t].input = tab[t].input /\ tab'[t].item = tab[t].item
              /\ \A s \in Tabs \ {t} : tab'[s] = tab[s]
          BY <4>4, <1>typed, <5>1 DEF TypeOK, Validate
        <5> QED BY <5>1, <5>2 DEF GradeInv, OwnInput
      <4> QED BY <1>request, <4>1, <4>2, <4>3, <4>4
    <3> QED BY <3>1 DEF GradeInv, OwnInput
  <2> QED BY <2>1, <2>2, <2>3 DEF GradeInv, NothingSilent
<1>queue. ASSUME NEW t \in Tabs, QueueSpeakingAssessment(t) PROVE GradeInv'
  <2>1. /\ tab[t].item \in Attempts /\ tab[t].input \in Inputs
        /\ tab[t].input # None => AttemptOf[tab[t].input.part] = tab[t].item
    BY <1>queue, <1>typed, InTab DEF GradeInv, OwnInput, QueueSpeakingAssessment
  <2>2. \A p \in Parts : status[AttemptOf[p]] = "SUBMITTED" => answers'[p] = answers[p]
    BY <1>queue, <1>typed, <2>1, SpeakingAssumption
       DEF TypeOK, Inputs, QueueSpeakingAssessment, MaySave, Applied
  <2>3. Counted' /\ MarkMatchesText'
    BY <1>queue, <1>typed, <2>1, <2>2, GradesKept DEF TypeOK, QueueSpeakingAssessment, MaySave
  <2>4. OwnInput' /\ NothingSilent'
    BY <1>queue, <1>typed
       DEF TypeOK, IdleTab, GradeInv, OwnInput, NothingSilent, QueueSpeakingAssessment
  <2> QED BY <2>3, <2>4 DEF GradeInv
<1>attempt. ASSUME NEW a \in Attempts, RetryAssessment(a) \/ AbandonAttempt(a) PROVE GradeInv'
  <2>1. Counted' /\ MarkMatchesText'
    BY <1>attempt, <1>typed, GradesKept DEF TypeOK, RetryAssessment, AbandonAttempt
  <2> QED BY <1>attempt, <2>1 DEF GradeInv, OwnInput, NothingSilent, RetryAssessment, AbandonAttempt
<1>work. ASSUME NEW w \in Workers,
                \/ RecoverSpeakingJobs(w) \/ \E p \in Parts : ClaimTranscription(w, p)
                \/ LoadRecording(w) \/ Transcribe(w)
                \/ CompleteTranscription(w) \/ FailTranscription(w)
                \/ \E a \in Attempts : ClaimAssessment(w, a)
                \/ GetAttempt(w) \/ ListAnswers(w)
                \/ ReadError(w) \/ DeferAssessment(w) \/ EvaluateSpeaking(w)
                \/ SubmitError(w) \/ CompleteAssessment(w) \/ Crash(w)
         PROVE  GradeInv'
  <2>1. UNCHANGED <<status, answers, evaluation, completed, tab>>
    BY <1>work
       DEF RecoverSpeakingJobs, ClaimTranscription, LoadRecording, Transcribe, CompleteTranscription,
           FailTranscription, ClaimAssessment, GetAttempt, ListAnswers, ReadError, DeferAssessment,
           EvaluateSpeaking, SubmitError, CompleteAssessment, Crash, rows
  <2>2. Counted' /\ MarkMatchesText'
    BY <2>1, GradesKept
  <2>3. NothingSilent'
    BY <1>work, <1>typed, SilenceKept
       DEF TypeOK, WorkerState, RecoverSpeakingJobs, ClaimTranscription, LoadRecording, Transcribe,
           CompleteTranscription, FailTranscription, ClaimAssessment, GetAttempt, ListAnswers,
           ReadError, DeferAssessment, EvaluateSpeaking, SubmitError, CompleteAssessment, Crash,
           At, Step, Fails, Release, IdleWorker
  <2> QED BY <2>1, <2>2, <2>3 DEF GradeInv, OwnInput
<1>listen. ASSUME NEW w \in Workers, ListSpeakingRecordings(w) PROVE GradeInv'
  <2>1. UNCHANGED <<status, answers, evaluation, completed, tab>>
    BY <1>listen DEF ListSpeakingRecordings, rows
  <2>2. Counted' /\ MarkMatchesText'
    BY <2>1, GradesKept
  <2>3. NothingSilent'
    <3>1. /\ \A v \in Workers \ {w} : worker'[v] = worker[v]
          /\ worker'[w].item = worker[w].item
          /\ worker'[w].pc \in {"evaluating", "persisting"} =>
               \A p \in PartsOf(worker[w].item) : worker'[w].words[p] # Blank
      BY <1>listen, <1>typed
         DEF TypeOK, WorkerState, ListSpeakingRecordings, Unheard, Fails, At
    <3> QED BY <3>1 DEF GradeInv, NothingSilent, PartsOf
  <2> QED BY <2>1, <2>2, <2>3 DEF GradeInv, OwnInput
<1>submit. ASSUME NEW w \in Workers, Submit(w) \/ SubmitUnacknowledged(w) PROVE GradeInv'
  <2> DEFINE a == worker[w].item
  <2>1. /\ a \in Attempts /\ worker[w].words \in [Parts -> Words]
        /\ \A p \in PartsOf(a) : worker[w].words[p] # Blank
        /\ Graded(a, worker[w].words)
    BY <1>submit, <1>typed, InHand DEF GradeInv, NothingSilent, Submit, SubmitUnacknowledged, At
  <2>2. Counted'
    BY <1>typed, <2>1, OneMoreGraded, SpeakingAssumption
       DEF TypeOK, GradeInv, Counted, Graded, MayGrade
  <2>3. MarkMatchesText'
    BY <1>typed, <2>1, SpeakingAssumption
       DEF TypeOK, GradeInv, MarkMatchesText, Graded, PartsOf
  <2>4. NothingSilent'
    <3>1. \A v \in Workers : worker'[v] = worker[v] \/ worker'[v].pc \notin {"evaluating", "persisting"}
      BY <1>submit, <1>typed DEF TypeOK, WorkerState, Submit, SubmitUnacknowledged, Fails
    <3> QED BY <3>1, SilenceKept
  <2>5. OwnInput'
    BY <2>1 DEF GradeInv, OwnInput, Graded
  <2> QED BY <2>2, <2>3, <2>4, <2>5 DEF GradeInv
<1>fail. ASSUME NEW w \in Workers, FailAssessment(w) PROVE GradeInv'
  <2>1. \A b \in Attempts : status'[b] = "SUBMITTED" <=> status[b] = "SUBMITTED"
    BY <1>fail, <1>typed DEF TypeOK, FailAssessment, StatusAfterFailure
  <2>2. UNCHANGED <<answers, evaluation, completed, tab>>
    BY <1>fail DEF FailAssessment
  <2>3. Counted' /\ MarkMatchesText'
    BY <2>1, <2>2, GradesKept
  <2>4. NothingSilent'
    BY <1>fail, <1>typed, SilenceKept DEF TypeOK, FailAssessment, Release, IdleWorker
  <2> QED BY <2>2, <2>3, <2>4 DEF GradeInv, OwnInput
<1>lease. ASSUME \/ \E p \in Parts : TranscriptionLapses(p)
                 \/ \E a \in Attempts : AssessmentLapses(a)
                 \/ \E w \in Workers, p \in Parts : RenewTranscription(w, p)
                 \/ \E w \in Workers, a \in Attempts : RenewAssessment(w, a)
                 \/ UNCHANGED vars
          PROVE  GradeInv'
  <2>1. UNCHANGED <<status, answers, evaluation, completed, tab, worker>>
    BY <1>lease DEF TranscriptionLapses, AssessmentLapses, RenewTranscription, RenewAssessment, vars
  <2>2. Counted' /\ MarkMatchesText'
    BY <2>1, GradesKept
  <2> QED BY <2>1, <2>2 DEF GradeInv, OwnInput, NothingSilent
<1> QED
  BY <1>save, <1>request, <1>queue, <1>attempt, <1>work, <1>listen, <1>submit, <1>fail, <1>lease
     DEF Next, StudentNext, WorkerNext, Process, Environment

\* Nothing is graded at first.
LEMMA GradeInit == Init => GradeInv
<1> SUFFICES ASSUME Init PROVE GradeInv
  OBVIOUS
<1>1. {a \in Attempts : status[a] = "SUBMITTED"} = {}
  BY DEF Init
<1>2. Counted
  BY <1>1, FS_EmptySet DEF Init, Counted
<1> QED
  BY <1>2, SpeakingAssumption
     DEF Init, GradeInv, OwnInput, NothingSilent, MarkMatchesText, IdleTab, IdleWorker

\* Each graded attempt is counted once, no part of it is silent, and what was graded is
\* what is shown; for any number of workers that grade it.
THEOREM GradedExactlyOnce == Spec => []GradedOnce
<1>1. GradeInv => GradedOnce
  BY DEF GradeInv, Counted, MarkMatchesText, GradedOnce
<1> QED BY <1>1, TypeInit, TypeStep, GradeInit, GradeStep, PTL DEF Spec

-------------------------------------------------------------------------------
(* What the rest of the system sees of the assessment queue.                *)

\* Every step is a step of AssessmentJob, or none.
LEMMA StepRows == TypeInv /\ QueueInv /\ [Next]_vars => [Rows!Next]_(Rows!vars)
<1> SUFFICES ASSUME TypeInv, QueueInv, [Next]_vars PROVE Rows!Next \/ UNCHANGED Rows!vars
  OBVIOUS
<1> USE SpeakingAssumption DEF Rows!vars
<1>0. TypeOK /\ JobWhileProcessing /\ NoJobWhileEditable /\ AtWorkOnQueued
  BY DEF TypeInv, QueueInv
<1>1. ASSUME NEW t \in Tabs, QueueSpeakingAssessment(t) PROVE Rows!Next
  <2>1. PICK a \in Attempts : a = tab[t].item
    BY <1>0, <1>1, InTab DEF QueueSpeakingAssessment
  <2>2. Rows!Queue(a)
    BY <1>0, <1>1, <2>1 DEF TypeOK, QueueSpeakingAssessment, MaySave, Queued, Active, Rows!Queue
  <2> QED BY <2>1, <2>2 DEF Rows!Next
<1>2. ASSUME NEW a \in Attempts, RetryAssessment(a) PROVE Rows!Next
  <2>1. Rows!Queue(a)
    BY <1>0, <1>2 DEF TypeOK, RetryAssessment, Queued, Active, Rows!Queue
  <2> QED BY <2>1 DEF Rows!Next
<1>3. ASSUME NEW a \in Attempts, AbandonAttempt(a) PROVE Rows!Next
  <2>1. Rows!Abandon(a)
    BY <1>3 DEF AbandonAttempt, Rows!Abandon
  <2> QED BY <2>1 DEF Rows!Next
<1>4. ASSUME NEW w \in Workers, Submit(w) \/ SubmitUnacknowledged(w) PROVE Rows!Next
  <2>1. PICK a \in Attempts : a = worker[w].item
    BY <1>0, <1>4, InHand DEF Submit, SubmitUnacknowledged, At
  <2>2. job[a].status # "NONE"
    BY <1>0, <2>1 DEF AtWorkOnQueued
  <2>3. Rows!Grade(a)
    BY <1>0, <1>4, <2>1, <2>2
       DEF TypeOK, Submit, SubmitUnacknowledged, Graded, MayGrade, Rows!Grade
  <2> QED BY <2>1, <2>3 DEF Rows!Next
<1>5. ASSUME NEW w \in Workers, CompleteAssessment(w) PROVE Rows!Next
  <2>1. PICK a \in Attempts : a = worker[w].item
    BY <1>0, <1>5, InHand DEF CompleteAssessment, At
  <2>2. job[a].status # "NONE" /\ status[a] = "SUBMITTED"
    BY <1>0, <1>5, <2>1 DEF AtWorkOnQueued, CompleteAssessment
  <2>3. job' = [job EXCEPT ![a] = Ready(@)] /\ status' = status /\ job[a] \in Entry
    BY <1>0, <1>5, <2>1 DEF TypeOK, CompleteAssessment
  <2>4. Rows!Close(a)
    BY <1>0, <2>2, <2>3 DEF TypeOK, Entry, Ready, Active, Claimed, Rows!Close
  <2> QED BY <2>1, <2>4 DEF Rows!Next
<1>6. ASSUME NEW w \in Workers, FailAssessment(w) PROVE Rows!Next \/ UNCHANGED Rows!vars
  <2>1. PICK a \in Attempts : a = worker[w].item
    BY <1>0, <1>6, InHand DEF FailAssessment, At
  <2>2. /\ job' = [job EXCEPT ![a] = Failed(@)]
        /\ status' = [status EXCEPT ![a] = StatusAfterFailure(a, Failed(job[a]))]
        /\ job[a] \in Entry
    BY <1>0, <1>6, <2>1 DEF TypeOK, FailAssessment
  <2>3. CASE job[a].status \in Claimed /\ job[a].tries >= MaxTries
    <3>1. Failed(job[a]).status = "FAILED" /\ job[a].status \in Active
      BY <2>2, <2>3 DEF Failed, Entry, Active
    <3>2. Rows!GiveUp(a)
      BY <1>0, <2>2, <3>1 DEF TypeOK, StatusAfterFailure, Active, Claimed, Rows!GiveUp
    <3> QED BY <2>1, <3>2 DEF Rows!Next
  <2>4. CASE ~(job[a].status \in Claimed /\ job[a].tries >= MaxTries)
    <3>1. \/ Failed(job[a]) = job[a]
          \/ Failed(job[a]).status = "QUEUED" /\ job[a].status \in Active
      BY <2>2, <2>4 DEF Failed, Entry, Active
    <3>2. status' = status
      BY <1>0, <2>2, <3>1 DEF TypeOK, StatusAfterFailure, JobWhileProcessing, Active, Claimed
    <3> QED BY <1>0, <2>2, <3>1, <3>2 DEF TypeOK, Active
  <2> QED BY <2>3, <2>4
<1>7. ASSUME status' = status,
             \A a \in Attempts : \/ job'[a] = job[a]
                                 \/ job[a].status \in Active /\ job'[a].status \in Active
      PROVE  UNCHANGED Rows!vars
  BY <1>7
<1>8. ASSUME NEW w \in Workers, \E a \in Attempts : ClaimAssessment(w, a) PROVE UNCHANGED Rows!vars
  BY <1>0, <1>7, <1>8 DEF TypeOK, ClaimAssessment, Due, Claim, Active, Claimed
<1>9. ASSUME NEW w \in Workers, RecoverSpeakingJobs(w) PROVE UNCHANGED Rows!vars
  <2>1. \A a \in Attempts : job'[a] = Recovered(job[a])
    BY <1>9 DEF RecoverSpeakingJobs
  <2> QED BY <1>7, <1>9, <2>1, RecoveredRow DEF RecoverSpeakingJobs
<1>10. ASSUME NEW w \in Workers, DeferAssessment(w) PROVE UNCHANGED Rows!vars
  BY <1>0, <1>7, <1>10 DEF TypeOK, DeferAssessment, Requeued, Active
<1>11. ASSUME NEW a \in Attempts, AssessmentLapses(a) \/ \E w \in Workers : RenewAssessment(w, a)
       PROVE  UNCHANGED Rows!vars
  <2>1. PICK x \in Claimed : job[a].status \in Claimed /\ job' = [job EXCEPT ![a].status = x]
    BY <1>11 DEF AssessmentLapses, RenewAssessment, Claimed
  <2> QED BY <1>0, <1>7, <1>11, <2>1 DEF TypeOK, Entry, Active, AssessmentLapses, RenewAssessment
<1>12. ASSUME NEW w \in Workers,
              \/ \E p \in Parts : ClaimTranscription(w, p) \/ RenewTranscription(w, p)
              \/ LoadRecording(w) \/ Transcribe(w) \/ CompleteTranscription(w)
              \/ FailTranscription(w) \/ GetAttempt(w) \/ ListAnswers(w)
              \/ ListSpeakingRecordings(w) \/ ReadError(w) \/ EvaluateSpeaking(w)
              \/ SubmitError(w) \/ Crash(w)
       PROVE  UNCHANGED Rows!vars
  BY <1>12
     DEF ClaimTranscription, RenewTranscription, LoadRecording, Transcribe, CompleteTranscription,
         FailTranscription, GetAttempt, ListAnswers, ListSpeakingRecordings, ReadError,
         EvaluateSpeaking, SubmitError, Crash, rows
<1>13. ASSUME \/ \E p \in Parts : TranscriptionLapses(p)
              \/ \E p \in Parts, x \in {Blank, Typed} : SaveAnswers(p, x)
              \/ \E t \in Tabs, p \in Parts : BeginUpload(t, p)
              \/ \E t \in Tabs, a \in Attempts, input \in Inputs : BeginSubmit(t, a, input)
              \/ \E t \in Tabs : UpsertSpeakingRecording(t) \/ Validate(t) \/ RejectRequest(t)
              \/ UNCHANGED vars
       PROVE  UNCHANGED Rows!vars
  BY <1>13
     DEF TranscriptionLapses, SaveAnswers, BeginUpload, BeginSubmit, UpsertSpeakingRecording,
         Validate, RejectRequest, rows, vars
<1> QED
  BY <1>1, <1>2, <1>3, <1>4, <1>5, <1>6, <1>8, <1>9, <1>10, <1>11, <1>12, <1>13
     DEF Next, StudentNext, WorkerNext, Process, Environment

\* The attempt and job rows of the pipeline move as the machine AssessmentJob says, also
\* when assessments are deferred and leases lapse under live workers: FullMock, built on
\* that machine, holds for Speaking as well.
THEOREM ImplementsRows == Spec => RowsSafety
<1>1. Init => Rows!Init
  BY DEF Init, Rows!Init, NoEntry, Active, Claimed
<1> QED
  BY <1>1, TypeInit, TypeStep, QueueInit, QueueStep, StepRows, PTL DEF Spec, RowsSafety, Rows!Spec
===============================================================================
