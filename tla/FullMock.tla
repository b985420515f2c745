-------------------------------- MODULE FullMock --------------------------------
(***************************************************************************)
(* One Full Mock session: four sections taken in order, each an attempt    *)
(* with a clock of its own that runs, is paused or has expired.            *)
(*                                                                         *)
(*   internal/fullmock/service.go      the request handlers                *)
(*   internal/fullmock/repository.go   their transactions                  *)
(*   internal/attempts                 the attempts and their jobs         *)
(*                                                                         *)
(* A request reads the session and then acts in several transactions on    *)
(* what it read; each of its steps is an action, so that the requests of   *)
(* several tabs, the grading workers (module AssessmentJob) and the clock  *)
(* interleave.  Time is counted in ticks, the same for API and database.   *)
(* The parts of a Speaking section are one part here: its response is the  *)
(* transcript that was typed, or a recording, of which the last is kept.   *)
(***************************************************************************)
EXTENDS Integers

CONSTANTS
  Last,        \* number of sections: positions are 1..Last
  Objective,   \* positions graded at once; the others are assessed by a job
  Speaking,    \* assessed positions whose response may be recorded
  Requests,    \* requests the student can have in flight
  Guest,       \* TRUE for the visitor of a guest trial
  Budget,      \* minutes of a section, in ticks
  MaxTime,     \* bound on the clock
  MaxTakes     \* bound on the recordings uploaded of a section

ASSUME FullMockAssumption ==
  /\ Last \in Nat \ {0}
  /\ Objective \subseteq 1..Last
  /\ Speaking \subseteq (1..Last) \ Objective
  /\ Guest \in BOOLEAN
  /\ Budget \in Nat \ {0}
  /\ MaxTime \in Nat
  /\ MaxTakes \in Nat

Sections == 1..Last

VARIABLES
  session,   \* full_mock_sessions: status and current_section
  status,    \* attempts.status of each section
  job,       \* its assessment job, as AssessmentJob sees it
  complete,  \* the saved response has no blank part
  revision,  \* speaking_recordings.revision of each section, 0 if it has no recording
  clock,     \* deadline_at and remaining_milliseconds, 0 for NULL
  now,
  request,   \* progress of each request
  used       \* history: ticks each section's clock has run

vars == <<session, status, job, complete, revision, clock, now, request, used>>
attempt == <<status, job, complete, revision>>

Idle == [op |-> "none", at |-> "idle", pos |-> 1]

\* Requests about the session, and requests about an attempt that found its clock
\* run out ("late"), deal with an expired section first.
Handlers == {"open", "view", "pause", "advance", "finish", "late"}

RequestState ==
  {Idle}
  \cup [op : Handlers, pos : Sections,
        at : {"opening", "late", "expiring", "grading", "queueing", "abandoning", "deciding", "acting"}]
  \cup [op : {"save", "submit", "upload"}, pos : Sections, at : {"acting"}]
  \cup [op : {"submit"}, pos : Sections, at : {"queueing"}]

TypeOK ==
  /\ session \in [status : {"IN_PROGRESS", "ABANDONED"}, current : Sections]
                 \cup [status : {"SUBMITTED"}, current : {Last + 1}]
  /\ status \in [Sections -> {"IN_PROGRESS", "PROCESSING", "SUBMITTED", "ABANDONED"}]
  /\ job \in [Sections -> {"NONE", "ACTIVE", "READY", "FAILED"}]
  /\ complete \in [Sections -> BOOLEAN]
  /\ revision \in [Sections -> 0..MaxTakes]
  /\ clock \in [Sections -> [deadline : 0..(MaxTime + Budget), left : 0..Budget]]
  /\ now \in 0..MaxTime
  /\ request \in [Requests -> RequestState]
  /\ used \in [Sections -> Nat]

Init ==
  /\ session = [status |-> "IN_PROGRESS", current |-> 1]
  /\ status = [p \in Sections |-> "IN_PROGRESS"]
  /\ job = [p \in Sections |-> "NONE"]
  /\ complete = [p \in Sections |-> FALSE]
  /\ revision = [p \in Sections |-> 0]
  /\ clock = [p \in Sections |-> [deadline |-> 0, left |-> 0]]
  /\ now = 0
  /\ request = [r \in Requests |-> Idle]
  /\ used = [p \in Sections |-> 0]

\* The attempt and its job, as the grading pipeline and the student move them.
Rows == INSTANCE AssessmentJob WITH Attempts <- Sections

Open == session.status = "IN_PROGRESS"
Running(p) == clock[p].deadline # 0

-------------------------------------------------------------------------------
(* Faulty variants, the slips the properties are there to notice.           *)

OpenedAgain(p) == [deadline |-> now + Budget, left |-> 0]

OpenedWithBonus(p) ==
  IF Running(p) THEN clock[p] ELSE [deadline |-> now + clock[p].left + Budget, left |-> 0]

ExpiredAtDeadline(p) == Running(p) /\ now >= clock[p].deadline

MayWorkAhead(p) == Open /\ p >= session.current

MayAdvanceStale(p) == Open

LeavesSectionBlank(p) == TRUE

PendingIgnoresProcessing == \E p \in Sections : job[p] = "FAILED"

-------------------------------------------------------------------------------
(* Reading the session, opening a section.                                  *)

Goto(r, at) == request' = [request EXCEPT ![r].at = at]
Done(r) == request' = [request EXCEPT ![r] = Idle]

\* What a request does once an expired section is dealt with.
AfterExpiry(op) ==
  CASE op \in {"open", "view", "late"} -> "idle"
    [] op = "pause" -> "acting"
    [] op \in {"advance", "finish"} -> "deciding"

Continue(r) ==
  LET next == AfterExpiry(request[r].op)
  IN IF next = "idle" THEN Done(r) ELSE Goto(r, next)

\* GetSession: what is read here, that the session is in progress and where it
\* stands, the request relies on in its later steps.
GetSession(r, op) ==
  /\ request[r] = Idle
  /\ Open
  /\ request' = [request EXCEPT ![r] =
       [op |-> op, at |-> IF op = "open" THEN "opening" ELSE "expiring", pos |-> session.current]]
  /\ UNCHANGED <<session, attempt, clock, now, used>>

\* StartSection, with the session row locked: the first opening starts the clock,
\* a later one resumes a paused clock, and a running clock is left alone.
Opened(p) ==
  IF Running(p) THEN clock[p]
  ELSE [deadline |-> now + (IF clock[p].left # 0 THEN clock[p].left ELSE Budget), left |-> 0]

StartSection(r) ==
  LET p == request[r].pos
  IN /\ request[r].at = "opening"
     /\ IF Open /\ session.current = p
        THEN /\ clock' = IF status[p] = "IN_PROGRESS" THEN [clock EXCEPT ![p] = Opened(p)] ELSE clock
             /\ Goto(r, "expiring")
        ELSE Done(r) /\ UNCHANGED clock
     /\ UNCHANGED <<session, attempt, now, used>>

-------------------------------------------------------------------------------
(* expireSection: on any request after the deadline, the saved responses of  *)
(* the section are handed in, or the section is closed if they are blank.    *)

Expired(p) == Running(p) /\ now > clock[p].deadline

\* assessmentBlocksReport: GetStatus shows the job of an attempt not yet closed.
Blocks(p) ==
  status[p] \in {"IN_PROGRESS", "PROCESSING"} /\ job[p] \in {"ACTIVE", "FAILED"}

ExpireSection(r) ==
  LET p == request[r].pos
  IN /\ request[r].at = "expiring"
     /\ IF status[p] = "IN_PROGRESS" /\ Expired(p) /\ ~Blocks(p)
        THEN Goto(r, "grading") ELSE Continue(r)
     /\ UNCHANGED <<session, attempt, clock, now, used>>

\* submitSpeaking: a recording stands for the transcript that was not typed.
Recorded(p) == p \in Speaking /\ revision[p] > 0

\* SubmitSavedForExpiredExam, up to its first transaction that changes the attempt.
SubmitSaved(r) ==
  LET p == request[r].pos
  IN /\ request[r].at = "grading"
     /\ IF status[p] # "IN_PROGRESS" THEN Continue(r) /\ UNCHANGED status
        ELSE IF p \in Objective
        THEN status' = [status EXCEPT ![p] = "SUBMITTED"] /\ Continue(r)
        ELSE Goto(r, IF complete[p] \/ Recorded(p) THEN "queueing" ELSE "abandoning") /\ UNCHANGED status
     /\ UNCHANGED <<session, job, complete, revision, clock, now, used>>

\* The daily limit refuses the grading, and with it the whole request.
DailyLimitExceeded(r) ==
  /\ request[r].at = "queueing"
  /\ Done(r)
  /\ UNCHANGED <<session, attempt, clock, now, used>>

\* QueueWritingAssessment / QueueSpeakingAssessment, of saved responses or of the
\* student's own submit, whose response is stored with it, whole or recorded.
QueueAssessment(r) ==
  LET p == request[r].pos
      own == request[r].op = "submit"
  IN /\ request[r].at = "queueing"
     /\ IF status[p] = "IN_PROGRESS"
        THEN /\ Rows!Queue(p)
             /\ \E b \in BOOLEAN :
                  /\ IF own THEN b \/ Recorded(p) ELSE b = complete[p]
                  /\ complete' = [complete EXCEPT ![p] = b]
        ELSE UNCHANGED <<status, job, complete>>
     /\ IF own THEN Done(r) ELSE Continue(r)
     /\ UNCHANGED <<session, revision, clock, now, used>>

AbandonSection(r) ==
  LET p == request[r].pos
  IN /\ request[r].at = "abandoning"
     /\ IF status[p] = "IN_PROGRESS" THEN Rows!Abandon(p) ELSE UNCHANGED <<status, job>>
     /\ Continue(r)
     /\ UNCHANGED <<session, complete, revision, clock, now, used>>

-------------------------------------------------------------------------------
(* Pause, Advance, Finish, Abandon.                                         *)

\* PauseSection, with the session row locked.  An expired clock cannot be paused.
MayPause(p) ==
  status[p] = "IN_PROGRESS" /\ (clock[p].left # 0 \/ (Running(p) /\ clock[p].deadline > now))

Paused(p) ==
  [deadline |-> 0,
   left |-> IF clock[p].left # 0 THEN clock[p].left
            ELSE IF clock[p].deadline > now THEN clock[p].deadline - now ELSE 1]

PauseSection(r) ==
  LET p == request[r].pos
  IN /\ request[r].at = "acting" /\ request[r].op = "pause"
     /\ clock' = IF Open /\ session.current = p /\ MayPause(p)
                 THEN [clock EXCEPT ![p] = Paused(p)] ELSE clock
     /\ Done(r)
     /\ UNCHANGED <<session, attempt, now, used>>

\* The checks of the Advance handler, on the sections as listed now.
LeavesSection(p) == status[p] # "IN_PROGRESS"

DecideAdvance(r) ==
  LET p == request[r].pos
  IN /\ request[r].at = "deciding" /\ request[r].op = "advance"
     /\ IF LeavesSection(p) /\ (p = Last => \A q \in Sections : status[q] # "PROCESSING" /\ ~Blocks(q))
        THEN Goto(r, "acting") ELSE Done(r)
     /\ UNCHANGED <<session, attempt, clock, now, used>>

\* The checks of the Finish handler; a guest must have been through all sections.
DecideFinish(r) ==
  /\ request[r].at = "deciding" /\ request[r].op = "finish"
  /\ IF /\ \A q \in Sections : status[q] # "PROCESSING" /\ ~Blocks(q)
        /\ Guest => request[r].pos = Last /\ \A q \in Sections : status[q] # "IN_PROGRESS"
     THEN Goto(r, "acting") ELSE Done(r)
  /\ UNCHANGED <<session, attempt, clock, now, used>>

\* Repository.Advance: one conditional update, so that of two tabs one advances.
MayAdvance(p) == Open /\ session.current = p

Advance(r) ==
  LET p == request[r].pos
  IN /\ request[r].at = "acting" /\ request[r].op = "advance" /\ p # Last
     /\ session' = IF MayAdvance(p) THEN [session EXCEPT !.current = p + 1] ELSE session
     /\ Done(r)
     /\ UNCHANGED <<attempt, clock, now, used>>

\* Repository.Finish: session and attempts locked, pending assessments looked for
\* again, attempts still held by the student closed, all in one transaction.
Pending == \E p \in Sections : status[p] = "PROCESSING" \/ job[p] \in {"ACTIVE", "FAILED"}

Closed == [p \in Sections |-> IF status[p] = "IN_PROGRESS" THEN "ABANDONED" ELSE status[p]]

Finish(r) ==
  /\ request[r].at = "acting"
  /\ request[r].op = "finish" \/ (request[r].op = "advance" /\ request[r].pos = Last)
  /\ IF Open /\ ~Pending
     THEN /\ session' = [status |-> "SUBMITTED", current |-> Last + 1]
          /\ status' = Closed
     ELSE UNCHANGED <<session, status>>
  /\ Done(r)
  /\ UNCHANGED <<job, complete, revision, clock, now, used>>

\* A restart abandons the session and the attempts the student still holds.
Abandon ==
  /\ Open
  /\ session' = [session EXCEPT !.status = "ABANDONED"]
  /\ status' = Closed
  /\ UNCHANGED <<job, complete, revision, clock, now, request, used>>

-------------------------------------------------------------------------------
(* The student's answers.                                                   *)

\* ValidateAttemptAccess: the session is in progress, the section is the current
\* one and its clock runs.  Past the deadline the request only expires the section.
MayWork(p) == Open /\ p = session.current /\ Running(p)

ValidateAttemptAccess(r, op, p) ==
  /\ request[r] = Idle
  /\ op = "upload" => p \in Speaking
  /\ status[p] = "IN_PROGRESS"
  /\ MayWork(p)
  /\ request' = [request EXCEPT ![r] =
       IF Expired(p) THEN [op |-> "late", at |-> "late", pos |-> p]
       ELSE [op |-> op, at |-> "acting", pos |-> p]]
  /\ UNCHANGED <<session, attempt, clock, now, used>>

\* Past the deadline the session is read again.
RereadSession(r) ==
  /\ request[r].at = "late"
  /\ IF Open /\ session.current = request[r].pos THEN Goto(r, "expiring") ELSE Done(r)
  /\ UNCHANGED <<session, attempt, clock, now, used>>

\* Repository.SaveAnswers, which has only the attempt's own row to go by.
SaveAnswers(r, b) ==
  LET p == request[r].pos
  IN /\ request[r].at = "acting" /\ request[r].op = "save"
     /\ complete' = IF status[p] = "IN_PROGRESS" THEN [complete EXCEPT ![p] = b] ELSE complete
     /\ Done(r)
     /\ UNCHANGED <<session, status, job, revision, clock, now, used>>

\* StoreSpeakingRecording once the file is stored: UpsertSpeakingRecording replaces
\* the recording whatever has become of the attempt and of the session meanwhile.
Record(r) ==
  LET p == request[r].pos
  IN /\ request[r].at = "acting" /\ request[r].op = "upload"
     /\ revision[p] < MaxTakes
     /\ revision' = [revision EXCEPT ![p] = @ + 1]
     /\ Done(r)
     /\ UNCHANGED <<session, status, job, complete, clock, now, used>>

\* The file is refused, or storing it fails.
RecordFails(r) ==
  /\ request[r].at = "acting" /\ request[r].op = "upload"
  /\ Done(r)
  /\ UNCHANGED <<session, attempt, clock, now, used>>

\* Service.submit of a validated request: an objective section is graded at once, a
\* written one has its response saved and, if complete, queued, and a spoken one is
\* queued if complete, its response stored by the queueing.
Submit(r, b) ==
  LET p == request[r].pos
  IN /\ request[r].at = "acting" /\ request[r].op = "submit"
     /\ IF status[p] # "IN_PROGRESS" THEN Done(r) /\ UNCHANGED <<status, complete>>
        ELSE /\ complete' = IF p \in Speaking THEN complete ELSE [complete EXCEPT ![p] = b]
             /\ IF p \in Objective
                THEN status' = [status EXCEPT ![p] = "SUBMITTED"] /\ Done(r)
                ELSE /\ UNCHANGED status
                     /\ IF b \/ Recorded(p) THEN Goto(r, "queueing") ELSE Done(r)
     /\ UNCHANGED <<session, job, revision, clock, now, used>>

\* RetryAssessment asks nothing of the session.
RetryAssessment(p) ==
  /\ Rows!Retry(p)
  /\ UNCHANGED <<session, complete, revision, clock, now, request, used>>

-------------------------------------------------------------------------------
\* A grading worker moves a job of the session on.
Assess(p) ==
  /\ Rows!Grade(p) \/ Rows!Close(p) \/ Rows!GiveUp(p)
  /\ UNCHANGED <<session, complete, revision, clock, now, request, used>>

Tick ==
  /\ now < MaxTime
  /\ now' = now + 1
  /\ used' = [p \in Sections |-> IF Running(p) THEN used[p] + 1 ELSE used[p]]
  /\ UNCHANGED <<session, attempt, clock, request>>

Request(r) ==
  \/ \E op \in {"open", "view", "pause", "advance", "finish"} : GetSession(r, op)
  \/ StartSection(r) \/ PauseSection(r)
  \/ ExpireSection(r) \/ SubmitSaved(r) \/ DailyLimitExceeded(r)
  \/ QueueAssessment(r) \/ AbandonSection(r)
  \/ DecideAdvance(r) \/ DecideFinish(r) \/ Advance(r) \/ Finish(r)
  \/ \E op \in {"save", "submit", "upload"}, p \in Sections : ValidateAttemptAccess(r, op, p)
  \/ RereadSession(r) \/ Record(r) \/ RecordFails(r)
  \/ \E b \in BOOLEAN : SaveAnswers(r, b) \/ Submit(r, b)

Next ==
  \/ \E r \in Requests : Request(r)
  \/ \E p \in Sections : RetryAssessment(p) \/ Assess(p)
  \/ Abandon
  \/ Tick

Spec == Init /\ [][Next]_vars

-------------------------------------------------------------------------------
(* Properties.                                                              *)

\* Pausing, resuming and reopening in any order neither gain nor lose time: what
\* is left of a section and what its clock has run add up to its budget.
TimeConserved ==
  \A p \in Sections :
    /\ Running(p) => clock[p].deadline - now + used[p] = Budget
    /\ clock[p].left # 0 => ~Running(p) /\ clock[p].left + used[p] = Budget
    /\ ~Running(p) /\ clock[p].left = 0 => used[p] = 0

\* Sections are taken in order: nothing of a later section is opened, answered or
\* handed in while the session is at an earlier one.
NoHeadStart ==
  Open => \A p \in Sections : p > session.current =>
            /\ status[p] = "IN_PROGRESS" /\ job[p] = "NONE"
            /\ ~complete[p] /\ revision[p] = 0 /\ ~Running(p) /\ clock[p].left = 0

\* The session is past a section only if its response is handed in or closed, or
\* was handed in and waits for the student to have it assessed again.
PassedIsHandedIn ==
  Open => \A p \in Sections : p < session.current => status[p] # "IN_PROGRESS" \/ job[p] = "FAILED"

\* A finished session has its report: all its sections are graded or closed and
\* none of them waits for an assessment.
ReportComplete ==
  session.status = "SUBMITTED" =>
    \A p \in Sections : status[p] \in {"SUBMITTED", "ABANDONED"} /\ job[p] \notin {"ACTIVE", "FAILED"}

\* A session only moves forward, one section at a time, and once closed it stays.
SessionForward ==
  [][/\ Open \/ session' = session
     /\ session'.status = "IN_PROGRESS" => session'.current \in {session.current, session.current + 1}]_vars

\* A handler hands in or closes on its own account only a section that has used up
\* its whole budget, however long ago it read the clock.
OnlyExpiredIsForced ==
  [][\A r \in Requests :
       LET p == request[r].pos
       IN request[r].op # "submit" /\ (SubmitSaved(r) \/ QueueAssessment(r) \/ AbandonSection(r))
            => status'[p] = status[p] \/ used[p] > Budget]_vars

\* Only the explicit Finish of a signed-in student gives sections up: advancing past
\* the last one, or the Finish of a guest, closes none the student still holds.
OnlyFinishGivesUp ==
  [][\A r \in Requests : Finish(r) /\ (Guest \/ request[r].op = "advance") => status' = status]_vars

\* Both: sections are passed in order and given up by nobody but the student.
SectionsInOrder == SessionForward /\ OnlyFinishGivesUp

\* The report of a finished session does not change any more, but for recordings
\* whose uploads had been let in before the finish: each of them may still arrive,
\* once, and add or replace a recording; no upload joins them.
Uploading == {r \in Requests : request[r].op = "upload"}

ReportIsFinal ==
  [][session.status = "SUBMITTED" =>
       /\ UNCHANGED <<status, complete>>
       /\ Uploading' \subseteq Uploading
       /\ \A p \in Sections : revision'[p] # revision[p] =>
            \E r \in Uploading \ Uploading' : request[r].pos = p /\ revision'[p] = revision[p] + 1]_vars

\* "Finish closes an in-progress Full Mock even if some sections are blank"
\* (service.go): no section that is closed for good keeps the session from being
\* finished.
NeverWedged ==
  Open => \A p \in Sections : status[p] \in {"SUBMITTED", "ABANDONED"} => job[p] # "FAILED"
===============================================================================
