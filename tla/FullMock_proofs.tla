----------------------------- MODULE FullMock_proofs -----------------------------
(***************************************************************************)
(* Proofs about FullMock, for any number of sections and of requests, any  *)
(* choice of the assessed sections and any budget; and about MockSessions, *)
(* for any number of guests, accounts, tests, materials and requests.      *)
(***************************************************************************)
EXTENDS FullMock, MockSessions, FiniteSetTheorems, WellFoundedInduction, TLAPS

\* The requests that only read, and so change nothing but their own progress.
Reading(r) ==
  \/ \E op \in {"open", "view", "pause", "advance", "finish"} : GetSession(r, op)
  \/ ExpireSection(r) \/ DailyLimitExceeded(r) \/ DecideAdvance(r) \/ DecideFinish(r)
  \/ \E op \in {"save", "submit", "upload"}, p \in Sections : ValidateAttemptAccess(r, op, p)
  \/ RereadSession(r) \/ RecordFails(r)

\* Those requests leave every row and the clock as they are.
LEMMA ReadingReads ==
  ASSUME NEW r, Reading(r)
  PROVE  UNCHANGED <<session, status, job, complete, revision, clock, now, used>>
BY DEF Reading, GetSession, ExpireSection, DailyLimitExceeded, DecideAdvance, DecideFinish,
   ValidateAttemptAccess, RereadSession, RecordFails, attempt

\* The steps that change more, and whose they are.
LEMMA Steps ==
  [Next]_vars =>
    \/ \E r \in Requests :
         \/ Reading(r)
         \/ StartSection(r) \/ PauseSection(r)
         \/ SubmitSaved(r) \/ QueueAssessment(r) \/ AbandonSection(r)
         \/ Advance(r) \/ Finish(r) \/ Record(r)
         \/ \E b \in BOOLEAN : SaveAnswers(r, b) \/ Submit(r, b)
    \/ \E p \in Sections : RetryAssessment(p) \/ Assess(p)
    \/ Abandon
    \/ Tick
    \/ UNCHANGED vars
BY DEF Next, Request, Reading

\* The initial state is well typed.
LEMMA TypeInit == Init => TypeOK
<1> SUFFICES ASSUME Init PROVE TypeOK
  OBVIOUS
<1>1. 1 \in Sections
  BY FullMockAssumption DEF Sections
<1>2. Idle \in RequestState
  BY DEF Idle, RequestState
<1>3. request \in [Requests -> RequestState]
  BY <1>2 DEF Init
<1> QED BY <1>1, <1>3, FullMockAssumption DEF Init, TypeOK, Sections

\* Every request stays in a state that some handler has.
LEMMA RequestType == TypeOK /\ [Next]_vars => request' \in [Requests -> RequestState]
<1> SUFFICES ASSUME TypeOK, [Next]_vars PROVE request' \in [Requests -> RequestState]
  OBVIOUS
<1>a. ASSUME NEW r \in Requests, request' = [request EXCEPT ![r] = Idle]
      PROVE  request' \in [Requests -> RequestState]
  BY <1>a DEF TypeOK, RequestState
<1>b. ASSUME NEW r \in Requests, request[r].op \in Handlers, request[r] # Idle,
             NEW at \in {"late", "expiring", "grading", "queueing", "abandoning", "deciding", "acting"},
             request' = [request EXCEPT ![r].at = at]
      PROVE  request' \in [Requests -> RequestState]
  BY <1>b DEF TypeOK, RequestState, Handlers, Idle
<1>c. ASSUME NEW r \in Requests, request[r].op \in Handlers, request[r] # Idle, Continue(r)
      PROVE  request' \in [Requests -> RequestState]
  BY <1>a, <1>b, <1>c DEF Continue, Goto, Done, AfterExpiry, Handlers
<1>d. ASSUME NEW r \in Requests,
             request[r].at \in {"opening", "late", "expiring", "grading", "abandoning", "deciding"}
      PROVE  request[r].op \in Handlers /\ request[r] # Idle
  BY <1>d DEF TypeOK, RequestState, Idle
<1>1. ASSUME NEW r \in Requests, Reading(r) PROVE request' \in [Requests -> RequestState]
  <2>1. ASSUME NEW op \in {"open", "view", "pause", "advance", "finish"}, GetSession(r, op)
        PROVE  request' \in [Requests -> RequestState]
    <3>1. session.current \in Sections
      BY <2>1 DEF GetSession, Open, TypeOK
    <3> QED BY <2>1, <3>1 DEF GetSession, TypeOK, RequestState, Handlers
  <2>2. CASE ExpireSection(r)
    BY <2>2, <1>b, <1>c, <1>d DEF ExpireSection, Goto
  <2>3. CASE DailyLimitExceeded(r)
    BY <2>3, <1>a DEF DailyLimitExceeded, Done
  <2>4. CASE DecideAdvance(r) \/ DecideFinish(r)
    BY <2>4, <1>a, <1>b, <1>d DEF DecideAdvance, DecideFinish, Goto, Done
  <2>5. ASSUME NEW op \in {"save", "submit", "upload"}, NEW p \in Sections, ValidateAttemptAccess(r, op, p)
        PROVE  request' \in [Requests -> RequestState]
    BY <2>5 DEF ValidateAttemptAccess, TypeOK, RequestState, Handlers
  <2>6. CASE RereadSession(r)
    BY <2>6, <1>a, <1>b, <1>d DEF RereadSession, Goto, Done
  <2>7. CASE RecordFails(r)
    BY <2>7, <1>a DEF RecordFails, Done
  <2> QED BY <1>1, <2>1, <2>2, <2>3, <2>4, <2>5, <2>6, <2>7 DEF Reading
<1>2. ASSUME NEW r \in Requests, StartSection(r) PROVE request' \in [Requests -> RequestState]
  BY <1>2, <1>a, <1>b, <1>d DEF StartSection, Goto, Done
<1>3. ASSUME NEW r \in Requests, PauseSection(r) \/ Advance(r) \/ Finish(r) \/ Record(r)
      PROVE  request' \in [Requests -> RequestState]
  BY <1>3, <1>a DEF PauseSection, Advance, Finish, Record, Done
<1>4. ASSUME NEW r \in Requests, SubmitSaved(r) PROVE request' \in [Requests -> RequestState]
  BY <1>4, <1>b, <1>c, <1>d DEF SubmitSaved, Goto
<1>5. ASSUME NEW r \in Requests, QueueAssessment(r) PROVE request' \in [Requests -> RequestState]
  <2>1. request[r].op = "submit" \/ (request[r].op \in Handlers /\ request[r] # Idle)
    BY <1>5 DEF QueueAssessment, TypeOK, RequestState, Idle
  <2> QED BY <1>5, <2>1, <1>a, <1>c DEF QueueAssessment, Done
<1>6. ASSUME NEW r \in Requests, AbandonSection(r) PROVE request' \in [Requests -> RequestState]
  BY <1>6, <1>c, <1>d DEF AbandonSection
<1>7. ASSUME NEW r \in Requests, NEW b \in BOOLEAN, SaveAnswers(r, b) \/ Submit(r, b)
      PROVE  request' \in [Requests -> RequestState]
  <2>1. CASE SaveAnswers(r, b)
    BY <2>1, <1>a DEF SaveAnswers, Done
  <2>2. CASE Submit(r, b)
    <3>1. request[r].op = "submit" /\ request[r].pos \in Sections
      BY <2>2 DEF Submit, TypeOK, RequestState, Idle
    <3>2. ASSUME request' = [request EXCEPT ![r].at = "queueing"]
          PROVE  request' \in [Requests -> RequestState]
      <4>1. request[r] = [op |-> "submit", at |-> request[r].at, pos |-> request[r].pos]
        BY <3>1 DEF TypeOK, RequestState, Idle
      <4> QED BY <3>1, <3>2, <4>1 DEF TypeOK, RequestState
    <3> QED BY <2>2, <3>2, <1>a DEF Submit, Goto, Done
  <2> QED BY <1>7, <2>1, <2>2
<1>8. ASSUME UNCHANGED request PROVE request' \in [Requests -> RequestState]
  BY <1>8 DEF TypeOK
<1> QED
  BY Steps, <1>1, <1>2, <1>3, <1>4, <1>5, <1>6, <1>7, <1>8
     DEF RetryAssessment, Assess, Abandon, Tick, vars

\* All but the clock, whose ranges rest on TimeConserved.
LEMMA TypeStep == TypeOK /\ TimeConserved /\ [Next]_vars => TypeOK'
<1> SUFFICES ASSUME TypeOK, TimeConserved, [Next]_vars PROVE TypeOK'
  OBVIOUS
<1> USE FullMockAssumption
<1>r. request' \in [Requests -> RequestState]
  BY RequestType
<1>p. \A r \in Requests : request[r].pos \in Sections
  BY DEF TypeOK, RequestState, Idle, Sections
<1>q. ASSUME NEW p \in Sections, Rows!Queue(p) \/ Rows!Abandon(p) \/ Rows!Grade(p) \/ Rows!Close(p)
                                  \/ Rows!GiveUp(p)
      PROVE  /\ status' \in [Sections -> {"IN_PROGRESS", "PROCESSING", "SUBMITTED", "ABANDONED"}]
             /\ job' \in [Sections -> {"NONE", "ACTIVE", "READY", "FAILED"}]
  BY <1>q DEF TypeOK, Rows!Queue, Rows!Abandon, Rows!Grade, Rows!Close, Rows!GiveUp
<1>c. Closed \in [Sections -> {"IN_PROGRESS", "PROCESSING", "SUBMITTED", "ABANDONED"}]
  BY DEF Closed, TypeOK
<1>1. ASSUME NEW r \in Requests, Reading(r) PROVE TypeOK'
  BY <1>1, <1>r, ReadingReads DEF TypeOK
<1>2. ASSUME NEW r \in Requests, StartSection(r) PROVE TypeOK'
  <2>1. ASSUME NEW p \in Sections, status[p] = "IN_PROGRESS"
        PROVE  Opened(p) \in [deadline : 0..(MaxTime + Budget), left : 0..Budget]
    BY DEF Opened, Running, TypeOK
  <2>2. clock' \in [Sections -> [deadline : 0..(MaxTime + Budget), left : 0..Budget]]
    BY <1>2, <1>p, <2>1 DEF StartSection, TypeOK
  <2> QED BY <1>2, <1>r, <2>2 DEF StartSection, TypeOK, attempt
<1>3. ASSUME NEW r \in Requests, PauseSection(r) PROVE TypeOK'
  <2>1. ASSUME NEW p \in Sections, MayPause(p)
        PROVE  Paused(p) \in [deadline : 0..(MaxTime + Budget), left : 0..Budget]
    BY <2>1 DEF Paused, MayPause, Running, TypeOK, TimeConserved
  <2>2. clock' \in [Sections -> [deadline : 0..(MaxTime + Budget), left : 0..Budget]]
    BY <1>3, <1>p, <2>1 DEF PauseSection, TypeOK
  <2> QED BY <1>3, <1>r, <2>2 DEF PauseSection, TypeOK, attempt
<1>4. ASSUME NEW r \in Requests, SubmitSaved(r) PROVE TypeOK'
  BY <1>4, <1>p, <1>r DEF SubmitSaved, TypeOK
<1>5. ASSUME NEW r \in Requests, QueueAssessment(r) PROVE TypeOK'
  <2>1. complete' \in [Sections -> BOOLEAN]
    BY <1>5, <1>p DEF QueueAssessment, TypeOK
  <2>2. /\ status' \in [Sections -> {"IN_PROGRESS", "PROCESSING", "SUBMITTED", "ABANDONED"}]
        /\ job' \in [Sections -> {"NONE", "ACTIVE", "READY", "FAILED"}]
    BY <1>5, <1>p, <1>q DEF QueueAssessment, TypeOK
  <2> QED BY <1>5, <1>r, <2>1, <2>2 DEF QueueAssessment, TypeOK
<1>6. ASSUME NEW r \in Requests, AbandonSection(r) PROVE TypeOK'
  BY <1>6, <1>p, <1>q, <1>r DEF AbandonSection, TypeOK
<1>7. ASSUME NEW r \in Requests, Advance(r) PROVE TypeOK'
  <2>1. session' = session \/ (Open /\ session' = [session EXCEPT !.current = request[r].pos + 1]
                                /\ request[r].pos + 1 \in Sections)
    BY <1>7, <1>p DEF Advance, MayAdvance, Sections
  <2> QED BY <1>7, <1>r, <2>1 DEF Advance, Open, TypeOK, attempt
<1>8. ASSUME NEW r \in Requests, Finish(r) PROVE TypeOK'
  BY <1>8, <1>c, <1>r DEF Finish, TypeOK
<1>9. ASSUME NEW r \in Requests, NEW b \in BOOLEAN, SaveAnswers(r, b) \/ Submit(r, b) PROVE TypeOK'
  <2>1. complete' \in [Sections -> BOOLEAN]
    BY <1>9, <1>p DEF SaveAnswers, Submit, TypeOK, attempt
  <2>2. status' \in [Sections -> {"IN_PROGRESS", "PROCESSING", "SUBMITTED", "ABANDONED"}]
    BY <1>9, <1>p DEF SaveAnswers, Submit, TypeOK, attempt
  <2> QED BY <1>9, <1>r, <2>1, <2>2 DEF SaveAnswers, Submit, TypeOK, attempt
<1>10. ASSUME NEW p \in Sections, RetryAssessment(p) \/ Assess(p) PROVE TypeOK'
  <2>1. /\ status' \in [Sections -> {"IN_PROGRESS", "PROCESSING", "SUBMITTED", "ABANDONED"}]
        /\ job' \in [Sections -> {"NONE", "ACTIVE", "READY", "FAILED"}]
    BY <1>10, <1>q DEF RetryAssessment, Assess, Rows!Retry
  <2> QED BY <1>10, <2>1 DEF RetryAssessment, Assess, TypeOK
<1>11. CASE Abandon
  BY <1>11, <1>c DEF Abandon, Open, TypeOK
<1>12. CASE Tick
  <2>1. used' \in [Sections -> Nat]
    BY <1>12 DEF Tick, TypeOK
  <2> QED BY <1>12, <2>1 DEF Tick, TypeOK, attempt
<1>13. CASE UNCHANGED vars
  BY <1>13 DEF TypeOK, vars
<1>14. ASSUME NEW r \in Requests, Record(r) PROVE TypeOK'
  <2>1. revision' \in [Sections -> 0..MaxTakes]
    BY <1>14, <1>p DEF Record, TypeOK
  <2> QED BY <1>14, <1>r, <2>1 DEF Record, TypeOK
<1> QED
  BY Steps, <1>1, <1>2, <1>3, <1>4, <1>5, <1>6, <1>7, <1>8, <1>9, <1>10, <1>11, <1>12, <1>13, <1>14

\* The clocks change only when a section is opened or paused and when time passes.
LEMMA TimeStep == TypeOK /\ TimeConserved /\ [Next]_vars => TimeConserved'
<1> SUFFICES ASSUME TypeOK, TimeConserved, [Next]_vars PROVE TimeConserved'
  OBVIOUS
<1> USE FullMockAssumption
<1>1. ASSUME NEW r \in Requests, StartSection(r) PROVE TimeConserved'
  <2>1. request[r].pos \in Sections
    BY DEF TypeOK, RequestState, Idle, Sections
  <2> QED BY <1>1, <2>1 DEF StartSection, Opened, Running, TimeConserved, TypeOK
<1>2. ASSUME NEW r \in Requests, PauseSection(r) PROVE TimeConserved'
  <2>1. request[r].pos \in Sections
    BY DEF TypeOK, RequestState, Idle, Sections
  <2> QED BY <1>2, <2>1 DEF PauseSection, MayPause, Paused, Running, TimeConserved, TypeOK
<1>3. CASE Tick
  <2>1. /\ clock' = clock /\ now' = now + 1
        /\ \A p \in Sections : used'[p] = IF Running(p) THEN used[p] + 1 ELSE used[p]
    BY <1>3 DEF Tick
  <2> SUFFICES ASSUME NEW p \in Sections
               PROVE  /\ Running(p)' => clock'[p].deadline - now' + used'[p] = Budget
                      /\ clock'[p].left # 0 => ~Running(p)' /\ clock'[p].left + used'[p] = Budget
                      /\ ~Running(p)' /\ clock'[p].left = 0 => used'[p] = 0
    BY DEF TimeConserved
  <2>2. /\ clock[p].deadline \in Int /\ now \in Int /\ used[p] \in Int
        /\ Running(p) => clock[p].left = 0
    BY DEF Running, TimeConserved, TypeOK
  <2> QED BY <2>1, <2>2 DEF Running, TimeConserved
<1>4. CASE UNCHANGED <<clock, now, used>>
  BY <1>4 DEF Running, TimeConserved
<1> QED
  BY Steps, ReadingReads, <1>1, <1>2, <1>3, <1>4
     DEF SubmitSaved, QueueAssessment, AbandonSection, Advance, Finish, SaveAnswers, Submit, Record,
         RetryAssessment, Assess, Abandon, vars

-------------------------------------------------------------------------------
(* The order of the sections and the report.                                *)

\* Handed in or closed; or handed in once, and to be assessed again.
HandedIn(p) == status[p] # "IN_PROGRESS" \/ job[p] = "FAILED"

\* What a request relies on when it acts on what it read in earlier steps.
NotAhead == \A r \in Requests : request[r].pos <= session.current

ForcedIsExpired ==
  \A r \in Requests :
    request[r].op # "submit" /\ request[r].at \in {"grading", "queueing", "abandoning"}
      => used[request[r].pos] > Budget

LeavingIsHandedIn ==
  \A r \in Requests :
    request[r].op = "advance" /\ request[r].at = "acting" => HandedIn(request[r].pos)

ClosingIsHandedIn ==
  \A r \in Requests :
    Open /\ request[r].at = "acting"
         /\ ((request[r].op = "advance" /\ request[r].pos = Last)
             \/ (request[r].op = "finish" /\ Guest))
      => \A p \in Sections : HandedIn(p)

\* PassedIsHandedIn rests on LeavingIsHandedIn, which must survive all that others do
\* between the check of the Advance handler and its update; the same holds of each
\* of the others.
IInv ==
  /\ TypeOK
  /\ TimeConserved
  /\ NoHeadStart
  /\ PassedIsHandedIn
  /\ ReportComplete
  /\ NotAhead
  /\ ForcedIsExpired
  /\ LeavingIsHandedIn
  /\ ClosingIsHandedIn

\* The inductive invariant holds at first.
LEMMA IInvInit == Init => IInv
<1> SUFFICES ASSUME Init PROVE IInv
  OBVIOUS
<1> USE FullMockAssumption
<1>1. TypeOK
  BY TypeInit
<1>2. TimeConserved /\ NoHeadStart /\ PassedIsHandedIn /\ ReportComplete
  BY DEF Init, TimeConserved, NoHeadStart, PassedIsHandedIn, ReportComplete, Running, Open, Sections
<1>3. NotAhead /\ ForcedIsExpired /\ LeavingIsHandedIn /\ ClosingIsHandedIn
  BY DEF Init, Idle, NotAhead, ForcedIsExpired, LeavingIsHandedIn, ClosingIsHandedIn
<1> QED BY <1>1, <1>2, <1>3 DEF IInv

\* What no step takes back.
LEMMA Monotone ==
  ASSUME IInv, [Next]_vars
  PROVE  /\ Open' => Open
         /\ session.current <= session'.current
         /\ \A p \in Sections : used[p] <= used'[p]
         /\ \A p \in Sections : HandedIn(p) => HandedIn(p)'
<1> USE FullMockAssumption DEF IInv
<1>p. \A r \in Requests : request[r].pos \in Sections
  BY DEF TypeOK, RequestState, Idle, Sections
<1>1. (Open' => Open) /\ session.current <= session'.current
  <2>1. ASSUME NEW r \in Requests, Advance(r)
        PROVE  (Open' => Open) /\ session.current <= session'.current
    BY <2>1, <1>p DEF Advance, MayAdvance, Open, TypeOK, Sections
  <2>2. ASSUME NEW r \in Requests, Finish(r)
        PROVE  (Open' => Open) /\ session.current <= session'.current
    BY <2>2 DEF Finish, Open, TypeOK, Sections
  <2>3. CASE Abandon
    BY <2>3 DEF Abandon, Open, TypeOK, Sections
  <2>4. CASE UNCHANGED session
    BY <2>4 DEF Open, TypeOK, Sections
  <2> QED
    BY Steps, ReadingReads, <2>1, <2>2, <2>3, <2>4
       DEF StartSection, PauseSection, SubmitSaved, QueueAssessment, AbandonSection, SaveAnswers,
           Submit, Record, RetryAssessment, Assess, Tick, vars
<1>2. \A p \in Sections : used[p] <= used'[p]
  <2>1. CASE Tick
    BY <2>1 DEF Tick, TypeOK
  <2>2. CASE UNCHANGED used
    BY <2>2 DEF TypeOK
  <2> QED
    BY Steps, ReadingReads, <2>1, <2>2
       DEF StartSection, PauseSection, SubmitSaved, QueueAssessment, AbandonSection, SaveAnswers,
           Submit, Record, Advance, Finish, Abandon, RetryAssessment, Assess, vars
<1>3. ASSUME NEW p \in Sections, HandedIn(p) PROVE HandedIn(p)'
  <2>1. ASSUME NEW q \in Sections, Rows!Queue(q) \/ Rows!Abandon(q) \/ Rows!Grade(q) \/ Rows!Close(q)
                                    \/ Rows!GiveUp(q)
        PROVE  HandedIn(p)'
    BY <1>3, <2>1 DEF HandedIn, TypeOK, Rows!Queue, Rows!Abandon, Rows!Grade, Rows!Close, Rows!GiveUp
  <2>2. ASSUME NEW r \in Requests, QueueAssessment(r) \/ AbandonSection(r) PROVE HandedIn(p)'
    BY <1>3, <1>p, <2>1, <2>2 DEF QueueAssessment, AbandonSection, HandedIn, attempt
  <2>3. ASSUME NEW r \in Requests, SubmitSaved(r) PROVE HandedIn(p)'
    BY <1>3, <1>p, <2>3 DEF SubmitSaved, HandedIn, TypeOK
  <2>4. ASSUME NEW r \in Requests, NEW b \in BOOLEAN, Submit(r, b) PROVE HandedIn(p)'
    BY <1>3, <1>p, <2>4 DEF Submit, HandedIn, TypeOK, attempt
  <2>5. ASSUME NEW q \in Sections, RetryAssessment(q) \/ Assess(q) PROVE HandedIn(p)'
    BY <2>1, <2>5 DEF RetryAssessment, Assess, Rows!Retry
  <2>6. ASSUME UNCHANGED job, status' = status \/ status' = Closed PROVE HandedIn(p)'
    BY <1>3, <2>6 DEF HandedIn, Closed, TypeOK
  <2> QED
    BY Steps, ReadingReads, <2>2, <2>3, <2>4, <2>5, <2>6
       DEF StartSection, PauseSection, SaveAnswers, Advance, Finish, Record, Abandon, Tick, vars, attempt
<1> QED BY <1>1, <1>2, <1>3

\* What a request may do to the attempts at which section.
LEMMA Worked ==
  ASSUME IInv, [Next]_vars, NEW p \in Sections,
         \/ status'[p] # status[p] \/ job'[p] # job[p] \/ complete'[p] # complete[p]
         \/ revision'[p] # revision[p] \/ clock'[p] # clock[p]
  PROVE  \/ \E r \in Requests : request[r].pos = p
         \/ job[p] # "NONE"
         \/ ~Open'
<1> USE DEF IInv
<1>1. ASSUME NEW r \in Requests, request[r].pos # p,
             StartSection(r) \/ PauseSection(r) \/ SubmitSaved(r) \/ QueueAssessment(r)
             \/ AbandonSection(r) \/ Record(r) \/ (\E b \in BOOLEAN : SaveAnswers(r, b) \/ Submit(r, b))
      PROVE  FALSE
  BY <1>1 DEF StartSection, PauseSection, SubmitSaved, QueueAssessment, AbandonSection, SaveAnswers,
     Submit, Record, Rows!Queue, Rows!Abandon, TypeOK, attempt
<1>2. ASSUME NEW r \in Requests, Finish(r) PROVE ~Open'
  BY <1>2 DEF Finish, Open
<1>3. CASE Abandon
  BY <1>3 DEF Abandon, Open, TypeOK
<1>4. ASSUME NEW q \in Sections, RetryAssessment(q) \/ Assess(q), job[p] = "NONE" PROVE FALSE
  BY <1>4 DEF RetryAssessment, Assess, Rows!Retry, Rows!Queue, Rows!Grade, Rows!Close, Rows!GiveUp, TypeOK
<1> QED
  BY Steps, ReadingReads, <1>1, <1>2, <1>3, <1>4 DEF Advance, Tick, vars, attempt

\* Nobody but its handler moves a request on.
LEMMA OwnRequest ==
  ASSUME TypeOK, [Next]_vars, NEW r \in Requests, request'[r] # request[r]
  PROVE  Request(r)
<1>1. ASSUME NEW s \in Requests, s # r, Request(s) PROVE FALSE
  <2>1. ASSUME NEW v, request' = [request EXCEPT ![s] = v] PROVE FALSE
    BY <1>1, <2>1 DEF TypeOK
  <2>2. ASSUME NEW at, Goto(s, at) PROVE FALSE
    BY <1>1, <2>2 DEF Goto, TypeOK
  <2>3. ASSUME Done(s) PROVE FALSE
    BY <2>1, <2>3 DEF Done
  <2>4. ASSUME Continue(s) PROVE FALSE
    BY <2>2, <2>3, <2>4 DEF Continue
  <2>5. ASSUME NEW op, NEW p,
               GetSession(s, op) \/ ValidateAttemptAccess(s, op, p)
        PROVE  FALSE
    BY <2>1, <2>5 DEF GetSession, ValidateAttemptAccess
  <2>6. ASSUME StartSection(s) \/ PauseSection(s) \/ ExpireSection(s) \/ SubmitSaved(s)
               \/ DailyLimitExceeded(s) \/ QueueAssessment(s) \/ AbandonSection(s)
        PROVE  FALSE
    BY <2>2, <2>3, <2>4, <2>6
       DEF StartSection, PauseSection, ExpireSection, SubmitSaved, DailyLimitExceeded,
           QueueAssessment, AbandonSection
  <2>7. ASSUME DecideAdvance(s) \/ DecideFinish(s) \/ Advance(s) \/ Finish(s) \/ RereadSession(s)
               \/ Record(s) \/ RecordFails(s)
        PROVE  FALSE
    BY <2>2, <2>3, <2>7
       DEF DecideAdvance, DecideFinish, Advance, Finish, RereadSession, Record, RecordFails
  <2>8. ASSUME NEW b, SaveAnswers(s, b) \/ Submit(s, b) PROVE FALSE
    BY <2>2, <2>3, <2>8 DEF SaveAnswers, Submit
  <2> QED BY <1>1, <2>5, <2>6, <2>7, <2>8 DEF Request
<1>2. ASSUME \/ \E p \in Sections : RetryAssessment(p) \/ Assess(p)
             \/ Abandon \/ Tick \/ UNCHANGED vars
      PROVE  FALSE
  BY <1>2 DEF RetryAssessment, Assess, Abandon, Tick, vars
<1> QED BY <1>1, <1>2 DEF Next

\* A step keeps what a request relies on from what it has read.
LEMMA RequestStep ==
  IInv /\ [Next]_vars => (NotAhead /\ ForcedIsExpired /\ LeavingIsHandedIn /\ ClosingIsHandedIn)'
<1> SUFFICES ASSUME IInv, [Next]_vars
             PROVE  (NotAhead /\ ForcedIsExpired /\ LeavingIsHandedIn /\ ClosingIsHandedIn)'
  OBVIOUS
<1> USE FullMockAssumption DEF IInv
<1>p. \A r \in Requests : request[r].pos \in Sections
  BY DEF TypeOK, RequestState, Idle, Sections
<1>c. session.current \in 1..(Last + 1) /\ session'.current \in Int
  <2>1. TypeOK'
    BY TypeStep
  <2>2. session'.current \in Sections \cup {Last + 1}
    BY <2>1 DEF TypeOK
  <2>3. session.current \in Sections \cup {Last + 1}
    BY DEF TypeOK
  <2> QED BY <2>2, <2>3 DEF Sections
<1>t. ASSUME NEW r \in Requests, request'[r] = [request[r] EXCEPT !.at = request'[r].at]
      PROVE  request'[r].pos = request[r].pos /\ request'[r].op = request[r].op
  BY <1>t DEF TypeOK, RequestState, Idle
\* How a request moves on.
<1>1. ASSUME NEW r \in Requests, Request(r), request'[r] # request[r]
      PROVE  \/ request'[r] = Idle
             \/ request'[r].pos = session.current /\ request[r] = Idle /\ request'[r].at \in {"opening", "expiring"}
             \/ request'[r].pos = session.current /\ request[r] = Idle
                /\ request'[r].op \in {"save", "submit", "upload", "late"} /\ request'[r].at \in {"late", "acting"}
             \/ request'[r] = [request[r] EXCEPT !.at = request'[r].at]
  <2>1. ASSUME NEW at, Goto(r, at) PROVE request'[r] = [request[r] EXCEPT !.at = request'[r].at]
    BY <2>1 DEF Goto, TypeOK, RequestState, Idle
  <2>2. ASSUME Done(r) PROVE request'[r] = Idle
    BY <2>2 DEF Done, TypeOK
  <2>3. ASSUME Continue(r)
        PROVE  request'[r] = Idle \/ request'[r] = [request[r] EXCEPT !.at = request'[r].at]
    BY <2>1, <2>2, <2>3 DEF Continue
  <2>4. ASSUME NEW op, GetSession(r, op)
        PROVE  request'[r].pos = session.current /\ request[r] = Idle /\ request'[r].at \in {"opening", "expiring"}
    BY <2>4 DEF GetSession, TypeOK
  <2>5. ASSUME NEW op \in {"save", "submit", "upload"}, NEW p \in Sections, ValidateAttemptAccess(r, op, p)
        PROVE  request'[r].pos = session.current /\ request[r] = Idle
               /\ request'[r].op \in {"save", "submit", "upload", "late"} /\ request'[r].at \in {"late", "acting"}
    BY <2>5 DEF ValidateAttemptAccess, MayWork, TypeOK
  <2> QED
    BY <1>1, <2>1, <2>2, <2>3, <2>4, <2>5
       DEF Request, StartSection, PauseSection, ExpireSection, SubmitSaved, DailyLimitExceeded,
           QueueAssessment, AbandonSection, DecideAdvance, DecideFinish, Advance, Finish,
           RereadSession, Record, RecordFails, SaveAnswers, Submit
<1>2. NotAhead'
  <2> SUFFICES ASSUME NEW r \in Requests PROVE request'[r].pos <= session'.current
    BY DEF NotAhead
  <2>1. request'[r].pos \in {request[r].pos, session.current, 1}
    <3>1. CASE request'[r] = request[r]
      BY <3>1
    <3>2. CASE request'[r] # request[r]
      <4>1. Request(r)
        BY <3>2, OwnRequest
      <4>2. request'[r] = [request[r] EXCEPT !.at = request'[r].at] => request'[r].pos = request[r].pos
        BY <1>t
      <4>3. Idle.pos = 1
        BY DEF Idle
      <4> QED BY <1>1, <3>2, <4>1, <4>2, <4>3
    <3> QED BY <3>1, <3>2
  <2> QED BY <1>p, <1>c, <2>1, Monotone DEF NotAhead, Sections
<1>3. ForcedIsExpired'
  <2> SUFFICES ASSUME NEW r \in Requests, request'[r].op # "submit",
                      request'[r].at \in {"grading", "queueing", "abandoning"}
               PROVE  used'[request'[r].pos] > Budget
    BY DEF ForcedIsExpired
  <2>1. used'[request[r].pos] >= used[request[r].pos] /\ used'[request[r].pos] \in Nat
        /\ used[request[r].pos] \in Nat
    BY <1>p, Monotone, TypeStep DEF TypeOK
  <2>2. CASE request'[r] = request[r]
    BY <2>1, <2>2 DEF ForcedIsExpired
  <2>3. CASE request'[r] # request[r]
    <3>1. Request(r)
      BY <2>3, OwnRequest
    <3>2. request'[r] = [request[r] EXCEPT !.at = request'[r].at]
      BY <1>1, <2>3, <3>1 DEF Idle
    <3>3. request'[r].pos = request[r].pos /\ request'[r].op = request[r].op
      BY <1>t, <3>2
    <3>4. CASE ExpireSection(r) /\ Expired(request[r].pos)
      <4>1. used[request[r].pos] > Budget
        BY <1>p, <3>4 DEF Expired, Running, TimeConserved, TypeOK
      <4> QED BY <2>1, <3>3, <4>1
    <3>5. CASE SubmitSaved(r)
      BY <2>1, <3>3, <3>5 DEF SubmitSaved, ForcedIsExpired
    <3>6. ASSUME NEW at, Goto(r, at) PROVE request'[r].at = at
      BY <3>6 DEF Goto, TypeOK, RequestState, Idle
    <3>7. ASSUME Done(r) PROVE FALSE
      BY <3>7 DEF Done, Idle, TypeOK
    <3>8. ASSUME Continue(r), request[r].at \in {"expiring", "queueing", "abandoning"} PROVE FALSE
      <4>1. request[r].op \in Handlers
        BY <3>3, <3>8 DEF TypeOK, RequestState, Idle
      <4> QED BY <3>6, <3>7, <3>8, <4>1 DEF Continue, AfterExpiry, Handlers
    <3>9. CASE ExpireSection(r) /\ ~Expired(request[r].pos)
      BY <3>8, <3>9 DEF ExpireSection
    <3>10. CASE QueueAssessment(r) \/ AbandonSection(r)
      BY <3>7, <3>8, <3>10 DEF QueueAssessment, AbandonSection
    <3>11. ASSUME NEW op, NEW p, GetSession(r, op) \/ ValidateAttemptAccess(r, op, p) PROVE FALSE
      BY <3>2, <3>11 DEF GetSession, ValidateAttemptAccess, Idle, TypeOK
    <3>12. CASE StartSection(r) \/ PauseSection(r) \/ DailyLimitExceeded(r) \/ RereadSession(r)
                \/ Record(r) \/ RecordFails(r)
      BY <3>6, <3>7, <3>12
         DEF StartSection, PauseSection, DailyLimitExceeded, RereadSession, Record, RecordFails
    <3>13. CASE DecideAdvance(r) \/ DecideFinish(r) \/ Advance(r) \/ Finish(r)
      BY <3>6, <3>7, <3>13 DEF DecideAdvance, DecideFinish, Advance, Finish
    <3>14. ASSUME NEW b \in BOOLEAN, SaveAnswers(r, b) \/ Submit(r, b) PROVE FALSE
      BY <3>3, <3>6, <3>7, <3>14 DEF SaveAnswers, Submit
    <3> QED
      BY <3>1, <3>4, <3>5, <3>9, <3>10, <3>11, <3>12, <3>13, <3>14 DEF Request
  <2> QED BY <2>2, <2>3
\* What the handlers of advance and finish found still holds when they act.
<1>4. ASSUME NEW r \in Requests, request'[r] # request[r], request'[r].at = "acting",
             request'[r].op \in {"advance", "finish"}
      PROVE  DecideAdvance(r) \/ DecideFinish(r)
  <2>1. Request(r)
    BY <1>4, OwnRequest
  <2>2. request'[r].op = request[r].op /\ request'[r].pos = request[r].pos
    <3>1. request'[r] # Idle
      BY <1>4 DEF Idle
    <3>2. request'[r] = [request[r] EXCEPT !.at = request'[r].at]
      BY <1>1, <1>4, <2>1, <3>1
    <3> QED BY <1>t, <3>2
  <2>3. ASSUME NEW at, Goto(r, at) PROVE at = "acting"
    BY <1>4, <2>3 DEF Goto, TypeOK, RequestState, Idle
  <2>4. ASSUME Done(r) PROVE FALSE
    BY <1>4, <2>4 DEF Done, Idle, TypeOK
  <2>5. ASSUME Continue(r) PROVE FALSE
    BY <1>4, <2>2, <2>3, <2>4, <2>5 DEF Continue, AfterExpiry
  <2>6. ASSUME NEW op, NEW p, GetSession(r, op) \/ ValidateAttemptAccess(r, op, p) PROVE FALSE
    BY <1>4, <2>2, <2>6 DEF GetSession, ValidateAttemptAccess, Idle
  <2>7. ASSUME StartSection(r) \/ PauseSection(r) \/ ExpireSection(r) \/ SubmitSaved(r)
               \/ DailyLimitExceeded(r) \/ QueueAssessment(r) \/ AbandonSection(r) \/ RereadSession(r)
               \/ Record(r) \/ RecordFails(r)
        PROVE  FALSE
    BY <2>3, <2>4, <2>5, <2>7
       DEF StartSection, PauseSection, ExpireSection, SubmitSaved, DailyLimitExceeded,
           QueueAssessment, AbandonSection, RereadSession, Record, RecordFails
  <2>8. ASSUME NEW b \in BOOLEAN, Advance(r) \/ Finish(r) \/ SaveAnswers(r, b) \/ Submit(r, b)
        PROVE  FALSE
    BY <2>3, <2>4, <2>8 DEF Advance, Finish, SaveAnswers, Submit
  <2> QED BY <2>1, <2>6, <2>7, <2>8 DEF Request
<1>5. LeavingIsHandedIn'
  <2> SUFFICES ASSUME NEW r \in Requests, request'[r].op = "advance", request'[r].at = "acting"
               PROVE  status'[request'[r].pos] # "IN_PROGRESS" \/ job'[request'[r].pos] = "FAILED"
    BY DEF LeavingIsHandedIn, HandedIn
  <2>1. request'[r].pos = request[r].pos /\ HandedIn(request[r].pos)
    <3>1. CASE request'[r] = request[r]
      BY <3>1 DEF LeavingIsHandedIn
    <3>2. CASE request'[r] # request[r]
      <4>1. DecideAdvance(r) \/ DecideFinish(r)
        BY <1>4, <3>2
      <4>2. request'[r].op = request[r].op /\ request'[r].pos = request[r].pos
        BY <4>1, <3>2 DEF DecideAdvance, DecideFinish, Goto, Done, TypeOK, RequestState, Idle
      <4>3. LeavesSection(request[r].pos)
        BY <4>1, <4>2 DEF DecideAdvance, DecideFinish, Goto, Done, TypeOK, Idle
      <4> QED BY <4>2, <4>3 DEF LeavesSection, HandedIn
    <3> QED BY <3>1, <3>2
  <2>2. PICK p \in Sections : p = request[r].pos
    BY <1>p
  <2>3. HandedIn(p)'
    BY <2>1, <2>2, Monotone
  <2> QED BY <2>1, <2>2, <2>3 DEF HandedIn
<1>6. ClosingIsHandedIn'
  <2> SUFFICES ASSUME NEW r \in Requests, Open', request'[r].at = "acting",
                      \/ request'[r].op = "advance" /\ request'[r].pos = Last
                      \/ request'[r].op = "finish" /\ Guest,
                      NEW p \in Sections
               PROVE  HandedIn(p)'
    BY DEF ClosingIsHandedIn
  <2>1. CASE request'[r] = request[r]
    BY <2>1, Monotone DEF ClosingIsHandedIn
  <2>2. CASE request'[r] # request[r]
    <3>1. DecideAdvance(r) \/ DecideFinish(r)
      BY <1>4, <2>2
    <3>2. request'[r].op = request[r].op /\ request'[r].pos = request[r].pos
      BY <3>1, <2>2 DEF DecideAdvance, DecideFinish, Goto, Done, TypeOK, RequestState, Idle
    <3>3. CASE DecideFinish(r)
      BY <3>2, <3>3, Monotone DEF DecideFinish, Goto, Done, TypeOK, Idle, HandedIn
    <3>4. CASE DecideAdvance(r)
      <4>1. LeavesSection(Last) /\ request[r].pos = Last
        BY <3>2, <3>4 DEF DecideAdvance, Goto, Done, TypeOK, Idle
      <4>2. Open /\ Last <= session.current
        BY <4>1, Monotone DEF NotAhead
      <4>3. p = Last \/ p < session.current
        BY <1>c, <4>2 DEF Sections
      <4> QED BY <4>1, <4>2, <4>3, Monotone DEF PassedIsHandedIn, HandedIn, LeavesSection
    <3> QED BY <3>1, <3>3, <3>4
  <2> QED BY <2>1, <2>2
<1> QED BY <1>2, <1>3, <1>5, <1>6

\* A step keeps the order of the sections.
LEMMA OrderStep == IInv /\ [Next]_vars => (NoHeadStart /\ PassedIsHandedIn)'
<1> SUFFICES ASSUME IInv, [Next]_vars PROVE NoHeadStart' /\ PassedIsHandedIn'
  OBVIOUS
<1> USE FullMockAssumption DEF IInv
<1>t. session.current \in Int /\ session'.current \in Int
  <2>1. TypeOK'
    BY TypeStep
  <2>2. session'.current \in Sections \cup {Last + 1} /\ session.current \in Sections \cup {Last + 1}
    BY <2>1 DEF TypeOK
  <2> QED BY <2>2 DEF Sections
<1>1. NoHeadStart'
  <2> SUFFICES ASSUME Open', NEW p \in Sections, p > session'.current
               PROVE  /\ status'[p] = "IN_PROGRESS" /\ job'[p] = "NONE"
                      /\ ~complete'[p] /\ revision'[p] = 0 /\ clock'[p].deadline = 0 /\ clock'[p].left = 0
    BY DEF NoHeadStart, Running
  <2>1. Open /\ p > session.current
    BY <1>t, Monotone DEF Sections
  <2>2. \A r \in Requests : request[r].pos # p
    <3> SUFFICES ASSUME NEW r \in Requests PROVE request[r].pos # p
      OBVIOUS
    <3>1. request[r] \in RequestState /\ p \in Nat \ {0}
      BY DEF TypeOK, Sections
    <3>2. request[r].pos \in Nat
      BY <3>1 DEF RequestState, Idle, Sections
    <3>3. request[r].pos <= session.current
      BY DEF NotAhead
    <3> QED BY <1>t, <2>1, <3>1, <3>2, <3>3
  <2>3. job[p] = "NONE"
    BY <2>1 DEF NoHeadStart
  <2>4. /\ status'[p] = status[p] /\ job'[p] = job[p] /\ complete'[p] = complete[p]
        /\ revision'[p] = revision[p] /\ clock'[p] = clock[p]
    BY <2>2, <2>3, Worked
  <2> QED BY <2>1, <2>4 DEF NoHeadStart, Running
<1>2. PassedIsHandedIn'
  <2> SUFFICES ASSUME Open', NEW p \in Sections, p < session'.current PROVE HandedIn(p)'
    BY DEF PassedIsHandedIn, HandedIn
  <2>1. CASE p < session.current
    BY <2>1, Monotone DEF PassedIsHandedIn, HandedIn
  <2>2. CASE ~(p < session.current)
    <3>1. session'.current # session.current
      BY <2>2
    <3>2. PICK r \in Requests : Advance(r)
      BY <3>1, Steps, ReadingReads
         DEF StartSection, PauseSection, SubmitSaved, QueueAssessment, AbandonSection, Finish, Open,
             SaveAnswers, Submit, Record, RetryAssessment, Assess, Abandon, Tick, vars, TypeOK
    <3>3. request[r].pos = session.current /\ session'.current = session.current + 1
      BY <3>1, <3>2 DEF Advance, MayAdvance, TypeOK
    <3>4. p = request[r].pos
      BY <1>t, <2>2, <3>3 DEF Sections
    <3> QED BY <3>2, <3>4, Monotone DEF Advance, LeavingIsHandedIn
  <2> QED BY <2>1, <2>2
<1> QED BY <1>1, <1>2

\* Nothing that is closed is touched again.
LEMMA ClosedStays ==
  ASSUME TypeOK, [Next]_vars, NEW p \in Sections, status[p] \in {"SUBMITTED", "ABANDONED"}
  PROVE  /\ status'[p] = status[p]
         /\ complete'[p] = complete[p]
         /\ job[p] \notin {"ACTIVE", "FAILED"} => job'[p] \notin {"ACTIVE", "FAILED"}
<1>1. ASSUME NEW q \in Sections, Rows!Queue(q) \/ Rows!Abandon(q) \/ Rows!Grade(q) \/ Rows!Close(q)
                                  \/ Rows!GiveUp(q)
      PROVE  /\ status'[p] = status[p]
             /\ job[p] \notin {"ACTIVE", "FAILED"} => job'[p] \notin {"ACTIVE", "FAILED"}
  BY <1>1 DEF TypeOK, Rows!Queue, Rows!Abandon, Rows!Grade, Rows!Close, Rows!GiveUp
<1>2. ASSUME NEW r \in Requests, QueueAssessment(r) \/ AbandonSection(r)
      PROVE  /\ status'[p] = status[p] /\ complete'[p] = complete[p]
             /\ job[p] \notin {"ACTIVE", "FAILED"} => job'[p] \notin {"ACTIVE", "FAILED"}
  <2>1. request[r].pos \in Sections
    BY FullMockAssumption DEF TypeOK, RequestState, Idle, Sections
  <2>2. complete'[p] = complete[p]
    BY <1>2 DEF QueueAssessment, AbandonSection, TypeOK
  <2> QED BY <1>1, <1>2, <2>1, <2>2 DEF QueueAssessment, AbandonSection
<1>3. ASSUME NEW r \in Requests, NEW b \in BOOLEAN, SubmitSaved(r) \/ SaveAnswers(r, b) \/ Submit(r, b)
      PROVE  UNCHANGED job /\ status'[p] = status[p] /\ complete'[p] = complete[p]
  BY <1>3 DEF SubmitSaved, SaveAnswers, Submit, TypeOK, attempt
<1>4. ASSUME NEW q \in Sections, RetryAssessment(q) \/ Assess(q)
      PROVE  /\ status'[p] = status[p] /\ complete'[p] = complete[p]
             /\ job[p] \notin {"ACTIVE", "FAILED"} => job'[p] \notin {"ACTIVE", "FAILED"}
  BY <1>1, <1>4 DEF RetryAssessment, Assess, Rows!Retry
<1>5. ASSUME UNCHANGED <<job, complete>>, status' = status \/ status' = Closed
      PROVE  UNCHANGED job /\ status'[p] = status[p] /\ complete'[p] = complete[p]
  BY <1>5 DEF Closed, TypeOK
<1> QED
  BY Steps, ReadingReads, <1>2, <1>3, <1>4, <1>5
     DEF StartSection, PauseSection, Advance, Finish, Record, Abandon, Tick, vars, attempt

\* A step keeps a finished report complete.
LEMMA ReportStep == IInv /\ [Next]_vars => ReportComplete'
<1> SUFFICES ASSUME IInv, [Next]_vars, session'.status = "SUBMITTED", NEW p \in Sections
             PROVE  status'[p] \in {"SUBMITTED", "ABANDONED"} /\ job'[p] \notin {"ACTIVE", "FAILED"}
  BY DEF ReportComplete
<1> USE DEF IInv
<1>1. CASE session.status = "SUBMITTED"
  BY <1>1, ClosedStays DEF ReportComplete
<1>2. CASE session.status # "SUBMITTED"
  <2>1. PICK r \in Requests : Finish(r)
    BY <1>2, Steps, ReadingReads
       DEF StartSection, PauseSection, SubmitSaved, QueueAssessment, AbandonSection, Advance,
           SaveAnswers, Submit, Record, RetryAssessment, Assess, Abandon, Tick, vars, TypeOK
  <2>2. ~Pending /\ status' = Closed /\ job' = job
    BY <1>2, <2>1 DEF Finish
  <2> QED BY <2>2 DEF Pending, Closed, TypeOK
<1> QED BY <1>1, <1>2

\* The invariant is inductive.
LEMMA IInvStep == IInv /\ [Next]_vars => IInv'
<1>1. IInv /\ [Next]_vars => (TypeOK /\ TimeConserved)'
  BY TypeStep, TimeStep DEF IInv
<1> QED BY <1>1, RequestStep, OrderStep, ReportStep DEF IInv

\* The invariant holds in every reachable state.
LEMMA Invariance == Spec => []IInv
BY IInvInit, IInvStep, PTL DEF Spec

\* Every variable keeps its range: in particular a clock never promises more than the
\* budget of its section, and a session past its last section is closed.
THEOREM TypeCorrect == Spec => []TypeOK
<1>1. IInv => TypeOK
  BY DEF IInv
<1> QED BY <1>1, Invariance, PTL

\* However a section is paused, resumed and reopened, by however many tabs, it gets
\* its budget and no more.
THEOREM TimeIsConserved == Spec => []TimeConserved
<1>1. IInv => TimeConserved
  BY DEF IInv
<1> QED BY <1>1, Invariance, PTL

\* Sections are taken in order and handed in before they are left.
THEOREM InOrder == Spec => [](NoHeadStart /\ PassedIsHandedIn)
<1>1. IInv => NoHeadStart /\ PassedIsHandedIn
  BY DEF IInv
<1> QED BY <1>1, Invariance, PTL

\* No section is left behind that was not handed in.
THEOREM LeftIsHandedIn == Spec => []PassedIsHandedIn
<1>1. NoHeadStart /\ PassedIsHandedIn => PassedIsHandedIn
  OBVIOUS
<1> QED BY <1>1, InOrder, PTL

\* A finished session has its report.
THEOREM FinishedIsComplete == Spec => []ReportComplete
<1>1. IInv => ReportComplete
  BY DEF IInv
<1> QED BY <1>1, Invariance, PTL

-------------------------------------------------------------------------------
(* What a step may never do.                                                *)

\* A step moves the session forward by at most one section.
LEMMA ForwardStep ==
  IInv /\ [Next]_vars =>
    /\ Open \/ session' = session
    /\ session'.status = "IN_PROGRESS" => session'.current \in {session.current, session.current + 1}
<1> SUFFICES ASSUME IInv, [Next]_vars
             PROVE  /\ Open \/ session' = session
                    /\ session'.status = "IN_PROGRESS"
                         => session'.current \in {session.current, session.current + 1}
  OBVIOUS
<1> USE DEF IInv
<1>1. ASSUME NEW r \in Requests, Advance(r)
      PROVE  /\ Open \/ session' = session
             /\ session'.current \in {session.current, session.current + 1}
  BY <1>1 DEF Advance, MayAdvance, TypeOK
<1>2. ASSUME NEW r \in Requests, Finish(r)
      PROVE  /\ Open \/ session' = session
             /\ session'.status = "IN_PROGRESS" => session' = session
  BY <1>2 DEF Finish
<1>3. CASE Abandon
  BY <1>3 DEF Abandon, Open, TypeOK
<1> QED
  BY Steps, ReadingReads, <1>1, <1>2, <1>3
     DEF StartSection, PauseSection, SubmitSaved, QueueAssessment, AbandonSection, SaveAnswers,
         Submit, Record, RetryAssessment, Assess, Tick, vars

\* Of several tabs one advances a session, by one section; a session that is closed stays.
THEOREM OnlyForward == Spec => SessionForward
<1>1. IInv /\ [Next]_vars
        => [/\ Open \/ session' = session
            /\ session'.status = "IN_PROGRESS"
                 => session'.current \in {session.current, session.current + 1}]_vars
  BY ForwardStep
<1> QED BY <1>1, Invariance, PTL DEF Spec, SessionForward

\* A recording is changed only by an upload, which then is over.
LEMMA RecordedBy ==
  ASSUME TypeOK, [Next]_vars, NEW p \in Sections, revision'[p] # revision[p]
  PROVE  \E r \in Uploading \ Uploading' : request[r].pos = p /\ revision'[p] = revision[p] + 1
<1>1. PICK r \in Requests : Record(r)
  BY Steps, ReadingReads
     DEF StartSection, PauseSection, SubmitSaved, QueueAssessment, AbandonSection, Advance, Finish,
         SaveAnswers, Submit, RetryAssessment, Assess, Abandon, Tick, vars, attempt
<1>2. request[r].pos = p /\ revision'[p] = revision[p] + 1
  BY <1>1 DEF Record, TypeOK
<1>3. r \in Uploading /\ r \notin Uploading'
  BY <1>1 DEF Record, Done, Idle, Uploading, TypeOK
<1> QED BY <1>2, <1>3

\* An upload is let in only while the session is open.
LEMMA LetIn ==
  ASSUME TypeOK, [Next]_vars, ~Open
  PROVE  Uploading' \subseteq Uploading
<1> SUFFICES ASSUME NEW r \in Requests, request'[r].op = "upload", request[r].op # "upload"
             PROVE  FALSE
  BY DEF Uploading
<1>1. Request(r)
  BY OwnRequest
<1>2. ASSUME NEW at, Goto(r, at) PROVE FALSE
  BY <1>2 DEF Goto, TypeOK, RequestState, Idle
<1>3. ASSUME Done(r) PROVE FALSE
  BY <1>3 DEF Done, Idle, TypeOK
<1>4. ASSUME Continue(r) PROVE FALSE
  BY <1>2, <1>3, <1>4 DEF Continue
<1>5. ASSUME NEW op, NEW p, GetSession(r, op) \/ ValidateAttemptAccess(r, op, p) PROVE FALSE
  BY <1>5 DEF GetSession, ValidateAttemptAccess, MayWork
<1>6. ASSUME StartSection(r) \/ PauseSection(r) \/ ExpireSection(r) \/ SubmitSaved(r)
             \/ DailyLimitExceeded(r) \/ QueueAssessment(r) \/ AbandonSection(r) \/ RereadSession(r)
             \/ Record(r) \/ RecordFails(r)
      PROVE  FALSE
  BY <1>2, <1>3, <1>4, <1>6
     DEF StartSection, PauseSection, ExpireSection, SubmitSaved, DailyLimitExceeded,
         QueueAssessment, AbandonSection, RereadSession, Record, RecordFails
<1>7. ASSUME DecideAdvance(r) \/ DecideFinish(r) \/ Advance(r) \/ Finish(r) PROVE FALSE
  BY <1>2, <1>3, <1>7 DEF DecideAdvance, DecideFinish, Advance, Finish
<1>8. ASSUME NEW b \in BOOLEAN, SaveAnswers(r, b) \/ Submit(r, b) PROVE FALSE
  BY <1>2, <1>3, <1>8 DEF SaveAnswers, Submit
<1> QED BY <1>1, <1>5, <1>6, <1>7, <1>8 DEF Request

\* What a step may still do to the report of a finished session.
LEMMA FinalStep ==
  IInv /\ [Next]_vars /\ session.status = "SUBMITTED" =>
    /\ UNCHANGED <<status, complete>>
    /\ Uploading' \subseteq Uploading
    /\ \A p \in Sections : revision'[p] # revision[p] =>
         \E r \in Uploading \ Uploading' : request[r].pos = p /\ revision'[p] = revision[p] + 1
<1> SUFFICES ASSUME IInv, [Next]_vars, session.status = "SUBMITTED"
             PROVE  /\ UNCHANGED <<status, complete>>
                    /\ Uploading' \subseteq Uploading
                    /\ \A p \in Sections : revision'[p] # revision[p] =>
                         \E r \in Uploading \ Uploading' :
                           request[r].pos = p /\ revision'[p] = revision[p] + 1
  OBVIOUS
<1>1. \A p \in Sections : status'[p] = status[p] /\ complete'[p] = complete[p]
  BY ClosedStays DEF IInv, ReportComplete
<1>2. TypeOK /\ TypeOK'
  BY TypeStep DEF IInv
<1>3. UNCHANGED <<status, complete>>
  BY <1>1, <1>2 DEF TypeOK
<1>4. Uploading' \subseteq Uploading
  BY <1>2, LetIn DEF Open
<1> QED BY <1>2, <1>3, <1>4, RecordedBy

\* The report of a finished session changes no more, but for the recordings that were
\* being uploaded when it was finished.
THEOREM FinalReport == Spec => ReportIsFinal
<1>1. IInv /\ [Next]_vars
        => [session.status = "SUBMITTED" =>
              /\ UNCHANGED <<status, complete>>
              /\ Uploading' \subseteq Uploading
              /\ \A p \in Sections : revision'[p] # revision[p] =>
                   \E r \in Uploading \ Uploading' :
                     request[r].pos = p /\ revision'[p] = revision[p] + 1]_vars
  BY FinalStep
<1> QED BY <1>1, Invariance, PTL DEF Spec, ReportIsFinal

\* A step hands in or closes, unasked, only a section whose time is up.
LEMMA ForcedStep ==
  IInv => \A r \in Requests :
            LET p == request[r].pos
            IN request[r].op # "submit" /\ (SubmitSaved(r) \/ QueueAssessment(r) \/ AbandonSection(r))
                 => status'[p] = status[p] \/ used[p] > Budget
BY DEF IInv, ForcedIsExpired, SubmitSaved, QueueAssessment, AbandonSection

\* A section is handed in for the student only once its time has run out, although the
\* clock is read several transactions earlier.
THEOREM ForcedWhenExpired == Spec => OnlyExpiredIsForced
<1>1. IInv /\ [Next]_vars
        => [\A r \in Requests :
              LET p == request[r].pos
              IN request[r].op # "submit" /\ (SubmitSaved(r) \/ QueueAssessment(r) \/ AbandonSection(r))
                   => status'[p] = status[p] \/ used[p] > Budget]_vars
  BY ForcedStep
<1> QED BY <1>1, Invariance, PTL DEF Spec, OnlyExpiredIsForced

\* A step that finishes a session on behalf of Advance, or of a guest, closes nothing.
LEMMA GiveUpStep ==
  IInv => \A r \in Requests : Finish(r) /\ (Guest \/ request[r].op = "advance") => status' = status
<1> SUFFICES ASSUME IInv, NEW r \in Requests, Finish(r), Guest \/ request[r].op = "advance"
             PROVE  status' = status
  OBVIOUS
<1>1. CASE Open /\ ~Pending
  <2>1. \A p \in Sections : HandedIn(p)
    BY <1>1 DEF IInv, ClosingIsHandedIn, Finish
  <2>2. \A p \in Sections : status[p] # "IN_PROGRESS"
    BY <1>1, <2>1 DEF HandedIn, Pending
  <2> QED BY <1>1, <2>2 DEF Finish, Closed, IInv, TypeOK
<1>2. CASE ~(Open /\ ~Pending)
  BY <1>2 DEF Finish
<1> QED BY <1>1, <1>2

\* Nobody loses a section by advancing, and no guest by finishing.
THEOREM GivesNothingUp == Spec => OnlyFinishGivesUp
<1>1. IInv /\ [Next]_vars
        => [\A r \in Requests :
              Finish(r) /\ (Guest \/ request[r].op = "advance") => status' = status]_vars
  BY GiveUpStep
<1> QED BY <1>1, Invariance, PTL DEF Spec, OnlyFinishGivesUp

\* Sections are passed in order and given up by nobody but the student.
THEOREM SectionsPassInOrder == Spec => SectionsInOrder
<1> QED BY OnlyForward, GivesNothingUp, PTL DEF SectionsInOrder

-------------------------------------------------------------------------------
(* Who starts a mock (MockSessions).                                        *)

MockFields == {"kind", "who", "for", "test", "source", "restart", "draw", "at", "left"}

\* What a request is, by its kind.
RequestShape(t) ==
  /\ DOMAIN mtx[t] = MockFields
  /\ \/ mtx[t].kind = "idle" /\ mtx[t].at = "idle"
     \/ mtx[t].kind = "trial" /\ mtx[t].at = "creating" /\ mtx[t].who \in Guests
     \/ /\ mtx[t].kind = "guest" /\ mtx[t].who \in Guests
        /\ mtx[t].at \in {"locking", "generating", "drawing", "admitting", "committing"}
     \/ /\ mtx[t].kind = "draw" /\ mtx[t].who \in Accounts
        /\ mtx[t].at \in {"generating", "drawing", "committing", "returned"}
     \/ /\ mtx[t].kind = "curated" /\ mtx[t].who \in Accounts /\ mtx[t].test \in MockTests
        /\ mtx[t].at \in {"testing", "generating", "committing"}
     \/ /\ mtx[t].kind = "claim" /\ mtx[t].who \in Guests /\ mtx[t].for \in Accounts
        /\ mtx[t].at \in {"locking", "generating"}
  /\ mtx[t].kind \in {"trial", "guest"} => ~mtx[t].restart
  /\ mtx[t].kind # "curated" => mtx[t].test = NoMock
  /\ mtx[t].kind # "guest" /\ mtx[t].at # "returned" => mtx[t].source = 0
  /\ mtx[t].source \in Nat /\ mtx[t].restart \in BOOLEAN /\ mtx[t].draw \in Draws \cup {NoMock}
  /\ mtx[t].kind = "trial" => mtx[t].source = 0
  /\ mtx[t].at \in {"admitting", "committing"} \/ (mtx[t].kind = "curated" /\ mtx[t].at = "generating") =>
       mtx[t].draw \in Draws

\* The locks a request holds, and what nobody else can change while it does.
LocksOfRequest(t) ==
  /\ mtx[t].kind \in {"guest", "claim"} /\ mtx[t].at # "locking" =>
       trialLock[mtx[t].who] = t /\ claimedBy[mtx[t].who] = NoMock
  /\ mtx[t].kind \in {"guest", "draw"} /\ mtx[t].at \in {"drawing", "admitting", "committing"} =>
       generationLock[mtx[t].who] = t
  /\ mtx[t].kind = "guest" /\ mtx[t].at \in {"admitting", "committing"} =>
       fixedLock = t /\ (reserved # NoMock => mtx[t].draw = reserved)

\* What a request has seen of the sessions and still is so.
SeenByRequest(t) ==
  /\ mtx[t].kind = "guest" /\ mtx[t].source # 0 =>
       /\ mtx[t].source \in DOMAIN sessions
       /\ sessions[mtx[t].source].by = mtx[t].who /\ sessions[mtx[t].source].status = "SUBMITTED"
  /\ mtx[t].kind = "guest" /\ mtx[t].at \in {"drawing", "admitting", "committing"} =>
       \A i \in DOMAIN sessions : sessions[i].by = mtx[t].who => i <= mtx[t].source
  /\ mtx[t].kind = "draw" /\ mtx[t].at \in {"drawing", "committing"} /\ ~mtx[t].restart =>
       \A i \in DOMAIN sessions :
         ~(sessions[i].owner = mtx[t].who /\ sessions[i].status = "IN_PROGRESS" /\ sessions[i].test = NoMock)

\* Whose each session is: an account keeps its own, a guest until he is claimed, and then
\* all of them are over.
Owned ==
  \A i \in DOMAIN sessions :
    /\ sessions[i].by \in Accounts => sessions[i].owner = sessions[i].by /\ sessions[i].source = 0
    /\ sessions[i].by \in Guests /\ claimedBy[sessions[i].by] = NoMock => sessions[i].owner = sessions[i].by
    /\ sessions[i].by \in Guests /\ claimedBy[sessions[i].by] # NoMock =>
         /\ sessions[i].owner = claimedBy[sessions[i].by] /\ sessions[i].status = "SUBMITTED"
         /\ i <= claimed[sessions[i].by]
    /\ sessions[i].by \in Guests => sessions[i].draw = reserved /\ reserved # NoMock

\* A guest has one session after the other; each but the first takes the one before it again.
InTurn ==
  \A i, j \in DOMAIN sessions :
    /\ sessions[i].by \in Guests /\ sessions[i].by = sessions[j].by /\ i < j => sessions[i].status = "SUBMITTED"
    /\ sessions[i].source # 0 => sessions[i].source < i /\ sessions[sessions[i].source].by = sessions[i].by
    /\ sessions[i].source # 0 /\ sessions[i].source = sessions[j].source => i = j

\* One under way of each kind.
Unique ==
  \A i, j \in DOMAIN sessions :
    i # j /\ sessions[i].owner = sessions[j].owner /\ sessions[i].test = sessions[j].test =>
      sessions[i].status # "IN_PROGRESS" \/ sessions[j].status # "IN_PROGRESS"

Trials == {g \in Guests : trial[g] # "none"}
Retakes == {i \in DOMAIN sessions : sessions[i].source # 0}
Creating == {t \in MockTxs : mtx[t].kind = "trial"}
Retaking == {t \in MockTxs : mtx[t].kind = "guest" /\ mtx[t].at = "committing" /\ mtx[t].source # 0}
Busy == {t \in MockTxs : mtx[t] # MockIdle}

\* Every start of a guest was counted before it was made.
StartsCounted ==
  /\ admitted \in 0..StartLimit
  /\ Cardinality(Trials) + Cardinality(Retakes) + Cardinality(Creating) + Cardinality(Retaking) <= admitted

MockRowsOK ==
  /\ published \in [Bank -> 0..MaxVersion]
  /\ reserved \in Draws \cup {NoMock}
  /\ trial \in [Guests -> {"none", "live", "expired"}]
  /\ claimedBy \in [Guests -> Accounts \cup {NoMock}]
  /\ claimed \in [Guests -> 0..MaxMocks]
  /\ sessions \in Seq(MockSession)

MockLocksOK ==
  /\ trialLock \in [Guests -> MockTxs \cup {NoMock}]
  /\ generationLock \in [People -> MockTxs \cup {NoMock}]
  /\ fixedLock \in MockTxs \cup {NoMock}

MockInv ==
  /\ MockRowsOK /\ MockLocksOK /\ DOMAIN mtx = MockTxs
  /\ \A t \in MockTxs : RequestShape(t) /\ LocksOfRequest(t) /\ SeenByRequest(t)
  /\ Owned /\ InTurn /\ Unique /\ StartsCounted
  /\ Len(sessions) + Cardinality(Busy) <= MaxMocks

-------------------------------------------------------------------------------
(* Steps of one request.                                                    *)

\* Whoever else holds a lock keeps it.
OthersKeepLocks(t) ==
  \A u \in MockTxs : u # t =>
    /\ \A g \in Guests : trialLock[g] = u => trialLock'[g] = u
    /\ \A p \in People : generationLock[p] = u => generationLock'[p] = u
    /\ fixedLock = u => fixedLock' = u

\* What is counted is finite.
LEMMA SetsAreFinite ==
  ASSUME MockInv
  PROVE  /\ IsFiniteSet(Trials) /\ Cardinality(Trials) \in Nat
         /\ IsFiniteSet(Retakes) /\ Cardinality(Retakes) \in Nat
         /\ IsFiniteSet(Creating) /\ Cardinality(Creating) \in Nat
         /\ IsFiniteSet(Retaking) /\ Cardinality(Retaking) \in Nat
         /\ IsFiniteSet(Busy) /\ Cardinality(Busy) \in Nat
         /\ Len(sessions) \in Nat /\ DOMAIN sessions = 1..Len(sessions)
<1>1. Len(sessions) \in Nat /\ DOMAIN sessions = 1..Len(sessions)
  BY DEF MockInv, MockRowsOK
<1>2. IsFiniteSet(DOMAIN sessions)
  BY <1>1, FS_Interval
<1>3. Trials \subseteq Guests /\ Retakes \subseteq DOMAIN sessions
  BY DEF Trials, Retakes
<1>4. Creating \subseteq MockTxs /\ Retaking \subseteq MockTxs /\ Busy \subseteq MockTxs
  BY DEF Creating, Retaking, Busy
<1>5. IsFiniteSet(Guests) /\ IsFiniteSet(MockTxs)
  BY MockAssumption
<1> QED BY <1>1, <1>2, <1>3, <1>4, <1>5, FS_Subset, FS_CardinalityType

\* One element more adds one at most.
LEMMA AtMostOneMore ==
  ASSUME NEW S, IsFiniteSet(S), NEW x, NEW T, T \subseteq S \cup {x}
  PROVE  Cardinality(T) \in Nat /\ Cardinality(T) <= Cardinality(S) + 1
<1>1. IsFiniteSet(S \cup {x}) /\ Cardinality(S \cup {x}) = IF x \in S THEN Cardinality(S) ELSE Cardinality(S) + 1
  BY FS_AddElement
<1>2. IsFiniteSet(T) /\ Cardinality(T) <= Cardinality(S \cup {x})
  BY <1>1, FS_Subset
<1>3. Cardinality(S) \in Nat /\ Cardinality(T) \in Nat
  BY <1>2, FS_CardinalityType
<1> QED BY <1>1, <1>2, <1>3

\* The counts stand when no start is added to any of them.
LEMMA CountsStand ==
  ASSUME MockInv, UNCHANGED <<trial, admitted>>, Retakes' = Retakes,
         Creating' \subseteq Creating, Retaking' \subseteq Retaking
  PROVE  StartsCounted'
<1>1. Trials' = Trials
  BY DEF Trials
<1>2. PICK x : x = Creating'
  OBVIOUS
<1>3. PICK y : y = Retaking'
  OBVIOUS
<1>4. Cardinality(x) <= Cardinality(Creating) /\ Cardinality(x) \in Nat
  BY <1>2, SetsAreFinite, FS_Subset, FS_CardinalityType
<1>5. Cardinality(y) <= Cardinality(Retaking) /\ Cardinality(y) \in Nat
  BY <1>3, SetsAreFinite, FS_Subset, FS_CardinalityType
<1>6. /\ admitted \in Nat /\ StartLimit \in Nat /\ admitted <= StartLimit
      /\ Cardinality(Trials) + Cardinality(Retakes) + Cardinality(Creating) + Cardinality(Retaking) <= admitted
  BY MockAssumption DEF MockInv, StartsCounted
<1>7. Cardinality(Trials) + Cardinality(Retakes) + Cardinality(x) + Cardinality(y) <= admitted
  BY <1>4, <1>5, <1>6, SetsAreFinite
<1> QED BY <1>1, <1>2, <1>3, <1>6, <1>7 DEF StartsCounted

\* What stands for the requests that do not move, when the sessions stand.
LEMMA OthersStand ==
  ASSUME MockInv, NEW t \in MockTxs, NEW u \in MockTxs, u # t, mtx'[u] = mtx[u],
         UNCHANGED <<sessions, reserved, claimedBy, claimed>>, OthersKeepLocks(t)
  PROVE  RequestShape(u)' /\ LocksOfRequest(u)' /\ SeenByRequest(u)'
<1>0. RequestShape(u) /\ LocksOfRequest(u) /\ SeenByRequest(u)
  BY DEF MockInv
<1>1. RequestShape(u)'
  BY <1>0 DEF RequestShape
<1>2. SeenByRequest(u)'
  BY <1>0 DEF SeenByRequest
<1>3. mtx[u].kind \in {"guest", "claim", "draw"} => mtx[u].who \in Guests \cup Accounts
  BY <1>0 DEF RequestShape
<1>4. mtx[u].kind \in {"guest", "claim"} => mtx[u].who \in Guests
  BY <1>0 DEF RequestShape
<1>5. LocksOfRequest(u)'
  BY <1>0, <1>3, <1>4 DEF LocksOfRequest, OthersKeepLocks, People
<1> QED BY <1>1, <1>2, <1>5

\* A step of one request that leaves the sessions as they are.
LEMMA RequestMoves ==
  ASSUME MockInv, NEW t \in MockTxs, NEW r, mtx' = [mtx EXCEPT ![t] = r],
         UNCHANGED <<sessions, reserved, claimedBy, claimed, published>>,
         trial' \in [Guests -> {"none", "live", "expired"}],
         MockLocksOK', OthersKeepLocks(t),
         RequestShape(t)', LocksOfRequest(t)', SeenByRequest(t)',
         StartsCounted', (Len(sessions) + Cardinality(Busy) <= MaxMocks)'
  PROVE  MockInv'
<1>1. DOMAIN mtx' = MockTxs /\ \A u \in MockTxs : u # t => mtx'[u] = mtx[u]
  BY DEF MockInv
<1>2. ASSUME NEW u \in MockTxs PROVE RequestShape(u)' /\ LocksOfRequest(u)' /\ SeenByRequest(u)'
  BY <1>1, OthersStand
<1>3. MockRowsOK'
  BY DEF MockInv, MockRowsOK
<1>4. Owned' /\ InTurn' /\ Unique'
  BY DEF MockInv, Owned, InTurn, Unique
<1> QED BY <1>1, <1>2, <1>3, <1>4 DEF MockInv

\* A step of a request that is under way and adds nothing to the counts.
LEMMA RequestGoesOn ==
  ASSUME MockInv, NEW t \in MockTxs, NEW r, mtx' = [mtx EXCEPT ![t] = r], mtx[t] # MockIdle,
         r.kind # "trial", ~(r.kind = "guest" /\ r.at = "committing" /\ r.source # 0),
         UNCHANGED <<sessions, reserved, claimedBy, claimed, published, trial, admitted>>,
         MockLocksOK', OthersKeepLocks(t),
         RequestShape(t)', LocksOfRequest(t)', SeenByRequest(t)'
  PROVE  MockInv'
<1>1. mtx'[t] = r /\ \A u \in MockTxs : u # t => mtx'[u] = mtx[u]
  BY DEF MockInv
<1>2. Creating' \subseteq Creating /\ Retaking' \subseteq Retaking /\ Retakes' = Retakes
  BY <1>1 DEF Creating, Retaking, Retakes
<1>3. StartsCounted'
  BY <1>2, CountsStand
<1>4. PICK x : x = Busy'
  OBVIOUS
<1>5. x \subseteq Busy
  BY <1>1, <1>4 DEF Busy
<1>6. Cardinality(x) <= Cardinality(Busy) /\ Cardinality(x) \in Nat
  BY <1>5, SetsAreFinite, FS_Subset, FS_CardinalityType
<1>7. (Len(sessions) + Cardinality(Busy) <= MaxMocks)'
  BY <1>4, <1>6, SetsAreFinite, MockAssumption DEF MockInv
<1>8. trial' \in [Guests -> {"none", "live", "expired"}]
  BY DEF MockInv, MockRowsOK
<1> QED BY <1>3, <1>7, <1>8, RequestMoves

\* The locks of a request that ends are free again, those of the others stay.
LEMMA LocksReleased ==
  ASSUME MockInv, NEW t \in MockTxs, Release(t)
  PROVE  MockLocksOK' /\ OthersKeepLocks(t)
BY DEF MockInv, MockLocksOK, Release, OthersKeepLocks

\* A request that does nothing holds nothing.
LEMMA IdleHolds ==
  ASSUME MockInv, NEW t \in MockTxs, mtx'[t] = MockIdle
  PROVE  RequestShape(t)' /\ LocksOfRequest(t)' /\ SeenByRequest(t)'
<1>1. RequestShape(t)'
  BY DEF RequestShape, MockIdle, MockFields
<1>2. LocksOfRequest(t)' /\ SeenByRequest(t)'
  BY DEF LocksOfRequest, SeenByRequest, MockIdle
<1> QED BY <1>1, <1>2

\* A request that ends without a change.
LEMMA RequestEnds ==
  ASSUME MockInv, NEW t \in MockTxs, mtx[t] # MockIdle, MockEnd(t),
         UNCHANGED <<drawnVars, trialVars, sessions, admitted>>
  PROVE  MockInv'
<1>1. UNCHANGED <<sessions, reserved, claimedBy, claimed, published, trial, admitted>>
  BY DEF drawnVars, trialVars
<1>2. PICK r : r = MockIdle
  OBVIOUS
<1>3. mtx' = [mtx EXCEPT ![t] = r] /\ Release(t)
  BY <1>2 DEF MockEnd
<1>4. mtx'[t] = MockIdle
  BY <1>2, <1>3 DEF MockInv
<1>5. r.kind = "idle"
  BY <1>2 DEF MockIdle
<1> QED BY <1>1, <1>3, <1>4, <1>5, LocksReleased, IdleHolds, RequestGoesOn

\* At first there is no session, no trial and no request.
LEMMA MocksStart == MockInit => MockInv
<1> SUFFICES ASSUME MockInit PROVE MockInv
  OBVIOUS
<1>0. /\ {MaxVersion, StartLimit, MaxMocks, MaxDraws} \subseteq Nat /\ MaxVersion > 0
      /\ IsFiniteSet(Guests) /\ IsFiniteSet(MockTxs)
  BY MockAssumption
<1>1. MockRowsOK
  <2>1. sessions \in Seq(MockSession)
    BY DEF MockInit
  <2>2. published \in [Bank -> 0..MaxVersion]
    BY <1>0 DEF MockInit
  <2> QED BY <1>0, <2>1, <2>2 DEF MockInit, MockRowsOK
<1>2. MockLocksOK /\ DOMAIN mtx = MockTxs /\ \A t \in MockTxs : mtx[t] = MockIdle
  BY DEF MockInit, MockLocksOK
<1>3. ASSUME NEW t \in MockTxs PROVE RequestShape(t)
  <2>1. mtx[t] = MockIdle
    BY <1>2
  <2> QED BY <2>1 DEF RequestShape, MockIdle, MockFields
<1>4. \A t \in MockTxs : LocksOfRequest(t) /\ SeenByRequest(t)
  BY <1>2 DEF LocksOfRequest, SeenByRequest, MockIdle
<1>5. Len(sessions) = 0 /\ DOMAIN sessions = {}
  BY DEF MockInit
<1>6. Owned /\ InTurn /\ Unique
  BY <1>5 DEF Owned, InTurn, Unique
<1>7. Trials = {} /\ Retakes = {} /\ Creating = {} /\ Retaking = {} /\ Busy = {}
  BY <1>2, <1>5 DEF Trials, Retakes, Creating, Retaking, Busy, MockInit, MockIdle
<1>8. Cardinality({}) = 0
  BY FS_EmptySet
<1>9. StartsCounted /\ Len(sessions) + Cardinality(Busy) <= MaxMocks
  BY <1>0, <1>5, <1>7, <1>8 DEF StartsCounted, MockInit
<1> QED BY <1>1, <1>2, <1>3, <1>4, <1>6, <1>9 DEF MockInv

\* Materials are drawn from what is published now.
LEMMA DrawsFit ==
  ASSUME MockInv, NEW pool, \A s \in MockSkills : pool[s] \subseteq Eligible[s], NEW d \in DrawsFrom(pool)
  PROVE  d \in Draws
<1>1. PICK m \in [MockSkills -> Bank] :
        /\ \A s \in MockSkills : m[s] \in pool[s]
        /\ d = [s \in MockSkills |-> <<m[s], published[m[s]]>>]
  BY DEF DrawsFrom
<1>2. ASSUME NEW s \in MockSkills
      PROVE  d[s] \in Pinned /\ BankSkill[d[s][1]] = s
  <2>1. m[s] \in Bank /\ BankSkill[m[s]] = s /\ published[m[s]] > 0
    BY <1>1 DEF Eligible
  <2>2. published[m[s]] \in 0..MaxVersion /\ MaxVersion \in Nat
    BY <2>1, MockAssumption DEF MockInv, MockRowsOK
  <2>3. published[m[s]] \in 1..MaxVersion
    BY <2>1, <2>2
  <2>4. d[s] = <<m[s], published[m[s]]>>
    BY <1>1
  <2> QED BY <2>1, <2>3, <2>4 DEF Pinned
<1> QED BY <1>1, <1>2 DEF Draws

\* The bank of an account is of what is published.
LEMMA PoolsFit ==
  ASSUME NEW p, NEW s \in MockSkills
  PROVE  Candidates[s] \subseteq Eligible[s] /\ SelectionPool(p, s) \subseteq Eligible[s]
<1>1. Candidates[s] \subseteq Eligible[s]
  BY DEF Candidates
<1> QED BY <1>1 DEF SelectionPool

\* A curated test is read with the versions that are published.
LEMMA ReadTestKeeps ==
  ASSUME MockInv, NEW t \in MockTxs, ReadTest(t)
  PROVE  MockInv'
<1>1. mtx[t].kind = "curated" /\ mtx[t].at = "testing" /\ mtx[t] # MockIdle
  BY DEF ReadTest, MockAt, MockIdle
<1>2. UNCHANGED <<drawnVars, trialVars, sessions, admitted>>
  BY DEF ReadTest
<1>3. CASE ~Ready(Eligible)
  BY <1>1, <1>2, <1>3, RequestEnds DEF ReadTest
<1>4. CASE Ready(Eligible)
  <2>1. PICK d \in DrawsFrom(Eligible) :
          /\ mtx' = [mtx EXCEPT ![t].draw = d, ![t].at = IF Billed THEN "generating" ELSE "committing"]
          /\ UNCHANGED mockLocks
    BY <1>4 DEF ReadTest
  <2>2. d \in Draws
    BY DrawsFit
  <2>3. PICK at \in {"generating", "committing"} : at = IF Billed THEN "generating" ELSE "committing"
    OBVIOUS
  <2>4. PICK r : r = [mtx[t] EXCEPT !.draw = d, !.at = at]
    OBVIOUS
  <2>5. mtx' = [mtx EXCEPT ![t] = r]
    BY <2>1, <2>3, <2>4
  <2>6. /\ DOMAIN r = MockFields /\ r.kind = "curated" /\ r.at = at /\ r.draw = d /\ r.who = mtx[t].who
        /\ r.test = mtx[t].test /\ r.for = mtx[t].for /\ r.source = mtx[t].source /\ r.restart = mtx[t].restart
    BY <1>1, <2>4 DEF MockInv, RequestShape, MockFields
  <2>7. mtx'[t] = r
    BY <2>5 DEF MockInv
  <2>8. RequestShape(t)'
    BY <1>1, <2>2, <2>6, <2>7 DEF MockInv, RequestShape
  <2>9. LocksOfRequest(t)' /\ SeenByRequest(t)'
    BY <2>6, <2>7 DEF LocksOfRequest, SeenByRequest
  <2>10. MockLocksOK' /\ OthersKeepLocks(t)
    BY <2>1 DEF mockLocks, MockInv, MockLocksOK, OthersKeepLocks
  <2> QED BY <1>1, <1>2, <2>5, <2>6, <2>8, <2>9, <2>10, RequestGoesOn DEF drawnVars, trialVars
<1> QED BY <1>3, <1>4

\* Who has the row of a trial finds it unclaimed, until he lets it go.
LEMMA LockTrialKeeps ==
  ASSUME MockInv, NEW t \in MockTxs, LockTrial(t)
  PROVE  MockInv'
<1>1. mtx[t].kind \in {"guest", "claim"} /\ mtx[t].at = "locking" /\ mtx[t] # MockIdle
  BY DEF LockTrial, MockAt, MockIdle
<1>2. UNCHANGED <<drawnVars, trialVars, sessions, admitted>> /\ trialLock[mtx[t].who] = NoMock
  BY DEF LockTrial
<1>3. CASE ~Valid(t)
  BY <1>1, <1>2, <1>3, RequestEnds DEF LockTrial
<1>4. CASE Valid(t)
  <2>1. /\ trialLock' = [trialLock EXCEPT ![mtx[t].who] = t]
        /\ UNCHANGED <<generationLock, fixedLock>> /\ claimedBy[mtx[t].who] = NoMock
    BY <1>4 DEF LockTrial, Valid
  <2>2. PICK r : r = [mtx[t] EXCEPT !.at = "generating"]
    OBVIOUS
  <2>3. mtx' = [mtx EXCEPT ![t] = r]
    BY <1>4, <2>2 DEF LockTrial, MockGoto
  <2>4. /\ DOMAIN r = MockFields /\ r.kind = mtx[t].kind /\ r.at = "generating" /\ r.draw = mtx[t].draw
        /\ r.who = mtx[t].who /\ r.test = mtx[t].test /\ r.for = mtx[t].for /\ r.source = mtx[t].source
        /\ r.restart = mtx[t].restart
    BY <2>2 DEF MockInv, RequestShape, MockFields
  <2>5. mtx'[t] = r /\ mtx[t].who \in Guests
    BY <1>1, <2>3 DEF MockInv, RequestShape
  <2>6. RequestShape(t)'
    BY <1>1, <2>4, <2>5 DEF MockInv, RequestShape
  <2>7. MockLocksOK' /\ OthersKeepLocks(t)
    BY <1>2, <2>1, <2>5, MockAssumption DEF MockInv, MockLocksOK, OthersKeepLocks
  <2>8. LocksOfRequest(t)'
    BY <1>2, <2>1, <2>4, <2>5 DEF LocksOfRequest, trialVars, MockInv, MockLocksOK
  <2>9. SeenByRequest(t)'
    BY <1>1, <1>2, <2>4, <2>5 DEF SeenByRequest, MockInv
  <2> QED BY <1>1, <1>2, <2>3, <2>4, <2>6, <2>7, <2>8, <2>9, RequestGoesOn DEF drawnVars, trialVars
<1> QED BY <1>3, <1>4

\* A set of sessions that is not empty has a last one.
LEMMA LastOf ==
  ASSUME NEW n \in Nat, NEW S, S \subseteq 1..n, S # {}
  PROVE  \E r \in S : \A q \in S : q <= r
<1> DEFINE R == OpToRel(<, Nat)
           T == {i \in 0..n : n - i \in S}
<1>1. IsWellFoundedOn(R, Nat)
  BY NatLessThanWellFounded
<1>2. T \subseteq Nat /\ \A q \in S : n - q \in T
  OBVIOUS
<1>3. \A x, y \in Nat : x < y => <<x, y>> \in R
  BY DEF OpToRel
<1>4. \A x \in T : n - x \in S
  OBVIOUS
<1> HIDE DEF R, T
<1>5. PICK x \in T : \A y \in T : <<y, x>> \notin R
  BY <1>1, <1>2, WFMin
<1>6. \A q \in S : ~(n - q < x)
  BY <1>2, <1>3, <1>5
<1>7. \A q \in S : q <= n - x
  BY <1>2, <1>5, <1>6
<1> QED BY <1>4, <1>5, <1>7

\* What the latest session of a guest says of all of his while he is not claimed.
LEMMA LatestIsLast ==
  ASSUME MockInv, NEW g \in Guests, claimedBy[g] = NoMock
  PROVE  /\ \A i \in DOMAIN sessions : sessions[i].by = g => i <= Latest(g)
         /\ Latest(g) # 0 => Latest(g) \in DOMAIN sessions /\ sessions[Latest(g)].by = g
         /\ Latest(g) \in Nat
<1>1. \A i \in DOMAIN sessions : sessions[i] \in MockSession
  BY DEF MockInv, MockRowsOK
<1>2. \A i \in DOMAIN sessions : sessions[i].by = g <=> sessions[i].owner = g
  <2> SUFFICES ASSUME NEW i \in DOMAIN sessions PROVE sessions[i].by = g <=> sessions[i].owner = g
    OBVIOUS
  <2>1. sessions[i].by \in Guests \/ sessions[i].by \in Accounts
    BY <1>1 DEF MockSession, People
  <2>2. \A q \in Guests : claimedBy[q] # NoMock => claimedBy[q] \in Accounts
    BY DEF MockInv, MockRowsOK
  <2> QED BY <2>1, <2>2, MockAssumption DEF MockInv, Owned
<1>3. CASE Of(g) = {}
  BY <1>2, <1>3 DEF Of, Latest
<1>4. CASE Of(g) # {}
  <2>1. Of(g) \subseteq 1..Len(sessions) /\ Len(sessions) \in Nat
    BY DEF Of, MockInv, MockRowsOK
  <2>2. \E i \in Of(g) : \A j \in Of(g) : j <= i
    BY <1>4, <2>1, LastOf
  <2>3. Latest(g) \in Of(g) /\ \A j \in Of(g) : j <= Latest(g)
    BY <1>4, <2>2 DEF Latest
  <2> QED BY <1>2, <2>1, <2>3 DEF Of
<1> QED BY <1>3, <1>4

\* A mock is made for a guest whose last session is the one he takes again, and for an
\* account that has none under way.
LEMMA LockMocksKeeps ==
  ASSUME MockInv, NEW t \in MockTxs, LockMocks(t)
  PROVE  MockInv'
<1>1. mtx[t].kind \in {"guest", "draw", "curated"} /\ mtx[t].at = "generating" /\ mtx[t] # MockIdle
  BY DEF LockMocks, MockAt, MockIdle
<1>2. UNCHANGED <<drawnVars, trialVars, sessions, admitted>> /\ generationLock[mtx[t].who] = NoMock
  BY DEF LockMocks
<1>3. /\ DOMAIN mtx[t] = MockFields /\ RequestShape(t) /\ LocksOfRequest(t) /\ SeenByRequest(t)
      /\ mtx[t].who \in People /\ mtx[t].source \in Nat /\ mtx[t].restart \in BOOLEAN
  BY <1>1 DEF MockInv, RequestShape, People
<1>4. UNCHANGED <<sessions, reserved, claimedBy, claimed, published, trial, admitted>>
  BY <1>2 DEF drawnVars, trialVars
<1>5. CASE mtx[t].kind = "guest" /\ Successor(t)
  BY <1>1, <1>2, <1>5, RequestEnds DEF LockMocks
<1>6. CASE ~(mtx[t].kind = "guest" /\ Successor(t)) /\ Resumed(t) # {} /\ mtx[t].kind # "draw"
  BY <1>1, <1>2, <1>6, RequestEnds DEF LockMocks, MockEnd
<1>7. CASE ~(mtx[t].kind = "guest" /\ Successor(t)) /\ Resumed(t) # {} /\ mtx[t].kind = "draw"
  <2>1. Release(t) /\ \E i \in Resumed(t) : mtx' = [mtx EXCEPT ![t].at = "returned", ![t].source = i]
    BY <1>7 DEF LockMocks
  <2>2. PICK i \in Resumed(t) : mtx' = [mtx EXCEPT ![t].at = "returned", ![t].source = i]
    BY <2>1
  <2>3. i \in Nat
    <3>1. i \in DOMAIN sessions
      BY DEF Resumed, UnderWay, UnderWayOf, Of
    <3> QED BY <3>1, SetsAreFinite
  <2>4. PICK r : r = [mtx[t] EXCEPT !.at = "returned", !.source = i]
    OBVIOUS
  <2>5. mtx' = [mtx EXCEPT ![t] = r]
    BY <2>2, <2>4
  <2>6. /\ DOMAIN r = MockFields /\ r.kind = "draw" /\ r.at = "returned" /\ r.draw = mtx[t].draw
        /\ r.who = mtx[t].who /\ r.test = mtx[t].test /\ r.for = mtx[t].for /\ r.source = i
        /\ r.restart = mtx[t].restart
    BY <1>3, <1>7, <2>4 DEF MockFields
  <2>7. mtx'[t] = r
    BY <2>5 DEF MockInv
  <2>8. RequestShape(t)'
    BY <1>3, <1>7, <2>3, <2>6, <2>7 DEF RequestShape
  <2>9. LocksOfRequest(t)' /\ SeenByRequest(t)'
    BY <2>6, <2>7 DEF LocksOfRequest, SeenByRequest
  <2> QED BY <1>1, <1>4, <2>1, <2>5, <2>6, <2>8, <2>9, LocksReleased, RequestGoesOn
<1>8. CASE ~(mtx[t].kind = "guest" /\ Successor(t)) /\ Resumed(t) = {}
  <2>1. /\ generationLock' = [generationLock EXCEPT ![mtx[t].who] = t]
        /\ MockGoto(t, IF mtx[t].kind = "curated" THEN "committing" ELSE "drawing")
        /\ UNCHANGED <<trialLock, fixedLock>>
    BY <1>8 DEF LockMocks
  <2>2. PICK at : at = IF mtx[t].kind = "curated" THEN "committing" ELSE "drawing"
    OBVIOUS
  <2>3. PICK r : r = [mtx[t] EXCEPT !.at = at]
    OBVIOUS
  <2>4. mtx' = [mtx EXCEPT ![t] = r]
    BY <2>1, <2>2, <2>3 DEF MockGoto
  <2>5. /\ DOMAIN r = MockFields /\ r.kind = mtx[t].kind /\ r.at = at /\ r.draw = mtx[t].draw
        /\ r.who = mtx[t].who /\ r.test = mtx[t].test /\ r.for = mtx[t].for /\ r.source = mtx[t].source
        /\ r.restart = mtx[t].restart
    BY <1>3, <2>3 DEF MockFields
  <2>6. mtx'[t] = r
    BY <2>4 DEF MockInv
  <2>7. MockLocksOK' /\ OthersKeepLocks(t)
    BY <1>2, <1>3, <2>1, MockAssumption DEF MockInv, MockLocksOK, OthersKeepLocks
  <2>x. generationLock'[mtx[t].who] = t
    BY <1>3, <2>1 DEF MockInv, MockLocksOK
  <2>8. LocksOfRequest(t)'
    BY <1>1, <1>3, <1>4, <2>1, <2>2, <2>5, <2>6, <2>x DEF LocksOfRequest
  <2>9. CASE mtx[t].kind = "guest"
    <3>1. mtx[t].who \in Guests /\ claimedBy[mtx[t].who] = NoMock
      BY <1>1, <1>3, <2>9 DEF RequestShape, LocksOfRequest
    <3>2. Latest(mtx[t].who) = 0 \/ Latest(mtx[t].who) = mtx[t].source
      BY <1>8, <2>9 DEF Successor
    <3>3. \A i \in DOMAIN sessions : sessions[i].by = mtx[t].who => i <= mtx[t].source
      <4>1. ASSUME NEW i \in DOMAIN sessions, sessions[i].by = mtx[t].who PROVE i <= mtx[t].source
        <5>1. i <= Latest(mtx[t].who) /\ i \in Nat \ {0}
          BY <3>1, <4>1, LatestIsLast, SetsAreFinite
        <5> QED BY <3>2, <5>1
      <4> QED BY <4>1
    <3>4. SeenByRequest(t)'
      BY <1>3, <1>4, <2>5, <2>6, <2>9, <3>3 DEF SeenByRequest
    <3>5. RequestShape(t)' /\ at = "drawing"
      BY <1>3, <2>2, <2>5, <2>6, <2>9 DEF RequestShape
    <3> QED BY <1>1, <1>4, <2>4, <2>5, <2>7, <2>8, <3>4, <3>5, RequestGoesOn
  <2>10. CASE mtx[t].kind = "draw"
    <3>1. ~mtx[t].restart => UnderWay(mtx[t].who) = {}
      BY <1>8, <2>10 DEF Resumed
    <3>2. SeenByRequest(t)'
      BY <1>4, <2>5, <2>6, <2>10, <3>1 DEF SeenByRequest, UnderWay, Of
    <3>3. RequestShape(t)'
      BY <1>1, <1>3, <2>2, <2>5, <2>6, <2>10 DEF RequestShape
    <3> QED BY <1>1, <1>4, <2>4, <2>5, <2>7, <2>8, <2>10, <3>2, <3>3, RequestGoesOn
  <2>11. CASE mtx[t].kind = "curated"
    <3>1. SeenByRequest(t)'
      BY <2>5, <2>6, <2>11 DEF SeenByRequest
    <3>2. mtx[t].draw \in Draws
      BY <1>1, <1>3, <2>11 DEF RequestShape
    <3>3. RequestShape(t)'
      BY <1>1, <1>3, <2>2, <2>5, <2>6, <2>11, <3>2 DEF RequestShape
    <3> QED BY <1>1, <1>4, <2>4, <2>5, <2>7, <2>8, <2>11, <3>1, <3>3, RequestGoesOn
  <2> QED BY <1>1, <2>9, <2>10, <2>11
<1> QED BY <1>5, <1>6, <1>7, <1>8

\* The materials of an account.
LEMMA DrawKeeps ==
  ASSUME MockInv, NEW t \in MockTxs, DrawMaterials(t)
  PROVE  MockInv'
<1>1. mtx[t].kind = "draw" /\ mtx[t].at = "drawing" /\ mtx[t] # MockIdle
  BY DEF DrawMaterials, MockAt, MockIdle
<1>2. UNCHANGED <<drawnVars, trialVars, sessions, admitted>>
  BY DEF DrawMaterials
<1>3. CASE ~Ready(Candidates)
  BY <1>1, <1>2, <1>3, RequestEnds DEF DrawMaterials
<1>4. CASE Ready(Candidates)
  <2> DEFINE pool == [s \in MockSkills |-> SelectionPool(mtx[t].who, s)]
  <2>1. PICK d \in DrawsFrom(pool) :
          mtx' = [mtx EXCEPT ![t].draw = d, ![t].at = "committing"] /\ UNCHANGED mockLocks
    BY <1>4 DEF DrawMaterials
  <2>2. d \in Draws
    <3>1. \A s \in MockSkills : pool[s] \subseteq Eligible[s]
      BY PoolsFit
    <3> HIDE DEF pool
    <3> QED BY <2>1, <3>1, DrawsFit
  <2>3. PICK r : r = [mtx[t] EXCEPT !.draw = d, !.at = "committing"]
    OBVIOUS
  <2>4. mtx' = [mtx EXCEPT ![t] = r]
    BY <2>1, <2>3
  <2>5. RequestShape(t) /\ LocksOfRequest(t) /\ SeenByRequest(t)
    BY DEF MockInv
  <2>6. /\ DOMAIN r = MockFields /\ r.kind = "draw" /\ r.at = "committing" /\ r.draw = d /\ r.who = mtx[t].who
        /\ r.test = mtx[t].test /\ r.for = mtx[t].for /\ r.source = mtx[t].source /\ r.restart = mtx[t].restart
    BY <1>1, <2>3, <2>5 DEF RequestShape, MockFields
  <2>7. mtx'[t] = r
    BY <2>4 DEF MockInv
  <2>8. RequestShape(t)'
    BY <1>1, <2>2, <2>5, <2>6, <2>7 DEF RequestShape
  <2>9. /\ UNCHANGED <<sessions, reserved, claimedBy, claimed, published, trial, admitted>>
        /\ UNCHANGED <<trialLock, generationLock, fixedLock>>
    BY <1>2, <2>1 DEF drawnVars, trialVars, mockLocks
  <2>10. LocksOfRequest(t)'
    BY <1>1, <2>5, <2>6, <2>7, <2>9 DEF LocksOfRequest
  <2>11. SeenByRequest(t)'
    BY <1>1, <2>5, <2>6, <2>7, <2>9 DEF SeenByRequest
  <2>12. MockLocksOK' /\ OthersKeepLocks(t)
    BY <2>9 DEF MockInv, MockLocksOK, OthersKeepLocks
  <2> QED BY <1>1, <2>4, <2>6, <2>8, <2>9, <2>10, <2>11, <2>12, RequestGoesOn
<1> QED BY <1>3, <1>4

\* The materials of all guests are those of the first, whose session has reserved them.
LEMMA PrepareKeeps ==
  ASSUME MockInv, NEW t \in MockTxs, PrepareGuestMock(t)
  PROVE  MockInv'
<1>1. mtx[t].kind = "guest" /\ mtx[t].at = "drawing" /\ mtx[t] # MockIdle
  BY DEF PrepareGuestMock, MockAt, MockIdle
<1>2. UNCHANGED <<drawnVars, trialVars, sessions, admitted>> /\ fixedLock = NoMock
  BY DEF PrepareGuestMock
<1>3. CASE FixedDraws(t) = {}
  BY <1>1, <1>2, <1>3, RequestEnds DEF PrepareGuestMock
<1>4. CASE FixedDraws(t) # {}
  <2>1. PICK d \in FixedDraws(t) : d = CHOOSE x \in FixedDraws(t) : TRUE
    BY <1>4
  <2>2. d \in Draws /\ (reserved # NoMock => d = reserved)
    <3>1. CASE reserved = NoMock
      BY <2>1, <3>1, DrawsFit DEF FixedDraws
    <3>2. CASE reserved # NoMock
      BY <2>1, <3>2 DEF FixedDraws, MockInv, MockRowsOK
    <3> QED BY <3>1, <3>2
  <2>3. PICK at : at = IF mtx[t].source = 0 THEN "committing" ELSE "admitting"
    OBVIOUS
  <2>4. PICK r : r = [mtx[t] EXCEPT !.draw = d, !.at = at]
    OBVIOUS
  <2>5. /\ mtx' = [mtx EXCEPT ![t] = r]
        /\ fixedLock' = t /\ UNCHANGED <<trialLock, generationLock>>
    BY <1>4, <2>1, <2>3, <2>4 DEF PrepareGuestMock
  <2>6. RequestShape(t) /\ LocksOfRequest(t) /\ SeenByRequest(t)
    BY DEF MockInv
  <2>7. /\ DOMAIN r = MockFields /\ r.kind = "guest" /\ r.at = at /\ r.draw = d /\ r.who = mtx[t].who
        /\ r.test = mtx[t].test /\ r.for = mtx[t].for /\ r.source = mtx[t].source /\ r.restart = mtx[t].restart
    BY <1>1, <2>4, <2>6 DEF RequestShape, MockFields
  <2>8. mtx'[t] = r
    BY <2>5 DEF MockInv
  <2>9. RequestShape(t)'
    BY <1>1, <2>2, <2>3, <2>6, <2>7, <2>8 DEF RequestShape
  <2>10. UNCHANGED <<sessions, reserved, claimedBy, claimed, published, trial, admitted>>
    BY <1>2 DEF drawnVars, trialVars
  <2>11. LocksOfRequest(t)'
    BY <1>1, <2>2, <2>3, <2>5, <2>6, <2>7, <2>8, <2>10 DEF LocksOfRequest
  <2>12. SeenByRequest(t)'
    BY <1>1, <2>3, <2>6, <2>7, <2>8, <2>10 DEF SeenByRequest
  <2>13. MockLocksOK' /\ OthersKeepLocks(t)
    BY <1>2, <2>5, MockAssumption DEF MockInv, MockLocksOK, OthersKeepLocks
  <2>14. ~(r.kind = "guest" /\ r.at = "committing" /\ r.source # 0)
    BY <2>3, <2>7
  <2> QED BY <1>1, <2>5, <2>7, <2>9, <2>10, <2>11, <2>12, <2>13, <2>14, RequestGoesOn
<1> QED BY <1>3, <1>4

\* A retake is counted in the step that lets it be made.
LEMMA AdmitRetakeKeeps ==
  ASSUME MockInv, NEW t \in MockTxs, AdmitRetake(t)
  PROVE  MockInv'
<1>1. mtx[t].kind = "guest" /\ mtx[t].at = "admitting" /\ mtx[t] # MockIdle
  BY DEF AdmitRetake, MockAt, MockIdle
<1>2. UNCHANGED <<drawnVars, trialVars, sessions>>
  BY DEF AdmitRetake
<1>3. CASE ~Admitted
  BY <1>1, <1>2, <1>3, RequestEnds DEF AdmitRetake
<1>4. CASE Admitted
  <2>1. admitted' = admitted + 1 /\ admitted < StartLimit /\ UNCHANGED <<trialLock, generationLock, fixedLock>>
    BY <1>4 DEF AdmitRetake, Admitted, mockLocks
  <2>2. PICK r : r = [mtx[t] EXCEPT !.at = "committing"]
    OBVIOUS
  <2>3. mtx' = [mtx EXCEPT ![t] = r]
    BY <1>4, <2>2 DEF AdmitRetake, MockGoto
  <2>4. RequestShape(t) /\ LocksOfRequest(t) /\ SeenByRequest(t)
    BY DEF MockInv
  <2>5. /\ DOMAIN r = MockFields /\ r.kind = "guest" /\ r.at = "committing" /\ r.draw = mtx[t].draw
        /\ r.who = mtx[t].who /\ r.test = mtx[t].test /\ r.for = mtx[t].for /\ r.source = mtx[t].source
        /\ r.restart = mtx[t].restart
    BY <1>1, <2>2, <2>4 DEF RequestShape, MockFields
  <2>6. mtx'[t] = r /\ \A u \in MockTxs : u # t => mtx'[u] = mtx[u]
    BY <2>3 DEF MockInv
  <2>7. RequestShape(t)'
    BY <1>1, <2>4, <2>5, <2>6 DEF RequestShape
  <2>8. UNCHANGED <<sessions, reserved, claimedBy, claimed, published, trial>>
    BY <1>2 DEF drawnVars, trialVars
  <2>9. LocksOfRequest(t)'
    BY <1>1, <2>1, <2>4, <2>5, <2>6, <2>8 DEF LocksOfRequest
  <2>10. SeenByRequest(t)'
    BY <1>1, <2>4, <2>5, <2>6, <2>8 DEF SeenByRequest
  <2>11. MockLocksOK' /\ OthersKeepLocks(t)
    BY <2>1 DEF MockInv, MockLocksOK, OthersKeepLocks
  <2>12. StartsCounted'
    <3>1. Trials' = Trials /\ Retakes' = Retakes /\ Creating' = Creating
      BY <1>1, <2>5, <2>6, <2>8 DEF Trials, Retakes, Creating
    <3>2. PICK y : y = Retaking'
      OBVIOUS
    <3>3. y \subseteq Retaking \cup {t}
      BY <2>6, <3>2 DEF Retaking
    <3>4. Cardinality(y) <= Cardinality(Retaking) + 1 /\ Cardinality(y) \in Nat
      BY <3>3, SetsAreFinite, AtMostOneMore
    <3>5. admitted \in Nat /\ StartLimit \in Nat
      BY MockAssumption DEF MockInv, StartsCounted
    <3>6. Cardinality(Trials) + Cardinality(Retakes) + Cardinality(Creating) + Cardinality(Retaking) <= admitted
      BY DEF MockInv, StartsCounted
    <3>7. Cardinality(Trials) + Cardinality(Retakes) + Cardinality(Creating) + Cardinality(y) <= admitted'
      BY <2>1, <3>4, <3>5, <3>6, SetsAreFinite
    <3>8. admitted' \in 0..StartLimit
      BY <2>1, <3>5
    <3> QED BY <3>1, <3>2, <3>7, <3>8 DEF StartsCounted
  <2>13. Busy' \subseteq Busy
    BY <1>1, <2>6 DEF Busy
  <2>14. (Len(sessions) + Cardinality(Busy) <= MaxMocks)'
    <3>1. PICK x : x = Busy'
      OBVIOUS
    <3>2. Cardinality(x) <= Cardinality(Busy) /\ Cardinality(x) \in Nat
      BY <2>13, <3>1, SetsAreFinite, FS_Subset, FS_CardinalityType
    <3> QED BY <2>8, <3>1, <3>2, SetsAreFinite, MockAssumption DEF MockInv
  <2>15. trial' \in [Guests -> {"none", "live", "expired"}]
    BY <2>8 DEF MockInv, MockRowsOK
  <2> QED BY <2>3, <2>7, <2>8, <2>9, <2>10, <2>11, <2>12, <2>14, <2>15, RequestMoves
<1> QED BY <1>3, <1>4

\* The trial that was admitted is made: it is counted among the trials from now on.
LEMMA CreateKeeps ==
  ASSUME MockInv, NEW t \in MockTxs, CreateTrial(t)
  PROVE  MockInv'
<1>1. mtx[t].kind = "trial" /\ mtx[t].at = "creating" /\ mtx[t] # MockIdle
  BY DEF CreateTrial, MockAt, MockIdle
<1>2. PICK r : r = [mtx[t] EXCEPT !.kind = "guest", !.at = "locking"]
  OBVIOUS
<1>3. mtx' = [mtx EXCEPT ![t] = r]
  BY <1>2 DEF CreateTrial
<1>4. /\ UNCHANGED <<sessions, reserved, claimedBy, claimed, published, admitted>>
      /\ UNCHANGED <<trialLock, generationLock, fixedLock>>
      /\ trial' = [trial EXCEPT ![mtx[t].who] = "live"]
  BY DEF CreateTrial, drawnVars, mockLocks
<1>5. RequestShape(t) /\ mtx[t].who \in Guests
  BY <1>1 DEF MockInv, RequestShape
<1>6. /\ DOMAIN r = MockFields /\ r.kind = "guest" /\ r.at = "locking" /\ r.draw = mtx[t].draw
      /\ r.who = mtx[t].who /\ r.test = mtx[t].test /\ r.for = mtx[t].for /\ r.source = mtx[t].source
      /\ r.restart = mtx[t].restart
  BY <1>2, <1>5 DEF RequestShape, MockFields
<1>7. mtx'[t] = r /\ \A u \in MockTxs : u # t => mtx'[u] = mtx[u]
  BY <1>3 DEF MockInv
<1>8. RequestShape(t)'
  BY <1>1, <1>5, <1>6, <1>7 DEF RequestShape
<1>9. LocksOfRequest(t)'
  BY <1>6, <1>7 DEF LocksOfRequest
<1>10. SeenByRequest(t)'
  BY <1>1, <1>5, <1>6, <1>7 DEF SeenByRequest, RequestShape
<1>11. MockLocksOK' /\ OthersKeepLocks(t)
  BY <1>4 DEF MockInv, MockLocksOK, OthersKeepLocks
<1>12. trial' \in [Guests -> {"none", "live", "expired"}]
  BY <1>4, <1>5 DEF MockInv, MockRowsOK
<1>13. StartsCounted'
  <2>1. Retakes' = Retakes /\ Retaking' = Retaking
    BY <1>1, <1>4, <1>6, <1>7 DEF Retakes, Retaking
  <2>2. PICK x : x = Trials'
    OBVIOUS
  <2>3. PICK y : y = Creating'
    OBVIOUS
  <2>4. x \subseteq Trials \cup {mtx[t].who}
    BY <1>4, <1>5, <2>2 DEF Trials, MockInv, MockRowsOK
  <2>5. Cardinality(x) <= Cardinality(Trials) + 1 /\ Cardinality(x) \in Nat
    BY <2>4, SetsAreFinite, AtMostOneMore
  <2>6. t \in Creating /\ y = Creating \ {t}
    BY <1>1, <1>6, <1>7, <2>3 DEF Creating
  <2>7. Cardinality(y) = Cardinality(Creating) - 1 /\ Cardinality(y) \in Nat
    BY <2>6, SetsAreFinite, FS_RemoveElement, FS_CardinalityType
  <2>8. /\ admitted \in 0..StartLimit /\ admitted \in Nat
        /\ Cardinality(Trials) + Cardinality(Retakes) + Cardinality(Creating) + Cardinality(Retaking) <= admitted
    BY MockAssumption DEF MockInv, StartsCounted
  <2>c. /\ Cardinality(Trials) \in Nat /\ Cardinality(Retakes) \in Nat /\ Cardinality(Creating) \in Nat
        /\ Cardinality(Retaking) \in Nat
    BY SetsAreFinite
  <2>9. Cardinality(x) + Cardinality(Retakes) + Cardinality(y) + Cardinality(Retaking) <= admitted
    BY <2>5, <2>7, <2>8, <2>c
  <2> QED BY <1>4, <2>1, <2>2, <2>3, <2>8, <2>9 DEF StartsCounted
<1>14. (Len(sessions) + Cardinality(Busy) <= MaxMocks)'
  <2>1. Busy' \subseteq Busy
    BY <1>1, <1>7 DEF Busy
  <2>2. PICK x : x = Busy'
    OBVIOUS
  <2>3. Cardinality(x) <= Cardinality(Busy) /\ Cardinality(x) \in Nat
    BY <2>1, <2>2, SetsAreFinite, FS_Subset, FS_CardinalityType
  <2> QED BY <1>4, <2>2, <2>3, SetsAreFinite, MockAssumption DEF MockInv
<1> QED BY <1>3, <1>4, <1>8, <1>9, <1>10, <1>11, <1>12, <1>13, <1>14, RequestMoves

\* The loop of StartGenerated.
LEMMA DecoratedKeeps ==
  ASSUME MockInv, NEW t \in MockTxs, Decorated(t)
  PROVE  MockInv'
<1>1. mtx[t].kind = "draw" /\ mtx[t].at = "returned" /\ mtx[t] # MockIdle
  BY DEF Decorated, MockAt, MockIdle
<1>2. /\ UNCHANGED <<sessions, reserved, claimedBy, claimed, published, trial, admitted>>
      /\ UNCHANGED <<trialLock, generationLock, fixedLock>>
  BY DEF Decorated, drawnVars, trialVars, mockLocks
<1>3. MockLocksOK' /\ OthersKeepLocks(t)
  BY <1>2 DEF MockInv, MockLocksOK, OthersKeepLocks
<1>4. RequestShape(t)
  BY DEF MockInv
<1>5. CASE sessions[mtx[t].source].status = "IN_PROGRESS" \/ mtx[t].left = 1
  <2>1. PICK r : r = MockIdle
    OBVIOUS
  <2>2. mtx' = [mtx EXCEPT ![t] = r]
    BY <1>5, <2>1 DEF Decorated
  <2>3. mtx'[t] = MockIdle /\ r.kind = "idle"
    BY <2>1, <2>2 DEF MockInv, MockIdle
  <2> QED BY <1>1, <1>2, <1>3, <2>2, <2>3, IdleHolds, RequestGoesOn
<1>6. CASE ~(sessions[mtx[t].source].status = "IN_PROGRESS" \/ mtx[t].left = 1)
  <2>1. PICK r : r = [mtx[t] EXCEPT !.at = "generating", !.source = 0, !.left = mtx[t].left - 1]
    OBVIOUS
  <2>2. mtx' = [mtx EXCEPT ![t] = r]
    BY <1>6, <2>1 DEF Decorated
  <2>3. /\ DOMAIN r = MockFields /\ r.kind = "draw" /\ r.at = "generating" /\ r.draw = mtx[t].draw
        /\ r.who = mtx[t].who /\ r.test = mtx[t].test /\ r.for = mtx[t].for /\ r.source = 0
        /\ r.restart = mtx[t].restart
    BY <1>1, <1>4, <2>1 DEF RequestShape, MockFields
  <2>4. mtx'[t] = r
    BY <2>2 DEF MockInv
  <2>5. RequestShape(t)'
    BY <1>1, <1>4, <2>3, <2>4 DEF RequestShape
  <2>6. LocksOfRequest(t)' /\ SeenByRequest(t)'
    BY <2>3, <2>4 DEF LocksOfRequest, SeenByRequest
  <2> QED BY <1>1, <1>2, <1>3, <2>2, <2>3, <2>5, <2>6, RequestGoesOn
<1> QED BY <1>5, <1>6

\* A request that begins has room for the session it may insert.
LEMMA RequestBegins ==
  ASSUME MockInv, NEW t \in MockTxs, NEW r, mtx[t] = MockIdle, MockRoom, mtx' = [mtx EXCEPT ![t] = r],
         r.kind # "trial", r.at # "committing",
         UNCHANGED <<sessions, reserved, claimedBy, claimed, published, trial, admitted>>,
         UNCHANGED <<trialLock, generationLock, fixedLock>>,
         RequestShape(t)', LocksOfRequest(t)', SeenByRequest(t)'
  PROVE  MockInv'
<1>1. mtx'[t] = r /\ \A u \in MockTxs : u # t => mtx'[u] = mtx[u]
  BY DEF MockInv
<1>2. Creating' \subseteq Creating /\ Retaking' \subseteq Retaking /\ Retakes' = Retakes
  BY <1>1 DEF Creating, Retaking, Retakes
<1>3. StartsCounted'
  BY <1>2, CountsStand
<1>4. PICK x : x = Busy'
  OBVIOUS
<1>5. x \subseteq Busy \cup {t}
  BY <1>1, <1>4 DEF Busy
<1>6. Cardinality(x) <= Cardinality(Busy) + 1 /\ Cardinality(x) \in Nat
  BY <1>5, SetsAreFinite, AtMostOneMore
<1>7. Len(sessions) + Cardinality(Busy) < MaxMocks /\ MaxMocks \in Nat
  BY MockAssumption DEF MockRoom, Busy
<1>8. (Len(sessions) + Cardinality(Busy) <= MaxMocks)'
  BY <1>4, <1>6, <1>7, SetsAreFinite
<1>9. trial' \in [Guests -> {"none", "live", "expired"}]
  BY DEF MockInv, MockRowsOK
<1>10. MockLocksOK' /\ OthersKeepLocks(t)
  BY DEF MockInv, MockLocksOK, OthersKeepLocks
<1> QED BY <1>3, <1>8, <1>9, <1>10, RequestMoves

\* The requests that only begin.
LEMMA StartsKeep ==
  ASSUME MockInv, NEW t \in MockTxs,
         \/ \E g \in Guests : StartGuest(t, g)
         \/ \E g \in Guests : \E i \in DOMAIN sessions : StartRetake(t, g, i)
         \/ \E g \in Guests, a \in Accounts : StartClaim(t, g, a)
         \/ \E a \in Accounts, again \in BOOLEAN : StartGenerated(t, a, again)
  PROVE  MockInv'
<1>0. ASSUME NEW r, MockBegin(t, r), r.kind # "trial", r.at # "committing",
             RequestShape(t)', LocksOfRequest(t)', SeenByRequest(t)'
      PROVE  MockInv'
  <2>1. /\ UNCHANGED <<sessions, reserved, claimedBy, claimed, published, trial, admitted>>
        /\ UNCHANGED <<trialLock, generationLock, fixedLock>>
        /\ mtx[t] = MockIdle /\ MockRoom /\ mtx' = [mtx EXCEPT ![t] = r]
    BY <1>0 DEF MockBegin, drawnVars, trialVars, mockLocks
  <2> QED BY <1>0, <2>1, RequestBegins
<1>1. ASSUME NEW g \in Guests, StartGuest(t, g) PROVE MockInv'
  <2>1. PICK r : r = [MockIdle EXCEPT !.kind = "guest", !.who = g, !.at = "locking"]
    OBVIOUS
  <2>2. MockBegin(t, r)
    BY <1>1, <2>1 DEF StartGuest
  <2>3. mtx'[t] = r
    BY <2>2 DEF MockBegin, MockInv
  <2>4. /\ DOMAIN r = MockFields /\ r.kind = "guest" /\ r.who = g /\ r.at = "locking" /\ r.test = NoMock
        /\ r.source = 0 /\ r.source \in Nat /\ ~r.restart /\ r.restart \in BOOLEAN /\ r.draw = NoMock
    BY <2>1 DEF MockIdle, MockFields
  <2>5. RequestShape(t)'
    BY <2>3, <2>4 DEF RequestShape
  <2>6. LocksOfRequest(t)' /\ SeenByRequest(t)'
    BY <2>3, <2>4 DEF LocksOfRequest, SeenByRequest
  <2> QED BY <1>0, <2>2, <2>4, <2>5, <2>6
<1>2. ASSUME NEW g \in Guests, NEW i \in DOMAIN sessions, StartRetake(t, g, i) PROVE MockInv'
  <2>1. PICK r : r = [MockIdle EXCEPT !.kind = "guest", !.who = g, !.source = i, !.at = "locking"]
    OBVIOUS
  <2>2. MockBegin(t, r) /\ i \in Finished(g) /\ claimedBy[g] = NoMock
    BY <1>2, <2>1 DEF StartRetake
  <2>3. mtx'[t] = r /\ sessions' = sessions
    BY <2>2 DEF MockBegin, MockInv
  <2>4. /\ DOMAIN r = MockFields /\ r.kind = "guest" /\ r.who = g /\ r.at = "locking" /\ r.test = NoMock
        /\ r.source = i /\ r.restart = FALSE /\ r.draw = NoMock
    BY <2>1 DEF MockIdle, MockFields
  <2>5. i \in Nat /\ sessions[i].status = "SUBMITTED" /\ sessions[i].owner = g /\ sessions[i] \in MockSession
    BY <2>2, SetsAreFinite DEF Finished, Of, MockInv, MockRowsOK
  <2>6. sessions[i].by = g
    <3>1. sessions[i].by \in Guests \/ sessions[i].by \in Accounts
      BY <2>5 DEF MockSession, People
    <3>2. \A q \in Guests : claimedBy[q] # NoMock => claimedBy[q] \in Accounts
      BY DEF MockInv, MockRowsOK
    <3> QED BY <2>5, <3>1, <3>2, MockAssumption DEF MockInv, Owned
  <2>7. RequestShape(t)'
    BY <2>3, <2>4, <2>5 DEF RequestShape
  <2>8. LocksOfRequest(t)' /\ SeenByRequest(t)'
    BY <2>3, <2>4, <2>5, <2>6 DEF LocksOfRequest, SeenByRequest
  <2> QED BY <1>0, <2>2, <2>4, <2>7, <2>8
<1>3. ASSUME NEW g \in Guests, NEW a \in Accounts, StartClaim(t, g, a) PROVE MockInv'
  <2>1. PICK r : r = [MockIdle EXCEPT !.kind = "claim", !.who = g, !.for = a, !.at = "locking"]
    OBVIOUS
  <2>2. MockBegin(t, r)
    BY <1>3, <2>1 DEF StartClaim
  <2>3. mtx'[t] = r
    BY <2>2 DEF MockBegin, MockInv
  <2>4. /\ DOMAIN r = MockFields /\ r.kind = "claim" /\ r.who = g /\ r.at = "locking" /\ r.test = NoMock
        /\ r.source = 0 /\ r.source \in Nat /\ ~r.restart /\ r.restart \in BOOLEAN /\ r.draw = NoMock /\ r.for = a
    BY <2>1 DEF MockIdle, MockFields
  <2>5. RequestShape(t)'
    BY <2>3, <2>4 DEF RequestShape
  <2>6. LocksOfRequest(t)' /\ SeenByRequest(t)'
    BY <2>3, <2>4 DEF LocksOfRequest, SeenByRequest
  <2> QED BY <1>0, <2>2, <2>4, <2>5, <2>6
<1>4. ASSUME NEW a \in Accounts, NEW again \in BOOLEAN, StartGenerated(t, a, again) PROVE MockInv'
  <2>1. PICK r : r = [MockIdle EXCEPT !.kind = "draw", !.who = a, !.restart = again, !.at = "generating",
                                      !.left = MaxDraws]
    OBVIOUS
  <2>2. MockBegin(t, r)
    BY <1>4, <2>1 DEF StartGenerated
  <2>3. mtx'[t] = r
    BY <2>2 DEF MockBegin, MockInv
  <2>4. /\ DOMAIN r = MockFields /\ r.kind = "draw" /\ r.who = a /\ r.at = "generating" /\ r.test = NoMock
        /\ r.source = 0 /\ r.restart = again /\ r.draw = NoMock
    BY <2>1 DEF MockIdle, MockFields
  <2>5. RequestShape(t)'
    BY <2>3, <2>4, SMTT(30) DEF RequestShape
  <2>6. LocksOfRequest(t)' /\ SeenByRequest(t)'
    BY <2>3, <2>4 DEF LocksOfRequest, SeenByRequest
  <2> QED BY <1>0, <2>2, <2>4, <2>5, <2>6
<1> QED BY <1>1, <1>2, <1>3, <1>4

\* A new guest is counted in the step that lets him in.
LEMMA AdmitTrialKeeps ==
  ASSUME MockInv, NEW t \in MockTxs, NEW g \in Guests, AdmitTrial(t, g)
  PROVE  MockInv'
<1>1. PICK r : r = [MockIdle EXCEPT !.kind = "trial", !.who = g, !.at = "creating"]
  OBVIOUS
<1>2. /\ UNCHANGED <<sessions, reserved, claimedBy, claimed, published, trial>>
      /\ UNCHANGED <<trialLock, generationLock, fixedLock>>
      /\ mtx[t] = MockIdle /\ MockRoom /\ mtx' = [mtx EXCEPT ![t] = r]
      /\ admitted' = admitted + 1 /\ admitted < StartLimit
  BY <1>1 DEF AdmitTrial, Admitted, drawnVars, trialVars, mockLocks
<1>3. mtx'[t] = r /\ \A u \in MockTxs : u # t => mtx'[u] = mtx[u]
  BY <1>2 DEF MockInv
<1>4. /\ DOMAIN r = MockFields /\ r.kind = "trial" /\ r.who = g /\ r.at = "creating" /\ r.test = NoMock
      /\ r.source = 0 /\ r.source \in Nat /\ ~r.restart /\ r.restart \in BOOLEAN /\ r.draw = NoMock
  BY <1>1 DEF MockIdle, MockFields
<1>5. RequestShape(t)'
  BY <1>3, <1>4 DEF RequestShape
<1>6. LocksOfRequest(t)' /\ SeenByRequest(t)'
  BY <1>3, <1>4 DEF LocksOfRequest, SeenByRequest
<1>7. MockLocksOK' /\ OthersKeepLocks(t)
  BY <1>2 DEF MockInv, MockLocksOK, OthersKeepLocks
<1>8. StartsCounted'
  <2>1. Retakes' = Retakes /\ Trials' = Trials
    BY <1>2 DEF Retakes, Trials
  <2>2. mtx[t].kind = "idle"
    BY <1>2 DEF MockIdle
  <2>3. Retaking' = Retaking
    BY <1>3, <1>4, <2>2 DEF Retaking
  <2>4. PICK x : x = Creating'
    OBVIOUS
  <2>5. x \subseteq Creating \cup {t}
    BY <1>3, <2>4 DEF Creating
  <2>6. Cardinality(x) <= Cardinality(Creating) + 1 /\ Cardinality(x) \in Nat
    BY <2>5, SetsAreFinite, AtMostOneMore
  <2>7. admitted \in Nat /\ StartLimit \in Nat
    BY MockAssumption DEF MockInv, StartsCounted
  <2>8. Cardinality(Trials) + Cardinality(Retakes) + Cardinality(Creating) + Cardinality(Retaking) <= admitted
    BY DEF MockInv, StartsCounted
  <2>9. Cardinality(Trials) + Cardinality(Retakes) + Cardinality(x) + Cardinality(Retaking) <= admitted'
    BY <1>2, <2>6, <2>7, <2>8, SetsAreFinite
  <2>10. admitted' \in 0..StartLimit
    BY <1>2, <2>7
  <2> QED BY <2>1, <2>3, <2>4, <2>9, <2>10 DEF StartsCounted
<1>9. (Len(sessions) + Cardinality(Busy) <= MaxMocks)'
  <2>1. PICK x : x = Busy'
    OBVIOUS
  <2>2. x \subseteq Busy \cup {t}
    BY <1>3, <2>1 DEF Busy
  <2>3. Cardinality(x) <= Cardinality(Busy) + 1 /\ Cardinality(x) \in Nat
    BY <2>2, SetsAreFinite, AtMostOneMore
  <2>4. Len(sessions) + Cardinality(Busy) < MaxMocks /\ MaxMocks \in Nat
    BY <1>2, MockAssumption DEF MockRoom, Busy
  <2> QED BY <1>2, <2>1, <2>3, <2>4, SetsAreFinite
<1>10. trial' \in [Guests -> {"none", "live", "expired"}]
  BY <1>2 DEF MockInv, MockRowsOK
<1> QED BY <1>2, <1>5, <1>6, <1>7, <1>8, <1>9, <1>10, RequestMoves

-------------------------------------------------------------------------------
(* Steps of the sessions.                                                   *)

\* Sessions that only lose their status IN_PROGRESS.
OnlyEnded(new) ==
  /\ new \in Seq(MockSession) /\ DOMAIN new = DOMAIN sessions /\ Len(new) = Len(sessions)
  /\ \A i \in DOMAIN sessions :
       /\ new[i].by = sessions[i].by /\ new[i].owner = sessions[i].owner /\ new[i].test = sessions[i].test
       /\ new[i].source = sessions[i].source /\ new[i].draw = sessions[i].draw
       /\ \/ new[i].status = sessions[i].status
          \/ sessions[i].status = "IN_PROGRESS" /\ new[i].status # "IN_PROGRESS"

\* A guest whose sessions are over finds them so as well.
LEMMA EndedStand ==
  ASSUME MockInv, NEW new, OnlyEnded(new), sessions' = new,
         UNCHANGED <<reserved, claimedBy, claimed>>
  PROVE  /\ sessions' \in Seq(MockSession) /\ Owned' /\ InTurn' /\ Unique' /\ Retakes' = Retakes
         /\ \A u \in MockTxs : mtx'[u] = mtx[u] => SeenByRequest(u)'
<1>0. \A i \in DOMAIN sessions : sessions[i] \in MockSession
  BY DEF MockInv, MockRowsOK
<1>1. \A i \in DOMAIN sessions : sessions[i] \in MockSession /\ sessions[i].by \in Guests \cup Accounts
  BY <1>0 DEF MockSession, People
<1>2. Owned'
  BY <1>1 DEF MockInv, Owned, OnlyEnded
<1>3. \A i \in DOMAIN sessions : sessions[i].status = "SUBMITTED" => new[i].status = "SUBMITTED"
  BY DEF OnlyEnded
<1>4. \A i \in DOMAIN sessions : sessions[i].source # 0 => sessions[i].source < i
  BY DEF MockInv, InTurn
<1>5. \A i \in DOMAIN sessions : sessions[i].source \in Nat /\ i \in Nat /\ DOMAIN sessions = 1..Len(sessions)
  BY <1>1, SetsAreFinite DEF MockSession
<1>6. \A i \in DOMAIN sessions : sessions[i].source # 0 => sessions[i].source \in DOMAIN sessions
  BY <1>4, <1>5, SetsAreFinite
<1>7. InTurn'
  BY <1>3, <1>6 DEF MockInv, InTurn, OnlyEnded
<1>8. Unique'
  BY DEF MockInv, Unique, OnlyEnded
<1>9. Retakes' = Retakes
  BY DEF Retakes, OnlyEnded
<1>10. ASSUME NEW u \in MockTxs, mtx'[u] = mtx[u] PROVE SeenByRequest(u)'
  <2>1. SeenByRequest(u)
    BY DEF MockInv
  <2> QED BY <1>3, <1>10, <2>1 DEF SeenByRequest, OnlyEnded
<1> QED BY <1>2, <1>7, <1>8, <1>9, <1>10 DEF OnlyEnded

\* Some sessions are given another status.
LEMMA EndedFits ==
  ASSUME MockInv, NEW S, NEW ending \in {"SUBMITTED", "ABANDONED"},
         \A i \in S : i \in DOMAIN sessions /\ sessions[i].status = "IN_PROGRESS",
         NEW new, new = [i \in DOMAIN sessions |-> IF i \in S THEN [sessions[i] EXCEPT !.status = ending] ELSE sessions[i]]
  PROVE  OnlyEnded(new)
<1>1. \A i \in DOMAIN sessions : sessions[i] \in MockSession
  BY DEF MockInv, MockRowsOK
<1>2. ASSUME NEW i \in DOMAIN sessions
      PROVE  /\ new[i] \in MockSession
             /\ new[i].by = sessions[i].by /\ new[i].owner = sessions[i].owner /\ new[i].test = sessions[i].test
             /\ new[i].source = sessions[i].source /\ new[i].draw = sessions[i].draw
             /\ new[i].status = IF i \in S THEN ending ELSE sessions[i].status
  <2>1. sessions[i] \in MockSession
    BY <1>1
  <2>2. CASE i \notin S
    BY <2>1, <2>2
  <2>3. CASE i \in S
    <3>1. new[i] = [sessions[i] EXCEPT !.status = ending]
      BY <2>3
    <3> QED BY <2>1, <2>3, <3>1 DEF MockSession
  <2> QED BY <2>2, <2>3
<1>3. DOMAIN new = DOMAIN sessions /\ DOMAIN sessions = 1..Len(sessions) /\ Len(sessions) \in Nat
  BY SetsAreFinite
<1>4. new \in [1..Len(sessions) -> MockSession]
  BY <1>2, <1>3
<1>5. new \in Seq(MockSession)
  BY <1>3, <1>4
<1>6. Len(new) = Len(sessions)
  BY <1>3, <1>5
<1> QED BY <1>2, <1>3, <1>5, <1>6 DEF OnlyEnded

\* A step that only ends sessions, and moves no request that has begun.
LEMMA EndingKeeps ==
  ASSUME MockInv, NEW new, OnlyEnded(new), sessions' = new,
         UNCHANGED <<reserved, claimedBy, claimed, published, trial, admitted>>,
         UNCHANGED <<trialLock, generationLock, fixedLock>>, UNCHANGED mtx
  PROVE  MockInv'
<1>1. MockRowsOK' /\ MockLocksOK' /\ Owned' /\ InTurn' /\ Unique'
  BY EndedStand DEF MockInv, MockRowsOK, MockLocksOK
<1>2. DOMAIN mtx' = MockTxs
  BY DEF MockInv
<1>3. ASSUME NEW u \in MockTxs PROVE RequestShape(u)' /\ LocksOfRequest(u)' /\ SeenByRequest(u)'
  <2>1. SeenByRequest(u)'
    BY EndedStand
  <2>2. RequestShape(u) /\ LocksOfRequest(u)
    BY DEF MockInv
  <2> QED BY <2>1, <2>2 DEF RequestShape, LocksOfRequest
<1>4. StartsCounted'
  <2>1. Retakes' = Retakes
    BY EndedStand
  <2>2. Creating' = Creating /\ Retaking' = Retaking
    BY DEF Creating, Retaking
  <2> QED BY <2>1, <2>2, CountsStand
<1>5. (Len(sessions) + Cardinality(Busy) <= MaxMocks)'
  <2>1. Busy' = Busy /\ Len(new) = Len(sessions)
    BY DEF Busy, OnlyEnded
  <2> QED BY <2>1 DEF MockInv
<1> QED BY <1>1, <1>2, <1>3, <1>4, <1>5 DEF MockInv

\* A session is finished, or given up by the student.
LEMMA EndsKeep ==
  ASSUME MockInv, NEW i \in DOMAIN sessions, FinishSession(i) \/ AbandonSession(i)
  PROVE  MockInv'
<1>1. PICK ending \in {"SUBMITTED", "ABANDONED"} : sessions' = [sessions EXCEPT ![i].status = ending]
  BY DEF FinishSession, AbandonSession
<1>2. /\ UNCHANGED <<reserved, claimedBy, claimed, published, trial, admitted>>
      /\ UNCHANGED <<trialLock, generationLock, fixedLock>> /\ UNCHANGED mtx
      /\ sessions[i].status = "IN_PROGRESS"
  BY DEF FinishSession, AbandonSession, drawnVars, trialVars, mockLocks
<1>3. PICK new : new = [j \in DOMAIN sessions |->
                          IF j \in {i} THEN [sessions[j] EXCEPT !.status = ending] ELSE sessions[j]]
  OBVIOUS
<1>4. sessions' = new
  BY <1>1, <1>3 DEF MockInv, MockRowsOK
<1>5. OnlyEnded(new)
  BY <1>2, <1>3, EndedFits
<1> QED BY <1>2, <1>4, <1>5, EndingKeeps

\* A curated mock is asked for; without billing a restart ends what is under way.
LEMMA StartCuratedKeeps ==
  ASSUME MockInv, NEW t \in MockTxs, NEW a \in Accounts, NEW test \in MockTests, NEW again \in BOOLEAN,
         StartCurated(t, a, test, again)
  PROVE  MockInv'
<1>1. PICK r : r = [MockIdle EXCEPT !.kind = "curated", !.who = a, !.test = test, !.restart = again,
                                    !.at = "testing"]
  OBVIOUS
<1>2. /\ UNCHANGED <<reserved, claimedBy, claimed, published, trial, admitted>>
      /\ UNCHANGED <<trialLock, generationLock, fixedLock>>
      /\ mtx[t] = MockIdle /\ MockRoom /\ mtx' = [mtx EXCEPT ![t] = r]
  BY <1>1 DEF StartCurated, drawnVars, trialVars, mockLocks
<1>3. PICK new : new = [i \in DOMAIN sessions |->
                          IF i \in AtOnce(a, test) THEN [sessions[i] EXCEPT !.status = "ABANDONED"] ELSE sessions[i]]
  OBVIOUS
<1>4. sessions' = new
  BY <1>3 DEF StartCurated
<1>5. OnlyEnded(new)
  <2>1. \A i \in AtOnce(a, test) : i \in DOMAIN sessions /\ sessions[i].status = "IN_PROGRESS"
    BY DEF AtOnce, UnderWayOf, UnderWay, Of
  <2> HIDE DEF AtOnce
  <2> QED BY <1>3, <2>1, EndedFits
<1>6. mtx'[t] = r /\ DOMAIN mtx' = MockTxs /\ \A u \in MockTxs : u # t => mtx'[u] = mtx[u]
  BY <1>2 DEF MockInv
<1>7. /\ DOMAIN r = MockFields /\ r.kind = "curated" /\ r.who = a /\ r.at = "testing" /\ r.test = test
      /\ r.source = 0 /\ r.source \in Nat /\ r.restart = again /\ r.draw = NoMock
  BY <1>1 DEF MockIdle, MockFields
<1>8. RequestShape(t)'
  <2>1. r.restart \in BOOLEAN
    BY <1>7
  <2> QED BY <1>6, <1>7, <2>1 DEF RequestShape
<1>9. LocksOfRequest(t)' /\ SeenByRequest(t)'
  BY <1>6, <1>7 DEF LocksOfRequest, SeenByRequest
<1>10. MockRowsOK' /\ MockLocksOK' /\ Owned' /\ InTurn' /\ Unique'
  BY <1>2, <1>4, <1>5, EndedStand DEF MockInv, MockRowsOK, MockLocksOK
<1>11. ASSUME NEW u \in MockTxs PROVE RequestShape(u)' /\ LocksOfRequest(u)' /\ SeenByRequest(u)'
  <2>1. CASE u = t
    BY <1>8, <1>9, <2>1
  <2>2. CASE u # t
    <3>1. SeenByRequest(u)'
      BY <1>2, <1>4, <1>5, <1>6, <2>2, EndedStand
    <3>2. RequestShape(u) /\ LocksOfRequest(u)
      BY DEF MockInv
    <3> QED BY <1>2, <1>6, <2>2, <3>1, <3>2 DEF RequestShape, LocksOfRequest
  <2> QED BY <2>1, <2>2
<1>12. StartsCounted'
  <2>1. Retakes' = Retakes
    BY <1>2, <1>4, <1>5, EndedStand
  <2>2. Creating' \subseteq Creating /\ Retaking' \subseteq Retaking
    BY <1>6, <1>7 DEF Creating, Retaking
  <2> QED BY <1>2, <2>1, <2>2, CountsStand
<1>13. (Len(sessions) + Cardinality(Busy) <= MaxMocks)'
  <2>1. PICK x : x = Busy'
    OBVIOUS
  <2>2. x \subseteq Busy \cup {t}
    BY <1>6, <2>1 DEF Busy
  <2>3. Cardinality(x) <= Cardinality(Busy) + 1 /\ Cardinality(x) \in Nat
    BY <2>2, SetsAreFinite, AtMostOneMore
  <2>4. Len(sessions) + Cardinality(Busy) < MaxMocks /\ MaxMocks \in Nat
    BY <1>2, MockAssumption DEF MockRoom, Busy
  <2>5. Len(new) = Len(sessions)
    BY <1>5 DEF OnlyEnded
  <2> QED BY <1>4, <2>1, <2>3, <2>4, <2>5, SetsAreFinite
<1> QED BY <1>6, <1>10, <1>11, <1>12, <1>13 DEF MockInv

\* A trial expires, materials are published: no request hears of it.
LEMMA AroundKeeps ==
  ASSUME MockInv, (\E g \in Guests : ExpireTrial(g)) \/ (\E m \in Bank : Republish(m))
  PROVE  MockInv'
<1>1. /\ UNCHANGED <<reserved, claimedBy, claimed, sessions, mtx, admitted>>
      /\ UNCHANGED <<trialLock, generationLock, fixedLock>>
  BY DEF ExpireTrial, Republish, drawnVars, trialVars, mockLocks
<1>2. /\ trial' \in [Guests -> {"none", "live", "expired"}] /\ published' \in [Bank -> 0..MaxVersion]
      /\ Trials' = Trials
  <2>1. CASE \E g \in Guests : ExpireTrial(g)
    BY <2>1 DEF ExpireTrial, MockInv, MockRowsOK, Trials, drawnVars
  <2>2. CASE \E m \in Bank : Republish(m)
    <3>1. PICK m \in Bank : published' = [published EXCEPT ![m] = IF @ < MaxVersion THEN @ + 1 ELSE 0]
      BY <2>2 DEF Republish
    <3>2. trial' = trial
      BY <2>2 DEF Republish, trialVars
    <3>3. MaxVersion \in Nat /\ \A n \in 0..MaxVersion : (IF n < MaxVersion THEN n + 1 ELSE 0) \in 0..MaxVersion
      BY MockAssumption
    <3>4. published' \in [Bank -> 0..MaxVersion]
      BY <3>1, <3>3 DEF MockInv, MockRowsOK
    <3> QED BY <3>2, <3>4 DEF MockInv, MockRowsOK, Trials
  <2> QED BY <2>1, <2>2
<1>3. MockRowsOK' /\ MockLocksOK' /\ Owned' /\ InTurn' /\ Unique' /\ DOMAIN mtx' = MockTxs
  BY <1>1, <1>2 DEF MockInv, MockRowsOK, MockLocksOK, Owned, InTurn, Unique
<1>4. ASSUME NEW u \in MockTxs PROVE RequestShape(u)' /\ LocksOfRequest(u)' /\ SeenByRequest(u)'
  BY <1>1 DEF MockInv, RequestShape, LocksOfRequest, SeenByRequest
<1>5. StartsCounted' /\ Busy' = Busy
  BY <1>1, <1>2 DEF MockInv, StartsCounted, Retakes, Creating, Retaking, Busy
<1> QED BY <1>1, <1>3, <1>4, <1>5 DEF MockInv

\* Nothing moves.
LEMMA MockStutters ==
  ASSUME MockInv, UNCHANGED mockVars
  PROVE  MockInv'
<1>1. /\ UNCHANGED <<reserved, claimedBy, claimed, published, trial, sessions, mtx, admitted>>
      /\ UNCHANGED <<trialLock, generationLock, fixedLock>>
  BY DEF mockVars, drawnVars, trialVars, mockLocks
<1>2. MockRowsOK' /\ MockLocksOK' /\ Owned' /\ InTurn' /\ Unique' /\ DOMAIN mtx' = MockTxs
  BY <1>1 DEF MockInv, MockRowsOK, MockLocksOK, Owned, InTurn, Unique
<1>3. ASSUME NEW u \in MockTxs PROVE RequestShape(u)' /\ LocksOfRequest(u)' /\ SeenByRequest(u)'
  BY <1>1 DEF MockInv, RequestShape, LocksOfRequest, SeenByRequest
<1>4. StartsCounted' /\ Busy' = Busy
  BY <1>1 DEF MockInv, StartsCounted, Trials, Retakes, Creating, Retaking, Busy
<1> QED BY <1>1, <1>2, <1>3, <1>4 DEF MockInv

\* A request that ends takes its place among the busy ones with it.
LEMMA PlaceLeft ==
  ASSUME MockInv, NEW t \in MockTxs, mtx[t] # MockIdle, mtx' = [mtx EXCEPT ![t] = MockIdle]
  PROVE  /\ Cardinality(Busy') \in Nat /\ Cardinality(Busy') = Cardinality(Busy) - 1
         /\ Creating' = Creating \ {t} /\ Retaking' = Retaking \ {t}
<1>1. mtx'[t] = MockIdle /\ DOMAIN mtx' = MockTxs /\ \A u \in MockTxs : u # t => mtx'[u] = mtx[u]
  BY DEF MockInv
<1>2. Creating' = Creating \ {t} /\ Retaking' = Retaking \ {t} /\ Busy' = Busy \ {t} /\ t \in Busy
  BY <1>1 DEF Creating, Retaking, Busy, MockIdle
<1>3. Cardinality(Busy \ {t}) = Cardinality(Busy) - 1 /\ Cardinality(Busy \ {t}) \in Nat
  BY <1>2, SetsAreFinite, FS_RemoveElement, FS_CardinalityType
<1> QED BY <1>2, <1>3

\* What is drawn is not NoMock.
LEMMA DrawnIsDrawn == NoMock \notin Draws
<1>1. Draws \subseteq [MockSkills -> Bank \X Nat]
  BY DEF Draws, Pinned
<1> QED BY <1>1, MockAssumption

\* The new session beside the old ones: the locks of its request have kept everyone else
\* from what it has seen.
LEMMA CommitMockKeeps ==
  ASSUME MockInv, NEW t \in MockTxs, CommitMock(t)
  PROVE  MockInv'
<1>1. /\ mtx[t].kind \in {"guest", "draw", "curated"} /\ mtx[t].at = "committing" /\ mtx[t] # MockIdle
      /\ MockEnd(t) /\ UNCHANGED <<published, claimedBy, claimed, trial, admitted>>
  BY DEF CommitMock, MockAt, MockIdle, trialVars
<1>2. CASE Refused(t)
  <2>1. UNCHANGED <<drawnVars, trialVars, sessions, admitted>>
    BY <1>1, <1>2 DEF CommitMock, drawnVars, trialVars
  <2> QED BY <1>1, <2>1, RequestEnds
<1>3. CASE ~Refused(t)
  <2> DEFINE n == Len(sessions)
  <2>1. PICK q : q = mtx[t]
    OBVIOUS
  <2>2. /\ q.who \in People /\ q.test \in MockTests \cup {NoMock} /\ q.draw \in Draws /\ q.source \in Nat
        /\ q.kind # "guest" => q.source = 0 /\ q.who \in Accounts
        /\ q.kind = "guest" => q.test = NoMock /\ q.who \in Guests
        /\ q.kind = "draw" => q.test = NoMock
        /\ q.kind = "curated" => q.test \in MockTests
        /\ q.kind \in {"guest", "draw", "curated"} /\ q.at = "committing"
    BY <1>1, <2>1 DEF MockInv, RequestShape, People
  <2>3. /\ q.kind = "guest" =>
             /\ claimedBy[q.who] = NoMock /\ generationLock[q.who] = t /\ fixedLock = t
             /\ reserved # NoMock => q.draw = reserved
        /\ q.kind = "draw" => generationLock[q.who] = t
    BY <2>1, <2>2 DEF MockInv, LocksOfRequest
  <2>4. /\ q.source # 0 =>
             q.source \in DOMAIN sessions /\ sessions[q.source].by = q.who /\ sessions[q.source].status = "SUBMITTED"
        /\ q.kind = "guest" => \A i \in DOMAIN sessions : sessions[i].by = q.who => i <= q.source
    BY <2>1, <2>2 DEF MockInv, SeenByRequest
  <2>5. PICK mid : mid = [i \in DOMAIN sessions |->
                            IF i \in Replaced(t) THEN [sessions[i] EXCEPT !.status = "ABANDONED"] ELSE sessions[i]]
    OBVIOUS
  <2>6. OnlyEnded(mid)
    <3>1. \A i \in Replaced(t) : i \in DOMAIN sessions /\ sessions[i].status = "IN_PROGRESS"
      BY DEF Replaced, UnderWayOf, UnderWay, Of
    <3> HIDE DEF Replaced
    <3> QED BY <2>5, <3>1, EndedFits
  <2>7. PICK row : row = [owner |-> q.who, by |-> q.who, test |-> q.test, draw |-> q.draw,
                          source |-> q.source, status |-> "IN_PROGRESS"]
    OBVIOUS
  <2>8. row \in MockSession
    BY <2>2, <2>7 DEF MockSession
  <2>9. sessions' = Append(mid, row) /\ reserved' = IF q.kind = "guest" THEN q.draw ELSE reserved
    BY <1>3, <2>1, <2>5, <2>7 DEF CommitMock
  <2>10. /\ mid \in Seq(MockSession) /\ Len(mid) = n /\ n \in Nat
         /\ DOMAIN sessions = 1..n /\ DOMAIN mid = 1..n
    BY <2>6, SetsAreFinite DEF OnlyEnded
  <2>11. /\ sessions' \in Seq(MockSession) /\ Len(sessions') = n + 1 /\ DOMAIN sessions' = 1..(n + 1)
         /\ sessions'[n + 1] = row /\ \A i \in 1..n : sessions'[i] = mid[i]
    BY <2>8, <2>9, <2>10
  <2>12. \A i \in 1..n :
           /\ sessions'[i].by = sessions[i].by /\ sessions'[i].owner = sessions[i].owner
           /\ sessions'[i].test = sessions[i].test /\ sessions'[i].source = sessions[i].source
           /\ sessions'[i].draw = sessions[i].draw
           /\ \/ sessions'[i].status = sessions[i].status
              \/ sessions[i].status = "IN_PROGRESS" /\ sessions'[i].status # "IN_PROGRESS"
    BY <2>6, <2>10, <2>11 DEF OnlyEnded
  <2>13. /\ row.owner = q.who /\ row.by = q.who /\ row.test = q.test /\ row.draw = q.draw
         /\ row.source = q.source /\ row.status = "IN_PROGRESS"
    BY <2>7
  <2>14. \A i \in 1..(n + 1) : i \in 1..n \/ i = n + 1
    BY <2>10
  <2>15. \A i \in 1..n : sessions[i] \in MockSession /\ sessions[i].by \in Guests \cup Accounts
    <3>1. \A i \in 1..n : sessions[i] \in MockSession
      BY <2>10 DEF MockInv, MockRowsOK
    <3> QED BY <3>1 DEF MockSession, People
  <2>16. q.draw # NoMock
    BY <2>2, DrawnIsDrawn
  <2> HIDE DEF n
  <2>17. Owned'
    <3>1. ASSUME NEW i \in 1..n PROVE
            /\ sessions'[i].by \in Accounts => sessions'[i].owner = sessions'[i].by /\ sessions'[i].source = 0
            /\ sessions'[i].by \in Guests /\ claimedBy[sessions'[i].by] = NoMock => sessions'[i].owner = sessions'[i].by
            /\ sessions'[i].by \in Guests /\ claimedBy[sessions'[i].by] # NoMock =>
                 /\ sessions'[i].owner = claimedBy[sessions'[i].by] /\ sessions'[i].status = "SUBMITTED"
                 /\ i <= claimed[sessions'[i].by]
            /\ sessions'[i].by \in Guests => sessions'[i].draw = reserved' /\ reserved' # NoMock
      <4>1. /\ sessions[i].by \in Accounts => sessions[i].owner = sessions[i].by /\ sessions[i].source = 0
            /\ sessions[i].by \in Guests /\ claimedBy[sessions[i].by] = NoMock => sessions[i].owner = sessions[i].by
            /\ sessions[i].by \in Guests /\ claimedBy[sessions[i].by] # NoMock =>
                 /\ sessions[i].owner = claimedBy[sessions[i].by] /\ sessions[i].status = "SUBMITTED"
                 /\ i <= claimed[sessions[i].by]
            /\ sessions[i].by \in Guests => sessions[i].draw = reserved /\ reserved # NoMock
        BY <2>10 DEF MockInv, Owned
      <4> QED BY <2>3, <2>9, <2>12, <4>1
    <3>2. /\ row.by \in Accounts => row.owner = row.by /\ row.source = 0
          /\ row.by \in Guests => row.owner = row.by /\ claimedBy[row.by] = NoMock
          /\ row.by \in Guests => row.draw = reserved' /\ reserved' # NoMock
      BY <2>2, <2>3, <2>9, <2>13, <2>16, MockAssumption
    <3> QED BY <1>1, <2>11, <2>14, <3>1, <3>2 DEF Owned
  <2>18. InTurn'
    <3>1. ASSUME NEW i \in 1..(n + 1), NEW j \in 1..(n + 1), sessions'[i].by \in Guests,
                 sessions'[i].by = sessions'[j].by, i < j
          PROVE  sessions'[i].status = "SUBMITTED"
      <4>1. i \in 1..n
        BY <2>10, <3>1
      <4>2. CASE j \in 1..n
        BY <2>10, <2>12, <3>1, <4>1, <4>2 DEF MockInv, InTurn
      <4>3. CASE j = n + 1
        <5>1. sessions[i].by = q.who /\ q.who \in Guests /\ q.kind = "guest"
          BY <2>2, <2>11, <2>12, <2>13, <3>1, <4>1, <4>3, MockAssumption
        <5>2. i <= q.source /\ q.source # 0
          BY <2>2, <2>4, <2>10, <4>1, <5>1
        <5>3. sessions[i].status = "SUBMITTED"
          <6>1. CASE i = q.source
            BY <2>4, <5>2, <6>1
          <6>2. CASE i # q.source
            <7>1. i < q.source
              BY <2>2, <5>2, <6>2
            <7> QED BY <2>4, <2>10, <4>1, <5>1, <5>2, <7>1 DEF MockInv, InTurn
          <6> QED BY <6>1, <6>2
        <5> QED BY <2>12, <4>1, <5>3
      <4> QED BY <2>14, <4>2, <4>3
    <3>2. ASSUME NEW i \in 1..(n + 1), sessions'[i].source # 0
          PROVE  sessions'[i].source < i /\ sessions'[sessions'[i].source].by = sessions'[i].by
      <4>1. CASE i \in 1..n
        <5>1. sessions[i].source # 0 /\ sessions[i].source \in Nat
          BY <2>12, <2>15, <3>2, <4>1 DEF MockSession
        <5>2. sessions[i].source < i /\ sessions[sessions[i].source].by = sessions[i].by
          BY <2>10, <4>1, <5>1 DEF MockInv, InTurn
        <5>3. sessions[i].source \in 1..n
          BY <2>10, <4>1, <5>1, <5>2
        <5> QED BY <2>12, <4>1, <5>2, <5>3
      <4>2. CASE i = n + 1
        <5>1. sessions'[i].source = q.source /\ q.source \in 1..n /\ sessions[q.source].by = q.who
          BY <2>4, <2>10, <2>11, <2>13, <3>2, <4>2
        <5>2. q.source < n + 1
          BY <2>10, <5>1
        <5> QED BY <2>11, <2>12, <2>13, <4>2, <5>1, <5>2
      <4> QED BY <2>14, <4>1, <4>2
    <3>3. ASSUME NEW i \in 1..n, sessions[i].source # 0, sessions[i].source = q.source PROVE FALSE
      <4>1. sessions[i].source < i /\ sessions[sessions[i].source].by = sessions[i].by
        BY <2>10, <3>3 DEF MockInv, InTurn
      <4>2. sessions[i].by = q.who /\ q.kind = "guest"
        BY <2>2, <2>4, <3>3, <4>1
      <4>3. i <= q.source
        BY <2>4, <2>10, <4>2
      <4> QED BY <2>2, <2>10, <3>3, <4>1, <4>3
    <3>4. ASSUME NEW i \in 1..(n + 1), NEW j \in 1..(n + 1), sessions'[i].source # 0,
                 sessions'[i].source = sessions'[j].source
          PROVE  i = j
      <4>1. CASE i \in 1..n /\ j \in 1..n
        BY <2>10, <2>12, <3>4, <4>1 DEF MockInv, InTurn
      <4>2. CASE i \in 1..n /\ j = n + 1
        BY <2>11, <2>12, <2>13, <3>3, <3>4, <4>2
      <4>3. CASE i = n + 1 /\ j \in 1..n
        BY <2>11, <2>12, <2>13, <3>3, <3>4, <4>3
      <4> QED BY <2>14, <4>1, <4>2, <4>3
    <3> QED BY <2>11, <3>1, <3>2, <3>4 DEF InTurn
  <2>19. Unique'
    <3>1. ASSUME NEW i \in 1..n, sessions[i].owner = q.who, sessions[i].test = q.test
          PROVE  sessions'[i].status # "IN_PROGRESS"
      <4>1. CASE sessions[i].status # "IN_PROGRESS"
        BY <2>12, <4>1
      <4>2. CASE sessions[i].status = "IN_PROGRESS"
        <5>1. i \in UnderWayOf(q.who, q.test)
          BY <2>10, <3>1, <4>2 DEF UnderWayOf, UnderWay, Of
        <5>2. i \in Replaced(t)
          BY <1>3, <2>1, <5>1 DEF Refused
        <5>3. mid[i] = [sessions[i] EXCEPT !.status = "ABANDONED"] /\ sessions[i] \in MockSession
          BY <2>5, <2>10, <2>15, <5>2
        <5> QED BY <2>11, <5>3 DEF MockSession
      <4> QED BY <4>1, <4>2
    <3>2. ASSUME NEW i \in 1..(n + 1), NEW j \in 1..(n + 1), i # j, sessions'[i].owner = sessions'[j].owner,
                 sessions'[i].test = sessions'[j].test
          PROVE  sessions'[i].status # "IN_PROGRESS" \/ sessions'[j].status # "IN_PROGRESS"
      <4>1. CASE i \in 1..n /\ j \in 1..n
        <5>1. sessions[i].status # "IN_PROGRESS" \/ sessions[j].status # "IN_PROGRESS"
          BY <2>10, <2>12, <3>2, <4>1 DEF MockInv, Unique
        <5> QED BY <2>12, <4>1, <5>1
      <4>2. CASE i \in 1..n /\ j = n + 1
        BY <2>11, <2>12, <2>13, <3>1, <3>2, <4>2
      <4>3. CASE i = n + 1 /\ j \in 1..n
        BY <2>11, <2>12, <2>13, <3>1, <3>2, <4>3
      <4> QED BY <2>14, <3>2, <4>1, <4>2, <4>3
    <3> QED BY <2>11, <3>2 DEF Unique
  <2>20. MockRowsOK'
    <3>1. reserved' \in Draws \cup {NoMock}
      BY <2>2, <2>9 DEF MockInv, MockRowsOK
    <3> QED BY <1>1, <2>11, <3>1 DEF MockInv, MockRowsOK
  <2>21. /\ mtx' = [mtx EXCEPT ![t] = MockIdle] /\ mtx'[t] = MockIdle /\ DOMAIN mtx' = MockTxs
         /\ \A u \in MockTxs : u # t => mtx'[u] = mtx[u]
         /\ MockLocksOK' /\ OthersKeepLocks(t)
    BY <1>1, LocksReleased DEF MockEnd, MockInv
  <2>22. ASSUME NEW u \in MockTxs PROVE RequestShape(u)' /\ LocksOfRequest(u)' /\ SeenByRequest(u)'
    <3>1. CASE u = t
      BY <2>21, <3>1, IdleHolds
    <3>2. CASE u # t
      <4>1. mtx'[u] = mtx[u] /\ RequestShape(u) /\ LocksOfRequest(u) /\ SeenByRequest(u)
        BY <2>21, <3>2 DEF MockInv
      <4>2. RequestShape(u)'
        BY <4>1 DEF RequestShape
      <4>3. mtx[u].kind \in {"guest", "claim"} => mtx[u].who \in Guests
        BY <4>1 DEF RequestShape
      <4>4. mtx[u].kind = "draw" => mtx[u].who \in Accounts
        BY <4>1 DEF RequestShape
      <4>5. LocksOfRequest(u)'
        <5>1. mtx[u].kind = "guest" /\ mtx[u].at \in {"admitting", "committing"} => reserved' = reserved
          BY <2>3, <2>9, <3>2, <4>1 DEF LocksOfRequest
        <5> QED BY <1>1, <2>21, <3>2, <4>1, <4>3, <4>4, <5>1 DEF LocksOfRequest, OthersKeepLocks, People
      <4>6. ASSUME mtx[u].kind = "guest", mtx[u].source # 0
            PROVE  /\ mtx[u].source \in DOMAIN sessions'
                   /\ sessions'[mtx[u].source].by = mtx[u].who /\ sessions'[mtx[u].source].status = "SUBMITTED"
        <5>1. /\ mtx[u].source \in 1..n
              /\ sessions[mtx[u].source].by = mtx[u].who /\ sessions[mtx[u].source].status = "SUBMITTED"
          BY <2>10, <4>1, <4>6 DEF SeenByRequest
        <5>2. mtx[u].source \in 1..(n + 1)
          BY <2>10, <5>1
        <5> QED BY <2>11, <2>12, <5>1, <5>2
      <4>7. ASSUME mtx[u].kind = "guest", mtx[u].at \in {"drawing", "admitting", "committing"},
                   NEW i \in 1..(n + 1), sessions'[i].by = mtx[u].who
            PROVE  i <= mtx[u].source
        <5>1. CASE i \in 1..n
          BY <2>10, <2>12, <4>1, <4>7, <5>1 DEF SeenByRequest
        <5>2. CASE i = n + 1
          <6>1. q.who = mtx[u].who /\ q.who \in Guests
            BY <2>11, <2>13, <4>3, <4>7, <5>2
          <6>2. q.kind = "guest"
            BY <2>2, <6>1, MockAssumption
          <6> QED BY <2>3, <3>2, <4>1, <4>7, <6>1, <6>2 DEF LocksOfRequest
        <5> QED BY <2>14, <5>1, <5>2
      <4>8. ASSUME mtx[u].kind = "draw", mtx[u].at \in {"drawing", "committing"}, ~mtx[u].restart,
                   NEW i \in 1..(n + 1), sessions'[i].owner = mtx[u].who, sessions'[i].status = "IN_PROGRESS",
                   sessions'[i].test = NoMock
            PROVE  FALSE
        <5>1. CASE i \in 1..n
          BY <2>10, <2>12, <4>1, <4>8, <5>1 DEF SeenByRequest
        <5>2. CASE i = n + 1
          <6>1. q.who = mtx[u].who /\ q.who \in Accounts /\ q.test = NoMock
            BY <2>11, <2>13, <4>4, <4>8, <5>2
          <6>2. q.kind = "draw"
            BY <2>2, <6>1, MockAssumption
          <6> QED BY <2>3, <3>2, <4>1, <4>8, <6>1, <6>2 DEF LocksOfRequest
        <5> QED BY <2>14, <5>1, <5>2
      <4>9. SeenByRequest(u)'
        BY <2>11, <4>1, <4>6, <4>7, <4>8 DEF SeenByRequest
      <4> QED BY <4>2, <4>5, <4>9
    <3> QED BY <3>1, <3>2
  <2>23. StartsCounted'
    <3>1. Trials' = Trials
      BY <1>1 DEF Trials
    <3>2. Creating' \subseteq Creating /\ Retaking' \subseteq Retaking /\ Retaking' = Retaking \ {t}
      BY <1>1, <2>21, PlaceLeft
    <3>3. \A i \in 1..n : sessions'[i].source # 0 <=> sessions[i].source # 0
      BY <2>12
    <3>4. CASE q.source = 0
      <4>1. Retakes' = Retakes
        BY <2>10, <2>11, <2>13, <2>14, <3>3, <3>4 DEF Retakes
      <4> QED BY <1>1, <3>2, <4>1, CountsStand
    <3>5. CASE q.source # 0
      <4>1. t \in Retaking
        BY <2>1, <2>2, <3>5 DEF Retaking
      <4>2. PICK x : x = Retaking'
        OBVIOUS
      <4>3. PICK y : y = Retakes'
        OBVIOUS
      <4>4. Cardinality(x) = Cardinality(Retaking) - 1 /\ Cardinality(x) \in Nat
        BY <3>2, <4>1, <4>2, SetsAreFinite, FS_RemoveElement, FS_CardinalityType
      <4>5. y \subseteq Retakes \cup {n + 1}
        BY <2>10, <2>11, <2>14, <3>3, <4>3 DEF Retakes
      <4>6. Cardinality(y) <= Cardinality(Retakes) + 1 /\ Cardinality(y) \in Nat
        BY <4>5, SetsAreFinite, AtMostOneMore
      <4>7. PICK z : z = Creating'
        OBVIOUS
      <4>8. Cardinality(z) <= Cardinality(Creating) /\ Cardinality(z) \in Nat
        BY <3>2, <4>7, SetsAreFinite, FS_Subset, FS_CardinalityType
      <4>9. /\ admitted \in 0..StartLimit /\ admitted \in Nat
            /\ Cardinality(Trials) + Cardinality(Retakes) + Cardinality(Creating) + Cardinality(Retaking) <= admitted
        BY MockAssumption DEF MockInv, StartsCounted
      <4>c. /\ Cardinality(Trials) \in Nat /\ Cardinality(Retakes) \in Nat /\ Cardinality(Creating) \in Nat
            /\ Cardinality(Retaking) \in Nat
        BY SetsAreFinite
      <4>10. Cardinality(Trials) + Cardinality(y) + Cardinality(z) + Cardinality(x) <= admitted
        BY <4>4, <4>6, <4>8, <4>9, <4>c
      <4> QED BY <1>1, <3>1, <4>2, <4>3, <4>7, <4>9, <4>10 DEF StartsCounted
    <3> QED BY <3>4, <3>5
  <2>24. (Len(sessions) + Cardinality(Busy) <= MaxMocks)'
    <3>1. PICK x : x = Busy'
      OBVIOUS
    <3>2. Cardinality(x) = Cardinality(Busy) - 1 /\ Cardinality(x) \in Nat
      BY <1>1, <2>21, <3>1, PlaceLeft
    <3>3. n + Cardinality(Busy) <= MaxMocks
      BY DEF MockInv, n
    <3>4. (n + 1) + Cardinality(x) <= MaxMocks
      BY <2>10, <3>2, <3>3, SetsAreFinite, MockAssumption
    <3> QED BY <2>11, <3>1, <3>4
  <2> QED BY <2>17, <2>18, <2>19, <2>20, <2>21, <2>22, <2>23, <2>24 DEF MockInv
<1> QED BY <1>2, <1>3

\* A claim takes all the guest has, and leaves the requests of everyone else alone.
LEMMA CommitClaimKeeps ==
  ASSUME MockInv, NEW t \in MockTxs, CommitClaim(t)
  PROVE  MockInv'
<1>1. /\ mtx[t].kind = "claim" /\ mtx[t].at = "generating" /\ mtx[t] # MockIdle
      /\ MockEnd(t) /\ UNCHANGED <<published, reserved, trial, admitted>>
  BY DEF CommitClaim, MockAt, MockIdle, drawnVars
<1>2. CASE Claimable(mtx[t].who) = 0
  <2>1. UNCHANGED <<drawnVars, trialVars, sessions, admitted>>
    BY <1>1, <1>2 DEF CommitClaim, drawnVars, trialVars
  <2> QED BY <1>1, <2>1, RequestEnds
<1>3. CASE Claimable(mtx[t].who) # 0
  <2>1. PICK g : g = mtx[t].who
    OBVIOUS
  <2>2. PICK a : a = mtx[t].for
    OBVIOUS
  <2>3. g \in Guests /\ a \in Accounts /\ a # NoMock
    BY <1>1, <2>1, <2>2, MockAssumption DEF MockInv, RequestShape
  <2>4. trialLock[g] = t /\ claimedBy[g] = NoMock
    BY <1>1, <2>1 DEF MockInv, LocksOfRequest
  <2>5. PICK last : last = Latest(g)
    OBVIOUS
  <2>6. last \in Finished(g) /\ Claimable(g) = last
    BY <1>3, <2>1, <2>5 DEF Claimable
  <2>7. last \in DOMAIN sessions /\ sessions[last].status = "SUBMITTED" /\ sessions[last].owner = g
    BY <2>6 DEF Finished, Of
  <2>8. /\ claimedBy' = [claimedBy EXCEPT ![g] = a]
        /\ claimed' = [claimed EXCEPT ![g] = last]
        /\ sessions' = [i \in DOMAIN sessions |->
             IF i \in Finished(g) THEN [sessions[i] EXCEPT !.owner = a] ELSE sessions[i]]
    BY <1>3, <2>1, <2>2, <2>6 DEF CommitClaim, Moves
  <2>9. \A i \in DOMAIN sessions : sessions[i] \in MockSession
    BY DEF MockInv, MockRowsOK
  <2>10. ASSUME NEW i \in DOMAIN sessions
         PROVE  /\ sessions'[i] \in MockSession
                /\ sessions'[i].by = sessions[i].by /\ sessions'[i].status = sessions[i].status
                /\ sessions'[i].test = sessions[i].test /\ sessions'[i].source = sessions[i].source
                /\ sessions'[i].draw = sessions[i].draw
                /\ sessions'[i].owner = IF i \in Finished(g) THEN a ELSE sessions[i].owner
    <3>1. sessions[i] \in MockSession
      BY <2>9
    <3>2. CASE i \notin Finished(g)
      BY <2>8, <3>1, <3>2
    <3>3. CASE i \in Finished(g)
      <4>1. sessions'[i] = [sessions[i] EXCEPT !.owner = a]
        BY <2>8, <3>3
      <4> QED BY <2>3, <3>1, <3>3, <4>1 DEF MockSession, People
    <3> QED BY <3>2, <3>3
  <2>11. DOMAIN sessions' = DOMAIN sessions /\ DOMAIN sessions = 1..Len(sessions) /\ Len(sessions) \in Nat
    BY <2>8, SetsAreFinite
  <2>12. sessions' \in [1..Len(sessions) -> MockSession]
    BY <2>8, <2>10, <2>11
  <2>13. sessions' \in Seq(MockSession)
    BY <2>11, <2>12
  <2>14. Len(sessions') = Len(sessions)
    BY <2>11, <2>13
  <2>15. \A i \in Finished(g) : sessions[i].status = "SUBMITTED" /\ sessions[i].owner = g
    BY DEF Finished, Of
  <2>16. ASSUME NEW i \in DOMAIN sessions, sessions[i].by = g
         PROVE  i \in Finished(g) /\ i <= last
    <3>1. i <= last /\ sessions[last].by = g /\ i \in Nat /\ last \in Nat
      <4>1. i <= last /\ (last # 0 => sessions[last].by = g)
        BY <2>3, <2>4, <2>5, <2>16, LatestIsLast
      <4> QED BY <2>7, <2>11, <4>1
    <3>2. sessions[i].owner = g
      BY <2>3, <2>4, <2>16 DEF MockInv, Owned
    <3>3. sessions[i].status = "SUBMITTED"
      <4>1. CASE i = last
        BY <2>7, <4>1
      <4>2. CASE i < last
        BY <2>3, <2>7, <2>16, <3>1, <4>2 DEF MockInv, InTurn
      <4> QED BY <3>1, <4>1, <4>2
    <3> QED BY <3>1, <3>2, <3>3 DEF Finished, Of
  <2>17. ASSUME NEW i \in Finished(g) PROVE sessions[i].by = g
    <3>1. i \in DOMAIN sessions /\ sessions[i].owner = g
      BY DEF Finished, Of
    <3>2. sessions[i].by \in Guests \/ sessions[i].by \in Accounts
      BY <2>9, <3>1 DEF MockSession, People
    <3>3. \A q \in Guests : claimedBy[q] # NoMock => claimedBy[q] \in Accounts
      BY DEF MockInv, MockRowsOK
    <3> QED BY <2>3, <3>1, <3>2, <3>3, MockAssumption DEF MockInv, Owned
  <2>18. /\ claimedBy' \in [Guests -> Accounts \cup {NoMock}] /\ claimedBy'[g] = a /\ claimed'[g] = last
         /\ \A q \in Guests : q # g => claimedBy'[q] = claimedBy[q] /\ claimed'[q] = claimed[q]
    BY <2>3, <2>8 DEF MockInv, MockRowsOK
  <2>19. claimed' \in [Guests -> 0..MaxMocks]
    <3>1. Len(sessions) <= MaxMocks /\ MaxMocks \in Nat
      <4>1. MaxMocks \in Nat /\ Len(sessions) + Cardinality(Busy) <= MaxMocks
        BY MockAssumption DEF MockInv
      <4> QED BY <4>1, SetsAreFinite
    <3>2. last \in 0..MaxMocks
      BY <2>7, <2>11, <3>1
    <3> QED BY <2>3, <2>8, <3>2 DEF MockInv, MockRowsOK
  <2>20. MockRowsOK'
    BY <1>1, <2>13, <2>18, <2>19 DEF MockInv, MockRowsOK
  <2>21. Owned'
    <3>1. ASSUME NEW i \in DOMAIN sessions, sessions[i].by # g
          PROVE  /\ sessions[i].by \in Accounts => sessions'[i].owner = sessions[i].by /\ sessions[i].source = 0
                 /\ sessions[i].by \in Guests /\ claimedBy'[sessions[i].by] = NoMock =>
                      sessions'[i].owner = sessions[i].by
                 /\ sessions[i].by \in Guests /\ claimedBy'[sessions[i].by] # NoMock =>
                      /\ sessions'[i].owner = claimedBy'[sessions[i].by] /\ sessions[i].status = "SUBMITTED"
                      /\ i <= claimed'[sessions[i].by]
      <4>1. sessions'[i].owner = sessions[i].owner
        BY <2>10, <2>17, <3>1
      <4> QED BY <2>18, <3>1, <4>1 DEF MockInv, Owned
    <3>2. ASSUME NEW i \in DOMAIN sessions, sessions[i].by = g
          PROVE  sessions'[i].owner = a /\ sessions[i].status = "SUBMITTED" /\ i <= claimed'[g]
      BY <2>10, <2>15, <2>16, <2>18, <3>2
    <3>3. g \notin Accounts
      BY <2>3, MockAssumption
    <3>4. \A i \in DOMAIN sessions : sessions[i].by \in Guests => sessions[i].draw = reserved /\ reserved # NoMock
      BY DEF MockInv, Owned
    <3> QED BY <1>1, <2>3, <2>10, <2>11, <2>18, <3>1, <3>2, <3>3, <3>4 DEF Owned
  <2>22. InTurn'
    <3>1. \A i \in DOMAIN sessions : sessions[i].source # 0 => sessions[i].source \in DOMAIN sessions
      <4>1. ASSUME NEW i \in DOMAIN sessions, sessions[i].source # 0 PROVE sessions[i].source \in DOMAIN sessions
        <5>1. sessions[i].source < i /\ sessions[i].source \in Nat
          BY <2>9, <4>1 DEF MockInv, InTurn, MockSession
        <5> QED BY <2>11, <4>1, <5>1
      <4> QED BY <4>1
    <3> QED BY <2>10, <2>11, <3>1 DEF MockInv, InTurn
  <2>23. Unique'
    <3>1. \A i \in DOMAIN sessions : sessions'[i].status = "IN_PROGRESS" => sessions'[i].owner = sessions[i].owner
      BY <2>10, <2>15
    <3> QED BY <2>10, <2>11, <3>1 DEF MockInv, Unique
  <2>24. /\ mtx' = [mtx EXCEPT ![t] = MockIdle] /\ mtx'[t] = MockIdle /\ DOMAIN mtx' = MockTxs
         /\ \A u \in MockTxs : u # t => mtx'[u] = mtx[u]
         /\ MockLocksOK' /\ OthersKeepLocks(t)
    BY <1>1, LocksReleased DEF MockEnd, MockInv
  <2>25. ASSUME NEW u \in MockTxs PROVE RequestShape(u)' /\ LocksOfRequest(u)' /\ SeenByRequest(u)'
    <3>1. CASE u = t
      BY <2>24, <3>1, IdleHolds
    <3>2. CASE u # t
      <4>1. mtx'[u] = mtx[u] /\ RequestShape(u) /\ LocksOfRequest(u) /\ SeenByRequest(u)
        BY <2>24, <3>2 DEF MockInv
      <4>2. RequestShape(u)'
        BY <4>1 DEF RequestShape
      <4>3. mtx[u].kind \in {"guest", "claim"} => mtx[u].who \in Guests
        BY <4>1 DEF RequestShape
      <4>4. mtx[u].kind = "draw" => mtx[u].who \in Accounts
        BY <4>1 DEF RequestShape
      <4>5. mtx[u].kind \in {"guest", "claim"} /\ mtx[u].at # "locking" => mtx[u].who # g
        BY <2>4, <3>2, <4>1 DEF LocksOfRequest
      <4>6. LocksOfRequest(u)'
        BY <1>1, <2>18, <2>24, <3>2, <4>1, <4>3, <4>4, <4>5 DEF LocksOfRequest, OthersKeepLocks, People
      <4>7. \A i \in DOMAIN sessions : sessions'[i].status = "IN_PROGRESS" => sessions'[i].owner = sessions[i].owner
        BY <2>10, <2>15
      <4>8. SeenByRequest(u)'
        BY <2>10, <2>11, <4>1, <4>7 DEF SeenByRequest
      <4> QED BY <4>2, <4>6, <4>8
    <3> QED BY <3>1, <3>2
  <2>26. StartsCounted'
    <3>1. Retakes' = Retakes
      BY <2>10, <2>11 DEF Retakes
    <3>2. Creating' \subseteq Creating /\ Retaking' \subseteq Retaking
      BY <1>1, <2>24, PlaceLeft
    <3> QED BY <1>1, <3>1, <3>2, CountsStand
  <2>27. (Len(sessions) + Cardinality(Busy) <= MaxMocks)'
    <3>1. PICK x : x = Busy'
      OBVIOUS
    <3>2. Cardinality(x) = Cardinality(Busy) - 1 /\ Cardinality(x) \in Nat
      BY <1>1, <2>24, <3>1, PlaceLeft
    <3>3. Len(sessions) + Cardinality(x) <= MaxMocks
      BY <3>2, SetsAreFinite, MockAssumption DEF MockInv
    <3> QED BY <2>14, <3>1, <3>3
  <2> QED BY <2>20, <2>21, <2>22, <2>23, <2>24, <2>25, <2>26, <2>27 DEF MockInv
<1> QED BY <1>2, <1>3

-------------------------------------------------------------------------------
(* Every step, and what follows.                                            *)

\* Whatever a mock, a trial or the bank does.
LEMMA MocksKeep ==
  ASSUME MockInv, [MockNext]_mockVars
  PROVE  MockInv'
<1>1. ASSUME NEW t \in MockTxs, MockStep(t) PROVE MockInv'
  BY <1>1, CreateKeeps, ReadTestKeeps, LockTrialKeeps, LockMocksKeeps, DrawKeeps, PrepareKeeps,
     AdmitRetakeKeeps, CommitMockKeeps, CommitClaimKeeps, DecoratedKeeps DEF MockStep
<1>2. ASSUME NEW t \in MockTxs, MockAbort(t) PROVE MockInv'
  BY <1>2, RequestEnds DEF MockAbort
<1>3. ASSUME NEW t \in MockTxs, NEW g \in Guests,
             \/ AdmitTrial(t, g) \/ StartGuest(t, g)
             \/ \E i \in DOMAIN sessions : StartRetake(t, g, i)
             \/ \E a \in Accounts : StartClaim(t, g, a)
      PROVE  MockInv'
  BY <1>3, AdmitTrialKeeps, StartsKeep
<1>4. ASSUME NEW t \in MockTxs, NEW a \in Accounts, NEW again \in BOOLEAN,
             StartGenerated(t, a, again) \/ \E test \in MockTests : StartCurated(t, a, test, again)
      PROVE  MockInv'
  BY <1>4, StartsKeep, StartCuratedKeeps
<1>5. ASSUME NEW i \in DOMAIN sessions, FinishSession(i) \/ AbandonSession(i) PROVE MockInv'
  BY <1>5, EndsKeep
<1>6. ASSUME (\E g \in Guests : ExpireTrial(g)) \/ (\E m \in Bank : Republish(m)) PROVE MockInv'
  BY <1>6, AroundKeeps
<1>7. CASE UNCHANGED mockVars
  BY <1>7, MockStutters
<1>8. CASE MockNext
  BY <1>1, <1>2, <1>3, <1>4, <1>5, <1>6, <1>8 DEF MockNext
<1> QED BY <1>7, <1>8

\* What the invariant says of a request that commits: nobody is turned away by the index.
LEMMA NobodyRefused ==
  ASSUME MockInv, NEW t \in MockTxs, MockAt(t, {"guest", "draw"}, "committing")
  PROVE  ~Refused(t)
<1>1. PICK q : q = mtx[t]
  OBVIOUS
<1>2. q.kind \in {"guest", "draw"} /\ q.at = "committing"
  BY <1>1 DEF MockAt
<1>3. /\ q.source \in Nat /\ q.test = NoMock
      /\ q.kind = "guest" => q.who \in Guests /\ ~q.restart
  BY <1>1, <1>2 DEF MockInv, RequestShape
<1>4. CASE q.kind = "draw"
  <2>1. CASE q.restart
    BY <1>1, <1>3, <1>4, <2>1 DEF Refused, Replaced, UnderWayOf
  <2>2. CASE ~q.restart
    <3>1. \A i \in DOMAIN sessions :
            ~(sessions[i].owner = q.who /\ sessions[i].status = "IN_PROGRESS" /\ sessions[i].test = NoMock)
      BY <1>1, <1>2, <1>4, <2>2 DEF MockInv, SeenByRequest
    <3>2. UnderWayOf(q.who, q.test) = {}
      BY <1>3, <3>1 DEF UnderWayOf, UnderWay, Of
    <3> QED BY <1>1, <3>2 DEF Refused
  <2> QED BY <2>1, <2>2
<1>5. CASE q.kind = "guest"
  <2>1. claimedBy[q.who] = NoMock
    BY <1>1, <1>2, <1>5 DEF MockInv, LocksOfRequest
  <2>2. /\ q.source # 0 => q.source \in DOMAIN sessions /\ sessions[q.source].by = q.who
                           /\ sessions[q.source].status = "SUBMITTED"
        /\ \A i \in DOMAIN sessions : sessions[i].by = q.who => i <= q.source
    BY <1>1, <1>2, <1>5 DEF MockInv, SeenByRequest
  <2>3. ASSUME NEW i \in DOMAIN sessions, sessions[i].owner = q.who PROVE sessions[i].status = "SUBMITTED"
    <3>1. sessions[i] \in MockSession
      BY DEF MockInv, MockRowsOK
    <3>2. sessions[i].by \in Guests \/ sessions[i].by \in Accounts
      BY <3>1 DEF MockSession, People
    <3>3. \A g \in Guests : claimedBy[g] # NoMock => claimedBy[g] \in Accounts
      BY DEF MockInv, MockRowsOK
    <3>4. sessions[i].by = q.who
      BY <1>3, <1>5, <2>3, <3>2, <3>3, MockAssumption DEF MockInv, Owned
    <3>5. i <= q.source /\ i \in Nat \ {0}
      BY <2>2, <3>4, SetsAreFinite
    <3>6. q.source # 0 /\ (i = q.source \/ i < q.source)
      BY <1>3, <3>5
    <3> QED BY <1>3, <1>5, <2>2, <3>4, <3>6 DEF MockInv, InTurn
  <2>4. UnderWayOf(q.who, q.test) = {}
    BY <2>3 DEF UnderWayOf, UnderWay, Of
  <2> QED BY <1>1, <2>4 DEF Refused
<1> QED BY <1>2, <1>4, <1>5

\* The invariant says what the properties say.
LEMMA MocksAreRight ==
  ASSUME MockInv
  PROVE  MockTypeOK /\ OneUnderWay /\ ClaimedIsSpent /\ RetakenOnce /\ SameForEveryGuest
<1>1. MockTypeOK
  <2>1. \A t \in MockTxs :
          /\ mtx[t].kind \in {"idle", "trial", "guest", "draw", "curated", "claim"}
          /\ mtx[t].at \in {"idle", "creating", "testing", "locking", "generating", "drawing",
                            "admitting", "committing", "returned"}
          /\ mtx[t].draw \in Draws \cup {NoMock}
    BY DEF MockInv, RequestShape
  <2>2. admitted \in Nat
    BY MockAssumption DEF MockInv, StartsCounted
  <2> QED BY <2>1, <2>2 DEF MockTypeOK, MockInv, MockRowsOK, MockLocksOK
<1>2. OneUnderWay
  <2>1. ASSUME NEW p, NEW test PROVE Cardinality(UnderWayOf(p, test)) <= 1
    <3>1. PICK S : S = UnderWayOf(p, test)
      OBVIOUS
    <3>2. \A i, j \in S : i = j
      BY <3>1 DEF MockInv, Unique, UnderWayOf, UnderWay, Of
    <3>3. CASE S = {}
      BY <3>1, <3>3, FS_EmptySet
    <3>4. CASE S # {}
      <4>1. PICK i : i \in S
        BY <3>4
      <4>2. S = {i}
        BY <3>2, <4>1
      <4>3. Cardinality(S) = 1
        BY <4>2, FS_Singleton
      <4> QED BY <3>1, <4>3
    <3> QED BY <3>3, <3>4
  <2> QED BY <2>1, NobodyRefused DEF OneUnderWay
<1>3. ClaimedIsSpent
  BY DEF MockInv, Owned, ClaimedIsSpent
<1>4. RetakenOnce
  <2>1. /\ admitted \in 0..StartLimit /\ StartLimit \in Nat
        /\ Cardinality(Trials) + Cardinality(Retakes) + Cardinality(Creating) + Cardinality(Retaking) <= admitted
    BY MockAssumption DEF MockInv, StartsCounted
  <2>2. Cardinality(Trials) + Cardinality(Retakes) <= admitted /\ admitted <= StartLimit
    BY <2>1, SetsAreFinite
  <2>3. \A i, j \in DOMAIN sessions :
          sessions[i].source # 0 /\ sessions[i].source = sessions[j].source => i = j
    BY DEF MockInv, InTurn
  <2> QED BY <2>2, <2>3 DEF RetakenOnce, Trials, Retakes
<1>5. SameForEveryGuest
  BY DEF MockInv, Owned, SameForEveryGuest
<1> QED BY <1>1, <1>2, <1>3, <1>4, <1>5

\* With billing on, what a step abandons it replaces, or the student gave it up.
LEMMA NoneDestroyed ==
  ASSUME MockInv, MockNext, Billed, NEW i \in DOMAIN sessions,
         sessions[i].status = "IN_PROGRESS", sessions'[i].status = "ABANDONED"
  PROVE  \/ Len(sessions') > Len(sessions) /\ sessions'[Len(sessions')].owner = sessions[i].owner
         \/ AbandonSession(i)
<1>0. sessions \in Seq(MockSession) /\ \A j \in DOMAIN sessions : sessions[j] \in MockSession
  BY DEF MockInv, MockRowsOK
<1>1. sessions' # sessions
  OBVIOUS
<1>2. ASSUME NEW t \in MockTxs, CommitMock(t)
      PROVE  Len(sessions') > Len(sessions) /\ sessions'[Len(sessions')].owner = sessions[i].owner
  <2>1. PICK mid : mid = [j \in DOMAIN sessions |->
                            IF j \in Replaced(t) THEN [sessions[j] EXCEPT !.status = "ABANDONED"] ELSE sessions[j]]
    OBVIOUS
  <2>2. PICK row : row = [owner |-> mtx[t].who, by |-> mtx[t].who, test |-> mtx[t].test, draw |-> mtx[t].draw,
                          source |-> mtx[t].source, status |-> "IN_PROGRESS"]
    OBVIOUS
  <2>3. sessions' = Append(mid, row)
    BY <1>1, <1>2, <2>1, <2>2 DEF CommitMock
  <2>4. OnlyEnded(mid)
    <3>1. \A j \in Replaced(t) : j \in DOMAIN sessions /\ sessions[j].status = "IN_PROGRESS"
      BY DEF Replaced, UnderWayOf, UnderWay, Of
    <3> HIDE DEF Replaced
    <3> QED BY <2>1, <3>1, EndedFits
  <2>5. mid \in Seq(MockSession) /\ Len(mid) = Len(sessions) /\ DOMAIN mid = DOMAIN sessions
    BY <2>4 DEF OnlyEnded
  <2>6. /\ Len(sessions') = Len(sessions) + 1 /\ Len(sessions') > Len(sessions)
        /\ sessions'[Len(sessions')] = row /\ sessions'[i] = mid[i]
    BY <2>3, <2>5, SetsAreFinite
  <2>7. i \in Replaced(t)
    BY <2>1, <2>6
  <2>8. sessions[i].owner = mtx[t].who
    BY <2>7 DEF Replaced, UnderWayOf, UnderWay, Of
  <2> QED BY <2>2, <2>6, <2>8
<1>3. ASSUME NEW t \in MockTxs, CommitClaim(t) PROVE FALSE
  <2>1. sessions' = [j \in DOMAIN sessions |->
          IF Moves(j, t) THEN [sessions[j] EXCEPT !.owner = mtx[t].for] ELSE sessions[j]]
    BY <1>1, <1>3 DEF CommitClaim
  <2>2. sessions'[i].status = sessions[i].status
    <3>1. CASE Moves(i, t)
      <4>1. sessions'[i] = [sessions[i] EXCEPT !.owner = mtx[t].for]
        BY <2>1, <3>1
      <4> QED BY <1>0, <4>1 DEF MockSession
    <3>2. CASE ~Moves(i, t)
      BY <2>1, <3>2
    <3> QED BY <3>1, <3>2
  <2> QED BY <2>2
<1>4. ASSUME NEW t \in MockTxs, NEW a \in Accounts, NEW test \in MockTests, NEW again \in BOOLEAN,
             StartCurated(t, a, test, again)
      PROVE  FALSE
  <2>1. AtOnce(a, test) = {}
    BY DEF AtOnce
  <2>2. sessions'[i] = sessions[i]
    BY <1>4, <2>1 DEF StartCurated
  <2> QED BY <2>2
<1>5. ASSUME NEW j \in DOMAIN sessions, FinishSession(j) PROVE FALSE
  <2>1. sessions'[i].status \in {"IN_PROGRESS", "SUBMITTED"}
    BY <1>0, <1>5 DEF FinishSession, MockSession
  <2> QED BY <2>1
<1>6. ASSUME NEW j \in DOMAIN sessions, AbandonSession(j) PROVE AbandonSession(i)
  <2>1. i = j
    BY <1>0, <1>6 DEF AbandonSession, MockSession
  <2> QED BY <1>6, <2>1
<1>7. ASSUME NEW t \in MockTxs, MockStep(t), ~CommitMock(t), ~CommitClaim(t) PROVE FALSE
  BY <1>1, <1>7 DEF MockStep, CreateTrial, ReadTest, LockTrial, LockMocks, DrawMaterials, PrepareGuestMock,
     AdmitRetake, Decorated
<1>8. ASSUME NEW t \in MockTxs, MockAbort(t) PROVE FALSE
  BY <1>1, <1>8 DEF MockAbort
<1>9. ASSUME NEW t \in MockTxs, NEW g \in Guests,
             \/ AdmitTrial(t, g) \/ StartGuest(t, g)
             \/ \E j \in DOMAIN sessions : StartRetake(t, g, j)
             \/ \E a \in Accounts : StartClaim(t, g, a)
      PROVE  FALSE
  BY <1>1, <1>9 DEF AdmitTrial, StartGuest, StartRetake, StartClaim, MockBegin
<1>10. ASSUME NEW t \in MockTxs, NEW a \in Accounts, NEW again \in BOOLEAN, StartGenerated(t, a, again) PROVE FALSE
  BY <1>1, <1>10 DEF StartGenerated, MockBegin
<1>11. ASSUME (\E g \in Guests : ExpireTrial(g)) \/ (\E m \in Bank : Republish(m)) PROVE FALSE
  BY <1>1, <1>11 DEF ExpireTrial, Republish
<1> QED BY <1>2, <1>3, <1>4, <1>5, <1>6, <1>7, <1>8, <1>9, <1>10, <1>11 DEF MockNext

\* The rows of mocks and trials keep their types, and of each person one mock of each kind
\* is under way, guests are given the same materials, a report is retaken once and counted,
\* and a claim takes it all: whether billing is on or off, for any number of guests,
\* accounts, requests and materials.
THEOREM MocksAreOne ==
  MockSpec => []MockTypeOK /\ []OneUnderWay /\ []ClaimedIsSpent /\ []RetakenOnce /\ []SameForEveryGuest
<1>1. MockInit => MockInv
  BY MocksStart
<1>2. MockInv /\ [MockNext]_mockVars => MockInv'
  BY MocksKeep
<1>3. MockInv => MockTypeOK /\ OneUnderWay /\ ClaimedIsSpent /\ RetakenOnce /\ SameForEveryGuest
  BY MocksAreRight
<1> QED BY <1>1, <1>2, <1>3, PTL DEF MockSpec

\* With billing on moreover no mock is given up but by the student or in the transaction
\* that replaces it.  (Without it a restart of a curated test ends the old one first.)
THEOREM MocksKept == Billed => (MockSpec => MocksHold)
<1> SUFFICES ASSUME Billed PROVE MockSpec => MocksHold
  OBVIOUS
<1>1. MockInit => MockInv
  BY MocksStart
<1>2. MockInv /\ [MockNext]_mockVars => MockInv'
  BY MocksKeep
<1>3. MockInv => MockTypeOK /\ OneUnderWay /\ ClaimedIsSpent /\ RetakenOnce /\ SameForEveryGuest
  BY MocksAreRight
<1>4. MockInv /\ [MockNext]_mockVars =>
        [\A i \in DOMAIN sessions :
           sessions[i].status = "IN_PROGRESS" /\ sessions'[i].status = "ABANDONED" =>
             \/ Len(sessions') > Len(sessions) /\ sessions'[Len(sessions')].owner = sessions[i].owner
             \/ AbandonSession(i)]_mockVars
  BY NoneDestroyed
<1> QED BY <1>1, <1>2, <1>3, <1>4, PTL DEF MockSpec, MocksHold, NeverDestroyed

===============================================================================
