------------------------------ MODULE MockSessions ------------------------------
(***************************************************************************)
(* Who starts a full mock, of which materials, and whose it becomes.       *)
(*                                                                         *)
(*   internal/fullmock   generateSession, prepareGuestMock, Service.Start, *)
(*                       createSession, StartGenerated                     *)
(*   internal/guest      Handler.Start, retake, Claim, Create              *)
(*                                                                         *)
(* Accounts draw mocks from the bank or start curated ones; guests take    *)
(* one fixed mock, may retake it, and sign in to keep what they finished.  *)
(* The requests of both run concurrently; each is several transactions and *)
(* statements.  Module FullMock has what happens inside a session, module  *)
(* FreeUsage what it is charged.                                           *)
(***************************************************************************)
EXTENDS Naturals, Sequences, FiniteSets

CONSTANTS
  Guests,       \* identities of guest trials
  Accounts,
  MockTests,    \* curated tests
  MockSkills,
  Bank,         \* materials fit for a full mock
  BankSkill,    \* the skill of each
  MockTxs,      \* requests in flight
  NoMock,
  Billed,       \* PAYWALL_ENABLED
  MaxVersion,   \* bound on published versions of a material
  StartLimit,   \* guest starts admitted a day
  MaxMocks,     \* bound on sessions
  MaxDraws      \* tries of StartGenerated (16)

ASSUME MockAssumption ==
  /\ BankSkill \in [Bank -> MockSkills]
  /\ NoMock \notin Guests \cup Accounts \cup MockTests \cup MockTxs \cup [MockSkills -> Bank \X Nat]
  /\ Guests \cap Accounts = {} /\ IsFiniteSet(Guests) /\ IsFiniteSet(MockTxs)
  /\ Billed \in BOOLEAN
  /\ {MaxVersion, StartLimit, MaxMocks, MaxDraws} \subseteq Nat /\ MaxVersion > 0

VARIABLES
  published,    \* version of each material, 0 when it is not published
  reserved,     \* guest_mock_materials: material and version of each skill
  trial,        \* guest_trials: is the identity there, has it expired
  claimedBy,    \* guest_trials.claimed_by
  claimed,      \* guest_trials.claimed_session_id
  sessions,     \* full_mock_sessions with their sections, in order of creation
  trialLock,    \* who holds a guest_trials row FOR UPDATE
  generationLock,     \* who holds the advisory lock "fullmock:<user>"
  fixedLock,    \* who holds the advisory lock "fixed-guest-mock"
  mtx,          \* progress of each request
  admitted      \* Redis: guest starts counted today

drawnVars == <<published, reserved>>
trialVars == <<trial, claimedBy, claimed>>
mockLocks == <<trialLock, generationLock, fixedLock>>
mockVars == <<drawnVars, trialVars, sessions, mockLocks, mtx, admitted>>

People == Guests \cup Accounts
Pinned == Bank \X (1..MaxVersion)
Draws == {d \in [MockSkills -> Pinned] : \A s \in MockSkills : BankSkill[d[s][1]] = s}

\* owner: user_id; by: who started it; source: the session a guest takes again.
MockSession ==
  [owner : People, by : People, test : MockTests \cup {NoMock}, draw : Draws, source : Nat,
   status : {"IN_PROGRESS", "SUBMITTED", "ABANDONED"}]

MockIdle ==
  [kind |-> "idle", who |-> NoMock, for |-> NoMock, test |-> NoMock, source |-> 0,
   restart |-> FALSE, draw |-> NoMock, at |-> "idle", left |-> 0]

MockTypeOK ==
  /\ published \in [Bank -> 0..MaxVersion]
  /\ reserved \in Draws \cup {NoMock}
  /\ trial \in [Guests -> {"none", "live", "expired"}]
  /\ claimedBy \in [Guests -> Accounts \cup {NoMock}]
  /\ claimed \in [Guests -> 0..MaxMocks]
  /\ sessions \in Seq(MockSession)
  /\ trialLock \in [Guests -> MockTxs \cup {NoMock}]
  /\ generationLock \in [People -> MockTxs \cup {NoMock}]
  /\ fixedLock \in MockTxs \cup {NoMock}
  /\ \A t \in MockTxs :
       /\ mtx[t].kind \in {"idle", "trial", "guest", "draw", "curated", "claim"}
       /\ mtx[t].at \in {"idle", "creating", "testing", "locking", "generating", "drawing",
                         "admitting", "committing", "returned"}
       /\ mtx[t].draw \in Draws \cup {NoMock}
  /\ admitted \in Nat

MockInit ==
  /\ published \in [Bank -> {0, 1}]
  /\ reserved = NoMock
  /\ trial = [g \in Guests |-> "none"]
  /\ claimedBy = [g \in Guests |-> NoMock]
  /\ claimed = [g \in Guests |-> 0]
  /\ sessions = <<>>
  /\ trialLock = [g \in Guests |-> NoMock]
  /\ generationLock = [p \in People |-> NoMock]
  /\ fixedLock = NoMock
  /\ mtx = [t \in MockTxs |-> MockIdle]
  /\ admitted = 0

-------------------------------------------------------------------------------
(* What the sessions and the bank say.                                      *)

Of(p) == {i \in DOMAIN sessions : sessions[i].owner = p}
UnderWay(p) == {i \in Of(p) : sessions[i].status = "IN_PROGRESS"}
UnderWayOf(p, test) == {i \in UnderWay(p) : sessions[i].test = test}
Finished(p) == {i \in Of(p) : sessions[i].status = "SUBMITTED"}

\* ORDER BY started_at DESC LIMIT 1
Latest(p) == IF Of(p) = {} THEN 0 ELSE CHOOSE i \in Of(p) : \A j \in Of(p) : j <= i

DrawnIn(i) == {sessions[i].draw[s][1] : s \in MockSkills}

Eligible == [s \in MockSkills |-> {m \in Bank : BankSkill[m] = s /\ published[m] > 0}]

\* The bank of an account: nothing a guest is given.
Candidates == [s \in MockSkills |-> {m \in Eligible[s] : reserved = NoMock \/ m # reserved[s][1]}]

Completed(p) == UNION {DrawnIn(i) : i \in Finished(p)}
Previous(p) == IF Latest(p) = 0 THEN {} ELSE DrawnIn(Latest(p))

\* What has not been completed; or was not in the last mock; or anything.
SelectionPool(p, s) ==
  LET unseen == Candidates[s] \ Completed(p)
      other == Candidates[s] \ Previous(p)
  IN  IF unseen # {} THEN unseen ELSE IF other # {} THEN other ELSE Candidates[s]

Ready(pool) == \A s \in MockSkills : pool[s] # {}

DrawsFrom(pool) ==
  {[s \in MockSkills |-> <<m[s], published[m[s]]>>] : m \in {f \in [MockSkills -> Bank] : \A s \in MockSkills : f[s] \in pool[s]}}

-------------------------------------------------------------------------------
(* Faulty variants, the slips the properties are there to notice.           *)

ResumesNone(t) == {}

TrialLives(t) == trial[mtx[t].who] = "live"

RetakesAlways(t) == FALSE

RepublishedFixed(t) == DrawsFrom(Eligible)

BeforeTheBank(a, test) == UnderWayOf(a, test)

-------------------------------------------------------------------------------
(* Requests.                                                                *)

MockAt(t, kinds, at) == mtx[t].kind \in kinds /\ mtx[t].at = at
MockGoto(t, at) == mtx' = [mtx EXCEPT ![t].at = at]

Release(t) ==
  /\ trialLock' = [g \in Guests |-> IF trialLock[g] = t THEN NoMock ELSE trialLock[g]]
  /\ generationLock' = [p \in People |-> IF generationLock[p] = t THEN NoMock ELSE generationLock[p]]
  /\ fixedLock' = IF fixedLock = t THEN NoMock ELSE fixedLock

\* The request ends, with an answer or an error; its transaction is rolled back.
MockEnd(t) == Release(t) /\ mtx' = [mtx EXCEPT ![t] = MockIdle]

MockAbort(t) ==
  /\ mtx[t] # MockIdle
  /\ MockEnd(t)
  /\ UNCHANGED <<drawnVars, trialVars, sessions, admitted>>

\* Bound: room for what the requests in flight may insert.
MockRoom == Len(sessions) + Cardinality({t \in MockTxs : mtx[t] # MockIdle}) < MaxMocks

MockBegin(t, request) ==
  /\ mtx[t] = MockIdle
  /\ MockRoom
  /\ mtx' = [mtx EXCEPT ![t] = request]
  /\ UNCHANGED <<drawnVars, trialVars, sessions, mockLocks, admitted>>

\* Handler.limit: a guest start is counted before it is made, and never given back.
Admitted == admitted < StartLimit

\* Handler.Start without a cookie, or with one whose trial is over.
AdmitTrial(t, g) ==
  /\ trial[g] = "none"
  /\ \A u \in MockTxs : ~(mtx[u].kind = "trial" /\ mtx[u].who = g)
  /\ mtx[t] = MockIdle /\ MockRoom
  /\ Admitted
  /\ admitted' = admitted + 1
  /\ mtx' = [mtx EXCEPT ![t] = [MockIdle EXCEPT !.kind = "trial", !.who = g, !.at = "creating"]]
  /\ UNCHANGED <<drawnVars, trialVars, sessions, mockLocks>>

\* PostgresRepository.Create, and on to the mock.
CreateTrial(t) ==
  /\ MockAt(t, {"trial"}, "creating")
  /\ trial' = [trial EXCEPT ![mtx[t].who] = "live"]
  /\ mtx' = [mtx EXCEPT ![t].kind = "guest", ![t].at = "locking"]
  /\ UNCHANGED <<drawnVars, claimedBy, claimed, sessions, mockLocks, admitted>>

\* Handler.Start with the cookie of a trial: what it finds of the trial is old by the
\* time the mock is made.  A guest who has a session is only shown it.
StartGuest(t, g) ==
  /\ trial[g] = "live" /\ claimedBy[g] = NoMock
  /\ Latest(g) = 0
  /\ MockBegin(t, [MockIdle EXCEPT !.kind = "guest", !.who = g, !.at = "locking"])

\* Service.RetakeGuest
StartRetake(t, g, i) ==
  /\ trial[g] = "live" /\ claimedBy[g] = NoMock
  /\ i \in Finished(g)
  /\ MockBegin(t, [MockIdle EXCEPT !.kind = "guest", !.who = g, !.source = i, !.at = "locking"])

\* Service.StartGenerated
StartGenerated(t, a, again) ==
  MockBegin(t, [MockIdle EXCEPT !.kind = "draw", !.who = a, !.restart = again, !.at = "generating",
                                !.left = MaxDraws])

\* Handler.Claim
StartClaim(t, g, a) ==
  MockBegin(t, [MockIdle EXCEPT !.kind = "claim", !.who = g, !.for = a, !.at = "locking"])

\* Without billing a restart abandons the session under way at once, in a transaction
\* of its own; with billing, in the one that replaces it.
AtOnce(a, test) == IF Billed THEN {} ELSE UnderWayOf(a, test)

\* Service.Start of a curated test.
StartCurated(t, a, test, again) ==
  /\ mtx[t] = MockIdle /\ MockRoom
  /\ UnderWayOf(a, test) = {} \/ again
  /\ sessions' = [i \in DOMAIN sessions |->
       IF i \in AtOnce(a, test) THEN [sessions[i] EXCEPT !.status = "ABANDONED"] ELSE sessions[i]]
  /\ mtx' = [mtx EXCEPT ![t] =
       [MockIdle EXCEPT !.kind = "curated", !.who = a, !.test = test, !.restart = again, !.at = "testing"]]
  /\ UNCHANGED <<drawnVars, trialVars, mockLocks, admitted>>

\* GetPublic and PublishedVersionID: its materials must be published now.  A test that
\* was archived ends the request as MockAbort does.
ReadTest(t) ==
  /\ MockAt(t, {"curated"}, "testing")
  /\ IF Ready(Eligible)
     THEN \E d \in DrawsFrom(Eligible) :
            /\ mtx' = [mtx EXCEPT ![t].draw = d, ![t].at = IF Billed THEN "generating" ELSE "committing"]
            /\ UNCHANGED mockLocks
     ELSE MockEnd(t)
  /\ UNCHANGED <<drawnVars, trialVars, sessions, admitted>>

-------------------------------------------------------------------------------
(* generateSession, createSession and Claim.                                *)

\* The row of the trial, FOR UPDATE: a guest goes on while it is live and unclaimed,
\* a claim while nobody has claimed it either.
Valid(t) == trial[mtx[t].who] = "live" /\ claimedBy[mtx[t].who] = NoMock

LockTrial(t) ==
  /\ MockAt(t, {"guest", "claim"}, "locking")
  /\ trialLock[mtx[t].who] = NoMock
  /\ IF Valid(t)
     THEN /\ trialLock' = [trialLock EXCEPT ![mtx[t].who] = t]
          /\ MockGoto(t, "generating")
          /\ UNCHANGED <<generationLock, fixedLock>>
     ELSE MockEnd(t)
  /\ UNCHANGED <<drawnVars, trialVars, sessions, admitted>>

\* The session a guest has, unless it is the one to be taken again: then the source
\* must be over.
Successor(t) == Latest(mtx[t].who) # 0 /\ Latest(mtx[t].who) # mtx[t].source

\* The session under way that an account is returned instead of a new one.
Resumed(t) ==
  IF mtx[t].restart THEN {}
  ELSE IF mtx[t].kind = "curated" THEN UnderWayOf(mtx[t].who, mtx[t].test)
  ELSE UnderWay(mtx[t].who)

\* An account that resumes a mock has it decorated, which may finish it.
LockMocks(t) ==
  /\ MockAt(t, {"guest", "draw", "curated"}, "generating")
  /\ generationLock[mtx[t].who] = NoMock
  /\ IF mtx[t].kind = "guest" /\ Successor(t) THEN MockEnd(t)
     ELSE IF Resumed(t) # {}
     THEN /\ IF mtx[t].kind = "draw"
             THEN \E i \in Resumed(t) : mtx' = [mtx EXCEPT ![t].at = "returned", ![t].source = i]
             ELSE mtx' = [mtx EXCEPT ![t] = MockIdle]
          /\ Release(t)
     ELSE /\ generationLock' = [generationLock EXCEPT ![mtx[t].who] = t]
          /\ MockGoto(t, IF mtx[t].kind = "curated" THEN "committing" ELSE "drawing")
          /\ UNCHANGED <<trialLock, fixedLock>>
  /\ UNCHANGED <<drawnVars, trialVars, sessions, admitted>>

\* loadCandidates, bankStatuses, selectionPool
DrawMaterials(t) ==
  /\ MockAt(t, {"draw"}, "drawing")
  /\ IF Ready(Candidates)
     THEN \E d \in DrawsFrom([s \in MockSkills |-> SelectionPool(mtx[t].who, s)]) :
            mtx' = [mtx EXCEPT ![t].draw = d, ![t].at = "committing"] /\ UNCHANGED mockLocks
     ELSE MockEnd(t)
  /\ UNCHANGED <<drawnVars, trialVars, sessions, admitted>>

\* The rows of guest_mock_materials; the first guest of all makes them.
FixedDraws(t) == IF reserved = NoMock THEN DrawsFrom(Eligible) ELSE {reserved}

\* prepareGuestMock: one guest at a time, until it commits.
PrepareGuestMock(t) ==
  /\ MockAt(t, {"guest"}, "drawing")
  /\ fixedLock = NoMock
  /\ IF FixedDraws(t) = {} THEN MockEnd(t)
     ELSE /\ mtx' = [mtx EXCEPT ![t].draw = CHOOSE d \in FixedDraws(t) : TRUE,
                                ![t].at = IF mtx[t].source = 0 THEN "committing" ELSE "admitting"]
          /\ fixedLock' = t
          /\ UNCHANGED <<trialLock, generationLock>>
  /\ UNCHANGED <<drawnVars, trialVars, sessions, admitted>>

\* A retake is a start, counted under the locks.
AdmitRetake(t) ==
  /\ MockAt(t, {"guest"}, "admitting")
  /\ IF Admitted THEN admitted' = admitted + 1 /\ MockGoto(t, "committing") /\ UNCHANGED mockLocks
     ELSE MockEnd(t) /\ UNCHANGED admitted
  /\ UNCHANGED <<drawnVars, trialVars, sessions>>

\* What a restart abandons in the transaction that replaces it.
Replaced(t) ==
  IF ~mtx[t].restart THEN {}
  ELSE IF mtx[t].kind = "curated"
  THEN IF Billed THEN UnderWayOf(mtx[t].who, mtx[t].test) ELSE {}
  ELSE UnderWay(mtx[t].who)

\* full_mock_sessions_active_user_idx, full_mock_sessions_generated_active_user_idx
Refused(t) == UnderWayOf(mtx[t].who, mtx[t].test) \ Replaced(t) # {}

\* ABANDONED for what is replaced, the new session with its attempts, COMMIT.
CommitMock(t) ==
  /\ MockAt(t, {"guest", "draw", "curated"}, "committing")
  /\ IF Refused(t) THEN UNCHANGED <<sessions, reserved>>
     ELSE /\ sessions' = Append(
               [i \in DOMAIN sessions |->
                  IF i \in Replaced(t) THEN [sessions[i] EXCEPT !.status = "ABANDONED"] ELSE sessions[i]],
               [owner |-> mtx[t].who, by |-> mtx[t].who, test |-> mtx[t].test, draw |-> mtx[t].draw,
                source |-> mtx[t].source, status |-> "IN_PROGRESS"])
          /\ reserved' = IF mtx[t].kind = "guest" THEN mtx[t].draw ELSE reserved
  /\ MockEnd(t)
  /\ UNCHANGED <<published, trialVars, admitted>>

\* The loop of StartGenerated: a mock that was resumed and has expired since is
\* finished by decorate, and the next is drawn.
Decorated(t) ==
  /\ MockAt(t, {"draw"}, "returned")
  /\ mtx' = [mtx EXCEPT ![t] =
       IF sessions[mtx[t].source].status = "IN_PROGRESS" \/ mtx[t].left = 1 THEN MockIdle
       ELSE [mtx[t] EXCEPT !.at = "generating", !.source = 0, !.left = mtx[t].left - 1]]
  /\ UNCHANGED <<drawnVars, trialVars, sessions, mockLocks, admitted>>

\* The report a claim needs: the latest session, and it is over.
Claimable(g) == IF Latest(g) \in Finished(g) THEN Latest(g) ELSE 0

\* Which sessions go to the account.
Moves(i, t) == i \in Finished(mtx[t].who)

\* Claim under the lock of the trial.
CommitClaim(t) ==
  /\ MockAt(t, {"claim"}, "generating")
  /\ generationLock[mtx[t].who] = NoMock
  /\ IF Claimable(mtx[t].who) = 0 THEN UNCHANGED <<claimedBy, claimed, sessions>>
     ELSE /\ claimedBy' = [claimedBy EXCEPT ![mtx[t].who] = mtx[t].for]
          /\ claimed' = [claimed EXCEPT ![mtx[t].who] = Claimable(mtx[t].who)]
          /\ sessions' = [i \in DOMAIN sessions |->
               IF Moves(i, t) THEN [sessions[i] EXCEPT !.owner = mtx[t].for] ELSE sessions[i]]
  /\ MockEnd(t)
  /\ UNCHANGED <<drawnVars, trial, admitted>>

-------------------------------------------------------------------------------
(* Around the requests.                                                     *)

\* A session is finished or expires; a student may also give it up.
FinishSession(i) ==
  /\ sessions[i].status = "IN_PROGRESS"
  /\ sessions' = [sessions EXCEPT ![i].status = "SUBMITTED"]
  /\ UNCHANGED <<drawnVars, trialVars, mockLocks, mtx, admitted>>

AbandonSession(i) ==
  /\ sessions[i].status = "IN_PROGRESS"
  /\ sessions[i].owner \in Accounts
  /\ sessions' = [sessions EXCEPT ![i].status = "ABANDONED"]
  /\ UNCHANGED <<drawnVars, trialVars, mockLocks, mtx, admitted>>

\* Its expires_at passes, whoever holds the row.
ExpireTrial(g) ==
  /\ trial[g] = "live"
  /\ trial' = [trial EXCEPT ![g] = "expired"]
  /\ UNCHANGED <<drawnVars, claimedBy, claimed, sessions, mockLocks, mtx, admitted>>

\* Editors publish new versions and archive what there is.
Republish(m) ==
  /\ published' = [published EXCEPT ![m] = IF @ < MaxVersion THEN @ + 1 ELSE 0]
  /\ UNCHANGED <<reserved, trialVars, sessions, mockLocks, mtx, admitted>>

MockStep(t) ==
  \/ CreateTrial(t) \/ ReadTest(t) \/ LockTrial(t) \/ LockMocks(t) \/ DrawMaterials(t)
  \/ PrepareGuestMock(t) \/ AdmitRetake(t) \/ CommitMock(t) \/ CommitClaim(t) \/ Decorated(t)

MockNext ==
  \/ \E t \in MockTxs : MockStep(t) \/ MockAbort(t)
  \/ \E t \in MockTxs, g \in Guests :
       \/ AdmitTrial(t, g) \/ StartGuest(t, g)
       \/ \E i \in DOMAIN sessions : StartRetake(t, g, i)
       \/ \E a \in Accounts : StartClaim(t, g, a)
  \/ \E t \in MockTxs, a \in Accounts, again \in BOOLEAN :
       StartGenerated(t, a, again) \/ \E test \in MockTests : StartCurated(t, a, test, again)
  \/ \E i \in DOMAIN sessions : FinishSession(i) \/ AbandonSession(i)
  \/ \E g \in Guests : ExpireTrial(g)
  \/ \E m \in Bank : Republish(m)

MockSpec == MockInit /\ [][MockNext]_mockVars

-------------------------------------------------------------------------------
(* Properties.                                                              *)

\* Tabs that start, resume, restart or retake together share one session under way of
\* each kind, and none of them is turned away by the unique index.
OneUnderWay ==
  /\ \A p \in People, test \in MockTests \cup {NoMock} : Cardinality(UnderWayOf(p, test)) <= 1
  /\ \A t \in MockTxs : MockAt(t, {"guest", "draw"}, "committing") => ~Refused(t)

\* A claimed trial is spent: everything the guest took is the claimant's, finished,
\* and nothing is under way or follows.
ClaimedIsSpent ==
  \A g \in Guests : claimedBy[g] # NoMock =>
    \A i \in DOMAIN sessions : sessions[i].by = g =>
      sessions[i].owner = claimedBy[g] /\ sessions[i].status = "SUBMITTED" /\ i <= claimed[g]

\* However often a retake is asked for, a report is taken again once; and no guest
\* start is made that was not counted.
RetakenOnce ==
  /\ \A i, j \in DOMAIN sessions :
       sessions[i].source # 0 /\ sessions[i].source = sessions[j].source => i = j
  /\ Cardinality({g \in Guests : trial[g] # "none"})
       + Cardinality({i \in DOMAIN sessions : sessions[i].source # 0}) <= admitted
  /\ admitted <= StartLimit

\* Every guest is given the same materials in the same versions, whatever is published
\* or archived in between.
SameForEveryGuest ==
  \A i, j \in DOMAIN sessions :
    {sessions[i].by, sessions[j].by} \subseteq Guests => sessions[i].draw = sessions[j].draw

\* A mock under way is only given up by the student, or in the step that replaces it:
\* a bank that has run dry or a refused charge never costs the answers.
NeverDestroyed ==
  [][\A i \in DOMAIN sessions :
       sessions[i].status = "IN_PROGRESS" /\ sessions'[i].status = "ABANDONED" =>
         \/ Len(sessions') > Len(sessions) /\ sessions'[Len(sessions')].owner = sessions[i].owner
         \/ AbandonSession(i)]_mockVars

\* Mocks and trials: one under way, each counted and taken again once, the same for
\* every guest, spent by a claim, and never given up for nothing.
MocksHold ==
  /\ []MockTypeOK /\ []OneUnderWay /\ []ClaimedIsSpent /\ []RetakenOnce /\ []SameForEveryGuest
  /\ NeverDestroyed
===============================================================================
