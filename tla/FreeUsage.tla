-------------------------------- MODULE FreeUsage --------------------------------
(***************************************************************************)
(* What an account may start for free.                                     *)
(*                                                                         *)
(*   internal/attempts     Service.Start, CreatePractice                   *)
(*   internal/fullmock     generateSession                                 *)
(*   internal/billing      ConsumeTx, ClaimTx                              *)
(*                                                                         *)
(* Practice attempts, full mocks and claimed guest mocks of one account,   *)
(* started by concurrent requests.  As in BillingOrders, a transaction is  *)
(* several actions: taking the lock, reading under it, committing.  Module *)
(* BillingOrders has the entitlements; here they come and go at any time.  *)
(***************************************************************************)
EXTENDS Naturals, Sequences, FiniteSets

CONSTANTS
  Materials,   \* materials one can practise
  Skills,
  SkillOf,     \* the skill of each material
  Txs,         \* requests in flight
  None,
  Paywall,     \* PAYWALL_ENABLED
  Exempt,      \* TRUE for staff and guests
  Limits,      \* values a free limit may take
  MaxStarts    \* bound on attempts and mocks

ASSUME FreeUsageAssumption ==
  /\ IsFiniteSet(Skills)
  /\ SkillOf \in [Materials -> Skills]
  /\ None \notin Materials \cup Txs
  /\ {"mock", "claim"} \cap Materials = {}
  /\ Paywall \in BOOLEAN
  /\ Exempt \in BOOLEAN
  /\ Limits \subseteq Nat
  /\ MaxStarts \in Nat

VARIABLES
  limit,       \* billing_settings: free starts of each skill
  active,      \* an entitlement is in force
  starts,      \* attempts and sessions of the account, in order of creation,
               \* with the skills of their free_usage rows
  userLock,    \* who holds the row of the account FOR UPDATE
  mockLock,    \* who holds the advisory lock of its mock generation
  tx,          \* progress of each request
  highest      \* history: the highest limit each skill has had

vars == <<limit, active, starts, userLock, mockLock, tx, highest>>
locks == <<userLock, mockLock>>

\* A practice attempt of a material, a full mock, a claimed mock of a guest.
Kinds == Materials \cup {"mock", "claim"}

Idle == [kind |-> None, at |-> "idle", free |-> FALSE, restart |-> FALSE]

\* free: the start has found no paid access and is charged.
Start == [kind : Kinds, rows : SUBSET Skills, open : BOOLEAN, free : BOOLEAN]

TxState ==
  {Idle}
  \cup [kind : Kinds, at : {"beginning", "waiting", "holding", "consuming", "inserting"},
        free : BOOLEAN, restart : BOOLEAN]

TypeOK ==
  /\ limit \in [Skills -> Limits]
  /\ active \in BOOLEAN
  /\ starts \in Seq(Start)
  /\ userLock \in Txs \cup {None}
  /\ mockLock \in Txs \cup {None}
  /\ tx \in [Txs -> TxState]
  /\ highest \in [Skills -> Limits]

Init ==
  /\ limit \in [Skills -> Limits]
  /\ active \in BOOLEAN
  /\ starts = <<>>
  /\ userLock = None
  /\ mockLock = None
  /\ tx = [t \in Txs |-> Idle]
  /\ highest = limit

SkillsOf(k) == IF k \in Materials THEN {SkillOf[k]} ELSE Skills

\* The free_usage rows of a skill.
Used(s) == Cardinality({i \in DOMAIN starts : s \in starts[i].rows})

OpenOf(k) == {i \in DOMAIN starts : starts[i].kind = k /\ starts[i].open}

-------------------------------------------------------------------------------
(* Faulty variants, the slips the properties are there to notice.           *)

UserFreeAlways(t) == TRUE

MockFreeAlways(t) == TRUE

ResumesNothing(t) == FALSE

RowsOfFirst(t) ==
  IF tx[t].free THEN {CHOOSE s \in SkillsOf(tx[t].kind) : TRUE} ELSE {}

RowsOfFeature(t) == IF tx[t].free THEN {tx[t].kind} ELSE {}

-------------------------------------------------------------------------------
(* Transactions.                                                            *)

At(t, at) == tx[t].at = at
Goto(t, at) == tx' = [tx EXCEPT ![t].at = at]
Practice(t) == tx[t].kind \in Materials
Mock(t) == tx[t].kind = "mock"

Done(t) ==
  /\ tx' = [tx EXCEPT ![t] = Idle]
  /\ userLock' = IF userLock = t THEN None ELSE userLock
  /\ mockLock' = IF mockLock = t THEN None ELSE mockLock

\* A statement fails, the client is gone, the request times out.
Abort(t) ==
  /\ tx[t] # Idle
  /\ Done(t)
  /\ UNCHANGED <<limit, active, starts, highest>>

\* Bound: room for what the transactions under way may insert.
Room == Len(starts) + Cardinality({t \in Txs : tx[t] # Idle}) < MaxStarts

Begin(t, k, again) ==
  /\ tx[t] = Idle
  /\ Room
  /\ again => k = "mock"
  /\ tx' = [tx EXCEPT ![t] = [kind |-> k, at |-> "beginning", free |-> FALSE, restart |-> again]]
  /\ UNCHANGED <<limit, active, starts, locks, highest>>

\* Where a transaction goes that is ready to consume.
Consuming == IF Paywall THEN "waiting" ELSE "inserting"

\* Service.Start, FindInProgress: an attempt under way is returned as it is.
\* Nothing is locked yet.
FindInProgress(t) ==
  /\ At(t, "beginning")
  /\ Practice(t)
  /\ IF OpenOf(tx[t].kind) # {} THEN Done(t)
     ELSE Goto(t, Consuming) /\ UNCHANGED locks
  /\ UNCHANGED <<limit, active, starts, highest>>

\* generateSession: the advisory lock of the user's mocks; a mock under way is
\* returned as it is, unless the student asked to start over.
MockFree(t) == mockLock = None

LockMock(t) ==
  /\ At(t, "beginning")
  /\ Mock(t)
  /\ MockFree(t)
  /\ IF OpenOf("mock") # {} /\ ~tx[t].restart THEN Done(t)
     ELSE mockLock' = t /\ Goto(t, Consuming) /\ UNCHANGED userLock
  /\ UNCHANGED <<limit, active, starts, highest>>

BeginClaim(t) ==
  /\ At(t, "beginning")
  /\ tx[t].kind = "claim"
  /\ Goto(t, Consuming)
  /\ UNCHANGED <<limit, active, starts, locks, highest>>

UserFree(t) == userLock = None

LockUser(t) ==
  /\ At(t, "waiting")
  /\ UserFree(t)
  /\ userLock' = t
  /\ Goto(t, "holding")
  /\ UNCHANGED <<limit, active, starts, mockLock, highest>>

\* CreatePractice looks again, now that no other request can create one.
Resumes(t) == Practice(t) /\ OpenOf(tx[t].kind) # {}

RecheckPractice(t) ==
  /\ At(t, "holding")
  /\ IF Resumes(t) THEN Done(t) ELSE Goto(t, "consuming") /\ UNCHANGED locks
  /\ UNCHANGED <<limit, active, starts, highest>>

\* snapshot and quotaError: every skill must have a free start left.  A claim is
\* recorded whatever is left, and also for an account that pays.
Within(k) == \A s \in SkillsOf(k) : Used(s) < limit[s]

Charged(t) == ~Exempt /\ (tx[t].kind = "claim" \/ ~active)

ConsumeTx(t) ==
  /\ At(t, "consuming")
  /\ IF Charged(t) /\ tx[t].kind # "claim" /\ ~Within(tx[t].kind) THEN Done(t)
     ELSE /\ tx' = [tx EXCEPT ![t].at = "inserting", ![t].free = Charged(t)]
          /\ UNCHANGED locks
  /\ UNCHANGED <<limit, active, starts, highest>>

\* What commits: the rows of the usage with the attempt or session they are for.  A
\* restart abandons the mock under way in the same transaction.
UsageRows(t) == IF tx[t].free THEN SkillsOf(tx[t].kind) ELSE {}

Abandoned(t) ==
  [i \in DOMAIN starts |->
     IF Mock(t) /\ tx[t].restart /\ i \in OpenOf("mock") THEN [starts[i] EXCEPT !.open = FALSE]
     ELSE starts[i]]

\* full_mock_sessions_generated_active_user_idx refuses a second session under way.
Collides(t) == Mock(t) /\ ~tx[t].restart /\ OpenOf("mock") # {}

Insert(t) ==
  /\ At(t, "inserting")
  /\ ~Collides(t)
  /\ starts' = Append(Abandoned(t),
       [kind |-> tx[t].kind, rows |-> UsageRows(t), open |-> tx[t].kind # "claim", free |-> tx[t].free])
  /\ Done(t)
  /\ UNCHANGED <<limit, active, highest>>

-------------------------------------------------------------------------------
\* An attempt is graded, a mock finished.
Close(i) ==
  /\ starts[i].open
  /\ starts' = [starts EXCEPT ![i].open = FALSE]
  /\ UNCHANGED <<limit, active, locks, tx, highest>>

\* An entitlement begins, ends or is revoked.
ChangeAccess ==
  /\ active' = ~active
  /\ UNCHANGED <<limit, starts, locks, tx, highest>>

UpdateSettings(s, n) ==
  /\ limit' = [limit EXCEPT ![s] = n]
  /\ highest' = [highest EXCEPT ![s] = IF n > @ THEN n ELSE @]
  /\ UNCHANGED <<active, starts, locks, tx>>

Proceed(t) ==
  \/ FindInProgress(t) \/ LockMock(t) \/ BeginClaim(t) \/ LockUser(t)
  \/ RecheckPractice(t) \/ ConsumeTx(t) \/ Insert(t)

Next ==
  \/ \E t \in Txs, k \in Kinds, again \in BOOLEAN : Begin(t, k, again)
  \/ \E t \in Txs : Proceed(t) \/ Abort(t)
  \/ \E i \in DOMAIN starts : Close(i)
  \/ ChangeAccess
  \/ \E s \in Skills, n \in Limits : UpdateSettings(s, n)

Spec == Init /\ [][Next]_vars

-------------------------------------------------------------------------------
(* Properties.                                                              *)

\* Concurrent starts, of one material, of different ones or of mocks, never get more
\* free starts out of a skill than its limit has ever allowed.
QuotaKept ==
  \A s \in Skills :
    Cardinality({i \in DOMAIN starts :
      starts[i].free /\ starts[i].kind # "claim" /\ s \in SkillsOf(starts[i].kind)}) <= highest[s]

\* Every free start is on record with all its skills, a mock with all four, and
\* nothing else is: usage is only ever charged with the start it is for.
ChargedInFull ==
  \A i \in DOMAIN starts : starts[i].rows = IF starts[i].free THEN SkillsOf(starts[i].kind) ELSE {}

\* Both: what is counted against a quota is what was started, no more and no less.
QuotasHold == TypeOK /\ QuotaKept /\ ChargedInFull

\* "Start returns the existing IN_PROGRESS attempt for the material or creates a new
\* one" (attempts/service.go): a material is practised in one attempt at a time.
OnePractice == \A m \in Materials, i, j \in DOMAIN starts : {i, j} \subseteq OpenOf(m) => i = j

\* However many tabs start a mock or start over, none is turned away by the unique
\* index: each gets the one mock under way, or the account's next one.
NeverCollides == \A t \in Txs : At(t, "inserting") => ~Collides(t)

\* Both: the tabs of a student share one attempt of a material and one mock.
OneAtATime == OnePractice /\ NeverCollides
===============================================================================
