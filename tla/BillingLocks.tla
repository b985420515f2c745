------------------------------ MODULE BillingLocks ------------------------------
(***************************************************************************)
(* Row locks of billing: which rows its transactions lock, how strongly    *)
(* and in which order.                                                     *)
(*                                                                         *)
(*   internal/billing/repository.go      orders, grants, practice starts   *)
(*   internal/admin/users.go             the deletion of an account        *)
(*   migrations/000045_billing.up.sql    the foreign keys                  *)
(*                                                                         *)
(* BillingOrders says what the transactions on one account read and write; *)
(* here are the rows of several accounts, and nothing of them but their    *)
(* locks.  A foreign key locks the row it refers to, so that a grant locks *)
(* its actor's account too.  PostgreSQL aborts a transaction of a cycle of *)
(* waiting ones.  Each transaction runs once.  What a practice start locks *)
(* after the account is in FreeUsage and MockSessions.                     *)
(***************************************************************************)
EXTENDS Naturals, Sequences, FiniteSets

LOCAL INSTANCE SequencesExt

CONSTANTS
  Accounts,   \* rows of users
  Bills,      \* rows of billing_orders
  Grants,     \* rows of user_entitlements
  Deals,      \* transactions
  Of,         \* user_id of each order and entitlement
  By,         \* granted_by of each entitlement, or the order_id that paid for it
  Referees    \* the accounts that name the referral code of each account

ASSUME LockingAssumption ==
  /\ IsFiniteSet(Accounts \cup Bills \cup Grants) /\ IsFiniteSet(Deals)
  /\ Accounts \cap (Bills \cup Grants) = {} /\ Bills \cap Grants = {}
  /\ Of \in [Bills \cup Grants -> Accounts]
  /\ By \in [Grants -> Accounts \cup Bills]
  /\ \A g \in Grants : By[g] \in Bills => Of[g] = Of[By[g]]
  /\ Referees \in [Accounts -> SUBSET Accounts]

VARIABLES
  deal,    \* what each transaction does, the locks it is still to take and those it has
  erased   \* accounts that have been deleted

lockingVars == <<deal, erased>>

Lockable == Accounts \cup Bills \cup Grants

\* FOR KEY SHARE, FOR NO KEY UPDATE and FOR UPDATE.
Modes == {"share", "amend", "update"}

LockingTypeOK ==
  /\ DOMAIN deal = Deals
  /\ \A t \in Deals :
       /\ deal[t].stage \in {"new", "running", "ended"}
       /\ deal[t].todo \in Seq(Lockable \X Modes)
       /\ deal[t].held \subseteq Lockable \X Modes
  /\ erased \subseteq Accounts

\* Before it begins, or once it has ended.
Stage(stage, locks) == [op |-> "none", on |-> "none", stage |-> stage, todo |-> <<>>, held |-> locks]

LockingInit ==
  /\ deal = [t \in Deals |-> Stage("new", {})]
  /\ erased = {}

Running(t) == deal[t].stage = "running"

-------------------------------------------------------------------------------
(* Faulty variants, the slips the properties are there to notice.           *)

KeepsLocks(t) == deal[t].held

-------------------------------------------------------------------------------
(* The locks of each transaction, in the order of its statements.           *)

UserLock(u) == <<u, "update">>

\* The notification of a payment: the order, then its account; of a refund, what the
\* order had granted as well.
NotifyLocks(o) == <<<<o, "update">>, UserLock(Of[o])>>

RefundLocks(o) == {NotifyLocks(o) \o <<<<g, "amend">>>> : g \in {e \in Grants : By[e] = o}}

\* Checkout inserts the order, and sets its provider's id once that has answered.
CreateOrderLocks(u) == <<<<u, "share">>>>

SetProviderOrderLocks(o) == <<<<o, "update">>>>

\* The account, then, for granted_by of the row inserted, that of the administrator.
GrantLocks(u, actor) == <<UserLock(u), <<actor, "share">>>>

RevokeLocks(g) == <<UserLock(Of[g]), <<g, "amend">>>>

MeetingsLocks(g) == <<<<g, "amend">>>>

\* The start of a practice or of a mock, whose free use is counted under the account.
StartLocks(u) == <<UserLock(u)>>

\* The account, the rows that go with it in any order, and those who were referred by it.
DeleteLocks(u) ==
  {<<UserLock(u)>>
     \o [i \in DOMAIN s |-> <<s[i], "update">>]
     \o [i \in DOMAIN r |-> <<r[i], "amend">>] :
       s \in SetToSeqs({b \in Bills : Of[b] = u} \cup {g \in Grants : u \in {Of[g], By[g]}}),
       r \in SetToSeqs(Referees[u] \ {u})}

BeginDeal(t, kind, row, locks) ==
  /\ deal[t].stage = "new"
  /\ deal' = [deal EXCEPT ![t] = [op |-> kind, on |-> row, stage |-> "running", todo |-> locks, held |-> {}]]
  /\ UNCHANGED erased

Begins(t) ==
  \/ \E o \in Bills :
       \/ BeginDeal(t, "notify", o, NotifyLocks(o))
       \/ \E locks \in RefundLocks(o) : BeginDeal(t, "notify", o, locks)
       \/ BeginDeal(t, "record", o, SetProviderOrderLocks(o))
  \/ \E u \in Accounts :
       \/ BeginDeal(t, "checkout", u, CreateOrderLocks(u))
       \/ BeginDeal(t, "start", u, StartLocks(u))
       \/ \E actor \in Accounts : BeginDeal(t, "grant", u, GrantLocks(u, actor))
       \/ \E locks \in DeleteLocks(u) : BeginDeal(t, "delete", u, locks)
  \/ \E g \in Grants : BeginDeal(t, "revoke", g, RevokeLocks(g)) \/ BeginDeal(t, "meetings", g, MeetingsLocks(g))

-------------------------------------------------------------------------------
(* Waiting.                                                                 *)

\* A key share only waits for an update; an amendment for an amendment as well.
Conflict(m, n) == "update" \in {m, n} \/ (m = "amend" /\ n = "amend")

WaitsFor(t, s) ==
  /\ s # t /\ Running(t) /\ deal[t].todo # <<>>
  /\ \E h \in deal[s].held : h[1] = Head(deal[t].todo)[1] /\ Conflict(h[2], Head(deal[t].todo)[2])

\* Deleting an account deletes its orders and entitlements, and what it has granted.
Gone(row) ==
  \/ row \in erased
  \/ row \in Bills \cup Grants /\ Of[row] \in erased
  \/ row \in Grants /\ By[row] \in erased

\* What a transaction has locked once it has ended: nothing.
Released(t) == {}

EndDeal(t) == deal' = [deal EXCEPT ![t] = Stage("ended", Released(t))]

\* The lock is granted.  A row that is gone by then is none to a deletion, and an error
\* to the others, as is an account to its own deletion.
TakeLock(t) ==
  /\ Running(t) /\ deal[t].todo # <<>>
  /\ \A s \in Deals : ~WaitsFor(t, s)
  /\ LET next == Head(deal[t].todo)
     IN IF ~Gone(next[1])
        THEN deal' = [deal EXCEPT ![t].todo = Tail(@), ![t].held = @ \cup {next}]
        ELSE IF deal[t].op = "delete" /\ next[1] # deal[t].on
        THEN deal' = [deal EXCEPT ![t].todo = Tail(@)]
        ELSE EndDeal(t)
  /\ UNCHANGED erased

CommitDeal(t) ==
  /\ Running(t) /\ deal[t].todo = <<>>
  /\ EndDeal(t)
  /\ erased' = IF deal[t].op = "delete" THEN erased \cup {deal[t].on} ELSE erased

\* The request is cancelled, refused or fails.
AbortDeal(t) == Running(t) /\ EndDeal(t) /\ UNCHANGED erased

Stuck(C) == C # {} /\ \A t \in C : \E s \in C : WaitsFor(t, s)

\* A cycle: each of its transactions waits for another of them, and no fewer do.
Deadlock(C) == Stuck(C) /\ \A t \in C : ~Stuck(C \ {t})

\* After a second of waiting PostgreSQL looks for a cycle and aborts the one who looks.
Detected(t) == (\E C \in SUBSET Deals : t \in C /\ Deadlock(C)) /\ AbortDeal(t)

LockingNext ==
  \/ \E t \in Deals : Begins(t) \/ TakeLock(t) \/ CommitDeal(t) \/ AbortDeal(t)
  \/ (\A t \in Deals : deal[t].stage = "ended") /\ UNCHANGED lockingVars

\* A lock that is free is given to one who waits for it, statements return, and a cycle is
\* noticed.
LockingFairness ==
  \A t \in Deals : WF_lockingVars(TakeLock(t) \/ CommitDeal(t)) /\ WF_lockingVars(Detected(t))

LockingSpec == LockingInit /\ [][LockingNext]_lockingVars /\ LockingFairness

-------------------------------------------------------------------------------
(* Properties.                                                              *)

\* Notifications lock the order before the account, everything else the account first,
\* and that makes no cycle: of transactions that wait for one another one deletes an
\* account, or all are grants, that have their account and wait for the one of their actor.
DeadlocksKnown ==
  \A C \in SUBSET Deals :
    Deadlock(C) => \/ \E t \in C : deal[t].op = "delete"
                   \/ \A t \in C : deal[t].op = "grant" /\ deal[t].held # {}

\* No transaction of billing waits for ever, those that PostgreSQL must abort for it
\* included, and none leaves a lock behind for others to wait for.
TransactionsEnd ==
  /\ []DeadlocksKnown
  /\ (\E t \in Deals : Running(t)) ~> (\A t \in Deals : ~Running(t))
===============================================================================
