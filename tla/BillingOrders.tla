------------------------------ MODULE BillingOrders ------------------------------
(***************************************************************************)
(* Orders and entitlements of one account.                                 *)
(*                                                                         *)
(*   internal/billing/service.go      checkout, callbacks, grants          *)
(*   internal/billing/repository.go   the transactions                     *)
(*                                                                         *)
(* Transactions run READ COMMITTED: each statement sees what is committed  *)
(* when it starts, and only the row locks of the order and of the account  *)
(* keep what was read true until the commit.  So a transaction is several  *)
(* actions here: taking a lock, reading under it, committing.  What it has *)
(* written shows at its commit.  The orders and entitlements of an account *)
(* are its own, so one account will do: what the locks of several make of  *)
(* each other's waiting is BillingLocks, where a grant also locks the row  *)
(* of its actor.  Here a wait on other rows is no step, and a transaction  *)
(* that PostgreSQL aborts for a deadlock is one that fails (Abort).        *)
(* Deletions are left out: that of the account takes all its rows along,   *)
(* and that of an administrator what he has granted (granted_by ... ON     *)
(* DELETE CASCADE).  Prices, meetings and notes are left out too, and a    *)
(* notification whose provider, amount or currency differs from the order  *)
(* changes nothing.  Time is counted in days.                              *)
(***************************************************************************)
EXTENDS Integers, Sequences, FiniteSets

CONSTANTS
  Orders,      \* orders the account may place
  Refs,        \* the order ids a payment provider hands out
  Txs,         \* requests in flight
  None,        \* no lock, no provider order id, no order
  AccessDays,  \* access_days of the plan
  GrantDays,   \* days an administrator may grant
  MaxRows,     \* bound on entitlements
  MaxNow       \* bound on the clock

ASSUME BillingAssumption ==
  /\ IsFiniteSet(Orders)
  /\ None \notin Orders \cup Refs \cup Txs
  /\ AccessDays \in Nat \ {0}
  /\ GrantDays \subseteq Nat \ {0}
  /\ MaxRows \in Nat
  /\ MaxNow \in Nat

VARIABLES
  order,         \* billing_orders: status ("NONE" before checkout), provider_order_id
  entitlements,  \* user_entitlements, in order of insertion
  now,
  userLock,      \* who holds the row of the account FOR UPDATE
  orderLock,     \* who holds the row of an order FOR UPDATE
  tx             \* progress of each request

vars == <<order, entitlements, now, userLock, orderLock, tx>>
locks == <<userLock, orderLock>>

Statuses == {"PENDING", "PAID", "FAILED", "CANCELLED", "REFUNDED"}

Idle == [op |-> "none", at |-> "idle"]

Row == [start : Nat, end : Nat, revoked : BOOLEAN, order : Orders \cup {None}]

Checkout == [op : {"checkout"}, at : {"paying", "recording"}, order : Orders, ref : Refs \cup {None}]
Notify == [op : {"notify"}, at : {"waiting", "holding", "inserting"},
           order : Orders, status : Statuses, ref : Refs, start : Nat]
Granting == [op : {"grant"}, at : {"waiting", "holding", "inserting"}, days : GrantDays, start : Nat]
Revoking == [op : {"revoke"}, at : {"waiting", "holding"}, row : Nat]

TxState == {Idle} \cup Checkout \cup Notify \cup Granting \cup Revoking

TypeOK ==
  /\ order \in [Orders -> [status : Statuses \cup {"NONE"}, ref : Refs \cup {None}]]
  /\ entitlements \in Seq(Row)
  /\ now \in 0..MaxNow
  /\ userLock \in Txs \cup {None}
  /\ orderLock \in [Orders -> Txs \cup {None}]
  /\ tx \in [Txs -> TxState]
  /\ \A i \in DOMAIN entitlements : entitlements[i].start < entitlements[i].end

Init ==
  /\ order = [o \in Orders |-> [status |-> "NONE", ref |-> None]]
  /\ entitlements = <<>>
  /\ now = 0
  /\ userLock = None
  /\ orderLock = [o \in Orders |-> None]
  /\ tx = [t \in Txs |-> Idle]

Rows == DOMAIN entitlements
Live(i) == ~entitlements[i].revoked
Holds(t) == userLock = t

-------------------------------------------------------------------------------
(* Faulty variants, the slips the properties are there to notice.           *)

UserFreeAlways(t) == TRUE

MayFollowReplayed(from, to) ==
  \/ from \in {"PENDING", "REFUNDED"} /\ to \in {"PAID", "FAILED", "CANCELLED"}
  \/ from = "PAID" /\ to = "REFUNDED"

MaySetRefAlways(o, r) == TRUE

InsertedWithoutDays(t, days, o) ==
  Append(entitlements,
         [start |-> tx[t].start, end |-> tx[t].start, revoked |-> FALSE, order |-> o])

RevokedToggled(i) == [entitlements EXCEPT ![i].revoked = ~@]

-------------------------------------------------------------------------------
(* Transactions.                                                            *)

At(t, op, at) == tx[t].op = op /\ tx[t].at = at
Goto(t, at) == tx' = [tx EXCEPT ![t].at = at]

\* Commit or rollback: every path ends in one, which frees the locks.
Unlocked(t) ==
  /\ userLock' = IF Holds(t) THEN None ELSE userLock
  /\ orderLock' = [o \in Orders |-> IF orderLock[o] = t THEN None ELSE orderLock[o]]

Done(t) == tx' = [tx EXCEPT ![t] = Idle] /\ Unlocked(t)

\* lockUser: SELECT ... FROM users ... FOR UPDATE.
UserFree(t) == userLock = None

LockUser(t) ==
  /\ tx[t].at = "waiting"
  /\ UserFree(t)
  /\ userLock' = t
  /\ Goto(t, "holding")
  /\ UNCHANGED <<order, entitlements, now, orderLock>>

\* A statement fails, the client is gone, the request times out, a deadlock is broken.
Abort(t) ==
  /\ tx[t] # Idle
  /\ Done(t)
  /\ UNCHANGED <<order, entitlements, now>>

\* Bound: room for what the transactions under way may insert.
Room == Len(entitlements) + Cardinality({t \in Txs : tx[t].op \in {"notify", "grant"}}) < MaxRows

-------------------------------------------------------------------------------
(* Checkout: the order is committed before the provider is called.          *)

CreateOrder(t, o) ==
  /\ tx[t] = Idle
  /\ order[o].status = "NONE"
  /\ order' = [order EXCEPT ![o].status = "PENDING"]
  /\ tx' = [tx EXCEPT ![t] = [op |-> "checkout", at |-> "paying", order |-> o, ref |-> None]]
  /\ UNCHANGED <<entitlements, now, locks>>

\* The provider creates the payment, and may notify of it before it answers.
CreatePayment(t, r) ==
  /\ At(t, "checkout", "paying")
  /\ tx' = [tx EXCEPT ![t].at = "recording", ![t].ref = r]
  /\ UNCHANGED <<order, entitlements, now, locks>>

\* UNIQUE (provider, provider_order_id).
Taken(o, r) == \E p \in Orders \ {o} : order[p].ref = r

MaySetRef(o, r) == order[o].ref \in {None, r}

SetProviderOrder(t) ==
  LET o == tx[t].order
      r == tx[t].ref
  IN /\ At(t, "checkout", "recording")
     /\ orderLock[o] = None
     /\ order' = IF MaySetRef(o, r) /\ ~Taken(o, r) THEN [order EXCEPT ![o].ref = r] ELSE order
     /\ Done(t)
     /\ UNCHANGED <<entitlements, now>>

-------------------------------------------------------------------------------
(* Notify: what the provider reports, in any order and any number of times. *)

LockOrder(t, o, s, r) ==
  /\ tx[t] = Idle
  /\ Room
  /\ order[o].status # "NONE"
  /\ orderLock[o] = None
  /\ MaySetRef(o, r)
  /\ orderLock' = [orderLock EXCEPT ![o] = t]
  /\ tx' = [tx EXCEPT ![t] = [op |-> "notify", at |-> "waiting", order |-> o,
                              status |-> s, ref |-> r, start |-> 0]]
  /\ UNCHANGED <<order, entitlements, now, userLock>>

MayFollow(from, to) ==
  \/ from = "PENDING" /\ to \in {"PAID", "FAILED", "CANCELLED"}
  \/ from = "PAID" /\ to = "REFUNDED"

Notified(t) ==
  [order EXCEPT ![tx[t].order] = [status |-> tx[t].status, ref |-> tx[t].ref]]

\* A repeated notification is accepted, an impossible one or one that takes the id
\* of another order is refused; none of them changes anything.
NotifyNothing(t) ==
  /\ tx[t].op = "notify" /\ tx[t].at \in {"holding", "inserting"}
  /\ \/ ~MayFollow(order[tx[t].order].status, tx[t].status)
     \/ Taken(tx[t].order, tx[t].ref)
  /\ Done(t)
  /\ UNCHANGED <<order, entitlements, now>>

RevokedBy(o) ==
  [i \in Rows |-> IF entitlements[i].order = o THEN [entitlements[i] EXCEPT !.revoked = TRUE]
                  ELSE entitlements[i]]

\* FAILED, CANCELLED, and REFUNDED, which revokes what the order had granted.
NotifyClosed(t) ==
  LET o == tx[t].order
  IN /\ At(t, "notify", "holding")
     /\ tx[t].status # "PAID"
     /\ MayFollow(order[o].status, tx[t].status)
     /\ ~Taken(o, tx[t].ref)
     /\ order' = Notified(t)
     /\ entitlements' = IF tx[t].status = "REFUNDED" THEN RevokedBy(o) ELSE entitlements
     /\ Done(t)
     /\ UNCHANGED now

-------------------------------------------------------------------------------
(* Entitlements: of a paid order, or granted by an administrator.           *)

Grant(t, d) ==
  /\ tx[t] = Idle
  /\ Room
  /\ tx' = [tx EXCEPT ![t] = [op |-> "grant", at |-> "waiting", days |-> d, start |-> 0]]
  /\ UNCHANGED <<order, entitlements, now, locks>>

\* entitlementWindow: from the end of the last live entitlement, or from now.
Ends == {entitlements[i].end : i \in {j \in Rows : Live(j)}}

StartsWindow(m) == m >= now /\ \A e \in Ends : m >= e

ReadWindow(t) ==
  /\ \/ At(t, "grant", "holding")
     \/ /\ At(t, "notify", "holding")
        /\ tx[t].status = "PAID"
        /\ MayFollow(order[tx[t].order].status, "PAID")
  /\ \E m \in Ends \cup {now} :
       StartsWindow(m) /\ tx' = [tx EXCEPT ![t].at = "inserting", ![t].start = m]
  /\ UNCHANGED <<order, entitlements, now, locks>>

Inserted(t, days, o) ==
  Append(entitlements,
         [start |-> tx[t].start, end |-> tx[t].start + days, revoked |-> FALSE, order |-> o])

InsertGranted(t) ==
  /\ At(t, "grant", "inserting")
  /\ entitlements' = Inserted(t, tx[t].days, None)
  /\ Done(t)
  /\ UNCHANGED <<order, now>>

\* The order becomes PAID and gets its entitlement in one transaction.
InsertPaid(t) ==
  /\ At(t, "notify", "inserting")
  /\ ~Taken(tx[t].order, tx[t].ref)
  /\ order' = Notified(t)
  /\ entitlements' = Inserted(t, AccessDays, tx[t].order)
  /\ Done(t)
  /\ UNCHANGED now

Revoke(t, i) ==
  /\ tx[t] = Idle
  /\ i \in Rows
  /\ tx' = [tx EXCEPT ![t] = [op |-> "revoke", at |-> "waiting", row |-> i]]
  /\ UNCHANGED <<order, entitlements, now, locks>>

RevokedRow(i) == [entitlements EXCEPT ![i].revoked = TRUE]

CommitRevoke(t) ==
  /\ At(t, "revoke", "holding")
  /\ entitlements' = RevokedRow(tx[t].row)
  /\ Done(t)
  /\ UNCHANGED <<order, now>>

-------------------------------------------------------------------------------
Tick ==
  /\ now < MaxNow
  /\ now' = now + 1
  /\ UNCHANGED <<order, entitlements, locks, tx>>

\* The next step of a transaction that has begun.
Proceed(t) ==
  \/ LockUser(t) \/ (\E r \in Refs : CreatePayment(t, r)) \/ SetProviderOrder(t)
  \/ NotifyNothing(t) \/ NotifyClosed(t)
  \/ ReadWindow(t) \/ InsertGranted(t) \/ InsertPaid(t) \/ CommitRevoke(t)

Begin(t) ==
  \/ \E o \in Orders : CreateOrder(t, o)
  \/ \E o \in Orders, s \in Statuses, r \in Refs : LockOrder(t, o, s, r)
  \/ \E d \in GrantDays : Grant(t, d)
  \/ \E i \in Rows : Revoke(t, i)

Next == (\E t \in Txs : Begin(t) \/ Proceed(t) \/ Abort(t)) \/ Tick

Spec == Init /\ [][Next]_vars

-------------------------------------------------------------------------------
(* Properties.                                                              *)

\* Paid time is never used up twice: concurrent payments, grants, refunds and
\* revocations leave a queue, in which each live entitlement starts when the live
\* ones granted before it have ended.
Queued ==
  \A i, j \in Rows : i < j /\ Live(i) /\ Live(j) => entitlements[i].end <= entitlements[j].start

\* An order that was paid has granted exactly one entitlement, however often and in
\* whatever order the provider notified; one that was not has granted none; a refund
\* leaves nothing of it.
PaidOnce ==
  \A o \in Orders :
    LET granted == {i \in Rows : entitlements[i].order = o}
    IN /\ order[o].status \in {"PAID", "REFUNDED"} <=> granted # {}
       /\ \A i, j \in granted : i = j
       /\ order[o].status = "REFUNDED" => \A i \in granted : ~Live(i)

\* "A refunded order cannot be replayed into PAID" (docs/BILLING.md): an order ends
\* FAILED, CANCELLED or REFUNDED for good, and keeps the id its provider gave it.
OrderForward ==
  [][\A o \in Orders :
       /\ order[o].status \in {"FAILED", "CANCELLED", "REFUNDED"} => order'[o].status = order[o].status
       /\ order[o].status = "PAID" => order'[o].status \in {"PAID", "REFUNDED"}
       /\ order[o].ref # None => order'[o].ref = order[o].ref]_vars

\* What was granted stays on record with its dates, and a revocation is not undone, as
\* long as neither the account nor who granted it is deleted.
EntitlementsKept ==
  [][\A i \in Rows :
       /\ i \in DOMAIN entitlements'
       /\ entitlements'[i] \in {entitlements[i], [entitlements[i] EXCEPT !.revoked = TRUE]}]_vars

\* Both: no step of a notification, a grant or a revocation rewrites what was settled.
OrdersKept == []TypeOK /\ OrderForward /\ EntitlementsKept
===============================================================================
