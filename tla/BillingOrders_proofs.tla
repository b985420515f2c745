-------------------------- MODULE BillingOrders_proofs --------------------------
(***************************************************************************)
(* Proofs about BillingOrders, for any number of orders, of concurrent     *)
(* requests and of days, and about ProviderChain, for any bank of any      *)
(* number of providers and priorities.                                     *)
(***************************************************************************)
EXTENDS BillingOrders, ProviderChain, FiniteSetTheorems, WellFoundedInduction, TLAPS

-------------------------------------------------------------------------------
(* The inductive invariant.                                                 *)

\* A notification has its order locked, and a transaction past lockUser the account.
LocksHeld ==
  \A t \in Txs :
    /\ tx[t].op = "notify" => orderLock[tx[t].order] = t
    /\ tx[t].at \in {"holding", "inserting"} => userLock = t

\* A window that was read is still the next free one when it is inserted.
WindowFresh ==
  \A t \in Txs : tx[t].at = "inserting" => \A e \in Ends : tx[t].start >= e

\* An order about to be paid was not paid in the meantime.
StillPending ==
  \A t \in Txs : At(t, "notify", "inserting") =>
    tx[t].status = "PAID" /\ order[tx[t].order].status = "PENDING"

\* The id a notification brings is the one of its order, until it commits.
RefAgrees ==
  \A t \in Txs : tx[t].op = "notify" => MaySetRef(tx[t].order, tx[t].ref)

IInv == TypeOK /\ LocksHeld /\ WindowFresh /\ StillPending /\ RefAgrees /\ Queued /\ PaidOnce

-------------------------------------------------------------------------------
(* Types.                                                                   *)

\* The initial state is well typed.
LEMMA TypeInit == Init => TypeOK
BY BillingAssumption DEF Init, TypeOK, TxState, Row

\* What a transaction is at each of its stages.
LEMMA Shapes ==
  ASSUME TypeOK, NEW t \in Txs
  PROVE  /\ tx[t].op = "checkout" => tx[t] \in Checkout
         /\ tx[t].op = "notify" => tx[t] \in Notify
         /\ tx[t].op = "grant" => tx[t] \in Granting
         /\ tx[t].op = "revoke" => tx[t] \in Revoking
         /\ tx[t].at = "waiting" => tx[t].op \in {"notify", "grant", "revoke"}
         /\ tx[t].at = "inserting" => tx[t].op \in {"notify", "grant"}
<1>1. tx[t] \in TxState
  BY DEF TypeOK
<1> QED BY <1>1 DEF TxState, Idle, Checkout, Notify, Granting, Revoking

\* Every end is a time, of a row that is on record.
LEMMA EndsAreTimes == TypeOK => Ends \cup {now} \subseteq Nat
<1> SUFFICES ASSUME TypeOK, NEW e \in Ends \cup {now}
             PROVE  e \in Nat
  OBVIOUS
<1>1. CASE e = now
  BY <1>1, BillingAssumption DEF TypeOK
<1>2. CASE e \in Ends
  <2>1. PICK i \in Rows : e = entitlements[i].end
    BY <1>2 DEF Ends
  <2>2. entitlements[i] \in Row
    BY <2>1 DEF TypeOK, Rows
  <2> QED BY <2>1, <2>2 DEF Row
<1> QED BY <1>1, <1>2

\* Every step leaves each request at a stage of its operation.
LEMMA TxStep ==
  ASSUME TypeOK, [Next]_vars
  PROVE  tx' \in [Txs -> TxState]
<1>1. tx \in [Txs -> TxState]
  BY DEF TypeOK
<1>2. ASSUME NEW t \in Txs, Done(t) PROVE tx' \in [Txs -> TxState]
  BY <1>1, <1>2 DEF Done, TxState
<1>3. ASSUME NEW t \in Txs, Begin(t) PROVE tx' \in [Txs -> TxState]
  <2>1. ASSUME NEW o \in Orders, CreateOrder(t, o) PROVE tx' \in [Txs -> TxState]
    BY <1>1, <2>1 DEF CreateOrder, TxState, Checkout
  <2>2. ASSUME NEW o \in Orders, NEW s \in Statuses, NEW r \in Refs, LockOrder(t, o, s, r)
        PROVE  tx' \in [Txs -> TxState]
    BY <1>1, <2>2 DEF LockOrder, TxState, Notify
  <2>3. ASSUME NEW d \in GrantDays, Grant(t, d) PROVE tx' \in [Txs -> TxState]
    BY <1>1, <2>3 DEF Grant, TxState, Granting
  <2>4. ASSUME NEW i \in Rows, Revoke(t, i) PROVE tx' \in [Txs -> TxState]
    <3>1. i \in Nat
      BY <2>4 DEF TypeOK, Rows
    <3> QED BY <1>1, <2>4, <3>1 DEF Revoke, TxState, Revoking
  <2> QED BY <1>3, <2>1, <2>2, <2>3, <2>4 DEF Begin
<1>4. ASSUME NEW t \in Txs, LockUser(t) PROVE tx' \in [Txs -> TxState]
  <2>1. [tx[t] EXCEPT !.at = "holding"] \in TxState
    BY <1>4, Shapes DEF LockUser, TxState, Notify, Granting, Revoking
  <2> QED BY <1>1, <1>4, <2>1 DEF LockUser, Goto
<1>5. ASSUME NEW t \in Txs, NEW r \in Refs, CreatePayment(t, r) PROVE tx' \in [Txs -> TxState]
  <2>1. [tx[t] EXCEPT !.at = "recording", !.ref = r] \in TxState
    BY <1>5, Shapes DEF CreatePayment, At, TxState, Checkout
  <2> QED BY <1>1, <1>5, <2>1 DEF CreatePayment
<1>6. ASSUME NEW t \in Txs, ReadWindow(t) PROVE tx' \in [Txs -> TxState]
  <2>1. PICK m \in Ends \cup {now} : tx' = [tx EXCEPT ![t].at = "inserting", ![t].start = m]
    BY <1>6 DEF ReadWindow
  <2>2. m \in Nat
    BY EndsAreTimes
  <2>3. [tx[t] EXCEPT !.at = "inserting", !.start = m] \in TxState
    BY <1>6, <2>2, Shapes DEF ReadWindow, At, TxState, Notify, Granting
  <2> QED BY <1>1, <2>1, <2>3
<1>7. ASSUME NEW t \in Txs,
             SetProviderOrder(t) \/ NotifyNothing(t) \/ NotifyClosed(t) \/ InsertGranted(t)
               \/ InsertPaid(t) \/ CommitRevoke(t) \/ Abort(t)
      PROVE  tx' \in [Txs -> TxState]
  BY <1>2, <1>7 DEF SetProviderOrder, NotifyNothing, NotifyClosed, InsertGranted, InsertPaid,
     CommitRevoke, Abort
<1>8. CASE Tick \/ UNCHANGED vars
  BY <1>1, <1>8 DEF Tick, vars
<1> QED BY <1>3, <1>4, <1>5, <1>6, <1>7, <1>8 DEF Next, Proceed

-------------------------------------------------------------------------------
(* What a step does to the entitlements.                                    *)

\* In f the rows of e in I are revoked.
Struck(e, f, I) ==
  f = [i \in DOMAIN e |-> IF i \in I THEN [e[i] EXCEPT !.revoked = TRUE] ELSE e[i]]

\* Appending a row keeps the others.
LEMMA AppendRow ==
  ASSUME NEW e \in Seq(Row), NEW r \in Row, NEW f, f = Append(e, r)
  PROVE  /\ f \in Seq(Row)
         /\ Len(e) + 1 \notin DOMAIN e
         /\ DOMAIN f = DOMAIN e \cup {Len(e) + 1}
         /\ \A i \in DOMAIN e : i \in Nat /\ i < Len(e) + 1 /\ e[i] \in Row /\ f[i] = e[i]
         /\ f[Len(e) + 1] = r
OBVIOUS

\* Revoking rows keeps the other fields of each.
LEMMA StrikeRows ==
  ASSUME NEW e \in Seq(Row), NEW I, NEW f, Struck(e, f, I)
  PROVE  /\ f \in Seq(Row)
         /\ DOMAIN f = DOMAIN e
         /\ \A i \in DOMAIN e : /\ f[i].start = e[i].start
                                /\ f[i].end = e[i].end
                                /\ f[i].order = e[i].order
                                /\ f[i].revoked <=> (e[i].revoked \/ i \in I)
                                /\ f[i] \in {e[i], [e[i] EXCEPT !.revoked = TRUE]}
<1>1. ASSUME NEW i \in DOMAIN e PROVE e[i] \in Row /\ [e[i] EXCEPT !.revoked = TRUE] \in Row
  <2>1. e[i] \in Row
    OBVIOUS
  <2> QED BY <2>1 DEF Row
<1>2. DOMAIN e = 1..Len(e) /\ Len(e) \in Nat
  OBVIOUS
<1>3. f \in [1..Len(e) -> Row]
  BY <1>1, <1>2 DEF Struck
<1>4. f \in Seq(Row) /\ DOMAIN f = DOMAIN e
  BY <1>2, <1>3
<1>5. \A i \in DOMAIN e : f[i] = IF i \in I THEN [e[i] EXCEPT !.revoked = TRUE] ELSE e[i]
  BY DEF Struck
<1>6. ASSUME NEW i \in DOMAIN e
      PROVE  /\ f[i].start = e[i].start
             /\ f[i].end = e[i].end
             /\ f[i].order = e[i].order
             /\ f[i].revoked <=> (e[i].revoked \/ i \in I)
             /\ f[i] \in {e[i], [e[i] EXCEPT !.revoked = TRUE]}
  <2>1. CASE i \in I
    BY <1>1, <1>5, <2>1 DEF Row
  <2>2. CASE i \notin I
    BY <1>5, <2>2
  <2> QED BY <2>1, <2>2
<1> QED BY <1>4, <1>6

\* A refund revokes the rows of its order.
LEMMA RefundStrikes ==
  ASSUME NEW o, entitlements' = RevokedBy(o)
  PROVE  Struck(entitlements, entitlements', {i \in Rows : entitlements[i].order = o})
BY DEF RevokedBy, Struck, Rows

\* CommitRevoke revokes one row.
LEMMA RevokeStrikes ==
  ASSUME NEW k, entitlements \in Seq(Row), entitlements' = RevokedRow(k)
  PROVE  Struck(entitlements, entitlements', {k})
BY DEF RevokedRow, Struck

\* The row a transaction inserts.
LEMMA NewRow ==
  ASSUME TypeOK, NEW t \in Txs, At(t, "grant", "inserting") \/ At(t, "notify", "inserting"),
         NEW days \in Nat \ {0}, NEW o \in Orders \cup {None}
  PROVE  LET r == [start |-> tx[t].start, end |-> tx[t].start + days, revoked |-> FALSE, order |-> o]
         IN r \in Row /\ r.start < r.end
<1>1. tx[t].start \in Nat
  BY Shapes DEF At, Notify, Granting
<1> QED BY <1>1 DEF Row

\* A step keeps the rows, adds one at the end, or revokes some.
LEMMA EntitlementsStep ==
  ASSUME TypeOK, [Next]_vars
  PROVE  \/ entitlements' = entitlements
         \/ \E r \in Row : r.start < r.end /\ entitlements' = Append(entitlements, r)
         \/ \E I \in SUBSET Int : Struck(entitlements, entitlements', I)
<1>1. ASSUME NEW t \in Txs, InsertGranted(t)
      PROVE  \E r \in Row : r.start < r.end /\ entitlements' = Append(entitlements, r)
  <2>1. tx[t].days \in Nat \ {0}
    BY <1>1, Shapes, BillingAssumption DEF InsertGranted, At, Granting
  <2> QED BY <1>1, <2>1, NewRow DEF InsertGranted, Inserted
<1>2. ASSUME NEW t \in Txs, InsertPaid(t)
      PROVE  \E r \in Row : r.start < r.end /\ entitlements' = Append(entitlements, r)
  <2>1. tx[t].order \in Orders
    BY <1>2, Shapes DEF InsertPaid, At, Notify
  <2> QED BY <1>2, <2>1, NewRow, BillingAssumption DEF InsertPaid, Inserted
<1>3. ASSUME NEW t \in Txs, NotifyClosed(t)
      PROVE  entitlements' = entitlements \/ \E I \in SUBSET Int : Struck(entitlements, entitlements', I)
  <2>1. CASE entitlements' = RevokedBy(tx[t].order)
    <3>1. Struck(entitlements, entitlements', {i \in Rows : entitlements[i].order = tx[t].order})
      BY <2>1, RefundStrikes
    <3>2. Rows \subseteq Int
      BY DEF Rows, TypeOK
    <3> QED BY <3>1, <3>2
  <2> QED BY <1>3, <2>1 DEF NotifyClosed
<1>4. ASSUME NEW t \in Txs, CommitRevoke(t) PROVE \E I \in SUBSET Int : Struck(entitlements, entitlements', I)
  <2>1. tx[t].row \in Nat
    BY <1>4, Shapes DEF CommitRevoke, At, Revoking
  <2>2. Struck(entitlements, entitlements', {tx[t].row})
    BY <1>4, RevokeStrikes DEF CommitRevoke, TypeOK
  <2> QED BY <2>1, <2>2
<1>5. ASSUME NEW t \in Txs, Begin(t) PROVE entitlements' = entitlements
  BY <1>5 DEF Begin, CreateOrder, LockOrder, Grant, Revoke
<1>6. ASSUME NEW t \in Txs,
             LockUser(t) \/ (\E r \in Refs : CreatePayment(t, r)) \/ SetProviderOrder(t)
               \/ NotifyNothing(t) \/ ReadWindow(t) \/ Abort(t)
      PROVE  entitlements' = entitlements
  BY <1>6 DEF LockUser, CreatePayment, SetProviderOrder, NotifyNothing, ReadWindow, Abort
<1>7. CASE Tick \/ UNCHANGED vars
  BY <1>7 DEF Tick, vars
<1> QED BY <1>1, <1>2, <1>3, <1>4, <1>5, <1>6, <1>7 DEF Next, Proceed

-------------------------------------------------------------------------------
(* What a step does to the orders and the locks.                            *)

\* An order changes when it is placed, when it learns its provider's id, and at the
\* commit of a notification.
LEMMA OrderStep ==
  ASSUME TypeOK, [Next]_vars
  PROVE  \/ order' = order
         \/ \E t \in Txs, o \in Orders : CreateOrder(t, o)
         \/ \E t \in Txs : /\ SetProviderOrder(t)
                           /\ MaySetRef(tx[t].order, tx[t].ref)
                           /\ order' = [order EXCEPT ![tx[t].order].ref = tx[t].ref]
         \/ \E t \in Txs : NotifyClosed(t) \/ InsertPaid(t)
<1>1. ASSUME NEW t \in Txs, SetProviderOrder(t)
      PROVE  \/ order' = order
             \/ /\ MaySetRef(tx[t].order, tx[t].ref)
                /\ order' = [order EXCEPT ![tx[t].order].ref = tx[t].ref]
  BY <1>1 DEF SetProviderOrder
<1>2. ASSUME NEW t \in Txs, Begin(t) PROVE order' = order \/ \E o \in Orders : CreateOrder(t, o)
  BY <1>2 DEF Begin, LockOrder, Grant, Revoke
<1>3. ASSUME NEW t \in Txs,
             LockUser(t) \/ (\E r \in Refs : CreatePayment(t, r)) \/ NotifyNothing(t)
               \/ ReadWindow(t) \/ InsertGranted(t) \/ CommitRevoke(t) \/ Abort(t)
      PROVE  order' = order
  BY <1>3 DEF LockUser, CreatePayment, NotifyNothing, ReadWindow, InsertGranted, CommitRevoke, Abort
<1>4. CASE Tick \/ UNCHANGED vars
  BY <1>4 DEF Tick, vars
<1> QED BY <1>1, <1>2, <1>3, <1>4 DEF Next, Proceed

\* Every step keeps the types.
LEMMA TypeStep == TypeOK /\ [Next]_vars => TypeOK'
<1> SUFFICES ASSUME TypeOK, [Next]_vars PROVE TypeOK'
  OBVIOUS
<1>1. order' \in [Orders -> [status : Statuses \cup {"NONE"}, ref : Refs \cup {None}]]
  <2>0. order \in [Orders -> [status : Statuses \cup {"NONE"}, ref : Refs \cup {None}]]
    BY DEF TypeOK
  <2>1. ASSUME NEW t \in Txs, NEW o \in Orders, CreateOrder(t, o)
        PROVE  order' \in [Orders -> [status : Statuses \cup {"NONE"}, ref : Refs \cup {None}]]
    <3>1. [order[o] EXCEPT !.status = "PENDING"] \in [status : Statuses \cup {"NONE"}, ref : Refs \cup {None}]
      BY <2>0 DEF Statuses
    <3> QED BY <2>0, <2>1, <3>1 DEF CreateOrder
  <2>2. ASSUME NEW t \in Txs, SetProviderOrder(t), order' = [order EXCEPT ![tx[t].order].ref = tx[t].ref]
        PROVE  order' \in [Orders -> [status : Statuses \cup {"NONE"}, ref : Refs \cup {None}]]
    <3>1. tx[t].order \in Orders /\ tx[t].ref \in Refs \cup {None}
      BY <2>2, Shapes DEF SetProviderOrder, At, Checkout
    <3>2. [order[tx[t].order] EXCEPT !.ref = tx[t].ref] \in [status : Statuses \cup {"NONE"}, ref : Refs \cup {None}]
      BY <2>0, <3>1
    <3> QED BY <2>0, <2>2, <3>2
  <2>3. ASSUME NEW t \in Txs, NotifyClosed(t) \/ InsertPaid(t)
        PROVE  order' \in [Orders -> [status : Statuses \cup {"NONE"}, ref : Refs \cup {None}]]
    <3>1. tx[t] \in Notify
      BY <2>3, Shapes DEF NotifyClosed, InsertPaid, At
    <3>2. order' = Notified(t)
      BY <2>3 DEF NotifyClosed, InsertPaid
    <3> QED BY <2>0, <3>1, <3>2 DEF Notified, Notify
  <2> QED BY <2>0, <2>1, <2>2, <2>3, OrderStep
<1>2. /\ entitlements' \in Seq(Row)
      /\ \A i \in DOMAIN entitlements' : entitlements'[i].start < entitlements'[i].end
  <2>1. CASE entitlements' = entitlements
    BY <2>1 DEF TypeOK
  <2>2. ASSUME NEW r \in Row, r.start < r.end, entitlements' = Append(entitlements, r)
        PROVE  /\ entitlements' \in Seq(Row)
               /\ \A i \in DOMAIN entitlements' : entitlements'[i].start < entitlements'[i].end
    BY <2>2, AppendRow DEF TypeOK, Rows
  <2>3. ASSUME NEW I \in SUBSET Int, Struck(entitlements, entitlements', I)
        PROVE  /\ entitlements' \in Seq(Row)
               /\ \A i \in DOMAIN entitlements' : entitlements'[i].start < entitlements'[i].end
    <3>1. /\ entitlements' \in Seq(Row)
          /\ Rows' = Rows
          /\ \A i \in Rows : /\ entitlements'[i].start = entitlements[i].start
                              /\ entitlements'[i].end = entitlements[i].end
      BY <2>3, StrikeRows DEF TypeOK, Rows
    <3> QED BY <3>1 DEF TypeOK, Rows
  <2> QED BY <2>1, <2>2, <2>3, EntitlementsStep
<1>3. now' \in 0..MaxNow
  <2>1. CASE Tick
    BY <2>1, BillingAssumption DEF Tick, TypeOK
  <2> QED BY <2>1 DEF TypeOK, Next, vars, Begin, Proceed, CreateOrder, LockOrder, Grant, Revoke, LockUser,
             CreatePayment, SetProviderOrder, NotifyNothing, NotifyClosed, ReadWindow, InsertGranted,
             InsertPaid, CommitRevoke, Abort
<1>4. userLock' \in Txs \cup {None} /\ orderLock' \in [Orders -> Txs \cup {None}]
  <2>1. ASSUME NEW t \in Txs, Done(t)
        PROVE  userLock' \in Txs \cup {None} /\ orderLock' \in [Orders -> Txs \cup {None}]
    BY <2>1 DEF TypeOK, Done, Unlocked
  <2>2. ASSUME UNCHANGED locks
        PROVE  userLock' \in Txs \cup {None} /\ orderLock' \in [Orders -> Txs \cup {None}]
    BY <2>2 DEF TypeOK, locks
  <2>3. ASSUME NEW t \in Txs, Begin(t)
        PROVE  userLock' \in Txs \cup {None} /\ orderLock' \in [Orders -> Txs \cup {None}]
    <3>1. CASE \E o \in Orders, s \in Statuses, r \in Refs : LockOrder(t, o, s, r)
      BY <3>1 DEF TypeOK, LockOrder
    <3>2. CASE \E o \in Orders : CreateOrder(t, o)
      BY <2>2, <3>2 DEF CreateOrder
    <3>3. CASE \/ \E d \in GrantDays : Grant(t, d)
               \/ \E i \in Rows : Revoke(t, i)
      BY <2>2, <3>3 DEF Grant, Revoke
    <3> QED BY <2>3, <3>1, <3>2, <3>3 DEF Begin
  <2>4. ASSUME NEW t \in Txs, Proceed(t)
        PROVE  userLock' \in Txs \cup {None} /\ orderLock' \in [Orders -> Txs \cup {None}]
    <3>1. CASE LockUser(t)
      BY <3>1 DEF TypeOK, LockUser
    <3>2. CASE ReadWindow(t) \/ \E r \in Refs : CreatePayment(t, r)
      BY <2>2, <3>2 DEF ReadWindow, CreatePayment
    <3>3. CASE \/ SetProviderOrder(t) \/ NotifyNothing(t) \/ NotifyClosed(t)
               \/ InsertGranted(t) \/ InsertPaid(t) \/ CommitRevoke(t)
      <4>1. Done(t)
        BY <3>3 DEF SetProviderOrder, NotifyNothing, NotifyClosed, InsertGranted, InsertPaid,
                    CommitRevoke
      <4> QED BY <2>1, <4>1
    <3> QED BY <2>4, <3>1, <3>2, <3>3 DEF Proceed
  <2>5. ASSUME NEW t \in Txs, Abort(t)
        PROVE  userLock' \in Txs \cup {None} /\ orderLock' \in [Orders -> Txs \cup {None}]
    BY <2>1, <2>5 DEF Abort
  <2>6. CASE Tick \/ UNCHANGED vars
    BY <2>2, <2>6 DEF Tick, vars, locks
  <2> QED BY <2>3, <2>4, <2>5, <2>6 DEF Next
<1> QED BY <1>1, <1>2, <1>3, <1>4, TxStep DEF TypeOK

\* Every variable keeps its range, and every entitlement its length: none is empty.
THEOREM TypeCorrect == Spec => []TypeOK
<1> QED BY TypeInit, TypeStep, PTL DEF Spec

-------------------------------------------------------------------------------
(* Preservation of the inductive invariant.                                 *)

\* At first there is no order, no entitlement and no transaction.
LEMMA InvInit == Init => IInv
<1> SUFFICES ASSUME Init PROVE IInv
  OBVIOUS
<1>1. Rows = {} /\ \A t \in Txs : tx[t].op = "none" /\ tx[t].at = "idle"
  BY DEF Init, Rows, Idle
<1>2. \A o \in Orders : order[o].status = "NONE"
  BY DEF Init
<1> QED BY <1>1, <1>2, TypeInit
    DEF IInv, LocksHeld, WindowFresh, StillPending, RefAgrees, At, Queued, PaidOnce

\* A transaction that is not the one stepping stays where it is.
LEMMA OthersStay ==
  ASSUME TypeOK, NEW t \in Txs, Begin(t) \/ Proceed(t) \/ Abort(t), NEW u \in Txs \ {t}
  PROVE  tx'[u] = tx[u]
<1>1. tx \in [Txs -> TxState]
  BY DEF TypeOK
<1> QED BY <1>1 DEF Begin, Proceed, CreateOrder, LockOrder, Grant, Revoke, LockUser, Goto, CreatePayment,
     SetProviderOrder, NotifyNothing, NotifyClosed, ReadWindow, InsertGranted, InsertPaid,
     CommitRevoke, Abort, Done

\* Where a step leaves the transaction that takes it.
LEMMA MovedTo ==
  ASSUME TypeOK, NEW t \in Txs, Begin(t) \/ Proceed(t) \/ Abort(t)
  PROVE  \/ tx'[t] = Idle
         \/ tx'[t].op \in {"checkout", "grant", "revoke"} /\ tx'[t].at \in {"paying", "recording", "waiting"}
         \/ \E o \in Orders, s \in Statuses, r \in Refs : LockOrder(t, o, s, r)
         \/ LockUser(t)
         \/ ReadWindow(t)
<1>1. tx \in [Txs -> TxState]
  BY DEF TypeOK
<1>2. CASE \E r \in Refs : CreatePayment(t, r)
  BY <1>1, <1>2, Shapes DEF CreatePayment, At, Checkout
<1> QED BY <1>1, <1>2 DEF Begin, Proceed, CreateOrder, Grant, Revoke, SetProviderOrder, NotifyNothing, NotifyClosed,
     InsertGranted, InsertPaid, CommitRevoke, Abort, Done

\* Locks are taken when free and released only by who holds them.
LEMMA LocksStep == IInv /\ [Next]_vars => LocksHeld'
<1> SUFFICES ASSUME IInv, [Next]_vars, NEW u \in Txs
             PROVE  /\ tx'[u].op = "notify" => orderLock'[tx'[u].order] = u
                    /\ tx'[u].at \in {"holding", "inserting"} => userLock' = u
  BY DEF LocksHeld
<1>0. /\ tx[u].op = "notify" => orderLock[tx[u].order] = u /\ tx[u].order \in Orders
      /\ tx[u].at \in {"holding", "inserting"} => userLock = u
      /\ u # None
      /\ tx \in [Txs -> TxState]
      /\ orderLock \in [Orders -> Txs \cup {None}]
      /\ userLock \in Txs \cup {None}
  BY Shapes, BillingAssumption DEF IInv, LocksHeld, TypeOK, Notify
<1>1. ASSUME NEW t \in Txs \ {u}, Begin(t) \/ Proceed(t) \/ Abort(t)
      PROVE  /\ tx'[u].op = "notify" => orderLock'[tx'[u].order] = u
             /\ tx'[u].at \in {"holding", "inserting"} => userLock' = u
  <2>1. tx'[u] = tx[u]
    BY <1>1, OthersStay DEF IInv
  <2>2. orderLock[tx[u].order] = u /\ tx[u].order \in Orders => orderLock'[tx[u].order] = u
    BY <1>0, <1>1 DEF Begin, Proceed, CreateOrder, LockOrder, Grant, Revoke, LockUser, CreatePayment,
       SetProviderOrder, NotifyNothing, NotifyClosed, ReadWindow, InsertGranted, InsertPaid,
       CommitRevoke, Abort, Done, Unlocked, locks
  <2>3. userLock = u => userLock' = u
    BY <1>0, <1>1 DEF Begin, Proceed, CreateOrder, LockOrder, Grant, Revoke, LockUser, UserFree,
       CreatePayment, SetProviderOrder, NotifyNothing, NotifyClosed, ReadWindow, InsertGranted,
       InsertPaid, CommitRevoke, Abort, Done, Unlocked, Holds, locks
  <2> QED BY <1>0, <2>1, <2>2, <2>3
<1>2. ASSUME Begin(u) \/ Proceed(u) \/ Abort(u)
      PROVE  /\ tx'[u].op = "notify" => orderLock'[tx'[u].order] = u
             /\ tx'[u].at \in {"holding", "inserting"} => userLock' = u
  <2>1. CASE tx'[u] = Idle
    BY <2>1 DEF Idle
  <2>2. CASE tx'[u].op \in {"checkout", "grant", "revoke"} /\ tx'[u].at \in {"paying", "recording", "waiting"}
    BY <2>2
  <2>3. CASE \E o \in Orders, s \in Statuses, r \in Refs : LockOrder(u, o, s, r)
    BY <1>0, <2>3 DEF LockOrder
  <2>4. CASE LockUser(u)
    <3>1. tx'[u].op = tx[u].op /\ (tx[u].op = "notify" => tx'[u].order = tx[u].order)
      BY <1>0, <2>4, Shapes DEF IInv, LockUser, Goto, Notify, Granting, Revoking
    <3> QED BY <1>0, <2>4, <3>1 DEF LockUser
  <2>5. CASE ReadWindow(u)
    <3>1. tx'[u].op = tx[u].op /\ (tx[u].op = "notify" => tx'[u].order = tx[u].order)
      BY <1>0, <2>5, Shapes DEF IInv, ReadWindow, At, Notify, Granting
    <3> QED BY <1>0, <2>5, <3>1 DEF ReadWindow, At, locks
  <2> QED BY <1>2, <2>1, <2>2, <2>3, <2>4, <2>5, MovedTo DEF IInv
<1>3. CASE Tick \/ UNCHANGED vars
  BY <1>0, <1>3 DEF Tick, vars, locks
<1> QED BY <1>1, <1>2, <1>3 DEF Next

\* Who writes entitlements, or settles an order, holds the account.
LEMMA WritersHold ==
  ASSUME IInv, [Next]_vars
  PROVE  \/ entitlements' = entitlements
         \/ \E t \in Txs : /\ userLock = t
                           /\ NotifyClosed(t) \/ InsertGranted(t) \/ InsertPaid(t) \/ CommitRevoke(t)
<1>1. ASSUME NEW t \in Txs, NotifyClosed(t) \/ InsertGranted(t) \/ InsertPaid(t) \/ CommitRevoke(t)
      PROVE  userLock = t
  BY <1>1 DEF IInv, LocksHeld, NotifyClosed, InsertGranted, InsertPaid, CommitRevoke, At
<1>2. ASSUME NEW t \in Txs, Begin(t) \/ Abort(t) \/ LockUser(t) \/ (\E r \in Refs : CreatePayment(t, r))
               \/ SetProviderOrder(t) \/ NotifyNothing(t) \/ ReadWindow(t)
      PROVE  entitlements' = entitlements
  BY <1>2 DEF Begin, CreateOrder, LockOrder, Grant, Revoke, Abort, LockUser, CreatePayment,
     SetProviderOrder, NotifyNothing, ReadWindow
<1>3. CASE Tick \/ UNCHANGED vars
  BY <1>3 DEF Tick, vars
<1> QED BY <1>1, <1>2, <1>3 DEF Next, Proceed

\* A transaction is about to insert after reading its window, which nothing else did.
LEMMA AboutToInsert ==
  ASSUME IInv, [Next]_vars, NEW u \in Txs, tx'[u].at = "inserting"
  PROVE  \/ ReadWindow(u) /\ entitlements' = entitlements /\ order' = order
         \/ tx'[u] = tx[u] /\ tx[u].at = "inserting" /\ userLock = u
<1>1. ASSUME NEW t \in Txs \ {u}, Begin(t) \/ Proceed(t) \/ Abort(t)
      PROVE  tx'[u] = tx[u] /\ tx[u].at = "inserting" /\ userLock = u
  <2>1. tx'[u] = tx[u]
    BY <1>1, OthersStay DEF IInv
  <2> QED BY <2>1 DEF IInv, LocksHeld
<1>2. ASSUME Begin(u) \/ Proceed(u) \/ Abort(u)
      PROVE  ReadWindow(u)
  <2>1. CASE \E o \in Orders, s \in Statuses, r \in Refs : LockOrder(u, o, s, r)
    BY <2>1 DEF LockOrder, IInv, TypeOK
  <2>2. CASE LockUser(u)
    BY <2>2 DEF LockUser, Goto, IInv, TypeOK
  <2> QED BY <1>2, <2>1, <2>2, MovedTo DEF IInv, Idle
<1>3. CASE Tick \/ UNCHANGED vars
  BY <1>3 DEF Tick, vars, IInv, LocksHeld
<1>4. ReadWindow(u) => entitlements' = entitlements /\ order' = order
  BY DEF ReadWindow
<1> QED BY <1>1, <1>2, <1>3, <1>4 DEF Next

\* Rows are only written under the lock of the account, which the reader of a window keeps.
LEMMA WindowStep == IInv /\ [Next]_vars => WindowFresh'
<1> SUFFICES ASSUME IInv, [Next]_vars, NEW u \in Txs, tx'[u].at = "inserting", NEW e \in Ends'
             PROVE  tx'[u].start >= e
  BY DEF WindowFresh
<1>1. CASE ReadWindow(u) /\ entitlements' = entitlements
  <2>1. Ends' = Ends
    BY <1>1 DEF Ends, Rows, Live
  <2>2. tx[u] \in Notify \cup Granting /\ tx \in [Txs -> TxState]
    BY <1>1, Shapes DEF ReadWindow, At, IInv, TypeOK
  <2> QED BY <1>1, <2>1, <2>2 DEF ReadWindow, StartsWindow, Notify, Granting
<1>2. CASE tx'[u] = tx[u] /\ tx[u].at = "inserting" /\ userLock = u
  <2>1. CASE entitlements' = entitlements
    BY <1>2, <2>1 DEF IInv, WindowFresh, Ends, Rows, Live
  <2>2. ASSUME NEW t \in Txs, userLock = t,
               NotifyClosed(t) \/ InsertGranted(t) \/ InsertPaid(t) \/ CommitRevoke(t)
        PROVE  tx'[t] = Idle
    BY <2>2 DEF NotifyClosed, InsertGranted, InsertPaid, CommitRevoke, Done, IInv, TypeOK
  <2> QED BY <1>2, <2>1, <2>2, WritersHold DEF Idle
<1> QED BY <1>1, <1>2, AboutToInsert

\* The lock of the order keeps its provider's id, read before the lock of the account.
LEMMA RefStep == IInv /\ [Next]_vars => RefAgrees'
<1> SUFFICES ASSUME IInv, [Next]_vars, NEW u \in Txs, tx'[u].op = "notify"
             PROVE  order'[tx'[u].order].ref \in {None, tx'[u].ref}
  BY DEF RefAgrees, MaySetRef
<1>0. tx \in [Txs -> TxState] /\ order \in [Orders -> [status : Statuses \cup {"NONE"}, ref : Refs \cup {None}]]
  BY DEF IInv, TypeOK
<1>1. \/ tx[u].op = "notify" /\ tx'[u].order = tx[u].order /\ tx'[u].ref = tx[u].ref
      \/ \E o \in Orders, s \in Statuses, r \in Refs : LockOrder(u, o, s, r)
  <2>1. ASSUME NEW t \in Txs \ {u}, Begin(t) \/ Proceed(t) \/ Abort(t) PROVE tx'[u] = tx[u]
    BY <2>1, OthersStay DEF IInv
  <2>2. CASE LockUser(u)
    BY <1>0, <2>2, Shapes DEF LockUser, Goto, IInv, Notify, Granting, Revoking
  <2>3. CASE ReadWindow(u)
    BY <1>0, <2>3, Shapes DEF ReadWindow, At, IInv, Notify, Granting
  <2>4. CASE Tick \/ UNCHANGED vars
    BY <2>4 DEF Tick, vars
  <2> QED BY <2>1, <2>2, <2>3, <2>4, MovedTo DEF Next, IInv, Idle
<1>2. CASE \E o \in Orders, s \in Statuses, r \in Refs : LockOrder(u, o, s, r)
  BY <1>0, <1>2 DEF LockOrder, MaySetRef
<1>3. CASE tx[u].op = "notify" /\ tx'[u].order = tx[u].order /\ tx'[u].ref = tx[u].ref
  <2>0. /\ tx[u].order \in Orders
        /\ orderLock[tx[u].order] = u
        /\ u # None
        /\ order[tx[u].order].ref \in {None, tx[u].ref}
    BY <1>3, Shapes, BillingAssumption DEF IInv, LocksHeld, RefAgrees, MaySetRef, Notify
  <2>1. ASSUME NEW t \in Txs, NEW o \in Orders, CreateOrder(t, o)
        PROVE  order'[tx[u].order].ref = order[tx[u].order].ref
    BY <1>0, <2>0, <2>1 DEF CreateOrder
  <2>2. ASSUME NEW t \in Txs, SetProviderOrder(t), order' = [order EXCEPT ![tx[t].order].ref = tx[t].ref]
        PROVE  order'[tx[u].order].ref = order[tx[u].order].ref
    BY <1>0, <2>0, <2>2 DEF SetProviderOrder
  <2>3. ASSUME NEW t \in Txs, NotifyClosed(t) \/ InsertPaid(t) PROVE tx'[t] = Idle
    BY <1>0, <2>3 DEF NotifyClosed, InsertPaid, Done
  <2>4. ASSUME NEW t \in Txs, t # u, NotifyClosed(t) \/ InsertPaid(t)
        PROVE  order'[tx[u].order].ref = order[tx[u].order].ref
    <3>1. orderLock[tx[t].order] = t
      BY <2>4 DEF NotifyClosed, InsertPaid, At, IInv, LocksHeld
    <3> QED BY <1>0, <2>0, <2>4, <3>1 DEF NotifyClosed, InsertPaid, Notified
  <2>5. ASSUME NEW t \in Txs, NotifyClosed(t) \/ InsertPaid(t) PROVE t # u
    BY <2>3, <2>5 DEF Idle
  <2>6. order'[tx[u].order].ref = order[tx[u].order].ref
    BY <2>1, <2>2, <2>4, <2>5, OrderStep DEF IInv
  <2> QED BY <1>3, <2>0, <2>6
<1> QED BY <1>1, <1>2, <1>3

\* No other request can settle the order between the check of its status and the commit.
LEMMA PendingStep == IInv /\ [Next]_vars => StillPending'
<1> SUFFICES ASSUME IInv, [Next]_vars, NEW u \in Txs, tx'[u].op = "notify", tx'[u].at = "inserting"
             PROVE  tx'[u].status = "PAID" /\ order'[tx'[u].order].status = "PENDING"
  BY DEF StillPending, At
<1>0. tx \in [Txs -> TxState] /\ order \in [Orders -> [status : Statuses \cup {"NONE"}, ref : Refs \cup {None}]]
  BY DEF IInv, TypeOK
<1>1. CASE ReadWindow(u) /\ order' = order
  <2>1. PICK m \in Ends \cup {now} : tx' = [tx EXCEPT ![u].at = "inserting", ![u].start = m]
    BY <1>1 DEF ReadWindow
  <2>2. tx[u] \in Notify /\ tx'[u].order = tx[u].order /\ tx'[u].status = tx[u].status
    BY <1>0, <1>1, <2>1, Shapes DEF ReadWindow, At, IInv, Notify, Granting
  <2> QED BY <1>1, <2>2 DEF ReadWindow, At, MayFollow, Notify, Granting
<1>2. CASE tx'[u] = tx[u] /\ tx[u].at = "inserting" /\ userLock = u
  <2>0. tx[u].status = "PAID" /\ order[tx[u].order].status = "PENDING" /\ tx[u].order \in Orders
    BY <1>2, Shapes DEF IInv, StillPending, At, Notify
  <2>1. ASSUME NEW t \in Txs, NEW o \in Orders, CreateOrder(t, o)
        PROVE  order'[tx[u].order].status = order[tx[u].order].status
    BY <1>0, <2>0, <2>1 DEF CreateOrder
  <2>2. ASSUME NEW t \in Txs, order' = [order EXCEPT ![tx[t].order].ref = tx[t].ref]
        PROVE  order'[tx[u].order].status = order[tx[u].order].status
    BY <1>0, <2>0, <2>2
  <2>3. ASSUME NEW t \in Txs, NotifyClosed(t) \/ InsertPaid(t) PROVE FALSE
    <3>1. userLock = t /\ tx'[t] = Idle
      BY <1>0, <2>3 DEF NotifyClosed, InsertPaid, At, Done, IInv, LocksHeld
    <3> QED BY <1>2, <3>1 DEF Idle
  <2>4. order'[tx[u].order].status = order[tx[u].order].status
    BY <2>1, <2>2, <2>3, OrderStep DEF IInv
  <2> QED BY <1>2, <2>0, <2>4
<1> QED BY <1>1, <1>2, AboutToInsert

\* The row a commit inserts starts after every live one.
LEMMA QueuedStep == IInv /\ [Next]_vars => Queued'
<1> SUFFICES ASSUME IInv, [Next]_vars PROVE Queued'
  OBVIOUS
<1>0. entitlements \in Seq(Row)
  BY DEF IInv, TypeOK
<1>1. CASE entitlements' = entitlements
  BY <1>1 DEF IInv, Queued, Rows, Live
<1>2. ASSUME NEW I \in SUBSET Int, Struck(entitlements, entitlements', I) PROVE Queued'
  <2>1. /\ DOMAIN entitlements' = DOMAIN entitlements
        /\ \A i \in DOMAIN entitlements : /\ entitlements'[i].start = entitlements[i].start
                                          /\ entitlements'[i].end = entitlements[i].end
                                          /\ ~entitlements'[i].revoked => ~entitlements[i].revoked
    BY <1>0, <1>2, StrikeRows
  <2> QED BY <2>1 DEF IInv, Queued, Rows, Live
<1>3. ASSUME NEW t \in Txs, NEW r \in Row, r.start = tx[t].start, tx[t].at = "inserting",
             entitlements' = Append(entitlements, r)
      PROVE  Queued'
  <2>1. \A i \in Rows : Live(i) => entitlements[i].end <= r.start
    <3> SUFFICES ASSUME NEW i \in Rows, Live(i) PROVE entitlements[i].end <= r.start
      OBVIOUS
    <3>1. entitlements[i].end \in Ends
      BY DEF Ends
    <3>2. tx[t].start >= entitlements[i].end
      BY <1>3, <3>1 DEF IInv, WindowFresh
    <3>3. entitlements[i].end \in Nat
      BY <3>1, EndsAreTimes DEF IInv
    <3> QED BY <1>3, <3>2, <3>3 DEF Row
  <2>2. /\ Len(entitlements) + 1 \notin Rows
        /\ Rows' = Rows \cup {Len(entitlements) + 1}
        /\ \A i \in Rows : i \in Nat /\ i < Len(entitlements) + 1 /\ entitlements'[i] = entitlements[i]
        /\ entitlements'[Len(entitlements) + 1] = r
    BY <1>0, <1>3, AppendRow DEF Rows
  <2>3. Len(entitlements) \in Nat
    BY <1>0
  <2>4. ASSUME NEW i \in Rows', NEW j \in Rows', i < j, Live(i)', Live(j)'
        PROVE  entitlements'[i].end <= entitlements'[j].start
    <3>1. i \in Rows
      BY <2>2, <2>3, <2>4
    <3>2. CASE j \in Rows
      BY <2>2, <2>4, <3>1, <3>2 DEF IInv, Queued, Live
    <3>3. CASE j = Len(entitlements) + 1
      BY <2>1, <2>2, <2>4, <3>1, <3>3 DEF Live
    <3> QED BY <2>2, <3>2, <3>3
  <2> QED BY <2>4 DEF Queued
<1>4. ASSUME NEW t \in Txs, InsertGranted(t) PROVE Queued'
  <2>1. tx[t].days \in Nat \ {0}
    BY <1>4, Shapes, BillingAssumption DEF IInv, InsertGranted, At, Granting
  <2> QED BY <1>3, <1>4, <2>1, NewRow DEF IInv, InsertGranted, Inserted, At
<1>5. ASSUME NEW t \in Txs, InsertPaid(t) PROVE Queued'
  <2>1. tx[t].order \in Orders
    BY <1>5, Shapes DEF IInv, InsertPaid, At, Notify
  <2> QED BY <1>3, <1>5, <2>1, NewRow, BillingAssumption DEF IInv, InsertPaid, Inserted, At
<1>6. ASSUME NEW t \in Txs, NotifyClosed(t) PROVE Queued'
  <2>1. Rows \subseteq Int
    BY <1>0 DEF Rows
  <2> QED BY <1>1, <1>2, <1>6, <2>1, RefundStrikes DEF NotifyClosed
<1>7. ASSUME NEW t \in Txs, CommitRevoke(t) PROVE Queued'
  <2>1. tx[t].row \in Nat
    BY <1>7, Shapes DEF IInv, CommitRevoke, At, Revoking
  <2>2. Struck(entitlements, entitlements', {tx[t].row})
    BY <1>0, <1>7, RevokeStrikes DEF CommitRevoke
  <2>3. {tx[t].row} \in SUBSET Int
    BY <2>1
  <2> QED BY <1>2, <2>2, <2>3
<1> QED BY <1>1, <1>4, <1>5, <1>6, <1>7, WritersHold

\* What PaidOnce says of one order.
PaidOnceOf(o) ==
  /\ order[o].status \in {"PAID", "REFUNDED"} <=> \E i \in Rows : entitlements[i].order = o
  /\ \A i, j \in Rows : entitlements[i].order = o /\ entitlements[j].order = o => i = j
  /\ order[o].status = "REFUNDED" => \A i \in Rows : entitlements[i].order = o => ~Live(i)

\* PaidOnce says the same of every order.
LEMMA PaidOnceByOrder == PaidOnce <=> \A o \in Orders : PaidOnceOf(o)
BY DEF PaidOnce, PaidOnceOf

\* Revoking rows, or changing the status of an order to one that promises as much.
LEMMA PaidOnceKept ==
  ASSUME IInv, NEW o \in Orders, NEW I \in SUBSET Int, Struck(entitlements, entitlements', I),
         order'[o].status \in {"PAID", "REFUNDED"} <=> order[o].status \in {"PAID", "REFUNDED"},
         order'[o].status = "REFUNDED" =>
           order[o].status = "REFUNDED" \/ \A i \in Rows : entitlements[i].order = o => i \in I
  PROVE  PaidOnceOf(o)'
<1>1. PaidOnceOf(o) /\ entitlements \in Seq(Row)
  BY PaidOnceByOrder DEF IInv, TypeOK
<1>2. /\ DOMAIN entitlements' = DOMAIN entitlements
      /\ \A i \in DOMAIN entitlements :
           /\ entitlements'[i].order = entitlements[i].order
           /\ entitlements'[i].revoked <=> (entitlements[i].revoked \/ i \in I)
  BY <1>1, StrikeRows
<1> QED BY <1>1, <1>2 DEF PaidOnceOf, Rows, Live

\* Only InsertPaid adds a row of an order, and that order had none.
LEMMA PaidStep == IInv /\ [Next]_vars => PaidOnce'
<1> SUFFICES ASSUME IInv, [Next]_vars, NEW o \in Orders PROVE PaidOnceOf(o)'
  BY DEF PaidOnce, PaidOnceOf
<1>0. /\ entitlements \in Seq(Row)
      /\ order \in [Orders -> [status : Statuses \cup {"NONE"}, ref : Refs \cup {None}]]
      /\ PaidOnceOf(o)
      /\ o # None
  BY PaidOnceByOrder, BillingAssumption DEF IInv, TypeOK
<1>1. ASSUME entitlements' = entitlements, order'[o].status = order[o].status
      PROVE  PaidOnceOf(o)'
  BY <1>0, <1>1 DEF PaidOnceOf, Rows, Live
<1>2. ASSUME NEW t \in Txs, NotifyClosed(t) PROVE PaidOnceOf(o)'
  <2>0. /\ tx[t] \in Notify
        /\ order' = Notified(t)
        /\ \/ order[tx[t].order].status = "PENDING" /\ tx[t].status \in {"FAILED", "CANCELLED"}
           \/ order[tx[t].order].status = "PAID" /\ tx[t].status = "REFUNDED"
    BY <1>2, Shapes DEF IInv, NotifyClosed, At, MayFollow
  <2>1. /\ o = tx[t].order => order'[o].status = tx[t].status
        /\ o # tx[t].order => order'[o].status = order[o].status
    BY <1>0, <2>0 DEF Notified, Notify
  <2>2. CASE tx[t].status = "REFUNDED"
    <3> DEFINE I == {i \in Rows : entitlements[i].order = tx[t].order}
    <3>1. Struck(entitlements, entitlements', I)
      BY <1>2, <2>2, RefundStrikes DEF NotifyClosed
    <3>2. I \in SUBSET Int
      BY <1>0 DEF Rows
    <3>3. order'[o].status \in {"PAID", "REFUNDED"} <=> order[o].status \in {"PAID", "REFUNDED"}
      BY <2>0, <2>1, <2>2
    <3>4. order'[o].status = "REFUNDED" =>
            order[o].status = "REFUNDED" \/ \A i \in Rows : entitlements[i].order = o => i \in I
      BY <2>1
    <3> HIDE DEF I
    <3> QED BY <3>1, <3>2, <3>3, <3>4, PaidOnceKept
  <2>3. CASE tx[t].status # "REFUNDED"
    <3>1. entitlements' = entitlements
      BY <1>2, <2>3 DEF NotifyClosed
    <3> QED BY <1>0, <2>0, <2>1, <2>3, <3>1 DEF PaidOnceOf, Rows, Live
  <2> QED BY <2>2, <2>3
<1>3. ASSUME NEW t \in Txs, CommitRevoke(t) PROVE PaidOnceOf(o)'
  <2>1. Struck(entitlements, entitlements', {tx[t].row})
    BY <1>0, <1>3, RevokeStrikes DEF CommitRevoke
  <2>2. {tx[t].row} \in SUBSET Int /\ order' = order
    BY <1>3, Shapes DEF IInv, CommitRevoke, At, Revoking
  <2> QED BY <2>1, <2>2, PaidOnceKept
<1>4. ASSUME NEW r \in Row, entitlements' = Append(entitlements, r)
      PROVE  /\ Rows' = Rows \cup {Len(entitlements) + 1}
             /\ Len(entitlements) + 1 \notin Rows
             /\ \A i \in Rows : entitlements'[i] = entitlements[i]
             /\ entitlements'[Len(entitlements) + 1] = r
  BY <1>0, <1>4, AppendRow DEF Rows
<1>5. ASSUME NEW t \in Txs, InsertGranted(t) PROVE PaidOnceOf(o)'
  <2>1. tx[t].days \in Nat \ {0}
    BY <1>5, Shapes, BillingAssumption DEF IInv, InsertGranted, At, Granting
  <2>2. PICK r \in Row : entitlements' = Append(entitlements, r) /\ r.order = None
    BY <1>5, <2>1, NewRow DEF IInv, InsertGranted, Inserted
  <2>3. order' = order
    BY <1>5 DEF InsertGranted
  <2>4. /\ Rows' = Rows \cup {Len(entitlements) + 1}
        /\ \A i \in Rows : entitlements'[i] = entitlements[i]
        /\ entitlements'[Len(entitlements) + 1].order # o
    BY <1>0, <1>4, <2>2
  <2> QED BY <1>0, <2>3, <2>4 DEF PaidOnceOf, Live
<1>6. ASSUME NEW t \in Txs, InsertPaid(t) PROVE PaidOnceOf(o)'
  <2>0. tx[t] \in Notify /\ tx[t].status = "PAID" /\ order[tx[t].order].status = "PENDING"
    BY <1>6, Shapes DEF IInv, InsertPaid, At, StillPending
  <2>1. /\ o = tx[t].order => order'[o].status = "PAID"
        /\ o # tx[t].order => order'[o].status = order[o].status
    BY <1>0, <1>6, <2>0 DEF InsertPaid, Notified, Notify
  <2>2. PICK r \in Row : entitlements' = Append(entitlements, r) /\ r.order = tx[t].order
    BY <1>6, <2>0, NewRow, BillingAssumption DEF IInv, InsertPaid, Inserted, Notify
  <2>3. /\ Rows' = Rows \cup {Len(entitlements) + 1}
        /\ Len(entitlements) + 1 \notin Rows
        /\ \A i \in Rows : entitlements'[i] = entitlements[i]
        /\ entitlements'[Len(entitlements) + 1].order = tx[t].order
    BY <1>4, <2>2
  <2>4. CASE o # tx[t].order
    BY <1>0, <2>1, <2>3, <2>4 DEF PaidOnceOf, Live
  <2>5. CASE o = tx[t].order
    BY <1>0, <2>0, <2>1, <2>3, <2>5 DEF PaidOnceOf, Live
  <2> QED BY <2>4, <2>5
<1>7. ASSUME NEW t \in Txs, NEW p \in Orders, CreateOrder(t, p)
      PROVE  PaidOnceOf(o)'
  <2>1. order'[o].status = order[o].status \/ (order[o].status = "NONE" /\ order'[o].status = "PENDING")
    BY <1>0, <1>7 DEF CreateOrder
  <2> QED BY <1>0, <1>7, <2>1 DEF CreateOrder, PaidOnceOf, Rows, Live
<1>8. ASSUME NEW t \in Txs, SetProviderOrder(t) PROVE PaidOnceOf(o)'
  <2>1. order'[o].status = order[o].status
    BY <1>0, <1>8 DEF SetProviderOrder
  <2> QED BY <1>1, <1>8, <2>1 DEF SetProviderOrder
<1>9. CASE entitlements' = entitlements /\ order' = order
  BY <1>1, <1>9
<1> QED BY <1>2, <1>3, <1>5, <1>6, <1>7, <1>8, <1>9, OrderStep, WritersHold DEF IInv

-------------------------------------------------------------------------------
(* The theorems.                                                            *)

\* Every step preserves the inductive invariant.
LEMMA InvStep == IInv /\ [Next]_vars => IInv'
BY TypeStep, LocksStep, WindowStep, PendingStep, RefStep, QueuedStep, PaidStep DEF IInv

\* The inductive invariant holds in every reachable state.
LEMMA Invariant == Spec => []IInv
<1> QED BY InvInit, InvStep, PTL DEF Spec

\* The live entitlements of an account follow one another, whatever requests run
\* at the same time.
THEOREM QueueKept == Spec => []Queued
<1>1. IInv => Queued
  BY DEF IInv
<1> QED BY <1>1, Invariant, PTL

\* Each paid order has one entitlement, however often the provider notifies.
THEOREM PaidExactlyOnce == Spec => []PaidOnce
<1>1. IInv => PaidOnce
  BY DEF IInv
<1> QED BY <1>1, Invariant, PTL

\* What a step may do to an order.
LEMMA Forward ==
  ASSUME IInv, [Next]_vars, NEW o \in Orders
  PROVE  /\ order[o].status \in {"FAILED", "CANCELLED", "REFUNDED"} => order'[o].status = order[o].status
         /\ order[o].status = "PAID" => order'[o].status \in {"PAID", "REFUNDED"}
         /\ order[o].ref # None => order'[o].ref = order[o].ref
<1>0. order \in [Orders -> [status : Statuses \cup {"NONE"}, ref : Refs \cup {None}]]
  BY DEF IInv, TypeOK
<1>1. ASSUME NEW t \in Txs, NEW p \in Orders, CreateOrder(t, p)
      PROVE  /\ order[o].status # "NONE" => order'[o].status = order[o].status
             /\ order'[o].ref = order[o].ref
  BY <1>0, <1>1 DEF CreateOrder
<1>2. ASSUME NEW t \in Txs, SetProviderOrder(t), MaySetRef(tx[t].order, tx[t].ref),
             order' = [order EXCEPT ![tx[t].order].ref = tx[t].ref]
      PROVE  /\ order'[o].status = order[o].status
             /\ order[o].ref # None => order'[o].ref = order[o].ref
  BY <1>0, <1>2 DEF MaySetRef
<1>3. ASSUME NEW t \in Txs, NotifyClosed(t) \/ InsertPaid(t)
      PROVE  /\ order[o].status = "PENDING" \/ order'[o].status = order[o].status
                \/ (order[o].status = "PAID" /\ order'[o].status = "REFUNDED")
             /\ order[o].ref # None => order'[o].ref = order[o].ref
  <2>1. /\ tx[t] \in Notify
        /\ order' = Notified(t)
        /\ MaySetRef(tx[t].order, tx[t].ref)
    BY <1>3, Shapes DEF IInv, RefAgrees, NotifyClosed, InsertPaid, At
  <2>2. \/ order[tx[t].order].status = "PENDING"
        \/ order[tx[t].order].status = "PAID" /\ tx[t].status = "REFUNDED"
    BY <1>3 DEF IInv, StillPending, NotifyClosed, InsertPaid, At, MayFollow
  <2> QED BY <1>0, <2>1, <2>2 DEF Notified, Notify, MaySetRef
<1>4. CASE order' = order
  BY <1>4
<1> QED BY <1>1, <1>2, <1>3, <1>4, OrderStep DEF IInv

\* "A refunded order cannot be replayed into PAID", nor can any settled one change.
THEOREM SettledForGood == Spec => OrderForward
<1>1. IInv /\ [Next]_vars =>
        [\A o \in Orders :
           /\ order[o].status \in {"FAILED", "CANCELLED", "REFUNDED"} => order'[o].status = order[o].status
           /\ order[o].status = "PAID" => order'[o].status \in {"PAID", "REFUNDED"}
           /\ order[o].ref # None => order'[o].ref = order[o].ref]_vars
  BY Forward
<1> QED BY <1>1, Invariant, PTL DEF Spec, OrderForward

\* What an account was granted stays on record, with its dates.
THEOREM GrantsStayOnRecord == Spec => EntitlementsKept
<1>1. TypeOK /\ [Next]_vars =>
        [\A i \in Rows :
           /\ i \in DOMAIN entitlements'
           /\ entitlements'[i] \in {entitlements[i], [entitlements[i] EXCEPT !.revoked = TRUE]}]_vars
  <2> SUFFICES ASSUME TypeOK, [Next]_vars, NEW i \in Rows
               PROVE  /\ i \in DOMAIN entitlements'
                      /\ entitlements'[i] \in {entitlements[i], [entitlements[i] EXCEPT !.revoked = TRUE]}
    OBVIOUS
  <2>0. entitlements \in Seq(Row)
    BY DEF TypeOK
  <2>1. CASE entitlements' = entitlements
    BY <2>1 DEF Rows
  <2>2. ASSUME NEW r \in Row, entitlements' = Append(entitlements, r)
        PROVE  i \in DOMAIN entitlements' /\ entitlements'[i] = entitlements[i]
    BY <2>0, <2>2, AppendRow DEF Rows
  <2>3. ASSUME NEW I \in SUBSET Int, Struck(entitlements, entitlements', I)
        PROVE  /\ i \in DOMAIN entitlements'
               /\ entitlements'[i] \in {entitlements[i], [entitlements[i] EXCEPT !.revoked = TRUE]}
    BY <2>0, <2>3, StrikeRows DEF Rows
  <2> QED BY <2>1, <2>2, <2>3, EntitlementsStep
<1> QED BY <1>1, TypeInit, TypeStep, PTL DEF Spec, EntitlementsKept

\* No notification, grant or revocation rewrites what was settled or granted.
THEOREM NothingRewritten == Spec => OrdersKept
<1> QED BY TypeCorrect, SettledForGood, GrantsStayOnRecord, PTL DEF OrdersKept

-------------------------------------------------------------------------------
(* The chain of providers: the inductive invariant.                         *)

\* What every provider of a chain has of its budget.
Part == (ChainBudget - LoadLimit - Tiers) \div Len(Order)

\* What is left of it for the next one, whatever recording the calls before has taken.
Share == Part - RecordLimit * Len(asked)

LevelShape == [tier : 1..Tiers, members : Seq(Providers)]

\* The levels are of providers, nobody is listed twice, and none but the first is used up.
LevelsFit(q) ==
  /\ q \in Seq(LevelShape)
  /\ \A i, j \in 1..Len(q) : \A k \in 1..Len(q[i].members), l \in 1..Len(q[j].members) :
       q[i].members[k] = q[j].members[l] => i = j /\ k = l
  /\ \A i \in 1..Len(q) : i # 1 => q[i].members # <<>>

ChainShapes ==
  /\ op \in [at : {"ready", "rotating", "calling", "writing", "done", "unavailable", "stopped"},
             by : Providers \cup {Nobody}, allot : Nat, round : Nat, chain : Nat]
  /\ left \in 0..ChainBudget /\ gone \in BOOLEAN
  /\ gate \in [active : Providers \cup {Nobody}, buffers : [Providers -> Seq(Providers \X Nat)]]
  /\ asked \in Seq(Providers)

\* While it goes on, a provider was asked or is listed, and not both.
Apart ==
  op.at \in {"rotating", "calling", "writing"} =>
    /\ LevelsFit(queue) /\ queue # <<>>
    /\ Range(asked) \cap Listed(queue) = {}
    /\ op.chain = Len(asked) + Cardinality(Listed(queue)) /\ op.chain <= Len(Order)

\* Time for every provider that is listed, and for the turns of the levels.
TimeLeft ==
  /\ op.at \in {"rotating", "calling"} => queue[1].members # <<>>
  /\ op.at = "rotating" => left >= Share * Waiting + Len(queue)
  /\ op.at = "calling" => left >= Share * Waiting + (Len(queue) - 1)
  /\ op.at = "writing" => left - op.allot >= (Share + RecordLimit) * Waiting + (Len(queue) - 1)

\* The gate knows nothing of a provider that was not asked, and shows what the one that
\* writes wrote if it is the one that is visible.
GateFits ==
  /\ \A p \in Providers \ Range(asked) : gate.buffers[p] = <<>> /\ gate.active # p
  /\ op.at = "writing" =>
       /\ op.by \in Range(asked)
       /\ reply = gate.buffers[op.by]
       /\ ~gone /\ gate.active = op.by => screen = reply

ChainInv == ChainShapes /\ Apart /\ TimeLeft /\ GateFits /\ EveryoneHasTime /\ OneVoice

-------------------------------------------------------------------------------
(* The chain of providers: what Filtered keeps.                             *)

\* A set of numbers has a least one.
LEMMA LeastNumber ==
  ASSUME NEW S \in SUBSET Nat, S # {}
  PROVE  \E x \in S : \A y \in S : x <= y
<1>1. IsWellFoundedOn(OpToRel(<, Nat), Nat)
  BY NatLessThanWellFounded
<1>2. \A x, y \in Nat : x < y => <<x, y>> \in OpToRel(<, Nat)
  BY DEF OpToRel
<1>3. PICK x \in S : \A y \in S : <<y, x>> \notin OpToRel(<, Nat)
  BY <1>1, WFMin
<1>4. \A y \in S : ~(y < x)
  BY <1>2, <1>3
<1> QED BY <1>4

\* What is kept of the first k elements of a sequence.
KeptOf(u, s, S, T, k) ==
  /\ u \in Seq(T) /\ Len(u) <= k
  /\ \A i \in 1..Len(u) : u[i] \in S /\ \E j \in 1..k : u[i] = s[j]
  /\ \A j \in 1..k : s[j] \in S => \E i \in 1..Len(u) : u[i] = s[j]
  /\ IsInjective(s) => \A i, j \in 1..Len(u) : u[i] = u[j] => i = j

\* One more element, kept or left out, of what was filtered.
LEMMA FilteredMore ==
  ASSUME NEW T, NEW S, NEW s \in Seq(T), NEW k \in 1..Len(s), NEW u, NEW v,
         v = (IF s[k] \in S THEN Append(u, s[k]) ELSE u), KeptOf(u, s, S, T, k - 1)
  PROVE  KeptOf(v, s, S, T, k)
<1> /\ u \in Seq(T) /\ Len(u) <= k - 1
    /\ \A i \in 1..Len(u) : u[i] \in S /\ \E j \in 1..(k - 1) : u[i] = s[j]
    /\ \A j \in 1..(k - 1) : s[j] \in S => \E i \in 1..Len(u) : u[i] = s[j]
    /\ IsInjective(s) => \A i, j \in 1..Len(u) : u[i] = u[j] => i = j
  BY DEF KeptOf
<1> SUFFICES /\ v \in Seq(T) /\ Len(v) <= k
             /\ \A i \in 1..Len(v) : v[i] \in S /\ \E j \in 1..k : v[i] = s[j]
             /\ \A j \in 1..k : s[j] \in S => \E i \in 1..Len(v) : v[i] = s[j]
             /\ IsInjective(s) => \A i, j \in 1..Len(v) : v[i] = v[j] => i = j
  BY DEF KeptOf
<1>0. s[k] \in T /\ Len(s) \in Nat /\ Len(u) \in Nat /\ k \in Nat /\ k >= 1
  OBVIOUS
<1>1. CASE s[k] \notin S
  <2>1. v = u
    BY <1>1
  <2>2. \A j \in 1..k : s[j] \in S => j \in 1..(k - 1)
    BY <1>0, <1>1
  <2>3. \A j \in 1..(k - 1) : j \in 1..k
    BY <1>0
  <2> QED BY <1>0, <2>1, <2>2, <2>3
<1>2. CASE s[k] \in S
  <2>1. /\ v \in Seq(T) /\ Len(v) = Len(u) + 1 /\ v[Len(u) + 1] = s[k]
        /\ \A i \in 1..Len(u) : v[i] = u[i]
    BY <1>0, <1>2
  <2>2. \A i \in 1..Len(v) : i = Len(u) + 1 \/ i \in 1..Len(u)
    BY <1>0, <2>1
  <2>3. \A j \in 1..k : j = k \/ j \in 1..(k - 1)
    BY <1>0
  <2>4. (\A j \in 1..(k - 1) : j \in 1..k /\ j # k) /\ k \in 1..k
    BY <1>0
  <2>5. (\A i \in 1..Len(u) : i \in 1..Len(v)) /\ Len(u) + 1 \in 1..Len(v)
    BY <1>0, <2>1
  <2>6. \A i \in 1..Len(v) : v[i] \in S /\ \E j \in 1..k : v[i] = s[j]
    <3> SUFFICES ASSUME NEW i \in 1..Len(v)
                 PROVE  v[i] \in S /\ \E j \in 1..k : v[i] = s[j]
      OBVIOUS
    <3>1. CASE i = Len(u) + 1
      BY <1>2, <2>1, <2>4, <3>1
    <3>2. CASE i \in 1..Len(u)
      BY <2>1, <2>4, <3>2
    <3> QED BY <2>2, <3>1, <3>2
  <2>7. \A j \in 1..k : s[j] \in S => \E i \in 1..Len(v) : v[i] = s[j]
    <3> SUFFICES ASSUME NEW j \in 1..k, s[j] \in S
                 PROVE  \E i \in 1..Len(v) : v[i] = s[j]
      OBVIOUS
    <3>1. CASE j = k
      BY <2>1, <2>5, <3>1
    <3>2. CASE j \in 1..(k - 1)
      BY <2>1, <2>5, <3>2
    <3> QED BY <2>3, <3>1, <3>2
  <2>8. ASSUME IsInjective(s), NEW i \in 1..Len(v), NEW j \in 1..Len(v), v[i] = v[j]
        PROVE  i = j
    <3>1. \A n \in 1..Len(u) : u[n] # s[k]
      <4> SUFFICES ASSUME NEW n \in 1..Len(u), u[n] = s[k] PROVE FALSE
        OBVIOUS
      <4>1. PICK m \in 1..(k - 1) : u[n] = s[m]
        OBVIOUS
      <4>2. m \in DOMAIN s /\ k \in DOMAIN s /\ m # k
        BY <1>0
      <4> QED BY <2>8, <4>1, <4>2 DEF IsInjective
    <3>2. CASE i \in 1..Len(u) /\ j \in 1..Len(u)
      BY <2>1, <2>8, <3>2
    <3>3. CASE i = Len(u) + 1 /\ j \in 1..Len(u)
      BY <2>1, <2>8, <3>1, <3>3
    <3>4. CASE i \in 1..Len(u) /\ j = Len(u) + 1
      BY <2>1, <2>8, <3>1, <3>4
    <3> QED BY <2>2, <3>2, <3>3, <3>4
  <2>9. v \in Seq(T) /\ Len(v) <= k
    BY <1>0, <2>1
  <2>10. IsInjective(s) => \A i, j \in 1..Len(v) : v[i] = v[j] => i = j
    BY <2>8
  <2> QED BY <2>6, <2>7, <2>9, <2>10
<1> QED BY <1>1, <1>2

\* What Filtered keeps: what is of the set, once if it was there once.
LEMMA FilteredIs ==
  ASSUME NEW T, NEW s \in Seq(T), NEW S
  PROVE  /\ Filtered(s, S) \in Seq(T) /\ Len(Filtered(s, S)) <= Len(s)
         /\ Range(Filtered(s, S)) = Range(s) \cap S
         /\ IsInjective(s) => IsInjective(Filtered(s, S))
<1>1. PICK n \in Nat : n = Len(s)
  OBVIOUS
<1> DEFINE Steps(g, k) == g = [i \in 0..k |->
             IF i = 0 THEN <<>> ELSE IF s[i] \in S THEN Append(g[i - 1], s[i]) ELSE g[i - 1]]
           upTo == CHOOSE g : Steps(g, n)
<1>4. Filtered(s, S) = upTo[n]
  BY <1>1 DEF Filtered
<1>5. \A k \in Nat : (\E g : Steps(g, k)) => \E g : Steps(g, k + 1)
  <2> SUFFICES ASSUME NEW k \in Nat, NEW g, Steps(g, k) PROVE \E h : Steps(h, k + 1)
    OBVIOUS
  <2> DEFINE h == [i \in 0..(k + 1) |->
               IF i = k + 1 THEN IF s[k + 1] \in S THEN Append(g[k], s[k + 1]) ELSE g[k]
               ELSE g[i]]
  <2>1. \A i \in 0..(k + 1) :
          h[i] = IF i = 0 THEN <<>>
                 ELSE IF s[i] \in S THEN Append(h[i - 1], s[i]) ELSE h[i - 1]
    <3> SUFFICES ASSUME NEW i \in 0..(k + 1)
                 PROVE  h[i] = IF i = 0 THEN <<>>
                               ELSE IF s[i] \in S THEN Append(h[i - 1], s[i]) ELSE h[i - 1]
      OBVIOUS
    <3>1. CASE i = 0
      BY <3>1
    <3>2. CASE i = k + 1
      <4>1. h[i - 1] = g[k] /\ i # 0
        BY <3>2
      <4> QED BY <3>2, <4>1
    <3>3. CASE i \in 1..k
      <4>1. h[i - 1] = g[i - 1] /\ h[i] = g[i] /\ i # 0
        BY <3>3
      <4>2. i \in 0..k /\ i # 0
        BY <3>3
      <4>3. g[i] = IF s[i] \in S THEN Append(g[i - 1], s[i]) ELSE g[i - 1]
        BY <4>2
      <4> QED BY <4>1, <4>3
    <3> QED BY <3>1, <3>2, <3>3
  <2>2. h = [i \in 0..(k + 1) |->
              IF i = 0 THEN <<>> ELSE IF s[i] \in S THEN Append(h[i - 1], s[i]) ELSE h[i - 1]]
    <3>1. h = [i \in 0..(k + 1) |-> h[i]]
      OBVIOUS
    <3> HIDE DEF h
    <3> QED BY <2>1, <3>1
  <2>3. PICK f : f = h
    OBVIOUS
  <2> QED BY <2>2, <2>3
<1>6. \E g : Steps(g, 0)
  <2>1. Steps([i \in 0..0 |-> <<>>], 0)
    OBVIOUS
  <2> QED BY <2>1
<1>7. \E g : Steps(g, n)
  <2> DEFINE Fails == {k \in Nat : ~\E g : Steps(g, k)}
  <2> SUFFICES ASSUME Fails # {} PROVE FALSE
    OBVIOUS
  <2> HIDE DEF Steps
  <2>0. Fails \in SUBSET Nat
    OBVIOUS
  <2>1. PICK k \in Fails : \A l \in Fails : k <= l
    <3> HIDE DEF Fails
    <3> QED BY <2>0, LeastNumber
  <2>2. k \in Nat /\ ~\E g : Steps(g, k)
    BY <2>1
  <2>3. k - 1 \in Nat /\ k - 1 < k /\ (k - 1) + 1 = k
    <3>1. k # 0
      BY <1>6, <2>2
    <3> QED BY <2>2, <3>1
  <2>4. \E g : Steps(g, k - 1)
    BY <2>1, <2>2, <2>3
  <2> QED BY <1>5, <2>2, <2>3, <2>4
<1>8. Steps(upTo, n)
  BY <1>7
<1> HIDE DEF upTo
<1>9. /\ upTo[0] = <<>>
      /\ \A i \in 1..n :
           upTo[i] = IF s[i] \in S THEN Append(upTo[i - 1], s[i]) ELSE upTo[i - 1]
  <2>1. 0 \in 0..n /\ \A i \in 1..n : i \in 0..n /\ i # 0
    OBVIOUS
  <2>2. \A i \in 0..n : upTo[i] = IF i = 0 THEN <<>>
                        ELSE IF s[i] \in S THEN Append(upTo[i - 1], s[i]) ELSE upTo[i - 1]
    BY <1>8
  <2> QED BY <2>1, <2>2
<1> HIDE DEF Steps
<1> DEFINE SoFar(k) == KeptOf(upTo[k], s, S, T, k)
<1>10. \A k \in 0..n : SoFar(k)
  <2> DEFINE Fails == {k \in 0..n : ~SoFar(k)}
  <2> SUFFICES ASSUME Fails # {} PROVE FALSE
    OBVIOUS
  <2> HIDE DEF SoFar
  <2>0. Fails \in SUBSET Nat
    OBVIOUS
  <2>1. PICK k \in Fails : \A l \in Fails : k <= l
    <3> HIDE DEF Fails
    <3> QED BY <2>0, LeastNumber
  <2>2. k \in 0..n /\ ~SoFar(k)
    BY <2>1
  <2>3. SoFar(0)
    <3>1. <<>> \in Seq(T) /\ Len(<<>>) = 0 /\ 1..0 = {}
      OBVIOUS
    <3> QED BY <1>9, <3>1 DEF SoFar, KeptOf
  <2>4. k # 0
    BY <2>2, <2>3
  <2>5. k - 1 \in 0..n /\ k - 1 < k /\ k \in 1..Len(s)
    BY <1>1, <2>2, <2>4
  <2>6. SoFar(k - 1)
    BY <2>1, <2>5
  <2>7. upTo[k] = IF s[k] \in S THEN Append(upTo[k - 1], s[k]) ELSE upTo[k - 1]
    BY <1>1, <1>9, <2>5
  <2>8. SoFar(k)
    <3> HIDE DEF Fails
    <3> QED BY <2>5, <2>6, <2>7, FilteredMore DEF SoFar
  <2> QED BY <2>2, <2>8
<1>11. SoFar(n)
  <2> HIDE DEF SoFar
  <2> QED BY <1>10
<1>12. PICK f : f = upTo[n]
  OBVIOUS
<1>13. /\ f \in Seq(T) /\ Len(f) <= Len(s)
       /\ \A i \in 1..Len(f) : f[i] \in S /\ \E j \in 1..Len(s) : f[i] = s[j]
       /\ \A j \in 1..Len(s) : s[j] \in S => \E i \in 1..Len(f) : f[i] = s[j]
       /\ IsInjective(s) => \A i, j \in 1..Len(f) : f[i] = f[j] => i = j
  BY <1>1, <1>11, <1>12 DEF KeptOf
<1>14. Range(f) = Range(s) \cap S
  <2>1. DOMAIN f = 1..Len(f) /\ DOMAIN s = 1..Len(s)
    BY <1>13
  <2>2. ASSUME NEW x \in Range(f) PROVE x \in Range(s) \cap S
    <3>1. PICK i \in 1..Len(f) : x = f[i]
      BY <2>1, <2>2 DEF Range
    <3>2. f[i] \in S /\ \E j \in 1..Len(s) : f[i] = s[j]
      BY <1>13, <3>1
    <3> HIDE <1>13
    <3> QED BY <2>1, <3>1, <3>2 DEF Range
  <2>3. ASSUME NEW x \in Range(s), x \in S PROVE x \in Range(f)
    BY <1>13, <2>1, <2>3 DEF Range
  <2> QED BY <2>2, <2>3
<1>15. IsInjective(s) => IsInjective(f)
  BY <1>13 DEF IsInjective
<1> QED BY <1>4, <1>12, <1>13, <1>14, <1>15

-------------------------------------------------------------------------------
(* The chain of providers: levels.                                          *)

LEMMA ChainNumbers ==
  /\ Order \in Seq(Providers) /\ Len(Order) \in Nat \ {0} /\ Nobody \notin Providers
  /\ IsInjective(Order) /\ EnvProvider \in Providers
  /\ Tiers \in Nat /\ ChainBudget \in Nat /\ TimeLimit \in Nat /\ LoadLimit \in Nat
  /\ RecordLimit \in Nat
<1>1. Order \in Seq(Providers) /\ Order # <<>> /\ EnvProvider = Order[Len(Order)]
  BY ChainAssumption
<1>2. Len(Order) \in Nat \ {0} /\ DOMAIN Order = 1..Len(Order)
  BY <1>1
<1>3. EnvProvider \in Providers
  BY <1>1, <1>2 DEF Providers, Range
<1> QED BY <1>1, <1>2, <1>3, ChainAssumption

LEMMA BudgetEnough ==
  ASSUME NEW n \in Nat \ {0}, n = Len(Order), NEW m \in Nat \ {0}, m = 1 + RecordLimit * (n - 1)
  PROVE  ChainBudget - LoadLimit - Tiers >= n * m
<1>1. ChainBudget >= LoadLimit + Tiers + n * m
  BY ChainAssumption
<1>2. PICK v \in Nat : v = n * m
  OBVIOUS
<1> QED BY <1>1, <1>2, ChainNumbers

\* An equal part has a unit and the recording of all other calls, and what remains after
\* the slowest readings has one for everyone.
LEMMA Parts ==
  /\ Part \in Nat \ {0}
  /\ ChainBudget - LoadLimit >= Part * Len(Order) + Tiers
  /\ Part >= 1 + RecordLimit * (Len(Order) - 1)
<1>1. PICK n \in Nat \ {0} : n = Len(Order)
  BY ChainNumbers
<1>2. PICK m \in Nat \ {0} : m = 1 + RecordLimit * (n - 1)
  <2>1. PICK k \in Nat : k = n - 1
    BY <1>1
  <2>2. RecordLimit * k \in Nat
    BY <2>1, ChainNumbers
  <2> QED BY <2>1, <2>2
<1>3. PICK v \in Nat : v = n * m
  BY <1>1, <1>2
<1>4. PICK b \in Nat : b = ChainBudget - LoadLimit - Tiers /\ b >= v
  <2>1. ChainBudget - LoadLimit - Tiers >= v
    BY <1>1, <1>2, <1>3, BudgetEnough
  <2> QED BY <1>3, <2>1, ChainNumbers
<1>5. PICK a \in Nat : a = b \div n /\ a * n <= b /\ b < (a + 1) * n
  OBVIOUS
<1>6. a >= m
  <2> SUFFICES ASSUME a + 1 <= m PROVE FALSE
    BY <1>2, <1>5
  <2>1. (a + 1) * n <= m * n
    BY <1>1, <1>2, <1>5
  <2>2. PICK x \in Nat : x = (a + 1) * n
    BY <1>1, <1>5
  <2>3. m * n = v
    BY <1>1, <1>2, <1>3
  <2> QED BY <1>3, <1>4, <1>5, <2>1, <2>2, <2>3
<1>7. Part = a
  BY <1>1, <1>4, <1>5 DEF Part
<1>8. ChainBudget - LoadLimit = b + Tiers
  BY <1>4, ChainNumbers
<1>9. PICK c \in Nat : c = a * n
  BY <1>1, <1>5
<1>10. b + Tiers >= c + Tiers
  BY <1>4, <1>5, <1>9, ChainNumbers
<1> QED BY <1>1, <1>2, <1>5, <1>6, <1>7, <1>8, <1>9, <1>10

LEMMA ListedIs ==
  ASSUME NEW q \in Seq(LevelShape)
  PROVE  /\ \A x : x \in Listed(q) <=>
              \E i \in 1..Len(q) : \E k \in 1..Len(q[i].members) : x = q[i].members[k]
         /\ Listed(q) \subseteq Providers
<1>1. \A i \in 1..Len(q) : q[i] \in LevelShape
  OBVIOUS
<1>2. \A i \in 1..Len(q) : /\ q[i].members \in Seq(Providers)
                           /\ DOMAIN q[i].members = 1..Len(q[i].members)
  BY <1>1 DEF LevelShape
<1>3. DOMAIN q = 1..Len(q)
  OBVIOUS
<1>4. \A x : x \in Listed(q) <=>
              \E i \in 1..Len(q) : \E k \in 1..Len(q[i].members) : x = q[i].members[k]
  <2>1. ASSUME NEW x, x \in Listed(q)
        PROVE  \E i \in 1..Len(q) : \E k \in 1..Len(q[i].members) : x = q[i].members[k]
    <3>1. PICK g \in Range(q) : x \in Range(g.members)
      BY <2>1 DEF Listed
    <3>2. PICK i \in 1..Len(q) : g = q[i]
      BY <1>3, <3>1 DEF Range
    <3>3. PICK k \in 1..Len(q[i].members) : x = q[i].members[k]
      BY <1>2, <3>1, <3>2 DEF Range
    <3> QED BY <3>3
  <2>2. ASSUME NEW i \in 1..Len(q), NEW k \in 1..Len(q[i].members)
        PROVE  q[i].members[k] \in Listed(q)
    <3>1. q[i] \in Range(q)
      BY <1>3 DEF Range
    <3>2. q[i].members[k] \in Range(q[i].members)
      BY <1>2 DEF Range
    <3> QED BY <3>1, <3>2 DEF Listed
  <2> QED BY <2>1, <2>2
<1>5. \A i \in 1..Len(q) : \A k \in 1..Len(q[i].members) : q[i].members[k] \in Providers
  BY <1>2
<1> QED BY <1>4, <1>5

\* A chain has no more than all providers.
LEMMA ListedFinite ==
  ASSUME NEW S \in SUBSET Providers
  PROVE  IsFiniteSet(S) /\ Cardinality(S) \in Nat /\ Cardinality(S) <= Len(Order)
<1>1. DOMAIN Order = 1..Len(Order) /\ Len(Order) \in Nat \ {0}
  BY ChainNumbers
<1>2. Order \in Surjection(1..Len(Order), Providers)
  BY <1>1, ChainNumbers DEF Surjection, Providers, Range
<1>3. IsFiniteSet(1..Len(Order)) /\ Cardinality(1..Len(Order)) = Len(Order)
  BY <1>1, FS_Interval
<1>4. IsFiniteSet(Providers) /\ Cardinality(Providers) <= Len(Order)
  BY <1>2, <1>3, FS_Surjection
<1>5. IsFiniteSet(S) /\ Cardinality(S) <= Cardinality(Providers)
  BY <1>4, FS_Subset
<1>6. Cardinality(S) \in Nat /\ Cardinality(Providers) \in Nat
  BY <1>4, <1>5, FS_CardinalityType
<1> QED BY <1>1, <1>4, <1>5, <1>6

\* Each level that is not used up has a provider of its own.
LEMMA EnoughListed ==
  ASSUME NEW q, LevelsFit(q), q # <<>>, q[1].members # <<>>
  PROVE  /\ Cardinality(Listed(q)) \in Nat /\ Len(q) \in Nat \ {0}
         /\ Cardinality(Listed(q)) >= Len(q)
<1>1. q \in Seq(LevelShape) /\ Len(q) \in Nat \ {0}
  BY DEF LevelsFit
<1>2. IsFiniteSet(Listed(q)) /\ Cardinality(Listed(q)) \in Nat
  BY <1>1, ListedIs, ListedFinite
<1>3. \A i \in 1..Len(q) : q[i].members \in Seq(Providers) /\ q[i].members # <<>>
  <2>1. \A i \in 1..Len(q) : q[i] \in LevelShape
    BY <1>1
  <2>2. \A i \in 1..Len(q) : q[i].members # <<>>
    BY DEF LevelsFit
  <2> QED BY <2>1, <2>2 DEF LevelShape
<1>4. \A i \in 1..Len(q) : 1 \in 1..Len(q[i].members)
  BY <1>3
<1> DEFINE first == [i \in 1..Len(q) |-> q[i].members[1]]
<1>5. \A i \in 1..Len(q) : first[i] \in Listed(q)
  BY <1>1, <1>4, ListedIs
<1>6. \A i, j \in 1..Len(q) : first[i] = first[j] => i = j
  BY <1>4 DEF LevelsFit
<1>7. first \in Injection(1..Len(q), Listed(q))
  <2>1. first \in [1..Len(q) -> Listed(q)]
    BY <1>5
  <2>2. DOMAIN first = 1..Len(q)
    OBVIOUS
  <2> HIDE DEF first
  <2>3. IsInjective(first)
    BY <1>6, <2>2 DEF IsInjective
  <2> QED BY <2>1, <2>3 DEF Injection
<1>8. Cardinality(1..Len(q)) <= Cardinality(Listed(q))
  <2> HIDE DEF first
  <2> QED BY <1>2, <1>7, FS_Injection
<1>9. Cardinality(1..Len(q)) = Len(q)
  <2>1. PICK n \in Nat \ {0} : n = Len(q)
    BY <1>1
  <2>2. Cardinality(1..n) = IF 1 > n THEN 0 ELSE n - 1 + 1
    BY <2>1, FS_Interval
  <2> QED BY <2>1, <2>2
<1> QED BY <1>1, <1>2, <1>8, <1>9

\* Levels, with other providers on the first.
WithFirst(q, m) == <<[Head(q) EXCEPT !.members = m]>> \o Tail(q)

LEMMA HeadChanged ==
  ASSUME NEW q \in Seq(LevelShape), q # <<>>, NEW m \in Seq(Providers), NEW r,
         r = WithFirst(q, m)
  PROVE  /\ r \in Seq(LevelShape) /\ Len(r) = Len(q) /\ Len(q) \in Nat \ {0} /\ r # <<>>
         /\ r[1].members = m
         /\ \A i \in 1..Len(q) : i # 1 => r[i] = q[i]
<1>1. Head(q) = q[1] /\ q[1] \in LevelShape /\ Len(q) \in Nat \ {0}
  OBVIOUS
<1>2. PICK h : h = [Head(q) EXCEPT !.members = m]
  OBVIOUS
<1>3. h \in LevelShape /\ h.members = m
  BY <1>1, <1>2 DEF LevelShape
<1>4. Tail(q) \in Seq(LevelShape) /\ Len(Tail(q)) = Len(q) - 1
      /\ \A i \in 1..(Len(q) - 1) : Tail(q)[i] = q[i + 1]
  BY <1>1
<1>5. r = <<h>> \o Tail(q) /\ <<h>> \in Seq(LevelShape) /\ Len(<<h>>) = 1 /\ <<h>>[1] = h
  BY <1>2, <1>3 DEF WithFirst
<1>6. r \in Seq(LevelShape) /\ Len(r) = Len(q) /\ r[1] = h
  <2>1. PICK t \in Seq(LevelShape) : t = Tail(q) /\ Len(t) = Len(q) - 1
    BY <1>4
  <2>2. PICK s \in Seq(LevelShape) : s = <<h>> /\ Len(s) = 1 /\ s[1] = h
    BY <1>5
  <2>3. s \o t \in Seq(LevelShape) /\ Len(s \o t) = Len(s) + Len(t) /\ (s \o t)[1] = s[1]
    BY <2>2
  <2>4. r = s \o t
    BY <1>5, <2>1, <2>2
  <2>5. Len(s) + Len(t) = Len(q)
    BY <1>1, <2>1, <2>2
  <2> QED BY <2>2, <2>3, <2>4, <2>5
<1>7. ASSUME NEW i \in 1..Len(q), i # 1 PROVE r[i] = q[i]
  <2>1. i - 1 \in 1..(Len(q) - 1) /\ (i - 1) + 1 = i
    BY <1>1, <1>7
  <2>2. r[i] = Tail(q)[i - 1]
    BY <1>1, <1>4, <1>5, <2>1
  <2> QED BY <1>4, <2>1, <2>2
<1> QED BY <1>1, <1>3, <1>6, <1>7

\* Where the k-th of a level begun after n of them was, of s.
Place(s, n) == [k \in 1..s |-> IF k + n <= s THEN k + n ELSE k + n - s]

\* t is m in another order.
Reorders(t, m, at, s) ==
  /\ \A k \in 1..s : at[k] \in 1..s /\ t[k] = m[at[k]]
  /\ \A k, l \in 1..s : at[k] = at[l] => k = l
  /\ \A j \in 1..s : \E k \in 1..s : at[k] = j

\* A level that is turned has the same providers, each once.
LEMMA TurnedIs ==
  ASSUME NEW m \in Seq(Providers), NEW s \in Nat \ {0}, s = Len(m), NEW n \in Nat, n < s
  PROVE  /\ Turned(m, n) \in Seq(Providers) /\ Len(Turned(m, n)) = s
         /\ Reorders(Turned(m, n), m, Place(s, n), s)
<1> DEFINE at == [k \in 1..s |-> IF k + n <= s THEN k + n ELSE k + n - s]
<1>2. at \in [1..s -> 1..s]
  OBVIOUS
<1>3. \A k \in 1..s : ((k - 1 + n) % s) + 1 = at[k]
  <2> SUFFICES ASSUME NEW k \in 1..s PROVE ((k - 1 + n) % s) + 1 = at[k]
    OBVIOUS
  <2>1. CASE k + n <= s
    <3>1. (k - 1 + n) % s = k - 1 + n
      BY <2>1
    <3> QED BY <2>1, <3>1
  <2>2. CASE ~(k + n <= s)
    <3>1. (k - 1 + n) % s = k - 1 + n - s
      BY <2>2
    <3> QED BY <2>2, <3>1
  <2> QED BY <2>1, <2>2
<1>4. \A k \in 1..s : m[at[k]] \in Providers
  BY <1>2
<1>5. Turned(m, n) = [k \in 1..s |-> m[at[k]]]
  <2>1. Turned(m, n) = [k \in 1..s |-> m[((k - 1 + n) % s) + 1]]
    BY DEF Turned
  <2> HIDE DEF at
  <2> QED BY <1>3, <2>1
<1>6. \A k, l \in 1..s : at[k] = at[l] => k = l
  OBVIOUS
<1>7. \A j \in 1..s : \E k \in 1..s : at[k] = j
  <2> SUFFICES ASSUME NEW j \in 1..s PROVE \E k \in 1..s : at[k] = j
    OBVIOUS
  <2>1. CASE j > n
    <3>1. j - n \in 1..s /\ at[j - n] = j
      BY <2>1
    <3> QED BY <3>1
  <2>2. CASE ~(j > n)
    <3>1. j - n + s \in 1..s /\ at[j - n + s] = j
      BY <2>2
    <3> QED BY <3>1
  <2> QED BY <2>1, <2>2
<1>8. at = Place(s, n)
  BY DEF Place
<1> HIDE DEF at
<1>9. Turned(m, n) \in Seq(Providers) /\ Len(Turned(m, n)) = s
  BY <1>4, <1>5
<1>10. \A k \in 1..s : Turned(m, n)[k] = m[at[k]]
  BY <1>5
<1>11. Reorders(Turned(m, n), m, at, s)
  BY <1>2, <1>6, <1>7, <1>10 DEF Reorders
<1> QED BY <1>8, <1>9, <1>11

\* A turn of the first level changes nothing but the order of its providers.
LEMMA TurnKeeps ==
  ASSUME NEW q, LevelsFit(q), q # <<>>, NEW n \in Nat, n < Len(Head(q).members), NEW r,
         r = WithFirst(q, Turned(Head(q).members, n))
  PROVE  /\ LevelsFit(r) /\ r # <<>> /\ Len(r) = Len(q) /\ r[1].members # <<>>
         /\ Listed(r) = Listed(q)
<1>1. /\ q \in Seq(LevelShape) /\ q[1] \in LevelShape /\ Head(q) = q[1]
      /\ Len(q) \in Nat \ {0}
  BY DEF LevelsFit
<1>2. PICK m \in Seq(Providers) : m = q[1].members
  BY <1>1 DEF LevelShape
<1>3. PICK s \in Nat \ {0} : s = Len(m) /\ n < s
  BY <1>1, <1>2
<1>4. PICK t : t = Turned(m, n)
  OBVIOUS
<1>5. t \in Seq(Providers) /\ Len(t) = s
  BY <1>3, <1>4, TurnedIs
<1>6. PICK at : at = Place(s, n)
  OBVIOUS
<1>60. Reorders(t, m, at, s)
  BY <1>3, <1>4, <1>6, TurnedIs
<1>61. \A k \in 1..s : at[k] \in 1..s /\ t[k] = m[at[k]]
  BY <1>60 DEF Reorders
<1>62. \A k, l \in 1..s : at[k] = at[l] => k = l
  BY <1>60 DEF Reorders
<1>63. \A j \in 1..s : \E k \in 1..s : at[k] = j
  BY <1>60 DEF Reorders
<1>7. r = WithFirst(q, t)
  BY <1>1, <1>2, <1>4
<1>8. /\ r \in Seq(LevelShape) /\ Len(r) = Len(q) /\ r # <<>>
      /\ r[1].members = t /\ \A i \in 1..Len(q) : i # 1 => r[i] = q[i]
  BY <1>1, <1>5, <1>7, HeadChanged
<1> DEFINE Was(i, k) == IF i = 1 THEN at[k] ELSE k
<1>9. ASSUME NEW i \in 1..Len(q)
      PROVE  /\ i \in 1..Len(r) /\ Len(r[i].members) = Len(q[i].members)
             /\ \A k \in 1..Len(r[i].members) :
                  /\ Was(i, k) \in 1..Len(q[i].members)
                  /\ r[i].members[k] = q[i].members[Was(i, k)]
             /\ \A k, l \in 1..Len(r[i].members) : Was(i, k) = Was(i, l) => k = l
             /\ \A j \in 1..Len(q[i].members) : \E k \in 1..Len(r[i].members) : Was(i, k) = j
  <2>1. CASE i = 1
    <3>1. q[i].members = m /\ r[i].members = t /\ Len(m) = s /\ Len(t) = s /\ i \in 1..Len(r)
      BY <1>2, <1>3, <1>5, <1>8, <2>1
    <3>2. \A k : Was(i, k) = at[k]
      BY <2>1
    <3> HIDE DEF Was
    <3>3. \A k \in 1..Len(r[i].members) :
             /\ Was(i, k) \in 1..Len(q[i].members)
             /\ r[i].members[k] = q[i].members[Was(i, k)]
      BY <1>61, <3>1, <3>2
    <3>4. \A k, l \in 1..Len(r[i].members) : Was(i, k) = Was(i, l) => k = l
      BY <1>62, <3>1, <3>2
    <3>5. \A j \in 1..Len(q[i].members) : \E k \in 1..Len(r[i].members) : Was(i, k) = j
      BY <1>63, <3>1, <3>2
    <3> QED BY <3>1, <3>3, <3>4, <3>5
  <2>2. CASE i # 1
    BY <1>8, <2>2
  <2> QED BY <2>1, <2>2
<1> HIDE DEF Was
<1>12. ASSUME NEW i \in 1..Len(r), NEW j \in 1..Len(r),
              NEW k \in 1..Len(r[i].members), NEW l \in 1..Len(r[j].members),
              r[i].members[k] = r[j].members[l]
       PROVE  i = j /\ k = l
  <2>1. /\ i \in 1..Len(q) /\ Was(i, k) \in 1..Len(q[i].members)
        /\ j \in 1..Len(q) /\ Was(j, l) \in 1..Len(q[j].members)
        /\ q[i].members[Was(i, k)] = q[j].members[Was(j, l)]
    BY <1>8, <1>9, <1>12
  <2>2. i = j /\ Was(i, k) = Was(j, l)
    BY <2>1 DEF LevelsFit
  <2> QED BY <1>9, <2>1, <2>2
<1>13. \A i \in 1..Len(r) : i # 1 => r[i].members # <<>>
  BY <1>8 DEF LevelsFit
<1>14. Listed(r) = Listed(q)
  <2>1. ASSUME NEW x \in Listed(r) PROVE x \in Listed(q)
    <3>1. PICK i \in 1..Len(r) : \E k \in 1..Len(r[i].members) : x = r[i].members[k]
      BY <1>8, ListedIs
    <3>2. PICK k \in 1..Len(r[i].members) : x = r[i].members[k]
      BY <3>1
    <3>3. i \in 1..Len(q) /\ Was(i, k) \in 1..Len(q[i].members) /\ x = q[i].members[Was(i, k)]
      BY <1>8, <1>9, <3>2
    <3> QED BY <1>1, <3>3, ListedIs
  <2>2. ASSUME NEW x \in Listed(q) PROVE x \in Listed(r)
    <3>1. PICK i \in 1..Len(q) : \E k \in 1..Len(q[i].members) : x = q[i].members[k]
      BY <1>1, ListedIs
    <3>2. PICK j \in 1..Len(q[i].members) : x = q[i].members[j]
      BY <3>1
    <3>3. PICK k \in 1..Len(r[i].members) : Was(i, k) = j
      BY <1>9, <3>2
    <3>4. x = r[i].members[k] /\ i \in 1..Len(r)
      BY <1>9, <3>2, <3>3
    <3> QED BY <1>8, <3>4, ListedIs
  <2> QED BY <2>1, <2>2
<1>15. t # <<>>
  BY <1>5
<1> QED BY <1>8, <1>12, <1>13, <1>14, <1>15 DEF LevelsFit

\* The call of the first of the first level takes it off the list.
LEMMA CallTakes ==
  ASSUME NEW q, LevelsFit(q), q # <<>>, q[1].members # <<>>, NEW p,
         p = Head(Head(q).members), NEW r,
         r = WithFirst(q, Tail(Head(q).members))
  PROVE  /\ LevelsFit(r) /\ r # <<>> /\ Len(r) = Len(q)
         /\ p \in Listed(q) /\ Listed(r) = Listed(q) \ {p}
<1>1. /\ q \in Seq(LevelShape) /\ q[1] \in LevelShape /\ Head(q) = q[1]
      /\ Len(q) \in Nat \ {0} /\ 1 \in 1..Len(q)
  BY DEF LevelsFit
<1>2. PICK m \in Seq(Providers) : m = q[1].members /\ m # <<>>
  BY <1>1 DEF LevelShape
<1>3. PICK s \in Nat \ {0} : s = Len(m)
  BY <1>2
<1>4. PICK t : t = Tail(m)
  OBVIOUS
<1>5. /\ t \in Seq(Providers) /\ Len(t) = s - 1 /\ p = m[1]
      /\ \A k \in 1..(s - 1) : t[k] = m[k + 1]
  BY <1>1, <1>2, <1>3, <1>4
<1>6. r = WithFirst(q, t)
  BY <1>1, <1>2, <1>4
<1>7. /\ r \in Seq(LevelShape) /\ Len(r) = Len(q) /\ r # <<>>
      /\ r[1].members = t /\ \A i \in 1..Len(q) : i # 1 => r[i] = q[i]
  BY <1>1, <1>5, <1>6, HeadChanged
<1> DEFINE Was(i, k) == IF i = 1 THEN k + 1 ELSE k
<1>8. ASSUME NEW i \in 1..Len(r), NEW k \in 1..Len(r[i].members)
      PROVE  /\ i \in 1..Len(q) /\ Was(i, k) \in 1..Len(q[i].members)
             /\ r[i].members[k] = q[i].members[Was(i, k)]
  <2>1. CASE i = 1
    <3>1. k \in 1..(s - 1) /\ k + 1 \in 1..s
      BY <1>3, <1>5, <1>7, <2>1
    <3> QED BY <1>1, <1>2, <1>3, <1>5, <1>7, <2>1, <3>1
  <2>2. CASE i # 1
    BY <1>7, <2>2
  <2> QED BY <2>1, <2>2
<1>9. ASSUME NEW i \in 1..Len(r), NEW j \in 1..Len(r),
             NEW k \in 1..Len(r[i].members), NEW l \in 1..Len(r[j].members),
             r[i].members[k] = r[j].members[l]
      PROVE  i = j /\ k = l
  <2>1. /\ i \in 1..Len(q) /\ Was(i, k) \in 1..Len(q[i].members)
        /\ j \in 1..Len(q) /\ Was(j, l) \in 1..Len(q[j].members)
        /\ q[i].members[Was(i, k)] = q[j].members[Was(j, l)]
    BY <1>8, <1>9
  <2>2. i = j /\ Was(i, k) = Was(j, l)
    <3> HIDE DEF Was
    <3> QED BY <2>1 DEF LevelsFit
  <2>3. k \in Int /\ l \in Int
    BY <1>9
  <2> QED BY <2>2, <2>3
<1>10. \A i \in 1..Len(r) : i # 1 => r[i].members # <<>>
  BY <1>7 DEF LevelsFit
<1>11. 1 \in 1..Len(q[1].members) /\ q[1].members[1] = p
  BY <1>2, <1>3, <1>5
<1>12. p \in Listed(q)
  BY <1>1, <1>11, ListedIs
<1>13. ASSUME NEW x \in Listed(r) PROVE x \in Listed(q) \ {p}
  <2>1. PICK i \in 1..Len(r) : \E k \in 1..Len(r[i].members) : x = r[i].members[k]
    BY <1>7, ListedIs
  <2>2. PICK k \in 1..Len(r[i].members) : x = r[i].members[k]
    BY <2>1
  <2>3. /\ i \in 1..Len(q) /\ Was(i, k) \in 1..Len(q[i].members)
        /\ x = q[i].members[Was(i, k)]
    BY <1>8, <2>2
  <2>4. x \in Listed(q)
    <3> HIDE DEF Was
    <3> QED BY <1>1, <2>3, ListedIs
  <2>5. x # p
    <3> SUFFICES ASSUME x = p PROVE FALSE
      OBVIOUS
    <3>1. q[i].members[Was(i, k)] = q[1].members[1]
      BY <1>11, <2>3
    <3>2. i = 1 /\ Was(i, k) = 1
      <4> HIDE DEF Was
      <4> QED BY <1>1, <1>11, <2>3, <3>1 DEF LevelsFit
    <3>3. k \in Int /\ k >= 1
      BY <2>2
    <3> QED BY <3>2, <3>3
  <2> QED BY <2>4, <2>5
<1>14. ASSUME NEW x \in Listed(q), x # p PROVE x \in Listed(r)
  <2>1. PICK i \in 1..Len(q) : \E k \in 1..Len(q[i].members) : x = q[i].members[k]
    BY <1>1, ListedIs
  <2>2. PICK k \in 1..Len(q[i].members) : x = q[i].members[k]
    BY <2>1
  <2>3. \E l \in 1..Len(r[i].members) : x = r[i].members[l]
    <3>1. CASE i # 1
      BY <1>7, <2>2, <3>1
    <3>2. CASE i = 1
      <4>1. k \in 1..s /\ k # 1 /\ x = m[k]
        BY <1>2, <1>3, <1>11, <1>14, <2>2, <3>2
      <4>2. k - 1 \in 1..(s - 1) /\ (k - 1) + 1 = k
        BY <4>1
      <4>3. x = t[k - 1]
        BY <1>5, <4>1, <4>2
      <4> QED BY <1>5, <1>7, <3>2, <4>2, <4>3
    <3> QED BY <3>1, <3>2
  <2>4. i \in 1..Len(r)
    BY <1>7
  <2> QED BY <1>7, <2>3, <2>4, ListedIs
<1>15. Listed(r) = Listed(q) \ {p}
  BY <1>13, <1>14
<1> QED BY <1>7, <1>9, <1>10, <1>12, <1>15 DEF LevelsFit

\* After a level that is used up the next one has all that is listed, and after the last
\* one nobody is.
LEMMA LevelEnds ==
  ASSUME NEW q, LevelsFit(q), q # <<>>, q[1].members = <<>>
  PROVE  /\ Len(q) > 1 => /\ LevelsFit(Tail(q)) /\ Tail(q) # <<>>
                          /\ Tail(q)[1].members # <<>>
                          /\ Len(Tail(q)) = Len(q) - 1 /\ Listed(Tail(q)) = Listed(q)
         /\ ~(Len(q) > 1) => Listed(q) = {}
<1>1. /\ q \in Seq(LevelShape) /\ Len(q) \in Nat \ {0}
  BY DEF LevelsFit
<1>2. PICK t : t = Tail(q)
  OBVIOUS
<1>3. /\ t \in Seq(LevelShape) /\ Len(t) = Len(q) - 1
      /\ \A i \in 1..Len(t) : i + 1 \in 1..Len(q) /\ i + 1 # 1 /\ t[i] = q[i + 1]
  BY <1>1, <1>2
<1>4. 1..Len(q[1].members) = {}
  OBVIOUS
<1>5. ASSUME NEW x \in Listed(q)
      PROVE  \E i \in 1..Len(q) : i # 1 /\ \E k \in 1..Len(q[i].members) : x = q[i].members[k]
  BY <1>1, <1>4, ListedIs
<1>6. ~(Len(q) > 1) => Listed(q) = {}
  <2> SUFFICES ASSUME ~(Len(q) > 1), NEW x \in Listed(q) PROVE FALSE
    OBVIOUS
  <2> QED BY <1>1, <1>5
<1>7. ASSUME NEW x \in Listed(q) PROVE x \in Listed(t)
  <2>1. PICK i \in 1..Len(q) : i # 1 /\ \E k \in 1..Len(q[i].members) : x = q[i].members[k]
    BY <1>5
  <2>2. i - 1 \in 1..Len(t) /\ t[i - 1] = q[i]
    <3>1. i - 1 \in 1..Len(t) /\ (i - 1) + 1 = i
      BY <1>1, <1>3, <2>1
    <3> QED BY <1>3, <3>1
  <2> QED BY <1>3, <2>1, <2>2, ListedIs
<1>8. ASSUME NEW x \in Listed(t) PROVE x \in Listed(q)
  <2>0. t \in Seq(LevelShape)
    BY <1>3
  <2>1. PICK i \in 1..Len(t) : \E k \in 1..Len(t[i].members) : x = t[i].members[k]
    BY <1>8, <2>0, ListedIs
  <2>2. i + 1 \in 1..Len(q) /\ t[i] = q[i + 1]
    BY <1>3
  <2> QED BY <1>1, <2>1, <2>2, ListedIs
<1>9. ASSUME NEW i \in 1..Len(t), NEW j \in 1..Len(t),
             NEW k \in 1..Len(t[i].members), NEW l \in 1..Len(t[j].members),
             t[i].members[k] = t[j].members[l]
      PROVE  i = j /\ k = l
  <2>1. /\ i + 1 \in 1..Len(q) /\ j + 1 \in 1..Len(q)
        /\ t[i] = q[i + 1] /\ t[j] = q[j + 1]
    BY <1>3
  <2>2. i + 1 = j + 1 /\ k = l
    BY <1>9, <2>1 DEF LevelsFit
  <2> QED BY <2>2
<1>10. \A i \in 1..Len(t) : t[i].members # <<>>
  BY <1>3 DEF LevelsFit
<1>11. LevelsFit(t)
  BY <1>3, <1>9, <1>10 DEF LevelsFit
<1>12. Len(q) > 1 => t # <<>> /\ t[1].members # <<>>
  <2> SUFFICES ASSUME Len(q) > 1 PROVE t # <<>> /\ t[1].members # <<>>
    OBVIOUS
  <2>1. 1 \in 1..Len(t)
    BY <1>1, <1>3
  <2> QED BY <1>3, <1>10, <2>1
<1> QED BY <1>2, <1>3, <1>6, <1>7, <1>8, <1>11, <1>12

\* The levels of a bank: each provider on the level of its priority, once.
LEMMA GroupedFits ==
  ASSUME NEW level \in [Providers -> 0..Tiers], NEW q, q = Grouped(level)
  PROVE  /\ LevelsFit(q) /\ Len(q) \in Nat /\ Len(q) <= Tiers
         /\ \A i \in 1..Len(q) : q[i].members # <<>>
<1> DEFINE On(t) == {p \in Providers : level[p] = t}
           groups == [t \in 1..Tiers |-> [tier |-> t, members |-> Filtered(Order, On(t))]]
           S == {g \in Range(groups) : g.members # <<>>}
<1>1. q = Filtered(groups, S)
  BY DEF Grouped
<1>2. Order \in Seq(Providers) /\ IsInjective(Order) /\ Tiers \in Nat
  BY ChainNumbers
<1>3. \A t \in 1..Tiers : Filtered(Order, On(t)) \in Seq(Providers)
  <2> HIDE DEF On
  <2> QED BY <1>2, FilteredIs
<1>4. \A t \in 1..Tiers : Range(Filtered(Order, On(t))) \subseteq On(t)
  <2> HIDE DEF On
  <2> QED BY <1>2, FilteredIs
<1>5. \A t \in 1..Tiers : IsInjective(Filtered(Order, On(t)))
  <2> HIDE DEF On
  <2> QED BY <1>2, FilteredIs
<1>6. groups \in Seq(LevelShape) /\ Len(groups) = Tiers /\ DOMAIN groups = 1..Tiers
  <2> HIDE DEF On
  <2>1. groups \in [1..Tiers -> LevelShape]
    BY <1>3 DEF LevelShape
  <2>2. DOMAIN groups = 1..Tiers
    OBVIOUS
  <2> HIDE DEF groups
  <2> QED BY <1>2, <2>1, <2>2
<1>7. \A t \in 1..Tiers : groups[t].tier = t /\ groups[t].members = Filtered(Order, On(t))
  <2> HIDE DEF On
  <2> QED OBVIOUS
<1> HIDE DEF groups
<1>8. IsInjective(groups)
  <2>1. ASSUME NEW a \in 1..Tiers, NEW b \in 1..Tiers, groups[a] = groups[b] PROVE a = b
    <3>1. groups[a].tier = a /\ groups[b].tier = b
      BY <1>7
    <3> QED BY <2>1, <3>1
  <2> QED BY <1>6, <2>1 DEF IsInjective
<1> HIDE DEF S
<1>9. /\ q \in Seq(LevelShape) /\ Len(q) <= Tiers /\ Range(q) = Range(groups) \cap S
      /\ IsInjective(q)
  BY <1>1, <1>6, <1>8, FilteredIs
<1>10. DOMAIN q = 1..Len(q) /\ Len(q) \in Nat
  BY <1>9
<1>11. ASSUME NEW i \in 1..Len(q)
       PROVE  \E t \in 1..Tiers : q[i] = groups[t] /\ groups[t].members # <<>>
  <2>1. q[i] \in Range(groups) \cap S
    BY <1>9, <1>10 DEF Range
  <2>2. PICK t \in 1..Tiers : q[i] = groups[t]
    BY <1>6, <2>1 DEF Range
  <2>3. q[i].members # <<>>
    BY <2>1 DEF S
  <2> QED BY <2>2, <2>3
<1>12. ASSUME NEW t \in 1..Tiers, NEW k \in 1..Len(groups[t].members)
       PROVE  level[groups[t].members[k]] = t
  <2>1. PICK m \in Seq(Providers) : m = groups[t].members /\ m = Filtered(Order, On(t))
    BY <1>3, <1>7
  <2>2. m[k] \in Range(m)
    <3>1. DOMAIN m = 1..Len(m) /\ k \in 1..Len(m)
      BY <2>1
    <3> QED BY <3>1 DEF Range
  <2>3. m[k] \in On(t)
    BY <1>4, <2>1, <2>2
  <2> QED BY <2>1, <2>3
<1>13. ASSUME NEW i \in 1..Len(q), NEW j \in 1..Len(q),
              NEW k \in 1..Len(q[i].members), NEW l \in 1..Len(q[j].members),
              q[i].members[k] = q[j].members[l]
       PROVE  i = j /\ k = l
  <2>1. PICK t \in 1..Tiers : q[i] = groups[t]
    BY <1>11
  <2>2. PICK u \in 1..Tiers : q[j] = groups[u]
    BY <1>11
  <2>3. t = u
    <3>1. level[q[i].members[k]] = t
      BY <1>12, <2>1
    <3>2. level[q[j].members[l]] = u
      BY <1>12, <2>2
    <3> QED BY <1>13, <3>1, <3>2
  <2>4. i = j
    BY <1>9, <1>10, <2>1, <2>2, <2>3 DEF IsInjective
  <2>5. PICK m \in Seq(Providers) : m = q[i].members /\ IsInjective(m)
    BY <1>3, <1>5, <1>7, <2>1
  <2>6. k \in DOMAIN m /\ l \in DOMAIN m /\ m[k] = m[l]
    BY <1>13, <2>4, <2>5
  <2>7. k = l
    BY <2>5, <2>6 DEF IsInjective
  <2> QED BY <2>4, <2>7
<1>14. \A i \in 1..Len(q) : q[i].members # <<>>
  BY <1>11
<1> QED BY <1>9, <1>10, <1>13, <1>14 DEF LevelsFit

\* An equal part of the budget leaves the others theirs.
LEMMA Shares ==
  ASSUME NEW P \in Nat \ {0}, NEW W \in Nat \ {0}, NEW R \in Nat, R < W,
         NEW L \in Nat, L >= P * W + R
  PROVE  /\ L \div W \in Nat /\ L \div W >= P /\ L \div W <= L
         /\ L - (L \div W) >= P * (W - 1) + R
<1>1. PICK a \in Nat : a = L \div W /\ a * W <= L /\ L < (a + 1) * W
  OBVIOUS
<1>2. a >= P
  <2> SUFFICES ASSUME a + 1 <= P PROVE FALSE
    BY <1>1
  <2>1. (a + 1) * W <= P * W
    BY <1>1
  <2>2. PICK c \in Nat : c = (a + 1) * W
    BY <1>1
  <2>3. PICK d \in Nat : d = P * W
    OBVIOUS
  <2> QED BY <1>1, <2>1, <2>2, <2>3
<1>3. a <= L
  <2>1. a <= a * W
    BY <1>1
  <2>2. PICK c \in Nat : c = a * W
    BY <1>1
  <2> QED BY <1>1, <2>1, <2>2
<1>4. L - a >= P * (W - 1) + R
  <2>1. PICK d \in Nat : a = P + d
    BY <1>1, <1>2
  <2>2. PICK v \in Nat : W = v + 1
    OBVIOUS
  <2>3. PICK x \in Nat : x = P * v
    BY <2>2
  <2>4. P * W = x + P
    BY <2>2, <2>3
  <2>5. P * (W - 1) = x
    BY <2>2, <2>3
  <2>6. CASE d = 0
    BY <1>1, <2>1, <2>4, <2>5, <2>6
  <2>7. CASE d # 0
    <3>1. PICK y \in Nat : y = d * v
      BY <2>1, <2>2
    <3>2. y >= v
      BY <2>1, <2>2, <2>7, <3>1
    <3>3. a * W = x + P + y + d
      BY <2>1, <2>2, <2>3, <3>1
    <3> QED BY <1>1, <2>1, <2>2, <2>5, <3>2, <3>3
  <2> QED BY <2>6, <2>7
<1> QED BY <1>1, <1>2, <1>3, <1>4

-------------------------------------------------------------------------------
(* The chain of providers: what every step keeps.                           *)

LEMMA ShutFits ==
  /\ ShutGate \in [active : Providers \cup {Nobody}, buffers : [Providers -> Seq(Providers \X Nat)]]
  /\ ShutGate.active = Nobody /\ \A p \in Providers : ShutGate.buffers[p] = <<>>
<1>1. <<>> \in Seq(Providers \X Nat)
  OBVIOUS
<1>2. PICK b : b = [p \in Providers |-> <<>>]
  OBVIOUS
<1>3. b \in [Providers -> Seq(Providers \X Nat)] /\ \A p \in Providers : b[p] = <<>>
  BY <1>1, <1>2
<1>4. ShutGate = [active |-> Nobody, buffers |-> b]
  BY <1>2 DEF ShutGate
<1> QED BY <1>3, <1>4

LEMMA ChainStart == ChainInit => ChainInv
<1> SUFFICES ASSUME ChainInit PROVE ChainInv
  OBVIOUS
<1> /\ op = NoOp /\ queue = <<>> /\ left = 0 /\ asked = <<>> /\ gone = FALSE
    /\ reply = <<>> /\ gate = ShutGate /\ screen = <<>>
  BY DEF ChainInit
<1>1. ChainShapes
  <2>1. 0 \in 0..ChainBudget /\ <<>> \in Seq(Providers)
    BY ChainNumbers
  <2> QED BY <2>1, ShutFits DEF ChainShapes, NoOp
<1>2. op.at = "ready"
  BY DEF NoOp
<1>3. GateFits
  BY <1>2, ShutFits, ChainNumbers DEF GateFits
<1> QED BY <1>1, <1>2, <1>3 DEF ChainInv, Apart, TimeLeft, EveryoneHasTime, OneVoice

LEMMA BeginKeeps ==
  ASSUME ChainInv, NEW level \in [Providers -> 0..Tiers], NEW spent \in {0, LoadLimit},
         BeginOperation(level, spent)
  PROVE  ChainInv'
<1>1. PICK q : q = Grouped(level)
  OBVIOUS
<1>3. /\ op' = [NoOp EXCEPT !.at = IF q = <<>> THEN "unavailable" ELSE "rotating",
                            !.chain = Cardinality(Listed(q))]
      /\ queue' = q /\ left' = ChainBudget - spent /\ asked' = <<>> /\ gone' = FALSE
      /\ reply' = <<>> /\ gate' = ShutGate /\ screen' = <<>>
  BY <1>1 DEF BeginOperation
<1>4. /\ LevelsFit(q) /\ Len(q) \in Nat /\ Len(q) <= Tiers /\ q \in Seq(LevelShape)
      /\ \A i \in 1..Len(q) : q[i].members # <<>>
  <2>1. /\ LevelsFit(q) /\ Len(q) \in Nat /\ Len(q) <= Tiers
        /\ \A i \in 1..Len(q) : q[i].members # <<>>
    BY <1>1, GroupedFits
  <2>2. q \in Seq(LevelShape)
    BY <2>1 DEF LevelsFit
  <2> QED BY <2>1, <2>2
<1>5. PICK w \in Nat : w = Cardinality(Listed(q)) /\ w <= Len(Order)
  BY <1>4, ListedIs, ListedFinite
<1>6. /\ op'.at = IF q = <<>> THEN "unavailable" ELSE "rotating"
      /\ op'.chain = w /\ op'.by = Nobody
      /\ op' \in [at : {"ready", "rotating", "calling", "writing", "done", "unavailable",
                        "stopped"},
                  by : Providers \cup {Nobody}, allot : Nat, round : Nat, chain : Nat]
  BY <1>3, <1>5 DEF NoOp
<1>7. Len(asked') = 0 /\ Range(asked') = {} /\ asked' \in Seq(Providers)
  <2>1. DOMAIN asked' = {} /\ Len(asked') = 0 /\ asked' \in Seq(Providers)
    BY <1>3
  <2> QED BY <2>1 DEF Range
<1>8. left' \in 0..ChainBudget /\ left' >= Part * w + Len(q)
  <2>1. left' \in 0..ChainBudget /\ left' >= ChainBudget - LoadLimit
    <3>1. ChainBudget - LoadLimit \in Nat
      <4>1. PICK y \in Nat : y = Part * Len(Order)
        BY Parts, ChainNumbers
      <4> QED BY <4>1, Parts, ChainNumbers
    <3> QED BY <1>3, <3>1, ChainNumbers
  <2>2. Part * w <= Part * Len(Order) /\ Part * w \in Nat /\ Part * Len(Order) \in Nat
    <3>1. PICK n \in Nat : n = Len(Order)
      BY ChainNumbers
    <3> QED BY <1>5, <3>1, Parts
  <2>3. PICK x \in Nat : x = Part * w
    BY <2>2
  <2>4. PICK y \in Nat : y = Part * Len(Order)
    BY <2>2
  <2> QED BY <1>4, <2>1, <2>2, <2>3, <2>4, Parts, ChainNumbers
<1>9. ChainShapes'
  BY <1>3, <1>6, <1>7, <1>8, ShutFits DEF ChainShapes
<1>10. Waiting' = w /\ Share' = Part
  <2>1. RecordLimit * 0 = 0 /\ Part \in Nat
    BY Parts, ChainNumbers
  <2> QED BY <1>6, <1>7, <2>1 DEF Waiting, Share, Part
<1>11. Apart'
  BY <1>3, <1>4, <1>5, <1>6, <1>7 DEF Apart
<1>12. TimeLeft'
  <2>1. q # <<>> => q[1].members # <<>>
    BY <1>4
  <2> QED BY <1>3, <1>6, <1>8, <1>10, <2>1 DEF TimeLeft
<1>13. GateFits'
  BY <1>3, <1>6, ShutFits, ChainNumbers DEF GateFits
<1>14. EveryoneHasTime'
  <2>1. q = <<>> => Listed(q) = {}
    <3> SUFFICES ASSUME q = <<>>, NEW x \in Listed(q) PROVE FALSE
      OBVIOUS
    <3>1. 1..Len(q) = {}
      OBVIOUS
    <3> QED BY <1>4, <3>1, ListedIs
  <2>2. q = <<>> => w = 0
    BY <1>5, <2>1, FS_EmptySet
  <2> QED BY <1>6, <1>7, <2>2 DEF EveryoneHasTime
<1>15. OneVoice'
  BY <1>3, <1>6 DEF OneVoice
<1> QED BY <1>9, <1>11, <1>12, <1>13, <1>14, <1>15 DEF ChainInv

\* Somebody is listed as long as the first level has somebody, and whoever is has a unit of
\* time at least.
LEMMA SomeoneWaits ==
  ASSUME ChainInv, op.at \in {"rotating", "calling", "writing"}
  PROVE  /\ LevelsFit(queue) /\ queue # <<>> /\ Len(queue) \in Nat \ {0}
         /\ queue[1].members \in Seq(Providers) /\ Head(queue).members = queue[1].members
         /\ Len(asked) \in Nat /\ Waiting \in Nat /\ Waiting = Cardinality(Listed(queue))
         /\ IsFiniteSet(Listed(queue)) /\ Share \in Int /\ Share * Waiting \in Nat
         /\ Waiting # 0 => Share \in Nat \ {0}
         /\ queue[1].members # <<>> => Waiting >= Len(queue)
<1>1. /\ LevelsFit(queue) /\ queue # <<>> /\ asked \in Seq(Providers)
      /\ op.chain = Len(asked) + Cardinality(Listed(queue)) /\ op.chain <= Len(Order)
  BY DEF ChainInv, ChainShapes, Apart
<1>2. queue \in Seq(LevelShape)
  BY <1>1 DEF LevelsFit
<1>3. IsFiniteSet(Listed(queue)) /\ Cardinality(Listed(queue)) \in Nat
  BY <1>2, ListedIs, ListedFinite
<1>4. Len(asked) \in Nat /\ Waiting = Cardinality(Listed(queue))
  BY <1>1, <1>3 DEF Waiting
<1>5. Len(queue) \in Nat \ {0} /\ Head(queue) = queue[1] /\ queue[1] \in LevelShape
  BY <1>1, <1>2
<1>6. queue[1].members # <<>> => Waiting >= Len(queue)
  BY <1>1, <1>4, EnoughListed
<1>7. Share \in Int
  BY <1>4, Parts, ChainNumbers DEF Share
<1>8. ASSUME Waiting # 0 PROVE Share \in Nat \ {0}
  <2>1. PICK k \in Nat : k = Len(asked) /\ k <= Len(Order) - 1
    BY <1>1, <1>3, <1>4, <1>8, ChainNumbers
  <2>2. PICK n \in Nat : n = Len(Order) - 1
    BY ChainNumbers
  <2>3. RecordLimit * k <= RecordLimit * n
    BY <2>1, <2>2, ChainNumbers
  <2>4. PICK x \in Nat : x = RecordLimit * k
    BY <2>1, ChainNumbers
  <2>5. PICK y \in Nat : y = RecordLimit * n
    BY <2>2, ChainNumbers
  <2>6. Part \in Nat /\ Part >= 1 + y
    BY <2>2, <2>5, Parts
  <2>7. Share = Part - x
    BY <2>1, <2>4 DEF Share
  <2> QED BY <2>3, <2>4, <2>5, <2>6, <2>7
<1>9. Share * Waiting \in Nat
  <2>1. CASE Waiting = 0
    BY <1>7, <2>1
  <2>2. CASE Waiting # 0
    BY <1>3, <1>4, <1>8, <2>2
  <2> QED BY <2>1, <2>2
<1> QED BY <1>1, <1>3, <1>4, <1>5, <1>6, <1>7, <1>8, <1>9 DEF LevelShape

LEMMA RotateKeeps ==
  ASSUME ChainInv, NEW n \in 0..Len(Order), NEW spent \in {0, 1}, Rotate(n, spent)
  PROVE  ChainInv'
<1>1. /\ op.at = "rotating" /\ n < Len(Head(queue).members)
      /\ queue' = WithFirst(queue, Turned(Head(queue).members, n))
      /\ left' = left - spent /\ op' = [op EXCEPT !.at = "calling"]
      /\ asked' = asked /\ gone' = gone /\ reply' = reply /\ gate' = gate /\ screen' = screen
  BY DEF Rotate, WithFirst
<1>2. ChainShapes /\ Apart /\ TimeLeft /\ GateFits
  BY DEF ChainInv
<1>3. op'.at = "calling" /\ op'.chain = op.chain
  BY <1>1, <1>2 DEF ChainShapes
<1>4. LevelsFit(queue) /\ queue # <<>> /\ n \in Nat
  BY <1>1, <1>2, ChainNumbers DEF Apart
<1>5. /\ LevelsFit(queue') /\ queue' # <<>> /\ Len(queue') = Len(queue)
      /\ queue'[1].members # <<>> /\ Listed(queue') = Listed(queue)
  BY <1>1, <1>4, TurnKeeps
<1>6. Waiting' = Waiting /\ Share' = Share
  BY <1>1, <1>3 DEF Waiting, Share, Part
<1>7. Len(queue) \in Nat \ {0}
  BY <1>4 DEF LevelsFit
<1>9. PICK x \in Nat : x = Share * Waiting
  BY <1>1, SomeoneWaits
<1>10. left \in 0..ChainBudget /\ left >= x + Len(queue)
  BY <1>1, <1>2, <1>9 DEF ChainShapes, TimeLeft
<1>11. left' \in 0..ChainBudget /\ left' >= Share' * Waiting' + (Len(queue') - 1)
  <2>1. PICK k \in Nat : k = Len(queue) - 1
    <3>1. Len(queue) - 1 \in Nat
      BY <1>7
    <3> QED BY <3>1
  <2>2. PICK l \in Nat : l = left /\ l >= x + k + 1 /\ l <= ChainBudget
    BY <1>7, <1>10, <2>1, ChainNumbers
  <2>3. left' \in Nat /\ left' <= ChainBudget /\ left' >= x + k
    BY <1>1, <2>2, ChainNumbers
  <2> QED BY <1>5, <1>6, <1>9, <2>1, <2>3, ChainNumbers
<1>12. ChainShapes'
  BY <1>1, <1>2, <1>11 DEF ChainShapes
<1>13. Apart'
  BY <1>1, <1>2, <1>3, <1>5 DEF Apart
<1>14. TimeLeft'
  BY <1>3, <1>5, <1>11 DEF TimeLeft
<1>15. GateFits'
  BY <1>1, <1>2, <1>3 DEF GateFits
<1>16. EveryoneHasTime' /\ OneVoice'
  BY <1>3 DEF EveryoneHasTime, OneVoice
<1> QED BY <1>12, <1>13, <1>14, <1>15, <1>16 DEF ChainInv

LEMMA AskKeeps ==
  ASSUME ChainInv, Ask
  PROVE  ChainInv' /\ ~gone /\ \E p \in Providers : asked' = Append(asked, p) /\ p \notin Range(asked)
<1>1. /\ op.at = "calling" /\ ~gone /\ left > 0
      /\ op' = [op EXCEPT !.at = "writing", !.by = Head(Head(queue).members), !.round = 1,
                          !.allot = Least(TimeLimit, Allotted(Waiting))]
      /\ asked' = Append(asked, Head(Head(queue).members))
      /\ queue' = WithFirst(queue, Tail(Head(queue).members))
      /\ reply' = <<>>
      /\ left' = left /\ gone' = gone /\ gate' = gate /\ screen' = screen
  BY DEF Ask, WithFirst
<1>2. ChainShapes /\ Apart /\ TimeLeft /\ GateFits
  BY DEF ChainInv
<1>3. /\ LevelsFit(queue) /\ queue # <<>> /\ Len(queue) \in Nat \ {0}
      /\ queue[1].members \in Seq(Providers) /\ Head(queue).members = queue[1].members
      /\ Len(asked) \in Nat /\ Waiting \in Nat /\ Waiting = Cardinality(Listed(queue))
      /\ IsFiniteSet(Listed(queue))
      /\ queue[1].members # <<>> => Waiting >= Len(queue)
  BY <1>1, SomeoneWaits
<1>4. queue[1].members # <<>>
  BY <1>1, <1>2 DEF TimeLeft
<1>5. PICK p \in Providers : p = Head(Head(queue).members)
  BY <1>3, <1>4
<1>6. /\ LevelsFit(queue') /\ queue' # <<>> /\ Len(queue') = Len(queue)
      /\ p \in Listed(queue) /\ Listed(queue') = Listed(queue) \ {p}
  BY <1>1, <1>3, <1>4, <1>5, CallTakes
<1>7. PICK w \in Nat \ {0} : w = Waiting /\ w >= Len(queue)
  BY <1>3, <1>4
<1>24. PICK s \in Nat \ {0} : s = Share
  BY <1>1, <1>7, SomeoneWaits
<1>8. PICK r \in Nat : r = Len(queue) - 1 /\ r < w
  <2>1. PICK k \in Nat \ {0} : k = Len(queue) /\ w >= k
    BY <1>3, <1>7
  <2>2. k - 1 \in Nat /\ k - 1 < w
    BY <2>1
  <2> QED BY <2>1, <2>2
<1>9. left \in Nat /\ left \in 0..ChainBudget /\ left >= s * w + r
  BY <1>1, <1>2, <1>7, <1>8, <1>24, ChainNumbers DEF ChainShapes, TimeLeft
<1>10. PICK a \in Nat : /\ a = left \div w /\ a >= s /\ a <= left
                        /\ left - a >= s * (w - 1) + r
  BY <1>7, <1>8, <1>9, <1>24, Shares
<1>11. PICK b \in Nat : b = Least(TimeLimit, a) /\ b <= a /\ b >= Least(TimeLimit, s)
  BY <1>10, <1>24, ChainNumbers DEF Least
<1>12. /\ op'.at = "writing" /\ op'.by = p /\ op'.allot = b /\ op'.chain = op.chain
       /\ op' \in [at : {"ready", "rotating", "calling", "writing", "done", "unavailable",
                         "stopped"},
                   by : Providers \cup {Nobody}, allot : Nat, round : Nat, chain : Nat]
  BY <1>1, <1>2, <1>5, <1>7, <1>10, <1>11 DEF ChainShapes, Allotted
<1>13. /\ asked' = Append(asked, p) /\ asked' \in Seq(Providers) /\ Len(asked') = Len(asked) + 1
       /\ Range(asked') = Range(asked) \cup {p}
  <2>1. asked \in Seq(Providers) /\ asked' = Append(asked, p)
    BY <1>1, <1>2, <1>5 DEF ChainShapes
  <2>2. /\ DOMAIN asked = 1..Len(asked) /\ DOMAIN asked' = 1..(Len(asked) + 1)
        /\ asked'[Len(asked) + 1] = p /\ \A i \in 1..Len(asked) : asked'[i] = asked[i]
        /\ asked' \in Seq(Providers) /\ Len(asked') = Len(asked) + 1
    BY <2>1
  <2>3. 1..(Len(asked) + 1) = (1..Len(asked)) \cup {Len(asked) + 1}
    BY <1>3
  <2>4. ASSUME NEW x \in Range(asked') PROVE x \in Range(asked) \cup {p}
    BY <2>2, <2>3, <2>4 DEF Range
  <2>5. ASSUME NEW x \in Range(asked) PROVE x \in Range(asked')
    BY <2>2, <2>3, <2>5 DEF Range
  <2>6. p \in Range(asked')
    BY <2>2, <2>3 DEF Range
  <2> QED BY <2>1, <2>2, <2>4, <2>5, <2>6
<1>14. p \notin Range(asked)
  BY <1>1, <1>2, <1>6 DEF Apart
<1>15. Cardinality(Listed(queue')) = w - 1
  <2>1. IsFiniteSet(Listed(queue)) /\ Cardinality(Listed(queue)) = w
    BY <1>3, <1>7
  <2>2. Cardinality(Listed(queue) \ {p}) = Cardinality(Listed(queue)) - 1
    BY <1>6, <2>1, FS_RemoveElement
  <2> QED BY <1>6, <2>1, <2>2
<1>16. op.chain = Len(asked) + w
  BY <1>1, <1>2, <1>3, <1>7 DEF Apart
<1>17. Waiting' = w - 1
  BY <1>3, <1>12, <1>13, <1>16 DEF Waiting
<1>25. s = Share' + RecordLimit
  <2>1. PICK k \in Nat : k = Len(asked)
    BY <1>3
  <2>2. RecordLimit * (k + 1) = RecordLimit * k + RecordLimit /\ RecordLimit * k \in Nat
    BY <2>1, ChainNumbers
  <2>3. Len(asked') = k + 1
    BY <1>13, <2>1
  <2>4. PICK x \in Nat : x = RecordLimit * k
    BY <2>2
  <2>5. PICK c \in Nat : c = Part
    BY Parts
  <2>6. s = c - x
    BY <1>24, <2>1, <2>4, <2>5 DEF Share
  <2>7. Share' = c - (x + RecordLimit)
    BY <2>2, <2>3, <2>4, <2>5 DEF Share, Part
  <2> QED BY <2>4, <2>5, <2>6, <2>7, ChainNumbers
<1>18. ChainShapes'
  BY <1>1, <1>2, <1>12, <1>13 DEF ChainShapes
<1>19. Apart'
  <2>1. Range(asked') \cap Listed(queue') = {}
    BY <1>1, <1>2, <1>6, <1>13 DEF Apart
  <2>2. op'.chain = Len(asked') + Cardinality(Listed(queue')) /\ op'.chain <= Len(Order)
    BY <1>1, <1>2, <1>3, <1>12, <1>13, <1>15, <1>16 DEF Apart
  <2> QED BY <1>6, <2>1, <2>2 DEF Apart
<1>20. TimeLeft'
  <2>1. PICK x \in Nat : x = s * (w - 1)
    BY <1>7, <1>24
  <2>2. left - b >= x + r
    BY <1>9, <1>10, <1>11, <2>1
  <2>3. left' - op'.allot >= (Share' + RecordLimit) * Waiting' + (Len(queue') - 1)
    BY <1>1, <1>6, <1>8, <1>12, <1>17, <1>25, <2>1, <2>2
  <2> QED BY <1>12, <2>3 DEF TimeLeft
<1>21. GateFits'
  <2>1. gate.buffers[p] = <<>> /\ gate.active # p
    BY <1>2, <1>14 DEF GateFits
  <2>2. \A x \in Providers \ Range(asked') : gate'.buffers[x] = <<>> /\ gate'.active # x
    BY <1>1, <1>2, <1>13 DEF GateFits
  <2> QED BY <1>1, <1>12, <1>13, <2>1, <2>2 DEF GateFits
<1>22. EveryoneHasTime'
  <2>1. Len(asked') - 1 = Len(asked)
    BY <1>3, <1>13
  <2> QED BY <1>11, <1>12, <1>24, <2>1 DEF EveryoneHasTime, Share, Part
<1>23. OneVoice'
  BY <1>12 DEF OneVoice
<1> QED BY <1>1, <1>13, <1>14, <1>18, <1>19, <1>20, <1>21, <1>22, <1>23 DEF ChainInv

LEMMA GiveUpKeeps ==
  ASSUME ChainInv, GiveUp
  PROVE  ChainInv'
<1>1. /\ op.at = "calling" /\ (gone \/ left = 0)
      /\ op' = [op EXCEPT !.at = IF gone THEN "stopped" ELSE "unavailable"]
      /\ screen' = IF gone THEN screen ELSE <<>>
      /\ queue' = queue /\ left' = left /\ asked' = asked /\ gone' = gone /\ reply' = reply
      /\ gate' = gate
  BY DEF GiveUp
<1>2. ChainShapes /\ TimeLeft /\ GateFits
  BY DEF ChainInv
<1>3. gone
  <2> SUFFICES ASSUME left = 0 PROVE FALSE
    BY <1>1
  <2>1. queue[1].members # <<>> /\ 0 >= Share * Waiting + (Len(queue) - 1)
    BY <1>1, <1>2 DEF TimeLeft
  <2>2. Waiting \in Nat \ {0} /\ Len(queue) \in Nat \ {0}
    BY <1>1, <2>1, SomeoneWaits
  <2>3. PICK w \in Nat \ {0} : w = Waiting
    BY <2>2
  <2>5. PICK c \in Nat \ {0} : c = Share
    BY <1>1, <2>2, SomeoneWaits
  <2>4. c * w \in Nat \ {0}
    OBVIOUS
  <2> QED BY <2>1, <2>2, <2>3, <2>4, <2>5
<1>4. op'.at = "stopped" /\ screen' = screen
  BY <1>1, <1>2, <1>3 DEF ChainShapes
<1>5. ChainShapes'
  BY <1>1, <1>2 DEF ChainShapes
<1>6. GateFits'
  BY <1>1, <1>2, <1>4 DEF GateFits
<1> QED BY <1>4, <1>5, <1>6 DEF ChainInv, Apart, TimeLeft, EveryoneHasTime, OneVoice

LEMMA WriteTextKeeps ==
  ASSUME ChainInv, WriteText
  PROVE  ChainInv'
<1>1. PICK p : p = op.by
  OBVIOUS
<1>2. PICK d : d = <<p, op.round>>
  OBVIOUS
<1>3. /\ op.at = "writing" /\ reply' = Append(reply, d)
      /\ gate' = [gate EXCEPT !.buffers[p] = Append(gate.buffers[p], d),
                              !.active = IF @ = Nobody /\ ~gone THEN p ELSE @]
      /\ screen' = CASE gone -> screen
                     [] ~gone /\ gate.active = Nobody -> Append(gate.buffers[p], d)
                     [] ~gone /\ gate.active = p -> Append(screen, d)
                     [] OTHER -> screen
      /\ op' = op /\ queue' = queue /\ left' = left /\ asked' = asked /\ gone' = gone
  <2>1. /\ op.at = "writing" /\ reply' = Append(reply, <<op.by, op.round>>)
        /\ gate' = [gate EXCEPT !.buffers[op.by] = Append(gate.buffers[op.by], <<op.by, op.round>>),
                                !.active = IF @ = Nobody /\ ~gone THEN op.by ELSE @]
        /\ screen' = CASE gone -> screen
                       [] ~gone /\ gate.active = Nobody -> Append(gate.buffers[op.by], <<op.by, op.round>>)
                       [] ~gone /\ gate.active = op.by -> Append(screen, <<op.by, op.round>>)
                       [] OTHER -> screen
        /\ op' = op /\ queue' = queue /\ left' = left /\ asked' = asked /\ gone' = gone
    BY DEF WriteText
  <2> QED BY <1>1, <1>2, <2>1
<1>4. ChainShapes /\ Apart /\ TimeLeft /\ GateFits /\ EveryoneHasTime
  BY DEF ChainInv
<1>5. /\ p \in Range(asked) /\ p \in Providers /\ p # Nobody /\ reply = gate.buffers[p]
      /\ ~gone /\ gate.active = p => screen = reply
  <2>1. p \in Range(asked) /\ reply = gate.buffers[p] /\ (~gone /\ gate.active = p => screen = reply)
    BY <1>1, <1>3, <1>4 DEF GateFits
  <2>2. Range(asked) \subseteq Providers
    BY <1>4 DEF ChainShapes, Range
  <2> QED BY <2>1, <2>2, ChainNumbers
<1>6. PICK b \in [Providers -> Seq(Providers \X Nat)], a \in Providers \cup {Nobody} :
         gate = [active |-> a, buffers |-> b] /\ b = gate.buffers /\ a = gate.active
  BY <1>4 DEF ChainShapes
<1>7. d \in Providers \X Nat
  BY <1>2, <1>4, <1>5 DEF ChainShapes
<1>8. PICK c : c = [b EXCEPT ![p] = Append(b[p], d)]
  OBVIOUS
<1>9. /\ c \in [Providers -> Seq(Providers \X Nat)] /\ c[p] = Append(b[p], d)
      /\ \A x \in Providers : x # p => c[x] = b[x]
  BY <1>5, <1>6, <1>7, <1>8
<1>10. gate' = [active |-> IF a = Nobody /\ ~gone THEN p ELSE a, buffers |-> c]
  BY <1>3, <1>6, <1>8
<1>11. gate'.buffers = c /\ gate'.active = IF a = Nobody /\ ~gone THEN p ELSE a
  BY <1>10
<1>12. gate' \in [active : Providers \cup {Nobody}, buffers : [Providers -> Seq(Providers \X Nat)]]
  BY <1>5, <1>6, <1>9, <1>10
<1>13. ChainShapes'
  BY <1>3, <1>4, <1>12 DEF ChainShapes
<1>14. Apart' /\ TimeLeft' /\ EveryoneHasTime'
  BY <1>3, <1>4 DEF Apart, TimeLeft, EveryoneHasTime, Waiting, Share, Part
<1>15. GateFits'
  <2>1. ASSUME NEW x \in Providers \ Range(asked)
        PROVE  gate'.buffers[x] = <<>> /\ gate'.active # x
    <3>1. x # p /\ b[x] = <<>> /\ a # x
      BY <1>4, <1>5, <1>6 DEF GateFits
    <3> QED BY <1>9, <1>11, <3>1
  <2>2. reply' = gate'.buffers[p]
    BY <1>3, <1>5, <1>6, <1>9, <1>11
  <2>3. ~gone /\ gate'.active = p => screen' = reply'
    <3> SUFFICES ASSUME ~gone, gate'.active = p PROVE screen' = reply'
      OBVIOUS
    <3>1. CASE a = Nobody
      BY <1>3, <1>5, <1>6, <3>1
    <3>2. CASE a # Nobody
      <4>1. gate.active = p /\ screen = reply
        BY <1>5, <1>6, <1>11, <3>2
      <4>2. screen' = Append(screen, d)
        BY <1>3, <1>5, <4>1
      <4> QED BY <1>3, <4>1, <4>2
    <3> QED BY <3>1, <3>2
  <2> QED BY <1>1, <1>3, <1>5, <2>1, <2>2, <2>3 DEF GateFits
<1>16. OneVoice'
  BY <1>3 DEF OneVoice
<1> QED BY <1>13, <1>14, <1>15, <1>16 DEF ChainInv

LEMMA CallToolsKeeps ==
  ASSUME ChainInv, CallTools
  PROVE  ChainInv'
<1>1. PICK p : p = op.by
  OBVIOUS
<1>2. /\ op.at = "writing" /\ op' = [op EXCEPT !.round = @ + 1] /\ reply' = <<>>
      /\ gate' = [gate EXCEPT !.buffers[p] = <<>>]
      /\ screen' = IF gate.active = p /\ ~gone THEN <<>> ELSE screen
      /\ queue' = queue /\ left' = left /\ asked' = asked /\ gone' = gone
  BY <1>1 DEF CallTools
<1>3. ChainShapes /\ Apart /\ TimeLeft /\ GateFits /\ EveryoneHasTime
  BY DEF ChainInv
<1>4. /\ op'.at = op.at /\ op'.by = op.by /\ op'.allot = op.allot /\ op'.chain = op.chain
      /\ op' \in [at : {"ready", "rotating", "calling", "writing", "done", "unavailable",
                        "stopped"},
                  by : Providers \cup {Nobody}, allot : Nat, round : Nat, chain : Nat]
  <2>1. op \in [at : {"ready", "rotating", "calling", "writing", "done", "unavailable",
                     "stopped"},
               by : Providers \cup {Nobody}, allot : Nat, round : Nat, chain : Nat]
    BY <1>3 DEF ChainShapes
  <2>2. op.round + 1 \in Nat
    BY <2>1
  <2>3. PICK n \in Nat : n = op.round + 1
    BY <2>2
  <2>4. op' = [op EXCEPT !.round = n]
    BY <1>2, <2>3
  <2> QED BY <2>1, <2>4
<1>5. p \in Range(asked) /\ p \in Providers
  <2>1. Range(asked) \subseteq Providers
    BY <1>3 DEF ChainShapes, Range
  <2> QED BY <1>1, <1>2, <1>3, <2>1 DEF GateFits
<1>6. PICK b \in [Providers -> Seq(Providers \X Nat)], a \in Providers \cup {Nobody} :
         gate = [active |-> a, buffers |-> b] /\ b = gate.buffers /\ a = gate.active
  BY <1>3 DEF ChainShapes
<1>7. PICK c : c = [b EXCEPT ![p] = <<>>]
  OBVIOUS
<1>8. /\ c \in [Providers -> Seq(Providers \X Nat)] /\ c[p] = <<>>
      /\ \A x \in Providers : x # p => c[x] = b[x]
  BY <1>5, <1>6, <1>7
<1>9. gate' = [active |-> a, buffers |-> c]
  BY <1>2, <1>6, <1>7
<1>10. gate'.buffers = c /\ gate'.active = a
  BY <1>9
<1>15. gate' \in [active : Providers \cup {Nobody}, buffers : [Providers -> Seq(Providers \X Nat)]]
  BY <1>6, <1>8, <1>9
<1>11. ChainShapes'
  BY <1>2, <1>3, <1>4, <1>15 DEF ChainShapes
<1>12. Apart' /\ TimeLeft' /\ EveryoneHasTime'
  BY <1>2, <1>3, <1>4 DEF Apart, TimeLeft, EveryoneHasTime, Waiting, Share, Part
<1>13. GateFits'
  <2>1. ASSUME NEW x \in Providers \ Range(asked)
        PROVE  gate'.buffers[x] = <<>> /\ gate'.active # x
    <3>1. x # p /\ b[x] = <<>> /\ a # x
      BY <1>3, <1>5, <1>6 DEF GateFits
    <3> QED BY <1>8, <1>10, <3>1
  <2> QED BY <1>1, <1>2, <1>4, <1>5, <1>6, <1>8, <1>10, <2>1 DEF GateFits
<1>14. OneVoice'
  BY <1>2, <1>4 DEF OneVoice
<1> QED BY <1>11, <1>12, <1>13, <1>14 DEF ChainInv

LEMMA LeaveKeeps ==
  ASSUME ChainInv, Leave
  PROVE  ChainInv'
<1>1. /\ op.at \in {"rotating", "calling", "writing"} /\ gone' = TRUE
      /\ op' = op /\ queue' = queue /\ left' = left /\ asked' = asked /\ reply' = reply
      /\ gate' = gate /\ screen' = screen
  BY DEF Leave
<1> QED BY <1>1 DEF ChainInv, ChainShapes, Apart, TimeLeft, GateFits, EveryoneHasTime, OneVoice,
                    Waiting, Share, Part

LEMMA AnswerKeeps ==
  ASSUME ChainInv, Answer
  PROVE  ChainInv'
<1>1. /\ op.at = "writing" /\ ~gone
      /\ screen' = IF gate.active = op.by THEN screen ELSE gate.buffers[op.by]
      /\ op' = [op EXCEPT !.at = "done"]
      /\ queue' = queue /\ left' = left /\ asked' = asked /\ gone' = gone /\ reply' = reply
      /\ gate' = gate
  BY DEF Answer, Committed
<1>2. ChainShapes /\ GateFits
  BY DEF ChainInv
<1>3. op'.at = "done"
  BY <1>1, <1>2 DEF ChainShapes
<1>4. ChainShapes'
  BY <1>1, <1>2 DEF ChainShapes
<1>5. screen' = reply'
  BY <1>1, <1>2 DEF GateFits
<1>6. GateFits'
  BY <1>1, <1>2, <1>3 DEF GateFits
<1> QED BY <1>3, <1>4, <1>5, <1>6 DEF ChainInv, Apart, TimeLeft, EveryoneHasTime, OneVoice

LEMMA FailKeeps ==
  ASSUME ChainInv, NEW spent, NEW recording, NEW known \in BOOLEAN,
         Fail(spent, recording, known)
  PROVE  ChainInv'
<1> DEFINE next == NextOf(Head(queue).members)
           kept == IF known /\ ~gone THEN Withdrawn(op.by) ELSE [screen |-> screen, gate |-> gate]
<1>1. /\ op.at = "writing" /\ spent \in {0, op.allot} /\ recording \in {0, RecordLimit}
      /\ left' = Spent(spent + recording)
      /\ op' = [op EXCEPT !.at = next.at, !.by = Nobody, !.allot = 0, !.round = 0]
      /\ queue' = next.queue /\ gate' = kept.gate
      /\ screen' = IF next.at = "unavailable" THEN <<>> ELSE kept.screen
      /\ asked' = asked /\ gone' = gone
  BY DEF Fail
<1>2. ChainShapes /\ Apart /\ TimeLeft /\ GateFits
  BY DEF ChainInv
<1>3. /\ LevelsFit(queue) /\ queue # <<>> /\ Len(queue) \in Nat \ {0}
      /\ Head(queue).members = queue[1].members
      /\ Len(asked) \in Nat /\ Waiting \in Nat /\ Waiting = Cardinality(Listed(queue))
      /\ Share \in Int /\ (Waiting # 0 => Share \in Nat \ {0})
      /\ (queue[1].members # <<>> => Waiting >= Len(queue))
  BY <1>1, SomeoneWaits
<1>4. next = IF gone THEN [at |-> "stopped", queue |-> <<>>]
             ELSE IF queue[1].members # <<>> THEN [at |-> "calling", queue |-> queue]
             ELSE IF Len(queue) > 1 THEN [at |-> "rotating", queue |-> Tail(queue)]
             ELSE [at |-> "unavailable", queue |-> <<>>]
  BY <1>3 DEF NextOf
<1>5. /\ gate' \in [active : Providers \cup {Nobody}, buffers : [Providers -> Seq(Providers \X Nat)]]
      /\ gate'.buffers = gate.buffers /\ gate'.active \in {gate.active, Nobody}
  <2>1. gate \in [active : Providers \cup {Nobody}, buffers : [Providers -> Seq(Providers \X Nat)]]
    BY <1>2 DEF ChainShapes
  <2>2. gate' = gate \/ gate' = [gate EXCEPT !.active = Nobody]
    BY <1>1 DEF Withdrawn
  <2> QED BY <2>1, <2>2
<1> HIDE DEF kept
<1>6. next.at \in {"stopped", "calling", "rotating", "unavailable"}
  BY <1>4
<1> HIDE DEF next
<1>7. /\ op'.at = next.at /\ op'.chain = op.chain
      /\ op' \in [at : {"ready", "rotating", "calling", "writing", "done", "unavailable",
                        "stopped"},
                  by : Providers \cup {Nobody}, allot : Nat, round : Nat, chain : Nat]
  BY <1>1, <1>2, <1>6 DEF ChainShapes
<1>8. Waiting' = Waiting /\ Share' = Share
  BY <1>1, <1>7 DEF Waiting, Share, Part
<1>9. PICK a \in Nat : a = op.allot
  BY <1>2 DEF ChainShapes
<1>16. PICK c \in Nat : c = spent + recording /\ c <= a + RecordLimit
  <2>1. spent \in {0, a} /\ recording \in {0, RecordLimit}
    BY <1>1, <1>9
  <2>2. spent + recording \in Nat /\ spent + recording <= a + RecordLimit
    BY <2>1, ChainNumbers
  <2> QED BY <2>2
<1>10. left' \in 0..ChainBudget
  <2>1. left \in 0..ChainBudget /\ left' = IF c < left THEN left - c ELSE 0
    BY <1>1, <1>2, <1>16 DEF ChainShapes, Spent
  <2> QED BY <1>16, <2>1, ChainNumbers
<1>17. ASSUME Waiting # 0
       PROVE  Share * Waiting \in Nat /\ left' >= Share * Waiting + (Len(queue) - 1)
  <2>1. PICK w \in Nat \ {0} : w = Waiting
    BY <1>3, <1>17
  <2>2. PICK s \in Nat \ {0} : s = Share
    BY <1>3, <1>17
  <2>3. PICK l \in Nat : l = left /\ left' = IF c < l THEN l - c ELSE 0
    BY <1>1, <1>2, <1>16, ChainNumbers DEF ChainShapes, Spent
  <2>4. PICK n \in Nat : n = Len(queue) - 1
    <3>1. Len(queue) - 1 \in Nat
      BY <1>3
    <3> QED BY <3>1
  <2>5. PICK x \in Nat \ {0} : x = s * w
    <3>1. s * w \in Nat \ {0}
      BY <2>1, <2>2
    <3> QED BY <3>1
  <2>6. PICK y \in Nat : y = RecordLimit * w /\ y >= RecordLimit
    <3>1. RecordLimit * w \in Nat /\ RecordLimit * w >= RecordLimit
      BY <2>1, ChainNumbers
    <3> QED BY <3>1
  <2>7. (s + RecordLimit) * w = x + y
    BY <2>1, <2>2, <2>5, <2>6, ChainNumbers
  <2>8. l - a >= x + y + n
    BY <1>1, <1>2, <1>9, <2>1, <2>2, <2>3, <2>4, <2>7 DEF TimeLeft
  <2>9. left' >= x + n
    BY <1>16, <2>3, <2>4, <2>5, <2>6, <2>8, ChainNumbers
  <2> QED BY <2>1, <2>2, <2>4, <2>5, <2>9
<1>11. ChainShapes'
  BY <1>1, <1>2, <1>5, <1>7, <1>10 DEF ChainShapes
<1>12. GateFits'
  BY <1>1, <1>2, <1>5, <1>6, <1>7, ChainNumbers DEF GateFits
<1>13. OneVoice'
  BY <1>1, <1>6, <1>7 DEF OneVoice
<1>14. /\ Range(asked) \cap Listed(queue) = {}
       /\ op.chain = Len(asked) + Cardinality(Listed(queue)) /\ op.chain <= Len(Order)
  BY <1>1, <1>2 DEF Apart
<1>15. Apart' /\ TimeLeft' /\ EveryoneHasTime'
  <2>1. CASE next.at = "stopped"
    BY <1>7, <2>1 DEF Apart, TimeLeft, EveryoneHasTime
  <2>2. CASE next.at = "calling"
    <3>1. queue' = queue /\ queue[1].members # <<>>
      BY <1>1, <1>4, <2>2
    <3>2. Apart'
      BY <1>1, <1>3, <1>7, <1>14, <3>1 DEF Apart
    <3>3. Waiting # 0
      BY <1>3, <3>1
    <3>4. TimeLeft'
      BY <1>7, <1>8, <1>17, <2>2, <3>1, <3>3 DEF TimeLeft
    <3> QED BY <1>7, <2>2, <3>2, <3>4 DEF EveryoneHasTime
  <2>3. CASE next.at = "rotating"
    <3>1. queue' = Tail(queue) /\ queue[1].members = <<>> /\ Len(queue) > 1
      BY <1>1, <1>4, <2>3
    <3>2. /\ LevelsFit(queue') /\ queue' # <<>> /\ queue'[1].members # <<>>
          /\ Len(queue') = Len(queue) - 1 /\ Listed(queue') = Listed(queue)
      BY <1>3, <3>1, LevelEnds
    <3>3. Apart'
      BY <1>1, <1>7, <1>14, <3>2 DEF Apart
    <3>4. Waiting # 0
      <4>1. Cardinality(Listed(queue')) >= Len(queue') /\ Len(queue') \in Nat \ {0}
        BY <3>2, EnoughListed
      <4> QED BY <1>3, <3>2, <4>1
    <3>5. TimeLeft'
      BY <1>3, <1>7, <1>8, <1>17, <2>3, <3>2, <3>4 DEF TimeLeft
    <3> QED BY <1>7, <2>3, <3>3, <3>5 DEF EveryoneHasTime
  <2>4. CASE next.at = "unavailable"
    <3>1. queue[1].members = <<>> /\ ~(Len(queue) > 1)
      BY <1>4, <2>4
    <3>2. Listed(queue) = {}
      BY <1>3, <3>1, LevelEnds
    <3>3. Cardinality(Listed(queue)) = 0
      BY <3>2, FS_EmptySet
    <3>4. Len(asked') = op'.chain
      BY <1>1, <1>3, <1>7, <1>14, <3>3
    <3> QED BY <1>7, <2>4, <3>4 DEF Apart, TimeLeft, EveryoneHasTime
  <2> QED BY <1>6, <2>1, <2>2, <2>3, <2>4
<1> QED BY <1>11, <1>12, <1>13, <1>15 DEF ChainInv

\* A provider is called only when it was not, and not after the student has gone.
CallPaidOnce == Len(asked') > Len(asked) => ~gone /\ asked'[Len(asked')] \notin Range(asked)

LEMMA ChainStep ==
  ASSUME ChainInv, [ChainNext]_chainVars
  PROVE  ChainInv' /\ CallPaidOnce
<1>1. Len(asked) \in Nat /\ asked \in Seq(Providers)
  BY DEF ChainInv, ChainShapes
<1>2. asked' = asked => CallPaidOnce
  BY <1>1 DEF CallPaidOnce
<1>3. ASSUME NEW level \in [Providers -> 0..Tiers], NEW spent \in {0, LoadLimit},
             BeginOperation(level, spent)
      PROVE  ChainInv' /\ CallPaidOnce
  <2>1. ~(Len(asked') > Len(asked))
    BY <1>1, <1>3 DEF BeginOperation
  <2> QED BY <1>3, <2>1, BeginKeeps DEF CallPaidOnce
<1>13. Unread \in [Providers -> 0..Tiers]
  BY ChainNumbers DEF Unread
<1>4. ASSUME NEW n \in 0..Len(Order), NEW spent \in {0, 1}, Rotate(n, spent)
      PROVE  ChainInv' /\ CallPaidOnce
  <2>1. asked' = asked
    BY <1>4 DEF Rotate
  <2> QED BY <1>2, <1>4, <2>1, RotateKeeps
<1>5. CASE Ask
  <2>1. PICK p \in Providers : asked' = Append(asked, p) /\ p \notin Range(asked) /\ ~gone
    BY <1>5, AskKeeps
  <2>2. Len(asked') = Len(asked) + 1 /\ asked'[Len(asked) + 1] = p
    BY <1>1, <2>1
  <2> QED BY <1>5, <2>1, <2>2, AskKeeps DEF CallPaidOnce
<1>6. CASE GiveUp
  <2>1. asked' = asked
    BY <1>6 DEF GiveUp
  <2> QED BY <1>2, <1>6, <2>1, GiveUpKeeps
<1>7. CASE WriteText
  <2>1. asked' = asked
    BY <1>7 DEF WriteText
  <2> QED BY <1>2, <1>7, <2>1, WriteTextKeeps
<1>8. CASE CallTools
  <2>1. asked' = asked
    BY <1>8 DEF CallTools
  <2> QED BY <1>2, <1>8, <2>1, CallToolsKeeps
<1>9. CASE Leave
  <2>1. asked' = asked
    BY <1>9 DEF Leave
  <2> QED BY <1>2, <1>9, <2>1, LeaveKeeps
<1>10. CASE Answer
  <2>1. asked' = asked
    BY <1>10 DEF Answer
  <2> QED BY <1>2, <1>10, <2>1, AnswerKeeps
<1>11. ASSUME NEW spent \in {0, op.allot}, NEW recording \in {0, RecordLimit},
              NEW known \in BOOLEAN, Fail(spent, recording, known)
       PROVE  ChainInv' /\ CallPaidOnce
  <2>1. asked' = asked
    BY <1>11 DEF Fail
  <2> QED BY <1>2, <1>11, <2>1, FailKeeps
<1>12. CASE UNCHANGED chainVars
  <2>1. asked' = asked
    BY <1>12 DEF chainVars
  <2>2. ChainInv'
    BY <1>12 DEF chainVars, ChainInv, ChainShapes, Apart, TimeLeft, GateFits, EveryoneHasTime,
                 OneVoice, Waiting, Share, Part
  <2> QED BY <1>2, <2>1, <2>2
<1> QED BY <1>3, <1>4, <1>5, <1>6, <1>7, <1>8, <1>9, <1>10, <1>11, <1>12, <1>13
     DEF ChainNext

\* Of every operation on the chain of providers, for any bank, any number of providers and
\* priorities and any budget that has the readings and, for each provider, a unit and the
\* recording of the other calls: a provider that is called has its share of the budget less
\* what recording the calls before may have taken of it, and nobody answers only after everyone was
\* asked; each is called once, and none after the student has gone (Execute); and the page
\* shows, at the end of an answer, what its last provider wrote in its last round and nothing
\* of another (the stream gate of the assistant).
THEOREM ChainKept == ChainSpec => ChainHolds
<1>1. ChainInit => ChainInv
  BY ChainStart
<1>2. ChainInv /\ [ChainNext]_chainVars => ChainInv'
  BY ChainStep
<1>3. ChainInv => ChainTypeOK /\ EveryoneHasTime /\ OneVoice
  BY DEF ChainInv, ChainShapes, ChainTypeOK
<1>4. ChainInv /\ [ChainNext]_chainVars
        => [Len(asked') > Len(asked) => ~gone /\ asked'[Len(asked')] \notin Range(asked)]_chainVars
  BY ChainStep DEF CallPaidOnce
<1> QED BY <1>1, <1>2, <1>3, <1>4, PTL DEF ChainSpec, ChainHolds, TurnPaidOnce

===============================================================================
