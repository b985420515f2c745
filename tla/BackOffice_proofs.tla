----------------------------- MODULE BackOffice_proofs -----------------------------
(***************************************************************************)
(* Proofs about what is published and administered: the daily limits and   *)
(* who is online, the bank of providers, blog posts and their writers, and *)
(* materials; for any number of replicas, hand-ins, visitors, trims,       *)
(* administrators, editors, writers and versions.                          *)
(***************************************************************************)
EXTENDS DailyLimits, Presence, ProviderBank, Blog, Materials, FiniteSetTheorems, TLAPS

-------------------------------------------------------------------------------
(* The daily limits: the inductive invariant.                               *)

\* What a replica has read in the row, or has written there, was saved.
FromTheRow ==
  /\ stored \in saved
  /\ \A r \in Replicas :
       /\ fill[r].known => fill[r].limits \in saved
       /\ update[r].at \in {"remembering", "publishing"} => update[r].limits \in saved

DailyInv == DailyTypeOK /\ FromTheRow /\ LimitsHold

\* A copy that is known is one of limits, and an update that was begun has limits.
LEMMA DailyShapes ==
  ASSUME DailyTypeOK, NEW r \in Replicas
  PROVE  /\ memory[r] \in MaybeLimits /\ fill[r] \in MaybeLimits
         /\ memory[r].known => memory[r].limits \in LimitValues
         /\ fill[r].known => fill[r].limits \in LimitValues
         /\ update[r].at \in {"saving", "remembering", "publishing"} =>
              update[r] \in [at : {"saving", "remembering", "publishing"}, limits : LimitValues]
BY DEF DailyTypeOK, MaybeLimits, Known, NoCopy, NoUpdate

\* The initial state is in the invariant.
LEMMA DailyInvInit == DailyInit => DailyInv
<1> SUFFICES ASSUME DailyInit PROVE DailyInv
  OBVIOUS
<1>1. DailyTypeOK
  BY LimitAssumption DEF DailyInit, DailyTypeOK, LimitValues, MaybeLimits
<1>2. FromTheRow /\ LimitsHold
  BY DEF DailyInit, FromTheRow, LimitsHold, NoCopy, NoUpdate
<1> QED BY <1>1, <1>2 DEF DailyInv

\* A use that is taken is one the limit of the replica leaves, and the day's highest limit
\* is no less: the counter and the limits are numbers of one range.
LEMMA UseTaken ==
  ASSUME DailyTypeOK, LimitsHold, NEW r \in Replicas, NEW h \in Handins, NEW s \in Scopes, Allow(r, h, s)
  PROVE  /\ used' \in [Scopes -> 0..MaxLimit] /\ granted' \in [Scopes -> 0..MaxLimit]
         /\ handin' \in [Handins -> Scopes \cup {"idle"}]
         /\ \A x \in Scopes : used'[x] <= granted'[x]
<1> DEFINE limit == memory[r].limits[s]
<1>1. limit \in 0..MaxLimit
  BY DailyShapes DEF Allow, LimitValues
<1>2. /\ used \in [Scopes -> 0..MaxLimit] /\ granted \in [Scopes -> 0..MaxLimit]
      /\ \A x \in Scopes : used[x] <= granted[x]
      /\ MaxLimit \in Nat
  BY LimitAssumption DEF DailyTypeOK, LimitsHold
<1> DEFINE takes == limit > 0 /\ used[s] < limit
<1>3. /\ used' = [used EXCEPT ![s] = IF takes THEN @ + 1 ELSE @]
      /\ granted' = [granted EXCEPT ![s] = IF takes /\ limit > @ THEN limit ELSE @]
      /\ handin' = [handin EXCEPT ![h] = "idle"]
  BY DEF Allow, UsesLeft
<1> HIDE DEF limit
<1>4. CASE takes
  BY <1>1, <1>2, <1>3, <1>4 DEF DailyTypeOK
<1>5. CASE ~takes
  BY <1>1, <1>2, <1>3, <1>5 DEF DailyTypeOK
<1> QED BY <1>4, <1>5

\* Every step preserves the invariant.
LEMMA DailyInvStep == DailyInv /\ [DailyNext]_dailyVars => DailyInv'
<1> SUFFICES ASSUME DailyInv, [DailyNext]_dailyVars PROVE DailyInv'
  OBVIOUS
<1>0. DailyTypeOK /\ FromTheRow /\ LimitsHold
  BY DEF DailyInv
<1>1. ASSUME NEW r \in Replicas, GetShared(r) PROVE DailyInv'
  BY <1>0, <1>1, DailyShapes DEF GetShared, useVars, DailyInv, DailyTypeOK, FromTheRow, LimitsHold
<1>2. ASSUME NEW r \in Replicas, GetStored(r) PROVE DailyInv'
  BY <1>0, <1>2 DEF GetStored, useVars, DailyInv, DailyTypeOK, FromTheRow, LimitsHold,
     MaybeLimits, Known
<1>3. ASSUME NEW r \in Replicas, GetDefaults(r) PROVE DailyInv'
  <2>1. Defaults \in LimitValues
    BY LimitAssumption DEF Defaults, LimitValues
  <2> QED BY <1>0, <1>3, <2>1 DEF GetDefaults, useVars, DailyInv, DailyTypeOK, FromTheRow,
          LimitsHold, MaybeLimits, Known
<1>4. ASSUME NEW r \in Replicas, FillRedis(r) PROVE DailyInv'
  BY <1>0, <1>4 DEF FillRedis, useVars, DailyInv, DailyTypeOK, FromTheRow, LimitsHold, NoCopy,
     MaybeLimits
<1>5. ASSUME NEW r \in Replicas, MemoryLapses(r) PROVE DailyInv'
  BY <1>0, <1>5 DEF MemoryLapses, useVars, DailyInv, DailyTypeOK, FromTheRow, LimitsHold, NoCopy,
     MaybeLimits
<1>6. ASSUME NEW r \in Replicas, Update(r) PROVE DailyInv'
  <2>1. PICK s \in Scopes, limit \in 0..MaxLimit :
          /\ update' = [update EXCEPT ![r] =
               [at |-> "saving", limits |-> [memory[r].limits EXCEPT ![s] = limit]]]
          /\ UNCHANGED memory
    BY <1>6 DEF Update, BeforeSaving
  <2>2. [memory[r].limits EXCEPT ![s] = limit] \in LimitValues
    BY <1>0, <1>6, DailyShapes DEF Update, LimitValues
  <2>3. updates' \in 0..MaxUpdates
    BY <1>0, <1>6, LimitAssumption DEF Update, DailyTypeOK
  <2> QED BY <1>0, <1>6, <2>1, <2>2, <2>3 DEF Update, useVars, DailyInv, DailyTypeOK, FromTheRow,
          LimitsHold
<1>7. ASSUME NEW r \in Replicas, Upsert(r) PROVE DailyInv'
  <2>1. update[r] \in [at : {"saving", "remembering", "publishing"}, limits : LimitValues]
    BY <1>0, <1>7, DailyShapes DEF Upsert
  <2>2. CASE stored' = stored
    BY <1>0, <1>7, <2>1, <2>2 DEF Upsert, useVars, DailyInv, DailyTypeOK, FromTheRow, LimitsHold,
       NoUpdate
  <2>3. CASE /\ stored' = update[r].limits
             /\ saved' = saved \cup {update[r].limits}
             /\ update' = [update EXCEPT ![r].at = "remembering"]
    <3>1. [update[r] EXCEPT !.at = "remembering"]
            \in [at : {"saving", "remembering", "publishing"}, limits : LimitValues]
      BY <2>1
    <3>2. update' = [update EXCEPT ![r] = [update[r] EXCEPT !.at = "remembering"]]
      BY <2>3
    <3> QED BY <1>0, <1>7, <2>1, <2>3, <3>1, <3>2 DEF Upsert, useVars, DailyInv, DailyTypeOK,
            FromTheRow, LimitsHold
  <2> QED BY <1>7, <2>2, <2>3 DEF Upsert
<1>8. ASSUME NEW r \in Replicas, Remember(r) PROVE DailyInv'
  <2>1. update[r] \in [at : {"saving", "remembering", "publishing"}, limits : LimitValues]
    BY <1>0, <1>8, DailyShapes DEF Remember
  <2>2. [update[r] EXCEPT !.at = "publishing"]
          \in [at : {"saving", "remembering", "publishing"}, limits : LimitValues]
    BY <2>1
  <2>3. update' = [update EXCEPT ![r] = [update[r] EXCEPT !.at = "publishing"]]
    BY <1>8 DEF Remember
  <2> QED BY ZenonT(30), <1>0, <1>8, <2>1, <2>2, <2>3 DEF Remember, useVars, DailyInv, DailyTypeOK, FromTheRow,
          LimitsHold, MaybeLimits, Known
<1>9. ASSUME NEW r \in Replicas, SyncRedis(r) PROVE DailyInv'
  <2>1. update[r].limits \in saved /\ update[r].limits \in LimitValues
    BY <1>0, <1>9, DailyShapes DEF SyncRedis, FromTheRow
  <2> QED BY <1>0, <1>9, <2>1 DEF SyncRedis, useVars, DailyInv, DailyTypeOK, FromTheRow, LimitsHold,
          MaybeLimits, Known, NoUpdate
<1>10. ASSUME NEW r \in Replicas, NEW h \in Handins, NEW s \in Scopes, Check(r, h, s)
       PROVE  DailyInv'
  BY <1>0, <1>10 DEF Check, settingVars, DailyInv, DailyTypeOK, FromTheRow, LimitsHold
<1>11. ASSUME NEW r \in Replicas, NEW h \in Handins, NEW s \in Scopes, Allow(r, h, s)
       PROVE  DailyInv'
  <2>1. UNCHANGED settingVars
    BY <1>11 DEF Allow
  <2> QED BY <1>0, <1>11, <2>1, UseTaken DEF settingVars, DailyInv, DailyTypeOK, FromTheRow, LimitsHold
<1>12. CASE SharedLapses
  BY <1>0, <1>12 DEF SharedLapses, useVars, DailyInv, DailyTypeOK, FromTheRow, LimitsHold, NoCopy,
     MaybeLimits
<1>13. CASE NextDay
  BY <1>0, <1>13, LimitAssumption DEF NextDay, settingVars, DailyInv, DailyTypeOK, FromTheRow, LimitsHold
<1>14. CASE UNCHANGED dailyVars
  BY <1>0, <1>14 DEF dailyVars, DailyInv, DailyTypeOK, FromTheRow, LimitsHold
<1> QED BY <1>1, <1>2, <1>3, <1>4, <1>5, <1>6, <1>7, <1>8, <1>9, <1>10, <1>11, <1>12, <1>13, <1>14
        DEF DailyNext

\* The uses of a day never go over the highest limit one of them was granted under, however
\* many hand-ins run Allow together; and no replica, nor Redis, knows limits that were never
\* saved, but for the defaults.
THEOREM LimitsKept == DailySpec => []LimitsHold
<1>1. DailyInv => LimitsHold
  BY DEF DailyInv
<1> QED BY <1>1, DailyInvInit, DailyInvStep, PTL DEF DailySpec

-------------------------------------------------------------------------------
(* Presence: the inductive invariant.                                       *)

\* Until a trim removes what it listed, only visitors it listed have a score no later than
\* its cutoff: whoever came back has a later one, the cutoff being in the past.
TrimsAgree ==
  \A t \in Trims : trim[t] # NoTrim =>
    /\ trim[t].cutoff < time
    /\ \A v \in Visitors : Before(v, trim[t].cutoff) => v \in trim[t].stale

PresenceInv == PresenceTypeOK /\ TrimsAgree /\ PresenceHolds

\* The initial state is in the invariant.
LEMMA PresenceInvInit == PresenceInit => PresenceInv
<1> SUFFICES ASSUME PresenceInit PROVE PresenceInv
  OBVIOUS
<1>1. Gone \in 0..Gone /\ 0 \in 0..MaxTime
  BY PresenceAssumption DEF Gone
<1>2. PresenceTypeOK
  BY <1>1 DEF PresenceInit, PresenceTypeOK
<1>3. TrimsAgree /\ PresenceHolds
  BY DEF PresenceInit, TrimsAgree, PresenceHolds
<1> QED BY <1>2, <1>3 DEF PresenceInv

\* What a step does to the day's key leaves the visitors online alone.
LEMMA DayStep ==
  ASSUME PresenceInv, NEW r \in Servers,
         \/ TouchUser(r) \/ IntervalEnds(r) \/ Mark(r) \/ MarkFails(r)
         \/ InsertDay(r) \/ InsertFails(r) \/ UndoMark(r) \/ TouchLost(r)
  PROVE  PresenceInv'
<1>0. /\ PresenceTypeOK /\ TrimsAgree /\ PresenceHolds
      /\ touch \in [Servers -> {"idle", "marking", "inserting", "undoing"}]
      /\ recent \subseteq Servers
  BY DEF PresenceInv, PresenceTypeOK
<1>1. UNCHANGED onlineVars
  BY DEF TouchUser, IntervalEnds, Mark, MarkFails, InsertDay, InsertFails, UndoMark, TouchLost
<1>2. PresenceTypeOK'
  BY <1>0, <1>1 DEF PresenceTypeOK, onlineVars, TouchUser, IntervalEnds, Mark, MarkFails, InsertDay,
     InsertFails, UndoMark, ForgetKey, TouchLost, Goes
<1>3. (seenKey => activity \/ orphaned \/ \E q \in Servers : touch[q] \in {"inserting", "undoing"})'
  <2>0. seenKey => activity \/ orphaned \/ \E q \in Servers : touch[q] \in {"inserting", "undoing"}
    BY <1>0 DEF PresenceHolds
  <2>1. CASE TouchUser(r)
    BY <1>0, <2>0, <2>1 DEF TouchUser, Goes
  <2>2. CASE IntervalEnds(r)
    BY <1>0, <2>0, <2>2 DEF IntervalEnds
  <2>3. CASE Mark(r)
    BY <1>0, <2>0, <2>3 DEF Mark, Goes
  <2>4. CASE MarkFails(r)
    <3>0. seenKey \in BOOLEAN /\ orphaned \in BOOLEAN
      BY <1>0 DEF PresenceTypeOK
    <3> QED BY <1>0, <2>0, <2>4, <3>0 DEF MarkFails, Goes
  <2>5. CASE InsertDay(r)
    BY <2>5 DEF InsertDay
  <2>6. CASE InsertFails(r)
    BY <1>0, <2>0, <2>6 DEF InsertFails, Goes
  <2>7. CASE UndoMark(r)
    BY <2>7 DEF UndoMark, ForgetKey
  <2>8. CASE TouchLost(r)
    BY <2>8 DEF TouchLost
  <2> QED BY <2>1, <2>2, <2>3, <2>4, <2>5, <2>6, <2>7, <2>8
<1>4. TrimsAgree'
  BY <1>0, <1>1 DEF TrimsAgree, Before, onlineVars
<1>5. (\A v \in path : score[v] # Gone)'
  BY <1>0, <1>1 DEF PresenceHolds, onlineVars
<1> QED BY <1>2, <1>3, <1>4, <1>5 DEF PresenceInv, PresenceHolds

\* A trim in flight has a cutoff and the visitors it listed.
LEMMA TrimShape ==
  ASSUME PresenceTypeOK, NEW t \in Trims, trim[t] # NoTrim
  PROVE  trim[t] \in [at : {"removing"}, cutoff : 0..MaxTime, stale : SUBSET Visitors]
BY DEF PresenceTypeOK

\* What a step does to the visitors online leaves the day's key alone.
LEMMA OnlineStep ==
  ASSUME PresenceInv,
         \/ ClockTicks
         \/ \E v \in Visitors : Ping(v)
         \/ \E t \in Trims : ListStale(t) \/ RemoveStale(t) \/ TrimFails(t)
  PROVE  PresenceInv'
<1>0. /\ PresenceTypeOK /\ TrimsAgree /\ PresenceHolds
      /\ time \in 0..MaxTime
      /\ score \in [Visitors -> 0..Gone]
      /\ path \subseteq Visitors
      /\ trim \in [Trims -> [at : {"removing"}, cutoff : 0..MaxTime, stale : SUBSET Visitors] \cup {NoTrim}]
      /\ \A v \in path : score[v] # Gone
      /\ MaxTime \in Nat /\ OnlineWindow \in Nat /\ OnlineWindow > 0 /\ Gone = MaxTime + 1
  BY PresenceAssumption DEF PresenceInv, PresenceTypeOK, PresenceHolds, Gone
<1> DEFINE OnlineOK ==
      /\ time \in 0..MaxTime
      /\ score \in [Visitors -> 0..Gone]
      /\ path \subseteq Visitors
      /\ trim \in [Trims -> [at : {"removing"}, cutoff : 0..MaxTime, stale : SUBSET Visitors] \cup {NoTrim}]
      /\ \A v \in path : score[v] # Gone
<1>1. CASE ClockTicks
  <2>1. OnlineOK' /\ TrimsAgree'
    BY <1>0, <1>1, TrimShape DEF ClockTicks, TrimsAgree, Before, Gone
  <2> QED BY <1>0, <1>1, <2>1 DEF ClockTicks, dayVars, PresenceInv, PresenceTypeOK, PresenceHolds
<1>2. ASSUME NEW v \in Visitors, Ping(v) PROVE PresenceInv'
  <2>1. OnlineOK'
    BY <1>0, <1>2 DEF Ping, Gone
  <2>2. TrimsAgree'
    <3> SUFFICES ASSUME NEW t \in Trims, trim[t] # NoTrim
                 PROVE  /\ trim[t].cutoff < time
                        /\ \A u \in Visitors : Before(u, trim[t].cutoff)' => u \in trim[t].stale
      BY <1>2 DEF Ping, TrimsAgree, Before
    <3>1. trim[t].cutoff \in 0..MaxTime /\ trim[t].cutoff < time
      BY <1>0, TrimShape DEF TrimsAgree
    <3>2. ~Before(v, trim[t].cutoff)'
      BY <1>0, <1>2, <3>1 DEF Ping, Before
    <3> QED BY <1>0, <1>2, <3>1, <3>2 DEF Ping, TrimsAgree, Before
  <2> QED BY <1>0, <1>2, <2>1, <2>2 DEF Ping, dayVars, PresenceInv, PresenceTypeOK, PresenceHolds
<1>3. ASSUME NEW t \in Trims, ListStale(t) PROVE PresenceInv'
  <2> DEFINE cut == time - 2 * OnlineWindow
  <2>1. cut \in 0..MaxTime /\ cut < time
    BY <1>0, <1>3 DEF ListStale
  <2>2. trim' = [trim EXCEPT ![t] =
          [at |-> "removing", cutoff |-> cut, stale |-> {v \in Visitors : Before(v, cut)}]]
    BY <1>3 DEF ListStale
  <2> HIDE DEF cut
  <2>3. OnlineOK'
    BY <1>0, <1>3, <2>1, <2>2 DEF ListStale, Gone
  <2>4. TrimsAgree'
    BY <1>0, <1>3, <2>1, <2>2 DEF ListStale, TrimsAgree, Before
  <2> QED BY <1>0, <1>3, <2>3, <2>4 DEF ListStale, dayVars, PresenceInv, PresenceTypeOK, PresenceHolds
<1>4. ASSUME NEW t \in Trims, RemoveStale(t) PROVE PresenceInv'
  <2>0. /\ path' = path \ trim[t].stale
        /\ score' = [v \in Visitors |-> IF Before(v, trim[t].cutoff) THEN Gone ELSE score[v]]
        /\ trim' = [trim EXCEPT ![t] = NoTrim]
        /\ UNCHANGED time
    BY <1>4 DEF RemoveStale, Cutoff
  <2>1. \A v \in Visitors : Before(v, trim[t].cutoff) => v \in trim[t].stale
    BY <1>0, <1>4 DEF RemoveStale, TrimsAgree
  <2>2. OnlineOK'
    BY <1>0, <2>0, <2>1 DEF Gone
  <2>3. TrimsAgree'
    BY <1>0, <2>0 DEF TrimsAgree, Before
  <2> QED BY <1>0, <1>4, <2>2, <2>3 DEF RemoveStale, dayVars, PresenceInv, PresenceTypeOK, PresenceHolds
<1>5. ASSUME NEW t \in Trims, TrimFails(t) PROVE PresenceInv'
  <2>1. OnlineOK' /\ TrimsAgree'
    BY <1>0, <1>5 DEF TrimFails, TrimsAgree, Before, Gone
  <2> QED BY <1>0, <1>5, <2>1 DEF TrimFails, dayVars, PresenceInv, PresenceTypeOK, PresenceHolds
<1> QED BY <1>1, <1>2, <1>3, <1>4, <1>5

\* Every step preserves the invariant.
LEMMA PresenceInvStep == PresenceInv /\ [PresenceNext]_presenceVars => PresenceInv'
<1>1. CASE UNCHANGED presenceVars
  BY <1>1 DEF presenceVars, PresenceInv, PresenceTypeOK, TrimsAgree, Before, PresenceHolds
<1> QED BY <1>1, DayStep, OnlineStep DEF PresenceNext

\* The key that keeps others from writing the day's row is not left without it, but for the
\* losses the code accepts; and no path stays behind where no trim would find it, though
\* trims overlap and visitors come back between their two round trips.
THEOREM PresenceKept == PresenceSpec => []PresenceHolds
<1>1. PresenceInv => PresenceHolds
  BY DEF PresenceInv
<1> QED BY <1>1, PresenceInvInit, PresenceInvStep, PTL DEF PresenceSpec

-------------------------------------------------------------------------------
(* The bank of providers: the inductive invariant.                          *)

\* The rows can be counted, and there are no more than an operation may try.
Counted == IsFiniteSet(Present) /\ BankBounded

\* An order names the settings of the environment and every provider its page showed, and
\* nothing else.
OrdersWhole ==
  \A a \in Administrators : console[a].at = "ordering" =>
    /\ console[a].to[Env] > 0
    /\ \A p \in Slots : console[a].to[p] > 0 <=> console[a].saw[p] > 0

BankInv == BankTypeOK /\ Counted /\ OrdersWhole

\* A request at the console has a page, the row it is about and what it puts there.
Console ==
  [at : {"away", "page", "inserting", "updating", "ordering"},
   saw : [Ids -> Nat], on : Ids, to : [Ids -> Nat]]

\* A row has a revision, a provider that is not there has none.
LEMMA RowShapes ==
  ASSUME BankTypeOK, NEW p \in Ids
  PROVE  /\ bank[p].rev \in Nat /\ bank[p].level \in Nat
         /\ bank[p].rev > 0 <=> bank[p] # Absent
         /\ bank[p] \in ProviderRow \cup {Absent}
         /\ Revisions[p] = bank[p].rev
BY DEF BankTypeOK, ProviderRow, Absent, Revisions

\* The initial state is in the invariant.
LEMMA BankInvInit == BankInit => BankInv
<1> SUFFICES ASSUME BankInit PROVE BankInv
  OBVIOUS
<1>1. BankTypeOK
  BY DEF BankInit, BankTypeOK, AwayFromConsole, Ids
<1>2. Present = {}
  BY DEF BankInit, Present, Ids
<1>3. Counted
  BY <1>2, FS_EmptySet, BankAssumption DEF Counted, BankBounded
<1>4. OrdersWhole
  BY DEF BankInit, OrdersWhole, AwayFromConsole
<1> QED BY <1>1, <1>3, <1>4 DEF BankInv

\* A request that begins leaves the rows alone.
LEMMA AskStep ==
  ASSUME BankInv, NEW a \in Administrators, NEW c \in Console, UNCHANGED bank,
         minted' \subseteq Slots, console' = [console EXCEPT ![a] = c],
         c.at = "ordering" => /\ c.to[Env] > 0
                              /\ \A p \in Slots : c.to[p] > 0 <=> c.saw[p] > 0
  PROVE  BankInv'
<1>1. BankTypeOK'
  BY DEF BankInv, BankTypeOK, Console
<1>2. Counted'
  BY DEF BankInv, Counted, BankBounded, Present
<1>3. OrdersWhole'
  BY DEF BankInv, BankTypeOK, OrdersWhole
<1> QED BY <1>1, <1>2, <1>3 DEF BankInv

\* A request that ends leaves the identifiers alone, and the bank counted.
LEMMA EndStep ==
  ASSUME BankInv, NEW a \in Administrators, UNCHANGED minted,
         console' = [console EXCEPT ![a] = AwayFromConsole],
         bank' \in [Ids -> ProviderRow \cup {Absent}], Counted'
  PROVE  BankInv'
<1>1. AwayFromConsole \in Console /\ AwayFromConsole.at # "ordering"
  BY DEF AwayFromConsole, Console, Ids
<1>2. BankTypeOK'
  BY <1>1 DEF BankInv, BankTypeOK, Console
<1>3. OrdersWhole'
  BY <1>1 DEF BankInv, BankTypeOK, OrdersWhole
<1> QED BY <1>2, <1>3 DEF BankInv

\* A step that adds no provider leaves the bank counted.
LEMMA StillCounted ==
  ASSUME Counted, Present' \subseteq Present
  PROVE  Counted'
BY FS_Subset, FS_CardinalityType, BankAssumption DEF Counted, BankBounded

\* What a request asks for is a state of the console.
LEMMA AsksWell ==
  ASSUME BankInv, NEW a \in Administrators,
         \/ OpenPage(a)
         \/ ClosePage(a)
         \/ \E level \in Levels : EnvironmentAsked(a, level)
         \/ \E p \in Slots, level \in Levels : CreateAsked(a, p, level) \/ UpdateAsked(a, p, level)
         \/ \E order \in [Listed -> 1..Cardinality(Listed)] : OrderAsked(a, order)
  PROVE  BankInv'
<1>0. console[a] \in Console /\ AwayFromConsole \in Console /\ Levels \subseteq Nat /\ minted \subseteq Slots
  BY BankAssumption DEF BankInv, BankTypeOK, Console, AwayFromConsole, Ids
<1>1. CASE OpenPage(a)
  <2>1. Revisions \in [Ids -> Nat]
    BY RowShapes DEF BankInv, Revisions
  <2>2. [AwayFromConsole EXCEPT !.at = "page", !.saw = Revisions] \in Console
    BY <1>0, <2>1 DEF Console
  <2> QED BY <1>0, <1>1, <2>2, AskStep DEF OpenPage, Console
<1>2. CASE ClosePage(a)
  BY <1>0, <1>2, AskStep DEF ClosePage, AwayFromConsole
<1>3. ASSUME NEW level \in Levels, EnvironmentAsked(a, level) PROVE BankInv'
  <2> DEFINE c == [console[a] EXCEPT !.at = IF bank[Env] = Absent THEN "inserting" ELSE "updating",
                                     !.on = Env, !.to[Env] = level]
  <2>1. c \in Console /\ c.at # "ordering"
    BY <1>0 DEF Console, Ids
  <2>2. console' = [console EXCEPT ![a] = c]
    BY <1>3 DEF EnvironmentAsked, BankInv, BankTypeOK
  <2> HIDE DEF c
  <2> QED BY <1>0, <1>3, <2>1, <2>2, AskStep DEF EnvironmentAsked
<1>4. ASSUME NEW p \in Slots, NEW level \in Levels, CreateAsked(a, p, level) PROVE BankInv'
  <2> DEFINE c == [console[a] EXCEPT !.at = "inserting", !.on = p, !.to[p] = level]
  <2>1. c \in Console /\ c.at # "ordering"
    BY <1>0 DEF Console, Ids
  <2>2. console' = [console EXCEPT ![a] = c] /\ minted' \subseteq Slots
    BY <1>0, <1>4 DEF CreateAsked, BankInv, BankTypeOK
  <2> HIDE DEF c
  <2> QED BY <1>4, <2>1, <2>2, AskStep DEF CreateAsked
<1>5. ASSUME NEW p \in Slots, NEW level \in Levels, UpdateAsked(a, p, level) PROVE BankInv'
  <2> DEFINE c == [console[a] EXCEPT !.at = "updating", !.on = p, !.to[p] = level]
  <2>1. c \in Console /\ c.at # "ordering"
    BY <1>0 DEF Console, Ids
  <2>2. console' = [console EXCEPT ![a] = c]
    BY <1>5 DEF UpdateAsked, BankInv, BankTypeOK
  <2> HIDE DEF c
  <2> QED BY <1>0, <1>5, <2>1, <2>2, AskStep DEF UpdateAsked
<1>6. ASSUME NEW order \in [Listed -> 1..Cardinality(Listed)], OrderAsked(a, order) PROVE BankInv'
  <2> DEFINE to == [p \in Ids |-> IF p \in Listed THEN order[p] ELSE 0]
             c == [console[a] EXCEPT !.at = "ordering", !.to = to]
  <2>1. \A p \in Listed : order[p] \in Nat /\ order[p] > 0
    BY <1>6
  <2>2. to \in [Ids -> Nat] /\ \A p \in Ids : to[p] > 0 <=> p \in Listed
    BY <2>1
  <2> HIDE DEF to
  <2>3. c \in Console /\ c.to = to /\ c.saw = console[a].saw
    BY <1>0, <2>2 DEF Console
  <2>4. c.to[Env] > 0
    BY <2>2, <2>3 DEF Listed, Ids
  <2>5. \A p \in Slots : c.to[p] > 0 <=> c.saw[p] > 0
    <3>1. \A p \in Slots : c.saw[p] > 0 <=> p \in Present
      BY <1>6, <2>3, RowShapes DEF OrderAsked, BankInv, Present, Ids
    <3> QED BY <2>2, <2>3, <3>1, BankAssumption DEF Listed, Ids
  <2>6. console' = [console EXCEPT ![a] = c]
    BY <1>6 DEF OrderAsked, BankInv, BankTypeOK, to
  <2> HIDE DEF c
  <2> QED BY <1>0, <1>6, <2>3, <2>4, <2>5, <2>6, AskStep DEF OrderAsked
<1> QED BY <1>1, <1>2, <1>3, <1>4, <1>5, <1>6

\* An edit leaves a row a row.
LEMMA RowEdited ==
  ASSUME NEW row \in ProviderRow, NEW level \in Nat
  PROVE  [row EXCEPT !.rev = row.rev + 1, !.level = level] \in ProviderRow
<1>1. row.rev + 1 \in Nat \ {0}
  BY DEF ProviderRow
<1> QED BY <1>1 DEF ProviderRow

\* Every row of an order that is carried out is one its page showed.
LEMMA OrderSeen ==
  ASSUME BankInv, NEW a \in Administrators, console[a].at = "ordering", OrderFits(a)
  PROVE  /\ \A p \in Ids : bank[p].rev = console[a].saw[p]
         /\ \A p \in Slots : console[a].to[p] > 0 <=> p \in Present
<1>0. console[a] \in Console
  BY DEF BankInv, BankTypeOK, Console
<1>1. ASSUME NEW p \in Slots
      PROVE  /\ bank[p].rev = console[a].saw[p]
             /\ console[a].to[p] > 0 <=> p \in Present
  <2>1. console[a].to[p] > 0 <=> console[a].saw[p] > 0
    BY DEF BankInv, OrdersWhole
  <2>2. console[a].to[p] \in Nat /\ console[a].saw[p] \in Nat /\ p \in Ids
    BY <1>0 DEF Console, Ids
  <2>3. bank[p].rev \in Nat /\ (bank[p].rev > 0 <=> p \in Present)
    BY <2>2, RowShapes DEF BankInv, Present
  <2>4. console[a].to[p] > 0 => bank[p].rev = console[a].saw[p]
    BY <2>2 DEF OrderFits
  <2>5. p \in Present => console[a].to[p] > 0
    BY DEF OrderFits
  <2> QED BY <2>1, <2>2, <2>3, <2>4, <2>5
<1>2. bank[Env].rev = console[a].saw[Env]
  BY DEF BankInv, OrdersWhole, OrderFits, Ids
<1> QED BY <1>1, <1>2 DEF Ids

\* The request that inserts, updates, deletes or orders.
LEMMA EndsWell ==
  ASSUME BankInv, NEW a \in Administrators,
         InsertProvider(a) \/ UpdateRow(a) \/ Reorder(a) \/ \E p \in Slots : Delete(a, p)
  PROVE  BankInv'
<1>0. /\ console[a] \in Console
      /\ bank \in [Ids -> ProviderRow \cup {Absent}]
      /\ IsFiniteSet(Present) /\ Cardinality(Present) <= MaxChain
      /\ Counted
  BY DEF BankInv, BankTypeOK, Console, Counted, BankBounded
<1> SUFFICES bank' \in [Ids -> ProviderRow \cup {Absent}] /\ Counted'
  <2>1. UNCHANGED minted /\ console' = [console EXCEPT ![a] = AwayFromConsole]
    BY DEF InsertProvider, UpdateRow, Reorder, Delete
  <2> QED BY <2>1, EndStep
<1>1. CASE InsertProvider(a)
  <2> DEFINE p == console[a].on
             row == [rev |-> 1, level |-> console[a].to[p]]
  <2>1. p \in Ids /\ row \in ProviderRow /\ row # Absent
    BY <1>0 DEF Console, ProviderRow, Absent
  <2>2. CASE bank' = bank
    <3>1. Present' \subseteq Present
      BY <2>2 DEF Present
    <3> QED BY <1>0, <2>2, <3>1, StillCounted
  <2>3. CASE bank' = [bank EXCEPT ![p] = row] /\ (p = Env \/ RoomLeft) /\ bank[p] = Absent
    <3> HIDE DEF row
    <3>1. bank' \in [Ids -> ProviderRow \cup {Absent}]
      BY <1>0, <2>1, <2>3
    <3>2. CASE p = Env
      <4>1. Present' \subseteq Present
        BY <1>0, <2>3, <3>2, BankAssumption DEF Present, Ids
      <4> QED BY <1>0, <3>1, <4>1, StillCounted
    <3>3. CASE p # Env /\ Cardinality(Present) < MaxChain
      <4>1. Present' = Present \cup {p} /\ p \notin Present
        BY <1>0, <2>1, <2>3, <3>3 DEF Present, Ids
      <4>2. IsFiniteSet(Present') /\ Cardinality(Present') = Cardinality(Present) + 1
        BY <1>0, <4>1, FS_AddElement
      <4>3. Cardinality(Present) \in Nat /\ MaxChain \in Nat
        BY <1>0, FS_CardinalityType, BankAssumption
      <4> QED BY <3>1, <3>3, <4>2, <4>3 DEF Counted, BankBounded
    <3> QED BY <2>3, <3>2, <3>3 DEF RoomLeft
  <2> QED BY <1>1, <2>2, <2>3 DEF InsertProvider
<1>2. CASE UpdateRow(a)
  <2> DEFINE p == console[a].on
             row == [bank[p] EXCEPT !.rev = bank[p].rev + 1, !.level = console[a].to[p]]
  <2>0. p \in Ids /\ bank[p] \in ProviderRow \cup {Absent} /\ console[a].to[p] \in Nat
    BY <1>0 DEF Console
  <2>1. CASE bank' = bank
    <3>1. Present' \subseteq Present
      BY <2>1 DEF Present
    <3> QED BY <1>0, <2>1, <3>1, StillCounted
  <2>2. CASE bank' = [bank EXCEPT ![p].rev = @ + 1, ![p].level = console[a].to[p]] /\ RowAsSeen(a, p)
    <3>1. bank' = [bank EXCEPT ![p] = row]
      BY <2>2
    <3>0. bank[p] # Absent /\ bank[p] \in ProviderRow
      BY <2>0, <2>2 DEF RowAsSeen, Absent
    <3>2. bank[p] # Absent /\ row \in ProviderRow
      BY <2>0, <3>0, RowEdited
    <3> HIDE DEF row
    <3>3. bank' \in [Ids -> ProviderRow \cup {Absent}]
      BY <1>0, <3>1, <3>2
    <3>4. Present' \subseteq Present
      BY <1>0, <3>1, <3>2 DEF Present, Ids
    <3> QED BY <1>0, <3>3, <3>4, StillCounted
  <2> QED BY <1>2, <2>1, <2>2 DEF UpdateRow
<1>3. ASSUME NEW p \in Slots, Delete(a, p) PROVE bank' \in [Ids -> ProviderRow \cup {Absent}] /\ Counted'
  <2>1. bank' = bank \/ bank' = [bank EXCEPT ![p] = Absent]
    BY <1>3 DEF Delete
  <2>2. bank' \in [Ids -> ProviderRow \cup {Absent}]
    BY <1>0, <2>1
  <2>3. Present' \subseteq Present
    BY <1>0, <2>1 DEF Present, Ids
  <2> QED BY <1>0, <2>2, <2>3, StillCounted
<1>4. CASE Reorder(a)
  <2>1. CASE bank' = bank
    <3>1. Present' \subseteq Present
      BY <2>1 DEF Present
    <3> QED BY <1>0, <2>1, <3>1, StillCounted
  <2>2. CASE /\ OrderFits(a)
             /\ bank' = [p \in Ids |->
                  IF console[a].to[p] = 0 THEN bank[p]
                  ELSE [rev |-> bank[p].rev + 1, level |-> console[a].to[p]]]
    <3>1. ASSUME NEW p \in Ids
          PROVE  bank'[p] \in ProviderRow \cup {Absent}
      <4>1. bank[p].rev \in Nat /\ bank[p] \in ProviderRow \cup {Absent} /\ console[a].to[p] \in Nat
        BY <1>0, RowShapes DEF BankInv, Console
      <4> QED BY <2>2, <4>1 DEF ProviderRow
    <3>2. Present' \subseteq Present
      <4> SUFFICES ASSUME NEW p \in Slots, bank[p] = Absent PROVE bank'[p] = Absent
        BY DEF Present
      <4>1. console[a].to[p] = 0
        BY <1>0, <1>4, <2>2, OrderSeen DEF Reorder, Present, Console, Ids
      <4> QED BY <2>2, <4>1 DEF Ids
    <3> QED BY <1>0, <2>2, <3>1, <3>2, StillCounted
  <2> QED BY <1>4, <2>1, <2>2 DEF Reorder
<1> QED BY <1>1, <1>2, <1>3, <1>4

\* Every step preserves the invariant.
LEMMA BankInvStep == BankInv /\ [BankNext]_bankVars => BankInv'
<1>1. CASE UNCHANGED bankVars
  BY <1>1 DEF bankVars, BankInv, BankTypeOK, Counted, BankBounded, Present, OrdersWhole
<1> QED BY <1>1, AsksWell, EndsWell DEF BankNext

\* The inductive invariant holds in every reachable state.
LEMMA BankInvariant == BankSpec => []BankInv
<1> QED BY BankInvInit, BankInvStep, PTL DEF BankSpec

\* Every state of the bank is well typed and never over what an operation may try: the
\* recount under the lock is enough, however many administrators counted before it.
THEOREM BankStaysBounded == BankSpec => []BankTypeOK /\ []BankBounded
<1>1. BankInv => BankTypeOK /\ BankBounded
  BY DEF BankInv, Counted
<1> QED BY <1>1, BankInvariant, PTL

\* What a step may change was shown by the page of who changes it.
LEMMA StepAsSeen ==
  ASSUME BankInv, [BankNext]_bankVars, NEW q \in Ids, bank'[q] # bank[q]
  PROVE  \E a \in Administrators :
           /\ console[a].at # "away" /\ console'[a].at = "away"
           /\ \A p \in Ids : bank'[p] # bank[p] =>
                \/ bank[p].rev = console[a].saw[p]
                \/ bank[p] = Absent /\ \A r \in Ids : bank'[r] # bank[r] => r = p
           /\ console[a].at = "ordering" => Revisions = console[a].saw
<1>0. bank' # bank
  OBVIOUS
<1>1. PICK a \in Administrators :
        InsertProvider(a) \/ UpdateRow(a) \/ Reorder(a) \/ \E p \in Slots : Delete(a, p)
  BY ZenonT(30), <1>0 DEF BankNext, bankVars, OpenPage, ClosePage, EnvironmentAsked, CreateAsked, UpdateAsked, OrderAsked
<1>2. /\ console[a] \in Console /\ console[a].at # "away"
      /\ console' = [console EXCEPT ![a] = AwayFromConsole]
      /\ bank \in [Ids -> ProviderRow \cup {Absent}]
  BY <1>1 DEF BankInv, BankTypeOK, Console, InsertProvider, UpdateRow, Reorder, Delete
<1>3. console'[a].at = "away"
  BY <1>2 DEF BankInv, BankTypeOK, AwayFromConsole
<1>4. CASE InsertProvider(a)
  <2>1. /\ bank[console[a].on] = Absent /\ console[a].at = "inserting"
        /\ \A r \in Ids : bank'[r] # bank[r] => r = console[a].on
    BY <1>0, <1>2, <1>4 DEF InsertProvider
  <2> QED BY <1>2, <1>3, <2>1
<1>5. CASE UpdateRow(a)
  <2>1. /\ bank[console[a].on].rev = console[a].saw[console[a].on] /\ console[a].at = "updating"
        /\ \A r \in Ids : bank'[r] # bank[r] => r = console[a].on
    BY <1>0, <1>2, <1>5 DEF UpdateRow, RowAsSeen
  <2> QED BY <1>2, <1>3, <2>1
<1>6. ASSUME NEW p \in Slots, Delete(a, p)
      PROVE  /\ bank[p].rev = console[a].saw[p] /\ console[a].at = "page"
             /\ \A r \in Ids : bank'[r] # bank[r] => r = p
  BY <1>0, <1>2, <1>6 DEF Delete, RowAsSeen
<1>7. CASE Reorder(a)
  <2>1. \A p \in Ids : bank[p].rev = console[a].saw[p]
    BY <1>0, <1>7, OrderSeen DEF Reorder
  <2>2. Revisions = console[a].saw
    BY <1>2, <2>1 DEF Revisions, Console
  <2> QED BY <1>2, <1>3, <2>1, <2>2
<1> QED BY <1>1, <1>2, <1>3, <1>4, <1>5, <1>6, <1>7

\* The bank stays within what an operation may try, and every change was made on a page
\* that showed what it changes: no edit made in between is lost, no order half applied.
THEOREM BankKept == BankSpec => BankHolds
<1>1. BankInv /\ [BankNext]_bankVars =>
        [LET changed == {p \in Ids : bank'[p] # bank[p]} IN
         changed # {} =>
           \E a \in Administrators :
             /\ console[a].at # "away" /\ console'[a].at = "away"
             /\ \A p \in changed :
                  \/ bank[p].rev = console[a].saw[p]
                  \/ bank[p] = Absent /\ changed = {p}
             /\ console[a].at = "ordering" => Revisions = console[a].saw]_bankVars
  <2> DEFINE changed == {p \in Ids : bank'[p] # bank[p]}
  <2> SUFFICES ASSUME BankInv, [BankNext]_bankVars, NEW q \in changed
               PROVE  \E a \in Administrators :
                        /\ console[a].at # "away" /\ console'[a].at = "away"
                        /\ \A p \in changed :
                             \/ bank[p].rev = console[a].saw[p]
                             \/ bank[p] = Absent /\ changed = {p}
                        /\ console[a].at = "ordering" => Revisions = console[a].saw
    OBVIOUS
  <2> QED BY StepAsSeen
<1>2. BankSpec => ChangedAsSeen
  BY <1>1, BankInvariant, PTL DEF BankSpec, ChangedAsSeen
<1> QED BY <1>2, BankStaysBounded, PTL DEF BankHolds

-------------------------------------------------------------------------------
(* The blog: the inductive invariant.                                       *)

\* What a request has read is a post, and an edit that read it published keeps its body.
DesksAgree ==
  \A d \in Desks : atDesk[d] # NoEdit =>
    /\ posts[atDesk[d].post] # NoPost
    /\ atDesk[d].kind = "update" => BodyOpen(atDesk[d].saw, atDesk[d].body)

\* The applications of an account.
Filed == UNION {[1..n -> {"PENDING"} \cup Decisions] : n \in 0..MaxApplications}

BlogInv ==
  /\ BlogTypeOK /\ applications \in [Members -> Filed]
  /\ DesksAgree /\ RoleFollowsApplication

\* A request that was opened is an edit of a post that may be written.
LEMMA EditShapes ==
  ASSUME BlogTypeOK, NEW d \in Desks, atDesk[d].kind \in {"update", "publish", "archive"}
  PROVE  /\ atDesk[d] # NoEdit
         /\ atDesk[d].post \in Posts
         /\ atDesk[d].kind = "update" =>
              atDesk[d] \in [kind : {"update"}, post : Posts, saw : Post, body : Bodies]
BY DEF BlogTypeOK, Edit, NoEdit

\* The applications of an account are numbered from one.
LEMMA FiledShape ==
  ASSUME NEW f \in Filed
  PROVE  \E n \in 0..MaxApplications :
           f \in [1..n -> {"PENDING"} \cup Decisions] /\ DOMAIN f = 1..n /\ Len(f) = n
<1>1. PICK n \in 0..MaxApplications : f \in [1..n -> {"PENDING"} \cup Decisions]
  BY DEF Filed
<1>2. n \in Nat /\ DOMAIN f = 1..n
  BY <1>1, BlogAssumption
<1>3. f \in Seq({"PENDING"} \cup Decisions)
  BY <1>1, <1>2
<1>4. Len(f) = n
  BY <1>2, <1>3
<1> QED BY <1>1, <1>2, <1>4

\* One more application is pending and leaves the others as they are.
LEMMA FiledMore ==
  ASSUME NEW f \in Filed, Len(f) < MaxApplications
  PROVE  /\ Append(f, "PENDING") \in Filed
         /\ (\E n \in DOMAIN Append(f, "PENDING") : Append(f, "PENDING")[n] = "APPROVED")
              <=> \E n \in DOMAIN f : f[n] = "APPROVED"
<1>1. PICK n \in 0..MaxApplications :
        f \in [1..n -> {"PENDING"} \cup Decisions] /\ DOMAIN f = 1..n /\ Len(f) = n
  BY FiledShape
<1>2. n \in Nat /\ MaxApplications \in Nat /\ n + 1 \in 0..MaxApplications
  BY <1>1, BlogAssumption
<1>3. f \in Seq({"PENDING"} \cup Decisions)
  BY <1>1, <1>2
<1> DEFINE g == Append(f, "PENDING")
<1>4. /\ g \in [1..(n + 1) -> {"PENDING"} \cup Decisions] /\ DOMAIN g = 1..(n + 1)
      /\ g[n + 1] = "PENDING" /\ \A m \in 1..n : g[m] = f[m]
  <2>1. g \in Seq({"PENDING"} \cup Decisions) /\ Len(g) = n + 1
    BY <1>1, <1>2, <1>3
  <2>2. g[n + 1] = "PENDING" /\ \A m \in 1..n : g[m] = f[m]
    BY <1>1, <1>2, <1>3
  <2> HIDE DEF g
  <2> QED BY <1>2, <2>1, <2>2
<1> HIDE DEF g
<1>5. g \in Filed
  BY <1>2, <1>4 DEF Filed
<1>6. (\E m \in DOMAIN g : g[m] = "APPROVED") <=> \E m \in DOMAIN f : f[m] = "APPROVED"
  BY <1>1, <1>2, <1>4
<1> QED BY <1>5, <1>6 DEF g

\* The initial state is in the invariant.
LEMMA BlogInvInit == BlogInit => BlogInv
<1> SUFFICES ASSUME BlogInit PROVE BlogInv
  OBVIOUS
<1>1. <<>> \in Filed
  <2>1. <<>> \in [1..0 -> {"PENDING"} \cup Decisions] /\ 0 \in 0..MaxApplications
    BY BlogAssumption
  <2> QED BY <2>1 DEF Filed
<1>2. applications \in [Members -> Filed]
  BY <1>1 DEF BlogInit
<1>3. BlogTypeOK
  BY <1>2 DEF BlogInit, BlogTypeOK, Filed, Roles
<1>4. DesksAgree
  BY DEF BlogInit, DesksAgree
<1>5. RoleFollowsApplication
  BY DEF BlogInit, RoleFollowsApplication
<1> QED BY <1>2, <1>3, <1>4, <1>5 DEF BlogInv

\* A write puts a post where there was one, and leaves the other posts alone.
LEMMA WriteStep ==
  ASSUME BlogInv, NEW d \in Desks, NEW p \in Posts, NEW post \in Post, Closes(d),
         posts' = [posts EXCEPT ![p] = post]
  PROVE  BlogInv'
<1>0. post # NoPost
  BY DEF Post, NoPost
<1>1. BlogTypeOK' /\ (applications \in [Members -> Filed])'
  BY DEF BlogInv, BlogTypeOK, Closes, applicantVars
<1>2. DesksAgree'
  BY <1>0, EditShapes DEF BlogInv, BlogTypeOK, Closes, DesksAgree, BodyOpen
<1>3. RoleFollowsApplication'
  BY DEF BlogInv, Closes, applicantVars, RoleFollowsApplication
<1> QED BY <1>1, <1>2, <1>3 DEF BlogInv

\* What each write does to the post it is about.
LEMMA WriteOfPost ==
  ASSUME BlogInv, NEW d \in Desks, WriteUpdate(d) \/ WritePublish(d) \/ WriteArchive(d)
  PROVE  LET p == atDesk[d].post IN
         /\ p \in Posts /\ posts[p] \in Post
         /\ Closes(d)
         /\ WriteUpdate(d) => /\ posts' = [posts EXCEPT ![p] = [posts[p] EXCEPT !.body = atDesk[d].body]]
                              /\ atDesk[d].body \in Bodies
         /\ WritePublish(d) => posts' = [posts EXCEPT ![p] =
                                 [posts[p] EXCEPT !.status = IF Publishable(p) THEN "PUBLISHED" ELSE @]]
         /\ WriteArchive(d) => posts' = [posts EXCEPT ![p] = [posts[p] EXCEPT !.status = "ARCHIVED"]]
BY EditShapes DEF BlogInv, BlogTypeOK, DesksAgree, WriteUpdate, WritePublish, WriteArchive

\* A step on the posts, or on the requests about them.
LEMMA PostStep ==
  ASSUME BlogInv,
         \/ \E u \in Members : CreatePost(u)
         \/ \E d \in Desks, u \in Members, p \in Posts :
              ReadForUpdate(d, u, p) \/ ReadForPublish(d, u, p) \/ ReadForArchive(d, u, p)
         \/ \E d \in Desks : WriteUpdate(d) \/ WritePublish(d) \/ WriteArchive(d) \/ GiveUpEdit(d)
  PROVE  BlogInv'
<1>0. /\ posts \in [Posts -> Post \cup {NoPost}]
      /\ atDesk \in [Desks -> Edit \cup {NoEdit}]
  BY DEF BlogInv, BlogTypeOK
<1>1. ASSUME NEW u \in Members, CreatePost(u) PROVE BlogInv'
  <2>1. PICK p \in Posts, body \in Bodies :
          ~Written(p) /\ posts' = [posts EXCEPT ![p] = [status |-> "DRAFT", author |-> u, body |-> body]]
    BY <1>1 DEF CreatePost
  <2> DEFINE post == [status |-> "DRAFT", author |-> u, body |-> body]
  <2>2. post \in Post /\ post # NoPost
    BY DEF Post, NoPost
  <2> HIDE DEF post
  <2>3. posts' = [posts EXCEPT ![p] = post] /\ UNCHANGED <<atDesk, applicantVars>>
    BY <1>1, <2>1 DEF CreatePost, post
  <2>4. BlogTypeOK' /\ (applications \in [Members -> Filed])'
    BY <2>2, <2>3 DEF BlogInv, BlogTypeOK, applicantVars
  <2>5. DesksAgree' /\ RoleFollowsApplication'
    BY <1>0, <2>2, <2>3 DEF BlogInv, DesksAgree, BodyOpen, RoleFollowsApplication, applicantVars
  <2> QED BY <2>4, <2>5 DEF BlogInv
<1>2. ASSUME NEW d \in Desks, NEW u \in Members, NEW p \in Posts,
             ReadForUpdate(d, u, p) \/ ReadForPublish(d, u, p) \/ ReadForArchive(d, u, p)
      PROVE  BlogInv'
  <2>1. PICK edit : /\ edit \in Edit /\ edit.post = p /\ Opens(d, edit) /\ Written(p)
                    /\ edit.kind = "update" => BodyOpen(edit.saw, edit.body)
    <3>1. posts[p] # NoPost => posts[p] \in Post
      BY <1>0
    <3>2. CASE ReadForUpdate(d, u, p)
      <4>1. PICK body \in Bodies :
              /\ BodyOpen(posts[p], body) /\ Written(p)
              /\ Opens(d, [kind |-> "update", post |-> p, saw |-> posts[p], body |-> body])
        BY <3>2 DEF ReadForUpdate
      <4>2. [kind |-> "update", post |-> p, saw |-> posts[p], body |-> body] \in Edit
        BY <3>1, <4>1 DEF Edit, Written
      <4> QED BY <4>1, <4>2
    <3>3. CASE ReadForPublish(d, u, p) \/ ReadForArchive(d, u, p)
      BY <3>3 DEF ReadForPublish, ReadForArchive, Edit
    <3> QED BY <1>2, <3>2, <3>3
  <2>2. BlogTypeOK' /\ (applications \in [Members -> Filed])'
    BY <2>1 DEF BlogInv, BlogTypeOK, Opens, applicantVars
  <2>3. DesksAgree'
    BY <1>0, <2>1 DEF BlogInv, DesksAgree, Opens, Written, BodyOpen
  <2>4. RoleFollowsApplication'
    BY <2>1 DEF BlogInv, Opens, applicantVars, RoleFollowsApplication
  <2> QED BY <2>2, <2>3, <2>4 DEF BlogInv
<1>3. ASSUME NEW d \in Desks, WriteUpdate(d) \/ WritePublish(d) \/ WriteArchive(d)
      PROVE  BlogInv'
  <2> DEFINE p == atDesk[d].post
  <2>1. PICK post \in Post : posts' = [posts EXCEPT ![p] = post]
    <3>1. posts[p] \in Post
      BY <1>3, WriteOfPost
    <3>2. \A body \in Bodies : [posts[p] EXCEPT !.body = body] \in Post
      BY <3>1 DEF Post
    <3>3. \A status \in {"DRAFT", "PUBLISHED", "ARCHIVED"} : [posts[p] EXCEPT !.status = status] \in Post
      BY <3>1 DEF Post
    <3>4. posts[p].status \in {"DRAFT", "PUBLISHED", "ARCHIVED"}
      BY <3>1 DEF Post
    <3>5. CASE WriteUpdate(d)
      BY <1>3, <3>2, <3>5, WriteOfPost
    <3>6. CASE WritePublish(d)
      <4>1. [posts[p] EXCEPT !.status = IF Publishable(p) THEN "PUBLISHED" ELSE @] \in Post
        BY <3>1 DEF Post
      <4> QED BY <1>3, <3>6, <4>1, WriteOfPost
    <3>7. CASE WriteArchive(d)
      BY <1>3, <3>3, <3>7, WriteOfPost
    <3> QED BY <1>3, <3>5, <3>6, <3>7
  <2> QED BY <1>3, <2>1, WriteOfPost, WriteStep
<1>4. ASSUME NEW d \in Desks, GiveUpEdit(d) PROVE BlogInv'
  <2>1. BlogTypeOK' /\ (applications \in [Members -> Filed])'
    BY <1>4 DEF BlogInv, BlogTypeOK, GiveUpEdit, Closes, applicantVars
  <2>2. DesksAgree'
    BY <1>0, <1>4 DEF BlogInv, DesksAgree, BodyOpen, GiveUpEdit, Closes
  <2>3. RoleFollowsApplication'
    BY <1>4 DEF BlogInv, GiveUpEdit, Closes, applicantVars, RoleFollowsApplication
  <2> QED BY <2>1, <2>2, <2>3 DEF BlogInv
<1> QED BY <1>1, <1>2, <1>3, <1>4

\* A step on the applications, or on the certificate that goes with them.
LEMMA ApplicantStep ==
  ASSUME BlogInv, NEW u \in Members,
         \/ StoreObject(u) \/ CreateMedia(u) \/ NoMedia(u) \/ Apply(u)
         \/ \E n \in 1..MaxApplications, decision \in Decisions : ReviewApplication(u, n, decision)
  PROVE  BlogInv'
<1>0. /\ applications \in [Members -> Filed]
      /\ role \in [Members -> Roles]
      /\ files \in [Members -> {"none", "object", "stored", "left"}]
      /\ appointed \subseteq Members
      /\ \A v \in Members \ appointed :
           role[v] = "WRITER" <=> \E n \in DOMAIN applications[v] : applications[v][n] = "APPROVED"
  BY DEF BlogInv, BlogTypeOK, RoleFollowsApplication
<1>1. UNCHANGED postVars
  BY DEF StoreObject, CreateMedia, NoMedia, Apply, ReviewApplication
<1>2. DesksAgree'
  BY <1>1 DEF BlogInv, DesksAgree, BodyOpen, postVars
<1>3. /\ (role \in [Members -> Roles])'
      /\ (files \in [Members -> {"none", "object", "stored", "left"}])'
      /\ (appointed \subseteq Members)'
  BY <1>0 DEF StoreObject, CreateMedia, NoMedia, Apply, ReviewApplication, Roles
<1>4. (applications \in [Members -> Filed])' /\ RoleFollowsApplication'
  <2>1. CASE StoreObject(u) \/ CreateMedia(u) \/ NoMedia(u)
    BY <1>0, <2>1 DEF StoreObject, CreateMedia, NoMedia, RoleFollowsApplication
  <2>2. CASE Apply(u)
    <3> DEFINE f == applications[u]
               g == Append(f, "PENDING")
    <3>1. f \in Filed /\ Len(f) < MaxApplications
      BY <1>0, <2>2 DEF Apply
    <3>2. g \in Filed /\ ((\E n \in DOMAIN g : g[n] = "APPROVED") <=> \E n \in DOMAIN f : f[n] = "APPROVED")
      BY <3>1, FiledMore
    <3>3. applications' = [applications EXCEPT ![u] = g] /\ role' = role /\ appointed' = appointed
      BY <2>2 DEF Apply
    <3> HIDE DEF g
    <3> QED BY <1>0, <3>2, <3>3 DEF RoleFollowsApplication
  <2>3. ASSUME NEW n \in 1..MaxApplications, NEW decision \in Decisions, ReviewApplication(u, n, decision)
        PROVE  (applications \in [Members -> Filed])' /\ RoleFollowsApplication'
    <3> DEFINE f == applications[u]
               g == [f EXCEPT ![n] = decision]
    <3>0. f \in Filed
      BY <1>0
    <3>1. PICK k \in 0..MaxApplications :
            f \in [1..k -> {"PENDING"} \cup Decisions] /\ DOMAIN f = 1..k /\ Len(f) = k
      BY <3>0, FiledShape
    <3>2. n \in DOMAIN f /\ f[n] = "PENDING"
      BY <2>3 DEF ReviewApplication, IsPending
    <3>3. /\ applications' = [applications EXCEPT ![u] = g]
          /\ role' = [role EXCEPT ![u] = IF decision = "APPROVED" THEN "WRITER" ELSE @]
          /\ appointed' = IF decision = "APPROVED" THEN appointed \ {u} ELSE appointed
      BY <1>0, <2>3 DEF ReviewApplication
    <3>4. g \in [1..k -> {"PENDING"} \cup Decisions] /\ g[n] = decision
          /\ \A m \in 1..k : m # n => g[m] = f[m]
      BY <3>1, <3>2
    <3>5. g \in Filed
      BY <3>1, <3>4 DEF Filed
    <3>6. (\E m \in DOMAIN g : g[m] = "APPROVED")
            <=> decision = "APPROVED" \/ \E m \in DOMAIN f : f[m] = "APPROVED"
      BY <3>1, <3>2, <3>4
    <3> HIDE DEF g
    <3>7. (applications \in [Members -> Filed])'
      BY <1>0, <3>3, <3>5
    <3>8. ASSUME NEW v \in Members, v \notin appointed'
          PROVE  role'[v] = "WRITER" <=> \E m \in DOMAIN applications'[v] : applications'[v][m] = "APPROVED"
      <4>1. CASE v # u
        <5>1. applications'[v] = applications[v] /\ role'[v] = role[v] /\ v \notin appointed
          BY <1>0, <3>3, <3>8, <4>1
        <5> QED BY <1>0, <5>1
      <4>2. CASE v = u /\ decision = "APPROVED"
        <5>1. role'[u] = "WRITER" /\ applications'[u] = g
          BY <1>0, <3>3, <4>2
        <5> QED BY <3>6, <4>2, <5>1
      <4>3. CASE v = u /\ decision # "APPROVED"
        <5>1. role'[u] = role[u] /\ applications'[u] = g /\ u \notin appointed
          BY <1>0, <3>3, <3>8, <4>3
        <5> QED BY <1>0, <3>6, <4>3, <5>1
      <4> QED BY <4>1, <4>2, <4>3
    <3> QED BY <3>7, <3>8 DEF RoleFollowsApplication
  <2> QED BY <2>1, <2>2, <2>3
<1>5. BlogTypeOK'
  BY <1>1, <1>3, <1>4 DEF BlogInv, BlogTypeOK, postVars, Filed
<1> QED BY <1>2, <1>4, <1>5 DEF BlogInv

\* A role that is set by an administrator or by the list.
LEMMA RoleStep ==
  ASSUME BlogInv, NEW u \in Members, NEW r \in Roles, Appoints(u, r)
  PROVE  BlogInv'
<1>1. /\ role' = [role EXCEPT ![u] = r] /\ appointed' = appointed \cup {u}
      /\ posts' = posts /\ atDesk' = atDesk /\ files' = files /\ applications' = applications
  BY DEF Appoints, postVars
<1>2. BlogTypeOK' /\ (applications \in [Members -> Filed])'
  BY <1>1 DEF BlogInv, BlogTypeOK
<1>3. DesksAgree'
  BY <1>1 DEF BlogInv, DesksAgree, BodyOpen
<1>4. RoleFollowsApplication'
  <2> SUFFICES ASSUME NEW v \in Members, v \notin appointed'
               PROVE  role'[v] = "WRITER" <=>
                        \E n \in DOMAIN applications'[v] : applications'[v][n] = "APPROVED"
    BY DEF RoleFollowsApplication
  <2>1. v # u /\ v \notin appointed /\ role'[v] = role[v]
    BY <1>1 DEF BlogInv, BlogTypeOK
  <2> QED BY <1>1, <2>1 DEF BlogInv, RoleFollowsApplication
<1> QED BY <1>2, <1>3, <1>4 DEF BlogInv

\* Every writer of a role but the review sets it.
LEMMA RoleWriters ==
  /\ \A u \in Members, r \in Roles : SetRole(u, r) => Appoints(u, r)
  /\ \A actor, u \in Members, r \in Roles : UpdateUser(actor, u, r) => Appoints(u, r)
  /\ \A u \in Members : LogIn(u) => Appoints(u, "ADMIN") /\ "ADMIN" \in Roles
BY DEF SetRole, UpdateUser, LogIn, Roles

\* Every step preserves the invariant.
LEMMA BlogInvStep == BlogInv /\ [BlogNext]_blogVars => BlogInv'
<1>1. CASE UNCHANGED blogVars
  BY <1>1 DEF blogVars, BlogInv, BlogTypeOK, DesksAgree, BodyOpen, RoleFollowsApplication
<1> QED BY <1>1, PostStep, ApplicantStep, RoleStep, RoleWriters DEF BlogNext

\* The inductive invariant holds in every reachable state.
LEMMA BlogInvariant == BlogSpec => []BlogInv
<1> QED BY BlogInvInit, BlogInvStep, PTL DEF BlogSpec

\* Unless an administrator or the list of super administrators has set a role since, the
\* writers are the accounts with an approved application, whatever the reviewers of an
\* account's applications decide at the same time.
THEOREM WritersWereApproved == BlogSpec => []BlogTypeOK /\ []RoleFollowsApplication
<1>1. BlogInv => BlogTypeOK /\ RoleFollowsApplication
  BY DEF BlogInv
<1> QED BY <1>1, BlogInvariant, PTL

\* What a step may do to a post that was published or taken down.
LEMMA PostForward ==
  ASSUME BlogInv, [BlogNext]_blogVars, NEW p \in Posts
  PROVE  /\ posts[p].status = "ARCHIVED" => posts'[p].status = "ARCHIVED"
         /\ posts[p].status = "PUBLISHED" /\ posts'[p].body # posts[p].body =>
              \E d \in Desks :
                /\ atDesk[d].kind = "update" /\ atDesk[d].post = p /\ atDesk'[d] = NoEdit
                /\ atDesk[d].saw.status = "PUBLISHED" => posts'[p].body = atDesk[d].saw.body
<1>0. /\ posts \in [Posts -> Post \cup {NoPost}]
      /\ atDesk \in [Desks -> Edit \cup {NoEdit}]
  BY DEF BlogInv, BlogTypeOK
<1>1. CASE posts' = posts
  BY <1>1
<1>2. ASSUME NEW u \in Members, CreatePost(u)
      PROVE  posts[p] = NoPost \/ posts'[p] = posts[p]
  BY <1>0, <1>2 DEF CreatePost, Written
<1>3. ASSUME NEW d \in Desks, WriteUpdate(d)
      PROVE  /\ posts'[p].status = posts[p].status
             /\ posts'[p].body # posts[p].body =>
                  /\ atDesk[d].kind = "update" /\ atDesk[d].post = p /\ atDesk'[d] = NoEdit
                  /\ atDesk[d].saw.status = "PUBLISHED" => posts'[p].body = atDesk[d].saw.body
  <2>1. /\ atDesk[d].post \in Posts /\ posts[atDesk[d].post] \in Post
        /\ posts' = [posts EXCEPT ![atDesk[d].post] = [posts[atDesk[d].post] EXCEPT !.body = atDesk[d].body]]
    BY <1>3, WriteOfPost
  <2>2. atDesk[d].kind = "update" /\ atDesk'[d] = NoEdit
    BY <1>0, <1>3 DEF WriteUpdate, Closes
  <2>3. BodyOpen(atDesk[d].saw, atDesk[d].body)
    BY <2>2, EditShapes DEF BlogInv, DesksAgree
  <2>4. CASE p # atDesk[d].post
    BY <1>0, <2>1, <2>4
  <2>5. CASE p = atDesk[d].post
    <3>1. posts'[p] = [posts[p] EXCEPT !.body = atDesk[d].body]
      BY <1>0, <2>1, <2>5
    <3>2. posts'[p].status = posts[p].status /\ posts'[p].body = atDesk[d].body
      BY <2>1, <2>5, <3>1 DEF Post
    <3> QED BY <2>2, <2>3, <2>5, <3>2 DEF BodyOpen
  <2> QED BY <2>4, <2>5
<1>4. ASSUME NEW d \in Desks, WritePublish(d) \/ WriteArchive(d)
      PROVE  /\ posts[p].status = "ARCHIVED" => posts'[p].status = "ARCHIVED"
             /\ posts[p] # NoPost => posts'[p].body = posts[p].body
  <2>1. atDesk[d].post \in Posts /\ posts[atDesk[d].post] \in Post
    BY <1>4, WriteOfPost
  <2>2. CASE p # atDesk[d].post
    BY <1>0, <1>4, <2>2, WriteOfPost
  <2>3. CASE p = atDesk[d].post
    <3>1. CASE WritePublish(d)
      <4>0. posts' = [posts EXCEPT ![p] = [posts[p] EXCEPT !.status = IF Publishable(p) THEN "PUBLISHED" ELSE @]]
        BY <2>3, <3>1, WriteOfPost
      <4>1. posts'[p] = [posts[p] EXCEPT !.status = IF Publishable(p) THEN "PUBLISHED" ELSE @]
        BY <1>0, <4>0
      <4> QED BY <2>1, <2>3, <4>1 DEF Post, Publishable
    <3>2. CASE WriteArchive(d)
      <4>1. posts'[p] = [posts[p] EXCEPT !.status = "ARCHIVED"]
        BY <1>0, <2>3, <3>2, WriteOfPost
      <4> QED BY <2>1, <2>3, <4>1 DEF Post
    <3> QED BY <1>4, <3>1, <3>2
  <2> QED BY <2>2, <2>3
<1>5. \/ posts' = posts
      \/ \E u \in Members : CreatePost(u)
      \/ \E d \in Desks : WriteUpdate(d) \/ WritePublish(d) \/ WriteArchive(d)
  BY DEF BlogNext, blogVars, postVars, ReadForUpdate, ReadForPublish, ReadForArchive, Opens, GiveUpEdit,
     StoreObject, CreateMedia, NoMedia, Apply, ReviewApplication, SetRole, UpdateUser, LogIn, Appoints
<1>6. posts[p].status \in {"PUBLISHED", "ARCHIVED"} => posts[p] # NoPost
  BY DEF NoPost
<1> QED BY <1>1, <1>2, <1>3, <1>4, <1>5, <1>6

\* What a step may do to the applications and to the role of an account.
LEMMA DecidedOnce ==
  ASSUME BlogInv, [BlogNext]_blogVars, NEW u \in Members
  PROVE  /\ \A n \in DOMAIN applications[u] :
              applications[u][n] \in Decisions => applications'[u][n] = applications[u][n]
         /\ role'[u] # role[u] /\ u \notin appointed' =>
              \E n \in DOMAIN applications[u] :
                applications[u][n] = "PENDING" /\ applications'[u][n] = "APPROVED"
<1>0. applications \in [Members -> Filed] /\ role \in [Members -> Roles]
  BY DEF BlogInv, BlogTypeOK
<1>1. PICK k \in 0..MaxApplications :
        /\ applications[u] \in [1..k -> {"PENDING"} \cup Decisions]
        /\ DOMAIN applications[u] = 1..k /\ Len(applications[u]) = k
  BY <1>0, FiledShape
<1>2. CASE applications' = applications /\ role' = role
  BY <1>2
<1>3. ASSUME NEW v \in Members, Apply(v)
      PROVE  role' = role /\ \A n \in DOMAIN applications[u] : applications'[u][n] = applications[u][n]
  <2>1. role' = role /\ applications' = [applications EXCEPT ![v] = Append(applications[v], "PENDING")]
    BY <1>3 DEF Apply
  <2>2. CASE v # u
    BY <1>0, <2>1, <2>2
  <2>3. CASE v = u
    <3>1. applications'[u] = Append(applications[u], "PENDING")
      BY <1>0, <2>1, <2>3
    <3>2. applications[u] \in Seq({"PENDING"} \cup Decisions) /\ k \in Nat
      BY <1>1, BlogAssumption
    <3>3. \A n \in 1..k : Append(applications[u], "PENDING")[n] = applications[u][n]
      BY <1>1, <3>2
    <3> QED BY <1>1, <2>1, <3>1, <3>3
  <2> QED BY <2>2, <2>3
<1>4. ASSUME NEW v \in Members, NEW n \in 1..MaxApplications, NEW decision \in Decisions,
             ReviewApplication(v, n, decision)
      PROVE  /\ \A m \in DOMAIN applications[u] :
                  applications[u][m] \in Decisions => applications'[u][m] = applications[u][m]
             /\ role'[u] # role[u] =>
                  \E m \in DOMAIN applications[u] :
                    applications[u][m] = "PENDING" /\ applications'[u][m] = "APPROVED"
  <2>1. /\ n \in DOMAIN applications[v] /\ applications[v][n] = "PENDING"
        /\ applications' = [applications EXCEPT ![v] = [applications[v] EXCEPT ![n] = decision]]
        /\ role' = [role EXCEPT ![v] = IF decision = "APPROVED" THEN "WRITER" ELSE @]
    BY <1>0, <1>4 DEF ReviewApplication, IsPending
  <2>2. CASE v # u
    BY <1>0, <2>1, <2>2
  <2>3. CASE v = u
    <3>1. /\ applications'[u] = [applications[u] EXCEPT ![n] = decision]
          /\ role'[u] = IF decision = "APPROVED" THEN "WRITER" ELSE role[u]
      BY <1>0, <2>1, <2>3
    <3>2. "PENDING" \notin Decisions
      BY DEF Decisions
    <3>3. applications'[u][n] = decision /\ \A m \in DOMAIN applications[u] : m # n => applications'[u][m] = applications[u][m]
      BY <1>1, <2>1, <2>3, <3>1
    <3> QED BY <2>1, <2>3, <3>1, <3>2, <3>3
  <2> QED BY <2>2, <2>3
<1>5. ASSUME NEW v \in Members, NEW r \in Roles, Appoints(v, r)
      PROVE  applications' = applications /\ (role'[u] # role[u] => u \in appointed')
  BY <1>0, <1>5 DEF Appoints
<1>6. \/ applications' = applications /\ role' = role
      \/ \E v \in Members : Apply(v)
      \/ \E v \in Members, n \in 1..MaxApplications, decision \in Decisions : ReviewApplication(v, n, decision)
      \/ \E v \in Members, r \in Roles : Appoints(v, r)
  <2>1. CASE UNCHANGED blogVars
    BY <2>1 DEF blogVars
  <2>2. CASE BlogNext
    BY <2>2, RoleWriters DEF BlogNext, postVars, applicantVars, CreatePost, ReadForUpdate, ReadForPublish, ReadForArchive, Opens,
       Closes, WriteUpdate, WritePublish, WriteArchive, GiveUpEdit, StoreObject, CreateMedia, NoMedia
  <2> QED BY <2>1, <2>2
<1> QED BY <1>2, <1>3, <1>4, <1>5, <1>6

\* Posts only move forward: what was taken down stays down, and the body of what is published
\* is only replaced by what a request decided on the row it had read.  An application is
\* decided once, and the writers are the approved applicants but for the roles that were
\* set otherwise since.
THEOREM BlogKept == BlogSpec => BlogHolds
<1>1. BlogInv /\ [BlogNext]_blogVars =>
        [\A p \in Posts : posts[p].status = "ARCHIVED" => posts'[p].status = "ARCHIVED"]_blogVars
  BY PostForward
<1>2. BlogInv /\ [BlogNext]_blogVars =>
        [\A p \in Posts :
           posts[p].status = "PUBLISHED" /\ posts'[p].body # posts[p].body =>
             \E d \in Desks :
               /\ atDesk[d].kind = "update" /\ atDesk[d].post = p /\ atDesk'[d] = NoEdit
               /\ atDesk[d].saw.status = "PUBLISHED" => posts'[p].body = atDesk[d].saw.body]_blogVars
  BY PostForward
<1>3. BlogSpec => ArchivedStaysDown
  BY <1>1, BlogInvariant, PTL DEF BlogSpec, ArchivedStaysDown
<1>4. BlogSpec => PublishedChangesLate
  BY <1>2, BlogInvariant, PTL DEF BlogSpec, PublishedChangesLate
<1>5. BlogInv /\ [BlogNext]_blogVars =>
        [\A u \in Members :
           /\ \A n \in DOMAIN applications[u] :
                applications[u][n] \in Decisions => applications'[u][n] = applications[u][n]
           /\ role'[u] # role[u] /\ u \notin appointed' =>
                \E n \in DOMAIN applications[u] :
                  applications[u][n] = "PENDING" /\ applications'[u][n] = "APPROVED"]_blogVars
  BY DecidedOnce
<1>6. BlogSpec => DecisionsStand
  BY <1>5, BlogInvariant, PTL DEF BlogSpec, DecisionsStand
<1> QED BY <1>3, <1>4, <1>6, WritersWereApproved, PTL DEF BlogHolds

-------------------------------------------------------------------------------
(* Materials: the inductive invariant.                                      *)

Desk ==
  [at : {"away", "open", "publishing", "transcribing", "uploading", "test", "checked"},
   seen : Nat, revision : Nat, asset : Assets \cup {NoAsset}]

\* The row counts its versions, each was written on the one before it, and is whole unless
\* the skill is writing, whose published one is.
RowCounts ==
  /\ Len(versions) = material.current /\ material.current >= 1
  /\ material.published <= material.current
  /\ \A n \in 2..Len(versions) : versions[n].from = n - 1
  /\ skill # "writing" => \A n \in DOMAIN versions : versions[n].whole
  /\ material.published # 0 => versions[material.published].whole

\* A request whose revision is not stale has the current version on its screen, and what it
\* has checked still holds; the same of the fixed test.
Sees(d) ==
  /\ d.at \in {"open", "publishing", "transcribing", "uploading"} =>
       /\ d.revision <= material.revision
       /\ d.revision = material.revision => d.seen = material.current
  /\ d.at = "publishing" /\ d.revision = material.revision => versions[material.current].whole
  /\ d.at \in {"test", "checked"} => d.revision <= fixed.revision
  /\ d.at = "checked" /\ d.revision = fixed.revision => d.seen = IF fixed.uses THEN 1 ELSE 0

\* What a version shows has a row, what has a row has its object, and an upload in flight
\* has an object of its own that no row names yet.
Stored ==
  /\ mediaRows \subseteq objects
  /\ \A n \in DOMAIN versions : versions[n].asset \in mediaRows \cup {NoAsset}
  /\ \A e \in Editors :
       /\ desk[e].at = "transcribing" => desk[e].asset \in mediaRows \cup {NoAsset}
       /\ desk[e].at = "uploading" => desk[e].asset \in objects \ mediaRows
  /\ \A e, f \in Editors :
       desk[e].at = "uploading" /\ desk[f].at = "uploading" /\ desk[e].asset = desk[f].asset => e = f

\* A version that was public: it is whole, and it or a later one is published.
WasPublic(n) == n \in DOMAIN versions /\ versions[n].whole /\ n <= material.published

Served ==
  /\ \A s \in Students : starting[s] # 0 => WasPublic(starting[s])
  /\ \A a \in pinned : WasPublic(a.version)

ContentInv ==
  /\ ContentTypeOK /\ desk \in [Editors -> Desk]
  /\ RowCounts /\ (\A e \in Editors : Sees(desk[e])) /\ Stored /\ Served

\* The initial state is in the invariant.
LEMMA ContentInvInit == ContentInit => ContentInv
<1> SUFFICES ASSUME ContentInit PROVE ContentInv
  OBVIOUS
<1>1. Created \in Edition /\ Created.asset = NoAsset /\ (skill # "writing" => Created.whole)
  BY MaterialAssumption DEF ContentInit, Created, CreatedReading, CreatedListening, CreatedWriting,
     CreatedSpeaking, Edition
<1>2. versions = <<Created>> /\ versions \in Seq(Edition) /\ DOMAIN versions = {1} /\ Len(versions) = 1
  BY <1>1 DEF ContentInit
<1>3. desk \in [Editors -> Desk] /\ \A e \in Editors : desk[e].at = "away"
  BY DEF ContentInit, NoDesk, Desk
<1>4. ContentTypeOK
  BY <1>2, <1>3 DEF ContentInit, ContentTypeOK, MaterialStatus, Desk
<1>5. RowCounts
  BY <1>1, <1>2 DEF ContentInit, RowCounts
<1>6. (\A e \in Editors : Sees(desk[e])) /\ Stored /\ Served
  BY <1>1, <1>2, <1>3 DEF ContentInit, Sees, Stored, Served
<1> QED BY <1>3, <1>4, <1>5, <1>6 DEF ContentInv

\* The row is a row, and its versions are numbered from one.
LEMMA ContentShapes ==
  ASSUME ContentInv
  PROVE  /\ material \in [status : MaterialStatus, revision : Nat, current : Nat, published : Nat]
         /\ fixed \in [status : MaterialStatus, revision : Nat, uses : BOOLEAN]
         /\ versions \in Seq(Edition) /\ DOMAIN versions = 1..material.current
         /\ material.current \in DOMAIN versions /\ versions[material.current] \in Edition
         /\ mediaRows \subseteq Assets /\ objects \subseteq Assets /\ NoAsset \notin Assets
         /\ passage \in Nat
BY MaterialAssumption DEF ContentInv, ContentTypeOK, RowCounts

\* A step of one editor's request that changes nothing but the request.
LEMMA ScreenStep ==
  ASSUME ContentInv, NEW e \in Editors, NEW d \in Desk, desk' = [desk EXCEPT ![e] = d], Sees(d),
         UNCHANGED <<skill, material, versions, passage, heldBack, uploadVars, fixed, starting, pinned>>,
         d.at # "uploading", d.at = "transcribing" => d.asset \in mediaRows
  PROVE  ContentInv'
<1>1. ContentTypeOK' /\ (desk \in [Editors -> Desk])'
  BY DEF ContentInv, ContentTypeOK, Desk, uploadVars
<1>2. RowCounts' /\ Served'
  BY DEF ContentInv, RowCounts, Served, WasPublic
<1>3. \A f \in Editors : Sees(desk[f])'
  BY DEF ContentInv, Sees
<1>4. Stored'
  BY DEF ContentInv, Stored, uploadVars
<1> QED BY <1>1, <1>2, <1>3, <1>4 DEF ContentInv

\* An editor who is away sees nothing, and a request that ends takes its editor away.
LEMMA Away ==
  /\ NoDesk \in Desk /\ NoDesk.at = "away"
  /\ Sees(NoDesk) /\ Sees(NoDesk)'
BY DEF NoDesk, Desk, Sees

MaterialRow == [status : MaterialStatus, revision : Nat, current : Nat, published : Nat]

\* What a save does to the row.
LEMMA RowSaved ==
  ASSUME NEW row \in MaterialRow, NEW new, new = [row EXCEPT !.current = @ + 1, !.revision = @ + 1]
  PROVE  /\ new \in MaterialRow
         /\ new.current = row.current + 1 /\ new.revision = row.revision + 1
         /\ new.published = row.published
<1>1. row.current + 1 \in Nat /\ row.revision + 1 \in Nat
  BY DEF MaterialRow
<1> QED BY <1>1 DEF MaterialRow

\* A save on the version its author was looking at, or a conflict.
LEMMA SaveStep ==
  ASSUME ContentInv, NEW e \in Editors, NEW edition \in Edition, Save(e, edition),
         desk[e].at \in {"open", "transcribing"}, edition.from = desk[e].seen,
         edition.asset \in mediaRows \cup {NoAsset}, skill # "writing" => edition.whole
  PROVE  ContentInv'
<1>1. CASE Stale(e)
  <2>1. UNCHANGED <<skill, material, versions, passage, heldBack, uploadVars, fixed, starting, pinned>>
    BY <1>1 DEF Save
  <2> QED BY <2>1, Away, ScreenStep DEF Save
<1>2. CASE ~Stale(e)
  <2> DEFINE n == material.current
  <2>0. /\ versions' = Append(versions, edition)
        /\ material' = [material EXCEPT !.current = @ + 1, !.revision = @ + 1]
        /\ desk' = [desk EXCEPT ![e] = NoDesk]
        /\ UNCHANGED <<skill, passage, heldBack, objects, mediaRows, fixed, starting, pinned>>
    BY <1>2 DEF Save, uploadVars
  <2>1. material.revision = desk[e].revision /\ desk[e].seen = n
    BY <1>2 DEF Stale, ContentInv, Sees
  <2>2. /\ material \in [status : MaterialStatus, revision : Nat, current : Nat, published : Nat]
        /\ versions \in Seq(Edition) /\ Len(versions) = n /\ DOMAIN versions = 1..n
        /\ n \in Nat /\ n >= 1 /\ material.published <= n
    BY ContentShapes DEF ContentInv, RowCounts
  <2>3. /\ material' \in [status : MaterialStatus, revision : Nat, current : Nat, published : Nat]
        /\ material'.current = n + 1 /\ material'.revision = material.revision + 1
        /\ material'.published = material.published
    BY <2>0, <2>2, RowSaved DEF MaterialRow
  <2>4. /\ versions' \in Seq(Edition) /\ Len(versions') = n + 1 /\ DOMAIN versions' = 1..(n + 1)
        /\ versions'[n + 1] = edition /\ \A m \in 1..n : versions'[m] = versions[m]
    BY <2>0, <2>2
  <2>5. ContentTypeOK' /\ (desk \in [Editors -> Desk])'
    BY <2>0, <2>3, <2>4, Away DEF ContentInv, ContentTypeOK, Desk
  <2>6. RowCounts'
    <3>1. \A m \in 2..(n + 1) : versions'[m].from = m - 1
      BY <2>1, <2>2, <2>4 DEF ContentInv, RowCounts
    <3>2. skill' # "writing" => \A m \in 1..(n + 1) : versions'[m].whole
      BY <2>0, <2>2, <2>4 DEF ContentInv, RowCounts
    <3>3. material'.published # 0 => versions'[material'.published].whole
      BY <2>2, <2>3, <2>4 DEF ContentInv, RowCounts
    <3> QED BY <2>2, <2>3, <2>4, <3>1, <3>2, <3>3 DEF RowCounts
  <2>7. ASSUME NEW f \in Editors PROVE Sees(desk[f])'
    <3>1. CASE f = e
      BY <2>0, <3>1, Away DEF ContentInv, Sees
    <3>2. CASE f # e
      BY <2>0, <2>2, <2>3, <3>2 DEF ContentInv, Sees, Desk
    <3> QED BY <3>1, <3>2
  <2>8. Stored'
    BY <2>0, <2>2, <2>4, Away DEF ContentInv, Stored
  <2>9. Served'
    <3>1. ASSUME NEW m, WasPublic(m) PROVE WasPublic(m)'
      BY <2>2, <2>3, <2>4, <3>1 DEF WasPublic
    <3> QED BY <2>0, <3>1 DEF ContentInv, Served
  <2> QED BY <2>5, <2>6, <2>7, <2>8, <2>9 DEF ContentInv
<1> QED BY <1>1, <1>2

\* What publishing and archiving do to the row.
LEMMA RowSet ==
  ASSUME NEW row \in MaterialRow
  PROVE  /\ Published(row) \in MaterialRow /\ Archived(row) \in MaterialRow
         /\ [Published(row) EXCEPT !.revision = @ + 1] \in MaterialRow
         /\ Published(row).revision = row.revision
         /\ Published(row).published = row.current /\ Published(row).current = row.current
         /\ [Published(row) EXCEPT !.revision = @ + 1].revision = row.revision + 1
         /\ [Published(row) EXCEPT !.revision = @ + 1].published = row.current
         /\ [Published(row) EXCEPT !.revision = @ + 1].current = row.current
         /\ Archived(row).revision = row.revision + 1
         /\ Archived(row).published = row.published /\ Archived(row).current = row.current
<1>1. row.revision + 1 \in Nat /\ row.current \in Nat
  BY DEF MaterialRow
<1>2. Published(row) \in MaterialRow /\ Published(row).revision = row.revision
        /\ Published(row).published = row.current /\ Published(row).current = row.current
  BY <1>1 DEF Published, MaterialRow, MaterialStatus
<1>3. /\ [Published(row) EXCEPT !.revision = @ + 1] \in MaterialRow
      /\ [Published(row) EXCEPT !.revision = @ + 1].revision = row.revision + 1
      /\ [Published(row) EXCEPT !.revision = @ + 1].published = row.current
      /\ [Published(row) EXCEPT !.revision = @ + 1].current = row.current
  BY <1>1, <1>2 DEF MaterialRow
<1>4. Archived(row) \in MaterialRow /\ Archived(row).revision = row.revision + 1
        /\ Archived(row).published = row.published /\ Archived(row).current = row.current
  BY <1>1 DEF Archived, MaterialRow, MaterialStatus
<1> QED BY <1>2, <1>3, <1>4

\* A change of the row on what its author was looking at, or a conflict.
LEMMA SetRowStep ==
  ASSUME ContentInv, NEW e \in Editors, NEW row \in MaterialRow, SetRow(e, row),
         row.current = material.current, row.revision \in {material.revision, material.revision + 1},
         row.published \in {material.published, material.current},
         ~Stale(e) /\ row.published # material.published => versions[material.current].whole
  PROVE  ContentInv'
<1>1. CASE Stale(e)
  <2>1. UNCHANGED <<skill, material, versions, passage, heldBack, uploadVars, fixed, starting, pinned>>
    BY <1>1 DEF SetRow
  <2> QED BY <2>1, Away, ScreenStep DEF SetRow
<1>2. CASE ~Stale(e)
  <2>0. /\ material' = row
        /\ desk' = [desk EXCEPT ![e] = NoDesk]
        /\ UNCHANGED <<skill, versions, passage, heldBack, objects, mediaRows, fixed, starting, pinned>>
    BY <1>2 DEF SetRow, uploadVars
  <2>1. /\ material \in MaterialRow
        /\ material.published <= material.current
        /\ material.current \in DOMAIN versions
    BY ContentShapes DEF ContentInv, RowCounts, MaterialRow
  <2>2. /\ row.revision \in Nat /\ row.revision >= material.revision
        /\ material.revision \in Nat /\ material.current \in Nat /\ material.published \in Nat
        /\ row.published >= material.published /\ row.published <= material.current
    BY <2>1 DEF MaterialRow
  <2>3. ContentTypeOK' /\ (desk \in [Editors -> Desk])'
    BY <2>0, Away DEF ContentInv, ContentTypeOK, Desk, MaterialRow
  <2>4. RowCounts'
    BY <1>2, <2>0, <2>1, <2>2 DEF ContentInv, RowCounts
  <2>5. ASSUME NEW f \in Editors PROVE Sees(desk[f])'
    <3>1. CASE f = e
      BY <2>0, <3>1, Away DEF ContentInv, Sees
    <3>2. CASE f # e
      BY <2>0, <2>2, <3>2 DEF ContentInv, Sees, Desk
    <3> QED BY <3>1, <3>2
  <2>6. Stored'
    BY <2>0, Away DEF ContentInv, Stored
  <2>7. Served'
    <3>1. ASSUME NEW m, WasPublic(m) PROVE WasPublic(m)'
      <4>1. m \in Nat
        BY <3>1, ContentShapes DEF WasPublic
      <4> QED BY <2>0, <2>2, <3>1, <4>1 DEF WasPublic
    <3> QED BY <2>0, <3>1 DEF ContentInv, Served
  <2> QED BY <2>3, <2>4, <2>5, <2>6, <2>7 DEF ContentInv
<1> QED BY <1>1, <1>2

\* Saving, by whichever package: what was typed was written on what the screen shows.
LEMMA SavesKeep ==
  ASSUME ContentInv, NEW e \in Editors, Updates(e) \/ Transcribed(e)
  PROVE  ContentInv'
<1>0. desk[e] \in Desk
  BY DEF ContentInv
<1>1. CASE UpdateReading(e)
  <2>1. PICK edition \in EditedReading(e) : Save(e, edition)
    BY <1>1 DEF UpdateReading
  <2>2. PICK p \in {passage, versions[material.current].passage} :
          edition = [from |-> desk[e].seen, asset |-> NoAsset, passage |-> p, whole |-> TRUE]
    BY <2>1 DEF EditedReading
  <2>3. edition \in Edition /\ edition.from = desk[e].seen /\ edition.asset = NoAsset /\ edition.whole
    BY <1>0, <2>2, ContentShapes DEF Edition, Desk
  <2> QED BY <1>1, <2>1, <2>3, SaveStep DEF UpdateReading
<1>2. CASE UpdateListening(e)
  <2>1. PICK edition \in EditedListening(e) : Save(e, edition)
    BY <1>2 DEF UpdateListening
  <2>2. PICK a \in mediaRows \cup {NoAsset} :
          edition = [from |-> desk[e].seen, asset |-> a, passage |-> 0, whole |-> TRUE]
    BY <2>1 DEF EditedListening
  <2>3. edition \in Edition /\ edition.from = desk[e].seen /\ edition.asset \in mediaRows \cup {NoAsset}
          /\ edition.whole
    BY <1>0, <2>2, ContentShapes DEF Edition, Desk
  <2> QED BY <1>2, <2>1, <2>3, SaveStep DEF UpdateListening
<1>3. CASE UpdateWriting(e)
  <2>1. PICK edition \in EditedWriting(e) : Save(e, edition)
    BY <1>3 DEF UpdateWriting
  <2>2. PICK a \in mediaRows \cup {NoAsset}, notes \in BOOLEAN :
          edition = [from |-> desk[e].seen, asset |-> a, passage |-> 0, whole |-> notes /\ a # NoAsset]
    BY <2>1 DEF EditedWriting
  <2>3. edition \in Edition /\ edition.from = desk[e].seen /\ edition.asset \in mediaRows \cup {NoAsset}
    BY <1>0, <2>2, ContentShapes DEF Edition, Desk
  <2> QED BY <1>3, <2>1, <2>3, SaveStep DEF UpdateWriting
<1>4. CASE UpdateSpeaking(e)
  <2>1. PICK edition \in EditedSpeaking(e) : Save(e, edition)
    BY <1>4 DEF UpdateSpeaking
  <2>2. edition = [from |-> desk[e].seen, asset |-> NoAsset, passage |-> 0, whole |-> TRUE]
    BY <2>1 DEF EditedSpeaking
  <2>3. edition \in Edition /\ edition.from = desk[e].seen /\ edition.asset = NoAsset /\ edition.whole
    BY <1>0, <2>2, ContentShapes DEF Edition, Desk
  <2> QED BY <1>4, <2>1, <2>3, SaveStep DEF UpdateSpeaking
<1>5. CASE Transcribed(e)
  <2> DEFINE edition == [from |-> desk[e].seen, asset |-> desk[e].asset, passage |-> 0, whole |-> TRUE]
  <2>1. edition \in Edition /\ edition.from = desk[e].seen /\ edition.asset = desk[e].asset /\ edition.whole
    BY <1>0 DEF Edition, Desk
  <2>2. Save(e, edition) /\ desk[e].at = "transcribing" /\ desk[e].asset \in mediaRows \cup {NoAsset}
    BY <1>5 DEF Transcribed, ContentInv, Stored
  <2> HIDE DEF edition
  <2> QED BY <2>1, <2>2, SaveStep
<1> QED BY <1>1, <1>2, <1>3, <1>4, <1>5 DEF Updates

\* Publishing and archiving, by whichever package.
LEMMA RowsKeep ==
  ASSUME ContentInv, NEW e \in Editors,
         \/ PublishReading(e) \/ PublishListening(e) \/ PublishSpeaking(e) \/ PublishWriting(e)
         \/ Archives(e)
  PROVE  ContentInv'
<1>0. material \in MaterialRow /\ material.current \in DOMAIN versions
  BY ContentShapes DEF MaterialRow
<1>1. CASE PublishReading(e) \/ PublishListening(e) \/ PublishSpeaking(e)
  <2>1. SetRow(e, [Published(material) EXCEPT !.revision = @ + 1]) /\ skill # "writing"
    BY <1>1 DEF PublishReading, PublishListening, PublishSpeaking
  <2>2. versions[material.current].whole
    BY <1>0, <2>1 DEF ContentInv, RowCounts
  <2> QED BY <1>0, <2>1, <2>2, RowSet, SetRowStep
<1>2. CASE PublishWriting(e)
  <2>1. SetRow(e, Published(material)) /\ desk[e].at = "publishing"
    BY <1>2 DEF PublishWriting
  <2>2. ~Stale(e) => versions[material.current].whole
    BY <2>1 DEF Stale, ContentInv, Sees
  <2> QED BY <1>0, <2>1, <2>2, RowSet, SetRowStep
<1>3. CASE Archives(e)
  <2>1. SetRow(e, Archived(material))
    BY <1>3 DEF Archives, ArchiveReading, ArchiveListening, ArchiveWriting, ArchiveSpeaking
  <2> QED BY <1>0, <2>1, RowSet, SetRowStep
<1> QED BY <1>1, <1>2, <1>3

\* Reads: what comes to the screen is what there is.
LEMMA ReadsKeep ==
  ASSUME ContentInv, NEW e \in Editors,
         OpenMaterial(e) \/ Transcribe(e) \/ Leave(e) \/ CheckWriting(e) \/ OpenTest(e) \/ CheckTest(e)
  PROVE  ContentInv'
<1>0. /\ desk[e] \in Desk /\ Sees(desk[e])
      /\ material \in MaterialRow /\ fixed \in [status : MaterialStatus, revision : Nat, uses : BOOLEAN]
      /\ material.current \in DOMAIN versions /\ versions[material.current] \in Edition
  BY ContentShapes DEF ContentInv, MaterialRow
<1>1. UNCHANGED <<skill, material, versions, passage, heldBack, uploadVars, fixed, starting, pinned>>
  BY DEF OpenMaterial, Transcribe, Leave, CheckWriting, OpenTest, CheckTest
<1>2. CASE OpenMaterial(e) \/ Transcribe(e)
  <2> DEFINE a == IF OpenMaterial(e) THEN NoAsset ELSE versions[material.current].asset
             d == [at |-> IF OpenMaterial(e) THEN "open" ELSE "transcribing", seen |-> material.current,
                   revision |-> material.revision, asset |-> a]
  <2>1. a \in Assets \cup {NoAsset}
    BY <1>0 DEF Edition
  <2>2. d \in Desk
    BY <1>0, <2>1 DEF Desk, MaterialRow
  <2>3. d.at \in {"open", "transcribing"} /\ Sees(d)
    BY <1>0 DEF Sees, MaterialRow
  <2>4. d.at = "transcribing" => d.asset \in mediaRows
    BY <1>0, <1>2 DEF ContentInv, Stored, Transcribe
  <2>5. desk' = [desk EXCEPT ![e] = d]
    BY <1>2 DEF OpenMaterial, Transcribe
  <2> HIDE DEF d
  <2> QED BY <1>1, <2>2, <2>3, <2>4, <2>5, ScreenStep
<1>3. CASE Leave(e)
  BY <1>1, <1>3, Away, ScreenStep DEF Leave
<1>4. CASE CheckWriting(e)
  <2>1. CASE desk' = [desk EXCEPT ![e] = NoDesk]
    BY <1>1, <2>1, Away, ScreenStep
  <2>2. CASE /\ versions[material.current].whole /\ desk[e].at = "open"
             /\ desk' = [desk EXCEPT ![e] = [desk[e] EXCEPT !.at = "publishing"]]
    <3> DEFINE d == [desk[e] EXCEPT !.at = "publishing"]
    <3>1. d \in Desk /\ d.at = "publishing"
      BY <1>0 DEF Desk
    <3>2. d.seen = desk[e].seen /\ d.revision = desk[e].revision
      BY <1>0 DEF Desk
    <3>3. Sees(d)
      BY <1>0, <2>2, <3>1, <3>2 DEF Sees
    <3> HIDE DEF d
    <3> QED BY <1>1, <2>2, <3>1, <3>3, ScreenStep DEF d
  <2> QED BY <1>4, <2>1, <2>2 DEF CheckWriting
<1>5. CASE OpenTest(e)
  <2> DEFINE d == [NoDesk EXCEPT !.at = "test", !.revision = fixed.revision]
  <2>1. d \in Desk /\ d.at = "test" /\ d.revision = fixed.revision
    BY <1>0 DEF Desk, NoDesk
  <2>2. Sees(d)
    BY <1>0, <2>1 DEF Sees
  <2> HIDE DEF d
  <2> QED BY <1>1, <1>5, <2>1, <2>2, ScreenStep DEF OpenTest, d
<1>6. CASE CheckTest(e)
  <2>1. CASE desk' = [desk EXCEPT ![e] = NoDesk]
    BY <1>1, <2>1, Away, ScreenStep
  <2>2. CASE desk' = [desk EXCEPT ![e] = [desk[e] EXCEPT !.at = "checked", !.seen = IF fixed.uses THEN 1 ELSE 0]]
    <3> DEFINE d == [desk[e] EXCEPT !.at = "checked", !.seen = IF fixed.uses THEN 1 ELSE 0]
    <3>1. d \in Desk /\ d.at = "checked" /\ d.seen = (IF fixed.uses THEN 1 ELSE 0)
            /\ d.revision = desk[e].revision
      BY <1>0 DEF Desk
    <3>2. Sees(d)
      BY <1>0, <1>6, <3>1 DEF Sees, CheckTest
    <3> HIDE DEF d
    <3> QED BY <1>1, <2>2, <3>1, <3>2, ScreenStep DEF d
  <2> QED BY <1>6, <2>1, <2>2 DEF CheckTest
<1> QED BY <1>2, <1>3, <1>4, <1>5, <1>6

\* Uploads: no two requests have one object, and what is taken away no row names.
LEMMA UploadsKeep ==
  ASSUME ContentInv, NEW e \in Editors,
         (\E a \in Assets : PutObject(e, a)) \/ InsertMedia(e) \/ UploadFails(e)
  PROVE  ContentInv'
<1>0. /\ desk[e] \in Desk /\ Sees(desk[e]) /\ desk \in [Editors -> Desk]
      /\ mediaRows \subseteq objects /\ objects \subseteq Assets /\ NoAsset \notin Assets
      /\ UNCHANGED <<skill, material, versions, passage, heldBack, fixed, starting, pinned>>
  BY ContentShapes DEF ContentInv, Stored, PutObject, InsertMedia, UploadFails
<1>1. RowCounts' /\ Served'
  BY <1>0 DEF ContentInv, RowCounts, Served, WasPublic
<1> SUFFICES \E d \in Desk :
        /\ desk' = [desk EXCEPT ![e] = d] /\ Sees(d)
        /\ Stored' /\ objects' \subseteq Assets
  <2>1. ASSUME NEW d \in Desk, desk' = [desk EXCEPT ![e] = d], Sees(d), Stored', objects' \subseteq Assets
        PROVE  ContentInv'
    <3>1. mediaRows' \subseteq Assets
      BY <2>1 DEF Stored
    <3>2. ContentTypeOK' /\ (desk \in [Editors -> Desk])'
      BY <1>0, <2>1, <3>1 DEF ContentInv, ContentTypeOK, Desk
    <3>3. \A f \in Editors : Sees(desk[f])'
      BY <1>0, <2>1 DEF ContentInv, Sees
    <3> QED BY <1>1, <2>1, <3>2, <3>3 DEF ContentInv
  <2> QED BY <2>1
<1>2. ASSUME NEW a \in Assets, PutObject(e, a)
      PROVE  \E d \in Desk : /\ desk' = [desk EXCEPT ![e] = d] /\ Sees(d)
                             /\ Stored' /\ objects' \subseteq Assets
  <2> DEFINE d == [desk[e] EXCEPT !.at = "uploading", !.asset = a]
  <2>1. d \in Desk /\ d.at = "uploading" /\ d.asset = a
          /\ d.seen = desk[e].seen /\ d.revision = desk[e].revision
    BY <1>0 DEF Desk
  <2>2. desk' = [desk EXCEPT ![e] = d] /\ objects' = objects \cup {a} /\ a \notin objects /\ UNCHANGED mediaRows
    BY <1>2 DEF PutObject
  <2> HIDE DEF d
  <2>3. Sees(d)
    BY <1>0, <1>2, <2>1 DEF Sees, PutObject
  <2>4. Stored'
    BY <1>0, <2>1, <2>2 DEF ContentInv, Stored
  <2> QED BY <1>0, <2>1, <2>2, <2>3, <2>4
<1>3. CASE InsertMedia(e)
  <2> DEFINE d == [desk[e] EXCEPT !.at = "open", !.asset = NoAsset]
  <2>1. d \in Desk /\ d.at = "open" /\ d.seen = desk[e].seen /\ d.revision = desk[e].revision
    BY <1>0 DEF Desk
  <2>2. desk' = [desk EXCEPT ![e] = d] /\ mediaRows' = mediaRows \cup {desk[e].asset} /\ UNCHANGED objects
    BY <1>3 DEF InsertMedia
  <2> HIDE DEF d
  <2>3. Sees(d)
    BY <1>0, <1>3, <2>1 DEF Sees, InsertMedia
  <2>4. desk[e].at = "uploading"
    BY <1>3 DEF InsertMedia
  <2>5. Stored'
    BY <1>0, <2>1, <2>2, <2>4 DEF ContentInv, Stored
  <2> QED BY <1>0, <2>1, <2>2, <2>3, <2>5
<1>4. CASE UploadFails(e)
  <2>1. /\ desk' = [desk EXCEPT ![e] = NoDesk] /\ UNCHANGED mediaRows /\ desk[e].at = "uploading"
        /\ objects \ {desk[e].asset} \subseteq objects' /\ objects' \subseteq objects
    BY <1>4 DEF UploadFails
  <2>2. Stored'
    BY <1>0, <2>1, Away DEF ContentInv, Stored
  <2> QED BY <1>0, <2>1, <2>2, Away
<1> QED BY <1>2, <1>3, <1>4

\* The fixed test: a change of what was looked at, or a conflict.
LEMMA TestsKeep ==
  ASSUME ContentInv, NEW e \in Editors, UpdateTest(e) \/ PublishTest(e) \/ ArchiveTest(e)
  PROVE  ContentInv'
<1>0. fixed \in [status : MaterialStatus, revision : Nat, uses : BOOLEAN]
  BY ContentShapes
<1>1. PICK row \in [status : MaterialStatus, revision : Nat, uses : BOOLEAN] :
        row.revision = fixed.revision /\ SetTest(e, row)
  <2>1. ASSUME NEW uses \in BOOLEAN
        PROVE  /\ [fixed EXCEPT !.uses = uses] \in [status : MaterialStatus, revision : Nat, uses : BOOLEAN]
               /\ [fixed EXCEPT !.uses = uses].revision = fixed.revision
    BY <1>0
  <2>2. ASSUME NEW status \in MaterialStatus
        PROVE  /\ [fixed EXCEPT !.status = status] \in [status : MaterialStatus, revision : Nat, uses : BOOLEAN]
               /\ [fixed EXCEPT !.status = status].revision = fixed.revision
    BY <1>0
  <2>3. CASE UpdateTest(e)
    BY <2>1, <2>3 DEF UpdateTest
  <2>4. CASE PublishTest(e) \/ ArchiveTest(e)
    BY <2>2, <2>4 DEF PublishTest, ArchiveTest, MaterialStatus
  <2> QED BY <2>3, <2>4
<1>2. CASE desk[e].revision # fixed.revision
  <2>1. UNCHANGED <<skill, material, versions, passage, heldBack, uploadVars, fixed, starting, pinned>>
    BY <1>1, <1>2 DEF SetTest
  <2> QED BY <1>1, <2>1, Away, ScreenStep DEF SetTest
<1>3. CASE desk[e].revision = fixed.revision
  <2>0. /\ fixed' = [row EXCEPT !.revision = @ + 1]
        /\ desk' = [desk EXCEPT ![e] = NoDesk]
        /\ UNCHANGED <<skill, material, versions, passage, heldBack, objects, mediaRows, starting, pinned>>
    BY <1>1, <1>3 DEF SetTest, uploadVars
  <2>1. fixed.revision \in Nat /\ fixed.revision + 1 \in Nat
    BY <1>0
  <2>2. fixed' \in [status : MaterialStatus, revision : Nat, uses : BOOLEAN] /\ fixed'.revision = fixed.revision + 1
    BY <1>1, <2>0, <2>1
  <2>3. ContentTypeOK' /\ (desk \in [Editors -> Desk])'
    BY <2>0, <2>2, Away DEF ContentInv, ContentTypeOK, Desk
  <2>4. RowCounts' /\ Served'
    BY <2>0 DEF ContentInv, RowCounts, Served, WasPublic
  <2>5. ASSUME NEW f \in Editors PROVE Sees(desk[f])'
    <3>1. CASE f = e
      BY <2>0, <3>1, Away DEF ContentInv, Sees
    <3>2. CASE f # e
      BY <2>0, <2>1, <2>2, <3>2 DEF ContentInv, Sees, Desk
    <3> QED BY <3>1, <3>2
  <2>6. Stored'
    BY <2>0, Away DEF ContentInv, Stored
  <2> QED BY <2>3, <2>4, <2>5, <2>6 DEF ContentInv
<1> QED BY <1>2, <1>3

\* Attempts, and what happens around the material.
LEMMA AttemptsKeep ==
  ASSUME ContentInv,
         \/ EditPassage \/ HoldBack
         \/ \E s \in Students : StartReads(s) \/ StartInserts(s) \/ SubmitPinned(s)
  PROVE  ContentInv'
<1>0. /\ UNCHANGED <<skill, material, versions, uploadVars, desk, fixed>>
      /\ starting \in [Students -> Nat]
      /\ pinned \subseteq [who : Students, version : Nat, status : {"IN_PROGRESS", "SUBMITTED"}]
      /\ passage \in Nat /\ heldBack \in BOOLEAN
      /\ \A s \in Students : starting[s] # 0 => WasPublic(starting[s])
      /\ \A a \in pinned : WasPublic(a.version)
  BY DEF ContentInv, ContentTypeOK, Served, EditPassage, HoldBack, StartReads, StartInserts, SubmitPinned
<1>1. RowCounts' /\ (\A e \in Editors : Sees(desk[e]))' /\ Stored'
  BY <1>0 DEF ContentInv, RowCounts, Sees, Stored, uploadVars
<1>2. \A n : WasPublic(n) => WasPublic(n)'
  BY <1>0 DEF WasPublic
<1> SUFFICES /\ starting' \in [Students -> Nat]
             /\ pinned' \subseteq [who : Students, version : Nat, status : {"IN_PROGRESS", "SUBMITTED"}]
             /\ passage' \in Nat /\ heldBack' \in BOOLEAN
             /\ \A s \in Students : starting'[s] # 0 => WasPublic(starting'[s])
             /\ \A a \in pinned' : WasPublic(a.version)
  BY <1>0, <1>1, <1>2 DEF ContentInv, ContentTypeOK, Served, uploadVars
<1>3. CASE EditPassage \/ HoldBack
  <2>1. UNCHANGED <<starting, pinned>>
    BY <1>3 DEF EditPassage, HoldBack
  <2>2. CASE EditPassage
    <3>1. passage' = passage + 1 /\ heldBack' = heldBack
      BY <2>2 DEF EditPassage
    <3> QED BY <1>0, <2>1, <3>1
  <2>3. CASE HoldBack
    <3>1. passage' = passage /\ heldBack' = TRUE
      BY <2>3 DEF HoldBack
    <3> QED BY <1>0, <2>1, <3>1
  <2> QED BY <1>3, <2>2, <2>3
<1>4. ASSUME NEW s \in Students, StartReads(s)
      PROVE  /\ starting' \in [Students -> Nat] /\ UNCHANGED <<pinned, passage, heldBack>>
             /\ \A u \in Students : starting'[u] # 0 => WasPublic(starting'[u])
  <2>1. PublishedVersion = material.published /\ material.published # 0 /\ material.published \in Nat
    BY <1>4, ContentShapes DEF StartReads, PublishedVersion
  <2>2. WasPublic(material.published)
    BY <2>1, ContentShapes DEF WasPublic, ContentInv, RowCounts
  <2> QED BY <1>0, <1>4, <2>1, <2>2 DEF StartReads
<1>5. ASSUME NEW s \in Students, StartInserts(s)
      PROVE  /\ starting' \in [Students -> Nat] /\ UNCHANGED <<passage, heldBack>>
             /\ pinned' \subseteq [who : Students, version : Nat, status : {"IN_PROGRESS", "SUBMITTED"}]
             /\ \A u \in Students : starting'[u] # 0 => WasPublic(starting'[u])
             /\ \A a \in pinned' : WasPublic(a.version)
  <2>1. starting[s] \in Nat /\ WasPublic(starting[s])
    BY <1>0, <1>5 DEF StartInserts
  <2>2. \A a \in pinned' : a \in pinned \/ a = [who |-> s, version |-> starting[s], status |-> "IN_PROGRESS"]
    BY <1>5 DEF StartInserts
  <2> QED BY <1>0, <1>5, <2>1, <2>2 DEF StartInserts
<1>6. ASSUME NEW s \in Students, SubmitPinned(s)
      PROVE  /\ UNCHANGED <<starting, passage, heldBack>>
             /\ pinned' \subseteq [who : Students, version : Nat, status : {"IN_PROGRESS", "SUBMITTED"}]
             /\ \A a \in pinned' : WasPublic(a.version)
  <2>1. PICK b \in pinned : pinned' = (pinned \ {b}) \cup {[b EXCEPT !.status = "SUBMITTED"]}
    BY <1>6 DEF SubmitPinned, OpenAttempts
  <2>2. /\ [b EXCEPT !.status = "SUBMITTED"] \in [who : Students, version : Nat, status : {"IN_PROGRESS", "SUBMITTED"}]
        /\ [b EXCEPT !.status = "SUBMITTED"].version = b.version
    BY <1>0
  <2> QED BY <1>0, <1>6, <2>1, <2>2 DEF SubmitPinned
<1> QED BY <1>0, <1>3, <1>4, <1>5, <1>6

\* Every step preserves the invariant.
LEMMA ContentInvStep == ContentInv /\ [ContentNext]_contentVars => ContentInv'
<1>1. CASE UNCHANGED contentVars
  <2>1. UNCHANGED <<skill, material, versions, passage, heldBack, objects, mediaRows, desk, fixed, starting, pinned>>
    BY <1>1 DEF contentVars, uploadVars
  <2> QED BY <2>1 DEF ContentInv, ContentTypeOK, RowCounts, Sees, Stored, Served, WasPublic
<1> QED BY <1>1, SavesKeep, RowsKeep, ReadsKeep, UploadsKeep, TestsKeep, AttemptsKeep
        DEF ContentNext, Publishes

\* The inductive invariant holds in every reachable state.
LEMMA ContentInvariant == ContentSpec => []ContentInv
<1> QED BY ContentInvInit, ContentInvStep, PTL DEF ContentSpec

\* No save of a material is lost, a transcription of many minutes included, and what a
\* version shows can be played, however uploads fail; and an attempt that was started while
\* editors save, publish and archive shows a version that was public.
THEOREM MaterialsKept == ContentSpec => []ContentTypeOK /\ []NothingOverwritten /\ []NoDraftServed
<1>1. ContentInv => ContentTypeOK /\ NothingOverwritten /\ NoDraftServed
  BY ContentShapes DEF ContentInv, RowCounts, Stored, Served, WasPublic, NothingOverwritten, NoDraftServed
<1> QED BY <1>1, ContentInvariant, PTL

\* What a step may make public.
LEMMA PublishStep ==
  ASSUME ContentInv, [ContentNext]_contentVars
  PROVE  /\ material'.published # material.published =>
              /\ versions[material'.published].whole
              /\ \E e \in Editors : desk[e].seen = material'.published
         /\ fixed.status # "PUBLISHED" /\ fixed'.status = "PUBLISHED" =>
              \E e \in Editors : desk[e].at = "checked" /\ desk[e].seen = (IF fixed.uses THEN 1 ELSE 0)
<1>0. /\ material \in MaterialRow /\ fixed \in [status : MaterialStatus, revision : Nat, uses : BOOLEAN]
      /\ material.current \in DOMAIN versions /\ \A e \in Editors : Sees(desk[e])
  BY ContentShapes DEF ContentInv, MaterialRow
<1>1. ASSUME material'.published # material.published
      PROVE  /\ versions[material'.published].whole
             /\ \E e \in Editors : desk[e].seen = material'.published
  <2>1. PICK e \in Editors :
          \/ Updates(e) \/ Transcribed(e)
          \/ PublishReading(e) \/ PublishListening(e) \/ PublishSpeaking(e) \/ PublishWriting(e)
          \/ Archives(e)
    BY <1>1 DEF ContentNext, contentVars, Publishes, OpenMaterial, Transcribe, Leave, CheckWriting, PutObject,
       InsertMedia, UploadFails, OpenTest, UpdateTest, SetTest, CheckTest, PublishTest, ArchiveTest,
       EditPassage, HoldBack, StartReads, StartInserts, SubmitPinned
  <2>2. CASE Updates(e) \/ Transcribed(e)
    <3>1. \/ material' = material
          \/ material' = [material EXCEPT !.current = @ + 1, !.revision = @ + 1]
      BY <2>2 DEF Updates, UpdateReading, UpdateListening, UpdateWriting, UpdateSpeaking, Transcribed, Save
    <3> QED BY <1>0, <1>1, <3>1, RowSaved
  <2>3. CASE Archives(e)
    <3>1. material' = material \/ material' = Archived(material)
      BY <2>3 DEF Archives, ArchiveReading, ArchiveListening, ArchiveWriting, ArchiveSpeaking, SetRow
    <3> QED BY <1>0, <1>1, <3>1, RowSet
  <2>4. CASE PublishReading(e) \/ PublishListening(e) \/ PublishSpeaking(e)
    <3>1. /\ desk[e].at = "open" /\ skill # "writing" /\ ~Stale(e)
          /\ material' = [Published(material) EXCEPT !.revision = @ + 1]
      BY <1>1, <2>4 DEF PublishReading, PublishListening, PublishSpeaking, SetRow
    <3>2. material'.published = material.current /\ desk[e].seen = material.current
      BY <1>0, <3>1, RowSet DEF Sees, Stale
    <3>3. versions[material.current].whole
      BY <1>0, <3>1 DEF ContentInv, RowCounts
    <3> QED BY <3>2, <3>3
  <2>5. CASE PublishWriting(e)
    <3>1. /\ desk[e].at = "publishing" /\ ~Stale(e) /\ material' = Published(material)
      BY <1>1, <2>5 DEF PublishWriting, SetRow
    <3>2. material'.published = material.current /\ desk[e].seen = material.current
            /\ versions[material.current].whole
      BY <1>0, <3>1, RowSet DEF Sees, Stale
    <3> QED BY <3>2
  <2> QED BY <2>1, <2>2, <2>3, <2>4, <2>5
<1>2. ASSUME fixed.status # "PUBLISHED", fixed'.status = "PUBLISHED"
      PROVE  \E e \in Editors : desk[e].at = "checked" /\ desk[e].seen = (IF fixed.uses THEN 1 ELSE 0)
  <2>1. PICK e \in Editors : UpdateTest(e) \/ PublishTest(e) \/ ArchiveTest(e)
    BY <1>2 DEF ContentNext, contentVars, Updates, UpdateReading, UpdateListening, UpdateWriting, UpdateSpeaking,
       Transcribed, Save, Publishes, PublishReading, PublishListening, PublishSpeaking, PublishWriting, SetRow,
       Archives, ArchiveReading, ArchiveListening, ArchiveWriting, ArchiveSpeaking, OpenMaterial, Transcribe,
       Leave, CheckWriting, PutObject, InsertMedia, UploadFails, OpenTest, CheckTest,
       EditPassage, HoldBack, StartReads, StartInserts, SubmitPinned
  <2>2. ~UpdateTest(e) /\ ~ArchiveTest(e)
    <3>1. ASSUME NEW uses \in BOOLEAN,
                 fixed' = [[fixed EXCEPT !.uses = uses] EXCEPT !.revision = @ + 1]
          PROVE  fixed'.status = fixed.status
      BY <1>0, <3>1
    <3>2. [[fixed EXCEPT !.status = "ARCHIVED"] EXCEPT !.revision = @ + 1].status = "ARCHIVED"
      BY <1>0
    <3> QED BY <1>2, <3>1, <3>2 DEF UpdateTest, ArchiveTest, SetTest
  <2>3. desk[e].at = "checked" /\ desk[e].revision = fixed.revision
    BY <1>2, <2>1, <2>2 DEF PublishTest, SetTest
  <2> QED BY <1>0, <2>3 DEF Sees
<1> QED BY <1>1, <1>2

\* Materials: no save is lost, students get public versions, and what becomes public, or
\* makes a fixed test, is what its publisher was looking at.
THEOREM ContentKept == ContentSpec => MaterialsHold
<1>1. ContentInv /\ [ContentNext]_contentVars =>
        [/\ material'.published # material.published =>
              /\ versions[material'.published].whole
              /\ \E e \in Editors : desk[e].seen = material'.published
         /\ fixed.status # "PUBLISHED" /\ fixed'.status = "PUBLISHED" =>
              \E e \in Editors : desk[e].at = "checked" /\ desk[e].seen = (IF fixed.uses THEN 1 ELSE 0)
        ]_contentVars
  BY PublishStep
<1>2. ContentSpec => PublishedAsSeen
  BY <1>1, ContentInvariant, PTL DEF ContentSpec, PublishedAsSeen
<1> QED BY <1>2, MaterialsKept, PTL DEF MaterialsHold

===============================================================================
