------------------------------- MODULE DailyLimits -------------------------------
(***************************************************************************)
(* The daily limits of the AI: settings and counters.                      *)
(*                                                                         *)
(*   internal/ailimits  Service, PostgresRepository                        *)
(*   internal/cache     DailyLimiter                                       *)
(*   internal/attempts  Service.Start, submitWriting, submitSpeaking       *)
(*                                                                         *)
(* The limits are one row, copied to Redis and for three seconds to the    *)
(* memory of each replica; an administrator changes one of them on the     *)
(* copy of the replica that serves the request.  One student's hand-ins    *)
(* take the uses of the day from a counter in Redis.                       *)
(***************************************************************************)
EXTENDS Naturals

CONSTANTS
  Replicas,
  Scopes,       \* what has a limit: writing, speaking, the assistant
  Handins,      \* requests of the student
  DefaultLimit, \* what the configuration says of each of them
  MaxLimit,     \* bound on the limits an administrator sets
  MaxUpdates    \* bound on the updates

ASSUME LimitAssumption == MaxLimit \in Nat \ {0} /\ DefaultLimit \in 0..MaxLimit /\ MaxUpdates \in Nat

VARIABLES
  stored,       \* system_daily_limits
  shared,       \* the settings in Redis
  memory,       \* Service.cached of each replica
  update,       \* the update each replica is serving
  fill,         \* what each replica read in the row and has yet to give Redis, holding its lock
  updates,      \* how many updates there were
  saved,        \* every row there was
  used,         \* the counter of each scope, today
  granted,      \* the highest limit a use of today was granted under
  handin        \* the scope each request was let through to by Start

settingVars == <<stored, shared, memory, update, fill, updates, saved>>
useVars == <<used, granted, handin>>
dailyVars == <<stored, shared, memory, update, fill, updates, saved, used, granted, handin>>

LimitValues == [Scopes -> 0..MaxLimit]

Defaults == [s \in Scopes |-> DefaultLimit]

NoCopy == [known |-> FALSE]
Known(limits) == [known |-> TRUE, limits |-> limits]
MaybeLimits == {Known(l) : l \in LimitValues} \cup {NoCopy}

NoUpdate == [at |-> "idle"]

DailyTypeOK ==
  /\ stored \in LimitValues
  /\ shared \in MaybeLimits
  /\ memory \in [Replicas -> MaybeLimits]
  /\ update \in [Replicas -> [at : {"saving", "remembering", "publishing"}, limits : LimitValues] \cup {NoUpdate}]
  /\ fill \in [Replicas -> MaybeLimits]
  /\ updates \in 0..MaxUpdates
  /\ saved \subseteq LimitValues
  /\ used \in [Scopes -> 0..MaxLimit]
  /\ granted \in [Scopes -> 0..MaxLimit]
  /\ handin \in [Handins -> Scopes \cup {"idle"}]

DailyInit ==
  /\ stored = [s \in Scopes |-> 1]
  /\ shared = NoCopy
  /\ memory = [r \in Replicas |-> NoCopy]
  /\ update = [r \in Replicas |-> NoUpdate]
  /\ fill = [r \in Replicas |-> NoCopy]
  /\ updates = 0
  /\ saved = {stored}
  /\ used = [s \in Scopes |-> 0]
  /\ granted = [s \in Scopes |-> 0]
  /\ handin = [h \in Handins |-> "idle"]

-------------------------------------------------------------------------------
(* Faulty variants, the slips the properties are there to notice.           *)

\* A GET and an INCR of their own: what was read is not asked again.
ReadBefore(s, limit) == TRUE

\* The replica's copy changes before the row does.
RemembersFirst(r, limits) == memory' = [memory EXCEPT ![r] = Known(limits)]

-------------------------------------------------------------------------------
(* Settings.                                                                *)

\* Get, when its copy has lapsed: from Redis if it is there.
GetShared(r) ==
  /\ ~memory[r].known /\ ~fill[r].known
  /\ shared.known
  /\ memory' = [memory EXCEPT ![r] = shared]
  /\ UNCHANGED <<stored, shared, update, fill, updates, saved, useVars>>

\* From the row otherwise, and then Redis is given what was read.
GetStored(r) ==
  /\ ~memory[r].known /\ ~fill[r].known
  /\ ~shared.known
  /\ memory' = [memory EXCEPT ![r] = Known(stored)]
  /\ fill' = [fill EXCEPT ![r] = Known(stored)]
  /\ UNCHANGED <<stored, shared, update, updates, saved, useVars>>

\* The row cannot be read: the defaults, for three seconds, and Redis is told nothing.
GetDefaults(r) ==
  /\ ~memory[r].known /\ ~fill[r].known
  /\ memory' = [memory EXCEPT ![r] = Known(Defaults)]
  /\ UNCHANGED <<stored, shared, update, fill, updates, saved, useVars>>

\* syncRedis drops the error of its write.
FillRedis(r) ==
  /\ fill[r].known
  /\ shared' \in {shared, fill[r]}
  /\ fill' = [fill EXCEPT ![r] = NoCopy]
  /\ UNCHANGED <<stored, memory, update, updates, saved, useVars>>

\* The three seconds of a replica; a week, or a restart, of Redis.
MemoryLapses(r) ==
  /\ memory[r].known /\ ~fill[r].known
  /\ memory' = [memory EXCEPT ![r] = NoCopy]
  /\ UNCHANGED <<stored, shared, update, fill, updates, saved, useVars>>

SharedLapses ==
  /\ shared.known
  /\ shared' = NoCopy
  /\ UNCHANGED <<stored, memory, update, fill, updates, saved, useVars>>

\* What the replica remembers while the row is not written: what it did.
BeforeSaving(r, limits) == UNCHANGED memory

\* Update: the limits as this replica knows them, with the one that was sent.
Update(r) ==
  /\ update[r] = NoUpdate /\ updates < MaxUpdates
  /\ memory[r].known
  /\ updates' = updates + 1
  /\ \E s \in Scopes, limit \in 0..MaxLimit :
       LET current == [memory[r].limits EXCEPT ![s] = limit] IN
       /\ update' = [update EXCEPT ![r] = [at |-> "saving", limits |-> current]]
       /\ BeforeSaving(r, current)
  /\ UNCHANGED <<stored, shared, fill, saved, useVars>>

\* The row is written whole, or the update fails.
Upsert(r) ==
  /\ update[r].at = "saving"
  /\ \/ /\ stored' = update[r].limits
        /\ saved' = saved \cup {update[r].limits}
        /\ update' = [update EXCEPT ![r].at = "remembering"]
     \/ /\ update' = [update EXCEPT ![r] = NoUpdate]
        /\ UNCHANGED <<stored, saved>>
  /\ UNCHANGED <<shared, memory, fill, updates, useVars>>

Remember(r) ==
  /\ update[r].at = "remembering"
  /\ ~fill[r].known
  /\ memory' = [memory EXCEPT ![r] = Known(update[r].limits)]
  /\ update' = [update EXCEPT ![r].at = "publishing"]
  /\ UNCHANGED <<stored, shared, fill, updates, saved, useVars>>

SyncRedis(r) ==
  /\ update[r].at = "publishing"
  /\ shared' \in {shared, Known(update[r].limits)}
  /\ update' = [update EXCEPT ![r] = NoUpdate]
  /\ UNCHANGED <<stored, memory, fill, updates, saved, useVars>>

-------------------------------------------------------------------------------
(* Counters.                                                                *)

\* Start: only a look at the counter, others may take what it saw.
Check(r, h, s) ==
  /\ handin[h] = "idle"
  /\ memory[r].known
  /\ memory[r].limits[s] = 0 \/ used[s] < memory[r].limits[s]
  /\ handin' = [handin EXCEPT ![h] = s]
  /\ UNCHANGED <<settingVars, used, granted>>

\* What the script of Allow finds when it runs, in one piece with the use it takes.
UsesLeft(s, limit) == used[s] < limit

\* Submit: a use of the day, or a refusal; a limit of zero takes none and refuses nobody.
Allow(r, h, s) ==
  LET limit == memory[r].limits[s]
      takes == limit > 0 /\ UsesLeft(s, limit)
  IN
  /\ handin[h] = s
  /\ memory[r].known
  /\ handin' = [handin EXCEPT ![h] = "idle"]
  /\ used' = [used EXCEPT ![s] = IF takes THEN @ + 1 ELSE @]
  /\ granted' = [granted EXCEPT ![s] = IF takes /\ limit > @ THEN limit ELSE @]
  /\ UNCHANGED settingVars

\* Midnight in Almaty: another key.
NextDay ==
  /\ \E s \in Scopes : used[s] > 0
  /\ used' = [s \in Scopes |-> 0]
  /\ granted' = [s \in Scopes |-> 0]
  /\ UNCHANGED <<settingVars, handin>>

DailyNext ==
  \/ \E r \in Replicas :
       \/ GetShared(r) \/ GetStored(r) \/ GetDefaults(r) \/ FillRedis(r) \/ MemoryLapses(r)
       \/ Update(r) \/ Upsert(r) \/ Remember(r) \/ SyncRedis(r)
  \/ \E r \in Replicas, h \in Handins, s \in Scopes : Check(r, h, s) \/ Allow(r, h, s)
  \/ SharedLapses
  \/ NextDay

DailySpec == DailyInit /\ [][DailyNext]_dailyVars

-------------------------------------------------------------------------------
(* Properties.                                                              *)

\* The uses of a day never go over the highest limit one of them was granted under,
\* however many hand-ins ask together and however far apart the replicas' copies are.
\* What Redis has is a row that was saved, and what a replica has is one too, or the
\* defaults: an update that fails leaves no trace.
LimitsHold ==
  /\ \A s \in Scopes : used[s] <= granted[s]
  /\ \A r \in Replicas : memory[r].known => memory[r].limits \in saved \cup {Defaults}
  /\ shared.known => shared.limits \in saved

===============================================================================
