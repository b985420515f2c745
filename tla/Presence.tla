-------------------------------- MODULE Presence --------------------------------
(***************************************************************************)
(* Who is online, and who was here today.                                  *)
(*                                                                         *)
(*   internal/analytics  Tracker, Handler.Ping                             *)
(*                                                                         *)
(* A student's requests leave one row a day in PostgreSQL, guarded by a    *)
(* key in Redis; a visitor's heartbeats leave a score and a path in Redis, *)
(* and a trim takes away the stale ones in two round trips.  Everything is *)
(* off the request path: any write may fail or be cut by its timeout.      *)
(***************************************************************************)
EXTENDS Naturals, FiniteSets

CONSTANTS
  Servers,      \* replicas, each with its own throttle
  Visitors,     \* browser tabs
  Trims,        \* trims that may overlap
  OnlineWindow, \* ticks of the clock, two minutes
  MaxTime       \* bound on the clock

ASSUME PresenceAssumption == OnlineWindow \in Nat \ {0} /\ MaxTime \in Nat

VARIABLES
  seenKey,      \* the student's key of today is in Redis
  activity,     \* user_activity_days has the row
  touch,        \* what each replica's goroutine is doing for the student
  recent,       \* replicas that touched the student within userTouchInterval
  orphaned,     \* a write was lost that leaves the key without its row
  time,         \* the clock
  score,        \* of each visitor, keyOnlineVisitors
  path,         \* the visitors with an entry in keyVisitorPaths
  trim          \* what each trim has read

dayVars == <<seenKey, activity, touch, recent, orphaned>>
onlineVars == <<time, score, path, trim>>
presenceVars == <<seenKey, activity, touch, recent, orphaned, time, score, path, trim>>

Gone == MaxTime + 1         \* the score of a visitor who is not in the set
NoTrim == [at |-> "idle"]

PresenceTypeOK ==
  /\ seenKey \in BOOLEAN /\ activity \in BOOLEAN /\ orphaned \in BOOLEAN
  /\ touch \in [Servers -> {"idle", "marking", "inserting", "undoing"}]
  /\ recent \subseteq Servers
  /\ time \in 0..MaxTime
  /\ score \in [Visitors -> 0..Gone]
  /\ path \subseteq Visitors
  /\ trim \in [Trims -> [at : {"removing"}, cutoff : 0..MaxTime, stale : SUBSET Visitors] \cup {NoTrim}]

PresenceInit ==
  /\ seenKey = FALSE /\ activity = FALSE /\ orphaned = FALSE
  /\ touch = [r \in Servers |-> "idle"]
  /\ recent = {}
  /\ time = 0
  /\ score = [v \in Visitors |-> Gone]
  /\ path = {}
  /\ trim = [t \in Trims |-> NoTrim]

-------------------------------------------------------------------------------
(* Faulty variants, the slips the properties are there to notice.           *)

LeavesKey(r) == touch' = [touch EXCEPT ![r] = "idle"] /\ UNCHANGED seenKey

CutoffNow(t) == IF time >= 2 * OnlineWindow THEN time - 2 * OnlineWindow ELSE 0

-------------------------------------------------------------------------------
(* The row of the day.                                                      *)

Goes(r, to) == touch' = [touch EXCEPT ![r] = to]

\* TouchUser: at most one goroutine per interval.
TouchUser(r) ==
  /\ r \notin recent /\ touch[r] = "idle"
  /\ recent' = recent \cup {r}
  /\ Goes(r, "marking")
  /\ UNCHANGED <<seenKey, activity, orphaned, onlineVars>>

\* The interval passes, or the throttle is cleared; the goroutine ends within it.
IntervalEnds(r) ==
  /\ r \in recent /\ touch[r] = "idle"
  /\ recent' = recent \ {r}
  /\ UNCHANGED <<seenKey, activity, touch, orphaned, onlineVars>>

\* SETNX with the presence: only who sets the key goes on to the row.
Mark(r) ==
  /\ touch[r] = "marking"
  /\ seenKey' = TRUE
  /\ Goes(r, IF seenKey THEN "idle" ELSE "inserting")
  /\ UNCHANGED <<activity, recent, orphaned, onlineVars>>

\* The pipeline fails, before Redis took the key or after it.
MarkFails(r) ==
  /\ touch[r] = "marking"
  /\ Goes(r, "idle")
  /\ seenKey' \in {seenKey, TRUE}
  /\ orphaned' = (orphaned \/ seenKey' # seenKey)
  /\ UNCHANGED <<activity, recent, onlineVars>>

InsertDay(r) ==
  /\ touch[r] = "inserting"
  /\ activity' = TRUE
  /\ Goes(r, "idle")
  /\ UNCHANGED <<seenKey, recent, orphaned, onlineVars>>

\* "Let the next request retry the daily row": the key is to go, and with it the row may
\* be there, when only the answer was lost.
InsertFails(r) ==
  /\ touch[r] = "inserting"
  /\ Goes(r, "undoing")
  /\ activity' \in {activity, TRUE}
  /\ UNCHANGED <<seenKey, recent, orphaned, onlineVars>>

ForgetKey(r) == seenKey' = FALSE /\ Goes(r, "idle")

UndoMark(r) ==
  /\ touch[r] = "undoing"
  /\ ForgetKey(r)
  /\ UNCHANGED <<activity, recent, orphaned, onlineVars>>

\* The two seconds were spent on the row, or the process ends: the key stays.
TouchLost(r) ==
  /\ touch[r] \in {"inserting", "undoing"}
  /\ Goes(r, "idle")
  /\ orphaned' = TRUE
  /\ UNCHANGED <<seenKey, activity, recent, onlineVars>>

-------------------------------------------------------------------------------
(* Visitors online.                                                         *)

ClockTicks ==
  /\ time < MaxTime
  /\ time' = time + 1
  /\ UNCHANGED <<dayVars, score, path, trim>>

Ping(v) ==
  /\ score' = [score EXCEPT ![v] = time]
  /\ path' = path \cup {v}
  /\ UNCHANGED <<dayVars, time, trim>>

Before(v, cutoff) == score[v] # Gone /\ score[v] <= cutoff

ListStale(t) ==
  /\ trim[t] = NoTrim
  /\ time >= 2 * OnlineWindow
  /\ LET cutoff == time - 2 * OnlineWindow IN
       trim' = [trim EXCEPT ![t] =
         [at |-> "removing", cutoff |-> cutoff, stale |-> {v \in Visitors : Before(v, cutoff)}]]
  /\ UNCHANGED <<dayVars, time, score, path>>

\* The cutoff of the removal is the one the stale visitors were listed with.
Cutoff(t) == trim[t].cutoff

\* A visitor listed as stale loses the path, even one that has come back meanwhile.
RemoveStale(t) ==
  /\ trim[t] # NoTrim
  /\ path' = path \ trim[t].stale
  /\ score' = [v \in Visitors |-> IF Before(v, Cutoff(t)) THEN Gone ELSE score[v]]
  /\ trim' = [trim EXCEPT ![t] = NoTrim]
  /\ UNCHANGED <<dayVars, time>>

\* The second round trip fails: nothing is removed this time.
TrimFails(t) ==
  /\ trim[t] # NoTrim
  /\ trim' = [trim EXCEPT ![t] = NoTrim]
  /\ UNCHANGED <<dayVars, time, score, path>>

PresenceNext ==
  \/ \E r \in Servers :
       \/ TouchUser(r) \/ IntervalEnds(r) \/ Mark(r) \/ MarkFails(r)
       \/ InsertDay(r) \/ InsertFails(r) \/ UndoMark(r) \/ TouchLost(r)
  \/ ClockTicks
  \/ \E v \in Visitors : Ping(v)
  \/ \E t \in Trims : ListStale(t) \/ RemoveStale(t) \/ TrimFails(t)

PresenceSpec == PresenceInit /\ [][PresenceNext]_presenceVars

-------------------------------------------------------------------------------
(* Properties.                                                              *)

\* While the day's key keeps others from writing the row, the row is there or a replica is
\* about to write it or to give the key up, unless a write was lost that nothing repeats.
\* No path stays behind for a visitor who is no longer in the set, where no trim finds it.
PresenceHolds ==
  /\ seenKey => activity \/ orphaned \/ \E r \in Servers : touch[r] \in {"inserting", "undoing"}
  /\ \A v \in path : score[v] # Gone

===============================================================================
