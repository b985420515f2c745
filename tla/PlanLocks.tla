-------------------------------- MODULE PlanLocks --------------------------------
(***************************************************************************)
(* Locks of study plans and the pool of connections.                       *)
(*                                                                         *)
(*   internal/studyplan  Service.beginLocked, Service.execute              *)
(*   internal/database   the pool                                          *)
(*                                                                         *)
(* A command holds its student's advisory lock on one connection and needs *)
(* a second one to start an attempt or to look at the week's mock, while   *)
(* others of that student keep trying the lock.                            *)
(***************************************************************************)
EXTENDS Naturals, FiniteSets

CONSTANTS
  Commands,     \* requests on plans
  Owner,        \* whose plan each of them is about
  PoolSize

\* With as many students as connections, each may hold one and wait for another.
ASSUME LockAssumption ==
  PoolSize \in Nat /\ Cardinality({Owner[c] : c \in Commands}) < PoolSize

VARIABLE step   \* where each command is

lockVars == <<step>>

PlanLocksTypeOK ==
  step \in [Commands -> {"arriving", "trying", "waiting", "owning", "starting", "saving", "done"}]

PlanLocksInit == step = [c \in Commands |-> "arriving"]

-------------------------------------------------------------------------------
(* Faulty variant: a waiter that keeps its connection, as pg_advisory_xact_lock would. *)

KeepsConnection(c) == step' = step

-------------------------------------------------------------------------------

StepOf(c, from, to) == step[c] = from /\ step' = [step EXCEPT ![c] = to]

\* One connection from the lock to the end, another one while an attempt is started.
Connections ==
  Cardinality({c \in Commands : step[c] \in {"trying", "owning", "starting", "saving"}})
    + Cardinality({c \in Commands : step[c] = "starting"})

FreeConnection == Connections < PoolSize

Locked(c) == \E o \in Commands : Owner[o] = Owner[c] /\ step[o] \in {"owning", "starting", "saving"}

BeginStart(c) == FreeConnection /\ (StepOf(c, "arriving", "trying") \/ StepOf(c, "waiting", "trying"))

TryLock(c) == ~Locked(c) /\ StepOf(c, "trying", "owning")

\* The lock is taken: the transaction is rolled back for ten milliseconds.
WaitsOutside(c) == StepOf(c, "trying", "waiting")

Refused(c) == step[c] = "trying" /\ Locked(c) /\ WaitsOutside(c)

\* The client is gone.
CancelWait(c) == StepOf(c, "waiting", "done")

\* A second connection: attempts.Start, or the overview of the mocks.
StartAttempt(c) == FreeConnection /\ StepOf(c, "owning", "starting")

Started(c) == StepOf(c, "starting", "saving")

\* Commands that start nothing save at once.
SavesOnly(c) == StepOf(c, "owning", "saving")

CommitPlan(c) == StepOf(c, "saving", "done")

\* It is given a connection, or a statement it has sent returns.
Connects(c) == BeginStart(c) \/ StartAttempt(c)

Returns(c) == TryLock(c) \/ Refused(c) \/ Started(c) \/ CommitPlan(c)

PlanLocksNext ==
  \/ \E c \in Commands : Connects(c) \/ Returns(c) \/ CancelWait(c) \/ SavesOnly(c)
  \/ (\A c \in Commands : step[c] = "done") /\ UNCHANGED step

\* The pool serves those who wait for a connection in the order they came, and
\* statements return.
PlanLocksFairness == \A c \in Commands : SF_lockVars(Connects(c)) /\ WF_lockVars(Returns(c))

PlanLocksSpec == PlanLocksInit /\ [][PlanLocksNext]_lockVars /\ PlanLocksFairness

-------------------------------------------------------------------------------

\* A command that has its student's lock ends: those who wait for the lock never keep it
\* from the second connection it needs.
OwnersEnd == \A c \in Commands : step[c] = "owning" ~> step[c] = "done"

===============================================================================
