------------------------------- MODULE MCEndings -------------------------------
(***************************************************************************)
(* What must come to an end: transactions that lock rows of billing, an    *)
(* operation on the chain of providers, commands that hold the lock of a   *)
(* study plan.  They share no state: a behaviour is one of one of them,    *)
(* chosen at the start, with the fairness of that one.                     *)
(***************************************************************************)
EXTENDS BillingLocks, ProviderChain, PlanLocks, TLC

CONSTANTS p1, p2, env, t1, t2, t3, c1, c2, c3, c4, ann, bob, o1, e1

VARIABLE ending

\* BillingLocks: an order of one account and what it has paid for; the other account has
\* used the first one's code.
OfOne == o1 :> ann @@ e1 :> ann

ByOrder == e1 :> o1

ReferredOther == ann :> {bob} @@ bob :> {}

\* ProviderChain: two providers of the bank and that of the environment.
TwoAndEnv == <<p1, p2, env>>

\* PlanLocks: three commands of one student and one of another.
TwoStudents == c1 :> ann @@ c2 :> ann @@ c3 :> ann @@ c4 :> bob

SumInit == ending \in {"billing", "chain", "locks"} /\ LockingInit /\ ChainInit /\ PlanLocksInit

\* A step of the one that moves.
Billing(A) == ending = "billing" /\ A /\ UNCHANGED <<ending, chainVars, lockVars>>

Chain(A) == ending = "chain" /\ A /\ UNCHANGED <<ending, lockingVars, lockVars>>

Locks(A) == ending = "locks" /\ A /\ UNCHANGED <<ending, lockingVars, chainVars>>

sumVars == <<ending, lockingVars, chainVars, lockVars>>

SumNext == Billing(LockingNext) \/ Chain(ChainNext) \/ Locks(PlanLocksNext)

\* The fairness of each module.  As only one of them moves, a condition of one, one of
\* another and one of the third are a condition on the three.
SumFairness ==
  /\ WF_sumVars(Billing(TakeLock(t1) \/ CommitDeal(t1)) \/ Locks(Returns(c1))
                  \/ Chain(\E n \in 0..Len(Order), spent \in {0, 1} : Rotate(n, spent)))
  /\ WF_sumVars(Billing(TakeLock(t2) \/ CommitDeal(t2)) \/ Locks(Returns(c2)) \/ Chain(Ask \/ GiveUp))
  /\ WF_sumVars(Billing(TakeLock(t3) \/ CommitDeal(t3)) \/ Locks(Returns(c3))
                  \/ Chain(Answer \/ \E spent \in {0, op.allot}, recording \in {0, RecordLimit} :
                                     Fail(spent, recording, TRUE)))
  /\ WF_sumVars(Billing(Detected(t1)) \/ Locks(Returns(c4)))
  /\ WF_sumVars(Billing(Detected(t2))) /\ WF_sumVars(Billing(Detected(t3)))
  /\ \A c \in Commands : SF_sumVars(Locks(Connects(c)))

SumSpec == SumInit /\ [][SumNext]_sumVars /\ SumFairness

-----------------------------------------------------------------------------

\* An operation on the chain ends whatever its providers do, and a command that has the
\* lock of a plan comes to its end.
RequestsEnd == OperationEnds /\ OwnersEnd
===============================================================================
