------------------------------ MODULE MCBackOffice ------------------------------
(***************************************************************************)
(* What is sold, published and administered: orders, mocks and guest       *)
(* trials, daily limits, the bank of providers, posts, materials and who   *)
(* is online.  They share no state: a behaviour is one of one of them,     *)
(* chosen at the start, and the others stand still.                        *)
(***************************************************************************)
EXTENDS BillingOrders, MockSessions, DailyLimits, ProviderBank, Presence, Blog, Materials, TLC

CONSTANTS
  t1, t2, m1, m2, o1, o2, s1, ann, moe, short, long

VARIABLE subject

\* Mocks: a bank of two materials of one skill.
OneBank == m1 :> s1 @@ m2 :> s1

\* The parts that stand still all start in one state.
SumInit ==
  /\ subject \in {"orders", "mocks", "limits", "bank", "presence", "blog", "content"}
  /\ Init /\ MockInit /\ DailyInit /\ BankInit /\ PresenceInit /\ BlogInit /\ ContentInit
  /\ subject # "blog" => \A u \in Members : role[u] = "STUDENT"
  /\ subject # "content" => skill = CHOOSE k \in MaterialKinds : TRUE
  /\ subject # "mocks" => \A m \in Bank : published[m] = 0

SumNext ==
  \/ /\ subject = "orders" /\ Next
     /\ UNCHANGED <<subject, mockVars, dailyVars, bankVars, presenceVars, blogVars, contentVars>>
  \/ /\ subject = "mocks" /\ MockNext
     /\ UNCHANGED <<subject, vars, dailyVars, bankVars, presenceVars, blogVars, contentVars>>
  \/ /\ subject = "limits" /\ DailyNext
     /\ UNCHANGED <<subject, vars, mockVars, bankVars, presenceVars, blogVars, contentVars>>
  \/ /\ subject = "bank" /\ BankNext
     /\ UNCHANGED <<subject, vars, mockVars, dailyVars, presenceVars, blogVars, contentVars>>
  \/ /\ subject = "presence" /\ PresenceNext
     /\ UNCHANGED <<subject, vars, mockVars, dailyVars, bankVars, blogVars, contentVars>>
  \/ /\ subject = "blog" /\ BlogNext
     /\ UNCHANGED <<subject, vars, mockVars, dailyVars, bankVars, presenceVars, contentVars>>
  \/ /\ subject = "content" /\ ContentNext
     /\ UNCHANGED <<subject, vars, mockVars, dailyVars, bankVars, presenceVars, blogVars>>

SumSpec ==
  SumInit /\ [][SumNext]_<<subject, vars, mockVars, dailyVars, bankVars, presenceVars, blogVars, contentVars>>

\* Two requests, transactions, replicas, editors or administrators; and two orders (with
\* the ids their providers give them) or new providers.
Symmetry == Permutations({t1, t2}) \cup Permutations({o1, o2})
===============================================================================
