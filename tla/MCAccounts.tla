------------------------------- MODULE MCAccounts -------------------------------
(***************************************************************************)
(* The accounts of a person, the codes sent to the phone, and the free     *)
(* starts of an account.  What a registration spends is decided on the row *)
(* of the code alone, and starts on rows of their own, so that a behaviour *)
(* is one of one of the three, chosen at the start.                        *)
(***************************************************************************)
EXTENDS Accounts, PhoneVerification, FreeUsage, TLC

CONSTANTS m1, m2, s1, s2

VARIABLE about

\* Free starts: two materials of one skill; a mock takes both skills.
OneSkill == m1 :> s1 @@ m2 :> s1

SumInit ==
  /\ about \in {"account", "phone", "starts"}
  /\ AccountInit /\ PhoneInit /\ Init
  /\ about # "account" => ~listed
  /\ about # "starts" => ~active /\ \A s \in Skills : limit[s] = 0

SumNext ==
  \/ about = "account" /\ AccountNext /\ UNCHANGED <<about, phoneVars, vars>>
  \/ about = "phone" /\ PhoneNext /\ UNCHANGED <<about, accountVars, vars>>
  \/ about = "starts" /\ Next /\ UNCHANGED <<about, accountVars, phoneVars>>

SumSpec == SumInit /\ [][SumNext]_<<about, accountVars, phoneVars, vars>>

\* Two requests, of whatever kind.
Symmetry == Permutations(Logins)
===============================================================================
