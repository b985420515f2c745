------------------------------ MODULE MCFreeUsage ------------------------------
EXTENDS FreeUsage, TLC

CONSTANTS m1, m2, s1, s2

\* Two materials of one skill; a mock takes both skills.
OneSkill == m1 :> s1 @@ m2 :> s1

Symmetry == Permutations(Txs)
===============================================================================
