\* Without the paywall nothing is locked: two tabs start one material.
SPECIFICATION Spec
CONSTANTS
  m1 = m1
  m2 = m2
  s1 = s1
  s2 = s2
  Materials = {m1, m2}
  Skills = {s1, s2}
  SkillOf <- OneSkill
  Txs = {t1, t2}
  None = none
  Paywall = FALSE
  Exempt = FALSE
  Limits = {0, 2}
  MaxStarts = 2
SYMMETRY Symmetry
INVARIANTS
  OnePractice
