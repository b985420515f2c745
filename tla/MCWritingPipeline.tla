--------------------------- MODULE MCWritingPipeline ---------------------------
(***************************************************************************)
(* WritingPipeline on small instances.  Texts, tabs and workers are inter- *)
(* changeable in the safety runs.                                          *)
(***************************************************************************)
EXTENDS WritingPipeline, TLC

Symmetry == Permutations(Texts) \cup Permutations(Tabs) \cup Permutations(Workers)
===============================================================================
