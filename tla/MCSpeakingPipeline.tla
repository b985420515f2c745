--------------------------- MODULE MCSpeakingPipeline ---------------------------
(***************************************************************************)
(* SpeakingPipeline on small instances.                                    *)
(***************************************************************************)
EXTENDS SpeakingPipeline, TLC

CONSTANT a1

\* All parts are of one attempt.
OneAttempt == [p \in Parts |-> a1]

\* Workers are alike, and so are the parts of one attempt.
Symmetry == Permutations(Workers) \cup Permutations(Parts)
===============================================================================
