--------------------------------- MODULE Grades ---------------------------------
(***************************************************************************)
(* Objective attempts and what their answers are worth: module Objective   *)
(* has an attempt under concurrent requests, module Grading the points of  *)
(* one answer and what a guest is shown of the mistakes.                   *)
(***************************************************************************)
EXTENDS Objective, Grading

\* The grade of an attempt is that of its stored answers, full marks are for the exact
\* answer, and a preview opens the same mistakes in whatever order they come.
GradesHold ==
  ObjectiveTypeOK /\ GradeMatchesAnswers /\ GradingTypeOK /\ FullMarksAreExact /\ SamePreview
===============================================================================
