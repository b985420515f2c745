------------------------------- MODULE MCLearning -------------------------------
(***************************************************************************)
(* What is learnt: the study plan, the learning cycles of mistakes,        *)
(* objective attempts and their grading, and the pages the mistakes list   *)
(* loads.  They share no state: a behaviour is one of one of them, chosen  *)
(* at the start, and the others stand still.                               *)
(***************************************************************************)
EXTENDS StudyPlan, LearningCycles, Grades, GradingPages, TLC

CONSTANTS f0, f1, f2, right, partial, wrong, g1, g2

VARIABLE topic

\* Learning cycles: one label of each mistake at first.
Reviewed == [x \in {0} \cup Drills |-> CASE x = 0 -> f0 [] x = 1 -> f1 [] OTHER -> f2]

\* Study plan: the student rests on the second day.
SecondDay == {{2}}

\* Objective attempts: what an answer is worth.
ByAnswer == [a \in Answers |-> CASE a = right -> 2 [] a = partial -> 1 [] OTHER -> 0]

\* Grading: four options, of which the first three have a letter: the first is called
\* by the letter of the third, the second by its own.  Keys of one and of two of them.
FourOptions == <<"c", "B", "k", "m">>
ThreeLetters == <<"A", "B", "C">>
InCapitals == [o \in {"c", "B", "k", "m"} |->
                 CASE o = "c" -> "C" [] o = "k" -> "K" [] o = "m" -> "M" [] OTHER -> o]
TwoKeys == {{"k"}, {"c", "B"}, {"B", "m"}}

\* Mistakes pages: how many versions each needs.
OneEach == g1 :> 1 @@ g2 :> 1

Topics == {"plan", "cycles", "attempt", "grading", "pages"}

\* The parts that stand still all start in one state.
SumInit ==
  /\ topic \in Topics
  /\ StudyInit /\ LearningInit /\ ObjectiveInit /\ GradingInit /\ PagesInit
  /\ topic # "attempt" => exam = "NONE"
  /\ topic # "grading" => question = CHOOSE q \in GradedQuestions : q.points = 1

SumNext ==
  \/ /\ topic = "plan" /\ StudyNext
     /\ UNCHANGED <<learningVars, objectiveVars, gradingVars, pagesVars, topic>>
  \/ /\ topic = "cycles" /\ LearningNext
     /\ UNCHANGED <<studyVars, objectiveVars, gradingVars, pagesVars, topic>>
  \/ /\ topic = "attempt" /\ ObjectiveNext
     /\ UNCHANGED <<studyVars, learningVars, gradingVars, pagesVars, topic>>
  \/ /\ topic = "grading" /\ GradingNext
     /\ UNCHANGED <<studyVars, learningVars, objectiveVars, pagesVars, topic>>
  \/ /\ topic = "pages" /\ PagesNext
     /\ UNCHANGED <<studyVars, learningVars, objectiveVars, gradingVars, topic>>

SumSpec ==
  SumInit /\ [][SumNext]_<<studyVars, learningVars, objectiveVars, gradingVars, pagesVars, topic>>
===============================================================================
