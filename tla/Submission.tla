------------------------------ MODULE Submission ------------------------------
(***************************************************************************)
(* What the assessment of an essay promises a student, with no mention of  *)
(* queues, workers, leases or retries.  An essay is written (IN_PROGRESS), *)
(* handed in (PROCESSING) and either graded (SUBMITTED), once and for all, *)
(* for exactly the text that was handed in, or given back so that it can   *)
(* be handed in again.  Module WritingPipeline shows how the service       *)
(* implements this promise, and under which assumption.                    *)
(***************************************************************************)
CONSTANTS Attempts,  \* the attempts of one student
          Texts,     \* the non-blank texts an essay may hold
          Blank,     \* an empty or white-space text
          None       \* no evaluation yet

VARIABLES status, answers, evaluation

vars == <<status, answers, evaluation>>

Init ==
  /\ status = [a \in Attempts |-> "IN_PROGRESS"]
  /\ answers = [a \in Attempts |-> Blank]
  /\ evaluation = [a \in Attempts |-> None]

Move(a, from, to) == status[a] = from /\ status' = [status EXCEPT ![a] = to]

\* The student edits the essay while holding it.
Write(a, x) ==
  /\ status[a] = "IN_PROGRESS"
  /\ answers' = [answers EXCEPT ![a] = x]
  /\ UNCHANGED <<status, evaluation>>

\* The student hands in a last version of the text.
HandIn(a, x) ==
  /\ Move(a, "IN_PROGRESS", "PROCESSING")
  /\ answers' = [answers EXCEPT ![a] = x]
  /\ UNCHANGED evaluation

\* Grading was given up: the student holds the essay again, unchanged.
GiveBack(a) ==
  /\ Move(a, "PROCESSING", "IN_PROGRESS")
  /\ UNCHANGED <<answers, evaluation>>

\* The text that was handed in gets its one evaluation.
Grade(a) ==
  /\ Move(a, "PROCESSING", "SUBMITTED")
  /\ answers[a] \in Texts
  /\ evaluation' = [evaluation EXCEPT ![a] = answers[a]]
  /\ UNCHANGED answers

\* The exam the essay belongs to is closed while the student holds it.
Abandon(a) ==
  /\ Move(a, "IN_PROGRESS", "ABANDONED")
  /\ UNCHANGED <<answers, evaluation>>

Next ==
  \E a \in Attempts :
    \/ \E x \in Texts \cup {Blank} : Write(a, x) \/ HandIn(a, x)
    \/ GiveBack(a) \/ Grade(a) \/ Abandon(a)

\* The safety part of the promise, and the promise with its liveness: what was
\* handed in is graded or given back.
Safety == Init /\ [][Next]_vars

Spec == Safety /\ \A a \in Attempts : WF_vars(Grade(a) \/ GiveBack(a))
===============================================================================
