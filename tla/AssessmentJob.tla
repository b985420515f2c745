----------------------------- MODULE AssessmentJob -----------------------------
(***************************************************************************)
(* The rows of an assessed attempt as the rest of the system sees them:    *)
(* attempts.status and the status of its assessment job, with QUEUED and   *)
(* PROCESSING told apart no longer.  Modules WritingPipeline and           *)
(* SpeakingPipeline implement this machine; FullMock is built on it.       *)
(***************************************************************************)
CONSTANT Attempts

VARIABLES status, job

vars == <<status, job>>

Init ==
  /\ status = [a \in Attempts |-> "IN_PROGRESS"]
  /\ job = [a \in Attempts |-> "NONE"]

\* Handed in for the first time, again after edits, or retried as it is.
Queue(a) ==
  /\ status[a] = "IN_PROGRESS"
  /\ status' = [status EXCEPT ![a] = "PROCESSING"]
  /\ job' = [job EXCEPT ![a] = "ACTIVE"]

Retry(a) == job[a] = "FAILED" /\ Queue(a)

\* A worker that lost its lease may grade an attempt that was given back.
Grade(a) ==
  /\ status[a] \in {"IN_PROGRESS", "PROCESSING"}
  /\ job[a] # "NONE"
  /\ status' = [status EXCEPT ![a] = "SUBMITTED"]
  /\ UNCHANGED job

Close(a) ==
  /\ status[a] = "SUBMITTED"
  /\ job[a] # "NONE"
  /\ job' = [job EXCEPT ![a] = "READY"]
  /\ UNCHANGED status

\* The last try failed.  It may fail after the attempt was graded, when the worker
\* did not learn that its grade was stored.
GiveUp(a) ==
  /\ job[a] = "ACTIVE"
  /\ job' = [job EXCEPT ![a] = "FAILED"]
  /\ status' = [status EXCEPT ![a] = IF @ = "PROCESSING" THEN "IN_PROGRESS" ELSE @]

Abandon(a) ==
  /\ status[a] = "IN_PROGRESS"
  /\ status' = [status EXCEPT ![a] = "ABANDONED"]
  /\ UNCHANGED job

Next ==
  \E a \in Attempts : Queue(a) \/ Grade(a) \/ Close(a) \/ GiveUp(a) \/ Abandon(a)

Spec == Init /\ [][Next]_vars
===============================================================================
