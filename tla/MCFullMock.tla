------------------------------- MODULE MCFullMock -------------------------------
(***************************************************************************)
(* FullMock on two sessions that share nothing: that of a student, whose   *)
(* variables are the module's own, and the trial of a guest.  A behaviour  *)
(* is one of one of them, chosen at the start.                             *)
(***************************************************************************)
EXTENDS FullMock, TLC

CONSTANTS GuestLast, GuestObjective, GuestBudget, GuestTime

VARIABLES who, gSession, gStatus, gJob, gComplete, gRevision, gClock, gNow, gRequest, gUsed

guestVars == <<gSession, gStatus, gJob, gComplete, gRevision, gClock, gNow, gRequest, gUsed>>

G == INSTANCE FullMock WITH
       Last <- GuestLast, Objective <- GuestObjective, Speaking <- {}, Guest <- TRUE,
       Budget <- GuestBudget, MaxTime <- GuestTime, MaxTakes <- 0,
       session <- gSession, status <- gStatus, job <- gJob, complete <- gComplete, revision <- gRevision,
       clock <- gClock, now <- gNow, request <- gRequest, used <- gUsed

BothInit == who \in {"student", "guest"} /\ Init /\ G!Init

BothNext ==
  \/ who = "student" /\ Next /\ UNCHANGED <<who, guestVars>>
  \/ who = "guest" /\ G!Next /\ UNCHANGED <<who, vars>>

BothSpec == BothInit /\ [][BothNext]_<<who, vars, guestVars>>

Symmetry == Permutations(Requests)

-------------------------------------------------------------------------------
\* Two tabs of a guest that advance at the same time never skip a section, a closed
\* session stays closed, and finishing gives up no section the guest still holds.
GuestSections == G!SectionsInOrder
===============================================================================
