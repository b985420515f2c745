------------------------------ MODULE Accounts_proofs ------------------------------
(***************************************************************************)
(* Proofs about who signs in and up: the codes sent to a phone, for any    *)
(* number of requests that guess and of registrations, and the refresh     *)
(* sessions of an account, for any number of requests.  And what the       *)
(* account may start for free (FreeUsage), for any number of materials,    *)
(* skills, concurrent requests and values of the limits.                   *)
(***************************************************************************)
EXTENDS Accounts, PhoneVerification, FreeUsage, FiniteSetTheorems, WellFoundedInduction, TLAPS

-------------------------------------------------------------------------------
(* Phones: the inductive invariant.                                         *)

\* Requests that compared a code with theirs, wrongly, and have not recorded it.
Recording(c) == {g \in Guessers : guess[g].at = "recording" /\ guess[g].of = c}

\* While a challenge is open, every guess it was compared with is a try, or is about to be
\* recorded as one, or was lost with its request.
GuessesCounted ==
  \A c \in DOMAIN challenges :
    Open(c) => compared[c] <= challenges[c].tries + Cardinality(Recording(c)) + lost

\* One registration at a time holds a challenge, and what it holds is not consumed.
RowsHeld ==
  \A c \in 1..MaxChallenges :
    /\ \A r, q \in spender[c] : r = q
    /\ spender[c] # {} => c \in DOMAIN challenges /\ ~challenges[c].consumed /\ paid[c] = 0

\* Nothing is known of a challenge that was not sent.
NotSent ==
  /\ Len(challenges) <= MaxChallenges
  /\ \A g \in Guessers : guess[g].at # "idle" => guess[g].of \in DOMAIN challenges
  /\ \A c \in (1..MaxChallenges) \ DOMAIN challenges : compared[c] = 0 /\ paid[c] = 0

PhoneInv == PhoneTypeOK /\ lost \in Nat /\ GuessesCounted /\ RowsHeld /\ NotSent /\ GuessesBounded /\ PaysOnce

\* The initial state is in the invariant.
LEMMA PhoneInvInit == PhoneInit => PhoneInv
<1> SUFFICES ASSUME PhoneInit PROVE PhoneInv
  OBVIOUS
<1>1. challenges \in Seq(Challenge) /\ DOMAIN challenges = {} /\ Len(challenges) = 0
  BY DEF PhoneInit
<1>2. 0 \in 0..MaxChallenges /\ 0 <= MaxChallenges
  BY PhoneAssumption
<1>3. PhoneTypeOK /\ lost \in Nat
  <2>1. compared \in [1..MaxChallenges -> Nat] /\ paid \in [1..MaxChallenges -> Nat] /\ lost \in Nat
    BY DEF PhoneInit
  <2>2. guess \in [Guessers -> [of : 0..MaxChallenges, at : {"idle", "comparing", "recording"}]]
    BY <1>2 DEF PhoneInit, NoGuess
  <2>3. cooling \in BOOLEAN /\ spender \in [1..MaxChallenges -> SUBSET Registrations]
    BY DEF PhoneInit
  <2> QED BY <1>1, <2>1, <2>2, <2>3 DEF PhoneTypeOK
<1>4. GuessesCounted /\ GuessesBounded /\ PaysOnce
  BY <1>1 DEF GuessesCounted, GuessesBounded, PaysOnce
<1>5. RowsHeld /\ NotSent
  BY <1>1, <1>2 DEF PhoneInit, RowsHeld, NotSent, NoGuess
<1> QED BY <1>3, <1>4, <1>5 DEF PhoneInv

\* How many requests can be about to record a guess.
LEMMA RecordingCounted ==
  ASSUME NEW c
  PROVE  /\ IsFiniteSet(Recording(c)) /\ Cardinality(Recording(c)) \in Nat
         /\ Cardinality(Recording(c)) <= Cardinality(Guessers) /\ Cardinality(Guessers) \in Nat
         /\ \A g \in Guessers \ Recording(c) : Cardinality(Recording(c)) <= Cardinality(Guessers) - 1
<1>1. IsFiniteSet(Recording(c)) /\ Recording(c) \subseteq Guessers
        /\ Cardinality(Recording(c)) <= Cardinality(Guessers)
  BY PhoneAssumption, FS_Subset DEF Recording
<1>2. Cardinality(Recording(c)) \in Nat /\ Cardinality(Guessers) \in Nat
  BY <1>1, PhoneAssumption, FS_CardinalityType
<1>3. ASSUME NEW g \in Guessers \ Recording(c)
      PROVE  Cardinality(Recording(c)) <= Cardinality(Guessers) - 1
  <2>1. Cardinality(Recording(c)) # Cardinality(Guessers)
    BY <1>1, PhoneAssumption, FS_Subset
  <2> QED BY <1>1, <1>2, <2>1
<1> QED BY <1>1, <1>2, <1>3

\* A request that begins to record, or is done, is one more or less.
LEMMA RecordingMoves ==
  ASSUME NEW c, NEW g \in Guessers
  PROVE  /\ Recording(c)' = Recording(c) \cup {g} /\ g \notin Recording(c) =>
              Cardinality(Recording(c)') = Cardinality(Recording(c)) + 1
         /\ Recording(c)' = Recording(c) \ {g} =>
              /\ Cardinality(Recording(c)') \in Nat
              /\ g \in Recording(c) => Cardinality(Recording(c)') = Cardinality(Recording(c)) - 1
              /\ g \notin Recording(c) => Cardinality(Recording(c)') = Cardinality(Recording(c))
BY RecordingCounted, FS_AddElement, FS_RemoveElement, FS_CardinalityType

\* The rows of the challenges, and what they are.
LEMMA PhoneShapes ==
  ASSUME PhoneInv
  PROVE  /\ challenges \in Seq(Challenge) /\ DOMAIN challenges \subseteq 1..MaxChallenges
         /\ \A c \in DOMAIN challenges : challenges[c] \in Challenge /\ challenges[c].tries \in Nat
         /\ guess \in [Guessers -> [of : 0..MaxChallenges, at : {"idle", "comparing", "recording"}]]
         /\ spender \in [1..MaxChallenges -> SUBSET Registrations]
         /\ compared \in [1..MaxChallenges -> Nat] /\ paid \in [1..MaxChallenges -> Nat]
         /\ lost \in Nat /\ CodeTries \in Nat /\ CodeTries > 0 /\ MaxChallenges \in Nat
<1>1. challenges \in Seq(Challenge) /\ Len(challenges) <= MaxChallenges /\ MaxChallenges \in Nat
  BY PhoneAssumption DEF PhoneInv, PhoneTypeOK, NotSent
<1>2. DOMAIN challenges \subseteq 1..MaxChallenges
  BY <1>1
<1>3. \A c \in DOMAIN challenges : challenges[c] \in Challenge /\ challenges[c].tries \in Nat
  <2> SUFFICES ASSUME NEW c \in DOMAIN challenges
               PROVE  challenges[c] \in Challenge /\ challenges[c].tries \in Nat
    OBVIOUS
  <2>1. challenges[c] \in Challenge
    BY <1>1
  <2> QED BY <2>1 DEF Challenge
<1> QED BY <1>1, <1>2, <1>3, PhoneAssumption DEF PhoneInv, PhoneTypeOK

\* One more challenge: nothing was compared with it.
LEMMA SendStep ==
  ASSUME PhoneInv, Send
  PROVE  PhoneInv'
<1> DEFINE n == Len(challenges)
           row == [tries |-> 0, lives |-> TRUE, verified |-> FALSE, token |-> FALSE, consumed |-> FALSE]
<1>1. /\ challenges' = Append(challenges, row) /\ n < MaxChallenges /\ cooling' = TRUE
      /\ UNCHANGED <<guess, spender, compared, lost, paid>>
  BY DEF Send
<1>2. row \in Challenge /\ row.tries = 0 /\ ~row.consumed
  BY DEF Challenge
<1>3. challenges \in Seq(Challenge) /\ n \in Nat /\ DOMAIN challenges = 1..n /\ MaxChallenges \in Nat
  BY PhoneShapes
<1> HIDE DEF row
<1>4. /\ challenges' \in Seq(Challenge) /\ Len(challenges') = n + 1 /\ DOMAIN challenges' = 1..(n + 1)
      /\ challenges'[n + 1] = row /\ \A c \in 1..n : challenges'[c] = challenges[c]
  BY <1>1, <1>2, <1>3
<1>5. n + 1 \in (1..MaxChallenges) \ DOMAIN challenges
  BY <1>1, <1>3
<1>6. compared[n + 1] = 0 /\ paid[n + 1] = 0
  BY <1>5 DEF PhoneInv, NotSent
<1>7. PhoneTypeOK' /\ lost' \in Nat
  BY <1>1, <1>4 DEF PhoneInv, PhoneTypeOK
<1>8. GuessesCounted'
  <2> SUFFICES ASSUME NEW c \in 1..(n + 1), Open(c)'
               PROVE  compared[c] <= challenges'[c].tries + Cardinality(Recording(c)) + lost
    BY <1>1, <1>4 DEF GuessesCounted, Recording
  <2>1. CASE c = n + 1
    BY <1>2, <1>4, <1>6, <2>1, RecordingCounted, PhoneShapes
  <2>2. CASE c \in 1..n
    BY <1>3, <1>4, <2>2 DEF PhoneInv, GuessesCounted, Open
  <2> QED BY <1>3, <2>1, <2>2
<1>9. GuessesBounded' /\ PaysOnce'
  <2> SUFFICES ASSUME NEW c \in 1..(n + 1)
               PROVE  /\ challenges'[c].tries <= CodeTries
                      /\ compared[c] <= CodeTries + Cardinality(Guessers) - 1 + lost
                      /\ paid[c] <= 1 /\ (paid[c] = 1 => challenges'[c].consumed)
    BY <1>1, <1>4 DEF GuessesBounded, PaysOnce
  <2>0. Cardinality(Guessers) \in Nat /\ lost \in Nat /\ CodeTries \in Nat /\ CodeTries > 0
    BY PhoneAssumption, FS_CardinalityType, PhoneShapes
  <2>1. CASE c = n + 1
    BY <1>2, <1>4, <1>6, <2>0, <2>1
  <2>2. CASE c \in 1..n
    BY <1>3, <1>4, <2>2 DEF PhoneInv, GuessesBounded, PaysOnce
  <2> QED BY <1>3, <2>1, <2>2
<1>10. RowsHeld'
  BY <1>1, <1>3, <1>4 DEF PhoneInv, RowsHeld
<1>11. NotSent'
  BY <1>1, <1>3, <1>4 DEF PhoneInv, NotSent
<1> QED BY <1>7, <1>8, <1>9, <1>10, <1>11 DEF PhoneInv

\* A change of one challenge leaves the others alone.
LEMMA ChallengeSet ==
  ASSUME PhoneInv, NEW c \in DOMAIN challenges, NEW row \in Challenge, challenges' = [challenges EXCEPT ![c] = row]
  PROVE  /\ challenges' \in Seq(Challenge) /\ DOMAIN challenges' = DOMAIN challenges
         /\ Len(challenges') = Len(challenges)
         /\ challenges'[c] = row /\ \A d \in DOMAIN challenges : d # c => challenges'[d] = challenges[d]
BY PhoneShapes

\* What each of the steps on a challenge leaves there.
LEMMA ChallengeRows ==
  ASSUME NEW row \in Challenge
  PROVE  /\ [row EXCEPT !.tries = @ + 1] \in Challenge
         /\ [row EXCEPT !.tries = @ + 1, !.verified = TRUE, !.token = TRUE] \in Challenge
         /\ [row EXCEPT !.lives = FALSE, !.token = @ /\ row.lives] \in Challenge
         /\ [row EXCEPT !.consumed = TRUE] \in Challenge
<1>1. row.tries + 1 \in Nat /\ row.lives \in BOOLEAN /\ row.token \in BOOLEAN
  BY DEF Challenge
<1>2. (row.token /\ row.lives) \in BOOLEAN
  BY <1>1
<1>3. [row EXCEPT !.lives = FALSE, !.token = row.token /\ row.lives] \in Challenge
  BY <1>2 DEF Challenge
<1> QED BY <1>1, <1>3 DEF Challenge

\* A step that touches no guess leaves their count alone.
LEMMA SameRecording ==
  ASSUME UNCHANGED guess, NEW c
  PROVE  Recording(c)' = Recording(c)
BY DEF Recording

\* A guess that turns out right closes the challenge.
LEMMA RightStep ==
  ASSUME PhoneInv, NEW g \in Guessers, VerifyRight(g)
  PROVE  PhoneInv'
<1>c. PICK c \in DOMAIN challenges : c = guess[g].of
  BY DEF VerifyRight, PhoneInv, NotSent
<1> DEFINE row == [challenges[c] EXCEPT !.tries = @ + 1, !.verified = TRUE, !.token = TRUE]
<1>0. /\ guess[g].at = "comparing" /\ Open(c) /\ c \in DOMAIN challenges
      /\ guess' = [guess EXCEPT ![g] = NoGuess]
      /\ compared' = [compared EXCEPT ![c] = @ + 1]
      /\ UNCHANGED <<cooling, spender, lost, paid>>
  BY <1>c DEF VerifyRight
<1>1. challenges' = [challenges EXCEPT ![c] = row]
  BY <1>c DEF VerifyRight
<1>2. /\ challenges[c] \in Challenge /\ challenges[c].tries \in Nat /\ challenges[c].tries < CodeTries
      /\ ~challenges[c].consumed /\ c \in 1..MaxChallenges
  BY <1>0, PhoneShapes DEF Open
<1>3. /\ row \in Challenge /\ row.verified /\ row.tries = challenges[c].tries + 1
      /\ row.consumed = challenges[c].consumed
  BY <1>2, ChallengeRows DEF Challenge
<1> HIDE DEF row
<1>4. /\ challenges' \in Seq(Challenge) /\ DOMAIN challenges' = DOMAIN challenges
      /\ Len(challenges') = Len(challenges)
      /\ challenges'[c] = row /\ \A d \in DOMAIN challenges : d # c => challenges'[d] = challenges[d]
  BY <1>0, <1>1, <1>3, ChallengeSet
<1>5. g \notin Recording(c)
  BY <1>0 DEF Recording
<1>6. compared[c] <= challenges[c].tries + Cardinality(Recording(c)) + lost
  BY <1>0 DEF PhoneInv, GuessesCounted
<1>7. Cardinality(Recording(c)) \in Nat /\ Cardinality(Recording(c)) <= Cardinality(Guessers) - 1
        /\ Cardinality(Guessers) \in Nat
  BY <1>5, RecordingCounted
<1>8. ASSUME NEW d PROVE Recording(d)' = Recording(d)
  BY <1>0, PhoneShapes DEF Recording, NoGuess
<1>9. PhoneTypeOK' /\ lost' \in Nat
  BY <1>0, <1>2, <1>4, PhoneShapes DEF PhoneInv, PhoneTypeOK, NoGuess
<1>10. GuessesCounted'
  <2>1. ~Open(c)'
    BY <1>3, <1>4 DEF Open
  <2>2. ASSUME NEW d \in DOMAIN challenges, d # c, Open(d)'
        PROVE  Open(d) /\ compared'[d] = compared[d]
    BY <1>0, <1>4, <2>2 DEF Open
  <2> QED BY <1>0, <1>4, <1>8, <2>1, <2>2 DEF PhoneInv, GuessesCounted
<1>11. GuessesBounded'
  <2>1. ASSUME NEW d \in DOMAIN challenges, d # c
        PROVE  challenges'[d].tries = challenges[d].tries /\ compared'[d] = compared[d]
    BY <1>0, <1>4, <2>1
  <2>2. challenges'[c].tries <= CodeTries
    BY <1>2, <1>3, <1>4, PhoneShapes
  <2>3. compared'[c] <= CodeTries + Cardinality(Guessers) - 1 + lost
    BY SMTT(30), <1>0, <1>2, <1>6, <1>7, PhoneShapes
  <2> QED BY <1>0, <1>4, <2>1, <2>2, <2>3 DEF PhoneInv, GuessesBounded
<1>12. PaysOnce' /\ RowsHeld'
  BY <1>0, <1>2, <1>3, <1>4 DEF PhoneInv, PaysOnce, RowsHeld
<1>13. NotSent'
  BY <1>0, <1>4, PhoneShapes DEF PhoneInv, NotSent, NoGuess
<1> QED BY <1>9, <1>10, <1>11, <1>12, <1>13 DEF PhoneInv

\* A wrong guess of an open challenge is one more that is about to be recorded.
LEMMA WrongStep ==
  ASSUME PhoneInv, NEW g \in Guessers, VerifyWrong(g)
  PROVE  PhoneInv'
<1>c. PICK c \in DOMAIN challenges : c = guess[g].of
  BY DEF VerifyWrong, PhoneInv, NotSent
<1>0. /\ guess[g].at = "comparing" /\ c \in DOMAIN challenges /\ c \in 1..MaxChallenges
      /\ guess' = [guess EXCEPT ![g] = [guess[g] EXCEPT !.at = "recording"]]
      /\ compared' = IF Open(c) THEN [compared EXCEPT ![c] = @ + 1] ELSE compared
      /\ UNCHANGED <<challenges, cooling, spender, lost, paid>>
  BY <1>c, PhoneShapes DEF VerifyWrong
<1>1. [guess[g] EXCEPT !.at = "recording"] \in [of : 0..MaxChallenges, at : {"idle", "comparing", "recording"}]
        /\ [guess[g] EXCEPT !.at = "recording"].of = c /\ [guess[g] EXCEPT !.at = "recording"].at = "recording"
  BY <1>c, PhoneShapes
<1>2. g \notin Recording(c)
  BY <1>0 DEF Recording
<1>3. /\ Recording(c)' = Recording(c) \cup {g}
      /\ \A d \in DOMAIN challenges : d # c => Recording(d)' = Recording(d)
  BY <1>0, <1>1, PhoneShapes DEF Recording
<1>4. Cardinality(Recording(c)') = Cardinality(Recording(c)) + 1
  BY <1>2, <1>3, RecordingMoves
<1>5. Cardinality(Recording(c)) \in Nat /\ Cardinality(Recording(c)) <= Cardinality(Guessers) - 1
        /\ Cardinality(Guessers) \in Nat
  BY <1>2, RecordingCounted
<1>6. \A d \in 1..MaxChallenges : d # c => compared'[d] = compared[d]
  BY <1>0, PhoneShapes
<1>7. Open(c) => compared[c] <= challenges[c].tries + Cardinality(Recording(c)) + lost
                 /\ compared'[c] = compared[c] + 1 /\ challenges[c].tries < CodeTries
  BY <1>0, PhoneShapes DEF PhoneInv, GuessesCounted, Open
<1>8. compared' \in [1..MaxChallenges -> Nat]
  BY <1>0, PhoneShapes
<1>9. PhoneTypeOK' /\ lost' \in Nat
  BY <1>0, <1>1, <1>8 DEF PhoneInv, PhoneTypeOK
<1>10. \A d : Open(d)' <=> Open(d)
  BY <1>0 DEF Open
<1>11. GuessesCounted'
  <2> SUFFICES ASSUME NEW d \in DOMAIN challenges, Open(d)
               PROVE  compared'[d] <= challenges[d].tries + Cardinality(Recording(d)') + lost
    BY <1>0, <1>10 DEF GuessesCounted
  <2>1. CASE d = c
    BY SMTT(30), <1>4, <1>5, <1>7, <2>1, PhoneShapes
  <2>2. CASE d # c
    BY <1>3, <1>6, <2>2, PhoneShapes DEF PhoneInv, GuessesCounted
  <2> QED BY <2>1, <2>2
<1>12. GuessesBounded'
  <2> SUFFICES ASSUME NEW d \in DOMAIN challenges
               PROVE  compared'[d] <= CodeTries + Cardinality(Guessers) - 1 + lost
    BY <1>0 DEF PhoneInv, GuessesBounded
  <2>1. CASE d = c /\ Open(c)
    BY SMTT(30), <1>0, <1>5, <1>7, <2>1, PhoneShapes
  <2>2. CASE d # c \/ ~Open(c)
    BY <1>0, <1>6, <2>2, PhoneShapes DEF PhoneInv, GuessesBounded
  <2> QED BY <2>1, <2>2
<1>13. PaysOnce' /\ RowsHeld'
  BY <1>0 DEF PhoneInv, PaysOnce, RowsHeld
<1>14. NotSent'
  BY <1>0, <1>1, <1>6, PhoneShapes DEF PhoneInv, NotSent
<1> QED BY <1>9, <1>11, <1>12, <1>13, <1>14 DEF PhoneInv

\* A request that is done, or dead, is not about to record anything.
LEMMA DoneRecording ==
  ASSUME PhoneInv, NEW g \in Guessers, guess' = [guess EXCEPT ![g] = NoGuess], NEW c
  PROVE  Recording(c)' = Recording(c) \ {g}
BY PhoneShapes DEF Recording, NoGuess

\* A request that takes a challenge up has compared nothing yet.
LEMMA ConfirmStep ==
  ASSUME PhoneInv, NEW g \in Guessers, NEW c \in DOMAIN challenges, Confirm(g, c)
  PROVE  PhoneInv'
<1>0. /\ guess[g] = NoGuess /\ guess' = [guess EXCEPT ![g] = [of |-> c, at |-> "comparing"]]
      /\ UNCHANGED <<challenges, cooling, spender, compared, lost, paid>>
  BY DEF Confirm
<1>1. [of |-> c, at |-> "comparing"] \in [of : 0..MaxChallenges, at : {"idle", "comparing", "recording"}]
  BY PhoneShapes
<1>2. \A d : Recording(d)' = Recording(d)
  BY <1>0, PhoneShapes DEF Recording, NoGuess
<1>3. PhoneTypeOK' /\ lost' \in Nat
  BY <1>0, <1>1 DEF PhoneInv, PhoneTypeOK
<1>4. GuessesCounted'
  BY <1>0, <1>2 DEF PhoneInv, GuessesCounted, Open
<1>5. RowsHeld' /\ GuessesBounded' /\ PaysOnce'
  BY <1>0 DEF PhoneInv, RowsHeld, GuessesBounded, PaysOnce
<1>6. NotSent'
  BY <1>0, PhoneShapes DEF PhoneInv, NotSent
<1> QED BY <1>3, <1>4, <1>5, <1>6 DEF PhoneInv

\* A wrong guess is recorded as a try, or finds that the challenge has closed.
LEMMA RecordStep ==
  ASSUME PhoneInv, NEW g \in Guessers, RecordTry(g)
  PROVE  PhoneInv'
<1>c. PICK c \in DOMAIN challenges : c = guess[g].of
  BY DEF RecordTry, PhoneInv, NotSent
<1> DEFINE row == IF Open(c) THEN [challenges[c] EXCEPT !.tries = @ + 1] ELSE challenges[c]
<1>0. /\ guess[g].at = "recording" /\ c \in DOMAIN challenges /\ c \in 1..MaxChallenges
      /\ guess' = [guess EXCEPT ![g] = NoGuess]
      /\ UNCHANGED <<cooling, spender, compared, lost, paid>>
  BY <1>c, PhoneShapes DEF RecordTry
<1>1. challenges' = [challenges EXCEPT ![c] = row]
  <2>1. CASE Open(c)
    BY <1>c, <2>1 DEF RecordTry
  <2>2. CASE ~Open(c)
    <3>1. challenges' = challenges /\ row = challenges[c] /\ challenges \in Seq(Challenge)
      BY <1>c, <2>2, PhoneShapes DEF RecordTry
    <3> HIDE DEF row
    <3> QED BY <3>1
  <2> QED BY <2>1, <2>2
<1>2. challenges[c] \in Challenge /\ challenges[c].tries \in Nat
  BY PhoneShapes
<1>3. /\ row \in Challenge /\ row.consumed = challenges[c].consumed
      /\ Open(c) => row.tries = challenges[c].tries + 1
      /\ ~Open(c) => row = challenges[c]
  BY <1>2, ChallengeRows DEF Challenge
<1> HIDE DEF row
<1>4. /\ challenges' \in Seq(Challenge) /\ DOMAIN challenges' = DOMAIN challenges
      /\ Len(challenges') = Len(challenges)
      /\ challenges'[c] = row /\ \A d \in DOMAIN challenges : d # c => challenges'[d] = challenges[d]
  BY <1>1, <1>3, ChallengeSet
<1>5. \A d : Recording(d)' = Recording(d) \ {g}
  BY <1>0, DoneRecording
<1>6. /\ g \in Recording(c) /\ Cardinality(Recording(c)') = Cardinality(Recording(c)) - 1
      /\ Cardinality(Recording(c)) \in Nat /\ Cardinality(Recording(c)') \in Nat
  <2>1. g \in Recording(c)
    BY <1>0, <1>c DEF Recording
  <2> QED BY <1>5, <2>1, RecordingMoves, RecordingCounted
<1>7. ASSUME NEW d \in DOMAIN challenges, d # c PROVE Recording(d)' = Recording(d)
  <2>1. g \notin Recording(d)
    BY <1>c, <1>7 DEF Recording
  <2> QED BY <1>5, <2>1
<1>8. PhoneTypeOK' /\ lost' \in Nat
  BY <1>0, <1>4, PhoneShapes DEF PhoneInv, PhoneTypeOK, NoGuess
<1>9. GuessesCounted'
  <2> SUFFICES ASSUME NEW d \in DOMAIN challenges, Open(d)'
               PROVE  compared[d] <= challenges'[d].tries + Cardinality(Recording(d)') + lost
    BY <1>0, <1>4 DEF GuessesCounted
  <2>1. CASE d # c
    BY <1>4, <1>7, <2>1 DEF PhoneInv, GuessesCounted, Open
  <2>2. CASE d = c
    <3>1. Open(c)
      BY <1>3, <1>4, <2>2 DEF Open
    <3>2. compared[c] <= challenges[c].tries + Cardinality(Recording(c)) + lost
      BY <3>1 DEF PhoneInv, GuessesCounted
    <3> QED BY SMTT(30), <1>0, <1>2, <1>3, <1>4, <1>6, <2>2, <3>1, <3>2, PhoneShapes
  <2> QED BY <2>1, <2>2
<1>10. GuessesBounded'
  <2>1. challenges'[c].tries <= CodeTries
    <3>1. CASE Open(c)
      BY <1>2, <1>3, <1>4, <3>1, PhoneShapes DEF Open
    <3>2. CASE ~Open(c)
      BY <1>3, <1>4, <3>2 DEF PhoneInv, GuessesBounded
    <3> QED BY <3>1, <3>2
  <2> QED BY <1>0, <1>4, <2>1 DEF PhoneInv, GuessesBounded
<1>11. PaysOnce' /\ RowsHeld'
  BY <1>0, <1>3, <1>4 DEF PhoneInv, PaysOnce, RowsHeld
<1>12. NotSent'
  BY <1>0, <1>4, PhoneShapes DEF PhoneInv, NotSent, NoGuess
<1> QED BY <1>8, <1>9, <1>10, <1>11, <1>12 DEF PhoneInv

\* A request that dies loses the guess it was about to record.
LEMMA AbortStep ==
  ASSUME PhoneInv, NEW g \in Guessers, GuessAbort(g)
  PROVE  PhoneInv'
<1>c. PICK c \in DOMAIN challenges : c = guess[g].of
  BY DEF GuessAbort, PhoneInv, NotSent
<1>0. /\ lost' = IF guess[g].at = "recording" THEN lost + 1 ELSE lost
      /\ guess' = [guess EXCEPT ![g] = NoGuess]
      /\ UNCHANGED <<challenges, cooling, spender, compared, paid>>
  BY DEF GuessAbort
<1>1. lost \in Nat /\ lost' \in Nat /\ lost <= lost'
  BY <1>0, PhoneShapes
<1>2. \A d : Recording(d)' = Recording(d) \ {g}
  BY <1>0, DoneRecording
<1>3. PhoneTypeOK'
  BY <1>0, PhoneShapes DEF PhoneInv, PhoneTypeOK, NoGuess
<1>4. GuessesCounted'
  <2> SUFFICES ASSUME NEW d \in DOMAIN challenges, Open(d)
               PROVE  compared[d] <= challenges[d].tries + Cardinality(Recording(d)') + lost'
    BY <1>0 DEF GuessesCounted, Open
  <2>1. compared[d] <= challenges[d].tries + Cardinality(Recording(d)) + lost
    BY DEF PhoneInv, GuessesCounted
  <2>2. /\ Cardinality(Recording(d)) \in Nat /\ Cardinality(Recording(d)') \in Nat
        /\ g \in Recording(d) => Cardinality(Recording(d)') = Cardinality(Recording(d)) - 1
        /\ g \notin Recording(d) => Cardinality(Recording(d)') = Cardinality(Recording(d))
    BY <1>2, RecordingMoves, RecordingCounted
  <2>3. g \in Recording(d) => lost' = lost + 1
    BY <1>0 DEF Recording
  <2>4. compared[d] \in Nat /\ challenges[d].tries \in Nat
    BY PhoneShapes
  <2>5. CASE g \in Recording(d)
    BY <1>1, <2>1, <2>2, <2>3, <2>4, <2>5
  <2>6. CASE g \notin Recording(d)
    BY <1>1, <2>1, <2>2, <2>4, <2>6
  <2> QED BY <2>5, <2>6
<1>5. GuessesBounded'
  <2>1. Cardinality(Guessers) \in Nat
    BY PhoneAssumption, FS_CardinalityType
  <2>2. ASSUME NEW d \in DOMAIN challenges
        PROVE  compared[d] <= CodeTries + Cardinality(Guessers) - 1 + lost'
    <3>1. compared[d] <= CodeTries + Cardinality(Guessers) - 1 + lost
      BY DEF PhoneInv, GuessesBounded
    <3>2. compared[d] \in Nat /\ CodeTries \in Nat
      BY PhoneShapes
    <3> QED BY <1>1, <2>1, <3>1, <3>2
  <2> QED BY <1>0, <2>2 DEF PhoneInv, GuessesBounded
<1>6. PaysOnce' /\ RowsHeld'
  BY <1>0 DEF PhoneInv, PaysOnce, RowsHeld
<1>7. NotSent'
  BY <1>0, PhoneShapes DEF PhoneInv, NotSent, NoGuess
<1> QED BY <1>1, <1>3, <1>4, <1>5, <1>6, <1>7 DEF PhoneInv

\* A challenge or its token expires.
LEMMA ExpireStep ==
  ASSUME PhoneInv, NEW c \in DOMAIN challenges, Expire(c)
  PROVE  PhoneInv'
<1> DEFINE row == [challenges[c] EXCEPT !.lives = FALSE, !.token = @ /\ challenges[c].lives]
<1>0. challenges' = [challenges EXCEPT ![c] = row] /\ UNCHANGED <<cooling, guess, spender, compared, lost, paid>>
  BY DEF Expire
<1>1. challenges[c] \in Challenge /\ challenges[c].tries \in Nat
  BY PhoneShapes
<1>2. row \in Challenge /\ row.tries = challenges[c].tries /\ row.consumed = challenges[c].consumed /\ ~row.lives
  <2>1. row \in Challenge
    BY <1>1, ChallengeRows
  <2>2. {"tries", "lives", "consumed"} \subseteq DOMAIN challenges[c]
    BY <1>1 DEF Challenge
  <2> QED BY <2>1, <2>2
<1> HIDE DEF row
<1>3. /\ challenges' \in Seq(Challenge) /\ DOMAIN challenges' = DOMAIN challenges
      /\ Len(challenges') = Len(challenges)
      /\ challenges'[c] = row /\ \A d \in DOMAIN challenges : d # c => challenges'[d] = challenges[d]
  BY <1>0, <1>2, ChallengeSet
<1>4. \A d : Recording(d)' = Recording(d)
  BY <1>0, SameRecording
<1>5. PhoneTypeOK' /\ lost' \in Nat
  BY <1>0, <1>3 DEF PhoneInv, PhoneTypeOK
<1>6. GuessesCounted'
  BY <1>0, <1>2, <1>3, <1>4 DEF PhoneInv, GuessesCounted, Open
<1>7. GuessesBounded' /\ PaysOnce' /\ RowsHeld'
  BY <1>0, <1>2, <1>3 DEF PhoneInv, GuessesBounded, PaysOnce, RowsHeld
<1>8. NotSent'
  BY <1>0, <1>3 DEF PhoneInv, NotSent
<1> QED BY <1>5, <1>6, <1>7, <1>8 DEF PhoneInv

\* A registration locks a row that nobody holds and that was not consumed: it has paid for none.
LEMMA LockStep ==
  ASSUME PhoneInv, NEW r \in Registrations, NEW c \in DOMAIN challenges,
         LockPhone(r, c) \/ RefuseUser(r, c)
  PROVE  PhoneInv'
<1>0. c \in 1..MaxChallenges /\ UNCHANGED <<challenges, cooling, guess, compared, lost, paid>>
  BY PhoneShapes DEF LockPhone, RefuseUser
<1>1. /\ spender' \in [1..MaxChallenges -> SUBSET Registrations]
      /\ \A d \in 1..MaxChallenges : d # c => spender'[d] = spender[d]
      /\ spender'[c] = {r} \/ spender'[c] \subseteq spender[c]
  <2>1. spender \in [1..MaxChallenges -> SUBSET Registrations]
    BY PhoneShapes
  <2>2. CASE LockPhone(r, c)
    BY <1>0, <2>1, <2>2 DEF LockPhone, Free
  <2>3. CASE RefuseUser(r, c)
    BY <1>0, <2>1, <2>3 DEF RefuseUser
  <2> QED BY <2>2, <2>3
<1>2. spender'[c] # {} => ~challenges[c].consumed /\ paid[c] = 0
  <2>1. CASE LockPhone(r, c)
    <3>1. ~challenges[c].consumed /\ paid[c] \in Nat /\ paid[c] <= 1 /\ paid[c] # 1
      BY <1>0, <2>1, PhoneShapes DEF LockPhone, PhoneInv, PaysOnce
    <3> QED BY <3>1
  <2>2. CASE RefuseUser(r, c)
    BY <1>0, <2>2 DEF RefuseUser, PhoneInv, RowsHeld
  <2> QED BY <2>1, <2>2
<1>3. RowsHeld'
  BY <1>0, <1>1, <1>2 DEF PhoneInv, RowsHeld
<1>4. PhoneTypeOK' /\ lost' \in Nat
  BY <1>0, <1>1 DEF PhoneInv, PhoneTypeOK
<1>5. GuessesCounted' /\ GuessesBounded' /\ PaysOnce' /\ NotSent'
  BY <1>0 DEF PhoneInv, GuessesCounted, Recording, Open, GuessesBounded, PaysOnce, NotSent
<1> QED BY <1>3, <1>4, <1>5 DEF PhoneInv

\* The registration that holds a row consumes it, and it pays once.
LEMMA ConsumeStep ==
  ASSUME PhoneInv, NEW r \in Registrations, NEW c \in DOMAIN challenges, Consume(r, c)
  PROVE  PhoneInv'
<1> DEFINE row == [challenges[c] EXCEPT !.consumed = TRUE]
<1>0. /\ r \in spender[c] /\ challenges' = [challenges EXCEPT ![c] = row] /\ c \in 1..MaxChallenges
      /\ spender' = [spender EXCEPT ![c] = @ \ {r}] /\ paid' = [paid EXCEPT ![c] = @ + 1]
      /\ UNCHANGED <<cooling, guess, compared, lost>>
  BY PhoneShapes DEF Consume
<1>1. challenges[c] \in Challenge /\ challenges[c].tries \in Nat
  BY PhoneShapes
<1>2. row \in Challenge /\ row.tries = challenges[c].tries /\ row.consumed
  BY <1>1, ChallengeRows DEF Challenge
<1> HIDE DEF row
<1>3. /\ challenges' \in Seq(Challenge) /\ DOMAIN challenges' = DOMAIN challenges
      /\ Len(challenges') = Len(challenges)
      /\ challenges'[c] = row /\ \A d \in DOMAIN challenges : d # c => challenges'[d] = challenges[d]
  BY <1>0, <1>2, ChallengeSet
<1>4. /\ spender' \in [1..MaxChallenges -> SUBSET Registrations] /\ spender'[c] = {}
      /\ \A d \in 1..MaxChallenges : d # c => spender'[d] = spender[d]
  BY <1>0, PhoneShapes DEF PhoneInv, RowsHeld
<1>5. /\ paid' \in [1..MaxChallenges -> Nat] /\ paid'[c] = 1
      /\ \A d \in 1..MaxChallenges : d # c => paid'[d] = paid[d]
  <2>1. paid[c] = 0
    BY <1>0 DEF PhoneInv, RowsHeld
  <2> QED BY <1>0, <2>1, PhoneShapes
<1>6. \A d : Recording(d)' = Recording(d)
  BY <1>0, SameRecording
<1>7. PhoneTypeOK' /\ lost' \in Nat
  BY <1>0, <1>3, <1>4, <1>5 DEF PhoneInv, PhoneTypeOK
<1>8. GuessesCounted'
  BY <1>0, <1>2, <1>3, <1>6 DEF PhoneInv, GuessesCounted, Open
<1>9. GuessesBounded'
  BY <1>0, <1>2, <1>3 DEF PhoneInv, GuessesBounded
<1>10. PaysOnce' /\ RowsHeld'
  BY <1>0, <1>2, <1>3, <1>4, <1>5, PhoneShapes DEF PhoneInv, PaysOnce, RowsHeld
<1>11. NotSent'
  BY <1>0, <1>3, <1>5 DEF PhoneInv, NotSent
<1> QED BY <1>7, <1>8, <1>9, <1>10, <1>11 DEF PhoneInv

\* Every step of the phones keeps the invariant.
LEMMA PhoneInvStep == PhoneInv /\ [PhoneNext]_phoneVars => PhoneInv'
<1> SUFFICES ASSUME PhoneInv, [PhoneNext]_phoneVars PROVE PhoneInv'
  OBVIOUS
<1>1. CASE IntervalPasses \/ UNCHANGED phoneVars
  <2>1. UNCHANGED <<challenges, guess, spender, compared, lost, paid>> /\ cooling' \in BOOLEAN
    BY <1>1 DEF IntervalPasses, phoneVars, PhoneInv, PhoneTypeOK
  <2> QED BY <2>1 DEF PhoneInv, PhoneTypeOK, GuessesCounted, Recording, Open, RowsHeld, NotSent,
                      GuessesBounded, PaysOnce
<1>2. CASE Send
  BY <1>2, SendStep
<1>3. ASSUME NEW g \in Guessers, NEW c \in DOMAIN challenges, Confirm(g, c) PROVE PhoneInv'
  BY <1>3, ConfirmStep
<1>4. ASSUME NEW g \in Guessers, VerifyRight(g) \/ VerifyWrong(g) \/ RecordTry(g) \/ GuessAbort(g)
      PROVE  PhoneInv'
  BY <1>4, RightStep, WrongStep, RecordStep, AbortStep
<1>5. ASSUME NEW c \in DOMAIN challenges, Expire(c) PROVE PhoneInv'
  BY <1>5, ExpireStep
<1>6. ASSUME NEW c \in DOMAIN challenges, NEW r \in Registrations,
             LockPhone(r, c) \/ Consume(r, c) \/ RefuseUser(r, c)
      PROVE  PhoneInv'
  BY <1>6, LockStep, ConsumeStep
<1> QED BY <1>1, <1>2, <1>3, <1>4, <1>5, <1>6 DEF PhoneNext

\* Codes are guessed a bounded number of times and a confirmed phone pays once
\* (VerifyChallenge, CreateUser of internal/phoneverification and internal/auth).
THEOREM PhoneKept == PhoneSpec => []PhoneHolds
<1>1. PhoneInv => PhoneHolds
  BY DEF PhoneInv, PhoneHolds
<1> QED BY <1>1, PhoneInvInit, PhoneInvStep, PTL DEF PhoneSpec

-------------------------------------------------------------------------------
(* Accounts: the inductive invariant.                                       *)

\* Where a request has found, or made, the account it signs in to.
MemberAts == {"reading", "rereading", "elevating", "setting", "issuing", "storing"}

SignIns == {"password", "google", "register", "complete"}

\* A change that was written and is not committed is of the row as it is: it is locked.
ChangeFits(kind, n) ==
  IF kind = "delete" THEN n = NoUser
  ELSE /\ n.row = user.row /\ n.status = user.status /\ n.version >= user.version
       /\ n.version = user.version => n.editor = user.editor

\* What a request has read and locked, against the rows as they are now.
MemberFits(r) ==
  /\ r.at \in MemberAts => r.row # 0 /\ (r.row = user.row => Registered)
  /\ r.at = "storing" => r.kind \in SignIns
  /\ r.kind \in AdminKinds <=> r.at \in {"locked", "found"}

SessionFits(t, r) ==
  /\ r.at = "inspecting" => r.session \in DOMAIN refresh
  /\ r.at = "rotating" =>
       /\ r.kind = "refresh" /\ r.session \in DOMAIN refresh /\ sessionLock[r.session] = t
       /\ Active(r.session) /\ refresh[r.session].row = r.row /\ refresh[r.session].family = r.family

ChangerFits(t, r) ==
  /\ rowLock = t <=> r.kind \in AdminKinds
  /\ r.kind \in AdminKinds => r.row = user.row /\ user.row # 0 /\ ChangeFits(r.kind, r.change)
  /\ r.kind = "delete" /\ r.at = "found" =>
       \A s \in DOMAIN refresh : refresh[s].row = r.row => s \in r.doomed

Fits(t, r) == MemberFits(r) /\ SessionFits(t, r) /\ ChangerFits(t, r)

RequestsFit == \A t \in Logins : Fits(t, login[t])

\* A refresh session is locked by the request that replaces it.
LocksHeld ==
  \A s \in 1..MaxSessions : \A t \in Logins :
    sessionLock[s] = t => login[t].at = "rotating" /\ login[t].session = s

\* A token of the account is of its past or its present.
TokensAged ==
  \A k \in tokens : k.row = user.row =>
    /\ Registered /\ k.version <= user.version
    /\ k.version = user.version => k.editor = user.editor

\* The families are numbered by the sessions that began them.
FamiliesNumbered == \A s \in DOMAIN refresh : refresh[s].family <= Len(refresh)

\* The requests that may still insert a session have room for it.
Inserts(r) == r.kind \in SignIns \/ r.at = "rotating"
Inserting == {t \in Logins : Inserts(login[t])}
RoomLeft == Len(refresh) + Cardinality(Inserting) <= MaxSessions

RowOfUser == user.row = 0 <=> user.status = "none"

SessionsInv == OneTabAtATime /\ SessionsOfMembers /\ FamiliesNumbered

AccountInv ==
  /\ AccountTypeOK /\ RowOfUser /\ TokensAged /\ SessionsInv
  /\ RequestsFit /\ LocksHeld /\ RoomLeft

-------------------------------------------------------------------------------
(* Accounts: lemmas.                                                        *)

\* A bounded set of numbers has a greatest: the natural numbers are well-founded.
LEMMA Greatest ==
  ASSUME NEW n \in Nat, NEW S, S \subseteq 0..n, S # {}
  PROVE  \E r \in S : \A q \in S : q <= r
<1> DEFINE R == OpToRel(<, Nat)
           T == {i \in 0..n : n - i \in S}
<1>1. IsWellFoundedOn(R, Nat)
  BY NatLessThanWellFounded
<1>2. T \subseteq Nat /\ \A q \in S : n - q \in T
  OBVIOUS
<1>3. \A x, y \in Nat : x < y => <<x, y>> \in R
  BY DEF OpToRel
<1>4. \A x \in T : n - x \in S
  OBVIOUS
<1> HIDE DEF R, T
<1>5. PICK x \in T : \A y \in T : <<y, x>> \notin R
  BY <1>1, <1>2, WFMin
<1>6. \A q \in S : ~(n - q < x)
  BY <1>2, <1>3, <1>5
<1>7. \A q \in S : q <= n - x
  BY <1>2, <1>5, <1>6
<1> QED BY <1>4, <1>5, <1>7

\* The rows and what they are.
LEMMA AccountShapes ==
  ASSUME AccountInv
  PROVE  /\ user \in UserRow /\ user.row \in 0..MaxRow /\ user.version \in Nat
         /\ refresh \in Seq(RefreshSession) /\ Len(refresh) \in Nat /\ DOMAIN refresh = 1..Len(refresh)
         /\ \A s \in DOMAIN refresh : refresh[s] \in RefreshSession /\ refresh[s].row \in 1..MaxRow
                                        /\ refresh[s].family \in Nat
         /\ \A k \in tokens : k \in Token /\ k.row \in 1..MaxRow /\ k.version \in Nat
         /\ login \in [Logins -> LoginRecord]
         /\ \A t \in Logins : login[t].row \in 0..MaxRow /\ login[t].change \in UserRow
         /\ {MaxRow, MaxChanges, MaxSessions, MaxTokens} \subseteq Nat
         /\ IsFiniteSet(Logins) /\ Nobody \notin Logins
<1>1. /\ user \in UserRow /\ refresh \in Seq(RefreshSession) /\ tokens \subseteq Token
      /\ login \in [Logins -> LoginRecord]
  BY DEF AccountInv, AccountTypeOK
<1>2. /\ {MaxRow, MaxChanges, MaxSessions, MaxTokens} \subseteq Nat
      /\ IsFiniteSet(Logins) /\ Nobody \notin Logins
  BY AccountAssumption
<1>3. user.row \in 0..MaxRow /\ user.version \in Nat
  BY <1>1, <1>2 DEF UserRow
<1>4. \A s \in DOMAIN refresh : refresh[s] \in RefreshSession
  BY <1>1
<1>5. \A s \in DOMAIN refresh : refresh[s].row \in 1..MaxRow /\ refresh[s].family \in Nat
  BY <1>4 DEF RefreshSession
<1>6. \A k \in tokens : k \in Token /\ k.row \in 1..MaxRow /\ k.version \in Nat
  BY <1>1, <1>2 DEF Token
<1>7. \A t \in Logins : login[t].row \in 0..MaxRow /\ login[t].change \in UserRow
  BY <1>1 DEF LoginRecord
<1> QED BY <1>1, <1>2, <1>3, <1>4, <1>5, <1>6, <1>7

\* The row of a new account is later than any that is known of.
LEMMA LastRowIsLast ==
  ASSUME AccountInv
  PROVE  /\ LastRow \in 0..MaxRow /\ user.row <= LastRow
         /\ \A s \in DOMAIN refresh : refresh[s].row <= LastRow
         /\ \A k \in tokens : k.row <= LastRow
         /\ \A t \in Logins : login[t].row <= LastRow
<1> DEFINE rows == {user.row} \cup {refresh[s].row : s \in DOMAIN refresh} \cup {k.row : k \in tokens}
                     \cup {login[t].row : t \in Logins}
<1>1. rows \subseteq 0..MaxRow /\ MaxRow \in Nat
  BY AccountShapes
<1>2. rows # {}
  OBVIOUS
<1>3. \E r \in rows : \A q \in rows : q <= r
  <2> HIDE DEF rows
  <2> QED BY <1>1, <1>2, Greatest
<1>4. LastRow = CHOOSE r \in rows : \A q \in rows : q <= r
  BY DEF LastRow
<1>5. LastRow \in rows /\ \A q \in rows : q <= LastRow
  <2> HIDE DEF rows
  <2> QED BY <1>3, <1>4
<1> QED BY <1>1, <1>5

\* An account that is made has a row nobody has seen.
LEMMA NewRows ==
  ASSUME AccountInv, NEW x, NEW role \in Roles, NEW u \in NewUser(x, role)
  PROVE  /\ u \in UserRow /\ u.row # 0 /\ u.status = "registered" /\ user.row = 0
         /\ \A s \in DOMAIN refresh : refresh[s].row # u.row
         /\ \A k \in tokens : k.row # u.row
         /\ \A t \in Logins : login[t].row # u.row
<1>1. u = [NoUser EXCEPT !.row = LastRow + 1, !.status = "registered", !.role = role] /\ u.row <= MaxRow
        /\ user.row = 0
  BY DEF NewUser
<1>2. LastRow \in Nat
  BY LastRowIsLast, AccountShapes
<1>3. u.row = LastRow + 1 /\ u.status = "registered"
  BY <1>1 DEF NoUser
<1>4. u.row \in 0..MaxRow /\ 0 \in 0..MaxChanges
  BY <1>1, <1>2, <1>3, AccountAssumption
<1>5. u \in UserRow
  BY <1>1, <1>3, <1>4 DEF NoUser, UserRow, Roles
<1> QED BY <1>1, <1>2, <1>3, <1>5, LastRowIsLast, AccountShapes

\* A lead that is completed stays the row it is.
LEMMA CompletedRows ==
  ASSUME AccountInv, NEW x, NEW u \in Completed(x) \cup Upgraded(x)
  PROVE  /\ u \in UserRow /\ u.row = user.row /\ u.row # 0 /\ u.status = "registered"
         /\ Lead /\ u.version = user.version /\ u.editor = user.editor
<1>1. user.row # 0 \/ ~Lead
  BY DEF AccountInv, RowOfUser, Lead
<1>2. user \in UserRow
  BY AccountShapes
<1>3. CASE u \in Completed(x)
  BY <1>1, <1>2, <1>3 DEF Completed, UserRow
<1>4. CASE u \in Upgraded(x)
  <2>1. PICK n \in Completed(x) : u = [n EXCEPT !.role = "ADMIN"]
    BY <1>4 DEF Upgraded
  <2>2. n = [user EXCEPT !.status = "registered"] /\ Lead
    BY <2>1 DEF Completed
  <2> QED BY <1>1, <1>2, <2>1, <2>2 DEF UserRow, Roles
<1> QED BY <1>3, <1>4

\* What a step of one request leaves to the others: rows they rely on are as they were.
LEMMA OthersFit ==
  ASSUME AccountInv, NEW t \in Logins, NEW q \in Logins, login'[q] = login[q],
         rowLock' = q <=> rowLock = q,
         \A s \in 1..MaxSessions : sessionLock[s] = q => sessionLock'[s] = q,
         rowLock = q => user' = user,
         login[q].at \in MemberAts /\ login[q].row = user'.row => Registered',
         DOMAIN refresh \subseteq DOMAIN refresh',
         rowLock = q /\ login[q].kind = "delete" => DOMAIN refresh' = DOMAIN refresh,
         \A s \in DOMAIN refresh :
           /\ refresh'[s].row = refresh[s].row /\ refresh'[s].family = refresh[s].family
           /\ sessionLock[s] = q => refresh'[s].state = refresh[s].state
  PROVE  Fits(q, login[q])'
<1>1. Fits(q, login[q]) /\ DOMAIN refresh \subseteq 1..MaxSessions
  <2>1. Len(refresh) <= MaxSessions
    <3>1. IsFiniteSet(Inserting) /\ Cardinality(Inserting) \in Nat
      BY AccountShapes, FS_Subset, FS_CardinalityType DEF Inserting
    <3> QED BY <3>1, AccountShapes DEF AccountInv, RoomLeft
  <2> QED BY <2>1, AccountShapes DEF AccountInv, RequestsFit
<1> DEFINE r == login[q]
<1>2. MemberFits(login[q])'
  BY <1>1 DEF Fits, MemberFits
<1>3. SessionFits(q, login[q])'
  <2>1. r.at = "rotating" => r.session \in DOMAIN refresh /\ sessionLock[r.session] = q /\ Active(r.session)
    BY <1>1 DEF Fits, SessionFits
  <2>2. r.at = "rotating" => sessionLock'[r.session] = q /\ refresh'[r.session].state = "active"
    BY <1>1, <2>1 DEF Active
  <2> QED BY <1>1, <2>1, <2>2 DEF Fits, SessionFits, Active
<1>4. ChangerFits(q, login[q])'
  <2>1. r.kind \in AdminKinds => rowLock = q /\ user' = user
    BY <1>1 DEF Fits, ChangerFits
  <2>2. rowLock' = q <=> r.kind \in AdminKinds
    BY <1>1 DEF Fits, ChangerFits
  <2>3. r.kind \in AdminKinds => r.row = user'.row /\ user'.row # 0 /\ ChangeFits(r.kind, r.change)'
    BY <1>1, <2>1 DEF Fits, ChangerFits, ChangeFits
  <2>4. r.kind = "delete" /\ r.at = "found" =>
          \A s \in DOMAIN refresh' : refresh'[s].row = r.row => s \in r.doomed
    BY <1>1, <2>1 DEF Fits, ChangerFits, AdminKinds
  <2> QED BY <2>2, <2>3, <2>4 DEF ChangerFits
<1> QED BY <1>2, <1>3, <1>4 DEF Fits

\* The sessions there are have rows of their own.
LEMMA SessionsBounded ==
  ASSUME AccountInv
  PROVE  /\ DOMAIN refresh \subseteq 1..MaxSessions /\ Len(refresh) <= MaxSessions
         /\ IsFiniteSet(Inserting) /\ Cardinality(Inserting) \in Nat /\ Inserting \subseteq Logins
<1>1. IsFiniteSet(Inserting) /\ Inserting \subseteq Logins
  BY AccountShapes, FS_Subset DEF Inserting
<1>2. Cardinality(Inserting) \in Nat
  BY <1>1, FS_CardinalityType
<1> QED BY <1>1, <1>2, AccountShapes DEF AccountInv, RoomLeft

\* Room is left for what may still be inserted: a request inserts one session, and took
\* the room for it when it began.
LEMMA RoomStays ==
  ASSUME AccountInv, NEW t \in Logins, NEW r \in LoginRecord, login' = [login EXCEPT ![t] = r],
         Len(refresh') \in Nat,
         \/ Len(refresh') = Len(refresh) /\ (Inserts(r) => Inserts(login[t]))
         \/ Len(refresh') = Len(refresh) + 1 /\ Inserts(login[t]) /\ ~Inserts(r)
         \/ Len(refresh') = Len(refresh) /\ SessionRoom /\ login[t] = NoLogin
  PROVE  RoomLeft'
<1> DEFINE busy == {q \in Logins : login[q].kind # "none"}
<1>1. Inserting' \subseteq Logins
        /\ \A q \in Logins : q \in Inserting' <=> (q = t /\ Inserts(r)) \/ (q # t /\ Inserts(login[q]))
  <2>1. login'[t] = r /\ \A q \in Logins : q # t => login'[q] = login[q]
    BY AccountShapes
  <2> QED BY <2>1 DEF Inserting, Inserts
<1>2. IsFiniteSet(Inserting) /\ Cardinality(Inserting) \in Nat
  BY SessionsBounded
<1>3. CASE Len(refresh') = Len(refresh) /\ (Inserts(r) => Inserts(login[t]))
  <2>1. Inserting' \subseteq Inserting
    BY <1>1, <1>3 DEF Inserting
  <2>2. Cardinality(Inserting') <= Cardinality(Inserting) /\ Cardinality(Inserting') \in Nat
    BY <1>2, <2>1, FS_Subset, FS_CardinalityType
  <2> QED BY <1>2, <1>3, <2>2, AccountShapes DEF AccountInv, RoomLeft
<1>4. CASE Len(refresh') = Len(refresh) + 1 /\ Inserts(login[t]) /\ ~Inserts(r)
  <2>1. Inserting' = Inserting \ {t} /\ t \in Inserting
    BY <1>1, <1>4 DEF Inserting
  <2>2. Cardinality(Inserting') = Cardinality(Inserting) - 1
    BY <1>2, <2>1, FS_RemoveElement
  <2>3. Len(refresh) + Cardinality(Inserting) <= MaxSessions
    BY DEF AccountInv, RoomLeft
  <2>4. Len(refresh') + Cardinality(Inserting') <= MaxSessions
    <3>1. Len(refresh) \in Nat /\ Len(refresh') = Len(refresh) + 1 /\ MaxSessions \in Nat
      BY <1>4, AccountShapes
    <3>2. ASSUME NEW n \in Nat, NEW m \in Nat, n + m <= MaxSessions PROVE (n + 1) + (m - 1) <= MaxSessions
      BY <3>1, <3>2
    <3> QED BY <1>2, <2>2, <2>3, <3>1, <3>2
  <2> QED BY <2>4 DEF RoomLeft
<1>5. CASE Len(refresh') = Len(refresh) /\ SessionRoom /\ login[t] = NoLogin
  <2>1. \A q \in Logins : Inserts(login[q]) => login[q].kind # "none"
    <3> SUFFICES ASSUME NEW q \in Logins, Inserts(login[q]) PROVE login[q].kind # "none"
      OBVIOUS
    <3>1. login[q].at = "rotating" => login[q].kind = "refresh"
      BY DEF AccountInv, RequestsFit, Fits, SessionFits
    <3> QED BY <3>1 DEF Inserts, SignIns
  <2>2. Inserting' \subseteq busy \cup {t} /\ t \notin busy
    BY <1>1, <1>5, <2>1 DEF NoLogin
  <2>3. IsFiniteSet(busy) /\ Cardinality(busy) \in Nat
    BY AccountShapes, FS_Subset, FS_CardinalityType
  <2> HIDE DEF busy
  <2>4. IsFiniteSet(busy \cup {t}) /\ Cardinality(busy \cup {t}) = Cardinality(busy) + 1
    BY <2>2, <2>3, FS_AddElement
  <2>5. Cardinality(Inserting') <= Cardinality(busy) + 1 /\ Cardinality(Inserting') \in Nat
    BY <2>2, <2>4, FS_Subset, FS_CardinalityType
  <2>6. Len(refresh) + Cardinality(busy) < MaxSessions
    BY <1>5 DEF SessionRoom, busy
  <2> QED BY <1>5, <2>3, <2>5, <2>6, AccountShapes DEF RoomLeft
<1> QED BY <1>3, <1>4, <1>5

\* A request that ends gives up what it has locked, and nothing else.
LEMMA Released ==
  ASSUME AccountInv, NEW t \in Logins, Unlock(t)
  PROVE  /\ \A q \in Logins : q # t => (rowLock' = q <=> rowLock = q)
         /\ rowLock' # t /\ rowLock' \in Logins \cup {Nobody}
         /\ sessionLock' \in [1..MaxSessions -> Logins \cup {Nobody}]
         /\ \A s \in 1..MaxSessions : \A q \in Logins :
              sessionLock'[s] = q <=> sessionLock[s] = q /\ q # t
BY AccountShapes DEF AccountInv, AccountTypeOK, Unlock

\* Nothing that is idle holds or knows anything.
LEMMA IdleFits ==
  ASSUME NEW t \in Logins, rowLock # t
  PROVE  Fits(t, NoLogin)
BY DEF Fits, MemberFits, SessionFits, ChangerFits, NoLogin, MemberAts, AdminKinds

\* What an idle request is.
LEMMA IdleShape == NoLogin \in LoginRecord /\ NoUser \in UserRow /\ ~Inserts(NoLogin)
<1>1. 0 \in 0..MaxRow /\ 0 \in 0..MaxChanges /\ 0 \in 0..MaxSessions
  BY AccountAssumption
<1>2. NoUser \in UserRow
  BY <1>1 DEF NoUser, UserRow, Roles
<1>3. NoLogin \in LoginRecord
  BY <1>1, <1>2 DEF NoLogin, LoginRecord, Roles
<1> QED BY <1>2, <1>3 DEF NoLogin, Inserts, SignIns

\* A step of one request keeps the invariant when it keeps the rows in order, and what it
\* leaves of its own request fits them.
LEMMA StepKeeps ==
  ASSUME AccountInv, NEW t \in Logins, NEW r \in LoginRecord, login' = [login EXCEPT ![t] = r],
         user' \in UserRow, listed' \in BOOLEAN, refresh' \in Seq(RefreshSession), tokens' \subseteq Token,
         RowOfUser', TokensAged', SessionsInv', RoomLeft', Fits(t, r)',
         rowLock' \in Logins \cup {Nobody},
         \A q \in Logins : q # t => (rowLock' = q <=> rowLock = q),
         sessionLock' \in [1..MaxSessions -> Logins \cup {Nobody}],
         \A s \in 1..MaxSessions : \A q \in Logins : q # t => (sessionLock'[s] = q <=> sessionLock[s] = q),
         \A s \in 1..MaxSessions : sessionLock'[s] = t => r.at = "rotating" /\ r.session = s,
         \A q \in Logins : q # t =>
           /\ rowLock = q => user' = user
           /\ login[q].at \in MemberAts /\ login[q].row = user'.row => Registered'
           /\ rowLock = q /\ login[q].kind = "delete" => DOMAIN refresh' = DOMAIN refresh,
         DOMAIN refresh \subseteq DOMAIN refresh',
         \A s \in DOMAIN refresh :
           /\ refresh'[s].row = refresh[s].row /\ refresh'[s].family = refresh[s].family
           /\ \A q \in Logins : q # t /\ sessionLock[s] = q => refresh'[s].state = refresh[s].state
  PROVE  AccountInv'
<1>1. login'[t] = r /\ \A q \in Logins : q # t => login'[q] = login[q]
  BY AccountShapes
<1>2. AccountTypeOK'
  BY AccountShapes DEF AccountInv, AccountTypeOK
<1>3. LocksHeld'
  BY <1>1 DEF AccountInv, LocksHeld
<1>4. ASSUME NEW q \in Logins PROVE Fits(q, login[q])'
  <2>1. CASE q = t
    BY <1>1, <2>1 DEF Fits, MemberFits, SessionFits, ChangerFits
  <2>2. CASE q # t
    BY <1>1, <2>2, OthersFit
  <2> QED BY <2>1, <2>2
<1>5. RequestsFit'
  BY <1>4 DEF RequestsFit
<1> QED BY <1>2, <1>3, <1>5 DEF AccountInv

\* A step that changes a request, and what it has locked, and no row.
LEMMA RequestStep ==
  ASSUME AccountInv, NEW t \in Logins, NEW r \in LoginRecord, login' = [login EXCEPT ![t] = r],
         UNCHANGED accountRows, tokens' \subseteq Token, TokensAged', Fits(t, r)',
         rowLock' \in Logins \cup {Nobody},
         \A q \in Logins : q # t => (rowLock' = q <=> rowLock = q),
         sessionLock' \in [1..MaxSessions -> Logins \cup {Nobody}],
         \A s \in 1..MaxSessions : \A q \in Logins : q # t => (sessionLock'[s] = q <=> sessionLock[s] = q),
         \A s \in 1..MaxSessions : sessionLock'[s] = t => r.at = "rotating" /\ r.session = s,
         (Inserts(r) => Inserts(login[t])) \/ (SessionRoom /\ login[t] = NoLogin)
  PROVE  AccountInv'
<1>1. UNCHANGED <<user, listed, refresh>>
  BY DEF accountRows
<1>2. RoomLeft'
  BY <1>1, RoomStays, AccountShapes
<1>3. RowOfUser' /\ SessionsInv'
  BY <1>1 DEF AccountInv, RowOfUser, SessionsInv, OneTabAtATime, SessionsOfMembers, FamiliesNumbered, Active,
              Registered
<1>4. \A q \in Logins : login[q].at \in MemberAts /\ login[q].row = user'.row => Registered'
  BY <1>1 DEF AccountInv, RequestsFit, Fits, MemberFits, Registered
<1>5. user' \in UserRow /\ listed' \in BOOLEAN /\ refresh' \in Seq(RefreshSession)
  BY <1>1 DEF AccountInv, AccountTypeOK
<1> QED BY <1>1, <1>2, <1>3, <1>4, <1>5, StepKeeps

\* A request that was not replacing a session holds none.
LEMMA HoldsNone ==
  ASSUME AccountInv, NEW t \in Logins, login[t].at # "rotating"
  PROVE  \A s \in 1..MaxSessions : sessionLock[s] # t
BY DEF AccountInv, LocksHeld

\* A step that only notes in a request what it has read.
LEMMA NoteStep ==
  ASSUME AccountInv, NEW t \in Logins, NEW r \in LoginRecord, login' = [login EXCEPT ![t] = r],
         UNCHANGED <<accountRows, accountLocks>>, tokens' \subseteq Token, TokensAged', Fits(t, r)',
         login[t].at # "rotating",
         (Inserts(r) => Inserts(login[t])) \/ (SessionRoom /\ login[t] = NoLogin)
  PROVE  AccountInv'
<1>1. UNCHANGED <<rowLock, sessionLock, accountRows>>
  BY DEF accountLocks
<1>2. /\ rowLock' \in Logins \cup {Nobody} /\ \A q \in Logins : q # t => (rowLock' = q <=> rowLock = q)
      /\ sessionLock' \in [1..MaxSessions -> Logins \cup {Nobody}]
      /\ \A s \in 1..MaxSessions : \A q \in Logins : q # t => (sessionLock'[s] = q <=> sessionLock[s] = q)
  BY <1>1 DEF AccountInv, AccountTypeOK
<1>3. \A s \in 1..MaxSessions : sessionLock'[s] # t
  BY <1>1, HoldsNone
<1> QED BY <1>1, <1>2, <1>3, RequestStep

\* The account and its tokens are as they were.
LEMMA TokensStay ==
  ASSUME AccountInv, UNCHANGED <<user, tokens>>
  PROVE  tokens' \subseteq Token /\ TokensAged'
BY DEF AccountInv, AccountTypeOK, TokensAged, Registered

\* A request that ends: it held no row, or what it wrote is undone.
LEMMA EndStep ==
  ASSUME AccountInv, NEW t \in Logins, LoginEnd(t), UNCHANGED accountRows, tokens' \subseteq Token, TokensAged'
  PROVE  AccountInv'
<1>1. login' = [login EXCEPT ![t] = NoLogin] /\ Unlock(t)
  BY DEF LoginEnd
<1>2. Fits(t, NoLogin)'
  BY <1>1, Released DEF Fits, MemberFits, SessionFits, ChangerFits, NoLogin, MemberAts, AdminKinds
<1> QED BY <1>1, <1>2, Released, IdleShape, RequestStep

-------------------------------------------------------------------------------
(* Accounts: the steps that change no row.                                  *)

\* Where a request can be.
Places == {"idle", "reading", "rereading", "elevating", "setting", "upgrading", "making", "issuing",
           "storing", "rotating", "inspecting", "revoking", "locked", "found"}

\* What is done with a request leaves a record of the same kind.
LEMMA RecordAt ==
  ASSUME NEW r \in LoginRecord, NEW at \in Places, NEW n, n = [r EXCEPT !.at = at]
  PROVE  n \in LoginRecord /\ n.kind = r.kind /\ n.at = at /\ n.row = r.row /\ n.session = r.session
         /\ n.change = r.change
BY DEF LoginRecord, Places

\* A request begins with a look at the account.
LEMMA ReadsShape ==
  ASSUME AccountInv, NEW kind \in SignIns, NEW at \in {"reading", "upgrading", "making"}
  PROVE  /\ Reads(kind, at) \in LoginRecord /\ Reads(kind, at).kind = kind /\ Reads(kind, at).at = at
         /\ Reads(kind, at).row = user.row
<1>1. NoLogin \in LoginRecord /\ user.row \in 0..MaxRow
  BY IdleShape, AccountShapes
<1>2. Reads(kind, at) = [NoLogin EXCEPT !.kind = kind, !.at = at, !.row = user.row]
  BY DEF Reads
<1>3. kind \in {"none", "password", "google", "register", "complete", "refresh"} \cup AdminKinds
  BY DEF SignIns
<1>4. at \in {"idle", "reading", "rereading", "elevating", "setting", "upgrading", "making", "issuing",
              "storing", "rotating", "inspecting", "revoking", "locked", "found"}
  OBVIOUS
<1> QED BY <1>1, <1>2, <1>3, <1>4 DEF LoginRecord

\* A sign-in or a registration begins.
LEMMA BeginStep ==
  ASSUME AccountInv, NEW t \in Logins,
         Login(t) \/ GoogleLogin(t) \/ GoogleUnknown(t) \/ Register(t) \/ CompleteGoogleRegistration(t)
  PROVE  AccountInv'
<1>1. ASSUME NEW kind \in SignIns, NEW at \in {"reading", "upgrading", "making"},
             LoginBegin(t, Reads(kind, at)), at = "reading" => Registered,
             UNCHANGED <<accountRows, tokens, accountLocks>>
      PROVE  AccountInv'
  <2>0. PICK r \in LoginRecord : r = Reads(kind, at) /\ r.kind = kind /\ r.at = at /\ r.row = user.row
    BY ReadsShape
  <2>1. login[t] = NoLogin /\ SessionRoom /\ login' = [login EXCEPT ![t] = r]
    BY <1>1, <2>0 DEF LoginBegin
  <2>2. UNCHANGED <<user, tokens, rowLock>>
    BY <1>1 DEF accountRows, accountLocks
  <2>3. rowLock # t
    BY <2>1 DEF AccountInv, RequestsFit, Fits, ChangerFits, NoLogin, AdminKinds
  <2>4. MemberFits(r)'
    <3>1. at = "reading" => user.row # 0 /\ Registered'
      BY <1>1, <2>2 DEF Registered, AccountInv, RowOfUser
    <3> QED BY <2>0, <3>1 DEF MemberFits, MemberAts, AdminKinds, SignIns
  <2>5. SessionFits(t, r)' /\ ChangerFits(t, r)'
    BY <2>0, <2>2, <2>3 DEF SessionFits, ChangerFits, AdminKinds, SignIns
  <2>6. tokens' \subseteq Token /\ TokensAged' /\ login[t].at # "rotating"
    BY <2>1, <2>2, TokensStay DEF NoLogin
  <2>7. Fits(t, r)'
    BY <2>4, <2>5 DEF Fits
  <2> QED BY <1>1, <2>1, <2>6, <2>7, NoteStep
<1>2. CASE Login(t)
  BY <1>1, <1>2 DEF Login, SignIns
<1>3. CASE GoogleLogin(t)
  BY <1>1, <1>3 DEF GoogleLogin, SignIns
<1>4. CASE GoogleUnknown(t)
  BY <1>1, <1>4 DEF GoogleUnknown, SignIns
<1>5. CASE Register(t)
  BY <1>1, <1>5 DEF Register, SignIns
<1>6. CASE CompleteGoogleRegistration(t)
  BY <1>1, <1>6 DEF CompleteGoogleRegistration, SignIns
<1> QED BY <1>2, <1>3, <1>4, <1>5, <1>6

\* A request that goes on as the same kind, with the row it has or the one there is now.
LEMMA GoesOn ==
  ASSUME AccountInv, NEW t \in Logins, NEW r \in LoginRecord, login' = [login EXCEPT ![t] = r],
         UNCHANGED <<accountRows, tokens, accountLocks>>,
         login[t].kind \in SignIns \cup {"refresh"}, login[t].at # "rotating",
         r.kind = login[t].kind, r.at \in MemberAts \cup {"upgrading"},
         r.at = "storing" => r.kind \in SignIns,
         r.at \in MemberAts => r.row # 0 /\ (r.row = user.row => Registered)
  PROVE  AccountInv'
<1>1. UNCHANGED <<user, tokens, rowLock>>
  BY DEF accountRows, accountLocks
<1>2. rowLock # t
  BY DEF AccountInv, RequestsFit, Fits, ChangerFits, AdminKinds, SignIns
<1>3. Fits(t, r)'
  BY <1>1, <1>2 DEF Fits, MemberFits, SessionFits, ChangerFits, MemberAts, AdminKinds, SignIns, Registered
<1>4. Inserts(r) => Inserts(login[t])
  BY DEF Inserts, MemberAts
<1> QED BY <1>1, <1>3, <1>4, TokensStay, NoteStep

\* A request reads the account it found again.
LEMMA ReadUserStep ==
  ASSUME AccountInv, NEW t \in Logins, ReadUser(t)
  PROVE  AccountInv'
<1>0. /\ login[t].kind \in SignIns \cup {"refresh"} /\ login[t].at \in {"reading", "rereading"}
      /\ UNCHANGED <<accountRows, tokens>>
  BY DEF ReadUser, LoginAt, SignIns
<1>1. CASE user.row # login[t].row
  <2>1. tokens' \subseteq Token /\ TokensAged'
    BY <1>0, TokensStay DEF accountRows
  <2> QED BY <1>0, <1>1, <2>1, EndStep DEF ReadUser
<1>2. CASE user.row = login[t].row
  <2>a. PICK at \in {"elevating", "issuing"} : at =
          IF login[t].kind = "google" /\ login[t].at = "reading" /\ user.role # "ADMIN" THEN "elevating" ELSE "issuing"
    OBVIOUS
  <2>r. PICK r : r = [login[t] EXCEPT !.role = user.role, !.at = at]
    OBVIOUS
  <2>1. login' = [login EXCEPT ![t] = r] /\ UNCHANGED accountLocks
    BY <1>2, <2>a, <2>r DEF ReadUser
  <2>2. login[t] \in LoginRecord /\ user.role \in Roles
    BY AccountShapes DEF UserRow
  <2>3. r \in LoginRecord /\ r.kind = login[t].kind /\ r.at \in {"elevating", "issuing"} /\ r.row = login[t].row
    <3>1. at \in Places
      BY DEF Places
    <3>2. PICK role \in Roles : role = user.role
      BY <2>2
    <3>3. r = [login[t] EXCEPT !.role = role, !.at = at]
      BY <2>r, <3>2
    <3>4. PICK x \in LoginRecord : x = login[t]
      BY <2>2
    <3>5. r = [x EXCEPT !.role = role, !.at = at]
      BY <3>3, <3>4
    <3>6. r \in LoginRecord /\ r.kind = x.kind /\ r.at = at /\ r.row = x.row
      BY <3>1, <3>5 DEF LoginRecord, Places
    <3> QED BY <3>4, <3>6
  <2>4. login[t].row # 0 /\ (login[t].row = user.row => Registered)
    BY <1>0 DEF AccountInv, RequestsFit, Fits, MemberFits, MemberAts
  <2> QED BY <1>0, <2>1, <2>3, <2>4, GoesOn DEF MemberAts
<1> QED BY <1>1, <1>2

\* A sign-in with Google asks whether the email is of a super admin.
LEMMA IsSuperAdminStep ==
  ASSUME AccountInv, NEW t \in Logins, IsSuperAdmin(t)
  PROVE  AccountInv'
<1>a. PICK at \in {"setting", "issuing"} : at = IF listed THEN "setting" ELSE "issuing"
  OBVIOUS
<1>r. PICK r : r = [login[t] EXCEPT !.at = at]
  OBVIOUS
<1>1. /\ login[t].kind = "google" /\ login[t].at = "elevating" /\ login' = [login EXCEPT ![t] = r]
      /\ UNCHANGED <<accountRows, tokens, accountLocks>>
  BY <1>a, <1>r DEF IsSuperAdmin, LoginAt
<1>2. login[t] \in LoginRecord
  BY AccountShapes
<1>3. r \in LoginRecord /\ r.kind = login[t].kind /\ r.at \in {"setting", "issuing"} /\ r.row = login[t].row
  BY <1>2, <1>r, RecordAt DEF Places
<1>4. login[t].row # 0 /\ (login[t].row = user.row => Registered)
  BY <1>1 DEF AccountInv, RequestsFit, Fits, MemberFits, MemberAts
<1> QED BY <1>1, <1>3, <1>4, GoesOn DEF MemberAts, SignIns

\* A token says what the account may do as it is signed.
LEMMA IssueTokenStep ==
  ASSUME AccountInv, NEW t \in Logins, IssueToken(t)
  PROVE  AccountInv'
<1>0. /\ login[t].kind \in SignIns \cup {"refresh"} /\ login[t].at = "issuing"
      /\ UNCHANGED accountRows
  BY DEF IssueToken, LoginAt, SignIns
<1>1. CASE ~MayIssue(t)
  <2>1. tokens' \subseteq Token /\ TokensAged'
    BY <1>0, <1>1, TokensStay DEF accountRows, IssueToken
  <2> QED BY <1>0, <1>1, <2>1, EndStep DEF IssueToken
<1>2. CASE MayIssue(t)
  <2>0. user.row # 0 /\ Registered /\ user.row = login[t].row
    BY <1>0, <1>2 DEF MayIssue, AccountInv, RequestsFit, Fits, MemberFits, MemberAts
  <2>1. PICK followed \in SUBSET tokens : tokens' = followed \cup {CurrentToken}
    BY <1>2 DEF IssueToken
  <2>2. CurrentToken \in Token
    BY <2>0, AccountShapes DEF UserRow, Token, CurrentToken
  <2>3. UNCHANGED user
    BY <1>0 DEF accountRows
  <2>4. CurrentToken.row = user.row /\ CurrentToken.version = user.version /\ CurrentToken.editor = user.editor
    BY DEF CurrentToken
  <2>5. TokensAged'
    <3> SUFFICES ASSUME NEW k \in tokens', k.row = user.row
                 PROVE  Registered /\ k.version <= user.version /\ (k.version = user.version => k.editor = user.editor)
      BY <2>3 DEF TokensAged, Registered
    <3>1. CASE k \in tokens
      BY <3>1 DEF AccountInv, TokensAged
    <3>2. CASE k = CurrentToken
      BY <2>0, <2>4, <3>2, AccountShapes
    <3> QED BY <2>1, <3>1, <3>2
  <2>6. tokens' \subseteq Token
    BY <2>1, <2>2 DEF AccountInv, AccountTypeOK
  <2>7. rowLock # t
    BY <1>0 DEF AccountInv, RequestsFit, Fits, ChangerFits, AdminKinds, SignIns
  <2>8. CASE login[t].kind = "refresh"
    <3>1. LoginEnd(t)
      BY <1>2, <2>8 DEF IssueToken
    <3> QED BY <1>0, <2>5, <2>6, <3>1, EndStep
  <2>9. CASE login[t].kind # "refresh"
    <3>r. PICK r : r = [login[t] EXCEPT !.at = "storing"]
      OBVIOUS
    <3>1. login' = [login EXCEPT ![t] = r] /\ UNCHANGED accountLocks
      BY <1>2, <2>9, <3>r DEF IssueToken
    <3>2. login[t] \in LoginRecord
      BY AccountShapes
    <3>3. r \in LoginRecord /\ r.kind = login[t].kind /\ r.at = "storing" /\ r.row = login[t].row
      BY <3>2, <3>r, RecordAt DEF Places
    <3>5. UNCHANGED <<user, rowLock>>
      BY <2>3, <3>1 DEF accountLocks
    <3>6. MemberFits(r)'
      BY <1>0, <2>0, <2>9, <3>3, <3>5 DEF MemberFits, MemberAts, AdminKinds, SignIns, Registered
    <3>7. SessionFits(t, r)' /\ ChangerFits(t, r)'
      BY <1>0, <2>7, <3>3, <3>5 DEF SessionFits, ChangerFits, AdminKinds, SignIns
    <3>8. Inserts(r) => Inserts(login[t])
      BY <3>3 DEF Inserts
    <3>9. Fits(t, r)' /\ login[t].at # "rotating"
      BY <1>0, <3>6, <3>7 DEF Fits
    <3> QED BY <1>0, <2>5, <2>6, <3>1, <3>3, <3>8, <3>9, NoteStep
  <2> QED BY <2>8, <2>9
<1> QED BY <1>1, <1>2

\* The sessions a replayed token ends are found.
LEMMA InspectStep ==
  ASSUME AccountInv, NEW t \in Logins, InspectReuse(t)
  PROVE  AccountInv'
<1>0. /\ login[t].kind = "refresh" /\ login[t].at = "inspecting"
      /\ UNCHANGED <<accountRows, tokens>>
  BY DEF InspectReuse, LoginAt
<1>1. tokens' \subseteq Token /\ TokensAged'
  BY <1>0, TokensStay DEF accountRows
<1>2. login[t].session \in DOMAIN refresh /\ DOMAIN refresh \subseteq 1..MaxSessions
  BY <1>0, SessionsBounded DEF AccountInv, RequestsFit, Fits, SessionFits
<1>3. CASE LoginEnd(t)
  BY <1>0, <1>1, <1>3, EndStep
<1>4. ASSUME NEW d \in SUBSET DOMAIN refresh, UNCHANGED accountLocks,
             login' = [login EXCEPT ![t].at = "revoking", ![t].doomed = d]
      PROVE  AccountInv'
  <2>1. PICK x \in LoginRecord : x = login[t]
    BY AccountShapes
  <2>2. PICK r : r = [x EXCEPT !.at = "revoking", !.doomed = d]
    OBVIOUS
  <2>3. login' = [login EXCEPT ![t] = r]
    BY <1>4, <2>1, <2>2
  <2>4. d \in SUBSET (1..MaxSessions)
    BY <1>2
  <2>5. r \in LoginRecord /\ r.kind = "refresh" /\ r.at = "revoking"
    BY <1>0, <2>1, <2>2, <2>4 DEF LoginRecord
  <2>6. rowLock' = rowLock /\ rowLock # t
    BY <1>0, <1>4 DEF accountLocks, AccountInv, RequestsFit, Fits, ChangerFits, AdminKinds
  <2>7. Fits(t, r)' /\ ~Inserts(r)
    BY <2>5, <2>6 DEF Fits, MemberFits, SessionFits, ChangerFits, MemberAts, AdminKinds, Inserts, SignIns
  <2> QED BY <1>0, <1>1, <1>4, <2>3, <2>5, <2>7, NoteStep
<1>5. {q \in DOMAIN refresh : refresh[q].row = login[t].row /\ Active(q)} \in SUBSET DOMAIN refresh
        /\ {login[t].session} \in SUBSET DOMAIN refresh
  BY <1>2
<1> QED BY <1>3, <1>4, <1>5 DEF InspectReuse

\* What an administrator may write.
LEMMA ChangesFit ==
  ASSUME AccountInv, NEW c \in Changes, user.row # 0
  PROVE  c.kind \in AdminKinds /\ c.row \in UserRow /\ ChangeFits(c.kind, c.row)
<1>1. user \in UserRow /\ user.version \in Nat /\ MaxChanges \in Nat
  BY AccountShapes
<1>2. CASE user.version < MaxChanges /\ c \in Updates
  <2>1. PICK r \in Roles, e \in BOOLEAN, b \in BOOLEAN : c = [kind |-> "update", row |-> Updated(r, e, b)]
    <3>1. PICK R \in SUBSET Roles : R = IF listed THEN {user.role} ELSE Roles
      BY <1>1 DEF UserRow
    <3>2. c \in {[kind |-> "update", row |-> Updated(r, e, b)] : r \in R, e \in BOOLEAN, b \in BOOLEAN}
      BY <1>2, <3>1 DEF Updates
    <3> QED BY <3>2
  <2>2. user.version + 1 \in 0..MaxChanges
    BY <1>1, <1>2
  <2>3. PICK n : n = [user EXCEPT !.version = user.version + 1, !.role = r, !.editor = e, !.blocked = b]
    OBVIOUS
  <2>4. n \in UserRow /\ n.row = user.row /\ n.status = user.status /\ n.version = user.version + 1
    BY <1>1, <2>2, <2>3 DEF UserRow
  <2>5. c.kind = "update" /\ c.row = n
    BY <2>1, <2>3 DEF Updated
  <2> QED BY <1>1, <2>4, <2>5 DEF AdminKinds, ChangeFits
<1>3. CASE user.version < MaxChanges /\ c = Invalidation
  <2>1. user.version + 1 \in 0..MaxChanges
    BY <1>1, <1>3
  <2>2. PICK n : n = [user EXCEPT !.version = user.version + 1]
    OBVIOUS
  <2>3. n \in UserRow /\ n.row = user.row /\ n.status = user.status /\ n.version = user.version + 1
    BY <1>1, <2>1, <2>2 DEF UserRow
  <2>4. c.kind = "invalidate" /\ c.row = n
    BY <1>3, <2>2 DEF Invalidation
  <2> QED BY <1>1, <2>3, <2>4 DEF AdminKinds, ChangeFits
<1>4. CASE c \in RoleChanges
  <2>1. PICK r \in Roles : c = [kind |-> "role", row |-> [user EXCEPT !.role = r]]
    BY <1>4 DEF RoleChanges
  <2>2. PICK n : n = [user EXCEPT !.role = r]
    OBVIOUS
  <2>3. n \in UserRow /\ n.row = user.row /\ n.status = user.status /\ n.version = user.version
          /\ n.editor = user.editor
    BY <1>1, <2>2 DEF UserRow
  <2>4. c.kind = "role" /\ c.row = n
    BY <2>1, <2>2
  <2> QED BY <1>1, <2>3, <2>4 DEF AdminKinds, ChangeFits
<1>5. CASE c = Deletion
  BY <1>5, IdleShape DEF Deletion, AdminKinds, ChangeFits
<1> QED BY <1>2, <1>3, <1>4, <1>5 DEF Changes

\* An administrator locks the row of the account and writes what nobody sees yet.
LEMMA ChangeStep ==
  ASSUME AccountInv, NEW t \in Logins, NEW c \in Changes, ChangeUser(t, c)
  PROVE  AccountInv'
<1>0. /\ login[t] = NoLogin /\ user.row # 0 /\ rowLock = Nobody /\ rowLock' = t
      /\ UNCHANGED <<accountRows, tokens, sessionLock>>
  BY DEF ChangeUser
<1>1. PICK n \in UserRow, kind \in AdminKinds, row \in 0..MaxRow :
        n = c.row /\ kind = c.kind /\ row = user.row /\ ChangeFits(kind, n)
  BY <1>0, ChangesFit, AccountShapes
<1>2. PICK r : r = [NoLogin EXCEPT !.kind = kind, !.at = "locked", !.row = row, !.change = n]
  OBVIOUS
<1>3. login' = [login EXCEPT ![t] = r]
  BY <1>1, <1>2 DEF ChangeUser
<1>4. r \in LoginRecord /\ r.kind = kind /\ r.at = "locked" /\ r.row = row /\ r.change = n
  BY <1>2, IdleShape DEF LoginRecord, NoLogin
<1>5. tokens' \subseteq Token /\ TokensAged' /\ user' = user
  BY <1>0, TokensStay DEF accountRows
<1>6. MemberFits(r)' /\ SessionFits(t, r)'
  BY <1>4 DEF MemberFits, SessionFits, MemberAts
<1>7. ChangerFits(t, r)'
  BY <1>0, <1>1, <1>4, <1>5 DEF ChangerFits, ChangeFits
<1>8. /\ rowLock' \in Logins \cup {Nobody} /\ \A q \in Logins : q # t => (rowLock' = q <=> rowLock = q)
      /\ sessionLock' \in [1..MaxSessions -> Logins \cup {Nobody}]
      /\ \A s \in 1..MaxSessions : \A q \in Logins : sessionLock'[s] = q <=> sessionLock[s] = q
  BY <1>0, AccountShapes DEF AccountInv, AccountTypeOK
<1>9. \A s \in 1..MaxSessions : sessionLock'[s] # t
  BY <1>0, HoldsNone DEF NoLogin
<1>10. ~Inserts(r)
  BY <1>4 DEF Inserts, SignIns, AdminKinds
<1>11. Fits(t, r)'
  BY <1>6, <1>7 DEF Fits
<1> QED BY <1>0, <1>3, <1>4, <1>5, <1>8, <1>9, <1>10, <1>11, RequestStep

\* The sessions that are there when the second statement of a change begins.
LEMMA FindStep ==
  ASSUME AccountInv, NEW t \in Logins, FindSessions(t)
  PROVE  AccountInv'
<1>0. /\ login[t].kind \in AdminKinds /\ login[t].at = "locked"
      /\ UNCHANGED <<accountRows, tokens, accountLocks>>
  BY DEF FindSessions, LoginAt
<1>1. PICK x \in LoginRecord : x = login[t]
  BY AccountShapes
<1>2. PICK d : d = {s \in DOMAIN refresh : refresh[s].row = login[t].row /\ (login[t].kind = "role" => Active(s))}
  OBVIOUS
<1>3. PICK r : r = [x EXCEPT !.at = "found", !.doomed = d]
  OBVIOUS
<1>4. login' = [login EXCEPT ![t] = r]
  BY <1>1, <1>2, <1>3 DEF FindSessions
<1>5. d \in SUBSET (1..MaxSessions)
  BY <1>2, SessionsBounded
<1>6. r \in LoginRecord /\ r.kind = x.kind /\ r.at = "found" /\ r.row = x.row /\ r.doomed = d /\ r.change = x.change
  BY <1>3, <1>5 DEF LoginRecord
<1>7. tokens' \subseteq Token /\ TokensAged' /\ UNCHANGED <<user, refresh, rowLock>>
  BY <1>0, TokensStay DEF accountRows, accountLocks
<1>8. rowLock = t /\ x.row = user.row /\ user.row # 0 /\ ChangeFits(x.kind, x.change)
  BY <1>0, <1>1 DEF AccountInv, RequestsFit, Fits, ChangerFits
<1>9. r.kind = "delete" => \A s \in DOMAIN refresh : refresh[s].row = r.row => s \in r.doomed
  BY <1>1, <1>2, <1>6
<1>10. Fits(t, r)'
  <2>1. MemberFits(r)' /\ SessionFits(t, r)'
    BY <1>0, <1>1, <1>6 DEF MemberFits, SessionFits, MemberAts
  <2>2. ChangerFits(t, r)'
    BY <1>0, <1>1, <1>6, <1>7, <1>8, <1>9 DEF ChangerFits, ChangeFits
  <2> QED BY <2>1, <2>2 DEF Fits
<1>11. ~Inserts(r)
  BY <1>0, <1>1, <1>6 DEF Inserts, SignIns, AdminKinds
<1> QED BY <1>0, <1>4, <1>6, <1>7, <1>10, <1>11, NoteStep

\* A request locks the session it will replace, or finds that it cannot be replaced.
LEMMA RotateStep ==
  ASSUME AccountInv, NEW t \in Logins, NEW s \in DOMAIN refresh, RotateSession(t, s)
  PROVE  AccountInv'
<1>1. PICK at \in {"rotating", "inspecting"} : at = IF Rotatable(s) THEN "rotating" ELSE "inspecting"
  OBVIOUS
<1>2. PICK row \in 0..MaxRow, family \in Nat : row = refresh[s].row /\ family = refresh[s].family
  BY AccountShapes
<1>3. PICK r : r = [NoLogin EXCEPT !.kind = "refresh", !.row = row, !.session = s, !.at = at, !.family = family]
  OBVIOUS
<1>4. /\ login[t] = NoLogin /\ SessionRoom /\ login' = [login EXCEPT ![t] = r]
      /\ sessionLock[s] = Nobody /\ UNCHANGED <<accountRows, tokens, rowLock>>
      /\ sessionLock' = IF Rotatable(s) THEN [sessionLock EXCEPT ![s] = t] ELSE sessionLock
  BY <1>1, <1>2, <1>3 DEF RotateSession, LoginBegin
<1>5. s \in 1..MaxSessions
  BY SessionsBounded
<1>6. /\ r \in LoginRecord /\ r.kind = "refresh" /\ r.at = at /\ r.row = row /\ r.session = s
      /\ r.family = family
  <2>1. r = [kind |-> "refresh", at |-> at, row |-> row, role |-> "STUDENT", session |-> s, family |-> family,
             doomed |-> {}, change |-> NoUser]
    BY <1>3 DEF NoLogin
  <2>2. s \in 0..MaxSessions /\ {} \in SUBSET (1..MaxSessions) /\ "STUDENT" \in Roles /\ NoUser \in UserRow
    BY <1>5, IdleShape DEF Roles
  <2> QED BY <2>1, <2>2 DEF LoginRecord
<1>7. tokens' \subseteq Token /\ TokensAged' /\ UNCHANGED <<user, refresh, rowLock>>
  BY <1>4, TokensStay DEF accountRows
<1>8. rowLock # t /\ rowLock \in Logins \cup {Nobody}
  BY <1>4 DEF AccountInv, RequestsFit, Fits, ChangerFits, NoLogin, AdminKinds, AccountTypeOK
<1>9. /\ sessionLock' \in [1..MaxSessions -> Logins \cup {Nobody}]
      /\ \A q \in 1..MaxSessions : q # s => sessionLock'[q] = sessionLock[q]
      /\ sessionLock'[s] = IF Rotatable(s) THEN t ELSE Nobody
  BY <1>4, <1>5 DEF AccountInv, AccountTypeOK
<1>10. \A q \in 1..MaxSessions : sessionLock[q] # t
  BY <1>4, HoldsNone DEF NoLogin
<1>11. MemberFits(r)' /\ ChangerFits(t, r)'
  BY <1>6, <1>7, <1>8 DEF MemberFits, ChangerFits, MemberAts, AdminKinds
<1>12. SessionFits(t, r)'
  BY <1>1, <1>2, <1>6, <1>7, <1>9 DEF SessionFits, Rotatable, Active
<1>13. \A q \in 1..MaxSessions : sessionLock'[q] = t => r.at = "rotating" /\ r.session = q
  BY <1>1, <1>6, <1>9, <1>10, AccountShapes
<1>14. \A q \in 1..MaxSessions : \A x \in Logins : x # t => (sessionLock'[q] = x <=> sessionLock[q] = x)
  BY <1>4, <1>9, AccountShapes
<1>15. Fits(t, r)'
  BY <1>11, <1>12 DEF Fits
<1> QED BY <1>4, <1>6, <1>7, <1>8, <1>9, <1>13, <1>14, <1>15, RequestStep

-------------------------------------------------------------------------------
(* Accounts: the steps that make or change the account.                     *)

\* While nobody has locked the row, a change of it that keeps it a member's, or makes it
\* one, leaves the sessions, the tokens and the other requests in order.
LEMMA UserChanges ==
  ASSUME AccountInv, rowLock = Nobody, user' \in UserRow, user'.row # 0, UNCHANGED <<refresh, tokens>>,
         user'.status # "none",
         \/ /\ user'.row = user.row /\ user'.version = user.version /\ user'.editor = user.editor
            /\ user'.status = user.status \/ user'.status = "registered"
         \/ /\ user.row = 0
            /\ \A s \in DOMAIN refresh : refresh[s].row # user'.row
            /\ \A k \in tokens : k.row # user'.row
            /\ \A t \in Logins : login[t].row # user'.row
  PROVE  /\ RowOfUser' /\ TokensAged' /\ SessionsInv' /\ tokens' \subseteq Token
         /\ refresh' \in Seq(RefreshSession)
         /\ \A q \in Logins : login[q].at \in MemberAts /\ login[q].row = user'.row => Registered'
         /\ \A q \in Logins : rowLock # q
<1>1. RowOfUser' /\ tokens' \subseteq Token /\ refresh' \in Seq(RefreshSession)
  BY DEF RowOfUser, AccountInv, AccountTypeOK
<1>2. TokensAged'
  BY DEF AccountInv, TokensAged, Registered
<1>3. OneTabAtATime' /\ FamiliesNumbered'
  BY DEF AccountInv, SessionsInv, OneTabAtATime, FamiliesNumbered, Active
<1>4. SessionsOfMembers'
  BY DEF AccountInv, SessionsInv, SessionsOfMembers, Active, Registered, RowOfUser
<1>5. \A q \in Logins : login[q].at \in MemberAts /\ login[q].row = user'.row => Registered'
  BY DEF AccountInv, RequestsFit, Fits, MemberFits, Registered
<1>6. \A q \in Logins : rowLock # q
  BY AccountShapes
<1> QED BY <1>1, <1>2, <1>3, <1>4, <1>5, <1>6 DEF SessionsInv

\* Such a change by a request that goes on with the account.
LEMMA MemberStep ==
  ASSUME AccountInv, NEW t \in Logins, NEW r \in LoginRecord, login' = [login EXCEPT ![t] = r],
         rowLock = Nobody, user' \in UserRow, user'.row # 0, user'.status # "none",
         UNCHANGED <<listed, refresh, tokens, accountLocks>>,
         \/ /\ user'.row = user.row /\ user'.version = user.version /\ user'.editor = user.editor
            /\ user'.status = user.status \/ user'.status = "registered"
         \/ /\ user.row = 0
            /\ \A s \in DOMAIN refresh : refresh[s].row # user'.row
            /\ \A k \in tokens : k.row # user'.row
            /\ \A q \in Logins : login[q].row # user'.row,
         login[t].kind \in SignIns, r.kind = login[t].kind, login[t].at # "rotating",
         r.at \in MemberAts \ {"storing"}, r.row # 0, r.row = user'.row => user'.status = "registered"
  PROVE  AccountInv'
<1>1. UNCHANGED <<rowLock, sessionLock>>
  BY DEF accountLocks
<1>2. /\ RowOfUser' /\ TokensAged' /\ SessionsInv' /\ tokens' \subseteq Token
      /\ refresh' \in Seq(RefreshSession)
      /\ \A q \in Logins : login[q].at \in MemberAts /\ login[q].row = user'.row => Registered'
      /\ \A q \in Logins : rowLock # q
  BY UserChanges
<1>3. Fits(t, r)'
  <2>1. MemberFits(r)'
    BY DEF MemberFits, MemberAts, AdminKinds, SignIns, Registered
  <2>2. SessionFits(t, r)'
    BY DEF SessionFits, MemberAts
  <2>3. ChangerFits(t, r)'
    BY <1>1, <1>2 DEF ChangerFits, AdminKinds, SignIns
  <2> QED BY <2>1, <2>2, <2>3 DEF Fits
<1>4. Inserts(r) => Inserts(login[t])
  BY DEF Inserts
<1>5. RoomLeft'
  BY <1>4, RoomStays, AccountShapes
<1>6. /\ listed' \in BOOLEAN /\ rowLock' \in Logins \cup {Nobody}
      /\ sessionLock' \in [1..MaxSessions -> Logins \cup {Nobody}]
  BY <1>1 DEF AccountInv, AccountTypeOK
<1>7. \A s \in 1..MaxSessions : sessionLock'[s] # t
  BY <1>1, HoldsNone
<1> QED BY <1>1, <1>2, <1>3, <1>5, <1>6, <1>7, StepKeeps

\* The account is made, or the lead completed, and the request goes on with it.
LEMMA MadeStep ==
  ASSUME AccountInv, NEW t \in Logins, NEW role \in Roles,
         NEW u \in NewUser(login[t].row, role) \cup Completed(login[t].row) \cup Upgraded(login[t].row),
         user' = u, login' = [login EXCEPT ![t].row = u.row, ![t].role = u.role, ![t].at = "issuing"],
         login[t].kind \in SignIns, login[t].at \in {"making", "upgrading"}, rowLock = Nobody,
         UNCHANGED <<listed, refresh, tokens, accountLocks>>
  PROVE  AccountInv'
<1>1. /\ u \in UserRow /\ u.row # 0 /\ u.status = "registered"
      /\ \/ u.row = user.row /\ u.version = user.version /\ u.editor = user.editor
         \/ /\ user.row = 0
            /\ \A s \in DOMAIN refresh : refresh[s].row # u.row
            /\ \A k \in tokens : k.row # u.row
            /\ \A q \in Logins : login[q].row # u.row
  <2>1. CASE u \in NewUser(login[t].row, role)
    BY <2>1, NewRows
  <2>2. CASE u \in Completed(login[t].row) \cup Upgraded(login[t].row)
    BY <2>2, CompletedRows
  <2> QED BY <2>1, <2>2
<1>2. PICK x \in LoginRecord : x = login[t]
  BY AccountShapes
<1>3. PICK row \in 0..MaxRow, as \in Roles : row = u.row /\ as = u.role
  BY <1>1 DEF UserRow
<1>4. PICK r : r = [x EXCEPT !.row = row, !.role = as, !.at = "issuing"]
  OBVIOUS
<1>5. login' = [login EXCEPT ![t] = r]
  BY <1>2, <1>3, <1>4
<1>6. r \in LoginRecord /\ r.kind = x.kind /\ r.at = "issuing" /\ r.row = row
  BY <1>4 DEF LoginRecord
<1>7. r.at \in MemberAts \ {"storing"} /\ login[t].at # "rotating"
  BY <1>6 DEF MemberAts
<1>8. /\ user' \in UserRow /\ user'.row # 0 /\ user'.status = "registered" /\ user'.status # "none"
      /\ \/ /\ user'.row = user.row /\ user'.version = user.version /\ user'.editor = user.editor
            /\ user'.status = user.status \/ user'.status = "registered"
         \/ /\ user.row = 0
            /\ \A s \in DOMAIN refresh : refresh[s].row # user'.row
            /\ \A k \in tokens : k.row # user'.row
            /\ \A q \in Logins : login[q].row # user'.row
  BY <1>1
<1>9. r.kind = login[t].kind /\ login[t].kind \in SignIns /\ r.row # 0
  BY <1>1, <1>2, <1>3, <1>6
<1> QED BY <1>5, <1>6, <1>7, <1>8, <1>9, MemberStep

\* Registration with a password or with Google.
LEMMA CreateUserStep ==
  ASSUME AccountInv, NEW t \in Logins, CreateUser(t) \/ CreateGoogleUser(t)
  PROVE  AccountInv'
<1>1. /\ login[t].kind \in SignIns /\ login[t].at = "making" /\ rowLock = Nobody
      /\ UNCHANGED <<listed, refresh, tokens, accountLocks>>
  BY DEF CreateUser, CreateGoogleUser, LoginAt, SignIns
<1>2. PICK u \in NewUser(login[t].row, "STUDENT") \cup Completed(login[t].row) :
        user' = u /\ login' = [login EXCEPT ![t].row = u.row, ![t].role = u.role, ![t].at = "issuing"]
  BY DEF CreateUser, CreateGoogleUser
<1>3. "STUDENT" \in Roles
  BY DEF Roles
<1> QED BY <1>1, <1>2, <1>3, MadeStep

\* A super admin's first sign-in with Google, or the second of two at once.
LEMMA GoogleAdminStep ==
  ASSUME AccountInv, NEW t \in Logins, GoogleAdmin(t)
  PROVE  AccountInv'
<1>1. /\ login[t].kind = "google" /\ login[t].at = "upgrading" /\ rowLock = Nobody
      /\ UNCHANGED <<listed, refresh, tokens, accountLocks>> /\ "ADMIN" \in Roles
  BY DEF GoogleAdmin, LoginAt, Roles
<1>2. CASE \E u \in NewUser(login[t].row, "ADMIN") \cup Upgraded(login[t].row) :
             user' = u /\ login' = [login EXCEPT ![t].row = u.row, ![t].role = u.role, ![t].at = "issuing"]
  BY <1>1, <1>2, MadeStep DEF SignIns
<1>x. PICK x \in LoginRecord : x = login[t]
  BY AccountShapes
<1>3. CASE /\ NewUser(login[t].row, "ADMIN") \cup Upgraded(login[t].row) = {} /\ user' = user
           /\ login[t].row # 0 /\ login' = [login EXCEPT ![t].at = "reading"]
  <2>1. PICK r : r = [x EXCEPT !.at = "reading"]
    OBVIOUS
  <2>2. r \in LoginRecord /\ r.kind = x.kind /\ r.at = "reading" /\ r.row = x.row
    BY <2>1, RecordAt DEF Places
  <2>3. login' = [login EXCEPT ![t] = r]
    BY <1>3, <1>x, <2>1
  <2>4. x.row = user.row => Registered
    <3>1. ASSUME x.row = user.row, Lead PROVE FALSE
      <4>1. [user EXCEPT !.status = "registered"] \in Completed(x.row)
        BY <3>1 DEF Completed
      <4>2. Upgraded(x.row) # {}
        BY <4>1 DEF Upgraded
      <4> QED BY <1>3, <1>x, <4>2
    <3> QED BY <1>3, <1>x, <3>1, AccountShapes DEF AccountInv, RowOfUser, Lead, Registered, UserRow
  <2> QED BY <1>1, <1>3, <1>x, <2>2, <2>3, <2>4, GoesOn DEF accountRows, MemberAts, SignIns
<1>4. CASE /\ user' = user /\ login[t].row = 0 /\ user.row # 0
           /\ login' = [login EXCEPT ![t].row = user.row, ![t].at = IF Lead THEN "upgrading" ELSE "rereading"]
  <2>1. PICK row \in 0..MaxRow, at \in {"upgrading", "rereading"} :
          row = user.row /\ at = IF Lead THEN "upgrading" ELSE "rereading"
    BY AccountShapes
  <2>2. PICK r : r = [x EXCEPT !.row = row, !.at = at]
    OBVIOUS
  <2>3. r \in LoginRecord /\ r.kind = x.kind /\ r.at = at /\ r.row = row
    BY <2>2 DEF LoginRecord
  <2>4. login' = [login EXCEPT ![t] = r]
    BY <1>4, <1>x, <2>1, <2>2
  <2>5. at = "rereading" => Registered
    BY <1>4, <2>1, AccountShapes DEF AccountInv, RowOfUser, Lead, Registered, UserRow
  <2> QED BY ZenonT(30), <1>1, <1>4, <1>x, <2>1, <2>3, <2>4, <2>5, GoesOn DEF accountRows, MemberAts, SignIns
<1> QED BY <1>2, <1>3, <1>4 DEF GoogleAdmin

\* The role of a super admin is given by email, whatever row that is now.
LEMMA SetRoleStep ==
  ASSUME AccountInv, NEW t \in Logins, SetRole(t)
  PROVE  AccountInv'
<1>1. /\ login[t].kind = "google" /\ login[t].at = "setting" /\ rowLock = Nobody /\ user.row # 0
      /\ user' = [user EXCEPT !.role = "ADMIN"] /\ login' = [login EXCEPT ![t].at = "rereading"]
      /\ UNCHANGED <<listed, refresh, tokens, accountLocks>>
  BY DEF SetRole, LoginAt
<1>2. user \in UserRow
  BY AccountShapes
<1>3. /\ user' \in UserRow /\ user'.row = user.row /\ user'.status = user.status
      /\ user'.version = user.version /\ user'.editor = user.editor
  BY <1>1, <1>2 DEF UserRow, Roles
<1>4. PICK x \in LoginRecord : x = login[t]
  BY AccountShapes
<1>5. PICK r : r = [x EXCEPT !.at = "rereading"]
  OBVIOUS
<1>6. r \in LoginRecord /\ r.kind = x.kind /\ r.at = "rereading" /\ r.row = x.row
  BY <1>5, RecordAt DEF Places
<1>7. login' = [login EXCEPT ![t] = r]
  BY <1>1, <1>4, <1>5
<1>8. x.row # 0 /\ (x.row = user.row => user.status = "registered") /\ user.status # "none"
  BY <1>1, <1>4 DEF AccountInv, RequestsFit, Fits, MemberFits, MemberAts, Registered, RowOfUser
<1>9. /\ user'.row # 0 /\ user'.status # "none"
      /\ user'.status = user.status \/ user'.status = "registered"
  BY <1>1, <1>3, <1>8
<1>10. /\ r.kind = login[t].kind /\ login[t].kind \in SignIns /\ login[t].at # "rotating"
       /\ r.at \in MemberAts \ {"storing"} /\ r.row # 0 /\ (r.row = user'.row => user'.status = "registered")
  BY <1>1, <1>3, <1>4, <1>6, <1>8 DEF SignIns, MemberAts
<1> QED BY <1>1, <1>3, <1>6, <1>7, <1>9, <1>10, MemberStep

-------------------------------------------------------------------------------
(* Accounts: the steps that change refresh sessions.                        *)

\* Sessions that end leave the others in order.
LEMMA SessionsEnd ==
  ASSUME AccountInv, user'.row = user.row, user'.status = user.status,
         DOMAIN refresh' = DOMAIN refresh, Len(refresh') = Len(refresh),
         \A s \in DOMAIN refresh :
           /\ refresh'[s].row = refresh[s].row /\ refresh'[s].family = refresh[s].family
           /\ refresh'[s].state = "active" => refresh[s].state = "active"
  PROVE  SessionsInv'
<1>1. OneTabAtATime'
  BY DEF AccountInv, SessionsInv, OneTabAtATime, Active
<1>2. SessionsOfMembers'
  BY DEF AccountInv, SessionsInv, SessionsOfMembers, Active, Registered
<1>3. FamiliesNumbered'
  BY DEF AccountInv, SessionsInv, FamiliesNumbered
<1> QED BY <1>1, <1>2, <1>3 DEF SessionsInv

\* What a session becomes is a session.
LEMMA SessionMoves ==
  ASSUME NEW x \in RefreshSession, NEW how \in {"active", "revoked", "deleted"}
  PROVE  /\ [x EXCEPT !.state = how] \in RefreshSession /\ [x EXCEPT !.lapsed = TRUE] \in RefreshSession
         /\ [x EXCEPT !.state = how].row = x.row /\ [x EXCEPT !.state = how].family = x.family
         /\ [x EXCEPT !.state = how].state = how
         /\ [x EXCEPT !.lapsed = TRUE].row = x.row /\ [x EXCEPT !.lapsed = TRUE].family = x.family
         /\ [x EXCEPT !.lapsed = TRUE].state = x.state
BY DEF RefreshSession

\* One more session, of a member and the only one of its family.
LEMMA SessionBegins ==
  ASSUME AccountInv, NEW t \in Logins, NEW r \in LoginRecord, login' = [login EXCEPT ![t] = r], Unlock(t),
         NEW old \in Seq(RefreshSession), NEW x \in RefreshSession, refresh' = Append(old, x),
         Len(old) = Len(refresh),
         \A s \in DOMAIN refresh :
           /\ old[s].row = refresh[s].row /\ old[s].family = refresh[s].family
           /\ old[s].state = "active" => refresh[s].state = "active" /\ refresh[s].family # x.family
           /\ sessionLock[s] # t => old[s].state = refresh[s].state,
         x.row = user.row, Registered, x.family <= Len(refresh) + 1,
         UNCHANGED <<user, listed, tokens>>, KeyShared,
         Inserts(login[t]), ~Inserts(r), MemberFits(r)', r.at \notin {"rotating", "inspecting"},
         r.kind \notin AdminKinds, login[t].kind \notin AdminKinds
  PROVE  AccountInv'
<1> DEFINE n == Len(refresh)
<1>1. n \in Nat /\ DOMAIN refresh = 1..n /\ DOMAIN old = 1..n
  BY AccountShapes
<1>2. /\ refresh' \in Seq(RefreshSession) /\ Len(refresh') = n + 1 /\ DOMAIN refresh' = 1..(n + 1)
      /\ refresh'[n + 1] = x /\ \A s \in 1..n : refresh'[s] = old[s]
  BY <1>1
<1>3. x.family \in Nat /\ \A s \in 1..n : refresh[s].family \in Nat
  BY <1>1, AccountShapes DEF RefreshSession
<1>4. OneTabAtATime'
  <2> SUFFICES ASSUME NEW s \in 1..(n + 1), NEW q \in 1..(n + 1), refresh'[s].state = "active",
                      refresh'[q].state = "active", refresh'[s].family = refresh'[q].family
               PROVE  s = q
    BY <1>2 DEF OneTabAtATime, Active
  <2>1. CASE s \in 1..n /\ q \in 1..n
    BY <1>1, <1>2, <2>1 DEF AccountInv, SessionsInv, OneTabAtATime, Active
  <2>2. CASE s = n + 1 /\ q \in 1..n
    BY <1>1, <1>2, <2>2
  <2>3. CASE q = n + 1 /\ s \in 1..n
    BY <1>1, <1>2, <2>3
  <2> QED BY <1>1, <2>1, <2>2, <2>3
<1>5. SessionsOfMembers'
  <2> SUFFICES ASSUME NEW s \in 1..(n + 1), refresh'[s].state = "active"
               PROVE  Registered /\ refresh'[s].row = user.row
    BY <1>2 DEF SessionsOfMembers, Active, Registered
  <2>1. CASE s \in 1..n
    BY <1>1, <1>2, <2>1 DEF AccountInv, SessionsInv, SessionsOfMembers, Active
  <2>2. CASE s = n + 1
    BY <1>2, <2>2
  <2> QED BY <1>1, <2>1, <2>2
<1>6. FamiliesNumbered'
  <2> SUFFICES ASSUME NEW s \in 1..(n + 1) PROVE refresh'[s].family <= n + 1
    BY <1>2 DEF FamiliesNumbered
  <2>1. CASE s \in 1..n
    BY <1>1, <1>2, <1>3, <2>1 DEF AccountInv, SessionsInv, FamiliesNumbered
  <2>2. CASE s = n + 1
    BY <1>2, <2>2
  <2> QED BY <1>1, <2>1, <2>2
<1>7. tokens' \subseteq Token /\ TokensAged' /\ RowOfUser'
  BY TokensStay DEF RowOfUser, AccountInv
<1>8. RoomLeft'
  <2>1. Len(refresh') \in Nat /\ Len(refresh') = Len(refresh) + 1 /\ Inserts(login[t]) /\ ~Inserts(r)
    BY <1>1, <1>2
  <2> QED BY <2>1, RoomStays
<1>9. rowLock # t /\ \A q \in Logins : rowLock = q => login[q].kind # "delete"
  BY DEF AccountInv, RequestsFit, Fits, ChangerFits, KeyShared
<1>10. Fits(t, r)'
  BY <1>9, Released DEF Fits, SessionFits, ChangerFits, AdminKinds
<1>11. \A q \in Logins : q # t =>
         /\ rowLock = q => user' = user
         /\ login[q].at \in MemberAts /\ login[q].row = user'.row => Registered'
         /\ rowLock = q /\ login[q].kind = "delete" => DOMAIN refresh' = DOMAIN refresh
  BY <1>9 DEF Registered
<1>12. \A s \in DOMAIN refresh :
         /\ refresh'[s].row = refresh[s].row /\ refresh'[s].family = refresh[s].family
         /\ \A q \in Logins : q # t /\ sessionLock[s] = q => refresh'[s].state = refresh[s].state
  BY <1>1, <1>2
<1>13. user' \in UserRow /\ listed' \in BOOLEAN
  BY DEF AccountInv, AccountTypeOK
<1>14. \A s \in 1..MaxSessions : sessionLock'[s] # t
  BY Released
<1>15. \A s \in 1..MaxSessions : \A q \in Logins : q # t => (sessionLock'[s] = q <=> sessionLock[s] = q)
  BY Released
<1>16. /\ rowLock' \in Logins \cup {Nobody} /\ \A q \in Logins : q # t => (rowLock' = q <=> rowLock = q)
       /\ sessionLock' \in [1..MaxSessions -> Logins \cup {Nobody}]
  BY Released
<1>17. DOMAIN refresh \subseteq DOMAIN refresh'
  BY <1>1, <1>2
<1>18. SessionsInv'
  BY <1>4, <1>5, <1>6 DEF SessionsInv
<1>19. refresh' \in Seq(RefreshSession)
  BY <1>2
<1> QED BY <1>7, <1>8, <1>10, <1>11, <1>12, <1>13, <1>14, <1>15, <1>16, <1>17, <1>18, <1>19, StepKeeps

\* A sign-in stores its session, if the account is still there.
LEMMA CreateSessionStep ==
  ASSUME AccountInv, NEW t \in Logins, CreateSession(t)
  PROVE  AccountInv'
<1>1. login[t].at = "storing" /\ KeyShared /\ LoginEnd(t) /\ UNCHANGED <<user, listed, tokens>>
  BY DEF CreateSession
<1>2. login[t].kind \in SignIns /\ login[t].row # 0 /\ (login[t].row = user.row => Registered)
  BY <1>1 DEF AccountInv, RequestsFit, Fits, MemberFits, MemberAts
<1>3. CASE ~Stores(t)
  <2>1. tokens' \subseteq Token /\ TokensAged' /\ UNCHANGED accountRows
    BY <1>1, <1>3, TokensStay DEF CreateSession, accountRows
  <2> QED BY <1>1, <2>1, EndStep
<1>4. CASE Stores(t)
  <2>0. login[t].row \in 1..MaxRow /\ Len(refresh) \in Nat
    BY <1>2, AccountShapes
  <2>1. PICK row \in 1..MaxRow, n \in Nat : row = login[t].row /\ n = Len(refresh)
    BY <2>0
  <2>2. PICK x : x = [row |-> row, state |-> "active", lapsed |-> FALSE, family |-> n + 1]
    OBVIOUS
  <2>3. x \in RefreshSession /\ x.row = row /\ x.family = n + 1
    BY <2>1, <2>2 DEF RefreshSession
  <2>4. refresh' = Append(refresh, x) /\ refresh \in Seq(RefreshSession)
    BY <1>4, <2>1, <2>2, AccountShapes DEF CreateSession
  <2>5. login' = [login EXCEPT ![t] = NoLogin] /\ Unlock(t)
    BY <1>1 DEF LoginEnd
  <2>6. \A s \in DOMAIN refresh : refresh[s].family # n + 1
    BY <2>1, AccountShapes DEF AccountInv, SessionsInv, FamiliesNumbered
  <2>7. MemberFits(NoLogin)' /\ NoLogin.at \notin {"rotating", "inspecting"} /\ NoLogin.kind \notin AdminKinds
    BY DEF MemberFits, NoLogin, MemberAts, AdminKinds
  <2>8. Inserts(login[t]) /\ login[t].kind \notin AdminKinds
    BY <1>2 DEF Inserts, SignIns, AdminKinds
  <2>9. x.row = user.row /\ Registered
    BY <1>2, <1>4, <2>1, <2>3 DEF Stores
  <2>10. PICK r \in LoginRecord : r = NoLogin
    BY IdleShape
  <2>11. x.family <= Len(refresh) + 1 /\ \A s \in DOMAIN refresh : refresh[s].family # x.family
    BY <2>1, <2>3, <2>6
  <2>12. login' = [login EXCEPT ![t] = r] /\ ~Inserts(r) /\ MemberFits(r)'
           /\ r.at \notin {"rotating", "inspecting"} /\ r.kind \notin AdminKinds
    BY <2>5, <2>7, <2>10, IdleShape DEF MemberFits, NoLogin, MemberAts, AdminKinds
  <2> QED BY <1>1, <2>3, <2>4, <2>5, <2>8, <2>9, <2>11, <2>12, SessionBegins
<1> QED BY <1>3, <1>4

\* A rotation replaces the session it holds by one of the same family.
LEMMA CommitRotationStep ==
  ASSUME AccountInv, NEW t \in Logins, CommitRotation(t)
  PROVE  AccountInv'
<1>1. /\ login[t].kind = "refresh" /\ login[t].at = "rotating" /\ KeyShared /\ Unlock(t)
      /\ login' = [login EXCEPT ![t].at = "reading"] /\ UNCHANGED <<user, listed, tokens>>
  BY DEF CommitRotation, LoginAt
<1>2. PICK y \in LoginRecord : y = login[t]
  BY AccountShapes
<1>3. PICK s \in DOMAIN refresh, f \in Nat, row \in 1..MaxRow :
        /\ s = y.session /\ f = y.family /\ row = y.row /\ sessionLock[s] = t
        /\ refresh[s].state = "active" /\ refresh[s].row = row /\ refresh[s].family = f
  BY <1>1, <1>2, AccountShapes DEF AccountInv, RequestsFit, Fits, SessionFits, Active
<1>4. row = user.row /\ Registered /\ f <= Len(refresh) /\ user.row # 0
  BY <1>3, AccountShapes DEF AccountInv, SessionsInv, SessionsOfMembers, FamiliesNumbered, Active
<1>5. PICK x : x = [row |-> row, state |-> "active", lapsed |-> FALSE, family |-> f]
  OBVIOUS
<1>6. x \in RefreshSession /\ x.row = row /\ x.family = f
  BY <1>5 DEF RefreshSession
<1>z. PICK z \in RefreshSession : z = refresh[s] /\ z.row = row /\ z.family = f
  BY <1>3, AccountShapes
<1>7. PICK gone \in RefreshSession :
        gone = [refresh[s] EXCEPT !.state = "revoked"] /\ gone.row = row /\ gone.family = f /\ gone.state = "revoked"
  <2>1. /\ [z EXCEPT !.state = "revoked"] \in RefreshSession /\ [z EXCEPT !.state = "revoked"].row = row
        /\ [z EXCEPT !.state = "revoked"].family = f /\ [z EXCEPT !.state = "revoked"].state = "revoked"
    BY <1>z DEF RefreshSession
  <2> QED BY <1>z, <2>1
<1>8. PICK old : old = [refresh EXCEPT ![s] = gone]
  OBVIOUS
<1>9. refresh' = Append(old, x)
  BY <1>2, <1>3, <1>5, <1>7, <1>8 DEF CommitRotation
<1>10. /\ old \in Seq(RefreshSession) /\ Len(old) = Len(refresh) /\ DOMAIN old = DOMAIN refresh
       /\ old[s] = gone /\ \A q \in DOMAIN refresh : q # s => old[q] = refresh[q]
  BY <1>8, AccountShapes
<1>11. \A q \in DOMAIN refresh :
         /\ old[q].row = refresh[q].row /\ old[q].family = refresh[q].family
         /\ old[q].state = "active" => refresh[q].state = "active" /\ refresh[q].family # x.family
         /\ sessionLock[q] # t => old[q].state = refresh[q].state
  BY <1>3, <1>6, <1>7, <1>10 DEF AccountInv, SessionsInv, OneTabAtATime, Active
<1>12. PICK r : r = [y EXCEPT !.at = "reading"]
  OBVIOUS
<1>13. r \in LoginRecord /\ r.kind = y.kind /\ r.at = "reading" /\ r.row = y.row
  BY <1>12, RecordAt DEF Places
<1>14. login' = [login EXCEPT ![t] = r]
  BY <1>1, <1>2, <1>12
<1>15. /\ Inserts(login[t]) /\ ~Inserts(r) /\ r.at \notin {"rotating", "inspecting"}
       /\ r.kind \notin AdminKinds /\ login[t].kind \notin AdminKinds
  BY <1>1, <1>2, <1>13 DEF Inserts, SignIns, AdminKinds
<1>16. MemberFits(r)'
  BY <1>1, <1>2, <1>3, <1>4, <1>13 DEF MemberFits, AdminKinds, Registered
<1>17. x.family <= Len(refresh) + 1 /\ x.row = user.row /\ Registered
  BY <1>4, <1>6, AccountShapes
<1>18. old \in Seq(RefreshSession) /\ Len(old) = Len(refresh)
  BY <1>10
<1> QED BY <1>1, <1>6, <1>9, <1>11, <1>13, <1>14, <1>15, <1>16, <1>17, <1>18, SessionBegins

\* A request that ends with a change of rows that the others do not rely on.
LEMMA EndsWith ==
  ASSUME AccountInv, NEW t \in Logins, LoginEnd(t),
         user' \in UserRow, listed' \in BOOLEAN, refresh' \in Seq(RefreshSession), UNCHANGED tokens,
         RowOfUser', TokensAged', SessionsInv',
         DOMAIN refresh' = DOMAIN refresh, Len(refresh') = Len(refresh),
         \A q \in Logins : q # t =>
           /\ rowLock = q => user' = user
           /\ login[q].at \in MemberAts /\ login[q].row = user'.row => Registered',
         \A s \in DOMAIN refresh :
           /\ refresh'[s].row = refresh[s].row /\ refresh'[s].family = refresh[s].family
           /\ \A q \in Logins : q # t /\ sessionLock[s] = q => refresh'[s].state = refresh[s].state
  PROVE  AccountInv'
<1>1. login' = [login EXCEPT ![t] = NoLogin] /\ Unlock(t)
  BY DEF LoginEnd
<1>2. Fits(t, NoLogin)'
  BY <1>1, Released DEF Fits, MemberFits, SessionFits, ChangerFits, NoLogin, MemberAts, AdminKinds
<1>3. PICK r \in LoginRecord : r = NoLogin /\ ~Inserts(r)
  BY IdleShape
<1>4. login' = [login EXCEPT ![t] = r] /\ Fits(t, r)'
  BY <1>1, <1>3, Released DEF Fits, MemberFits, SessionFits, ChangerFits, NoLogin, MemberAts, AdminKinds
<1>5. RoomLeft'
  BY <1>3, <1>4, RoomStays, AccountShapes
<1>6. tokens' \subseteq Token
  BY DEF AccountInv, AccountTypeOK
<1>7. \A s \in 1..MaxSessions : \A q \in Logins : q # t => (sessionLock'[s] = q <=> sessionLock[s] = q)
  BY <1>1, Released
<1>8. \A s \in 1..MaxSessions : sessionLock'[s] # t
  BY <1>1, Released
<1>9. /\ rowLock' \in Logins \cup {Nobody} /\ \A q \in Logins : q # t => (rowLock' = q <=> rowLock = q)
      /\ sessionLock' \in [1..MaxSessions -> Logins \cup {Nobody}]
  BY <1>1, Released
<1> QED BY ZenonT(30), <1>4, <1>5, <1>6, <1>7, <1>8, <1>9, StepKeeps

\* The sessions a statement ends: those it has found, and no other.
LEMMA EndedShape ==
  ASSUME AccountInv, NEW t \in Logins, NEW how \in {"revoked", "deleted"}
  PROVE  /\ Ended(t, how) \in Seq(RefreshSession) /\ Len(Ended(t, how)) = Len(refresh)
         /\ DOMAIN Ended(t, how) = DOMAIN refresh
         /\ \A s \in DOMAIN refresh :
              /\ Ended(t, how)[s].row = refresh[s].row /\ Ended(t, how)[s].family = refresh[s].family
              /\ Ended(t, how)[s].state = "active" => refresh[s].state = "active"
              /\ s \notin login[t].doomed => Ended(t, how)[s] = refresh[s]
<1> DEFINE f == Ended(t, how)
<1>1. f = [s \in 1..Len(refresh) |->
             IF s \in login[t].doomed /\ refresh[s].state # "deleted" THEN [refresh[s] EXCEPT !.state = how] ELSE refresh[s]]
  BY AccountShapes DEF Ended
<1>2. DOMAIN f = 1..Len(refresh)
  BY <1>1
<1>3. ASSUME NEW s \in 1..Len(refresh)
      PROVE  /\ f[s] \in RefreshSession /\ f[s].row = refresh[s].row /\ f[s].family = refresh[s].family
             /\ f[s].state = "active" => refresh[s].state = "active"
             /\ s \notin login[t].doomed => f[s] = refresh[s]
  <2>1. PICK z \in RefreshSession : z = refresh[s]
    BY AccountShapes
  <2>2. PICK gone : gone = [z EXCEPT !.state = how]
    OBVIOUS
  <2>3. gone \in RefreshSession /\ gone.row = z.row /\ gone.family = z.family /\ gone.state = how
    BY <2>2 DEF RefreshSession
  <2>4. f[s] = IF s \in login[t].doomed /\ z.state # "deleted" THEN gone ELSE z
    BY <1>1, <2>1, <2>2
  <2> HIDE DEF f
  <2> QED BY <2>1, <2>3, <2>4
<1> HIDE DEF f
<1>4. f \in Seq(RefreshSession) /\ Len(f) = Len(refresh)
  <2>1. f = [s \in 1..Len(refresh) |-> f[s]] /\ Len(refresh) \in Nat
    BY <1>1, AccountShapes
  <2>2. f \in [1..Len(refresh) -> RefreshSession]
    BY <1>3, <2>1
  <2> QED BY <2>1, <2>2
<1> QED BY <1>2, <1>3, <1>4, AccountShapes DEF f

\* A session that is replaced is not ended: the statement waits for it.
LEMMA HeldStay ==
  ASSUME AccountInv, NEW t \in Logins, RowsFree(t), NEW s \in login[t].doomed, NEW q \in Logins, q # t
  PROVE  sessionLock[s] # q
BY AccountShapes DEF RowsFree

\* A token that is replayed ends the sessions of its owner, an expired one itself.
LEMMA RevokeReusedStep ==
  ASSUME AccountInv, NEW t \in Logins, RevokeReused(t)
  PROVE  AccountInv'
<1>1. RowsFree(t) /\ refresh' = Ended(t, "revoked") /\ LoginEnd(t) /\ UNCHANGED <<user, listed, tokens>>
  BY DEF RevokeReused
<1>2. /\ refresh' \in Seq(RefreshSession) /\ Len(refresh') = Len(refresh) /\ DOMAIN refresh' = DOMAIN refresh
      /\ \A s \in DOMAIN refresh :
           /\ refresh'[s].row = refresh[s].row /\ refresh'[s].family = refresh[s].family
           /\ refresh'[s].state = "active" => refresh[s].state = "active"
           /\ s \notin login[t].doomed => refresh'[s] = refresh[s]
  BY <1>1, EndedShape
<1>3. SessionsInv'
  BY <1>1, <1>2, SessionsEnd
<1>4. \A s \in DOMAIN refresh : \A q \in Logins :
        q # t /\ sessionLock[s] = q => refresh'[s].state = refresh[s].state
  BY <1>1, <1>2, HeldStay
<1>5. TokensAged' /\ RowOfUser' /\ user' \in UserRow /\ listed' \in BOOLEAN
  BY <1>1, TokensStay DEF RowOfUser, AccountInv, AccountTypeOK
<1>6. \A q \in Logins : login[q].at \in MemberAts /\ login[q].row = user'.row => Registered'
  BY <1>1 DEF AccountInv, RequestsFit, Fits, MemberFits, Registered
<1> QED BY <1>1, <1>2, <1>3, <1>4, <1>5, <1>6, EndsWith

\* An administrator's change becomes seen, with the end of the sessions it found.
LEMMA CommitChangeStep ==
  ASSUME AccountInv, NEW t \in Logins, CommitChange(t)
  PROVE  AccountInv'
<1>1. /\ login[t].kind \in AdminKinds /\ login[t].at = "found" /\ RowsFree(t) /\ user' = login[t].change
      /\ LoginEnd(t) /\ UNCHANGED tokens
  BY DEF CommitChange, LoginAt
<1>2. /\ rowLock = t /\ login[t].row = user.row /\ user.row # 0 /\ ChangeFits(login[t].kind, login[t].change)
      /\ login[t].kind = "delete" => \A s \in DOMAIN refresh : refresh[s].row = user.row => s \in login[t].doomed
  BY <1>1 DEF AccountInv, RequestsFit, Fits, ChangerFits
<1>3. user' \in UserRow
  BY <1>1, AccountShapes
<1>4. \A q \in Logins : q # t => rowLock # q
  BY <1>2
<1>5. CASE login[t].kind # "delete"
  <2>1. PICK how \in {"revoked", "deleted"} : refresh' = Ended(t, how) /\ listed' = listed
    BY <1>5 DEF CommitChange
  <2>2. /\ user'.row = user.row /\ user'.status = user.status /\ user'.version >= user.version
        /\ user'.version = user.version => user'.editor = user.editor
    BY <1>1, <1>2, <1>5 DEF ChangeFits
  <2>3. /\ refresh' \in Seq(RefreshSession) /\ Len(refresh') = Len(refresh) /\ DOMAIN refresh' = DOMAIN refresh
        /\ \A s \in DOMAIN refresh :
             /\ refresh'[s].row = refresh[s].row /\ refresh'[s].family = refresh[s].family
             /\ refresh'[s].state = "active" => refresh[s].state = "active"
             /\ s \notin login[t].doomed => refresh'[s] = refresh[s]
    BY <2>1, EndedShape
  <2>4. SessionsInv'
    BY <2>2, <2>3, SessionsEnd
  <2>5. RowOfUser' /\ listed' \in BOOLEAN
    BY <2>1, <2>2 DEF RowOfUser, AccountInv, AccountTypeOK
  <2>6. TokensAged'
    <3> SUFFICES ASSUME NEW k \in tokens, k.row = user.row
                 PROVE  /\ user'.status = "registered" /\ k.version <= user'.version
                        /\ k.version = user'.version => k.editor = user'.editor
      BY <1>1, <2>2 DEF TokensAged, Registered
    <3>1. /\ user.status = "registered" /\ k.version <= user.version
          /\ k.version = user.version => k.editor = user.editor
      BY DEF AccountInv, TokensAged, Registered
    <3>2. k.version \in Nat /\ user.version \in Nat /\ user'.version \in Nat
      BY <1>3, AccountShapes DEF UserRow
    <3> QED BY <2>2, <3>1, <3>2
  <2>7. \A q \in Logins : login[q].at \in MemberAts /\ login[q].row = user'.row => Registered'
    BY <2>2 DEF AccountInv, RequestsFit, Fits, MemberFits, Registered
  <2>8. \A s \in DOMAIN refresh : \A q \in Logins :
          q # t /\ sessionLock[s] = q => refresh'[s].state = refresh[s].state
    BY <1>1, <2>3, HeldStay
  <2> QED BY <1>1, <1>3, <1>4, <2>3, <2>4, <2>5, <2>6, <2>7, <2>8, EndsWith
<1>6. CASE login[t].kind = "delete"
  <2>1. /\ user' = NoUser /\ listed' = FALSE
        /\ refresh' = [s \in DOMAIN refresh |->
             IF refresh[s].row = user.row THEN [refresh[s] EXCEPT !.state = "deleted"] ELSE refresh[s]]
    BY <1>1, <1>2, <1>6 DEF CommitChange, ChangeFits
  <2>2. user'.row = 0 /\ user'.status = "none"
    BY <2>1 DEF NoUser
  <2>3. ASSUME NEW s \in DOMAIN refresh
        PROVE  /\ refresh'[s] \in RefreshSession
               /\ refresh'[s].row = refresh[s].row /\ refresh'[s].family = refresh[s].family
               /\ refresh'[s].state # "active"
               /\ refresh[s].row # user.row => refresh'[s] = refresh[s]
    <3>1. PICK z \in RefreshSession : z = refresh[s]
      BY AccountShapes
    <3>2. PICK gone : gone = [z EXCEPT !.state = "deleted"]
      OBVIOUS
    <3>3. gone \in RefreshSession /\ gone.row = z.row /\ gone.family = z.family /\ gone.state = "deleted"
      BY <3>2 DEF RefreshSession
    <3>4. refresh'[s] = IF z.row = user.row THEN gone ELSE z
      BY <2>1, <3>1, <3>2
    <3>5. z.state = "active" => z.row = user.row
      BY <3>1 DEF AccountInv, SessionsInv, SessionsOfMembers, Active
    <3> QED BY <3>1, <3>3, <3>4, <3>5
  <2>4. /\ refresh' \in Seq(RefreshSession) /\ Len(refresh') = Len(refresh) /\ DOMAIN refresh' = DOMAIN refresh
    <3>1. refresh' = [s \in 1..Len(refresh) |-> refresh'[s]] /\ Len(refresh) \in Nat /\ DOMAIN refresh = 1..Len(refresh)
      BY <2>1, AccountShapes
    <3>2. refresh' \in [1..Len(refresh) -> RefreshSession]
      BY <2>3, <3>1
    <3> QED BY <3>1, <3>2
  <2>5. SessionsInv'
    BY <2>3, <2>4 DEF AccountInv, SessionsInv, OneTabAtATime, SessionsOfMembers, FamiliesNumbered, Active
  <2>6. RowOfUser' /\ listed' \in BOOLEAN
    BY <2>1, <2>2 DEF RowOfUser
  <2>7. TokensAged'
    BY <1>1, <2>2, AccountShapes DEF TokensAged
  <2>8. \A q \in Logins : login[q].at \in MemberAts => login[q].row # user'.row
    BY <2>2 DEF AccountInv, RequestsFit, Fits, MemberFits
  <2>9. \A s \in DOMAIN refresh : \A q \in Logins :
          q # t /\ sessionLock[s] = q => refresh'[s].state = refresh[s].state
    BY <1>1, <1>2, <1>6, <2>3, HeldStay
  <2> QED BY <1>1, <1>3, <1>4, <2>3, <2>4, <2>5, <2>6, <2>7, <2>8, <2>9, EndsWith
<1> QED BY <1>5, <1>6

-------------------------------------------------------------------------------
(* Accounts: the steps of no request, and the theorem.                      *)

\* A step of no request keeps the invariant when it keeps the rows in order.
LEMMA NobodySteps ==
  ASSUME AccountInv, UNCHANGED <<tokens, rowLock, sessionLock, login>>,
         user' \in UserRow, listed' \in BOOLEAN, refresh' \in Seq(RefreshSession),
         RowOfUser', TokensAged', SessionsInv',
         DOMAIN refresh' = DOMAIN refresh, Len(refresh') = Len(refresh),
         \A q \in Logins :
           /\ rowLock = q => user' = user
           /\ login[q].at \in MemberAts /\ login[q].row = user'.row => Registered',
         \A s \in DOMAIN refresh :
           /\ refresh'[s].row = refresh[s].row /\ refresh'[s].family = refresh[s].family
           /\ \A q \in Logins : sessionLock[s] = q => refresh'[s].state = refresh[s].state
  PROVE  AccountInv'
<1>1. AccountTypeOK'
  BY DEF AccountInv, AccountTypeOK
<1>2. ASSUME NEW q \in Logins PROVE Fits(q, login[q])'
  BY OthersFit
<1>3. LocksHeld' /\ RoomLeft'
  BY DEF AccountInv, LocksHeld, RoomLeft, Inserting
<1>4. RequestsFit'
  BY <1>2 DEF RequestsFit
<1> QED BY <1>1, <1>3, <1>4 DEF AccountInv

\* A lead joins the waitlist.
LEMMA JoinStep ==
  ASSUME AccountInv, Join
  PROVE  AccountInv'
<1>1. /\ user.row = 0 /\ LastRow < MaxRow
      /\ user' = [NoUser EXCEPT !.row = LastRow + 1, !.status = "lead"]
      /\ UNCHANGED <<listed, refresh, tokens, accountLocks, login>>
  BY DEF Join
<1>2. PICK row \in 0..MaxRow : row = LastRow + 1
  BY <1>1, LastRowIsLast, AccountShapes
<1>3. user' = [row |-> row, status |-> "lead", role |-> "STUDENT", editor |-> FALSE, blocked |-> FALSE, version |-> 0]
  BY <1>1, <1>2 DEF NoUser
<1>4. 0 \in 0..MaxChanges /\ row # 0
  BY <1>2, LastRowIsLast, AccountShapes
<1>5. user' \in UserRow /\ user'.row = row /\ user'.row # 0 /\ user'.status = "lead"
  BY <1>3, <1>4 DEF UserRow, Roles
<1>6. /\ \A s \in DOMAIN refresh : refresh[s].row # row
      /\ \A k \in tokens : k.row # row
      /\ \A t \in Logins : login[t].row # row
  BY <1>2, LastRowIsLast, AccountShapes
<1>7. \A q \in Logins : rowLock # q
  BY <1>1 DEF AccountInv, RequestsFit, Fits, ChangerFits
<1>8. rowLock = Nobody
  BY <1>7 DEF AccountInv, AccountTypeOK
<1>9. /\ RowOfUser' /\ TokensAged' /\ SessionsInv'
      /\ \A q \in Logins : login[q].at \in MemberAts /\ login[q].row = user'.row => Registered'
  BY <1>1, <1>5, <1>6, <1>8, UserChanges
<1>10. UNCHANGED <<rowLock, sessionLock>> /\ listed' \in BOOLEAN /\ refresh' \in Seq(RefreshSession)
  BY <1>1 DEF accountLocks, AccountInv, AccountTypeOK
<1> QED BY <1>1, <1>5, <1>7, <1>9, <1>10, NobodySteps

\* Logging out ends a session nobody holds; a session lapses whoever holds it.
LEMMA SessionStep ==
  ASSUME AccountInv, NEW s \in DOMAIN refresh, Logout(s) \/ Lapse(s)
  PROVE  AccountInv'
<1>1. PICK z \in RefreshSession : z = refresh[s]
  BY AccountShapes
<1>2. PICK x \in RefreshSession :
        /\ x.row = z.row /\ x.family = z.family /\ refresh' = [refresh EXCEPT ![s] = x]
        /\ x.state = z.state \/ (x.state = "revoked" /\ sessionLock[s] = Nobody)
  <2>1. CASE Logout(s)
    <3>1. PICK x : x = [z EXCEPT !.state = "revoked"]
      OBVIOUS
    <3>2. x \in RefreshSession /\ x.row = z.row /\ x.family = z.family /\ x.state = "revoked"
      BY <3>1 DEF RefreshSession
    <3> QED BY <1>1, <2>1, <3>1, <3>2 DEF Logout
  <2>2. CASE Lapse(s)
    <3>1. PICK x : x = [z EXCEPT !.lapsed = TRUE]
      OBVIOUS
    <3>2. x \in RefreshSession /\ x.row = z.row /\ x.family = z.family /\ x.state = z.state
      BY <3>1 DEF RefreshSession
    <3> QED BY <1>1, <2>2, <3>1, <3>2 DEF Lapse
  <2> QED BY <2>1, <2>2
<1>3. UNCHANGED <<user, listed, tokens, accountLocks, login>>
  BY DEF Logout, Lapse
<1>4. /\ refresh' \in Seq(RefreshSession) /\ DOMAIN refresh' = DOMAIN refresh /\ Len(refresh') = Len(refresh)
      /\ refresh'[s] = x /\ \A q \in DOMAIN refresh : q # s => refresh'[q] = refresh[q]
  BY <1>2, AccountShapes
<1>5. SessionsInv'
  BY <1>1, <1>2, <1>3, <1>4, SessionsEnd
<1>6. \A q \in DOMAIN refresh :
        /\ refresh'[q].row = refresh[q].row /\ refresh'[q].family = refresh[q].family
        /\ \A t \in Logins : sessionLock[q] = t => refresh'[q].state = refresh[q].state
  BY <1>1, <1>2, <1>4, AccountShapes
<1>7. UNCHANGED <<rowLock, sessionLock>> /\ user' \in UserRow /\ listed' \in BOOLEAN /\ RowOfUser' /\ TokensAged'
  BY <1>3, TokensStay DEF accountLocks, AccountInv, AccountTypeOK, RowOfUser
<1>8. \A q \in Logins : login[q].at \in MemberAts /\ login[q].row = user'.row => Registered'
  BY <1>3 DEF AccountInv, RequestsFit, Fits, MemberFits, Registered
<1> QED BY <1>3, <1>4, <1>5, <1>6, <1>7, <1>8, NobodySteps

\* The list of super admins changes.
LEMMA ListStep ==
  ASSUME AccountInv, listed' \in BOOLEAN, UNCHANGED <<user, refresh, tokens, accountLocks, login>>
  PROVE  AccountInv'
<1>1. UNCHANGED <<user, refresh, tokens, rowLock, sessionLock, login>>
  BY DEF accountLocks
<1> QED BY <1>1 DEF AccountInv, AccountTypeOK, RowOfUser, TokensAged, SessionsInv, OneTabAtATime, SessionsOfMembers,
                    FamiliesNumbered, RequestsFit, Fits, MemberFits, SessionFits, ChangerFits, ChangeFits, LocksHeld,
                    RoomLeft, Inserting, Active, Registered

\* The initial state is in the invariant.
LEMMA AccountInvInit == AccountInit => AccountInv
<1> SUFFICES ASSUME AccountInit PROVE AccountInv
  OBVIOUS
<1>1. /\ user = NoUser /\ listed \in BOOLEAN /\ refresh = <<>> /\ tokens = {} /\ rowLock = Nobody
      /\ sessionLock = [s \in 1..MaxSessions |-> Nobody] /\ login = [t \in Logins |-> NoLogin]
  BY DEF AccountInit
<1>2. refresh \in Seq(RefreshSession) /\ Len(refresh) = 0 /\ DOMAIN refresh = {}
  BY <1>1
<1>3. AccountTypeOK
  BY <1>1, <1>2, IdleShape DEF AccountTypeOK
<1>4. RowOfUser /\ TokensAged /\ SessionsInv
  BY <1>1, <1>2 DEF RowOfUser, NoUser, TokensAged, SessionsInv, OneTabAtATime, SessionsOfMembers, FamiliesNumbered
<1>5. ASSUME NEW t \in Logins PROVE Fits(t, login[t])
  BY <1>1, IdleFits, AccountAssumption
<1>6. RequestsFit /\ LocksHeld
  BY <1>1, <1>5, AccountAssumption DEF RequestsFit, LocksHeld
<1>7. RoomLeft
  <2>1. Inserting = {}
    BY <1>1, IdleShape DEF Inserting
  <2> QED BY <1>2, <2>1, FS_EmptySet, AccountAssumption DEF RoomLeft
<1> QED BY <1>3, <1>4, <1>6, <1>7 DEF AccountInv

\* Every step of the accounts keeps the invariant.
LEMMA AccountInvStep == AccountInv /\ [AccountNext]_accountVars => AccountInv'
<1> SUFFICES ASSUME AccountInv, [AccountNext]_accountVars PROVE AccountInv'
  OBVIOUS
<1>1. ASSUME NEW t \in Logins, AccountStep(t) PROVE AccountInv'
  BY <1>1, ReadUserStep, IssueTokenStep, CreateSessionStep, IsSuperAdminStep, SetRoleStep, GoogleAdminStep,
     CreateUserStep, CommitRotationStep, InspectStep, RevokeReusedStep, FindStep, CommitChangeStep DEF AccountStep
<1>2. ASSUME NEW t \in Logins, LoginAbort(t) PROVE AccountInv'
  <2>1. LoginEnd(t) /\ UNCHANGED <<accountRows, tokens>> /\ UNCHANGED <<user, tokens>>
    BY <1>2 DEF LoginAbort, accountRows
  <2> QED BY <2>1, TokensStay, EndStep
<1>3. ASSUME NEW t \in Logins,
             Login(t) \/ GoogleLogin(t) \/ GoogleUnknown(t) \/ Register(t) \/ CompleteGoogleRegistration(t)
      PROVE  AccountInv'
  BY <1>3, BeginStep
<1>4. ASSUME NEW t \in Logins, NEW s \in DOMAIN refresh, RotateSession(t, s) PROVE AccountInv'
  BY <1>4, RotateStep
<1>5. ASSUME NEW t \in Logins, NEW c \in Changes, ChangeUser(t, c) PROVE AccountInv'
  BY <1>5, ChangeStep
<1>6. ASSUME NEW s \in DOMAIN refresh, Logout(s) \/ Lapse(s) PROVE AccountInv'
  BY <1>6, SessionStep
<1>7. CASE Join
  BY <1>7, JoinStep
<1>8. CASE ListAdmin \/ UNCHANGED accountVars
  <2>1. listed' \in BOOLEAN /\ UNCHANGED <<user, refresh, tokens, accountLocks, login>>
    BY <1>8 DEF ListAdmin, accountVars, accountRows, AccountInv, AccountTypeOK
  <2> QED BY <2>1, ListStep
<1> QED BY <1>1, <1>2, <1>3, <1>4, <1>5, <1>6, <1>7, <1>8 DEF AccountNext

\* Sessions are of members, one at a time for each login, and an access token that is
\* accepted says what the account may do now (RotateSession, CreateSession and
\* ParseAccessToken of internal/auth, UpdateUser and DeleteUser of internal/admin).
THEOREM SessionsKept == AccountSpec => []SessionsHold
<1>1. AccountInv => SessionsHold
  <2> SUFFICES ASSUME AccountInv PROVE SessionsHold
    OBVIOUS
  <2>1. TokenIsCurrent
    BY DEF AccountInv, TokensAged, TokenIsCurrent, Accepted
  <2> QED BY <2>1 DEF AccountInv, SessionsInv, SessionsHold
<1> QED BY <1>1, AccountInvInit, AccountInvStep, PTL DEF AccountSpec


-------------------------------------------------------------------------------
(* Free starts: the inductive invariant.                                    *)

\* Who is past a lock holds it, and only a paywall locks and charges.
HoldsLocks(t) ==
  /\ tx[t].at \in {"waiting", "holding", "consuming"} => Paywall
  /\ tx[t].at \in {"holding", "consuming"} => userLock = t
  /\ tx[t].at = "inserting" /\ Paywall => userLock = t
  /\ Mock(t) /\ tx[t].at \notin {"idle", "beginning"} => mockLock = t
  /\ tx[t].free => Paywall /\ tx[t].at = "inserting"

Locked == \A t \in Txs : HoldsLocks(t)

\* No attempt of the material came up after CreatePractice looked for one.
AloneOnMaterial ==
  Paywall => \A t \in Txs : Practice(t) /\ tx[t].at \in {"consuming", "inserting"} => OpenOf(tx[t].kind) = {}

\* No mock came up after generateSession looked for one.
AloneOnMock ==
  \A t \in Txs : Mock(t) /\ tx[t].at \notin {"idle", "beginning"} /\ ~tx[t].restart => OpenOf("mock") = {}

\* The free start that was found to be left is left until it is taken.
StartLeft ==
  \A t \in Txs : tx[t].at = "inserting" /\ tx[t].free /\ tx[t].kind # "claim" =>
    \A s \in SkillsOf(tx[t].kind) : Used(s) < highest[s]

\* The history of a limit is never below it.
LimitKnown == \A s \in Skills : limit[s] <= highest[s]

\* The quota is safe because what was read under the lock of the account stays true until
\* the start is inserted: the conjuncts say so of each thing that was read.
IInv ==
  /\ TypeOK
  /\ Locked
  /\ AloneOnMaterial
  /\ AloneOnMock
  /\ StartLeft
  /\ LimitKnown
  /\ ChargedInFull
  /\ QuotaKept

-------------------------------------------------------------------------------
(* Types.                                                                   *)

\* The skills of a start are skills.
LEMMA SkillsAre == ASSUME NEW k \in Kinds PROVE SkillsOf(k) \subseteq Skills
BY FreeUsageAssumption DEF SkillsOf, Kinds

\* The initial state is well typed.
LEMMA TypeInit == Init => TypeOK
BY FreeUsageAssumption DEF Init, TypeOK, TxState, Idle, Start

\* A start that has ended is one still.
LEMMA EndedStart == ASSUME NEW s \in Start PROVE [s EXCEPT !.open = FALSE] \in Start
BY DEF Start

\* A start that is inserted is well typed and comes last.
LEMMA InsertedLast ==
  ASSUME TypeOK, NEW t \in Txs, Insert(t)
  PROVE  /\ DOMAIN starts = 1..Len(starts)
         /\ DOMAIN starts' = 1..(Len(starts) + 1)
         /\ Len(starts) \in Nat
         /\ tx[t].kind \in Kinds
         /\ starts'[Len(starts) + 1] =
              [kind |-> tx[t].kind, rows |-> UsageRows(t), open |-> tx[t].kind # "claim", free |-> tx[t].free]
         /\ \A i \in 1..Len(starts) : starts'[i] = Abandoned(t)[i]
         /\ starts' \in Seq(Start)
<1>1. starts \in Seq(Start) /\ DOMAIN starts = 1..Len(starts) /\ Len(starts) \in Nat
  BY DEF TypeOK
<1>2. tx[t].kind \in Kinds /\ tx[t].free \in BOOLEAN
  BY DEF TypeOK, TxState, Idle, Insert, At
<1>3. UsageRows(t) \in SUBSET Skills
  BY <1>2, SkillsAre DEF UsageRows
<1>4. Abandoned(t) \in Seq(Start) /\ Len(Abandoned(t)) = Len(starts)
  <2>1. ASSUME NEW i \in 1..Len(starts) PROVE Abandoned(t)[i] \in Start
    BY <1>1, EndedStart DEF Abandoned
  <2>2. Abandoned(t) \in [1..Len(starts) -> Start]
    BY <1>1, <2>1 DEF Abandoned
  <2> QED BY <1>1, <2>2
<1> DEFINE new == [kind |-> tx[t].kind, rows |-> UsageRows(t), open |-> tx[t].kind # "claim", free |-> tx[t].free]
<1>5. new \in Start
  BY <1>2, <1>3 DEF Start
<1>6. starts' = Append(Abandoned(t), new)
  BY DEF Insert
<1> HIDE DEF new
<1>7. /\ starts' \in Seq(Start)
      /\ DOMAIN starts' = 1..(Len(starts) + 1)
      /\ starts'[Len(starts) + 1] = new
      /\ \A i \in 1..Len(starts) : starts'[i] = Abandoned(t)[i]
  BY <1>1, <1>4, <1>5, <1>6
<1> QED BY <1>1, <1>2, <1>7 DEF new

\* A transaction goes on to insert, charged or not.
LEMMA Consumed ==
  ASSUME NEW x \in TxState, x.at = "consuming", NEW b \in BOOLEAN
  PROVE  [x EXCEPT !.at = "inserting", !.free = b] \in TxState
<1> DEFINE R == [kind : Kinds, at : {"consuming", "inserting"}, free : BOOLEAN, restart : BOOLEAN]
<1>1. x \in R
  BY DEF TxState, Idle
<1>2. [x EXCEPT !.at = "inserting"] \in R
  BY <1>1
<1>3. ASSUME NEW y \in R PROVE [y EXCEPT !.free = b] \in R
  OBVIOUS
<1>4. [x EXCEPT !.at = "inserting", !.free = b] = [[x EXCEPT !.at = "inserting"] EXCEPT !.free = b]
  BY Zenon
<1> QED BY <1>2, <1>3, <1>4 DEF TxState

\* Every variable keeps its range.
LEMMA TypeStep == TypeOK /\ [Next]_vars => TypeOK'
<1> SUFFICES ASSUME TypeOK, [Next]_vars PROVE TypeOK'
  OBVIOUS
<1> USE DEF TypeOK
<1>a. ASSUME NEW t \in Txs, Done(t)
      PROVE  tx' \in [Txs -> TxState] /\ userLock' \in Txs \cup {None} /\ mockLock' \in Txs \cup {None}
  BY <1>a DEF Done, TxState, Idle
<1>b. ASSUME NEW t \in Txs, tx[t].at \in {"beginning", "waiting", "holding", "consuming"},
             NEW at \in {"waiting", "holding", "consuming", "inserting"}, Goto(t, at)
      PROVE  tx' \in [Txs -> TxState]
  BY <1>b DEF Goto, TxState, Idle
<1>c. Consuming \in {"waiting", "inserting"}
  BY DEF Consuming
<1>1. ASSUME NEW t \in Txs, NEW k \in Kinds, NEW again \in BOOLEAN, Begin(t, k, again) PROVE TypeOK'
  BY <1>1 DEF Begin, TxState, locks
<1>2. ASSUME NEW t \in Txs, FindInProgress(t) PROVE TypeOK'
  <2>1. CASE OpenOf(tx[t].kind) # {} BY <1>2, <1>a, <2>1 DEF FindInProgress
  <2>2. CASE OpenOf(tx[t].kind) = {} BY <1>2, <1>b, <1>c, <2>2 DEF FindInProgress, At, locks
  <2> QED BY <2>1, <2>2
<1>3. ASSUME NEW t \in Txs, LockMock(t) PROVE TypeOK'
  <2>1. CASE OpenOf("mock") # {} /\ ~tx[t].restart BY <1>3, <1>a, <2>1 DEF LockMock
  <2>2. CASE ~(OpenOf("mock") # {} /\ ~tx[t].restart) BY <1>3, <1>b, <1>c, <2>2 DEF LockMock, At
  <2> QED BY <2>1, <2>2
<1>4. ASSUME NEW t \in Txs, BeginClaim(t) PROVE TypeOK'
  BY <1>4, <1>b, <1>c DEF BeginClaim, At, locks
<1>5. ASSUME NEW t \in Txs, LockUser(t) PROVE TypeOK'
  BY <1>5, <1>b DEF LockUser, At
<1>6. ASSUME NEW t \in Txs, RecheckPractice(t) PROVE TypeOK'
  <2>1. CASE Resumes(t) BY <1>6, <1>a, <2>1 DEF RecheckPractice
  <2>2. CASE ~Resumes(t) BY <1>6, <1>b, <2>2 DEF RecheckPractice, At, locks
  <2> QED BY <2>1, <2>2
<1>7. ASSUME NEW t \in Txs, ConsumeTx(t) PROVE TypeOK'
  <2>1. CASE Done(t) BY <1>7, <1>a, <2>1 DEF ConsumeTx
  <2>2. CASE ~Done(t)
    <3>1. Charged(t) \in BOOLEAN BY DEF Charged
    <3>2. tx' = [tx EXCEPT ![t].at = "inserting", ![t].free = Charged(t)] /\ UNCHANGED locks
      BY <1>7, <2>2 DEF ConsumeTx
    <3>3. [tx[t] EXCEPT !.at = "inserting", !.free = Charged(t)] \in TxState
      <4>1. tx[t] \in TxState /\ tx[t].at = "consuming"
        BY <1>7 DEF ConsumeTx, At
      <4> QED BY <3>1, <4>1, Consumed
    <3>4. tx' \in [Txs -> TxState]
      BY <3>2, <3>3
    <3> QED BY <1>7, <3>2, <3>4 DEF ConsumeTx, locks
  <2> QED BY <2>1, <2>2
<1>8. ASSUME NEW t \in Txs, Insert(t) PROVE TypeOK'
  <2>1. starts' \in Seq(Start) BY <1>8, InsertedLast
  <2> QED BY <1>8, <1>a, <2>1 DEF Insert
<1>9. ASSUME NEW t \in Txs, Abort(t) PROVE TypeOK'
  BY <1>9, <1>a DEF Abort
<1>10. ASSUME NEW i \in DOMAIN starts, Close(i) PROVE TypeOK'
  <2>1. starts' \in Seq(Start)
    <3>1. [starts[i] EXCEPT !.open = FALSE] \in Start
      BY EndedStart
    <3> QED BY <1>10, <3>1 DEF Close
  <2> QED BY <1>10, <2>1 DEF Close, locks
<1>11. CASE ChangeAccess
  BY <1>11 DEF ChangeAccess, locks
<1>12. ASSUME NEW s \in Skills, NEW n \in Limits, UpdateSettings(s, n) PROVE TypeOK'
  BY <1>12 DEF UpdateSettings, locks
<1>13. CASE UNCHANGED vars
  BY <1>13 DEF vars
<1> QED
  BY <1>1, <1>2, <1>3, <1>4, <1>5, <1>6, <1>7, <1>8, <1>9, <1>10, <1>11, <1>12, <1>13 DEF Next, Proceed

\* Every variable keeps its range: a start is charged with skills only.
THEOREM TypeCorrect == Spec => []TypeOK
BY TypeInit, TypeStep, PTL DEF Spec
-------------------------------------------------------------------------------
(* Who moves what.                                                          *)

\* A transaction only moves by a step of its own.
LEMMA Owner ==
  ASSUME TypeOK, [Next]_vars, NEW u \in Txs, tx'[u] # tx[u]
  PROVE  (\E k \in Kinds, again \in BOOLEAN : Begin(u, k, again)) \/ Proceed(u) \/ Abort(u)
<1>1. ASSUME NEW t \in Txs, t # u, NEW k \in Kinds, NEW again \in BOOLEAN, Begin(t, k, again)
      PROVE  FALSE
  BY <1>1 DEF Begin, TypeOK
<1>2. ASSUME NEW t \in Txs, t # u, Proceed(t) PROVE FALSE
  BY <1>2 DEF Proceed, FindInProgress, LockMock, BeginClaim, LockUser, RecheckPractice, ConsumeTx,
     Insert, Done, Goto, TypeOK
<1>3. ASSUME NEW t \in Txs, t # u, Abort(t) PROVE FALSE
  BY <1>3 DEF Abort, Done, TypeOK
<1>4. ASSUME NEW i \in DOMAIN starts, Close(i) PROVE FALSE
  BY <1>4 DEF Close
<1>5. ~ChangeAccess /\ ~UNCHANGED vars
  BY DEF ChangeAccess, vars
<1>6. ASSUME NEW s \in Skills, NEW n \in Limits, UpdateSettings(s, n) PROVE FALSE
  BY <1>6 DEF UpdateSettings
<1> QED BY <1>1, <1>2, <1>3, <1>4, <1>5, <1>6 DEF Next

\* Starts stay on record as they are, except that they end.
LEMMA StartsStay ==
  ASSUME TypeOK, [Next]_vars
  PROVE  \A i \in DOMAIN starts :
           /\ i \in DOMAIN starts'
           /\ starts'[i].kind = starts[i].kind
           /\ starts'[i].rows = starts[i].rows
           /\ starts'[i].free = starts[i].free
           /\ starts'[i].open => starts[i].open
<1>0. \A i \in DOMAIN starts : starts[i] \in Start
  BY DEF TypeOK
<1> SUFFICES \A i \in DOMAIN starts :
      i \in DOMAIN starts' /\ starts'[i] \in {starts[i], [starts[i] EXCEPT !.open = FALSE]}
  <2>1. ASSUME NEW x \in Start, NEW y, y \in {x, [x EXCEPT !.open = FALSE]}
        PROVE  y.kind = x.kind /\ y.rows = x.rows /\ y.free = x.free /\ (y.open => x.open)
    BY <2>1 DEF Start
  <2> QED BY <1>0, <2>1
<1> TAKE i \in DOMAIN starts
<1>1. ASSUME NEW t \in Txs, Insert(t)
      PROVE  i \in DOMAIN starts' /\ starts'[i] \in {starts[i], [starts[i] EXCEPT !.open = FALSE]}
  <2>1. i \in 1..Len(starts) /\ i \in 1..(Len(starts) + 1)
    BY <1>1, InsertedLast
  <2> QED BY <1>1, <2>1, InsertedLast DEF Abandoned
<1>2. ASSUME NEW j \in DOMAIN starts, Close(j)
      PROVE  i \in DOMAIN starts' /\ starts'[i] \in {starts[i], [starts[i] EXCEPT !.open = FALSE]}
  BY <1>2 DEF Close, TypeOK
<1>3. CASE starts' = starts
  BY <1>3
<1> QED
  BY <1>1, <1>2, <1>3 DEF Next, Begin, Proceed, FindInProgress, LockMock, BeginClaim, LockUser,
     RecheckPractice, ConsumeTx, Abort, ChangeAccess, UpdateSettings, vars

\* Only an insertion puts a start on record.
LEMMA OnlyInsertAdds ==
  ASSUME TypeOK, [Next]_vars, ~ \E t \in Txs : Insert(t)
  PROVE  DOMAIN starts' = DOMAIN starts
<1>1. ASSUME NEW j \in DOMAIN starts, Close(j) PROVE DOMAIN starts' = DOMAIN starts
  BY <1>1 DEF Close, TypeOK
<1>2. CASE starts' = starts
  BY <1>2
<1> QED
  BY <1>1, <1>2 DEF Next, Begin, Proceed, FindInProgress, LockMock, BeginClaim, LockUser,
     RecheckPractice, ConsumeTx, Abort, ChangeAccess, UpdateSettings, vars

\* Nothing of a kind comes up unless a start of that kind is inserted.
LEMMA OnlyInsertOpens ==
  ASSUME TypeOK, [Next]_vars, NEW k, \A t \in Txs : Insert(t) => tx[t].kind # k, OpenOf(k) = {}
  PROVE  OpenOf(k)' = {}
<1> SUFFICES ASSUME NEW i \in DOMAIN starts', starts'[i].kind = k, starts'[i].open PROVE FALSE
  BY DEF OpenOf
<1>1. i \notin DOMAIN starts
  BY StartsStay DEF OpenOf
<1>2. PICK t \in Txs : Insert(t)
  BY <1>1, OnlyInsertAdds
<1>3. i = Len(starts) + 1
  <2>1. DOMAIN starts = 1..Len(starts) /\ DOMAIN starts' = 1..(Len(starts) + 1) /\ Len(starts) \in Nat
    BY <1>2, InsertedLast
  <2> QED BY <1>1, <2>1
<1>4. starts'[i].kind = tx[t].kind
  <2>1. starts'[i] =
          [kind |-> tx[t].kind, rows |-> UsageRows(t), open |-> tx[t].kind # "claim", free |-> tx[t].free]
    BY <1>2, <1>3, InsertedLast
  <2> QED BY <2>1
<1> QED BY <1>2, <1>4

-------------------------------------------------------------------------------
(* The locks, and what is true under them.                                  *)

\* A lock is taken when it is free and given back at the end.
LEMMA LockedStep == TypeOK /\ Locked /\ [Next]_vars => Locked'
<1> SUFFICES ASSUME TypeOK, Locked, [Next]_vars, NEW u \in Txs PROVE HoldsLocks(u)'
  BY DEF Locked
<1> USE DEF HoldsLocks, Mock
<1>0. HoldsLocks(u)
  BY DEF Locked
<1>a. ASSUME NEW t \in Txs, Done(t) PROVE HoldsLocks(u)'
  <2>1. CASE u = t BY <1>a, <2>1 DEF Done, TypeOK, Idle
  <2>2. CASE u # t BY <1>a, <1>0, <2>2 DEF Done, TypeOK
  <2> QED BY <2>1, <2>2
<1>1. ASSUME NEW t \in Txs, NEW k \in Kinds, NEW again \in BOOLEAN, Begin(t, k, again)
      PROVE  HoldsLocks(u)'
  BY <1>0, <1>1 DEF Begin, TypeOK, locks
<1>2. ASSUME NEW t \in Txs, FindInProgress(t), ~Done(t) PROVE HoldsLocks(u)'
  <2>1. /\ tx[t].at = "beginning" /\ tx[t].kind \in Materials
        /\ tx' = [tx EXCEPT ![t].at = Consuming] /\ UNCHANGED locks
    BY <1>2 DEF FindInProgress, At, Goto, Practice
  <2> QED BY <1>0, <2>1, FreeUsageAssumption DEF Consuming, TypeOK, locks
<1>3. ASSUME NEW t \in Txs, LockMock(t), ~Done(t) PROVE HoldsLocks(u)'
  <2>1. /\ tx[t].at = "beginning" /\ mockLock = None /\ mockLock' = t
        /\ tx' = [tx EXCEPT ![t].at = Consuming] /\ UNCHANGED userLock
    BY <1>3 DEF LockMock, MockFree, At, Goto
  <2> QED BY <1>0, <2>1, FreeUsageAssumption DEF Consuming, TypeOK
<1>4. ASSUME NEW t \in Txs, BeginClaim(t) PROVE HoldsLocks(u)'
  BY <1>0, <1>4 DEF BeginClaim, At, Goto, Consuming, TypeOK, locks
<1>5. ASSUME NEW t \in Txs, LockUser(t) PROVE HoldsLocks(u)'
  BY <1>0, <1>5, FreeUsageAssumption DEF LockUser, UserFree, At, Goto, TypeOK
<1>6. ASSUME NEW t \in Txs, RecheckPractice(t), ~Done(t) PROVE HoldsLocks(u)'
  <2>1. tx[t].at = "holding" /\ tx' = [tx EXCEPT ![t].at = "consuming"] /\ UNCHANGED locks
    BY <1>6 DEF RecheckPractice, At, Goto
  <2> QED BY <1>0, <2>1 DEF TypeOK, locks
<1>7. ASSUME NEW t \in Txs, ConsumeTx(t), ~Done(t) PROVE HoldsLocks(u)'
  <2>1. /\ tx[t].at = "consuming" /\ UNCHANGED locks
        /\ tx' = [tx EXCEPT ![t].at = "inserting", ![t].free = Charged(t)]
    BY <1>7 DEF ConsumeTx, At
  <2>2. CASE u = t
    <3>1. tx'[u].at = "inserting" /\ tx'[u].kind = tx[u].kind
      BY <2>1, <2>2 DEF TypeOK, TxState, Idle
    <3> QED BY <1>0, <2>1, <2>2, <3>1 DEF locks
  <2>3. CASE u # t
    <3>1. tx'[u] = tx[u]
      BY <2>1, <2>3 DEF TypeOK
    <3> QED BY <1>0, <2>1, <3>1 DEF locks
  <2> QED BY <2>2, <2>3
<1>8. ASSUME NEW t \in Txs, Insert(t) \/ Abort(t) PROVE HoldsLocks(u)'
  BY <1>8, <1>a DEF Insert, Abort
<1>9. ASSUME NEW i \in DOMAIN starts, Close(i) PROVE HoldsLocks(u)'
  BY <1>0, <1>9 DEF Close, locks
<1>10. CASE ChangeAccess
  BY <1>0, <1>10 DEF ChangeAccess, locks
<1>11. ASSUME NEW s \in Skills, NEW n \in Limits, UpdateSettings(s, n) PROVE HoldsLocks(u)'
  BY <1>0, <1>11 DEF UpdateSettings, locks
<1>12. CASE UNCHANGED vars
  BY <1>0, <1>12 DEF vars
<1> QED
  BY <1>a, <1>1, <1>2, <1>3, <1>4, <1>5, <1>6, <1>7, <1>8, <1>9, <1>10, <1>11, <1>12 DEF Next, Proceed
\* A transaction that goes on is still for the same.
LEMMA StillTheSame ==
  ASSUME TypeOK, NEW u \in Txs, NEW at, Goto(u, at)
  PROVE  tx'[u].at = at /\ tx'[u].kind = tx[u].kind /\ tx'[u].restart = tx[u].restart
<1>1. tx[u] \in TxState /\ tx'[u] = [tx[u] EXCEPT !.at = at]
  BY DEF TypeOK, Goto
<1> QED BY <1>1 DEF TxState, Idle

\* A transaction that is admitted is still for the same, and inserts next.
LEMMA GoesOnToInsert ==
  ASSUME TypeOK, NEW u \in Txs, ConsumeTx(u), ~Done(u)
  PROVE  /\ tx[u].at = "consuming" /\ tx'[u].at = "inserting"
         /\ tx'[u].kind = tx[u].kind /\ tx'[u].restart = tx[u].restart
         /\ tx'[u].free = Charged(u)
         /\ starts' = starts /\ highest' = highest
<1>1. /\ tx[u] \in TxState /\ tx[u].at = "consuming"
      /\ tx'[u] = [tx[u] EXCEPT !.at = "inserting", !.free = Charged(u)]
      /\ starts' = starts /\ highest' = highest
  BY DEF TypeOK, ConsumeTx, At
<1> DEFINE R == [kind : Kinds, at : {"consuming", "inserting"}, free : BOOLEAN, restart : BOOLEAN]
<1>2. tx[u] \in R
  BY <1>1 DEF TxState, Idle
<1>3. Charged(u) \in BOOLEAN
  BY DEF Charged
<1>4. ASSUME NEW x \in R, NEW b \in BOOLEAN, NEW y, y = [[x EXCEPT !.at = "inserting"] EXCEPT !.free = b]
      PROVE  y.at = "inserting" /\ y.kind = x.kind /\ y.restart = x.restart /\ y.free = b
  BY <1>4
<1> QED BY <1>1, <1>2, <1>3, <1>4

\* No other transaction starts the material that CreatePractice found free.
LEMMA MaterialStep == IInv /\ [Next]_vars => AloneOnMaterial'
<1> SUFFICES ASSUME IInv, [Next]_vars, Paywall, NEW u \in Txs, NEW m \in Materials, tx'[u].kind = m,
                    tx'[u].at \in {"consuming", "inserting"}
             PROVE  OpenOf(m)' = {}
  BY DEF AloneOnMaterial, Practice
<1> USE DEF IInv
<1>1. CASE tx'[u] = tx[u]
  <2>1. OpenOf(m) = {} /\ userLock = u
    BY <1>1 DEF AloneOnMaterial, Practice, Locked, HoldsLocks
  <2>2. ASSUME NEW t \in Txs, Insert(t) PROVE tx[t].kind # m
    <3>1. t # u
      BY <1>1, <2>2 DEF Insert, Done, TypeOK, Idle, At
    <3>2. userLock = t
      BY <2>2 DEF Insert, At, Locked, HoldsLocks
    <3> QED BY <2>1, <3>1, <3>2
  <2> QED BY <2>1, <2>2, OnlyInsertOpens
<1>2. CASE tx'[u] # tx[u]
  <2>1. OpenOf(m) = {} /\ starts' = starts
    <3>1. (\E k \in Kinds, again \in BOOLEAN : Begin(u, k, again)) \/ Proceed(u) \/ Abort(u)
      BY <1>2, Owner
    <3>2. ~Done(u)
      BY DEF Done, TypeOK, Idle
    <3>3. ~(\E k \in Kinds, again \in BOOLEAN : Begin(u, k, again)) /\ ~Abort(u) /\ ~Insert(u)
      BY <3>2 DEF Begin, Abort, Insert, TypeOK
    <3>4. ~FindInProgress(u) /\ ~LockMock(u) /\ ~BeginClaim(u) /\ ~LockUser(u)
      <4>1. ASSUME NEW at \in {"waiting", "holding"}, Goto(u, at) PROVE FALSE
        BY <4>1, StillTheSame
      <4>2. Consuming = "waiting"
        BY DEF Consuming
      <4> QED BY <3>2, <4>1, <4>2 DEF FindInProgress, LockMock, BeginClaim, LockUser
    <3>5. CASE RecheckPractice(u)
      <4>1. Goto(u, "consuming") /\ ~Resumes(u) /\ starts' = starts
        BY <3>2, <3>5 DEF RecheckPractice
      <4>2. tx[u].kind = m
        BY <4>1, StillTheSame
      <4> QED BY <4>1, <4>2 DEF Resumes, Practice
    <3>6. CASE ConsumeTx(u)
      BY <3>2, <3>6, GoesOnToInsert DEF AloneOnMaterial, Practice
    <3> QED BY <3>1, <3>3, <3>4, <3>5, <3>6 DEF Proceed
  <2> QED BY <2>1 DEF OpenOf
<1> QED BY <1>1, <1>2

\* No other transaction starts a mock beside the one that found none under way.
LEMMA MockStep == IInv /\ [Next]_vars => AloneOnMock'
<1> SUFFICES ASSUME IInv, [Next]_vars, NEW u \in Txs, Mock(u)', tx'[u].at \notin {"idle", "beginning"},
                    ~tx'[u].restart
             PROVE  OpenOf("mock")' = {}
  BY DEF AloneOnMock
<1> USE DEF IInv, Mock
<1>1. CASE tx'[u] = tx[u]
  <2>1. OpenOf("mock") = {} /\ mockLock = u
    BY <1>1 DEF AloneOnMock, Locked, HoldsLocks
  <2>2. ASSUME NEW t \in Txs, Insert(t) PROVE tx[t].kind # "mock"
    <3>1. t # u
      BY <1>1, <2>2 DEF Insert, Done, TypeOK, Idle, At
    <3>2. tx[t].kind = "mock" => mockLock = t
      BY <2>2 DEF Insert, At, Locked, HoldsLocks
    <3> QED BY <2>1, <3>1, <3>2
  <2> QED BY <2>1, <2>2, OnlyInsertOpens
<1>2. CASE tx'[u] # tx[u]
  <2>1. OpenOf("mock") = {} /\ starts' = starts
    <3>1. (\E k \in Kinds, again \in BOOLEAN : Begin(u, k, again)) \/ Proceed(u) \/ Abort(u)
      BY <1>2, Owner
    <3>2. ~Done(u)
      BY DEF Done, TypeOK, Idle
    <3>3. ~(\E k \in Kinds, again \in BOOLEAN : Begin(u, k, again)) /\ ~Abort(u) /\ ~Insert(u)
      BY <3>2 DEF Begin, Abort, Insert, TypeOK
    <3>4. ~FindInProgress(u) /\ ~BeginClaim(u)
      <4>1. Goto(u, Consuming) => tx[u].kind = "mock"
        BY StillTheSame
      <4> QED BY <3>2, <4>1, FreeUsageAssumption DEF FindInProgress, BeginClaim, Practice
    <3>5. CASE LockMock(u)
      <4>1. /\ Goto(u, Consuming) /\ starts' = starts
            /\ OpenOf("mock") = {} \/ tx[u].restart
        BY <3>2, <3>5 DEF LockMock
      <4>2. ~tx[u].restart
        BY <4>1, StillTheSame
      <4> QED BY <4>1, <4>2
    <3>6. CASE LockUser(u) \/ RecheckPractice(u)
      <4>1. PICK at : Goto(u, at)
        BY <3>2, <3>6 DEF LockUser, RecheckPractice
      <4>2. tx[u].kind = "mock" /\ ~tx[u].restart
        BY <4>1, StillTheSame
      <4>3. tx[u].at \in {"waiting", "holding"} /\ starts' = starts
        BY <3>6 DEF LockUser, RecheckPractice, At
      <4> QED BY <4>2, <4>3 DEF AloneOnMock
    <3>7. CASE ConsumeTx(u)
      BY <3>2, <3>7, GoesOnToInsert DEF AloneOnMock
    <3> QED BY <3>1, <3>3, <3>4, <3>5, <3>6, <3>7 DEF Proceed
  <2> QED BY <2>1 DEF OpenOf
<1> QED BY <1>1, <1>2

-------------------------------------------------------------------------------
(* The quota.                                                               *)

\* The rows of a skill can be counted.
LEMMA Countable ==
  ASSUME TypeOK, NEW S \in SUBSET DOMAIN starts
  PROVE  IsFiniteSet(S) /\ Cardinality(S) \in Nat
<1>1. DOMAIN starts = 1..Len(starts) /\ Len(starts) \in Nat
  BY DEF TypeOK
<1>2. IsFiniteSet(DOMAIN starts)
  BY <1>1, FS_Interval
<1> QED BY <1>2, FS_Subset, FS_CardinalityType

\* A limit that has been raised stays on record.
LEMMA LimitStep == IInv /\ [Next]_vars => LimitKnown' /\ \A s \in Skills : highest[s] <= highest'[s]
<1> SUFFICES ASSUME IInv, [Next]_vars, NEW s \in Skills
             PROVE  limit'[s] <= highest'[s] /\ highest[s] <= highest'[s]
  BY DEF LimitKnown
<1>1. limit[s] \in Nat /\ highest[s] \in Nat /\ limit[s] <= highest[s]
  BY FreeUsageAssumption DEF IInv, TypeOK, LimitKnown
<1>2. ASSUME NEW r \in Skills, NEW n \in Limits, UpdateSettings(r, n)
      PROVE  limit'[s] <= highest'[s] /\ highest[s] <= highest'[s]
  <2>1. n \in Nat
    BY FreeUsageAssumption
  <2> QED BY <1>1, <1>2, <2>1 DEF UpdateSettings, IInv, TypeOK
<1>3. CASE UNCHANGED <<limit, highest>>
  BY <1>1, <1>3
<1> QED
  BY <1>2, <1>3 DEF Next, Begin, Proceed, FindInProgress, LockMock, BeginClaim, LockUser,
     RecheckPractice, ConsumeTx, Insert, Abort, Close, ChangeAccess, vars

\* The rows of a start are the skills it is for, if it is charged.
LEMMA ChargeStep == IInv /\ [Next]_vars => ChargedInFull'
<1> SUFFICES ASSUME IInv, [Next]_vars, NEW i \in DOMAIN starts'
             PROVE  starts'[i].rows = IF starts'[i].free THEN SkillsOf(starts'[i].kind) ELSE {}
  BY DEF ChargedInFull, SkillsOf
<1>1. CASE i \in DOMAIN starts
  BY <1>1, StartsStay DEF IInv, ChargedInFull
<1>2. CASE i \notin DOMAIN starts
  <2>1. PICK t \in Txs : Insert(t)
    BY <1>2, OnlyInsertAdds DEF IInv
  <2>2. i = Len(starts) + 1
    <3>1. DOMAIN starts = 1..Len(starts) /\ DOMAIN starts' = 1..(Len(starts) + 1) /\ Len(starts) \in Nat
      BY <2>1, InsertedLast DEF IInv
    <3> QED BY <1>2, <3>1
  <2>3. starts'[i] =
          [kind |-> tx[t].kind, rows |-> UsageRows(t), open |-> tx[t].kind # "claim", free |-> tx[t].free]
    BY <2>1, <2>2, InsertedLast DEF IInv
  <2> QED BY <2>3 DEF UsageRows
<1> QED BY <1>1, <1>2
\* The free starts of a skill, claims apart.
FreeOf(s) ==
  {i \in DOMAIN starts : starts[i].free /\ starts[i].kind # "claim" /\ s \in SkillsOf(starts[i].kind)}

\* Every one of them has its row.
LEMMA FreeIsUsed ==
  ASSUME TypeOK, ChargedInFull, NEW s
  PROVE  Cardinality(FreeOf(s)) \in Nat /\ Used(s) \in Nat /\ Cardinality(FreeOf(s)) <= Used(s)
<1> DEFINE U == {i \in DOMAIN starts : s \in starts[i].rows}
<1>1. FreeOf(s) \subseteq U
  BY DEF FreeOf, ChargedInFull
<1>2. IsFiniteSet(U) /\ Cardinality(U) \in Nat /\ Cardinality(FreeOf(s)) \in Nat
  BY Countable DEF FreeOf
<1>3. Cardinality(FreeOf(s)) <= Cardinality(U)
  BY <1>1, <1>2, FS_Subset
<1> QED BY <1>2, <1>3 DEF Used

\* Without an insertion the counts stay.
LEMMA CountsStay ==
  ASSUME TypeOK, [Next]_vars, ~ \E t \in Txs : Insert(t), NEW s
  PROVE  Used(s)' = Used(s) /\ FreeOf(s)' = FreeOf(s)
<1>1. DOMAIN starts' = DOMAIN starts
  BY OnlyInsertAdds
<1>2. \A i \in DOMAIN starts :
        starts'[i].kind = starts[i].kind /\ starts'[i].rows = starts[i].rows /\ starts'[i].free = starts[i].free
  BY StartsStay
<1>3. {i \in DOMAIN starts' : s \in starts'[i].rows} = {i \in DOMAIN starts : s \in starts[i].rows}
  BY <1>1, <1>2
<1>4. FreeOf(s)' = FreeOf(s)
  BY <1>1, <1>2 DEF FreeOf, SkillsOf
<1> QED BY <1>3, <1>4 DEF Used

\* Between the count and the insertion nobody else takes a free start.
LEMMA StartStep == IInv /\ [Next]_vars => StartLeft'
<1> SUFFICES ASSUME IInv, [Next]_vars, NEW u \in Txs, tx'[u].at = "inserting", tx'[u].free,
                    tx'[u].kind # "claim", NEW s \in SkillsOf(tx'[u].kind)
             PROVE  Used(s)' < highest'[s]
  BY DEF StartLeft, SkillsOf
<1> USE DEF IInv
<1>1. /\ ~ \E t \in Txs : Insert(t)
      /\ tx[u].kind = tx'[u].kind
      /\ s \in Skills
      /\ Used(s) < highest[s]
  <2>1. CASE tx'[u] = tx[u]
    <3>1. Paywall /\ userLock = u
      BY <2>1 DEF Locked, HoldsLocks
    <3>2. ASSUME NEW t \in Txs, Insert(t) PROVE FALSE
      <4>1. userLock = t
        BY <3>1, <3>2 DEF Insert, At, Locked, HoldsLocks
      <4> QED BY <2>1, <3>1, <3>2, <4>1 DEF Insert, Done, TypeOK, Idle
    <3>3. tx[u].kind \in Kinds
      BY <2>1 DEF TypeOK, TxState, Idle
    <3> QED BY <2>1, <3>2, <3>3, SkillsAre DEF StartLeft
  <2>2. CASE tx'[u] # tx[u]
    <3>1. (\E k \in Kinds, again \in BOOLEAN : Begin(u, k, again)) \/ Proceed(u) \/ Abort(u)
      BY <2>2, Owner
    <3>2. ~Done(u)
      BY DEF Done, TypeOK, Idle
    <3>3. ~(\E k \in Kinds, again \in BOOLEAN : Begin(u, k, again)) /\ ~Abort(u) /\ ~Insert(u)
      BY <3>2 DEF Begin, Abort, Insert, TypeOK
    <3>4. tx[u].at # "inserting" => ~tx[u].free
      BY DEF Locked, HoldsLocks
    <3>5. ASSUME NEW at, Goto(u, at) PROVE tx'[u].free = tx[u].free /\ tx'[u].at = at
      <4>1. tx[u] \in TxState /\ tx'[u] = [tx[u] EXCEPT !.at = at]
        BY <3>5 DEF TypeOK, Goto
      <4> QED BY <4>1 DEF TxState, Idle
    <3>6. ~FindInProgress(u) /\ ~LockMock(u) /\ ~BeginClaim(u) /\ ~LockUser(u) /\ ~RecheckPractice(u)
      BY <3>2, <3>4, <3>5 DEF FindInProgress, LockMock, BeginClaim, LockUser, RecheckPractice, At
    <3>7. ConsumeTx(u)
      BY <3>1, <3>3, <3>6 DEF Proceed
    <3>8. tx'[u].kind = tx[u].kind /\ Charged(u) /\ tx[u].at = "consuming" /\ tx[u].kind \in Kinds
      BY <3>2, <3>7, GoesOnToInsert DEF TypeOK, TxState, Idle
    <3>9. Within(tx[u].kind)
      BY <3>2, <3>7, <3>8 DEF ConsumeTx
    <3>10. s \in Skills /\ Used(s) < limit[s]
      BY <3>8, <3>9, SkillsAre DEF Within
    <3>11. Used(s) \in Nat /\ limit[s] \in Nat /\ highest[s] \in Nat /\ limit[s] <= highest[s]
      BY <3>10, FreeIsUsed, FreeUsageAssumption DEF TypeOK, LimitKnown
    <3>12. ASSUME NEW t \in Txs, Insert(t) PROVE FALSE
      <4>1. t # u
        BY <3>3, <3>12
      <4> QED BY <2>2, <3>12, <4>1 DEF Insert, Done, TypeOK
    <3> QED BY <3>8, <3>10, <3>11, <3>12
  <2> QED BY <2>1, <2>2
<1>2. Used(s) \in Nat /\ highest[s] \in Nat /\ highest'[s] \in Nat /\ highest[s] <= highest'[s]
  <2>1. TypeOK'
    BY TypeStep
  <2> QED BY <1>1, <2>1, FreeIsUsed, LimitStep, FreeUsageAssumption DEF TypeOK
<1>3. Used(s)' = Used(s)
  BY <1>1, CountsStay
<1> QED BY <1>1, <1>2, <1>3

\* A free start is inserted only while one is left.
LEMMA QuotaStep == IInv /\ [Next]_vars => QuotaKept'
<1> SUFFICES ASSUME IInv, [Next]_vars, NEW s \in Skills PROVE Cardinality(FreeOf(s)') <= highest'[s]
  BY DEF QuotaKept, FreeOf
<1> USE DEF IInv
<1>1. /\ Cardinality(FreeOf(s)) \in Nat /\ Used(s) \in Nat /\ Cardinality(FreeOf(s)) <= Used(s)
      /\ highest[s] \in Nat /\ highest'[s] \in Nat /\ highest[s] <= highest'[s]
      /\ Cardinality(FreeOf(s)) <= highest[s]
  <2>1. TypeOK'
    BY TypeStep
  <2>2. Cardinality(FreeOf(s)) <= highest[s]
    BY DEF QuotaKept, FreeOf
  <2> QED BY <2>1, <2>2, FreeIsUsed, LimitStep, FreeUsageAssumption DEF TypeOK
<1>2. CASE ~ \E t \in Txs : Insert(t)
  BY <1>1, <1>2, CountsStay
<1>3. ASSUME NEW t \in Txs, Insert(t) PROVE Cardinality(FreeOf(s)') <= highest'[s]
  <2> DEFINE last == Len(starts) + 1
  <2>1. /\ DOMAIN starts = 1..Len(starts) /\ DOMAIN starts' = 1..last /\ Len(starts) \in Nat
        /\ starts'[last] =
             [kind |-> tx[t].kind, rows |-> UsageRows(t), open |-> tx[t].kind # "claim", free |-> tx[t].free]
    BY <1>3, InsertedLast
  <2>2. \A i \in DOMAIN starts : starts'[i].kind = starts[i].kind /\ starts'[i].free = starts[i].free
    BY StartsStay
  <2>3. last \notin DOMAIN starts /\ DOMAIN starts' = DOMAIN starts \cup {last}
    BY <2>1
  <2>4. starts'[last].kind = tx[t].kind /\ starts'[last].free = tx[t].free
    BY <2>1
  <2> HIDE DEF last
  <2>5. CASE tx[t].free /\ tx[t].kind # "claim" /\ s \in SkillsOf(tx[t].kind)
    <3>1. FreeOf(s)' = FreeOf(s) \cup {last}
      BY <2>2, <2>3, <2>4, <2>5 DEF FreeOf, SkillsOf
    <3>2. last \notin FreeOf(s) /\ IsFiniteSet(FreeOf(s))
      BY <2>3, Countable DEF FreeOf
    <3>3. Cardinality(FreeOf(s)') = Cardinality(FreeOf(s)) + 1
      BY <3>1, <3>2, FS_AddElement
    <3>4. Used(s) < highest[s]
      BY <1>3, <2>5 DEF Insert, At, StartLeft
    <3> QED BY <1>1, <3>3, <3>4
  <2>6. CASE ~(tx[t].free /\ tx[t].kind # "claim" /\ s \in SkillsOf(tx[t].kind))
    <3>1. FreeOf(s)' = FreeOf(s)
      BY <2>2, <2>3, <2>4, <2>6 DEF FreeOf, SkillsOf
    <3> QED BY <1>1, <3>1
  <2> QED BY <2>5, <2>6
<1> QED BY <1>2, <1>3

-------------------------------------------------------------------------------
(* Theorems.                                                                *)

\* The inductive invariant holds at first.
LEMMA IInvInit == Init => IInv
<1> SUFFICES ASSUME Init PROVE IInv
  OBVIOUS
<1>1. starts = <<>> /\ DOMAIN starts = {}
  BY DEF Init
<1>2. TypeOK
  BY TypeInit
<1>3. Locked /\ AloneOnMaterial /\ AloneOnMock /\ StartLeft
  BY DEF Init, Idle, Locked, HoldsLocks, AloneOnMaterial, AloneOnMock, StartLeft
<1>4. LimitKnown
  <2>1. \A s \in Skills : highest[s] \in Nat /\ limit[s] = highest[s]
    BY <1>2, FreeUsageAssumption DEF Init, TypeOK
  <2> QED BY <2>1 DEF LimitKnown
<1>5. ChargedInFull
  BY <1>1 DEF ChargedInFull
<1>6. QuotaKept
  <2>1. ASSUME NEW s \in Skills PROVE Cardinality(FreeOf(s)) <= highest[s]
    <3>1. FreeOf(s) = {}
      BY <1>1 DEF FreeOf
    <3>2. highest[s] \in Nat
      BY <1>2, FreeUsageAssumption DEF TypeOK
    <3> QED BY <3>1, <3>2, FS_EmptySet
  <2> QED BY <2>1 DEF QuotaKept, FreeOf
<1> QED BY <1>2, <1>3, <1>4, <1>5, <1>6 DEF IInv

\* The invariant is inductive.
LEMMA IInvStep == IInv /\ [Next]_vars => IInv'
<1>1. IInv /\ [Next]_vars => TypeOK' /\ Locked'
  BY TypeStep, LockedStep DEF IInv
<1> QED BY <1>1, MaterialStep, MockStep, StartStep, LimitStep, ChargeStep, QuotaStep DEF IInv

\* The invariant holds in every reachable state.
LEMMA Invariance == Spec => []IInv
BY IInvInit, IInvStep, PTL DEF Spec

\* However many practice attempts and mocks are started at once, while limits and paid
\* access change, a skill gives no more free starts than its limit has ever allowed.
THEOREM QuotaIsKept == Spec => []QuotaKept
<1>1. IInv => QuotaKept
  BY DEF IInv
<1> QED BY <1>1, Invariance, PTL

\* Each start is on record with the rows of all its skills or, if it is not free, with
\* none.
THEOREM StartsAreCharged == Spec => []ChargedInFull
<1>1. IInv => ChargedInFull
  BY DEF IInv
<1> QED BY <1>1, Invariance, PTL

\* No tab is turned away by the unique index on mocks under way.
THEOREM NoneTurnedAway == Spec => []NeverCollides
<1>1. IInv => NeverCollides
  BY DEF IInv, AloneOnMock, NeverCollides, Collides, At
<1> QED BY <1>1, Invariance, PTL

\* With the paywall a material is practised in one attempt at a time: no second one is
\* open when CreatePractice inserts.
AtMostOneOpen == Paywall => OnePractice

\* A step keeps it: what is inserted is alone.
LEMMA OpenStep == IInv /\ AtMostOneOpen /\ [Next]_vars => AtMostOneOpen'
<1> SUFFICES ASSUME IInv, OnePractice, Paywall, [Next]_vars, NEW m \in Materials,
                    NEW i \in OpenOf(m)', NEW j \in OpenOf(m)'
             PROVE  i = j
  BY DEF AtMostOneOpen, OnePractice, OpenOf
<1> USE DEF IInv
<1>1. ASSUME NEW k \in OpenOf(m)', k \in DOMAIN starts PROVE k \in OpenOf(m)
  BY <1>1, StartsStay DEF OpenOf
<1>2. CASE ~ \E t \in Txs : Insert(t)
  <2>1. i \in DOMAIN starts /\ j \in DOMAIN starts
    BY <1>2, OnlyInsertAdds DEF OpenOf
  <2> QED BY <1>1, <2>1 DEF OnePractice, OpenOf
<1>3. ASSUME NEW t \in Txs, Insert(t) PROVE i = j
  <2> DEFINE last == Len(starts) + 1
  <2>1. /\ DOMAIN starts = 1..Len(starts) /\ DOMAIN starts' = 1..last /\ Len(starts) \in Nat
        /\ starts'[last] =
             [kind |-> tx[t].kind, rows |-> UsageRows(t), open |-> tx[t].kind # "claim", free |-> tx[t].free]
    BY <1>3, InsertedLast
  <2>2. i \in DOMAIN starts \cup {last} /\ j \in DOMAIN starts \cup {last}
    BY <2>1 DEF OpenOf
  <2>3. CASE tx[t].kind = m
    <3>1. OpenOf(m) = {}
      BY <1>3, <2>3 DEF AloneOnMaterial, Practice, Insert, At
    <3> QED BY <1>1, <2>2, <3>1
  <2>4. CASE tx[t].kind # m
    <3>1. starts'[last].kind # m
      BY <2>1, <2>4
    <3>2. i \in DOMAIN starts /\ j \in DOMAIN starts
      BY <2>2, <3>1 DEF OpenOf
    <3> QED BY <1>1, <3>2 DEF OnePractice, OpenOf
  <2> QED BY <2>3, <2>4
<1> QED BY <1>2, <1>3

\* Two tabs that start one material get one attempt.
THEOREM OneAttemptPerMaterial == ASSUME Paywall PROVE Spec => []OnePractice
<1>1. Init => AtMostOneOpen
  BY DEF Init, AtMostOneOpen, OnePractice, OpenOf
<1>2. AtMostOneOpen => OnePractice
  BY DEF AtMostOneOpen
<1> QED BY <1>1, <1>2, OpenStep, Invariance, PTL DEF Spec

\* What is counted against a quota is what was started, no more and no less.
THEOREM QuotasAreKept == Spec => []QuotasHold
<1> QED BY TypeCorrect, QuotaIsKept, StartsAreCharged, PTL DEF QuotasHold

\* The tabs of a student share one attempt of a material and one mock.
THEOREM TabsShare == ASSUME Paywall PROVE Spec => []OneAtATime
<1> QED BY NoneTurnedAway, OneAttemptPerMaterial, PTL DEF OneAtATime

===============================================================================
