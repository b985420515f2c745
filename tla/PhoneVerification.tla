--------------------------- MODULE PhoneVerification ---------------------------
(***************************************************************************)
(* internal/phoneverification: codes sent to a phone, and the token a      *)
(* confirmed one is worth, which internal/auth spends on a registration.   *)
(*                                                                         *)
(* Several requests confirm one challenge at a time.  A guess is one       *)
(* statement when it is right and two when it is wrong, with other guesses *)
(* in between.  A registration holds the row of the challenge until its    *)
(* transaction ends.                                                       *)
(***************************************************************************)
EXTENDS Naturals, Sequences, FiniteSets

CONSTANTS
  Guessers,       \* requests that confirm a code
  Registrations,  \* requests that spend a token
  CodeTries,      \* max_attempts of a challenge
  MaxChallenges,  \* bound on challenges
  MaxLost         \* bound on requests that die

ASSUME PhoneAssumption ==
  IsFiniteSet(Guessers) /\ CodeTries \in Nat \ {0} /\ {MaxChallenges, MaxLost} \subseteq Nat

VARIABLES
  challenges,     \* phone_verifications of a phone, in order of creation
  cooling,        \* the resend interval of the newest one is not over
  guess,          \* what each request is confirming
  spender,        \* the registration that holds each row FOR UPDATE, if any
  compared,       \* history: guesses that were compared with the code of each
  lost,           \* history: guesses that were compared and never recorded
  paid            \* history: registrations each has paid for

phoneVars == <<challenges, cooling, guess, spender, compared, lost, paid>>

Challenge ==
  [tries : Nat, lives : BOOLEAN, verified : BOOLEAN, token : BOOLEAN, consumed : BOOLEAN]

NoGuess == [of |-> 0, at |-> "idle"]

PhoneTypeOK ==
  /\ challenges \in Seq(Challenge)
  /\ cooling \in BOOLEAN
  /\ guess \in [Guessers -> [of : 0..MaxChallenges, at : {"idle", "comparing", "recording"}]]
  /\ spender \in [1..MaxChallenges -> SUBSET Registrations]
  /\ {compared, paid} \subseteq [1..MaxChallenges -> Nat]

PhoneInit ==
  /\ challenges = <<>>
  /\ cooling = FALSE
  /\ guess = [g \in Guessers |-> NoGuess]
  /\ spender = [c \in 1..MaxChallenges |-> {}]
  /\ compared = [c \in 1..MaxChallenges |-> 0]
  /\ lost = 0
  /\ paid = [c \in 1..MaxChallenges |-> 0]

\* Faulty variants.
AnyTries(c) == challenges[c].lives /\ ~challenges[c].verified /\ ~challenges[c].consumed

SharedRow(c) == TRUE

\* Service.Send and CreateChallenge: the advisory lock of the phone and purpose makes
\* reading the newest and inserting one step.  Delivery may fail after it.
Send ==
  /\ ~cooling
  /\ Len(challenges) < MaxChallenges
  /\ challenges' = Append(challenges,
       [tries |-> 0, lives |-> TRUE, verified |-> FALSE, token |-> FALSE, consumed |-> FALSE])
  /\ cooling' = TRUE
  /\ UNCHANGED <<guess, spender, compared, lost, paid>>

IntervalPasses == cooling /\ cooling' = FALSE /\ UNCHANGED <<challenges, guess, spender, compared, lost, paid>>

\* The WHERE of both statements of VerifyChallenge; they wait for a row that is held.
Open(c) ==
  /\ challenges[c].lives /\ ~challenges[c].verified /\ ~challenges[c].consumed
  /\ challenges[c].tries < CodeTries

Confirm(g, c) ==
  /\ guess[g] = NoGuess
  /\ guess' = [guess EXCEPT ![g] = [of |-> c, at |-> "comparing"]]
  /\ UNCHANGED <<challenges, cooling, spender, compared, lost, paid>>

\* VerifyChallenge, with the right code.
VerifyRight(g) ==
  /\ guess[g].at = "comparing"
  /\ LET c == guess[g].of IN
       /\ Open(c)
       /\ challenges' = [challenges EXCEPT ![c].tries = @ + 1, ![c].verified = TRUE, ![c].token = TRUE]
       /\ compared' = [compared EXCEPT ![c] = @ + 1]
  /\ guess' = [guess EXCEPT ![g] = NoGuess]
  /\ UNCHANGED <<cooling, spender, lost, paid>>

\* With a wrong code, or one that is too late: the statement finds no row.
VerifyWrong(g) ==
  /\ guess[g].at = "comparing"
  /\ compared' = IF Open(guess[g].of) THEN [compared EXCEPT ![guess[g].of] = @ + 1] ELSE compared
  /\ guess' = [guess EXCEPT ![g].at = "recording"]
  /\ UNCHANGED <<challenges, cooling, spender, lost, paid>>

RecordTry(g) ==
  /\ guess[g].at = "recording"
  /\ LET c == guess[g].of IN
       challenges' = IF Open(c) THEN [challenges EXCEPT ![c].tries = @ + 1] ELSE challenges
  /\ guess' = [guess EXCEPT ![g] = NoGuess]
  /\ UNCHANGED <<cooling, spender, compared, lost, paid>>

\* The request dies between the two statements.
GuessAbort(g) ==
  /\ guess[g].at # "idle"
  /\ guess[g].at = "recording" => lost < MaxLost
  /\ lost' = IF guess[g].at = "recording" THEN lost + 1 ELSE lost
  /\ guess' = [guess EXCEPT ![g] = NoGuess]
  /\ UNCHANGED <<challenges, cooling, spender, compared, paid>>

\* The code expires, or the token of a confirmed one.
Expire(c) ==
  /\ challenges[c].lives \/ challenges[c].token
  /\ challenges' = [challenges EXCEPT
       ![c].lives = FALSE, ![c].token = @ /\ challenges[c].lives]
  /\ UNCHANGED <<cooling, guess, spender, compared, lost, paid>>

\* CreateUser, CompleteWaitlistUser: SELECT ... FOR UPDATE looks at the row it has
\* locked, the same transaction consumes it, or undoes all of it.
Free(c) == spender[c] = {}

LockPhone(r, c) ==
  /\ \A d \in 1..MaxChallenges : r \notin spender[d]
  /\ Free(c)
  /\ challenges[c].verified /\ challenges[c].token /\ ~challenges[c].consumed
  /\ spender' = [spender EXCEPT ![c] = @ \cup {r}]
  /\ UNCHANGED <<challenges, cooling, guess, compared, lost, paid>>

Consume(r, c) ==
  /\ r \in spender[c]
  /\ challenges' = [challenges EXCEPT ![c].consumed = TRUE]
  /\ spender' = [spender EXCEPT ![c] = @ \ {r}]
  /\ paid' = [paid EXCEPT ![c] = @ + 1]
  /\ UNCHANGED <<cooling, guess, compared, lost>>

\* The email or the phone is taken, the lead was completed by somebody else.
RefuseUser(r, c) ==
  /\ r \in spender[c]
  /\ spender' = [spender EXCEPT ![c] = @ \ {r}]
  /\ UNCHANGED <<challenges, cooling, guess, compared, lost, paid>>

PhoneNext ==
  \/ Send \/ IntervalPasses
  \/ \E g \in Guessers :
       \/ \E c \in DOMAIN challenges : Confirm(g, c)
       \/ VerifyRight(g) \/ VerifyWrong(g) \/ RecordTry(g) \/ GuessAbort(g)
  \/ \E c \in DOMAIN challenges :
       \/ Expire(c)
       \/ \E r \in Registrations : LockPhone(r, c) \/ Consume(r, c) \/ RefuseUser(r, c)

PhoneSpec == PhoneInit /\ [][PhoneNext]_phoneVars

-------------------------------------------------------------------------------
\* However requests interleave, a code is compared with at most as many guesses as it
\* has tries, one more for every other request that was comparing meanwhile, and those
\* whose request died before it recorded them.
GuessesBounded ==
  \A c \in DOMAIN challenges :
    /\ challenges[c].tries <= CodeTries
    /\ compared[c] <= CodeTries + Cardinality(Guessers) - 1 + lost

\* A confirmed phone pays for one registration, and is not confirmed twice.
PaysOnce ==
  \A c \in DOMAIN challenges :
    /\ paid[c] <= 1
    /\ paid[c] = 1 => challenges[c].consumed

\* Codes are guessed a bounded number of times and a confirmed phone pays once.
PhoneHolds == PhoneTypeOK /\ GuessesBounded /\ PaysOnce
===============================================================================
