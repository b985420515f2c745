---------------------------- MODULE ProviderBank ----------------------------
(***************************************************************************)
(* internal/aiproviders, as administrators edit it: the rows of            *)
(* ai_providers, each with a revision, and the row that holds the settings *)
(* of the provider of the environment.                                     *)
(*                                                                         *)
(* A request is two steps wherever the service reads the rows first and    *)
(* the repository writes them afterwards: other requests come in between.  *)
(***************************************************************************)
EXTENDS Naturals, FiniteSets

CONSTANTS
  Administrators, \* requests of administrators that run at the same time
  Slots,          \* the identifiers new providers get
  Env,            \* EnvProviderID
  MaxChain,       \* rows besides the settings of the environment's
  Levels,         \* priorities an administrator types in
  MaxSaves        \* bound on the revision of a row

ASSUME BankAssumption ==
  Env \notin Slots /\ {MaxChain, MaxSaves} \subseteq Nat /\ Levels \subseteq Nat

VARIABLES
  bank,     \* ai_providers
  minted,   \* identifiers that were given out
  console   \* the request of each administrator and the page it was made on

bankVars == <<bank, minted, console>>

Ids == Slots \cup {Env}

ProviderRow == [rev : Nat \ {0}, level : Nat]

\* No row: the page shows revision 0.
Absent == [rev |-> 0, level |-> 0]

AwayFromConsole == [at |-> "away", saw |-> [p \in Ids |-> 0], on |-> Env, to |-> [p \in Ids |-> 0]]

BankTypeOK ==
  /\ bank \in [Ids -> ProviderRow \cup {Absent}]
  /\ minted \subseteq Slots
  /\ console \in [Administrators ->
       [at : {"away", "page", "inserting", "updating", "ordering"},
        saw : [Ids -> Nat], on : Ids, to : [Ids -> Nat]]]

BankInit ==
  /\ bank = [p \in Ids |-> Absent]
  /\ minted = {}
  /\ console = [a \in Administrators |-> AwayFromConsole]

Revisions == [p \in Ids |-> bank[p].rev]

Present == {p \in Slots : bank[p] # Absent}

\* Faulty variants.
NoRecount == TRUE

NoRecheck(a) == TRUE

AnyRevision(a, p) == bank[p].rev > 0

\* Service.List, as the page shows it.
OpenPage(a) ==
  /\ console[a].at = "away"
  /\ console' = [console EXCEPT ![a] = [AwayFromConsole EXCEPT !.at = "page", !.saw = Revisions]]
  /\ UNCHANGED <<bank, minted>>

ClosePage(a) ==
  /\ console[a].at = "page"
  /\ console' = [console EXCEPT ![a] = AwayFromConsole]
  /\ UNCHANGED <<bank, minted>>

\* Service.Save of a new provider: the rows are counted, the identifier is made.
CreateAsked(a, p, level) ==
  /\ console[a].at = "page"
  /\ p \in Slots \ minted
  /\ Cardinality(Present) < MaxChain
  /\ minted' = minted \cup {p}
  /\ console' = [console EXCEPT ![a].at = "inserting", ![a].on = p, ![a].to[p] = level]
  /\ UNCHANGED bank

\* The recount of PostgresRepository.Save, under the advisory lock of the capacity.
RoomLeft == Cardinality(Present) < MaxChain

\* PostgresRepository.Save, create: the settings of the environment's do not count, and
\* a second insert of them is a conflict.
InsertProvider(a) ==
  LET p == console[a].on IN
  /\ console[a].at = "inserting"
  /\ bank' = IF (p = Env \/ RoomLeft) /\ bank[p] = Absent
             THEN [bank EXCEPT ![p] = [rev |-> 1, level |-> console[a].to[p]]]
             ELSE bank
  /\ console' = [console EXCEPT ![a] = AwayFromConsole]
  /\ UNCHANGED minted

\* Service.Save of a provider that exists: the row is read, its revision compared and,
\* when no key was typed, its key opened to be sealed again (which key a row holds is
\* left out: it changes with the row and under the same condition).
UpdateAsked(a, p, level) ==
  /\ console[a].at = "page"
  /\ p \in Present /\ bank[p].rev = console[a].saw[p]
  /\ console' = [console EXCEPT ![a].at = "updating", ![a].on = p, ![a].to[p] = level]
  /\ UNCHANGED <<bank, minted>>

\* Service.saveEnvironment, where the environment configures a provider: the settings
\* row is made by the first edit.
EnvironmentAsked(a, level) ==
  /\ console[a].at = "page"
  /\ bank[Env].rev = console[a].saw[Env]
  /\ console' = [console EXCEPT
       ![a].at = IF bank[Env] = Absent THEN "inserting" ELSE "updating",
       ![a].on = Env, ![a].to[Env] = level]
  /\ UNCHANGED <<bank, minted>>

\* The WHERE of the UPDATE and of the DELETE.
RowAsSeen(a, p) == bank[p].rev > 0 /\ bank[p].rev = console[a].saw[p]

\* PostgresRepository.Save of a row.
UpdateRow(a) ==
  LET p == console[a].on IN
  /\ console[a].at = "updating"
  /\ bank[p].rev < MaxSaves
  /\ bank' = IF RowAsSeen(a, p)
             THEN [bank EXCEPT ![p].rev = @ + 1, ![p].level = console[a].to[p]]
             ELSE bank
  /\ console' = [console EXCEPT ![a] = AwayFromConsole]
  /\ UNCHANGED minted

\* Service.Delete and PostgresRepository.Delete.
Delete(a, p) ==
  /\ console[a].at = "page"
  /\ p \in Slots /\ console[a].saw[p] > 0
  /\ bank' = IF RowAsSeen(a, p) THEN [bank EXCEPT ![p] = Absent] ELSE bank
  /\ console' = [console EXCEPT ![a] = AwayFromConsole]
  /\ UNCHANGED minted

Listed == Present \cup {Env}

\* Service.Reorder: the whole list, as the page showed it, in a new order.
OrderAsked(a, order) ==
  /\ console[a].at = "page"
  /\ Revisions = console[a].saw
  /\ order \in [Listed -> 1..Cardinality(Listed)]
  /\ \A p, q \in Listed : p # q => order[p] # order[q]
  /\ console' = [console EXCEPT
       ![a].at = "ordering", ![a].to = [p \in Ids |-> IF p \in Listed THEN order[p] ELSE 0]]
  /\ UNCHANGED <<bank, minted>>

\* The checks of PostgresRepository.reorder, with the table locked: every row of the
\* order as it was seen, no row the order does not name.
OrderFits(a) ==
  /\ \A p \in Ids : console[a].to[p] > 0 => bank[p].rev = console[a].saw[p]
  /\ \A p \in Present : console[a].to[p] > 0

\* PostgresRepository.reorder: every row of the order, or none.
Reorder(a) ==
  /\ console[a].at = "ordering"
  /\ \A p \in Ids : bank[p].rev < MaxSaves
  /\ bank' = IF OrderFits(a)
             THEN [p \in Ids |->
                     IF console[a].to[p] = 0 THEN bank[p]
                     ELSE [rev |-> bank[p].rev + 1, level |-> console[a].to[p]]]
             ELSE bank
  /\ console' = [console EXCEPT ![a] = AwayFromConsole]
  /\ UNCHANGED minted

BankNext ==
  \E a \in Administrators :
    \/ OpenPage(a) \/ ClosePage(a) \/ InsertProvider(a) \/ UpdateRow(a) \/ Reorder(a)
    \/ \E level \in Levels : EnvironmentAsked(a, level)
    \/ \E p \in Slots, level \in Levels : CreateAsked(a, p, level) \/ UpdateAsked(a, p, level)
    \/ \E p \in Slots : Delete(a, p)
    \/ \E order \in [Listed -> 1..Cardinality(Listed)] : OrderAsked(a, order)

BankSpec == BankInit /\ [][BankNext]_bankVars

-----------------------------------------------------------------------------

\* Two administrators who add a provider at once never bring the bank over what one
\* operation may try: both requests may count before either inserts.
BankBounded == Cardinality(Present) <= MaxChain

\* A change of the bank was made on a page that showed every row it changes, and an
\* order, which changes several, on a page that showed the whole bank: no edit made in
\* between is lost, and no order is applied in part.
ChangedAsSeen ==
  [][LET changed == {p \in Ids : bank'[p] # bank[p]} IN
     changed # {} =>
       \E a \in Administrators :
         /\ console[a].at # "away" /\ console'[a].at = "away"
         /\ \A p \in changed :
              \/ bank[p].rev = console[a].saw[p]
              \/ bank[p] = Absent /\ changed = {p}
         /\ console[a].at = "ordering" => Revisions = console[a].saw]_bankVars

\* The bank of providers stays within what an operation may try, and is changed as seen.
BankHolds == []BankTypeOK /\ []BankBounded /\ ChangedAsSeen
=============================================================================
