---------------------------- MODULE ProviderChain ----------------------------
(***************************************************************************)
(* internal/aiproviders.Execute, as internal/assistant.Stream uses it: one *)
(* operation goes to the providers of the bank one after the other, under  *)
(* one time budget, and what they write reaches the student through the    *)
(* stream gate.  The page of the student is part of the model.             *)
(*                                                                         *)
(* The bank an operation reads is any bank an administrator can have made; *)
(* it keeps that reading to its end, and leaves nothing to the next one    *)
(* but the turn of its levels, which is any here.                          *)
(***************************************************************************)
EXTENDS Naturals, Sequences, FiniteSets, Functions

CONSTANTS
  Order,       \* the providers, those of the database first and by identifier
  EnvProvider, \* the provider of the environment, the last of Order
  Nobody,      \* uuid.Nil
  Tiers,       \* number of priorities in use
  ChainBudget, \* ChainTimeout
  TimeLimit,   \* timeout_seconds of a row
  LoadLimit,   \* the time the reading of the bank may take
  RecordLimit, \* the time the recording of a call may take
  Rounds,      \* rounds of tool calls of one answer
  MaxDeltas    \* bound on the pieces of text of one round

VARIABLES
  op,       \* the operation under way
  queue,    \* the providers it still has, as levels in the order of priority
  left,     \* what is left of its budget
  asked,    \* history: the providers it called, in order
  gone,     \* the student left, or a write to the student failed
  reply,    \* what the provider that is called has written in this round
  gate,     \* streamGate: the visible provider and what each wrote
  screen    \* the page of the student

chainVars == <<op, queue, left, asked, gone, reply, gate, screen>>

Providers == Range(Order)

ASSUME ChainAssumption ==
  /\ Order \in Seq(Providers) /\ IsInjective(Order) /\ Order # <<>>
  /\ EnvProvider = Order[Len(Order)] /\ Nobody \notin Providers
  /\ {Tiers, ChainBudget, TimeLimit, LoadLimit, RecordLimit, Rounds, MaxDeltas} \subseteq Nat
  /\ ChainBudget >= LoadLimit + Tiers + Len(Order) * (1 + RecordLimit * (Len(Order) - 1))

NoOp == [at |-> "ready", by |-> Nobody, allot |-> 0, round |-> 0, chain |-> 0]

ShutGate == [active |-> Nobody, buffers |-> [p \in Providers |-> <<>>]]

ChainInit ==
  /\ op = NoOp /\ queue = <<>> /\ left = 0 /\ asked = <<>> /\ gone = FALSE
  /\ reply = <<>> /\ gate = ShutGate /\ screen = <<>>

ChainTypeOK ==
  /\ op.at \in {"ready", "rotating", "calling", "writing", "done", "unavailable", "stopped"}
  /\ op.by \in Providers \cup {Nobody}
  /\ left \in 0..ChainBudget
  /\ gone \in BOOLEAN
  /\ gate.active \in Providers \cup {Nobody}

Least(x, y) == IF x < y THEN x ELSE y

\* remaining: the providers of the chain that have not been called.
Waiting == op.chain - Len(asked)

\* Faulty variants.
WholeBudget(n) == left

Repeated(members, n) == [i \in 1..Len(members) |-> members[n + 1]]

StaysOnLevel(members) ==
  [at |-> IF gone THEN "stopped" ELSE IF members # <<>> THEN "calling" ELSE "rotating",
   queue |-> queue]

Appends(p) == screen \o gate.buffers[p]

\* The members of a sequence that are of a set, in its order.
Filtered(s, S) ==
  LET upTo[i \in 0..Len(s)] ==
        IF i = 0 THEN <<>> ELSE IF s[i] \in S THEN Append(upTo[i - 1], s[i]) ELSE upTo[i - 1]
  IN upTo[Len(s)]

\* providers and the loop of execute that groups them: enabled, of the purpose, by
\* priority, in the order of the identifiers, the environment's after its level.
Grouped(level) ==
  LET groups == [t \in 1..Tiers |->
        [tier |-> t, members |-> Filtered(Order, {p \in Providers : level[p] = t})]]
  IN Filtered(groups, {g \in Range(groups) : g.members # <<>>})

\* The providers of some levels.
Listed(levels) == UNION {Range(g.members) : g \in Range(levels)}

\* A bank that cannot be read leaves the provider of the environment as it was configured
\* (level 0 of a provider: not for this purpose).
Unread == [p \in Providers |-> IF p = EnvProvider THEN Tiers ELSE 0]

\* execute, up to the first level.
BeginOperation(level, spent) ==
  LET groups == Grouped(level) IN
  /\ op.at = "ready"
  /\ op' = [NoOp EXCEPT
       !.at = IF groups = <<>> THEN "unavailable" ELSE "rotating",
       !.chain = Cardinality(Listed(groups))]
  /\ queue' = groups
  /\ left' = ChainBudget - spent
  /\ asked' = <<>> /\ gone' = FALSE /\ reply' = <<>> /\ gate' = ShutGate /\ screen' = <<>>

\* A level, begun at its n-th.
Turned(members, n) ==
  [i \in 1..Len(members) |-> members[((i - 1 + n) % Len(members)) + 1]]

\* rotationOffset: the counter of the database or, when it does not answer, the one of
\* the process.  Other operations and processes take from both, so its turn of a level
\* is any.  A level of one has no turn to take.
Rotate(n, spent) ==
  LET head == Head(queue) IN
  /\ op.at = "rotating"
  /\ n < Len(head.members) /\ (Len(head.members) = 1 => spent = 0)
  /\ queue' = <<[head EXCEPT !.members = Turned(@, n)]>> \o Tail(queue)
  /\ left' = left - spent
  /\ op' = [op EXCEPT !.at = "calling"]
  /\ UNCHANGED <<asked, gone, reply, gate, screen>>

\* What a provider may take of the budget when n have not been called.
Allotted(n) == left \div n

\* One turn of the loop, up to the call.
Ask ==
  /\ op.at = "calling" /\ queue # <<>>
  /\ ~gone /\ left > 0
  /\ LET head == Head(queue) IN
     /\ op' = [op EXCEPT !.at = "writing", !.by = Head(head.members), !.round = 1,
                         !.allot = Least(TimeLimit, Allotted(Waiting))]
     /\ asked' = Append(asked, Head(head.members))
     /\ queue' = <<[head EXCEPT !.members = Tail(@)]>> \o Tail(queue)
  /\ reply' = <<>>
  /\ UNCHANGED <<left, gone, gate, screen>>

\* The checks before a call: the caller is gone, or the budget is.
GiveUp ==
  /\ op.at = "calling"
  /\ gone \/ left = 0
  /\ op' = [op EXCEPT !.at = IF gone THEN "stopped" ELSE "unavailable"]
  /\ screen' = IF gone THEN screen ELSE <<>>
  /\ UNCHANGED <<queue, left, asked, gone, reply, gate>>

\* emitter, for a piece of text: the first to write becomes visible, what others write
\* is kept for later.
WriteText ==
  LET p == op.by
      text == Append(gate.buffers[p], <<p, op.round>>)
  IN
  /\ op.at = "writing" /\ Len(reply) < MaxDeltas
  /\ reply' = Append(reply, <<p, op.round>>)
  /\ gate' = [gate EXCEPT !.buffers[p] = text,
                          !.active = IF @ = Nobody /\ ~gone THEN p ELSE @]
  /\ screen' = CASE gone -> screen
                 [] ~gone /\ gate.active = Nobody -> text
                 [] ~gone /\ gate.active = p -> Append(screen, <<p, op.round>>)
                 [] OTHER -> screen
  /\ UNCHANGED <<op, queue, left, asked, gone>>

\* Stream, a round that ended in tool calls: what was written is no answer.  The last
\* round has no next one and fails the call.
CallTools ==
  LET p == op.by IN
  /\ op.at = "writing" /\ op.round < Rounds
  /\ op' = [op EXCEPT !.round = @ + 1]
  /\ reply' = <<>>
  /\ gate' = [gate EXCEPT !.buffers[p] = <<>>]
  /\ screen' = IF gate.active = p /\ ~gone THEN <<>> ELSE screen
  /\ UNCHANGED <<queue, left, asked, gone>>

\* The student goes, or a write fails, which cancels the operation.
Leave ==
  /\ op.at \in {"rotating", "calling", "writing"} /\ ~gone
  /\ gone' = TRUE
  /\ UNCHANGED <<op, queue, left, asked, reply, gate, screen>>

\* streamGate.commit: a winner that was not visible replaces what is.
Committed(p) == gate.buffers[p]

\* The handler writes "done" after it.
Answer ==
  LET p == op.by IN
  /\ op.at = "writing" /\ ~gone /\ reply # <<>>
  /\ screen' = IF gate.active = p THEN screen ELSE Committed(p)
  /\ op' = [op EXCEPT !.at = "done"]
  /\ UNCHANGED <<queue, left, asked, gone, reply, gate>>

\* streamGate.failed.
Withdrawn(p) ==
  IF gate.active = p THEN [screen |-> <<>>, gate |-> [gate EXCEPT !.active = Nobody]]
  ELSE [screen |-> screen, gate |-> gate]

\* What follows a call that failed: nobody after a caller that is gone, the next of the
\* level, the next level, or the handler's "unavailable".
NextOf(members) ==
  IF gone THEN [at |-> "stopped", queue |-> <<>>]
  ELSE IF members # <<>> THEN [at |-> "calling", queue |-> queue]
  ELSE IF Len(queue) > 1 THEN [at |-> "rotating", queue |-> Tail(queue)]
  ELSE [at |-> "unavailable", queue |-> <<>>]

\* record: storing the outcome of a call has a limit of its own, and takes its time from
\* the operation, which may be over by then.
Spent(time) == IF time < left THEN left - time ELSE 0

\* A call that fails, at once or when its time is up, and is recorded.  One whose answer
\* was complete as its time ran out fails too, and the gate is not told (known).
Fail(spent, recording, known) ==
  LET next == NextOf(Head(queue).members)
      kept == IF known /\ ~gone THEN Withdrawn(op.by) ELSE [screen |-> screen, gate |-> gate]
  IN
  /\ op.at = "writing"
  /\ spent \in {0, op.allot} /\ recording \in {0, RecordLimit}
  /\ known \/ (reply # <<>> /\ spent = op.allot)
  /\ left' = Spent(spent + recording)
  /\ op' = [op EXCEPT !.at = next.at, !.by = Nobody, !.allot = 0, !.round = 0]
  /\ queue' = next.queue
  /\ gate' = kept.gate
  /\ screen' = IF next.at = "unavailable" THEN <<>> ELSE kept.screen
  /\ reply' = <<>>
  /\ UNCHANGED <<asked, gone>>

ChainNext ==
  \/ \E level \in [Providers -> 0..Tiers], spent \in {0, LoadLimit} :
       BeginOperation(level, spent)
  \/ \E spent \in {0, LoadLimit} : BeginOperation(Unread, spent)
  \/ \E n \in 0..Len(Order), spent \in {0, 1} : Rotate(n, spent)
  \/ Ask \/ GiveUp \/ WriteText \/ CallTools \/ Leave \/ Answer
  \/ \E spent \in {0, op.allot}, recording \in {0, RecordLimit}, known \in BOOLEAN :
       Fail(spent, recording, known)

\* Execute is a loop and every call has a deadline.
ChainFairness ==
  /\ WF_chainVars(\E n \in 0..Len(Order), spent \in {0, 1} : Rotate(n, spent))
  /\ WF_chainVars(Ask \/ GiveUp)
  /\ WF_chainVars(Answer \/ \E spent \in {0, op.allot}, recording \in {0, RecordLimit} :
                           Fail(spent, recording, TRUE))

ChainSpec == ChainInit /\ [][ChainNext]_chainVars /\ ChainFairness

-----------------------------------------------------------------------------

\* The budget is shared so that every provider of the chain has its time: none is
\* called with less than an equal part of what is left after the slowest reading of the
\* bank and of the counters, less what recording each call before its own may have
\* taken; and the student is told that nobody answers only after everyone was asked.
EveryoneHasTime ==
  LET part == (ChainBudget - LoadLimit - Tiers) \div Len(Order) IN
  /\ op.at = "writing" => op.allot >= Least(TimeLimit, part - RecordLimit * (Len(asked) - 1))
  /\ op.at = "unavailable" => Len(asked) = op.chain

\* Answers of two providers are never glued, nor a preamble to an answer: when the
\* stream says "done" the page shows what the last provider wrote in its last round,
\* and nothing at all when it says "unavailable".
OneVoice ==
  /\ op.at = "done" => screen = reply
  /\ op.at = "unavailable" => screen = <<>>

\* Every call is paid for: no provider is called twice by one operation, and none after
\* the student has gone.
TurnPaidOnce ==
  [][Len(asked') > Len(asked) => ~gone /\ asked'[Len(asked')] \notin Range(asked)]_chainVars

\* An operation ends, whatever its providers do.
OperationEnds == op.at = "rotating" ~> op.at \in {"done", "unavailable", "stopped"}

\* Everyone is asked in time and once, and the page shows the answer of one of them.
ChainHolds == []ChainTypeOK /\ []EveryoneHasTime /\ []OneVoice /\ TurnPaidOnce
=============================================================================
