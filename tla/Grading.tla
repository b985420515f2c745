-------------------------------- MODULE Grading --------------------------------
(***************************************************************************)
(* What an answer to a Listening or Reading question is worth, in the      *)
(* attempt (attempts/service.go) and, when the mistake is corrected in the *)
(* study plan, there (studyplan/learning.go): two graders of one key.  And *)
(* what a guest is shown of his mistakes (attempts/guest_preview.go).      *)
(*                                                                         *)
(* A student changes one answer step by step; a review grows by one item   *)
(* at a time.  A text is a word and how it was typed.                      *)
(***************************************************************************)
EXTENDS Integers, Sequences, FiniteSets, FiniteSetsExt, Functions

CONSTANTS
  Options,     \* the option identifiers of a question, in the order shown
  Letters,     \* the letters that stand for the first options, in their order
  Capitals,    \* an identifier in capitals, which may be such a letter
  Keys,        \* right options of the questions that have several: sets of options
  Words,       \* words a text may be
  NotGiven,    \* the word of two parts that is also spelled with an underscore
  MaxMistakes, \* bound on the items of a review
  MaxHints     \* bound on the suggestions of an AI assessment

ASSUME GradingAssumption ==
  /\ Options \in Seq(STRING) /\ NotGiven \in Words
  /\ Letters \in Seq(STRING) /\ IsInjective(Letters)
  /\ Capitals \in [Range(Options) -> STRING]
  /\ \A o \in Range(Options) \cap Range(Letters) : Capitals[o] = o
  /\ Keys \subseteq SUBSET Range(Options) /\ {} \notin Keys
  /\ {MaxMistakes, MaxHints} \subseteq Nat

VARIABLES
  question,  \* its key and its points
  given,     \* the answer so far
  review     \* the items of the review, in the order of the material

gradingVars == <<question, given, review>>

\* A text in capitals, between spaces, with more than one space inside, or with an
\* underscore for the space.
Spellings == [word : Words, caps : BOOLEAN, padded : BOOLEAN, wide : BOOLEAN, joined : BOOLEAN]

Plain(w) == [word |-> w, caps |-> FALSE, padded |-> FALSE, wide |-> FALSE, joined |-> FALSE]
Printed == [Plain(NotGiven) EXCEPT !.caps = TRUE, !.joined = TRUE]

\* validateQuestion: a question with several right options has one point, or a point
\* for each.  The key of a judgement is printed "NOT_GIVEN".
GradedQuestions ==
  {[kind |-> "option", key |-> {o}, points |-> 1] : o \in Range(Options)}
  \cup {[kind |-> "options", key |-> k, points |-> p] : k \in Keys, p \in {1} \cup {Cardinality(x) : x \in Keys}}
  \cup {[kind |-> "value", key |-> {Printed}, points |-> 1]}
  \cup {[kind |-> "accepted", key |-> {Plain(w), [Plain(w) EXCEPT !.caps = TRUE]}, points |-> 1] : w \in Words}

NoAnswer == [picked |-> <<>>, typed |-> {}]
NoReview == [items |-> <<>>, hints |-> 0]

GradingInit ==
  /\ question \in {q \in GradedQuestions : q.points \in {1, Cardinality(q.key)}}
  /\ given = NoAnswer /\ review = NoReview

GradingTypeOK ==
  /\ question \in GradedQuestions
  /\ given.picked \in Seq(Range(Options)) /\ given.typed \subseteq Spellings
  /\ Len(review.items) <= MaxMistakes /\ review.hints \in 0..MaxHints

-----------------------------------------------------------------------------

\* Faulty variants.
TrimmedOnly(t) == [t EXCEPT !.padded = FALSE]

ByNumber(x, y) == x.n < y.n

-----------------------------------------------------------------------------

\* normalizeGradedValue: trimmed, in lower case; "not_given" is "not given".
Normalized(t) ==
  [t EXCEPT !.padded = FALSE, !.caps = FALSE,
            !.joined = @ /\ (t.word # NotGiven \/ t.wide)]

\* normalize of objectiveCorrect: as that, with the spaces inside collapsed too.
Collapsed(t) ==
  [t EXCEPT !.padded = FALSE, !.caps = FALSE, !.wide = @ /\ t.joined,
            !.joined = @ /\ (t.word # NotGiven \/ t.wide)]

\* gradeAnswer, of several options: the same options, as often.
SameOptions(key, s) == Len(s) = Cardinality(key) /\ Range(s) = key

TextAccepted(variants, typed) == typed \cap variants # {}

\* gradeAnswer.
GradeAnswer(q, g) ==
  CASE q.kind = "option" -> Len(g.picked) = 1 /\ Range(g.picked) = q.key
    [] q.kind = "options" -> SameOptions(q.key, g.picked)
    [] OTHER -> TextAccepted({Normalized(k) : k \in q.key}, {Normalized(t) : t \in g.typed})

\* The right options of an answer, each counted once.
RightPicks(key, s) == Cardinality(key \cap Range(s))

\* gradePoints: a point for each right option, unless there are more than right ones.
GradePoints(q, g) ==
  IF q.kind # "options" \/ q.points <= 1
  THEN IF GradeAnswer(q, g) THEN q.points ELSE 0
  ELSE IF Len(g.picked) > Cardinality(q.key) THEN 0
       ELSE Min({q.points, RightPicks(q.key, g.picked)})

\* readableQuestion: a letter stands for the option shown at its place.
Aliases == [i \in DOMAIN Letters \cap DOMAIN Options |-> Letters[i]]

\* resolve of objectiveGiven: a text that is such a letter, in either case, is its
\* option, even where it is the identifier of another one; else it is left as it is.
Resolved(text) ==
  LET capital == IF text \in Range(Options) THEN Capitals[text] ELSE text
  IN IF capital \in Range(Aliases)
     THEN Options[CHOOSE i \in DOMAIN Aliases : Aliases[i] = capital] ELSE text

\* objectiveGiven, of a correction that is typed; an answer object is taken as it is.
ObjectiveGiven(g) == [g EXCEPT !.picked = [i \in DOMAIN @ |-> Resolved(@[i])]]

\* objectiveCorrect, of the correction of a mistake.
ObjectiveCorrect(q, g) ==
  CASE q.kind = "option" -> Len(g.picked) = 1 /\ Range(g.picked) = q.key
    [] q.kind = "options" -> g.picked # <<>> /\ SameOptions(q.key, g.picked)
    [] OTHER -> TextAccepted({Collapsed(k) : k \in q.key}, {Collapsed(t) : t \in g.typed})

-----------------------------------------------------------------------------

\* DetailForViewer sorts by number, then identifier.
Before(x, y) == x.n < y.n \/ (x.n = y.n /\ x.id < y.id)

\* The orders that so many items can be in.
AllOrders == UNION {Bijection(1..n, 1..n) : n \in 0..MaxMistakes}

Orders(n) == {p \in AllOrders : DOMAIN p = 1..n}

\* sort.SliceStable: items that are alike stay in their order.
InOrder(items, p) ==
  \A i, j \in DOMAIN items : i < j =>
    \/ Before(items[p[i]], items[p[j]])
    \/ ~Before(items[p[j]], items[p[i]]) /\ p[i] < p[j]

Sorted(items) ==
  LET p == CHOOSE p \in Orders(Len(items)) : InOrder(items, p)
  IN [i \in DOMAIN items |-> items[p[i]]]

Wrong(items) == {i \in DOMAIN items : ~items[i].right}

\* Three tenths of the mistakes are open, first those of the review, then suggestions.
Available(r) == ((Cardinality(Wrong(r.items)) + r.hints) * 3) \div 10

OpenItems(r) ==
  LET s == Sorted(r.items)
  IN {s[i].id : i \in {j \in Wrong(s) : Cardinality({k \in Wrong(s) : k <= j}) <= Available(r)}}

OpenHints(r) == {h \in 1..r.hints : h <= Available(r) - Cardinality(OpenItems(r))}

-----------------------------------------------------------------------------

\* The student picks one more option, maybe again, or types something else.
Pick(o) ==
  /\ question.kind \in {"option", "options"} /\ Len(given.picked) <= Cardinality(question.key)
  /\ review = NoReview
  /\ given' = [given EXCEPT !.picked = Append(@, o)] /\ UNCHANGED <<question, review>>

Type(t) ==
  /\ question.kind \in {"value", "accepted"}
  /\ review = NoReview
  /\ given' = [given EXCEPT !.typed = {t}] /\ UNCHANGED <<question, review>>

\* One more item of the paper, or one more suggestion of the assessment.
Item(n, right) ==
  /\ Len(review.items) < MaxMistakes /\ given = NoAnswer /\ review.hints = 0
  /\ review' = [review EXCEPT !.items = Append(@, [id |-> Len(@) + 1, n |-> n, right |-> right])]
  /\ UNCHANGED <<question, given>>

Hint ==
  /\ review.hints < MaxHints /\ given = NoAnswer
  /\ review' = [review EXCEPT !.hints = @ + 1] /\ UNCHANGED <<question, given>>

GradingNext ==
  \/ \E o \in Range(Options) : Pick(o)
  \/ \E t \in Spellings : Type(t)
  \/ \E n \in 1..2, right \in BOOLEAN : Item(n, right)
  \/ Hint

GradingSpec == GradingInit /\ [][GradingNext]_gradingVars

-----------------------------------------------------------------------------

\* The ways to write picked options by their letters.
Lettered(picked) ==
  {text \in [DOMAIN picked -> Range(Aliases)] :
     \A i \in DOMAIN picked : \E j \in DOMAIN Aliases : Aliases[j] = text[i] /\ Options[j] = picked[i]}

\* All the points are for the exact answer, whatever is repeated or how it is typed, and
\* an answer that earns them in the attempt is accepted as the correction of the mistake,
\* as an answer object or by the letters the question is shown with: nobody is sent back
\* to a question he has answered right.  By letters no other options are accepted.
\* Plain identifiers, which objectiveCorrect is said to take (learning.go:725), are
\* accepted only where none of them is the letter of another option.
FullMarksAreExact ==
  LET full == GradePoints(question, given) = question.points
      Corrects(texts) == ObjectiveCorrect(question, ObjectiveGiven([given EXCEPT !.picked = texts]))
  IN
  /\ full <=>
       CASE question.kind \in {"option", "options"} ->
              /\ Range(given.picked) = question.key
              /\ Len(given.picked) = Cardinality(question.key)
         [] OTHER -> \E t \in given.typed, k \in question.key :
              /\ t.word = k.word /\ t.wide = k.wide
              /\ t.joined = k.joined \/ (t.word = NotGiven /\ ~t.wide /\ ~k.wide)
  /\ full => ObjectiveCorrect(question, given)
  /\ \A texts \in Lettered(given.picked) :
       /\ full => Corrects(texts)
       /\ Corrects(texts) /\ question.kind \in {"option", "options"} => full
  /\ full /\ (\A o \in Range(given.picked), j \in DOMAIN Aliases :
                 Aliases[j] = Capitals[o] => Options[j] = o) => Corrects(given.picked)

\* "Reloading or changing question order must never provide a new batch of free
\* mistakes" (guest_preview.go): in whatever order the items come, the same are open,
\* and with the suggestions they are never more than three tenths.
SamePreview ==
  LET n == Len(review.items) IN
  /\ \A p \in Orders(n) :
       OpenItems([review EXCEPT !.items = [i \in 1..n |-> review.items[p[i]]]]) = OpenItems(review)
  /\ 10 * (Cardinality(OpenItems(review)) + Cardinality(OpenHints(review)))
       <= 3 * (Cardinality(Wrong(review.items)) + review.hints)
=============================================================================
