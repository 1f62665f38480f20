-------------------------------- MODULE Grading --------------------------------
(***************************************************************************)
(* One quiz question: QuizzesService validates it when it is created and   *)
(* on every edit, QuizAttemptsService grades answers against it.  An edit  *)
(* validates the row it read merged with the fields it was given, and      *)
(* writes only the latter.  JSON values are tokens: the numbers "n0" and   *)
(* "n1", and texts, already trimmed and in lower case.                     *)
(***************************************************************************)
EXTENDS Naturals, Sequences, FiniteSets

CONSTANTS
  Editors,       \* requests of the instructor
  Keys,          \* sequences of tokens a request may give as correctAnswer
  NoQuestion, Keep      \* Keep: the field is not in the request

VARIABLES
  question,      \* [type, options, key] or NoQuestion
  edit,          \* the fields each request is about to write, or NoQuestion
  raced          \* history: two edits overlapped

vars == <<question, edit, raced>>

Types == {"SINGLE_CHOICE", "MULTIPLE_CHOICE", "TRUE_FALSE", "SHORT_ANSWER"}
OptionCounts == {0, 1, 2}
Numbers == {"n0", "n1"}
IndexOf == [t \in {"n0", "n1", "0", "1"} |-> IF t \in {"n0", "0"} THEN 0 ELSE 1]

\* String(x), trimmed and in lower case
AsText(t) == IF t \in Numbers THEN (IF t = "n0" THEN "0" ELSE "1") ELSE t

\* Number(x), where a text that is no number is NaN, equal to nothing
SameNumber(s, t) ==
  s \in DOMAIN IndexOf /\ t \in DOMAIN IndexOf /\ IndexOf[s] = IndexOf[t]

(***************************************************************************)
(* validateQuestionData                                                    *)
(***************************************************************************)

IsChoice(q) == q.type \in {"SINGLE_CHOICE", "MULTIPLE_CHOICE"}
InBounds(t, options) == t \in Numbers /\ IndexOf[t] < options

\* (mutant) a single choice may have several keys
BoundsOnly(q) ==
  /\ q.key # <<>>
  /\ IsChoice(q) => q.options >= 2 /\ \A i \in DOMAIN q.key : InBounds(q.key[i], q.options)
  /\ q.type = "TRUE_FALSE" => Len(q.key) = 1

Valid(q) ==
  /\ q.key # <<>>
  /\ IsChoice(q) =>
       /\ q.options >= 2
       /\ q.type = "SINGLE_CHOICE" => Len(q.key) = 1
       /\ \A i \in DOMAIN q.key : InBounds(q.key[i], q.options)
  /\ q.type = "TRUE_FALSE" =>
       Len(q.key) = 1 /\ AsText(q.key[1]) \in {"true", "false", "0", "1"}
  /\ q.type = "SHORT_ANSWER" => \A i \in DOMAIN q.key : q.key[i] \notin Numbers

(***************************************************************************)
(* evaluateAnswer                                                          *)
(***************************************************************************)

\* Equal as bags of numbers: what comparing the two sorted arrays decides.
Occurrences(t, s) == Cardinality({i \in DOMAIN s : SameNumber(s[i], t)})
SameBag(s, t) ==
  /\ Len(s) = Len(t)
  /\ \A i \in DOMAIN s : s[i] \in DOMAIN IndexOf
                         /\ Occurrences(s[i], s) = Occurrences(s[i], t)

EvaluateAnswer(type, submitted, key) ==
  /\ submitted # <<>>
  /\ CASE type = "SINGLE_CHOICE" ->
            Len(submitted) = 1 /\ Len(key) = 1 /\ SameNumber(submitted[1], key[1])
       [] type = "MULTIPLE_CHOICE" -> SameBag(submitted, key)
       [] type = "TRUE_FALSE" ->
            Len(submitted) = 1 /\ Len(key) = 1 /\ AsText(submitted[1]) = AsText(key[1])
       [] type = "SHORT_ANSWER" ->
            \E i \in DOMAIN key : AsText(key[i]) = AsText(submitted[1])

\* Percent of the points, to the nearest hundredth of a percent.
ScorePercentage(earned, possible) ==
  IF possible = 0 THEN 0 ELSE (20000 * earned + possible) \div (2 * possible)

(***************************************************************************)
(* Creating, editing and deleting the question                             *)
(***************************************************************************)

Questions == [type : Types, options : OptionCounts, key : Keys]
Edits == [type : Types \union {Keep}, options : OptionCounts \union {3},
          key : Keys \union {<<Keep>>}]

ConstantsAssumption ==
  Keys \subseteq Seq(STRING) /\ Keep \notin STRING /\ NoQuestion \notin Questions

Given(old, new) == IF new = Keep THEN old ELSE new
Merge(q, fields) == [type |-> Given(q.type, fields.type),
                     options |-> IF fields.options = 3 THEN q.options ELSE fields.options,
                     key |-> IF fields.key = <<Keep>> THEN q.key ELSE fields.key]

CreateQuestion ==
  /\ question = NoQuestion
  /\ \E q \in Questions :
       Valid(q) /\ question' = q
  /\ UNCHANGED <<edit, raced>>

\* The existing row is read and merged; an options count of 3 stands for Keep.
StartUpdate(e) ==
  /\ edit[e] = NoQuestion /\ question # NoQuestion
  /\ \E fields \in Edits :
       Valid(Merge(question, fields)) /\ edit' = [edit EXCEPT ![e] = fields]
  /\ raced' = (raced \/ \E o \in Editors \ {e} : edit[o] # NoQuestion)
  /\ UNCHANGED question

UpdateQuestion(e) ==
  /\ edit[e] # NoQuestion
  /\ question' = Merge(question, edit[e])
  /\ edit' = [edit EXCEPT ![e] = NoQuestion]
  /\ UNCHANGED raced

\* Updates under way will find no row.
DeleteQuestion ==
  /\ question # NoQuestion
  /\ question' = NoQuestion /\ edit' = [e \in Editors |-> NoQuestion]
  /\ UNCHANGED raced

Init ==
  question = NoQuestion /\ edit = [e \in Editors |-> NoQuestion] /\ raced = FALSE

Next ==
  \/ CreateQuestion \/ DeleteQuestion
  \/ \E e \in Editors : StartUpdate(e) \/ UpdateQuestion(e)

Spec == Init /\ [][Next]_vars

------------------------------------------------------------------------------

TypeOK ==
  /\ question \in Questions \union {NoQuestion}
  /\ edit \in [Editors -> Edits \union {NoQuestion}]
  /\ raced \in BOOLEAN

\* Any order of the key.
Reorderings(s) ==
  {[i \in DOMAIN s |-> s[p[i]]] :
     p \in {f \in [DOMAIN s -> DOMAIN s] : \A i, j \in DOMAIN s : f[i] = f[j] => i = j}}

\* Unless edits overlapped, whatever sequence of edits of its type, options and
\* key a question went through, submitting its key in any order earns full marks
\* (quizzes.service.ts:21-69, 183-187; quiz-attempts.service.ts:66-106, 284).
KeyEarnsFullMarks ==
  (~raced /\ question # NoQuestion) =>
    \A submitted \in Reorderings(question.key) :
      LET correct == EvaluateAnswer(question.type, submitted, question.key)
      IN ScorePercentage(IF correct THEN 1 ELSE 0, 1) = 10000
==============================================================================
