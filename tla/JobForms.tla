------------------------------ MODULE JobForms ------------------------------
(***************************************************************************)
(* The application form of one job while students answer it (JOB-2.4).     *)
(* apply and edit_application read the form without locking it and write   *)
(* their answers later, each answer holding a key-share lock on its        *)
(* question; upsert_job_questions counts the answers, waits for those      *)
(* locks, and decides on what it counted.                                  *)
(***************************************************************************)
EXTENDS Naturals, FiniteSets

CONSTANTS
    Questions, Applications,
    Options,       \* the options of the choice questions
    Texts,         \* what a text question is answered with
    NoQuestion     \* the question is not on the form

VARIABLES
    form,       \* question -> NoQuestion or [qtype, required, options]
    answer,     \* application -> question -> the stored value, {} when there is none
    student,    \* application -> [at, form, values] of the command under way
    counted     \* {} or {the questions the builder found answered}

formVars == <<form, answer, student, counted>>

\* A single or multi choice stores options; any other type stores one text.
ChoiceTypes == {"single", "multi"}
QuestionRows ==
    [qtype : ChoiceTypes, required : BOOLEAN,
     options : {some \in SUBSET Options : Cardinality(some) >= 2}]
    \cup [qtype : {"text"}, required : BOOLEAN, options : {{}}]

OnForm(f) == {q \in Questions : f[q] # NoQuestion}
AwayFromForm == [at |-> "away", form |-> [q \in Questions |-> NoQuestion],
                 values |-> [q \in Questions |-> {}]]

FormInit ==
    /\ form = [q \in Questions |-> NoQuestion]
    /\ answer = [a \in Applications |-> [q \in Questions |-> {}]]
    /\ student = [a \in Applications |-> AwayFromForm]
    /\ counted = {}

-----------------------------------------------------------------------------
\* The loaders of apply and edit_application take the form as it is.
ReadForm(a) ==
    /\ student[a].at = "away"
    /\ student' = [student EXCEPT ![a].at = "filling", ![a].form = form]
    /\ UNCHANGED <<form, answer, counted>>

\* _validate_one, on a value that is not blank.
ValidValue(question, value) ==
    CASE question.qtype = "single" -> value \subseteq question.options /\ Cardinality(value) = 1
      [] question.qtype = "multi"  -> value \subseteq question.options
      [] question.qtype = "text"   -> value \subseteq Texts /\ Cardinality(value) = 1

\* validate_answers: no answer to a question that is not on the form, a valid
\* one to every question that is required, a valid one or none to the others.
ValidAnswers(f, values) ==
    \A q \in Questions :
        IF values[q] = {} THEN q \in OnForm(f) => ~f[q].required
        ELSE q \in OnForm(f) /\ ValidValue(f[q], values[q])

\* The answers are inserted; a new insert waits while the builder holds the
\* questions, that is, while it has counted and no earlier insert holds it up.
Writers == {a \in Applications : student[a].at = "writing"}

InsertAnswers(a, values) ==
    /\ student[a].at = "filling"
    /\ counted # {} => Writers # {}
    /\ ValidAnswers(student[a].form, values)
    /\ student' = [student EXCEPT
          ![a] = IF \E q \in Questions : values[q] # {} /\ form[q] = NoQuestion
                 THEN AwayFromForm   \* the foreign key stops the command
                 ELSE [@ EXCEPT !.at = "writing", !.values = values]]
    /\ UNCHANGED <<form, answer, counted>>

\* The commit replaces the answer set wholesale.
CommitAnswers(a) ==
    /\ student[a].at = "writing"
    /\ answer' = [answer EXCEPT ![a] = student[a].values]
    /\ student' = [student EXCEPT ![a] = AwayFromForm]
    /\ UNCHANGED <<form, counted>>

-----------------------------------------------------------------------------
HasAnswer(q) == \E a \in Applications : answer[a][q] # {}

\* _load_questions: the counts are of the statement's snapshot.
CountAnswers ==
    /\ counted = {}
    /\ counted' = {{q \in Questions : HasAnswer(q)}}
    /\ UNCHANGED <<form, answer, student>>

\* _decide_upsert_job_questions: an answered question is neither removed nor
\* retyped, and its options may not become fewer of the same.
Editable(before, after, answered) ==
    answered =>
        /\ after # NoQuestion
        /\ after.qtype = before.qtype
        /\ ~(after.options \subseteq before.options /\ after.options # before.options)

\* Questions that were not on the form may be added; a removal whose question
\* an answer reached meanwhile is stopped by the foreign key.
SaveForm(rows) ==
    /\ counted # {}
    /\ Writers = {}
    /\ \A q \in OnForm(form) : Editable(form[q], rows[q], \E c \in counted : q \in c)
    /\ form' = IF \E q \in Questions : HasAnswer(q) /\ rows[q] = NoQuestion
               THEN form ELSE rows
    /\ counted' = {}
    /\ UNCHANGED <<answer, student>>

FormNext ==
    \/ \E a \in Applications :
          \/ ReadForm(a)
          \/ \E values \in [Questions -> SUBSET (Options \cup Texts)] : InsertAnswers(a, values)
          \/ CommitAnswers(a)
    \/ CountAnswers
    \/ \E rows \in [Questions -> QuestionRows \cup {NoQuestion}] : SaveForm(rows)

-----------------------------------------------------------------------------
\* "Adding an option is fine; withdrawing one that an answer already selected
\* would leave that answer pointing at nothing" (the comment in the decider): a
\* save keeps every option chosen by an answer it counted.
SelectedOptionsStand ==
    [][\A q \in OnForm(form), a \in Applications :
          (\E c \in counted : q \in c) /\ form[q].qtype \in ChoiceTypes
              /\ form' # form /\ answer[a][q] \subseteq form[q].options
              => form'[q] # NoQuestion /\ answer[a][q] \subseteq form'[q].options]_formVars
=============================================================================
