----------------------------- MODULE Eligibility -----------------------------
(***************************************************************************)
(* What an answer is worth: from the question an admin saves and the       *)
(* condition another admin saves on a role link, over the answer a member  *)
(* submits, to the points and the role.                                    *)
(*                                                                         *)
(*   form_validator.rs   what may be saved and submitted, and quiz points  *)
(*   schema.rs           what conditions may be saved, and how             *)
(*   condition_eval.rs   whether a stored answer meets a condition         *)
(*                                                                         *)
(* The form has one answerable question and the link one condition; the    *)
(* question may change while the answer and the condition stay.  A JSON    *)
(* value is a record with a field `is`.  Numbers are f64 values, counted   *)
(* in halves, so that not all of them are whole; an i64 is the f64 that it *)
(* reads as.  What the libraries do to strings (trim, lower-case, parse,   *)
(* search) is given by tables over Texts; Parse reads "NaN" and "inf" as   *)
(* the library does.  The form is a quiz, so that all of the checks apply. *)
(***************************************************************************)
EXTENDS Integers, Sequences, FiniteSets

CONSTANTS
    Texts,       \* the strings there are
    Empty,       \* the one of length 0
    None,        \* no string, no number, no date
    NaN,         \* the number that compares with none
    Inf,         \* the one, with -Inf, that is not finite
    MinWhole, MaxWhole, \* the ends of i64
    Trim, Lower, \* Texts -> Texts
    Parse,       \* Texts -> the number it reads as, or None
    ParseInt,    \* Texts -> the whole number it reads as, or None
    Show,        \* numbers -> Texts
    Day,         \* Texts -> the moment it reads as, or None
    Substrings,  \* Texts -> what `contains` finds in it
    Matching,    \* patterns that compile -> the texts they match
    Long,        \* texts over the length limit of a question
    Emails,      \* texts that look like an e-mail address
    Yes, Agreed, \* the text of an agreement, and those that mean it
    Questions, Inputs, Raws  \* what admins and members send

Null    == [is |-> "null"]
Str(x)  == [is |-> "string", text |-> x]
Num(n)  == [is |-> "number", num |-> n]
List(s) == [is |-> "list", items |-> s]
Refused == [is |-> "refused"]

Elements(s) == {s[i] : i \in DOMAIN s}

ASSUME TextsAssumption ==
    /\ {Empty, Yes} \subseteq Texts /\ None \notin Texts
    /\ Trim \in [Texts -> Texts] /\ Lower \in [Texts -> Texts]
    /\ Substrings \in [Texts -> SUBSET Texts]
    /\ Trim[Empty] = Empty /\ Trim[Yes] # Empty
    /\ \A x \in Texts : Trim[Trim[x]] = Trim[x]

Finite == (1 - Inf) .. (Inf - 1)
Wholes == {n \in MinWhole .. MaxWhole : n % 2 = 0}

\* The library prints a number so that it reads back as the same one.  A number
\* beyond i64 has no fraction.
ASSUME NumbersAssumption ==
    /\ None \notin Int /\ NaN \notin Int /\ None # NaN
    /\ Inf \in Nat /\ {MinWhole, MaxWhole} \subseteq Finite
    /\ MinWhole % 2 = 0 /\ MaxWhole % 2 = 0 /\ MinWhole < 0 /\ 0 < MaxWhole
    /\ {MinWhole, MaxWhole} \subseteq DOMAIN Show
    /\ DOMAIN Show \subseteq Finite \cup {Inf, -Inf, NaN}
    /\ \A n \in DOMAIN Show \cap Finite : n % 2 = 1 => n \in MinWhole .. MaxWhole
    /\ Show \in [DOMAIN Show -> Texts] /\ Parse \in [Texts -> DOMAIN Show \cup {None}]
    /\ ParseInt \in [Texts -> Wholes \cup {None}]
    /\ \A n \in DOMAIN Show : Trim[Show[n]] # Empty /\ Parse[Show[n]] = n

\* JSON numbers are finite, and here there are no lists of lists.
Scalar == {Null} \cup {Str(x) : x \in Texts} \cup {Num(n) : n \in DOMAIN Show \cap Finite}

IsJson(v) == \/ v \in Scalar
             \/ v.is = "list" /\ v.items \in Seq(Scalar) /\ v = List(v.items)

ASSUME JsonAssumption == \A v \in Inputs \cup Raws : IsJson(v)

VARIABLES
    question,  \* the question of the form as last saved
    rule,      \* the condition of the link as last saved
    stored,    \* the member's row: the answer, or Null
    points,    \* its total_score
    sent,      \* what the member sent for it
    asked      \* the question it was sent for

vars == <<question, rule, stored, points, sent, asked>>

Choice  == {"single_choice", "dropdown", "multi_choice"}
Numeric == {"number", "scale"}
Typing  == {"short_text", "email", "date"}
Kinds   == Choice \cup Numeric \cup Typing \cup {"agreement"}
ListOps == {"in", "contains_all", "contains_any", "not_contains"}
NumOps  == {"gt", "gte", "lt", "lte", "between"}
DateOps == {"before", "after"}
Ops     == {"eq", "neq", "contains", "regex"} \cup ListOps \cup NumOps \cup DateOps

ASSUME QuestionsAssumption ==
    /\ None \notin Questions
    /\ \A q \in Questions : /\ q.kind \in Kinds
                            /\ q.options \subseteq Texts /\ IsFiniteSet(q.options)

\* A page lets members pick any option, or tick any of the boxes.
ASSUME PageAssumption ==
    \A q \in Questions : q.kind \in Choice =>
        /\ \A o \in q.options : Str(o) \in Raws
        /\ \A S \in (SUBSET q.options) \ {{}} :
              \E v \in Raws : v.is = "list" /\ Elements(v.items) = {Str(o) : o \in S}

-----------------------------------------------------------------------------
(* form_validator: the answer that is stored. *)

\* as_number, and validate_number's reading of its input.
NumberIn(v) == IF v.is = "number" THEN v.num
               ELSE IF v.is = "string" THEN Parse[Trim[v.text]] ELSE None

IsBlank(v) == \/ v = Null \/ v = List(<<>>)
              \/ v.is = "string" /\ Trim[v.text] = Empty

\* f64's order.
Less(m, n) == NaN \notin {m, n} /\ m < n

\* validate_number: not beyond a bound that there is, as NaN never is.
InRange(q, n) == ~(q.min # None /\ Less(n, q.min)) /\ ~(q.max # None /\ Less(q.max, n))

\* validate_agreement: `as_i64` is for whole numbers that fit.
Truthy(v) == \/ v.is = "string" /\ v.text \in Agreed
             \/ v.is = "number" /\ v.num \in Wholes \ {0}

\* validate_*: may a value that is not blank answer the question?
Fits(q, v) ==
    \/ /\ q.kind \in Typing /\ v.is = "string"
       /\ q.kind = "short_text" => Trim[v.text] \notin Long
       /\ q.kind = "email" => Trim[v.text] \in Emails
       /\ q.kind = "date" => Day[Trim[v.text]] # None
    \/ q.kind \in Numeric /\ NumberIn(v) # None /\ InRange(q, NumberIn(v))
    \/ q.kind \in Choice \ {"multi_choice"} /\ v.is = "string" /\ v.text \in q.options
    \/ /\ q.kind = "multi_choice" /\ v.is = "list"
       /\ \A x \in Elements(v.items) : x.is = "string" /\ x.text \in q.options
    \/ q.kind = "agreement" /\ Truthy(v)

\* f64 `as i64`: towards zero, and what is beyond an end becomes that end.
Saturated(n) == IF n > MaxWhole THEN MaxWhole ELSE IF n < MinWhole THEN MinWhole ELSE n
Whole(n) == Saturated(IF n >= 0 THEN n - (n % 2) ELSE n + ((-n) % 2))

\* Mutant: every number goes through i64.
KeptWhole(n) == IF n \in Finite THEN Whole(n) ELSE n

\* validate_number: what is whole goes through i64.
Kept(n) == IF n \in Finite /\ n % 2 = 0 THEN Whole(n) ELSE n

\* validate_*: what is made of it.
Cleaned(q, v) == IF q.kind \in Typing THEN Str(Trim[v.text])
                 ELSE IF q.kind \in Numeric THEN Str(Show[Kept(NumberIn(v))])
                 ELSE IF q.kind = "agreement" THEN Str(Yes) ELSE v

Typed(q, v) == IF Fits(q, v) THEN Cleaned(q, v) ELSE Refused

\* Mutant: what is blank is stored.
ValidateKeepsBlank(q, v) ==
    IF IsBlank(v) THEN (IF q.required THEN Refused ELSE v) ELSE Typed(q, v)

\* Not required means Null: the answer is left out of the row.
Validate(q, v) ==
    IF IsBlank(v) THEN (IF q.required THEN Refused ELSE Null) ELSE Typed(q, v)

-----------------------------------------------------------------------------
(* form_validator: the quiz. *)

\* accepted_answers.
Accepted(key) ==
    LET shown(v) == IF v.is = "string" THEN {v.text}
                    ELSE IF v.is = "number" THEN {Show[v.num]} ELSE {}
        all == IF key.is = "list" THEN UNION {shown(x) : x \in Elements(key.items)}
                                  ELSE shown(key)
    IN  {x \in all : Trim[x] # Empty}

\* Mutant: one right tick is enough.
CorrectPartly(q, v) == v.is = "list" /\ \E x \in Elements(v.items) : x.text \in Accepted(q.key)

\* compute_quiz_score: does the stored answer match the key?
Correct(q, v) ==
    \/ /\ q.kind = "multi_choice" /\ v.is = "list" /\ Accepted(q.key) # {}
       /\ {x.text : x \in Elements(v.items)} = Accepted(q.key)
    \/ /\ q.kind \in Numeric /\ NumberIn(v) \in Finite
       /\ \E k \in Accepted(q.key) : Parse[Trim[k]] = NumberIn(v)
    \/ /\ q.kind \in {"short_text", "email"} /\ v.is = "string"
       /\ \E k \in Accepted(q.key) : Lower[Trim[k]] = Lower[Trim[v.text]]
    \/ /\ q.kind \in {"single_choice", "dropdown", "date", "agreement"} /\ v.is = "string"
       /\ \E k \in Accepted(q.key) : Trim[k] = Trim[v.text]

Score(q, v) == IF q.points > 0 /\ v # Null /\ Correct(q, v) THEN q.points ELSE 0

IsGraded(q) == q.points > 0 /\ Accepted(q.key) # {}

\* A million, in halves.
MaxQuestionPoints == 2000000

\* Mutant: the options of the key are not looked up.
KeyOkUnchecked(q) == q.points \in 0 .. MaxQuestionPoints

\* validate_quiz_keys.
KeyOk(q) == /\ q.points \in 0 .. MaxQuestionPoints
            /\ q.kind \in Choice => Accepted(q.key) \subseteq q.options

\* sanity_check, of one question: texts and counts are left out.
Sane(q) ==
    /\ q.kind \in Choice => q.options # {} /\ \A o \in q.options : Trim[o] # Empty
    /\ q.kind \in Numeric /\ q.min # None /\ q.max # None => q.min <= q.max
    /\ q.kind = "agreement" => q.required

-----------------------------------------------------------------------------
(* schema.rs: the condition that is saved. *)

\* normalize_condition_value, an operator at a time.
NormalNumber(v) ==
    LET n == IF v.is = "number" THEN Whole(v.num)
             ELSE IF v.is = "string" THEN ParseInt[Trim[v.text]] ELSE None
    IN  IF n = None THEN Refused ELSE Num(n)

NormalList(v) ==
    LET trimmed == IF v.is = "string" THEN Str(Trim[v.text]) ELSE v
        all     == IF v.is = "list" THEN v.items ELSE <<trimmed>>
        kept    == SelectSeq(all, LAMBDA x : x # Null /\ x # Str(Empty))
    IN  IF kept = <<>> THEN Refused ELSE List(kept)

NormalDate(v) == IF v.is = "string" /\ ~IsBlank(v) THEN Str(Trim[v.text]) ELSE Refused

NormalText(v) == IF v = Null \/ (v.is = "string" /\ IsBlank(v)) THEN Refused
                 ELSE IF v.is = "number" THEN Str(Show[v.num]) ELSE v

Normal(op, v) == IF op \in NumOps THEN NormalNumber(v)
                 ELSE IF op \in ListOps THEN NormalList(v)
                 ELSE IF op \in DateOps THEN NormalDate(v) ELSE NormalText(v)

\* validate_condition, without a look at the values.
Suits(op, target, q) ==
    IF target = "score" THEN op \in {"eq", "neq"} \cup NumOps
    ELSE q.kind = "multi_choice" =>
            op \in {"eq", "neq", "contains_all", "contains_any", "not_contains"}

\* What is not a string is checked as if it were empty.
Pattern(value) == IF value.is = "string" THEN value.text ELSE Empty

Condition(op, target, v, w) ==
    [op |-> op, target |-> target, value |-> Normal(op, v),
     last |-> IF op = "between" THEN Normal(op, w) ELSE Null]

-----------------------------------------------------------------------------
(* condition_eval: whether the stored answer meets the condition. *)

StringValue(v) == IF v.is = "string" THEN v.text
                  ELSE IF v.is = "number" THEN Show[v.num] ELSE None

\* The strings of a list, by their places; a string is a selection of one.
Selections(v) ==
    IF v.is = "list"
    THEN [i \in {j \in DOMAIN v.items : v.items[j].is = "string"} |-> v.items[i].text]
    ELSE IF StringValue(v) = None THEN <<>> ELSE <<StringValue(v)>>

Selected(v) == Elements(Selections(v))

\* x is selected, once and alone.
Only(v, x) == \E i \in DOMAIN Selections(v) : /\ DOMAIN Selections(v) = {i}
                                               /\ Selections(v)[i] = x

\* Mutant: the answer only has to include the value.
EqMatchesAnywhere(v, value) == StringValue(value) \in Selected(v)

EqMatches(v, value) == Only(v, StringValue(value))

\* numeric_value does not trim.
NumericValue(v) == IF v.is = "number" THEN v.num
                   ELSE IF v.is = "string" THEN Parse[v.text] ELSE None

\* The numbers of a condition are whole.
Compare(op, n, a, b) ==
    \/ op \in {"gt", "gte"} /\ Less(a, n)
    \/ op \in {"lt", "lte"} /\ Less(n, a)
    \/ op \in {"gte", "lte"} /\ n = a
    \/ op = "between" /\ n # NaN /\ ~Less(n, a) /\ ~Less(b, n)

\* Mutant: as the bulk query and this evaluator once disagreed about.
MayBeMissingNeq(op) == op = "neq"

\* An answer that is not there meets two operators only.
MayBeMissing(op) == op \in {"neq", "not_contains"}

Missing(c) == c.op = "neq" => c.value.is = "string" /\ c.value.text # Empty

\* evaluate_single, on an answer that is there.
Present(c, v) ==
    \/ c.op = "eq" /\ StringValue(c.value) # None /\ EqMatches(v, c.value)
    \/ c.op = "neq" /\ StringValue(c.value) # None /\ ~EqMatches(v, c.value)
    \/ /\ c.op = "contains"
       /\ \E s \in Selected(v) : StringValue(c.value) \in Substrings[s]
    \/ /\ c.op = "regex" /\ c.value.is = "string" /\ c.value.text \in DOMAIN Matching
       /\ Selected(v) \cap Matching[c.value.text] # {}
    \/ c.op = "in" /\ \E x \in Selected(c.value) : Only(v, x)
    \/ c.op = "contains_all" /\ Selected(c.value) \subseteq Selected(v)
    \/ c.op = "contains_any" /\ Selected(c.value) \cap Selected(v) # {}
    \/ c.op = "not_contains" /\ Selected(c.value) \cap Selected(v) = {}
    \/ /\ c.op \in NumOps /\ NumericValue(v) # None /\ NumericValue(c.value) # None
       /\ LET a == NumericValue(c.value)
              b == IF NumericValue(c.last) = None THEN a ELSE NumericValue(c.last)
          IN  Compare(c.op, NumericValue(v), a, b)
    \/ /\ c.op \in DateOps
       /\ v.is = "string" /\ Day[v.text] # None
       /\ c.value.is = "string" /\ Day[c.value.text] # None
       /\ IF c.op = "before" THEN Day[v.text] < Day[c.value.text]
                             ELSE Day[v.text] > Day[c.value.text]

Meets(c, v) == IF v = Null THEN MayBeMissing(c.op) /\ Missing(c) ELSE Present(c, v)

-----------------------------------------------------------------------------
Init ==
    /\ question \in {q \in Questions : Sane(q) /\ KeyOk(q)}
    /\ rule = None
    /\ stored = Null /\ points = None /\ sent = Null /\ asked = None

\* update_form, on this question.
SaveQuestion(q) ==
    /\ Sane(q) /\ KeyOk(q)
    /\ question' = q
    /\ UNCHANGED <<rule, stored, points, sent, asked>>

\* role_config_save.
SaveRule(op, target, v, w) ==
    LET c == Condition(op, target, v, w)
    IN  /\ Suits(op, target, question)
        /\ Refused \notin {c.value, c.last}
        /\ op # "regex" \/ Pattern(c.value) \in DOMAIN Matching
        /\ rule' = c
        /\ UNCHANGED <<question, stored, points, sent, asked>>

\* post_submit, as far as this question goes.
Submit(v) ==
    LET answer == Validate(question, v)
    IN  /\ answer # Refused
        /\ stored' = answer /\ points' = Score(question, answer)
        /\ sent' = v /\ asked' = question
        /\ UNCHANGED <<question, rule>>

\* A bound: each save overwrites the one before, so that one save of the rule,
\* at any time between those of the question and the submissions, shows it all.
RuleUnsaved == rule = None

Next ==
    \/ \E q \in Questions : SaveQuestion(q)
    \/ RuleUnsaved /\ \E op \in Ops, target \in {"question", "score"}, v \in Inputs :
          \E w \in IF op = "between" THEN Inputs ELSE {Null} : SaveRule(op, target, v, w)
    \/ \E v \in Raws : Submit(v)

Spec == Init /\ [][Next]_vars

-----------------------------------------------------------------------------
\* What the rule looks at in the row.
Actual == IF rule.target = "score" THEN Num(points) ELSE stored

\* There is a rule, and a row to evaluate it on.
Judged == rule # None /\ asked # None

\* No box was sent twice.
Once(v) == v.is = "list" => \A i, j \in DOMAIN v.items : v.items[i] = v.items[j] => i = j

\* The options the member ticked.
Picked == IF sent.is = "list" THEN {x.text : x \in Elements(sent.items)} ELSE {sent.text}

\* VerifiedAnswers: a row holds strings that are not blank, or lists of them,
\* and what it was graded with.
TypeOK ==
    /\ question \in Questions
    /\ rule # None => rule.op \in Ops /\ rule.target \in {"question", "score"}
    /\ stored.is \in {"null", "string", "list"}
    /\ stored # Null => ~IsBlank(stored) /\ asked # None
    /\ points # None <=> asked # None
    /\ asked # None => points \in {0, asked.points}

\* neq is "strictly the negation of `eq`", and not_contains of contains_any,
\* on every answer, also on one that is missing, was given to another kind of
\* question, or is a score: swapping the operator swaps who has the role.
Complements ==
    Judged =>
        LET With(op) == Meets([rule EXCEPT !.op = op], Actual)
        IN  /\ rule.op \in {"eq", "neq"} /\ rule.value.is = "string" =>
                  (With("neq") <=> ~With("eq"))
            /\ rule.op \in {"contains_any", "not_contains"} =>
                  (With("not_contains") <=> ~With("contains_any"))

\* Whatever the question was when the rule was saved and is now, the list
\* operators compare with the set of options the member picked; eq and `in` hold
\* of that set when it was sent without repeats, and of no answer with repeats,
\* which the validator takes and the row keeps.
PicksExact ==
    Judged /\ rule.target = "question" /\ asked.kind \in Choice /\ stored # Null =>
        LET wanted == {x.text : x \in {y \in Elements(rule.value.items) : y.is = "string"}}
            holds == Meets(rule, stored)
        IN  /\ rule.op = "eq" /\ rule.value.is = "string" =>
                  (holds <=> Once(sent) /\ Picked = {rule.value.text})
            /\ rule.op = "in" => (holds <=> Once(sent) /\ \E x \in wanted : Picked = {x})
            /\ rule.op = "contains_all" => (holds <=> wanted \subseteq Picked)
            /\ rule.op = "contains_any" => (holds <=> wanted \cap Picked # {})
            /\ rule.op = "not_contains" => (holds <=> wanted \cap Picked = {})

\* What a numeric rule says of n.
Says(n) ==
    LET a == rule.value.num
    IN  \/ rule.op = "gt" /\ n > a
        \/ rule.op = "gte" /\ n >= a
        \/ rule.op = "lt" /\ n < a
        \/ rule.op = "lte" /\ n <= a
        \/ rule.op = "between" /\ a <= n /\ n <= rule.last.num

\* The numbers of the rule.
Bounds == {rule.value.num} \cup IF rule.op = "between" THEN {rule.last.num} ELSE {}

\* A number goes through the row as the text of an i64 or f64: a numeric rule
\* holds of the number that the member sent, unless that is a whole number
\* beyond i64 and the rule names an end of i64, when it holds of that end.  NaN,
\* which passes every bound of a question, meets none.
NumbersAgree ==
    Judged /\ rule.op \in NumOps /\ rule.target = "question" /\ asked.kind \in Numeric
      /\ stored # Null =>
        LET n == NumberIn(sent)
            beyond == n \in Finite \ (MinWhole .. MaxWhole)
            holds == Meets(rule, stored)
        IN  IF n = NaN THEN ~holds
            ELSE /\ ~beyond \/ Bounds \cap {MinWhole, MaxWhole} = {} => (holds <=> Says(n))
                 /\ beyond /\ n > MaxWhole => (holds <=> Says(MaxWhole))
                 /\ beyond /\ n < MinWhole => (holds <=> Says(MinWhole))

\* Checkboxes give no partial credit, and a single choice counts for any of the
\* options the key names.
PointsExact ==
    asked # None /\ asked.kind \in Choice /\ IsGraded(asked) /\ stored # Null =>
        (points = asked.points <=>
            IF asked.kind = "multi_choice" THEN Picked = Accepted(asked.key)
                                           ELSE Picked \subseteq Accepted(asked.key))

\* validate_quiz_keys "catches the mistakes that silently break grading": the
\* points of a graded choice question can be had by an answer that is accepted
\* (of a single choice the key names at least one option).
KeyReachable ==
    question.kind \in Choice /\ IsGraded(question) =>
        \E v \in Raws :
            /\ Validate(question, v) \notin {Null, Refused}
            /\ Score(question, Validate(question, v)) = question.points
=============================================================================
