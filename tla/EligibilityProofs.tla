------------------------- MODULE EligibilityProofs -------------------------
(***************************************************************************)
(* Proofs about Eligibility, for any questions, conditions, answers and    *)
(* texts, and any tables of what the libraries make of them that satisfy   *)
(* the assumptions there: a number that is printed reads back, and         *)
(* trimming twice is trimming once.                                        *)
(***************************************************************************)
EXTENDS Eligibility, TLAPS

USE TextsAssumption, NumbersAssumption

-----------------------------------------------------------------------------
(* Where the rule and the row come from. *)

\* The question is one that may be saved.
Askable(q) == q \in Questions /\ Sane(q) /\ KeyOk(q)

\* The rule was normalised when it was saved.
RuleSaved ==
    rule # None =>
        \E op \in Ops, target \in {"question", "score"}, v \in Inputs, w \in Inputs \cup {Null} :
            /\ rule = Condition(op, target, v, w)
            /\ Refused \notin {rule.value, rule.last}
            /\ op = "between" => w \in Inputs

\* The row was validated and graded when it was sent, with the question of then.
RowSent ==
    /\ asked = None => stored = Null /\ points = None /\ sent = Null
    /\ asked # None => /\ Askable(asked) /\ sent \in Raws
                       /\ stored = Validate(asked, sent) /\ stored # Refused
                       /\ points = Score(asked, stored)

Origins == Askable(question) /\ RuleSaved /\ RowSent

LEMMA OriginsInit == Init => Origins
BY DEF Init, Origins, Askable, RuleSaved, RowSent

LEMMA OriginsStep == Origins /\ [Next]_vars => Origins'
<1> SUFFICES ASSUME Origins, [Next]_vars PROVE Origins'
  OBVIOUS
<1>1. ASSUME NEW q \in Questions, SaveQuestion(q) PROVE Origins'
  BY <1>1 DEF SaveQuestion, Origins, Askable, RuleSaved, RowSent
<1>2. ASSUME NEW op \in Ops, NEW target \in {"question", "score"}, NEW v \in Inputs,
             NEW w \in IF op = "between" THEN Inputs ELSE {Null}, SaveRule(op, target, v, w)
      PROVE  Origins'
  <2>1. /\ rule' = Condition(op, target, v, w)
        /\ Refused \notin {rule'.value, rule'.last}
        /\ UNCHANGED <<question, stored, points, sent, asked>>
    BY <1>2 DEF SaveRule
  <2>2. w \in Inputs \cup {Null} /\ (op = "between" => w \in Inputs)
    OBVIOUS
  <2>3. RuleSaved'
    BY <2>1, <2>2 DEF RuleSaved
  <2> QED  BY <2>1, <2>3 DEF Origins, Askable, RowSent
<1>3. ASSUME NEW v \in Raws, Submit(v) PROVE Origins'
  <2>1. asked' # None
    BY <1>3, QuestionsAssumption DEF Submit, Origins, Askable
  <2> QED  BY <1>3, <2>1 DEF Submit, Origins, Askable, RuleSaved, RowSent
<1>4. CASE UNCHANGED vars
  BY <1>4 DEF vars, Origins, Askable, RuleSaved, RowSent
<1> QED  BY <1>1, <1>2, <1>3, <1>4 DEF Next

LEMMA OriginsAlways == Spec => []Origins
BY OriginsInit, OriginsStep, PTL DEF Spec

-----------------------------------------------------------------------------
(* JSON values. *)

LEMMA Shapes ==
    /\ Null.is = "null" /\ Refused.is = "refused"
    /\ \A x : Str(x).is = "string" /\ Str(x).text = x
    /\ \A n : Num(n).is = "number" /\ Num(n).num = n
    /\ \A s : List(s).is = "list" /\ List(s).items = s
BY DEF Null, Refused, Str, Num, List

LEMMA JsonShapes ==
    ASSUME NEW v, IsJson(v)
    PROVE  /\ v.is \in {"null", "string", "number", "list"}
           /\ v.is = "null" => v = Null
           /\ v.is = "string" => v = Str(v.text) /\ v.text \in Texts
           /\ v.is = "number" => v = Num(v.num) /\ v.num \in DOMAIN Show \cap Finite
           /\ v.is = "list" => v = List(v.items) /\ v.items \in Seq(Scalar)
BY Shapes DEF IsJson, Scalar

LEMMA Numbers ==
    /\ {MinWhole, MaxWhole} \subseteq Int /\ MinWhole < 0 /\ 0 < MaxWhole
    /\ -Inf < MinWhole /\ MaxWhole < Inf /\ Inf \in Int
    /\ MinWhole % 2 = 0 /\ MaxWhole % 2 = 0
    /\ \A n : n \in Finite <=> n \in Int /\ -Inf < n /\ n < Inf
    /\ \A n \in DOMAIN Show : n \in Int \cup {NaN}
<1>1. Inf \in Int
  OBVIOUS
<1>2. \A n : n \in Finite <=> n \in Int /\ -Inf < n /\ n < Inf
  BY <1>1 DEF Finite
<1>3. MinWhole \in Finite /\ MaxWhole \in Finite
  OBVIOUS
<1> QED  BY <1>1, <1>2, <1>3

\* A whole number goes through i64 as itself, or as the end it is beyond.
LEMMA Saturation ==
    ASSUME NEW n \in Int, n % 2 = 0
    PROVE  /\ Whole(n) \in Int
           /\ n > MaxWhole => Whole(n) = MaxWhole
           /\ n < MinWhole => Whole(n) = MinWhole
           /\ n \in MinWhole .. MaxWhole => Whole(n) = n
<1>1. (-n) % 2 = 0
  OBVIOUS
<1>2. (IF n >= 0 THEN n - (n % 2) ELSE n + ((-n) % 2)) = n
  BY <1>1
<1>3. Whole(n) = Saturated(n)
  BY <1>2 DEF Whole
<1> HIDE NumbersAssumption, TextsAssumption
<1> QED  BY <1>3, Numbers DEF Saturated

\* What the row keeps of a number that can be printed can be printed too.
LEMMA KeptNumber ==
    ASSUME NEW n \in DOMAIN Show
    PROVE  /\ Kept(n) \in DOMAIN Show
           /\ n \notin Finite \ (MinWhole .. MaxWhole) => Kept(n) = n
           /\ n \in Finite /\ n > MaxWhole => Kept(n) = MaxWhole
           /\ n \in Finite /\ n < MinWhole => Kept(n) = MinWhole
<1>1. CASE n \in Finite /\ n % 2 = 0
  <2>1. n \in Int /\ Kept(n) = Whole(n)
    BY <1>1, Numbers DEF Kept
  <2>2. n > MaxWhole \/ n < MinWhole \/ n \in MinWhole .. MaxWhole
    BY <2>1, Numbers
  <2>3. MinWhole \in DOMAIN Show /\ MaxWhole \in DOMAIN Show
    OBVIOUS
  <2> QED  BY <1>1, <2>1, <2>2, <2>3, Saturation, Numbers
<1>2. CASE ~(n \in Finite /\ n % 2 = 0)
  <2>1. Kept(n) = n
    BY <1>2 DEF Kept
  <2>2. n \in Finite => n \in MinWhole .. MaxWhole
    <3>1. \A m \in Int : m % 2 = 0 \/ m % 2 = 1
      OBVIOUS
    <3>2. n \in Finite => n % 2 = 1
      BY <1>2, <3>1, Numbers
    <3> QED  BY <3>2
  <2> QED  BY <2>1, <2>2, Numbers
<1> QED  BY <1>1, <1>2

\* NumberIn of a JSON value is a number that can be printed.
LEMMA NumbersIn ==
    ASSUME NEW v, IsJson(v) PROVE NumberIn(v) \in DOMAIN Show \cup {None}
BY JsonShapes DEF NumberIn

-----------------------------------------------------------------------------
(* The answers that are stored. *)

\* What is not blank has been through the check of the question's kind.
LEMMA NotBlank ==
    ASSUME NEW q, NEW v, Validate(q, v) \notin {Null, Refused}
    PROVE  ~IsBlank(v) /\ Fits(q, v) /\ Validate(q, v) = Cleaned(q, v)
BY DEF Validate, Typed

\* A kind at a time.
LEMMA TextAnswer ==
    ASSUME NEW q, NEW v, IsJson(v), ~IsBlank(v), Fits(q, v), q.kind \in Typing
    PROVE  /\ v.is = "string" /\ v.text \in Texts
           /\ Trim[v.text] # Empty /\ Cleaned(q, v) = Str(Trim[v.text])
<1>1. v.is = "string"
  BY DEF Fits, Typing, Numeric, Choice
<1> QED  BY <1>1, JsonShapes DEF IsBlank, Cleaned

LEMMA NumberAnswer ==
    ASSUME NEW q, NEW v, IsJson(v), Fits(q, v), q.kind \in Numeric
    PROVE  /\ NumberIn(v) \in DOMAIN Show /\ Kept(NumberIn(v)) \in DOMAIN Show
           /\ Cleaned(q, v) = Str(Show[Kept(NumberIn(v))])
<1>1. NumberIn(v) # None
  BY DEF Fits, Typing, Numeric, Choice
<1>2. q.kind \notin Typing
  BY DEF Numeric, Typing
<1> QED  BY <1>1, <1>2, NumbersIn, KeptNumber DEF Cleaned

LEMMA PickAnswer ==
    ASSUME NEW q, NEW v, IsJson(v), ~IsBlank(v), Fits(q, v),
           q.kind \in Choice \ {"multi_choice"}
    PROVE  /\ v.is = "string" /\ v.text \in q.options /\ v.text \in Texts
           /\ Trim[v.text] # Empty /\ Cleaned(q, v) = v /\ v = Str(v.text)
<1>1. v.is = "string" /\ v.text \in q.options
  BY DEF Fits, Typing, Numeric, Choice
<1>2. Cleaned(q, v) = v
  BY DEF Cleaned, Typing, Numeric, Choice
<1> QED  BY <1>1, <1>2, JsonShapes DEF IsBlank

LEMMA TicksAnswer ==
    ASSUME NEW q, NEW v, IsJson(v), ~IsBlank(v), Fits(q, v), q.kind = "multi_choice"
    PROVE  /\ v.is = "list" /\ Cleaned(q, v) = v /\ v = List(v.items)
           /\ \A x \in Elements(v.items) : x.is = "string" /\ x.text \in q.options
           /\ v.items # <<>>
<1>1. v.is = "list" /\ \A x \in Elements(v.items) : x.is = "string" /\ x.text \in q.options
  BY DEF Fits, Typing, Numeric, Choice
<1>2. v = List(v.items)
  BY <1>1, JsonShapes
<1>3. Cleaned(q, v) = v
  BY DEF Cleaned, Typing, Numeric
<1> QED  BY <1>1, <1>2, <1>3 DEF IsBlank

LEMMA AgreedAnswer ==
    ASSUME NEW q, NEW v, q.kind = "agreement"
    PROVE  Cleaned(q, v) = Str(Yes)
BY DEF Cleaned, Typing, Numeric

\* VerifiedAnswers: strings that are not blank, or lists that are not empty.
LEMMA StoredForm ==
    ASSUME NEW q \in Questions, NEW v \in Raws, Validate(q, v) \notin {Null, Refused}
    PROVE  /\ Validate(q, v).is \in {"string", "list"}
           /\ ~IsBlank(Validate(q, v))
<1>0. /\ IsJson(v) /\ ~IsBlank(v) /\ q.kind \in Kinds
      /\ Fits(q, v) /\ Validate(q, v) = Cleaned(q, v)
  BY NotBlank, JsonAssumption, QuestionsAssumption
<1>t. \A x : Trim[x] # Empty => Str(x).is = "string" /\ ~IsBlank(Str(x))
  BY Shapes DEF IsBlank
<1>1. CASE q.kind \in Typing
  <2>1. v.text \in Texts /\ Trim[v.text] # Empty /\ Cleaned(q, v) = Str(Trim[v.text])
    BY <1>0, <1>1, TextAnswer
  <2>2. Trim[Trim[v.text]] # Empty
    BY <2>1
  <2> QED  BY <1>0, <1>t, <2>1, <2>2
<1>2. CASE q.kind \in Numeric
  BY <1>0, <1>2, <1>t, NumberAnswer
<1>3. CASE q.kind \in Choice \ {"multi_choice"}
  BY <1>0, <1>3, PickAnswer
<1>4. CASE q.kind = "multi_choice"
  BY <1>0, <1>4, TicksAnswer
<1>5. CASE q.kind = "agreement"
  BY <1>0, <1>5, <1>t, AgreedAnswer
<1> QED  BY <1>0, <1>1, <1>2, <1>3, <1>4, <1>5 DEF Kinds

LEMMA ScoreValues == ASSUME NEW q, NEW v PROVE Score(q, v) \in {0, q.points}
BY DEF Score

\* A row holds what the validator lets pass, and the points it was graded with
\* (form_validator.rs), whatever is saved afterwards.
THEOREM TypesKept == Spec => []TypeOK
<1>1. Origins => TypeOK
  <2> SUFFICES ASSUME Origins PROVE TypeOK
    OBVIOUS
  <2>1. question \in Questions
    BY DEF Origins, Askable
  <2>2. rule # None => rule.op \in Ops /\ rule.target \in {"question", "score"}
    BY DEF Origins, RuleSaved, Condition
  <2>3. CASE asked = None
    BY <2>1, <2>2, <2>3, Shapes DEF Origins, RowSent, TypeOK
  <2>4. CASE asked # None
    <3>1. /\ asked \in Questions /\ sent \in Raws /\ KeyOk(asked)
          /\ stored = Validate(asked, sent) /\ stored # Refused
          /\ points = Score(asked, stored)
      BY <2>4 DEF Origins, RowSent, Askable
    <3>2. stored # Null => stored.is \in {"string", "list"} /\ ~IsBlank(stored)
      BY <3>1, StoredForm
    <3>3. points \in {0, asked.points}
      BY <3>1, ScoreValues
    <3>4. points # None
      <4>1. asked.points \in 0 .. MaxQuestionPoints
        BY <3>1 DEF KeyOk
      <4>2. asked.points \in Int
        BY <4>1
      <4> QED  BY <3>3, <4>2
    <3> QED  BY <2>1, <2>2, <2>4, <3>2, <3>3, <3>4, Shapes DEF TypeOK
  <2> QED  BY <2>3, <2>4
<1> QED  BY <1>1, OriginsAlways, PTL

-----------------------------------------------------------------------------
(* What grading and the operators look at. *)

\* What the row holds of a single choice, and of checkboxes, is what was sent.
LEMMA ChoiceStored ==
    ASSUME Origins, asked # None, asked.kind \in Choice, stored # Null
    PROVE  /\ asked \in Questions /\ KeyOk(asked) /\ sent \in Raws /\ IsJson(sent)
           /\ stored = sent /\ points = Score(asked, sent) /\ ~IsBlank(sent)
           /\ asked.kind # "multi_choice" => /\ sent = Str(sent.text) /\ sent.is = "string"
                                             /\ sent.text \in asked.options
                                             /\ sent.text \in Texts
           /\ asked.kind = "multi_choice" =>
                 /\ sent.is = "list" /\ sent = List(sent.items) /\ sent.items # <<>>
                 /\ \A x \in Elements(sent.items) : x.is = "string" /\ x.text \in asked.options
<1>1. /\ asked \in Questions /\ sent \in Raws /\ KeyOk(asked)
      /\ stored = Validate(asked, sent) /\ stored # Refused
      /\ points = Score(asked, stored)
  BY DEF Origins, RowSent, Askable
<1>2. IsJson(sent)
  BY <1>1, JsonAssumption
<1>3. ~IsBlank(sent) /\ Fits(asked, sent) /\ stored = Cleaned(asked, sent)
  BY <1>1, NotBlank
<1>4. CASE asked.kind = "multi_choice"
  BY <1>1, <1>2, <1>3, <1>4, TicksAnswer
<1>5. CASE asked.kind # "multi_choice"
  BY <1>1, <1>2, <1>3, <1>5, PickAnswer
<1> QED  BY <1>4, <1>5

\* Every option may be picked, and every set of them be ticked, for points.
LEMMA PickCounts ==
    ASSUME NEW q, NEW k, q.kind \in Choice \ {"multi_choice"}, q.points > 0,
           k \in q.options, k \in Accepted(q.key), Validate(q, Str(k)) = Str(k)
    PROVE  Score(q, Validate(q, Str(k))) = q.points
<1>1. Correct(q, Str(k))
  BY Shapes DEF Correct, Choice
<1>2. Str(k) # Null
  BY Shapes
<1> QED  BY <1>1, <1>2 DEF Score

\* The key of a graded choice question can be answered (validate_quiz_keys in
\* form_validator.rs): after every save of the question some answer that the
\* validator accepts has all of its points.
THEOREM KeysReachable == Spec => []KeyReachable
<1>1. Origins => KeyReachable
  <2> SUFFICES ASSUME Origins, question.kind \in Choice, IsGraded(question)
               PROVE  \E v \in Raws :
                         /\ Validate(question, v) \notin {Null, Refused}
                         /\ Score(question, Validate(question, v)) = question.points
    BY DEF KeyReachable
  <2>1. /\ question \in Questions /\ question.points > 0
        /\ Accepted(question.key) \in (SUBSET question.options) \ {{}}
    BY DEF Origins, Askable, KeyOk, IsGraded
  <2>2. \A k \in Accepted(question.key) : Trim[k] # Empty
    BY DEF Accepted
  <2>3. CASE question.kind # "multi_choice"
    <3>1. PICK k \in Accepted(question.key) : TRUE
      BY <2>1
    <3>2. Str(k) \in Raws /\ k \in question.options
      BY <2>1, <3>1, PageAssumption
    <3>3. Validate(question, Str(k)) = Str(k)
      <4>1. ~IsBlank(Str(k))
        BY <2>2, Shapes DEF IsBlank
      <4>2. Fits(question, Str(k))
        BY <2>3, <3>2, Shapes DEF Fits
      <4>3. Cleaned(question, Str(k)) = Str(k)
        BY <2>3 DEF Cleaned, Choice, Typing, Numeric
      <4> QED  BY <4>1, <4>2, <4>3 DEF Validate, Typed
    <3>4. Score(question, Str(k)) = question.points
      BY <2>1, <2>3, <3>1, <3>2, <3>3, PickCounts
    <3>5. Str(k) \notin {Null, Refused}
      BY Shapes
    <3> QED  BY <3>2, <3>3, <3>4, <3>5
  <2>4. CASE question.kind = "multi_choice"
    <3>1. PICK v \in Raws :
             v.is = "list" /\ Elements(v.items) = {Str(o) : o \in Accepted(question.key)}
      BY <2>1, PageAssumption
    <3>2. {x.text : x \in Elements(v.items)} = Accepted(question.key)
      <4>1. \A x \in Elements(v.items) : x.text \in Accepted(question.key)
        BY <3>1, Shapes
      <4>2. ASSUME NEW o \in Accepted(question.key)
            PROVE  o \in {x.text : x \in Elements(v.items)}
        <5>1. Str(o) \in Elements(v.items) /\ Str(o).text = o
          BY <3>1, Shapes
        <5> QED  BY <5>1
      <4> QED  BY <4>1, <4>2
    <3>3. Validate(question, v) = v
      <4>1. ~IsBlank(v)
        <5>1. Elements(v.items) # {}
          BY <2>1, <3>1
        <5>2. v # List(<<>>)
          BY <5>1, Shapes DEF Elements
        <5> QED  BY <3>1, <5>2, Shapes DEF IsBlank
      <4>2. Fits(question, v)
        BY <2>1, <2>4, <3>1, Shapes DEF Fits
      <4>3. Cleaned(question, v) = v
        BY <2>4 DEF Cleaned, Choice, Typing, Numeric
      <4> QED  BY <4>1, <4>2, <4>3 DEF Validate, Typed
    <3>4. v \notin {Null, Refused}
      BY <3>1, Shapes
    <3>5. Correct(question, v)
      BY <2>1, <2>4, <3>1, <3>2 DEF Correct
    <3> QED  BY <2>1, <3>3, <3>4, <3>5 DEF Score
  <2> QED  BY <2>3, <2>4
<1> QED  BY <1>1, OriginsAlways, PTL

\* The ids of a question's options differ in more than the spaces around them.
\* sanity_check only asks that they differ.
OptionsApart == \A q \in Questions : \A o, p \in q.options : Trim[o] = Trim[p] => o = p

\* compute_quiz_score gives a choice question its points for exactly the ticks
\* of the key, or for one of its options; grading trims the ids it compares.
THEOREM PointsFollowKey == OptionsApart => (Spec => []PointsExact)
<1> SUFFICES ASSUME OptionsApart PROVE Spec => []PointsExact
  OBVIOUS
<1>1. Origins => PointsExact
  <2> SUFFICES ASSUME Origins, asked # None, asked.kind \in Choice,
                      IsGraded(asked), stored # Null
               PROVE  points = asked.points <=>
                        IF asked.kind = "multi_choice" THEN Picked = Accepted(asked.key)
                                                       ELSE Picked \subseteq Accepted(asked.key)
    BY DEF PointsExact
  <2>1. asked.points # 0 /\ asked.points > 0 /\ Accepted(asked.key) # {}
    <3>1. asked.points \in 0 .. MaxQuestionPoints
      BY ChoiceStored DEF KeyOk
    <3> QED  BY <3>1 DEF IsGraded
  <2>2. points = asked.points <=> Correct(asked, sent)
    BY <2>1, ChoiceStored DEF Score
  <2>3. CASE asked.kind = "multi_choice"
    <3>1. Correct(asked, sent) <=> {x.text : x \in Elements(sent.items)} = Accepted(asked.key)
      BY <2>1, <2>3, ChoiceStored DEF Correct, Numeric
    <3>2. Picked = {x.text : x \in Elements(sent.items)}
      BY <2>3, ChoiceStored DEF Picked
    <3> QED  BY <2>2, <2>3, <3>1, <3>2
  <2>4. CASE asked.kind # "multi_choice"
    <3>1. Correct(asked, sent) <=> \E k \in Accepted(asked.key) : Trim[k] = Trim[sent.text]
      BY <2>4, ChoiceStored DEF Correct, Numeric, Choice
    <3>2. Accepted(asked.key) \subseteq asked.options
      BY ChoiceStored DEF KeyOk
    <3>3. Picked = {sent.text}
      BY <2>4, ChoiceStored DEF Picked
    <3>4. Correct(asked, sent) <=> sent.text \in Accepted(asked.key)
      BY <2>4, <3>1, <3>2, ChoiceStored DEF OptionsApart
    <3> QED  BY <2>2, <2>4, <3>3, <3>4
  <2> QED  BY <2>3, <2>4
<1> QED  BY <1>1, OriginsAlways, PTL

-----------------------------------------------------------------------------
(* What the saved conditions hold. *)

\* The rule as normalize_condition_value left it.
LEMMA RuleForm ==
    ASSUME Origins, rule # None
    PROVE  /\ rule = [op |-> rule.op, target |-> rule.target,
                      value |-> rule.value, last |-> rule.last]
           /\ rule.op \in Ops /\ Refused \notin {rule.value, rule.last}
           /\ \E v \in Inputs : rule.value = Normal(rule.op, v)
           /\ rule.op = "between" => \E w \in Inputs : rule.last = Normal("between", w)
           /\ rule.op # "between" => rule.last = Null
BY DEF Origins, RuleSaved, Condition

\* The value of eq and neq is never the empty string.
LEMMA EqualValue ==
    ASSUME Origins, rule # None, rule.op \in {"eq", "neq"}, rule.value.is = "string"
    PROVE  /\ rule.value.text \in Texts /\ rule.value.text # Empty
           /\ StringValue(rule.value) = rule.value.text /\ rule.value.text # None
<1>1. PICK v \in Inputs : rule.value = Normal(rule.op, v)
  BY RuleForm
<1>2. IsJson(v) /\ rule.value = NormalText(v)
  BY <1>1, JsonAssumption DEF Normal, NumOps, ListOps, DateOps
<1>3. v.is \in {"string", "number"} /\ ~(v.is = "string" /\ IsBlank(v))
  BY <1>2, JsonShapes, Shapes DEF NormalText
<1>4. CASE v.is = "string"
  <2>1. v.text \in Texts /\ rule.value = v /\ Trim[v.text] # Empty
    BY <1>2, <1>3, <1>4, JsonShapes, Shapes DEF NormalText, IsBlank
  <2> QED  BY <1>4, <2>1 DEF StringValue
<1>5. CASE v.is = "number"
  <2>1. v.num \in DOMAIN Show /\ rule.value = Str(Show[v.num])
    BY <1>2, <1>5, JsonShapes, Shapes DEF NormalText
  <2>2. Show[v.num] \in Texts /\ Trim[Show[v.num]] # Empty
    BY <2>1
  <2> QED  BY <2>1, <2>2, Shapes DEF StringValue
<1> QED  BY <1>3, <1>4, <1>5

\* The value of a list operator is a list.
LEMMA ListValue ==
    ASSUME Origins, rule # None, rule.op \in ListOps
    PROVE  rule.value.is = "list"
<1>1. PICK v \in Inputs : rule.value = Normal(rule.op, v)
  BY RuleForm
<1>2. rule.value = NormalList(v) /\ rule.value # Refused
  BY <1>1, RuleForm DEF Normal, NumOps, ListOps
<1> QED  BY <1>2, Shapes DEF NormalList

\* The values of a numeric operator are numbers of i64.
LEMMA NumberNormal ==
    ASSUME NEW v, IsJson(v), NormalNumber(v) # Refused
    PROVE  \E n \in MinWhole .. MaxWhole : NormalNumber(v) = Num(n)
<1>1. CASE v.is = "number"
  <2>1. v.num \in Int
    BY <1>1, JsonShapes, Numbers
  <2>2. Whole(v.num) \in MinWhole .. MaxWhole
    <3>1. (IF v.num >= 0 THEN v.num - (v.num % 2) ELSE v.num + ((-v.num) % 2)) \in Int
      BY <2>1
    <3> QED  BY <3>1, Numbers DEF Whole, Saturated
  <2> QED  BY <1>1, <2>2 DEF NormalNumber
<1>2. CASE v.is = "string"
  <2>1. ParseInt[Trim[v.text]] \in (MinWhole .. MaxWhole) \cup {None}
    <3>1. v.text \in Texts
      BY <1>2, JsonShapes
    <3>2. Wholes \subseteq MinWhole .. MaxWhole
      BY DEF Wholes
    <3> QED  BY <3>1, <3>2
  <2> QED  BY <1>2, <2>1 DEF NormalNumber
<1> QED  BY <1>1, <1>2 DEF NormalNumber

LEMMA NumberValues ==
    ASSUME Origins, rule # None, rule.op \in NumOps
    PROVE  /\ rule.value.is = "number" /\ rule.value.num \in MinWhole .. MaxWhole
           /\ NumericValue(rule.value) = rule.value.num
           /\ rule.op = "between" => /\ rule.last.num \in MinWhole .. MaxWhole
                                     /\ NumericValue(rule.last) = rule.last.num
<1>0. \A v \in Inputs, op \in NumOps : Normal(op, v) # Refused =>
        \E n \in MinWhole .. MaxWhole : Normal(op, v) = Num(n)
  BY NumberNormal, JsonAssumption DEF Normal
<1>1. PICK n \in MinWhole .. MaxWhole : rule.value = Num(n)
  BY <1>0, RuleForm
<1>2. rule.op = "between" => \E m \in MinWhole .. MaxWhole : rule.last = Num(m)
  <2>1. ASSUME rule.op = "between" PROVE \E m \in MinWhole .. MaxWhole : rule.last = Num(m)
    <3>1. \E w \in Inputs : rule.last = Normal("between", w) /\ rule.last # Refused
      BY <2>1, RuleForm
    <3>2. "between" \in NumOps
      BY DEF NumOps
    <3> QED  BY <1>0, <3>1, <3>2
  <2> QED  BY <2>1
<1> QED  BY <1>1, <1>2, Shapes DEF NumericValue

\* neq grants the role to exactly those whom eq does not, and not_contains to
\* those whom contains_any does not (condition_eval.rs), on whatever is stored.
THEOREM ComplementsKept == Spec => []Complements
<1>1. Origins => Complements
  <2> SUFFICES ASSUME Origins, Judged PROVE Complements
    BY DEF Complements
  <2> DEFINE With(op) == Meets([rule EXCEPT !.op = op], Actual)
             swapped(op) == [op |-> op, target |-> rule.target,
                             value |-> rule.value, last |-> rule.last]
  <2>1. \A op : [rule EXCEPT !.op = op] = swapped(op)
    BY RuleForm DEF Judged
  <2>2. \A op : /\ swapped(op).op = op /\ swapped(op).value = rule.value
                /\ swapped(op).last = rule.last
    OBVIOUS
  <2>3. ASSUME rule.op \in {"eq", "neq"}, rule.value.is = "string"
        PROVE  With("neq") <=> ~With("eq")
    <3>1. StringValue(rule.value) # None /\ rule.value.text # Empty
      BY <2>3, EqualValue DEF Judged
    <3>2. CASE Actual = Null
      BY <2>1, <2>2, <2>3, <3>1, <3>2 DEF Meets, MayBeMissing, Missing
    <3>3. CASE Actual # Null
      <4>1. Present(swapped("eq"), Actual) <=> EqMatches(Actual, rule.value)
        BY <2>2, <3>1 DEF Present, NumOps, DateOps
      <4>2. Present(swapped("neq"), Actual) <=> ~EqMatches(Actual, rule.value)
        BY <2>2, <3>1 DEF Present, NumOps, DateOps
      <4> QED  BY <2>1, <3>3, <4>1, <4>2 DEF Meets
    <3> QED  BY <3>2, <3>3
  <2>4. ASSUME rule.op \in {"contains_any", "not_contains"}
        PROVE  With("not_contains") <=> ~With("contains_any")
    <3>1. CASE Actual = Null
      BY <2>1, <2>2, <3>1 DEF Meets, MayBeMissing, Missing
    <3>2. CASE Actual # Null
      <4>1. Present(swapped("contains_any"), Actual)
              <=> Selected(rule.value) \cap Selected(Actual) # {}
        BY <2>2 DEF Present, NumOps, DateOps
      <4>2. Present(swapped("not_contains"), Actual)
              <=> Selected(rule.value) \cap Selected(Actual) = {}
        BY <2>2 DEF Present, NumOps, DateOps
      <4> QED  BY <2>1, <3>2, <4>1, <4>2 DEF Meets
    <3> QED  BY <3>1, <3>2
  <2> QED  BY <2>3, <2>4 DEF Complements
<1> QED  BY <1>1, OriginsAlways, PTL

\* A number goes to the row as text and comes back as what was kept of it.
LEMMA NumberStored ==
    ASSUME Origins, asked # None, asked.kind \in Numeric, stored # Null
    PROVE  /\ NumberIn(sent) \in DOMAIN Show
           /\ Kept(NumberIn(sent)) \in Int \cup {NaN} /\ Kept(NumberIn(sent)) # None
           /\ NumericValue(stored) = Kept(NumberIn(sent))
<1>1. /\ sent \in Raws /\ stored = Validate(asked, sent) /\ stored # Refused
  BY DEF Origins, RowSent
<1>2. IsJson(sent) /\ Fits(asked, sent) /\ stored = Cleaned(asked, sent)
  BY <1>1, JsonAssumption, NotBlank
<1>3. /\ NumberIn(sent) \in DOMAIN Show /\ Kept(NumberIn(sent)) \in DOMAIN Show
      /\ stored = Str(Show[Kept(NumberIn(sent))])
  BY <1>2, NumberAnswer
<1>4. Parse[Show[Kept(NumberIn(sent))]] = Kept(NumberIn(sent))
  BY <1>3
<1> QED  BY <1>3, <1>4, Numbers, Shapes DEF NumericValue

\* evaluate_single compares the number that was kept.
LEMMA NumberJudged ==
    ASSUME Origins, Judged, rule.op \in NumOps, asked.kind \in Numeric, stored # Null,
           NEW m, m = Kept(NumberIn(sent))
    PROVE  /\ rule.value.num \in MinWhole .. MaxWhole
           /\ rule.op = "between" => rule.last.num \in MinWhole .. MaxWhole
           /\ m = NaN => ~Meets(rule, stored)
           /\ m # NaN => (Meets(rule, stored) <=> Says(m))
<1> DEFINE a == rule.value.num
           b == IF NumericValue(rule.last) = None THEN a ELSE NumericValue(rule.last)
<1>1. m \in Int \cup {NaN} /\ m # None /\ NumericValue(stored) = m
  BY NumberStored DEF Judged
<1>r. /\ rule.value.num \in MinWhole .. MaxWhole
      /\ rule.op = "between" => rule.last.num \in MinWhole .. MaxWhole
  BY NumberValues DEF Judged
<1>2. a \in Int /\ NumericValue(rule.value) = a /\ a # None
  BY <1>r, NumberValues DEF Judged
<1>3. rule.op = "between" => rule.last.num \in Int /\ b = rule.last.num
  BY <1>r, NumberValues DEF Judged
<1>4. Meets(rule, stored) <=> Compare(rule.op, m, a, b)
  <2>1. Present(rule, stored) <=>
          /\ NumericValue(stored) # None /\ NumericValue(rule.value) # None
          /\ Compare(rule.op, NumericValue(stored), a, b)
    BY <1>2 DEF Present, NumOps, DateOps
  <2> QED  BY <1>1, <1>2, <2>1 DEF Meets
<1>5. ASSUME m = NaN PROVE ~Compare(rule.op, m, a, b)
  BY <1>2, <1>5 DEF Compare, Less
<1>6. ASSUME m # NaN PROVE Compare(rule.op, m, a, b) <=> Says(m)
  <2>1. m \in Int /\ a # NaN /\ (rule.op = "between" => b # NaN)
    BY <1>1, <1>2, <1>3, <1>6
  <2>2. Says(m) <=> \/ rule.op = "gt" /\ m > a
                    \/ rule.op = "gte" /\ m >= a
                    \/ rule.op = "lt" /\ m < a
                    \/ rule.op = "lte" /\ m <= a
                    \/ rule.op = "between" /\ a <= m /\ m <= rule.last.num
    BY DEF Says
  <2> HIDE DEF a, b
  <2>3. Less(a, m) <=> m > a
    BY <1>2, <1>6, <2>1 DEF Less
  <2>4. Less(m, a) <=> m < a
    BY <1>2, <1>6, <2>1 DEF Less
  <2>5. rule.op = "between" => (~Less(b, m) <=> m <= rule.last.num)
    BY <1>3, <1>6, <2>1 DEF Less
  <2> QED  BY <1>2, <1>3, <1>6, <2>1, <2>2, <2>3, <2>4, <2>5 DEF Compare
<1> HIDE DEF b
<1> QED  BY <1>r, <1>4, <1>5, <1>6

\* A numeric condition compares the number the member sent (condition_eval.rs,
\* form_validator.rs), though the row holds its text, up to the ends of i64, as
\* which all whole numbers beyond them count; NaN meets none.
THEOREM NumbersKept == Spec => []NumbersAgree
<1>1. Origins => NumbersAgree
  <2> SUFFICES ASSUME Origins, Judged, rule.op \in NumOps, rule.target = "question",
                      asked.kind \in Numeric, stored # Null
               PROVE  LET n == NumberIn(sent)
                          beyond == n \in Finite \ (MinWhole .. MaxWhole)
                          holds == Meets(rule, stored)
                      IN  IF n = NaN THEN ~holds
                          ELSE /\ ~beyond \/ Bounds \cap {MinWhole, MaxWhole} = {}
                                      => (holds <=> Says(n))
                               /\ beyond /\ n > MaxWhole => (holds <=> Says(MaxWhole))
                               /\ beyond /\ n < MinWhole => (holds <=> Says(MinWhole))
    BY DEF NumbersAgree
  <2> DEFINE n == NumberIn(sent)
             beyond == n \in Finite \ (MinWhole .. MaxWhole)
             holds == Meets(rule, stored)
  <2>1. n \in DOMAIN Show /\ n \in Int \cup {NaN}
    BY NumberStored, Numbers DEF Judged
  <2>2. /\ n \notin Finite \ (MinWhole .. MaxWhole) => Kept(n) = n
        /\ n \in Finite /\ n > MaxWhole => Kept(n) = MaxWhole
        /\ n \in Finite /\ n < MinWhole => Kept(n) = MinWhole
    BY <2>1, KeptNumber
  <2>3. /\ Kept(n) = NaN => ~holds
        /\ Kept(n) # NaN => (holds <=> Says(Kept(n)))
        /\ rule.value.num \in MinWhole .. MaxWhole
        /\ rule.op = "between" => rule.last.num \in MinWhole .. MaxWhole
    BY NumberJudged
  <2>4. ASSUME n = NaN PROVE ~holds
    <3>1. n \notin Finite
      BY <2>4, Numbers
    <3> QED  BY <2>2, <2>3, <2>4, <3>1
  <2>5. ASSUME n # NaN, ~beyond PROVE holds <=> Says(n)
    BY <2>2, <2>3, <2>5
  <2>6. ASSUME beyond, n > MaxWhole PROVE holds <=> Says(MaxWhole)
    BY <2>2, <2>3, <2>6, Numbers
  <2>7. ASSUME beyond, n < MinWhole PROVE holds <=> Says(MinWhole)
    BY <2>2, <2>3, <2>7, Numbers
  <2>8. ASSUME beyond, n # NaN, Bounds \cap {MinWhole, MaxWhole} = {}
        PROVE  holds <=> Says(n)
    <3> DEFINE a == rule.value.num
               b == rule.last.num
    <3>1. /\ a # MinWhole /\ a # MaxWhole
          /\ rule.op = "between" => b # MinWhole /\ b # MaxWhole
      BY <2>8 DEF Bounds
    <3>2. /\ a \in Int /\ MinWhole < a /\ a < MaxWhole
          /\ rule.op = "between" => b \in Int /\ MinWhole < b /\ b < MaxWhole
      BY <2>3, <3>1, Numbers
    <3>3. ASSUME NEW x \in Int, NEW y \in Int,
                 (x > MaxWhole /\ y = MaxWhole) \/ (x < MinWhole /\ y = MinWhole)
          PROVE  Says(x) <=> Says(y)
      <4>1. /\ x > a <=> y > a
            /\ x >= a <=> y >= a
            /\ x < a <=> y < a
            /\ x <= a <=> y <= a
            /\ a <= x <=> a <= y
            /\ rule.op = "between" => (x <= b <=> y <= b)
        BY <3>2, <3>3, Numbers
      <4> QED  BY <4>1 DEF Says
    <3>4. CASE n > MaxWhole
      BY <2>1, <2>6, <2>8, <3>3, <3>4, Numbers
    <3>5. CASE ~(n > MaxWhole)
      <4>1. n \in Int /\ n < MinWhole
        BY <2>1, <2>8, <3>5, Numbers
      <4> QED  BY <2>7, <2>8, <3>3, <4>1, Numbers
    <3> QED  BY <3>4, <3>5
  <2> QED  BY <2>4, <2>5, <2>6, <2>7, <2>8
<1> QED  BY <1>1, OriginsAlways, PTL

-----------------------------------------------------------------------------
(* The options that are picked. *)

\* The selections of a list are its strings.
LEMMA ListPlaces ==
    ASSUME NEW v, v.is = "list"
    PROVE  /\ DOMAIN Selections(v) = {i \in DOMAIN v.items : v.items[i].is = "string"}
           /\ \A i \in DOMAIN Selections(v) : Selections(v)[i] = v.items[i].text
BY DEF Selections

LEMMA ListSelected ==
    ASSUME NEW v, v.is = "list"
    PROVE  Selected(v) = {x.text : x \in {y \in Elements(v.items) : y.is = "string"}}
<1>0. /\ DOMAIN Selections(v) = {i \in DOMAIN v.items : v.items[i].is = "string"}
      /\ \A i \in DOMAIN Selections(v) : Selections(v)[i] = v.items[i].text
  BY ListPlaces
<1>1. ASSUME NEW t \in Selected(v)
      PROVE  t \in {x.text : x \in {y \in Elements(v.items) : y.is = "string"}}
  BY <1>0 DEF Selected, Elements
<1>2. ASSUME NEW x \in Elements(v.items), x.is = "string" PROVE x.text \in Selected(v)
  BY <1>0, <1>2 DEF Selected, Elements
<1> QED  BY <1>1, <1>2

LEMMA StringSelected ==
    ASSUME NEW v, v.is = "string", v.text \in Texts
    PROVE  Selections(v) = <<v.text>> /\ Selected(v) = {v.text}
<1>1. Selections(v) = <<v.text>>
  BY DEF Selections, StringValue
<1> QED  BY <1>1 DEF Selected, Elements

\* What the operators see of a choice is the set of options that were picked.
LEMMA PicksSeen ==
    ASSUME Origins, asked # None, asked.kind \in Choice, stored # Null
    PROVE  /\ Selected(stored) = Picked
           /\ \A x : Only(stored, x) <=> Once(sent) /\ Picked = {x}
<1>1. CASE asked.kind = "multi_choice"
  <2>1. /\ stored = sent /\ sent.is = "list" /\ sent.items # <<>>
        /\ \A x \in Elements(sent.items) : x.is = "string"
    BY <1>1, ChoiceStored
  <2>2. sent.items \in Seq(Scalar)
    BY <2>1, ChoiceStored, JsonShapes
  <2>3. Selected(stored) = Picked
    <3>1. {y \in Elements(sent.items) : y.is = "string"} = Elements(sent.items)
      BY <2>1
    <3>2. Selected(stored) = {x.text : x \in Elements(sent.items)}
      BY <2>1, <3>1, ListSelected
    <3> QED  BY <2>1, <3>2 DEF Picked
  <2>4. /\ DOMAIN Selections(stored) = DOMAIN sent.items
        /\ \A i \in DOMAIN sent.items : Selections(stored)[i] = sent.items[i].text
    <3>1. \A i \in DOMAIN sent.items : sent.items[i].is = "string"
      BY <2>1 DEF Elements
    <3>2. {i \in DOMAIN sent.items : sent.items[i].is = "string"} = DOMAIN sent.items
      BY <3>1
    <3>3. /\ DOMAIN Selections(sent) = {i \in DOMAIN sent.items : sent.items[i].is = "string"}
          /\ \A i \in DOMAIN Selections(sent) : Selections(sent)[i] = sent.items[i].text
      BY <2>1, ListPlaces
    <3> QED  BY <2>1, <3>2, <3>3
  <2>5. \A i \in DOMAIN sent.items : sent.items[i] = Str(sent.items[i].text)
    <3>1. ASSUME NEW i \in DOMAIN sent.items
          PROVE  sent.items[i] \in Scalar /\ sent.items[i].is = "string"
      BY <2>1, <2>2 DEF Elements
    <3> QED  BY <3>1, Shapes DEF Scalar
  <2>6. Once(sent) <=>
          \A i, j \in DOMAIN sent.items : sent.items[i].text = sent.items[j].text => i = j
    <3>1. \A i, j \in DOMAIN sent.items :
             sent.items[i] = sent.items[j] <=> sent.items[i].text = sent.items[j].text
      BY <2>5
    <3> QED  BY <2>1, <3>1 DEF Once
  <2>7. DOMAIN sent.items # {}
    <3>1. DOMAIN sent.items = 1 .. Len(sent.items) /\ Len(sent.items) \in Nat
      BY <2>2
    <3>2. Len(sent.items) # 0
      BY <2>1, <2>2
    <3>3. 1 \in DOMAIN sent.items
      BY <3>1, <3>2
    <3> QED  BY <3>3
  <2>8. Picked = {sent.items[i].text : i \in DOMAIN sent.items}
    BY <2>1 DEF Picked, Elements
  <2>9. ASSUME NEW x PROVE Only(stored, x) <=> Once(sent) /\ Picked = {x}
    <3>1. ASSUME Only(stored, x) PROVE Once(sent) /\ Picked = {x}
      BY <2>4, <2>6, <2>8, <3>1 DEF Only
    <3>2. ASSUME Once(sent), Picked = {x} PROVE Only(stored, x)
      <4>1. PICK i \in DOMAIN sent.items : TRUE
        BY <2>7
      <4>2. \A j \in DOMAIN sent.items : sent.items[j].text = x
        <5>1. \A j \in DOMAIN sent.items : sent.items[j].text \in Picked
          BY <2>8
        <5> QED  BY <3>2, <5>1
      <4>3. DOMAIN sent.items = {i}
        BY <2>6, <3>2, <4>1, <4>2
      <4> QED  BY <2>4, <4>1, <4>2, <4>3 DEF Only
    <3> QED  BY <3>1, <3>2
  <2> QED  BY <2>3, <2>9
<1>2. CASE asked.kind # "multi_choice"
  <2>1. stored = sent /\ sent.is = "string" /\ sent.text \in Texts
    BY <1>2, ChoiceStored
  <2>2. Selections(stored) = <<sent.text>> /\ Selected(stored) = {sent.text}
    BY <2>1, StringSelected
  <2>3. Picked = {sent.text} /\ Once(sent)
    BY <2>1 DEF Picked, Once
  <2>4. \A x : Only(stored, x) <=> sent.text = x
    BY <2>2 DEF Only
  <2> QED  BY <2>2, <2>3, <2>4
<1> QED  BY <1>1, <1>2

\* A condition on options holds of the set of options the member picked
\* (condition_eval.rs), whatever the question has become since, except that eq
\* and `in` hold of no answer in which an option is repeated.
THEOREM PicksCompared == Spec => []PicksExact
<1>1. Origins => PicksExact
  <2> SUFFICES ASSUME Origins, Judged, rule.target = "question", asked.kind \in Choice,
                      stored # Null
               PROVE  LET wanted == {x.text : x \in {y \in Elements(rule.value.items) :
                                                        y.is = "string"}}
                          holds == Meets(rule, stored)
                      IN  /\ rule.op = "eq" /\ rule.value.is = "string"
                               => (holds <=> Once(sent) /\ Picked = {rule.value.text})
                          /\ rule.op = "in" 
                               => (holds <=> Once(sent) /\ \E x \in wanted : Picked = {x})
                          /\ rule.op = "contains_all" => (holds <=> wanted \subseteq Picked)
                          /\ rule.op = "contains_any" => (holds <=> wanted \cap Picked # {})
                          /\ rule.op = "not_contains" => (holds <=> wanted \cap Picked = {})
    BY DEF PicksExact
  <2> DEFINE wanted == {x.text : x \in {y \in Elements(rule.value.items) : y.is = "string"}}
             holds == Meets(rule, stored)
  <2>0. /\ holds <=> Present(rule, stored)
        /\ Selected(stored) = Picked /\ \A x : Only(stored, x) <=> Once(sent) /\ Picked = {x}
    BY PicksSeen DEF Meets, Judged
  <2>1. ASSUME rule.op \in ListOps PROVE Selected(rule.value) = wanted
    BY <2>1, ListValue, ListSelected DEF Judged
  <2> HIDE DEF wanted, holds
  <2>2. ASSUME rule.op = "eq", rule.value.is = "string"
        PROVE  holds <=> Once(sent) /\ Picked = {rule.value.text}
    <3>1. /\ StringValue(rule.value) = rule.value.text /\ rule.value.text # None
      BY <2>2, EqualValue DEF Judged
    <3>2. Present(rule, stored) <=> EqMatches(stored, rule.value)
      BY <2>2, <3>1 DEF Present, NumOps, DateOps
    <3> QED  BY <2>0, <3>1, <3>2 DEF EqMatches
  <2>3. ASSUME rule.op = "in"
        PROVE  holds <=> Once(sent) /\ \E x \in wanted : Picked = {x}
    <3>1. Present(rule, stored) <=> \E x \in Selected(rule.value) : Only(stored, x)
      BY <2>3 DEF Present, NumOps, DateOps
    <3> QED  BY <2>0, <2>1, <2>3, <3>1 DEF ListOps
  <2>4. ASSUME rule.op = "contains_all" PROVE holds <=> wanted \subseteq Picked
    <3>1. Present(rule, stored) <=> Selected(rule.value) \subseteq Selected(stored)
      BY <2>4 DEF Present, NumOps, DateOps
    <3> QED  BY <2>0, <2>1, <2>4, <3>1 DEF ListOps
  <2>5. ASSUME rule.op = "contains_any" PROVE holds <=> wanted \cap Picked # {}
    <3>1. Present(rule, stored) <=> Selected(rule.value) \cap Selected(stored) # {}
      BY <2>5 DEF Present, NumOps, DateOps
    <3> QED  BY <2>0, <2>1, <2>5, <3>1 DEF ListOps
  <2>6. ASSUME rule.op = "not_contains" PROVE holds <=> wanted \cap Picked = {}
    <3>1. Present(rule, stored) <=> Selected(rule.value) \cap Selected(stored) = {}
      BY <2>6 DEF Present, NumOps, DateOps
    <3> QED  BY <2>0, <2>1, <2>6, <3>1 DEF ListOps
  <2> QED  BY <2>2, <2>3, <2>4, <2>5, <2>6 DEF wanted, holds
<1> QED  BY <1>1, OriginsAlways, PTL
=====
