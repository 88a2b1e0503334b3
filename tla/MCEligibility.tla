--------------------------- MODULE MCEligibility ---------------------------
(* An instance of Eligibility for TLC: texts are strings, with tables that  *)
(* say what the program's libraries make of them.                           *)
EXTENDS Eligibility, TLC

MCTexts == {"", " ", "a", " a", "A", "b", "c", "ab", "-2", "-1", "0", "1", " 1", "1.5", "2",
            "3", "NaN", "inf", "2024-01-01", "2024-01-02", "x@y.io", "yes", "true", "[ab]", "(("}

\* A table that says x, where it says nothing else.
Table(changes, x) == changes @@ [t \in MCTexts |-> x]

MCTrim  == (" " :> "" @@ " a" :> "a" @@ " 1" :> "1") @@ [t \in MCTexts |-> t]
MCLower == ("A" :> "a") @@ [t \in MCTexts |-> t]
MCParse == Table("-2" :> -4 @@ "-1" :> -2 @@ "0" :> 0 @@ "1" :> 2 @@ "1.5" :> 3 @@ "2" :> 4
                 @@ "3" :> 6 @@ "NaN" :> NaN @@ "inf" :> Inf, None)

\* i64 is from -1 to 2 here.
MCMinWhole == -2
MCParseInt == Table("-1" :> -2 @@ "0" :> 0 @@ "1" :> 2 @@ "2" :> 4, None)

MCShow  == -4 :> "-2" @@ -2 :> "-1" @@ 0 :> "0" @@ 2 :> "1" @@ 3 :> "1.5" @@ 4 :> "2" @@ 6 :> "3"
             @@ Inf :> "inf" @@ NaN :> "NaN"
MCDay   == Table("2024-01-01" :> 1 @@ "2024-01-02" :> 2, None)
MCSubstrings == "ab" :> {"ab", "a", "b"} @@ [t \in MCTexts |-> {t}]
MCMatching   == "a" :> {"a", "ab"} @@ "[ab]" :> {"a", "b", "ab"} @@ "1" :> {"1", "1.5"} @@ "" :> MCTexts

Q(kind, required, options, min, max, key, pts) ==
    [kind |-> kind, required |-> required, options |-> options, min |-> min,
     max |-> max, key |-> key, points |-> pts]

A == Str("a")
B == Str("b")

MCQuestions == {
    Q("multi_choice", FALSE, {"a", "b"}, None, None, List(<<A, B>>), 2),
    Q("multi_choice", TRUE, {"a", "b", "1"}, None, None, Num(2), 4),
    Q("single_choice", FALSE, {"a", "b"}, None, None, A, 2),
    Q("dropdown", TRUE, {"a", "b"}, None, None, List(<<A, Str(" "), B>>), 4),
    Q("number", FALSE, {}, 2, None, Str("1"), 4),
    Q("number", FALSE, {}, None, None, Num(3), 0),
    Q("scale", TRUE, {}, 0, 4, List(<<Str("1"), Num(4)>>), 2),
    Q("short_text", FALSE, {}, None, None, Str("A"), 2),
    Q("email", FALSE, {}, None, None, Null, 0),
    Q("date", FALSE, {}, None, None, Str("2024-01-02"), 2),
    Q("agreement", TRUE, {}, None, None, Null, 0),
    \* These are refused, each for its own reason.
    Q("single_choice", FALSE, {"a", "b"}, None, None, Str("c"), 2),
    Q("dropdown", FALSE, {}, None, None, Null, 0),
    Q("scale", FALSE, {}, 4, 2, Null, 0),
    Q("agreement", FALSE, {}, None, None, Null, 0) }

MCInputs == { Null, Str(""), A, Str(" a"), Str("1"), Str("1.5"), Num(3), Num(4), Num(-4), Str("[ab]"),
              Str("(("), List(<<A, B>>), List(<<Null, B, Str(""), Num(2)>>), Str("2024-01-02") }

MCRaws == { Null, Str(" "), A, Str(" a"), Str("A"), Str("ab"), Str("1"), Str("NaN"), Str("inf"),
            Num(2), Num(3), Num(4), Num(6), Num(-4), List(<<A, A>>), List(<<>>), List(<<A>>), List(<<B>>), List(<<A, B>>), List(<<Str("1"), A>>),
            List(<<Str("1")>>), List(<<Str("1"), B>>), List(<<Str("1"), A, B>>), List(<<Str("c")>>), Str("2024-01-01"), Str("x@y.io"), Str("yes"),
            Str("b") }
=============================================================================
