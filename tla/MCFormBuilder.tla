---------------------------- MODULE MCFormBuilder ----------------------------
(* Instances of FormBuilder for TLC. *)
EXTENDS FormBuilder, TLC

CONSTANTS t1, t2, t3, e1, e2, e3, r1, r2

TwoTabs      == {t1, t2}
ThreeTabs    == {t1, t2, t3}
TwoEdits     == {e1, e2}
ThreeEdits   == {e1, e2, e3}
OneRequest   == {r1}
TwoRequests  == {r1, r2}
TabsAndEdits == Permutations(ThreeTabs) \cup Permutations(ThreeEdits)
=============================================================================
