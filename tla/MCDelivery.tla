----------------------------- MODULE MCDelivery -----------------------------
(* Instances of Delivery for TLC. *)
EXTENDS Delivery

CONSTANTS w1, w2, p1, p2, l1, r1

TwoWorkers  == {w1, w2}
TwoReplicas == {p1, p2}
OneLink     == {l1}

\* One list for a PUT, and one for a session with two chunks.
ShortAndLong == [l \in OneLink |-> {{1}, {1, 2, 3}}]
=============================================================================
