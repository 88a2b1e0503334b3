---------------------------- MODULE ReplaceList ----------------------------
(***************************************************************************)
(* What sync_for_role_link counts on when it replaces the user list of a   *)
(* role link (services/rolelogic.rs: "Replace the full user set in a       *)
(* single atomic" request; the commit "atomically swaps in the new user    *)
(* set"), without requests, sessions and chunks:                           *)
(*                                                                         *)
(*   - a list is replaced as a whole, by the list a caller has asked for,  *)
(*     at most once per call and before the call returns;                  *)
(*   - a call that reports success has replaced the list;                  *)
(*   - one that fails may have replaced it or not.                         *)
(***************************************************************************)
CONSTANTS Workers, Links, Users, NoLink

VARIABLES
    remote,   \* the users of each link on RoleLogic
    asked     \* what each worker asks for, and how far that is

vars == <<remote, asked>>

Nothing == [link |-> NoLink, want |-> {}, stage |-> "none"]

Init ==
    /\ remote = [l \in Links |-> {}]
    /\ asked = [w \in Workers |-> Nothing]

Ask(w) ==
    /\ asked[w] = Nothing
    /\ \E l \in Links, S \in SUBSET Users :
          asked' = [asked EXCEPT ![w] = [link |-> l, want |-> S, stage |-> "asked"]]
    /\ UNCHANGED remote

Replace(w) ==
    /\ asked[w].stage = "asked"
    /\ remote' = [remote EXCEPT ![asked[w].link] = asked[w].want]
    /\ asked' = [asked EXCEPT ![w].stage = "replaced"]

Succeed(w) ==
    /\ asked[w].stage = "replaced"
    /\ asked' = [asked EXCEPT ![w].stage = "ok"]
    /\ UNCHANGED remote

Fail(w) ==
    /\ asked[w].stage \in {"asked", "replaced"}
    /\ asked' = [asked EXCEPT ![w].stage = "failed"]
    /\ UNCHANGED remote

\* The caller has its result, or has died.
Return(w) ==
    /\ asked[w] # Nothing
    /\ asked' = [asked EXCEPT ![w] = Nothing]
    /\ UNCHANGED remote

Next == \E w \in Workers : Ask(w) \/ Replace(w) \/ Succeed(w) \/ Fail(w) \/ Return(w)

Spec == Init /\ [][Next]_vars
=============================================================================
