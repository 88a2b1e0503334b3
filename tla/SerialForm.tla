----------------------------- MODULE SerialForm -----------------------------
(***************************************************************************)
(* What a form promises to its members and admins, without transactions    *)
(* and locks: one thing happens at a time, and a submission happens at     *)
(* once or not at all.  It is checked against the form as it is, and, when *)
(* the form allows one response per member, it meets the member's newest   *)
(* response as it is (form_render.rs: two tabs "can't race two first       *)
(* inserts or double-count an attempt").                                   *)
(*                                                                         *)
(* Only the clock may be behind: a submission goes by some time at which   *)
(* it was already under way.                                               *)
(***************************************************************************)
EXTENDS Retry

CONSTANTS Tabs, Members, Configs, Scores

VARIABLES
    clock,
    live, version, config,   \* the form
    responses,
    done                     \* submissions that have happened, or never will

vars == <<clock, live, version, config, responses, done>>

Init ==
    /\ clock = 0
    /\ live = TRUE /\ version = 1
    /\ config \in {Normal(c) : c \in Configs}
    /\ responses = {} /\ done = {}

Graded(s) ==
    LET score == IF config.quiz THEN s ELSE None
    IN  [score |-> score, passed |-> StoredPassed(config, score)]

Of(m) == {r \in responses : r.member = m}

Newest(m) == {r \in Of(m) : \A q \in Of(m) : q.edited <= r.edited}

Write(row) == responses' = {r \in responses : r.id # row.id} \cup {row}

\* A row of its own: the member's first, or one of many.
AcceptNew(t, m, s, start) ==
    /\ Single(config) => Of(m) = {}
    /\ Write([id |-> t, member |-> m, answers |-> t, version |-> version,
              score |-> Graded(s).score, passed |-> Graded(s).passed,
              count |-> 1, edited |-> start])

\* An edit of the member's response, which is no attempt.
AcceptEdit(t, m, s, start) ==
    /\ Single(config) /\ Editable(config)
    /\ \E r \in Newest(m) :
          Write([r EXCEPT !.answers = t, !.version = version,
                          !.score = Graded(s).score, !.passed = Graded(s).passed,
                          !.edited = start])

\* One more attempt, if the settings allow it.
AcceptAttempt(t, m, s, start, now) ==
    /\ Single(config) /\ ~Editable(config)
    /\ \E r \in Newest(m) :
          LET a == NextAttempt(config, r, Graded(s))
          IN  /\ ~Denied(now, config, r)
              /\ Write([r EXCEPT !.answers = IF a.overwrite THEN t ELSE @,
                                 !.version = IF a.overwrite THEN version ELSE @,
                                 !.score = a.score, !.passed = a.passed,
                                 !.count = a.count, !.edited = start])

Accept(t) ==
    /\ t \notin done /\ live /\ ~config.archived
    /\ \E m \in Members, s \in Scores, start, now \in 0 .. clock :
          \/ AcceptNew(t, m, s, start)
          \/ AcceptEdit(t, m, s, start)
          \/ AcceptAttempt(t, m, s, start, now)
    /\ done' = done \cup {t}
    /\ UNCHANGED <<clock, live, version, config>>

Refuse(t) ==
    /\ t \notin done
    /\ done' = done \cup {t}
    /\ UNCHANGED <<clock, live, version, config, responses>>

Save(c) ==
    /\ live
    /\ version' = version + 1 /\ config' = Normal(c)
    /\ UNCHANGED <<clock, live, responses, done>>

DeleteResponses ==
    /\ live
    /\ responses' \in SUBSET responses
    /\ UNCHANGED <<clock, live, version, config, done>>

DeleteForm ==
    /\ live /\ live' = FALSE /\ responses' = {}
    /\ UNCHANGED <<clock, version, config, done>>

Tick ==
    /\ clock' = clock + 1
    /\ UNCHANGED <<live, version, config, responses, done>>

Next ==
    \/ \E t \in Tabs : Accept(t) \/ Refuse(t)
    \/ \E c \in Configs : Save(c)
    \/ DeleteResponses \/ DeleteForm \/ Tick

Spec == Init /\ [][Next]_vars
=============================================================================
