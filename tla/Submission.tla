----------------------------- MODULE Submission -----------------------------
(***************************************************************************)
(* Submitting one form: get_form and the transaction of post_submit        *)
(* (routes/form_render.rs) in several browser tabs at once, against the    *)
(* admin handlers that save the form, delete responses and delete the form *)
(* (routes/admin.rs).                                                      *)
(*                                                                         *)
(* A tab opens the page, by two SELECTs without a transaction, and submits *)
(* once.  Its transaction is split where it can wait or where others can   *)
(* come between: BEGIN, SELECT forms .. FOR SHARE, pg_advisory_xact_lock,  *)
(* SELECT canonical .. FOR UPDATE, and the writes with COMMIT.             *)
(***************************************************************************)
EXTENDS Retry, Sequences, FiniteSets

CONSTANTS
    Tabs,         \* submit requests
    Members,
    Configs,      \* what admins may save
    Scores,       \* what answers may be worth on a quiz
    MaxVersion,   \* bound on saves of the form
    MaxClock,     \* bound on time
    MaxLag        \* longest time from BEGIN to reading the clock

ASSUME SubmissionAssumption ==
    /\ Configs \subseteq Config /\ Scores \subseteq Nat
    /\ None \notin Members
    /\ MaxVersion \in Nat /\ MaxClock \in Nat /\ MaxLag \in Nat

VARIABLES
    clock,
    live, version, config,   \* the forms row: there, its version, its settings
    responses,               \* form_responses of the form
    tx,                      \* each tab's page, then its transaction
    deleting,                \* delete_form's: "no", "rows" deleted, or "done"
    doomed,                  \* ids it has deleted and not yet committed
    committed,   \* submissions in commit order, each standing also for the
                 \* player_sync and webhook jobs its transaction inserted
    erased                   \* ids of the rows admins have deleted

form == <<live, version, config>>
vars == <<clock, form, responses, tx, deleting, doomed, committed, erased>>

-----------------------------------------------------------------------------
\* A page that says nothing of further attempts.
NoPage == [row |-> None, blocked |-> FALSE, next |-> 0]

\* A request at a stage where it knows nothing (any more).
Blank(stage) == [stage |-> stage, member |-> None, version |-> 0, score |-> 0,
                 start |-> 0, now |-> 0, cfg |-> None, row |-> None, page |-> NoPage]

\* Mutant: the form is read without FOR SHARE.
SharesNothing(t) == t \notin Tabs

\* The locks a transaction holds, to its end.
SharesForm(t)   == tx[t].stage \in {"read", "locked", "loaded"}
HoldsMember(t)  == tx[t].stage \in {"locked", "loaded"} /\ Single(tx[t].cfg)

\* Mutant: the row is read without FOR UPDATE.
LocksNothing(t, r) == t \notin Tabs

LocksRow(t, r)  == tx[t].stage = "loaded" /\ tx[t].row # None /\ tx[t].row.id = r.id
RowFree(r)      == r.id \notin doomed /\ \A t \in Tabs : ~LocksRow(t, r)

RowsOf(m) == {r \in responses : r.member = m}

\* ORDER BY last_edited_at DESC LIMIT 1.
Canonical(m) == {r \in RowsOf(m) : \A q \in RowsOf(m) : q.edited <= r.edited}

\* The graded submission of t, under the configuration it read.
New(t) ==
    LET score == IF tx[t].cfg.quiz THEN tx[t].score ELSE None
    IN  [score |-> score, passed |-> StoredPassed(tx[t].cfg, score)]

-----------------------------------------------------------------------------
Init ==
    /\ clock = 0
    /\ live = TRUE /\ version = 1
    /\ config \in {Normal(c) : c \in Configs}
    /\ responses = {}
    /\ tx = [t \in Tabs |-> Blank("idle")]
    /\ deleting = "no" /\ doomed = {}
    /\ committed = <<>> /\ erased = {}

\* get_form reads the form and the clock ..
OpenForm(t, m) ==
    /\ tx[t].stage = "idle"
    /\ live /\ ~config.archived
    /\ tx' = [tx EXCEPT ![t] = [Blank("opening") EXCEPT
                 !.member = m, !.version = version, !.cfg = config, !.now = clock]]
    /\ UNCHANGED <<clock, form, responses, deleting, doomed, committed, erased>>

\* Mutant: max_attempts = 0 is not understood as "any number".
ShowsBlockedAtNone(c, r) == (c.lockOnPass /\ r.passed = "yes") \/ r.count >= c.max

\* build_retry_status, of a member's response r.
ShowsBlocked(c, r) ==
    \/ c.lockOnPass /\ r.passed = "yes"
    \/ c.max > 0 /\ r.count >= c.max

ShownNext(c, r, now) ==
    LET next == r.edited + c.cooldown
    IN  IF ~ShowsBlocked(c, r) /\ c.cooldown > 0 /\ now < next THEN next ELSE 0

Status(c, r, now) ==
    [row |-> r.id, blocked |-> ShowsBlocked(c, r), next |-> ShownNext(c, r, now)]

\* .. and what the member has so far, if that matters, and renders the page.
OpenPage(t) ==
    /\ tx[t].stage = "opening"
    /\ \E page \in IF Governed(tx[t].cfg) /\ RowsOf(tx[t].member) # {}
                    THEN {Status(tx[t].cfg, r, tx[t].now) : r \in Canonical(tx[t].member)}
                    ELSE {NoPage} :
          tx' = [tx EXCEPT ![t] = [Blank("open") EXCEPT
                    !.member = tx[t].member, !.version = tx[t].version, !.page = page]]
    /\ UNCHANGED <<clock, form, responses, deleting, doomed, committed, erased>>

\* The member submits: BEGIN.
Begin(t, s) ==
    /\ tx[t].stage = "open"
    /\ tx' = [tx EXCEPT ![t].stage = "begun", ![t].score = s, ![t].start = clock]
    /\ UNCHANGED <<clock, form, responses, deleting, doomed, committed, erased>>

\* SELECT .. FOR SHARE finds the form; the clock is read after the checks.
ReadForm(t) ==
    /\ tx[t].stage = "begun"
    /\ live /\ ~config.archived /\ version = tx[t].version
    /\ tx' = [tx EXCEPT ![t].stage = "read", ![t].cfg = config, ![t].now = clock]
    /\ UNCHANGED <<clock, form, responses, deleting, doomed, committed, erased>>

\* The transaction rolls back.
End(t) ==
    /\ tx' = [tx EXCEPT ![t] = Blank("ended")]
    /\ UNCHANGED <<clock, form, responses, deleting, doomed, committed, erased>>

\* FormNotFound, StaleVersion.
Refuse(t) ==
    /\ tx[t].stage = "begun"
    /\ ~live \/ config.archived \/ version # tx[t].version
    /\ End(t)

\* Any other way to fail: opening hours, account age, membership, validation,
\* the gateway, the database, a crash.
Fail(t) ==
    /\ tx[t].stage \in {"begun", "read", "locked", "loaded"}
    /\ End(t)

\* Mutant: the lock is left out.
LockNobody(t) ==
    /\ tx[t].stage = "read"
    /\ tx' = [tx EXCEPT ![t].stage = "locked"]
    /\ UNCHANGED <<clock, form, responses, deleting, doomed, committed, erased>>

\* pg_advisory_xact_lock on (form, member); forms with unlimited submissions
\* skip it.
LockMember(t) ==
    /\ tx[t].stage = "read"
    /\ Single(tx[t].cfg) =>
         \A u \in Tabs \ {t} : HoldsMember(u) => tx[u].member # tx[t].member
    /\ tx' = [tx EXCEPT ![t].stage = "locked"]
    /\ UNCHANGED <<clock, form, responses, deleting, doomed, committed, erased>>

\* SELECT .. ORDER BY last_edited_at DESC LIMIT 1 FOR UPDATE: waits while
\* another transaction has the row.
LoadCanonical(t) ==
    /\ tx[t].stage = "locked" /\ Single(tx[t].cfg)
    /\ \/ /\ RowsOf(tx[t].member) = {}
          /\ tx' = [tx EXCEPT ![t].stage = "loaded"]
       \/ \E r \in Canonical(tx[t].member) :
             /\ RowFree(r)
             /\ tx' = [tx EXCEPT ![t].stage = "loaded", ![t].row = r]
    /\ UNCHANGED <<clock, form, responses, deleting, doomed, committed, erased>>

\* Mutant: delete_form deletes the form through the pool, not in its transaction.
\* The transaction that has deleted the rows then waits for no lock, so
\* PostgreSQL sees no cycle and picks nobody.
DeadlockUnseen(t) == FALSE

\* PostgreSQL picks t as the victim of its deadlock with delete_form: t waits
\* for a row delete_form deleted, delete_form for the form t shares.
DeadlockVictim(t) ==
    /\ tx[t].stage = "locked" /\ Single(tx[t].cfg)
    /\ \E r \in Canonical(tx[t].member) : r.id \in doomed
    /\ End(t)

\* Mutant: last_edited_at is only set by a second submission.
FreshRowUndated(t) ==
    [id |-> t, member |-> tx[t].member, answers |-> t, version |-> tx[t].version,
     score |-> FirstAttempt(New(t)).score, passed |-> FirstAttempt(New(t)).passed,
     count |-> FirstAttempt(New(t)).count, edited |-> None]

\* A fresh row; last_edited_at defaults to now(), the time of BEGIN.
FreshRow(t) ==
    [id |-> t, member |-> tx[t].member, answers |-> t, version |-> tx[t].version,
     score |-> FirstAttempt(New(t)).score, passed |-> FirstAttempt(New(t)).passed,
     count |-> FirstAttempt(New(t)).count, edited |-> tx[t].start]

\* The enqueues and COMMIT, with the row as written.
Commit(t, row) ==
    /\ responses' = {r \in responses : r.id # row.id} \cup {row}
    /\ committed' = Append(committed,
          [tab |-> t, row |-> row.id, member |-> tx[t].member,
           version |-> tx[t].version, score |-> New(t).score,
           passed |-> New(t).passed, now |-> tx[t].now])
    /\ tx' = [tx EXCEPT ![t] = Blank("ended")]
    /\ UNCHANGED <<clock, form, deleting, doomed, erased>>

\* Unlimited submissions: every submit is a row.
SubmitUnlimited(t) ==
    /\ tx[t].stage = "locked" /\ ~Single(tx[t].cfg)
    /\ Commit(t, FreshRow(t))

\* The first submission of this member, or the first since a deletion.
SubmitFirst(t) ==
    /\ tx[t].stage = "loaded" /\ tx[t].row = None
    /\ Commit(t, FreshRow(t))

\* Freely editable: the one row is rewritten, which is not an attempt.
SubmitEdit(t) ==
    /\ tx[t].stage = "loaded" /\ tx[t].row # None /\ Editable(tx[t].cfg)
    /\ Commit(t, [tx[t].row EXCEPT !.answers = t, !.version = tx[t].version,
                                   !.score = New(t).score, !.passed = New(t).passed,
                                   !.edited = tx[t].start])

\* Mutant: schema_version moves on although the answers stay.
SubmitAttemptMixed(t) ==
    /\ tx[t].stage = "loaded" /\ tx[t].row # None /\ ~Editable(tx[t].cfg)
    /\ ~Denied(tx[t].now, tx[t].cfg, tx[t].row)
    /\ LET a == NextAttempt(tx[t].cfg, tx[t].row, New(t))
       IN  Commit(t, [tx[t].row EXCEPT
               !.answers = IF a.overwrite THEN t ELSE @,
               !.version = tx[t].version,
               !.score = a.score, !.passed = a.passed, !.count = a.count,
               !.edited = tx[t].start])

\* Retry-governed and allowed: overwrite the row, or only count the attempt.
SubmitAttempt(t) ==
    /\ tx[t].stage = "loaded" /\ tx[t].row # None /\ ~Editable(tx[t].cfg)
    /\ ~Denied(tx[t].now, tx[t].cfg, tx[t].row)
    /\ LET a == NextAttempt(tx[t].cfg, tx[t].row, New(t))
       IN  Commit(t, [tx[t].row EXCEPT
               !.answers = IF a.overwrite THEN t ELSE @,
               !.version = IF a.overwrite THEN tx[t].version ELSE @,
               !.score = a.score, !.passed = a.passed, !.count = a.count,
               !.edited = tx[t].start])

\* decide() refused.
DenyAttempt(t) ==
    /\ tx[t].stage = "loaded" /\ tx[t].row # None /\ ~Editable(tx[t].cfg)
    /\ Denied(tx[t].now, tx[t].cfg, tx[t].row)
    /\ End(t)

-----------------------------------------------------------------------------
\* update_form: one UPDATE, which waits for the transactions sharing the row.
UpdateForm(c) ==
    /\ live /\ version < MaxVersion
    /\ \A t \in Tabs : ~SharesForm(t)
    /\ version' = version + 1
    /\ config' = Normal(c)
    /\ UNCHANGED <<clock, live, responses, tx, deleting, doomed, committed, erased>>

\* delete_response and delete_all_responses: one DELETE, which waits for the
\* rows that submissions have locked.
DeleteResponses(S) ==
    /\ live /\ S # {}
    /\ \A r \in S : RowFree(r)
    /\ responses' = responses \ S
    /\ erased' = erased \cup {r.id : r \in S}
    /\ UNCHANGED <<clock, form, tx, deleting, doomed, committed>>

\* delete_form, up to DELETE FROM form_responses.  It cannot see the rows of
\* transactions that have not committed.
DeleteFormRows ==
    /\ live /\ deleting = "no"
    /\ \A r \in responses : RowFree(r)
    /\ deleting' = "rows"
    /\ doomed' = {r.id : r \in responses}
    /\ UNCHANGED <<clock, form, responses, tx, committed, erased>>

\* DELETE FROM forms waits for the transactions sharing the row; COMMIT.
DeleteFormCommit ==
    /\ deleting = "rows"
    /\ \A t \in Tabs : ~SharesForm(t)
    /\ live' = FALSE
    /\ responses' = {r \in responses : r.id \notin doomed}
    /\ erased' = erased \cup doomed
    /\ deleting' = "done" /\ doomed' = {}
    /\ UNCHANGED <<clock, version, config, tx, committed>>

\* A crash, or delete_form is the victim of a deadlock.
DeleteFormRollback ==
    /\ deleting = "rows"
    /\ deleting' = "no" /\ doomed' = {}
    /\ UNCHANGED <<clock, form, responses, tx, committed, erased>>

Tick ==
    /\ clock < MaxClock
    /\ \A t \in Tabs : tx[t].stage = "begun" => clock < tx[t].start + MaxLag
    /\ clock' = clock + 1
    /\ UNCHANGED <<form, responses, tx, deleting, doomed, committed, erased>>

-----------------------------------------------------------------------------
\* The steps of t's transaction, once begun, by itself.
Submit(t) ==
    \/ ReadForm(t) \/ Refuse(t) \/ LockMember(t) \/ LoadCanonical(t)
    \/ SubmitUnlimited(t) \/ SubmitFirst(t) \/ SubmitEdit(t) \/ SubmitAttempt(t)
    \/ DenyAttempt(t) \/ DeadlockVictim(t)

Next ==
    \/ \E t \in Tabs, m \in Members : OpenForm(t, m)
    \/ \E t \in Tabs, s \in Scores : Begin(t, s)
    \/ \E t \in Tabs : OpenPage(t) \/ Submit(t) \/ Fail(t)
    \/ \E c \in Configs : UpdateForm(c)
    \/ \E r \in responses : DeleteResponses({r})
    \/ DeleteResponses(responses)
    \/ DeleteFormRows \/ DeleteFormCommit \/ DeleteFormRollback
    \/ Tick

Spec == Init /\ [][Next]_vars

\* A request that has begun is carried on, and PostgreSQL ends deadlocks.
FairSpec == Spec /\ \A t \in Tabs : WF_vars(Submit(t))

-----------------------------------------------------------------------------
Row == [id : Tabs, member : Members, answers : Tabs, version : Nat,
        score : Score, passed : Passed, count : Nat, edited : Nat]

\* fetch_optional tells that there is no row from every row.
ASSUME RowAssumption == None \notin Row

Page == [row : Tabs \cup {None}, blocked : BOOLEAN, next : Nat]

Tx == [stage : {"idle", "opening", "open", "begun", "read", "locked", "loaded", "ended"},
       member : Members \cup {None}, version : Nat, score : Nat, start : Nat,
       now : Nat, cfg : Config \cup {None}, row : Row \cup {None}, page : Page]

Submitted == [tab : Tabs, row : Tabs, member : Members, version : Nat,
              score : Score, passed : Passed, now : Nat]

\* Every variable stays in its type.
TypeOK ==
    /\ clock \in Nat /\ live \in BOOLEAN /\ version \in Nat /\ config \in Config
    /\ responses \subseteq Row
    /\ tx \in [Tabs -> Tx]
    /\ deleting \in {"no", "rows", "done"} /\ doomed \subseteq Tabs
    /\ committed \in Seq(Submitted)
    /\ erased \subseteq Tabs

\* The commits of member m that still count: their row was not deleted.
Kept(m) == {i \in DOMAIN committed : /\ committed[i].member = m
                                     /\ committed[i].row \notin erased}

\* While the form allows one response per member, a double click or two tabs
\* "can't race two first inserts" (post_submit, the advisory lock).
OneRowPerMember ==
    Single(config) => \A r, q \in responses : r.member = q.member => r = q

\* max_attempts: two tabs cannot slip more attempts past the gate than the form
\* allows, and attempt_count is exactly the number that were accepted.
AttemptsWithinMax ==
    Governed(config) => \A r \in responses :
        /\ r.count = Cardinality(Kept(r.member))
        /\ config.max > 0 => r.count <= config.max

\* retry_policy (009_form_retries.sql): on a keep_best quiz the row holds the first of
\* the best attempts, and a pass by any attempt sticks; otherwise the attempt
\* committed last.
PolicyKept ==
    Single(config) => \A r \in responses :
        LET K == Kept(r.member)
        IN  \E i \in K :
            /\ committed[i].tab = r.answers
            /\ IF Governed(config) /\ config.quiz /\ config.policy = "keep_best"
               THEN /\ \A j \in K : /\ committed[j].score <= committed[i].score
                                    /\ j < i => committed[j].score < committed[i].score
                    /\ r.passed = "yes" <=> \E j \in K : committed[j].passed = "yes"
               ELSE /\ \A j \in K : j <= i
                    /\ r.passed = committed[i].passed

\* lock_on_pass (009_form_retries.sql): a passing attempt is a member's last.
PassLocks ==
    Governed(config) /\ config.lockOnPass =>
        \A m \in Members : \A i, j \in Kept(m) :
            i < j => committed[i].passed # "yes"

\* Role conditions are evaluated on the stored answers, score and
\* schema_version together: all three are of one and the same submission, even
\* when a later attempt only counted or the form changed in between.
RowOfOneSubmission ==
    \A r \in responses : \E i \in DOMAIN committed :
        /\ committed[i].tab = r.answers /\ committed[i].member = r.member
        /\ committed[i].version = r.version /\ committed[i].score = r.score

\* FOR SHARE "freezes" the form: what commits was validated and graded against
\* the version, and the form, that still exist at that moment.
CommitsCurrentVersion ==
    [][Len(committed') > Len(committed) =>
          live /\ committed'[Len(committed')].version = version]_vars

\* Attempts of a member are decided at least the cooldown apart, less the time
\* from BEGIN (which last_edited_at records) to the check.  That time must not
\* exceed the cooldown: otherwise a slow transaction sets last_edited_at back to
\* before an earlier attempt, and a third one is let in too soon.
CooldownKept ==
    Governed(config) /\ config.cooldown > 0 /\ MaxLag <= config.cooldown =>
        \A m \in Members : \A i, j \in Kept(m) : i < j =>
            committed[j].now + MaxLag >= committed[i].now + config.cooldown

\* What the page said holds, whoever else submits meanwhile: no submission from
\* a page that calls the form blocked is accepted, nor one before the time the
\* page shows, unless an admin has deleted the response the page went by.
\* get_form and decide() each have their own version of the rules.  The time
\* holds under the condition of CooldownKept.
PageKept ==
    [][\A t \in Tabs :
          /\ Len(committed') > Len(committed) /\ committed'[Len(committed')].tab = t
          /\ tx[t].page.row \notin erased
          => /\ ~tx[t].page.blocked
             /\ MaxLag <= config.cooldown => tx[t].now >= tx[t].page.next]_vars

\* The serial form; of a form that is gone nothing reads the responses.
Serial == INSTANCE SerialForm WITH
    responses <- IF live THEN responses ELSE {},
    done      <- {t \in Tabs : tx[t].stage = "ended"}

\* Read committed transactions with FOR SHARE, one advisory lock and FOR UPDATE
\* are as good as serial ones here: each submission takes effect at most once
\* and as a whole, decided on the form and the row that are there when it commits.
ImplementsSerial == Serial!Spec

\* Every request ends, in spite of the advisory lock, the row locks and the
\* lock-order conflict with delete_form.
SubmissionsEnd ==
    \A t \in Tabs : tx[t].stage = "begun" ~> tx[t].stage = "ended"
=============================================================================
