----------------------------- MODULE FormBuilder -----------------------------
(***************************************************************************)
(* Admins edit one form in several tabs of the builder                     *)
(* (templates/builder.html), and update_form (routes/admin.rs) saves the   *)
(* whole form under an optimistic lock: the row's version must be the one  *)
(* that the tab knows.                                                     *)
(*                                                                         *)
(* A form is the set of edits that went into it.  The requests are slots:  *)
(* with one, saves never overlap.  A tab may send a second save before it  *)
(* has the answer to the first, as Ctrl+S does not ask whether the button  *)
(* is disabled.                                                            *)
(***************************************************************************)
EXTENDS Naturals

CONSTANTS
    Tabs, NoTab,
    Edits,       \* what admins add to the form, each of them once
    Requests,    \* bound on how many saves overlap
    MaxVersion   \* bound on how many saves succeed

ASSUME FormBuilderAssumption == NoTab \notin Tabs /\ MaxVersion \in Nat \ {0}

VARIABLES
    form,     \* the row of forms
    tab,      \* what each tab shows, and the version it knows; 0 when not open
    request   \* the saves under way

vars == <<form, tab, request>>

Free == [tab |-> NoTab, version |-> 0, edits |-> {}, stage |-> "free"]

Init ==
    /\ form = [live |-> TRUE, version |-> 1, edits |-> {}]
    /\ tab = [t \in Tabs |-> [version |-> 0, edits |-> {}]]
    /\ request = [r \in Requests |-> Free]

-----------------------------------------------------------------------------
(* The tabs. *)

\* builder_data, when the tab is opened or reloaded: answers that it was
\* waiting for do not reach it any more.
Load(t) ==
    /\ form.live
    /\ tab' = [tab EXCEPT ![t] = [version |-> form.version, edits |-> form.edits]]
    /\ request' = [r \in Requests |->
                      IF request[r].tab = t THEN [request[r] EXCEPT !.tab = NoTab]
                                            ELSE request[r]]
    /\ UNCHANGED form

\* Also while a save is under way.
Edit(t, e) ==
    /\ tab[t].version # 0
    /\ e \notin form.edits \cup UNION {tab[u].edits : u \in Tabs}
                           \cup UNION {request[r].edits : r \in Requests}
    /\ tab' = [tab EXCEPT ![t].edits = @ \cup {e}]
    /\ UNCHANGED <<form, request>>

\* save().
Send(t, r) ==
    /\ tab[t].version # 0 /\ request[r].stage = "free"
    /\ request' = [request EXCEPT ![r] = [tab |-> t, version |-> tab[t].version,
                                          edits |-> tab[t].edits, stage |-> "sent"]]
    /\ UNCHANGED <<form, tab>>

\* Mutant: after a conflict the tab goes on with the version of the row.
ReceiveAdopts(r) ==
    /\ request[r].stage \in {"ok", "refused"} /\ request[r].tab # NoTab
    /\ tab' = [tab EXCEPT ![request[r].tab].version =
                  IF request[r].stage = "ok" THEN request[r].version ELSE form.version]
    /\ request' = [request EXCEPT ![r] = Free]
    /\ UNCHANGED form

\* The tab takes over the version of the answer; it stays as it is after a
\* conflict or an error, unless its user reloads it.
Receive(r) ==
    /\ request[r].stage \in {"ok", "refused"} /\ request[r].tab # NoTab
    /\ tab' = IF request[r].stage = "ok"
              THEN [tab EXCEPT ![request[r].tab].version = request[r].version]
              ELSE tab
    /\ request' = [request EXCEPT ![r] = Free]
    /\ UNCHANGED form

\* The connection breaks; for the tab that is an error like any other.
Disconnect(r) ==
    /\ request[r].tab # NoTab
    /\ request' = [request EXCEPT ![r].tab = NoTab]
    /\ UNCHANGED <<form, tab>>

-----------------------------------------------------------------------------
(* update_form, one step per statement. *)

\* Mutant: the UPDATE does not look at the version.
MatchesAny(r) == form.live

\* WHERE id = $19 AND guild_id = $20 AND version = $21.
Matches(r) == form.live /\ form.version = request[r].version

Update(r) ==
    /\ request[r].stage = "sent" /\ Matches(r) /\ form.version < MaxVersion
    /\ form' = [form EXCEPT !.version = @ + 1, !.edits = request[r].edits]
    /\ request' = [request EXCEPT ![r].stage = "saved"]
    /\ UNCHANGED tab

\* StaleVersion, or NotFound: the tab treats both as a failure.
Refuse(r) ==
    /\ request[r].stage = "sent" /\ ~Matches(r)
    /\ request' = [request EXCEPT ![r].stage = "refused"]
    /\ UNCHANGED <<form, tab>>

\* Mutant: the answer counts the save a second time.
ReadVersionTwice(r) ==
    /\ request[r].stage = "saved" /\ form.live
    /\ request' = [request EXCEPT ![r].stage = "ok", ![r].version = form.version + 1]
    /\ UNCHANGED <<form, tab>>

\* SELECT version, in a statement of its own.
ReadVersion(r) ==
    /\ request[r].stage = "saved" /\ form.live
    /\ request' = [request EXCEPT ![r].stage = "ok", ![r].version = form.version]
    /\ UNCHANGED <<form, tab>>

\* A statement after the UPDATE fails: a link or the form has gone meanwhile,
\* or the database cannot be reached.
FailAfterUpdate(r) ==
    /\ request[r].stage = "saved"
    /\ request' = [request EXCEPT ![r].stage = "refused"]
    /\ UNCHANGED <<form, tab>>

\* The handler stops once nobody waits for its answer.
Cancel(r) ==
    /\ request[r].stage # "free" /\ request[r].tab = NoTab
    /\ request' = [request EXCEPT ![r] = Free]
    /\ UNCHANGED <<form, tab>>

\* delete_form.
Delete ==
    /\ form.live
    /\ form' = [form EXCEPT !.live = FALSE]
    /\ UNCHANGED <<tab, request>>

-----------------------------------------------------------------------------
Next ==
    \/ \E t \in Tabs : Load(t) \/ (\E e \in Edits : Edit(t, e)) \/ (\E r \in Requests : Send(t, r))
    \/ \E r \in Requests :
          \/ Receive(r) \/ Disconnect(r) \/ Update(r) \/ Refuse(r)
          \/ ReadVersion(r) \/ FailAfterUpdate(r) \/ Cancel(r)
    \/ Delete

Spec == Init /\ [][Next]_vars

-----------------------------------------------------------------------------
Request == [tab : Tabs \cup {NoTab}, version : Nat, edits : SUBSET Edits,
            stage : {"free", "sent", "saved", "ok", "refused"}]

\* Every variable stays in its type, and no tab and no request is ahead of the
\* row.
TypeOK ==
    /\ form \in [live : BOOLEAN, version : 1 .. MaxVersion, edits : SUBSET Edits]
    /\ tab \in [Tabs -> [version : Nat, edits : SUBSET Edits]]
    /\ request \in [Requests -> Request]
    /\ \A t \in Tabs : tab[t].version <= form.version
    /\ \A r \in Requests : request[r].version <= form.version

\* "Optimistic locking on `forms.version` prevents two tabs from clobbering
\* each other" (README.md:101-102): a save keeps every edit that is saved.
NoClobber == [][form.edits \subseteq form'.edits]_vars

\* What the lock rests on: a tab that knows the version of the row has seen all
\* of its edits, so that its next save keeps them.
TabCurrent ==
    \A t \in Tabs :
        form.live /\ tab[t].version = form.version => form.edits \subseteq tab[t].edits
=============================================================================
