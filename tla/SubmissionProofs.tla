-------------------------- MODULE SubmissionProofs --------------------------
(***************************************************************************)
(* Proofs about Submission for any tabs, members, configurations, scores   *)
(* and bounds: the types; that what a submission commits was checked       *)
(* against the form as it still is; and what the advisory lock, FOR SHARE  *)
(* and FOR UPDATE guarantee together: each stored row is of one            *)
(* submission, a form with one response per member has one, and the        *)
(* transactions implement the serial form of SerialForm.                   *)
(***************************************************************************)
EXTENDS Submission, TLAPS

USE NoneAssumption, SubmissionAssumption

-----------------------------------------------------------------------------
(* The retry engine. *)

LEMMA StoredPassedType ==
    ASSUME NEW c, NEW s PROVE StoredPassed(c, s) \in Passed
BY DEF StoredPassed, Passed

LEMMA NextAttemptType ==
    ASSUME NEW c, NEW e, NEW n,
           e.score \in Score, e.passed \in Passed, e.count \in Nat,
           n.score \in Score, n.passed \in Passed
    PROVE  /\ NextAttempt(c, e, n).overwrite \in BOOLEAN
           /\ NextAttempt(c, e, n).score \in Score
           /\ NextAttempt(c, e, n).passed \in Passed
           /\ NextAttempt(c, e, n).count \in Nat
<1>1. CASE ScoreAwareBest(c, e, n)
  <2>1. e.score \in Nat /\ n.score \in Nat
    BY <1>1 DEF ScoreAwareBest, Score
  <2> QED  BY <1>1, <2>1 DEF NextAttempt, CombinedPassed, Passed, Score
<1>2. CASE ~ScoreAwareBest(c, e, n)
  BY <1>2 DEF NextAttempt
<1> QED  BY <1>1, <1>2

\* What is stored and graded keeps its type.
LEMMA NormalType == ASSUME NEW c \in Config PROVE Normal(c) \in Config
BY DEF Normal, Config, Score

-----------------------------------------------------------------------------
(* Types: a transaction knows its member from BEGIN, the form once read. *)

Underway(t) == tx[t].stage \in {"opening", "open", "begun", "read", "locked", "loaded"}

KnowsForm(t) == tx[t].stage \in {"opening", "read", "locked", "loaded"}

Knows ==
    \A t \in Tabs : /\ Underway(t) => tx[t].member \in Members
                    /\ KnowsForm(t) => tx[t].cfg \in Config

Typed == TypeOK /\ Knows

LEMMA BlankType ==
    ASSUME NEW s \in {"idle", "opening", "open", "ended"}
    PROVE  Blank(s) \in Tx /\ Blank(s).stage = s
BY DEF Blank, NoPage, Page, Tx

LEMMA TypedInit == Init => Typed
<1> SUFFICES ASSUME Init PROVE Typed
  OBVIOUS
<1>1. tx \in [Tabs -> Tx] /\ Knows
  BY BlankType DEF Init, Knows, Underway, KnowsForm, SharesForm, Blank
<1>2. config \in Config
  BY NormalType DEF Init
<1>3. committed \in Seq(Submitted)
  BY DEF Init
<1> QED  BY <1>1, <1>2, <1>3 DEF Init, Typed, TypeOK

\* A submission is graded within the types.
LEMMA NewType ==
    ASSUME Typed, NEW t \in Tabs, SharesForm(t)
    PROVE  New(t).score \in Score /\ New(t).passed \in Passed
<1>1. tx[t].score \in Nat
  BY DEF Typed, TypeOK, Tx
<1> QED  BY <1>1, StoredPassedType DEF New, Score

LEMMA FreshRowType ==
    ASSUME Typed, NEW t \in Tabs, SharesForm(t) PROVE FreshRow(t) \in Row
<1>1. tx[t].member \in Members /\ tx[t].version \in Nat /\ tx[t].start \in Nat
  BY DEF Typed, TypeOK, Tx, Knows, Underway, KnowsForm, SharesForm
<1>2. /\ FirstAttempt(New(t)).score \in Score /\ FirstAttempt(New(t)).passed \in Passed
      /\ FirstAttempt(New(t)).count \in Nat
  BY NewType DEF FirstAttempt
<1> HIDE DEF New
<1> QED  BY <1>1, <1>2 DEF FreshRow, Row

\* The end of a transaction changes one tx only.
LEMMA EndTyped == ASSUME Typed, NEW t \in Tabs, End(t) PROVE Typed'
<1>1. tx' \in [Tabs -> Tx]
  BY BlankType DEF Typed, TypeOK, End
<1>2. Knows'
  BY DEF Typed, TypeOK, Knows, Underway, KnowsForm, SharesForm, End, Blank
<1> QED  BY <1>1, <1>2 DEF Typed, TypeOK, End, form

LEMMA CommitTyped ==
    ASSUME Typed, NEW t \in Tabs, SharesForm(t), NEW row \in Row, Commit(t, row)
    PROVE  Typed'
<1>1. tx' \in [Tabs -> Tx]
  BY BlankType DEF Typed, TypeOK, Commit
<1>2. Knows'
  BY DEF Typed, TypeOK, Knows, Underway, KnowsForm, SharesForm, Commit, Blank
<1>3. responses' \subseteq Row
  BY DEF Typed, TypeOK, Commit
<1>4. committed' \in Seq(Submitted)
  <2> DEFINE e == [tab |-> t, row |-> row.id, member |-> tx[t].member,
                   version |-> tx[t].version, score |-> New(t).score,
                   passed |-> New(t).passed, now |-> tx[t].now]
  <2>1. tx[t].member \in Members /\ tx[t].version \in Nat /\ tx[t].now \in Nat
    BY DEF Typed, TypeOK, Tx, Knows, Underway, KnowsForm, SharesForm
  <2>2. row.id \in Tabs
    BY DEF Row
  <2>3. e \in Submitted
    BY <2>1, <2>2, NewType DEF Submitted
  <2>4. committed' = Append(committed, e)
    BY DEF Commit
  <2> HIDE DEF e
  <2> QED  BY <2>3, <2>4 DEF Typed, TypeOK
<1> QED  BY <1>1, <1>2, <1>3, <1>4 DEF Typed, TypeOK, Commit, form

\* The reads of a transaction.
LEMMA ReadTyped ==
    ASSUME Typed, NEW t \in Tabs,
           \/ \E m \in Members : OpenForm(t, m)
           \/ \E s \in Scores : Begin(t, s)
           \/ OpenPage(t) \/ ReadForm(t) \/ LockMember(t) \/ LoadCanonical(t)
    PROVE  Typed'
<1> USE DEF Typed
<1>0. tx[t] \in Tx /\ clock \in Nat /\ config \in Config /\ responses \subseteq Row
  BY DEF TypeOK
<1>b. ASSUME NEW b \in Tx, tx' = [tx EXCEPT ![t] = b], b.member \in Members,
             b.stage \in {"opening", "open", "begun"},
             b.stage = "opening" => b.cfg \in Config,
             UNCHANGED <<clock, form, responses, deleting, doomed, committed, erased>>
      PROVE  Typed'
  <2>1. tx' \in [Tabs -> Tx] /\ Knows'
    BY <1>b DEF TypeOK, Knows, Underway, KnowsForm
  <2> QED  BY <1>b, <2>1 DEF TypeOK, form
<1>1. ASSUME NEW m \in Members, OpenForm(t, m) PROVE Typed'
  <2> DEFINE b == [Blank("opening") EXCEPT !.member = m, !.version = version,
                                           !.cfg = config, !.now = clock]
  <2>1. b \in Tx /\ b.stage = "opening" /\ b.member = m /\ b.cfg = config
    <3>1. Blank("opening") \in Tx /\ Blank("opening").stage = "opening"
      BY BlankType
    <3>2. version \in Nat
      BY DEF TypeOK
    <3>3. config \in Config \cup {None}
      BY <1>0
    <3> QED  BY <1>0, <3>1, <3>2, <3>3 DEF Tx
  <2>2. tx' = [tx EXCEPT ![t] = b]
    BY <1>1 DEF OpenForm
  <2> HIDE DEF b
  <2> QED  BY <1>0, <1>1, <1>b, <2>1, <2>2 DEF OpenForm
<1>6. CASE OpenPage(t)
  <2>0. tx[t].member \in Members /\ tx[t].cfg \in Config /\ tx[t].now \in Nat
    BY <1>0, <1>6 DEF OpenPage, Knows, Underway, KnowsForm, Tx
  <2>1. PICK page : /\ page = NoPage \/ \E r \in Canonical(tx[t].member) :
                                          page = Status(tx[t].cfg, r, tx[t].now)
                    /\ tx' = [tx EXCEPT ![t] = [Blank("open") EXCEPT
                          !.member = tx[t].member, !.version = tx[t].version, !.page = page]]
    BY <1>6 DEF OpenPage
  <2>2. page \in Page
    <3>1. NoPage \in Page
      BY DEF NoPage, Page
    <3>2. ASSUME NEW r \in Row, NEW c \in Config, NEW now \in Nat
          PROVE  Status(c, r, now) \in Page
      <4>1. r.edited + c.cooldown \in Nat /\ r.id \in Tabs
        BY DEF Row, Config
      <4>2. ShowsBlocked(c, r) \in BOOLEAN
        BY DEF ShowsBlocked
      <4> QED  BY <4>1, <4>2 DEF Status, ShownNext, Page
    <3>3. Canonical(tx[t].member) \subseteq Row
      BY <1>0 DEF Canonical, RowsOf
    <3> QED  BY <2>0, <2>1, <3>1, <3>2, <3>3
  <2> DEFINE b == [Blank("open") EXCEPT
                      !.member = tx[t].member, !.version = tx[t].version, !.page = page]
  <2>3. b \in Tx /\ b.stage = "open" /\ b.member = tx[t].member
    <3>1. Blank("open") \in Tx /\ Blank("open").stage = "open"
      BY BlankType
    <3> QED  BY <1>0, <2>2, <3>1 DEF Tx
  <2>4. tx' = [tx EXCEPT ![t] = b]
    BY <2>1
  <2> HIDE DEF b
  <2> QED  BY <1>6, <1>b, <2>0, <2>3, <2>4 DEF OpenPage
<1>7. ASSUME NEW s \in Scores, Begin(t, s) PROVE Typed'
  <2> DEFINE b == [tx[t] EXCEPT !.stage = "begun", !.score = s, !.start = clock]
  <2>1. b \in Tx /\ b.stage = "begun" /\ b.member = tx[t].member
    <3>1. s \in Nat
      OBVIOUS
    <3> QED  BY <1>0, <3>1 DEF Tx
  <2>2. tx[t].member \in Members
    BY <1>7 DEF Begin, Knows, Underway
  <2>3. tx' = [tx EXCEPT ![t] = b]
    BY <1>7 DEF Begin
  <2> HIDE DEF b
  <2> QED  BY <1>7, <1>b, <2>1, <2>2, <2>3 DEF Begin
<1>2. CASE ReadForm(t)
  <2> DEFINE b == [tx[t] EXCEPT !.stage = "read", !.cfg = config, !.now = clock]
  <2>1. b.stage = "read" /\ b.cfg = config /\ b.member = tx[t].member
    BY <1>0 DEF Tx
  <2>a. b \in Tx
    <3>1. config \in Config \cup {None}
      BY <1>0
    <3> QED  BY <1>0, <3>1 DEF Tx
  <2>2. tx' = [tx EXCEPT ![t] = b]
    BY <1>2 DEF ReadForm
  <2>3. tx[t].member \in Members
    BY <1>2 DEF Knows, Underway, ReadForm
  <2> HIDE DEF b
  <2>4. tx' \in [Tabs -> Tx] /\ Knows'
    BY <1>0, <2>1, <2>a, <2>2, <2>3 DEF TypeOK, Knows, Underway, KnowsForm, SharesForm
  <2> QED  BY <1>2, <2>4 DEF ReadForm, TypeOK, form
<1>3. ASSUME NEW s \in {"locked", "loaded"}, NEW r \in Row \cup {None}, SharesForm(t),
             tx' = [tx EXCEPT ![t] = [tx[t] EXCEPT !.stage = s, !.row = r]]
      PROVE  tx' \in [Tabs -> Tx] /\ Knows'
  <2> DEFINE b == [tx[t] EXCEPT !.stage = s, !.row = r]
  <2>1. /\ b \in Tx /\ b.stage = s
        /\ b.member = tx[t].member /\ b.cfg = tx[t].cfg
    BY <1>0 DEF Tx
  <2>2. tx[t].member \in Members /\ tx[t].cfg \in Config
    BY <1>3 DEF Knows, Underway, KnowsForm, SharesForm
  <2>3. tx' = [tx EXCEPT ![t] = b]
    BY <1>3
  <2> HIDE DEF b
  <2>4. tx' \in [Tabs -> Tx]
    BY <2>1, <2>3 DEF TypeOK
  <2>5. \A u \in Tabs \ {t} : tx'[u] = tx[u]
    BY <2>3
  <2>6. tx'[t] = b
    BY <2>3 DEF TypeOK
  <2>7. Knows'
    BY <2>1, <2>2, <2>5, <2>6 DEF Knows, Underway, KnowsForm, SharesForm
  <2> QED  BY <2>4, <2>7
<1>4. CASE LockMember(t)
  <2>1. PICK r \in Row \cup {None} :
           tx' = [tx EXCEPT ![t] = [tx[t] EXCEPT !.stage = "locked", !.row = r]]
    <3>1. tx[t].row \in Row \cup {None}
      BY <1>0 DEF Tx
    <3>2. tx' = [tx EXCEPT ![t] = [tx[t] EXCEPT !.stage = "locked", !.row = tx[t].row]]
      BY <1>0, <1>4 DEF LockMember, Tx
    <3> QED  BY <3>1, <3>2
  <2>2. SharesForm(t)
    BY <1>4 DEF LockMember, SharesForm
  <2>3. tx' \in [Tabs -> Tx] /\ Knows'
    BY <1>3, <2>1, <2>2
  <2> QED  BY <1>4, <2>3 DEF LockMember, TypeOK, form
<1>5. CASE LoadCanonical(t)
  <2>1. PICK r \in Row \cup {None} :
           tx' = [tx EXCEPT ![t] = [tx[t] EXCEPT !.stage = "loaded", !.row = r]]
    <3>1. CASE tx' = [tx EXCEPT ![t].stage = "loaded"]
      <4>1. tx[t].row \in Row \cup {None}
        BY <1>0 DEF Tx
      <4>2. tx' = [tx EXCEPT ![t] = [tx[t] EXCEPT !.stage = "loaded", !.row = tx[t].row]]
        BY <1>0, <3>1 DEF Tx
      <4> QED  BY <4>1, <4>2
    <3>2. CASE \E r \in Canonical(tx[t].member) :
                  tx' = [tx EXCEPT ![t].stage = "loaded", ![t].row = r]
      <4>1. PICK r \in Canonical(tx[t].member) :
                  tx' = [tx EXCEPT ![t].stage = "loaded", ![t].row = r]
        BY <3>2
      <4>2. r \in Row
        BY <1>0 DEF Canonical, RowsOf
      <4>3. tx' = [tx EXCEPT ![t] = [tx[t] EXCEPT !.stage = "loaded", !.row = r]]
        BY <4>1
      <4> QED  BY <4>2, <4>3
    <3> QED  BY <1>5, <3>1, <3>2 DEF LoadCanonical
  <2>2. SharesForm(t)
    BY <1>5 DEF LoadCanonical, SharesForm
  <2>3. tx' \in [Tabs -> Tx] /\ Knows'
    BY <1>3, <2>1, <2>2
  <2> QED  BY <1>5, <2>3 DEF LoadCanonical, TypeOK, form
<1> QED  BY <1>1, <1>2, <1>4, <1>5, <1>6, <1>7

\* The writes of a transaction.
LEMMA WriteTyped ==
    ASSUME Typed, NEW t \in Tabs,
           \/ SubmitUnlimited(t) \/ SubmitFirst(t) \/ SubmitEdit(t) \/ SubmitAttempt(t)
    PROVE  Typed'
<1>1. tx[t].version \in Nat /\ tx[t].start \in Nat /\ tx[t].row \in Row \cup {None}
  BY DEF Typed, TypeOK, Tx
<1>2. SharesForm(t)
  BY DEF SubmitUnlimited, SubmitFirst, SubmitEdit, SubmitAttempt, SharesForm
<1>3. New(t).score \in Score /\ New(t).passed \in Passed
  BY <1>2, NewType
<1> HIDE DEF New
<1>4. CASE SubmitUnlimited(t) \/ SubmitFirst(t)
  BY <1>4, <1>2, FreshRowType, CommitTyped DEF SubmitUnlimited, SubmitFirst
<1>5. CASE SubmitEdit(t)
  <2> DEFINE row == [tx[t].row EXCEPT !.answers = t, !.version = tx[t].version,
                                      !.score = New(t).score, !.passed = New(t).passed,
                                      !.edited = tx[t].start]
  <2>1. tx[t].row \in Row
    BY <1>1, <1>5 DEF SubmitEdit
  <2>2. row \in Row
    BY <1>1, <1>3, <2>1 DEF Row
  <2>3. Commit(t, row)
    BY <1>5 DEF SubmitEdit
  <2> HIDE DEF row
  <2> QED  BY <1>2, <2>2, <2>3, CommitTyped
<1>6. CASE SubmitAttempt(t)
  <2> DEFINE a == NextAttempt(tx[t].cfg, tx[t].row, New(t))
             row == [tx[t].row EXCEPT
                        !.answers = IF a.overwrite THEN t ELSE @,
                        !.version = IF a.overwrite THEN tx[t].version ELSE @,
                        !.score = a.score, !.passed = a.passed, !.count = a.count,
                        !.edited = tx[t].start]
  <2>1. tx[t].row \in Row
    BY <1>1, <1>6 DEF SubmitAttempt
  <2>2. /\ tx[t].row.score \in Score /\ tx[t].row.passed \in Passed
        /\ tx[t].row.count \in Nat
    BY <2>1 DEF Row
  <2>3. a.overwrite \in BOOLEAN /\ a.score \in Score /\ a.passed \in Passed /\ a.count \in Nat
    BY <1>3, <2>2, NextAttemptType
  <2>4. Commit(t, row)
    BY <1>6 DEF SubmitAttempt
  <2> HIDE DEF a
  <2>5. row \in Row
    BY <1>1, <2>1, <2>3 DEF Row
  <2> HIDE DEF row
  <2> QED  BY <1>2, <2>4, <2>5, CommitTyped
<1> QED  BY <1>4, <1>5, <1>6

LEMMA TypedStep == Typed /\ [Next]_vars => Typed'
<1> SUFFICES ASSUME Typed, [Next]_vars PROVE Typed'
  OBVIOUS
<1> USE DEF Typed, TypeOK
<1>k. UNCHANGED tx => Knows'
  BY DEF Knows, Underway, KnowsForm, SharesForm
<1>1. ASSUME NEW t \in Tabs,
             \/ \E m \in Members : OpenForm(t, m)
             \/ OpenPage(t) \/ \E s \in Scores : Begin(t, s)
      PROVE  Typed'
  BY <1>1, ReadTyped
<1>2. ASSUME NEW t \in Tabs, Submit(t) \/ Fail(t) PROVE Typed'
  <2>1. Typed
    OBVIOUS
  <2> QED  BY <1>2, <2>1, ReadTyped, WriteTyped, EndTyped
           DEF Submit, Refuse, DenyAttempt, DeadlockVictim, Fail
<1>3. ASSUME NEW c \in Configs, UpdateForm(c) PROVE Typed'
  <2>1. Normal(c) \in Config
    BY NormalType
  <2> QED  BY <1>3, <1>k, <2>1 DEF UpdateForm
<1>4. ASSUME NEW S \in SUBSET responses, DeleteResponses(S) PROVE Typed'
  BY <1>4, <1>k DEF DeleteResponses, form, Row
<1>5. CASE DeleteFormRows  BY <1>5, <1>k DEF DeleteFormRows, form, Row
<1>6. CASE DeleteFormCommit  BY <1>6, <1>k DEF DeleteFormCommit
<1>7. CASE DeleteFormRollback  BY <1>7, <1>k DEF DeleteFormRollback, form
<1>8. CASE Tick  BY <1>8, <1>k DEF Tick, form
<1>9. CASE UNCHANGED vars  BY <1>9, <1>k DEF vars, form
<1> QED
  BY <1>1, <1>2, <1>3, <1>4, <1>5, <1>6, <1>7, <1>8, <1>9 DEF Next

\* The response table, the form and every transaction keep their types, with
\* the passed column in step with what the retry engine computes.
THEOREM TypeCorrect == Spec => []TypeOK
<1>1. Typed => TypeOK
  BY DEF Typed
<1> QED  BY <1>1, TypedInit, TypedStep, PTL DEF Spec

-----------------------------------------------------------------------------
(* What FOR SHARE is for. *)

\* From the read to the end of a transaction the form is there, in the version
\* that the transaction was checked against.
FormHeld == \A t \in Tabs : SharesForm(t) => live /\ tx[t].version = version

LEMMA FormHeldInit == Init => FormHeld
BY DEF Init, FormHeld, SharesForm, Blank

LEMMA FormHeldStep == Typed /\ FormHeld /\ [Next]_vars => FormHeld'
<1> SUFFICES ASSUME Typed, FormHeld, [Next]_vars PROVE FormHeld'
  OBVIOUS
<1>0. tx \in [Tabs -> Tx]
  BY DEF Typed, TypeOK
<1> USE DEF FormHeld, SharesForm
<1>e. ASSUME NEW t \in Tabs, UNCHANGED form, tx' = [tx EXCEPT ![t] = Blank("ended")]
      PROVE  FormHeld'
  BY <1>0, <1>e DEF form, Blank
<1>1. ASSUME NEW t \in Tabs,
             \/ \E m \in Members : OpenForm(t, m)
             \/ OpenPage(t) \/ \E s \in Scores : Begin(t, s)
      PROVE  FormHeld'
  <2>1. PICK b : tx' = [tx EXCEPT ![t] = b] /\ b.stage \in {"opening", "open", "begun"}
    <3>1. ASSUME NEW m \in Members, OpenForm(t, m)
          PROVE  \E b : tx' = [tx EXCEPT ![t] = b] /\ b.stage \in {"opening", "open", "begun"}
      <4> DEFINE b == [Blank("opening") EXCEPT !.member = m, !.version = version,
                                               !.cfg = config, !.now = clock]
      <4>1. b.stage = "opening"
        BY DEF Blank
      <4>2. tx' = [tx EXCEPT ![t] = b]
        BY <3>1 DEF OpenForm
      <4> HIDE DEF b
      <4> QED  BY <4>1, <4>2
    <3>2. CASE OpenPage(t)
      <4>1. PICK page : tx' = [tx EXCEPT ![t] = [Blank("open") EXCEPT
                !.member = tx[t].member, !.version = tx[t].version, !.page = page]]
        BY <3>2 DEF OpenPage
      <4> DEFINE b == [Blank("open") EXCEPT
                !.member = tx[t].member, !.version = tx[t].version, !.page = page]
      <4>2. b.stage = "open"
        BY DEF Blank
      <4>3. tx' = [tx EXCEPT ![t] = b]
        BY <4>1
      <4> HIDE DEF b
      <4> QED  BY <4>2, <4>3
    <3>3. ASSUME NEW s \in Scores, Begin(t, s)
          PROVE  \E b : tx' = [tx EXCEPT ![t] = b] /\ b.stage \in {"opening", "open", "begun"}
      <4> DEFINE b == [tx[t] EXCEPT !.stage = "begun", !.score = s, !.start = clock]
      <4>1. b.stage = "begun" /\ tx' = [tx EXCEPT ![t] = b]
        BY <1>0, <3>3 DEF Begin, Tx
      <4> HIDE DEF b
      <4> QED  BY <4>1
    <3> QED  BY <1>1, <3>1, <3>2, <3>3
  <2>2. UNCHANGED form
    BY <1>1 DEF OpenForm, OpenPage, Begin
  <2>3. tx'[t] = b /\ \A u \in Tabs \ {t} : tx'[u] = tx[u]
    BY <1>0, <2>1
  <2> QED  BY <2>1, <2>2, <2>3 DEF form
<1>2. ASSUME NEW t \in Tabs, ReadForm(t) PROVE FormHeld'
  BY <1>0, <1>2 DEF ReadForm, form, Tx
<1>3. ASSUME NEW t \in Tabs, LockMember(t) PROVE FormHeld'
  BY <1>0, <1>3 DEF LockMember, form, Tx
<1>4. ASSUME NEW t \in Tabs, LoadCanonical(t) PROVE FormHeld'
  <2>1. UNCHANGED form /\ tx[t].stage = "locked"
    BY <1>4 DEF LoadCanonical
  <2>0. CASE tx' = [tx EXCEPT ![t].stage = "loaded"]
    BY <1>0, <2>0, <2>1 DEF form, Tx
  <2>3. ASSUME NEW r, tx' = [tx EXCEPT ![t].stage = "loaded", ![t].row = r]
        PROVE  FormHeld'
    BY <1>0, <2>1, <2>3 DEF form, Tx
  <2> QED  BY <1>4, <2>0, <2>3 DEF LoadCanonical
<1>5. ASSUME NEW t \in Tabs,
             \/ Refuse(t) \/ Fail(t) \/ DenyAttempt(t) \/ DeadlockVictim(t)
             \/ SubmitUnlimited(t) \/ SubmitFirst(t) \/ SubmitEdit(t) \/ SubmitAttempt(t)
      PROVE  FormHeld'
  BY <1>5, <1>e
  DEF Refuse, Fail, DenyAttempt, DeadlockVictim, End, SubmitUnlimited, SubmitFirst,
      SubmitEdit, SubmitAttempt, Commit
<1>6. ASSUME NEW c \in Configs, UpdateForm(c) PROVE FormHeld'
  BY <1>6 DEF UpdateForm
<1>7. CASE DeleteFormCommit  BY <1>7 DEF DeleteFormCommit
<1>8. CASE UNCHANGED <<form, tx>>  BY <1>8 DEF form
<1>9. CASE \/ \E S \in SUBSET responses : DeleteResponses(S)
           \/ DeleteFormRows \/ DeleteFormRollback \/ Tick \/ UNCHANGED vars
  BY <1>8, <1>9 DEF DeleteResponses, DeleteFormRows, DeleteFormRollback, Tick, vars
<1> QED
  BY <1>1, <1>2, <1>3, <1>4, <1>5, <1>6, <1>7, <1>9 DEF Next, Submit

\* Only a commit makes the sequence longer, by one submission.
LEMMA CommitStep ==
    Typed /\ FormHeld /\ [Next]_vars =>
        [Len(committed') > Len(committed) =>
            live /\ committed'[Len(committed')].version = version]_vars
<1> SUFFICES ASSUME Typed, FormHeld, Next, Len(committed') > Len(committed)
             PROVE  live /\ committed'[Len(committed')].version = version
  OBVIOUS
<1>0. committed \in Seq(Submitted)
  BY DEF Typed, TypeOK
<1>1. committed' # committed
  BY <1>0
<1>2. PICK t \in Tabs :
         \/ SubmitUnlimited(t) \/ SubmitFirst(t) \/ SubmitEdit(t) \/ SubmitAttempt(t)
  BY <1>1
  DEF Next, Submit, OpenForm, OpenPage, Begin, ReadForm, Refuse, LockMember, LoadCanonical, DenyAttempt,
      DeadlockVictim, Fail, End, UpdateForm, DeleteResponses, DeleteFormRows,
      DeleteFormCommit, DeleteFormRollback, Tick
<1>3. SharesForm(t)
  BY <1>2 DEF SubmitUnlimited, SubmitFirst, SubmitEdit, SubmitAttempt, SharesForm
<1>4. PICK e : committed' = Append(committed, e) /\ e.version = tx[t].version
  <2>1. PICK row : Commit(t, row)
    BY <1>2 DEF SubmitUnlimited, SubmitFirst, SubmitEdit, SubmitAttempt
  <2> DEFINE e == [tab |-> t, row |-> row.id, member |-> tx[t].member,
                   version |-> tx[t].version, score |-> New(t).score,
                   passed |-> New(t).passed, now |-> tx[t].now]
  <2>2. committed' = Append(committed, e)
    BY <2>1 DEF Commit
  <2>3. e.version = tx[t].version
    OBVIOUS
  <2> HIDE DEF e
  <2> QED  BY <2>2, <2>3
<1>5. committed'[Len(committed')] = e
  BY <1>0, <1>4
<1> QED  BY <1>3, <1>4, <1>5 DEF FormHeld

\* Whatever admins save, archive or delete meanwhile, a submission commits only
\* against the version of the form it was validated and graded for.
THEOREM CommitsCurrent == Spec => CommitsCurrentVersion
<1>1. Typed /\ FormHeld /\ [Next]_vars => (Typed /\ FormHeld)'
  BY TypedStep, FormHeldStep
<1> QED
  BY <1>1, TypedInit, FormHeldInit, CommitStep, PTL DEF Spec, CommitsCurrentVersion

-----------------------------------------------------------------------------
(* The steps, by what they do to the tabs. *)

\* Everything but the tabs' own records.
others == <<clock, form, responses, deleting, doomed, committed, erased>>

\* Tab t goes on to b, and nothing else changes.
Moves(t, b) == tx' = [tx EXCEPT ![t] = b] /\ UNCHANGED others

\* How a tab goes on without writing: it opens the page and submits it ..
Opens(t, b) ==
    /\ tx[t].stage = "idle" /\ live /\ ~config.archived
    /\ \E m \in Members : b = [Blank("opening") EXCEPT
          !.member = m, !.version = version, !.cfg = config, !.now = clock]

Shown(t, page) ==
    [Blank("open") EXCEPT
        !.member = tx[t].member, !.version = tx[t].version, !.page = page]

Renders(t, b) ==
    /\ tx[t].stage = "opening"
    /\ \/ b = Shown(t, NoPage)
       \/ /\ Governed(tx[t].cfg)
          /\ \E r \in Canonical(tx[t].member) :
                b = Shown(t, Status(tx[t].cfg, r, tx[t].now))

Begins(t, b) ==
    /\ tx[t].stage = "open"
    /\ \E s \in Scores : b = [tx[t] EXCEPT !.stage = "begun", !.score = s, !.start = clock]

Approaches(t, b) == Opens(t, b) \/ Renders(t, b) \/ Begins(t, b)

\* .. the transaction reads the form and takes its locks ..
Reads(t, b) ==
    /\ tx[t].stage = "begun" /\ live /\ ~config.archived /\ version = tx[t].version
    /\ b = [tx[t] EXCEPT !.stage = "read", !.cfg = config, !.now = clock]

Locks(t, b) ==
    /\ tx[t].stage = "read"
    /\ Single(tx[t].cfg) =>
         \A u \in Tabs \ {t} : HoldsMember(u) => tx[u].member # tx[t].member
    /\ b = [tx[t] EXCEPT !.stage = "locked"]

Loads(t, b) ==
    /\ tx[t].stage = "locked" /\ Single(tx[t].cfg)
    /\ \/ RowsOf(tx[t].member) = {} /\ b = [tx[t] EXCEPT !.stage = "loaded"]
       \/ \E r \in Canonical(tx[t].member) :
             RowFree(r) /\ b = [tx[t] EXCEPT !.stage = "loaded", !.row = r]

\* .. or ends.
Ends(t, b) ==
    tx[t].stage \in {"begun", "read", "locked", "loaded"} /\ b = Blank("ended")

\* What a commit writes: a row of its own, or the row it has loaded.
Fresh(t, row) ==
    /\ \/ tx[t].stage = "locked" /\ ~Single(tx[t].cfg)
       \/ tx[t].stage = "loaded" /\ tx[t].row = None
    /\ row = FreshRow(t)

Edited(t) ==
    [tx[t].row EXCEPT !.answers = t, !.version = tx[t].version,
                      !.score = New(t).score, !.passed = New(t).passed,
                      !.edited = tx[t].start]

Edits(t, row) ==
    /\ tx[t].stage = "loaded" /\ tx[t].row # None /\ Editable(tx[t].cfg)
    /\ row = Edited(t)

Attempted(t) ==
    LET a == NextAttempt(tx[t].cfg, tx[t].row, New(t))
    IN  [tx[t].row EXCEPT !.answers = IF a.overwrite THEN t ELSE @,
                          !.version = IF a.overwrite THEN tx[t].version ELSE @,
                          !.score = a.score, !.passed = a.passed, !.count = a.count,
                          !.edited = tx[t].start]

Attempts(t, row) ==
    /\ tx[t].stage = "loaded" /\ tx[t].row # None /\ ~Editable(tx[t].cfg)
    /\ ~Denied(tx[t].now, tx[t].cfg, tx[t].row)
    /\ row = Attempted(t)

Writes(t, row) == Fresh(t, row) \/ Edits(t, row) \/ Attempts(t, row)

LEMMA TabStep ==
    ASSUME Typed, NEW t \in Tabs,
           \/ \E m \in Members : OpenForm(t, m)
           \/ \E s \in Scores : Begin(t, s)
           \/ OpenPage(t) \/ ReadForm(t) \/ LockMember(t) \/ LoadCanonical(t)
           \/ Refuse(t) \/ DenyAttempt(t) \/ DeadlockVictim(t) \/ Fail(t)
    PROVE  \E b \in Tx : /\ Moves(t, b)
                         /\ \/ Approaches(t, b) \/ Reads(t, b) \/ Locks(t, b)
                            \/ Loads(t, b) \/ Ends(t, b)
<1>0. /\ tx \in [Tabs -> Tx] /\ tx[t] \in Tx /\ clock \in Nat /\ version \in Nat
      /\ config \in Config \cup {None} /\ responses \subseteq Row
  BY DEF Typed, TypeOK
<1>t. Typed'
  BY TypedStep DEF Next, Submit
<1>1. ASSUME NEW b, Moves(t, b),
             \/ Approaches(t, b) \/ Reads(t, b) \/ Locks(t, b) \/ Loads(t, b) \/ Ends(t, b)
      PROVE  \E c \in Tx : /\ Moves(t, c)
                           /\ \/ Approaches(t, c) \/ Reads(t, c) \/ Locks(t, c)
                              \/ Loads(t, c) \/ Ends(t, c)
  <2>1. b = tx'[t]
    BY <1>0, <1>1 DEF Moves
  <2>2. b \in Tx
    BY <1>t, <2>1 DEF Typed, TypeOK
  <2> QED  BY <1>1, <2>2
<1>2. ASSUME NEW m \in Members, OpenForm(t, m)
      PROVE  \E b : Moves(t, b) /\ Approaches(t, b)
  <2> DEFINE b == [Blank("opening") EXCEPT !.member = m, !.version = version,
                                           !.cfg = config, !.now = clock]
  <2>1. Moves(t, b)
    BY <1>2 DEF OpenForm, Moves, others
  <2>2. Opens(t, b)
    BY <1>2 DEF OpenForm, Opens
  <2> HIDE DEF b
  <2> QED  BY <2>1, <2>2 DEF Approaches
<1>3. CASE OpenPage(t)
  <2>1. PICK page : /\ \/ page = NoPage
                       \/ /\ Governed(tx[t].cfg)
                          /\ \E r \in Canonical(tx[t].member) :
                                page = Status(tx[t].cfg, r, tx[t].now)
                    /\ tx' = [tx EXCEPT ![t] = Shown(t, page)]
    BY <1>3 DEF OpenPage, Shown
  <2>2. tx[t].stage = "opening" /\ UNCHANGED others
    BY <1>3 DEF OpenPage, others
  <2> DEFINE b == Shown(t, page)
  <2>3. Moves(t, b) /\ Renders(t, b)
    BY <2>1, <2>2 DEF Moves, Renders
  <2> HIDE DEF b
  <2> QED  BY <1>1, <2>3 DEF Approaches
<1>4. ASSUME NEW s \in Scores, Begin(t, s)
      PROVE  \E b : Moves(t, b) /\ Approaches(t, b)
  <2> DEFINE b == [tx[t] EXCEPT !.stage = "begun", !.score = s, !.start = clock]
  <2>1. Moves(t, b)
    BY <1>4 DEF Begin, Moves, others
  <2>2. Begins(t, b)
    BY <1>4 DEF Begin, Begins
  <2> HIDE DEF b
  <2> QED  BY <2>1, <2>2 DEF Approaches
<1>5. CASE ReadForm(t)
  BY <1>1, <1>5 DEF ReadForm, Moves, Reads, others
<1>6. CASE LockMember(t)
  <2>1. Moves(t, [tx[t] EXCEPT !.stage = "locked"])
    BY <1>6 DEF LockMember, Moves, others
  <2>2. Locks(t, [tx[t] EXCEPT !.stage = "locked"])
    BY <1>6 DEF LockMember, Locks
  <2> QED  BY <1>1, <2>1, <2>2
<1>7. CASE LoadCanonical(t)
  <2>1. tx[t].stage = "locked" /\ Single(tx[t].cfg) /\ UNCHANGED others
    BY <1>7 DEF LoadCanonical, others
  <2>2. CASE /\ RowsOf(tx[t].member) = {}
             /\ tx' = [tx EXCEPT ![t].stage = "loaded"]
    <3>1. Moves(t, [tx[t] EXCEPT !.stage = "loaded"])
      BY <2>1, <2>2 DEF Moves
    <3>2. Loads(t, [tx[t] EXCEPT !.stage = "loaded"])
      BY <2>1, <2>2 DEF Loads
    <3> QED  BY <1>1, <3>1, <3>2
  <2>3. ASSUME NEW r \in Canonical(tx[t].member), RowFree(r),
               tx' = [tx EXCEPT ![t].stage = "loaded", ![t].row = r]
        PROVE  \E b : Moves(t, b) /\ Loads(t, b)
    <3>1. Moves(t, [tx[t] EXCEPT !.stage = "loaded", !.row = r])
      BY <2>1, <2>3 DEF Moves
    <3>2. Loads(t, [tx[t] EXCEPT !.stage = "loaded", !.row = r])
      BY <2>1, <2>3 DEF Loads
    <3> QED  BY <3>1, <3>2
  <2> QED  BY <1>1, <1>7, <2>2, <2>3 DEF LoadCanonical
<1>8. CASE Refuse(t) \/ DenyAttempt(t) \/ DeadlockVictim(t) \/ Fail(t)
  <2>1. Moves(t, Blank("ended")) /\ Ends(t, Blank("ended"))
    BY <1>8 DEF Refuse, DenyAttempt, DeadlockVictim, Fail, End, Moves, Ends, others
  <2> QED  BY <1>1, <2>1
<1> QED  BY <1>1, <1>2, <1>3, <1>4, <1>5, <1>6, <1>7, <1>8

\* The fields that the locks are about, after each of these moves.
LEMMA MoveFields ==
    ASSUME Typed, NEW t \in Tabs, NEW b
    PROVE  /\ Approaches(t, b) => /\ tx[t].stage \in {"idle", "opening", "open"}
                                  /\ b.stage \in {"opening", "open", "begun"}
                                  /\ b.row = None \/ b.row = tx[t].row
           /\ Reads(t, b) => /\ b.stage = "read" /\ b.cfg = config
                             /\ b.row = tx[t].row /\ b.version = version
           /\ Locks(t, b) => /\ b.stage = "locked" /\ b.cfg = tx[t].cfg
                             /\ b.version = tx[t].version
                             /\ b.row = tx[t].row /\ b.member = tx[t].member
           /\ Loads(t, b) => /\ b.stage = "loaded" /\ b.cfg = tx[t].cfg
                             /\ b.version = tx[t].version /\ b.member = tx[t].member
                             /\ \/ b.row = tx[t].row /\ RowsOf(tx[t].member) = {}
                                \/ b.row \in Canonical(tx[t].member) /\ RowFree(b.row)
           /\ Ends(t, b) => b.stage = "ended" /\ b.row = None
<1>0. tx[t] \in Tx
  BY DEF Typed, TypeOK
<1>1. Approaches(t, b) => /\ tx[t].stage \in {"idle", "opening", "open"}
                          /\ b.stage \in {"opening", "open", "begun"}
                          /\ b.row = None \/ b.row = tx[t].row
  <2>1. Opens(t, b) => b.stage = "opening" /\ b.row = None
    BY DEF Opens, Blank
  <2>2. Renders(t, b) => b.stage = "open" /\ b.row = None
    <3>1. \A page : Shown(t, page).stage = "open" /\ Shown(t, page).row = None
      BY DEF Shown, Blank
    <3> HIDE DEF Shown
    <3> QED  BY <3>1 DEF Renders
  <2>3. Begins(t, b) => b.stage = "begun" /\ b.row = tx[t].row
    BY <1>0 DEF Begins, Tx
  <2>4. Approaches(t, b) => tx[t].stage \in {"idle", "opening", "open"}
    BY DEF Approaches, Opens, Renders, Begins
  <2> QED  BY <2>1, <2>2, <2>3, <2>4 DEF Approaches
<1>2. Reads(t, b) => /\ b.stage = "read" /\ b.cfg = config
                     /\ b.row = tx[t].row /\ b.version = version
  BY <1>0 DEF Reads, Tx
<1>3. Locks(t, b) => /\ b.stage = "locked" /\ b.cfg = tx[t].cfg
                     /\ b.version = tx[t].version
                     /\ b.row = tx[t].row /\ b.member = tx[t].member
  BY <1>0 DEF Locks, Tx
<1>4. Loads(t, b) => /\ b.stage = "loaded" /\ b.cfg = tx[t].cfg
                     /\ b.version = tx[t].version /\ b.member = tx[t].member
                     /\ \/ b.row = tx[t].row /\ RowsOf(tx[t].member) = {}
                        \/ b.row \in Canonical(tx[t].member) /\ RowFree(b.row)
  <2>1. LET c == [tx[t] EXCEPT !.stage = "loaded"]
        IN  /\ c.stage = "loaded" /\ c.cfg = tx[t].cfg /\ c.version = tx[t].version
            /\ c.member = tx[t].member /\ c.row = tx[t].row
    BY <1>0 DEF Tx
  <2>2. ASSUME NEW r
        PROVE  LET c == [tx[t] EXCEPT !.stage = "loaded", !.row = r]
               IN  /\ c.stage = "loaded" /\ c.cfg = tx[t].cfg /\ c.version = tx[t].version
                   /\ c.member = tx[t].member /\ c.row = r
    BY <1>0 DEF Tx
  <2>3. CASE RowsOf(tx[t].member) = {} /\ b = [tx[t] EXCEPT !.stage = "loaded"]
    BY <2>1, <2>3
  <2>4. ASSUME NEW r \in Canonical(tx[t].member), RowFree(r),
               b = [tx[t] EXCEPT !.stage = "loaded", !.row = r]
        PROVE  /\ b.stage = "loaded" /\ b.cfg = tx[t].cfg
               /\ b.version = tx[t].version /\ b.member = tx[t].member
               /\ b.row = r
    BY <2>2, <2>4
  <2> QED  BY <2>3, <2>4 DEF Loads
<1>5. Ends(t, b) => b.stage = "ended" /\ b.row = None
  BY DEF Ends, Blank
<1> QED  BY <1>1, <1>2, <1>3, <1>4, <1>5

\* The four ways to commit.
LEMMA CommitStepOf ==
    ASSUME Typed, NEW t \in Tabs,
           SubmitUnlimited(t) \/ SubmitFirst(t) \/ SubmitEdit(t) \/ SubmitAttempt(t)
    PROVE  \E row : Commit(t, row) /\ Writes(t, row) /\ SharesForm(t)
BY DEF SubmitUnlimited, SubmitFirst, SubmitEdit, SubmitAttempt, Writes, Fresh, Edits,
       Attempts, Edited, Attempted, SharesForm

\* Every step is one of these, or an admin's, or time's.
LEMMA Steps ==
    ASSUME Typed, [Next]_vars
    PROVE  \/ \E t \in Tabs, b \in Tx :
                 /\ Moves(t, b)
                 /\ \/ Approaches(t, b) \/ Reads(t, b) \/ Locks(t, b)
                    \/ Loads(t, b) \/ Ends(t, b)
           \/ \E t \in Tabs : \E row : Commit(t, row) /\ Writes(t, row) /\ SharesForm(t)
           \/ \E c \in Configs : UpdateForm(c)
           \/ \E S \in SUBSET responses : DeleteResponses(S)
           \/ DeleteFormRows \/ DeleteFormCommit \/ DeleteFormRollback
           \/ Tick \/ UNCHANGED vars
<1>1. ASSUME NEW t \in Tabs,
             \/ \E m \in Members : OpenForm(t, m)
             \/ \E s \in Scores : Begin(t, s)
             \/ OpenPage(t) \/ Submit(t) \/ Fail(t)
      PROVE  \/ \E b \in Tx :
                 /\ Moves(t, b)
                 /\ \/ Approaches(t, b) \/ Reads(t, b) \/ Locks(t, b)
                    \/ Loads(t, b) \/ Ends(t, b)
             \/ \E row : Commit(t, row) /\ Writes(t, row) /\ SharesForm(t)
  BY <1>1, TabStep, CommitStepOf DEF Submit
<1> QED  BY <1>1 DEF Next

-----------------------------------------------------------------------------
(* The inductive invariant of the locks. *)

\* FOR SHARE: a transaction and everyone it runs beside see the same settings.
FormFrozen ==
    \A t \in Tabs : SharesForm(t) => /\ live /\ ~config.archived
                                     /\ tx[t].cfg = config /\ tx[t].version = version

\* A row has its own id, that of a request which has ended, and ids stay spent.
RowIds ==
    /\ \A r \in responses : r.id \notin erased /\ tx[r.id].stage = "ended"
    /\ \A r, q \in responses : r.id = q.id => r = q
    /\ \A x \in erased \cup doomed : tx[x].stage = "ended"

\* pg_advisory_xact_lock.
Exclusive ==
    \A t, u \in Tabs : t # u /\ HoldsMember(t) /\ HoldsMember(u) =>
        tx[t].member # tx[u].member

\* What a transaction has loaded is still so when it writes: the member has no
\* row, or this is the member's newest and nobody has deleted it.
LoadedFrozen ==
    \A t \in Tabs :
        /\ tx[t].stage # "loaded" => tx[t].row = None
        /\ tx[t].stage = "loaded" =>
              /\ Single(tx[t].cfg)
              /\ tx[t].row = None => RowsOf(tx[t].member) = {}
              /\ tx[t].row # None => /\ tx[t].row \in Canonical(tx[t].member)
                                     /\ tx[t].row.id \notin doomed

Held == FormFrozen /\ RowIds /\ Exclusive /\ LoadedFrozen

LEMMA HeldInit == Init => Held
<1> SUFFICES ASSUME Init PROVE Held
  OBVIOUS
<1>1. \A t \in Tabs : tx[t].stage = "idle" /\ tx[t].row = None
  BY DEF Init, Blank
<1>2. responses = {} /\ doomed = {} /\ erased = {}
  BY DEF Init
<1> QED
  BY <1>1, <1>2 DEF Held, FormFrozen, RowIds, Exclusive, LoadedFrozen, SharesForm, HoldsMember

\* A row that a transaction has loaded is a row, locked and of its member.
LEMMA LoadedRow ==
    ASSUME Typed, Held, NEW t \in Tabs, tx[t].stage = "loaded", tx[t].row # None
    PROVE  /\ tx[t].row \in responses /\ tx[t].row \in Row
           /\ tx[t].row.member = tx[t].member /\ LocksRow(t, tx[t].row)
<1>1. tx[t].row \in Canonical(tx[t].member)
  BY DEF Held, LoadedFrozen
<1>2. tx[t].row \in responses /\ tx[t].row.member = tx[t].member
  BY <1>1 DEF Canonical, RowsOf
<1> QED  BY <1>2 DEF Typed, TypeOK, LocksRow

\* A tab that moves without writing.
LEMMA HeldMoves ==
    ASSUME Typed, Held, NEW t \in Tabs, NEW b \in Tx, Moves(t, b),
           Approaches(t, b) \/ Reads(t, b) \/ Locks(t, b) \/ Loads(t, b) \/ Ends(t, b)
    PROVE  Held'
<1>0. tx \in [Tabs -> Tx]
  BY DEF Typed, TypeOK
<1>1. tx'[t] = b /\ \A u \in Tabs \ {t} : tx'[u] = tx[u]
  BY <1>0 DEF Moves
<1>2. UNCHANGED <<form, responses, doomed, erased>>
  BY DEF Moves, others
<1>3. FormFrozen /\ RowIds /\ Exclusive /\ LoadedFrozen
  BY DEF Held
<1>4. tx[t].stage # "ended"
  BY MoveFields DEF Reads, Locks, Loads, Ends
<1>5. FormFrozen'
  <2> SUFFICES ASSUME NEW u \in Tabs, SharesForm(u)'
               PROVE  (/\ live /\ ~config.archived
                       /\ tx[u].cfg = config /\ tx[u].version = version)'
    BY DEF FormFrozen
  <2>1. CASE u # t
    BY <1>1, <1>2, <1>3, <2>1 DEF FormFrozen, SharesForm, form
  <2>2. CASE u = t /\ Reads(t, b)
    <3>1. b.cfg = config /\ b.version = version
      BY <2>2, MoveFields
    <3>2. live /\ ~config.archived
      BY <2>2 DEF Reads
    <3>3. tx'[u] = b /\ UNCHANGED <<live, config, version>>
      BY <1>1, <1>2, <2>2 DEF form
    <3> QED  BY <3>1, <3>2, <3>3
  <2>3. CASE u = t /\ (Locks(t, b) \/ Loads(t, b))
    <3>1. SharesForm(t)
      BY <2>3 DEF Locks, Loads, SharesForm
    <3>2. live /\ ~config.archived /\ tx[t].cfg = config /\ tx[t].version = version
      BY <1>3, <3>1 DEF FormFrozen
    <3> QED  BY <1>1, <1>2, <2>3, <3>2, MoveFields DEF form
  <2>4. CASE u = t /\ (Approaches(t, b) \/ Ends(t, b))
    BY <1>1, <2>4, MoveFields DEF SharesForm
  <2> QED  BY <2>1, <2>2, <2>3, <2>4
<1>6. RowIds'
  <2>1. \A u \in Tabs : tx[u].stage = "ended" => tx'[u].stage = "ended"
    BY <1>1, <1>4
  <2>2. /\ \A r \in responses : r.id \in Tabs
        /\ erased \cup doomed \subseteq Tabs
    BY DEF Typed, TypeOK, Row
  <2> QED  BY <1>2, <1>3, <2>1, <2>2 DEF RowIds
<1>7. Exclusive'
  <2> SUFFICES ASSUME NEW u \in Tabs, NEW v \in Tabs, u # v,
                      HoldsMember(u)', HoldsMember(v)'
               PROVE  tx'[u].member # tx'[v].member
    BY DEF Exclusive
  <2>1. CASE u # t /\ v # t
    BY <1>1, <1>3, <2>1 DEF Exclusive, HoldsMember
  <2>2. ASSUME NEW w \in Tabs, w # t, HoldsMember(w)', HoldsMember(t)'
        PROVE  tx'[t].member # tx'[w].member
    <3>1. HoldsMember(w) /\ tx'[w].member = tx[w].member
      BY <1>1, <2>2 DEF HoldsMember
    <3>2. Locks(t, b) \/ Loads(t, b)
      BY <1>1, <2>2, MoveFields DEF HoldsMember
    <3>3. /\ b.member = tx[t].member /\ b.cfg = tx[t].cfg
          /\ Single(tx[t].cfg)
      BY <1>1, <2>2, <3>2, MoveFields DEF HoldsMember
    <3>4. CASE Locks(t, b)
      BY <1>1, <2>2, <3>1, <3>3, <3>4 DEF Locks
    <3>5. CASE Loads(t, b)
      <4>1. HoldsMember(t)
        BY <3>3, <3>5 DEF Loads, HoldsMember
      <4> QED  BY <1>1, <1>3, <2>2, <3>1, <3>3, <4>1 DEF Exclusive
    <3> QED  BY <3>2, <3>4, <3>5
  <2> QED  BY <2>1, <2>2
<1>8. LoadedFrozen'
  <2>1. \A m : RowsOf(m)' = RowsOf(m) /\ Canonical(m)' = Canonical(m)
    BY <1>2 DEF RowsOf, Canonical
  <2> SUFFICES ASSUME NEW u \in Tabs
        PROVE  (/\ tx[u].stage # "loaded" => tx[u].row = None
                /\ tx[u].stage = "loaded" =>
                     /\ Single(tx[u].cfg)
                     /\ tx[u].row = None => RowsOf(tx[u].member) = {}
                     /\ tx[u].row # None => /\ tx[u].row \in Canonical(tx[u].member)
                                            /\ tx[u].row.id \notin doomed)'
    BY DEF LoadedFrozen
  <2>2. CASE u # t
    <3>1. tx'[u] = tx[u] /\ doomed' = doomed
      BY <1>1, <1>2, <2>2
    <3> QED  BY <1>3, <2>1, <3>1 DEF LoadedFrozen
  <2>3. CASE u = t /\ Loads(t, b)
    <3>1. b.stage = "loaded" /\ Single(b.cfg) /\ b.member = tx[t].member
      BY <2>3, MoveFields DEF Loads
    <3>2. tx[t].row = None
      BY <1>3, <2>3 DEF Loads, LoadedFrozen
    <3>3. \/ b.row = None /\ RowsOf(tx[t].member) = {}
          \/ /\ b.row \in Canonical(tx[t].member) /\ b.row.id \notin doomed
             /\ b.row # None
      <4>1. \/ b.row = tx[t].row /\ RowsOf(tx[t].member) = {}
            \/ b.row \in Canonical(tx[t].member) /\ RowFree(b.row)
        BY <2>3, MoveFields
      <4>2. Canonical(tx[t].member) \subseteq Row
        BY DEF Canonical, RowsOf, Typed, TypeOK
      <4> QED  BY <3>2, <4>1, <4>2, RowAssumption DEF RowFree
    <3>4. tx'[u] = b /\ doomed' = doomed
      BY <1>1, <1>2, <2>3
    <3> QED  BY <2>1, <3>1, <3>3, <3>4
  <2>4. CASE u = t /\ ~Loads(t, b)
    <3>1. b.stage # "loaded" /\ (b.row = None \/ b.row = tx[t].row)
      BY <2>4, MoveFields
    <3>2. tx[t].stage # "loaded" \/ b.row = None
      BY <2>4, MoveFields DEF Reads, Locks
    <3> QED  BY <1>1, <1>3, <2>4, <3>1, <3>2 DEF LoadedFrozen
  <2> QED  BY <2>2, <2>3, <2>4
<1> QED  BY <1>5, <1>6, <1>7, <1>8 DEF Held

\* What a commit writes, field by field.
LEMMA FreshFields ==
    ASSUME Typed, NEW t \in Tabs, SharesForm(t), NEW row, Fresh(t, row)
    PROVE  /\ row \in Row /\ row.id = t /\ row.member = tx[t].member /\ row.answers = t
           /\ row.version = tx[t].version /\ row.edited = tx[t].start /\ row.count = 1
           /\ row.score = New(t).score /\ row.passed = New(t).passed
<1>1. row \in Row
  BY FreshRowType DEF Fresh
<1> HIDE DEF New
<1> QED  BY <1>1 DEF Fresh, FreshRow, FirstAttempt

LEMMA EditFields ==
    ASSUME Typed, NEW t \in Tabs, SharesForm(t), NEW row, Edits(t, row)
    PROVE  /\ row \in Row /\ row.id = tx[t].row.id /\ row.member = tx[t].row.member
           /\ row.answers = t /\ row.version = tx[t].version
           /\ row.score = New(t).score /\ row.passed = New(t).passed
           /\ row.count = tx[t].row.count /\ row.edited = tx[t].start
<1>1. /\ tx[t].version \in Nat /\ tx[t].start \in Nat /\ tx[t].row \in Row
  BY DEF Typed, TypeOK, Tx, Edits
<1>2. New(t).score \in Score /\ New(t).passed \in Passed
  BY NewType
<1> HIDE DEF New
<1>3. row = Edited(t)
  BY DEF Edits
<1> QED  BY <1>1, <1>2, <1>3 DEF Edited, Row

LEMMA AttemptFields ==
    ASSUME Typed, NEW t \in Tabs, SharesForm(t), NEW row, Attempts(t, row)
    PROVE  LET e == tx[t].row
               a == NextAttempt(tx[t].cfg, e, New(t))
           IN  /\ row \in Row /\ row.id = e.id /\ row.member = e.member
               /\ row.answers = IF a.overwrite THEN t ELSE e.answers
               /\ row.version = IF a.overwrite THEN tx[t].version ELSE e.version
               /\ row.score = a.score /\ row.passed = a.passed /\ row.count = a.count
               /\ row.edited = tx[t].start
<1>1. /\ tx[t].version \in Nat /\ tx[t].start \in Nat /\ tx[t].row \in Row
  BY DEF Typed, TypeOK, Tx, Attempts
<1>2. New(t).score \in Score /\ New(t).passed \in Passed
  BY NewType
<1> HIDE DEF New
<1> DEFINE e == tx[t].row
           a == NextAttempt(tx[t].cfg, e, New(t))
<1>3. e.score \in Score /\ e.passed \in Passed /\ e.count \in Nat
  BY <1>1 DEF Row
<1>4. /\ a.overwrite \in BOOLEAN /\ a.score \in Score /\ a.passed \in Passed
      /\ a.count \in Nat
  BY <1>2, <1>3, NextAttemptType
<1>5. row = [e EXCEPT !.answers = IF a.overwrite THEN t ELSE @,
                      !.version = IF a.overwrite THEN tx[t].version ELSE @,
                      !.score = a.score, !.passed = a.passed, !.count = a.count,
                      !.edited = tx[t].start]
  BY DEF Attempts, Attempted
<1> HIDE DEF a
<1>6. e \in Row
  BY <1>1
<1> HIDE DEF e
<1>7. /\ row \in Row /\ row.id = e.id /\ row.member = e.member
      /\ row.answers = IF a.overwrite THEN t ELSE e.answers
      /\ row.version = IF a.overwrite THEN tx[t].version ELSE e.version
      /\ row.score = a.score /\ row.passed = a.passed /\ row.count = a.count
      /\ row.edited = tx[t].start
  BY <1>1, <1>4, <1>5, <1>6 DEF Row
<1> QED  BY <1>7 DEF a, e

\* It is a row of the tab's own, which replaces nothing, or replaces the row of
\* the same id that the tab has locked.
LEMMA WriteShape ==
    ASSUME Typed, Held, NEW t \in Tabs, SharesForm(t), NEW row, Writes(t, row)
    PROVE  /\ row \in Row /\ row.member = tx[t].member
           /\ \/ Fresh(t, row) /\ row.id = t /\ \A r \in responses : r.id # t
              \/ /\ Edits(t, row) \/ Attempts(t, row)
                 /\ tx[t].stage = "loaded" /\ tx[t].row # None /\ HoldsMember(t)
                 /\ tx[t].row \in responses /\ tx[t].row.member = tx[t].member
                 /\ row.id = tx[t].row.id
<1>1. CASE Fresh(t, row)
  <2>1. tx[t].stage # "ended"
    BY DEF SharesForm
  <2>2. \A r \in responses : r.id # t
    BY <2>1 DEF Held, RowIds
  <2> QED  BY <1>1, <2>2, FreshFields
<1>2. CASE Edits(t, row) \/ Attempts(t, row)
  <2>1. tx[t].stage = "loaded" /\ tx[t].row # None
    BY <1>2 DEF Edits, Attempts
  <2>2. tx[t].row \in responses /\ tx[t].row.member = tx[t].member
    BY <2>1, LoadedRow
  <2>3. HoldsMember(t)
    BY <2>1 DEF HoldsMember, Held, LoadedFrozen
  <2>4. row \in Row /\ row.id = tx[t].row.id /\ row.member = tx[t].row.member
    BY <1>2, EditFields, AttemptFields
  <2> QED  BY <1>2, <2>1, <2>2, <2>3, <2>4
<1> QED  BY <1>1, <1>2 DEF Writes

\* The rows of everyone else stay as they are.
LEMMA CommitRows ==
    ASSUME Typed, Held, NEW t \in Tabs, SharesForm(t), NEW row, Writes(t, row), Commit(t, row)
    PROVE  /\ \A m : m # tx[t].member => RowsOf(m)' = RowsOf(m)
           /\ \A m : m # tx[t].member => Canonical(m)' = Canonical(m)
<1>1. responses' = {r \in responses : r.id # row.id} \cup {row}
  BY DEF Commit
<1>2. \A r \in responses : r.id = row.id => r.member = tx[t].member
  BY WriteShape DEF Held, RowIds
<1>3. row.member = tx[t].member
  BY WriteShape
<1>4. \A m : m # tx[t].member => RowsOf(m)' = RowsOf(m)
  BY <1>1, <1>2, <1>3 DEF RowsOf
<1> QED  BY <1>4 DEF Canonical

LEMMA HeldCommit ==
    ASSUME Typed, Held, NEW t \in Tabs, SharesForm(t), NEW row, Writes(t, row), Commit(t, row)
    PROVE  Held'
<1>0. tx \in [Tabs -> Tx] /\ responses \subseteq Row /\ erased \cup doomed \subseteq Tabs
  BY DEF Typed, TypeOK
<1>1. /\ tx'[t] = Blank("ended") /\ \A u \in Tabs \ {t} : tx'[u] = tx[u]
      /\ UNCHANGED <<form, doomed, erased>>
      /\ responses' = {r \in responses : r.id # row.id} \cup {row}
  BY <1>0 DEF Commit
<1>2. Blank("ended").stage = "ended" /\ Blank("ended").row = None
  BY DEF Blank
<1>3. FormFrozen /\ RowIds /\ Exclusive /\ LoadedFrozen
  BY DEF Held
<1>4. \A u \in Tabs : tx'[u].stage # "ended" => u # t /\ tx'[u] = tx[u]
  BY <1>1, <1>2
<1>s. \A r : r \in responses' => r \in responses \/ r = row
  BY <1>1
<1>5. FormFrozen'
  BY <1>1, <1>2, <1>3, <1>4 DEF FormFrozen, SharesForm, form
<1>6. RowIds'
  <2>1. \A u \in Tabs : tx[u].stage = "ended" => tx'[u].stage = "ended"
    BY <1>1, <1>2
  <2>2. row.id \notin erased /\ tx'[row.id].stage = "ended"
    <3>1. CASE row.id = t
      <4>1. t \notin erased
        BY <1>3 DEF RowIds, SharesForm
      <4> QED  BY <1>1, <1>2, <3>1, <4>1
    <3>2. CASE row.id = tx[t].row.id /\ tx[t].row \in responses
      <4>1. row.id \notin erased /\ tx[row.id].stage = "ended" /\ row.id \in Tabs
        BY <1>0, <1>3, <3>2 DEF RowIds, Row
      <4> QED  BY <2>1, <4>1
    <3> QED  BY <3>1, <3>2, WriteShape
  <2>3. \A r \in responses' : r.id \notin erased' /\ tx'[r.id].stage = "ended"
    <3> SUFFICES ASSUME NEW r \in responses'
                 PROVE  r.id \notin erased' /\ tx'[r.id].stage = "ended"
      OBVIOUS
    <3>1. CASE r = row  BY <1>1, <2>2, <3>1
    <3>2. CASE r \in responses
      <4>1. r.id \notin erased /\ tx[r.id].stage = "ended" /\ r.id \in Tabs
        BY <1>0, <1>3, <3>2 DEF RowIds, Row
      <4> QED  BY <1>1, <2>1, <4>1
    <3> QED  BY <1>s, <3>1, <3>2
  <2>4. \A r, q \in responses' : r.id = q.id => r = q
    BY <1>1, <1>3 DEF RowIds
  <2>5. \A x \in erased' \cup doomed' : tx'[x].stage = "ended"
    BY <1>0, <1>1, <1>3, <2>1 DEF RowIds
  <2> QED  BY <2>3, <2>4, <2>5 DEF RowIds
<1>7. Exclusive'
  <2>1. \A u \in Tabs : HoldsMember(u)' => HoldsMember(u) /\ tx'[u] = tx[u]
    BY <1>4 DEF HoldsMember
  <2> QED  BY <1>3, <2>1 DEF Exclusive
<1>8. LoadedFrozen'
  <2> SUFFICES ASSUME NEW u \in Tabs
        PROVE  (/\ tx[u].stage # "loaded" => tx[u].row = None
                /\ tx[u].stage = "loaded" =>
                     /\ Single(tx[u].cfg)
                     /\ tx[u].row = None => RowsOf(tx[u].member) = {}
                     /\ tx[u].row # None => /\ tx[u].row \in Canonical(tx[u].member)
                                            /\ tx[u].row.id \notin doomed)'
    BY DEF LoadedFrozen
  <2>1. CASE u = t
    BY <1>1, <1>2, <2>1
  <2>2. CASE u # t /\ tx[u].stage # "loaded"
    BY <1>1, <1>3, <2>2 DEF LoadedFrozen
  <2>3. CASE u # t /\ tx[u].stage = "loaded"
    <3>1. HoldsMember(u)
      BY <1>3, <2>3 DEF HoldsMember, LoadedFrozen
    <3>2. tx[u].cfg = config /\ tx[t].cfg = config
      BY <1>3, <2>3 DEF FormFrozen, SharesForm
    <3>3. HoldsMember(t)
      BY <3>1, <3>2 DEF HoldsMember, Writes, Fresh, Edits, Attempts
    <3>4. tx[u].member # tx[t].member
      BY <1>3, <2>3, <3>1, <3>3 DEF Exclusive
    <3>5. /\ RowsOf(tx[u].member)' = RowsOf(tx[u].member)
          /\ Canonical(tx[u].member)' = Canonical(tx[u].member)
      <4>1. tx'[u].member = tx[u].member
        BY <1>1, <2>3
      <4> QED  BY <3>4, <4>1, CommitRows
    <3>6. tx'[u] = tx[u] /\ doomed' = doomed
      BY <1>1, <2>3
    <3> QED  BY <1>3, <2>3, <3>5, <3>6 DEF LoadedFrozen
  <2> QED  BY <2>1, <2>2, <2>3
<1> QED  BY <1>5, <1>6, <1>7, <1>8 DEF Held

\* A DELETE leaves the rows alone that a transaction has locked, and what it
\* leaves of a member's rows keeps its order.
LEMMA HeldDelete ==
    ASSUME Typed, Held, NEW S \in SUBSET responses, UNCHANGED <<form, tx, doomed>>,
           responses' = responses \ S,
           erased' = erased \cup {r.id : r \in S},
           \A t \in Tabs : \A r \in S : ~LocksRow(t, r)
    PROVE  Held'
<1>3. FormFrozen /\ RowIds /\ Exclusive /\ LoadedFrozen
  BY DEF Held
<1>5. FormFrozen'
  BY <1>3 DEF FormFrozen, SharesForm, form
<1>6. RowIds'
  <2>1. \A r \in responses' : r.id \notin erased'
    BY <1>3 DEF RowIds
  <2>2. \A x \in erased' \cup doomed' : tx'[x].stage = "ended"
    BY <1>3 DEF RowIds
  <2> QED  BY <1>3, <2>1, <2>2 DEF RowIds
<1>7. Exclusive'
  BY <1>3 DEF Exclusive, HoldsMember
<1>8. LoadedFrozen'
  <2> SUFFICES ASSUME NEW t \in Tabs, tx[t].stage = "loaded"
        PROVE  (/\ tx[t].row = None => RowsOf(tx[t].member) = {}
                /\ tx[t].row # None => /\ tx[t].row \in Canonical(tx[t].member)
                                       /\ tx[t].row.id \notin doomed)'
    BY <1>3 DEF LoadedFrozen
  <2>1. RowsOf(tx[t].member)' \subseteq RowsOf(tx[t].member)
    BY DEF RowsOf
  <2>2. ASSUME tx[t].row # None
        PROVE  (tx[t].row \in Canonical(tx[t].member))' /\ tx[t].row.id \notin doomed'
    <3>1. tx[t].row \in Canonical(tx[t].member) /\ tx[t].row.id \notin doomed
      BY <1>3, <2>2 DEF LoadedFrozen
    <3>2. tx[t].row \notin S
      BY <2>2, LoadedRow
    <3>3. tx[t].row \in RowsOf(tx[t].member)'
      BY <3>1, <3>2 DEF Canonical, RowsOf
    <3> QED  BY <2>1, <3>1, <3>3 DEF Canonical
  <2>3. ASSUME tx[t].row = None PROVE RowsOf(tx[t].member)' = {}
    BY <1>3, <2>1, <2>3 DEF LoadedFrozen
  <2> QED  BY <2>2, <2>3
<1> QED  BY <1>5, <1>6, <1>7, <1>8 DEF Held

LEMMA HeldStep == Typed /\ Held /\ [Next]_vars => Held'
<1> SUFFICES ASSUME Typed, Held, [Next]_vars PROVE Held'
  OBVIOUS
<1>3. FormFrozen /\ RowIds /\ Exclusive /\ LoadedFrozen
  BY DEF Held
<1>n. UNCHANGED <<responses, tx, doomed, erased>> => (RowIds /\ Exclusive /\ LoadedFrozen)'
  BY <1>3 DEF RowIds, Exclusive, LoadedFrozen, HoldsMember, Canonical, RowsOf
<1>f. UNCHANGED <<form, tx>> => FormFrozen'
  BY <1>3 DEF FormFrozen, SharesForm, form
<1>1. ASSUME NEW t \in Tabs, NEW b \in Tx, Moves(t, b),
             Approaches(t, b) \/ Reads(t, b) \/ Locks(t, b) \/ Loads(t, b) \/ Ends(t, b)
      PROVE  Held'
  BY <1>1, HeldMoves
<1>2. ASSUME NEW t \in Tabs, NEW row, Commit(t, row), Writes(t, row), SharesForm(t)
      PROVE  Held'
  BY <1>2, HeldCommit
<1>4. ASSUME NEW c \in Configs, UpdateForm(c) PROVE Held'
  <2>1. FormFrozen'
    BY <1>4 DEF UpdateForm, FormFrozen, SharesForm
  <2> QED  BY <1>4, <1>n, <2>1 DEF UpdateForm, Held
<1>5. ASSUME NEW S \in SUBSET responses, DeleteResponses(S) PROVE Held'
  BY <1>5, HeldDelete DEF DeleteResponses, RowFree
<1>6. CASE DeleteFormRows
  <2>1. UNCHANGED <<form, responses, tx, erased>> /\ doomed' = {r.id : r \in responses}
    BY <1>6 DEF DeleteFormRows
  <2>2. RowIds'
    BY <1>3, <2>1 DEF RowIds
  <2>3. LoadedFrozen'
    <3> SUFFICES ASSUME NEW t \in Tabs, tx[t].stage = "loaded", tx[t].row # None
                 PROVE  FALSE
      BY <1>3, <2>1 DEF LoadedFrozen, Canonical, RowsOf
    <3>1. tx[t].row \in responses /\ LocksRow(t, tx[t].row)
      BY LoadedRow
    <3> QED  BY <1>6, <3>1 DEF DeleteFormRows, RowFree
  <2> QED  BY <1>3, <1>f, <2>1, <2>2, <2>3 DEF Held, Exclusive, HoldsMember
<1>7. CASE DeleteFormCommit
  <2> DEFINE S == {r \in responses : r.id \in doomed}
  <2>1. UNCHANGED tx /\ responses' = responses \ S /\ doomed' \subseteq doomed
    BY <1>7 DEF DeleteFormCommit
  <2>2. \A t \in Tabs : ~SharesForm(t)
    BY <1>7 DEF DeleteFormCommit
  <2>3. erased' = erased \cup doomed
    BY <1>7 DEF DeleteFormCommit
  <2>4. \A t \in Tabs : tx[t].stage # "loaded"
    BY <2>2 DEF SharesForm
  <2>5. RowIds'
    BY <1>3, <2>1, <2>3 DEF RowIds
  <2> QED
    BY <1>3, <2>1, <2>2, <2>4, <2>5
    DEF Held, FormFrozen, SharesForm, Exclusive, HoldsMember, LoadedFrozen
<1>8. CASE DeleteFormRollback
  <2>1. UNCHANGED <<form, responses, tx, erased>> /\ doomed' = {}
    BY <1>8 DEF DeleteFormRollback
  <2> QED
    BY <1>3, <1>f, <2>1
    DEF Held, RowIds, Exclusive, LoadedFrozen, HoldsMember, Canonical, RowsOf
<1>9. CASE Tick \/ UNCHANGED vars
  <2>1. UNCHANGED <<form, responses, tx, doomed, erased>>
    BY <1>9 DEF Tick, vars
  <2> QED  BY <1>n, <1>f, <2>1 DEF Held
<1> QED
  BY Steps, <1>1, <1>2, <1>4, <1>5, <1>6, <1>7, <1>8, <1>9

LEMMA HeldAlways == Spec => [](Typed /\ Held)
<1>1. Typed /\ Held /\ [Next]_vars => (Typed /\ Held)'
  BY TypedStep, HeldStep
<1> QED  BY <1>1, TypedInit, HeldInit, PTL DEF Spec

-----------------------------------------------------------------------------
(* One member, one row. *)

\* The settings the form was published with, until an admin saves it.
Unsaved == version = 1

\* version only grows, so a form whose version is 1 has not changed.
VersionOK == version >= 1

LEMMA VersionInit == Init => VersionOK
BY DEF Init, VersionOK

LEMMA VersionStep ==
    ASSUME Typed, VersionOK, [Next]_vars
    PROVE  VersionOK' /\ (Unsaved' => Unsaved /\ config' = config)
<1>0. version \in Nat
  BY DEF Typed, TypeOK
<1>1. ASSUME NEW t \in Tabs, NEW b, Moves(t, b)
      PROVE  version' = version /\ config' = config
  BY <1>1 DEF Moves, others, form
<1>2. ASSUME NEW t \in Tabs, NEW row, Commit(t, row)
      PROVE  version' = version /\ config' = config
  BY <1>2 DEF Commit, form
<1>3. ASSUME NEW c \in Configs, UpdateForm(c) PROVE version' = version + 1
  BY <1>3 DEF UpdateForm
<1>4. ASSUME \/ \E S \in SUBSET responses : DeleteResponses(S)
             \/ DeleteFormRows \/ DeleteFormCommit \/ DeleteFormRollback
             \/ Tick \/ UNCHANGED vars
      PROVE  version' = version /\ config' = config
  BY <1>4 DEF DeleteResponses, DeleteFormRows, DeleteFormCommit, DeleteFormRollback,
              Tick, vars, form
<1>5. \/ version' = version /\ config' = config
      \/ version' = version + 1
  BY Steps, <1>1, <1>2, <1>3, <1>4
<1> QED  BY <1>0, <1>5 DEF VersionOK, Unsaved

OneRow == Unsaved => OneRowPerMember

LEMMA OneRowStep ==
    Typed /\ Held /\ VersionOK /\ OneRow /\ [Next]_vars => OneRow'
<1> SUFFICES ASSUME Typed, Held, VersionOK, OneRow, [Next]_vars, Unsaved', Single(config')
             PROVE  (\A r, q \in responses : r.member = q.member => r = q)'
  BY DEF OneRow, OneRowPerMember
<1>1. \A r, q \in responses : r.member = q.member => r = q
  BY VersionStep DEF OneRow, OneRowPerMember
<1>2. CASE responses' \subseteq responses
  BY <1>1, <1>2
<1>3. ASSUME NEW t \in Tabs, NEW row, Commit(t, row), Writes(t, row), SharesForm(t)
      PROVE  (\A r, q \in responses : r.member = q.member => r = q)'
  <2>1. responses' = {r \in responses : r.id # row.id} \cup {row}
    BY <1>3 DEF Commit
  <2>2. tx[t].cfg = config /\ config' = config
    BY <1>3, VersionStep DEF Held, FormFrozen
  <2>3. ASSUME NEW r \in responses, r.id # row.id PROVE r.member # row.member
    <3>1. CASE Fresh(t, row)
      <4>1. tx[t].stage = "loaded" /\ tx[t].row = None
        BY <2>2, <3>1 DEF Fresh
      <4>2. RowsOf(tx[t].member) = {}
        BY <4>1 DEF Held, LoadedFrozen
      <4>3. row.member = tx[t].member
        BY <1>3, WriteShape
      <4> QED  BY <4>2, <4>3 DEF RowsOf
    <3>2. CASE ~Fresh(t, row)
      <4>1. /\ tx[t].row \in responses /\ tx[t].row.member = row.member
            /\ row.id = tx[t].row.id
        BY <1>3, <3>2, WriteShape
      <4> QED  BY <1>1, <2>3, <4>1
    <3> QED  BY <3>1, <3>2
  <2> QED  BY <1>1, <2>1, <2>3
<1>4. ASSUME NEW t \in Tabs, NEW b, Moves(t, b) PROVE responses' = responses
  BY <1>4 DEF Moves, others
<1>5. ASSUME \/ \E c \in Configs : UpdateForm(c)
             \/ \E S \in SUBSET responses : DeleteResponses(S)
             \/ DeleteFormRows \/ DeleteFormCommit \/ DeleteFormRollback
             \/ Tick \/ UNCHANGED vars
      PROVE  responses' \subseteq responses
  BY <1>5 DEF UpdateForm, DeleteResponses, DeleteFormRows, DeleteFormCommit,
              DeleteFormRollback, Tick, vars
<1> QED  BY Steps, <1>2, <1>3, <1>4, <1>5

LEMMA OneRowAlways == Spec => [](VersionOK /\ OneRow)
<1>1. Init => OneRow
  BY DEF Init, OneRow, OneRowPerMember
<1>2. Typed /\ Held /\ VersionOK /\ OneRow /\ [Next]_vars => (VersionOK /\ OneRow)'
  BY VersionStep, OneRowStep
<1> QED  BY <1>1, <1>2, VersionInit, HeldAlways, PTL DEF Spec

\* A member of a form with one response per member never has two, however many
\* tabs submit at once and whatever is deleted meanwhile: the advisory lock
\* serialises the first inserts (form_render.rs), FOR UPDATE the rest.  Only a
\* save that turns a form of unlimited submissions into a one-response form
\* finds several, so the theorem is about the settings the form started with.
THEOREM OneResponse == Spec => [](version = 1 => OneRowPerMember)
<1>1. OneRow => (version = 1 => OneRowPerMember)
  BY DEF OneRow, Unsaved
<1> QED  BY <1>1, OneRowAlways, PTL

-----------------------------------------------------------------------------
(* A row is of one submission. *)

\* The entry that a commit adds to the history.
LEMMA CommitEntry ==
    ASSUME Typed, NEW t \in Tabs, SharesForm(t), NEW row, Commit(t, row)
    PROVE  LET n == Len(committed) + 1
           IN  /\ DOMAIN committed \subseteq Nat /\ n \in Nat
               /\ DOMAIN committed' = DOMAIN committed \cup {n} /\ n \notin DOMAIN committed
               /\ \A i \in DOMAIN committed : i < n /\ committed'[i] = committed[i]
               /\ committed'[n] = [tab |-> t, row |-> row.id, member |-> tx[t].member,
                      version |-> tx[t].version, score |-> New(t).score,
                      passed |-> New(t).passed, now |-> tx[t].now]
<1> DEFINE n == Len(committed) + 1
           e == [tab |-> t, row |-> row.id, member |-> tx[t].member,
                 version |-> tx[t].version, score |-> New(t).score,
                 passed |-> New(t).passed, now |-> tx[t].now]
<1>1. committed \in Seq(Submitted) /\ committed' = Append(committed, e)
  BY DEF Typed, TypeOK, Commit
<1> HIDE DEF e
<1>2. /\ Len(committed) \in Nat /\ DOMAIN committed = 1 .. Len(committed)
      /\ DOMAIN committed' = 1 .. n
      /\ committed'[n] = e /\ \A i \in 1 .. Len(committed) : committed'[i] = committed[i]
  BY <1>1
<1>3. 1 .. n = (1 .. Len(committed)) \cup {n} /\ n \notin 1 .. Len(committed)
  BY <1>2
<1> QED  BY <1>2, <1>3 DEF e

\* The score of an attempt that overwrites is its own, and of one that only
\* counts the old one.
LEMMA AttemptScore ==
    ASSUME NEW c, NEW e, NEW n, e.score \in Score, n.score \in Score
    PROVE  LET a == NextAttempt(c, e, n)
           IN  a.score = IF a.overwrite THEN n.score ELSE e.score
<1>1. CASE ScoreAwareBest(c, e, n)
  <2>1. NextAttempt(c, e, n).score = IF n.score > e.score THEN n.score ELSE e.score
    BY <1>1 DEF NextAttempt
  <2>2. NextAttempt(c, e, n).overwrite = (n.score > e.score)
    BY <1>1 DEF NextAttempt
  <2> QED  BY <2>1, <2>2
<1>2. CASE ~ScoreAwareBest(c, e, n)
  BY <1>2 DEF NextAttempt
<1> QED  BY <1>1, <1>2

LEMMA RowOfOneStep ==
    Typed /\ Held /\ RowOfOneSubmission /\ [Next]_vars => RowOfOneSubmission'
<1> SUFFICES ASSUME Typed, Held, RowOfOneSubmission, [Next]_vars PROVE RowOfOneSubmission'
  OBVIOUS
<1>1. CASE responses' \subseteq responses /\ committed' = committed
  BY <1>1 DEF RowOfOneSubmission
<1>2. ASSUME NEW t \in Tabs, NEW row, Commit(t, row), Writes(t, row), SharesForm(t)
      PROVE  RowOfOneSubmission'
  <2> DEFINE n == Len(committed) + 1
             Of(r, i) == /\ committed[i].tab = r.answers /\ committed[i].member = r.member
                         /\ committed[i].version = r.version /\ committed[i].score = r.score
  <2>1. /\ DOMAIN committed' = DOMAIN committed \cup {n}
        /\ \A i \in DOMAIN committed : committed'[i] = committed[i]
        /\ committed'[n] = [tab |-> t, row |-> row.id, member |-> tx[t].member,
               version |-> tx[t].version, score |-> New(t).score,
               passed |-> New(t).passed, now |-> tx[t].now]
    BY <1>2, CommitEntry
  <2> HIDE DEF n
  <2>e. /\ committed'[n].tab = t /\ committed'[n].member = tx[t].member
        /\ committed'[n].version = tx[t].version /\ committed'[n].score = New(t).score
    BY <2>1
  <2>2. \A r \in responses : \E i \in DOMAIN committed : Of(r, i)
    BY DEF RowOfOneSubmission
  <2>3. responses' = {r \in responses : r.id # row.id} \cup {row}
    BY <1>2 DEF Commit
  <2>4. \E i \in DOMAIN committed' :
           /\ committed'[i].tab = row.answers /\ committed'[i].member = row.member
           /\ committed'[i].version = row.version /\ committed'[i].score = row.score
    <3>0. row.member = tx[t].member
      BY <1>2, WriteShape
    <3>1. CASE Fresh(t, row) \/ Edits(t, row)
      <4>1. row.answers = t /\ row.version = tx[t].version /\ row.score = New(t).score
        BY <1>2, <3>1, FreshFields, EditFields
      <4> HIDE DEF New
      <4> QED  BY <2>1, <2>e, <3>0, <4>1
    <3>2. CASE Attempts(t, row)
      <4> DEFINE e == tx[t].row
                 a == NextAttempt(tx[t].cfg, e, New(t))
      <4>1. e \in responses /\ e \in Row /\ e.member = tx[t].member
        BY <3>2, LoadedRow DEF Attempts
      <4>2. /\ row.answers = IF a.overwrite THEN t ELSE e.answers
            /\ row.version = IF a.overwrite THEN tx[t].version ELSE e.version
            /\ row.score = a.score
        BY <1>2, <3>2, AttemptFields
      <4>3. a.score = IF a.overwrite THEN New(t).score ELSE e.score
        <5>1. e.score \in Score /\ New(t).score \in Score
          BY <1>2, <4>1, NewType DEF Row
        <5> HIDE DEF New
        <5> QED  BY <5>1, AttemptScore
      <4> HIDE DEF a, New
      <4>4. CASE a.overwrite
        BY <2>1, <2>e, <3>0, <4>2, <4>3, <4>4
      <4>5. CASE ~a.overwrite
        <5>1. PICK i \in DOMAIN committed : Of(e, i)
          BY <2>2, <4>1
        <5> HIDE DEF e
        <5>2. row.answers = e.answers /\ row.version = e.version /\ row.score = e.score
          BY <4>2, <4>3, <4>5
        <5>3. i \in DOMAIN committed' /\ committed'[i] = committed[i]
          BY <2>1
        <5> QED  BY <3>0, <4>1, <5>1, <5>2, <5>3
      <4> QED  BY <4>4, <4>5
    <3> QED  BY <1>2, <3>1, <3>2 DEF Writes
  <2>5. \A r \in responses : \E i \in DOMAIN committed' :
           /\ committed'[i].tab = r.answers /\ committed'[i].member = r.member
           /\ committed'[i].version = r.version /\ committed'[i].score = r.score
    BY <2>1, <2>2
  <2> QED  BY <2>3, <2>4, <2>5 DEF RowOfOneSubmission
<1>3. ASSUME NEW t \in Tabs, NEW b, Moves(t, b)
      PROVE  responses' = responses /\ committed' = committed
  BY <1>3 DEF Moves, others
<1>4. ASSUME \/ \E c \in Configs : UpdateForm(c)
             \/ \E S \in SUBSET responses : DeleteResponses(S)
             \/ DeleteFormRows \/ DeleteFormCommit \/ DeleteFormRollback
             \/ Tick \/ UNCHANGED vars
      PROVE  responses' \subseteq responses /\ committed' = committed
  BY <1>4 DEF UpdateForm, DeleteResponses, DeleteFormRows, DeleteFormCommit,
              DeleteFormRollback, Tick, vars
<1> QED  BY Steps, <1>1, <1>2, <1>3, <1>4

\* The answers, score and schema_version of a row, on which the role conditions
\* are evaluated together, are those of one submission of its member, for any
\* settings, also settings that admins change in between.
THEOREM RowsWhole == Spec => []RowOfOneSubmission
<1>1. Init => RowOfOneSubmission
  BY DEF Init, RowOfOneSubmission
<1> QED  BY <1>1, RowOfOneStep, HeldAlways, PTL DEF Spec

-----------------------------------------------------------------------------
(* The clock of a transaction. *)

\* A transaction has begun, and then read the clock, by now, MaxLag apart at most.
Timed ==
    \A t \in Tabs :
        /\ tx[t].stage = "begun" \/ SharesForm(t) => /\ tx[t].score \in Scores
                                                     /\ tx[t].start <= clock
        /\ tx[t].stage = "begun" => clock <= tx[t].start + MaxLag
        /\ SharesForm(t) => /\ tx[t].start <= tx[t].now /\ tx[t].now <= clock
                            /\ tx[t].now <= tx[t].start + MaxLag

LEMMA TimedInit == Init => Timed
BY DEF Init, Timed, SharesForm, Blank

LEMMA TimedStep == Typed /\ Timed /\ [Next]_vars => Timed'
<1> SUFFICES ASSUME Typed, Timed, [Next]_vars PROVE Timed'
  OBVIOUS
<1>0. /\ tx \in [Tabs -> Tx] /\ clock \in Nat
      /\ \A t \in Tabs : tx[t].start \in Nat /\ tx[t].now \in Nat
  BY DEF Typed, TypeOK, Tx
\* A tab whose record is the same, at a clock that is.
<1>k. ASSUME NEW u \in Tabs, tx'[u] = tx[u], clock' = clock
      PROVE  (/\ tx[u].stage = "begun" \/ SharesForm(u) => /\ tx[u].score \in Scores
                                                          /\ tx[u].start <= clock
              /\ tx[u].stage = "begun" => clock <= tx[u].start + MaxLag
              /\ SharesForm(u) => /\ tx[u].start <= tx[u].now /\ tx[u].now <= clock
                                  /\ tx[u].now <= tx[u].start + MaxLag)'
  BY <1>k DEF Timed, SharesForm
<1>1. ASSUME NEW t \in Tabs, NEW b \in Tx, Moves(t, b),
             Approaches(t, b) \/ Reads(t, b) \/ Locks(t, b) \/ Loads(t, b) \/ Ends(t, b)
      PROVE  Timed'
  <2>1. /\ tx'[t] = b /\ \A u \in Tabs \ {t} : tx'[u] = tx[u]
        /\ clock' = clock
    BY <1>0, <1>1 DEF Moves, others
  <2>2. CASE b.stage \notin {"begun", "read", "locked", "loaded"}
    BY <1>k, <2>1, <2>2 DEF Timed, SharesForm
  <2>3. CASE b.stage = "begun"
    <3>1. Begins(t, b)
      BY <1>1, <2>3, MoveFields DEF Approaches, Opens, Renders, Blank, Shown
    <3>2. b.score \in Scores /\ b.start = clock
      BY <1>0, <3>1 DEF Begins, Tx
    <3> QED  BY <1>0, <1>k, <2>1, <2>3, <3>2 DEF Timed, SharesForm
  <2>4. CASE Reads(t, b)
    <3>1. /\ b.stage = "read" /\ b.now = clock /\ b.start = tx[t].start
          /\ b.score = tx[t].score /\ tx[t].stage = "begun"
      BY <1>0, <2>4 DEF Reads, Tx
    <3>2. tx[t].score \in Scores /\ tx[t].start <= clock /\ clock <= tx[t].start + MaxLag
      BY <3>1 DEF Timed
    <3> QED  BY <1>0, <1>k, <2>1, <3>1, <3>2 DEF Timed, SharesForm
  <2>5. CASE Locks(t, b) \/ Loads(t, b)
    <3>1. /\ SharesForm(t) /\ b.stage \in {"locked", "loaded"}
          /\ b.now = tx[t].now /\ b.start = tx[t].start /\ b.score = tx[t].score
      <4>1. CASE Locks(t, b)
        BY <1>0, <4>1 DEF Locks, SharesForm, Tx
      <4>2. CASE Loads(t, b)
        <5>1. tx[t].stage = "locked"
          BY <4>2 DEF Loads
        <5>2. PICK r : \/ b = [tx[t] EXCEPT !.stage = "loaded"]
                       \/ b = [tx[t] EXCEPT !.stage = "loaded", !.row = r]
          BY <4>2 DEF Loads
        <5>3. tx[t] \in Tx
          BY <1>0
        <5> QED  BY <5>1, <5>2, <5>3 DEF SharesForm, Tx
      <4> QED  BY <2>5, <4>1, <4>2
    <3>2. /\ tx[t].score \in Scores /\ tx[t].start <= clock
          /\ tx[t].start <= tx[t].now /\ tx[t].now <= clock
          /\ tx[t].now <= tx[t].start + MaxLag
      BY <3>1 DEF Timed
    <3> QED  BY <1>k, <2>1, <3>1, <3>2 DEF Timed, SharesForm
  <2>6. \/ b.stage \notin {"begun", "read", "locked", "loaded"} \/ b.stage = "begun"
        \/ Reads(t, b) \/ Locks(t, b) \/ Loads(t, b)
    BY <1>1, MoveFields
  <2> QED  BY <2>2, <2>3, <2>4, <2>5, <2>6
<1>2. ASSUME NEW t \in Tabs, NEW row, Commit(t, row) PROVE Timed'
  <2>1. /\ tx'[t].stage = "ended" /\ \A u \in Tabs \ {t} : tx'[u] = tx[u]
        /\ clock' = clock
    BY <1>0, <1>2 DEF Commit, Blank
  <2> QED  BY <1>k, <2>1 DEF Timed, SharesForm
<1>3. ASSUME UNCHANGED <<tx, clock>> PROVE Timed'
  BY <1>3 DEF Timed, SharesForm
<1>4. ASSUME \/ \E c \in Configs : UpdateForm(c)
             \/ \E S \in SUBSET responses : DeleteResponses(S)
             \/ DeleteFormRows \/ DeleteFormCommit \/ DeleteFormRollback
             \/ UNCHANGED vars
      PROVE  UNCHANGED <<tx, clock>>
  BY <1>4 DEF UpdateForm, DeleteResponses, DeleteFormRows, DeleteFormCommit,
              DeleteFormRollback, vars
<1>5. CASE Tick
  <2>1. /\ UNCHANGED tx /\ clock' = clock + 1
        /\ \A t \in Tabs : tx[t].stage = "begun" => clock < tx[t].start + MaxLag
    BY <1>5 DEF Tick
  <2> QED  BY <1>0, <2>1 DEF Timed, SharesForm
<1> QED  BY Steps, <1>1, <1>2, <1>3, <1>4, <1>5

LEMMA TimedAlways == Spec => []Timed
BY TimedInit, TimedStep, HeldAlways, PTL DEF Spec

-----------------------------------------------------------------------------
(* The transactions implement the serial form. *)

\* Both have the same rules.
LEMMA SameRules ==
    /\ \A c : Serial!Single(c) <=> Single(c)
    /\ \A c : Serial!Editable(c) <=> Editable(c)
    /\ \A c : Serial!Normal(c) = Normal(c)
    /\ \A c, x : Serial!StoredPassed(c, x) = StoredPassed(c, x)
    /\ \A now, c, e : Serial!Denied(now, c, e) <=> Denied(now, c, e)
    /\ \A c, e, n : Serial!NextAttempt(c, e, n) = NextAttempt(c, e, n)
<1>1. \A c : Serial!Single(c) <=> Single(c)
  BY DEF Serial!Single, Single
<1>2. \A c : Serial!Editable(c) <=> Editable(c)
  BY DEF Serial!Editable, Editable
<1>3. \A c : Serial!Normal(c) = Normal(c)
  BY DEF Serial!Normal, Normal
<1>4. \A c, x : Serial!StoredPassed(c, x) = StoredPassed(c, x)
  BY DEF Serial!StoredPassed, StoredPassed
<1>5. \A now, c, e : Serial!Denied(now, c, e) <=> Denied(now, c, e)
  BY DEF Serial!Denied, Serial!AlreadyPassed, Serial!Exhausted, Serial!Cooling,
         Denied, AlreadyPassed, Exhausted, Cooling
<1>6. \A c, e, n : Serial!NextAttempt(c, e, n) = NextAttempt(c, e, n)
  <2>1. \A c, e, n : Serial!ScoreAwareBest(c, e, n) <=> ScoreAwareBest(c, e, n)
    BY DEF Serial!ScoreAwareBest, ScoreAwareBest
  <2>2. \A a, b : Serial!CombinedPassed(a, b) = CombinedPassed(a, b)
    BY DEF Serial!CombinedPassed, CombinedPassed
  <2> HIDE DEF Serial!ScoreAwareBest, ScoreAwareBest, Serial!CombinedPassed, CombinedPassed
  <2> QED  BY <2>1, <2>2 DEF Serial!NextAttempt, NextAttempt
<1> QED  BY <1>1, <1>2, <1>3, <1>4, <1>5, <1>6

\* What the serial form sees while the form is there.
LEMMA SameRows ==
    ASSUME live, live', NEW m
    PROVE  /\ Serial!Of(m) = RowsOf(m) /\ Serial!Newest(m) = Canonical(m)
           /\ \A row : Serial!Write(row) <=>
                          responses' = {r \in responses : r.id # row.id} \cup {row}
<1>1. Serial!Of(m) = RowsOf(m)
  BY DEF Serial!Of, RowsOf
<1>2. Serial!Newest(m) = Canonical(m)
  BY <1>1 DEF Serial!Newest, Canonical
<1>3. \A row : Serial!Write(row) <=>
                  responses' = {r \in responses : r.id # row.id} \cup {row}
  BY DEF Serial!Write
<1> QED  BY <1>1, <1>2, <1>3

\* A transaction grades by the form as it still is.
LEMMA SameGrade ==
    ASSUME NEW t \in Tabs, tx[t].cfg = config
    PROVE  Serial!Graded(tx[t].score) = New(t)
BY SameRules DEF Serial!Graded, New

LEMMA SerialMoves ==
    ASSUME Typed, NEW t \in Tabs, NEW b \in Tx, Moves(t, b),
           Approaches(t, b) \/ Reads(t, b) \/ Locks(t, b) \/ Loads(t, b) \/ Ends(t, b)
    PROVE  [Serial!Next]_Serial!vars
<1> DEFINE ended == {u \in Tabs : tx[u].stage = "ended"}
<1>0. tx \in [Tabs -> Tx]
  BY DEF Typed, TypeOK
<1>1. tx'[t] = b /\ \A u \in Tabs \ {t} : tx'[u] = tx[u]
  BY <1>0 DEF Moves
<1>2. UNCHANGED <<clock, live, version, config, responses>>
  BY DEF Moves, others, form
<1>3. tx[t].stage # "ended"
  BY MoveFields DEF Reads, Locks, Loads, Ends
<1>4. CASE b.stage = "ended"
  <2>1. t \notin ended /\ ended' = ended \cup {t}
    BY <1>1, <1>3, <1>4
  <2>2. Serial!Refuse(t)
    BY <1>2, <2>1 DEF Serial!Refuse
  <2> QED  BY <2>2 DEF Serial!Next
<1>5. CASE b.stage # "ended"
  <2>1. ended' = ended
    BY <1>1, <1>3, <1>5
  <2> QED  BY <1>2, <2>1 DEF Serial!vars
<1> QED  BY <1>4, <1>5

LEMMA SerialCommit ==
    ASSUME Typed, Held, Timed, NEW t \in Tabs, SharesForm(t),
           NEW row, Writes(t, row), Commit(t, row)
    PROVE  Serial!Next
<1> DEFINE ended == {u \in Tabs : tx[u].stage = "ended"}
           m == tx[t].member
           s == tx[t].score
           start == tx[t].start
           now == tx[t].now
<1>0. /\ tx \in [Tabs -> Tx] /\ clock \in Nat /\ m \in Members
      /\ start \in Nat /\ now \in Nat
  BY DEF Typed, TypeOK, Tx, Knows, Underway, SharesForm
<1>1. s \in Scores /\ start \in 0 .. clock /\ now \in 0 .. clock
  BY <1>0 DEF Timed
<1>2. live /\ ~config.archived /\ tx[t].cfg = config /\ tx[t].version = version
  BY DEF Held, FormFrozen
<1>3. UNCHANGED <<clock, live, version, config>>
  BY DEF Commit, form
<1>4. t \notin ended /\ ended' = ended \cup {t}
  BY <1>0 DEF Commit, Blank, SharesForm
<1>5. /\ Serial!Of(m) = RowsOf(m) /\ Serial!Newest(m) = Canonical(m)
      /\ Serial!Write(row)
  BY <1>2, <1>3, SameRows DEF Commit
<1>6. Serial!Graded(s) = New(t)
  BY <1>2, SameGrade
<1>7. ASSUME Fresh(t, row) PROVE Serial!AcceptNew(t, m, s, start)
  <2>1. Serial!Single(config) => Serial!Of(m) = {}
    BY <1>2, <1>5, <1>7, SameRules DEF Fresh, Held, LoadedFrozen
  <2>2. row = [id |-> t, member |-> m, answers |-> t, version |-> version,
               score |-> Serial!Graded(s).score, passed |-> Serial!Graded(s).passed,
               count |-> 1, edited |-> start]
    <3> HIDE DEF New
    <3> QED  BY <1>2, <1>6, <1>7 DEF Fresh, FreshRow, FirstAttempt
  <2> QED  BY <1>5, <2>1, <2>2 DEF Serial!AcceptNew
<1>8. ASSUME Edits(t, row) PROVE Serial!AcceptEdit(t, m, s, start)
  <2>1. tx[t].row \in Canonical(m) /\ Single(config) /\ Editable(config)
    BY <1>2, <1>8 DEF Edits, Held, LoadedFrozen
  <2>2. row = [tx[t].row EXCEPT !.answers = t, !.version = version,
                 !.score = Serial!Graded(s).score, !.passed = Serial!Graded(s).passed,
                 !.edited = start]
    <3> HIDE DEF New
    <3> QED  BY <1>2, <1>6, <1>8 DEF Edits, Edited
  <2> QED  BY <1>5, <2>1, <2>2, SameRules DEF Serial!AcceptEdit
<1>9. ASSUME Attempts(t, row) PROVE Serial!AcceptAttempt(t, m, s, start, now)
  <2>1. /\ tx[t].row \in Canonical(m) /\ Single(config) /\ ~Editable(config)
        /\ ~Denied(now, config, tx[t].row)
    BY <1>2, <1>9 DEF Attempts, Held, LoadedFrozen
  <2> DEFINE a == Serial!NextAttempt(config, tx[t].row, Serial!Graded(s))
  <2>2. a = NextAttempt(tx[t].cfg, tx[t].row, New(t))
    BY <1>2, <1>6, SameRules
  <2> HIDE DEF New
  <2>3. row = [tx[t].row EXCEPT !.answers = IF a.overwrite THEN t ELSE @,
                 !.version = IF a.overwrite THEN version ELSE @,
                 !.score = a.score, !.passed = a.passed,
                 !.count = a.count, !.edited = start]
    BY <1>2, <1>9, <2>2 DEF Attempts, Attempted
  <2> QED  BY <1>5, <2>1, <2>3, SameRules DEF Serial!AcceptAttempt
<1>10. \/ Serial!AcceptNew(t, m, s, start) \/ Serial!AcceptEdit(t, m, s, start)
       \/ Serial!AcceptAttempt(t, m, s, start, now)
  BY <1>7, <1>8, <1>9 DEF Writes
<1>11. Serial!Accept(t)
  BY <1>0, <1>1, <1>2, <1>3, <1>4, <1>10 DEF Serial!Accept
<1> QED  BY <1>11 DEF Serial!Next

LEMMA SerialStep ==
    Typed /\ Held /\ Timed /\ [Next]_vars => [Serial!Next]_Serial!vars
<1> SUFFICES ASSUME Typed, Held, Timed, [Next]_vars PROVE [Serial!Next]_Serial!vars
  OBVIOUS
<1>1. ASSUME NEW t \in Tabs, NEW b \in Tx, Moves(t, b),
             Approaches(t, b) \/ Reads(t, b) \/ Locks(t, b) \/ Loads(t, b) \/ Ends(t, b)
      PROVE  [Serial!Next]_Serial!vars
  BY <1>1, SerialMoves
<1>2. ASSUME NEW t \in Tabs, NEW row, Commit(t, row), Writes(t, row), SharesForm(t)
      PROVE  Serial!Next
  BY <1>2, SerialCommit
<1>3. ASSUME NEW c \in Configs, UpdateForm(c) PROVE Serial!Next
  <2>1. Serial!Save(c)
    BY <1>3, SameRules DEF UpdateForm, Serial!Save
  <2> QED  BY <2>1 DEF Serial!Next
<1>4. ASSUME NEW S \in SUBSET responses, DeleteResponses(S) PROVE Serial!Next
  <2>1. Serial!DeleteResponses
    BY <1>4 DEF DeleteResponses, form, Serial!DeleteResponses
  <2> QED  BY <2>1 DEF Serial!Next
<1>5. CASE DeleteFormCommit
  <2>1. CASE live
    <3>1. Serial!DeleteForm
      BY <1>5, <2>1 DEF DeleteFormCommit, Serial!DeleteForm
    <3> QED  BY <3>1 DEF Serial!Next
  <2>2. CASE ~live
    <3>1. UNCHANGED <<clock, version, config, tx>> /\ live' = FALSE
      BY <1>5 DEF DeleteFormCommit
    <3>2. live \in BOOLEAN
      BY DEF Typed, TypeOK
    <3> QED  BY <2>2, <3>1, <3>2 DEF Serial!vars
  <2> QED  BY <2>1, <2>2
<1>6. CASE DeleteFormRows \/ DeleteFormRollback \/ UNCHANGED vars
  BY <1>6 DEF DeleteFormRows, DeleteFormRollback, vars, form, Serial!vars
<1>7. CASE Tick
  <2>1. Serial!Tick
    BY <1>7 DEF Tick, form, Serial!Tick
  <2> QED  BY <2>1 DEF Serial!Next
<1> QED  BY Steps, <1>1, <1>2, <1>3, <1>4, <1>5, <1>6, <1>7

\* Read committed transactions with FOR SHARE, one advisory lock and FOR UPDATE
\* implement the serial form, for any number of tabs and members and whatever
\* admins save and delete meanwhile: "two tabs can't race two first inserts or
\* double-count an attempt" (form_render.rs).
THEOREM SubmissionsSerial == Spec => ImplementsSerial
<1>1. Init => Serial!Init
  BY SameRules DEF Init, Blank, Serial!Init
<1>2. Typed /\ Held /\ Timed /\ [Next]_vars => [Serial!Next]_Serial!vars
  BY SerialStep
<1> QED  BY <1>1, <1>2, HeldAlways, TimedAlways, PTL DEF Spec, ImplementsSerial, Serial!Spec
=============================================================================
