---------------------- MODULE SubmissionAttemptProofs ----------------------
(***************************************************************************)
(* Proofs about the attempts that Submission accepts while the settings of *)
(* the form stay as they are: how many, which of them the row keeps, what  *)
(* a pass and the cooldown rule out, and that the page told the truth.     *)
(***************************************************************************)
EXTENDS SubmissionProofs, FiniteSetTheorems

USE NoneAssumption, SubmissionAssumption

-----------------------------------------------------------------------------
(* The submissions that count, and their row. *)

\* A submission whose row was not deleted still has it.
KeptRow ==
    \A i \in DOMAIN committed : committed[i].row \notin erased =>
        \E r \in responses : /\ r.id = committed[i].row
                             /\ r.member = committed[i].member

\* A step that submits nothing: rows only go, and are then erased.
Thins ==
    /\ committed' = committed /\ responses' \subseteq responses
    /\ erased \subseteq erased'
    /\ \A r \in responses : r \notin responses' => r.id \in erased'

\* Member m submits in tab t and writes row.
Writer(t, m, row) ==
    Commit(t, row) /\ Writes(t, row) /\ SharesForm(t) /\ tx[t].member = m

LEMMA StepKinds ==
    ASSUME Typed, [Next]_vars
    PROVE  Thins \/ \E t \in Tabs : \E m, row : Writer(t, m, row)
<1>1. ASSUME NEW t \in Tabs, NEW b, Moves(t, b) PROVE Thins
  BY <1>1 DEF Moves, others, Thins
<1>2. ASSUME NEW S \in SUBSET responses, DeleteResponses(S) PROVE Thins
  BY <1>2 DEF DeleteResponses, Thins
<1>3. CASE DeleteFormCommit
  BY <1>3 DEF DeleteFormCommit, Thins
<1>4. ASSUME \/ \E c \in Configs : UpdateForm(c)
             \/ DeleteFormRows \/ DeleteFormRollback \/ Tick \/ UNCHANGED vars
      PROVE  Thins
  BY <1>4 DEF UpdateForm, DeleteFormRows, DeleteFormRollback, Tick, vars, Thins
<1> QED  BY Steps, <1>1, <1>2, <1>3, <1>4 DEF Writer

LEMMA KeptRowStep == Typed /\ Held /\ KeptRow /\ [Next]_vars => KeptRow'
<1> SUFFICES ASSUME Typed, Held, KeptRow, [Next]_vars PROVE KeptRow'
  OBVIOUS
<1>1. CASE Thins
  BY <1>1 DEF Thins, KeptRow
<1>2. ASSUME NEW t \in Tabs, NEW m, NEW row, Writer(t, m, row) PROVE KeptRow'
  <2> DEFINE n == Len(committed) + 1
  <2>1. /\ DOMAIN committed' = DOMAIN committed \cup {n}
        /\ \A i \in DOMAIN committed : committed'[i] = committed[i]
        /\ committed'[n] = [tab |-> t, row |-> row.id, member |-> tx[t].member,
               version |-> tx[t].version, score |-> New(t).score,
               passed |-> New(t).passed, now |-> tx[t].now]
    BY <1>2, CommitEntry DEF Writer
  <2> HIDE DEF n
  <2>e. committed'[n].row = row.id /\ committed'[n].member = tx[t].member
    BY <2>1
  <2>2. responses' = {r \in responses : r.id # row.id} \cup {row} /\ erased' = erased
    BY <1>2 DEF Writer, Commit
  <2>3. row.member = tx[t].member
    BY <1>2, WriteShape DEF Writer
  <2>4. \A r \in responses : r.id = row.id => r.member = row.member
    BY <1>2, WriteShape DEF Writer, Held, RowIds
  <2>5. ASSUME NEW i \in DOMAIN committed, committed[i].row \notin erased
        PROVE  \E r \in responses' : /\ r.id = committed[i].row
                                     /\ r.member = committed[i].member
    <3>1. PICK r \in responses : r.id = committed[i].row /\ r.member = committed[i].member
      BY <2>5 DEF KeptRow
    <3>2. CASE r.id = row.id
      <4>1. row \in responses' /\ row.id = committed[i].row /\ row.member = committed[i].member
        BY <2>2, <2>4, <3>1, <3>2
      <4> QED  BY <4>1
    <3>3. CASE r.id # row.id
      BY <2>2, <3>1, <3>3
    <3> QED  BY <3>2, <3>3
  <2> QED  BY <2>1, <2>e, <2>2, <2>3, <2>5 DEF KeptRow
<1> QED  BY StepKinds, <1>1, <1>2

\* What is known of every state: the locks, the clocks, the rows.
Base == Typed /\ Held /\ Timed /\ VersionOK /\ OneRow /\ KeptRow

LEMMA BaseInit == Init => Base
<1>1. Init => OneRow /\ KeptRow
  BY DEF Init, OneRow, OneRowPerMember, KeptRow
<1> QED  BY <1>1, TypedInit, HeldInit, TimedInit, VersionInit DEF Base

LEMMA BaseStep == Base /\ [Next]_vars => Base'
BY TypedStep, HeldStep, TimedStep, VersionStep, OneRowStep, KeptRowStep DEF Base

-----------------------------------------------------------------------------
(* A form with one response per member whose settings stay as they are. *)

Steady == Unsaved /\ Single(config)

LEMMA SteadyStep ==
    ASSUME Base, [Next]_vars, Steady'
    PROVE  /\ Steady /\ config' = config
           /\ \A r, q \in responses : r.member = q.member => r = q
           /\ \A r, q \in responses' : r.member = q.member => r = q
<1>1. Unsaved /\ config' = config
  BY VersionStep DEF Base, Steady
<1>2. OneRowPerMember /\ OneRowPerMember'
  BY <1>1, BaseStep DEF Base, OneRow, Steady
<1> QED  BY <1>1, <1>2 DEF Steady, OneRowPerMember

\* Deletions leave those who have a row what counts for them.
LEMMA KeptThins ==
    ASSUME Base, [Next]_vars, Steady', Thins, NEW r \in responses'
    PROVE  r \in responses /\ Kept(r.member)' = Kept(r.member)
<1>1. r \in responses /\ committed' = committed /\ erased \subseteq erased'
  BY DEF Thins
<1>2. r.id \notin erased'
  BY BaseStep DEF Base, Held, RowIds
<1>3. ASSUME NEW i \in Kept(r.member) PROVE committed[i].row \notin erased'
  <2>1. PICK q \in responses : q.id = committed[i].row /\ q.member = r.member
    BY DEF Kept, Base, KeptRow
  <2>2. q = r
    BY <1>1, <2>1, SteadyStep
  <2> QED  BY <1>2, <2>1, <2>2
<1> QED  BY <1>1, <1>3 DEF Kept

\* The place of the next submission in the history.
Nth == Len(committed) + 1

\* A submission is one more for its member, whose only row it writes.
LEMMA KeptWrite ==
    ASSUME Base, [Next]_vars, Steady', NEW t \in Tabs, NEW m, NEW row,
           Writer(t, m, row)
    PROVE  /\ Nth \in Nat /\ Nth \notin Kept(m)
           /\ \A k : \A i \in Kept(k) : i \in Nat /\ i < Nth /\ committed'[i] = committed[i]
           /\ committed'[Nth].tab = t /\ committed'[Nth].now = tx[t].now
           /\ committed'[Nth].score = New(t).score /\ committed'[Nth].passed = New(t).passed
           /\ row \in responses' /\ row.member = m /\ Kept(m)' = Kept(m) \cup {Nth}
           /\ \A r \in responses' : r # row =>
                 r \in responses /\ r.member # m /\ Kept(r.member)' = Kept(r.member)
           /\ \A k : k # m => Kept(k)' = Kept(k)
           /\ Fresh(t, row) => Kept(m) = {}
<1> DEFINE e == [tab |-> t, row |-> row.id, member |-> m,
                 version |-> tx[t].version, score |-> New(t).score,
                 passed |-> New(t).passed, now |-> tx[t].now]
<1>0. /\ Typed /\ Held /\ KeptRow /\ SharesForm(t) /\ Commit(t, row) /\ Writes(t, row)
      /\ tx[t].member = m
  BY DEF Base, Writer
<1>1. /\ DOMAIN committed \subseteq Nat /\ Nth \in Nat
      /\ DOMAIN committed' = DOMAIN committed \cup {Nth} /\ Nth \notin DOMAIN committed
      /\ \A i \in DOMAIN committed : i < Nth /\ committed'[i] = committed[i]
      /\ committed'[Nth] = e
  BY <1>0, CommitEntry DEF Nth, Writer
<1>2. responses' = {r \in responses : r.id # row.id} \cup {row} /\ erased' = erased
  BY <1>0 DEF Commit
<1>3. row.member = m
  BY <1>0, WriteShape
<1>4. row.id \notin erased'
  BY <1>2, BaseStep DEF Base, Held, RowIds
<1>5. /\ e.row = row.id /\ e.member = m /\ e.tab = t /\ e.now = tx[t].now
      /\ e.score = New(t).score /\ e.passed = New(t).passed
  OBVIOUS
<1> HIDE DEF e
<1>6. \A k : \A i \in Kept(k) : i \in DOMAIN committed
  BY DEF Kept
<1>7. Kept(m)' = Kept(m) \cup {Nth}
  BY <1>1, <1>2, <1>4, <1>5 DEF Kept
<1>8. \A k : k # m => Kept(k)' = Kept(k)
  BY <1>1, <1>2, <1>5 DEF Kept
<1>9. \A r \in responses' : r # row =>
         r \in responses /\ r.member # m /\ Kept(r.member)' = Kept(r.member)
  <2>1. row \in responses'
    BY <1>2
  <2>2. \A r \in responses' : r # row => r \in responses /\ r.member # m
    BY <1>2, <1>3, <2>1, SteadyStep
  <2> QED  BY <1>8, <2>2
<1>10. ASSUME Fresh(t, row) PROVE Kept(m) = {}
  <2>1. Single(config) /\ tx[t].cfg = config
    BY <1>0, SteadyStep DEF Held, FormFrozen, Steady
  <2>2. RowsOf(m) = {}
    BY <1>0, <1>10, <2>1 DEF Fresh, Held, LoadedFrozen
  <2>3. \A i \in Kept(m) : \E r \in responses : r.member = m
    BY <1>0 DEF Kept, KeptRow
  <2> QED  BY <2>2, <2>3 DEF RowsOf
<1> QED
  BY <1>1, <1>2, <1>3, <1>5, <1>6, <1>7, <1>8, <1>9, <1>10

\* The row that a further submission goes by, on the settings as they are.
LEMMA WriteLoaded ==
    ASSUME Base, [Next]_vars, Steady', NEW t \in Tabs, NEW m, NEW row, Writer(t, m, row)
    PROVE  /\ tx[t].cfg = config /\ config' = config /\ Single(config)
           /\ Fresh(t, row) => ~Edits(t, row) /\ ~Attempts(t, row)
           /\ Edits(t, row) => Editable(config)
           /\ Attempts(t, row) => ~Editable(config) /\ ~Denied(tx[t].now, config, tx[t].row)
           /\ Edits(t, row) \/ Attempts(t, row) =>
                 /\ tx[t].row \in responses /\ tx[t].row \in Row
                 /\ tx[t].row.member = m /\ row.id = tx[t].row.id
<1>1. tx[t].cfg = config /\ config' = config /\ Single(config)
  BY SteadyStep DEF Base, Held, FormFrozen, Writer, Steady
<1>2. Fresh(t, row) => ~Edits(t, row) /\ ~Attempts(t, row)
  BY <1>1 DEF Fresh, Edits, Attempts
<1>3. Edits(t, row) \/ Attempts(t, row) =>
         /\ tx[t].row \in responses /\ tx[t].row \in Row
         /\ tx[t].row.member = m
  BY LoadedRow DEF Edits, Attempts, Base, Writer
<1>4. Edits(t, row) \/ Attempts(t, row) => row.id = tx[t].row.id
  BY EditFields, AttemptFields DEF Base, Writer
<1> QED  BY <1>1, <1>2, <1>3, <1>4 DEF Edits, Attempts

-----------------------------------------------------------------------------
(* How many attempts. *)

LEMMA KeptFinite == ASSUME Typed, NEW m PROVE IsFiniteSet(Kept(m))
<1>1. committed \in Seq(Submitted)
  BY DEF Typed, TypeOK
<1>2. Len(committed) \in Nat /\ Kept(m) \subseteq 1 .. Len(committed)
  BY <1>1 DEF Kept
<1>3. IsFiniteSet(1 .. Len(committed))
  BY <1>2, FS_Interval
<1> QED  BY <1>2, <1>3, FS_Subset

AttemptsCount == Unsaved => AttemptsWithinMax

LEMMA AttemptsCountStep == Base /\ AttemptsCount /\ [Next]_vars => AttemptsCount'
<1> SUFFICES ASSUME Base, AttemptsCount, [Next]_vars, Unsaved', Governed(config)',
                    NEW r \in responses'
             PROVE  /\ r.count = Cardinality(Kept(r.member))'
                    /\ config'.max > 0 => r.count <= config'.max
  BY DEF AttemptsCount, AttemptsWithinMax
<1>1. Steady' /\ Steady /\ config' = config /\ Governed(config)
  BY SteadyStep DEF Steady, Governed
<1>2. \A q \in responses : /\ q.count = Cardinality(Kept(q.member))
                           /\ config.max > 0 => q.count <= config.max
  BY <1>1 DEF AttemptsCount, AttemptsWithinMax, Steady
<1>k. ASSUME r \in responses, Kept(r.member)' = Kept(r.member)
      PROVE  /\ r.count = Cardinality(Kept(r.member))'
             /\ config'.max > 0 => r.count <= config'.max
  BY <1>k, <1>1, <1>2
<1>3. CASE Thins
  BY <1>1, <1>3, <1>k, KeptThins
<1>4. ASSUME NEW t \in Tabs, NEW m, NEW row, Writer(t, m, row)
      PROVE  /\ r.count = Cardinality(Kept(r.member))'
             /\ config'.max > 0 => r.count <= config'.max
  <2>0. /\ row.member = m /\ Nth \notin Kept(m) /\ Kept(m)' = Kept(m) \cup {Nth}
        /\ Fresh(t, row) => Kept(m) = {}
        /\ r # row => r \in responses /\ Kept(r.member)' = Kept(r.member)
    BY <1>1, <1>4, KeptWrite
  <2>1. CASE r # row
    BY <1>k, <2>0, <2>1
  <2>2. CASE r = row
    <3>2. /\ Cardinality(Kept(m)') = Cardinality(Kept(m)) + 1
          /\ Cardinality(Kept(m)) \in Nat
          /\ Kept(m) = {} => Cardinality(Kept(m)) = 0
      BY <2>0, KeptFinite, FS_AddElement, FS_CardinalityType, FS_EmptySet DEF Base
    <3>3. config.max \in Nat
      BY DEF Base, Typed, TypeOK, Config
    <3>4. CASE Fresh(t, row)
      <4>1. row.count = 1
        BY <1>4, <3>4, FreshFields DEF Writer, Base
      <4> QED  BY <1>1, <2>2, <2>0, <3>2, <3>3, <3>4, <4>1
    <3>5. CASE Attempts(t, row)
      <4> DEFINE e == tx[t].row
      <4>1. /\ e \in responses /\ e \in Row /\ e.member = m
            /\ ~Denied(tx[t].now, config, e)
        BY <1>1, <1>4, <2>0, <3>5, WriteLoaded
      <4>2. row.count = e.count + 1
        BY <1>4, <3>5, AttemptFields DEF Writer, Base, NextAttempt
      <4> HIDE DEF e
      <4>3. e.count \in Nat /\ e.count = Cardinality(Kept(m))
        BY <1>2, <4>1 DEF Row
      <4>4. config.max > 0 => e.count < config.max
        BY <3>3, <4>1, <4>3 DEF Denied, Exhausted
      <4> QED  BY <1>1, <2>0, <2>2, <3>2, <3>3, <4>2, <4>3, <4>4
    <3>6. Fresh(t, row) \/ Attempts(t, row)
      BY <1>1, <1>4, WriteLoaded DEF Writer, Writes, Governed
    <3> QED  BY <3>4, <3>5, <3>6
  <2> QED  BY <2>1, <2>2
<1> QED  BY StepKinds, <1>3, <1>4 DEF Base

\* On the settings the form was published with, attempt_count is the number of
\* submissions accepted since the last deletion, and never more than
\* max_attempts, in however many tabs the member submits at once: decide() runs
\* on a row that FOR UPDATE holds (form_render.rs, services/retry.rs).
THEOREM AttemptsBoundedByMax == Spec => [](version = 1 => AttemptsWithinMax)
<1>1. Init => AttemptsCount
  BY DEF Init, AttemptsCount, AttemptsWithinMax
<1>2. AttemptsCount => (version = 1 => AttemptsWithinMax)
  BY DEF AttemptsCount, Unsaved
<1> QED  BY <1>1, <1>2, BaseInit, BaseStep, AttemptsCountStep, PTL DEF Spec

-----------------------------------------------------------------------------
(* Which attempt the row keeps. *)

Best == Governed(config) /\ config.quiz /\ config.policy = "keep_best"

KeepsBest(r, i) ==
    /\ \A j \in Kept(r.member) :
          /\ committed[j].score <= committed[i].score
          /\ j < i => committed[j].score < committed[i].score
    /\ r.passed = "yes" <=> \E j \in Kept(r.member) : committed[j].passed = "yes"

KeepsLast(r, i) ==
    /\ \A j \in Kept(r.member) : j <= i
    /\ r.passed = committed[i].passed

\* Also the score is that of the attempt, and on a quiz every one has a score.
Keeps(r) ==
    /\ config.quiz => \A j \in Kept(r.member) : committed[j].score \in Nat
    /\ \E i \in Kept(r.member) :
          /\ committed[i].tab = r.answers /\ committed[i].score = r.score
          /\ Best => KeepsBest(r, i)
          /\ ~Best => KeepsLast(r, i)

PolicyHeld == Steady => \A r \in responses : Keeps(r)

\* Rows of members who do not submit.
LEMMA KeepsStay ==
    ASSUME NEW r, Keeps(r), Kept(r.member)' = Kept(r.member), config' = config,
           \A i \in Kept(r.member) : committed'[i] = committed[i]
    PROVE  Keeps(r)'
<1>1. Best' = Best
  BY DEF Best
<1>2. ASSUME NEW i \in Kept(r.member)
      PROVE  /\ KeepsBest(r, i)' <=> KeepsBest(r, i)
             /\ KeepsLast(r, i)' <=> KeepsLast(r, i)
  <2>1. KeepsBest(r, i)' <=> KeepsBest(r, i)
    BY <1>2 DEF KeepsBest
  <2>2. KeepsLast(r, i)' <=> KeepsLast(r, i)
    BY <1>2 DEF KeepsLast
  <2> QED  BY <2>1, <2>2
<1> QED  BY <1>1, <1>2 DEF Keeps

\* The graded score of a quiz is a number.
LEMMA QuizScore ==
    ASSUME Typed, NEW t \in Tabs, SharesForm(t)
    PROVE  /\ tx[t].cfg.quiz => New(t).score \in Nat
           /\ ~tx[t].cfg.quiz => New(t).score = None
BY DEF New, Typed, TypeOK, Tx

\* What a further attempt does to the row, for a quiz that keeps the best score
\* and for all other forms.
LEMMA AttemptBest ==
    ASSUME NEW c, NEW e, NEW n, c.policy = "keep_best", e.score \in Nat, n.score \in Nat
    PROVE  LET a == NextAttempt(c, e, n)
           IN  /\ a.overwrite <=> n.score > e.score
               /\ a.score = IF n.score > e.score THEN n.score ELSE e.score
               /\ a.passed = "yes" <=> e.passed = "yes" \/ n.passed = "yes"
<1>1. ScoreAwareBest(c, e, n)
  BY DEF ScoreAwareBest
<1>2. CombinedPassed(e.passed, n.passed) = "yes" <=> e.passed = "yes" \/ n.passed = "yes"
  BY DEF CombinedPassed
<1> HIDE DEF CombinedPassed
<1> QED  BY <1>1, <1>2 DEF NextAttempt

LEMMA AttemptLast ==
    ASSUME NEW c, NEW e, NEW n, c.policy # "keep_best" \/ n.score = None
    PROVE  LET a == NextAttempt(c, e, n)
           IN  a.overwrite /\ a.score = n.score /\ a.passed = n.passed
BY DEF NextAttempt, ScoreAwareBest

LEMMA KeepsFresh ==
    ASSUME Base, [Next]_vars, Steady', NEW t \in Tabs, NEW m, NEW row,
           Writer(t, m, row), Fresh(t, row)
    PROVE  Keeps(row)'
<1>0. Typed /\ SharesForm(t)
  BY DEF Base, Writer
<1>n. PICK n : n = Nth
  OBVIOUS
<1>1. /\ row.member = m /\ Kept(m)' = {n} /\ n \in Nat
      /\ committed'[n].tab = t
      /\ committed'[n].score = New(t).score /\ committed'[n].passed = New(t).passed
  BY <1>n, KeptWrite
<1>2. row.answers = t /\ row.score = New(t).score /\ row.passed = New(t).passed
  BY <1>0, FreshFields
<1>3. config'.quiz => New(t).score \in Nat
  BY <1>0, QuizScore, WriteLoaded
<1> HIDE DEF New
<1>4. (Best => KeepsBest(row, n))'
  BY <1>1, <1>2, <1>3 DEF Best, KeepsBest
<1>5. KeepsLast(row, n)'
  BY <1>1, <1>2 DEF KeepsLast
<1> QED  BY <1>1, <1>2, <1>3, <1>4, <1>5 DEF Keeps

LEMMA KeepsEdit ==
    ASSUME Base, [Next]_vars, Steady', NEW t \in Tabs, NEW m, NEW row,
           Writer(t, m, row), Edits(t, row)
    PROVE  Keeps(row)'
<1>0. Typed /\ SharesForm(t)
  BY DEF Base, Writer
<1>n. PICK n : n = Nth
  OBVIOUS
<1>1. /\ row.member = m /\ Kept(m)' = Kept(m) \cup {n} /\ n \in Nat
      /\ \A j \in Kept(m) : j \in Nat /\ j < n
      /\ committed'[n].tab = t
      /\ committed'[n].score = New(t).score /\ committed'[n].passed = New(t).passed
  BY <1>n, KeptWrite
<1>2. row.answers = t /\ row.score = New(t).score /\ row.passed = New(t).passed
  BY <1>0, EditFields
<1>3. ~config'.quiz /\ ~Best'
  <2>1. Editable(config) /\ config' = config
    BY WriteLoaded
  <2> QED  BY <2>1 DEF Editable, Best
<1> HIDE DEF New
<1>4. KeepsLast(row, n)'
  BY <1>1, <1>2 DEF KeepsLast
<1> QED  BY <1>1, <1>2, <1>3, <1>4 DEF Keeps

LEMMA KeepsAttempt ==
    ASSUME Base, [Next]_vars, Steady', NEW t \in Tabs, NEW m, NEW row,
           Writer(t, m, row), Attempts(t, row), Keeps(tx[t].row)
    PROVE  Keeps(row)'
<1> DEFINE a == NextAttempt(tx[t].cfg, tx[t].row, New(t))
<1>n. PICK n, e, new : n = Nth /\ e = tx[t].row /\ new = New(t)
  OBVIOUS
<1>0. Typed /\ SharesForm(t)
  BY DEF Base, Writer
<1>1. /\ row.member = m /\ Kept(m)' = Kept(m) \cup {n} /\ n \in Nat
      /\ \A j \in Kept(m) : j \in Nat /\ j < n /\ committed'[j] = committed[j]
      /\ committed'[n].tab = t
      /\ committed'[n].score = new.score /\ committed'[n].passed = new.passed
  BY <1>n, KeptWrite
<1>2. /\ row.answers = IF a.overwrite THEN t ELSE e.answers
      /\ row.score = a.score /\ row.passed = a.passed
  BY <1>0, <1>n, AttemptFields
<1>3. /\ config' = config /\ tx[t].cfg = config /\ Single(config) /\ ~Editable(config)
      /\ e.member = m
  BY <1>n, WriteLoaded
<1>4. /\ config.quiz => new.score \in Nat
      /\ ~config.quiz => new.score = None
  BY <1>0, <1>n, <1>3, QuizScore
<1>5. config.quiz => \A j \in Kept(m) : committed[j].score \in Nat
  BY <1>n, <1>3 DEF Keeps
<1>6. PICK i \in Kept(m) : /\ committed[i].tab = e.answers /\ committed[i].score = e.score
                           /\ Best => KeepsBest(e, i)
                           /\ ~Best => KeepsLast(e, i)
  BY <1>n, <1>3 DEF Keeps
<1>7. (config.quiz => \A j \in Kept(row.member) : committed[j].score \in Nat)'
  BY <1>1, <1>3, <1>4, <1>5
<1>8. Best' <=> Best
  BY <1>3 DEF Best
<1>9. CASE Best
  <2>0. config.quiz /\ config.policy = "keep_best"
    BY <1>9 DEF Best
  <2>1. /\ e.score \in Nat /\ new.score \in Nat
        /\ committed[i].score = e.score /\ i \in Nat /\ i < n
    BY <1>1, <1>4, <1>5, <1>6, <2>0
  <2>2. /\ \A j \in Kept(m) : /\ committed[j].score \in Nat /\ j \in Nat
                              /\ committed[j].score <= e.score
                              /\ j < i => committed[j].score < e.score
        /\ e.passed = "yes" <=> \E j \in Kept(m) : committed[j].passed = "yes"
    BY <1>1, <1>3, <1>5, <1>6, <1>9, <2>0 DEF KeepsBest
  <2>3. /\ a.overwrite <=> new.score > e.score
        /\ a.score = IF new.score > e.score THEN new.score ELSE e.score
        /\ a.passed = "yes" <=> e.passed = "yes" \/ new.passed = "yes"
    BY <1>n, <1>3, <2>0, <2>1, AttemptBest
  <2> HIDE DEF a
  <2>4. row.passed = "yes" <=> \E j \in Kept(m)' : committed'[j].passed = "yes"
    BY <1>1, <1>2, <2>2, <2>3
  <2>5. CASE new.score > e.score
    <3>1. KeepsBest(row, n)'
      <4>1. \A j \in Kept(m) : /\ committed'[j].score <= committed'[n].score
                               /\ committed'[j].score < committed'[n].score
        BY <1>1, <2>1, <2>2, <2>5
      <4>2. committed'[n].score <= committed'[n].score /\ ~(n < n)
        BY <1>1, <2>1
      <4> QED  BY <1>1, <2>4, <4>1, <4>2 DEF KeepsBest
    <3> QED  BY <1>1, <1>2, <1>7, <1>8, <1>9, <2>3, <2>5, <3>1 DEF Keeps
  <2>6. CASE ~(new.score > e.score)
    <3>1. KeepsBest(row, i)'
      <4>1. \A j \in Kept(m) : /\ committed'[j].score <= committed'[i].score
                               /\ j < i => committed'[j].score < committed'[i].score
        BY <1>1, <2>1, <2>2
      <4>2. committed'[n].score <= committed'[i].score /\ ~(n < i)
        BY <1>1, <2>1, <2>6
      <4> QED  BY <1>1, <2>4, <4>1, <4>2 DEF KeepsBest
    <3>2. i \in Kept(m)' /\ committed'[i].tab = row.answers /\ committed'[i].score = row.score
      BY <1>1, <1>2, <1>6, <2>3, <2>6
    <3> QED  BY <1>1, <1>7, <1>8, <1>9, <3>1, <3>2 DEF Keeps
  <2> QED  BY <2>5, <2>6
<1>10. CASE ~Best
  <2>1. config.policy # "keep_best" \/ new.score = None
    BY <1>3, <1>4, <1>10 DEF Best, Governed
  <2>2. a.overwrite /\ a.score = new.score /\ a.passed = new.passed
    BY <1>n, <1>3, <2>1, AttemptLast
  <2> HIDE DEF a
  <2>3. row.answers = t /\ row.score = new.score /\ row.passed = new.passed
    BY <1>2, <2>2
  <2>4. KeepsLast(row, n)'
    BY <1>1, <2>3 DEF KeepsLast
  <2> QED  BY <1>1, <1>7, <1>8, <1>10, <2>3, <2>4 DEF Keeps
<1> QED  BY <1>9, <1>10

LEMMA PolicyHeldStep == Base /\ PolicyHeld /\ [Next]_vars => PolicyHeld'
<1> SUFFICES ASSUME Base, PolicyHeld, [Next]_vars, Steady', NEW r \in responses'
             PROVE  Keeps(r)'
  BY DEF PolicyHeld
<1>1. Steady /\ config' = config /\ \A q \in responses : Keeps(q)
  BY SteadyStep DEF PolicyHeld
<1>2. CASE Thins
  <2>1. r \in responses /\ Kept(r.member)' = Kept(r.member) /\ committed' = committed
    BY <1>2, KeptThins DEF Thins
  <2> QED  BY <1>1, <2>1, KeepsStay
<1>3. ASSUME NEW t \in Tabs, NEW m, NEW row, Writer(t, m, row) PROVE Keeps(r)'
  <2>1. CASE r # row
    <3>1. /\ r \in responses /\ Kept(r.member)' = Kept(r.member)
          /\ \A i \in Kept(r.member) : committed'[i] = committed[i]
      BY <1>3, <2>1, KeptWrite
    <3> QED  BY <1>1, <3>1, KeepsStay
  <2>2. CASE Fresh(t, row)
    BY <1>3, <2>1, <2>2, KeepsFresh
  <2>3. CASE Edits(t, row)
    BY <1>3, <2>1, <2>3, KeepsEdit
  <2>4. CASE Attempts(t, row)
    BY <1>1, <1>3, <2>1, <2>4, WriteLoaded, KeepsAttempt
  <2> QED  BY <1>3, <2>1, <2>2, <2>3, <2>4 DEF Writer, Writes
<1> QED  BY StepKinds, <1>2, <1>3 DEF Base

LEMMA PolicyHeldAlways == Spec => [](Base /\ PolicyHeld)
<1>1. Init => PolicyHeld
  BY DEF Init, PolicyHeld
<1> QED  BY <1>1, BaseInit, BaseStep, PolicyHeldStep, PTL DEF Spec

\* On the settings the form was published with, the row of a keep_best quiz
\* holds the first of the best attempts and any pass sticks, and every other row
\* is of the latest submission (009_form_retries.sql; next_attempt), however the
\* member's tabs interleave.
THEOREM PolicyFollowed == Spec => [](version = 1 => PolicyKept)
<1>1. PolicyHeld => (version = 1 => PolicyKept)
  <2> SUFFICES ASSUME PolicyHeld, version = 1, Single(config), NEW r \in responses
               PROVE  \E i \in Kept(r.member) :
                        /\ committed[i].tab = r.answers
                        /\ IF Best THEN KeepsBest(r, i) ELSE KeepsLast(r, i)
    BY DEF PolicyKept, Best, KeepsBest, KeepsLast
  <2> QED  BY DEF PolicyHeld, Steady, Unsaved, Keeps
<1> QED  BY <1>1, PolicyHeldAlways, PTL

-----------------------------------------------------------------------------
(* What a pass rules out. *)

PassHeld == Steady => PassLocks

\* What counts for a member after a step counted before, but for one that the
\* member now submits.
LEMMA KeptStep ==
    ASSUME Base, [Next]_vars, Steady', NEW k
    PROVE  \/ Kept(k)' \subseteq Kept(k) /\ \A i \in Kept(k)' : committed'[i] = committed[i]
           \/ \E t \in Tabs : \E row :
                 /\ Writer(t, k, row)
                 /\ Fresh(t, row) \/ Edits(t, row) \/ Attempts(t, row)
                 /\ Kept(k)' = Kept(k) \cup {Nth}
<1>1. CASE Thins
  BY <1>1 DEF Thins, Kept
<1>2. ASSUME NEW t \in Tabs, NEW m, NEW row, Writer(t, m, row)
      PROVE  \/ Kept(k)' = Kept(k) /\ \A i \in Kept(k) : committed'[i] = committed[i]
             \/ m = k /\ Kept(k)' = Kept(k) \cup {Nth}
  BY <1>2, KeptWrite
<1>3. \A t, m, row : Writer(t, m, row) =>
         Fresh(t, row) \/ Edits(t, row) \/ Attempts(t, row)
  BY DEF Writer, Writes
<1> QED  BY StepKinds, <1>1, <1>2, <1>3 DEF Base

LEMMA PassHeldStep == Base /\ PolicyHeld /\ PassHeld /\ [Next]_vars => PassHeld'
<1> SUFFICES ASSUME Base, PolicyHeld, PassHeld, [Next]_vars, Steady',
                    Governed(config)', config'.lockOnPass,
                    NEW k \in Members, NEW i \in Kept(k)', NEW j \in Kept(k)', i < j
             PROVE  committed'[i].passed # "yes"
  BY DEF PassHeld, PassLocks
<1>1. /\ Steady /\ config' = config /\ Governed(config) /\ config.lockOnPass
      /\ \A q \in responses : Keeps(q)
  BY SteadyStep DEF PolicyHeld, Governed
<1>2. \A x, y \in Kept(k) : x < y => committed[x].passed # "yes"
  BY <1>1 DEF PassHeld, PassLocks
<1>3. CASE Kept(k)' \subseteq Kept(k) /\ \A x \in Kept(k)' : committed'[x] = committed[x]
  BY <1>2, <1>3
<1>4. ASSUME NEW t \in Tabs, NEW row, Writer(t, k, row),
             Fresh(t, row) \/ Edits(t, row) \/ Attempts(t, row),
             Kept(k)' = Kept(k) \cup {Nth}
      PROVE  committed'[i].passed # "yes"
  <2>1. /\ Nth \in Nat
        /\ \A x \in Kept(k) : x \in Nat /\ x < Nth /\ committed'[x] = committed[x]
        /\ Fresh(t, row) => Kept(k) = {}
    BY <1>4, KeptWrite
  <2>2. i \in Kept(k)
    BY <1>4, <2>1
  <2>3. CASE j \in Kept(k)
    BY <1>2, <2>1, <2>2, <2>3
  <2>4. CASE j \notin Kept(k)
    <3> DEFINE e == tx[t].row
    <3>1. Attempts(t, row)
      BY <1>1, <1>4, <2>1, <2>2, WriteLoaded DEF Governed
    <3>2. e \in responses /\ e.member = k /\ ~Denied(tx[t].now, config, e)
      BY <1>4, <3>1, WriteLoaded
    <3> HIDE DEF e
    <3>3. e.passed # "yes"
      BY <1>1, <3>2 DEF Denied, AlreadyPassed
    <3>4. PICK x \in Kept(k) : /\ Best => KeepsBest(e, x)
                               /\ ~Best => KeepsLast(e, x)
      BY <1>1, <3>2 DEF Keeps
    <3>5. CASE Best
      BY <2>1, <2>2, <3>2, <3>3, <3>4, <3>5 DEF KeepsBest
    <3>6. CASE ~Best
      <4>1. i <= x /\ committed[x].passed # "yes"
        BY <2>2, <3>2, <3>3, <3>4, <3>6 DEF KeepsLast
      <4> QED  BY <1>2, <2>1, <2>2, <4>1
    <3> QED  BY <3>5, <3>6
  <2> QED  BY <2>3, <2>4
<1> QED  BY KeptStep, <1>3, <1>4

\* lock_on_pass: after a passing attempt none is accepted, on the settings the
\* form was published with.  That a row of a keep_latest quiz could forget an
\* earlier pass is ruled out by the lock itself.
THEOREM PassIsLast == Spec => [](version = 1 => PassLocks)
<1>1. Init => PassHeld
  BY DEF Init, PassHeld, PassLocks, Kept
<1>2. PassHeld => (version = 1 => PassLocks)
  BY DEF PassHeld, Steady, Unsaved, PassLocks, Governed
<1> QED
  BY <1>1, <1>2, PolicyHeldAlways, PassHeldStep, PTL DEF Spec

-----------------------------------------------------------------------------
(* What the cooldown rules out. *)

Cooled == Steady /\ Governed(config) /\ config.cooldown > 0 /\ MaxLag <= config.cooldown

\* last_edited_at is no more than MaxLag behind any attempt that counts.
EditedLate ==
    \A r \in responses : \A i \in Kept(r.member) :
        committed[i].now \in Nat /\ committed[i].now <= r.edited + MaxLag

Apart ==
    \A m \in Members : \A i, j \in Kept(m) : i < j =>
        committed[j].now + MaxLag >= committed[i].now + config.cooldown

CooldownHeld == Cooled => EditedLate /\ Apart

\* A further attempt after the cooldown.
LEMMA Cooldown ==
    ASSUME Base, [Next]_vars, Cooled', NEW t \in Tabs, NEW m, NEW row,
           Writer(t, m, row), Attempts(t, row)
    PROVE  LET e == tx[t].row
           IN  /\ e \in responses /\ e.member = m
               /\ e.edited \in Nat /\ config.cooldown \in Nat /\ MaxLag \in Nat
               /\ tx[t].now \in Nat /\ row.edited \in Nat
               /\ e.edited + config.cooldown <= tx[t].now
               /\ tx[t].now <= row.edited + MaxLag
<1> DEFINE e == tx[t].row
<1>1. Typed /\ Timed /\ SharesForm(t) /\ Steady' /\ MaxLag \in Nat
  BY DEF Base, Writer, Cooled
<1>2. /\ e \in responses /\ e \in Row /\ e.member = m /\ config' = config
      /\ ~Denied(tx[t].now, config, e)
  BY <1>1, WriteLoaded
<1>3. row.edited = tx[t].start
  BY <1>1, AttemptFields
<1>4. /\ config.cooldown \in Nat /\ tx[t].now \in Nat /\ tx[t].start \in Nat
  BY <1>1 DEF Typed, TypeOK, Tx, Config
<1>5. tx[t].now <= tx[t].start + MaxLag
  BY <1>1 DEF Timed
<1> HIDE DEF e
<1>6. e.edited \in Nat
  BY <1>2 DEF Row
<1>7. e.edited + config.cooldown <= tx[t].now
  BY <1>2, <1>4, <1>6 DEF Denied, Cooling, Cooled
<1> QED  BY <1>1, <1>2, <1>3, <1>4, <1>5, <1>6, <1>7 DEF e

LEMMA CooldownHeldStep == Base /\ CooldownHeld /\ [Next]_vars => CooldownHeld'
<1> SUFFICES ASSUME Base, CooldownHeld, [Next]_vars, Cooled' PROVE EditedLate' /\ Apart'
  BY DEF CooldownHeld
<1>1. Steady' /\ Steady /\ config' = config /\ Cooled /\ MaxLag \in Nat
  BY SteadyStep DEF Cooled, Governed
<1>2. EditedLate /\ Apart
  BY <1>1 DEF CooldownHeld
<1>3. ASSUME NEW r \in responses' PROVE (\A i \in Kept(r.member) :
         committed[i].now \in Nat /\ committed[i].now <= r.edited + MaxLag)'
  <2>1. CASE Thins
    <3>1. r \in responses /\ Kept(r.member)' = Kept(r.member) /\ committed' = committed
      BY <1>1, <1>3, <2>1, KeptThins DEF Thins
    <3> QED  BY <1>2, <3>1 DEF EditedLate
  <2>2. ASSUME NEW t \in Tabs, NEW m, NEW row, Writer(t, m, row)
        PROVE  (\A i \in Kept(r.member) :
                  committed[i].now \in Nat /\ committed[i].now <= r.edited + MaxLag)'
    <3>1. CASE r # row
      <4>1. /\ r \in responses /\ Kept(r.member)' = Kept(r.member)
            /\ \A i \in Kept(r.member) : committed'[i] = committed[i]
        BY <1>1, <1>3, <2>2, <3>1, KeptWrite
      <4> QED  BY <1>2, <4>1 DEF EditedLate
    <3>2. CASE r = row
      <4>1. /\ row.member = m /\ Kept(m)' = Kept(m) \cup {Nth}
            /\ \A i \in Kept(m) : committed'[i] = committed[i]
            /\ committed'[Nth].now = tx[t].now
            /\ Fresh(t, row) => Kept(m) = {}
        BY <1>1, <2>2, KeptWrite
      <4>2. CASE Fresh(t, row)
        <5>1. row.edited = tx[t].start
          BY <2>2, <4>2, FreshFields DEF Base, Writer
        <5>2. tx[t].now \in Nat /\ tx[t].now <= tx[t].start + MaxLag
          BY <2>2 DEF Base, Typed, TypeOK, Tx, Timed, Writer
        <5> QED  BY <3>2, <4>1, <4>2, <5>1, <5>2
      <4>3. CASE Attempts(t, row)
        <5> DEFINE e == tx[t].row
        <5>1. /\ e \in responses /\ e.member = m
              /\ e.edited \in Nat /\ config.cooldown \in Nat /\ tx[t].now \in Nat
              /\ row.edited \in Nat /\ e.edited + config.cooldown <= tx[t].now
              /\ tx[t].now <= row.edited + MaxLag
          BY <2>2, <4>3, Cooldown
        <5> HIDE DEF e
        <5>2. \A i \in Kept(m) : committed[i].now \in Nat /\ committed[i].now <= e.edited + MaxLag
          BY <1>2, <5>1 DEF EditedLate
        <5>3. MaxLag <= config.cooldown
          BY <1>1 DEF Cooled
        <5>4. \A i \in Kept(m) : committed[i].now <= row.edited + MaxLag
          BY <1>1, <5>1, <5>2, <5>3
        <5> QED  BY <3>2, <4>1, <5>1, <5>2, <5>4
      <4>4. Fresh(t, row) \/ Attempts(t, row)
        BY <1>1, <2>2, WriteLoaded DEF Writer, Writes, Cooled, Governed
      <4> QED  BY <4>2, <4>3, <4>4
    <3> QED  BY <3>1, <3>2
  <2> QED  BY StepKinds, <2>1, <2>2 DEF Base
<1>4. ASSUME NEW k \in Members, NEW i \in Kept(k)', NEW j \in Kept(k)', i < j
      PROVE  (committed[j].now + MaxLag >= committed[i].now + config.cooldown)'
  <2>1. CASE Kept(k)' \subseteq Kept(k) /\ \A x \in Kept(k)' : committed'[x] = committed[x]
    BY <1>1, <1>2, <1>4, <2>1 DEF Apart
  <2>2. ASSUME NEW t \in Tabs, NEW row, Writer(t, k, row),
               Fresh(t, row) \/ Edits(t, row) \/ Attempts(t, row),
               Kept(k)' = Kept(k) \cup {Nth}
        PROVE  (committed[j].now + MaxLag >= committed[i].now + config.cooldown)'
    <3>1. /\ Nth \in Nat /\ committed'[Nth].now = tx[t].now
          /\ \A x \in Kept(k) : x \in Nat /\ x < Nth /\ committed'[x] = committed[x]
          /\ Fresh(t, row) => Kept(k) = {}
      BY <1>1, <2>2, KeptWrite
    <3>2. i \in Kept(k)
      BY <1>4, <2>2, <3>1
    <3>3. CASE j \in Kept(k)
      BY <1>1, <1>2, <1>4, <3>1, <3>2, <3>3 DEF Apart
    <3>4. CASE j \notin Kept(k)
      <4> DEFINE e == tx[t].row
      <4>1. Attempts(t, row)
        BY <1>1, <2>2, <3>1, <3>2, WriteLoaded DEF Cooled, Governed
      <4>2. /\ e \in responses /\ e.member = k
            /\ e.edited \in Nat /\ config.cooldown \in Nat /\ tx[t].now \in Nat
            /\ e.edited + config.cooldown <= tx[t].now
        BY <2>2, <4>1, Cooldown
      <4> HIDE DEF e
      <4>3. committed[i].now \in Nat /\ committed[i].now <= e.edited + MaxLag
        BY <1>2, <3>2, <4>2 DEF EditedLate
      <4>4. committed'[j].now = tx[t].now /\ committed'[i].now = committed[i].now
        BY <2>2, <3>1, <3>2, <3>4
      <4> QED  BY <1>1, <4>2, <4>3, <4>4
    <3> QED  BY <3>3, <3>4
  <2> QED  BY <1>1, KeptStep, <2>1, <2>2
<1>5. EditedLate'
  BY <1>3 DEF EditedLate
<1>6. Apart'
  BY <1>4 DEF Apart
<1> QED  BY <1>5, <1>6

\* On the settings the form was published with, two attempts that count are at
\* least the cooldown apart, but for the time from BEGIN to the check, provided
\* that time does not exceed the cooldown (last_edited_at defaults to now(), the
\* time of BEGIN; decide() uses Utc::now()).
THEOREM AttemptsApart == Spec => [](version = 1 => CooldownKept)
<1>1. Init => CooldownHeld
  BY DEF Init, CooldownHeld, EditedLate, Apart, Kept
<1>2. CooldownHeld => (version = 1 => CooldownKept)
  BY DEF CooldownHeld, Cooled, Apart, Steady, Unsaved, CooldownKept, Governed
<1> QED  BY <1>1, <1>2, BaseInit, BaseStep, CooldownHeldStep, PTL DEF Spec

-----------------------------------------------------------------------------
(* What the page said. *)

\* A member with a page, on its way to be submitted.
Shows(t) == tx[t].stage \in {"open", "begun", "read", "locked", "loaded"}

\* Whatever a page says of further attempts is said of a row of its member that
\* is there, and that still bears it out, or was deleted.
Backed(t, r) ==
    /\ r.id = tx[t].page.row /\ r.member = tx[t].member
    /\ tx[t].page.blocked => ShowsBlocked(config, r)
    /\ tx[t].page.next > 0 /\ MaxLag <= config.cooldown =>
          config.cooldown > 0 /\ tx[t].page.next <= r.edited + config.cooldown

Says(t) == tx[t].page.blocked \/ tx[t].page.next > 0

PageBacked(t) ==
    Shows(t) /\ Says(t) /\ tx[t].page.row \notin erased =>
        Governed(config) /\ \E r \in responses : Backed(t, r)

Pages ==
    Unsaved => \A t \in Tabs : /\ tx[t].stage = "opening" => tx[t].cfg = config
                               /\ PageBacked(t)

\* The page and the member of a tab, after each of its moves.
LEMMA MovePage ==
    ASSUME Typed, NEW t \in Tabs, NEW b
    PROVE  /\ Opens(t, b) => b.stage = "opening" /\ b.cfg = config
           /\ Renders(t, b) => b.stage = "open" /\ b.member = tx[t].member
           /\ Begins(t, b) \/ Reads(t, b) \/ Locks(t, b) \/ Loads(t, b) =>
                 /\ Shows(t) /\ b.page = tx[t].page /\ b.member = tx[t].member
                 /\ b.stage # "opening"
           /\ Ends(t, b) => b.stage = "ended"
<1>0. tx[t] \in Tx
  BY DEF Typed, TypeOK
<1>1. Opens(t, b) => b.stage = "opening" /\ b.cfg = config
  BY DEF Opens, Blank
<1>2. Renders(t, b) => b.stage = "open" /\ b.member = tx[t].member
  <2>1. \A page : Shown(t, page).stage = "open" /\ Shown(t, page).member = tx[t].member
    BY DEF Shown, Blank
  <2> HIDE DEF Shown
  <2> QED  BY <2>1 DEF Renders
<1>3. Begins(t, b) => /\ Shows(t) /\ b.page = tx[t].page /\ b.member = tx[t].member
                      /\ b.stage # "opening"
  BY <1>0 DEF Begins, Tx, Shows
<1>4. Reads(t, b) => /\ Shows(t) /\ b.page = tx[t].page /\ b.member = tx[t].member
                     /\ b.stage # "opening"
  BY <1>0 DEF Reads, Tx, Shows
<1>5. Locks(t, b) => /\ Shows(t) /\ b.page = tx[t].page /\ b.member = tx[t].member
                     /\ b.stage # "opening"
  BY <1>0 DEF Locks, Tx, Shows
<1>6. Loads(t, b) => /\ Shows(t) /\ b.page = tx[t].page /\ b.member = tx[t].member
                     /\ b.stage # "opening"
  <2> SUFFICES ASSUME Loads(t, b)
               PROVE  /\ Shows(t) /\ b.page = tx[t].page /\ b.member = tx[t].member
                      /\ b.stage # "opening"
    OBVIOUS
  <2>1. PICK r : \/ b = [tx[t] EXCEPT !.stage = "loaded"]
                 \/ b = [tx[t] EXCEPT !.stage = "loaded", !.row = r]
    BY DEF Loads
  <2>2. Shows(t)
    BY DEF Loads, Shows
  <2> QED  BY <1>0, <2>1, <2>2 DEF Tx
<1>7. Ends(t, b) => b.stage = "ended"
  BY DEF Ends, Blank
<1> QED  BY <1>1, <1>2, <1>3, <1>4, <1>5, <1>6, <1>7

\* A page as it is rendered.
LEMMA PageRendered ==
    ASSUME Base, NEW t \in Tabs, NEW b, Renders(t, b), tx[t].cfg = config,
           b.page.blocked \/ b.page.next > 0
    PROVE  /\ Governed(config)
           /\ \E r \in responses :
                 /\ r.id = b.page.row /\ r.member = b.member
                 /\ b.page.blocked => ShowsBlocked(config, r)
                 /\ b.page.next > 0 =>
                       config.cooldown > 0 /\ b.page.next <= r.edited + config.cooldown
<1>1. b = Shown(t, NoPage) => ~(b.page.blocked \/ b.page.next > 0)
  <2>1. Shown(t, NoPage).page = NoPage
    BY DEF Shown, Blank
  <2> QED  BY <2>1 DEF NoPage
<1>2. PICK r \in Canonical(tx[t].member) : b = Shown(t, Status(config, r, tx[t].now))
  BY <1>1 DEF Renders
<1>3. Governed(config)
  BY <1>1 DEF Renders
<1>4. b.page = Status(config, r, tx[t].now) /\ b.member = tx[t].member
  BY <1>2 DEF Shown, Blank
<1>5. r \in responses /\ r.member = tx[t].member
  BY DEF Canonical, RowsOf
<1>6. r.edited \in Nat /\ config.cooldown \in Nat
  BY <1>5 DEF Base, Typed, TypeOK, Row, Config
<1>7. /\ b.page.row = r.id /\ b.page.blocked = ShowsBlocked(config, r)
      /\ b.page.next = ShownNext(config, r, tx[t].now)
  BY <1>4 DEF Status
<1>8. b.page.next > 0 =>
         config.cooldown > 0 /\ b.page.next <= r.edited + config.cooldown
  BY <1>6, <1>7 DEF ShownNext
<1> QED  BY <1>3, <1>4, <1>5, <1>7, <1>8

\* A row that bears a page out does so until it is deleted: if the page says
\* blocked it is never written again, and a later attempt only moves the time on.
LEMMA BackedStay ==
    ASSUME Base, [Next]_vars, Unsaved', Governed(config), NEW u \in Tabs,
           tx'[u].page = tx[u].page, tx'[u].member = tx[u].member,
           Says(u), tx[u].page.row \notin erased',
           NEW r \in responses, Backed(u, r)
    PROVE  \E q \in responses' : Backed(u, q)'
<1>1. Steady' /\ config' = config
  BY VersionStep DEF Base, Steady, Governed
<1>2. CASE Thins
  <2>1. r \in responses'
    BY <1>2 DEF Thins, Backed
  <2>2. Backed(u, r)'
    BY <1>1 DEF Backed
  <2> QED  BY <2>1, <2>2
<1>3. ASSUME NEW t \in Tabs, NEW m, NEW row, Writer(t, m, row)
      PROVE  \E q \in responses' : Backed(u, q)'
  <2>0. responses' = {q \in responses : q.id # row.id} \cup {row}
    BY <1>3 DEF Writer, Commit
  <2>1. CASE r.id # row.id
    <3>1. r \in responses'
      BY <2>0, <2>1
    <3>2. Backed(u, r)'
      BY <1>1 DEF Backed
    <3> QED  BY <3>1, <3>2
  <2>2. CASE r.id = row.id
    <3> DEFINE e == tx[t].row
    <3>0. Fresh(t, row) => r.id # row.id
      BY <1>3, WriteShape, WriteLoaded, <1>1 DEF Base, Writer
    <3>1. Attempts(t, row)
      BY <1>1, <1>3, <2>2, <3>0, WriteLoaded DEF Writer, Writes, Governed
    <3>2. /\ e \in responses /\ row.id = e.id /\ row.member = m /\ e.member = m
          /\ ~Denied(tx[t].now, config, e)
      BY <1>1, <1>3, <3>1, WriteLoaded, KeptWrite
    <3>3. e = r
      BY <2>2, <3>2 DEF Base, Held, RowIds
    <3>4. ~tx[u].page.blocked
      BY <3>2, <3>3 DEF Backed, ShowsBlocked, Denied, AlreadyPassed, Exhausted
    <3>5. ASSUME MaxLag <= config.cooldown, tx[u].page.next > 0
          PROVE  /\ config.cooldown > 0
                 /\ tx[u].page.next <= row.edited + config.cooldown
      <4>1. /\ config.cooldown > 0 /\ tx[u].page.next <= e.edited + config.cooldown
        BY <3>3, <3>5 DEF Backed
      <4>2. Cooled'
        BY <1>1, <3>5, <4>1 DEF Cooled, Governed
      <4>3. /\ e.edited \in Nat /\ config.cooldown \in Nat /\ MaxLag \in Nat
            /\ tx[t].now \in Nat /\ row.edited \in Nat
            /\ e.edited + config.cooldown <= tx[t].now
            /\ tx[t].now <= row.edited + MaxLag
        BY <1>3, <3>1, <4>2, Cooldown
      <4>4. tx[u].page.next \in Nat
        BY DEF Base, Typed, TypeOK, Tx, Page
      <4> HIDE DEF e
      <4> QED  BY <3>5, <4>1, <4>3, <4>4
    <3>6. Backed(u, row)'
      BY <1>1, <2>2, <3>2, <3>3, <3>4, <3>5 DEF Backed
    <3> QED  BY <2>0, <3>6
  <2> QED  BY <2>1, <2>2
<1> QED  BY StepKinds, <1>2, <1>3 DEF Base

\* The page of a tab that goes on with it.
LEMMA PageBackedStay ==
    ASSUME Base, Pages, [Next]_vars, Unsaved', NEW u \in Tabs,
           tx'[u].page = tx[u].page, tx'[u].member = tx[u].member, Shows(u)' => Shows(u)
    PROVE  PageBacked(u)'
<1> SUFFICES ASSUME Shows(u)', Says(u)', (tx[u].page.row \notin erased)'
             PROVE  (Governed(config) /\ \E r \in responses : Backed(u, r))'
  BY DEF PageBacked
<1>1. Unsaved /\ config' = config
  BY VersionStep DEF Base
<1>2. erased \subseteq erased'
  BY StepKinds DEF Base, Thins, Writer, Commit
<1>3. Says(u) /\ tx[u].page.row \notin erased /\ Shows(u)
  BY <1>2 DEF Says
<1>4. Governed(config) /\ \E r \in responses : Backed(u, r)
  BY <1>1, <1>3 DEF Pages, PageBacked
<1>5. Governed(config)'
  BY <1>1, <1>4 DEF Governed
<1> QED  BY <1>3, <1>4, <1>5, BackedStay

LEMMA PagesStep == Base /\ Pages /\ [Next]_vars => Pages'
<1> SUFFICES ASSUME Base, Pages, [Next]_vars, Unsaved', NEW u \in Tabs
             PROVE  /\ tx'[u].stage = "opening" => tx'[u].cfg = config'
                    /\ PageBacked(u)'
  BY DEF Pages
<1>1. /\ Unsaved /\ config' = config
      /\ tx[u].stage = "opening" => tx[u].cfg = config
  BY VersionStep DEF Base, Pages
<1>2. CASE tx'[u] = tx[u]
  <2>1. PageBacked(u)'
    BY <1>2, PageBackedStay DEF Shows
  <2> QED  BY <1>1, <1>2, <2>1
<1>3. CASE tx'[u].stage = "ended"
  BY <1>3 DEF PageBacked, Shows
<1>4. ASSUME NEW b \in Tx, Moves(u, b), tx'[u] = b,
             Approaches(u, b) \/ Reads(u, b) \/ Locks(u, b) \/ Loads(u, b) \/ Ends(u, b)
      PROVE  /\ tx'[u].stage = "opening" => tx'[u].cfg = config'
             /\ PageBacked(u)'
  <2>0. Typed /\ UNCHANGED <<responses, erased, config>>
    BY <1>4 DEF Base, Moves, others, form
  <2>1. CASE Opens(u, b)
    <3>1. b.stage = "opening" /\ b.cfg = config
      BY <2>0, <2>1, MovePage
    <3> QED  BY <1>1, <1>4, <3>1 DEF PageBacked, Shows
  <2>2. CASE Renders(u, b)
    <3>1. tx[u].cfg = config
      BY <1>1, <2>2 DEF Renders
    <3>2. b.stage = "open"
      BY <2>0, <2>2, MovePage
    <3>3. b.page.blocked \/ b.page.next > 0 =>
            /\ Governed(config)
            /\ \E r \in responses :
                 /\ r.id = b.page.row /\ r.member = b.member
                 /\ b.page.blocked => ShowsBlocked(config, r)
                 /\ b.page.next > 0 =>
                       config.cooldown > 0 /\ b.page.next <= r.edited + config.cooldown
      BY <2>2, <3>1, PageRendered
    <3>4. PageBacked(u)'
      <4> SUFFICES ASSUME Says(u)'
                   PROVE  (Governed(config) /\ \E r \in responses : Backed(u, r))'
        BY DEF PageBacked
      <4>1. b.page.blocked \/ b.page.next > 0
        BY <1>4 DEF Says
      <4>2. Governed(config)'
        BY <1>1, <3>3, <4>1 DEF Governed
      <4>3. PICK r \in responses :
               /\ r.id = b.page.row /\ r.member = b.member
               /\ b.page.blocked => ShowsBlocked(config, r)
               /\ b.page.next > 0 =>
                     config.cooldown > 0 /\ b.page.next <= r.edited + config.cooldown
        BY <3>3, <4>1
      <4>4. Backed(u, r)' /\ r \in responses'
        BY <1>1, <1>4, <2>0, <4>3 DEF Backed
      <4> QED  BY <4>2, <4>4
    <3> QED  BY <1>4, <3>2, <3>4
  <2>3. CASE Begins(u, b) \/ Reads(u, b) \/ Locks(u, b) \/ Loads(u, b)
    <3>1. /\ Shows(u) /\ b.page = tx[u].page /\ b.member = tx[u].member
          /\ b.stage # "opening"
      BY <2>0, <2>3, MovePage
    <3>2. PageBacked(u)'
      BY <1>4, <3>1, PageBackedStay
    <3> QED  BY <1>4, <3>1, <3>2
  <2>4. CASE Ends(u, b)
    BY <1>3, <1>4, <2>0, <2>4, MovePage
  <2> QED  BY <1>4, <2>1, <2>2, <2>3, <2>4 DEF Approaches
<1>5. tx \in [Tabs -> Tx]
  BY DEF Base, Typed, TypeOK
<1>6. ASSUME NEW t \in Tabs, NEW b \in Tx, Moves(t, b),
             Approaches(t, b) \/ Reads(t, b) \/ Locks(t, b) \/ Loads(t, b) \/ Ends(t, b)
      PROVE  /\ tx'[u].stage = "opening" => tx'[u].cfg = config'
             /\ PageBacked(u)'
  <2>1. CASE t = u
    <3>1. tx'[u] = b
      BY <1>5, <1>6, <2>1 DEF Moves
    <3> QED  BY <1>4, <1>6, <2>1, <3>1
  <2>2. CASE t # u
    <3>1. tx'[u] = tx[u]
      BY <1>5, <1>6, <2>2 DEF Moves
    <3> QED  BY <1>2, <3>1
  <2> QED  BY <2>1, <2>2
<1>7. ASSUME NEW t \in Tabs, NEW row, Commit(t, row)
      PROVE  tx'[u] = tx[u] \/ tx'[u].stage = "ended"
  BY <1>5, <1>7 DEF Commit, Blank
<1>8. ASSUME \/ \E c \in Configs : UpdateForm(c)
             \/ \E S \in SUBSET responses : DeleteResponses(S)
             \/ DeleteFormRows \/ DeleteFormCommit \/ DeleteFormRollback
             \/ Tick \/ UNCHANGED vars
      PROVE  tx'[u] = tx[u]
  BY <1>8 DEF UpdateForm, DeleteResponses, DeleteFormRows, DeleteFormCommit,
              DeleteFormRollback, Tick, vars
<1>9. Typed
  BY DEF Base
<1> QED  BY Steps, <1>2, <1>3, <1>6, <1>7, <1>8, <1>9

\* A form that nobody saves.
NeverSaved == MaxVersion = 1 => Unsaved

LEMMA NeverSavedStep == Typed /\ NeverSaved /\ [Next]_vars => NeverSaved'
<1> SUFFICES ASSUME Typed, NeverSaved, [Next]_vars, MaxVersion = 1 PROVE version' = 1
  BY DEF NeverSaved, Unsaved
<1>1. version = 1
  BY DEF NeverSaved, Unsaved
<1>2. ASSUME NEW t \in Tabs, NEW b, Moves(t, b) PROVE version' = version
  BY <1>2 DEF Moves, others, form
<1>3. ASSUME NEW t \in Tabs, NEW row, Commit(t, row) PROVE version' = version
  BY <1>3 DEF Commit, form
<1>4. \A c \in Configs : ~UpdateForm(c)
  BY <1>1 DEF UpdateForm
<1>5. ASSUME \/ \E S \in SUBSET responses : DeleteResponses(S)
             \/ DeleteFormRows \/ DeleteFormCommit \/ DeleteFormRollback
             \/ Tick \/ UNCHANGED vars
      PROVE  version' = version
  BY <1>5 DEF DeleteResponses, DeleteFormRows, DeleteFormCommit, DeleteFormRollback,
              Tick, vars, form
<1> QED  BY Steps, <1>1, <1>2, <1>3, <1>4, <1>5

LEMMA PageKeptStep ==
    ASSUME Base, Pages, [Next]_vars, Unsaved, Unsaved', NEW t \in Tabs,
           Len(committed') > Len(committed), committed'[Len(committed')].tab = t,
           tx[t].page.row \notin erased
    PROVE  /\ ~tx[t].page.blocked
           /\ MaxLag <= config.cooldown => tx[t].now >= tx[t].page.next
<1>0. Typed /\ Held /\ tx[t].page.next \in Nat /\ tx[t].now \in Nat
  BY DEF Base, Typed, TypeOK, Tx, Page
<1>1. ~Thins
  BY <1>0 DEF Thins, Typed, TypeOK
<1>2. PICK u \in Tabs : \E m, row : Writer(u, m, row)
  BY <1>0, <1>1, StepKinds
<1>3. PICK m, row : Writer(u, m, row)
  BY <1>2
<1>4. u = t
  <2> DEFINE e == [tab |-> u, row |-> row.id, member |-> tx[u].member,
                   version |-> tx[u].version, score |-> New(u).score,
                   passed |-> New(u).passed, now |-> tx[u].now]
  <2>1. committed' = Append(committed, e) /\ committed \in Seq(Submitted)
    BY <1>0, <1>3 DEF Writer, Commit, Typed, TypeOK
  <2>2. e.tab = u
    OBVIOUS
  <2> HIDE DEF e
  <2>3. committed'[Len(committed')] = e
    BY <2>1
  <2> QED  BY <2>2, <2>3
<1>5. SharesForm(t) /\ Shows(t) /\ tx[t].member = m
  BY <1>3, <1>4 DEF Writer, SharesForm, Shows
<1>6. CASE ~Says(t)
  BY <1>0, <1>6 DEF Says
<1>7. CASE Says(t)
  <2>1. Governed(config)
    BY <1>5, <1>7 DEF Pages, PageBacked
  <2>2. PICK r \in responses : Backed(t, r)
    BY <1>5, <1>7 DEF Pages, PageBacked
  <2>3. Steady' /\ config' = config
    BY <2>1, VersionStep DEF Base, Steady, Governed
  <2>4. r.member = m
    BY <1>5, <2>2 DEF Backed
  <2>5. ~Fresh(t, row)
    <3>1. tx[t].cfg = config
      BY <1>3, <1>4, <2>3, WriteLoaded
    <3>2. RowsOf(m) # {}
      BY <2>4 DEF RowsOf
    <3> QED  BY <1>0, <1>5, <2>1, <3>1, <3>2 DEF Fresh, Held, LoadedFrozen, Governed
  <2>6. Attempts(t, row)
    BY <1>3, <1>4, <2>1, <2>3, <2>5, WriteLoaded DEF Writer, Writes, Governed
  <2> DEFINE e == tx[t].row
  <2>7. e \in responses /\ e.member = m /\ ~Denied(tx[t].now, config, e)
    BY <1>3, <1>4, <2>3, <2>6, WriteLoaded
  <2> HIDE DEF e
  <2>8. e = r
    BY <2>3, <2>4, <2>7, SteadyStep
  <2>9. ~tx[t].page.blocked
    BY <2>2, <2>7, <2>8 DEF Backed, ShowsBlocked, Denied, AlreadyPassed, Exhausted
  <2>10. ASSUME MaxLag <= config.cooldown, tx[t].page.next > 0
         PROVE  tx[t].now >= tx[t].page.next
    <3>1. config.cooldown > 0 /\ tx[t].page.next <= r.edited + config.cooldown
      BY <2>2, <2>10 DEF Backed
    <3>2. ~(tx[t].now < r.edited + config.cooldown)
      BY <2>7, <2>8, <3>1 DEF Denied, Cooling
    <3>3. r.edited \in Nat /\ config.cooldown \in Nat
      BY <1>0 DEF Typed, TypeOK, Row, Config
    <3> QED  BY <1>0, <3>1, <3>2, <3>3
  <2> QED  BY <1>0, <2>9, <2>10
<1> QED  BY <1>6, <1>7

\* While nobody saves the form, what the page says of further attempts holds:
\* get_form's build_retry_status and decide() agree, over all that happens
\* between the page and the submission, unless the response the page went by is
\* deleted.
THEOREM PagesKept == MaxVersion = 1 => (Spec => PageKept)
<1> SUFFICES ASSUME MaxVersion = 1 PROVE Spec => PageKept
  OBVIOUS
<1>1. Init => Pages /\ NeverSaved
  BY DEF Init, Blank, Pages, PageBacked, Shows, NeverSaved, Unsaved
<1>2. Base /\ NeverSaved /\ [Next]_vars => NeverSaved'
  BY NeverSavedStep DEF Base
<1>3. Base /\ Pages /\ NeverSaved /\ NeverSaved' /\ [Next]_vars =>
        [\A t \in Tabs :
          /\ Len(committed') > Len(committed) /\ committed'[Len(committed')].tab = t
          /\ tx[t].page.row \notin erased
          => /\ ~tx[t].page.blocked
             /\ MaxLag <= config.cooldown => tx[t].now >= tx[t].page.next]_vars
  BY PageKeptStep DEF NeverSaved
<1> QED
  BY <1>1, <1>2, <1>3, BaseInit, BaseStep, PagesStep, PTL DEF Spec, PageKept
=============================================================================
