-------------------------- MODULE FormBuilderProofs --------------------------
(***************************************************************************)
(* Proofs about FormBuilder for any tabs, edits and bounds: the optimistic *)
(* lock keeps every edit as long as saves do not overlap.  The hypothesis  *)
(* Serial is needed, as the run FormBuilderClobber shows.                  *)
(***************************************************************************)
EXTENDS FormBuilder, TLAPS

USE FormBuilderAssumption

\* There is at most one save under way.
Serial == \A q, r \in Requests : q = r

-----------------------------------------------------------------------------
LEMMA TypeInit == Init => TypeOK
BY DEF Init, TypeOK, Request, Free

\* A request at another stage, or with another version, is one as well.
LEMMA RequestType ==
    ASSUME NEW q \in Request, NEW n \in Nat,
           NEW s \in {"free", "sent", "saved", "ok", "refused"}
    PROVE  /\ [q EXCEPT !.stage = s] \in Request
           /\ [q EXCEPT !.stage = s, !.version = n] \in Request
BY DEF Request

\* Each step keeps the types: one case per action.
LEMMA TypeStep == TypeOK /\ [Next]_vars => TypeOK'
<1> SUFFICES ASSUME TypeOK, [Next]_vars PROVE TypeOK'
  OBVIOUS
<1> USE DEF TypeOK, Free
<1>0. ASSUME NEW r \in Requests
      PROVE  request[r] \in Request /\ form.version \in Nat
  OBVIOUS
<1>1. ASSUME NEW t \in Tabs, Load(t) PROVE TypeOK'
  BY <1>1 DEF Load, Request
<1>2. ASSUME NEW t \in Tabs, NEW e \in Edits, Edit(t, e) PROVE TypeOK'
  BY <1>2 DEF Edit, Request
<1>3. ASSUME NEW t \in Tabs, NEW r \in Requests, Send(t, r) PROVE TypeOK'
  BY <1>3 DEF Send, Request
<1>4. ASSUME NEW r \in Requests, Receive(r) PROVE TypeOK'
  BY <1>4 DEF Receive, Request
<1>5. ASSUME NEW r \in Requests, Disconnect(r) PROVE TypeOK'
  BY <1>5 DEF Disconnect, Request
<1>6. ASSUME NEW r \in Requests, Update(r) PROVE TypeOK'
  <2>1. [request[r] EXCEPT !.stage = "saved"] \in Request
    BY <1>0, RequestType
  <2>2. request' \in [Requests -> Request]
    BY <1>6, <2>1 DEF Update
  <2>3. \A q \in Requests : request'[q].version = request[q].version
    BY <1>6 DEF Update, Request
  <2>4. form' \in [live : BOOLEAN, version : 1 .. MaxVersion, edits : SUBSET Edits]
        /\ form'.version = form.version + 1 /\ tab' = tab
    <3>1. request[r].edits \in SUBSET Edits
      BY <1>0 DEF Request
    <3>2. form.version + 1 \in 1 .. MaxVersion
      BY <1>6, <1>0 DEF Update
    <3>3. form' = [form EXCEPT !.version = form.version + 1, !.edits = request[r].edits]
          /\ tab' = tab
      BY <1>6 DEF Update
    <3> QED  BY <3>1, <3>2, <3>3
  <2>5. \A q \in Requests : request[q].version \in Nat
    BY <1>0 DEF Request
  <2> QED  BY <2>2, <2>3, <2>4, <2>5
<1>7. ASSUME NEW r \in Requests, Refuse(r) \/ FailAfterUpdate(r) PROVE TypeOK'
  <2>1. [request[r] EXCEPT !.stage = "refused"] \in Request
    BY <1>0, RequestType
  <2>2. request' \in [Requests -> Request]
    BY <1>7, <2>1 DEF Refuse, FailAfterUpdate
  <2>3. \A q \in Requests : request'[q].version = request[q].version
    BY <1>7 DEF Refuse, FailAfterUpdate, Request
  <2> QED  BY <1>7, <2>2, <2>3 DEF Refuse, FailAfterUpdate
<1>8. ASSUME NEW r \in Requests, ReadVersion(r) PROVE TypeOK'
  <2>1. [request[r] EXCEPT !.stage = "ok", !.version = form.version] \in Request
    BY <1>0, RequestType
  <2>2. request' = [request EXCEPT ![r] =
                       [request[r] EXCEPT !.stage = "ok", !.version = form.version]]
    BY <1>8 DEF ReadVersion, Request
  <2>3. request' \in [Requests -> Request]
    BY <2>1, <2>2
  <2>4. request'[r].version = form.version
    BY <2>2, <1>0 DEF Request
  <2>5. \A q \in Requests \ {r} : request'[q] = request[q]
    BY <2>2
  <2>6. form' = form /\ tab' = tab
    BY <1>8 DEF ReadVersion
  <2> QED  BY <2>3, <2>4, <2>5, <2>6, <1>0
<1>9. ASSUME NEW r \in Requests, Cancel(r) PROVE TypeOK'
  BY <1>9 DEF Cancel, Request
<1>10. CASE Delete  BY <1>10 DEF Delete
<1>11. CASE UNCHANGED vars  BY <1>11 DEF vars
<1> QED
  BY <1>1, <1>2, <1>3, <1>4, <1>5, <1>6, <1>7, <1>8, <1>9, <1>10, <1>11 DEF Next

\* No tab and no request ever knows a version that the row does not have yet.
THEOREM TypeCorrect == Spec => []TypeOK
<1> QED  BY TypeInit, TypeStep, PTL DEF Spec

-----------------------------------------------------------------------------
(* The edits of the row are in the tab that waits for the answer: until it   *)
(* comes, the tab does not know the version it has made.                     *)

\* A save that may still succeed contains what is in the row; one that has
\* succeeded is what is in the row; and the tab it came from has all of it.
SaveCurrent ==
    \A r \in Requests :
        /\ request[r].tab # NoTab /\ request[r].stage \in {"sent", "saved", "ok"} =>
              request[r].edits \subseteq tab[request[r].tab].edits
        /\ form.live /\ request[r].stage = "sent" /\ request[r].version = form.version =>
              form.edits \subseteq request[r].edits
        /\ form.live /\ request[r].stage = "saved" => form.edits = request[r].edits
        /\ form.live /\ request[r].stage = "ok" => form.edits = request[r].edits

Inductive == TypeOK /\ TabCurrent /\ SaveCurrent

LEMMA InductiveInit == Init => Inductive
<1> SUFFICES ASSUME Init PROVE TabCurrent /\ SaveCurrent
  BY TypeInit DEF Inductive
<1> QED  BY DEF Init, TabCurrent, SaveCurrent, Free

LEMMA InductiveStep == Serial /\ Inductive /\ [Next]_vars => Inductive'
<1> SUFFICES ASSUME Serial, Inductive, [Next]_vars PROVE TabCurrent' /\ SaveCurrent'
  BY TypeStep DEF Inductive
<1>t. TypeOK /\ TypeOK'
  BY TypeStep DEF Inductive
<1> USE <1>t DEF TypeOK, Inductive, Request
<1>1. ASSUME NEW t \in Tabs, Load(t) PROVE TabCurrent' /\ SaveCurrent'
  BY <1>1 DEF Load, TabCurrent, SaveCurrent
<1>2. ASSUME NEW t \in Tabs, NEW e \in Edits, Edit(t, e) PROVE TabCurrent' /\ SaveCurrent'
  BY <1>2 DEF Edit, TabCurrent, SaveCurrent
<1>3. ASSUME NEW t \in Tabs, NEW r \in Requests, Send(t, r) PROVE TabCurrent' /\ SaveCurrent'
  BY <1>3 DEF Send, TabCurrent, SaveCurrent
<1>4. ASSUME NEW r \in Requests, Receive(r) PROVE TabCurrent' /\ SaveCurrent'
  BY <1>4 DEF Receive, TabCurrent, SaveCurrent, Free
<1>5. ASSUME NEW r \in Requests, Disconnect(r) PROVE TabCurrent' /\ SaveCurrent'
  BY <1>5 DEF Disconnect, TabCurrent, SaveCurrent
<1>6. ASSUME NEW r \in Requests, Update(r) PROVE TabCurrent' /\ SaveCurrent'
  <2>1. TabCurrent'
    BY <1>6 DEF Update, TabCurrent
  <2>2. \A q \in Requests : q = r
    BY DEF Serial
  <2> QED  BY <1>6, <2>1, <2>2 DEF Update, SaveCurrent
<1>7. ASSUME NEW r \in Requests, Refuse(r) \/ FailAfterUpdate(r)
      PROVE  TabCurrent' /\ SaveCurrent'
  BY <1>7 DEF Refuse, FailAfterUpdate, TabCurrent, SaveCurrent
<1>8. ASSUME NEW r \in Requests, ReadVersion(r) PROVE TabCurrent' /\ SaveCurrent'
  BY <1>8 DEF ReadVersion, TabCurrent, SaveCurrent
<1>9. ASSUME NEW r \in Requests, Cancel(r) PROVE TabCurrent' /\ SaveCurrent'
  BY <1>9 DEF Cancel, TabCurrent, SaveCurrent, Free
<1>10. CASE Delete  BY <1>10 DEF Delete, TabCurrent, SaveCurrent
<1>11. CASE UNCHANGED vars  BY <1>11 DEF vars, TabCurrent, SaveCurrent
<1> QED
  BY <1>1, <1>2, <1>3, <1>4, <1>5, <1>6, <1>7, <1>8, <1>9, <1>10, <1>11 DEF Next

\* The lock's premise: a tab that knows the version has seen the row's edits.
THEOREM SerialTabsCurrent == Serial => (Spec => []TabCurrent)
<1>1. Inductive => TabCurrent
  BY DEF Inductive
<1>2. SUFFICES ASSUME Serial PROVE Spec => []TabCurrent
  OBVIOUS
<1>3. Inductive /\ [Next]_vars => Inductive'
  BY <1>2, InductiveStep
<1> QED  BY <1>1, <1>3, InductiveInit, PTL DEF Spec

\* A step that is not a save leaves the edits; a save keeps them.
LEMMA StepKeepsEdits ==
    Inductive /\ [Next]_vars => [form.edits \subseteq form'.edits]_vars
<1> SUFFICES ASSUME Inductive, Next PROVE form.edits \subseteq form'.edits
  OBVIOUS
<1> USE DEF Inductive, TypeOK
<1>1. ASSUME NEW r \in Requests, Update(r) PROVE form.edits \subseteq form'.edits
  BY <1>1 DEF Update, Matches, SaveCurrent
<1>2. CASE Delete  BY <1>2 DEF Delete
<1>3. CASE UNCHANGED form  BY <1>3
<1> QED
  BY <1>1, <1>2, <1>3
  DEF Next, Load, Edit, Send, Receive, Disconnect, Refuse, ReadVersion,
      FailAfterUpdate, Cancel

\* Without overlapping saves, the version check of update_form never lets one
\* tab overwrite what another has saved.
THEOREM SerialSavesKeep == Serial => (Spec => NoClobber)
<1>1. SUFFICES ASSUME Serial PROVE Spec => NoClobber
  OBVIOUS
<1>2. Inductive /\ [Next]_vars => Inductive'
  BY <1>1, InductiveStep
<1> QED  BY <1>2, InductiveInit, StepKeepsEdits, PTL DEF Spec, NoClobber
=============================================================================
