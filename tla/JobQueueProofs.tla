--------------------------- MODULE JobQueueProofs ---------------------------
(***************************************************************************)
(* Proofs about JobQueue for any number of jobs and workers, any batch     *)
(* size and any timing.                                                    *)
(***************************************************************************)
EXTENDS JobQueue, FiniteSetTheorems, TLAPS

USE JobsAssumption, WorkersAssumption, BoundsAssumption

-----------------------------------------------------------------------------
(* Type correctness. *)

\* backoff_delay is a number of ticks for every attempt count.
LEMMA BackoffType == \A n \in Nat : BackoffDelay(n) \in Nat
<1> SUFFICES ASSUME NEW n \in Nat PROVE BackoffDelay(n) \in Nat
  OBVIOUS
<1> DEFINE capped == IF n < 1 THEN 1 ELSE IF n > 8 THEN 8 ELSE n
<1>1. capped \in 1 .. 8
  OBVIOUS
<1>2. BackoffSecs[capped] \in Nat
  <2> HIDE DEF capped
  <2>1. capped \in {1, 2, 3, 4, 5, 6, 7, 8}
    BY <1>1
  <2> QED  BY <2>1 DEF BackoffSecs
<1>3. \A m \in Nat : m \div TickSecs + 1 \in Nat
  OBVIOUS
<1> QED  BY <1>2, <1>3 DEF BackoffDelay

LEMMA TypeInit == Init => TypeOK
<1> SUFFICES ASSUME Init PROVE TypeOK
  OBVIOUS
<1>1. reapDue \in [Workers -> BOOLEAN] /\ notify \in BOOLEAN
  BY DEF Init
<1>2. got \in [Workers -> [Jobs -> Nat]]
  BY DEF Init
<1> QED  BY <1>1, <1>2 DEF Init, TypeOK, RowsOK, Status, Loop

\* complete, fail_dead and fail_retry keep the rows typed, and no row goes back
\* to absent.
LEMMA TypeWrites ==
    ASSUME RowsOK, NEW j \in Jobs, NEW n \in Nat,
           Complete(j) \/ FailDead(j) \/ FailRetry(j, n)
    PROVE  RowsOK' /\ \A k \in Jobs : status[k] # "absent" => status'[k] # "absent"
<1> USE DEF RowsOK, Status, Unlock
<1>1. CASE Complete(j)  BY <1>1 DEF Complete
<1>2. CASE FailDead(j)  BY <1>2 DEF FailDead
<1>3. CASE FailRetry(j, n)  BY <1>3, BackoffType DEF FailRetry
<1> QED  BY <1>1, <1>2, <1>3

\* A step after which a worker holds less than before.
LEMMA TypeSettle ==
    ASSUME TypeOK, NEW w \in Workers, NEW j \in Jobs, Settle(w, j), RowsOK',
           \A k \in Jobs : status[k] # "absent" => status'[k] # "absent",
           \/ UNCHANGED signal
           \/ signal' = [signal EXCEPT ![w] = "seen"],
           disrupted' \in 0 .. MaxDisruptions
    PROVE  TypeOK'
<1> USE DEF TypeOK
<1>1. /\ pc' \in [Workers -> Loop] /\ batch' \in [Workers -> SUBSET Jobs]
      /\ current' \in [Workers -> Jobs \cup {NoJob}] /\ elapsed' \in [Workers -> Nat]
      /\ UNCHANGED <<reapDue, notify>>
  BY DEF Settle, Loop
<1>2. got' \in [Workers -> [Jobs -> Nat]]
  BY DEF Settle
<1>3. signal' \in [Workers -> {"none", "sent", "seen"}]
  OBVIOUS
<1>4. overdue' \subseteq {k \in Jobs : status'[k] # "absent"}
  BY DEF Settle, StillHeld
<1> QED  BY <1>1, <1>2, <1>3, <1>4

\* Each step keeps the types: one case per action.
LEMMA TypeStep == TypeOK /\ [Next]_vars => TypeOK'
<1> SUFFICES ASSUME TypeOK, [Next]_vars PROVE TypeOK'
  OBVIOUS
<1>a. /\ RowsOK /\ disrupted \in 0 .. MaxDisruptions
      /\ \A w \in Workers, j \in Jobs : got[w][j] \in Nat
  BY DEF TypeOK
<1> USE DEF Status, Loop, rows, work
<1>1. ASSUME NEW j \in Jobs, NEW d \in EnqueueDelays, Enqueue(j, d) PROVE TypeOK'
  BY <1>1 DEF Enqueue, TypeOK, RowsOK
<1>2. ASSUME NEW w \in Workers, WorkerStep(w) PROVE TypeOK'
  <2>1. CASE StopAtTop(w)  BY <2>1 DEF StopAtTop, TypeOK, RowsOK
  <2>2. CASE SkipReap(w)  BY <2>2 DEF SkipReap, TypeOK, RowsOK
  <2>3. CASE Reap(w)  BY <2>3 DEF Reap, ReapStuck, Expired, TypeOK, RowsOK
  <2>4. ASSUME NEW S \in SUBSET Due, Claim(w, S) PROVE TypeOK'
    BY <2>4 DEF Claim, ClaimRows, Due, TypeOK, RowsOK
  <2>5. CASE ClaimNothing(w)  BY <2>5 DEF ClaimNothing, TypeOK, RowsOK
  <2>6. CASE Poll(w)  BY <2>6 DEF Poll, TypeOK, RowsOK
  <2>7. CASE StopWaiting(w)  BY <2>7 DEF StopWaiting, TypeOK, RowsOK
  <2>8. ASSUME NEW j \in Jobs, Dispatch(w, j) PROVE TypeOK'
    BY <2>8 DEF Dispatch, TypeOK, RowsOK
  <2>9. ASSUME NEW j \in Jobs,
               Release(w, j) \/ FinishOk(w, j) \/ FinishTerminal(w, j) \/ FinishRetry(w, j)
        PROVE  TypeOK'
    <3>1. /\ Complete(j) \/ FailDead(j) \/ FailRetry(j, got[w][j])
          /\ Settle(w, j) /\ disrupted' = disrupted
          /\ UNCHANGED signal \/ signal' = [signal EXCEPT ![w] = "seen"]
      BY <2>9 DEF Release, FinishOk, FinishTerminal, FinishRetry
    <3>2. RowsOK' /\ \A k \in Jobs : status[k] # "absent" => status'[k] # "absent"
      BY <1>a, <3>1, TypeWrites
    <3> QED  BY <1>a, <3>1, <3>2, TypeSettle
  <2> QED
    BY <1>2, <2>1, <2>2, <2>3, <2>4, <2>5, <2>6, <2>7, <2>8, <2>9 DEF WorkerStep
<1>3. ASSUME NEW w \in Workers, Disrupt(w) PROVE TypeOK'
  <2> USE DEF Trouble
  <2>1. CASE ReapFails(w)  BY <2>1 DEF ReapFails, TypeOK, RowsOK
  <2>2. CASE Signal(w)  BY <2>2 DEF Signal, TypeOK, RowsOK
  <2>3. CASE Crash(w)
    <3>1. overdue' \subseteq overdue
      BY <2>3 DEF Crash, StillHeld
    <3> QED  BY <2>3, <3>1 DEF Crash, TypeOK, RowsOK
  <2>4. ASSUME NEW S \in SUBSET Due, ClaimFails(w, S) PROVE TypeOK'
    <3>1. ClaimRows(w, S) \/ UNCHANGED rows
      BY <2>4 DEF ClaimFails
    <3>2. /\ pc' = [pc EXCEPT ![w] = "sleep"] /\ disrupted' \in 0 .. MaxDisruptions
          /\ UNCHANGED <<work, reapDue, signal, notify>>
      BY <2>4, <1>a DEF ClaimFails
    <3>3. CASE ClaimRows(w, S)
      BY <3>2, <3>3 DEF ClaimRows, Due, TypeOK, RowsOK
    <3>4. CASE UNCHANGED rows
      BY <3>2, <3>4 DEF TypeOK, RowsOK
    <3> QED  BY <3>1, <3>3, <3>4
  <2>5. ASSUME NEW j \in Jobs, ReleaseFails(w, j) \/ FinishUnrecorded(w, j) PROVE TypeOK'
    <3>1. /\ Settle(w, j) /\ UNCHANGED rows /\ disrupted' \in 0 .. MaxDisruptions
          /\ UNCHANGED signal \/ signal' = [signal EXCEPT ![w] = "seen"]
      BY <2>5, <1>a DEF ReleaseFails, FinishUnrecorded
    <3>2. RowsOK' /\ \A k \in Jobs : status[k] # "absent" => status'[k] # "absent"
      BY <1>a, <3>1 DEF RowsOK
    <3> QED  BY <3>1, <3>2, TypeSettle
  <2> QED  BY <1>3, <2>1, <2>2, <2>3, <2>4, <2>5 DEF Disrupt
<1>4. ASSUME NEW w \in Workers, Restart(w) PROVE TypeOK'
  BY <1>4 DEF Restart, TypeOK, RowsOK
<1>5. CASE Relay  BY <1>5 DEF Relay, TypeOK, RowsOK
<1>6. CASE LoseNotify  BY <1>6 DEF LoseNotify, TypeOK, RowsOK
<1>7. CASE Tick
  <2>0. age' \in [Jobs -> Nat] /\ delay' \in [Jobs -> Nat]
    <3>1. \A n \in Nat : n + 1 \in Nat /\ (n = 0 \/ n - 1 \in Nat)
      OBVIOUS
    <3> QED  BY <1>7, <1>a, <3>1 DEF Tick, RowsOK
  <2>1. RowsOK' /\ UNCHANGED <<pc, batch, got, current, signal, notify, status>>
    BY <1>7, <1>a, <2>0 DEF Tick, RowsOK
  <2>2. elapsed' \in [Workers -> Nat] /\ reapDue' \in [Workers -> BOOLEAN]
    BY <1>7 DEF Tick, Up, TypeOK
  <2>3. overdue' \subseteq {j \in Jobs : status'[j] # "absent"}
    BY <1>7, <1>a DEF Tick, Overruns, TypeOK, RowsOK
  <2>4. disrupted' \in 0 .. MaxDisruptions
    BY <1>7, <1>a DEF Tick, Trouble
  <2> QED  BY <2>1, <2>2, <2>3, <2>4 DEF TypeOK
<1>8. CASE UNCHANGED vars  BY <1>8 DEF vars, TypeOK, RowsOK
<1> QED  BY <1>1, <1>2, <1>3, <1>4, <1>5, <1>6, <1>7, <1>8 DEF Next

\* The table and the workers keep their types, and a row is locked exactly
\* while in_progress.
THEOREM TypeCorrect == Spec => []TypeOK
<1> QED  BY TypeInit, TypeStep, PTL DEF Spec

-----------------------------------------------------------------------------
(* Ownership: but for overdue jobs, reap_stuck never takes a job from a      *)
(* worker that will still dispatch it.                                       *)

\* No row of a batch has expired, but for the overdue ones.
LEMMA NotExpired ==
    ASSUME TypeOK, BatchOwned, NEW w \in Workers, NEW j \in batch[w] \ overdue
    PROVE  ~Expired(j)
<1>1. age[j] \in Nat /\ age[j] <= StuckLock
  BY DEF TypeOK, RowsOK, BatchOwned, Owns
<1> QED  BY <1>1 DEF Expired

\* A step that leaves alone what Owns(v) speaks of preserves it.
LEMMA OwnsFrame ==
    ASSUME TypeOK, NEW v \in Workers, Owns(v),
           batch'[v] = batch[v], current'[v] = current[v],
           batch[v] # {} => pc'[v] = pc[v],
           \A j \in batch[v] : j \in overdue => j \in overdue',
           \A j \in batch[v] \ overdue : /\ status'[j] = status[j]
                                         /\ lockedBy'[j] = lockedBy[j]
                                         /\ age'[j] = age[j]
    PROVE  Owns(v)'
BY DEF Owns, Holds

\* A worker without a batch owns trivially.
LEMMA OwnsNothing ==
    ASSUME NEW v \in Workers, batch'[v] = {}, current'[v] = NoJob
    PROVE  Owns(v)'
BY DEF Owns

\* Only jobs that a worker goes on holding stay overdue.
LEMMA StillOverdue ==
    ASSUME StillHeld, TypeOK
    PROVE  /\ overdue' \subseteq overdue
           /\ \A w \in Workers : \A j \in batch'[w] : j \in overdue => j \in overdue'
BY DEF StillHeld, Holds

\* Two workers hold one job only if it is overdue.
LEMMA OneHolder ==
    ASSUME BatchOwned, NEW v \in Workers, NEW w \in Workers,
           NEW j \in batch[v], j \in batch[w], j \notin overdue
    PROVE  v = w
<1>1. lockedBy[j] = v /\ lockedBy[j] = w
  BY DEF BatchOwned, Owns
<1> QED  BY <1>1

\* Settling job j of w's batch: w keeps the rest, and nobody else owned j.
LEMMA OwnsSettle ==
    ASSUME TypeOK, BatchOwned,
           NEW w \in Workers, NEW j \in batch[w], Settle(w, j),
           \A k \in Jobs \ {j} : /\ status'[k] = status[k]
                                 /\ lockedBy'[k] = lockedBy[k]
                                 /\ age'[k] = age[k],
           NEW v \in Workers
    PROVE  Owns(v)'
<1> USE DEF TypeOK, RowsOK
<1>1. Owns(v)
  BY DEF BatchOwned
<1>2. \A k \in batch'[v] : k \in overdue => k \in overdue'
  BY StillOverdue DEF Settle
<1>3. batch' = [batch EXCEPT ![w] = batch[w] \ {j}]
  BY DEF Settle
<1>4. CASE v # w
  <2>1. /\ batch'[v] = batch[v] /\ current'[v] = current[v] /\ pc'[v] = pc[v]
    BY <1>4 DEF Settle
  <2>2. \A k \in batch[v] \ overdue : k \in Jobs \ {j}
    BY <1>4, OneHolder
  <2> QED  BY <1>1, <1>2, <2>1, <2>2, OwnsFrame
<1>5. CASE v = w
  <2>1. /\ batch'[w] = batch[w] \ {j} /\ current'[w] = NoJob
        /\ batch[w] # {j} => pc'[w] = "batch"
    BY <1>3 DEF Settle
  <2>2. \A k \in batch'[w] \ overdue' : k \in batch[w] \ overdue /\ k \in Jobs \ {j}
    BY <1>2, <1>5, <2>1
  <2>3. \A k \in batch'[w] \ overdue' : /\ status'[k] = "in_progress"
                                        /\ lockedBy'[k] = w /\ age'[k] <= StuckLock
    BY <1>1, <1>5, <2>2 DEF Owns
  <2> QED  BY <1>5, <2>1, <2>3 DEF Owns
<1> QED  BY <1>4, <1>5

LEMMA OwnedInit == Init => BatchOwned
BY DEF Init, BatchOwned, Owns

\* A fresh batch: its locks are taken now, and its rows were pending, so in no
\* other worker's batch unless they are overdue.
LEMMA OwnedClaim ==
    ASSUME TypeOK, BatchOwned, NEW w \in Workers, NEW S \in SUBSET Due,
           batch[w] = {}, ClaimRows(w, S),
           /\ batch' = [batch EXCEPT ![w] = S] /\ pc'[w] = "batch"
           /\ UNCHANGED <<current, overdue>>,
           \A v \in Workers \ {w} : pc'[v] = pc[v]
    PROVE  BatchOwned'
<1> USE DEF TypeOK, RowsOK
<1> SUFFICES ASSUME NEW v \in Workers PROVE Owns(v)'
  BY DEF BatchOwned
<1>1. Owns(v)
  BY DEF BatchOwned
<1>2. CASE v # w
  <2>1. \A j \in batch[v] \ overdue : j \in Jobs /\ j \notin S
    BY <1>1 DEF Owns, Due
  <2>2. \A j \in batch[v] \ overdue : /\ status'[j] = status[j]
                                      /\ lockedBy'[j] = lockedBy[j] /\ age'[j] = age[j]
    BY <2>1 DEF ClaimRows
  <2> QED  BY <1>1, <1>2, <2>2, OwnsFrame
<1>3. CASE v = w
  <2>1. current[w] = NoJob
    BY <1>1, <1>3 DEF Owns, Holds
  <2>2. \A j \in S : status'[j] = "in_progress" /\ lockedBy'[j] = w /\ age'[j] <= StuckLock
    BY DEF ClaimRows, Due
  <2> QED  BY <1>3, <2>1, <2>2 DEF Owns
<1> QED  BY <1>2, <1>3

\* The locks that expire under a worker are overdue from then on.
LEMMA OwnedTick == TypeOK /\ BatchOwned /\ Tick => BatchOwned'
<1> SUFFICES ASSUME TypeOK, BatchOwned, Tick, NEW v \in Workers PROVE Owns(v)'
  BY DEF BatchOwned
<1> USE DEF TypeOK, RowsOK
<1>1. Owns(v)
  BY DEF BatchOwned
<1>2. /\ UNCHANGED <<batch, current, pc, status, lockedBy>>
      /\ overdue' = overdue \cup Overruns
  BY DEF Tick
<1>3. ASSUME NEW j \in batch[v] \ overdue'
      PROVE  /\ status'[j] = "in_progress" /\ lockedBy'[j] = v
             /\ age'[j] <= StuckLock
  <2>1. j \in Jobs /\ j \in batch[v] \ overdue /\ j \notin Overruns
    BY <1>2, <1>3
  <2>2. status[j] = "in_progress" /\ lockedBy[j] = v /\ age[j] <= StuckLock
    BY <1>1, <2>1 DEF Owns
  <2>3. age[j] # StuckLock
    BY <2>1, <2>2 DEF Overruns, Holds
  <2>4. age[j] \in Nat /\ age'[j] = age[j] + 1
    BY <2>1, <2>2 DEF Tick
  <2> HIDE DEF TypeOK
  <2>5. age'[j] <= StuckLock
    BY <2>2, <2>3, <2>4
  <2> QED  BY <1>2, <2>2, <2>5
<1> QED  BY <1>1, <1>2, <1>3 DEF Owns, Holds

\* Each step keeps every batch owned: one case per action.
LEMMA OwnedStep ==
    TypeOK /\ BatchOwned /\ [Next]_vars => BatchOwned'
<1> SUFFICES ASSUME TypeOK, BatchOwned, [Next]_vars
             PROVE  BatchOwned'
  OBVIOUS
<1>a. \A v \in Workers : Owns(v)
  BY DEF BatchOwned
<1> USE DEF TypeOK, RowsOK, rows, work
\* Rows, batches and dispatches untouched.
<1>b. ASSUME NEW w \in Workers, UNCHANGED <<rows, work>>,
             pc[w] # "batch" \/ pc'[w] = pc[w],
             \A v \in Workers \ {w} : pc'[v] = pc[v]
      PROVE  BatchOwned'
  <2> SUFFICES ASSUME NEW v \in Workers PROVE Owns(v)'
    BY DEF BatchOwned
  <2>1. batch[v] # {} => pc'[v] = pc[v]
    BY <1>a, <1>b DEF Owns
  <2> QED  BY <1>a, <1>b, <2>1, OwnsFrame
<1>1. ASSUME NEW j \in Jobs, NEW d \in EnqueueDelays, Enqueue(j, d) PROVE BatchOwned'
  <2> SUFFICES ASSUME NEW v \in Workers PROVE Owns(v)'
    BY DEF BatchOwned
  <2>1. j \notin batch[v] \ overdue
    BY <1>a, <1>1 DEF Owns, Enqueue
  <2> QED  BY <1>a, <1>1, <2>1, OwnsFrame DEF Enqueue
<1>2. ASSUME NEW w \in Workers, WorkerStep(w) PROVE BatchOwned'
  <2>1. CASE StopAtTop(w)  BY <1>b, <2>1 DEF StopAtTop
  <2>2. CASE SkipReap(w)  BY <1>b, <2>2 DEF SkipReap
  <2>3. CASE Reap(w)
    <3> SUFFICES ASSUME NEW v \in Workers PROVE Owns(v)'
      BY DEF BatchOwned
    <3>1. \A j \in batch[v] \ overdue : j \in Jobs /\ ~Expired(j)
      BY NotExpired
    <3>2. \A j \in batch[v] \ overdue : /\ status'[j] = status[j]
                                        /\ lockedBy'[j] = lockedBy[j] /\ age'[j] = age[j]
      BY <2>3, <3>1 DEF Reap, ReapStuck
    <3>3. batch[v] # {} => pc'[v] = pc[v]
      <4>1. batch[v] # {} => pc[v] = "batch"
        BY <1>a DEF Owns
      <4>2. pc[w] = "top" /\ \A u \in Workers \ {w} : pc'[u] = pc[u]
        BY <2>3 DEF Reap
      <4> QED  BY <4>1, <4>2
    <3>4. batch' = batch /\ current' = current /\ overdue' = overdue
      BY <2>3 DEF Reap
    <3> QED  BY <1>a, <3>2, <3>3, <3>4, OwnsFrame
  <2>4. ASSUME NEW S \in SUBSET Due, Claim(w, S) PROVE BatchOwned'
    <3>1. batch[w] = {}
      BY <1>a, <2>4 DEF Owns, Claim
    <3>2. /\ ClaimRows(w, S)
          /\ batch' = [batch EXCEPT ![w] = S] /\ pc'[w] = "batch"
          /\ UNCHANGED <<current, overdue>>
          /\ \A v \in Workers \ {w} : pc'[v] = pc[v]
      BY <2>4 DEF Claim
    <3> QED  BY <3>1, <3>2, OwnedClaim
  <2>5. CASE ClaimNothing(w)  BY <1>b, <2>5 DEF ClaimNothing
  <2>6. CASE Poll(w)  BY <1>b, <2>6 DEF Poll
  <2>7. CASE StopWaiting(w)  BY <1>b, <2>7 DEF StopWaiting
  <2>8. ASSUME NEW j \in Jobs, Dispatch(w, j) PROVE BatchOwned'
    <3> SUFFICES ASSUME NEW v \in Workers PROVE Owns(v)'
      BY DEF BatchOwned
    <3>1. CASE v # w  BY <1>a, <2>8, <3>1, OwnsFrame DEF Dispatch
    <3>2. CASE v = w
      <4>1. current'[w] = j /\ j \in batch[w] /\ j # NoJob
        BY <2>8 DEF Dispatch
      <4>2. UNCHANGED <<rows, pc, batch, overdue>>
        BY <2>8 DEF Dispatch
      <4> QED  BY <1>a, <3>2, <4>1, <4>2 DEF Owns, Holds
    <3> QED  BY <3>1, <3>2
  <2>9. ASSUME NEW j \in Jobs, Release(w, j) PROVE BatchOwned'
    <3>1. j \in batch[w] /\ Settle(w, j)
      BY <2>9 DEF Release
    <3>2. \A k \in Jobs \ {j} : /\ status'[k] = status[k] /\ lockedBy'[k] = lockedBy[k]
                                /\ age'[k] = age[k]
      BY <2>9 DEF Release, FailRetry, Unlock
    <3> QED  BY <3>1, <3>2, OwnsSettle DEF BatchOwned
  <2>10. ASSUME NEW j \in Jobs, FinishOk(w, j) \/ FinishTerminal(w, j) \/ FinishRetry(w, j)
         PROVE BatchOwned'
    <3>1. current[w] = j /\ Settle(w, j)
      BY <2>10 DEF FinishOk, FinishTerminal, FinishRetry
    <3>2. j \in batch[w]
      BY <1>a, <3>1 DEF Owns, Holds
    <3>3. Complete(j) \/ FailDead(j) \/ FailRetry(j, got[w][j])
      BY <2>10 DEF FinishOk, FinishTerminal, FinishRetry
    <3>4. \A k \in Jobs \ {j} : /\ status'[k] = status[k] /\ lockedBy'[k] = lockedBy[k]
                                /\ age'[k] = age[k]
      BY <3>3 DEF Complete, FailDead, FailRetry, Unlock
    <3> QED  BY <3>1, <3>2, <3>4, OwnsSettle DEF BatchOwned
  <2> QED
    BY <1>2, <2>1, <2>2, <2>3, <2>4, <2>5, <2>6, <2>7, <2>8, <2>9, <2>10 DEF WorkerStep
<1>3. ASSUME NEW w \in Workers, Disrupt(w) PROVE BatchOwned'
  <2>1. CASE ReapFails(w)  BY <1>b, <2>1 DEF ReapFails
  <2>2. CASE Signal(w)  BY <1>b, <2>2 DEF Signal
  <2>3. CASE Crash(w)
    <3> SUFFICES ASSUME NEW v \in Workers PROVE Owns(v)'
      BY DEF BatchOwned
    <3>1. CASE v # w  BY <1>a, <2>3, <3>1, OwnsFrame, StillOverdue DEF Crash
    <3>2. CASE v = w  BY <2>3, <3>2, OwnsNothing DEF Crash
    <3> QED  BY <3>1, <3>2
  <2>4. ASSUME NEW S \in SUBSET Due, ClaimFails(w, S) PROVE BatchOwned'
    <3> SUFFICES ASSUME NEW v \in Workers PROVE Owns(v)'
      BY DEF BatchOwned
    <3>1. \A j \in batch[v] \ overdue : j \in Jobs /\ j \notin S
      BY <1>a DEF Owns, Due
    <3>2. \A j \in batch[v] \ overdue : /\ status'[j] = status[j]
                                        /\ lockedBy'[j] = lockedBy[j] /\ age'[j] = age[j]
      BY <2>4, <3>1 DEF ClaimFails, ClaimRows
    <3>3. batch[v] # {} => pc'[v] = pc[v]
      <4>1. batch[v] # {} => pc[v] = "batch"
        BY <1>a DEF Owns
      <4> QED  BY <2>4, <4>1 DEF ClaimFails
    <3>4. batch' = batch /\ current' = current /\ overdue' = overdue
      BY <2>4 DEF ClaimFails
    <3> QED  BY <1>a, <3>2, <3>3, <3>4, OwnsFrame
  <2>5. ASSUME NEW j \in Jobs, ReleaseFails(w, j) \/ FinishUnrecorded(w, j)
        PROVE  BatchOwned'
    <3>1. Settle(w, j) /\ UNCHANGED rows
      BY <2>5 DEF ReleaseFails, FinishUnrecorded
    <3>2. j \in batch[w]
      BY <1>a, <2>5 DEF Owns, Holds, ReleaseFails, FinishUnrecorded
    <3> QED  BY <3>1, <3>2, OwnsSettle DEF BatchOwned
  <2> QED  BY <1>3, <2>1, <2>2, <2>3, <2>4, <2>5 DEF Disrupt
<1>4. ASSUME NEW w \in Workers, Restart(w) PROVE BatchOwned'
  BY <1>4, <1>b DEF Restart, Up
<1>5. CASE Relay
  <2> SUFFICES ASSUME NEW v \in Workers PROVE Owns(v)'
    BY DEF BatchOwned
  <2>1. batch[v] # {} => pc'[v] = pc[v]
    BY <1>a, <1>5 DEF Owns, Relay
  <2> QED  BY <1>a, <1>5, <2>1, OwnsFrame DEF Relay
<1>6. CASE LoseNotify
  BY <1>a, <1>6, OwnsFrame DEF LoseNotify, BatchOwned
<1>7. CASE Tick  BY <1>7, OwnedTick
<1>8. CASE UNCHANGED vars
  BY <1>a, <1>8, OwnsFrame DEF vars, BatchOwned
<1> QED  BY <1>1, <1>2, <1>3, <1>4, <1>5, <1>6, <1>7, <1>8 DEF Next

LEMMA OwnedAlways == Spec => [](TypeOK /\ BatchOwned)
<1>1. Init => TypeOK /\ BatchOwned
  BY TypeInit, OwnedInit
<1>2. TypeOK /\ BatchOwned /\ [Next]_vars => (TypeOK /\ BatchOwned)'
  BY TypeStep, OwnedStep
<1> QED  BY <1>1, <1>2, PTL DEF Spec

\* A worker owns the row of every job it has claimed and not settled, and
\* reap_stuck finds none of these locks expired, but for the jobs whose lock has
\* expired under their worker: claim_batch gives a pending row to one worker, and
\* only reap_stuck takes it away again.
THEOREM BatchesOwned == Spec => []BatchOwned
<1> QED  BY OwnedAlways, PTL

\* A step of the queue changes no row that is completed or dead unless it is
\* overdue: settling hits only rows the worker owns, and these are in_progress.
LEMMA FinalStep ==
    ASSUME TypeOK, BatchOwned, [Next]_vars, NEW j \in Jobs \ overdue, status[j] \in Final
    PROVE  status'[j] = status[j]
<1> USE DEF TypeOK, RowsOK, rows, work
<1>a. \A w \in Workers : /\ j \notin batch[w]
                         /\ current[w] # NoJob => current[w] \in batch[w]
  BY DEF BatchOwned, Owns, Holds, Final
<1>b. j \notin Due /\ ~Expired(j) /\ status[j] # "absent"
  BY DEF Due, Expired, Final
<1>c. ASSUME NEW S \in SUBSET Due, NEW w \in Workers, ClaimRows(w, S)
      PROVE  status'[j] = status[j]
  BY <1>b, <1>c DEF ClaimRows
<1>1. ASSUME NEW k \in Jobs, NEW d \in EnqueueDelays, Enqueue(k, d)
      PROVE  status'[j] = status[j]
  BY <1>1, <1>b DEF Enqueue
<1>2. ASSUME NEW w \in Workers, WorkerStep(w) PROVE status'[j] = status[j]
  <2>1. CASE StopAtTop(w) \/ SkipReap(w) \/ ClaimNothing(w) \/ Poll(w) \/ StopWaiting(w)
    BY <2>1 DEF StopAtTop, SkipReap, ClaimNothing, Poll, StopWaiting
  <2>2. CASE Reap(w)  BY <2>2, <1>b DEF Reap, ReapStuck
  <2>3. ASSUME NEW S \in SUBSET Due, Claim(w, S) PROVE status'[j] = status[j]
    BY <2>3, <1>c DEF Claim
  <2>4. ASSUME NEW k \in Jobs, Dispatch(w, k) PROVE status'[j] = status[j]
    BY <2>4 DEF Dispatch
  <2>5. ASSUME NEW k \in Jobs,
               Release(w, k) \/ FinishOk(w, k) \/ FinishTerminal(w, k) \/ FinishRetry(w, k)
        PROVE  status'[j] = status[j]
    <3>1. k # j
      BY <2>5, <1>a DEF Release, FinishOk, FinishTerminal, FinishRetry
    <3>2. Complete(k) \/ FailDead(k) \/ FailRetry(k, got[w][k])
      BY <2>5 DEF Release, FinishOk, FinishTerminal, FinishRetry
    <3> QED  BY <3>1, <3>2 DEF Complete, FailDead, FailRetry
  <2> QED  BY <1>2, <2>1, <2>2, <2>3, <2>4, <2>5 DEF WorkerStep
<1>3. ASSUME NEW w \in Workers, Disrupt(w) PROVE status'[j] = status[j]
  <2>1. CASE ReapFails(w) \/ Signal(w) \/ Crash(w)
    BY <2>1 DEF ReapFails, Signal, Crash
  <2>2. ASSUME NEW S \in SUBSET Due, ClaimFails(w, S) PROVE status'[j] = status[j]
    BY <2>2, <1>c DEF ClaimFails
  <2>3. ASSUME NEW k \in Jobs, ReleaseFails(w, k) \/ FinishUnrecorded(w, k)
        PROVE  status'[j] = status[j]
    BY <2>3 DEF ReleaseFails, FinishUnrecorded
  <2> QED  BY <1>3, <2>1, <2>2, <2>3 DEF Disrupt
<1>4. CASE \/ \E w \in Workers : Restart(w)
           \/ Relay \/ LoseNotify \/ Tick \/ UNCHANGED vars
  BY <1>4 DEF Restart, Relay, LoseNotify, Tick, vars
<1> QED  BY <1>1, <1>2, <1>3, <1>4 DEF Next

\* The lifecycle of 005_jobs.sql ends in completed or dead, but for overdue jobs:
\* complete, fail_retry and fail_dead match on the id alone, and still hit no row
\* that another worker has reaped and done, unless the lock expired under a
\* worker that is alive.
THEOREM FinalStays == Spec => TerminalIsFinal
<1>1. TypeOK /\ BatchOwned /\ [Next]_vars
        => [\A j \in Jobs \ overdue : status[j] \in Final => status'[j] = status[j]]_vars
  BY FinalStep
<1> QED  BY <1>1, OwnedAlways, PTL DEF Spec, TerminalIsFinal

-----------------------------------------------------------------------------
(* The queue implements its contract.                                        *)

\* What a caller sees of the rows: the refinement mapping of Contract.
Seen == [j \in Jobs |-> IF status[j] \in Final THEN "settled"
                        ELSE IF status[j] = "absent" THEN "absent" ELSE "open"]

\* A step that settles no row, enqueues none, moves no dispatch and makes no job
\* late stutters.
LEMMA ContractStutter ==
    ASSUME TypeOK, current' = current, overdue' = overdue,
           \A j \in Jobs : status'[j] = status[j]
                           \/ {status[j], status'[j]} \subseteq {"pending", "in_progress"}
    PROVE  UNCHANGED Contract!vars
<1>1. \A j \in Jobs : Seen'[j] = Seen[j]
  BY DEF Seen, Final
<1>2. Seen' = Seen
  BY <1>1 DEF Seen
<1> QED  BY <1>2 DEF Contract!vars, Seen

\* A job recovers only when its last worker lets go of it.
LEMMA ContractRecover ==
    ASSUME TypeOK, TypeOK', BatchOwned', StillHeld
    PROVE  Contract!Recover
<1>1. overdue' \subseteq overdue /\ overdue \subseteq Jobs
  BY StillOverdue DEF TypeOK, RowsOK
<1>2. ASSUME NEW j \in overdue \ overdue', NEW w \in Workers, current'[w] = j PROVE FALSE
  <2>1. j \in batch'[w]
    BY <1>1, <1>2 DEF BatchOwned, Owns, Holds
  <2> QED  BY <1>2, <2>1, StillOverdue
<1> QED  BY <1>1, <1>2 DEF Contract!Recover

\* What a settled, reopened or untouched row looks like to a caller.
LEMMA SeenSettled ==
    ASSUME NEW j \in Jobs, \A k \in Jobs \ {j} : status'[k] = status[k], status'[j] \in Final
    PROVE  Seen' = [Seen EXCEPT ![j] = "settled"]
<1>1. \A k \in Jobs : Seen'[k] = IF k = j THEN "settled" ELSE Seen[k]
  BY DEF Seen
<1> QED  BY <1>1 DEF Seen

LEMMA SeenOpened ==
    ASSUME NEW j \in Jobs, \A k \in Jobs \ {j} : status'[k] = status[k],
           status'[j] \in {"pending", "in_progress"}
    PROVE  Seen' = [Seen EXCEPT ![j] = "open"]
<1>1. \A k \in Jobs : Seen'[k] = IF k = j THEN "open" ELSE Seen[k]
  BY DEF Seen, Final
<1> QED  BY <1>1 DEF Seen

LEMMA SeenSame ==
    ASSUME NEW j \in Jobs, \A k \in Jobs \ {j} : status'[k] = status[k],
           \/ status'[j] = status[j]
           \/ {status[j], status'[j]} \subseteq {"pending", "in_progress"}
    PROVE  Seen' = Seen
<1>1. \A k \in Jobs : Seen'[k] = Seen[k]
  BY DEF Seen, Final
<1> QED  BY <1>1 DEF Seen

\* A dispatch that ends, whatever becomes of the row: nobody else touches it,
\* unless it is late.
LEMMA ContractFinish ==
    ASSUME TypeOK, BatchOwned, NEW w \in Workers, NEW j \in Jobs,
           current[w] = j, Settle(w, j), Contract!Recover,
           \A k \in Jobs \ {j} : status'[k] = status[k],
           \/ status'[j] = status[j]
           \/ status'[j] \in {"pending", "completed", "dead"}
    PROVE  Contract!Settle(w) \/ Contract!Abandon(w)
<1>1. j # NoJob /\ (j \in overdue \/ status[j] = "in_progress")
  BY DEF BatchOwned, Owns, Holds
<1>2. current' = [current EXCEPT ![w] = NoJob]
  BY DEF Settle
<1>3. CASE status'[j] = status[j]
  <2>1. Seen' = Seen
    BY <1>3, SeenSame
  <2> QED  BY <1>1, <1>2, <2>1 DEF Contract!Abandon, Seen
<1>4. CASE status'[j] \in {"completed", "dead"}
  <2>1. Seen' = [Seen EXCEPT ![j] = "settled"]
    BY <1>4, SeenSettled DEF Final
  <2> QED  BY <1>1, <1>2, <2>1 DEF Contract!Settle, Seen
<1>5. CASE status'[j] = "pending" /\ j \in overdue
  <2>1. Seen' = [Seen EXCEPT ![j] = "open"]
    BY <1>5, SeenOpened
  <2> QED  BY <1>1, <1>2, <1>5, <2>1 DEF Contract!Abandon, Seen
<1>6. CASE status'[j] = "pending" /\ status[j] = "in_progress"
  <2>1. Seen' = Seen
    BY <1>6, SeenSame
  <2> QED  BY <1>1, <1>2, <2>1 DEF Contract!Abandon, Seen
<1> QED  BY <1>1, <1>3, <1>4, <1>5, <1>6

\* Letting go of a job that has not been begun changes no row or opens a late
\* one.
LEMMA ContractRelease ==
    ASSUME TypeOK, BatchOwned, NEW w \in Workers, NEW j \in batch[w], current' = current,
           Contract!Recover, status' = [status EXCEPT ![j] = "pending"]
    PROVE  Contract!Reopen(j) \/ Contract!LetGo
<1>1. j \in Jobs /\ \A k \in Jobs \ {j} : status'[k] = status[k]
  BY DEF TypeOK, RowsOK
<1>2. status'[j] = "pending" /\ (j \in overdue \/ status[j] = "in_progress")
  BY <1>1 DEF BatchOwned, Owns, TypeOK, RowsOK
<1>3. CASE j \in overdue
  <2>1. Seen' = [Seen EXCEPT ![j] = "open"]
    BY <1>1, <1>2, SeenOpened
  <2> QED  BY <1>3, <2>1 DEF Contract!Reopen, Seen
<1>4. CASE status[j] = "in_progress"
  <2>1. Seen' = Seen
    BY <1>1, <1>2, <1>4, SeenSame
  <2> QED  BY <2>1 DEF Contract!LetGo, Seen
<1> QED  BY <1>2, <1>3, <1>4

\* A lock that expires under a worker makes its job late.
LEMMA ContractTick ==
    ASSUME TypeOK, Tick
    PROVE  Contract!Overrun(Overruns)
<1>1. status' = status /\ current' = current /\ overdue' = overdue \cup Overruns
  BY DEF Tick
<1>2. \A j \in Overruns : j \in Jobs /\ status[j] = "in_progress"
  BY DEF Overruns, TypeOK, RowsOK
<1>3. Seen' = Seen /\ \A j \in Overruns : Seen[j] = "open"
  BY <1>1, <1>2 DEF Seen, Final
<1> QED  BY <1>1, <1>3 DEF Contract!Overrun, Seen

\* Each step of the queue is a step of the contract or a stutter.
LEMMA ContractStep ==
    ASSUME TypeOK, BatchOwned, TypeOK', BatchOwned', [Next]_vars
    PROVE  [Contract!Next]_(Contract!vars)
<1> USE DEF TypeOK, RowsOK, rows, work
<1>r. StillHeld => Contract!Recover
  BY ContractRecover
<1>1. ASSUME NEW j \in Jobs, NEW d \in EnqueueDelays, Enqueue(j, d)
      PROVE  Contract!Submit(j)
  <2>0. /\ status[j] = "absent" /\ status'[j] = "pending"
        /\ \A k \in Jobs \ {j} : status'[k] = status[k]
    BY <1>1 DEF Enqueue
  <2>1. Seen' = [Seen EXCEPT ![j] = "open"] /\ Seen[j] = "absent"
    BY <2>0, SeenOpened DEF Seen, Final
  <2> QED  BY <1>1, <2>1 DEF Contract!Submit, Enqueue, Seen
<1>2. ASSUME NEW w \in Workers, WorkerStep(w)
      PROVE  Contract!Next \/ UNCHANGED Contract!vars
  <2>1. CASE StopAtTop(w) \/ SkipReap(w) \/ ClaimNothing(w) \/ Poll(w) \/ StopWaiting(w)
    <3>1. current' = current /\ status' = status /\ overdue' = overdue
      BY <2>1 DEF StopAtTop, SkipReap, ClaimNothing, Poll, StopWaiting
    <3> QED  BY <3>1, ContractStutter
  <2>2. CASE Reap(w)
    <3>1. \A j \in Jobs : status'[j] = status[j]
                          \/ (status[j] = "in_progress" /\ status'[j] = "pending")
      BY <2>2 DEF Reap, ReapStuck, Expired
    <3>2. current' = current /\ overdue' = overdue
      BY <2>2 DEF Reap
    <3> QED  BY <3>1, <3>2, ContractStutter
  <2>3. ASSUME NEW S \in SUBSET Due, Claim(w, S) PROVE UNCHANGED Contract!vars
    <3>1. \A j \in Jobs : status'[j] = status[j]
                          \/ (status[j] = "pending" /\ status'[j] = "in_progress")
      BY <2>3 DEF Claim, ClaimRows, Due
    <3>2. current' = current /\ overdue' = overdue
      BY <2>3 DEF Claim
    <3> QED  BY <3>1, <3>2, ContractStutter
  <2>4. ASSUME NEW j \in Jobs, Dispatch(w, j) PROVE Contract!Start(w, j)
    <3>1. /\ current[w] = NoJob /\ current' = [current EXCEPT ![w] = j] /\ status' = status
          /\ overdue' = overdue /\ j \in batch[w]
      BY <2>4 DEF Dispatch
    <3>2. ASSUME j \notin overdue PROVE Seen[j] = "open" /\ \A v \in Workers : current[v] # j
      <4>1. status[j] = "in_progress"
        BY <3>1, <3>2 DEF BatchOwned, Owns
      <4>2. ASSUME NEW v \in Workers, current[v] = j PROVE FALSE
        <5>1. j \in batch[v]
          BY <4>2 DEF BatchOwned, Owns, Holds
        <5>2. v = w
          BY <3>1, <3>2, <5>1, OneHolder
        <5> QED  BY <3>1, <4>2, <5>2
      <4> QED  BY <4>1, <4>2 DEF Seen, Final
    <3>3. Seen' = Seen /\ Seen[j] # "absent"
      <4>1. status[j] # "absent"
        BY <3>1 DEF BatchOwned, Owns
      <4> QED  BY <3>1, <4>1 DEF Seen, Final
    <3> QED  BY <3>1, <3>2, <3>3 DEF Contract!Start, Seen
  <2>5. ASSUME NEW j \in Jobs, Release(w, j) PROVE Contract!Reopen(j) \/ Contract!LetGo
    <3>1. j \in batch[w] /\ StillHeld /\ status' = [status EXCEPT ![j] = "pending"]
      BY <2>5 DEF Release, Settle, FailRetry
    <3>2. current' = current
      BY <2>5 DEF Release, Settle
    <3> QED  BY <1>r, <3>1, <3>2, ContractRelease
  <2>6. ASSUME NEW j \in Jobs, FinishOk(w, j) \/ FinishTerminal(w, j) \/ FinishRetry(w, j)
        PROVE  Contract!Settle(w) \/ Contract!Abandon(w)
    <3>1. current[w] = j /\ Settle(w, j)
      BY <2>6 DEF FinishOk, FinishTerminal, FinishRetry
    <3>2. Complete(j) \/ FailDead(j) \/ FailRetry(j, got[w][j])
      BY <2>6 DEF FinishOk, FinishTerminal, FinishRetry
    <3>3. /\ \A k \in Jobs \ {j} : status'[k] = status[k]
          /\ status'[j] \in {"completed", "dead", "pending"}
      BY <3>2 DEF Complete, FailDead, FailRetry
    <3>4. Contract!Recover
      BY <1>r, <3>1 DEF Settle
    <3> QED  BY <3>1, <3>3, <3>4, ContractFinish
  <2> QED
    BY <1>2, <2>1, <2>2, <2>3, <2>4, <2>5, <2>6 DEF WorkerStep, Contract!Next
<1>3. ASSUME NEW w \in Workers, Disrupt(w)
      PROVE  Contract!Next \/ UNCHANGED Contract!vars
  <2>1. CASE ReapFails(w) \/ Signal(w)
    <3>1. current' = current /\ status' = status /\ overdue' = overdue
      BY <2>1 DEF ReapFails, Signal
    <3> QED  BY <3>1, ContractStutter
  <2>2. CASE Crash(w)
    <3>1. status' = status /\ current' = [current EXCEPT ![w] = NoJob] /\ Contract!Recover
      BY <2>2, <1>r DEF Crash
    <3>2. CASE current[w] = NoJob
      <4>1. current' = current
        BY <3>1, <3>2
      <4> QED  BY <3>1, <4>1 DEF Contract!LetGo, Contract!Next
    <3>3. CASE current[w] # NoJob
      BY <3>1, <3>3 DEF Contract!Abandon, Contract!Next
    <3> QED  BY <3>2, <3>3
  <2>3. ASSUME NEW S \in SUBSET Due, ClaimFails(w, S) PROVE UNCHANGED Contract!vars
    <3>1. \A j \in Jobs : status'[j] = status[j]
                          \/ (status[j] = "pending" /\ status'[j] = "in_progress")
      BY <2>3 DEF ClaimFails, ClaimRows, Due
    <3>2. current' = current /\ overdue' = overdue
      BY <2>3 DEF ClaimFails
    <3> QED  BY <3>1, <3>2, ContractStutter
  <2>4. ASSUME NEW j \in Jobs, ReleaseFails(w, j) PROVE Contract!LetGo
    <3>1. current' = current /\ status' = status /\ StillHeld
      BY <2>4 DEF ReleaseFails, Settle
    <3> QED  BY <1>r, <3>1 DEF Contract!LetGo
  <2>5. ASSUME NEW j \in Jobs, FinishUnrecorded(w, j) PROVE Contract!Abandon(w)
    <3>1. current[w] = j /\ Settle(w, j) /\ status' = status
      BY <2>5 DEF FinishUnrecorded
    <3>2. /\ current[w] # NoJob /\ current' = [current EXCEPT ![w] = NoJob]
          /\ Contract!Recover
      BY <1>r, <3>1 DEF Settle
    <3> QED  BY <3>1, <3>2 DEF Contract!Abandon
  <2> QED  BY <1>3, <2>1, <2>2, <2>3, <2>4, <2>5 DEF Disrupt, Contract!Next
<1>4. CASE Tick
  <2>1. Overruns \in SUBSET Jobs
    BY DEF Overruns
  <2> QED  BY <1>4, <2>1, ContractTick DEF Contract!Next
<1>5. CASE (\E w \in Workers : Restart(w)) \/ Relay \/ LoseNotify \/ UNCHANGED vars
  <2>1. current' = current /\ status' = status /\ overdue' = overdue
    BY <1>5 DEF Restart, Relay, LoseNotify, vars
  <2> QED  BY <2>1, ContractStutter
<1> QED  BY <1>1, <1>2, <1>3, <1>4, <1>5 DEF Next, Contract!Next

\* The queue implements JobContract, for any number of jobs, workers, crashes,
\* signals, lost writes and lost notifications and whatever STUCK_LOCK_SECS is:
\* a job has one runner at a time and nobody but the runner settles it, unless
\* its lock expires under a worker that is alive.
THEOREM KeepsContract == Spec => ImplementsContract
<1>1. Init => Contract!Init
  BY DEF Init, Contract!Init, Final
<1>2. TypeOK /\ BatchOwned /\ TypeOK' /\ BatchOwned' /\ [Next]_vars
        => [Contract!Next]_(Contract!vars)
  BY ContractStep
<1> QED  BY <1>1, <1>2, OwnedAlways, PTL DEF Spec, ImplementsContract, Contract!Spec

-----------------------------------------------------------------------------
(* The attempts a job has used up.                                           *)

\* The workers that have a shutdown message they have not read: each may still
\* give one job back with an attempt spent on nothing.
Sent == {w \in Workers : signal[w] = "sent"}

\* How much of the trouble so far may already have cost an attempt.
Credit == disrupted - Cardinality(Sent)

CreditOK == IsFiniteSet(Sent) /\ Credit \in Nat

\* The worker that has locked the row is alive and in time.
Minded(j) == \E w \in Workers : Holds(w, j) /\ lockedBy[j] = w /\ age[j] <= StuckLock

\* One more claim of the row needs no worker to give it back first.
Loose(j) == IF status[j] \in Final \/ Minded(j) THEN 0 ELSE 1

\* The copies of attempts with which a worker may still give the row back: those
\* not handed out, and those that a worker has.
Open(j) == {c \in 1 .. (MaxAttempts - 1) :
               c > attempts[j] \/ \E w \in Workers : Holds(w, j) /\ got[w][j] = c}

\* The inductive form of AttemptsAccounted.  A copy of attempts is handed out
\* once, and gives the row back at most once without trouble.
Accounted(j) ==
    /\ attempts[j] + Loose(j) + Cardinality(Open(j)) <= MaxAttempts + Credit
    /\ \A w \in Workers : Holds(w, j) => got[w][j] \in 1 .. attempts[j]
    /\ \A v, w \in Workers :
          Holds(v, j) /\ Holds(w, j) /\ got[v][j] = got[w][j] => v = w

Ledger == CreditOK /\ \A j \in Jobs : Accounted(j)

LEMMA CreditGrows ==
    ASSUME TypeOK, CreditOK, Sent' \subseteq Sent,
           disrupted' \in {disrupted, disrupted + 1}
    PROVE  /\ CreditOK'
           /\ Credit' >= Credit
           /\ disrupted' = disrupted + 1 => Credit' >= Credit + 1
           /\ Sent' # Sent => Credit' >= Credit + 1
<1>1. IsFiniteSet(Sent') /\ Cardinality(Sent') \in Nat /\ Cardinality(Sent) \in Nat
  BY FS_Subset, FS_CardinalityType DEF CreditOK
<1>2. /\ Cardinality(Sent') <= Cardinality(Sent)
      /\ Sent' # Sent => Cardinality(Sent') < Cardinality(Sent)
  BY <1>1, FS_Subset DEF CreditOK
<1>3. disrupted \in Nat /\ disrupted - Cardinality(Sent) \in Nat
  BY DEF TypeOK, CreditOK, Credit
<1> HIDE DEF Sent
<1> QED  BY <1>1, <1>2, <1>3 DEF CreditOK, Credit

\* The message that may cost an attempt later is itself the trouble.
LEMMA CreditSignal ==
    ASSUME TypeOK, CreditOK, NEW w \in Workers, Signal(w)
    PROVE  CreditOK' /\ Credit' = Credit
<1>1. w \notin Sent /\ Sent' = Sent \cup {w}
  BY DEF Signal, Sent, TypeOK
<1>2. /\ IsFiniteSet(Sent') /\ Cardinality(Sent) \in Nat
      /\ Cardinality(Sent') = Cardinality(Sent) + 1
  BY <1>1, FS_AddElement, FS_CardinalityType DEF CreditOK
<1>3. disrupted' = disrupted + 1 /\ disrupted \in Nat /\ disrupted - Cardinality(Sent) \in Nat
  BY DEF Signal, Trouble, TypeOK, CreditOK, Credit
<1> HIDE DEF Sent
<1> QED  BY <1>2, <1>3 DEF CreditOK, Credit

LEMMA OpenFinite ==
    ASSUME NEW j \in Jobs
    PROVE  /\ IsFiniteSet(Open(j)) /\ Cardinality(Open(j)) \in Nat
           /\ IsFiniteSet(Open(j)') /\ Cardinality(Open(j)') \in Nat
<1>1. IsFiniteSet(1 .. (MaxAttempts - 1))
  BY FS_Interval
<1>2. Open(j) \subseteq 1 .. (MaxAttempts - 1) /\ Open(j)' \subseteq 1 .. (MaxAttempts - 1)
  BY DEF Open
<1> QED  BY <1>1, <1>2, FS_Subset, FS_CardinalityType

\* A copy that is used up is not open any more.
LEMMA OpenShrinks ==
    ASSUME NEW j \in Jobs, Open(j)' \subseteq Open(j)
    PROVE  /\ Cardinality(Open(j)') <= Cardinality(Open(j))
           /\ \A c \in Open(j) : c \notin Open(j)'
                 => Cardinality(Open(j)') + 1 <= Cardinality(Open(j))
<1>1. Cardinality(Open(j)') <= Cardinality(Open(j))
  BY OpenFinite, FS_Subset
<1>2. ASSUME NEW c \in Open(j), c \notin Open(j)'
      PROVE  Cardinality(Open(j)') + 1 <= Cardinality(Open(j))
  <2>1. Open(j)' # Open(j)
    BY <1>2
  <2>2. Cardinality(Open(j)') < Cardinality(Open(j))
    BY <2>1, OpenFinite, FS_Subset
  <2> HIDE DEF Open
  <2> QED  BY <2>2, OpenFinite
<1> QED  BY <1>1, <1>2

\* A job that is not claimed: it becomes loose only by new trouble or for a copy
\* that is used up.
LEMMA AccountedFrame ==
    ASSUME TypeOK, CreditOK, CreditOK', NEW j \in Jobs, Accounted(j),
           Credit' >= Credit, attempts'[j] = attempts[j],
           \A w \in Workers : Holds(w, j)' => Holds(w, j) /\ got'[w][j] = got[w][j],
           \/ Credit' >= Credit + 1
           \/ Loose(j)' <= Loose(j)
           \/ \E c \in Open(j) : c \notin Open(j)'
    PROVE  Accounted(j)'
<1>1. Open(j)' \subseteq Open(j)
  BY DEF Open
<1>2. /\ Cardinality(Open(j)') <= Cardinality(Open(j))
      /\ (\E c \in Open(j) : c \notin Open(j)')
            => Cardinality(Open(j)') + 1 <= Cardinality(Open(j))
  BY <1>1, OpenShrinks
<1>3. Loose(j) \in {0, 1} /\ Loose(j)' \in {0, 1}
  BY DEF Loose
<1>4. /\ attempts[j] \in Nat /\ Credit \in Nat /\ Credit' \in Nat
      /\ Cardinality(Open(j)) \in Nat /\ Cardinality(Open(j)') \in Nat
  BY OpenFinite DEF TypeOK, RowsOK, CreditOK
<1>5. attempts[j] + Loose(j) + Cardinality(Open(j)) <= MaxAttempts + Credit
  BY DEF Accounted
<1>6. attempts'[j] + Loose(j)' + Cardinality(Open(j)') <= MaxAttempts + Credit'
  <2> HIDE DEF Loose, Open, Credit
  <2>1. CASE Credit' >= Credit + 1
    BY <1>2, <1>3, <1>4, <1>5, <2>1
  <2>2. CASE Loose(j)' <= Loose(j)
    BY <1>2, <1>3, <1>4, <1>5, <2>2
  <2>3. CASE Cardinality(Open(j)') + 1 <= Cardinality(Open(j))
    BY <1>3, <1>4, <1>5, <2>3
  <2> QED  BY <1>2, <2>1, <2>2, <2>3
<1>7. \A w \in Workers : Holds(w, j)' => got'[w][j] \in 1 .. attempts'[j]
  BY DEF Accounted
<1>8. \A v, w \in Workers :
         Holds(v, j)' /\ Holds(w, j)' /\ got'[v][j] = got'[w][j] => v = w
  BY DEF Accounted
<1> HIDE DEF Loose, Open, Credit, Holds
<1> QED  BY <1>6, <1>7, <1>8 DEF Accounted

\* A job that nothing happens to.
LEMMA AccountedSame ==
    ASSUME TypeOK, CreditOK, CreditOK', NEW j \in Jobs, Accounted(j), Credit' >= Credit,
           UNCHANGED <<status[j], attempts[j], lockedBy[j], age[j]>>,
           \A w \in Workers : Holds(w, j)' = Holds(w, j)
                              /\ (Holds(w, j) => got'[w][j] = got[w][j])
    PROVE  Accounted(j)'
<1>1. Minded(j)' = Minded(j)
  BY DEF Minded
<1>2. Loose(j)' = Loose(j) /\ Loose(j) \in {0, 1}
  BY <1>1 DEF Loose
<1>3. Loose(j)' <= Loose(j)
  BY <1>2
<1> HIDE DEF Holds, Loose
<1> QED  BY <1>3, AccountedFrame

LEMMA LedgerInit == Init => Ledger
<1> SUFFICES ASSUME Init PROVE Ledger
  OBVIOUS
<1>1. Sent = {}
  BY DEF Init, Sent
<1>2. IsFiniteSet(Sent) /\ Credit = 0
  BY <1>1, FS_EmptySet DEF Init, Credit
<1>3. ASSUME NEW j \in Jobs PROVE Accounted(j)
  <2>1. attempts[j] = 0 /\ \A w \in Workers : ~Holds(w, j)
    BY DEF Init, Holds
  <2>2. Open(j) = 1 .. (MaxAttempts - 1)
    BY <2>1 DEF Open
  <2>3. Cardinality(Open(j)) = MaxAttempts - 1
    BY <2>2, FS_Interval
  <2>4. Loose(j) \in {0, 1}
    BY DEF Loose
  <2> HIDE DEF Credit, Open, Loose
  <2> QED  BY <1>2, <2>1, <2>3, <2>4 DEF Accounted
<1> QED  BY <1>2, <1>3 DEF Ledger, CreditOK

\* A claimed row uses up its own looseness, and the new copy was not handed out
\* before.
LEMMA ClaimedRow ==
    ASSUME TypeOK, CreditOK, CreditOK', NEW w \in Workers, NEW S \in SUBSET Due,
           NEW j \in S, Accounted(j), ClaimRows(w, S), Credit' >= Credit, batch[w] = {},
           batch' = [batch EXCEPT ![w] = S],
           got' = [got EXCEPT ![w] = [k \in Jobs |-> IF k \in S THEN attempts[k] + 1 ELSE 0]]
    PROVE  Accounted(j)'
<1>1. /\ j \in Jobs /\ status[j] = "pending" /\ lockedBy[j] = NoWorker
      /\ attempts[j] \in Nat /\ attempts'[j] = attempts[j] + 1
      /\ lockedBy'[j] = w /\ age'[j] = 0
  BY DEF Due, ClaimRows, TypeOK, RowsOK
<1>2. /\ Holds(w, j)' /\ got'[w][j] = attempts[j] + 1 /\ ~Holds(w, j)
      /\ \A v \in Workers \ {w} : Holds(v, j)' = Holds(v, j) /\ got'[v][j] = got[v][j]
  BY <1>1 DEF Holds, TypeOK
<1>3. Loose(j) = 1 /\ Loose(j)' = 0
  <2>1. ~Minded(j)
    BY <1>1 DEF Minded
  <2>2. Minded(j)'
    BY <1>1, <1>2 DEF Minded
  <2> QED  BY <1>1, <2>1, <2>2 DEF Loose, Final
<1>a. \A v \in Workers : Holds(v, j) => got[v][j] \in 1 .. attempts[j]
  BY DEF Accounted
<1>4. Open(j)' \subseteq Open(j)
  <2> SUFFICES ASSUME NEW c \in Open(j)' PROVE c \in Open(j)
    OBVIOUS
  <2>1. c \in 1 .. (MaxAttempts - 1)
    BY DEF Open
  <2>2. CASE c > attempts'[j]
    BY <1>1, <2>1, <2>2 DEF Open
  <2>3. CASE \E v \in Workers : Holds(v, j)' /\ got'[v][j] = c
    <3>1. PICK v \in Workers : Holds(v, j)' /\ got'[v][j] = c
      BY <2>3
    <3>2. CASE v = w
      <4>1. c > attempts[j]
        BY <1>1, <1>2, <3>1, <3>2
      <4> QED  BY <2>1, <4>1 DEF Open
    <3>3. CASE v # w
      BY <1>2, <2>1, <3>1, <3>3 DEF Open
    <3> QED  BY <3>2, <3>3
  <2> QED  BY <2>2, <2>3 DEF Open
<1>5. attempts'[j] + Loose(j)' + Cardinality(Open(j)') <= MaxAttempts + Credit'
  <2>1. /\ Cardinality(Open(j)') <= Cardinality(Open(j))
        /\ Cardinality(Open(j)) \in Nat /\ Cardinality(Open(j)') \in Nat
        /\ Credit \in Nat /\ Credit' \in Nat
    BY <1>1, <1>4, OpenShrinks, OpenFinite DEF CreditOK
  <2>2. attempts[j] + Loose(j) + Cardinality(Open(j)) <= MaxAttempts + Credit
    BY DEF Accounted
  <2> HIDE DEF Loose, Open, Credit
  <2> QED  BY <1>1, <1>3, <2>1, <2>2
<1>6. \A v \in Workers : Holds(v, j)' => got'[v][j] \in 1 .. attempts'[j]
  <2> SUFFICES ASSUME NEW v \in Workers, Holds(v, j)' PROVE got'[v][j] \in 1 .. attempts'[j]
    OBVIOUS
  <2>1. CASE v = w  BY <1>1, <1>2, <2>1
  <2>2. CASE v # w
    <3>1. got'[v][j] = got[v][j] /\ got[v][j] \in 1 .. attempts[j]
      BY <1>2, <1>a, <2>2
    <3> QED  BY <1>1, <3>1
  <2> QED  BY <2>1, <2>2
<1>7. ASSUME NEW u \in Workers, NEW v \in Workers,
             Holds(u, j)', Holds(v, j)', got'[u][j] = got'[v][j]
      PROVE  u = v
  <2>1. \A x \in Workers \ {w} : Holds(x, j)' => got'[x][j] # attempts[j] + 1
    <3> SUFFICES ASSUME NEW x \in Workers \ {w}, Holds(x, j)'
                 PROVE  got'[x][j] # attempts[j] + 1
      OBVIOUS
    <3>1. got'[x][j] \in 1 .. attempts[j]
      BY <1>2, <1>a
    <3> QED  BY <1>1, <3>1
  <2>2. CASE u = w \/ v = w
    BY <1>2, <1>7, <2>1, <2>2
  <2>3. CASE u # w /\ v # w
    BY <1>2, <1>7, <2>3 DEF Accounted
  <2> QED  BY <2>2, <2>3
<1> HIDE DEF Loose, Open, Credit, Holds
<1> QED  BY <1>5, <1>6, <1>7 DEF Accounted

\* A row claimed in vain: the attempt is what the trouble cost.
LEMMA LostRow ==
    ASSUME TypeOK, CreditOK, CreditOK', NEW w \in Workers, NEW S \in SUBSET Due,
           NEW j \in S, Accounted(j), ClaimRows(w, S), Credit' >= Credit + 1,
           UNCHANGED <<batch, got>>
    PROVE  Accounted(j)'
<1>1. /\ j \in Jobs /\ attempts[j] \in Nat /\ attempts'[j] = attempts[j] + 1
      /\ status[j] = "pending" /\ lockedBy[j] = NoWorker
  BY DEF Due, ClaimRows, TypeOK, RowsOK
<1>2. \A v \in Workers : Holds(v, j)' = Holds(v, j)
  BY DEF Holds
<1>3. Loose(j) = 1 /\ Loose(j)' \in {0, 1}
  BY <1>1 DEF Loose, Minded, Final
<1>4. Open(j)' \subseteq Open(j)
  BY <1>1, <1>2 DEF Open
<1>5. attempts'[j] + Loose(j)' + Cardinality(Open(j)') <= MaxAttempts + Credit'
  <2>1. /\ Cardinality(Open(j)') <= Cardinality(Open(j))
        /\ Cardinality(Open(j)) \in Nat /\ Cardinality(Open(j)') \in Nat
        /\ Credit \in Nat /\ Credit' \in Nat
    BY <1>1, <1>4, OpenShrinks, OpenFinite DEF CreditOK
  <2>2. attempts[j] + Loose(j) + Cardinality(Open(j)) <= MaxAttempts + Credit
    BY DEF Accounted
  <2> HIDE DEF Loose, Open, Credit
  <2> QED  BY <1>1, <1>3, <2>1, <2>2
<1>6. \A v \in Workers : Holds(v, j)' => got'[v][j] \in 1 .. attempts'[j]
  <2> SUFFICES ASSUME NEW v \in Workers, Holds(v, j)' PROVE got'[v][j] \in 1 .. attempts'[j]
    OBVIOUS
  <2>1. got'[v][j] = got[v][j] /\ got[v][j] \in 1 .. attempts[j]
    BY <1>2 DEF Accounted
  <2> QED  BY <1>1, <2>1
<1>7. \A u, v \in Workers :
         Holds(u, j)' /\ Holds(v, j)' /\ got'[u][j] = got'[v][j] => u = v
  BY <1>2 DEF Accounted
<1> HIDE DEF Loose, Open, Credit, Holds
<1> QED  BY <1>5, <1>6, <1>7 DEF Accounted

\* A batch is claimed, or is claimed in vain.
LEMMA LedgerClaim ==
    ASSUME TypeOK, Ledger, NEW w \in Workers, NEW S \in SUBSET Due,
           ClaimRows(w, S), CreditOK', Credit' >= Credit,
           \/ /\ batch[w] = {} /\ batch' = [batch EXCEPT ![w] = S]
              /\ got' = [got EXCEPT ![w] = [j \in Jobs |-> IF j \in S THEN attempts[j] + 1 ELSE 0]]
           \/ UNCHANGED <<batch, got>> /\ Credit' >= Credit + 1
    PROVE  Ledger'
<1> SUFFICES ASSUME NEW j \in Jobs PROVE Accounted(j)'
  BY DEF Ledger
<1>a. Accounted(j) /\ CreditOK
  BY DEF Ledger
<1>1. CASE j \in S
  BY <1>a, <1>1, ClaimedRow, LostRow
<1>2. CASE j \notin S
  <2>1. UNCHANGED <<status[j], attempts[j], lockedBy[j], age[j]>>
    BY <1>2 DEF ClaimRows
  <2>2. \A v \in Workers : Holds(v, j)' = Holds(v, j)
                           /\ (Holds(v, j) => got'[v][j] = got[v][j])
    BY <1>2 DEF Holds, TypeOK
  <2> QED  BY <1>a, <2>1, <2>2, AccountedSame
<1> QED  BY <1>1, <1>2

\* The worker settles job j: it is over, or it gives the row back for a copy that
\* had attempts left, or this is what an earlier or the present trouble cost.
LEMMA LedgerSettle ==
    ASSUME TypeOK, Ledger, NEW w \in Workers, NEW j \in Jobs, Settle(w, j),
           CreditOK', Credit' >= Credit, attempts' = attempts,
           \A k \in Jobs \ {j} : UNCHANGED <<status[k], lockedBy[k], age[k]>>,
           \/ Credit' >= Credit + 1
           \/ status'[j] \in Final
           \/ Holds(w, j) /\ got[w][j] < MaxAttempts
    PROVE  Ledger'
<1> SUFFICES ASSUME NEW k \in Jobs PROVE Accounted(k)'
  BY DEF Ledger
<1>a. Accounted(k) /\ CreditOK
  BY DEF Ledger
<1>1. batch' = [batch EXCEPT ![w] = batch[w] \ {j}] /\ got' = [got EXCEPT ![w][j] = 0]
  BY DEF Settle
<1>2. \A v \in Workers : Holds(v, k)' => Holds(v, k) /\ got'[v][k] = got[v][k]
  <2> SUFFICES ASSUME NEW v \in Workers, Holds(v, k)'
               PROVE  Holds(v, k) /\ got'[v][k] = got[v][k]
    OBVIOUS
  <2>1. CASE v = w
    <3>1. k \in batch[v] /\ k # j
      BY <1>1, <2>1 DEF Holds, TypeOK
    <3>2. got'[w] = [got[w] EXCEPT ![j] = 0]
      BY <1>1 DEF TypeOK
    <3> QED  BY <2>1, <3>1, <3>2 DEF Holds, TypeOK
  <2>2. CASE v # w
    BY <1>1, <2>2 DEF Holds, TypeOK
  <2> QED  BY <2>1, <2>2
<1>3. CASE k # j
  <2>1. \A v \in Workers : Holds(v, k)' = Holds(v, k)
    BY <1>1, <1>3 DEF Holds, TypeOK
  <2>2. UNCHANGED <<status[k], attempts[k], lockedBy[k], age[k]>>
    BY <1>3
  <2> QED  BY <1>a, <1>2, <2>1, <2>2, AccountedSame
<1>4. CASE k = j /\ Credit' >= Credit + 1
  BY <1>a, <1>2, <1>4, AccountedFrame
<1>5. CASE k = j /\ status'[j] \in Final
  <2>1. Loose(k)' = 0 /\ Loose(k) \in {0, 1}
    BY <1>5 DEF Loose
  <2>2. Loose(k)' <= Loose(k)
    BY <2>1
  <2> HIDE DEF Loose
  <2> QED  BY <1>a, <1>2, <2>2, AccountedFrame
<1>6. CASE k = j /\ Holds(w, j) /\ got[w][j] < MaxAttempts
  <2> DEFINE c == got[w][j]
  <2>1. c \in 1 .. attempts[j] /\ attempts[j] \in Nat
    BY <1>a, <1>6 DEF Accounted, TypeOK, RowsOK
  <2>2. c \in Open(j)
    BY <1>6, <2>1 DEF Open
  <2>3. c \notin Open(j)'
    <3> SUFFICES ASSUME c \in Open(j)' PROVE FALSE
      OBVIOUS
    <3>1. ~(c > attempts'[j])
      BY <2>1
    <3>2. PICK v \in Workers : Holds(v, j)' /\ got'[v][j] = c
      BY <3>1 DEF Open
    <3>3. Holds(v, j) /\ got[v][j] = c
      BY <1>2, <1>6, <3>2
    <3>4. v = w
      BY <1>a, <1>6, <3>3 DEF Accounted
    <3> QED  BY <1>1, <3>2, <3>4 DEF Holds, TypeOK
  <2> HIDE DEF c
  <2>4. \E d \in Open(j) : d \notin Open(j)'
    BY <2>2, <2>3
  <2> QED  BY <1>a, <1>2, <1>6, <2>4, AccountedFrame
<1> QED  BY <1>3, <1>4, <1>5, <1>6

\* reap_stuck touches only rows that nobody minds.
LEMMA LedgerReap ==
    ASSUME TypeOK, Ledger, ReapStuck, UNCHANGED work, CreditOK', Credit' >= Credit
    PROVE  Ledger'
<1> SUFFICES ASSUME NEW j \in Jobs PROVE Accounted(j)'
  BY DEF Ledger
<1>a. Accounted(j) /\ CreditOK
  BY DEF Ledger
<1>1. UNCHANGED <<batch, got, attempts>>
  BY DEF work, ReapStuck
<1>2. \A w \in Workers : Holds(w, j)' = Holds(w, j)
  BY <1>1 DEF Holds
<1>3. CASE Expired(j)
  <2>1. status[j] = "in_progress" /\ ~(age[j] <= StuckLock)
    BY <1>3 DEF Expired, TypeOK, RowsOK
  <2>2. Loose(j) = 1 /\ Loose(j)' \in {0, 1}
    BY <2>1 DEF Loose, Minded, Final
  <2>3. Loose(j)' <= Loose(j)
    BY <2>2
  <2> HIDE DEF Loose
  <2> QED  BY <1>a, <1>1, <1>2, <2>3, AccountedFrame
<1>4. CASE ~Expired(j)
  <2>1. UNCHANGED <<status[j], attempts[j], lockedBy[j], age[j]>>
    BY <1>1, <1>4 DEF ReapStuck
  <2> QED  BY <1>a, <1>1, <1>2, <2>1, AccountedSame
<1> QED  BY <1>3, <1>4

\* Time passes: a worker stops minding a row only when its lock expires, which is
\* trouble.
LEMMA LedgerTick ==
    ASSUME TypeOK, Ledger, Tick, CreditOK', Credit' >= Credit,
           Overruns # {} => Credit' >= Credit + 1
    PROVE  Ledger'
<1> SUFFICES ASSUME NEW j \in Jobs PROVE Accounted(j)'
  BY DEF Ledger
<1>a. Accounted(j) /\ CreditOK
  BY DEF Ledger
<1>1. UNCHANGED <<batch, got, attempts, status, lockedBy>>
  BY DEF Tick
<1>2. \A w \in Workers : Holds(w, j)' = Holds(w, j)
  BY <1>1 DEF Holds
<1>3. CASE Overruns # {}
  BY <1>3, <1>a, <1>1, <1>2, AccountedFrame
<1>4. CASE Overruns = {}
  <2>1. Minded(j) => Minded(j)'
    <3> SUFFICES ASSUME NEW w \in Workers, Holds(w, j), lockedBy[j] = w, age[j] <= StuckLock
                 PROVE  Minded(j)'
      BY DEF Minded
    <3>1. age[j] # StuckLock /\ age[j] \in Nat
      BY <1>4 DEF Overruns, TypeOK, RowsOK
    <3>2. age'[j] = age[j] \/ age'[j] = age[j] + 1
      BY DEF Tick
    <3>3. age'[j] <= StuckLock
      BY <3>1, <3>2
    <3> QED  BY <1>1, <1>2, <3>3 DEF Minded
  <2>2. Loose(j) \in {0, 1} /\ Loose(j)' \in {0, 1} /\ (Loose(j) = 0 => Loose(j)' = 0)
    BY <1>1, <2>1 DEF Loose
  <2>3. Loose(j)' <= Loose(j)
    BY <2>2
  <2> HIDE DEF Loose
  <2> QED  BY <1>a, <1>1, <1>2, <2>3, AccountedFrame
<1> QED  BY <1>3, <1>4

\* Every step keeps the account: one case per action.
LEMMA LedgerStep == TypeOK /\ BatchOwned /\ Ledger /\ [Next]_vars => Ledger'
<1> SUFFICES ASSUME TypeOK, BatchOwned, Ledger, [Next]_vars PROVE Ledger'
  OBVIOUS
<1>c. CreditOK /\ \A j \in Jobs : Accounted(j)
  BY DEF Ledger
<1>s. /\ UNCHANGED signal => Sent' = Sent
      /\ \A w \in Workers : signal' = [signal EXCEPT ![w] = "seen"] => Sent' \subseteq Sent
      /\ \A w \in Workers : signal' = [signal EXCEPT ![w] = "none"] => Sent' \subseteq Sent
      /\ \A w \in Workers : signal[w] = "sent" /\ signal' = [signal EXCEPT ![w] = "seen"]
                            => Sent' # Sent
  BY DEF Sent, TypeOK
\* Nothing is claimed or settled.
<1>f. ASSUME CreditOK', Credit' >= Credit, UNCHANGED <<attempts, lockedBy, age, batch, got>>,
             \A j \in Jobs : status'[j] = status[j]
      PROVE  Ledger'
  <2> SUFFICES ASSUME NEW j \in Jobs PROVE Accounted(j)'
    BY <1>f DEF Ledger
  <2>1. \A w \in Workers : Holds(w, j)' = Holds(w, j)
    BY <1>f DEF Holds
  <2> QED  BY <1>c, <1>f, <2>1, AccountedSame
<1>1. ASSUME NEW j \in Jobs, NEW d \in EnqueueDelays, Enqueue(j, d) PROVE Ledger'
  <2>1. CreditOK' /\ Credit' >= Credit
    BY <1>1, <1>c, <1>s, CreditGrows DEF Enqueue
  <2> SUFFICES ASSUME NEW k \in Jobs PROVE Accounted(k)'
    BY <2>1 DEF Ledger
  <2>2. UNCHANGED <<attempts, lockedBy, age, batch, got>>
    BY <1>1 DEF Enqueue, work
  <2>3. \A w \in Workers : Holds(w, k)' = Holds(w, k)
    BY <2>2 DEF Holds
  <2>4. CASE k # j
    BY <1>1, <1>c, <2>1, <2>2, <2>3, <2>4, AccountedSame DEF Enqueue
  <2>5. CASE k = j
    <3>1. status[j] = "absent" /\ status'[j] = "pending" /\ lockedBy[j] = NoWorker
      BY <1>1 DEF Enqueue, TypeOK, RowsOK
    <3>2. Loose(j) = 1 /\ Loose(j)' \in {0, 1}
      BY <3>1 DEF Loose, Minded, Final
    <3>3. Loose(j)' <= Loose(j)
      BY <3>2
    <3> HIDE DEF Loose
    <3> QED  BY <1>c, <2>1, <2>2, <2>3, <2>5, <3>3, AccountedFrame
  <2> QED  BY <2>4, <2>5
<1>2. ASSUME NEW w \in Workers, WorkerStep(w) PROVE Ledger'
  <2>1. CASE StopAtTop(w) \/ SkipReap(w) \/ ClaimNothing(w) \/ Poll(w) \/ StopWaiting(w)
    <3>1. CreditOK' /\ Credit' >= Credit
      BY <2>1, <1>c, <1>s, CreditGrows
         DEF StopAtTop, SkipReap, ClaimNothing, Poll, StopWaiting
    <3> QED
      BY <2>1, <1>f, <3>1
         DEF StopAtTop, SkipReap, ClaimNothing, Poll, StopWaiting, rows, work
  <2>2. CASE Reap(w)
    <3>1. CreditOK' /\ Credit' >= Credit
      BY <2>2, <1>c, <1>s, CreditGrows DEF Reap
    <3> QED  BY <2>2, <3>1, LedgerReap DEF Reap
  <2>3. ASSUME NEW S \in SUBSET Due, Claim(w, S) PROVE Ledger'
    <3>1. CreditOK' /\ Credit' >= Credit
      BY <2>3, <1>c, <1>s, CreditGrows DEF Claim
    <3>2. batch[w] = {}
      BY <2>3 DEF BatchOwned, Owns, Claim
    <3> QED  BY <2>3, <3>1, <3>2, LedgerClaim DEF Claim
  <2>4. ASSUME NEW j \in Jobs, Dispatch(w, j) PROVE Ledger'
    <3>1. CreditOK' /\ Credit' >= Credit
      BY <2>4, <1>c, <1>s, CreditGrows DEF Dispatch
    <3> QED  BY <2>4, <1>f, <3>1 DEF Dispatch, rows
  <2>5. ASSUME NEW j \in Jobs, Release(w, j) PROVE Ledger'
    <3>1. CreditOK' /\ Credit' >= Credit + 1 /\ Credit' >= Credit
      BY <2>5, <1>c, <1>s, CreditGrows DEF Release
    <3>2. /\ attempts' = attempts
          /\ \A k \in Jobs \ {j} : UNCHANGED <<status[k], lockedBy[k], age[k]>>
      BY <2>5 DEF Release, FailRetry, Unlock, TypeOK, RowsOK
    <3> QED  BY <2>5, <3>1, <3>2, LedgerSettle DEF Release
  <2>6. ASSUME NEW j \in Jobs, FinishOk(w, j) \/ FinishTerminal(w, j) \/ FinishRetry(w, j)
        PROVE Ledger'
    <3>1. Settle(w, j) /\ UNCHANGED <<signal, disrupted>> /\ Holds(w, j)
      BY <2>6 DEF FinishOk, FinishTerminal, FinishRetry, BatchOwned, Owns
    <3>2. CreditOK' /\ Credit' >= Credit
      BY <3>1, <1>c, <1>s, CreditGrows
    <3>3. \/ Complete(j) \/ FailDead(j)
          \/ FailRetry(j, got[w][j]) /\ ~(got[w][j] >= MaxAttempts)
      BY <2>6 DEF FinishOk, FinishTerminal, FinishRetry
    <3>4. /\ attempts' = attempts
          /\ \A k \in Jobs \ {j} : UNCHANGED <<status[k], lockedBy[k], age[k]>>
      BY <3>3 DEF Complete, FailDead, FailRetry, Unlock, TypeOK, RowsOK
    <3>5. status'[j] \in Final \/ got[w][j] < MaxAttempts
      <4>1. got[w][j] \in Nat
        BY DEF TypeOK
      <4> QED  BY <3>3, <4>1 DEF Complete, FailDead, Final, TypeOK, RowsOK
    <3> QED  BY <3>1, <3>2, <3>4, <3>5, LedgerSettle
  <2> QED  BY <1>2, <2>1, <2>2, <2>3, <2>4, <2>5, <2>6 DEF WorkerStep
<1>3. ASSUME NEW w \in Workers, Disrupt(w) PROVE Ledger'
  <2>1. CASE ReapFails(w)
    <3>1. CreditOK' /\ Credit' >= Credit
      BY <2>1, <1>c, <1>s, CreditGrows DEF ReapFails, Trouble
    <3> QED  BY <2>1, <1>f, <3>1 DEF ReapFails, rows, work
  <2>2. CASE Signal(w)
    <3>1. CreditOK' /\ Credit' >= Credit
      BY <2>2, <1>c, CreditSignal DEF CreditOK
    <3> QED  BY <2>2, <1>f, <3>1 DEF Signal, rows, work
  <2>3. CASE Crash(w)
    <3>1. CreditOK' /\ Credit' >= Credit + 1 /\ Credit' >= Credit
      BY <2>3, <1>c, <1>s, CreditGrows DEF Crash, Trouble
    <3> SUFFICES ASSUME NEW j \in Jobs PROVE Accounted(j)'
      BY <3>1 DEF Ledger
    <3>2. \A v \in Workers : Holds(v, j)' => Holds(v, j) /\ got'[v][j] = got[v][j]
      BY <2>3 DEF Crash, TypeOK, Holds
    <3> QED  BY <2>3, <1>c, <3>1, <3>2, AccountedFrame DEF Crash, rows
  <2>4. ASSUME NEW S \in SUBSET Due, ClaimFails(w, S) PROVE Ledger'
    <3>1. CreditOK' /\ Credit' >= Credit + 1 /\ Credit' >= Credit
      BY <2>4, <1>c, <1>s, CreditGrows DEF ClaimFails, Trouble
    <3>2. CASE ClaimRows(w, S)
      BY <2>4, <3>1, <3>2, LedgerClaim DEF ClaimFails, work
    <3>3. CASE UNCHANGED rows
      BY <2>4, <3>1, <3>3, <1>f DEF ClaimFails, rows, work
    <3> QED  BY <2>4, <3>2, <3>3 DEF ClaimFails
  <2>5. ASSUME NEW j \in Jobs, ReleaseFails(w, j) \/ FinishUnrecorded(w, j) PROVE Ledger'
    <3>1. Settle(w, j) /\ UNCHANGED rows /\ Trouble("write")
      BY <2>5 DEF ReleaseFails, FinishUnrecorded
    <3>2. Sent' \subseteq Sent
      BY <2>5, <1>s DEF ReleaseFails, FinishUnrecorded
    <3>3. CreditOK' /\ Credit' >= Credit + 1 /\ Credit' >= Credit
      BY <1>c, <3>1, <3>2, CreditGrows DEF Trouble
    <3> QED  BY <3>1, <3>3, LedgerSettle DEF rows
  <2> QED  BY <1>3, <2>1, <2>2, <2>3, <2>4, <2>5 DEF Disrupt
<1>4. CASE Tick
  <2>1. Sent' = Sent /\ disrupted' \in {disrupted, disrupted + 1}
    BY <1>4, <1>s DEF Tick, Trouble
  <2>2. Overruns # {} => disrupted' = disrupted + 1
    BY <1>4 DEF Tick, Trouble
  <2>3. CreditOK' /\ Credit' >= Credit /\ (Overruns # {} => Credit' >= Credit + 1)
    BY <1>c, <2>1, <2>2, CreditGrows
  <2> QED  BY <1>4, <2>3, LedgerTick
<1>5. CASE (\E w \in Workers : Restart(w)) \/ Relay \/ LoseNotify \/ UNCHANGED vars
  <2>1. Sent' \subseteq Sent /\ disrupted' = disrupted
    BY <1>5, <1>s DEF Restart, Relay, LoseNotify, vars
  <2>2. CreditOK' /\ Credit' >= Credit
    BY <1>c, <2>1, CreditGrows
  <2>3. UNCHANGED <<status, attempts, lockedBy, age, batch, got>>
    BY <1>5 DEF Restart, Relay, LoseNotify, vars, rows, work
  <2> QED  BY <1>f, <2>2, <2>3
<1> QED  BY <1>1, <1>2, <1>3, <1>4, <1>5 DEF Next

\* max_attempts bounds the claims of a job, save one for each crash, shutdown
\* message, lost write or overrun: claim_batch counts the attempt, fail_retry
\* gives a row back only by a copy that has one left, and no two workers have
\* the same copy, not even of a job that several of them hold.
THEOREM AttemptsBounded == Spec => []AttemptsAccounted
<1>1. TypeOK /\ BatchOwned /\ Ledger /\ [Next]_vars => Ledger'
  BY LedgerStep
<1>2. TypeOK /\ Ledger => AttemptsAccounted
  <2> SUFFICES ASSUME TypeOK, Ledger, NEW j \in Jobs
               PROVE  attempts[j] <= MaxAttempts + disrupted
    BY DEF AttemptsAccounted
  <2>1. Cardinality(Sent) \in Nat /\ Cardinality(Open(j)) \in Nat
    BY FS_CardinalityType, OpenFinite DEF Ledger, CreditOK
  <2>2. attempts[j] + Loose(j) + Cardinality(Open(j)) <= MaxAttempts + Credit
    BY DEF Ledger, Accounted
  <2>3. attempts[j] \in Nat /\ disrupted \in Nat /\ Loose(j) \in {0, 1}
    BY DEF TypeOK, RowsOK, Loose
  <2> HIDE DEF Sent, Open, Loose
  <2> QED  BY <2>1, <2>2, <2>3 DEF Credit
<1> QED  BY <1>1, <1>2, LedgerInit, OwnedAlways, PTL DEF Spec

-----------------------------------------------------------------------------
(* A graceful shutdown leaves no lock behind. *)

\* Every locked row is in the batch of the worker that locked it.
AllHeld == \A j \in Jobs, w \in Workers : lockedBy[j] = w => j \in batch[w]

\* The inductive form of StoppedHoldsNothing: until something goes wrong that is
\* not the signal, a lock is always held by a worker that will settle it.
Shutdown ==
    /\ \A w \in Workers : batch[w] # {} => pc[w] = "batch"
    /\ \A w \in Workers : pc[w] = "stopped" => signal[w] = "seen"
    /\ disrupted = 0 => \A w \in Workers : signal[w] = "none"
    /\ disrupted <= 1 /\ (disrupted = 0 \/ \E w \in Workers : signal[w] # "none") => AllHeld

\* A step without trouble that creates no signal and keeps every lock held.
LEMMA ShutdownFrame ==
    ASSUME TypeOK, Shutdown, disrupted' = disrupted,
           \A w \in Workers : batch'[w] # {} => pc'[w] = "batch",
           \A w \in Workers : pc'[w] = "stopped" => signal'[w] = "seen",
           \A w \in Workers : signal[w] = "none" => signal'[w] = "none",
           AllHeld => AllHeld'
    PROVE  Shutdown'
<1> HIDE DEF AllHeld
<1>1. disrupted' <= 1 /\ (disrupted' = 0 \/ \E w \in Workers : signal'[w] # "none") => AllHeld'
  <2>1. (\E w \in Workers : signal'[w] # "none") => \E w \in Workers : signal[w] # "none"
    OBVIOUS
  <2> QED  BY <2>1 DEF Shutdown
<1>2. disrupted' = 0 => \A w \in Workers : signal'[w] = "none"
  BY DEF Shutdown
<1> QED  BY <1>1, <1>2 DEF Shutdown

\* Trouble that is not a signal: there is none left that could stop a worker,
\* or the second trouble is here.
LEMMA ShutdownTrouble ==
    ASSUME TypeOK, Shutdown, disrupted' = disrupted + 1,
           \A w \in Workers : batch'[w] # {} => pc'[w] = "batch",
           \A w \in Workers : pc'[w] = "stopped" => signal'[w] = "seen",
           \A w \in Workers : signal[w] = "none" => signal'[w] = "none"
    PROVE  Shutdown'
<1>1. disrupted \in Nat
  BY DEF TypeOK, RowsOK
<1>2. ~(disrupted' = 0)
  BY <1>1
<1>3. disrupted' <= 1 => disrupted = 0
  BY <1>1
<1>4. disrupted' <= 1 => \A w \in Workers : signal'[w] = "none"
  BY <1>3 DEF Shutdown
<1> QED  BY <1>2, <1>4 DEF Shutdown

\* What settling job j does to the loop and the locks.
LEMMA SettleShape ==
    ASSUME TypeOK, Shutdown, NEW w \in Workers, NEW j \in Jobs, Settle(w, j)
    PROVE  /\ \A v \in Workers : batch'[v] # {} => pc'[v] = "batch"
           /\ \A v \in Workers : pc'[v] = "stopped" => pc[v] = "stopped"
           /\ lockedBy' = [lockedBy EXCEPT ![j] = NoWorker] /\ AllHeld => AllHeld'
<1> USE DEF TypeOK, RowsOK
<1>1. /\ batch' = [batch EXCEPT ![w] = batch[w] \ {j}]
      /\ pc' = [pc EXCEPT ![w] = IF batch[w] = {j} THEN "top" ELSE "batch"]
  BY DEF Settle
<1>2. \A v \in Workers : batch'[v] # {} => pc'[v] = "batch"
  <2> SUFFICES ASSUME NEW v \in Workers, batch'[v] # {} PROVE pc'[v] = "batch"
    OBVIOUS
  <2>1. CASE v = w
    <3>1. batch[w] # {j}
      BY <1>1, <2>1
    <3> QED  BY <1>1, <2>1, <3>1
  <2>2. CASE v # w  BY <1>1, <2>2 DEF Shutdown
  <2> QED  BY <2>1, <2>2
<1>3. \A v \in Workers : pc'[v] = "stopped" => pc[v] = "stopped"
  BY <1>1
<1>4. ASSUME lockedBy' = [lockedBy EXCEPT ![j] = NoWorker], AllHeld PROVE AllHeld'
  <2> SUFFICES ASSUME NEW k \in Jobs, NEW v \in Workers, lockedBy'[k] = v
               PROVE  k \in batch'[v]
    BY DEF AllHeld
  <2>1. k # j /\ lockedBy[k] = v
    BY <1>4, WorkersAssumption
  <2>2. k \in batch[v]
    BY <1>4, <2>1 DEF AllHeld
  <2> QED  BY <1>1, <2>1, <2>2
<1> QED  BY <1>2, <1>3, <1>4

LEMMA ShutdownInit == Init => Shutdown
BY WorkersAssumption DEF Init, Shutdown, AllHeld

\* Each step keeps Shutdown: one case per action.
LEMMA ShutdownStep == TypeOK /\ Shutdown /\ [Next]_vars => Shutdown'
<1> SUFFICES ASSUME TypeOK, Shutdown, [Next]_vars PROVE Shutdown'
  OBVIOUS
<1> USE DEF TypeOK, RowsOK
<1>a. /\ \A w \in Workers : batch[w] # {} => pc[w] = "batch"
      /\ \A w \in Workers : pc[w] = "stopped" => signal[w] = "seen"
  BY DEF Shutdown
\* A step that takes or gives no lock leaves the locks in their batches.
<1>k. UNCHANGED <<lockedBy, batch>> => (AllHeld => AllHeld')
  BY DEF AllHeld
<1>1. ASSUME NEW j \in Jobs, NEW d \in EnqueueDelays, Enqueue(j, d) PROVE Shutdown'
  BY <1>1, <1>a, <1>k, ShutdownFrame DEF Enqueue, work
<1>2. ASSUME NEW w \in Workers, WorkerStep(w) PROVE Shutdown'
  <2>1. CASE StopAtTop(w) \/ StopWaiting(w)
    BY <2>1, <1>a, <1>k, ShutdownFrame DEF StopAtTop, StopWaiting, rows, work
  <2>2. CASE SkipReap(w) \/ ClaimNothing(w) \/ Poll(w)
    BY <2>2, <1>a, <1>k, ShutdownFrame DEF SkipReap, ClaimNothing, Poll, rows, work
  <2>3. CASE Reap(w)
    <3>1. AllHeld => AllHeld'
      BY <2>3, WorkersAssumption DEF Reap, ReapStuck, AllHeld, work
    <3> QED  BY <2>3, <1>a, <3>1, ShutdownFrame DEF Reap, work
  <2>4. ASSUME NEW S \in SUBSET Due, Claim(w, S) PROVE Shutdown'
    <3>1. batch[w] = {}
      BY <2>4, <1>a DEF Claim
    <3>2. AllHeld => AllHeld'
      <4> SUFFICES ASSUME AllHeld, NEW j \in Jobs, NEW v \in Workers, lockedBy'[j] = v
                   PROVE  j \in batch'[v]
        BY DEF AllHeld
      <4>1. CASE j \in S
        <5>1. v = w
          BY <2>4, <4>1 DEF Claim, ClaimRows
        <5> QED  BY <2>4, <4>1, <5>1 DEF Claim
      <4>2. CASE j \notin S
        <5>1. j \in batch[v]
          BY <2>4, <4>2 DEF Claim, ClaimRows, AllHeld
        <5> QED  BY <2>4, <3>1, <5>1 DEF Claim
      <4> QED  BY <4>1, <4>2
    <3>3. \A v \in Workers : batch'[v] # {} => pc'[v] = "batch"
      BY <2>4, <1>a DEF Claim
    <3>4. \A v \in Workers : pc'[v] = "stopped" => signal'[v] = "seen"
      BY <2>4, <1>a DEF Claim
    <3> QED  BY <2>4, <3>2, <3>3, <3>4, ShutdownFrame DEF Claim
  <2>5. ASSUME NEW j \in Jobs, Dispatch(w, j) PROVE Shutdown'
    BY <2>5, <1>a, <1>k, ShutdownFrame DEF Dispatch, rows
  <2>6. ASSUME NEW j \in Jobs,
               Release(w, j) \/ FinishOk(w, j) \/ FinishTerminal(w, j) \/ FinishRetry(w, j)
        PROVE  Shutdown'
    <3>1. Settle(w, j) /\ disrupted' = disrupted
      BY <2>6 DEF Release, FinishOk, FinishTerminal, FinishRetry
    <3>2. lockedBy' = [lockedBy EXCEPT ![j] = NoWorker]
      BY <2>6 DEF Release, FinishOk, FinishTerminal, FinishRetry,
                  Complete, FailDead, FailRetry, Unlock
    <3>3. \/ UNCHANGED signal
          \/ signal[w] = "sent" /\ signal' = [signal EXCEPT ![w] = "seen"]
      BY <2>6 DEF Release, FinishOk, FinishTerminal, FinishRetry
    <3>4. /\ \A v \in Workers : batch'[v] # {} => pc'[v] = "batch"
          /\ \A v \in Workers : pc'[v] = "stopped" => pc[v] = "stopped"
          /\ AllHeld => AllHeld'
      BY <3>1, <3>2, SettleShape
    <3>5. \A v \in Workers : pc'[v] = "stopped" => signal'[v] = "seen"
      BY <1>a, <3>3, <3>4
    <3>6. \A v \in Workers : signal[v] = "none" => signal'[v] = "none"
      BY <3>3
    <3> QED  BY <3>1, <3>4, <3>5, <3>6, ShutdownFrame
  <2> QED  BY <1>2, <2>1, <2>2, <2>3, <2>4, <2>5, <2>6 DEF WorkerStep
<1>3. ASSUME NEW w \in Workers, Disrupt(w) PROVE Shutdown'
  <2>1. CASE ReapFails(w)
    BY <2>1, <1>a, ShutdownTrouble DEF ReapFails, Trouble, work
  <2>2. CASE Signal(w)
    <3>1. UNCHANGED <<lockedBy, batch, pc>> /\ disrupted' = disrupted + 1
      BY <2>2 DEF Signal, Trouble, rows, work
    <3>2. \A v \in Workers : pc'[v] = "stopped" => signal'[v] = "seen"
      BY <2>2, <1>a, <3>1 DEF Signal
    <3>3. disrupted' <= 1 => disrupted = 0
      BY <3>1
    <3>4. disrupted' <= 1 => AllHeld'
      BY <1>k, <3>1, <3>3 DEF Shutdown
    <3>5. disrupted' # 0
      BY <3>1
    <3> QED  BY <1>a, <3>1, <3>2, <3>4, <3>5 DEF Shutdown
  <2>3. CASE Crash(w)
    <3>1. \A v \in Workers : batch'[v] # {} => pc'[v] = "batch"
      BY <2>3, <1>a DEF Crash
    <3>2. \A v \in Workers : pc'[v] = "stopped" => signal'[v] = "seen"
      BY <2>3, <1>a DEF Crash
    <3>3. \A v \in Workers : signal[v] = "none" => signal'[v] = "none"
      BY <2>3 DEF Crash
    <3> QED  BY <2>3, <3>1, <3>2, <3>3, ShutdownTrouble DEF Crash, Trouble
  <2>4. ASSUME NEW S \in SUBSET Due, ClaimFails(w, S) PROVE Shutdown'
    <3>1. \A v \in Workers : batch'[v] # {} => pc'[v] = "batch"
      BY <2>4, <1>a DEF ClaimFails, work
    <3>2. \A v \in Workers : pc'[v] = "stopped" => signal'[v] = "seen"
      BY <2>4, <1>a DEF ClaimFails
    <3> QED  BY <2>4, <3>1, <3>2, ShutdownTrouble DEF ClaimFails, Trouble
  <2>5. ASSUME NEW j \in Jobs, ReleaseFails(w, j) \/ FinishUnrecorded(w, j) PROVE Shutdown'
    <3>1. Settle(w, j) /\ disrupted' = disrupted + 1
      BY <2>5 DEF ReleaseFails, FinishUnrecorded, Trouble
    <3>2. \/ UNCHANGED signal
          \/ signal[w] = "sent" /\ signal' = [signal EXCEPT ![w] = "seen"]
      BY <2>5 DEF ReleaseFails, FinishUnrecorded
    <3>3. /\ \A v \in Workers : batch'[v] # {} => pc'[v] = "batch"
          /\ \A v \in Workers : pc'[v] = "stopped" => pc[v] = "stopped"
      BY <3>1, SettleShape
    <3>4. \A v \in Workers : pc'[v] = "stopped" => signal'[v] = "seen"
      BY <1>a, <3>2, <3>3
    <3>5. \A v \in Workers : signal[v] = "none" => signal'[v] = "none"
      BY <3>2
    <3> QED  BY <3>1, <3>3, <3>4, <3>5, ShutdownTrouble
  <2> QED  BY <1>3, <2>1, <2>2, <2>3, <2>4, <2>5 DEF Disrupt
<1>4. ASSUME NEW w \in Workers, Restart(w) PROVE Shutdown'
  <2>1. \A v \in Workers : batch'[v] # {} => pc'[v] = "batch"
    BY <1>4, <1>a DEF Restart, Up, work
  <2>2. \A v \in Workers : pc'[v] = "stopped" => signal'[v] = "seen"
    BY <1>4, <1>a DEF Restart
  <2>3. \A v \in Workers : signal[v] = "none" => signal'[v] = "none"
    BY <1>4 DEF Restart
  <2> QED  BY <1>4, <1>k, <2>1, <2>2, <2>3, ShutdownFrame DEF Restart, rows, work
<1>5. CASE Relay
  <2>1. \A v \in Workers : pc'[v] = pc[v] \/ (pc[v] = "idle" /\ pc'[v] = "top")
    BY <1>5 DEF Relay
  <2>2. \A v \in Workers : batch'[v] # {} => pc'[v] = "batch"
    BY <1>5, <1>a, <2>1 DEF Relay, work
  <2>3. \A v \in Workers : pc'[v] = "stopped" => signal'[v] = "seen"
    BY <1>5, <1>a, <2>1 DEF Relay
  <2> QED  BY <1>5, <1>k, <2>2, <2>3, ShutdownFrame DEF Relay, rows, work
<1>6. CASE LoseNotify \/ UNCHANGED vars
  <2>1. UNCHANGED <<lockedBy, batch, pc, signal, disrupted>>
    BY <1>6 DEF LoseNotify, vars, rows, work
  <2> QED  BY <1>a, <1>k, <2>1, ShutdownFrame
<1>7. CASE Tick
  <2>1. UNCHANGED <<lockedBy, batch, pc, signal>>
    BY <1>7 DEF Tick
  <2>2. disrupted' = disrupted \/ disrupted' = disrupted + 1
    BY <1>7 DEF Tick, Trouble
  <2>3. CASE disrupted' = disrupted
    BY <1>a, <1>k, <2>1, <2>3, ShutdownFrame
  <2>4. CASE disrupted' = disrupted + 1
    BY <1>a, <2>1, <2>4, ShutdownTrouble
  <2> QED  BY <2>2, <2>3, <2>4
<1> QED  BY <1>1, <1>2, <1>3, <1>4, <1>5, <1>6, <1>7 DEF Next

\* A worker that has stopped on the signal holds no lock, unless something else
\* went wrong too: it gives back what it claimed and did not run, one job of the
\* batch to a message and the rest by running them (job_worker.rs), and no
\* reap_stuck is needed.  No condition on the lock timeout: it is true even
\* where a lock does not cover its batch.
THEOREM StopsClean == Spec => []StoppedHoldsNothing
<1>1. TypeOK /\ Shutdown => StoppedHoldsNothing
  <2> SUFFICES ASSUME TypeOK, Shutdown, disrupted <= 1, NEW w \in Workers, NEW j \in Jobs,
                      pc[w] = "stopped", lockedBy[j] = w
               PROVE  FALSE
    BY DEF StoppedHoldsNothing
  <2>1. signal[w] = "seen" /\ batch[w] = {}
    BY DEF Shutdown
  <2>2. AllHeld
    <3>1. \E v \in Workers : signal[v] # "none"
      BY <2>1
    <3>2. disrupted = 0 \/ disrupted # 0
      OBVIOUS
    <3> QED  BY <3>1, <3>2 DEF Shutdown
  <2> QED  BY <2>1, <2>2 DEF AllHeld
<1>2. TypeOK /\ Shutdown /\ [Next]_vars => Shutdown'
  BY ShutdownStep
<1> QED  BY <1>1, <1>2, ShutdownInit, TypeCorrect, PTL DEF Spec
=============================================================================
