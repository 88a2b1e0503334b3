------------------------------ MODULE JobQueue ------------------------------
(***************************************************************************)
(* The durable job queue: the `jobs` table (migrations/005_jobs.sql), the  *)
(* statements over it (services/jobs.rs), the polling workers              *)
(* (tasks/job_worker.rs), the NOTIFY relay (tasks/job_listener.rs) and the *)
(* shutdown signal (tasks/shutdown.rs).                                    *)
(*                                                                         *)
(* One SQL statement is one step.  What a job does (player_sync,           *)
(* config_sync, webhook) is only its outcome here: done, terminal, retry.  *)
(* Time passes in ticks.  A timestamp column is kept as the distance to    *)
(* now: `delay` is how far in the future next_run_at lies, `age` how far   *)
(* in the past locked_at lies.                                             *)
(***************************************************************************)
EXTENDS Naturals, FiniteSets

CONSTANTS
    Jobs,            \* ids the BIGSERIAL may hand out
    Workers,         \* worker tasks of every replica
    NoJob,           \* no job is being dispatched
    NoWorker,        \* locked_by IS NULL
    BatchSize,       \* BATCH_SIZE
    MaxAttempts,     \* the max_attempts column
    StuckLock,       \* STUCK_LOCK_SECS, in ticks
    MaxJob,          \* longest dispatch of one job, in ticks
    TickSecs,        \* seconds in a tick
    EnqueueDelays,   \* the delay_secs callers pass, in ticks
    Disruptions,     \* kinds of trouble that may happen
    MaxDisruptions   \* bound on how often trouble happens

ASSUME JobsAssumption == Jobs \subseteq Nat /\ IsFiniteSet(Jobs) /\ NoJob \notin Jobs
ASSUME WorkersAssumption == NoWorker \notin Workers
ASSUME BoundsAssumption ==
    /\ BatchSize \in Nat \ {0} /\ MaxAttempts \in Nat \ {0}
    /\ StuckLock \in Nat /\ MaxJob \in Nat /\ TickSecs \in Nat \ {0}
    /\ EnqueueDelays \subseteq Nat
    /\ Disruptions \subseteq {"crash", "signal", "write", "slow"}
    /\ MaxDisruptions \in Nat

VARIABLES
    \* the jobs table
    status,      \* "absent" before the INSERT commits, then the status column
    attempts,
    delay,
    lockedBy,
    age,
    \* each worker task
    pc,          \* where its loop is
    batch,       \* claimed jobs it has not settled yet
    got,         \* the attempts value in its copy of each of them
    current,     \* the one it is dispatching
    elapsed,     \* for how long
    reapDue,     \* last_reap.elapsed() >= reap_every
    signal,      \* its ShutdownGuard: "none", "sent" (unread) or "seen"
    \* the rest
    notify,      \* a NOTIFY on its way to the listener
    \* history, which no step depends on
    overdue,     \* jobs whose lock a worker outlasted, while one still holds them
    disrupted    \* how often trouble has happened

rows    == <<status, attempts, delay, lockedBy, age>>
work    == <<batch, got, current, elapsed, overdue>>
vars    == <<rows, pc, work, reapDue, signal, notify, disrupted>>

Status == {"absent", "pending", "in_progress", "completed", "dead"}
Final  == {"completed", "dead"}
Loop   == {"top", "claim", "idle", "sleep", "batch", "stopped", "down"}

Up(w) == pc[w] \notin {"stopped", "down"}

\* Worker w has claimed job j and not settled it.
Holds(w, j) == j \in batch[w]

-----------------------------------------------------------------------------
(* Helpers over the table. *)

\* 2^clamp(attempt, 1, 8) seconds.
BackoffSecs == <<2, 4, 8, 16, 32, 64, 128, 256>>

\* In ticks; the last one also covers the jitter of less than a second.
BackoffDelay(attempt) ==
    LET capped == IF attempt < 1 THEN 1 ELSE IF attempt > 8 THEN 8 ELSE attempt
    IN  BackoffSecs[capped] \div TickSecs + 1

\* Mutant: the claim forgets the status filter.
DueAtAnyStatus == {j \in Jobs : status[j] # "absent" /\ delay[j] = 0}

Due == {j \in Jobs : status[j] = "pending" /\ delay[j] = 0}

\* ORDER BY id LIMIT batch_size.
Claimable(S) ==
    /\ S \subseteq Due
    /\ Cardinality(S) <= BatchSize
    /\ S # Due => Cardinality(S) = BatchSize
    /\ \A j \in S, k \in Due \ S : j < k

\* Mutants: the age of the lock is not compared; the wrong status is.
ExpiredAtAnyAge(j) == status[j] = "in_progress"
ExpiredPending(j) == status[j] = "pending" /\ age[j] > StuckLock

Expired(j) == status[j] = "in_progress" /\ age[j] > StuckLock

\* Mutant: locked_by stays.
UnlockKeepingOwner(j) ==
    /\ age' = [age EXCEPT ![j] = 0]
    /\ UNCHANGED <<attempts, lockedBy>>

\* The three ways a worker settles a row.  None looks at status or locked_by.
Unlock(j) ==
    /\ lockedBy' = [lockedBy EXCEPT ![j] = NoWorker]
    /\ age' = [age EXCEPT ![j] = 0]
    /\ UNCHANGED attempts

Complete(j) ==
    /\ status' = [status EXCEPT ![j] = "completed"]
    /\ Unlock(j)
    /\ UNCHANGED delay

FailDead(j) ==
    /\ status' = [status EXCEPT ![j] = "dead"]
    /\ Unlock(j)
    /\ UNCHANGED delay

FailRetry(j, attempt) ==
    /\ status' = [status EXCEPT ![j] = "pending"]
    /\ delay' = [delay EXCEPT ![j] = BackoffDelay(attempt)]
    /\ Unlock(j)

ReapStuck ==
    /\ status' = [j \in Jobs |-> IF Expired(j) THEN "pending" ELSE status[j]]
    /\ delay' = [j \in Jobs |-> IF Expired(j) THEN 0 ELSE delay[j]]
    /\ lockedBy' = [j \in Jobs |-> IF Expired(j) THEN NoWorker ELSE lockedBy[j]]
    /\ age' = [j \in Jobs |-> IF Expired(j) THEN 0 ELSE age[j]]
    /\ UNCHANGED attempts

ClaimRows(w, S) ==
    /\ status' = [j \in Jobs |-> IF j \in S THEN "in_progress" ELSE status[j]]
    /\ attempts' = [j \in Jobs |-> IF j \in S THEN attempts[j] + 1 ELSE attempts[j]]
    /\ lockedBy' = [j \in Jobs |-> IF j \in S THEN w ELSE lockedBy[j]]
    /\ age' = [j \in Jobs |-> IF j \in S THEN 0 ELSE age[j]]
    /\ UNCHANGED delay

Trouble(kind) ==
    /\ kind \in Disruptions
    /\ disrupted < MaxDisruptions
    /\ disrupted' = disrupted + 1

-----------------------------------------------------------------------------
Init ==
    /\ status = [j \in Jobs |-> "absent"]
    /\ attempts = [j \in Jobs |-> 0]
    /\ delay = [j \in Jobs |-> 0]
    /\ lockedBy = [j \in Jobs |-> NoWorker]
    /\ age = [j \in Jobs |-> 0]
    /\ pc = [w \in Workers |-> "top"]
    /\ batch = [w \in Workers |-> {}]
    /\ got = [w \in Workers |-> [j \in Jobs |-> 0]]
    /\ current = [w \in Workers |-> NoJob]
    /\ elapsed = [w \in Workers |-> 0]
    /\ reapDue = [w \in Workers |-> FALSE]
    /\ signal = [w \in Workers |-> "none"]
    /\ notify = FALSE
    /\ overdue = {}
    /\ disrupted = 0

\* enqueue: the row becomes visible when the caller's transaction commits, so
\* ids may appear out of order.  Only an immediately runnable job notifies.
Enqueue(j, d) ==
    /\ status[j] = "absent"
    /\ status' = [status EXCEPT ![j] = "pending"]
    /\ delay' = [delay EXCEPT ![j] = d]
    /\ notify' = (notify \/ d = 0)
    /\ UNCHANGED <<attempts, lockedBy, age, pc, work, reapDue, signal, disrupted>>

\* The head of the loop: is_triggered() takes the message out of the channel.
StopAtTop(w) ==
    /\ pc[w] = "top" /\ signal[w] = "sent"
    /\ pc' = [pc EXCEPT ![w] = "stopped"]
    /\ signal' = [signal EXCEPT ![w] = "seen"]
    /\ UNCHANGED <<rows, work, reapDue, notify, disrupted>>

SkipReap(w) ==
    /\ pc[w] = "top" /\ signal[w] # "sent" /\ ~reapDue[w]
    /\ pc' = [pc EXCEPT ![w] = "claim"]
    /\ UNCHANGED <<rows, work, reapDue, signal, notify, disrupted>>

Reap(w) ==
    /\ pc[w] = "top" /\ signal[w] # "sent" /\ reapDue[w]
    /\ ReapStuck
    /\ pc' = [pc EXCEPT ![w] = "claim"]
    /\ reapDue' = [reapDue EXCEPT ![w] = FALSE]
    /\ UNCHANGED <<work, signal, notify, disrupted>>

\* A failed reap is not retried before the next interval.
ReapFails(w) ==
    /\ pc[w] = "top" /\ signal[w] # "sent" /\ reapDue[w]
    /\ Trouble("write")
    /\ pc' = [pc EXCEPT ![w] = "claim"]
    /\ reapDue' = [reapDue EXCEPT ![w] = FALSE]
    /\ UNCHANGED <<rows, work, signal, notify>>

\* claim_batch returned jobs.
Claim(w, S) ==
    /\ pc[w] = "claim"
    /\ Claimable(S) /\ S # {}
    /\ ClaimRows(w, S)
    /\ batch' = [batch EXCEPT ![w] = S]
    /\ got' = [got EXCEPT ![w] = [j \in Jobs |-> IF j \in S THEN attempts[j] + 1 ELSE 0]]
    /\ pc' = [pc EXCEPT ![w] = "batch"]
    /\ UNCHANGED <<current, elapsed, overdue, reapDue, signal, notify, disrupted>>

\* claim_batch returned nothing.
ClaimNothing(w) ==
    /\ pc[w] = "claim" /\ Due = {}
    /\ pc' = [pc EXCEPT ![w] = "idle"]
    /\ UNCHANGED <<rows, work, reapDue, signal, notify, disrupted>>

\* claim_batch failed; its UPDATE may have been applied all the same (the
\* connection broke after the commit).
ClaimFails(w, S) ==
    /\ pc[w] = "claim"
    /\ Claimable(S)
    /\ Trouble("write")
    /\ ClaimRows(w, S) \/ UNCHANGED rows
    /\ pc' = [pc EXCEPT ![w] = "sleep"]
    /\ UNCHANGED <<work, reapDue, signal, notify>>

\* The poll interval has passed.
Poll(w) ==
    /\ pc[w] \in {"idle", "sleep"}
    /\ pc' = [pc EXCEPT ![w] = "top"]
    /\ UNCHANGED <<rows, work, reapDue, signal, notify, disrupted>>

\* shutdown.wait() resolved in one of the two select! blocks.
StopWaiting(w) ==
    /\ pc[w] \in {"idle", "sleep"} /\ signal[w] = "sent"
    /\ pc' = [pc EXCEPT ![w] = "stopped"]
    /\ signal' = [signal EXCEPT ![w] = "seen"]
    /\ UNCHANGED <<rows, work, reapDue, notify, disrupted>>

\* job_listener: notify_waiters() reaches the workers waiting at that moment.
Relay ==
    /\ notify
    /\ notify' = FALSE
    /\ pc' = [w \in Workers |-> IF pc[w] = "idle" THEN "top" ELSE pc[w]]
    /\ UNCHANGED <<rows, work, reapDue, signal, disrupted>>

\* The NOTIFY arrives while the listener reconnects.
LoseNotify ==
    /\ notify
    /\ notify' = FALSE
    /\ UNCHANGED <<rows, pc, work, reapDue, signal, disrupted>>

\* The body of `for job in claimed`, for the next job of the batch.
Dispatch(w, j) ==
    /\ pc[w] = "batch" /\ current[w] = NoJob /\ j \in batch[w]
    /\ signal[w] # "sent"
    /\ current' = [current EXCEPT ![w] = j]
    /\ UNCHANGED <<rows, pc, batch, got, elapsed, overdue, reapDue, signal, notify, disrupted>>

\* Nobody holds the other jobs any more.
StillHeld == overdue' = {j \in overdue : \E w \in Workers : Holds(w, j)'}

\* The worker is done with job j of its batch.
Settle(w, j) ==
    /\ batch' = [batch EXCEPT ![w] = @ \ {j}]
    /\ got' = [got EXCEPT ![w][j] = 0]
    /\ current' = [current EXCEPT ![w] = NoJob]
    /\ elapsed' = [elapsed EXCEPT ![w] = 0]
    /\ pc' = [pc EXCEPT ![w] = IF batch[w] = {j} THEN "top" ELSE "batch"]
    /\ StillHeld
    /\ UNCHANGED <<reapDue, notify>>

\* Mutant: the shutdown branch leaves the loop with the rest of the batch.
ReleaseAndStop(w, j) ==
    /\ pc[w] = "batch" /\ current[w] = NoJob /\ j \in batch[w]
    /\ signal[w] = "sent"
    /\ FailRetry(j, got[w][j])
    /\ signal' = [signal EXCEPT ![w] = "seen"]
    /\ batch' = [batch EXCEPT ![w] = {}]
    /\ got' = [got EXCEPT ![w] = [k \in Jobs |-> 0]]
    /\ pc' = [pc EXCEPT ![w] = "stopped"]
    /\ StillHeld
    /\ UNCHANGED <<current, elapsed, reapDue, notify, disrupted>>

\* Mutant: the shutdown branch completes the job it has not run.
ReleaseCompletes(w, j) ==
    /\ pc[w] = "batch" /\ current[w] = NoJob /\ j \in batch[w]
    /\ signal[w] = "sent"
    /\ Complete(j)
    /\ signal' = [signal EXCEPT ![w] = "seen"]
    /\ Settle(w, j)
    /\ UNCHANGED disrupted

\* The shutdown branch of the loop: the job goes back, the message is taken
\* out of the channel.
Release(w, j) ==
    /\ pc[w] = "batch" /\ current[w] = NoJob /\ j \in batch[w]
    /\ signal[w] = "sent"
    /\ FailRetry(j, got[w][j])
    /\ signal' = [signal EXCEPT ![w] = "seen"]
    /\ Settle(w, j)
    /\ UNCHANGED disrupted

ReleaseFails(w, j) ==
    /\ pc[w] = "batch" /\ current[w] = NoJob /\ j \in batch[w]
    /\ signal[w] = "sent"
    /\ Trouble("write")
    /\ signal' = [signal EXCEPT ![w] = "seen"]
    /\ Settle(w, j)
    /\ UNCHANGED rows

\* dispatch returned Ok.
FinishOk(w, j) ==
    /\ current[w] = j
    /\ Complete(j)
    /\ Settle(w, j)
    /\ UNCHANGED <<signal, disrupted>>

\* dispatch returned JobError::Terminal.
FinishTerminal(w, j) ==
    /\ current[w] = j
    /\ FailDead(j)
    /\ Settle(w, j)
    /\ UNCHANGED <<signal, disrupted>>

\* Mutant: max_attempts is not looked at.
RetryForever(w, j) ==
    /\ current[w] = j
    /\ FailRetry(j, got[w][j])
    /\ Settle(w, j)
    /\ UNCHANGED <<signal, disrupted>>

\* dispatch returned JobError::Retry.
FinishRetry(w, j) ==
    /\ current[w] = j
    /\ IF got[w][j] >= MaxAttempts THEN FailDead(j) ELSE FailRetry(j, got[w][j])
    /\ Settle(w, j)
    /\ UNCHANGED <<signal, disrupted>>

\* Whatever dispatch returned, recording it failed: logged or ignored.
FinishUnrecorded(w, j) ==
    /\ current[w] = j
    /\ Trouble("write")
    /\ Settle(w, j)
    /\ UNCHANGED <<rows, signal>>

\* SIGTERM: Shutdown::trigger() puts one message in every receiver.
Signal(w) ==
    /\ Up(w) /\ signal[w] = "none"
    /\ Trouble("signal")
    /\ signal' = [signal EXCEPT ![w] = "sent"]
    /\ UNCHANGED <<rows, pc, work, reapDue, notify>>

\* The process dies: its rows stay locked.
Crash(w) ==
    /\ Up(w)
    /\ Trouble("crash")
    /\ pc' = [pc EXCEPT ![w] = "down"]
    /\ batch' = [batch EXCEPT ![w] = {}]
    /\ got' = [got EXCEPT ![w] = [j \in Jobs |-> 0]]
    /\ current' = [current EXCEPT ![w] = NoJob]
    /\ elapsed' = [elapsed EXCEPT ![w] = 0]
    /\ reapDue' = [reapDue EXCEPT ![w] = FALSE]
    /\ signal' = [signal EXCEPT ![w] = "none"]
    /\ StillHeld
    /\ UNCHANGED <<rows, notify>>

\* The orchestrator starts a process in the place of one that ended.
Restart(w) ==
    /\ ~Up(w)
    /\ pc' = [pc EXCEPT ![w] = "top"]
    /\ signal' = [signal EXCEPT ![w] = "none"]
    /\ reapDue' = [reapDue EXCEPT ![w] = FALSE]
    /\ UNCHANGED <<rows, work, notify, disrupted>>

\* The locks that expire now under a worker that is still busy with the batch.
Overruns == {j \in Jobs : \E w \in Workers : /\ Holds(w, j) /\ lockedBy[j] = w
                                              /\ age[j] = StuckLock}

\* Time passes.  Going from one job of a batch to the next takes none worth
\* counting, and no dispatch outlasts MaxJob; all of them together may outlast
\* the lock of the batch, which is taken once for all of it.
Tick ==
    /\ \A w \in Workers : pc[w] = "batch" => /\ current[w] # NoJob
                                             /\ elapsed[w] < MaxJob
    /\ delay' = [j \in Jobs |-> IF delay[j] = 0 THEN 0 ELSE delay[j] - 1]
    /\ age' = [j \in Jobs |-> IF status[j] = "in_progress" /\ age[j] <= StuckLock
                              THEN age[j] + 1 ELSE age[j]]
    /\ elapsed' = [w \in Workers |-> IF current[w] # NoJob
                                     THEN elapsed[w] + 1 ELSE elapsed[w]]
    /\ reapDue' = [w \in Workers |-> Up(w)]
    /\ overdue' = overdue \cup Overruns
    /\ IF Overruns = {} THEN UNCHANGED disrupted ELSE Trouble("slow")
    /\ UNCHANGED <<status, attempts, lockedBy, pc, batch, got, current, signal, notify>>

-----------------------------------------------------------------------------
\* What worker w does by itself.
WorkerStep(w) ==
    \/ StopAtTop(w) \/ SkipReap(w) \/ Reap(w)
    \/ \E S \in SUBSET Due : Claim(w, S)
    \/ ClaimNothing(w) \/ Poll(w) \/ StopWaiting(w)
    \/ \E j \in Jobs : \/ Dispatch(w, j) \/ Release(w, j) \/ FinishOk(w, j)
                       \/ FinishTerminal(w, j) \/ FinishRetry(w, j)

\* What goes wrong around it.
Disrupt(w) ==
    \/ ReapFails(w) \/ Signal(w) \/ Crash(w)
    \/ \E S \in SUBSET Due : ClaimFails(w, S)
    \/ \E j \in Jobs : ReleaseFails(w, j) \/ FinishUnrecorded(w, j)

Next ==
    \/ \E j \in Jobs, d \in EnqueueDelays : Enqueue(j, d)
    \/ \E w \in Workers : WorkerStep(w) \/ Disrupt(w) \/ Restart(w)
    \/ Relay \/ LoseNotify \/ Tick

Spec == Init /\ [][Next]_vars

\* Workers run, ended processes are replaced and time passes.  Nothing makes
\* callers enqueue, a NOTIFY arrive, or trouble happen.
Fairness ==
    /\ \A w \in Workers : WF_vars(WorkerStep(w)) /\ WF_vars(Restart(w))
    /\ WF_vars(Tick)

FairSpec == Spec /\ Fairness

-----------------------------------------------------------------------------
\* A row is locked exactly while in_progress.
RowsOK ==
    /\ status \in [Jobs -> Status]
    /\ attempts \in [Jobs -> Nat]
    /\ delay \in [Jobs -> Nat]
    /\ lockedBy \in [Jobs -> Workers \cup {NoWorker}]
    /\ age \in [Jobs -> Nat]
    /\ \A j \in Jobs : lockedBy[j] # NoWorker <=> status[j] = "in_progress"

\* Every variable stays in its type; a row is locked exactly while in_progress,
\* as complete, fail_retry, fail_dead and reap_stuck clear the lock columns.
TypeOK ==
    /\ RowsOK
    /\ pc \in [Workers -> Loop]
    /\ batch \in [Workers -> SUBSET Jobs]
    /\ got \in [Workers -> [Jobs -> Nat]]
    /\ current \in [Workers -> Jobs \cup {NoJob}]
    /\ elapsed \in [Workers -> Nat]
    /\ reapDue \in [Workers -> BOOLEAN]
    /\ signal \in [Workers -> {"none", "sent", "seen"}]
    /\ notify \in BOOLEAN
    /\ overdue \subseteq {j \in Jobs : status[j] # "absent"}
    /\ disrupted \in 0 .. MaxDisruptions

\* "N replicas drain in parallel without double-processing" (005_jobs.sql): a job
\* is dispatched only while its row is locked by the worker dispatching it, so
\* neither two workers at once nor a second one after a first run it.  The lock
\* is taken once for a batch, and is not renewed from job to job.
NoDoubleProcessing ==
    \A w \in Workers : current[w] # NoJob =>
        /\ status[current[w]] = "in_progress"
        /\ lockedBy[current[w]] = w

\* Lifecycle of 005_jobs.sql: nothing leaves completed or dead, although
\* complete, fail_retry and fail_dead only match on the id, but for a job that a
\* worker still holds whose lock has expired.
TerminalIsFinal ==
    [][\A j \in Jobs \ overdue : status[j] \in Final => status'[j] = status[j]]_vars

\* max_attempts bounds how often a job is claimed, but for the claims that a
\* crash, a shutdown release, a lost write or an overrun wasted (attempts is
\* bumped by claim_batch, not by the failure), also while several workers hold
\* one job and each gives it back by its own copy of attempts.
AttemptsAccounted == \A j \in Jobs : attempts[j] <= MaxAttempts + disrupted

\* A worker that stopped on the signal left no row locked: what it had claimed
\* was settled or released, and no reap_stuck is needed (unless a second thing
\* went wrong, such as a lost write).
StoppedHoldsNothing ==
    disrupted <= 1 =>
        \A w \in Workers, j \in Jobs : pc[w] = "stopped" => lockedBy[j] # w

\* The contract, for what callers see of a row.
Contract == INSTANCE JobContract WITH
    state <- [j \in Jobs |-> IF status[j] \in Final THEN "settled"
                             ELSE IF status[j] = "absent" THEN "absent" ELSE "open"],
    run   <- current,
    late  <- overdue

\* The queue keeps its contract: whatever crashes, expires, is lost or signalled,
\* a job that is not late has one runner at a time and only that runner settles
\* it.  The SQL checks neither: complete, fail_retry and fail_dead match on the
\* id alone.
ImplementsContract == Contract!Spec

\* "events survive replica crashes ... and never silently drop" (005_jobs.sql):
\* an enqueued job ends completed or dead, whatever was lost on the way.
JobsSettle == Contract!Settles

\* Worker w still owns the row of every job left in its batch, by a lock that
\* reap_stuck does not find expired, but for those that are overdue.
Owns(w) ==
    /\ batch[w] # {} => pc[w] = "batch"
    /\ current[w] # NoJob => Holds(w, current[w])
    /\ \A j \in batch[w] \ overdue : /\ status[j] = "in_progress"
                                     /\ lockedBy[j] = w
                                     /\ age[j] <= StuckLock

\* A row changes hands only when its lock expires: the inductive form of the
\* contract.  An overdue job is owned again once nobody holds it any more.
BatchOwned == \A w \in Workers : Owns(w)
=============================================================================
