---------------------------- MODULE JobContract ----------------------------
(***************************************************************************)
(* What the queue promises to those who enqueue jobs, without batches,     *)
(* locks, timers or attempts:                                              *)
(*                                                                         *)
(*   - a job is run by one worker at a time, and only while it is open;    *)
(*   - it is settled by the worker that has just run it and by nobody      *)
(*     else, so every settled job has been run;                            *)
(*   - it may be run more than once, and never again once it is settled;   *)
(*   - an open job is settled in the end;                                  *)
(*   - but a job may become late, when a worker is busy for longer than    *)
(*     its lock lasts.  Until all workers have let go of it, several may   *)
(*     run it at once, also when it is settled, and any of them may open   *)
(*     it again.                                                           *)
(*                                                                         *)
(* migrations/005_jobs.sql promises more, without the last point: "drain   *)
(* in parallel without double-processing".                                 *)
(***************************************************************************)
CONSTANTS Jobs, Workers, NoJob

VARIABLES
    state,   \* "absent" until it is enqueued, "open", "settled"
    run,     \* the job each worker is running
    late     \* the jobs that are late

vars == <<state, run, late>>

TypeOK ==
    /\ state \in [Jobs -> {"absent", "open", "settled"}]
    /\ run \in [Workers -> Jobs \cup {NoJob}]
    /\ late \subseteq {j \in Jobs : state[j] # "absent"}

Init ==
    /\ state = [j \in Jobs |-> "absent"]
    /\ run = [w \in Workers |-> NoJob]
    /\ late = {}

\* The transaction of whoever enqueues the job commits.
Submit(j) ==
    /\ state[j] = "absent"
    /\ state' = [state EXCEPT ![j] = "open"]
    /\ UNCHANGED <<run, late>>

Start(w, j) ==
    /\ run[w] = NoJob /\ state[j] # "absent"
    /\ j \notin late => state[j] = "open" /\ \A v \in Workers : run[v] # j
    /\ run' = [run EXCEPT ![w] = j]
    /\ UNCHANGED <<state, late>>

\* A job that somebody runs stays late.
Recover == /\ late' \in SUBSET late
           /\ \A j \in late \ late', w \in Workers : run'[w] # j

\* The job is done, or given up for good.
Settle(w) ==
    /\ run[w] # NoJob
    /\ state' = [state EXCEPT ![run[w]] = "settled"]
    /\ run' = [run EXCEPT ![w] = NoJob]
    /\ Recover

\* It failed, or its worker died, or its outcome was not recorded.
Abandon(w) ==
    /\ run[w] # NoJob
    /\ run' = [run EXCEPT ![w] = NoJob]
    /\ \/ UNCHANGED state
       \/ run[w] \in late /\ state' = [state EXCEPT ![run[w]] = "open"]
    /\ Recover

\* A worker gives back a late job that it has not begun to run.
Reopen(j) ==
    /\ j \in late
    /\ state' = [state EXCEPT ![j] = "open"]
    /\ UNCHANGED run
    /\ Recover

\* Workers let go of late jobs that they have not begun to run.
LetGo == UNCHANGED <<state, run>> /\ Recover

\* The locks of the jobs in S expire under a worker.
Overrun(S) ==
    /\ \A j \in S : state[j] = "open"
    /\ late' = late \cup S
    /\ UNCHANGED <<state, run>>

Next ==
    \/ \E j \in Jobs : Submit(j) \/ Reopen(j)
    \/ \E w \in Workers, j \in Jobs : Start(w, j)
    \/ \E w \in Workers : Settle(w) \/ Abandon(w)
    \/ LetGo
    \/ \E S \in SUBSET Jobs : Overrun(S)

Spec == Init /\ [][Next]_vars

\* No more than the promise that an open job is settled in the end.
Settles == \A j \in Jobs : state[j] = "open" ~> state[j] = "settled"

\* One worker at a time, and only an open job: what the promise above gives.
OneRunner ==
    \A w \in Workers : run[w] # NoJob /\ run[w] \notin late =>
        /\ state[run[w]] = "open"
        /\ \A v \in Workers : run[v] = run[w] => v = w
=============================================================================
