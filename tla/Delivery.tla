------------------------------ MODULE Delivery ------------------------------
(***************************************************************************)
(* What comes of the jobs: who enqueues them (post_submit, the one-time    *)
(* backfill of tasks/startup_backfill.rs, role_config_save), and what the  *)
(* workers do with them (dispatch in tasks/job_worker.rs): deliver_once of *)
(* services/webhook.rs, and the replacement of a link's list.              *)
(*                                                                         *)
(* The queue itself is JobContract, which JobQueue implements.  A webhook  *)
(* job names its response, a config_sync job the link and who enqueued it. *)
(* Which list a config_sync uploads is RoleSync's subject; here it is any  *)
(* of those its query might return.                                        *)
(***************************************************************************)
EXTENDS Upload

CONSTANTS
    Replicas,
    Responses,     \* those to forms with a webhook
    Lists,         \* what a link's query may return
    MaxAttempts,   \* the max_attempts column
    OldWorkers,    \* workers of replicas that still run the previous release
    NoJob

Config(l, who) == [kind |-> "config", of |-> l, by |-> who]
Webhook(r)     == [kind |-> "webhook", of |-> r, by |-> r]

\* Enqueued by a replica's backfill or by saving the link.
ConfigJobs(l) == {Config(l, who) : who \in Replicas \cup {l}}

Jobs == {Config(l, p) : l \in Links, p \in Replicas}
        \cup {Config(l, l) : l \in Links} \cup {Webhook(r) : r \in Responses}

ASSUME DeliveryAssumption ==
    /\ Lists \in [Links -> SUBSET SUBSET Users]
    /\ MaxAttempts \in Nat \ {0} /\ OldWorkers \subseteq Workers
    /\ NoJob \notin Jobs
    /\ Replicas \cap Links = {} /\ Responses \cap (Replicas \cup Links) = {}

VARIABLES
    state, run, late,  \* the queue
    tries,        \* how often each job was run
    dead,         \* the jobs in the DLQ
    accepted,     \* the responses that committed
    got,          \* external: how often a webhook reached its receiver
    posting,      \* the answer on its way to each worker: none, "ok" or "bad"
    bound,        \* links bound to a form
    saving,       \* links just bound, whose config_sync is not enqueued yet
    early,        \* history: links bound before the backfill looked for them
    evaluated,    \* links evaluated since by this release
    boot,         \* the backfill transaction of each replica
    marker        \* its row in startup_backfills

queue    == <<state, run, late, tries, dead>>
webhooks == <<accepted, got, posting>>
links    == <<bound, saving, early, evaluated>>
backfill == <<boot, marker>>
vars     == <<upload, troubled, queue, webhooks, links, backfill>>

Queue == INSTANCE JobContract

Down == [stage |-> "down", links |-> {}]

Init ==
    /\ UploadInit
    /\ Queue!Init
    /\ tries = [j \in Jobs |-> 0] /\ dead = {}
    /\ accepted = {}
    /\ got = [r \in Responses |-> 0]
    /\ posting = [w \in Workers |-> "none"]
    /\ bound \in SUBSET Links /\ early = bound /\ saving = {} /\ evaluated = {}
    /\ boot = [p \in Replicas |-> Down] /\ marker = FALSE

-----------------------------------------------------------------------------
(* Who enqueues. *)

\* post_submit: response and webhook job in one transaction.
Submit(r) ==
    /\ Queue!Submit(Webhook(r))
    /\ accepted' = accepted \cup {r}
    /\ UNCHANGED <<upload, troubled, tries, dead, got, posting, links, backfill>>

\* A backfill that may yet commit has looked for links, or one has committed.
Looked == marker \/ \E p \in Replicas : boot[p].stage = "inserted"

\* role_config_save commits; what it enqueues afterwards is a step of its own.
Bind(l) ==
    /\ l \notin bound
    /\ bound' = bound \cup {l} /\ saving' = saving \cup {l}
    /\ early' = IF Looked THEN early ELSE early \cup {l}
    /\ UNCHANGED <<upload, troubled, queue, webhooks, evaluated, backfill>>

EnqueueSaved(l) ==
    /\ l \in saving
    /\ Queue!Submit(Config(l, l))
    /\ saving' = saving \ {l}
    /\ UNCHANGED <<upload, troubled, tries, dead, webhooks, bound, early, evaluated,
                   backfill>>

\* Best effort: a failure is logged, or the process ends before.
EnqueueLost(l) ==
    /\ l \in saving
    /\ saving' = saving \ {l}
    /\ UNCHANGED <<upload, troubled, queue, webhooks, bound, early, evaluated, backfill>>

\* Mutant: a marker that is not committed yet is not waited for.
ClaimMarkerAtOnce(p) ==
    /\ boot[p].stage = "down" /\ ~marker
    /\ boot' = [boot EXCEPT ![p].stage = "claimed"]
    /\ UNCHANGED <<upload, troubled, queue, webhooks, links, marker>>

\* Mutant: the marker has a transaction of its own.
ClaimMarkerForGood(p) ==
    /\ boot[p].stage = "down" /\ ~marker
    /\ boot' = [boot EXCEPT ![p].stage = "claimed"]
    /\ marker' = TRUE
    /\ UNCHANGED <<upload, troubled, queue, webhooks, links>>

\* A replica starts, for the first time or again, and runs
\* resync_all_form_links.  INSERT .. ON CONFLICT DO NOTHING waits for a
\* transaction that has inserted the name; once one has committed it inserts
\* nothing, and that is all.
ClaimMarker(p) ==
    /\ boot[p].stage = "down" /\ ~marker
    /\ \A q \in Replicas : boot[q].stage = "down"
    /\ boot' = [boot EXCEPT ![p].stage = "claimed"]
    /\ UNCHANGED <<upload, troubled, queue, webhooks, links, marker>>

\* INSERT INTO jobs .. SELECT FROM role_links: the links bound at this moment.
InsertJobs(p) ==
    /\ boot[p].stage = "claimed"
    /\ boot' = [boot EXCEPT ![p] = [stage |-> "inserted", links |-> bound]]
    /\ UNCHANGED <<upload, troubled, queue, webhooks, links, marker>>

CommitBackfill(p) ==
    /\ boot[p].stage = "inserted"
    /\ marker' = TRUE
    /\ state' = [j \in Jobs |-> IF \E l \in boot[p].links : j = Config(l, p)
                                THEN "open" ELSE state[j]]
    /\ boot' = [boot EXCEPT ![p] = Down]
    /\ UNCHANGED <<upload, troubled, run, late, tries, dead, webhooks, links>>

\* An error or the end of the process rolls back; the next boot tries again.
BackfillFails(p) ==
    /\ boot[p].stage # "down"
    /\ Trouble("backfill")
    /\ boot' = [boot EXCEPT ![p] = Down]
    /\ UNCHANGED <<upload, queue, webhooks, links, marker>>

-----------------------------------------------------------------------------
(* dispatch. *)

Running(w, kind) == run[w] # NoJob /\ run[w].kind = kind

\* Nobody runs a late job more often than it was claimed (AttemptsAccounted of
\* JobQueue).
Take(w, j) ==
    /\ Queue!Start(w, j)
    /\ j \in late => tries[j] < MaxAttempts + troubled
    /\ tries' = [tries EXCEPT ![j] = @ + 1]
    /\ UNCHANGED <<upload, troubled, dead, webhooks, links, backfill>>

\* Ok(()).
Done(w) == Queue!Settle(w) /\ dead' = dead \ {run[w]} /\ UNCHANGED tries

\* JobError::Terminal.
Bury(w) == Queue!Settle(w) /\ dead' = dead \cup {run[w]} /\ UNCHANGED tries

\* JobError::Retry.  A worker goes by its own copy of attempts, which for a late
\* job may be older; fail_retry then takes it out of the DLQ.
Retry(w) ==
    \/ tries[run[w]] >= MaxAttempts /\ Bury(w)
    \/ /\ tries[run[w]] < MaxAttempts \/ run[w] \in late
       /\ Queue!Abandon(w) /\ state'[run[w]] = "open"
       /\ dead' = dead \ {run[w]}
       /\ UNCHANGED tries

\* The lock of job j expires under a worker that has claimed it.
Overrun(j) ==
    /\ Trouble("late")
    /\ Queue!Overrun({j})
    /\ UNCHANGED <<upload, tries, dead, webhooks, links, backfill>>

\* Every worker has settled what it claimed before.
LetGo ==
    /\ late' = {j \in late : \E w \in Workers : run[w] = j} /\ late' # late
    /\ Queue!LetGo
    /\ UNCHANGED <<upload, troubled, tries, dead, webhooks, links, backfill>>

\* deliver_once posts, and the receiver takes it.
Post(w) ==
    /\ Running(w, "webhook") /\ posting[w] = "none"
    /\ got' = [got EXCEPT ![run[w].of] = @ + 1]
    /\ posting' = [posting EXCEPT ![w] = "taken"]
    /\ UNCHANGED <<upload, troubled, queue, accepted, links, backfill>>

\* 2xx.
Posted(w) ==
    /\ posting[w] = "taken"
    /\ Done(w)
    /\ posting' = [posting EXCEPT ![w] = "none"]
    /\ UNCHANGED <<upload, troubled, accepted, got, links, backfill>>

\* Mutant: the failure is logged and forgotten, as those of add_user are.
UnavailableIgnored(w) ==
    /\ Running(w, "webhook")
    /\ Trouble("webhook")
    /\ Done(w)
    /\ posting' = [posting EXCEPT ![w] = "none"]
    /\ UNCHANGED <<upload, accepted, got, links, backfill>>

\* No address, no answer in time, 5xx, 408 or 429, whether taken or not.
Unavailable(w) ==
    /\ Running(w, "webhook")
    /\ Trouble("webhook")
    /\ Retry(w)
    /\ posting' = [posting EXCEPT ![w] = "none"]
    /\ UNCHANGED <<upload, accepted, got, links, backfill>>

\* An unsafe URL, a private address or any other 4xx.
Rejected(w) ==
    /\ Running(w, "webhook") /\ posting[w] = "none"
    /\ Trouble("reject")
    /\ Bury(w)
    /\ UNCHANGED <<upload, webhooks, links, backfill>>

\* This release has looked at the link, and w's job is done.
Evaluated(w) ==
    /\ evaluated' = IF w \in OldWorkers THEN evaluated ELSE evaluated \cup {run[w].of}
    /\ Done(w)
    /\ UNCHANGED <<webhooks, bound, saving, early, backfill>>

\* sync_for_role_link finds in role_assignments what its query returned.
Unchanged(w) ==
    /\ Running(w, "config") /\ call[w] = NoCall
    /\ Evaluated(w)
    /\ UNCHANGED <<upload, troubled>>

Replace(w) ==
    /\ Running(w, "config") /\ call[w] = NoCall
    /\ \E S \in Lists[run[w].of] : Ask(w, run[w].of, S)
    /\ UNCHANGED <<remote, session, troubled, queue, webhooks, links, backfill>>

\* role_assignments are rewritten.
Recorded(w) ==
    /\ call[w].stage = "ok"
    /\ Evaluated(w)
    /\ Leave(w)
    /\ UNCHANGED <<remote, session, troubled>>

\* The upload failed, or recording it did.  The failures that sync_for_role_link
\* knows (RoleLinkNotFound, UserLimitReached, RemovalHeld ..) are in RoleSync.
ReplaceFails(w) ==
    /\ \/ call[w].stage = "failed" /\ UNCHANGED troubled
       \/ call[w].stage = "ok" /\ Trouble("write")
    /\ Retry(w)
    /\ Leave(w)
    /\ UNCHANGED <<remote, session, webhooks, links, backfill>>

Transfer(w) ==
    /\ UploadStep(w) \/ UploadTrouble(w)
    /\ UNCHANGED <<queue, webhooks, links, backfill>>

\* Mutant: the next job finds the state of the last one.
CrashInPlace(w) ==
    /\ Trouble("crash")
    /\ Queue!Abandon(w) /\ UNCHANGED state
    /\ UNCHANGED <<upload, tries, dead, webhooks, links, backfill>>

\* The worker dies; reap_stuck gives the job to another.
Crash(w) ==
    /\ Trouble("crash")
    /\ Queue!Abandon(w) /\ UNCHANGED state
    /\ Leave(w)
    /\ posting' = [posting EXCEPT ![w] = "none"]
    /\ UNCHANGED <<remote, session, tries, dead, accepted, got, links, backfill>>

DropSession(l) ==
    /\ Expire(l) \/ ExpireEarly(l)
    /\ UNCHANGED <<queue, webhooks, links, backfill>>

-----------------------------------------------------------------------------
Work(w) ==
    \/ \E j \in Jobs : Take(w, j)
    \/ Post(w) \/ Posted(w) \/ Unchanged(w) \/ Replace(w) \/ Transfer(w)
    \/ Recorded(w) \/ ReplaceFails(w)

Next ==
    \/ \E r \in Responses : Submit(r)
    \/ \E l \in Links : Bind(l) \/ EnqueueSaved(l) \/ EnqueueLost(l) \/ DropSession(l)
    \/ \E p \in Replicas :
          \/ ClaimMarker(p) \/ InsertJobs(p) \/ CommitBackfill(p)
          \/ BackfillFails(p)
    \/ \E w \in Workers : Work(w) \/ Unavailable(w) \/ Rejected(w) \/ Crash(w)
    \/ \E j \in Jobs : Overrun(j)
    \/ LetGo

Spec == Init /\ [][Next]_vars

\* Workers work, also through what they have claimed.
FairSpec ==
    /\ Spec
    /\ \A w \in Workers : WF_vars(Work(w))
    /\ WF_vars(LetGo)

-----------------------------------------------------------------------------
\* Every variable stays in its type, and no worker has a call or a post under
\* way but for the job it runs.
TypeOK ==
    /\ UploadTypeOK /\ Queue!TypeOK
    /\ tries \in [Jobs -> Nat] /\ dead \subseteq Jobs
    /\ accepted \subseteq Responses /\ got \in [Responses -> Nat]
    /\ posting \in [Workers -> {"none", "taken"}]
    /\ bound \subseteq Links /\ saving \subseteq bound /\ evaluated \subseteq bound
    /\ early \subseteq bound
    /\ boot \in [Replicas -> [stage : {"down", "claimed", "inserted"},
                              links : SUBSET Links]]
    /\ marker \in BOOLEAN
    /\ \A w \in Workers :
          /\ posting[w] # "none" => Running(w, "webhook")
          /\ call[w] # NoCall => Running(w, "config") /\ run[w].of = call[w].link

\* "exactly once across all boots and replicas" (startup_backfill.rs), never
\* twice: only one replica's backfill has ever enqueued jobs, and not without
\* leaving the marker.
BackfillOnce ==
    \A p, q \in Replicas, k, l \in Links :
        state[Config(k, p)] # "absent" /\ state[Config(l, q)] # "absent" =>
            p = q /\ marker

\* .. nor not at all: once the marker is there, every link that was bound before
\* the backfill looked is evaluated by this release, or its job is in the DLQ,
\* whatever crashed between claiming the marker and enqueueing; and so is a link
\* bound since, if its job was enqueued: that is best effort (role_config_save).
LinksEvaluated ==
    \A l \in Links :
        \/ marker /\ l \in early
        \/ state[Config(l, l)] # "absent"
        ~> l \in evaluated \/ \E j \in ConfigJobs(l) : j \in dead

\* "never silently drop" (005_jobs.sql): the webhook of a committed response
\* reaches its receiver or is left in the DLQ, where an operator sees it.
WebhooksArrive ==
    \A r \in Responses : r \in accepted ~> got[r] > 0 \/ Webhook(r) \in dead
=============================================================================
