# Form Respondent Role: specifications

TLA+ models of the Form Respondent Role server: what its jobs, transactions and pages
may do in any order, with which failures, and what holds all the same. TLC checks the
models on small instances; TLAPS proves the theorems named below for every value of
the constants. `PROJECT.json` maps each definition to the lines it stands for. Paths
are relative to the repository.

    tlc -config RoleSyncOne.cfg MCRoleSync      one run
    tlapm RoleSyncProofs.tla                    one module of proofs

## 1. The system

Discord members fill in a form; admins bind the form to a role with a rule; the server
keeps the role's member list on RoleLogic equal to the members whose answers meet the
rule. All state is in PostgreSQL; several replicas of one process run web handlers and
polling workers over it.

| component | source | state | operations | interacts with |
|---|---|---|---|---|
| form submission | `src/routes/form_render.rs` | `form_responses` | `get_form`, two SELECTs; `post_submit`, one transaction | form row (FOR SHARE), retry engine, validator, inserts jobs |
| retry engine | `src/services/retry.rs` | none | `decide` | called in the transaction |
| form validation, quiz scoring | `src/services/form_validator.rs`, `src/models/form.rs` | none | `validate`, `compute_quiz_score`, `sanity_check`, `validate_quiz_keys` | submission, form saves |
| form and response administration | `src/routes/admin.rs`, `templates/builder.html` | `forms`, `role_links`; the state of a page | create, save, duplicate, delete; delete responses; save a role's rule | all tables, enqueues re-syncs after the commit, best effort |
| role config schema | `src/schema.rs` | none | `parse_role_config` | role config save |
| condition evaluation | `src/services/condition_eval.rs` | none | `evaluate` | both sync paths |
| job queue | `src/services/jobs.rs`, `migrations/005_jobs.sql` | `jobs` | enqueue, `claim_batch`, `complete`, `fail_retry`, `fail_dead`, `reap_stuck` | workers, listener, all writers |
| job worker | `src/tasks/job_worker.rs` | its batch | poll, reap, claim, dispatch, settle | queue, sync, webhook |
| job listener | `src/tasks/job_listener.rs` | none | relay NOTIFY | workers |
| shutdown | `src/tasks/shutdown.rs`, `src/main.rs` | a broadcast channel | signal, join | workers, listener |
| role synchronisation | `src/services/sync.rs` | `role_assignments` | `sync_for_player`, `sync_for_role_link` | gateway, RoleLogic |
| RoleLogic client | `src/services/rolelogic.rs` | none (the list is remote) | add, remove, replace, chunked upload | RoleLogic |
| auth gateway client | `src/services/auth_gateway.rs` | none | guilds, opt-outs | gateway |
| plugin callbacks | `src/routes/plugin.rs` | `role_links` with their tokens | register, get/post/delete config | RoleLogic calls them |
| startup backfill | `src/tasks/startup_backfill.rs` | `startup_backfills` | re-sync every bound link once | queue |
| webhook delivery | `src/services/webhook.rs` | none | `deliver_once`, one POST | job worker |
| listing, embedding, sessions, health, configuration | the rest of `src/` | cookies, tokens | | |

What is hard in it:

- *interleaving*: workers of several replicas take jobs about the same member and
  link; several tabs of a member submit; several tabs of admins save;
- *atomicity*: `player_sync` reads `role_assignments`, calls two services and then
  writes; `update_form` updates a row and reads its version afterwards;
- *failure*: a crash between the call to RoleLogic and the record of it, a lookup that
  fails, a write that is lost after the job has run, a best-effort enqueue that fails
  after a commit;
- *ordering and time*: debounced jobs overtake each other, a lock may expire under a
  worker that is alive, a NOTIFY may be lost, RoleLogic may call `delete_config` after
  it has registered the link again;
- *several processes*: replicas boot at once and each wants to backfill, an upload
  session is left open by a worker that died;
- *stale data*: a rule was validated against a question that has changed, a form was
  rendered in a version that has gone, a page says what a later submission must keep
  to.

What makes each component correct is stated in section 4; `PROJECT.json` lists the
hazards at their lines, with the properties that cover them or the reason why none
does.

## 2. The modules

| module | models | a step is |
|---|---|---|
| `JobContract` | what the queue promises to those who enqueue | submit, start, settle or abandon a job |
| `JobQueue` | the `jobs` table, the workers' loop, NOTIFY relay, shutdown; implements `JobContract` | one SQL statement, or one branch of the loop |
| `Retry` | `decide` and the settings of a form, as operators | no state |
| `SerialForm` (EXTENDS `Retry`) | what a form promises to members and admins | one submission, save or deletion at once |
| `Submission` (EXTENDS `Retry`) | `get_form` and `post_submit` in several tabs against form saves and deletions; implements `SerialForm` | one SELECT, or the part of a transaction between two waits |
| `RoleSync` | `player_sync` and `config_sync` over several guilds, against members, admins, owners, the plugin callbacks and RoleLogic | one statement or one call to another service |
| `ReplaceList` | what `config_sync` counts on when it replaces a list | ask, replace, succeed, fail, return |
| `Upload` | `upload_users`: one PUT or a chunked session; implements `ReplaceList` | one request carried out, refused, or answered |
| `Delivery` (EXTENDS `Upload`, over `JobContract`) | who enqueues jobs (submission, saving a link, the boot-time backfill) and what the workers do with them (webhooks, lists) | one statement, one commit, one call or its answer |
| `Eligibility` | one answer's way from the page to points and role: validator, quiz keys, rule schema, evaluator | one save or one submission |
| `FormBuilder` | tabs of the builder page and `update_form` with its version check | one statement, or one event in a page |

`JobContract`, `SerialForm` and `ReplaceList` are abstract: they leave out every
mechanism of the code (locks, transactions, sessions) and say only what others rely
on. `JobQueue`, `Submission` and `Upload` instantiate them with a mapping of their
state and are checked to implement them. `Delivery` stands on `JobContract` in place
of `JobQueue`, so that it need not know about batches and timers, and `RoleSync` on
`ReplaceList`: its upload is one step, carried out or not.

`MC*` modules name the model values and sets of the instances; `*Proofs` modules hold
the theorems. In every component a definition headed "Mutant" is a plausible bug, next
to the definition that it would replace; no specification uses it.

### JobQueue

A timestamp is kept as its distance to now (`delay` of next_run_at, `age` of
locked_at), so that time is a bounded set of ticks: `Tick` shortens the one and
lengthens the other. `batch`, `got` and `current` are what a worker holds in memory:
the claimed rows, its *copy* of their attempts (which `fail_retry` compares with
max_attempts) and the job it is dispatching. `Complete`, `FailRetry` and `FailDead`
match on the id only, as the SQL does. `signal` is the receiver of the broadcast
channel: once read it is empty, and the loop reads it in three places. What a job does
is only its outcome (done, terminal, retry); it may take up to `MaxJob` ticks, and
another worker's `reap_stuck` may come any time. For the contract a job is settled
when it is completed or dead, and its runner is the worker that dispatches it, not the
worker that has it in a batch.

The lock is taken once for a batch, so nothing keeps it from expiring under a worker
that is alive: BATCH_SIZE is 8, one sync may take about 30 minutes and STUCK_LOCK_SECS
is 45. No constant is assumed that would rule this out. A job whose lock expires while
a worker still holds it becomes `overdue`, and stays so until all workers have let go
of it; `overdue` is history, which no step reads. `JobContract` calls such a job late
and says what may then happen: several may run it, and any of them may open it again
after it was settled.

### Submission, Retry and SerialForm

A tab opens the page (stages opening, open), by two SELECTs without a transaction, and
`page` keeps what `build_retry_status` has put on it. Its request goes through the
stages begun, read (holding the form row FOR SHARE), locked (holding the advisory lock
of form and member), loaded (holding the canonical row FOR UPDATE), ended. A lock is a
predicate over stages (`SharesForm`, `HoldsMember`, `LocksRow`); an action that needs
it has its absence as a guard, so waiting is being disabled. `committed` and `erased`
are the history the properties are about; nothing reads them but the properties.
`delete_form` is three steps (responses, form and commit, or rollback): the first is
where it can deadlock with a submission, and `DeadlockVictim` is PostgreSQL's way out.

`SerialForm` has neither stages nor locks: a submission is accepted or refused in one
step, by the settings and rows of that moment. Only the time that a submission goes by
may lie in the past. The mapping shows the rows while the form is there; rows that
outlive it (section 4) are seen by nobody.

### RoleSync

`remote` is RoleLogic's list of each link, `mirror` the role_assignments rows,
`answers` the responses. Each guild has one form and one link; a `player_sync` works
on all guilds of its member, with a lookup and a change of its own for each, so that a
gateway that fails for one guild must not stop the others. A rule is the set of
answers that qualify. The queue is a bag, because debounce, backoff and the re-check
timer let any job overtake any other. A job carries what it has read (`had`, `rule`,
`token`, `want`) and whom the gateway told it of (`out`: a guild it was told nothing
of has nobody in it) from stage to stage, as the function's locals do, so each value
is as stale as in the code. Who opted out, `OptedOut`, is only read by the lookups and
by the properties. The gateway's list with the SELECT of the responses, and the SELECT
of role_assignments, are the steps `PlayerScope` and `PlayerHolds`. `ClearBegin` and
`ClearResponses` are the two statements of `delete_all_responses`, with anything in
between. `SaveLink` is the UPDATE of `role_config_save`, whose checks of link and form
lie before it: it may bind a form that is gone meanwhile, and of a link that is gone
it changes no row. `issued` is the token that RoleLogic knows the link by, `token` the
one in the row, `goodbyes` the calls of `delete_config` on their way. Failures are
switched on per run by `Troubles`, changes by `Changes`, guilds whose opt-outs are
never told by `Broken`.

### Upload and ReplaceList

`call` is where `upload_users` stands in each worker and what is left to send;
`session` is the open session of each link on RoleLogic, by whom and what it has
collected. Every request may be carried out and its answer lost, or not be carried out
(`StartLost`, `ChunkFails`, `Fail`); nothing cancels a session after a failed commit,
and the cancelling may fail. RoleLogic is modelled from what the client counts on: one
session per link, a commit that swaps the list at once, sessions nobody uses dropped
some time (`Expire`, not fair) or, as a trouble, while in use (`ExpireEarly`).
`ReplaceList` knows only calls that replace a whole list at most once, before they
return.

### Delivery

`boot` is the transaction of each replica's `resync_all_form_links`: claim the marker,
insert a job per bound link, commit, or roll back and try at the next boot. The INSERT
of a marker that another transaction has inserted waits, which is why a second replica
neither enqueues again nor goes without; a replica that waits, or finds the marker, has
changed nothing and is as good as down. `Bind`, and `EnqueueSaved` or `EnqueueLost`,
are `role_config_save`, whose enqueue comes after its commit, best effort; `early` are
the links that were bound before a backfill looked for them. A webhook job posts, the
receiver takes it or not, and the answer sorts into done, retry and dead. A
`config_sync` finds nothing to do or calls `upload_users`, for one of the lists its
query might return. Jobs become late by `Overrun`, as the contract has it: then two
workers may run one job, each goes by its own copy of attempts, and `fail_retry` of
one may bring back what the other has settled. `OldWorkers` are workers of replicas
that still run the release before.

### Eligibility

JSON values are records tagged with their kind; strings are members of `Texts`, and
what the libraries make of a string (trim, lower-case, parse as f64 or date, substring
and regex search) is a table given as a constant. Numbers count in halves, so that
fractions exist; NaN is a number that compares with none. The question may be saved
again under a stored answer and a saved rule, so answer, rule and question may belong
to different kinds. `Kept` is what `validate_number` makes of a number: a whole one
goes through i64 and stops at its ends (`MinWhole`, `MaxWhole`), all others are kept.
`Inf` and NaN are numbers too, which texts read as. An answer may be any JSON value,
also a list that names an option twice, which the validator takes. Booleans, commas
inside texts and size limits are left out. What the libraries do is assumed only as
far as the proofs need it: Rust prints an f64 so that it reads back, trimming twice is
trimming once, a number beyond i64 has no fraction, a page lets members pick any
option or tick any of the boxes.

### FormBuilder

A form is the set of edits that went into it: a save overwrites the row with the edits
its tab shows, so a lost update is an edit that leaves the row. The requests are
slots; with one slot no two saves overlap.

## 3. The runs

| run | result | shows | instance |
|---|---|---|---|
| `JobQueue` | passes | the contract, late jobs included; attempts are accounted for, a graceful stop leaves no lock, every enqueued job ends completed or dead | 2 workers, 2 jobs, batches of 2, lock and longest dispatch 1 tick, 2 crashes, signals, lost writes or overruns |
| `JobQueueLate` | violated: `NoDoubleProcessing` | a batch outlasts its lock, and two workers run one job | 1 overrun only |
| `SubmissionFixed` | passes | one row per member, attempts, policy, lock on pass, cooldown, and pages that are kept to | 3 tabs of a member, 6 settings, 3 clock ticks |
| `SubmissionChanged` | passes | transactions are as good as serial submissions; commits only against the current form; requests end | 3 tabs, 5 settings, 2 versions |
| `RoleSyncOne` | passes | the list ends right, also above the cap, with held removals and beside a guild whose lookup never works | 1 worker, 2 guilds, 3 members (the lowest id opted out), 1 rule (kept or not yet saved), caps 1 and 3, 4 changes, 1 more failed lookup |
| `RoleSyncAll` | passes | nobody who opted out gets the role; a late `delete_config` spares a link that was added again | 2 workers, 2 guilds (in one only re-syncs, and lookups that never work), 2 members, every change and trouble, 3 changes, 1 trouble |
| `RoleSyncRace` | violated: `QuietConverged` | two jobs of a member on two workers leave a stale role | 2 workers, 2 members, 3 changes |
| `RoleSyncFormGone` | violated: `FormGoneDrained` | deleting a form leaves its roles granted | 1 worker, 1 member |
| `Delivery` | passes | backfill once and for every link, lists whole, webhooks arrive or are buried, also when jobs become late | 2 workers, 2 replicas, 1 link with lists of 1 and 3 users, PUT up to 1, chunks of 2, 2 attempts, 1 trouble of any kind, an overrun among them |
| `Eligibility` | passes | points and role follow what was picked or typed | 15 questions (4 of them refused), 14 rule values, 28 answers, i64 from -1 to 2, all operators |
| `FormBuilderSerial` | passes | the optimistic lock keeps every edit when saves do not overlap | 3 tabs, 3 edits, 4 saves |
| `FormBuilderClobber` | violated: `NoClobber` | overlapping saves lose an edit | 2 tabs, 2 edits, 2 requests |

Why the bounds suffice. Two workers and two jobs are enough for one job to wait behind
another in a batch while a third party reaps; two disruptions allow a failure during
the recovery from the first, or a crash under a job that is late. With lock and
longest dispatch of one tick each, a batch of two outlasts its lock.
`StoppedHoldsNothing` speaks of the runs with at most one disruption, the signal
itself: a crash or a lost write leaves its lock to the reaper. Three tabs allow two in
conflict and one that saw the result of both; six settings cover each branch of
`decide`. A request may wait at most `MaxLag` = 1 tick between BEGIN and reading the
clock, and the cooldown of 2 is longer (`CooldownKept` and `PageKept` ask for that).
In RoleSync, two changes put a job of each kind in flight and the rest change the data
underneath; a cap of 1 with two qualifying members cuts, a cap of 3 does not; in
`RoleSyncOne` a member stops qualifying by another answer or a deletion, for its one
rule replaces the rule that nobody meets and does not shrink; a goodbye overtaken by a
registration takes two changes. In Delivery a list of one user is a PUT and a list of
three a session with two chunks, so that every request of the protocol can be the one
that fails; a single trouble suffices to leave a session behind or to use a boot up,
and the second attempt then meets what the first left. When a job becomes late both
workers may run it, and the session of the one refuses that of the other without
another trouble. `RuleUnsaved` in Eligibility lets the rule be saved once per
behaviour, at any time; the question and the answer change without end. In FormBuilder
a conflict needs two tabs, and a third shows that a stale one stays stale.

`CHECK_DEADLOCK FALSE` is set where the system really comes to rest: requests are sent
once each (Submission), changes are bounded (RoleSync), a form is deleted or its saves
are used up (FormBuilder), each response and link enqueues once and all jobs may be
settled (Delivery).

### Fairness

- `JobQueue`: each worker task runs on, a process that ended is restarted
  (OPERATIONS.md: the orchestrator replaces it), and time passes. Enqueueing, relaying
  a NOTIFY and every disruption are not fair: the poll timer alone must find each job.
- `Submission`: a request that has begun is carried on by its task, and PostgreSQL
  ends a deadlock. Members and admins owe nothing.
- `RoleSync`: each worker goes on with its jobs. Users, admins, owners and failures
  owe nothing.
- `Delivery`: each worker goes on with its jobs, which JobQueue shows of an open job,
  and works off the batches it has claimed (`LetGo`). Boots, backfills, submissions,
  what a request does after it has saved a link, the expiry of sessions and failures
  owe nothing.

## 4. What holds

The queue. `ImplementsContract`, `BatchOwned`, `TerminalIsFinal`, `AttemptsAccounted`,
`StoppedHoldsNothing` and `JobsSettle`, whatever STUCK_LOCK_SECS, BATCH_SIZE and the
length of a dispatch are; what they say of one runner, of ownership and of final
states is said of the jobs that are not overdue. Without that exception
(`NoDoubleProcessing`) it is false of the code's own constants. `AttemptsAccounted`
and `JobsSettle` make no exception: also a job that two workers hold is claimed at
most max_attempts times and once more per trouble, and ends.

Submissions. `ImplementsSerial`: whatever the tabs and admins do, the form looks as if
one submission had happened at a time. `OneRowPerMember`, `AttemptsWithinMax`,
`PolicyKept`, `PassLocks`, `CooldownKept` (less the time between BEGIN, which
last_edited_at records, and the check, and only when that is no longer than the
cooldown: a slower transaction sets last_edited_at back to before an earlier attempt,
and the next is let in too soon), `RowOfOneSubmission`, `CommitsCurrentVersion`,
`SubmissionsEnd`. `PageKept`: the page of `get_form` and `decide` each have their own
version of the rules, and no submission is accepted that its page ruled out.

Roles. With one worker at a time and no failing call, `QuietConverged`, `QuietSound`
(above the cap nobody keeps a role without qualifying), `MirrorTruthful` and
`Converges`, also when the lookup of another guild fails for good; with everything
going wrong, `OptOutHonoured` (a job that was told nothing of a guild's opt-outs
grants nothing there) and `LateGoodbye`. With two workers, a failing call, a crash or
a failing enqueue the first three are false, each for a reason of its own (below).

Jobs. `ImplementsReplace` (no list is ever seen in part), `BackfillOnce`,
`LinksEvaluated` (a link that was bound before the backfill looked, or whose own job
was enqueued, is evaluated or its job is in the DLQ; a link bound afterwards whose
best-effort enqueue failed may never be), `WebhooksArrive`; the last two also when
jobs become late.

Answers. `Complements` (neq and eq, not_contains and contains_any are exact opposites,
also for members without an answer), `PicksExact` (eq and in of an answer that names
no option twice; an answer that does meets neither, see below), `NumbersAgree` (beyond
i64 a whole number is compared as the end of i64, so that 1e19 is not gt
9223372036854775807; NaN meets no condition), `PointsExact`, `KeyReachable` (of choice
questions: a number key outside of min and max is saved, and no answer can have its
points).

Builder. `TabCurrent` and `NoClobber` while saves do not overlap.

### Where code and documents differ

Kept as runs, with the lines in `PROJECT.json`:

- two long dispatches of one batch outlast STUCK_LOCK_SECS and a second worker runs
  the waiting job too (`JobQueueLate`), although 005_jobs.sql:5-6 rules out double
  processing and OPERATIONS.md:64 counts on the lock being longer than the worst case
  of one;
- the stale role after two overlapping `player_sync` jobs (`RoleSyncRace`);
- the roles that outlive their form (`RoleSyncFormGone`);
- the lost update between two tabs (`FormBuilderClobber`).

Seen with TLC on other constants of the same models, without a run of their own (the
constants are `Changes`, `Troubles` and their bounds; the property is the one named):

- shutdown.rs:7 has every worker exit after the signal. `is_triggered` (shutdown.rs:60)
  takes the only message out of the receiver; a worker that reads it inside a batch
  (job_worker.rs:78) releases one job, runs the rest, finds the channel empty at the
  head of its loop and polls on (JobQueue with signals only: that a signalled worker
  ends under fairness is violated);
- a `config_sync` that overlaps with the `player_sync` of a new respondent takes that
  member off again (2 workers, submit and resync: `QuietConverged`);
- an error of the RoleLogic API in `player_sync` is logged and the job completes
  (sync.rs:271), while OPERATIONS.md:180-182 has it return to pending (1 submission, 1
  api trouble: `QuietConverged`);
- a crash between a call to RoleLogic and its record (sync.rs:282), or an enqueue that
  failed (admin.rs:1319), and a deleted response leaves its role: there is no periodic
  sync (sync.rs:651-652), which admin.rs:1316 counts on (submit and delete, 1 crash or
  1 enqueue trouble: `QuietConverged`);
- `delete_all_responses` looks for the bound links (admin.rs:1375) before it deletes
  (:1382): a link bound and synced in between keeps its list (submit, clear, save and
  unbind: `QuietConverged`);
- `delete_orphan_role_link` (sync.rs:681) matches on guild and role, where
  `delete_config` compares the token: a job that has read the token of a deleted link
  takes the row of the link that was added again (submit, deleteLink and register:
  `LateGoodbye` without its exception);
- a checkbox answer that names one option twice (form_validator.rs:183-190 keeps it)
  is not eq to that option, though condition_eval.rs:219-224 views an answer as a set
  of values (`PicksExact` without `Once`);
- while replicas of two releases run side by side, the backfill of the new one
  enqueues jobs that a worker of the old one takes, and the marker keeps anyone from
  enqueueing them again (Delivery with OldWorkers = {w2}: `LinksEvaluated`);
- a response can be committed between delete_form's two DELETEs and stay without a
  form; nothing reads it.

These are sums, or readings, and no model: the cooldown counts from BEGIN, not from
the commit; a job is dead after 2+4+...+128 = 254 s of backoff, not after the 40
minutes of OPERATIONS.md:186; the chunked upload knows no answer "user limit reached",
so a list above both the cap and PUT_MAX_USERS is retried until it is dead and never
capped; `register` (`plugin.rs:44-47`) keeps the role_assignments rows it finds,
whatever RoleLogic starts from.

## 5. What is proved

| theorem | statement | argument |
|---|---|---|
| `JobQueueProofs!TypeCorrect` | `Spec => []TypeOK` | inductive; includes "locked exactly while in_progress" |
| `JobQueueProofs!BatchesOwned` | `Spec => []BatchOwned` | inductive: a row changes hands only when its lock expires |
| `JobQueueProofs!FinalStays` | `Spec => TerminalIsFinal` | from `BatchOwned`, one step per statement |
| `JobQueueProofs!KeepsContract` | `Spec => ImplementsContract` | from `BatchOwned`: each step is one of the contract or a stutter |
| `JobQueueProofs!AttemptsBounded` | `Spec => []AttemptsAccounted` | inductive `Ledger`: what may still be claimed is paid for |
| `JobQueueProofs!StopsClean` | `Spec => []StoppedHoldsNothing` | inductive: what a worker locks it holds in its batch, until the first disruption |
| `SubmissionProofs!TypeCorrect` | `Spec => []TypeOK` | `Typed`: `TypeOK` and `Knows`, what a transaction has read at each stage |
| `SubmissionProofs!CommitsCurrent` | `Spec => CommitsCurrentVersion` | inductive `FormHeld`: while a request shares the form, the form is there in its version |
| `SubmissionProofs!OneResponse` | `Spec => [](version = 1 => OneRowPerMember)` | inductive `Held` (what the locks of a transaction exclude) and `OneRow` |
| `SubmissionProofs!RowsWhole` | `Spec => []RowOfOneSubmission` | inductive with `Held` |
| `SubmissionProofs!SubmissionsSerial` | `Spec => ImplementsSerial` | from `Held` and `Timed`: each step is one of `SerialForm` or a stutter |
| `SubmissionAttemptProofs!AttemptsBoundedByMax` | `Spec => [](version = 1 => AttemptsWithinMax)` | inductive `Steady`: the row counts the commits that count |
| `SubmissionAttemptProofs!PolicyFollowed` | `Spec => [](version = 1 => PolicyKept)` | inductive `PolicyHeld` over `Steady` |
| `SubmissionAttemptProofs!PassIsLast` | `Spec => [](version = 1 => PassLocks)` | inductive `PassHeld` over `PolicyHeld` |
| `SubmissionAttemptProofs!AttemptsApart` | `Spec => [](version = 1 => CooldownKept)` | inductive `CooldownHeld` with `EditedLate` |
| `SubmissionAttemptProofs!PagesKept` | `MaxVersion = 1 => (Spec => PageKept)` | inductive `Pages`: what the page showed is still true of the row |
| `RoleSyncProofs!TypeCorrect` | `Spec => []TypeOK` | one lemma per kind of step |
| `RoleSyncProofs!OptOut` | `Spec => []OptOutHonoured` | `OptOutInductive`, with `LookedUp`: what each job was told |
| `RoleSyncProofs!GoodbyeOfItsOwn` | `Spec => LateGoodbye` | `TokensInductive`, with `Tokens` and `JobsHaveTokens` |
| `DeliveryProofs!TypeCorrect` | `Spec => []TypeOK` | inductive `Inv` |
| `DeliveryProofs!BackfilledOnce` | `Spec => []BackfillOnce` | `Filling`, a part of `Inv` |
| `DeliveryProofs!ReplacesWhole` | `Spec => ImplementsReplace` | `Inv` and `Whole`: each step is one of `ReplaceList` or a stutter |
| `EligibilityProofs!TypesKept` | `Spec => []TypeOK` | inductive `Origins`: where the rule and the row come from; one lemma per kind of question |
| `EligibilityProofs!ComplementsKept` | `Spec => []Complements` | `Origins`; the value of eq and neq is never empty |
| `EligibilityProofs!PicksCompared` | `Spec => []PicksExact` | `Origins`; the selections of a stored choice are the list that was sent |
| `EligibilityProofs!NumbersKept` | `Spec => []NumbersAgree` | `Origins`; the number that was kept comes back from its text |
| `EligibilityProofs!PointsFollowKey` | `OptionsApart => (Spec => []PointsExact)` | `Origins`; grading trims the ids that it compares |
| `EligibilityProofs!KeysReachable` | `Spec => []KeyReachable` | `Origins`; the witness is a key, or a page with all of them ticked |
| `FormBuilderProofs!TypeCorrect` | `Spec => []TypeOK` | inductive |
| `FormBuilderProofs!SerialTabsCurrent` | `Serial => (Spec => []TabCurrent)` | `Inductive` |
| `FormBuilderProofs!SerialSavesKeep` | `Serial => (Spec => NoClobber)` | from `Inductive` |

Why the strengthenings are needed. *BatchOwned*: that a dispatched job is locked by
its worker is not inductive, because `reap_stuck` of another worker could take the row
away; it can only once the age of the lock has passed STUCK_LOCK_SECS, and the tick in
which that happens makes the job overdue. So every job in a batch that is not overdue
is in_progress, locked by its worker and not expired, and with that no other worker
has a claim on it. *FormHeld*: a commit is against the current version because every
stage from the read onwards keeps the form from changing. *Ledger*
(`AttemptsBounded`): that attempts are bounded says nothing of the job that is about
to be claimed, and with late jobs several workers may hold it, each with a copy of
attempts of its own. For each job three things together stay within max_attempts and
the troubles so far (less the signals no worker has read yet, each of which may still
give one job back): the claims made; one more if no live worker minds the row by a
lock that is still good, so that it may be claimed again; and the copies of attempts
below max_attempts that a worker has or that are still to be handed out, for each copy
gives the row back at most once without another trouble. *Shutdown* (`StopsClean`): as
long as nothing but a signal went wrong, whoever is named in a lock has the job in its
batch. *Held*: the row that a transaction loaded is still its member's newest when it
writes, or the member still has none. That takes the advisory lock (`Exclusive`: no
one else inserts), FOR SHARE (`FormFrozen`: whoever writes beside it goes by the same
settings, so that locking is not switched off in between) and FOR UPDATE (nobody
deletes it); each of them alone is not inductive. *Timed* bounds the age of the time a
submission is decided by, which `SerialForm` allows to lie in the past. *KeptRow* and
`AttemptsCount` tie the history to the rows: a submission that counts has a row, and
the row's attempt_count is how many do; `Keeps` says which of them it holds.
*EditedLate*: last_edited_at is never more than `MaxLag` behind an attempt.
*PageBacked*: what a page has said of its member is still true of the row it was read
from, until that is deleted. *LookedUp*: nothing keeps a job from adding a member who
opted out but what it was told itself. A `player_sync` that is to add a member in a
guild, or may still decide so, has been told that guild's opt-outs, and so has a
`config_sync` from its query on; a list that is drained needs no lookup, and is empty.
That nobody opted out is on the list follows from what is in those jobs. *Tokens* and
*JobsHaveTokens*: tokens only grow, and none in a row, a job or a goodbye is newer
than the one issued; so a row that has the newest token can only go by something that
carries an older one, and of the two who delete rows only the jobs do not compare.
*Filling*: at most one replica is between its claim and its commit, and jobs of a
replica exist only together with the marker. *Whole*: while the session of a call is
open, what it has collected and what is left to send make up the list asked for, and
at the commit nothing is left; a session that another worker has opened in between is
not the call's own, so it cannot commit that one. *Inductive* (FormBuilder): a version
that a tab knows, or an answer will bring it, is one whose edits the tab has seen;
with two saves under way this is false, because the version of the answer is read
after the UPDATE, which is exactly the counterexample of `FormBuilderClobber`.

The theorems assume the named ASSUMEs of each module, which TLC evaluates in each run,
and the hypotheses written in them: `Serial` (all requests are one slot); and
`OptionsApart`, that the ids of a question's options differ in more than spaces, for
grading trims both sides: `sanity_check` asks only that the ids differ, so a form
saved through the API may have the options "a" and " a", either of which then scores
for the other. `version = 1` and `MaxVersion = 1` say that the form has not been saved
since it was created: the retry settings are those of now, and an admin who lowers
max_attempts, allows several responses or drops the cooldown makes rows that the new
settings would not have let in.

Model-checked only: liveness (`JobsSettle`, `SubmissionsEnd`, `Converges`,
`LinksEvaluated`, `WebhooksArrive`), because liveness under fairness, ENABLED, and
induction over data are out of the prover's reach; and `QuietConverged`, `QuietSound`
and `MirrorTruthful`, which hold with one worker, while the code runs four by default
(WORKER_CONCURRENCY) and in every replica: `RoleSyncOne` says what the jobs do by
themselves, `RoleSyncRace` that this is not enough. No module
has a RECURSIVE operator.

## 6. What is not modelled

Sessions, tokens of browsers, the embedding, CSRF and the read-only guard
(cryptography and header checks without state); the respondents listing, exports and
health (they only read); configuration and pools; rendering and wording; a webhook's
payload and which addresses are public. `create_form` is the initial state of
FormBuilder; `duplicate_form` and `set_view_permission` are single statements over
rows that no model reads. Opting out is fixed during a run, because the gateway owns
it. RoleSync has one link and one form per guild: the code treats each link of a loop
on its own. `remove_all_assignments` is never enqueued. A request that RoleLogic
carries out after the client has given up, above all a commit that lands behind a
later upload, is outside of what the client could see and is left out. What a worker
of an old release makes of a link is left out too, but that it is not what the new one
would.

## 7. Plan

Done: JobQueue, Retry and Submission, RoleSync, Eligibility, FormBuilder; the abstract
specifications JobContract, SerialForm and ReplaceList with their refinements; Upload
and Delivery (backfill, webhooks, lists); several guilds and tokens in RoleSync; the
page of `get_form`; and the theorems above.

Next, most important first:

1. proofs: `QuietConverged` for any number of workers whose jobs do not overlap in a
   member or a guild.
2. `FormAdmin`: create, duplicate and slug collisions, the view permission, and the
   warnings of a save about rules on questions that are gone.
3. the process around the workers: the order in which `main` starts and joins its
   tasks, and what the health probes tell the orchestrator meanwhile.
