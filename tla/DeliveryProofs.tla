--------------------------- MODULE DeliveryProofs ---------------------------
(***************************************************************************)
(* Theorems about Delivery, for any number of workers, replicas, links,    *)
(* lists and failures: its type invariant, the backfill that happens once, *)
(* and the upload that replaces a list as a whole.                         *)
(***************************************************************************)
EXTENDS Delivery, TLAPS

USE UploadAssumption, DeliveryAssumption
USE DEF FailsAt, PutFails, StartFails, CommitFails, AnswerLost

-----------------------------------------------------------------------------
(* The job names. *)

LEMMA ConfigInJobs == ASSUME NEW l \in Links, NEW p \in Replicas \cup {l}
                      PROVE  Config(l, p) \in Jobs
  BY DEF Jobs

LEMMA WebhookInJobs == ASSUME NEW r \in Responses PROVE Webhook(r) \in Jobs
  BY DEF Jobs

LEMMA ConfigNames == ASSUME NEW k, NEW l, NEW p, NEW q
                     PROVE  Config(k, p) = Config(l, q) <=> k = l /\ p = q
<1>1. Config(k, p).of = k /\ Config(k, p).by = p /\ Config(l, q).of = l /\ Config(l, q).by = q
  BY DEF Config
<1> QED  BY <1>1

LEMMA KindsDiffer == ASSUME NEW l, NEW p, NEW r PROVE Config(l, p) # Webhook(r)
<1>1. Config(l, p).kind = "config" /\ Webhook(r).kind = "webhook"
  BY DEF Config, Webhook
<1> QED  BY <1>1

\* The link of a config_sync job, the response of a webhook job.
LEMMA JobKinds == ASSUME NEW j \in Jobs
                  PROVE  \/ \E r \in Responses : j = Webhook(r)
                         \/ \E l \in Links : \E p \in Replicas \cup {l} : j = Config(l, p)
  BY DEF Jobs

LEMMA JobOf == ASSUME NEW j \in Jobs
               PROVE  /\ j.kind = "webhook" => j.of \in Responses
                      /\ j.kind = "config" => j.of \in Links
                      /\ j.kind \in {"webhook", "config"}
<1>1. CASE \E r \in Responses : j = Webhook(r)
  BY <1>1 DEF Webhook
<1>2. CASE \E l \in Links : \E p \in Replicas \cup {l} : j = Config(l, p)
  BY <1>2 DEF Config
<1> QED  BY <1>1, <1>2, JobKinds

-----------------------------------------------------------------------------
(* The inductive invariant. *)

Transacting(p) == boot[p].stage \in {"claimed", "inserted"}

\* A call under way is for a link.
OnLink == \A w \in Workers : call[w] # NoCall => On(w) \in Links /\ call[w].stage # "none"

\* A job that runs was enqueued.
Queued ==
    /\ Queue!TypeOK
    /\ tries \in [Jobs -> Nat] /\ dead \subseteq Jobs
    /\ \A w \in Workers : run[w] # NoJob => state[run[w]] # "absent"

Hooks ==
    /\ accepted \subseteq Responses /\ got \in [Responses -> Nat]
    /\ posting \in [Workers -> {"none", "taken"}]

\* A config_sync is for a bound link.
Binding ==
    /\ bound \subseteq Links /\ saving \subseteq bound /\ evaluated \subseteq bound
    /\ early \subseteq bound
    /\ \A l \in Links : \A p \in Replicas \cup {l} :
          state[Config(l, p)] # "absent" => l \in bound

\* The unique name lets one backfill through at a time, and none after the marker.
Filling ==
    /\ boot \in [Replicas -> [stage : {"down", "claimed", "inserted"},
                              links : SUBSET Links]]
    /\ marker \in BOOLEAN
    /\ \A p \in Replicas : boot[p].links \subseteq bound
    /\ \A p, q \in Replicas : Transacting(p) /\ Transacting(q) => p = q
    /\ marker => \A p \in Replicas : ~Transacting(p)
    /\ \A p \in Replicas, l \in Links : state[Config(l, p)] # "absent" => marker
    /\ BackfillOnce

Coupled ==
    \A w \in Workers :
        /\ posting[w] # "none" => Running(w, "webhook")
        /\ call[w] # NoCall => Running(w, "config") /\ run[w].of = call[w].link

Inv == UploadTypeOK /\ OnLink /\ Queued /\ Hooks /\ Binding /\ Filling /\ Coupled

LEMMA InvTypes == Inv => TypeOK
  BY DEF Inv, TypeOK, Queued, Hooks, Binding, Filling, Coupled

LEMMA InitInv == Init => Inv
<1> SUFFICES ASSUME Init PROVE Inv
  OBVIOUS
<1>1. UploadTypeOK /\ OnLink
  BY DEF Init, UploadInit, UploadTypeOK, NoSession, NoCall, Call, Stages, OnLink
<1>2. \A j \in Jobs : state[j] = "absent"
  BY DEF Init, Queue!Init
<1>3. Queued
  BY DEF Init, Queue!Init, Queue!TypeOK, Queued
<1>4. \A l \in Links : \A p \in Replicas \cup {l} : state[Config(l, p)] = "absent"
  BY <1>2, ConfigInJobs
<1>5. \A p \in Replicas : boot[p] = [stage |-> "down", links |-> {}]
  BY DEF Init, Down
<1>6. Hooks /\ Binding
  BY <1>4 DEF Init, Hooks, Binding
<1>7. Filling
  BY <1>4, <1>5 DEF Init, Filling, BackfillOnce, Transacting, Down
<1>8. Coupled
  BY DEF Init, UploadInit, Coupled
<1> QED  BY <1>1, <1>3, <1>6, <1>7, <1>8 DEF Inv

-----------------------------------------------------------------------------
(* Steps of the upload keep its types, and the call of w is for its job. *)

Calls == [link : Links \cup {NoLink}, want : SUBSET Users,
          left : SUBSET Users, stage : Stages]

\* Only w's call changes, and not what it is for.
GoesOn(w) == \E c \in Calls : /\ call' = [call EXCEPT ![w] = c]
                             /\ c.link = call[w].link /\ c.want = call[w].want

LEMMA GotoGoesOn == ASSUME UploadTypeOK, NEW w \in Workers, NEW s \in Stages, Goto(w, s)
                    PROVE  GoesOn(w)
<1> DEFINE c == [link |-> call[w].link, want |-> call[w].want,
                 left |-> call[w].left, stage |-> s]
<1>1. call[w] \in Calls
  BY DEF UploadTypeOK, Calls
<1>2. c \in Calls
  BY <1>1 DEF Calls
<1>3. [call[w] EXCEPT !.stage = s] = c
  BY <1>1 DEF Calls
<1>4. call' = [call EXCEPT ![w] = [call[w] EXCEPT !.stage = s]]
  BY DEF Goto
<1> QED  BY <1>2, <1>3, <1>4 DEF GoesOn

LEMMA ChunkGoesOn == ASSUME UploadTypeOK, NEW w \in Workers, UploadChunk(w)
                     PROVE  GoesOn(w)
<1> DEFINE c == Call(On(w), call[w].want, call[w].left \ Chunk(w),
                     IF call[w].left = Chunk(w) THEN "commit" ELSE "chunk")
<1>1. call[w] \in Calls
  BY DEF UploadTypeOK, Calls
<1>2. c \in Calls /\ c.link = call[w].link /\ c.want = call[w].want
  BY <1>1 DEF Calls, Stages, Call, On
<1>3. call' = [call EXCEPT ![w] = c]
  BY DEF UploadChunk, Sent
<1> QED  BY <1>2, <1>3 DEF GoesOn

LEMMA GoesOnTypes == ASSUME UploadTypeOK, NEW w \in Workers, GoesOn(w)
                     PROVE  call' \in [Workers -> Calls]
  BY DEF UploadTypeOK, Calls, GoesOn

\* Every step of the upload is of a call that is under way.
LEMMA StepGoesOn == ASSUME UploadTypeOK, NEW w \in Workers, UploadStep(w) \/ UploadTrouble(w)
                    PROVE  GoesOn(w) /\ call[w].stage # "none"
<1>1. CASE UploadChunk(w)
  BY <1>1, ChunkGoesOn DEF UploadChunk
<1>2. CASE ~UploadChunk(w)
  <2>1. \E s \in Stages : Goto(w, s)
    BY <1>2 DEF UploadStep, UploadTrouble, Put, Start, StartRefused, ChunkFails, Cancel,
       Commit, CommitGone, Answer, StartLost, Stages
  <2>2. call[w].stage # "none"
    BY <1>2 DEF UploadStep, UploadTrouble, Put, Start, StartRefused, ChunkFails, Cancel,
       Commit, CommitGone, Answer, StartLost
  <2> QED  BY <2>1, <2>2, GotoGoesOn
<1> QED  BY <1>1, <1>2

LEMMA TroubleTypes == ASSUME UploadTypeOK, NEW k, Trouble(k)
                      PROVE  troubled' \in 0 .. MaxTroubles
  BY DEF UploadTypeOK, Trouble

LEMMA StepTypes == ASSUME UploadTypeOK, OnLink, NEW w \in Workers,
                          UploadStep(w) \/ UploadTrouble(w)
                   PROVE  UploadTypeOK' /\ OnLink'
<1>1. GoesOn(w) /\ call[w].stage # "none"
  BY StepGoesOn
<1>2. call' \in [Workers -> Calls]
  BY <1>1, GoesOnTypes
<1>3. On(w) \in Links /\ call[w] \in Calls
  BY <1>1 DEF OnLink, NoCall, Call, UploadTypeOK, Calls
<1>4. troubled' \in 0 .. MaxTroubles
  BY TroubleTypes DEF UploadStep, UploadTrouble, Put, Start, StartRefused, UploadChunk,
     ChunkFails, Cancel, Commit, CommitGone, Answer, StartLost, UploadTypeOK
<1>5. Chunk(w) \in SUBSET Users
  BY <1>3 DEF Chunk, Calls
<1>6. remote' \in [Links -> SUBSET Users]
  BY <1>3 DEF UploadStep, UploadTrouble, Put, Start, StartRefused, UploadChunk, Calls, On,
     ChunkFails, Cancel, Commit, CommitGone, Answer, StartLost, UploadTypeOK
<1>7. session' \in [Links -> [owner : Workers \cup {NoWorker}, staged : SUBSET Users]]
  <2>1. CASE UploadChunk(w) \/ ChunkFails(w)
    <3>1. session' = session \/ Stage(w)
      BY <2>1 DEF UploadChunk, ChunkFails
    <3>2. session[On(w)].staged \cup Chunk(w) \in SUBSET Users
      BY <1>3, <1>5 DEF UploadTypeOK
    <3> QED  BY <3>1, <3>2, <1>3 DEF Stage, UploadTypeOK
  <2>2. CASE ~(UploadChunk(w) \/ ChunkFails(w))
    <3> DEFINE T == [owner : Workers \cup {NoWorker}, staged : SUBSET Users]
    <3>1. NoSession \in T /\ [owner |-> w, staged |-> {}] \in T
      BY DEF NoSession
    <3>2. \E t \in T : session' = [session EXCEPT ![On(w)] = t] \/ session' = session
      BY <2>2, <3>1 DEF UploadStep, UploadTrouble, Put, Start, StartRefused,
         Cancel, Commit, CommitGone, Answer, StartLost
    <3> QED  BY <3>2, <1>3 DEF UploadTypeOK
  <2> QED  BY <2>1, <2>2
<1>8. OnLink'
  <2>1. \A v \in Workers \ {w} : call'[v] = call[v]
    BY <1>1 DEF GoesOn, UploadTypeOK
  <2>2. call'[w].link = call[w].link
    BY <1>1 DEF GoesOn, UploadTypeOK
  <2>3. call'[w].stage # "none"
    BY DEF UploadStep, UploadTrouble, Put, Start, StartRefused, UploadChunk, Sent, Call, Goto,
       ChunkFails, Cancel, Commit, CommitGone, Answer, StartLost, UploadTypeOK
  <2> QED  BY <1>3, <2>1, <2>2, <2>3 DEF OnLink, On
<1> QED  BY <1>2, <1>4, <1>6, <1>7, <1>8 DEF UploadTypeOK, Calls
-----------------------------------------------------------------------------
(* Steps of the queue. *)

\* No job is enqueued.
SameJobs == \A j \in Jobs : state'[j] = "absent" <=> state[j] = "absent"

LEMMA EndedQueue == ASSUME Queued, NEW w \in Workers, Queue!Settle(w) \/ Queue!Abandon(w),
                           tries' = tries, dead' \subseteq dead \cup {run[w]}
                    PROVE  /\ Queued' /\ SameJobs
                           /\ run[w] \in Jobs /\ run[w] # NoJob
                           /\ run' = [run EXCEPT ![w] = NoJob]
<1>1. /\ run[w] \in Jobs /\ run[w] # NoJob /\ state[run[w]] # "absent"
      /\ run' = [run EXCEPT ![w] = NoJob]
  BY DEF Queued, Queue!TypeOK, Queue!Settle, Queue!Abandon
<1>2. \/ state' = state
      \/ \E s \in {"open", "settled"} : state' = [state EXCEPT ![run[w]] = s]
  BY DEF Queue!Settle, Queue!Abandon
<1>3. state' \in [Jobs -> {"absent", "open", "settled"}] /\ SameJobs
  BY <1>1, <1>2 DEF Queued, Queue!TypeOK, SameJobs
<1>4. late' \subseteq late
  BY DEF Queue!Settle, Queue!Abandon, Queue!Recover
<1>5. Queue!TypeOK'
  BY <1>1, <1>3, <1>4 DEF Queued, Queue!TypeOK, SameJobs
<1>6. \A v \in Workers : run'[v] # NoJob => state'[run'[v]] # "absent"
  BY <1>1, <1>3 DEF Queued, Queue!TypeOK, SameJobs
<1> QED  BY <1>1, <1>3, <1>5, <1>6 DEF Queued

LEMMA SubmittedQueue == ASSUME Queued, NEW j \in Jobs, Queue!Submit(j),
                               tries' = tries, dead' = dead
                        PROVE  /\ Queued' /\ run' = run
                               /\ \A i \in Jobs : i # j => state'[i] = state[i]
  BY DEF Queued, Queue!TypeOK, Queue!Submit

LEMMA SameBinding == ASSUME Binding, SameJobs, UNCHANGED <<bound, saving, early>>,
                            evaluated' \subseteq bound
                     PROVE  Binding'
  BY ConfigInJobs DEF Binding, SameJobs

LEMMA SameFilling == ASSUME Filling, SameJobs, UNCHANGED <<bound, boot, marker>>
                     PROVE  Filling'
<1>1. \A l \in Links, p \in Replicas :
         state'[Config(l, p)] = "absent" <=> state[Config(l, p)] = "absent"
  BY ConfigInJobs DEF SameJobs
<1> QED  BY <1>1 DEF Filling, BackfillOnce, Transacting

LEMMA Stutter == Inv /\ UNCHANGED vars => Inv'
  BY DEF Inv, vars, upload, queue, webhooks, links, backfill, UploadTypeOK, OnLink, On,
     Queued, Queue!TypeOK, Hooks, Binding, Filling, Transacting, BackfillOnce, Coupled, Running

-----------------------------------------------------------------------------
(* Those who enqueue. *)

LEMMA SubmitInv == ASSUME Inv, NEW r \in Responses, Submit(r) PROVE Inv'
<1>1. Queued' /\ run' = run /\ \A i \in Jobs : i # Webhook(r) => state'[i] = state[i]
  BY WebhookInJobs, SubmittedQueue DEF Inv, Submit
<1>2. \A l \in Links : \A p \in Replicas \cup {l} : state'[Config(l, p)] = state[Config(l, p)]
  BY <1>1, ConfigInJobs, KindsDiffer
<1>3. Binding' /\ Filling'
  BY <1>2 DEF Inv, Submit, links, backfill, Binding, Filling, BackfillOnce, Transacting
<1> QED
  BY <1>1, <1>3 DEF Inv, Submit, upload, UploadTypeOK, OnLink, On, Hooks, Coupled, Running

LEMMA BindInv == ASSUME Inv, NEW l \in Links, Bind(l) PROVE Inv'
<1>1. Binding' /\ Filling'
  BY DEF Inv, Bind, Binding, Filling, BackfillOnce, Transacting, queue, backfill
<1> QED
  BY <1>1 DEF Inv, Bind, upload, queue, webhooks, UploadTypeOK, OnLink, On, Queued,
     Queue!TypeOK, Hooks, Coupled, Running

LEMMA EnqueueLostInv == ASSUME Inv, NEW l \in Links, EnqueueLost(l) PROVE Inv'
<1>1. Binding' /\ Filling'
  BY DEF Inv, EnqueueLost, Binding, Filling, BackfillOnce, Transacting, queue, backfill
<1> QED
  BY <1>1 DEF Inv, EnqueueLost, upload, queue, webhooks, UploadTypeOK, OnLink, On, Queued,
     Queue!TypeOK, Hooks, Coupled, Running

LEMMA EnqueueSavedInv == ASSUME Inv, NEW l \in Links, EnqueueSaved(l) PROVE Inv'
<1>1. /\ Queued' /\ run' = run
      /\ \A i \in Jobs : i # Config(l, l) => state'[i] = state[i]
  BY ConfigInJobs, SubmittedQueue DEF Inv, EnqueueSaved
<1>2. \A k \in Links : \A p \in Replicas \cup {k} :
         k # l \/ p # l => state'[Config(k, p)] = state[Config(k, p)]
  BY <1>1, ConfigInJobs, ConfigNames
<1>3. l \in bound
  BY DEF Inv, Binding, EnqueueSaved
<1>4. Binding'
  BY <1>2, <1>3 DEF Inv, Binding, EnqueueSaved
<1>5. \A k \in Links, p \in Replicas : state'[Config(k, p)] = state[Config(k, p)]
  BY <1>2
<1>6. Filling'
  BY <1>5 DEF Inv, EnqueueSaved, backfill, Filling, BackfillOnce, Transacting
<1> QED
  BY <1>1, <1>4, <1>6 DEF Inv, EnqueueSaved, upload, webhooks, UploadTypeOK, OnLink, On,
     Hooks, Coupled, Running

\* The steps of a backfill but its commit.
LEMMA BootInv == ASSUME Inv, NEW p \in Replicas,
                        \/ ClaimMarker(p) \/ InsertJobs(p) \/ BackfillFails(p)
                 PROVE  Inv'
<1>1. UNCHANGED <<upload, queue, webhooks, links, marker>> /\ UploadTypeOK'
  BY TroubleTypes DEF Inv, UploadTypeOK, upload, ClaimMarker, InsertJobs, BackfillFails
<1>2. UNCHANGED <<state, bound, marker>>
  BY <1>1 DEF queue, links
<1>3. Filling'
  <2>1. CASE BackfillFails(p)
    BY <1>2, <2>1 DEF Inv, Filling, BackfillOnce, Transacting, BackfillFails, Down
  <2>2. CASE ClaimMarker(p)
    BY <1>2, <2>2 DEF Inv, Filling, BackfillOnce, Transacting, ClaimMarker
  <2>3. CASE InsertJobs(p)
    BY <1>2, <2>3 DEF Inv, Filling, Binding, BackfillOnce, Transacting, InsertJobs
  <2> QED  BY <2>1, <2>2, <2>3
<1> QED
  BY <1>1, <1>3 DEF Inv, upload, queue, webhooks, links, OnLink, On, Queued, Queue!TypeOK,
     Hooks, Binding, Coupled, Running

LEMMA CommitInv == ASSUME Inv, NEW p \in Replicas, CommitBackfill(p) PROVE Inv'
<1>1. Transacting(p) /\ ~marker /\ boot[p].links \subseteq bound
  BY DEF Inv, Filling, CommitBackfill, Transacting
<1>2. \A q \in Replicas, k \in Links : state[Config(k, q)] = "absent"
  BY <1>1 DEF Inv, Filling
<1>3. \A j \in Jobs : state'[j] = IF \E l \in boot[p].links : j = Config(l, p)
                                  THEN "open" ELSE state[j]
  BY DEF CommitBackfill
<1>4. \A k \in Links : \A q \in Replicas \cup {k} :
         state'[Config(k, q)] = IF k \in boot[p].links /\ q = p
                                THEN "open" ELSE state[Config(k, q)]
  BY <1>3, ConfigInJobs, ConfigNames
<1>5. Queued'
  BY <1>3 DEF Inv, Queued, Queue!TypeOK, CommitBackfill
<1>6. Binding'
  BY <1>1, <1>4 DEF Inv, Binding, CommitBackfill, links
<1>7. /\ boot' \in [Replicas -> [stage : {"down", "claimed", "inserted"},
                                 links : SUBSET Links]]
      /\ \A q \in Replicas : boot'[q].links \subseteq bound
      /\ \A q \in Replicas : ~Transacting(q)'
  BY <1>1 DEF Inv, Filling, CommitBackfill, Down, Transacting
<1>8. BackfillOnce'
  BY <1>2, <1>4 DEF BackfillOnce, CommitBackfill
<1>9. Filling'
  BY <1>7, <1>8 DEF Filling, CommitBackfill, links
<1> QED
  BY <1>5, <1>6, <1>9 DEF Inv, CommitBackfill, upload, webhooks, UploadTypeOK, OnLink, On,
     Hooks, Coupled, Running

-----------------------------------------------------------------------------
(* The workers. *)

LEMMA TakeInv == ASSUME Inv, NEW w \in Workers, NEW j \in Jobs, Take(w, j) PROVE Inv'
<1>1. /\ run[w] = NoJob /\ run' = [run EXCEPT ![w] = j]
      /\ state[j] # "absent" /\ UNCHANGED <<state, late>>
  BY DEF Inv, Queued, Queue!TypeOK, Take, Queue!Start
<1>2. Queued'
  BY <1>1 DEF Inv, Queued, Queue!TypeOK, Take
<1>3. posting[w] = "none" /\ call[w] = NoCall
  BY <1>1 DEF Inv, Coupled, Running, Hooks
<1>4. Coupled'
  BY <1>1, <1>3 DEF Inv, Coupled, Running, Take, upload, webhooks, Queued, Queue!TypeOK
<1> QED
  BY <1>1, <1>2, <1>4 DEF Inv, Take, upload, webhooks, links, backfill, UploadTypeOK,
     OnLink, On, Hooks, Binding, Filling, BackfillOnce, Transacting

LEMMA LeaveTypes == ASSUME UploadTypeOK, OnLink, NEW w \in Workers, Leave(w),
                           UNCHANGED <<remote, session>>, troubled' \in 0 .. MaxTroubles
                    PROVE  UploadTypeOK' /\ OnLink'
  BY DEF UploadTypeOK, OnLink, Leave, NoCall, Call, On, Stages

\* A worker that ends its job has neither a call nor a post under way any more.
LEMMA EndInv == ASSUME Inv, NEW w \in Workers, Queue!Settle(w) \/ Queue!Abandon(w),
                       tries' = tries, dead' \subseteq dead \cup {run[w]},
                       UNCHANGED <<remote, session, accepted, got, bound, saving, early, backfill>>,
                       call' = call \/ Leave(w), call'[w] = NoCall,
                       posting' = posting \/ posting' = [posting EXCEPT ![w] = "none"],
                       posting'[w] = "none",
                       evaluated' \subseteq bound, troubled' \in 0 .. MaxTroubles
                PROVE  Inv'
<1>1. Queued' /\ SameJobs /\ run' = [run EXCEPT ![w] = NoJob]
  BY EndedQueue DEF Inv
<1>2. Binding' /\ Filling'
  BY <1>1, SameBinding, SameFilling DEF Inv, backfill
<1>3. UploadTypeOK' /\ OnLink'
  BY LeaveTypes DEF Inv, UploadTypeOK, OnLink, On
<1>4. Hooks'
  BY DEF Inv, Hooks
<1>5. \A v \in Workers \ {w} : /\ run'[v] = run[v] /\ call'[v] = call[v]
                               /\ posting'[v] = posting[v]
  BY <1>1 DEF Inv, Queued, Queue!TypeOK, Leave, UploadTypeOK, Hooks
<1>6. Coupled'
  BY <1>5 DEF Inv, Coupled, Running
<1> QED  BY <1>1, <1>2, <1>3, <1>4, <1>6 DEF Inv

\* What a worker runs decides which of the two it has.
LEMMA ConfigIdle == ASSUME Inv, NEW w \in Workers, Running(w, "config")
                    PROVE  /\ posting[w] = "none" /\ run[w] # NoJob
                           /\ run[w].of \in bound /\ run[w].of \in Links
<1>1. run[w] \in Jobs /\ run[w].kind = "config" /\ state[run[w]] # "absent"
  BY DEF Inv, Queued, Queue!TypeOK, Running
<1>2. posting[w] = "none"
  BY <1>1 DEF Inv, Coupled, Running, Hooks
<1>3. \E l \in Links : \E p \in Replicas \cup {l} : run[w] = Config(l, p)
  BY <1>1, JobKinds DEF Webhook
<1>4. PICK l \in Links : \E p \in Replicas \cup {l} : run[w] = Config(l, p)
  BY <1>3
<1>5. run[w].of = l /\ l \in bound
  BY <1>1, <1>4 DEF Inv, Binding, Config
<1> QED  BY <1>1, <1>2, <1>5 DEF Running

LEMMA CallRunning == ASSUME Inv, NEW w \in Workers, call[w].stage # "none"
                     PROVE  Running(w, "config")
  BY DEF Inv, Coupled, NoCall, Call

LEMMA PostInv == ASSUME Inv, NEW w \in Workers, Post(w) PROVE Inv'
<1>1. run[w] \in Jobs /\ run[w].kind = "webhook"
  BY DEF Inv, Queued, Queue!TypeOK, Post, Running
<1>2. run[w].of \in Responses
  BY <1>1, JobOf
<1>3. Hooks' /\ Coupled'
  BY <1>2 DEF Inv, Hooks, Coupled, Post, Running, upload, queue
<1> QED
  BY <1>3 DEF Inv, Post, upload, queue, links, backfill, UploadTypeOK, OnLink, On,
     Queued, Queue!TypeOK, Binding, Filling, BackfillOnce, Transacting

LEMMA WebhookEndInv == ASSUME Inv, NEW w \in Workers,
                              Posted(w) \/ Unavailable(w) \/ Rejected(w)
                       PROVE  Inv'
<1>1. /\ Queue!Settle(w) \/ Queue!Abandon(w)
      /\ tries' = tries
      /\ dead' \subseteq dead \cup {run[w]}
  BY DEF Posted, Unavailable, Rejected, Done, Bury, Retry
<1>2. Running(w, "webhook") /\ call[w] = NoCall
  BY DEF Inv, Coupled, Posted, Unavailable, Rejected, Running
<1>3. /\ posting' = posting \/ posting' = [posting EXCEPT ![w] = "none"]
      /\ posting'[w] = "none"
  BY DEF Inv, Hooks, Posted, Unavailable, Rejected, webhooks
<1>4. troubled' \in 0 .. MaxTroubles
  BY TroubleTypes DEF Inv, UploadTypeOK, Posted, Unavailable, Rejected
<1>5. UNCHANGED <<upload, accepted, got, links, backfill>>
  BY DEF Posted, Unavailable, Rejected, webhooks
<1> QED
  BY <1>1, <1>2, <1>3, <1>4, <1>5, EndInv DEF upload, links, Inv, Binding

LEMMA ConfigEndInv == ASSUME Inv, NEW w \in Workers,
                             Unchanged(w) \/ Recorded(w) \/ ReplaceFails(w)
                      PROVE  Inv'
<1>1. Running(w, "config")
  BY CallRunning DEF Unchanged, Recorded, ReplaceFails
<1>2. /\ Queue!Settle(w) \/ Queue!Abandon(w)
      /\ tries' = tries
      /\ dead' \subseteq dead \cup {run[w]}
  BY DEF Unchanged, Recorded, ReplaceFails, Evaluated, Done, Bury, Retry
<1>3. call' = call \/ Leave(w)
  BY DEF Unchanged, Recorded, ReplaceFails, upload
<1>4. call'[w] = NoCall
  BY DEF Inv, UploadTypeOK, Unchanged, Recorded, ReplaceFails, upload, Leave
<1>5. posting' = posting /\ posting'[w] = "none"
  BY <1>1, ConfigIdle DEF Unchanged, Recorded, ReplaceFails, Evaluated, webhooks
<1>6. evaluated' \subseteq bound
  BY <1>1, ConfigIdle DEF Inv, Binding, Unchanged, Recorded, ReplaceFails, Evaluated, links
<1>7. troubled' \in 0 .. MaxTroubles
  BY TroubleTypes DEF Inv, UploadTypeOK, Unchanged, Recorded, ReplaceFails
<1>8. UNCHANGED <<remote, session, accepted, got, bound, saving, early, backfill>>
  BY DEF Unchanged, Recorded, ReplaceFails, Evaluated, upload, webhooks, links
<1> QED
  BY <1>2, <1>3, <1>4, <1>5, <1>6, <1>7, <1>8, EndInv

LEMMA CrashInv == ASSUME Inv, NEW w \in Workers, Crash(w) PROVE Inv'
<1>1. troubled' \in 0 .. MaxTroubles
  BY TroubleTypes DEF Inv, Crash
<1>2. call'[w] = NoCall /\ posting'[w] = "none"
  BY DEF Inv, UploadTypeOK, Hooks, Crash, Leave
<1> QED
  BY <1>1, <1>2, EndInv DEF Crash, links, Inv, Binding

LEMMA ReplaceInv == ASSUME Inv, NEW w \in Workers, Replace(w) PROVE Inv'
<1>1. run[w].of \in Links
  BY ConfigIdle DEF Replace
<1>2. PICK S \in Lists[run[w].of] : Ask(w, run[w].of, S)
  BY DEF Replace
<1>3. S \in SUBSET Users
  BY <1>1, <1>2
<1> DEFINE c == Call(run[w].of, S, S, IF Cardinality(S) <= PutMax THEN "put" ELSE "start")
<1>4. call' = [call EXCEPT ![w] = c]
  BY <1>2 DEF Ask
<1>5. c \in Calls /\ c.link = run[w].of /\ c.stage # "none"
  BY <1>1, <1>3 DEF Call, Calls, Stages
<1>6. UploadTypeOK' /\ OnLink'
  BY <1>1, <1>4, <1>5 DEF Inv, UploadTypeOK, Calls, OnLink, On, Replace
<1>7. Coupled'
  BY <1>4, <1>5 DEF Inv, Coupled, Running, UploadTypeOK, Replace, queue, webhooks
<1> QED
  BY <1>6, <1>7 DEF Inv, Replace, queue, webhooks, links, backfill,
     Queued, Queue!TypeOK, Hooks, Binding, Filling, BackfillOnce, Transacting

LEMMA TransferInv == ASSUME Inv, NEW w \in Workers, Transfer(w) PROVE Inv'
<1>1. UploadTypeOK' /\ OnLink' /\ GoesOn(w) /\ call[w].stage # "none"
  BY StepTypes, StepGoesOn DEF Inv, Transfer
<1>2. Running(w, "config") /\ run[w].of = call[w].link
  BY <1>1 DEF Inv, Coupled, NoCall, Call
<1>3. /\ \A v \in Workers \ {w} : call'[v] = call[v]
      /\ call'[w].link = call[w].link
  BY <1>1 DEF Inv, GoesOn, UploadTypeOK
<1>4. Coupled'
  BY <1>2, <1>3 DEF Inv, Coupled, Running, Transfer, queue, webhooks
<1> QED
  BY <1>1, <1>4 DEF Inv, Transfer, queue, webhooks, links, backfill,
     Queued, Queue!TypeOK, Hooks, Binding, Filling, BackfillOnce, Transacting

LEMMA DropSessionInv == ASSUME Inv, NEW l \in Links, DropSession(l) PROVE Inv'
<1>1. UploadTypeOK' /\ OnLink'
  BY TroubleTypes DEF Inv, DropSession, Expire, ExpireEarly, UploadTypeOK, NoSession, OnLink, On
<1> QED
  BY <1>1 DEF Inv, DropSession, Expire, ExpireEarly, queue, webhooks, links, backfill,
     Queued, Queue!TypeOK, Hooks, Binding, Filling, BackfillOnce, Transacting, Coupled, Running

\* Jobs become late, or no longer are.
LEMMA LateInv == ASSUME Inv, LetGo \/ \E j \in Jobs : Overrun(j) PROVE Inv'
<1>1. /\ UNCHANGED <<upload, state, run, tries, dead, webhooks, links, backfill>>
      /\ late' \subseteq {j \in Jobs : state[j] # "absent"}
  BY DEF Inv, Queued, Queue!TypeOK, LetGo, Overrun, Queue!LetGo, Queue!Overrun
<1>2. troubled' \in 0 .. MaxTroubles
  BY TroubleTypes DEF Inv, UploadTypeOK, LetGo, Overrun
<1> QED
  BY <1>1, <1>2 DEF Inv, upload, webhooks, links, backfill, UploadTypeOK, OnLink, On,
     Queued, Queue!TypeOK, Hooks, Binding, Filling, BackfillOnce, Transacting, Coupled, Running

LEMMA NextInv == Inv /\ [Next]_vars => Inv'
<1> SUFFICES ASSUME Inv, Next PROVE Inv'
  BY Stutter
<1>1. CASE \E r \in Responses : Submit(r)
  BY <1>1, SubmitInv
<1>2. CASE \E l \in Links : \/ Bind(l) \/ EnqueueSaved(l) \/ EnqueueLost(l)
                            \/ DropSession(l)
  BY <1>2, BindInv, EnqueueSavedInv, EnqueueLostInv, DropSessionInv
<1>3. CASE \E p \in Replicas : \/ ClaimMarker(p) \/ InsertJobs(p)
                               \/ CommitBackfill(p) \/ BackfillFails(p)
  BY <1>3, BootInv, CommitInv
<1>4. ASSUME NEW w \in Workers, Work(w) PROVE Inv'
  BY <1>4, TakeInv, PostInv, WebhookEndInv, ConfigEndInv, ReplaceInv, TransferInv DEF Work
<1>5. CASE \E w \in Workers : Unavailable(w) \/ Rejected(w) \/ Crash(w)
  BY <1>5, WebhookEndInv, CrashInv
<1>6. CASE LetGo \/ \E j \in Jobs : Overrun(j)
  BY <1>6, LateInv
<1> QED  BY <1>1, <1>2, <1>3, <1>4, <1>5, <1>6 DEF Next

LEMMA InvAlways == Spec => []Inv
  BY InitInv, NextInv, PTL DEF Spec

\* Every variable stays in its type, for any number of workers, replicas, links
\* and responses.
THEOREM TypeCorrect == Spec => []TypeOK
  BY InvAlways, InvTypes, PTL

\* The transaction of resync_all_form_links runs once, however many replicas
\* start, fail and start again, and whatever links they find.
THEOREM BackfilledOnce == Spec => []BackfillOnce
<1>1. Inv => BackfillOnce
  BY DEF Inv, Filling
<1> QED  BY <1>1, InvAlways, PTL

-----------------------------------------------------------------------------
(* The upload replaces the list as a whole. *)

\* What is staged and what is left make up the list, while the session is open.
Whole ==
    \A w \in Workers :
        /\ call[w].stage = "start" => call[w].left = call[w].want
        /\ call[w].stage = "chunk" /\ Open(w) =>
               session[On(w)].staged \cup call[w].left = call[w].want
        /\ call[w].stage = "commit" /\ Open(w) => session[On(w)].staged = call[w].want

LEMMA GotoCall == ASSUME UploadTypeOK, NEW w \in Workers, NEW s, Goto(w, s)
                  PROVE  /\ \A v \in Workers \ {w} : call'[v] = call[v]
                         /\ call'[w].link = call[w].link /\ call'[w].want = call[w].want
                         /\ call'[w].left = call[w].left /\ call'[w].stage = s
  BY DEF Goto, UploadTypeOK

\* A step of w elsewhere than between its chunks and their commit.
LEMMA WholeElsewhere ==
    ASSUME Whole, NEW w \in Workers, \A v \in Workers \ {w} : call'[v] = call[v],
           call'[w].stage \notin {"chunk", "commit"},
           call'[w].stage = "start" => call'[w].left = call'[w].want,
           \A l \in Links : session'[l] = session[l] \/ session'[l].owner \in {w, NoWorker},
           OnLink
    PROVE  Whole'
<1>9. \A v \in Workers : call'[v].stage = "start" => call'[v].left = call'[v].want
  BY DEF Whole
<1> SUFFICES ASSUME NEW v \in Workers, Open(v)', call'[v].stage \in {"chunk", "commit"}
             PROVE  /\ call'[v].stage = "chunk" =>
                          session'[On(v)'].staged \cup call'[v].left = call'[v].want
                    /\ call'[v].stage = "commit" => session'[On(v)'].staged = call'[v].want
  BY <1>9 DEF Whole
<1>1. v # w /\ call'[v] = call[v]
  OBVIOUS
<1>2. call[v] # NoCall
  BY <1>1 DEF NoCall, Call
<1>3. On(v) \in Links /\ On(v)' = On(v)
  BY <1>1, <1>2 DEF OnLink, On
<1>4. session'[On(v)].owner = v
  BY <1>3 DEF Open
<1>5. session'[On(v)] = session[On(v)]
  BY <1>1, <1>3, <1>4
<1> QED  BY <1>1, <1>3, <1>4, <1>5 DEF Whole, Open

LEMMA SessionOwner == ASSUME UploadTypeOK, OnLink, NEW w \in Workers,
                             UploadStep(w) \/ UploadTrouble(w)
                      PROVE  \A l \in Links : \/ session'[l] = session[l]
                                              \/ session'[l].owner \in {w, NoWorker}
<1>1. call[w].stage # "none"
  BY StepGoesOn
<1>2. On(w) \in Links
  BY <1>1 DEF OnLink, NoCall, Call
<1>3. CASE UploadChunk(w) \/ ChunkFails(w)
  <2>1. session' = session \/ (Open(w) /\ Stage(w))
    BY <1>3 DEF UploadChunk, ChunkFails
  <2> QED  BY <2>1, <1>2 DEF Stage, Open, UploadTypeOK
<1>4. CASE ~(UploadChunk(w) \/ ChunkFails(w))
  <2>1. \/ session' = session
        \/ session' = [session EXCEPT ![On(w)] = NoSession]
        \/ session' = [session EXCEPT ![On(w)] = [owner |-> w, staged |-> {}]]
    BY <1>4 DEF UploadStep, UploadTrouble, Put, Start, StartRefused,
       Cancel, Commit, CommitGone, Answer, StartLost
  <2> QED  BY <2>1, <1>2 DEF NoSession, UploadTypeOK
<1> QED  BY <1>3, <1>4

\* Between w's chunks and their commit only w changes its session.
LEMMA WholeOwn ==
    ASSUME UploadTypeOK, OnLink, Whole, NEW w \in Workers, Start(w) \/ UploadChunk(w)
    PROVE  Whole'
<1>1. /\ GoesOn(w) /\ On(w) \in Links
      /\ \A l \in Links : session'[l] = session[l] \/ session'[l].owner \in {w, NoWorker}
  <2>1. UploadStep(w)
    BY DEF UploadStep
  <2>2. GoesOn(w) /\ call[w].stage # "none"
    BY <2>1, StepGoesOn
  <2>3. On(w) \in Links
    BY <2>2 DEF OnLink, NoCall, Call
  <2> QED  BY <2>1, <2>2, <2>3, SessionOwner
<1>2. \A v \in Workers \ {w} : call'[v] = call[v]
  BY <1>1 DEF GoesOn, UploadTypeOK
<1>9. \A v \in Workers : call'[v].stage = "start" => call'[v].left = call'[v].want
  <2>1. call'[w].stage \in {"chunk", "commit"}
    BY GotoCall DEF Start, UploadChunk, Sent, Call, UploadTypeOK
  <2> QED  BY <1>2, <2>1 DEF Whole
<1> SUFFICES ASSUME NEW v \in Workers, Open(v)', call'[v].stage \in {"chunk", "commit"}
             PROVE  /\ call'[v].stage = "chunk" =>
                          session'[On(v)'].staged \cup call'[v].left = call'[v].want
                    /\ call'[v].stage = "commit" => session'[On(v)'].staged = call'[v].want
  BY <1>9 DEF Whole
<1>3. CASE v # w
  <2>1. On(v) \in Links /\ On(v)' = On(v) /\ call'[v] = call[v]
    BY <1>2, <1>3 DEF OnLink, On, NoCall, Call
  <2>2. session'[On(v)].owner = v /\ v # NoWorker
    BY <2>1 DEF Open
  <2>3. session'[On(v)] = session[On(v)]
    BY <1>1, <1>3, <2>1, <2>2
  <2> QED  BY <2>1, <2>2, <2>3 DEF Whole, Open
<1>4. CASE v = w /\ Start(w)
  <2>1. /\ call'[w].stage = "chunk" /\ call'[w].left = call[w].left
        /\ call'[w].want = call[w].want /\ On(w)' = On(w)
    BY <1>4, GotoCall DEF Start, On
  <2>2. session'[On(w)].staged = {}
    BY <1>1, <1>4 DEF Start, UploadTypeOK
  <2>3. call[w].left = call[w].want
    BY <1>4 DEF Whole, Start
  <2> QED  BY <1>4, <2>1, <2>2, <2>3
<1>5. CASE v = w /\ UploadChunk(w)
  <2>1. session[On(w)].staged \cup call[w].left = call[w].want
    BY <1>5 DEF UploadChunk, Whole
  <2>2. /\ call'[w].left = call[w].left \ Chunk(w) /\ call'[w].want = call[w].want
        /\ call'[w].stage = IF call[w].left = Chunk(w) THEN "commit" ELSE "chunk"
        /\ On(w)' = On(w)
    BY <1>5 DEF UploadChunk, Sent, Call, On, UploadTypeOK
  <2>3. session'[On(w)].staged = session[On(w)].staged \cup Chunk(w)
    BY <1>1, <1>5 DEF UploadChunk, Stage, UploadTypeOK
  <2>4. Chunk(w) \subseteq call[w].left
    BY DEF Chunk
  <2> QED  BY <1>5, <2>1, <2>2, <2>3, <2>4
<1> QED  BY <1>3, <1>4, <1>5

LEMMA TransferWhole == ASSUME UploadTypeOK, OnLink, Whole, NEW w \in Workers,
                              UploadStep(w) \/ UploadTrouble(w)
                       PROVE  Whole'
<1>1. CASE Start(w) \/ UploadChunk(w)
  BY <1>1, WholeOwn
<1>2. CASE ~(Start(w) \/ UploadChunk(w))
  <2>1. \E s \in {"answer", "failed", "cancel", "ok"} : Goto(w, s)
    BY <1>2 DEF UploadStep, UploadTrouble, Put, StartRefused, ChunkFails, Cancel,
       Commit, CommitGone, Answer, StartLost
  <2>2. /\ \A v \in Workers \ {w} : call'[v] = call[v]
        /\ call'[w].stage \in {"answer", "failed", "cancel", "ok"}
    BY <2>1, GotoCall
  <2> QED  BY <2>2, SessionOwner, WholeElsewhere
<1> QED  BY <1>1, <1>2

\* w's call begins or ends.
LEMMA CallWhole == ASSUME UploadTypeOK, OnLink, Whole, NEW w \in Workers, NEW c \in Calls,
                          call' = [call EXCEPT ![w] = c], session' = session,
                          c.stage \notin {"chunk", "commit"}, c.stage = "start" => c.left = c.want
                   PROVE  Whole'
<1>1. call'[w] = c /\ \A v \in Workers \ {w} : call'[v] = call[v]
  BY DEF UploadTypeOK
<1> QED  BY <1>1, WholeElsewhere

LEMMA SameWhole == Whole /\ UNCHANGED <<call, session>> => Whole'
  BY DEF Whole, Open, On

LEMMA DropWhole == ASSUME OnLink, UploadTypeOK, Whole, NEW l \in Links, DropSession(l)
                   PROVE  Whole'
<1>1. call' = call /\ session' = [session EXCEPT ![l] = NoSession]
  BY DEF DropSession, Expire, ExpireEarly
<1>2. SUFFICES ASSUME NEW v \in Workers, Open(v)', call[v].stage \in {"chunk", "commit"}
               PROVE  session'[On(v)] = session[On(v)]
  BY <1>1 DEF Whole, Open, On
<1>3. On(v) \in Links
  BY <1>2 DEF OnLink, NoCall, Call
<1>4. session'[On(v)].owner # NoWorker
  BY <1>1, <1>2 DEF Open, On
<1> QED  BY <1>1, <1>3, <1>4 DEF NoSession, UploadTypeOK

LEMMA WholeStep == Inv /\ Whole /\ [Next]_vars => Whole'
<1> SUFFICES ASSUME Inv, Whole, [Next]_vars PROVE Whole'
  OBVIOUS
<1>1. UploadTypeOK /\ OnLink
  BY DEF Inv
<1>2. CASE UNCHANGED <<call, session>>
  BY <1>2, SameWhole
<1>3. ASSUME NEW w \in Workers, Transfer(w) PROVE Whole'
  BY <1>1, <1>3, TransferWhole DEF Transfer
<1>4. ASSUME NEW l \in Links, DropSession(l) PROVE Whole'
  BY <1>1, <1>4, DropWhole
<1>5. ASSUME NEW w \in Workers, Recorded(w) \/ ReplaceFails(w) \/ Crash(w) PROVE Whole'
  <2>1. call' = [call EXCEPT ![w] = NoCall] /\ session' = session
    BY <1>5 DEF Recorded, ReplaceFails, Crash, Leave
  <2>2. NoCall \in Calls /\ NoCall.stage = "none"
    BY DEF NoCall, Call, Calls, Stages
  <2> QED  BY <1>1, <2>1, <2>2, CallWhole
<1>6. ASSUME NEW w \in Workers, Replace(w) PROVE Whole'
  <2>1. run[w].of \in Links
    BY <1>6, ConfigIdle DEF Replace
  <2>2. PICK S \in Lists[run[w].of] : Ask(w, run[w].of, S)
    BY <1>6 DEF Replace
  <2> DEFINE c == Call(run[w].of, S, S, IF Cardinality(S) <= PutMax THEN "put" ELSE "start")
  <2>3. c \in Calls /\ c.stage \notin {"chunk", "commit"} /\ c.left = c.want
    BY <2>1, <2>2 DEF Call, Calls, Stages
  <2>4. call' = [call EXCEPT ![w] = c] /\ session' = session
    BY <1>6, <2>2 DEF Ask, Replace
  <2> QED  BY <1>1, <2>3, <2>4, CallWhole
<1>7. ASSUME NEW w \in Workers, Work(w) PROVE Whole'
  <2>1. CASE (\E j \in Jobs : Take(w, j)) \/ Post(w) \/ Posted(w) \/ Unchanged(w)
    BY <1>2, <2>1 DEF Take, Post, Posted, Unchanged, upload
  <2> QED  BY <1>3, <1>5, <1>6, <1>7, <2>1 DEF Work
<1> QED
  BY <1>2, <1>4, <1>5, <1>7 DEF Next, vars, upload, Submit, Bind, EnqueueSaved,
     EnqueueLost, ClaimMarker, InsertJobs, CommitBackfill, BackfillFails, Unavailable,
     Rejected, Overrun, LetGo

-----------------------------------------------------------------------------
(* The refinement. *)

Shown(c) == [link |-> c.link, want |-> c.want, stage |-> Phase(c.stage)]

LEMMA AskedIs == /\ Asked = [w \in Workers |-> Shown(call[w])]
                 /\ Asked' = [w \in Workers |-> Shown(call'[w])]
  BY DEF Asked, Shown, Phase

LEMMA AskedStep == ASSUME UploadTypeOK, NEW w \in Workers, NEW c,
                          call' = [call EXCEPT ![w] = c]
                   PROVE  Asked' = [Asked EXCEPT ![w] = Shown(c)]
  BY AskedIs DEF UploadTypeOK

LEMMA AskedGoto == ASSUME UploadTypeOK, NEW w \in Workers, NEW s, Goto(w, s)
                   PROVE  Asked' = [Asked EXCEPT ![w].stage = Phase(s)]
<1>1. \A v \in Workers \ {w} : call'[v] = call[v]
  BY GotoCall
<1>2. /\ call'[w].link = call[w].link /\ call'[w].want = call[w].want
      /\ call'[w].stage = s
  BY GotoCall
<1>3. Shown(call'[w]) = [Shown(call[w]) EXCEPT !.stage = Phase(s)]
  BY <1>2 DEF Shown
<1> QED  BY <1>1, <1>3, AskedIs

LEMMA PhaseIs == /\ \A s \in {"put", "start", "chunk", "commit", "cancel"} : Phase(s) = "asked"
                 /\ Phase("answer") = "replaced"
                 /\ Phase("ok") = "ok" /\ Phase("failed") = "failed" /\ Phase("none") = "none"
  BY DEF Phase

Abstract == [Replacing!Next]_<<remote, Asked>>

\* A step that shows nothing of the call but its phase.
LEMMA GotoUnseen == ASSUME UploadTypeOK, NEW w \in Workers, NEW s, Goto(w, s),
                           Phase(s) = Phase(call[w].stage), remote' = remote
                    PROVE  Abstract
<1>1. Asked[w].stage = Phase(s) /\ Asked = [v \in Workers |-> Shown(call[v])]
  BY AskedIs DEF Shown
<1>2. [Asked[w] EXCEPT !.stage = Phase(s)] = Asked[w]
  BY <1>1 DEF Shown
<1>3. Asked' = Asked
  BY <1>1, <1>2, AskedGoto
<1> QED  BY <1>3 DEF Abstract

LEMMA FailAbstract == ASSUME UploadTypeOK, NEW w \in Workers, Goto(w, "failed"), remote' = remote,
                             call[w].stage \in {"put", "start", "commit", "cancel", "answer"}
                      PROVE  Abstract
<1>1. Asked[w].stage \in {"asked", "replaced"}
  BY PhaseIs, AskedIs DEF Shown
<1>2. Asked' = [Asked EXCEPT ![w].stage = "failed"]
  BY AskedGoto, PhaseIs
<1>3. Replacing!Fail(w)
  BY <1>1, <1>2 DEF Replacing!Fail
<1> QED  BY <1>3 DEF Abstract, Replacing!Next

\* The PUT, or the commit of a session that has collected the whole list.
LEMMA ReplaceAbstract == ASSUME UploadTypeOK, NEW w \in Workers, Goto(w, "answer"),
                                call[w].stage \in {"put", "commit"},
                                remote' = [remote EXCEPT ![On(w)] = call[w].want]
                         PROVE  Abstract
<1>1. /\ Asked[w].stage = "asked" /\ Asked[w].link = On(w)
      /\ Asked[w].want = call[w].want
  BY PhaseIs, AskedIs DEF Shown, On
<1>2. Asked' = [Asked EXCEPT ![w].stage = "replaced"]
  BY AskedGoto, PhaseIs
<1>3. Replacing!Replace(w)
  BY <1>1, <1>2 DEF Replacing!Replace
<1> QED  BY <1>3 DEF Abstract, Replacing!Next

LEMMA StepAbstract == ASSUME UploadTypeOK, OnLink, Whole, NEW w \in Workers,
                             UploadStep(w) \/ UploadTrouble(w)
                      PROVE  Abstract
<1>1. CASE Put(w)
  BY <1>1, ReplaceAbstract DEF Put
<1>2. CASE Commit(w)
  <2>1. session[On(w)].staged = call[w].want
    BY <1>2 DEF Commit, Whole
  <2> QED  BY <1>2, <2>1, ReplaceAbstract DEF Commit
<1>3. CASE Answer(w)
  <2>1. Asked[w].stage = "replaced"
    BY <1>3, PhaseIs, AskedIs DEF Answer, Shown
  <2>2. Asked' = [Asked EXCEPT ![w].stage = "ok"]
    BY <1>3, AskedGoto, PhaseIs DEF Answer
  <2>3. Replacing!Succeed(w)
    BY <1>3, <2>1, <2>2 DEF Answer, Replacing!Succeed
  <2> QED  BY <2>3 DEF Abstract, Replacing!Next
<1>4. CASE \/ StartRefused(w) \/ StartLost(w) \/ Cancel(w) \/ CommitGone(w)
          \/ PutFails(w) \/ StartFails(w) \/ CommitFails(w) \/ AnswerLost(w)
  <2>1. /\ Goto(w, "failed") /\ remote' = remote
        /\ call[w].stage \in {"put", "start", "commit", "cancel", "answer"}
    BY <1>4 DEF StartRefused, StartLost, Cancel, CommitGone
  <2> QED  BY <2>1, FailAbstract
<1>5. CASE Start(w) \/ ChunkFails(w)
  <2>1. \E s \in {"chunk", "cancel"} : Goto(w, s) /\ Phase(s) = Phase(call[w].stage)
    BY <1>5, PhaseIs DEF Start, ChunkFails
  <2>2. remote' = remote
    BY <1>5 DEF Start, ChunkFails
  <2> QED  BY <2>1, <2>2, GotoUnseen
<1>6. CASE UploadChunk(w)
  <2> DEFINE c == Call(On(w), call[w].want, call[w].left \ Chunk(w),
                       IF call[w].left = Chunk(w) THEN "commit" ELSE "chunk")
  <2>1. call' = [call EXCEPT ![w] = c] /\ remote' = remote
    BY <1>6 DEF UploadChunk, Sent
  <2>2. c.link = On(w) /\ c.want = call[w].want /\ c.stage \in {"commit", "chunk"}
    BY DEF Call
  <2>3. Phase(c.stage) = "asked" /\ Phase(call[w].stage) = "asked"
    BY <1>6, <2>2, PhaseIs DEF UploadChunk
  <2>4. Shown(c) = Shown(call[w])
    BY <2>2, <2>3 DEF Shown, On
  <2>5. Asked' = Asked
    BY <2>1, <2>4, AskedStep, AskedIs
  <2> QED  BY <2>1, <2>5 DEF Abstract
<1> QED  BY <1>1, <1>2, <1>3, <1>4, <1>5, <1>6 DEF UploadStep, UploadTrouble

LEMMA NothingShown == Shown(NoCall) = Replacing!Nothing
  BY PhaseIs DEF Shown, NoCall, Call, Replacing!Nothing

\* The worker has its result, or dies with or without a call.
LEMMA LeaveAbstract == ASSUME UploadTypeOK, NEW w \in Workers, Leave(w), remote' = remote
                       PROVE  Abstract
<1>1. Asked' = [Asked EXCEPT ![w] = Replacing!Nothing]
  BY NothingShown, AskedStep DEF Leave
<1>2. CASE Asked[w] = Replacing!Nothing
  <2>1. Asked' = Asked
    BY <1>1, <1>2, AskedIs
  <2> QED  BY <2>1 DEF Abstract
<1>3. CASE Asked[w] # Replacing!Nothing
  <2>1. Replacing!Return(w)
    BY <1>1, <1>3 DEF Replacing!Return
  <2> QED  BY <2>1 DEF Abstract, Replacing!Next
<1> QED  BY <1>2, <1>3

LEMMA AskAbstract == ASSUME Inv, NEW w \in Workers, Replace(w) PROVE Abstract
<1>1. run[w].of \in Links /\ call[w] = NoCall /\ UploadTypeOK
  BY ConfigIdle DEF Replace, Inv
<1>2. PICK S \in Lists[run[w].of] : Ask(w, run[w].of, S)
  BY DEF Replace
<1>3. S \in SUBSET Users
  BY <1>1, <1>2
<1> DEFINE c == Call(run[w].of, S, S, IF Cardinality(S) <= PutMax THEN "put" ELSE "start")
<1>4. call' = [call EXCEPT ![w] = c]
  BY <1>2 DEF Ask
<1>5. Shown(c) = [link |-> run[w].of, want |-> S, stage |-> "asked"]
  BY PhaseIs DEF Shown, Call
<1>6. Asked[w] = Replacing!Nothing
  BY <1>1, AskedIs, NothingShown
<1>7. Asked' = [Asked EXCEPT ![w] = [link |-> run[w].of, want |-> S, stage |-> "asked"]]
  BY <1>1, <1>4, <1>5, AskedStep
<1>8. Replacing!Ask(w)
  BY <1>1, <1>3, <1>6, <1>7 DEF Replace, Replacing!Ask
<1> QED  BY <1>8 DEF Abstract, Replacing!Next

LEMMA SameAbstract == UNCHANGED <<remote, call>> => Abstract
  BY AskedIs DEF Abstract

LEMMA NextAbstract == Inv /\ Whole /\ [Next]_vars => Abstract
<1> SUFFICES ASSUME Inv, Whole, [Next]_vars PROVE Abstract
  OBVIOUS
<1>1. UploadTypeOK /\ OnLink
  BY DEF Inv
<1>2. CASE UNCHANGED <<remote, call>>
  BY <1>2, SameAbstract
<1>3. ASSUME NEW w \in Workers, Transfer(w) PROVE Abstract
  BY <1>1, <1>3, StepAbstract DEF Transfer
<1>4. ASSUME NEW w \in Workers, Recorded(w) \/ ReplaceFails(w) \/ Crash(w) PROVE Abstract
  BY <1>1, <1>4, LeaveAbstract DEF Recorded, ReplaceFails, Crash
<1>5. ASSUME NEW w \in Workers, Work(w) PROVE Abstract
  <2>1. CASE (\E j \in Jobs : Take(w, j)) \/ Post(w) \/ Posted(w) \/ Unchanged(w)
    BY <1>2, <2>1 DEF Take, Post, Posted, Unchanged, upload
  <2> QED  BY <1>3, <1>4, <1>5, <2>1, AskAbstract DEF Work
<1>6. ASSUME NEW l \in Links, DropSession(l) PROVE Abstract
  BY <1>2, <1>6 DEF DropSession, Expire, ExpireEarly
<1> QED
  BY <1>2, <1>4, <1>5, <1>6 DEF Next, vars, upload, Submit, Bind, EnqueueSaved,
     EnqueueLost, ClaimMarker, InsertJobs, CommitBackfill, BackfillFails, Unavailable,
     Rejected, Overrun, LetGo

LEMMA InitAbstract == Init => Whole /\ Replacing!Init
<1> SUFFICES ASSUME Init PROVE Whole /\ Replacing!Init
  OBVIOUS
<1>1. \A w \in Workers : call[w] = NoCall
  BY DEF Init, UploadInit
<1>2. Whole
  BY <1>1 DEF Whole, NoCall, Call
<1>3. Asked = [w \in Workers |-> Replacing!Nothing]
  BY <1>1, NothingShown, AskedIs
<1> QED  BY <1>2, <1>3 DEF Init, UploadInit, Replacing!Init

\* Whatever fails, expires or is in another worker's way, RoleLogic's list of a
\* link is only ever replaced by a whole list that upload_users was asked for:
\* what the session has collected at the commit is all of it.
THEOREM ReplacesWhole == Spec => ImplementsReplace
<1>1. Spec => [](Inv /\ Whole)
  BY InitInv, InitAbstract, NextInv, WholeStep, PTL DEF Spec
<1>2. Inv /\ Whole /\ [Next]_vars => [Replacing!Next]_(Replacing!vars)
  BY NextAbstract DEF Abstract, Replacing!vars
<1>3. Init => Replacing!Init
  BY InitAbstract
<1> QED  BY <1>1, <1>2, <1>3, PTL DEF Spec, ImplementsReplace, Replacing!Spec
=============================================================================
