--------------------------- MODULE RoleSyncProofs ---------------------------
(***************************************************************************)
(* Proofs about RoleSync for any guilds, members, workers, rules, caps and *)
(* bounds, with every kind of change and failure: the types; that nobody   *)
(* who has opted out is ever on a list; and that a late delete_config does *)
(* not delete a link that was added again.                                 *)
(***************************************************************************)
EXTENDS RoleSync, FiniteSetTheorems, TLAPS

USE RoleSyncAssumption

-----------------------------------------------------------------------------
(* Types. *)

\* What TypeOK says of one worker's job.
JobOK(j) ==
    /\ j \in Job
    /\ j.kind = "player" => j.member \in Members
    /\ j.kind = "config" => j.guild \in Guilds

\* Of the tables and the lists.
StoreOK ==
    /\ answers \in [Guilds -> [Members -> SUBSET Answers]]
    /\ formLive \in [Guilds -> BOOLEAN]
    /\ link \in [Guilds -> {"bound", "unbound", "gone"}]
    /\ rule \in [Guilds -> SUBSET Answers] /\ token \in [Guilds -> Nat]
    /\ clearing \in [Guilds -> {"no", "bound", "loose"}]
    /\ mirror \in [Guilds -> SUBSET Members] /\ remote \in [Guilds -> SUBSET Members]
    /\ \A g \in Guilds : /\ link[g] = "gone" <=> token[g] = 0
                         /\ link[g] = "gone" => mirror[g] = {}

\* Of RoleLogic.
RoleLogicOK ==
    /\ upstream \in [Guilds -> {"on", "off", "gone"}]
    /\ issued \in [Guilds -> Nat \ {0}] /\ goodbyes \in [Guilds -> SUBSET (Nat \ {0})]
    /\ holding \in [Guilds -> BOOLEAN] /\ cap \in [Guilds -> Nat]

QueueOK == players \in [Members -> Nat] /\ configs \in [Guilds -> Nat]

BoundsOK == changed \in 0 .. MaxChanges /\ troubled \in 0 .. MaxTroubles

JobsOK == /\ DOMAIN job = Workers /\ job = [w \in Workers |-> job[w]]
          /\ \A w \in Workers : JobOK(job[w])

LEMMA TypeParts == TypeOK <=> StoreOK /\ RoleLogicOK /\ QueueOK /\ BoundsOK /\ JobsOK
BY DEF TypeOK, StoreOK, RoleLogicOK, QueueOK, BoundsOK, JobsOK, JobOK

LEMMA NextParts == StoreOK' /\ RoleLogicOK' /\ QueueOK' /\ BoundsOK' /\ JobsOK' => TypeOK'
BY DEF TypeOK, StoreOK, RoleLogicOK, QueueOK, BoundsOK, JobsOK, JobOK

LEMMA FreshOK ==
    /\ \A m \in Members : JobOK(Fresh("player", m, NoGuild))
    /\ \A g \in Guilds : JobOK(Fresh("config", 0, g))
    /\ JobOK(Idle)
BY DEF JobOK, Job, Fresh, Idle, Kinds, Stages, Acts

\* Only one worker's job changes in a step.
LEMMA OneJob ==
    ASSUME JobsOK, NEW w \in Workers, NEW j, JobOK(j), job' = [job EXCEPT ![w] = j]
    PROVE  JobsOK'
BY DEF JobsOK

LEMMA AdvanceOK ==
    ASSUME TypeOK, NEW w \in Workers, NEW s \in Stages, Advance(w, s)
    PROVE  JobsOK' /\ QueueOK' /\ BoundsOK'
<1>1. JobOK([job[w] EXCEPT !.stage = s])
  <2>1. JobOK(job[w])
    BY TypeParts DEF JobsOK
  <2> QED  BY <2>1 DEF JobOK, Job
<1>2. job' = [job EXCEPT ![w] = [job[w] EXCEPT !.stage = s]]
  BY DEF Advance
<1>3. QueueOK' /\ BoundsOK'
  BY TypeParts DEF Advance, queue, bounds, QueueOK, BoundsOK
<1> QED  BY <1>1, <1>2, <1>3, OneJob, TypeParts

LEMMA FinishOK ==
    ASSUME TypeOK, NEW w \in Workers, Finish(w)
    PROVE  JobsOK' /\ QueueOK' /\ BoundsOK'
<1>1. job' = [job EXCEPT ![w] = Idle]
  BY DEF Finish
<1>2. QueueOK' /\ BoundsOK'
  BY TypeParts DEF Finish, queue, bounds, QueueOK, BoundsOK
<1> QED  BY <1>1, <1>2, FreshOK, OneJob, TypeParts

LEMMA RerunOK ==
    ASSUME TypeOK, NEW w \in Workers, Rerun(w)
    PROVE  JobsOK' /\ QueueOK'
<1>1. job' = [job EXCEPT ![w] = Idle]
  BY DEF Rerun
<1>2. QueueOK'
  BY TypeParts DEF Rerun, QueueOK, JobsOK, JobOK
<1> QED  BY <1>1, <1>2, FreshOK, OneJob, TypeParts

LEMMA ReadOK ==
    ASSUME TypeOK, NEW w \in Workers, NEW S \in SUBSET Guilds, NEW s \in Stages,
           Read(w, S, s)
    PROVE  JobsOK'
<1> DEFINE r == [g \in Guilds |-> IF g \in S THEN rule[g] ELSE {}]
           t == [g \in Guilds |-> IF g \in S THEN token[g] ELSE 0]
           j == [job[w] EXCEPT !.stage = s, !.links = S, !.left = S, !.rule = r, !.token = t]
<1>1. r \in [Guilds -> SUBSET Answers] /\ t \in [Guilds -> Nat]
  BY TypeParts DEF StoreOK
<1>2. JobsOK /\ JobOK(job[w])
  BY TypeParts DEF JobsOK
<1>3. JobOK(j)
  <2> HIDE DEF r, t
  <2> QED  BY <1>1, <1>2 DEF JobOK, Job
<1>4. job' = [job EXCEPT ![w] = j]
  BY DEF Read
<1> HIDE DEF j
<1> QED  BY <1>2, <1>3, <1>4, OneJob

LEMMA DropLinkOK ==
    ASSUME TypeOK, NEW g \in Guilds, DropLink(g), UNCHANGED remote
    PROVE  StoreOK'
BY TypeParts DEF DropLink, StoreOK

LEMMA TroubleOK ==
    ASSUME TypeOK, NEW k, Trouble(k) PROVE BoundsOK'
BY TypeParts DEF Trouble, BoundsOK

LEMMA ChangeOK ==
    ASSUME TypeOK, NEW k, NEW g, Change(k, g) PROVE BoundsOK'
BY TypeParts DEF Change, Counted, BoundsOK

LEMMA CountedOK ==
    ASSUME TypeOK, NEW k, NEW g, Counted(k, g) PROVE changed' \in 0 .. MaxChanges
BY TypeParts DEF Counted, BoundsOK

\* Enqueueing adds one job or fails.
LEMMA BestEffortOK ==
    ASSUME TypeOK, NEW g \in Guilds,
           \/ BestEffort(NewConfig(g))
           \/ \E m \in Members : BestEffort(NewPlayer(m))
    PROVE  QueueOK' /\ troubled' \in 0 .. MaxTroubles
BY TypeParts DEF BestEffort, NewConfig, NewPlayer, queue, QueueOK, BoundsOK

LEMMA TypeInit == Init => TypeOK
<1> SUFFICES ASSUME Init PROVE TypeOK
  OBVIOUS
<1>1. StoreOK
  <2>1. rule \in [Guilds -> SUBSET Answers]
    <3> DEFINE F == [g \in Guilds |-> Rules[g] \cup {{}}]
    <3>1. rule \in [Guilds -> UNION {F[g] : g \in Guilds}] /\ \A g \in Guilds : rule[g] \in F[g]
      BY DEF Init, Choices
    <3>2. \A g \in Guilds : F[g] \subseteq SUBSET Answers
      OBVIOUS
    <3> QED  BY <3>1, <3>2
  <2> QED  BY <2>1 DEF Init, StoreOK
<1>2. RoleLogicOK
  BY DEF Init, RoleLogicOK, Choices
<1>3. QueueOK /\ BoundsOK
  BY DEF Init, QueueOK, BoundsOK
<1>4. JobsOK
  BY FreshOK DEF Init, JobsOK
<1> QED  BY <1>1, <1>2, <1>3, <1>4, TypeParts

-----------------------------------------------------------------------------
(* What the steps that read do to a job. *)

\* What only the step that decides may change.
Same(k, j) ==
    /\ k.kind = j.kind /\ k.member = j.member /\ k.guild = j.guild
    /\ k.act = j.act /\ k.want = j.want /\ k.token = j.token

\* The guilds are looked for.
LEMMA ScopeTo ==
    ASSUME TypeOK, NEW w \in Workers, NEW listed \in SUBSET Guilds,
           PlayerScope(w, listed) \/ PlayerHolds(w)
    PROVE  \E k : /\ job' = [job EXCEPT ![w] = k] /\ JobOK(k) /\ Same(k, job[w])
                  /\ k.kind = "player" /\ k.stage \in {"holds", "link"}
                  /\ job[w].stage \in {"start", "holds"}
<1>p. JobOK(job[w])
  BY TypeParts DEF JobsOK
<1>1. CASE PlayerScope(w, listed)
  <2> DEFINE L == {g \in Guilds : g \in listed \/ answers[g][job[w].member] # {}}
             k == [job[w] EXCEPT !.stage = "holds", !.left = L]
  <2>1. job' = [job EXCEPT ![w] = k] /\ job[w].kind = "player" /\ job[w].stage = "start"
    BY <1>1 DEF PlayerScope, At
  <2>2. L \in SUBSET Guilds /\ "holds" \in Stages
    BY DEF Stages
  <2> HIDE DEF L
  <2>3. JobOK(k) /\ Same(k, job[w]) /\ k.kind = "player" /\ k.stage = "holds"
    BY <2>1, <2>2, <1>p DEF JobOK, Job, Same
  <2> HIDE DEF k
  <2> QED  BY <2>1, <2>3
<1>2. CASE PlayerHolds(w)
  <2> DEFINE H == Holding(job[w].member)
             k == [job[w] EXCEPT !.stage = "link", !.had = H, !.left = job[w].left \cup H]
  <2>1. job' = [job EXCEPT ![w] = k] /\ job[w].kind = "player" /\ job[w].stage = "holds"
    BY <1>2 DEF PlayerHolds, At
  <2>2. H \in SUBSET Guilds /\ "link" \in Stages
    BY DEF Stages, Holding
  <2> HIDE DEF H
  <2>3. JobOK(k) /\ Same(k, job[w]) /\ k.kind = "player" /\ k.stage = "link"
    BY <2>1, <2>2, <1>p DEF JobOK, Job, Same
  <2> HIDE DEF k
  <2> QED  BY <2>1, <2>3
<1> QED  BY <1>1, <1>2

\* The gateway has been asked for g: it told of the members of T, and the job
\* goes on with the links of S.
VettedJob(k, j, g, S, T) ==
    /\ JobOK(k) /\ Same(k, j) /\ k.links = S
    /\ k.left = IF j.left = {g} THEN S ELSE j.left \ {g}
    /\ k.stage = IF j.left # {g} THEN "vet" ELSE IF S = {} THEN "act" ELSE "decide"
    /\ k.out = [j.out EXCEPT ![g] = T]

LEMMA VettedFields ==
    ASSUME TypeOK, NEW w \in Workers, NEW g \in Guilds,
           NEW S \in SUBSET Guilds, NEW T \in SUBSET Members
    PROVE  /\ VettedJob(Vetted(w, g, S, T), job[w], g, S, T)
           /\ VettedJob([Vetted(w, g, S, T) EXCEPT !.again = TRUE], job[w], g, S, T)
<1> DEFINE L == IF job[w].left = {g} THEN S ELSE job[w].left \ {g}
           s == IF job[w].left # {g} THEN "vet" ELSE IF S = {} THEN "act" ELSE "decide"
           o == [job[w].out EXCEPT ![g] = T]
           v == [job[w] EXCEPT !.links = S, !.out = o, !.left = L, !.stage = s]
           u == [v EXCEPT !.again = TRUE]
<1>p. JobOK(job[w])
  BY TypeParts DEF JobsOK
<1>1. L \in SUBSET Guilds /\ s \in Stages /\ o \in [Guilds -> SUBSET Members]
  BY <1>p DEF JobOK, Job, Stages
<1>2. Vetted(w, g, S, T) = v
  BY <1>p DEF Vetted, JobOK, Job
<1> HIDE DEF L, s, o
<1>3. /\ JobOK(v) /\ Same(v, job[w])
      /\ v.links = S /\ v.left = L /\ v.stage = s /\ v.out = o
  BY <1>1, <1>p DEF JobOK, Job, Same
<1> HIDE DEF v
<1>4. /\ JobOK(u) /\ Same(u, job[w])
      /\ u.links = S /\ u.left = L /\ u.stage = s /\ u.out = o
  BY <1>3 DEF JobOK, Job, Same
<1>5. u = [Vetted(w, g, S, T) EXCEPT !.again = TRUE]
  BY <1>2
<1> HIDE DEF u
<1> QED  BY <1>2, <1>3, <1>4, <1>5 DEF VettedJob, L, s, o

\* The links of g stay among those of the job only when the gateway has told who
\* opted out there.
LEMMA VettedTo ==
    ASSUME TypeOK, NEW w \in Workers, NEW g \in Guilds,
           PlayerVet(w, g) \/ PlayerUnvetted(w, g)
    PROVE  \E k, S, T :
              /\ job' = [job EXCEPT ![w] = k] /\ VettedJob(k, job[w], g, S, T)
              /\ S \subseteq job[w].links /\ (g \in S => T = OptedOut[g])
              /\ job[w].kind = "player" /\ job[w].stage = "vet"
<1>p. job[w].links \in SUBSET Guilds
  BY TypeParts DEF JobsOK, JobOK, Job
<1>k. job[w].kind = "player" /\ job[w].stage = "vet"
  BY DEF PlayerVet, PlayerUnvetted, Unanswered, At
<1>1. CASE PlayerVet(w, g)
  <2>1. job' = [job EXCEPT ![w] = Vetted(w, g, job[w].links, OptedOut[g])]
    BY <1>1 DEF PlayerVet
  <2>2. VettedJob(Vetted(w, g, job[w].links, OptedOut[g]), job[w], g, job[w].links, OptedOut[g])
    BY <1>p, VettedFields
  <2> QED  BY <2>1, <2>2, <1>k
<1>2. CASE PlayerUnvetted(w, g)
  <2> DEFINE S == job[w].links \ {g}
             v == Vetted(w, g, S, {})
             u == [v EXCEPT !.again = TRUE]
  <2>1. job' = [job EXCEPT ![w] = u] \/ job' = [job EXCEPT ![w] = v]
    BY <1>2 DEF PlayerUnvetted, Unanswered
  <2>2. VettedJob(v, job[w], g, S, {}) /\ VettedJob(u, job[w], g, S, {})
    BY <1>p, VettedFields
  <2>3. S \subseteq job[w].links /\ g \notin S
    OBVIOUS
  <2> HIDE DEF u, v, S
  <2> QED  BY <2>1, <2>2, <2>3, <1>k
<1> QED  BY <1>1, <1>2

\* And for a config_sync.
LEMMA ConfigVetTo ==
    ASSUME TypeOK, NEW w \in Workers, ConfigVet(w)
    PROVE  \E k : /\ job' = [job EXCEPT ![w] = k] /\ JobOK(k) /\ Same(k, job[w])
                  /\ k.kind = "config" /\ k.stage = "query" /\ job[w].stage = "vet"
                  /\ k.out[k.guild] = OptedOut[k.guild]
<1> DEFINE h == job[w].guild
           o == [job[w].out EXCEPT ![h] = OptedOut[h]]
           k == [job[w] EXCEPT !.stage = "query", !.out = o]
<1>p. JobOK(job[w])
  BY TypeParts DEF JobsOK
<1>1. job[w].kind = "config" /\ h \in Guilds /\ job[w].stage = "vet"
  BY <1>p DEF ConfigVet, Config, At, JobOK
<1>2. job' = [job EXCEPT ![w] = k]
  BY <1>p DEF ConfigVet, Its, JobOK, Job
<1>3. o \in [Guilds -> SUBSET Members] /\ o[h] = OptedOut[h] /\ "query" \in Stages
  BY <1>1, <1>p DEF JobOK, Job, Stages
<1> HIDE DEF o
<1>4. /\ JobOK(k) /\ Same(k, job[w]) /\ k.guild = h /\ k.kind = "config"
      /\ k.stage = "query" /\ k.out = o
  BY <1>1, <1>3, <1>p DEF JobOK, Job, Same
<1> HIDE DEF k
<1>5. k.out[k.guild] = OptedOut[k.guild]
  BY <1>3, <1>4
<1> QED  BY <1>1, <1>2, <1>4, <1>5

-----------------------------------------------------------------------------
(* Types, again. *)

\* The first steps of player_sync keep the types.
LEMMA TypePlayerReads ==
    ASSUME TypeOK, NEW w \in Workers,
           \/ \E m \in Members : TakePlayer(w, m)
           \/ \E listed \in SUBSET Guilds : PlayerScope(w, listed)
           \/ PlayerHolds(w) \/ PlayerLink(w)
           \/ \E g \in Guilds : PlayerVet(w, g) \/ PlayerUnvetted(w, g)
    PROVE  TypeOK'
<1>p. StoreOK /\ RoleLogicOK /\ QueueOK /\ BoundsOK /\ JobsOK /\ JobOK(job[w])
  BY TypeParts DEF JobsOK
<1>u. UNCHANGED <<database, mirror, remote, roleLogic>> => StoreOK' /\ RoleLogicOK'
  BY <1>p DEF StoreOK, RoleLogicOK, database, roleLogic
<1>q. UNCHANGED queue => QueueOK'
  BY <1>p DEF QueueOK, queue
<1>b. UNCHANGED bounds => BoundsOK'
  BY <1>p DEF BoundsOK, bounds
<1>1. ASSUME NEW m \in Members, TakePlayer(w, m) PROVE TypeOK'
  <2>1. JobsOK'
    BY <1>1, <1>p, FreshOK, OneJob DEF TakePlayer
  <2>2. QueueOK'
    BY <1>1, <1>p DEF TakePlayer, QueueOK
  <2> QED  BY <1>1, <2>1, <2>2, <1>u, <1>b, NextParts DEF TakePlayer
<1>2. ASSUME NEW listed \in SUBSET Guilds, PlayerScope(w, listed) \/ PlayerHolds(w)
      PROVE  TypeOK'
  <2>1. JobsOK'
    BY <1>2, <1>p, ScopeTo, OneJob
  <2> QED  BY <1>2, <2>1, <1>u, <1>q, <1>b, NextParts DEF PlayerScope, PlayerHolds
<1>3. CASE PlayerLink(w)
  <2> DEFINE S == {g \in job[w].left : link[g] = "bound"}
  <2>1. S \in SUBSET Guilds /\ "vet" \in Stages
    BY <1>p DEF JobOK, Job, Stages
  <2>2. CASE S = {}
    BY <1>3, <2>2, <1>u, FinishOK, NextParts DEF PlayerLink
  <2>3. CASE S # {}
    <3>1. Read(w, S, "vet") /\ UNCHANGED <<queue, bounds>>
      BY <1>3, <2>3 DEF PlayerLink
    <3>2. JobsOK'
      <4> HIDE DEF S
      <4> QED  BY <3>1, <2>1, ReadOK
    <3> QED  BY <1>3, <3>1, <3>2, <1>u, <1>q, <1>b, NextParts DEF PlayerLink
  <2> QED  BY <2>2, <2>3
<1>4. ASSUME NEW g \in Guilds, PlayerVet(w, g) \/ PlayerUnvetted(w, g) PROVE TypeOK'
  <2>1. JobsOK'
    BY <1>4, <1>p, VettedTo, OneJob DEF VettedJob
  <2>2. BoundsOK'
    BY <1>4, <1>b, TroubleOK DEF PlayerVet, PlayerUnvetted, Unanswered
  <2> QED  BY <1>4, <2>1, <2>2, <1>u, <1>q, NextParts DEF PlayerVet, PlayerUnvetted, Unanswered
<1>5. PlayerHolds(w) => TypeOK'
  BY <1>2
<1> QED  BY <1>1, <1>2, <1>3, <1>4, <1>5

\* Then it decides, and works on its changes side by side.
LEMMA TypePlayerActs ==
    ASSUME TypeOK, NEW w \in Workers, NEW g \in Guilds,
           \/ PlayerDecide(w, g) \/ PlayerCall(w, g) \/ PlayerSkip(w, g)
           \/ PlayerError(w, g) \/ PlayerRecord(w, g) \/ PlayerUnrecorded(w, g)
           \/ PlayerOrphaned(w, g)
    PROVE  TypeOK'
<1>p. StoreOK /\ RoleLogicOK /\ QueueOK /\ BoundsOK /\ JobsOK /\ JobOK(job[w])
  BY TypeParts DEF JobsOK
<1>r. UNCHANGED roleLogic => RoleLogicOK'
  BY <1>p DEF RoleLogicOK, roleLogic
<1>u. UNCHANGED <<database, mirror, remote>> => StoreOK'
  BY <1>p DEF StoreOK, database
<1>q. UNCHANGED queue => QueueOK'
  BY <1>p DEF QueueOK, queue
<1>b. UNCHANGED bounds => BoundsOK'
  BY <1>p DEF BoundsOK, bounds
<1>m. job[w].kind = "player" => Called(w, g) \in SUBSET Members
  BY <1>p DEF Called, JobOK, StoreOK
<1>a. ASSUME NEW a \in Acts, Acted(w, g, a) PROVE JobsOK'
  <2> DEFINE j == [job[w] EXCEPT !.act = [job[w].act EXCEPT ![g] = a]]
  <2>1. JobOK(j)
    <3>1. [job[w].act EXCEPT ![g] = a] \in [Guilds -> Acts]
      BY <1>p DEF JobOK, Job
    <3> QED  BY <3>1, <1>p DEF JobOK, Job
  <2>2. job' = [job EXCEPT ![w] = j]
    BY <1>a, <1>p DEF Acted, JobOK, Job
  <2> HIDE DEF j
  <2> QED  BY <2>1, <2>2, <1>p, OneJob
<1>s. "none" \in Acts /\ "added" \in Acts /\ "removed" \in Acts
  BY DEF Acts
<1>1. CASE PlayerDecide(w, g)
  <2> DEFINE acts == [job[w].act EXCEPT ![g] = Action(w, g)]
             f == Fresh("player", job[w].member, NoGuild)
             j == IF job[w].left # {g}
                  THEN [job[w] EXCEPT !.act = acts, !.left = job[w].left \ {g}]
                  ELSE [f EXCEPT !.stage = "act", !.again = job[w].again,
                                 !.act = acts, !.token = job[w].token]
  <2>1. acts \in [Guilds -> Acts]
    BY <1>p DEF Action, Acts, JobOK, Job
  <2>2. JobOK(f) /\ "act" \in Stages
    BY <1>1, <1>p, FreshOK DEF PlayerDecide, At, JobOK, Stages
  <2>3. JobOK(j)
    <3> HIDE DEF acts, f
    <3>1. JobOK([job[w] EXCEPT !.act = acts, !.left = job[w].left \ {g}])
      BY <2>1, <1>p DEF JobOK, Job
    <3>2. JobOK([f EXCEPT !.stage = "act", !.again = job[w].again,
                          !.act = acts, !.token = job[w].token])
      BY <2>1, <2>2, <1>p DEF JobOK, Job
    <3> QED  BY <3>1, <3>2
  <2>4. job' = [job EXCEPT ![w] = j]
    BY <1>1 DEF PlayerDecide
  <2>5. JobsOK'
    <3> HIDE DEF j
    <3> QED  BY <2>3, <2>4, <1>p, OneJob
  <2> QED  BY <1>1, <2>5, <1>u, <1>r, <1>q, <1>b, NextParts DEF PlayerDecide
<1>2. CASE PlayerCall(w, g)
  <2>1. StoreOK'
    BY <1>2, <1>p, <1>m DEF PlayerCall, Acting, At, StoreOK, database
  <2>2. JobsOK'
    BY <1>2, <1>a, <1>s DEF PlayerCall
  <2> QED  BY <1>2, <2>1, <2>2, <1>r, <1>q, <1>b, NextParts DEF PlayerCall
<1>3. CASE PlayerSkip(w, g)
  BY <1>3, <1>a, <1>s, <1>u, <1>r, <1>q, <1>b, NextParts DEF PlayerSkip
<1>4. CASE PlayerError(w, g)
  <2>1. remote' = remote \/ remote' = [remote EXCEPT ![g] = Called(w, g)]
    BY <1>4 DEF PlayerError
  <2>2. StoreOK'
    <3>1. Called(w, g) \in SUBSET Members
      BY <1>4, <1>m DEF PlayerError, Acting, At
    <3>2. UNCHANGED <<database, mirror>>
      BY <1>4 DEF PlayerError
    <3>3. remote' \in [Guilds -> SUBSET Members]
      BY <2>1, <3>1, <1>p DEF StoreOK
    <3> QED  BY <3>2, <3>3, <1>p DEF StoreOK, database
  <2> QED  BY <1>4, <2>2, <1>a, <1>s, <1>r, <1>q, TroubleOK, NextParts DEF PlayerError
<1>5. CASE PlayerRecord(w, g)
  <2>1. job[w].member \in Members
    BY <1>5, <1>p DEF PlayerRecord, Acting, At, JobOK
  <2>2. StoreOK'
    BY <1>5, <2>1, <1>p DEF PlayerRecord, StoreOK, database
  <2> QED  BY <1>5, <2>2, <1>a, <1>s, <1>r, <1>q, <1>b, NextParts DEF PlayerRecord
<1>6. CASE PlayerUnrecorded(w, g)
  BY <1>6, <1>a, <1>s, <1>u, <1>r, <1>q, TroubleOK, NextParts DEF PlayerUnrecorded
<1>7. CASE PlayerOrphaned(w, g)
  BY <1>7, <1>a, <1>s, DropLinkOK, <1>r, <1>q, <1>b, NextParts DEF PlayerOrphaned
<1> QED  BY <1>1, <1>2, <1>3, <1>4, <1>5, <1>6, <1>7

\* The parts of config_sync keep the types.
LEMMA TypeConfig ==
    ASSUME TypeOK, NEW w \in Workers,
           \/ \E g \in Guilds : TakeConfig(w, g)
           \/ ConfigLink(w) \/ ConfigVet(w) \/ ConfigUnvetted(w) \/ ConfigQuery(w)
           \/ ConfigCompare(w) \/ ConfigPut(w) \/ ConfigTooLarge(w) \/ ConfigCap(w)
           \/ ConfigHeld(w) \/ ConfigSkip(w) \/ ConfigOrphaned(w) \/ ConfigError(w)
           \/ ConfigRecord(w) \/ ConfigUnrecorded(w)
    PROVE  TypeOK'
<1>p. StoreOK /\ RoleLogicOK /\ QueueOK /\ BoundsOK /\ JobsOK /\ JobOK(job[w])
  BY TypeParts DEF JobsOK
<1>w. job[w].want \in SUBSET Members /\ (job[w].kind = "config" => Its(w) \in Guilds)
  BY <1>p DEF JobOK, Job, Its
<1>r. UNCHANGED roleLogic => RoleLogicOK'
  BY <1>p DEF RoleLogicOK, roleLogic
<1>u. UNCHANGED <<database, mirror, remote>> => StoreOK'
  BY <1>p DEF StoreOK, database
<1>q. UNCHANGED queue => QueueOK'
  BY <1>p DEF QueueOK, queue
<1>b. UNCHANGED bounds => BoundsOK'
  BY <1>p DEF BoundsOK, bounds
<1>n. ASSUME NEW s \in Stages, NEW S \in SUBSET Members, Wants(w, S, s),
             UNCHANGED <<database, mirror, remote, roleLogic, queue, bounds>>
      PROVE  TypeOK'
  <2> DEFINE j == [job[w] EXCEPT !.stage = s, !.want = S]
  <2>1. JobOK(j)
    BY <1>p DEF JobOK, Job
  <2>2. job' = [job EXCEPT ![w] = j]
    BY <1>n DEF Wants
  <2>3. JobsOK'
    <3> HIDE DEF j
    <3> QED  BY <2>1, <2>2, <1>p, OneJob
  <2> QED  BY <1>n, <2>3, <1>u, <1>r, <1>q, <1>b, NextParts
<1>s. /\ "query" \in Stages /\ "put" \in Stages /\ "record" \in Stages
      /\ "cap" \in Stages /\ "vet" \in Stages /\ "compare" \in Stages
  BY DEF Stages
<1>1. ASSUME NEW g \in Guilds, TakeConfig(w, g) PROVE TypeOK'
  <2>1. JobsOK'
    BY <1>1, <1>p, FreshOK, OneJob DEF TakeConfig
  <2>2. QueueOK'
    BY <1>1, <1>p DEF TakeConfig, QueueOK
  <2> QED  BY <1>1, <2>1, <2>2, <1>u, <1>r, <1>b, NextParts DEF TakeConfig
<1>2. CASE ConfigLink(w)
  <2>1. CASE link[Its(w)] = "bound"
    <3> DEFINE s == IF rule[Its(w)] = {} THEN "put" ELSE "vet"
    <3>1. {Its(w)} \in SUBSET Guilds /\ s \in Stages
      BY <1>2, <1>w, <1>s DEF ConfigLink, Config, At
    <3>2. Read(w, {Its(w)}, s) /\ UNCHANGED <<queue, bounds>>
      BY <1>2, <2>1 DEF ConfigLink
    <3>3. JobsOK'
      <4> HIDE DEF s
      <4> QED  BY <3>1, <3>2, ReadOK
    <3> QED  BY <1>2, <3>2, <3>3, <1>u, <1>r, <1>q, <1>b, NextParts DEF ConfigLink
  <2>2. CASE link[Its(w)] # "bound"
    BY <1>2, <2>2, <1>u, <1>r, FinishOK, NextParts DEF ConfigLink
  <2> QED  BY <2>1, <2>2
<1>3. CASE ConfigVet(w)
  <2>1. JobsOK'
    BY <1>3, <1>p, ConfigVetTo, OneJob
  <2> QED  BY <1>3, <2>1, <1>u, <1>r, <1>q, <1>b, NextParts DEF ConfigVet
<1>4. CASE ConfigUnvetted(w)
  BY <1>4, <1>u, <1>r, FinishOK, RerunOK, TroubleOK, NextParts DEF ConfigUnvetted
<1>5. CASE ConfigQuery(w)
  <2>1. Eligible(w) \in SUBSET Members
    BY DEF Eligible, Qualifying
  <2> QED  BY <1>5, <2>1, <1>n, <1>s DEF ConfigQuery, Wants
<1>6. CASE ConfigCompare(w)
  BY <1>6, <1>s, <1>u, <1>r, AdvanceOK, FinishOK, NextParts DEF ConfigCompare
<1>7. CASE ConfigPut(w)
  <2>1. StoreOK'
    BY <1>7, <1>p, <1>w DEF ConfigPut, Config, At, Uploaded, StoreOK, database
  <2> QED  BY <1>7, <2>1, <1>s, <1>r, AdvanceOK, NextParts DEF ConfigPut
<1>8. CASE ConfigTooLarge(w)
  BY <1>8, <1>s, <1>u, <1>r, AdvanceOK, NextParts DEF ConfigTooLarge
<1>9. CASE ConfigCap(w)
  <2>1. Lowest(cap[Its(w)], Eligible(w)) \in SUBSET Members
    BY DEF Eligible, Qualifying, Lowest
  <2> QED  BY <1>9, <2>1, <1>n, <1>s DEF ConfigCap, Wants
<1>10. CASE ConfigHeld(w)
  <2>1. QueueOK'
    BY <1>10, <1>p DEF ConfigHeld, QueueOK
  <2>2. JobsOK'
    BY <1>10, <1>p, FreshOK, OneJob DEF ConfigHeld
  <2> QED  BY <1>10, <2>1, <2>2, <1>u, <1>r, <1>b, NextParts DEF ConfigHeld
<1>11. CASE ConfigSkip(w)
  BY <1>11, <1>u, <1>r, FinishOK, NextParts DEF ConfigSkip
<1>12. CASE ConfigOrphaned(w)
  <2>1. Its(w) \in Guilds
    BY <1>12, <1>w DEF ConfigOrphaned, Config, At
  <2> QED  BY <1>12, <2>1, DropLinkOK, <1>r, FinishOK, NextParts DEF ConfigOrphaned
<1>13. CASE ConfigError(w)
  <2>1. remote' = remote \/ remote' = Uploaded(w)
    BY <1>13 DEF ConfigError
  <2>2. StoreOK'
    BY <1>13, <2>1, <1>p, <1>w DEF ConfigError, Config, At, Uploaded, StoreOK, database
  <2> QED  BY <1>13, <2>2, <1>r, RerunOK, TroubleOK, NextParts DEF ConfigError
<1>14. CASE ConfigRecord(w)
  <2>1. CASE link[Its(w)] = "gone" /\ job[w].want # {}
    BY <1>14, <2>1, <1>u, <1>r, <1>b, RerunOK, NextParts DEF ConfigRecord
  <2>2. CASE ~(link[Its(w)] = "gone" /\ job[w].want # {})
    <3>1. Its(w) \in Guilds /\ mirror' = [mirror EXCEPT ![Its(w)] = job[w].want]
            /\ UNCHANGED <<database, remote>>
      BY <1>14, <2>2, <1>w DEF ConfigRecord, Config, At
    <3>2. mirror' \in [Guilds -> SUBSET Members]
      BY <3>1, <1>p, <1>w DEF StoreOK
    <3>3. \A h \in Guilds : link[h] = "gone" => mirror'[h] = {}
      BY <3>1, <2>2, <1>p DEF StoreOK
    <3>4. StoreOK'
      BY <3>1, <3>2, <3>3, <1>p DEF StoreOK, database
    <3> QED  BY <1>14, <2>2, <3>4, <1>r, FinishOK, NextParts DEF ConfigRecord
  <2> QED  BY <2>1, <2>2
<1>15. CASE ConfigUnrecorded(w)
  <2>1. CASE Config(w, "record")
    <3>1. ~(Config(w, "put"))
      BY <2>1 DEF Config, At
    <3> QED  BY <1>15, <3>1, <1>u, <1>r, RerunOK, TroubleOK, NextParts DEF ConfigUnrecorded
  <2>2. CASE Config(w, "put")
    <3>1. job' = [job EXCEPT ![w] = Idle] /\ UNCHANGED queue
      BY <1>15, <2>2 DEF ConfigUnrecorded, Config, At
    <3>2. JobsOK'
      BY <3>1, <1>p, FreshOK, OneJob
    <3> QED  BY <1>15, <3>1, <3>2, <1>u, <1>r, <1>q, TroubleOK, NextParts DEF ConfigUnrecorded
  <2> QED  BY <1>15, <2>1, <2>2 DEF ConfigUnrecorded
<1> QED  BY <1>1, <1>2, <1>3, <1>4, <1>5, <1>6, <1>7, <1>8, <1>9, <1>10, <1>11, <1>12,
            <1>13, <1>14, <1>15

\* So do the end of player_sync and the failures of both kinds of job.
LEMMA TypeBoth ==
    ASSUME TypeOK, NEW w \in Workers, PlayerEnd(w) \/ ReadFails(w) \/ Crash(w)
    PROVE  TypeOK'
<1>1. UNCHANGED <<database, mirror, remote, roleLogic>>
  BY DEF PlayerEnd, ReadFails, Crash
<1>2. StoreOK' /\ RoleLogicOK'
  BY <1>1, TypeParts DEF StoreOK, RoleLogicOK, database, roleLogic
<1>3. UNCHANGED bounds => BoundsOK'
  BY TypeParts DEF BoundsOK, bounds
<1> QED  BY <1>2, <1>3, FinishOK, RerunOK, TroubleOK, NextParts
         DEF PlayerEnd, ReadFails, Crash

\* And users, admins and owners.
LEMMA TypeEnvironment == TypeOK /\ Environment => TypeOK'
<1> SUFFICES ASSUME TypeOK, NEW g \in Guilds,
                    \/ \E m \in Members, S \in SUBSET Answers : Submit(g, m, S)
                    \/ \E m \in Members, a \in Answers : DeleteResponse(g, m, a)
                    \/ ClearBegin(g) \/ ClearResponses(g) \/ DeleteForm(g)
                    \/ \E r \in Rules[g] : SaveRole(g, r)
                    \/ Unbind(g) \/ Resync(g) \/ ToggleHold(g) \/ ToggleLink(g)
                    \/ DeleteUpstream(g) \/ Register(g)
                    \/ \E t \in goodbyes[g] : DeleteConfig(g, t)
             PROVE  TypeOK'
  BY DEF Environment
<1>p. StoreOK /\ RoleLogicOK /\ QueueOK /\ BoundsOK /\ JobsOK
  BY TypeParts
<1>j. UNCHANGED job => JobsOK'
  BY <1>p DEF JobsOK, JobOK
<1>q. UNCHANGED queue => QueueOK'
  BY <1>p DEF QueueOK, queue
<1>r. UNCHANGED roleLogic => RoleLogicOK'
  BY <1>p DEF RoleLogicOK, roleLogic
<1>u. UNCHANGED <<database, mirror, remote>> => StoreOK'
  BY <1>p DEF StoreOK, database
<1> USE <1>p, <1>j, <1>q, <1>r, <1>u, NextParts
<1>1. ASSUME NEW m \in Members, NEW S \in SUBSET Answers, Submit(g, m, S) PROVE TypeOK'
  <2>1. StoreOK'
    BY <1>1 DEF Submit, StoreOK
  <2> QED  BY <1>1, <2>1, ChangeOK DEF Submit, NewPlayer, QueueOK
<1>2. ASSUME NEW m \in Members, NEW a \in Answers, DeleteResponse(g, m, a) PROVE TypeOK'
  <2>1. StoreOK'
    BY <1>2 DEF DeleteResponse, StoreOK
  <2> QED  BY <1>2, <2>1, CountedOK, BestEffortOK DEF DeleteResponse, BoundsOK
<1>3. CASE ClearBegin(g) \/ ClearResponses(g)
  <2>1. StoreOK'
    <3>1. \/ clearing' = clearing
          \/ \E c \in {"no", "bound", "loose"} : clearing' = [clearing EXCEPT ![g] = c]
      BY <1>3 DEF ClearBegin, ClearResponses
    <3>2. answers' = answers \/ answers' = [answers EXCEPT ![g] = [m \in Members |-> {}]]
      BY <1>3 DEF ClearBegin, ClearResponses, NoAnswers
    <3>3. clearing' \in [Guilds -> {"no", "bound", "loose"}]
      BY <3>1 DEF StoreOK
    <3>4. answers' \in [Guilds -> [Members -> SUBSET Answers]]
      <4> DEFINE N == [m \in Members |-> {}]
      <4>1. /\ N \in [Members -> SUBSET Answers]
            /\ answers \in [Guilds -> [Members -> SUBSET Answers]]
        BY DEF StoreOK
      <4>2. answers' = answers \/ answers' = [answers EXCEPT ![g] = N]
        BY <3>2
      <4> HIDE DEF N
      <4> QED  BY <4>1, <4>2
    <3>5. UNCHANGED <<formLive, link, rule, token, mirror, remote>>
      BY <1>3 DEF ClearBegin, ClearResponses
    <3> QED  BY <3>3, <3>4, <3>5 DEF StoreOK
  <2>2. CASE ClearBegin(g)
    BY <2>1, <2>2, ChangeOK DEF ClearBegin
  <2>3. CASE ClearResponses(g)
    <3>1. QueueOK' /\ troubled' \in 0 .. MaxTroubles
      BY <2>3, BestEffortOK DEF ClearResponses, BoundsOK
    <3> QED  BY <2>1, <2>3, <3>1 DEF ClearResponses, BoundsOK
  <2> QED  BY <1>3, <2>2, <2>3
<1>4. CASE DeleteForm(g)
  <2>1. StoreOK'
    <3>1. \/ link' = [link EXCEPT ![g] = "unbound"] /\ link[g] # "gone"
          \/ UNCHANGED link
      BY <1>4 DEF DeleteForm
    <3>2. answers' = [answers EXCEPT ![g] = [m \in Members |-> {}]]
      BY <1>4 DEF DeleteForm, NoAnswers
    <3>3. /\ formLive' = [formLive EXCEPT ![g] = FALSE]
          /\ UNCHANGED <<rule, token, clearing, mirror, remote>>
      BY <1>4 DEF DeleteForm
    <3> QED  BY <3>1, <3>2, <3>3 DEF StoreOK
  <2>2. QueueOK' /\ troubled' \in 0 .. MaxTroubles
    BY <1>4, BestEffortOK DEF DeleteForm, BoundsOK
  <2> QED  BY <1>4, <2>1, <2>2, CountedOK DEF DeleteForm, BoundsOK
<1>5. ASSUME NEW r \in SUBSET Answers, NEW s \in {"bound", "unbound"}, SaveLink(g, s, r),
             changed' \in 0 .. MaxChanges
      PROVE  TypeOK'
  <2>1. StoreOK'
    <3>1. \/ UNCHANGED <<link, rule>>
          \/ /\ link[g] # "gone" /\ link' = [link EXCEPT ![g] = s]
             /\ rule' = [rule EXCEPT ![g] = r]
      BY <1>5 DEF SaveLink
    <3>2. UNCHANGED <<answers, formLive, token, clearing, mirror, remote>>
      BY <1>5 DEF SaveLink
    <3>3. /\ link' \in [Guilds -> {"bound", "unbound", "gone"}]
          /\ rule' \in [Guilds -> SUBSET Answers]
      <4>1. /\ link \in [Guilds -> {"bound", "unbound", "gone"}]
            /\ rule \in [Guilds -> SUBSET Answers]
        BY DEF StoreOK
      <4>2. [link EXCEPT ![g] = s] \in [Guilds -> {"bound", "unbound", "gone"}]
        BY <4>1
      <4>3. [rule EXCEPT ![g] = r] \in [Guilds -> SUBSET Answers]
        BY <4>1
      <4> QED  BY <3>1, <4>1, <4>2, <4>3
    <3>4. \A h \in Guilds : link'[h] = "gone" <=> link[h] = "gone"
      <4> TAKE h \in Guilds
      <4>1. link \in [Guilds -> {"bound", "unbound", "gone"}]
        BY DEF StoreOK
      <4>2. CASE UNCHANGED link  BY <4>2
      <4>3. CASE link[g] # "gone" /\ link' = [link EXCEPT ![g] = s]
        BY <4>1, <4>3
      <4> QED  BY <3>1, <4>2, <4>3
    <3> QED  BY <3>2, <3>3, <3>4 DEF StoreOK
  <2> QED  BY <1>5, <2>1, BestEffortOK DEF SaveLink, BoundsOK
<1>6. CASE Unbind(g) \/ \E r \in Rules[g] : SaveRole(g, r)
  <2>1. rule[g] \in SUBSET Answers /\ Rules[g] \subseteq SUBSET Answers
    BY DEF StoreOK
  <2> QED  BY <1>6, <1>5, <2>1, CountedOK DEF Unbind, SaveRole
<1>7. CASE Resync(g)
  BY <1>7, CountedOK, BestEffortOK DEF Resync, BoundsOK
<1>8. CASE ToggleHold(g) \/ ToggleLink(g)
  <2>1. StoreOK' /\ RoleLogicOK'
    BY <1>8 DEF ToggleHold, ToggleLink, RoleLogicOK
  <2> QED  BY <1>8, <2>1, ChangeOK DEF ToggleHold, ToggleLink
<1>9. CASE DeleteUpstream(g)
  <2>1. RoleLogicOK'
    BY <1>9 DEF DeleteUpstream, RoleLogicOK
  <2>2. StoreOK'
    BY <1>9 DEF DeleteUpstream, StoreOK, database
  <2> QED  BY <1>9, <2>1, <2>2, ChangeOK DEF DeleteUpstream
<1>10. CASE Register(g)
  <2>1. RoleLogicOK'
    BY <1>10 DEF Register, RoleLogicOK
  <2>2. issued[g] \in Nat /\ issued[g] + 1 # 0
    BY DEF RoleLogicOK
  <2>3. token' \in [Guilds -> Nat] /\ link' \in [Guilds -> {"bound", "unbound", "gone"}]
          /\ rule' \in [Guilds -> SUBSET Answers]
    <3>1. token' = [token EXCEPT ![g] = issued[g] + 1]
      BY <1>10 DEF Register
    <3>2. token' \in [Guilds -> Nat]
      BY <3>1, <2>2 DEF StoreOK
    <3>3. link' \in [Guilds -> {"bound", "unbound", "gone"}]
      <4>1. link' = [link EXCEPT ![g] = "unbound"] \/ link' = link
        BY <1>10 DEF Register
      <4> QED  BY <4>1 DEF StoreOK
    <3>4. rule' = [rule EXCEPT ![g] = {}] \/ rule' = rule
      BY <1>10 DEF Register
    <3>5. rule' \in [Guilds -> SUBSET Answers]
      BY <3>4 DEF StoreOK
    <3> QED  BY <3>2, <3>3, <3>5
  <2>4. \A h \in Guilds : /\ link'[h] = "gone" <=> token'[h] = 0
                          /\ link'[h] = "gone" => mirror[h] = {}
    <3> TAKE h \in Guilds
    <3>1. CASE h = g
      BY <1>10, <2>2, <3>1 DEF Register, StoreOK
    <3>2. CASE h # g
      BY <1>10, <3>2 DEF Register, StoreOK
    <3> QED  BY <3>1, <3>2
  <2>5. UNCHANGED <<answers, formLive, clearing, mirror, remote>>
    BY <1>10 DEF Register
  <2>6. StoreOK'
    BY <2>3, <2>4, <2>5 DEF StoreOK
  <2> QED  BY <1>10, <2>1, <2>6, ChangeOK DEF Register
<1>11. ASSUME NEW t \in goodbyes[g], DeleteConfig(g, t) PROVE TypeOK'
  <2>1. RoleLogicOK'
    BY <1>11 DEF DeleteConfig, Arrived, RoleLogicOK
  <2>2. StoreOK'
    BY <1>11, DropLinkOK DEF DeleteConfig
  <2> QED  BY <1>11, <2>1, <2>2 DEF DeleteConfig, bounds, BoundsOK
<1> QED  BY <1>1, <1>2, <1>3, <1>4, <1>5, <1>6, <1>7, <1>8, <1>9, <1>10, <1>11

LEMMA TypeStep == TypeOK /\ [Next]_vars => TypeOK'
<1> SUFFICES ASSUME TypeOK, [Next]_vars PROVE TypeOK'
  OBVIOUS
<1>1. ASSUME NEW w \in Workers, Work(w) PROVE TypeOK'
  BY <1>1, TypePlayerReads, TypePlayerActs, TypeConfig, TypeBoth
  DEF Work, PlayerWork, ConfigWork
<1>2. ASSUME NEW w \in Workers, Failure(w) PROVE TypeOK'
  BY <1>2, TypePlayerReads, TypePlayerActs, TypeConfig, TypeBoth DEF Failure
<1>3. CASE UNCHANGED vars
  BY <1>3 DEF vars, database, roleLogic, queue, bounds, TypeOK
<1> QED  BY <1>1, <1>2, <1>3, TypeEnvironment DEF Next

\* Every variable stays in its type, and only a link that exists has a token
\* and rows in role_assignments.
THEOREM TypeCorrect == Spec => []TypeOK
<1> QED  BY TypeInit, TypeStep, PTL DEF Spec

-----------------------------------------------------------------------------
(* Opting out. *)

\* The list a config_sync is about to upload, and the member a player_sync is
\* about to add, have been looked up; and before that the job has been told of
\* the opt-outs it is about to leave out.  A list without members needs no look.
JobLookedUp(j) ==
    /\ j.kind = "config" =>
          /\ j.want \cap OptedOut[j.guild] = {}
          /\ j.stage \in {"query", "compare", "cap"} \/ j.want # {} =>
                j.out[j.guild] = OptedOut[j.guild]
    /\ j.kind = "player" =>
          /\ j.stage = "vet" => \A g \in j.links \ j.left : j.out[g] = OptedOut[g]
          /\ j.stage = "decide" => \A g \in j.left : j.out[g] = OptedOut[g]
    /\ \A g \in Guilds : j.act[g] = "add" => j.member \notin OptedOut[g]

LookedUp == \A w \in Workers : JobLookedUp(job[w])

OptOutInductive == TypeOK /\ LookedUp /\ OptOutHonoured

\* A job that has just begun is not about to do anything.
LEMMA FreshLookedUp ==
    /\ \A m : JobLookedUp(Fresh("player", m, NoGuild))
    /\ \A g : JobLookedUp(Fresh("config", 0, g))
    /\ JobLookedUp(Idle)
<1>1. \A k, m, g : LET f == Fresh(k, m, g)
                   IN  /\ f.want = {} /\ f.act = [h \in Guilds |-> "none"]
                       /\ f.stage = "start"
  BY DEF Fresh
<1>2. \A k, m, g : JobLookedUp(Fresh(k, m, g))
  BY <1>1 DEF JobLookedUp
<1>3. Idle.want = {} /\ Idle.act = [h \in Guilds |-> "none"] /\ Idle.stage = "idle"
  BY DEF Idle, Fresh
<1>4. JobLookedUp(Idle)
  BY <1>3 DEF JobLookedUp
<1> QED  BY <1>2, <1>4

LEMMA OptOutInit == Init => OptOutInductive
<1> SUFFICES ASSUME Init PROVE LookedUp /\ OptOutHonoured
  BY TypeInit DEF OptOutInductive
<1> QED  BY FreshLookedUp DEF Init, LookedUp, OptOutHonoured

\* The list grows only by who was looked up.
LEMMA OptOutList == OptOutInductive /\ [Next]_vars => OptOutHonoured'
<1> SUFFICES ASSUME OptOutInductive, [Next]_vars PROVE OptOutHonoured'
  OBVIOUS
<1> USE DEF OptOutInductive, OptOutHonoured
<1>t. remote \in [Guilds -> SUBSET Members] /\ job \in [Workers -> Job]
      /\ \A w \in Workers : job[w].kind = "config" => Its(w) \in Guilds
  BY DEF TypeOK, Its
<1>1. CASE UNCHANGED remote  BY <1>1
<1>2. ASSUME NEW w \in Workers, NEW g \in Guilds, PlayerCall(w, g) \/ PlayerError(w, g)
      PROVE  OptOutHonoured'
  <2>1. remote' = remote \/ remote' = [remote EXCEPT ![g] = Called(w, g)]
    BY <1>2 DEF PlayerCall, PlayerError
  <2>2. Called(w, g) \cap OptedOut[g] = {}
    BY DEF Called, LookedUp, JobLookedUp
  <2> QED  BY <2>1, <2>2, <1>t
<1>3. ASSUME NEW w \in Workers, ConfigPut(w) \/ ConfigError(w) PROVE OptOutHonoured'
  <2>1. Its(w) \in Guilds /\ job[w].want \cap OptedOut[Its(w)] = {}
    BY <1>3, <1>t DEF ConfigPut, ConfigError, Config, At, Its, LookedUp, JobLookedUp
  <2>2. remote' = remote \/ remote' = [remote EXCEPT ![Its(w)] = job[w].want]
    BY <1>3 DEF ConfigPut, ConfigError, Uploaded
  <2> QED  BY <2>1, <2>2, <1>t
<1>4. ASSUME NEW g \in Guilds, DeleteUpstream(g) PROVE OptOutHonoured'
  BY <1>4, <1>t DEF DeleteUpstream
<1>5. ASSUME NEW w \in Workers, Work(w) PROVE OptOutHonoured'
  BY <1>5, <1>1, <1>2, <1>3
  DEF Work, PlayerWork, ConfigWork, TakePlayer, TakeConfig, PlayerScope, PlayerHolds,
      PlayerLink, PlayerVet, PlayerUnvetted, Unanswered, PlayerDecide, PlayerSkip,
      PlayerRecord, PlayerOrphaned,
      PlayerEnd, ConfigLink, ConfigVet, ConfigUnvetted, ConfigQuery, ConfigCompare,
      ConfigTooLarge, ConfigCap, ConfigHeld, ConfigSkip, ConfigOrphaned, ConfigRecord, Wants
<1>6. ASSUME NEW w \in Workers, Failure(w) PROVE OptOutHonoured'
  BY <1>6, <1>1, <1>2, <1>3
  DEF Failure, PlayerUnvetted, Unanswered, PlayerUnrecorded, ConfigUnvetted, ConfigUnrecorded,
      ReadFails, Crash
<1>7. CASE Environment
  BY <1>7, <1>1, <1>4
  DEF Environment, Submit, DeleteResponse, ClearBegin, ClearResponses, DeleteForm,
      SaveRole, SaveLink, Unbind, Resync, ToggleHold, ToggleLink, DeleteConfig, Register
<1>8. CASE UNCHANGED vars  BY <1>8, <1>1 DEF vars
<1> QED  BY <1>5, <1>6, <1>7, <1>8 DEF Next

\* What a job is about to do was looked up: one case per action that decides
\* it, the rest keep it or drop the job.
LEMMA OptOutJobs == OptOutInductive /\ [Next]_vars => LookedUp'
<1> SUFFICES ASSUME OptOutInductive, [Next]_vars PROVE LookedUp'
  OBVIOUS
<1> USE DEF OptOutInductive
<1>t. job \in [Workers -> Job] /\ \A w \in Workers : JobLookedUp(job[w])
  BY DEF TypeOK, LookedUp
<1>o. ASSUME NEW w \in Workers, NEW j, JobLookedUp(j), job' = [job EXCEPT ![w] = j]
      PROVE  LookedUp'
  BY <1>o, <1>t DEF LookedUp
<1>k. ASSUME NEW w \in Workers, NEW j, job' = [job EXCEPT ![w] = j],
             j.kind = job[w].kind, j.member = job[w].member, j.guild = job[w].guild,
             j.act = job[w].act, j.want = job[w].want, j.kind = "config" => j.out = job[w].out,
             j.stage \notin {"vet", "decide", "query", "compare"},
             j.stage = "cap" => j.want # {}
      PROVE  LookedUp'
  <2>1. JobLookedUp(j)
    BY <1>k, <1>t DEF JobLookedUp
  <2> QED  BY <1>k, <2>1, <1>o
<1>f. \A w \in Workers : Finish(w) \/ Rerun(w) => LookedUp'
  BY <1>o, FreshLookedUp DEF Finish, Rerun
<1>a. ASSUME NEW w \in Workers, NEW s \in {"put", "record", "cap"}, Advance(w, s),
             s = "cap" => job[w].want # {}
      PROVE  LookedUp'
  <2> DEFINE j == [job[w] EXCEPT !.stage = s]
  <2>1. /\ j.kind = job[w].kind /\ j.member = job[w].member /\ j.guild = job[w].guild
        /\ j.act = job[w].act /\ j.want = job[w].want /\ j.out = job[w].out /\ j.stage = s
    BY <1>t DEF Job
  <2>2. job' = [job EXCEPT ![w] = j]
    BY <1>a DEF Advance
  <2> HIDE DEF j
  <2> QED  BY <2>1, <2>2, <1>a, <1>k
<1>r. ASSUME NEW w \in Workers, NEW S, NEW s \in {"vet", "put"}, Read(w, S, s) PROVE LookedUp'
  <2> DEFINE r == [g \in Guilds |-> IF g \in S THEN rule[g] ELSE {}]
             t == [g \in Guilds |-> IF g \in S THEN token[g] ELSE 0]
             j == [job[w] EXCEPT !.stage = s, !.links = S, !.left = S, !.rule = r, !.token = t]
  <2>1. /\ j.kind = job[w].kind /\ j.member = job[w].member /\ j.guild = job[w].guild
        /\ j.act = job[w].act /\ j.want = job[w].want /\ j.out = job[w].out
        /\ j.stage = s /\ j.links = S /\ j.left = S
    BY <1>t DEF Job
  <2>2. job' = [job EXCEPT ![w] = j]
    BY <1>r DEF Read
  <2> HIDE DEF j
  <2>3. JobLookedUp(j)
    BY <2>1, <1>t, <1>r DEF JobLookedUp
  <2> QED  BY <2>2, <2>3, <1>o
<1>c. ASSUME NEW w \in Workers, NEW g \in Guilds, NEW a, a # "add", Acted(w, g, a),
             At(w, "player", "act")
      PROVE  LookedUp'
  <2> DEFINE b == [job[w].act EXCEPT ![g] = a]
             j == [job[w] EXCEPT !.act = b]
  <2>1. \A h \in Guilds : b[h] = "add" => job[w].act[h] = "add"
    BY <1>c, <1>t DEF Job
  <2>2. JobLookedUp(j)
    <3> HIDE DEF b
    <3> QED  BY <2>1, <1>c, <1>t DEF JobLookedUp, Job, At
  <2>3. job' = [job EXCEPT ![w] = j]
    BY <1>c, <1>t DEF Acted, Job
  <2> HIDE DEF j
  <2> QED  BY <2>2, <2>3, <1>o
<1>s. ASSUME NEW w \in Workers, NEW S, NEW s \in {"compare", "put"}, Wants(w, S, s),
             job[w].kind = "config", S \cap OptedOut[Its(w)] = {},
             job[w].out[Its(w)] = OptedOut[Its(w)]
      PROVE  LookedUp'
  <2> DEFINE j == [job[w] EXCEPT !.stage = s, !.want = S]
  <2>1. JobLookedUp(j)
    BY <1>s, <1>t DEF JobLookedUp, Job, Its
  <2>2. job' = [job EXCEPT ![w] = j]
    BY <1>s DEF Wants
  <2> HIDE DEF j
  <2> QED  BY <2>1, <2>2, <1>o
<1>1. ASSUME NEW w \in Workers, Work(w) \/ Failure(w) PROVE LookedUp'
  <2>1. ASSUME NEW m \in Members, TakePlayer(w, m) PROVE LookedUp'
    BY <2>1, <1>o, FreshLookedUp DEF TakePlayer
  <2>2. ASSUME NEW g \in Guilds, TakeConfig(w, g) PROVE LookedUp'
    BY <2>2, <1>o, FreshLookedUp DEF TakeConfig
  <2>3. ASSUME NEW listed \in SUBSET Guilds, PlayerScope(w, listed) \/ PlayerHolds(w)
        PROVE  LookedUp'
    <3>1. PICK k : /\ job' = [job EXCEPT ![w] = k] /\ Same(k, job[w])
                   /\ k.kind = "player" /\ k.stage \in {"holds", "link"}
      BY <2>3, ScopeTo
    <3> QED  BY <3>1, <1>k DEF Same
  <2>4. CASE PlayerLink(w)
    BY <2>4, <1>r, <1>f DEF PlayerLink
  <2>5. ASSUME NEW g \in Guilds, PlayerVet(w, g) \/ PlayerUnvetted(w, g) PROVE LookedUp'
    <3>1. PICK k, S, T :
             /\ job' = [job EXCEPT ![w] = k] /\ VettedJob(k, job[w], g, S, T)
             /\ S \subseteq job[w].links /\ (g \in S => T = OptedOut[g])
             /\ job[w].kind = "player" /\ job[w].stage = "vet"
      BY <2>5, VettedTo
    <3>2. \A h \in S : h \notin job[w].left \ {g} => k.out[h] = OptedOut[h]
      BY <3>1, <1>t DEF VettedJob, JobLookedUp, Job
    <3>3. k.kind = "player" /\ k.member = job[w].member /\ k.act = job[w].act /\ k.links = S
      BY <3>1 DEF VettedJob, Same
    <3>4. /\ k.stage = "vet" => k.left = job[w].left \ {g}
          /\ k.stage = "decide" => k.left = S /\ job[w].left = {g}
      BY <3>1 DEF VettedJob
    <3>5. JobLookedUp(k)
      BY <3>2, <3>3, <3>4, <1>t DEF JobLookedUp
    <3> QED  BY <3>1, <3>5, <1>o
  <2>6. ASSUME NEW g \in Guilds, PlayerDecide(w, g) PROVE LookedUp'
    <3> DEFINE acts == [job[w].act EXCEPT ![g] = Action(w, g)]
    <3>0. /\ job[w].kind = "player" /\ job[w].stage = "decide" /\ g \in job[w].left
          /\ \A h \in job[w].left : job[w].out[h] = OptedOut[h]
      BY <2>6, <1>t DEF PlayerDecide, At, JobLookedUp
    <3>1. \A h \in Guilds : acts[h] = "add" => job[w].member \notin OptedOut[h]
      BY <3>0, <1>t DEF Action, Qualifies, JobLookedUp, Job
    <3>2. PICK j : /\ job' = [job EXCEPT ![w] = j]
                   /\ \/ j = [job[w] EXCEPT !.act = acts, !.left = job[w].left \ {g}]
                      \/ j = [Fresh("player", job[w].member, NoGuild) EXCEPT
                                 !.stage = "act", !.again = job[w].again,
                                 !.act = acts, !.token = job[w].token]
      BY <2>6 DEF PlayerDecide
    <3>3. /\ j.kind = "player" /\ j.member = job[w].member /\ j.act = acts
          /\ \/ j.stage = "act"
             \/ /\ j.stage = "decide" /\ j.out = job[w].out
                /\ j.left \subseteq job[w].left
      <4> HIDE DEF acts
      <4>1. CASE j = [job[w] EXCEPT !.act = acts, !.left = job[w].left \ {g}]
        BY <4>1, <3>0, <1>t DEF Job
      <4>2. CASE j = [Fresh("player", job[w].member, NoGuild) EXCEPT
                         !.stage = "act", !.again = job[w].again,
                         !.act = acts, !.token = job[w].token]
        BY <4>2 DEF Fresh
      <4> QED  BY <3>2, <4>1, <4>2
    <3>4. JobLookedUp(j)
      BY <3>0, <3>1, <3>3 DEF JobLookedUp
    <3> QED  BY <3>2, <3>4, <1>o
  <2>7. ASSUME NEW g \in Guilds,
               \/ PlayerCall(w, g) \/ PlayerSkip(w, g) \/ PlayerError(w, g)
               \/ PlayerRecord(w, g) \/ PlayerUnrecorded(w, g) \/ PlayerOrphaned(w, g)
        PROVE  LookedUp'
    BY <2>7, <1>c DEF PlayerCall, PlayerSkip, PlayerError, PlayerRecord, PlayerUnrecorded,
                      PlayerOrphaned, Acting
  <2>8. CASE ConfigLink(w)
    BY <2>8, <1>r, <1>f DEF ConfigLink
  <2>9. CASE ConfigQuery(w) \/ ConfigCap(w)
    <3> DEFINE Q == Eligible(w)
    <3>1. Wants(w, Q, "compare") \/ Wants(w, Lowest(cap[Its(w)], Q), "put")
      BY <2>9 DEF ConfigQuery, ConfigCap
    <3>2. job[w].kind = "config" /\ job[w].out[Its(w)] = OptedOut[Its(w)]
      BY <2>9, <1>t DEF ConfigQuery, ConfigCap, Config, At, JobLookedUp, Its
    <3>3. Q \cap OptedOut[Its(w)] = {} /\ Lowest(cap[Its(w)], Q) \cap OptedOut[Its(w)] = {}
      BY <3>2 DEF Eligible, Qualifying, Qualifies, Lowest
    <3> HIDE DEF Q
    <3> QED  BY <3>1, <3>2, <3>3, <1>s
  <2>10. CASE ConfigCompare(w) \/ ConfigPut(w) \/ ConfigTooLarge(w)
    <3>1. CASE ConfigTooLarge(w)
      <4>1. job[w].want # {}
        <5>1. cap[Its(w)] \in Nat
          BY <3>1 DEF ConfigTooLarge, Config, At, TypeOK, Its
        <5>2. Cardinality(job[w].want) > cap[Its(w)]
          BY <3>1 DEF ConfigTooLarge, TooLarge
        <5>3. job[w].want = {} => Cardinality(job[w].want) = 0
          BY FS_EmptySet
        <5> QED  BY <5>1, <5>2, <5>3
      <4> QED  BY <3>1, <4>1, <1>a DEF ConfigTooLarge
    <3>2. CASE ConfigCompare(w) \/ ConfigPut(w)
      BY <3>2, <1>a, <1>f DEF ConfigCompare, ConfigPut
    <3> QED  BY <2>10, <3>1, <3>2
  <2>v. CASE ConfigVet(w)
    <3>1. PICK k : /\ job' = [job EXCEPT ![w] = k] /\ Same(k, job[w])
                   /\ k.kind = "config" /\ k.out[k.guild] = OptedOut[k.guild]
      BY <2>v, ConfigVetTo
    <3>2. JobLookedUp(k)
      BY <3>1, <1>t DEF JobLookedUp, Same
    <3> QED  BY <3>1, <3>2, <1>o
  <2>11. CASE \/ PlayerEnd(w) \/ ConfigUnvetted(w) \/ ConfigSkip(w) \/ ConfigOrphaned(w)
              \/ ConfigError(w) \/ ConfigRecord(w) \/ ReadFails(w) \/ Crash(w)
    BY <2>11, <1>f DEF PlayerEnd, ConfigUnvetted, ConfigSkip, ConfigOrphaned, ConfigError,
                       ConfigRecord, ReadFails, Crash
  <2>12. CASE ConfigHeld(w) \/ ConfigUnrecorded(w)
    BY <2>12, <1>f, <1>o, FreshLookedUp DEF ConfigHeld, ConfigUnrecorded
  <2> QED
    BY <1>1, <2>1, <2>2, <2>3, <2>4, <2>5, <2>6, <2>7, <2>8, <2>9, <2>10, <2>11, <2>12,
       <2>v
    DEF Work, PlayerWork, ConfigWork, Failure
<1>2. CASE UNCHANGED job  BY <1>2, <1>t DEF LookedUp
<1>3. CASE Environment
  BY <1>3, <1>2
  DEF Environment, Submit, DeleteResponse, ClearBegin, ClearResponses, DeleteForm,
      SaveRole, SaveLink, Unbind, Resync, ToggleHold, ToggleLink, DeleteUpstream,
      DeleteConfig, Register
<1>4. CASE UNCHANGED vars  BY <1>4, <1>2 DEF vars
<1> QED  BY <1>1, <1>3, <1>4 DEF Next

\* No order of jobs, no failing lookup, no retry and no crash gives the role to
\* a member who has opted out in that guild.
THEOREM OptOut == Spec => []OptOutHonoured
<1>1. OptOutInductive /\ [Next]_vars => OptOutInductive'
  BY TypeStep, OptOutJobs, OptOutList DEF OptOutInductive
<1>2. OptOutInductive => OptOutHonoured
  BY DEF OptOutInductive
<1> QED  BY <1>1, <1>2, OptOutInit, PTL DEF Spec

-----------------------------------------------------------------------------
(* A late delete_config. *)

\* A job that is about to call RoleLogic about a link has read a token of it.
JobTokens(j) ==
    /\ \A g \in Guilds : j.token[g] <= issued[g]
    /\ \A g \in Guilds : j.act[g] # "none" => j.token[g] > 0
    /\ j.stage \notin {"decide", "act"} => \A g \in Guilds : j.act[g] = "none"
    /\ j.stage \in {"vet", "decide"} => \A g \in j.links \cup j.left : j.token[g] > 0
    /\ j.kind = "config" /\ j.stage \notin {"start", "idle"} => j.token[j.guild] > 0

\* RoleLogic never gives a token twice, and takes leave with the last one only
\* when the link is gone there.
Tokens ==
    \A g \in Guilds :
        /\ token[g] <= issued[g]
        /\ \A t \in goodbyes[g] : t <= issued[g] /\ (upstream[g] # "gone" => t # issued[g])

JobsHaveTokens == \A w \in Workers : JobTokens(job[w])

TokensInductive == TypeOK /\ Tokens /\ JobsHaveTokens

LEMMA FreshTokens ==
    ASSUME TypeOK
    PROVE  /\ \A m : JobTokens(Fresh("player", m, NoGuild))
           /\ \A g : JobTokens(Fresh("config", 0, g))
           /\ JobTokens(Idle)
<1>1. \A k, m, g : LET f == Fresh(k, m, g)
                   IN  /\ f.token = [h \in Guilds |-> 0] /\ f.stage = "start"
                       /\ f.act = [h \in Guilds |-> "none"]
  BY DEF Fresh
<1>2. Idle.token = [h \in Guilds |-> 0] /\ Idle.stage = "idle"
        /\ Idle.act = [h \in Guilds |-> "none"]
  BY DEF Idle, Fresh
<1>3. issued \in [Guilds -> Nat \ {0}]
  BY DEF TypeOK
<1> QED  BY <1>1, <1>2, <1>3 DEF JobTokens

LEMMA TokensInit == Init => TokensInductive
<1> SUFFICES ASSUME Init PROVE Tokens /\ JobsHaveTokens
  BY TypeInit DEF TokensInductive
<1>1. JobsHaveTokens
  BY TypeInit, FreshTokens DEF Init, JobsHaveTokens
<1> QED  BY <1>1 DEF Init, Tokens

\* Only register gives a row a token, and only the owner takes leave.
LEMMA TokensKept == TokensInductive /\ [Next]_vars => Tokens'
<1> SUFFICES ASSUME TokensInductive, [Next]_vars PROVE Tokens'
  OBVIOUS
<1>t. /\ token \in [Guilds -> Nat] /\ issued \in [Guilds -> Nat \ {0}]
      /\ goodbyes \in [Guilds -> SUBSET (Nat \ {0})]
      /\ upstream \in [Guilds -> {"on", "off", "gone"}]
      /\ \A w \in Workers : job[w].kind = "config" => Its(w) \in Guilds
  BY DEF TokensInductive, TypeOK, Its
<1>o. Tokens
  BY DEF TokensInductive
<1>1. CASE UNCHANGED <<token, issued, goodbyes, upstream>>
  BY <1>1, <1>o DEF Tokens
<1>2. ASSUME NEW g \in Guilds, DropLink(g), UNCHANGED <<issued, goodbyes, upstream>>
      PROVE  Tokens'
  BY <1>2, <1>o, <1>t DEF DropLink, Tokens
<1>3. ASSUME NEW g \in Guilds, NEW t \in goodbyes[g], DeleteConfig(g, t) PROVE Tokens'
  <2>1. token' = [token EXCEPT ![g] = 0] \/ token' = token
    BY <1>3 DEF DeleteConfig, DropLink, database
  <2>2. \A h \in Guilds : token'[h] <= issued[h]
    BY <2>1, <1>t, <1>o DEF Tokens
  <2>3. \A h \in Guilds : goodbyes'[h] \subseteq goodbyes[h]
    BY <1>3, <1>t DEF DeleteConfig, Arrived
  <2> QED  BY <1>3, <2>2, <2>3, <1>o DEF DeleteConfig, Tokens
<1>4. ASSUME NEW g \in Guilds, DeleteUpstream(g) PROVE Tokens'
  BY <1>4, <1>o, <1>t DEF DeleteUpstream, Tokens, database
<1>5. ASSUME NEW g \in Guilds, Register(g) PROVE Tokens'
  BY <1>5, <1>o, <1>t DEF Register, Tokens
<1>6. ASSUME NEW g \in Guilds, ToggleLink(g) PROVE Tokens'
  BY <1>6, <1>o, <1>t DEF ToggleLink, Tokens, database
<1>7. ASSUME NEW w \in Workers, Work(w) \/ Failure(w) PROVE Tokens'
  <2>1. ASSUME NEW g \in Guilds, PlayerOrphaned(w, g) PROVE Tokens'
    BY <2>1, <1>2 DEF PlayerOrphaned, roleLogic
  <2>2. CASE ConfigOrphaned(w)
    BY <2>2, <1>2, <1>t DEF ConfigOrphaned, Config, At, roleLogic
  <2> QED
    BY <1>7, <1>1, <2>1, <2>2
    DEF Work, Failure, PlayerWork, ConfigWork, TakePlayer, TakeConfig, PlayerScope, PlayerHolds,
        PlayerLink, PlayerVet, PlayerUnvetted, Unanswered, PlayerDecide, PlayerCall, PlayerSkip,
        PlayerError, PlayerRecord, PlayerUnrecorded, PlayerEnd, ConfigLink, ConfigVet,
        ConfigUnvetted, ConfigQuery, ConfigCompare, ConfigPut, ConfigTooLarge, ConfigCap,
        ConfigHeld, ConfigSkip, ConfigError, ConfigRecord, ConfigUnrecorded, ReadFails,
        Crash, Wants, database, roleLogic
<1>8. CASE Environment
  BY <1>8, <1>1, <1>3, <1>4, <1>5, <1>6
  DEF Environment, Submit, DeleteResponse, ClearBegin, ClearResponses, DeleteForm,
      SaveRole, SaveLink, Unbind, Resync, ToggleHold, database, roleLogic
<1>9. CASE UNCHANGED vars  BY <1>9, <1>1 DEF vars, database, roleLogic
<1> QED  BY <1>7, <1>8, <1>9 DEF Next

\* A token that RoleLogic has given stays one it has given.
LEMMA IssuedGrows ==
    ASSUME TypeOK, [Next]_vars
    PROVE  \A g \in Guilds : issued[g] \in Nat /\ issued'[g] \in Nat /\ issued[g] <= issued'[g]
<1>t. issued \in [Guilds -> Nat \ {0}]
  BY DEF TypeOK
<1>1. CASE UNCHANGED issued  BY <1>1, <1>t
<1>2. ASSUME NEW g \in Guilds, Register(g)
      PROVE  \A h \in Guilds : issued[h] \in Nat /\ issued'[h] \in Nat /\ issued[h] <= issued'[h]
  BY <1>2, <1>t DEF Register
<1>3. ASSUME NEW w \in Workers, Work(w) \/ Failure(w) PROVE UNCHANGED issued
  BY <1>3
  DEF Work, Failure, PlayerWork, ConfigWork, TakePlayer, TakeConfig, PlayerScope, PlayerHolds,
      PlayerLink, PlayerVet, PlayerUnvetted, Unanswered, PlayerDecide, PlayerCall, PlayerSkip,
      PlayerError, PlayerRecord, PlayerUnrecorded, PlayerOrphaned, PlayerEnd, ConfigLink,
      ConfigVet, ConfigUnvetted, ConfigQuery, ConfigCompare, ConfigPut, ConfigTooLarge,
      ConfigCap, ConfigHeld, ConfigSkip, ConfigOrphaned, ConfigError, ConfigRecord,
      ConfigUnrecorded, ReadFails, Crash, Wants, roleLogic
<1>4. CASE Environment
  BY <1>4, <1>1, <1>2
  DEF Environment, Submit, DeleteResponse, ClearBegin, ClearResponses, DeleteForm,
      SaveRole, SaveLink, Unbind, Resync, ToggleHold, ToggleLink, DeleteUpstream,
      DeleteConfig, roleLogic
<1>5. CASE UNCHANGED vars  BY <1>5, <1>1 DEF vars, roleLogic
<1> QED  BY <1>1, <1>3, <1>4, <1>5 DEF Next

\* A worker's step changes its own job only, which still has its tokens.
KeepsTokens(w) ==
    /\ \A v \in Workers : job'[v] = IF v = w THEN job'[w] ELSE job[v]
    /\ JobTokens(job'[w])

LEMMA JobTokensStep ==
    ASSUME TokensInductive, NEW w \in Workers, Work(w) \/ Failure(w)
    PROVE  KeepsTokens(w)
<1>t. /\ job \in [Workers -> Job] /\ JobTokens(job[w])
      /\ token \in [Guilds -> Nat] /\ issued \in [Guilds -> Nat \ {0}]
      /\ \A g \in Guilds : link[g] = "bound" => token[g] # 0
      /\ job[w].kind = "config" => job[w].guild \in Guilds
  BY DEF TokensInductive, TypeOK, JobsHaveTokens
<1>i. \A g \in Guilds : token[g] <= issued[g]
  BY DEF TokensInductive, Tokens
<1>o. ASSUME NEW j, JobTokens(j), job' = [job EXCEPT ![w] = j] PROVE KeepsTokens(w)
  BY <1>o, <1>t DEF KeepsTokens
<1>k. ASSUME NEW j, job' = [job EXCEPT ![w] = j],
             j.kind = job[w].kind, j.guild = job[w].guild, j.token = job[w].token,
             j.act = job[w].act, j.stage \notin {"vet", "decide"},
             job[w].stage \notin {"start", "idle"} \/ j.kind # "config",
             job[w].stage \notin {"decide", "act"}
      PROVE  KeepsTokens(w)
  <2>1. JobTokens(j)
    BY <1>k, <1>t DEF JobTokens
  <2> QED  BY <2>1, <1>k, <1>o
<1>f. ASSUME Finish(w) \/ Rerun(w) PROVE KeepsTokens(w)
  BY <1>f, <1>o, FreshTokens DEF Finish, Rerun, TokensInductive
<1>a. ASSUME NEW s, Advance(w, s), s \notin {"vet", "decide"},
             job[w].stage \notin {"start", "idle", "decide", "act"}
      PROVE  KeepsTokens(w)
  <2> DEFINE j == [job[w] EXCEPT !.stage = s]
  <2>1. /\ j.kind = job[w].kind /\ j.guild = job[w].guild /\ j.token = job[w].token
        /\ j.act = job[w].act /\ j.stage = s
    BY <1>t DEF Job
  <2>2. job' = [job EXCEPT ![w] = j]
    BY <1>a DEF Advance
  <2> HIDE DEF j
  <2> QED  BY <2>1, <2>2, <1>a, <1>k
<1>s. ASSUME NEW S, NEW s, Wants(w, S, s), s \notin {"vet", "decide"},
             job[w].stage \notin {"start", "idle", "decide", "act"}
      PROVE  KeepsTokens(w)
  <2> DEFINE j == [job[w] EXCEPT !.stage = s, !.want = S]
  <2>1. /\ j.kind = job[w].kind /\ j.guild = job[w].guild /\ j.token = job[w].token
        /\ j.act = job[w].act /\ j.stage = s
    BY <1>t DEF Job
  <2>2. job' = [job EXCEPT ![w] = j]
    BY <1>s DEF Wants
  <2> HIDE DEF j
  <2> QED  BY <2>1, <2>2, <1>s, <1>k
<1>r. ASSUME NEW S \in SUBSET Guilds, NEW s, Read(w, S, s),
             \A g \in S : link[g] = "bound", job[w].kind = "config" => job[w].guild \in S,
             job[w].stage \in {"start", "link"}
      PROVE  KeepsTokens(w)
  <2> DEFINE r == [g \in Guilds |-> IF g \in S THEN rule[g] ELSE {}]
             t == [g \in Guilds |-> IF g \in S THEN token[g] ELSE 0]
             j == [job[w] EXCEPT !.stage = s, !.links = S, !.left = S, !.rule = r, !.token = t]
  <2>1. (\A g \in Guilds : t[g] <= issued[g]) /\ (\A g \in S : t[g] > 0)
    BY <1>t, <1>i, <1>r
  <2>2. /\ j.kind = job[w].kind /\ j.guild = job[w].guild /\ j.token = t
        /\ j.act = job[w].act /\ j.links = S /\ j.left = S
    BY <1>t DEF Job
  <2>3. job' = [job EXCEPT ![w] = j]
    BY <1>r DEF Read
  <2> HIDE DEF r, t
  <2>4. \A g \in Guilds : job[w].act[g] = "none"
    BY <1>r, <1>t DEF JobTokens
  <2>5. JobTokens(j)
    <3> HIDE DEF j
    <3> QED  BY <2>1, <2>2, <2>4, <1>r DEF JobTokens
  <2> HIDE DEF j
  <2> QED  BY <2>3, <2>5, <1>o
<1>c. ASSUME NEW g \in Guilds, NEW a, Acted(w, g, a), job[w].stage = "act",
             job[w].kind = "player", job[w].act[g] # "none"
      PROVE  KeepsTokens(w)
  <2> DEFINE b == [job[w].act EXCEPT ![g] = a]
             j == [job[w] EXCEPT !.act = b]
  <2>1. \A h \in Guilds : b[h] # "none" => job[w].token[h] > 0
    BY <1>t, <1>c DEF JobTokens, Job
  <2>2. JobTokens(j)
    <3> HIDE DEF b
    <3> QED  BY <2>1, <1>t, <1>c DEF JobTokens, Job
  <2>3. job' = [job EXCEPT ![w] = j]
    BY <1>t, <1>c DEF Acted, Job
  <2> HIDE DEF j
  <2> QED  BY <2>2, <2>3, <1>o
<1>1. ASSUME NEW m \in Members, TakePlayer(w, m) PROVE KeepsTokens(w)
  BY <1>1, <1>o, FreshTokens DEF TakePlayer, TokensInductive
<1>2. ASSUME NEW g \in Guilds, TakeConfig(w, g) PROVE KeepsTokens(w)
  BY <1>2, <1>o, FreshTokens DEF TakeConfig, TokensInductive
<1>3. ASSUME NEW listed \in SUBSET Guilds, PlayerScope(w, listed) \/ PlayerHolds(w)
      PROVE  KeepsTokens(w)
  <2>1. PICK k : /\ job' = [job EXCEPT ![w] = k] /\ Same(k, job[w])
                 /\ k.kind = "player" /\ k.stage \in {"holds", "link"}
                 /\ job[w].stage \in {"start", "holds"}
    BY <1>3, ScopeTo DEF TokensInductive
  <2> QED  BY <2>1, <1>k DEF Same
<1>4. CASE PlayerLink(w)
  <2> DEFINE S == {g \in job[w].left : link[g] = "bound"}
  <2>1. Finish(w) \/ Read(w, S, "vet")
    BY <1>4 DEF PlayerLink
  <2>2. S \in SUBSET Guilds
    BY <1>t DEF Job
  <2>3. job[w].kind = "player" /\ job[w].stage = "link"
    BY <1>4 DEF PlayerLink, At
  <2>4. \A g \in S : link[g] = "bound"
    OBVIOUS
  <2> HIDE DEF S
  <2> QED  BY <2>1, <2>2, <2>3, <2>4, <1>f, <1>r
<1>5. ASSUME NEW g \in Guilds, PlayerVet(w, g) \/ PlayerUnvetted(w, g) PROVE KeepsTokens(w)
  <2>1. PICK k, S, T :
           /\ job' = [job EXCEPT ![w] = k] /\ VettedJob(k, job[w], g, S, T)
           /\ S \subseteq job[w].links
           /\ job[w].kind = "player" /\ job[w].stage = "vet"
    BY <1>5, VettedTo DEF TokensInductive
  <2>2. /\ k.kind = "player" /\ k.token = job[w].token /\ k.act = job[w].act
        /\ k.links \cup k.left \subseteq job[w].links \cup job[w].left
    BY <2>1 DEF VettedJob, Same
  <2>3. JobTokens(k)
    BY <2>1, <2>2, <1>t DEF JobTokens
  <2> QED  BY <2>1, <2>3, <1>o
<1>6. ASSUME NEW g \in Guilds, PlayerDecide(w, g) PROVE KeepsTokens(w)
  <2> DEFINE acts == [job[w].act EXCEPT ![g] = Action(w, g)]
  <2>1. job[w].kind = "player" /\ job[w].stage = "decide" /\ g \in job[w].left
    BY <1>6 DEF PlayerDecide, At
  <2>2. \A h \in Guilds : acts[h] # "none" => job[w].token[h] > 0
    BY <2>1, <1>t DEF JobTokens, Job
  <2>3. PICK j : /\ job' = [job EXCEPT ![w] = j]
                 /\ \/ j = [job[w] EXCEPT !.act = acts, !.left = job[w].left \ {g}]
                    \/ j = [Fresh("player", job[w].member, NoGuild) EXCEPT
                               !.stage = "act", !.again = job[w].again,
                               !.act = acts, !.token = job[w].token]
    BY <1>6 DEF PlayerDecide
  <2>4. JobTokens(j)
    <3> HIDE DEF acts
    <3>1. CASE j = [job[w] EXCEPT !.act = acts, !.left = job[w].left \ {g}]
      <4>1. /\ j.kind = "player" /\ j.token = job[w].token /\ j.act = acts
            /\ j.links = job[w].links /\ j.left = job[w].left \ {g} /\ j.stage = "decide"
        BY <2>1, <3>1, <1>t DEF Job
      <4> QED  BY <4>1, <2>1, <2>2, <1>t DEF JobTokens
    <3>2. CASE j = [Fresh("player", job[w].member, NoGuild) EXCEPT
                       !.stage = "act", !.again = job[w].again,
                       !.act = acts, !.token = job[w].token]
      <4>1. j.kind = "player" /\ j.token = job[w].token /\ j.act = acts /\ j.stage = "act"
        BY <3>2 DEF Fresh
      <4> QED  BY <4>1, <2>2, <1>t DEF JobTokens
    <3> QED  BY <2>3, <3>1, <3>2
  <2> QED  BY <2>3, <2>4, <1>o
<1>7. ASSUME NEW g \in Guilds,
             \/ PlayerCall(w, g) \/ PlayerSkip(w, g) \/ PlayerError(w, g)
             \/ PlayerRecord(w, g) \/ PlayerUnrecorded(w, g) \/ PlayerOrphaned(w, g)
      PROVE  KeepsTokens(w)
  <2>1. PICK a : Acted(w, g, a)
    BY <1>7 DEF PlayerCall, PlayerSkip, PlayerError, PlayerRecord, PlayerUnrecorded,
                PlayerOrphaned
  <2>2. job[w].stage = "act" /\ job[w].kind = "player" /\ job[w].act[g] # "none"
    BY <1>7 DEF PlayerCall, PlayerSkip, PlayerError, PlayerRecord, PlayerUnrecorded,
                PlayerOrphaned, Acting, At
  <2> QED  BY <2>1, <2>2, <1>c
<1>8. CASE ConfigLink(w)
  <2>1. job[w].stage = "start" /\ job[w].kind = "config" /\ Its(w) = job[w].guild
    BY <1>8 DEF ConfigLink, Config, At, Its
  <2>2. CASE link[Its(w)] = "bound"
    <3>1. PICK s : Read(w, {Its(w)}, s)
      BY <1>8, <2>2 DEF ConfigLink
    <3>2. {Its(w)} \in SUBSET Guilds
      BY <2>1, <1>t
    <3> QED  BY <2>1, <2>2, <3>1, <3>2, <1>r
  <2>3. CASE link[Its(w)] # "bound"
    <3> QED  BY <1>8, <2>3, <1>f DEF ConfigLink
  <2> QED  BY <2>2, <2>3
<1>9. CASE ConfigQuery(w) \/ ConfigCap(w)
  BY <1>9, <1>s DEF ConfigQuery, ConfigCap, Config, At
<1>10. CASE ConfigCompare(w) \/ ConfigPut(w) \/ ConfigTooLarge(w)
  BY <1>10, <1>a, <1>f DEF ConfigCompare, ConfigPut, ConfigTooLarge, Config, At
<1>v. CASE ConfigVet(w)
  <2>1. PICK k : /\ job' = [job EXCEPT ![w] = k] /\ Same(k, job[w])
                 /\ k.kind = "config" /\ k.stage = "query" /\ job[w].stage = "vet"
    BY <1>v, ConfigVetTo DEF TokensInductive
  <2> QED  BY <2>1, <1>k DEF Same
<1>11. CASE \/ PlayerEnd(w) \/ ConfigUnvetted(w) \/ ConfigSkip(w) \/ ConfigOrphaned(w)
            \/ ConfigError(w) \/ ConfigRecord(w) \/ ReadFails(w) \/ Crash(w)
  BY <1>11, <1>f DEF PlayerEnd, ConfigUnvetted, ConfigSkip, ConfigOrphaned,
                    ConfigError, ConfigRecord, ReadFails, Crash
<1>12. CASE ConfigHeld(w) \/ ConfigUnrecorded(w)
  BY <1>12, <1>f, <1>o, FreshTokens DEF ConfigHeld, ConfigUnrecorded, TokensInductive
<1> QED
  BY <1>1, <1>2, <1>3, <1>4, <1>5, <1>6, <1>7, <1>8, <1>9, <1>10, <1>11, <1>12,
     <1>v
  DEF Work, PlayerWork, ConfigWork, Failure

\* What a job knows stays valid when RoleLogic gives another token.
LEMMA JobTokensLast ==
    ASSUME TypeOK, [Next]_vars, NEW j \in Job, JobTokens(j)
    PROVE  /\ \A g \in Guilds : j.token[g] <= issued'[g]
           /\ \A g \in Guilds : j.act[g] # "none" => j.token[g] > 0
           /\ j.stage \notin {"decide", "act"} => \A g \in Guilds : j.act[g] = "none"
           /\ j.stage \in {"vet", "decide"} => \A g \in j.links \cup j.left : j.token[g] > 0
           /\ j.kind = "config" /\ j.stage \notin {"start", "idle"} => j.token[j.guild] > 0
<1>1. \A g \in Guilds : /\ issued[g] \in Nat /\ issued'[g] \in Nat /\ issued[g] <= issued'[g]
                        /\ j.token[g] \in Nat
  BY IssuedGrows DEF Job
<1> QED  BY <1>1 DEF JobTokens

LEMMA JobsKeepTokens == TokensInductive /\ [Next]_vars => JobsHaveTokens'
<1> SUFFICES ASSUME TokensInductive, [Next]_vars, NEW v \in Workers
             PROVE  JobTokens(job[v])'
  BY DEF JobsHaveTokens
<1>1. job' \in [Workers -> Job] /\ job \in [Workers -> Job] /\ TypeOK
  BY TypeStep DEF TokensInductive, TypeOK
<1>2. JobTokens(job'[v])
  <2>1. CASE UNCHANGED job
    BY <2>1 DEF TokensInductive, JobsHaveTokens
  <2>2. ASSUME NEW w \in Workers, Work(w) \/ Failure(w) PROVE JobTokens(job'[v])
    <3>1. JobTokens(job'[w]) /\ job'[v] = IF v = w THEN job'[w] ELSE job[v]
      BY <2>2, JobTokensStep DEF KeepsTokens
    <3> QED  BY <3>1 DEF TokensInductive, JobsHaveTokens
  <2>3. CASE Environment
    BY <2>3, <2>1
    DEF Environment, Submit, DeleteResponse, ClearBegin, ClearResponses, DeleteForm,
        SaveRole, SaveLink, Unbind, Resync, ToggleHold, ToggleLink, DeleteUpstream,
        DeleteConfig, Register
  <2>4. CASE UNCHANGED vars  BY <2>4, <2>1 DEF vars
  <2> QED  BY <2>2, <2>3, <2>4 DEF Next
<1>3. job'[v] \in Job
  BY <1>1
<1> QED  BY <1>1, <1>2, <1>3, JobTokensLast DEF JobTokens

\* Who deletes the row of a link that RoleLogic still has.
LEMMA GoodbyeStep ==
    ASSUME TokensInductive, [Next]_vars, NEW g \in Guilds,
           token[g] = issued[g], upstream[g] # "gone", token'[g] = 0
    PROVE  \E w \in Workers : job[w].token[g] \in 1 .. token[g] - 1
<1>t. /\ token \in [Guilds -> Nat] /\ issued \in [Guilds -> Nat \ {0}]
      /\ job \in [Workers -> Job]
      /\ \A w \in Workers : job[w].kind = "config" => Its(w) \in Guilds
  BY DEF TokensInductive, TypeOK, Its
<1>n. token'[g] # token[g]
  BY <1>t
<1>d. ASSUME NEW w \in Workers, ~Known(w, g), job[w].token[g] > 0
      PROVE  job[w].token[g] \in 1 .. token[g] - 1
  <2>1. job[w].token[g] # issued[g]
    BY <1>d DEF Known
  <2>2. job[w].token[g] <= issued[g] /\ job[w].token[g] \in Nat
    BY <1>t DEF TokensInductive, JobsHaveTokens, JobTokens, Job
  <2> QED  BY <2>1, <2>2, <1>d, <1>t
<1>1. ASSUME NEW w \in Workers, NEW h \in Guilds, PlayerOrphaned(w, h)
      PROVE  job[w].token[g] \in 1 .. token[g] - 1
  <2>1. h = g
    BY <1>1, <1>t, <1>n DEF PlayerOrphaned, DropLink
  <2>2. ~Known(w, g) /\ job[w].act[g] # "none"
    BY <1>1, <2>1 DEF PlayerOrphaned, Acting
  <2>3. job[w].token[g] > 0
    BY <2>2 DEF TokensInductive, JobsHaveTokens, JobTokens
  <2> QED  BY <2>2, <2>3, <1>d
<1>2. ASSUME NEW w \in Workers, ConfigOrphaned(w)
      PROVE  job[w].token[g] \in 1 .. token[g] - 1
  <2>1. Its(w) = g
    BY <1>2, <1>t, <1>n DEF ConfigOrphaned, DropLink
  <2>2. ~Known(w, g) /\ job[w].kind = "config" /\ job[w].stage = "put"
    BY <1>2, <2>1 DEF ConfigOrphaned, Config, At
  <2>3. job[w].token[g] > 0
    BY <2>1, <2>2 DEF TokensInductive, JobsHaveTokens, JobTokens, Its
  <2> QED  BY <2>2, <2>3, <1>d
<1>3. ASSUME NEW w \in Workers, Work(w) \/ Failure(w)
      PROVE  job[w].token[g] \in 1 .. token[g] - 1
  BY <1>3, <1>1, <1>2, <1>n
  DEF Work, Failure, PlayerWork, ConfigWork, TakePlayer, TakeConfig, PlayerScope, PlayerHolds,
      PlayerLink, PlayerVet, PlayerUnvetted, Unanswered, PlayerDecide, PlayerCall, PlayerSkip,
      PlayerError, PlayerRecord, PlayerUnrecorded, PlayerEnd, ConfigLink, ConfigVet,
      ConfigUnvetted, ConfigQuery, ConfigCompare, ConfigPut, ConfigTooLarge, ConfigCap,
      ConfigHeld, ConfigSkip, ConfigError, ConfigRecord, ConfigUnrecorded, ReadFails,
      Crash, Wants, database
<1>4. ASSUME NEW h \in Guilds, NEW t \in goodbyes[h], DeleteConfig(h, t) PROVE FALSE
  <2>1. h = g /\ token[g] = t
    BY <1>4, <1>t, <1>n DEF DeleteConfig, DropLink, database
  <2>2. t # issued[g]
    BY <2>1 DEF TokensInductive, Tokens
  <2> QED  BY <2>1, <2>2
<1>5. ASSUME NEW h \in Guilds, Register(h) PROVE FALSE
  BY <1>5, <1>t, <1>n DEF Register
<1>6. CASE Environment
  BY <1>6, <1>4, <1>5, <1>n
  DEF Environment, Submit, DeleteResponse, ClearBegin, ClearResponses, DeleteForm,
      SaveRole, SaveLink, Unbind, Resync, ToggleHold, ToggleLink, DeleteUpstream, database
<1>7. CASE UNCHANGED vars  BY <1>7, <1>n DEF vars, database
<1> QED  BY <1>3, <1>6, <1>7 DEF Next

\* delete_config, however late it comes, never deletes a link that was added
\* again: only a job that has read the old token can.
THEOREM GoodbyeOfItsOwn == Spec => LateGoodbye
<1>1. TokensInductive /\ [Next]_vars => TokensInductive'
  BY TypeStep, TokensKept, JobsKeepTokens DEF TokensInductive
<1>2. TokensInductive /\ [Next]_vars =>
        [\A g \in Guilds :
            token[g] = issued[g] /\ upstream[g] # "gone" /\ token'[g] = 0 =>
                \E w \in Workers : job[w].token[g] \in 1 .. token[g] - 1]_vars
  BY GoodbyeStep
<1> QED  BY <1>1, <1>2, TokensInit, PTL DEF Spec, LateGoodbye
=============================================================================
