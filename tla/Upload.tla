------------------------------- MODULE Upload -------------------------------
(***************************************************************************)
(* upload_users (services/rolelogic.rs): replacing the user list of a role *)
(* link on RoleLogic by one PUT, or, past PUT_MAX_USERS, by a session:     *)
(* start_upload, upload_chunk as often as it takes, commit_upload, and     *)
(* cancel_upload when a chunk fails.                                       *)
(*                                                                         *)
(* RoleLogic is external and modelled from what the client relies on: a    *)
(* session collects users, its commit swaps the list at once, and a link   *)
(* has one session at a time ("Upload already in progress").  A request is *)
(* carried out or not, and its answer is received or not; nothing is       *)
(* carried out after the client has given up.                              *)
(***************************************************************************)
EXTENDS Naturals, FiniteSets

CONSTANTS
    Workers,
    Links,
    Users,       \* Discord ids; the list is sorted
    NoLink,
    NoWorker,
    PutMax,      \* PUT_MAX_USERS
    ChunkSize,   \* CHUNK_SIZE
    Troubles,    \* kinds of failure that happen
    MaxTroubles  \* bound on how often

ASSUME UploadAssumption ==
    /\ Users \subseteq Nat /\ IsFiniteSet(Users)
    /\ NoLink \notin Links /\ NoWorker \notin Workers
    /\ PutMax \in Nat /\ ChunkSize \in Nat \ {0} /\ MaxTroubles \in Nat

VARIABLES
    remote,     \* external: the users of each link
    session,    \* external: its open session, by whom and what it has collected
    call,       \* upload_users in each worker
    troubled

upload == <<remote, session, call>>

\* A call for link l that is at a stage, and what is left of the list to send.
Call(l, want, left, stage) == [link |-> l, want |-> want, left |-> left, stage |-> stage]

NoCall    == Call(NoLink, {}, {}, "none")
NoSession == [owner |-> NoWorker, staged |-> {}]

UploadInit ==
    /\ remote = [l \in Links |-> {}]
    /\ session = [l \in Links |-> NoSession]
    /\ call = [w \in Workers |-> NoCall]
    /\ troubled = 0

Trouble(kind) ==
    /\ kind \in Troubles /\ troubled < MaxTroubles
    /\ troubled' = troubled + 1

Goto(w, stage) == call' = [call EXCEPT ![w].stage = stage]

\* The link w works on, and whether its session there is still open.
On(w)   == call[w].link
Open(w) == session[On(w)].owner = w

\* upload_users is called.
Ask(w, l, S) ==
    call' = [call EXCEPT ![w] =
        Call(l, S, S, IF Cardinality(S) <= PutMax THEN "put" ELSE "start")]

\* RoleLogic carries out the PUT.
Put(w) ==
    /\ call[w].stage = "put"
    /\ remote' = [remote EXCEPT ![On(w)] = call[w].want]
    /\ Goto(w, "answer")
    /\ UNCHANGED <<session, troubled>>

Start(w) ==
    /\ call[w].stage = "start"
    /\ session[On(w)] = NoSession
    /\ session' = [session EXCEPT ![On(w)] = [owner |-> w, staged |-> {}]]
    /\ Goto(w, "chunk")
    /\ UNCHANGED <<remote, troubled>>

\* The link has a session already, perhaps one nobody uses any more.
StartRefused(w) ==
    /\ call[w].stage = "start"
    /\ session[On(w)] # NoSession
    /\ Goto(w, "failed")
    /\ UNCHANGED <<remote, session, troubled>>

\* The answer, with the id of the session, is lost.
StartLost(w) ==
    /\ call[w].stage = "start"
    /\ session[On(w)] = NoSession
    /\ Trouble("api")
    /\ session' = [session EXCEPT ![On(w)] = [owner |-> w, staged |-> {}]]
    /\ Goto(w, "failed")
    /\ UNCHANGED remote

\* The next CHUNK_SIZE users of the sorted list.
Chunk(w) == {u \in call[w].left : Cardinality({v \in call[w].left : v <= u}) <= ChunkSize}

Stage(w) == session' = [session EXCEPT ![On(w)].staged = @ \cup Chunk(w)]

\* The loop goes on, or ends with the last chunk.
Sent(w) ==
    call' = [call EXCEPT ![w] =
        Call(On(w), call[w].want, call[w].left \ Chunk(w),
             IF call[w].left = Chunk(w) THEN "commit" ELSE "chunk")]

UploadChunk(w) ==
    /\ call[w].stage = "chunk" /\ Open(w)
    /\ Stage(w)
    /\ Sent(w)
    /\ UNCHANGED <<remote, troubled>>

\* Mutant: the loop goes on after a chunk that failed.
ChunkFailsUnnoticed(w) ==
    /\ call[w].stage = "chunk"
    /\ \/ ~Open(w) /\ UNCHANGED <<session, troubled>>
       \/ Trouble("api") /\ UNCHANGED session
    /\ Sent(w)
    /\ UNCHANGED remote

\* The session is gone, or the request fails, whether carried out or not.
ChunkFails(w) ==
    /\ call[w].stage = "chunk"
    /\ \/ ~Open(w) /\ UNCHANGED <<session, troubled>>
       \/ Trouble("api") /\ UNCHANGED session
       \/ Open(w) /\ Trouble("api") /\ Stage(w)
    /\ Goto(w, "cancel")
    /\ UNCHANGED remote

\* Best effort: it may fail too.
Cancel(w) ==
    /\ call[w].stage = "cancel"
    /\ \/ Open(w) /\ session' = [session EXCEPT ![On(w)] = NoSession]
       \/ UNCHANGED session
    /\ Goto(w, "failed")
    /\ UNCHANGED <<remote, troubled>>

\* RoleLogic carries out the commit.
Commit(w) ==
    /\ call[w].stage = "commit" /\ Open(w)
    /\ remote' = [remote EXCEPT ![On(w)] = session[On(w)].staged]
    /\ session' = [session EXCEPT ![On(w)] = NoSession]
    /\ Goto(w, "answer")
    /\ UNCHANGED troubled

CommitGone(w) ==
    /\ call[w].stage = "commit" /\ ~Open(w)
    /\ Goto(w, "failed")
    /\ UNCHANGED <<remote, session, troubled>>

Answer(w) ==
    /\ call[w].stage = "answer"
    /\ Goto(w, "ok")
    /\ UNCHANGED <<remote, session, troubled>>

\* The request is lost or refused: a cap, held removals, a link switched off.
FailsAt(w, stage) ==
    /\ call[w].stage = stage
    /\ Trouble("api")
    /\ Goto(w, "failed")
    /\ UNCHANGED <<remote, session>>

PutFails(w)   == FailsAt(w, "put")
StartFails(w) == FailsAt(w, "start")

\* Nothing cancels the session.
CommitFails(w) == FailsAt(w, "commit")

\* RoleLogic has replaced the list, and the answer cannot be read.
AnswerLost(w) == FailsAt(w, "answer")

\* RoleLogic drops a session nobody uses any more.
Abandoned(l) ==
    /\ session[l] # NoSession
    /\ \A w \in Workers : On(w) = l /\ Open(w) =>
          call[w].stage \notin {"chunk", "commit", "cancel"}

Expire(l) ==
    /\ Abandoned(l)
    /\ session' = [session EXCEPT ![l] = NoSession]
    /\ UNCHANGED <<remote, call, troubled>>

\* Or one that is in use.
ExpireEarly(l) ==
    /\ session[l] # NoSession /\ ~Abandoned(l)
    /\ Trouble("expire")
    /\ session' = [session EXCEPT ![l] = NoSession]
    /\ UNCHANGED <<remote, call>>

\* upload_users returns, or its worker dies.
Leave(w) == call' = [call EXCEPT ![w] = NoCall]

\* The steps of w's call by itself, and those that take trouble.
UploadStep(w) ==
    \/ Put(w) \/ Start(w) \/ StartRefused(w) \/ UploadChunk(w)
    \/ ChunkFails(w) \/ Cancel(w) \/ Commit(w) \/ CommitGone(w) \/ Answer(w)

UploadTrouble(w) ==
    StartLost(w) \/ PutFails(w) \/ StartFails(w) \/ CommitFails(w) \/ AnswerLost(w)

-----------------------------------------------------------------------------
Stages == {"none", "put", "start", "chunk", "commit", "cancel", "answer", "ok", "failed"}

UploadTypeOK ==
    /\ remote \in [Links -> SUBSET Users]
    /\ session \in [Links -> [owner : Workers \cup {NoWorker}, staged : SUBSET Users]]
    /\ call \in [Workers -> [link : Links \cup {NoLink}, want : SUBSET Users,
                             left : SUBSET Users, stage : Stages]]
    /\ troubled \in 0 .. MaxTroubles

\* What a caller sees of its call.
Phase(stage) ==
    IF stage \in {"none", "ok", "failed"} THEN stage
    ELSE IF stage = "answer" THEN "replaced" ELSE "asked"

Asked == [w \in Workers |-> [link |-> call[w].link, want |-> call[w].want,
                             stage |-> Phase(call[w].stage)]]

Replacing == INSTANCE ReplaceList WITH asked <- Asked

\* "Bulk user set exceeds PUT cap; using chunked upload" (upload_users): in one
\* request or in chunks, and whatever fails, expires or is in another worker's
\* way, the list is only ever replaced by the whole list a caller asked for.
ImplementsReplace == Replacing!Spec
=============================================================================
