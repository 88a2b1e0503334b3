------------------------------- MODULE RoleSync -------------------------------
(***************************************************************************)
(* Who holds a Discord role: the player_sync and config_sync jobs          *)
(* (services/sync.rs) bring the user list of a role link on RoleLogic,     *)
(* `remote`, in line with the responses to its form and its rule, through  *)
(* the role_assignments table, `mirror`, which says what the list should   *)
(* hold already.  Members submit and admins edit meanwhile.                *)
(*                                                                         *)
(* Each guild has one form and one role link.  A config_sync is about one  *)
(* link, a player_sync about a member in all guilds at once.               *)
(*                                                                         *)
(* Every SQL statement and every call of another service is a step of its  *)
(* own (the transaction that rewrites role_assignments is one).  The queue *)
(* is a bag: delays (the debounce, the re-check timer, the backoff) let    *)
(* jobs overtake one another.  How a job is claimed, retried and buried is *)
(* JobQueue's subject; here a failed job runs again, but for those that    *)
(* keep failing: after MaxTroubles retries they are dead.                  *)
(*                                                                         *)
(* An answer stands for all that condition_eval looks at in a response; a  *)
(* rule is the set of answers that qualify.  The empty rule is a link that *)
(* neither grants on any submission nor has a condition that decodes:      *)
(* register's default, or a row of another version of the program.         *)
(***************************************************************************)
EXTENDS Naturals, FiniteSets

CONSTANTS
    Workers,
    Guilds,
    Members,      \* Discord ids; sorting them is < on numbers
    Residents,    \* of each guild: the members who may answer its form
    OptedOut,     \* of each guild: members who opted out there, on the gateway
    Broken,       \* guilds whose opt-outs the gateway never tells
    Answers,
    Rules,        \* of each guild: rules admins may save
    Limits,       \* of each guild: caps RoleLogic may put on the list, by the
                  \* owner's plan
    Changes,      \* of each guild: what users, admins and owners do
    MaxChanges,   \* bound on how often they do
    Troubles,     \* kinds of failure that happen
    MaxTroubles,  \* bound on how often; below max_attempts of a job
    NoGuild

ASSUME RoleSyncAssumption ==
    /\ Members \subseteq Nat /\ IsFiniteSet(Members)
    /\ Residents \in [Guilds -> SUBSET Members]
    /\ OptedOut \in [Guilds -> SUBSET Members]
    /\ Broken \subseteq Guilds /\ NoGuild \notin Guilds
    /\ Broken # {} => "lookup" \in Troubles
    /\ Rules \in [Guilds -> SUBSET ((SUBSET Answers) \ {{}})]
    /\ Limits \in [Guilds -> SUBSET Nat]
    /\ MaxChanges \in Nat /\ MaxTroubles \in Nat

VARIABLES
    answers,    \* form_responses: each member's answers to each guild's form
    formLive,   \* the forms row exists
    link,       \* role_links: "bound" to the form, "unbound", or "gone"
    rule,
    token,      \* its api_token: which of RoleLogic's, by number
    clearing,   \* delete_all_responses under way: "no", or whether it found
                \* the link "bound" to the form or "loose"
    mirror,     \* role_assignments of the link
    remote,     \* external: the link's users on RoleLogic
    upstream,   \* external: the link is "on", "off" or "gone" there
    issued,     \* external: the token of the link as it is there
    goodbyes,   \* external: calls of delete_config under way, by their token
    holding,    \* external: removals need the owner's confirmation
    cap,        \* external: how many users the list may have
    players,    \* pending player_sync jobs of each member
    configs,    \* pending config_sync jobs of each link
    job,        \* the job each worker is running
    changed, troubled

database == <<answers, formLive, link, rule, token, clearing>>
roleLogic == <<upstream, issued, goodbyes, holding, cap>>
queue == <<players, configs>>
bounds == <<changed, troubled>>
vars == <<database, mirror, remote, roleLogic, queue, job, bounds>>

-----------------------------------------------------------------------------
\* What a job knows: the links it works on, those it still has to look at, the
\* ones that had the member when it began, what it read of them and whom the
\* gateway told it of; then what is to be done in each guild, or the list to
\* upload.
Fresh(kind, m, g) ==
    [kind |-> kind, member |-> m, guild |-> g, stage |-> "start",
     links |-> {}, left |-> {}, had |-> {}, again |-> FALSE,
     rule |-> [h \in Guilds |-> {}], token |-> [h \in Guilds |-> 0],
     out |-> [h \in Guilds |-> {}],
     act |-> [h \in Guilds |-> "none"], want |-> {}]

Idle == [Fresh("none", 0, NoGuild) EXCEPT !.stage = "idle"]

\* condition_eval::evaluate on any of the responses of a member who is not
\* among those said to have opted out.
Qualifies(g, m, r, out) == m \notin out /\ answers[g][m] \cap r # {}

\* query_qualifying.
Qualifying(g, r, out) == {m \in Members : Qualifies(g, m, r, out)}
Lowest(n, S)          == {m \in S : Cardinality({k \in S : k <= m}) <= n}

Counted(kind, g) ==
    kind \in Changes[g] /\ changed < MaxChanges /\ changed' = changed + 1

Change(kind, g) == Counted(kind, g) /\ UNCHANGED troubled

Trouble(kind) ==
    /\ kind \in Troubles /\ troubled < MaxTroubles
    /\ troubled' = troubled + 1 /\ UNCHANGED changed

At(w, kind, stage) == job[w].kind = kind /\ job[w].stage = stage

Advance(w, stage) ==
    /\ job' = [job EXCEPT ![w].stage = stage]
    /\ UNCHANGED <<queue, bounds>>

\* The job returned Ok.
Finish(w) ==
    /\ job' = [job EXCEPT ![w] = Idle]
    /\ UNCHANGED <<queue, bounds>>

\* The job returned Err, or its worker died: it will run again.
Rerun(w) ==
    /\ job' = [job EXCEPT ![w] = Idle]
    /\ IF job[w].kind = "player"
       THEN players' = [players EXCEPT ![job[w].member] = @ + 1] /\ UNCHANGED configs
       ELSE configs' = [configs EXCEPT ![job[w].guild] = @ + 1] /\ UNCHANGED players

\* The row of the link is deleted; role_assignments cascade.
DropLink(g) ==
    /\ link' = [link EXCEPT ![g] = "gone"] /\ token' = [token EXCEPT ![g] = 0]
    /\ mirror' = [mirror EXCEPT ![g] = {}]
    /\ UNCHANGED <<answers, formLive, rule, clearing>>

\* The job begins to work on the links of S, as they are now.
Read(w, S, stage) ==
    job' = [job EXCEPT
        ![w].stage = stage, ![w].links = S, ![w].left = S,
        ![w].rule  = [g \in Guilds |-> IF g \in S THEN rule[g] ELSE {}],
        ![w].token = [g \in Guilds |-> IF g \in S THEN token[g] ELSE 0]]

\* RoleLogic knows the token the job has read; else it answers "Invalid or
\* revoked token".
Known(w, g) == upstream[g] # "gone" /\ job[w].token[g] = issued[g]
On(w, g)    == Known(w, g) /\ upstream[g] = "on"
Off(w, g)   == Known(w, g) /\ upstream[g] = "off"

-----------------------------------------------------------------------------
\* One of the choices for each guild.
Choices(F) == {c \in [Guilds -> UNION {F[g] : g \in Guilds}] :
                   \A g \in Guilds : c[g] \in F[g]}

Init ==
    /\ answers = [g \in Guilds |-> [m \in Members |-> {}]]
    /\ formLive = [g \in Guilds |-> TRUE]
    /\ link = [g \in Guilds |-> "bound"]
    /\ rule \in Choices([g \in Guilds |-> Rules[g] \cup {{}}])
    /\ token = [g \in Guilds |-> 1] /\ clearing = [g \in Guilds |-> "no"]
    /\ mirror = [g \in Guilds |-> {}] /\ remote = [g \in Guilds |-> {}]
    /\ upstream = [g \in Guilds |-> "on"] /\ issued = [g \in Guilds |-> 1]
    /\ goodbyes = [g \in Guilds |-> {}]
    /\ holding = [g \in Guilds |-> FALSE]  /\ cap \in Choices(Limits)
    /\ players = [m \in Members |-> 0] /\ configs = [g \in Guilds |-> 0]
    /\ job = [w \in Workers |-> Idle]
    /\ changed = 0 /\ troubled = 0

TakePlayer(w, m) ==
    /\ job[w] = Idle /\ players[m] > 0
    /\ players' = [players EXCEPT ![m] = @ - 1]
    /\ job' = [job EXCEPT ![w] = Fresh("player", m, NoGuild)]
    /\ UNCHANGED <<database, mirror, remote, roleLogic, configs, bounds>>

TakeConfig(w, g) ==
    /\ job[w] = Idle /\ configs[g] > 0
    /\ configs' = [configs EXCEPT ![g] = @ - 1]
    /\ job' = [job EXCEPT ![w] = Fresh("config", 0, g)]
    /\ UNCHANGED <<database, mirror, remote, roleLogic, players, bounds>>

-----------------------------------------------------------------------------
(* sync_for_player: the guilds in one SELECT each for the links, then one  *)
(* after another for the opt-outs and for the responses; the changes to    *)
(* the lists then go side by side.                                         *)

\* The gateway lists any guilds; those of the member's responses are added ..
PlayerScope(w, listed) ==
    /\ At(w, "player", "start")
    /\ LET m == job[w].member
       IN  job' = [job EXCEPT ![w].stage = "holds",
                              ![w].left = {g \in Guilds :
                                              g \in listed \/ answers[g][m] # {}}]
    /\ UNCHANGED <<database, mirror, remote, roleLogic, queue, bounds>>

Holding(m) == {g \in Guilds : m \in mirror[g]}

\* Mutant: guilds of existing assignments are not added to the candidates.
PlayerHoldsOnly(w) ==
    /\ At(w, "player", "holds")
    /\ LET held == Holding(job[w].member)
       IN  job' = [job EXCEPT ![w].stage = "link", ![w].had = held]
    /\ UNCHANGED <<database, mirror, remote, roleLogic, queue, bounds>>

\* .. and those of the member's role_assignments.
PlayerHolds(w) ==
    /\ At(w, "player", "holds")
    /\ LET held == Holding(job[w].member)
       IN  job' = [job EXCEPT ![w].stage = "link", ![w].had = held,
                              ![w].left = @ \cup held]
    /\ UNCHANGED <<database, mirror, remote, roleLogic, queue, bounds>>

PlayerLink(w) ==
    /\ At(w, "player", "link")
    /\ LET bound == {g \in job[w].left : link[g] = "bound"}
       IN  IF bound = {} THEN Finish(w)
           ELSE Read(w, bound, "vet") /\ UNCHANGED <<queue, bounds>>
    /\ UNCHANGED <<database, mirror, remote, roleLogic>>

\* fetch_guild_optout_ids was asked for g and told of these members: the job
\* goes on with these links.
Vetted(w, g, links, told) ==
    LET last == job[w].left = {g}
    IN  [job[w] EXCEPT !.links = links, !.out[g] = told,
                       !.left  = IF last THEN links ELSE @ \ {g},
                       !.stage = IF ~last THEN "vet"
                                 ELSE IF links = {} THEN "act" ELSE "decide"]

PlayerVet(w, g) ==
    /\ At(w, "player", "vet") /\ g \in job[w].left \ Broken
    /\ job' = [job EXCEPT ![w] = Vetted(w, g, job[w].links, OptedOut[g])]
    /\ UNCHANGED <<database, mirror, remote, roleLogic, queue, bounds>>

\* Mutant: the whole job fails, and dies when it has failed often enough.
PlayerUnvettedFails(w, g) ==
    /\ At(w, "player", "vet") /\ g \in job[w].left
    /\ \/ Trouble("lookup") /\ Rerun(w)
       \/ g \in Broken /\ troubled = MaxTroubles /\ Finish(w)
    /\ UNCHANGED <<database, mirror, remote, roleLogic>>

\* No answer for g, and the job goes on as `next`.  It will run again, unless it
\* has used up its attempts.
Unanswered(w, g, next) ==
    /\ At(w, "player", "vet") /\ g \in job[w].left
    /\ \/ Trouble("lookup") /\ job' = [job EXCEPT ![w] = [next EXCEPT !.again = TRUE]]
       \/ /\ g \in Broken /\ troubled = MaxTroubles /\ UNCHANGED bounds
          /\ job' = [job EXCEPT ![w] = next]
    /\ UNCHANGED <<database, mirror, remote, roleLogic, queue>>

\* Mutant: a failed lookup reads as "nobody opted out".
PlayerUnvettedGrants(w, g) == Unanswered(w, g, Vetted(w, g, job[w].links, {}))

\* What the member holds in g is left alone.
PlayerUnvetted(w, g) == Unanswered(w, g, Vetted(w, g, job[w].links \ {g}, {}))

\* What is to be done about the member in g.
Action(w, g) ==
    LET qualifies == Qualifies(g, job[w].member, job[w].rule[g], job[w].out[g])
    IN  IF qualifies = (g \in job[w].had) THEN "none"
        ELSE IF qualifies THEN "add" ELSE "remove"

\* When the last link is decided, the changes are made.
PlayerDecide(w, g) ==
    /\ At(w, "player", "decide") /\ g \in job[w].left
    /\ LET acts == [job[w].act EXCEPT ![g] = Action(w, g)]
       IN  job' = [job EXCEPT ![w] =
               IF job[w].left # {g}
               THEN [job[w] EXCEPT !.act = acts, !.left = job[w].left \ {g}]
               ELSE [Fresh("player", job[w].member, NoGuild) EXCEPT
                        !.stage = "act", !.again = job[w].again,
                        !.act = acts, !.token = job[w].token]]
    /\ UNCHANGED <<database, mirror, remote, roleLogic, queue, bounds>>

\* The change in g has come so far.
Acted(w, g, act) == job' = [job EXCEPT ![w].act[g] = act]

Acting(w, g, acts) == At(w, "player", "act") /\ job[w].act[g] \in acts

\* What add_user or remove_user leaves on the list.
Called(w, g) == IF job[w].act[g] = "add" THEN remote[g] \cup {job[w].member}
                                         ELSE remote[g] \ {job[w].member}

PlayerCall(w, g) ==
    /\ Acting(w, g, {"add", "remove"})
    /\ On(w, g) /\ Cardinality(Called(w, g)) <= cap[g]
    /\ remote' = [remote EXCEPT ![g] = Called(w, g)]
    /\ Acted(w, g, IF job[w].act[g] = "add" THEN "added" ELSE "removed")
    /\ UNCHANGED <<database, mirror, roleLogic, queue, bounds>>

\* RoleLinkDisabled, UserLimitReached: g is done all the same.
PlayerSkip(w, g) ==
    /\ Acting(w, g, {"add", "remove"})
    /\ \/ Off(w, g)
       \/ On(w, g) /\ Cardinality(Called(w, g)) > cap[g]
    /\ Acted(w, g, "none")
    /\ UNCHANGED <<database, mirror, remote, roleLogic, queue, bounds>>

\* So it is after any other error, though the call may have been carried out.
PlayerError(w, g) ==
    /\ Acting(w, g, {"add", "remove"})
    /\ Trouble("api")
    /\ remote' \in IF On(w, g) THEN {remote, [remote EXCEPT ![g] = Called(w, g)]}
                               ELSE {remote}
    /\ Acted(w, g, "none")
    /\ UNCHANGED <<database, mirror, roleLogic, queue>>

\* Mutant: role_assignments without the foreign key.
PlayerRecordAnyway(w, g) ==
    /\ Acting(w, g, {"added", "removed"})
    /\ mirror' = [mirror EXCEPT ![g] =
           IF job[w].act[g] = "removed" THEN @ \ {job[w].member} ELSE @ \cup {job[w].member}]
    /\ Acted(w, g, "none")
    /\ UNCHANGED <<database, remote, roleLogic, queue, bounds>>

\* The INSERT violates the foreign key if the link is gone, which is ignored.
PlayerRecord(w, g) ==
    /\ Acting(w, g, {"added", "removed"})
    /\ mirror' = [mirror EXCEPT ![g] =
           IF job[w].act[g] = "removed" THEN @ \ {job[w].member}
           ELSE IF link[g] = "gone" THEN @ ELSE @ \cup {job[w].member}]
    /\ Acted(w, g, "none")
    /\ UNCHANGED <<database, remote, roleLogic, queue, bounds>>

\* A failing write is ignored too, of the assignment or of delete_orphan_role_link.
PlayerUnrecorded(w, g) ==
    /\ \/ Acting(w, g, {"added", "removed"})
       \/ Acting(w, g, {"add", "remove"}) /\ ~Known(w, g)
    /\ Trouble("write")
    /\ Acted(w, g, "none")
    /\ UNCHANGED <<database, mirror, remote, roleLogic, queue>>

\* RoleLinkNotFound: delete_orphan_role_link.
PlayerOrphaned(w, g) ==
    /\ Acting(w, g, {"add", "remove"}) /\ ~Known(w, g)
    /\ DropLink(g)
    /\ Acted(w, g, "none")
    /\ UNCHANGED <<remote, roleLogic, queue, bounds>>

\* Ok, or the deferred failure of a lookup.
PlayerEnd(w) ==
    /\ At(w, "player", "act") /\ \A g \in Guilds : job[w].act[g] = "none"
    /\ IF job[w].again THEN Rerun(w) /\ UNCHANGED bounds ELSE Finish(w)
    /\ UNCHANGED <<database, mirror, remote, roleLogic>>

-----------------------------------------------------------------------------
(* sync_for_role_link. *)

Config(w, stage) == At(w, "config", stage)
Its(w)           == job[w].guild

\* Without conditions the list is drained, without a look at the gateway or
\* the mirror.
ConfigLink(w) ==
    /\ Config(w, "start")
    /\ IF link[Its(w)] = "bound"
       THEN /\ Read(w, {Its(w)}, IF rule[Its(w)] = {} THEN "put" ELSE "vet")
            /\ UNCHANGED <<queue, bounds>>
       ELSE Finish(w)
    /\ UNCHANGED <<database, mirror, remote, roleLogic>>

ConfigVet(w) ==
    /\ Config(w, "vet") /\ Its(w) \notin Broken
    /\ job' = [job EXCEPT ![w] =
           [@ EXCEPT !.stage = "query", !.out[Its(w)] = OptedOut[Its(w)]]]
    /\ UNCHANGED <<database, mirror, remote, roleLogic, queue, bounds>>

\* The gateway does not answer, so nobody's opt-out is known.
ConfigUnvetted(w) ==
    /\ Config(w, "vet")
    /\ \/ Trouble("lookup") /\ Rerun(w)
       \/ Its(w) \in Broken /\ troubled = MaxTroubles /\ Finish(w)
    /\ UNCHANGED <<database, mirror, remote, roleLogic>>

Wants(w, S, stage) ==
    /\ job' = [job EXCEPT ![w].stage = stage, ![w].want = S]
    /\ UNCHANGED <<database, mirror, remote, roleLogic, queue, bounds>>

\* Those who qualify now, by the rule and but for the opt-outs the job was told.
Eligible(w) == Qualifying(Its(w), job[w].rule[Its(w)], job[w].out[Its(w)])

ConfigQuery(w) ==
    /\ Config(w, "query")
    /\ Wants(w, Eligible(w), "compare")

\* Nothing to upload if the list should be that already.
ConfigCompare(w) ==
    /\ Config(w, "compare")
    /\ IF mirror[Its(w)] = job[w].want THEN Finish(w) ELSE Advance(w, "put")
    /\ UNCHANGED <<database, mirror, remote, roleLogic>>

Held(w)     == holding[Its(w)] /\ ~(remote[Its(w)] \subseteq job[w].want)
TooLarge(w) == Cardinality(job[w].want) > cap[Its(w)]

\* upload_users, as Upload shows it: the list is replaced as a whole or not.
Uploads(w)  == On(w, Its(w)) /\ ~Held(w) /\ ~TooLarge(w)

Uploaded(w) == [remote EXCEPT ![Its(w)] = job[w].want]

ConfigPut(w) ==
    /\ Config(w, "put") /\ Uploads(w)
    /\ remote' = Uploaded(w)
    /\ Advance(w, "record")
    /\ UNCHANGED <<database, mirror, roleLogic>>

\* UserLimitReached: query again, this time for the lowest ids only.
ConfigTooLarge(w) ==
    /\ Config(w, "put")
    /\ On(w, Its(w)) /\ TooLarge(w)
    /\ Advance(w, "cap")
    /\ UNCHANGED <<database, mirror, remote, roleLogic>>

\* Mutant: the capped query leaves the opt-outs out.
ConfigCapUnvetted(w) ==
    /\ Config(w, "cap")
    /\ Wants(w, Lowest(cap[Its(w)], Qualifying(Its(w), job[w].rule[Its(w)], {})), "put")

ConfigCap(w) ==
    /\ Config(w, "cap")
    /\ Wants(w, Lowest(cap[Its(w)], Eligible(w)), "put")

\* RemovalHeld: look again later, unless a config_sync is waiting already.
ConfigHeld(w) ==
    /\ Config(w, "put")
    /\ On(w, Its(w)) /\ Held(w) /\ ~TooLarge(w)
    /\ configs' = [configs EXCEPT ![Its(w)] = IF @ = 0 THEN 1 ELSE @]
    /\ job' = [job EXCEPT ![w] = Idle]
    /\ UNCHANGED <<database, mirror, remote, roleLogic, players, bounds>>

\* RoleLinkDisabled.
ConfigSkip(w) ==
    /\ Config(w, "put") /\ Off(w, Its(w))
    /\ Finish(w)
    /\ UNCHANGED <<database, mirror, remote, roleLogic>>

\* RoleLinkNotFound.
ConfigOrphaned(w) ==
    /\ Config(w, "put") /\ ~Known(w, Its(w))
    /\ DropLink(Its(w))
    /\ Finish(w)
    /\ UNCHANGED <<remote, roleLogic>>

\* Any other error is returned; the upload may have been carried out.
ConfigError(w) ==
    /\ Config(w, "put")
    /\ Trouble("api")
    /\ remote' \in IF Uploads(w) THEN {remote, Uploaded(w)} ELSE {remote}
    /\ Rerun(w)
    /\ UNCHANGED <<database, mirror, roleLogic>>

\* Mutant: the transaction only inserts.
ConfigRecordInserts(w) ==
    /\ Config(w, "record")
    /\ IF link[Its(w)] = "gone" /\ job[w].want # {}
       THEN Rerun(w) /\ UNCHANGED <<mirror, bounds>>
       ELSE Finish(w) /\ mirror' = [mirror EXCEPT ![Its(w)] = @ \cup job[w].want]
    /\ UNCHANGED <<database, remote, roleLogic>>

\* DELETE and INSERT in one transaction; the foreign key needs the link.
ConfigRecord(w) ==
    /\ Config(w, "record")
    /\ IF link[Its(w)] = "gone" /\ job[w].want # {}
       THEN Rerun(w) /\ UNCHANGED <<mirror, bounds>>
       ELSE Finish(w) /\ mirror' = [mirror EXCEPT ![Its(w)] = job[w].want]
    /\ UNCHANGED <<database, remote, roleLogic>>

\* A failing write; delete_orphan_role_link ignores it.
ConfigUnrecorded(w) ==
    /\ Trouble("write")
    /\ \/ Config(w, "record") /\ Rerun(w)
       \/ /\ Config(w, "put") /\ ~Known(w, Its(w))
          /\ job' = [job EXCEPT ![w] = Idle] /\ UNCHANGED queue
    /\ UNCHANGED <<database, mirror, remote, roleLogic>>

-----------------------------------------------------------------------------
(* Both kinds of job. *)

\* The gateway's list of guilds or one of the SELECTs fails.
ReadFails(w) ==
    /\ job[w].stage \in {"start", "holds", "link", "decide", "query", "compare", "cap"}
    /\ Trouble("read")
    /\ Rerun(w)
    /\ UNCHANGED <<database, mirror, remote, roleLogic>>

\* The worker dies; reap_stuck gives the job to another.
Crash(w) ==
    /\ job[w] # Idle
    /\ Trouble("crash")
    /\ Rerun(w)
    /\ UNCHANGED <<database, mirror, remote, roleLogic>>

-----------------------------------------------------------------------------
(* Users, admins and link owners.  Enqueueing after the commit is best     *)
(* effort: the enqueue may fail, or the process die before it.             *)

NewPlayer(m) == players' = [players EXCEPT ![m] = @ + 1] /\ UNCHANGED configs
NewConfig(g) == configs' = [configs EXCEPT ![g] = @ + 1] /\ UNCHANGED players

BestEffort(Enqueue) ==
    \/ Enqueue /\ UNCHANGED troubled
    \/ /\ "enqueue" \in Troubles /\ troubled < MaxTroubles /\ troubled' = troubled + 1
       /\ UNCHANGED queue

\* post_submit: one row per member or one more, with the job in one transaction.
Submit(g, m, S) ==
    /\ formLive[g] /\ m \in Residents[g] /\ Change("submit", g)
    /\ \E a \in Answers : S \in {{a}, answers[g][m] \cup {a}}
    /\ answers' = [answers EXCEPT ![g][m] = S]
    /\ NewPlayer(m)
    /\ UNCHANGED <<formLive, link, rule, token, clearing, mirror, remote, roleLogic, job>>

DeleteResponse(g, m, a) ==
    /\ formLive[g] /\ a \in answers[g][m]
    /\ answers' = [answers EXCEPT ![g][m] = @ \ {a}]
    /\ Counted("delete", g) /\ BestEffort(NewPlayer(m))
    /\ UNCHANGED <<formLive, link, rule, token, clearing, mirror, remote, roleLogic, job>>

NoAnswers(g) == answers' = [answers EXCEPT ![g] = [m \in Members |-> {}]]

\* delete_all_responses looks for the links bound to the form ..
ClearBegin(g) ==
    /\ formLive[g] /\ clearing[g] = "no" /\ Change("clear", g)
    /\ clearing' = [clearing EXCEPT ![g] = IF link[g] = "bound" THEN "bound" ELSE "loose"]
    /\ UNCHANGED <<answers, formLive, link, rule, token, mirror, remote, roleLogic,
                   queue, job>>

\* .. then deletes the responses and re-syncs the links it has found.
ClearResponses(g) ==
    /\ clearing[g] # "no" /\ clearing' = [clearing EXCEPT ![g] = "no"]
    /\ NoAnswers(g)
    /\ IF clearing[g] = "bound" THEN BestEffort(NewConfig(g))
                                ELSE UNCHANGED <<queue, troubled>>
    /\ UNCHANGED <<formLive, link, rule, token, mirror, remote, roleLogic, job, changed>>

\* delete_form unbinds the links first.
DeleteForm(g) ==
    /\ formLive[g] /\ Counted("deleteForm", g)
    /\ formLive' = [formLive EXCEPT ![g] = FALSE]
    /\ NoAnswers(g)
    /\ IF link[g] = "bound"
       THEN link' = [link EXCEPT ![g] = "unbound"] /\ BestEffort(NewConfig(g))
       ELSE UNCHANGED <<link, queue, troubled>>
    /\ UNCHANGED <<rule, token, clearing, mirror, remote, roleLogic, job>>

\* The UPDATE of role_config_save, which has seen link and form a while ago:
\* neither has to be there still.
SaveLink(g, bound, r) ==
    /\ IF link[g] = "gone" THEN UNCHANGED <<link, rule>>
       ELSE link' = [link EXCEPT ![g] = bound] /\ rule' = [rule EXCEPT ![g] = r]
    /\ BestEffort(NewConfig(g))
    /\ UNCHANGED <<answers, formLive, token, clearing, mirror, remote, roleLogic, job>>

\* For this form, or for none.
SaveRole(g, r) == Counted("save", g) /\ SaveLink(g, "bound", r)
Unbind(g)      == Counted("unbind", g) /\ SaveLink(g, "unbound", rule[g])

\* update_form re-syncs the links of the form it saved, one by one and best
\* effort; startup_backfill does it for all links once.
Resync(g) ==
    /\ link[g] = "bound"
    /\ Counted("resync", g) /\ BestEffort(NewConfig(g))
    /\ UNCHANGED <<database, mirror, remote, roleLogic, job>>

\* Safe Apply is switched on, or the owner confirms the removals.
ToggleHold(g) ==
    /\ Change("hold", g)
    /\ holding' = [holding EXCEPT ![g] = ~@]
    /\ UNCHANGED <<database, mirror, remote, upstream, issued, goodbyes, cap, queue, job>>

ToggleLink(g) ==
    /\ Change("disable", g) /\ upstream[g] # "gone"
    /\ upstream' = [upstream EXCEPT ![g] = IF @ = "on" THEN "off" ELSE "on"]
    /\ UNCHANGED <<database, mirror, remote, issued, goodbyes, holding, cap, queue, job>>

\* The owner deletes the link on RoleLogic, which calls delete_config.
DeleteUpstream(g) ==
    /\ Change("deleteLink", g) /\ upstream[g] # "gone"
    /\ upstream' = [upstream EXCEPT ![g] = "gone"]
    /\ remote' = [remote EXCEPT ![g] = {}]
    /\ goodbyes' = [goodbyes EXCEPT ![g] = @ \cup {issued[g]}]
    /\ UNCHANGED <<database, mirror, issued, holding, cap, queue, job>>

Arrived(g, t) == goodbyes' = [goodbyes EXCEPT ![g] = @ \ {t}]

\* Mutant: delete_config does not compare the token.
DeleteConfigOfAny(g, t) ==
    /\ t \in goodbyes[g] /\ Arrived(g, t)
    /\ IF token[g] # 0 THEN DropLink(g) ELSE UNCHANGED <<database, mirror>>
    /\ UNCHANGED <<remote, upstream, issued, holding, cap, queue, job, bounds>>

\* delete_config, perhaps after the link was added again.
DeleteConfig(g, t) ==
    /\ t \in goodbyes[g] /\ Arrived(g, t)
    /\ IF token[g] = t THEN DropLink(g) ELSE UNCHANGED <<database, mirror>>
    /\ UNCHANGED <<remote, upstream, issued, holding, cap, queue, job, bounds>>

\* The owner adds the link again: register keeps the row it finds, but for the
\* token.
Register(g) ==
    /\ Change("register", g) /\ upstream[g] = "gone"
    /\ upstream' = [upstream EXCEPT ![g] = "on"]
    /\ issued' = [issued EXCEPT ![g] = @ + 1]
    /\ token' = [token EXCEPT ![g] = issued[g] + 1]
    /\ IF link[g] = "gone"
       THEN link' = [link EXCEPT ![g] = "unbound"] /\ rule' = [rule EXCEPT ![g] = {}]
       ELSE UNCHANGED <<link, rule>>
    /\ UNCHANGED <<answers, formLive, clearing, mirror, remote, goodbyes, holding, cap,
                   queue, job>>

-----------------------------------------------------------------------------
\* The steps of worker w by itself.
PlayerWork(w) ==
    \/ \E listed \in SUBSET Guilds : PlayerScope(w, listed)
    \/ PlayerHolds(w) \/ PlayerLink(w) \/ PlayerEnd(w)
    \/ \E g \in Guilds :
          \/ PlayerVet(w, g) \/ PlayerDecide(w, g) \/ PlayerCall(w, g)
          \/ PlayerSkip(w, g) \/ PlayerRecord(w, g) \/ PlayerOrphaned(w, g)
          \/ g \in Broken /\ PlayerUnvetted(w, g)

ConfigWork(w) ==
    \/ ConfigLink(w) \/ ConfigVet(w) \/ ConfigQuery(w) \/ ConfigCompare(w)
    \/ ConfigPut(w) \/ ConfigTooLarge(w) \/ ConfigCap(w) \/ ConfigHeld(w)
    \/ ConfigSkip(w) \/ ConfigOrphaned(w) \/ ConfigRecord(w)
    \/ Its(w) \in Broken /\ ConfigUnvetted(w)

Work(w) ==
    \/ \E m \in Members : TakePlayer(w, m)
    \/ \E g \in Guilds : TakeConfig(w, g)
    \/ PlayerWork(w) \/ ConfigWork(w)

Failure(w) ==
    \/ \E g \in Guilds : PlayerUnvetted(w, g) \/ PlayerError(w, g) \/ PlayerUnrecorded(w, g)
    \/ ConfigUnvetted(w) \/ ConfigError(w) \/ ConfigUnrecorded(w)
    \/ ReadFails(w) \/ Crash(w)

Environment ==
    \E g \in Guilds :
        \/ \E m \in Members, S \in SUBSET Answers : Submit(g, m, S)
        \/ \E m \in Members, a \in Answers : DeleteResponse(g, m, a)
        \/ ClearBegin(g) \/ ClearResponses(g) \/ DeleteForm(g)
        \/ \E r \in Rules[g] : SaveRole(g, r)
        \/ Unbind(g) \/ Resync(g) \/ ToggleHold(g) \/ ToggleLink(g)
        \/ DeleteUpstream(g) \/ Register(g)
        \/ \E t \in goodbyes[g] : DeleteConfig(g, t)

Next == Environment \/ \E w \in Workers : Work(w) \/ Failure(w)

Spec == Init /\ [][Next]_vars

\* Workers run their jobs; nobody has to change anything.
FairSpec == Spec /\ \A w \in Workers : WF_vars(Work(w))

-----------------------------------------------------------------------------
Kinds  == {"none", "player", "config"}
Stages == {"idle", "start", "holds", "link", "vet", "decide", "act",
           "query", "compare", "put", "cap", "record"}
Acts   == {"none", "add", "remove", "added", "removed"}

Job == [kind : Kinds, member : Members \cup {0}, guild : Guilds \cup {NoGuild},
        stage : Stages, links : SUBSET Guilds, left : SUBSET Guilds,
        had : SUBSET Guilds, again : BOOLEAN, rule : [Guilds -> SUBSET Answers],
        token : [Guilds -> Nat], out : [Guilds -> SUBSET Members],
        act : [Guilds -> Acts], want : SUBSET Members]

\* Every variable stays in its type, and only a link that exists has a token
\* and rows in role_assignments.
TypeOK ==
    /\ answers \in [Guilds -> [Members -> SUBSET Answers]]
    /\ formLive \in [Guilds -> BOOLEAN]
    /\ link \in [Guilds -> {"bound", "unbound", "gone"}]
    /\ rule \in [Guilds -> SUBSET Answers] /\ token \in [Guilds -> Nat]
    /\ clearing \in [Guilds -> {"no", "bound", "loose"}]
    /\ mirror \in [Guilds -> SUBSET Members] /\ remote \in [Guilds -> SUBSET Members]
    /\ upstream \in [Guilds -> {"on", "off", "gone"}]
    /\ issued \in [Guilds -> Nat \ {0}] /\ goodbyes \in [Guilds -> SUBSET (Nat \ {0})]
    /\ holding \in [Guilds -> BOOLEAN] /\ cap \in [Guilds -> Nat]
    /\ players \in [Members -> Nat] /\ configs \in [Guilds -> Nat]
    /\ job \in [Workers -> Job]
    /\ \A w \in Workers : /\ job[w].kind = "player" => job[w].member \in Members
                          /\ job[w].kind = "config" => job[w].guild \in Guilds
    /\ changed \in 0 .. MaxChanges /\ troubled \in 0 .. MaxTroubles
    /\ \A g \in Guilds : /\ link[g] = "gone" <=> token[g] = 0
                         /\ link[g] = "gone" => mirror[g] = {}

\* No job is waiting or running.
Quiet ==
    /\ \A m \in Members : players[m] = 0
    /\ \A g \in Guilds : configs[g] = 0
    /\ \A w \in Workers : job[w] = Idle

\* The members who qualify now and have not opted out.
Entitled(g) == Qualifying(g, rule[g], OptedOut[g])

Converged(g) == remote[g] = Entitled(g)

\* The cap is out of reach.
Roomy(g) == Cardinality(Residents[g]) <= cap[g]

\* The link has a form and a list that can be written, and its guild's opt-outs
\* can be looked up.
Alive(g) == link[g] = "bound" /\ upstream[g] = "on" /\ g \notin Broken

\* "matching answers grant the bound Discord role" (README.md): once the queue
\* is empty, the members on RoleLogic's list are those who qualify now, whatever
\* becomes of other guilds.
QuietConverged ==
    Quiet => \A g \in Guilds : Alive(g) /\ Roomy(g) => Converged(g)

\* With more qualifying members than the cap allows, whoever holds the role
\* still qualifies for it, and capping never leaves a member with a stale role.
QuietSound ==
    Quiet => \A g \in Guilds : Alive(g) => remote[g] \subseteq Entitled(g)

\* sync_for_role_link skips the upload on the strength of role_assignments:
\* once the queue is empty, they are what RoleLogic has.
MirrorTruthful ==
    Quiet => \A g \in Guilds :
        link[g] # "gone" /\ upstream[g] # "gone" => mirror[g] = remote[g]

\* Convention 40: no failing lookup, race or retry ever gives the role to a
\* member who has opted out.
OptOutHonoured == \A g \in Guilds : remote[g] \cap OptedOut[g] = {}

\* A delete_config that arrives after the link was added again does not take
\* the new row with it.  A job that has read the old token may: it deletes the
\* row of a link that RoleLogic does not find.
LateGoodbye ==
    [][\A g \in Guilds :
          token[g] = issued[g] /\ upstream[g] # "gone" /\ token'[g] = 0 =>
              \E w \in Workers : job[w].token[g] \in 1 .. token[g] - 1]_vars

\* delete_form re-syncs the links it unbinds: a role without a form is taken
\* from everyone.
FormGoneDrained ==
    Quiet => \A g \in Guilds : ~formLive[g] /\ upstream[g] = "on" => remote[g] = {}

\* When users and admins leave it alone, the list of a guild ends up right and
\* stays so, unless RoleLogic holds the removals for the owner.  A lookup that
\* always fails for one guild must not stop "this user's role healing in every
\* OTHER guild" (sync_for_player).
Converges ==
    \A g \in Guilds :
        <>[](holding[g] \/ ~Alive(g) \/ ~Roomy(g) \/ Converged(g))
=============================================================================
