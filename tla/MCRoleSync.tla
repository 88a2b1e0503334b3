----------------------------- MODULE MCRoleSync -----------------------------
(* Instances of RoleSync for TLC. *)
EXTENDS RoleSync, TLC

CONSTANTS w1, w2, g1, g2, yes, no

OneWorker  == {w1}
TwoWorkers == {w1, w2}
OneGuild   == {g1}
TwoGuilds  == {g1, g2}
MCAnswers  == {yes, no}
OneRule    == [g \in Guilds |-> {{yes}}]
TwoRules   == [g \in Guilds |-> {{yes}, {yes, no}}]
RuleOfG1   == (g1 :> {{yes}}) @@ (g2 :> {})
Cap1       == [g \in Guilds |-> {1}]
Cap2       == [g \in Guilds |-> {2}]
Cap1Or3    == (g1 :> {1, 3}) @@ (g2 :> {3})

Everything == {"submit", "delete", "clear", "save", "unbind", "resync",
               "deleteForm", "hold", "disable", "deleteLink", "register"}
AllFail    == {"lookup", "read", "api", "write", "crash", "enqueue"}

Everyone == [g \in Guilds |-> Members]
Nobody   == [g \in Guilds |-> {}]
No1      == [g \in Guilds |-> {1}]
No2      == [g \in Guilds |-> {2}]

\* Nothing happens in g2, but that the gateway lists it ..
Calm == (g1 :> {"submit", "delete", "save", "hold", "unbind"})
        @@ (g2 :> {})

\* .. or that its link is synced.
Anything == (g1 :> Everything) @@ (g2 :> {"resync"})

RaceKinds    == [g \in Guilds |-> {"submit", "delete", "save"}]
GoneKinds    == [g \in Guilds |-> {"submit", "deleteForm"}]
=============================================================================
