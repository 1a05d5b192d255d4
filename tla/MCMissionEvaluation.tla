------------------------ MODULE MCMissionEvaluation ------------------------
(* Instance of MissionEvaluation for TLC. *)
EXTENDS MissionEvaluation, TLC

CONSTANTS h1, h2, n1, wipe, toolRule, fileRule, b1, b2, g1

MCGrant(id, actions, constraints) ==
    [type |-> "file", id |-> id, actions |-> actions, constraints |-> constraints]
MCRegion(resources, forbidden) == [resources |-> resources, forbidden |-> forbidden]

\* Everything below d may be read, one file may be written in working hours,
\* and nothing may be deleted.
MCRegionOfMission ==
    MCRegion(<<MCGrant(<<"d", "**">>, {"read"}, {}),
               MCGrant(<<"d", "x">>, {"write"}, {"hours"})>>, {"delete"})

\* More for a resource that is there, with constraints of its own for one that
\* has none, and something that is forbidden.
MCExpansions == {MCRegion(<<MCGrant(<<"d", "x">>, {"read", "list"}, {})>>, {}),
                 MCRegion(<<MCGrant(<<"d", "**">>, {"write"}, {"hours"})>>, {}),
                 MCRegion(<<MCGrant(<<"e">>, {"delete"}, {})>>, {})}

\* A request that is covered, one that is covered in part, one with a wildcard.
MCAsks == {MCRegion(<<MCGrant(<<"d", "y">>, {"read"}, {})>>, {"delete"}),
           MCRegion(<<MCGrant(<<"d", "x">>, {"read", "list"}, {})>>, {"delete"}),
           MCRegion(<<MCGrant(<<"d", "*">>, {"read"}, {})>>, {})}

MCAction(id, operation) ==
    [type |-> "file", id |-> id, operation |-> operation, name |-> operation]
MCRequest(id, operation, context, seen, tool, own) ==
    [action |-> MCAction(id, operation), context |-> context, seen |-> seen,
     tool |-> tool, own |-> own]

MCRequests ==
    {MCRequest(<<"d", "y">>, "read", {"fresh"}, 1, None, TRUE),
     MCRequest(<<"d", "x">>, "write", {"fresh"}, 0, None, TRUE),
     MCRequest(<<"d", "x">>, "list", {"risky", "fresh"}, 0, None, TRUE),
     MCRequest(<<"d", "x">>, "read", {}, 0, None, TRUE),
     MCRequest(<<"d", "x">>, "read", {"fresh", "hours"}, 0, wipe, TRUE)}

MCContractOf ==
    wipe :> [type |-> "file", id |-> << >>, operation |-> "write", required |-> {"hours"}]

MCTargetOf == toolRule :> [kind |-> "tool", name |-> wipe] @@
              fileRule :> [kind |-> "resource", name |-> <<"d", "y">>]

MCRule(effect, bases, operations, conditions) ==
    [effect |-> effect, bases |-> bases, operations |-> operations,
     conditions |-> conditions, disabled |-> FALSE]

\* One bundle limits writing, the next one permits a little of everything; the
\* global one asks for an approval.
MCBundleOf ==
    b1 :> [tenant |-> Tenant,
           rules |-> <<MCRule("allow", {}, {"read"}, {}),
                       MCRule("deny", {"allow"}, {"write"}, {})>>] @@
    b2 :> [tenant |-> Tenant,
           rules |-> <<MCRule("allow_with_constraints", {}, {}, {"fresh"})>>] @@
    g1 :> [tenant |-> Global, rules |-> <<MCRule("require_approval", {}, {}, {})>>]

MCBeginning(agentStatus, tools, rules, b1Status, b2Status, g1Status) ==
    [agent |-> agentStatus, contracts |-> tools,
     containments |-> [c \in ContainmentIds |-> IF c \in rules THEN "active" ELSE "none"],
     bundles |-> b1 :> b1Status @@ b2 :> b2Status @@ g1 :> g1Status]

\* An empty store; a tenant with a policy; a tool and a file contained; the
\* global policy alone.
MCBeginnings ==
    {MCBeginning("none", {}, {}, "none", "none", "none"),
     MCBeginning("active", {wipe}, {}, "active", "draft", "none"),
     MCBeginning("active", {wipe}, {toolRule, fileRule}, "draft", "draft", "none"),
     MCBeginning("active", {wipe}, {}, "draft", "none", "active")}

Symmetry == Permutations(Handlers)
=============================================================================
