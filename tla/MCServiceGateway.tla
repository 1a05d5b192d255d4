------------------------- MODULE MCServiceGateway -------------------------
(***************************************************************************)
(* ServiceGateway for TLC: every provider, both stores, both ways to log   *)
(* in, with a handful of requests each.  A request is the record of what   *)
(* most of them leave out, with the fields it does give in front.          *)
(***************************************************************************)
EXTENDS ServiceGateway

MCLowered == ("Acme" :> "acme") @@ ("Ops" :> "ops") @@ ("ALL" :> "all")
             @@ ("Site" :> "site") @@ ("Repo" :> "repo") @@ ("Owner" :> "owner")
             @@ ("KEY" :> "key") @@ ("Deleted" :> "deleted")

MCRank == ("" :> 0) @@ ("app" :> 1) @@ ("idp" :> 2) @@ ("m1" :> 3) @@ ("m2" :> 4)
          @@ ("org" :> 5) @@ ("other" :> 6) @@ ("owner" :> 7) @@ ("repo" :> 8) @@ ("site" :> 9)
          @@ ("team" :> 10)

MCEventIds == (1..MaxRequests) \X {"event", "audit"}

-----------------------------------------------------------------------------
(* Administrators.                                                         *)

Credential(subject, tenant, roles, permissions) ==
    [subject |-> subject, tenant |-> tenant, groups |-> {}, roles |-> roles,
     permissions |-> permissions]

MCStatic ==
    ("legacy" :> Credential("root", "", {}, {}))
    @@ ("admin" :> Credential("ann", "acme", {"Owner"}, {}))
    @@ ("auditor" :> Credential("aud", "", {"auditor"}, {}))
    @@ ("mixed" :> Credential("mia", "Acme", {"integration_admin"}, {"missions:approve"}))
    @@ ("nobody" :> Credential("", "", {"owner"}, {}))

MCOidc ==
    [issuer |-> "idp", audience |-> "auth-scope", subjectClaim |-> "sub",
     groupsClaim |-> "groups", rolesClaim |-> "roles", permissionsClaim |-> "permissions",
     tenantClaim |-> "tenant_subject", keys |-> ("k1" :> "key1") @@ ("k2" :> "key2"),
     mapping |-> ("admins" :> {"owner"}) @@ ("ops" :> {"operator", "none"})]

Bearer(token) == [token |-> token, jwt |-> {}]

Token == [alg |-> "RS256", kid |-> "k1", signedWith |-> "key1", exp |-> 10, nbf |-> -1,
          iat |-> 8, aud |-> {"auth-scope", "else"},
          text |-> ("iss" :> "idp") @@ ("sub" :> "ann"), lists |-> << >>]

JWT(fields) == [token |-> "", jwt |-> {fields @@ Token}]

Bearers == {Bearer(t) : t \in (DOMAIN MCStatic) \cup {"unknown"}}

JWTs ==
    {JWT([lists |-> ("groups" :> {"admins", "staff"})]),
     JWT([lists |-> ("groups" :> {"ops"}), text |-> ("tenant" :> "acme") @@ Token.text]),
     JWT([lists |-> ("permissions" :> {"integrations:manage"})]),
     JWT([lists |-> ("groups" :> {"staff"})])}
    \cup {JWT(x @@ [lists |-> ("roles" :> {"owner"})]) :
             x \in {[signedWith |-> "key2"], [kid |-> ""], [exp |-> 5], [nbf |-> 9],
                   [iat |-> 20], [aud |-> {"else"}], [alg |-> "none"]}}

-----------------------------------------------------------------------------
(* Agents.                                                                 *)

Agent1 == [instance |-> "a1", client |-> "c1"]
Agent2 == [instance |-> "a2", client |-> "c1"]
Unsigned == [given |-> "none", signer |-> NoAgent]
Partial == [given |-> "partial", signer |-> NoAgent]
SignedBy(agent) == [given |-> "signed", signer |-> agent]

Subject == [id |-> "a1", instance |-> "", client |-> "c1"]
AgentRequest ==
    [actor |-> Agent1, subject |-> Subject, mission |-> "m1", contextMission |-> "",
     resourceMission |-> "m1", subjectMission |-> "", operation |-> "", action |-> "read",
     evaluates |-> TRUE]

MCAgentRequests ==
    {AgentRequest,
     [actor |-> NoAgent, subject |-> [Subject EXCEPT !.id = "", !.instance = "a2"]]
        @@ AgentRequest,
     [actor |-> [Agent1 EXCEPT !.client = ""], contextMission |-> "m2"] @@ AgentRequest,
     [mission |-> "", resourceMission |-> ""] @@ AgentRequest}

-----------------------------------------------------------------------------
(* Requests of the integrations.                                           *)

Text(x) == [list |-> FALSE, of |-> <<x>>]
List(s) == [list |-> TRUE, of |-> s]
NoURL == [scheme |-> "", host |-> "", path |-> "", slash |-> FALSE, user |-> FALSE]
URL(host) == [NoURL EXCEPT !.scheme = "https", !.host = host]
NoClaims == [c \in {} |-> Text("")]
NoContext == [c \in {} |-> {}]

Creation == [mission |-> "m1", tenant |-> "", mode |-> "", groups |-> {}, admins |-> {},
             subjects |-> {}, groupClaim |-> "", subjectClaim |-> ""]

Resolution == [mission |-> "", tenant |-> "", claims |-> NoClaims, subject |-> "ann",
               groups |-> {}, context |-> NoContext, evaluates |-> TRUE, actor |-> Agent1]

Issued == [issuer |-> URL("idp"), client |-> "app"]
Forged == [groups |-> {"nobody"}, binding |-> {0}]

OktaCreations ==
    {[groups |-> {"dev", "ops"}, mode |-> "ALL", scopeClaim |-> ""] @@ Issued @@ Creation,
     [mission |-> "ghost", issuer |-> [URL("idp") EXCEPT !.slash = TRUE], groups |-> {"ops"},
      subjects |-> {"ann"}, scopeClaim |-> ""] @@ Issued @@ Creation}
OktaResolution == [iss |-> NoURL, scopes |-> {}] @@ Issued @@ Resolution
OktaResolutions ==
    {[mission |-> "m1", tenant |-> "default", groups |-> {"dev", "ops"}, context |-> Forged]
        @@ OktaResolution,
     [issuer |-> NoURL, iss |-> URL("idp"), client |-> "", subject |-> "",
      claims |-> ("groups" :> List(<<"ops">>)) @@ ("aud" :> List(<<"", "app">>))
                 @@ ("sub" :> Text("bob"))] @@ OktaResolution}

EntraCreations ==
    {[groups |-> {"dev", "ops"}, rolesClaim |-> ""] @@ Issued @@ Creation,
     [mission |-> "m2", tenant |-> "acme", rolesClaim |-> "wids"] @@ Issued @@ Creation,
     [mode |-> "most", rolesClaim |-> ""] @@ Issued @@ Creation}
EntraResolution == [iss |-> NoURL, roles |-> {}] @@ Issued @@ Resolution
EntraResolutions ==
    {[mission |-> "m1", tenant |-> "default", groups |-> {"ops"}, context |-> Forged]
        @@ EntraResolution,
     [client |-> "", subject |-> "", evaluates |-> FALSE,
      claims |-> ("azp" :> Text("app")) @@ ("oid" :> Text("bob"))] @@ EntraResolution}

SlackCreation == [workspace |-> "team", roles |-> {}, users |-> {}, channels |-> {},
                  blocked |-> {}, actions |-> {}, roleClaim |-> ""] @@ Creation
SlackCreations ==
    {[roles |-> {"dev", "ops"}, mode |-> "all", channels |-> {"c1", "c2"}, blocked |-> {"c2"}]
        @@ SlackCreation,
     [tenant |-> "acme", users |-> {"ann@x"}] @@ SlackCreation}
SlackResolution == [workspace |-> "team", user |-> "ann", email |-> "ann@x", roles |-> {},
                    channel |-> "c1", action |-> "post"] @@ Resolution
SlackResolutions ==
    {[mission |-> "m1", tenant |-> "default", roles |-> {"dev", "ops"}, context |-> Forged]
        @@ SlackResolution,
     [channel |-> "c2", user |-> "", claims |-> ("sub" :> Text("bob"))] @@ SlackResolution}

AtlassianCreation == [site |-> URL("Site"), cloud |-> "", projects |-> {}, spaces |-> {},
                      jiraActions |-> {}, pageActions |-> {}, emailClaim |-> ""] @@ Creation
AtlassianCreations ==
    {[cloud |-> "org", groups |-> {"Ops"}, projects |-> {"KEY"}] @@ AtlassianCreation,
     [site |-> [URL("site") EXCEPT !.path = "app"]] @@ AtlassianCreation,
     [site |-> URL("other"), cloud |-> "org", spaces |-> {"docs"}] @@ AtlassianCreation}
AtlassianResolution ==
    [site |-> NoURL, cloud |-> "", project |-> "", issue |-> << >>, space |-> "docs",
     account |-> "", email |-> "", action |-> "edit", product |-> "confluence"] @@ Resolution
AtlassianResolutions ==
    {[mission |-> "m1", tenant |-> "default", cloud |-> "org", product |-> "jira",
      issue |-> <<"KEY", 7>>, groups |-> {"ops"}, context |-> Forged] @@ AtlassianResolution,
     [site |-> URL("site"), subject |-> "", space |-> "wiki",
      claims |-> ("account_id" :> Text("bob"))] @@ AtlassianResolution}

SalesforceCreation ==
    [site |-> URL("Site"), org |-> "", objects |-> {}, recordTypeIDs |-> {},
     recordTypeNames |-> {}, actions |-> {}, profiles |-> {}, sets |-> {}, adminProfiles |-> {},
     adminSets |-> {}, usernameClaim |-> "", emailClaim |-> "", profileClaim |-> "",
     setsClaim |-> ""] @@ Creation
SalesforceCreations ==
    {[org |-> "org", sets |-> {"dev", "ops"}, mode |-> "ALL"] @@ SalesforceCreation,
     [org |-> "org", site |-> URL("other"), profiles |-> {"ops"}] @@ SalesforceCreation}
SalesforceResolution ==
    [site |-> NoURL, org |-> "org", user |-> "", username |-> "", email |-> "", profile |-> "Ops",
     sets |-> {}, object |-> "case", recordTypeID |-> "", recordTypeName |-> "",
     action |-> "edit"] @@ Resolution
SalesforceResolutions ==
    {[mission |-> "m1", tenant |-> "default", sets |-> {"Ops", "dev"}, context |-> Forged]
        @@ SalesforceResolution,
     [subject |-> "", claims |-> ("preferred_username" :> Text("bob"))] @@ SalesforceResolution}

TicketCreation == [instance |-> "now", ticket |-> "t1", state |-> ""] @@ Creation
TicketCreations ==
    {[groups |-> {"ops"}] @@ TicketCreation,
     [ticket |-> "", subjects |-> {"ann"}, state |-> "waiting"] @@ TicketCreation}
TicketResolution == [onTicket |-> FALSE, ticket |-> ""] @@ Resolution
TicketResolutions ==
    {[onTicket |-> TRUE, ticket |-> "t1", groups |-> {"Ops"}, context |-> Forged]
        @@ TicketResolution,
     [subject |-> "", evaluates |-> FALSE, context |-> ("ticket" :> {"t2"})] @@ TicketResolution}

Repository(owner, name) == [url |-> FALSE, owner |-> owner, name |-> name, git |-> FALSE]
RepositoryCreation == [owner |-> "", name |-> "", repository |-> NoRepository] @@ Creation
RepositoryCreations ==
    {[repository |-> Repository("Owner", "Repo")] @@ RepositoryCreation,
     [owner |-> "owner", name |-> "repo", mission |-> "", tenant |-> "acme"] @@ RepositoryCreation}

NoPayload == [fullName |-> NoRepository, owner |-> "", name |-> "", head |-> "", after |-> ""]
MCWebhooks ==
    {[id |-> 1, signed |-> TRUE,
      payload |-> [NoPayload EXCEPT !.fullName = Repository("Owner", "repo"), !.after = "sha1"]],
     [id |-> 2, signed |-> TRUE,
      payload |-> [NoPayload EXCEPT !.owner = "owner", !.name = "repo"]],
     [id |-> 1, signed |-> FALSE, payload |-> NoPayload]}

File(path, operation, status) == [path |-> path, operation |-> operation, status |-> status]
MCChecks ==
    {[repository |-> [Repository("owner", "Repo") EXCEPT !.url = TRUE, !.git = TRUE],
      sha |-> "sha1", mission |-> "m1", actor |-> Agent1, context |-> [path |-> {"forged"}],
      evaluates |-> TRUE,
      files |-> <<File("a.go", "", "Deleted"), File("b.go", "edit", "")>>]}

MCCreateRequests ==
    [none |-> {}, github |-> RepositoryCreations, okta |-> OktaCreations,
     entra |-> EntraCreations, slack |-> SlackCreations, atlassian |-> AtlassianCreations,
     salesforce |-> SalesforceCreations, servicenow |-> TicketCreations]

MCResolveRequests ==
    [none |-> {}, github |-> {}, okta |-> OktaResolutions,
     entra |-> EntraResolutions, slack |-> SlackResolutions, atlassian |-> AtlassianResolutions,
     salesforce |-> SalesforceResolutions, servicenow |-> TicketResolutions]

-----------------------------------------------------------------------------
(* Deployments.                                                            *)

Deployment ==
    [provider |-> "none", store |-> "memory", login |-> "static", signatures |-> FALSE,
     requests |-> MaxRequests, presented |-> {Bearer("legacy")}, headers |-> {Unsigned},
     routes |-> {}, tenants |-> {""}, limits |-> {}, crashes |-> FALSE]

\* One request to every route by everybody.
Sweeps ==
    {[login |-> "static", requests |-> 1, routes |-> Routes,
      tenants |-> Tenants \cup {""}, presented |-> Bearers,
      signatures |-> s, headers |-> {Unsigned, Partial, SignedBy(Agent1), SignedBy(Agent2)}]
        @@ Deployment : s \in BOOLEAN}
    \cup {[login |-> "oidc", requests |-> 1, routes |-> Routes,
      tenants |-> Tenants \cup {""}, presented |-> JWTs] @@ Deployment}

\* Administrators at work while one of them pages through the events.
Readings ==
    {[routes |-> {registerAgent}, limits |-> {0, 2},
      presented |-> {Bearer("admin"), Bearer("auditor")}] @@ Deployment,
     [routes |-> {registerAgent}, limits |-> {0}, presented |-> {Bearer("admin")},
      store |-> "postgres"] @@ Deployment}

Providers == {"okta", "entra", "slack", "atlassian", "salesforce"}
Integrations ==
    {[provider |-> p] @@ Deployment : p \in Providers \cup {"servicenow"}}
    \cup {[provider |-> p, store |-> "postgres", requests |-> 2] @@ Deployment : p \in Providers}

\* A repository, its webhooks and its checks, with and without crashes.
Repositories ==
    {[provider |-> "github"] @@ Deployment,
     [provider |-> "github", store |-> "postgres", crashes |-> TRUE, requests |-> 2] @@ Deployment}

MCDeployments == Sweeps \cup Readings \cup Integrations \cup Repositories
=============================================================================
