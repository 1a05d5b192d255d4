---------------------------- MODULE ServiceRoutes ----------------------------
(***************************************************************************)
(* The HTTP handlers: which permission a route asks for, how it confines   *)
(* an administrator to a tenant, whose identity the actor of a request     *)
(* becomes, and what is audited.  What the handlers then call is modelled  *)
(* by the modules of the components.                                       *)
(*                                                                         *)
(* Scopes of a route for administrators:                                   *)
(*   bind    the tenant of the request, which must be the administrator's  *)
(*   query   the same for the filter of a list                             *)
(*   filter  a list, of which the administrator is shown its tenant's rows *)
(*   ensure  a row, which must be of the administrator's tenant            *)
(*   none    rows that no tenant owns, or that are not checked             *)
(***************************************************************************)
EXTENDS AdminAccess

Write(permission, scope) ==
    [caller |-> "admin", permission |-> permission, scope |-> scope, audited |-> TRUE]
Read(scope) ==
    [caller |-> "admin", permission |-> "admin:read", scope |-> scope, audited |-> FALSE]
Agent(body) == [caller |-> "agent", permission |-> "", scope |-> body, audited |-> FALSE]
Open == [caller |-> "anyone", permission |-> "", scope |-> "none", audited |-> FALSE]

-----------------------------------------------------------------------------
(* Agents, proposals and missions.                                         *)
registerAgent == Write("missions:operate", "bind")
getAgent == Read("ensure")
revokeAgent == Write("missions:operate", "ensure")
listAgents == Read("query")
createProposal == Write("missions:operate", "bind")
getProposal == Read("ensure")
listProposals == Read("query")
approveProposal == Write("missions:approve", "ensure")
listMissions == Read("query")
introspect == Read("ensure")
revoke == Write("missions:operate", "ensure")
complete == Write("missions:operate", "ensure")
missionLineage == Read("ensure")
\* Of an agent that is not registered only an unconfined administrator is told.
agentLineage == Read("ensure")
evaluate == Agent("actor")
resume == Agent("actor")
delegate == Agent("actor")

(* Expansions, negotiations and approvals.                                 *)
createExpansionRequest == Agent("actor")
getExpansionRequest == Read("ensure")
listExpansions == Read("query")
approveExpansionRequest == Write("missions:approve", "ensure")
denyExpansionRequest == Write("missions:approve", "ensure")
submitExpansionApproval == Write("missions:approve", "none")
createAuthorityNegotiation == Agent("actor")
getAuthorityNegotiation == Read("none")
createApprovalRule == Write("governance:manage", "bind")
listApprovalRules == Read("filter")

(* Tools, evidence, projections and leases.                                *)
registerToolContract == Write("governance:manage", "none")
getToolContract == Read("none")
listToolContracts == Read("none")
authorizeToolCall == Agent("actor")
verifyDecisionArtifact == Open
createProjection == Agent("actor")
listProjections == Read("query")
getProjectionStatus == Read("ensure")
revokeProjection == Write("missions:operate", "ensure")
verifyProjection == Open
exchangeProjectionToken == Agent("actor")
verifyCredentialAccessToken == Open
createMissionLease == Agent("actor")
refreshMissionLease == Agent("actor")

(* Policy bundles and containment.  A simulation writes nothing but is a   *)
(* POST, and so audited.                                                   *)
createPolicyBundle == Write("governance:manage", "bind")
listPolicyBundles == Read("filter")
getPolicyBundle == Read("ensure")
activatePolicyBundle == Write("governance:manage", "ensure")
simulatePolicyBundle == Write("admin:read", "ensure")
createContainmentRule == Write("governance:manage", "bind")
listContainmentRules == Read("filter")
getContainmentRule == Read("ensure")
liftContainmentRule == Write("governance:manage", "ensure")
containmentBlastRadius == Read("ensure")

(* Operator views and events.                                              *)
adminSession == Read("none")
operationsSummary == Read("query")
events == Read("query")
eventsStream == Read("none")
authZENEvaluation == Agent("subject")
authZENEvaluations == Agent("subject")

(* Integrations.  ServiceNow has no routes.                                *)
createGitHubRepositoryBinding == Write("integrations:manage", "bind")
listGitHubRepositoryBindings == Read("filter")
githubWebhook == Open
githubCheckRunPlan == Agent("actor")
createOktaAppBinding == Write("integrations:manage", "bind")
listOktaAppBindings == Read("filter")
resolveOktaAuthorityContext == Agent("evaluation")
createEntraAppRegistration == Write("integrations:manage", "bind")
listEntraAppRegistrations == Read("filter")
resolveEntraAuthorityContext == Agent("evaluation")
createSlackWorkspaceBinding == Write("integrations:manage", "bind")
listSlackWorkspaceBindings == Read("filter")
authorizeSlackMessageAction == Agent("evaluation")
createAtlassianSiteBinding == Write("integrations:manage", "bind")
listAtlassianSiteBindings == Read("filter")
authorizeAtlassianJiraIssueAction == Agent("evaluation")
authorizeAtlassianConfluencePageAction == Agent("evaluation")
createSalesforceOrgBinding == Write("integrations:manage", "bind")
listSalesforceOrgBindings == Read("filter")
authorizeSalesforceRecordAction == Agent("evaluation")

\* The routes that are served without a module of their own.  Routes that ask
\* for the same thing are one element.
Routes ==
    {registerAgent, getAgent, revokeAgent, listAgents, createProposal, getProposal,
     listProposals, approveProposal, listMissions, introspect, revoke, complete,
     missionLineage, agentLineage, getExpansionRequest, listExpansions,
     approveExpansionRequest, denyExpansionRequest, submitExpansionApproval,
     getAuthorityNegotiation, createApprovalRule, listApprovalRules,
     registerToolContract, getToolContract, listToolContracts, listProjections,
     getProjectionStatus, revokeProjection, createPolicyBundle, listPolicyBundles,
     getPolicyBundle, activatePolicyBundle, simulatePolicyBundle, createContainmentRule,
     listContainmentRules, getContainmentRule, liftContainmentRule,
     containmentBlastRadius, adminSession, operationsSummary, events, eventsStream,
     listGitHubRepositoryBindings, listOktaAppBindings, listEntraAppRegistrations,
     listSlackWorkspaceBindings, listAtlassianSiteBindings, listSalesforceOrgBindings,
     evaluate, resume, delegate, createExpansionRequest, createAuthorityNegotiation,
     authorizeToolCall, createProjection, exchangeProjectionToken, createMissionLease,
     refreshMissionLease, authZENEvaluation, authZENEvaluations,
     verifyDecisionArtifact, verifyProjection, verifyCredentialAccessToken}

CreateRoute(provider) ==
    CASE provider = "github"     -> createGitHubRepositoryBinding
      [] provider = "okta"       -> createOktaAppBinding
      [] provider = "entra"      -> createEntraAppRegistration
      [] provider = "slack"      -> createSlackWorkspaceBinding
      [] provider = "atlassian"  -> createAtlassianSiteBinding
      [] provider = "salesforce" -> createSalesforceOrgBinding

ResolveRoute(provider, q) ==
    CASE provider = "github"     -> githubCheckRunPlan
      [] provider = "okta"       -> resolveOktaAuthorityContext
      [] provider = "entra"      -> resolveEntraAuthorityContext
      [] provider = "slack"      -> authorizeSlackMessageAction
      [] provider = "atlassian"  -> IF q.product = "jira"
                                    THEN authorizeAtlassianJiraIssueAction
                                    ELSE authorizeAtlassianConfluencePageAction
      [] provider = "salesforce" -> authorizeSalesforceRecordAction

-----------------------------------------------------------------------------
(* Administrators.                                                         *)

shouldAuditAdminRequest(route) == route.audited

\* What requireAdminPermission decides: 401 and 403 end the request there.
requireAdminPermission(i, route) ==
    IF i = Nobody THEN 401
    ELSE IF adminIdentityHasPermission(i, route.permission) THEN 200 ELSE 403

\* Seeded defect: only the tenant of requests is looked at, not that of rows.
ServedUnchecked(i, route, tenant, tenants) ==
    CASE route.scope \in {"bind", "query"} -> bindAdminTenant(i, tenant)
      [] route.scope = "filter"            -> IF i.tenant = "" THEN tenants ELSE {i.tenant}
      [] OTHER                             -> {tenant}

\* The tenants whose rows a request for a row or a list of a tenant is served
\* from; none when the handler refuses it.
Served(i, route, tenant, tenants) ==
    CASE route.scope = "bind"   -> bindAdminTenant(i, tenant)
      [] route.scope = "query"  ->
            UNION {IF t = "" THEN tenants ELSE {u \in tenants : Lower(u) = Lower(t)} :
                       t \in bindAdminTenant(i, tenant)}
      [] route.scope = "filter" -> IF i.tenant = "" THEN tenants ELSE tenants \cap {i.tenant}
      [] route.scope = "ensure" -> IF ensureAdminTenantAccess(i, tenant) THEN {tenant} ELSE {}
      [] route.scope = "none"   -> {tenant}

-----------------------------------------------------------------------------
(* Agents.  The three headers of a signed request come together or not at  *)
(* all; a signature is verified as MissionEvaluation has it.               *)

NoAgent == [instance |-> "", client |-> ""]

\* {} is a refusal, {NoAgent} a request nobody signed.
verifiedAgentIdentity(signatures, headers) ==
    CASE headers.given = "none"    -> IF signatures THEN {} ELSE {NoAgent}
      [] headers.given = "partial" -> {}
      [] headers.given = "signed"  -> {headers.signer}

\* What the request says of the actor may be left out but not differ.
bindActorIdentity(actor, identity) ==
    IF identity = NoAgent THEN {actor}
    ELSE IF actor.instance \in {"", identity.instance} /\ actor.client \in {"", identity.client}
    THEN {identity}
    ELSE {}

bindAuthZENSubjectIdentity(subject, identity) ==
    IF identity = NoAgent THEN {subject}
    ELSE IF subject.id \in {"", identity.instance} /\ subject.client \in {"", identity.client}
    THEN {[subject EXCEPT !.id = identity.instance, !.instance = identity.instance,
                          !.client = identity.client]}
    ELSE {}

\* An AuthZEN subject is an actor under its property or else under its id.
EvaluateAuthZEN(subject) ==
    [instance |-> firstString(<<subject.instance, subject.id>>), client |-> subject.client]

authZENMissionRef(q) == firstString(<<q.contextMission, q.resourceMission, q.subjectMission>>)

authZENOperation(q) == firstString(<<q.operation, q.action>>)

\* The actor a request is served for, none when it is refused.
Actors(signatures, route, headers, q) ==
    UNION {IF route.scope = "subject"
           THEN {EvaluateAuthZEN(s) : s \in bindAuthZENSubjectIdentity(q.subject, identity)}
           ELSE IF route.scope = "evaluation" /\ ~q.evaluates THEN {q.actor}
           ELSE bindActorIdentity(q.actor, identity) :
               identity \in verifiedAgentIdentity(signatures, headers)}
=============================================================================
