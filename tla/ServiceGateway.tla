--------------------------- MODULE ServiceGateway ---------------------------
(***************************************************************************)
(* The service as its callers see it: administrators, agents and webhook   *)
(* senders whose requests are served at once, the integrations, the event  *)
(* ledger with its publisher, and a process that may die and start again   *)
(* over its database.                                                      *)
(*                                                                         *)
(* A deployment fixes the provider, the store, how administrators log in   *)
(* and whether agents must sign, and bounds who asks: `requests` handlers, *)
(* the credentials in `presented`, the headers in `headers`, the routes in *)
(* `routes` and the tenants in `tenants` that are asked for, the limits of *)
(* who pages through the events, and whether it crashes.                   *)
(***************************************************************************)
EXTENDS ProviderBindings

CONSTANTS
    Deployments,
    MaxRequests,    \* the most requests a deployment serves
    Tenants,        \* tenants that have rows
    BindingIds,     \* ids of bindings
    AgentRequests   \* requests of agents to routes without a provider

ASSUME DeploymentAssumption ==
    /\ MaxRequests \in Nat
    /\ \A d \in Deployments :
         /\ d.requests \in 0..MaxRequests
         /\ d.store \in {"memory", "postgres"}
         /\ d.provider \in {"none", "github", "okta", "entra", "slack", "atlassian",
                            "salesforce", "servicenow"}
         /\ d.routes \subseteq Routes /\ d.limits \subseteq Int
         /\ \A q \in CreateRequests[d.provider] : "tenant" \in DOMAIN q
         /\ \A h \in d.headers :
              /\ h.given \in {"none", "partial", "signed"}
              /\ h.given = "signed" => h.signer # NoAgent
                    /\ h.signer = [instance |-> h.signer.instance, client |-> h.signer.client]
    /\ CreateRequests["none"] = {}
    /\ ResolveRequests["none"] = {} /\ ResolveRequests["github"] = {}
    /\ (1..MaxRequests) \X {"event", "audit"} \subseteq EventIds

\* The subject of an AuthZEN request has these fields.
ASSUME SubjectAssumption ==
    \A q \in AgentRequests : {"id", "instance", "client"} \subseteq DOMAIN q.subject

\* A delivery says which it is and is told from no delivery at all.
ASSUME DeliveryAssumption ==
    \A w \in Webhooks :
        /\ w.id \in DeliveryIds
        /\ \A b \in BindingIds \cup {0} : Delivery(w.id, SummarizeWebhook(w.payload), b) # Nothing

\* The requests for bindings of a deployment, for the tenant of the request or of
\* an administrator, and the bindings they create.
Asked(d) ==
    LET asked == CreateRequests[d.provider]
        tenants(q) == UNION {bindAdminTenant(AdminAuthenticatorFromEnv(d.login, p), q.tenant) :
                                 p \in d.presented}
    IN  asked \cup UNION {{[q EXCEPT !.tenant = t] : t \in tenants(q)} : q \in asked}

Creatable(d) ==
    {NewBinding(d.provider, q, id, n) :
        q \in Asked(d), id \in BindingIds, n \in 1..d.requests} \ {Refused}

\* The names and ids they are listed by have a rank.
ASSUME ListingAssumption ==
    \A d \in Deployments : \A b \in Creatable(d) :
        SortKey(d.provider, d.store, b) \in Seq(Int)

VARIABLE crashed

vars == <<setting, rows, deliveries, jobs, crashed, ledgerVars>>

ASSUME CheckAssumption == \A q \in Checks : q.files \in Seq(ToSet(q.files))

-----------------------------------------------------------------------------
(* Routes that are served by the components the other modules model.       *)

\* An administrator's request for a tenant: what it may touch, and its audit.
ServeAdmin(j, route, presented, tenant) ==
    LET i == AdminAuthenticatorFromEnv(setting.login, presented)
        code == requireAdminPermission(i, route)
    IN  /\ Arrives(j) /\ route.caller = "admin" /\ code # 401
        /\ jobs' = [jobs EXCEPT ![j] = Job("admin",
                IF recordAdminAction(route, code) THEN <<"audit">> ELSE << >>,
                [route |-> route, code |-> code, presented |-> presented,
                 served |-> IF code = 200 THEN Served(i, route, tenant, Tenants) ELSE {},
                 audit |-> AuditEvent(j, i)])]
        /\ UNCHANGED <<setting, rows, deliveries, crashed, ledgerVars>>

\* An AuthZEN request names its mission in one of three places.
AgentMission(route, q) == IF route.scope = "subject" THEN authZENMissionRef(q) ELSE q.mission

ServeAgent(j, route, headers, q) ==
    /\ Arrives(j) /\ route.caller = "agent" /\ AgentMission(route, q) # ""
    /\ \E actor \in Actors(setting.signatures, route, headers, q) :
         jobs' = [jobs EXCEPT ![j] = Job("agent", << >>,
            [route |-> route, headers |-> headers, request |-> q, actor |-> actor,
             mission |-> AgentMission(route, q), operation |-> authZENOperation(q)])]
    /\ UNCHANGED <<setting, rows, deliveries, crashed, ledgerVars>>

\* An administrator who may read starts to page through the events.
ServeEvents(presented, tenant, limit) ==
    LET i == AdminAuthenticatorFromEnv(setting.login, presented)
    IN  /\ requireAdminPermission(i, events) = 200
        /\ \E t \in bindAdminTenant(i, tenant) : StartReading(t, limit)
        /\ UNCHANGED <<setting, rows, deliveries, jobs, crashed>>

-----------------------------------------------------------------------------
(* The process dies with the handlers it was serving and the events it had *)
(* taken from the outbox; the database survives.                           *)

Crash ==
    /\ setting.crashes /\ ~crashed /\ store = "postgres"
    /\ crashed' = TRUE
    /\ jobs' = [j \in Jobs |-> IF jobs[j].steps = << >> THEN jobs[j]
                               ELSE [Finish(jobs[j]) EXCEPT !.cut = TRUE]]
    /\ lost' = lost \cup ToSet(batch) /\ batch' = << >>
    /\ UNCHANGED <<setting, rows, deliveries, store, ledger, outbox, published, reader>>

-----------------------------------------------------------------------------
Init ==
    /\ \E d \in Deployments : setting = d /\ LedgerInit(d.store)
    /\ rows = {} /\ crashed = FALSE
    /\ deliveries = [d \in DeliveryIds |-> Nothing]
    /\ jobs = [j \in Jobs |-> NotStarted]

\* The ids of bindings are random.
FreshIds == BindingIds \ {b.id : b \in rows}

Request(j) ==
    \/ \E p \in setting.presented, route \in setting.routes, t \in setting.tenants :
         ServeAdmin(j, route, p, t)
    \/ \E h \in setting.headers, route \in setting.routes, q \in AgentRequests :
         ServeAgent(j, route, h, q)
    \/ /\ \/ \E q \in CreateRequests[setting.provider], p \in setting.presented, id \in FreshIds :
               CreateBinding(j, q, p, id)
          \/ \E q \in CreateRequests[setting.provider], id \in FreshIds :
               CreateTicketBinding(j, q, id)
          \/ \E q \in ResolveRequests[setting.provider], h \in setting.headers :
               ResolveAuthorityContext(j, q, h)
          \/ \E w \in Webhooks : IngestWebhook(j, w)
          \/ \E q \in Checks, h \in setting.headers : PlanCheckRun(j, q, h)
          \/ \E b \in rows, state \in TicketStates : UpdateTicketStatus(j, b, state)
          \/ \E b \in rows : DeleteTicketBinding(j, b)
       /\ UNCHANGED crashed

Continue(j) ==
    /\ \/ EvaluateBound(j) \/ EvaluateFile(j)
       \/ UpdateBinding(j) \/ SaveWebhookDelivery(j) \/ DeleteRow(j)
       \/ AppendHandlerEvent(j) \/ RecordAdminAction(j)
    /\ UNCHANGED crashed

Publisher ==
    /\ PublishOutboxEvents \/ OutboxPublisherStart
    /\ UNCHANGED <<setting, rows, deliveries, jobs, crashed>>

Reader ==
    \/ \E p \in setting.presented, t \in setting.tenants, limit \in setting.limits :
         ServeEvents(p, t, limit)
    \/ ReadPage /\ UNCHANGED <<setting, rows, deliveries, jobs, crashed>>

Next == (\E j \in Jobs : Request(j) \/ Continue(j)) \/ Publisher \/ Reader \/ Crash

\* A handler that is being served goes on and the publisher polls; nobody has to
\* ask, and nothing has to crash.
Fairness ==
    /\ \A j \in 1..MaxRequests : WF_vars(j \in Jobs /\ Continue(j))
    /\ WF_vars(Publisher)

Spec == Init /\ [][Next]_vars /\ Fairness

-----------------------------------------------------------------------------
(* Properties.                                                             *)

Started == {j \in Jobs : jobs[j] # NotStarted}
By(handlers) == {j \in Started : jobs[j].handler \in handlers}
Ahead(j) == ToSet(jobs[j].steps)
Recorded(e) == \E k \in DOMAIN ledger : ledger[k] = e

Handlers == {"create", "resolve", "webhook", "check", "ticket", "admin", "agent"}
Calls == {"evaluate", "update", "deliver", "delete", "event", "audit"}

\* Types, one row per binding id although rows are replaced whole by copies that
\* were read earlier, one ledger entry per event, and an outbox that only names
\* events of the ledger (UpdateAppBinding and its like, appendEventTx).
TypeOK ==
    /\ setting \in Deployments /\ store = setting.store
    /\ \A b, c \in rows : b.id \in BindingIds /\ (b.id = c.id => b = c)
    /\ \A d \in DeliveryIds : deliveries[d] = Nothing \/ deliveries[d].id = d
    /\ \A j \in Started : jobs[j].handler \in Handlers /\ Ahead(j) \subseteq Calls
    /\ Cardinality(Ids(ledger)) = Len(ledger) /\ Ids(ledger) \subseteq EventIds
    /\ outbox \cup ToSet(batch) \cup ToSet(published) \cup lost \subseteq Ids(ledger)

\* An event of a handler is in the ledger, still to come, gone with the process,
\* or about a mission the database does not know.
Accounted(j) ==
    \/ Recorded(jobs[j].event)
    \/ "event" \in Ahead(j) \/ jobs[j].cut \/ ~Keeps(jobs[j].event)

\* Whatever a binding says of its last resolution, some resolution of that very
\* binding decided it, for the subject it names, and its event is accounted for:
\* overlapping resolutions overwrite each other's rows but never leave a status
\* that the ledger does not explain (ResolveAuthorityContext, bindingFor).
ResolutionLedgered ==
    \A b \in rows : b.lastStatus # "" =>
        \E j \in By({"resolve"}) :
            /\ jobs[j].event.about = <<b.id, b.lastSubject, b.lastStatus>>
            /\ jobs[j].event.mission = b.mission
            /\ Accounted(j)

\* What a binding asks for before it accepts somebody, and in which mode.
Required(b) ==
    CASE setting.provider = "slack"      -> b.roles
      [] setting.provider = "salesforce" -> b.sets
      [] OTHER                           -> b.groups

IgnoresCase == setting.provider \in {"atlassian", "salesforce", "servicenow"}
Fold(S) == IF IgnoresCase THEN LowerAll(S) ELSE S

\* A mission is only evaluated for a request in the name of the binding's own
\* mission, in a tenant the request did not exclude, for the agent that signed
\* it, and in a context whose groups are the ones the binding asked for: what
\* the caller puts into the context under a provider's key does not survive
\* (ResolveAuthorityContext of every integration, bindActorIdentity).
EvaluatedUnderBinding ==
    \A j \in By({"resolve"}) :
        LET job == jobs[j]
            q == job.request
            groups == Fold(job.context["groups"])
            required == Fold(Required(job.row))
        IN  job.row.lastStatus = "accepted" =>
                /\ job.mission = job.row.mission /\ q.mission \in {"", job.mission}
                /\ q.tenant \in {"", job.row.tenant}
                /\ job.context["binding"] = {job.row.id}
                /\ required # {} =>
                     IF job.row.mode = "all" THEN required \ groups = {}
                     ELSE \E g \in required : g \in groups
                /\ setting.signatures /\ setting.provider # "servicenow" /\ q.evaluates =>
                     job.actor = job.headers.signer

\* Two bindings never compete for a request that names its mission and its
\* tenant, or for a repository, whatever administrators create at once and in
\* whichever store (the Save and bindingFor of every integration with a store).
OneBindingPerRequest ==
    /\ setting.provider \notin {"none", "github", "servicenow"} =>
         \A q \in ResolveRequests[setting.provider] :
             q.mission # "" /\ q.tenant # "" =>
                 Cardinality({b \in rows : Serves(setting.provider, q)
                                             /\ Matches(setting.provider, b, q)}) <= 1
    /\ setting.provider = "github" =>
         \A b, c \in rows : b.repository = c.repository => b = c

\* The delivery a repository's row names is recorded, or the handler that noted it
\* is about to record it, or died before it could: the row is updated first
\* (IngestWebhook).
LastDeliveryKnown ==
    setting.provider = "github" =>
        \A b \in rows : b.lastDelivery # 0 =>
            \/ deliveries[b.lastDelivery] # Nothing
            \/ \E j \in By({"webhook"}) :
                 /\ jobs[j].delivery.id = b.lastDelivery
                 /\ "deliver" \in Ahead(j) \/ jobs[j].cut

\* A check that was recorded evaluated every file, each in a context of its own,
\* under the mission of the binding, and its conclusion is no better than any of
\* the decisions; a row that says "success" goes back to a check of that row in
\* which every file was allowed (PlanCheckRun, CombineConclusion).
CheckSound ==
    /\ \A j \in By({"check"}) : Recorded(jobs[j].event) =>
         LET job == jobs[j]
         IN  /\ Len(job.decided) = Len(job.request.files)
             /\ job.row.mission \in {"", job.mission}
             /\ \A k \in DOMAIN job.decided :
                  /\ job.decided[k].context["path"] = {job.request.files[k].path}
                  /\ Severity[ConclusionForDecision(job.decided[k].decision)]
                        <= Severity[job.conclusion]
    /\ setting.provider = "github" =>
         \A b \in rows : b.lastCheck = "success" =>
             \E j \in By({"check"}) :
                 /\ jobs[j].row.id = b.id /\ jobs[j].decided # << >>
                 /\ \A k \in DOMAIN jobs[j].decided :
                      jobs[j].decided[k].decision \in {"allow", "allow_with_constraints"}

-----------------------------------------------------------------------------
\* What a credential was given, read off its configuration or its claims.
Names(roles, permissions, permission) ==
    \/ permission \in LowerAll(permissions)
    \/ \E r \in roles : permission \in rolePermissionStrings(normalizeAdminRoles({r}))

Given(p, permission) ==
    IF setting.login = "static"
    THEN LET c == Static[p.token]
         IN  \/ Names(c.roles, c.permissions, permission)
             \/ LowerAll(c.roles) \subseteq {"", "none"} /\ LowerAll(c.permissions) \subseteq {""}
    ELSE \E t \in p.jwt :
            LET groups == ListClaim(t, Oidc.groupsClaim)
                mapped == UNION {Oidc.mapping[g] : g \in groups \cap DOMAIN Oidc.mapping}
            IN  /\ \E k \in DOMAIN Oidc.keys : Oidc.keys[k] = t.signedWith
                /\ Oidc.audience \in t.aud /\ Now < t.exp
                /\ Names(ListClaim(t, Oidc.rolesClaim) \cup mapped,
                         ListClaim(t, Oidc.permissionsClaim), permission)

ConfinedTo(p) ==
    IF setting.login = "static" THEN Static[p.token].tenant
    ELSE LET t == CHOOSE t \in p.jwt : TRUE
         IN  firstString(<<TextClaim(t, Oidc.tenantClaim),
                           IF Oidc.tenantClaim = "tenant_subject"
                           THEN TextClaim(t, "tenant") ELSE "">>)

\* What an administrator is served, its credential was given: the permission of
\* the route, by name, by a role, by a group that maps to a role, or because a
\* static credential names nothing at all; and on a route that looks at tenants
\* only rows of the tenant the credential is confined to, up to letter case.
\* Every binding of an integration with routes was created by such a request,
\* and an agent that signs is served under its own name (requireAdminPermission,
\* newAdminIdentity, bindAdminTenant, ensureAdminTenantAccess, bindActorIdentity).
EffectsAuthorised ==
    /\ \A j \in By({"admin", "create"}) :
         LET job == jobs[j]
         IN  job.served # {} =>
                /\ Given(job.presented, job.route.permission)
                /\ job.route.scope # "none" /\ ConfinedTo(job.presented) # "" =>
                     \A t \in job.served : Lower(t) = Lower(ConfinedTo(job.presented))
    /\ setting.provider # "servicenow" =>
         \A b \in rows : \E j \in By({"create"}) :
             b.tenant \in jobs[j].served /\ jobs[j].event.about = <<b.id>>
    /\ \A j \in By({"agent"}) :
         /\ setting.signatures => jobs[j].headers.given = "signed"
         /\ jobs[j].headers.given = "signed" => jobs[j].actor = jobs[j].headers.signer

\* An administrator's write that has returned is in the ledger, refused ones for
\* want of a permission included; only the death of the process between the write
\* and its audit loses one (requireAdminPermission, RecordAdminAction).
AdminEffectsAudited ==
    \A j \in By({"admin", "create"}) :
        LET job == jobs[j]
        IN  job.steps = << >> /\ ~job.cut =>
                (Recorded(job.audit) <=> job.route.audited)

-----------------------------------------------------------------------------
(* Whoever sends webhooks sees DeliveryInbox.                              *)

\* The events that announced a delivery, and what they said of it.
Announcements(d) ==
    {<<e.id, e.about[1]>> : e \in {x \in ToSet(ledger) : /\ x.type = "webhook"
                                                       /\ x.about[1].id = d}}

\* The handler that recorded a delivery and has yet to announce it.
WillAnnounce(d) ==
    \E j \in By({"webhook"}) :
        jobs[j].delivery.id = d /\ "event" \in Ahead(j) /\ "deliver" \notin Ahead(j)

Inbox == INSTANCE DeliveryInbox WITH
    received  <- deliveries,
    announced <- [d \in DeliveryIds |-> Announcements(d)],
    dropped   <- {d \in DeliveryIds : /\ deliveries[d] # Nothing
                                      /\ Announcements(d) = {} /\ ~WillAnnounce(d)}

\* However often a delivery is repeated and wherever handlers overlap or die, it is
\* recorded once, announced at most once and as it was recorded, and in the end
\* announced unless its announcement is dropped (IngestWebhook,
\* SaveWebhookDelivery).
InboxSpec == Inbox!Spec
=============================================================================
