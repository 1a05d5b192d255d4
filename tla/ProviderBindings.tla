-------------------------- MODULE ProviderBindings --------------------------
(***************************************************************************)
(* The handlers of the integrations over the stores of their bindings.  A  *)
(* handler reads in its first step and then makes its calls one by one:    *)
(* the evaluation of the mission, the update of the binding with the copy  *)
(* it read, the record of a delivery, the event, the audit of an           *)
(* administrator's request.  Handlers overlap at every call.               *)
(*                                                                         *)
(* ServiceNow is a library without routes: its store is a port and its     *)
(* handlers run without authentication.                                    *)
(***************************************************************************)
EXTENDS ProviderAnswers, ServiceRoutes, EventLedger

CONSTANTS
    CreateRequests,   \* provider -> requests for a binding
    ResolveRequests,  \* provider -> requests answered from a binding
    Webhooks,         \* deliveries the sender makes and repeats
    Checks,           \* requests for a check of changed files
    DeliveryIds,
    TicketStates,     \* states somebody asks a ticket to be moved to
    Decisions,        \* what the evaluation of a mission may decide
    Nothing

VARIABLES
    setting,     \* provider, login and signatures of this deployment, and the
                 \* number of requests it serves
    rows,        \* the bindings of the provider
    deliveries,  \* what is recorded of webhook deliveries
    jobs         \* the handlers, finished ones included

Jobs == 1..setting.requests
NotStarted == [handler |-> "none", steps |-> << >>, cut |-> FALSE]

\* Requests are numbered as they come.
Arrives(j) == jobs[j] = NotStarted /\ \A k \in 1..(j - 1) : jobs[k] # NotStarted

Job(handler, steps, fields) ==
    Over([handler |-> handler, steps |-> steps, cut |-> FALSE, since |-> Ids(ledger)], fields)

Waiting(j, step) == jobs[j].steps # << >> /\ Head(jobs[j].steps) = step
Proceed(job) == [job EXCEPT !.steps = Tail(@)]
Finish(job) == [job EXCEPT !.steps = << >>]

\* Events are named after the handler and the call that appends them.
EventOf(j, type, mission, tenant, about) ==
    [id |-> <<j, "event">>, type |-> type, mission |-> mission, tenant |-> tenant,
     about |-> about]

-----------------------------------------------------------------------------
(* Bindings are created by administrators.                                 *)

\* Seeded defect: a request without a permission is turned away unrecorded.
AuditOnlyServed(route, code) == code = 200 /\ shouldAuditAdminRequest(route)

\* Requests of an administrator that are recorded, allowed or not.
recordAdminAction(route, code) == code \in {200, 403} /\ shouldAuditAdminRequest(route)

AuditEvent(j, i) ==
    [EventOf(j, "admin.action", "", i.tenant, << >>) EXCEPT !.id = <<j, "audit">>]

Saves(b) == b # Refused /\ \A e \in rows : ~Conflict(setting.provider, store, b, e)

SaveBinding(b) == Saves(b) /\ rows' = rows \cup {b}

\* It names the mission of the binding, except for a repository.
CreatedEvent(j, b) ==
    EventOf(j, "bound", IF setting.provider = "github" THEN "" ELSE b.mission, b.tenant, <<b.id>>)

\* A binding and its event, then the audit; a request that is refused, for a
\* binding that is malformed or conflicts, only reaches the audit, and one
\* without a valid credential leaves no trace.
CreateBinding(j, q, presented, id) ==
    LET route == CreateRoute(setting.provider)
        i == AdminAuthenticatorFromEnv(setting.login, presented)
        code == requireAdminPermission(i, route)
        audit == IF recordAdminAction(route, code) THEN <<"audit">> ELSE << >>
        tenants == IF code = 200 THEN bindAdminTenant(i, q.tenant) ELSE {}
        common == [route |-> route, code |-> code, presented |-> presented,
                   audit |-> AuditEvent(j, i)]
    IN  /\ Arrives(j) /\ setting.provider # "servicenow" /\ code # 401
        /\ \/ \E tenant \in tenants :
                LET b == NewBinding(setting.provider, [q EXCEPT !.tenant = tenant], id, j)
                IN  /\ SaveBinding(b)
                    /\ jobs' = [jobs EXCEPT ![j] = Job("create", <<"event">> \o audit,
                            Over([event |-> CreatedEvent(j, b), served |-> {b.tenant}], common))]
           \/ /\ \A tenant \in tenants :
                    ~Saves(NewBinding(setting.provider, [q EXCEPT !.tenant = tenant], id, j))
              /\ jobs' = [jobs EXCEPT ![j] = Job("create", audit, Over([served |-> {}], common))]
              /\ UNCHANGED rows
        /\ UNCHANGED <<setting, deliveries, ledgerVars>>

CreateTicketBinding(j, q, id) ==
    LET b == TicketBinding(q, id, j)
    IN  /\ setting.provider = "servicenow" /\ Arrives(j)
        /\ SaveBinding(b)
        /\ jobs' = [jobs EXCEPT ![j] = Job("ticket", <<"event">>, [event |-> CreatedEvent(j, b)])]
        /\ UNCHANGED <<setting, deliveries, ledgerVars>>

-----------------------------------------------------------------------------
(* Requests of agents are answered from a binding.                         *)

ResolvedEvent(j, a) ==
    [EventOf(j, "resolved", a.row.mission, a.row.tenant, <<a.id>>)
        EXCEPT !.about = <<a.id, a.subject, a.row.lastStatus>>]

\* The actor a provider's handler is called for; ServiceNow's is the caller's word.
ResolvingActors(q, headers) ==
    IF setting.provider = "servicenow" THEN {q.actor}
    ELSE Actors(setting.signatures, ResolveRoute(setting.provider, q), headers, q)

\* Seeded defect: an answer that is denied is not recorded.
ResolveStepsQuiet(a, q) ==
    (IF a.accepted /\ q.evaluates THEN <<"evaluate">> ELSE << >>)
        \o (IF a.accepted THEN <<"update", "event">> ELSE <<"update">>)

\* The calls of a resolution: a mission is evaluated when the binding accepts,
\* and either way the row is updated before the event.
ResolveSteps(a, q) ==
    (IF a.accepted /\ q.evaluates THEN <<"evaluate">> ELSE << >>) \o <<"update", "event">>

\* No binding is an answer, a subject nobody gives is an error; neither leaves
\* a trace.
ResolveAuthorityContext(j, q, headers) ==
    LET found == {b \in rows : Matches(setting.provider, b, q)}
        a == AnswerFrom(setting.provider, FirstListed(setting.provider, store, found), q)
    IN  /\ Arrives(j)
        /\ Serves(setting.provider, q) /\ found # {} /\ a # Refused
        /\ \E actor \in ResolvingActors(q, headers) :
             jobs' = [jobs EXCEPT ![j] = Job("resolve", ResolveSteps(a, q),
                [row |-> a.row, event |-> ResolvedEvent(j, a), request |-> q,
                 headers |-> headers, mission |-> a.row.mission, actor |-> actor,
                 context |-> a.context])]
        /\ UNCHANGED <<setting, rows, deliveries, ledgerVars>>

\* The mission is evaluated or the evaluation fails, and with it the handler.
EvaluateBound(j) ==
    /\ Waiting(j, "evaluate") /\ jobs[j].handler = "resolve"
    /\ \/ jobs' = [jobs EXCEPT ![j] = Proceed(@)]
       \/ jobs' = [jobs EXCEPT ![j] = Finish(@)]
    /\ UNCHANGED <<setting, rows, deliveries, ledgerVars>>

\* Seeded defect: the row is added to the one it should replace.
UpdateAppending(j) ==
    /\ Waiting(j, "update")
    /\ rows' = rows \cup {jobs[j].row}
    /\ jobs' = [jobs EXCEPT ![j] = Proceed(@)]
    /\ UNCHANGED <<setting, deliveries, ledgerVars>>

\* The whole row is replaced by the copy; one that is gone stays gone, and only
\* the change of a ticket's state notices.
UpdateBinding(j) ==
    /\ Waiting(j, "update")
    /\ LET old == {b \in rows : b.id = jobs[j].row.id}
       IN  /\ rows' = IF old = {} THEN rows ELSE (rows \ old) \cup {jobs[j].row}
           /\ jobs' = [jobs EXCEPT ![j] =
                IF old = {} /\ @.handler = "ticket" THEN Finish(@) ELSE Proceed(@)]
    /\ UNCHANGED <<setting, deliveries, ledgerVars>>

AppendHandlerEvent(j) ==
    /\ Waiting(j, "event")
    /\ AppendEvent(jobs[j].event, jobs[j].since)
    /\ jobs' = [jobs EXCEPT ![j] = Proceed(@)]
    /\ UNCHANGED <<setting, rows, deliveries, store, batch, published, lost, reader>>

\* An audit takes its time when it is recorded.
RecordAdminAction(j) ==
    /\ Waiting(j, "audit")
    /\ AppendEvent(jobs[j].audit, Ids(ledger))
    /\ jobs' = [jobs EXCEPT ![j] = Proceed(@)]
    /\ UNCHANGED <<setting, rows, deliveries, store, batch, published, lost, reader>>

-----------------------------------------------------------------------------
(* GitHub.                                                                 *)

Delivery(d, summary, b) ==
    [id |-> d, repository |-> summary.repository, sha |-> summary.sha, binding |-> b]

\* Seeded defect: a delivery to a repository that is bound is not recorded.
WebhookStepsUnrecorded(bound) ==
    IF bound = {} THEN <<"deliver", "event">> ELSE <<"update", "event">>

\* The row of the repository is updated before the delivery is known to be new.
WebhookSteps(bound) ==
    (IF bound = {} THEN << >> ELSE <<"update">>) \o <<"deliver", "event">>

\* A webhook that is not signed with the secret is refused.
IngestWebhook(j, w) ==
    LET summary == SummarizeWebhook(w.payload)
        bound == {b \in rows : bindingForRepository(b, summary.repository)}
        received(b) == Delivery(w.id, summary, b.id)
        announces(b) == [EventOf(j, "webhook", b.mission, b.tenant, << >>)
                            EXCEPT !.about = <<received(b)>>]
        noted(b) == [b EXCEPT !.lastDelivery = w.id,
                              !.lastSHA = firstString(<<summary.sha, @>>)]
        nobody == [id |-> 0, mission |-> "", tenant |-> ""]
    IN  /\ setting.provider = "github" /\ Arrives(j) /\ w.signed
        /\ jobs' = [jobs EXCEPT ![j] =
             IF bound = {}
             THEN Job("webhook", WebhookSteps(bound),
                     [delivery |-> received(nobody), event |-> announces(nobody)])
             ELSE LET b == FirstListed("github", store, bound)
                  IN  Job("webhook", WebhookSteps(bound),
                        [row |-> noted(b), delivery |-> received(b), event |-> announces(b)])]
        /\ UNCHANGED <<setting, rows, deliveries, ledgerVars>>

\* Seeded defect: a delivery that is already recorded is recorded again.
DeliverAgain(j) ==
    /\ Waiting(j, "deliver")
    /\ deliveries' = [deliveries EXCEPT ![jobs[j].delivery.id] = jobs[j].delivery]
    /\ jobs' = [jobs EXCEPT ![j] = Proceed(@)]
    /\ UNCHANGED <<setting, rows, ledgerVars>>

\* A delivery that is already recorded ends the handler.
SaveWebhookDelivery(j) ==
    LET d == jobs[j].delivery.id
    IN  /\ Waiting(j, "deliver")
        /\ IF deliveries[d] = Nothing
           THEN /\ deliveries' = [deliveries EXCEPT ![d] = jobs[j].delivery]
                /\ jobs' = [jobs EXCEPT ![j] = Proceed(@)]
           ELSE /\ jobs' = [jobs EXCEPT ![j] = Finish(@)]
                /\ UNCHANGED deliveries
        /\ UNCHANGED <<setting, rows, ledgerVars>>

\* A check needs a binding, and the mission of the request or of the binding;
\* when both have one they agree.
PlanCheckRun(j, q, headers) ==
    LET bound == {b \in rows : bindingForRepository(b, q.repository)}
        b == FirstListed("github", store, bound)
        mission == firstString(<<q.mission, b.mission>>)
    IN  /\ setting.provider = "github" /\ Arrives(j)
        /\ RepositoryAccepted("", "", q.repository) /\ q.sha # "" /\ q.files # << >>
        /\ bound # {} /\ mission # "" /\ b.mission \in {"", mission}
        /\ \E actor \in Actors(setting.signatures, githubCheckRunPlan, headers, q) :
             jobs' = [jobs EXCEPT ![j] = Job("check",
                [k \in DOMAIN q.files |-> "evaluate"] \o <<"update", "event">>,
                [row |-> [b EXCEPT !.lastSHA = q.sha], request |-> q, headers |-> headers,
                 mission |-> mission, actor |-> actor, decided |-> << >>,
                 conclusion |-> "success",
                 event |-> EventOf(j, "check", mission, b.tenant, <<b.id>>)])]
        /\ UNCHANGED <<setting, rows, deliveries, ledgerVars>>

\* The files are evaluated one by one and may be decided by different versions
\* of the mission; a file without a path or an evaluation that fails ends the
\* handler.  The time of the check is read after the last file.
EvaluateFile(j) ==
    LET job == jobs[j]
        file == job.request.files[Len(job.decided) + 1]
    IN  /\ Waiting(j, "evaluate") /\ job.handler = "check"
        /\ \/ /\ file.path # ""
              /\ \E decision \in Decisions :
                   LET conclusion ==
                           CombineConclusion(job.conclusion, ConclusionForDecision(decision))
                       evaluation ==
                           [decision |-> decision, operation |-> FileOperation(file),
                            context |-> MergeCheckContext(job.request, file, job.row.repository)]
                   IN  jobs' = [jobs EXCEPT ![j] = [Proceed(job) EXCEPT
                            !.decided = Append(@, evaluation), !.conclusion = conclusion,
                            !.row.lastCheck = conclusion, !.since = Ids(ledger)]]
           \/ jobs' = [jobs EXCEPT ![j] = Finish(@)]
        /\ UNCHANGED <<setting, rows, deliveries, ledgerVars>>

-----------------------------------------------------------------------------
(* ServiceNow.                                                             *)

UpdateTicketStatus(j, b, state) ==
    /\ setting.provider = "servicenow" /\ Arrives(j)
    /\ b \in rows /\ validTicketState(state)
    /\ jobs' = [jobs EXCEPT ![j] = Job("ticket", <<"update", "event">>,
            [row |-> [b EXCEPT !.state = state],
             event |-> EventOf(j, "ticket", b.mission, b.tenant, <<b.id>>)])]
    /\ UNCHANGED <<setting, rows, deliveries, ledgerVars>>

DeleteTicketBinding(j, b) ==
    /\ setting.provider = "servicenow" /\ Arrives(j)
    /\ b \in rows
    /\ jobs' = [jobs EXCEPT ![j] = Job("ticket", <<"delete", "event">>,
            [row |-> b, event |-> EventOf(j, "ticket", b.mission, b.tenant, <<b.id>>)])]
    /\ UNCHANGED <<setting, rows, deliveries, ledgerVars>>

DeleteRow(j) ==
    LET old == {b \in rows : b.id = jobs[j].row.id}
    IN  /\ Waiting(j, "delete")
        /\ rows' = rows \ old
        /\ jobs' = [jobs EXCEPT ![j] = IF old = {} THEN Finish(@) ELSE Proceed(@)]
        /\ UNCHANGED <<setting, deliveries, ledgerVars>>
=============================================================================
