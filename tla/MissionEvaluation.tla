-------------------------- MODULE MissionEvaluation --------------------------
(***************************************************************************)
(* The decision an agent gets: the signature and nonce of its request, the *)
(* tool contract it names, the evaluation of a mission, containment, the   *)
(* active policy bundle and the evidence row; and the authority that is    *)
(* derived from a mission by negotiation, delegation and expansion.        *)
(*                                                                         *)
(* There is one agent with one mission, and the server demands signatures. *)
(* As in MissionLifecycle, a handler has one step per store call; requests *)
(* of administrators that write once are one step.  Signatures and hashes  *)
(* are taken to be sound.  The lifecycle changes the mission between the   *)
(* steps; the writes of an evaluation itself (expiry, suspension) are      *)
(* overwrites with the copy it read.                                       *)
(***************************************************************************)
EXTENDS AuthorityRegions, FiniteSets

CONSTANTS
    Handlers,        \* requests that may be in flight at the same time
    Nonces,          \* nonces the agent signs with
    Requests,        \* what the agent asks: action, context, version seen, tool
    ContractOf,      \* the contract of every tool
    Region,          \* the authority region the mission starts with
    Expansions,      \* regions that may be granted by expansion
    Asks,            \* regions asked for in negotiations and delegations
    Conditions,      \* facts the conditions of the mission ask for
    Suspends,        \* whether a failed condition suspends the mission
    ContainmentIds,  \* containment rules
    TargetOf,        \* what a containment rule is about
    BundleIds,       \* policy bundles
    BundleOf,        \* tenant and rules of every bundle
    Beginnings,      \* what administrators may have left in the store at the start
    MaxChanges,      \* bound on the changes around the requests
    None             \* no tool, no bundle

VARIABLES
    agent,         \* status of the agent identity
    nonces,        \* the nonces stored
    contracts,     \* the tools whose contract is registered
    mission,       \* state, version and region of the mission
    over,          \* whether the mission has reached its end
    containments,  \* status of every containment rule
    bundles,       \* status of every policy bundle
    expansions,    \* expansion requests made by evaluations
    evidence,      \* the evidence rows, one per answer
    past,          \* every row the mission has had (history)
    changes,       \* the number of changes so far, for the bound
    job            \* where each handler is and what it has read

admin == <<agent, contracts, containments, bundles>>
results == <<nonces, expansions, evidence>>
store == <<admin, results, mission>>
vars == <<store, over, past, changes, job>>

-----------------------------------------------------------------------------
(* Decisions, rows, jobs.                                                  *)

Tenant == "tenant"
Global == ""

States == {"active", "suspended", "expired", "revoked"}
terminal(state) == state \in {"expired", "revoked"}

effectiveMissionVersionSeen(seen, current) == IF seen > 0 THEN seen ELSE current

Unconstrained(region) ==
    \A k \in DOMAIN region.resources : region.resources[k].constraints = {}
Literal(region) ==
    \A k \in DOMAIN region.resources :
        \A l \in DOMAIN region.resources[k].id : region.resources[k].id[l] \notin Wildcards

Permitting == {"allow", "allow_with_constraints"}
Decisions == Permitting \cup {"deny", "require_refresh", "require_expansion",
                              "require_approval", "suspend"}
Answers == [nonce : Nonces, request : Requests, version : Nat,
            base : Decisions, decision : Decisions, bundle : BundleIds \cup {None},
            policed : BOOLEAN]

\* What normalizePolicyBundle lets a rule do.
PolicyEffects == {"allow", "allow_with_constraints", "deny", "require_approval",
                  "require_expansion"}

\* A store that administrators have worked on has archived a bundle only when
\* it activated another one of the tenant.
ASSUME EvaluationAssumption ==
    /\ Suspends \in BOOLEAN
    /\ MaxChanges \in Nat
    /\ None \notin BundleIds \cup Nonces \cup DOMAIN ContractOf
    /\ \A q \in Requests : q.seen \in Nat
    /\ \A b \in BundleIds : \A k \in DOMAIN BundleOf[b].rules :
          k \in Nat /\ BundleOf[b].rules[k].effect \in PolicyEffects
    /\ \A s \in Beginnings :
          /\ s.agent \in {"none", "active", "revoked"}
          /\ s.contracts \subseteq DOMAIN ContractOf
          /\ s.containments \in [ContainmentIds -> {"none", "active", "lifted"}]
          /\ s.bundles \in [BundleIds -> {"none", "draft", "active", "archived"}]
          /\ \A b \in BundleIds : s.bundles[b] \in {"active", "archived"} =>
                \E c \in BundleIds :
                   {d \in BundleIds : /\ BundleOf[d].tenant = BundleOf[b].tenant
                                      /\ s.bundles[d] = "active"} = {c}

Steps == {"idle", "nonce", "contract", "mission", "contain", "recheck", "expand",
          "transition", "policy", "global", "evidence", "activate", "derive"}
Idle == [pc |-> "idle", nonce |-> None, request |-> None, copy |-> None,
         base |-> "deny", decision |-> "deny", goal |-> "active", bundle |-> None,
         banned |-> {}, policed |-> FALSE, archived |-> {}]

Change == changes < MaxChanges /\ changes' = changes + 1

Goto(p, pc) == job' = [job EXCEPT ![p].pc = pc]
Return(p) == job' = [job EXCEPT ![p] = Idle]

\* The evaluation has come to a decision that policy may restrict.
Decide(p, d) == job' = [job EXCEPT ![p].pc = "policy", ![p].base = d]

-----------------------------------------------------------------------------
(* Containment and policy bundles.                                         *)

\* The action a request is about: its own, or the one its tool stands for,
\* with a resource named by the contract or by the arguments of the call.
ActionAsked(q) ==
    IF q.tool = None THEN q.action
    ELSE LET c == ContractOf[q.tool]
         IN  [type |-> c.type, operation |-> c.operation, name |-> q.tool,
              id |-> IF c.id = << >> THEN q.action.id ELSE c.id]

\* Regions and requests are what AuthorityRegions takes them for.
ASSUME RegionAssumption ==
    /\ {Region} \cup Expansions \cup Asks \subseteq Regions
    /\ \A q \in Requests : LET a == ActionAsked(q)
                           IN  a.type \in STRING /\ a.id \in Seq(STRING) /\ a.operation \in STRING

\* A rule about the agent, its principal, the mission or the tenant matches
\* every request; one about a tool or a resource those that use it.
containmentRuleMatchesEvaluation(c, a) ==
    \/ TargetOf[c].kind = "mission"
    \/ TargetOf[c].kind = "tool" /\ TargetOf[c].name = a.name
    \/ /\ TargetOf[c].kind = "resource"
       /\ TargetOf[c].name \in {a.id, <<a.type>> \o a.id, <<a.type, "*">>}

InForce(a) == {c \in ContainmentIds : /\ containments[c] = "active"
                                      /\ containmentRuleMatchesEvaluation(c, a)}

\* Seeded defect: rules about tools and resources are not looked at.
ContainedByMission(a) == \E c \in InForce(a) : TargetOf[c].kind = "mission"

Contained(a) == InForce(a) # {}

Active(tenant) ==
    {b \in BundleIds : BundleOf[b].tenant = tenant /\ bundles[b] = "active"}

policyMayRestrictDecision(d) ==
    d \in Permitting \cup {"require_expansion", "require_approval"}

\* Seeded defect: a rule may allow what the mission did not.
EffectAlwaysApplies(effect, base) == TRUE

policyEffectCanApply(effect, base) ==
    effect \in {"deny", "require_approval"} \/ base \in Permitting

\* A rule is looked at when it is enabled, lists the base decision and the
\* operation (or none), and its conditions hold in the context.
RuleApplies(rule, q, base) ==
    /\ ~rule.disabled
    /\ rule.bases = {} \/ base \in rule.bases
    /\ rule.operations = {} \/ contains(rule.operations, ActionAsked(q).operation)
                            \/ contains(rule.operations, ActionAsked(q).name)
    /\ rule.conditions \subseteq q.context
    /\ policyEffectCanApply(rule.effect, base)

\* The rules are in the order of their priorities; the first one that applies
\* decides, and a rule that allows leaves the decision as it is.
applyPolicyBundle(b, q, base) ==
    LET rules == BundleOf[b].rules
        applies == {k \in DOMAIN rules : RuleApplies(rules[k], q, base)}
        first == CHOOSE k \in applies : \A l \in applies : k <= l
    IN  IF ~policyMayRestrictDecision(base) \/ applies = {} THEN base
        ELSE IF rules[first].effect = "allow" THEN base
        ELSE rules[first].effect

-----------------------------------------------------------------------------
(* Administration.                                                         *)

RegisterAgent(p) ==
    /\ Change /\ job[p] = Idle /\ agent = "none"
    /\ agent' = "active"
    /\ UNCHANGED <<contracts, containments, bundles, results, mission, over, past, job>>

RevokeAgent(p) ==
    /\ Change /\ job[p] = Idle /\ agent = "active"
    /\ agent' = "revoked"
    /\ UNCHANGED <<contracts, containments, bundles, results, mission, over, past, job>>

\* A contract is registered once and never changed.
RegisterToolContract(p, tool) ==
    /\ Change /\ job[p] = Idle /\ tool \notin contracts
    /\ contracts' = contracts \cup {tool}
    /\ UNCHANGED <<agent, containments, bundles, results, mission, over, past, job>>

\* CreateContainmentRule and LiftContainmentRule; a rule that runs out is as
\* good as lifted.
SetContainmentRule(p, c, from, to) ==
    /\ Change /\ job[p] = Idle /\ containments[c] = from
    /\ containments' = [containments EXCEPT ![c] = to]
    /\ UNCHANGED <<agent, contracts, bundles, results, mission, over, past, job>>

\* Seeded defect: the new bundle is stored without a status.
CreateWithoutStatus(p, b) ==
    /\ Change /\ job[p] = Idle /\ bundles[b] = "none"
    /\ bundles' = [bundles EXCEPT ![b] = ""]
    /\ UNCHANGED <<agent, contracts, containments, results, mission, over, past, job>>

CreatePolicyBundle(p, b) ==
    /\ Change /\ job[p] = Idle /\ bundles[b] = "none"
    /\ bundles' = [bundles EXCEPT ![b] = "draft"]
    /\ UNCHANGED <<agent, contracts, containments, results, mission, over, past, job>>

\* The first statement of the transaction archives the other active bundles of
\* the tenant, as of now; others see it when the transaction commits.
ActivatePolicyBundle(p, b) ==
    /\ Change /\ job[p] = Idle /\ bundles[b] # "none"
    /\ job' = [job EXCEPT ![p] = [Idle EXCEPT !.pc = "activate", !.bundle = b,
                 !.archived = Active(BundleOf[b].tenant) \ {b}]]
    /\ UNCHANGED <<store, over, past>>

\* Seeded defect: the index on active bundles is missing.
NoUniqueIndex(b, archived) == TRUE

\* The unique index on the active bundles of a tenant admits the second one.
OnlyActive(b, archived) == Active(BundleOf[b].tenant) \subseteq archived \cup {b}

CommitActivation(p) ==
    LET b == job[p].bundle
    IN  /\ job[p].pc = "activate"
        /\ bundles' = IF OnlyActive(b, job[p].archived)
                      THEN [c \in BundleIds |->
                              IF c = b THEN "active"
                              ELSE IF c \in job[p].archived THEN "archived"
                              ELSE bundles[c]]
                      ELSE bundles
        /\ job' = [q \in Handlers |->
                     IF q = p THEN Idle
                     ELSE [job[q] EXCEPT !.archived =
                             IF OnlyActive(b, job[p].archived) THEN @ \ job[p].archived
                             ELSE @]]
        /\ UNCHANGED <<agent, contracts, containments, results, mission, over, changes, past>>

-----------------------------------------------------------------------------
(* A request of the agent, signed, for an evaluation or a tool call.       *)

\* The history fields are the containment rules about the request and whether
\* a policy was in force, both when the request arrived.
VerifyAgentRequestSignature(p, n, q) ==
    /\ job[p] = Idle /\ agent = "active"
    /\ job' = [job EXCEPT ![p] =
                 [Idle EXCEPT !.pc = "nonce", !.nonce = n, !.request = q,
                              !.banned = InForce(ActionAsked(q)),
                              !.policed = Active(Tenant) \cup Active(Global) # {}]]
    /\ UNCHANGED <<store, over, changes, past>>

\* Seeded defect: the key of the nonces is missing.
NonceAlwaysFresh(n) == TRUE

NonceFresh(n) == n \notin nonces

SaveAgentNonce(p) ==
    /\ job[p].pc = "nonce"
    /\ nonces' = nonces \cup {job[p].nonce}
    /\ IF ~NonceFresh(job[p].nonce) THEN Return(p)
       ELSE Goto(p, IF job[p].request.tool = None THEN "mission" ELSE "contract")
    /\ UNCHANGED <<admin, expansions, evidence, mission, over, changes, past>>

\* Without a contract, or without the context it asks for, there is neither an
\* evaluation nor evidence.
AuthorizeToolCall(p) ==
    LET q == job[p].request
    IN  /\ job[p].pc = "contract"
        /\ IF q.tool \in contracts /\ ContractOf[q.tool].required \subseteq q.context
           THEN Goto(p, "mission")
           ELSE Return(p)
        /\ UNCHANGED <<store, over, changes, past>>

\* Evaluate reads the mission and the clock.
Evaluate(p) ==
    /\ job[p].pc = "mission"
    /\ job' = [job EXCEPT
                 ![p].copy = mission,
                 ![p].goal = IF over THEN "expired" ELSE "active",
                 ![p].pc = IF over /\ ~terminal(mission.state) THEN "transition"
                           ELSE IF ~over /\ mission.state = "active" /\ job[p].request.own
                           THEN "contain" ELSE "policy"]
    /\ UNCHANGED <<store, over, changes, past>>

\* What evaluation makes of a request that no rule contains.
Assess(copy, q) ==
    LET inScope == actionInScopeForContext(copy.region, ActionAsked(q), q.context)
        risky == "risky" \in q.context
        met == Conditions \subseteq q.context
    IN  IF q.seen > 0 /\ q.seen < copy.version THEN "require_refresh"
        ELSE IF ~inScope THEN IF risky THEN "require_approval" ELSE "require_expansion"
        ELSE IF met THEN "allow"
        ELSE IF Suspends THEN "suspend" ELSE "deny"

CheckContainment(p) ==
    LET q == job[p].request
        verdict == Assess(job[p].copy, q)
    IN  /\ job[p].pc = "contain"
        /\ IF Contained(ActionAsked(q)) THEN Decide(p, "deny")
           ELSE IF verdict = "require_approval" THEN Goto(p, "recheck")
           ELSE IF verdict = "suspend"
           THEN job' = [job EXCEPT ![p].pc = "transition", ![p].goal = "suspended"]
           ELSE Decide(p, verdict)
        /\ UNCHANGED <<store, over, changes, past>>

\* createExpansionRequestForMission asks for containment again; an error ends
\* the evaluation.
RecheckContainment(p) ==
    /\ job[p].pc = "recheck"
    /\ IF Contained(ActionAsked(job[p].request)) THEN Return(p) ELSE Goto(p, "expand")
    /\ UNCHANGED <<store, over, changes, past>>

SaveExpansionRequest(p) ==
    LET q == job[p].request
    IN  /\ job[p].pc = "expand"
        /\ expansions' = expansions \cup
             {[region |-> authorityForAction(ActionAsked(q)),
               seen |-> effectiveMissionVersionSeen(q.seen, job[p].copy.version)]}
        /\ Decide(p, "require_approval")
        /\ UNCHANGED <<admin, nonces, evidence, mission, over, changes, past>>

\* The copy read at the start overwrites the mission.
transition(p) ==
    LET row == [job[p].copy EXCEPT !.state = job[p].goal, !.version = @ + 1]
    IN  /\ job[p].pc = "transition"
        /\ mission' = row
        /\ past' = past \cup {row}
        /\ job' = [job EXCEPT ![p].pc = "policy", ![p].copy = row,
                     ![p].base = IF row.state = "suspended" THEN "suspend" ELSE "deny"]
        /\ UNCHANGED <<admin, results, over, changes>>

\* The bundle of the tenant, and in a second statement the global one; without
\* either, the decision stays what it is.
GetActivePolicyBundle(p, pc, tenant) ==
    /\ job[p].pc = pc
    /\ \/ \E b \in Active(tenant) :
             job' = [job EXCEPT ![p].pc = "evidence", ![p].bundle = b,
                       ![p].decision = applyPolicyBundle(b, job[p].request, job[p].base)]
       \/ /\ Active(tenant) = {}
          /\ job' = [job EXCEPT ![p].pc = IF pc = "policy" THEN "global" ELSE "evidence",
                       ![p].decision = job[p].base]
    /\ UNCHANGED <<store, over, changes, past>>

SaveEvaluationEvidence(p) ==
    /\ job[p].pc = "evidence"
    /\ evidence' = evidence \cup
         {[nonce |-> job[p].nonce, request |-> job[p].request,
           version |-> job[p].copy.version, base |-> job[p].base,
           decision |-> job[p].decision, bundle |-> job[p].bundle,
           policed |-> job[p].policed]}
    /\ Return(p)
    /\ UNCHANGED <<admin, nonces, expansions, mission, over, changes, past>>

\* A store call fails or its context ends: the handler returns the error, and
\* a transaction rolls back.
Fail(p) ==
    /\ job[p] # Idle
    /\ Return(p)
    /\ UNCHANGED <<store, over, changes, past>>

-----------------------------------------------------------------------------
(* The authority taken from a mission, and the lifecycle around it.        *)

\* Both check one copy of the mission and then store a row of their own, whose
\* region is derived from that of the copy.  Requests of other agents, with a
\* stale version, or that the terms of delegation exclude are refused without
\* any effect and left out.
Derive(p, kind, ask, region) ==
    /\ job[p] = Idle
    /\ job' = [job EXCEPT ![p] = [Idle EXCEPT !.pc = "derive", !.copy = mission,
                 !.request = [kind |-> kind, ask |-> ask, region |-> region]]]
    /\ UNCHANGED <<store, over, changes, past>>

\* The request as it is, or what of it is covered; an offer without any grant
\* is a denial.
CreateAuthorityNegotiation(p, ask) ==
    /\ ~over /\ mission.state = "active"
    /\ Derive(p, "negotiation", ask,
              IF allRequestedActionsInScope(mission.region, ask) THEN ask
              ELSE authorityIntersection(mission.region, ask))

\* The containment rules are read right after the mission.
Delegate(p, ask) ==
    /\ mission.state = "active"
    /\ ~Contained([type |-> "mission", id |-> <<"ref">>, operation |-> "delegate",
                   name |-> "delegate"])
    /\ authoritySubset(mission.region, ask)
    /\ Derive(p, "delegation", ask, ask)

\* SaveAuthorityNegotiation, SaveMission: new rows, nothing else is touched.
SaveDerived(p) ==
    /\ job[p].pc = "derive"
    /\ Return(p)
    /\ UNCHANGED <<store, over, changes, past>>

\* An approved expansion, asked for by an evaluation at this version or made
\* otherwise.
GrantExpansion(g) ==
    LET row == [mission EXCEPT !.region = mergeAuthority(@, g), !.version = @ + 1]
    IN  /\ Change /\ mission.state = "active"
        /\ ~authorityConflictsWithForbiddenActions(mission.region, g)
        /\ mission' = row
        /\ past' = past \cup {row}
        /\ UNCHANGED <<admin, results, over, job>>

CloseMission ==
    LET row == [mission EXCEPT !.state = "revoked", !.version = @ + 1]
    IN  /\ Change /\ ~terminal(mission.state)
        /\ mission' = row
        /\ past' = past \cup {row}
        /\ UNCHANGED <<admin, results, over, job>>

PassEnd ==
    /\ Change /\ ~over /\ over' = TRUE
    /\ UNCHANGED <<store, past, job>>

-----------------------------------------------------------------------------
Init ==
    /\ \E b \in Beginnings :
          /\ agent = b.agent /\ contracts = b.contracts
          /\ containments = b.containments /\ bundles = b.bundles
    /\ mission = [state |-> "active", version |-> 1, region |-> Region]
    /\ over = FALSE
    /\ nonces = {} /\ expansions = {} /\ evidence = {}
    /\ past = {mission}
    /\ changes = 0
    /\ job = [p \in Handlers |-> Idle]

Administer(p) ==
    \/ RegisterAgent(p) \/ RevokeAgent(p)
    \/ \E tool \in DOMAIN ContractOf : RegisterToolContract(p, tool)
    \/ \E c \in ContainmentIds : SetContainmentRule(p, c, "none", "active")
    \/ \E c \in ContainmentIds : SetContainmentRule(p, c, "active", "lifted")
    \/ \E b \in BundleIds : CreatePolicyBundle(p, b)
    \/ \E b \in BundleIds : ActivatePolicyBundle(p, b)
    \/ CommitActivation(p)

Ask(p) ==
    \/ \E n \in Nonces, q \in Requests : VerifyAgentRequestSignature(p, n, q)
    \/ SaveAgentNonce(p)
    \/ AuthorizeToolCall(p)
    \/ Evaluate(p)
    \/ CheckContainment(p)
    \/ RecheckContainment(p)
    \/ SaveExpansionRequest(p)
    \/ transition(p)
    \/ GetActivePolicyBundle(p, "policy", Tenant)
    \/ GetActivePolicyBundle(p, "global", Global)
    \/ SaveEvaluationEvidence(p)
    \/ \E ask \in Asks : CreateAuthorityNegotiation(p, ask)
    \/ \E ask \in Asks : Delegate(p, ask)
    \/ SaveDerived(p)

Next ==
    \/ \E p \in Handlers : Administer(p) \/ Ask(p) \/ Fail(p)
    \/ \E g \in Expansions : GrantExpansion(g)
    \/ \E x \in expansions : x.seen = mission.version /\ GrantExpansion(x.region)
    \/ CloseMission
    \/ PassEnd

Spec == Init /\ [][Next]_vars

-----------------------------------------------------------------------------
(* Properties.                                                             *)

\* Every variable has its type, and a handler that has returned keeps nothing.
TypeOK ==
    /\ agent \in {"none", "active", "revoked"}
    /\ nonces \subseteq Nonces /\ contracts \subseteq DOMAIN ContractOf
    /\ mission \in past /\ mission.state \in States /\ mission.version \in Nat
    /\ containments \in [ContainmentIds -> {"none", "active", "lifted"}]
    /\ bundles \in [BundleIds -> {"none", "draft", "active", "archived"}]
    /\ \A x \in expansions : x.seen \in Nat
    /\ evidence \subseteq Answers
    /\ \A p \in Handlers : job[p].pc \in Steps /\ (job[p].pc = "idle" => job[p] = Idle)

\* A signed request is served at most once: nonces of requests that have passed
\* the store's insert, in flight or answered, are all different.
NonceServedOnce ==
    LET Serving == {p \in Handlers : job[p].pc \notin {"idle", "nonce", "activate"}}
        Of(n) == Cardinality({p \in Serving : job[p].nonce = n})
                 + Cardinality({e \in evidence : e.nonce = n})
    IN  \A n \in Nonces : Of(n) <= 1

\* Evidence that permits an action names a version of the mission at which it
\* was active, the action was in its scope and its conditions held, whatever
\* happened between the read of the mission and the answer.
AllowIsGranted ==
    \A e \in evidence : e.decision \in Permitting =>
        /\ \E row \in past :
              /\ row.version = e.version /\ row.state = "active"
              /\ ~forbids(row.region, ActionAsked(e.request))
              /\ \E k \in DOMAIN row.region.resources :
                    LET grant == row.region.resources[k]
                    IN  /\ resourceMatches(grant, ActionAsked(e.request))
                        /\ contains(grant.actions, ActionAsked(e.request).operation)
                        /\ grant.constraints \subseteq e.request.context
        /\ Conditions \subseteq e.request.context
        /\ e.request.seen = 0 \/ e.request.seen >= e.version

\* A request that arrives under a containment rule which is still in force when
\* its answer is ready is not permitted.
ContainedNotAllowed ==
    \A p \in Handlers :
        job[p].pc = "evidence" /\ job[p].decision \in Permitting =>
            \A c \in job[p].banned : containments[c] # "active"

\* Once a bundle of a tenant was activated, exactly one of its bundles is active
\* at any time, however activations overlap and fail.
PolicyInForce ==
    \A tenant \in {Tenant, Global} :
        LET ever == {b \in BundleIds : /\ BundleOf[b].tenant = tenant
                                       /\ bundles[b] \in {"active", "archived"}}
        IN  Cardinality(Active(tenant)) = IF ever = {} THEN 0 ELSE 1

\* Policy only takes away: it permits nothing that evaluation did not, and a
\* request that arrives while a policy is in force is never answered without.
PolicyRestricts ==
    \A e \in evidence :
        /\ e.decision \in Permitting => e.base \in Permitting
        /\ e.policed => e.bundle # None

\* An expansion without constraints takes nothing away from whatever region the
\* mission has come to, and gives nothing that it did not ask for, in any
\* context; what an expansion forbids is not looked at when it is merged.
GrantsJoin ==
    \A g \in Expansions, q \in Requests :
        Unconstrained(g) /\ ~authorityConflictsWithForbiddenActions(mission.region, g) =>
            LET a == ActionAsked(q)
                before == actionInScopeForContext(mission.region, a, q.context)
                merged == mergeAuthority(mission.region, g)
                after == actionInScopeForContext(merged, a, q.context)
            IN  /\ before => after
                /\ after => before \/ actionInScope([g EXCEPT !.forbidden = {}], a)

\* What is delegated permits nothing that the mission does not, and neither does
\* what is offered, apart from the forbidden actions, which an offer that takes
\* up the request as it is does not repeat.  Requests with wildcards, which the
\* code compares literally, are left out, and so are constraints, which it does
\* not compare.
DerivedInScope ==
    \A p \in Handlers :
        LET d == job[p].request
            from == job[p].copy.region
        IN  job[p].pc = "derive" /\ Literal(d.ask) =>
                \A a \in {ActionAsked(q) : q \in Requests} :
                    actionInScope(d.region, a) =>
                        \/ actionInScope(from, a)
                        \/ d.kind = "negotiation" /\ forbids(from, a)
=============================================================================
