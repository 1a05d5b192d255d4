-------------------------- MODULE ExpansionApproval --------------------------
(***************************************************************************)
(* Approval rules and the decision of expansion requests: an approver      *)
(* submits an approval that counts towards the quorum of a rule, approves  *)
(* directly where no rule applies, or denies; meanwhile administrators     *)
(* create approval rules and create and lift containment rules.            *)
(*                                                                         *)
(* The requests are pending ones of one mission, made at its version 1.    *)
(* As in MissionLifecycle, a handler has one step per store call.  A       *)
(* handler that writes what it wants to write in one call (the creation of *)
(* a rule, the lift of a containment rule, which is idempotent) is one     *)
(* step.  Reads whose result is not used (the mission a submission reads   *)
(* before its containment check) are left out, and so is the ledger.       *)
(***************************************************************************)
EXTENDS Integers, FiniteSetsExt, Sequences, SequencesExt

CONSTANTS
    Handlers,        \* requests that may be in flight at the same time
    ExpansionIds,    \* the pending expansion requests
    Approvers,       \* administrators, told apart by subject and issuer
    RuleIds,         \* approval rules, numbered in the order they are listed
    RuleOf,          \* what each rule matches, asks for and permits
    ContainmentIds,  \* containment rules that match the mission
    None             \* no rule, no request

ApprovalRules == [matches : SUBSET ExpansionIds, required : Nat \ {0},
                  allowed : SUBSET Approvers]

ASSUME ApprovalAssumption ==
    /\ RuleIds \subseteq Nat
    /\ RuleOf \in [RuleIds -> ApprovalRules]
    /\ None \notin RuleIds \cup ExpansionIds \cup Approvers

VARIABLES
    mission,       \* state and version of the mission
    expansions,    \* status and approver of every request
    rules,         \* the approval rules that exist
    records,       \* the approval submissions for every request, in order
    containments,  \* status of every containment rule
    basis,         \* what the approval of a request rested on (history)
    cut,           \* requests a submission for which was cut short (history)
    job            \* where each handler is and what it has read

store == <<mission, expansions, rules, records, containments>>
history == <<basis, cut>>
vars == <<store, history, job>>

-----------------------------------------------------------------------------
(* Rows and jobs.                                                          *)

Missions == [state : {"active", "closed"}, version : Nat]
Requests == [status : {"pending", "approved", "denied"},
             approver : Approvers \cup {None}]
Records == [approver : Approvers, rule : RuleIds \cup {None}]
Bases == [rule : RuleIds \cup {None}, known : SUBSET RuleIds]

Kinds == {"none", "submission", "approval", "denial"}
Steps == {"idle", "guard", "match", "record", "count", "reread",
          "mission", "contain", "commit"}
Jobs == [pc : Steps, kind : Kinds, item : ExpansionIds \cup {None},
         approver : Approvers \cup {None}, rule : RuleIds \cup {None},
         known : SUBSET RuleIds, banned : SUBSET ContainmentIds, version : Nat]
Idle == [pc |-> "idle", kind |-> "none", item |-> None, approver |-> None,
         rule |-> None, known |-> {}, banned |-> {}, version |-> 0]

\* The containment rules in force.
InForce == {c \in ContainmentIds : containments[c] = "active"}

\* A request for the pending expansion x arrives.  The rules known and the
\* containment in force at this moment are kept as history.
Begin(p, kind, x, a, pc) ==
    /\ job[p] = Idle
    /\ expansions[x].status = "pending"
    /\ job' = [job EXCEPT ![p] = [Idle EXCEPT !.pc = pc, !.kind = kind,
                 !.item = x, !.approver = a,
                 !.known = rules, !.banned = InForce]]
    /\ UNCHANGED <<store, history>>

\* The handler goes on with step pc if it may, and returns an error if not.
Step(p, may, pc) ==
    \/ may /\ job' = [job EXCEPT ![p].pc = pc]
    \/ ~may /\ job' = [job EXCEPT ![p] = Idle]

-----------------------------------------------------------------------------
(* Administration of rules.                                                *)

\* CreateApprovalRule.  Rules are never changed or removed.
CreateApprovalRule(p, r) ==
    /\ job[p] = Idle
    /\ r \notin rules
    /\ rules' = rules \cup {r}
    /\ UNCHANGED <<mission, expansions, records, containments, history, job>>

CreateContainmentRule(p, c) ==
    /\ job[p] = Idle
    /\ containments[c] = "none"
    /\ containments' = [containments EXCEPT ![c] = "active"]
    /\ UNCHANGED <<mission, expansions, rules, records, history, job>>

LiftContainmentRule(p, c) ==
    /\ job[p] = Idle
    /\ containments[c] = "active"
    /\ containments' = [containments EXCEPT ![c] = "lifted"]
    /\ UNCHANGED <<mission, expansions, rules, records, history, job>>

\* Seeded defect: the guard lets everything pass.
NeverContained == FALSE

\* The guard finds an active containment rule that matches.
Contained == InForce # {}

\* The lifecycle completes, revokes, suspends or expires the mission.
CloseMission(p) ==
    /\ job[p] = Idle
    /\ mission.state = "active"
    /\ mission' = [state |-> "closed", version |-> mission.version + 1]
    /\ UNCHANGED <<expansions, rules, records, containments, history, job>>

-----------------------------------------------------------------------------
(* Submissions.                                                            *)

\* SubmitExpansionApproval reads the request.
SubmitExpansionApproval(p, x, a) == Begin(p, "submission", x, a, "guard")

\* It asks the containment guard before anything is stored.
GuardSubmission(p) ==
    /\ job[p].pc = "guard"
    /\ Step(p, ~Contained, "match")
    /\ UNCHANGED <<store, history>>

\* The first rule listed that matches the request.
matchingApprovalRule(x) ==
    LET matching == {r \in rules : x \in RuleOf[r].matches}
    IN  IF matching = {} THEN None ELSE Min(matching)

approverAllowed(r, a) == r # None => a \in RuleOf[r].allowed

\* Seeded defect: a direct approval does not ask for rules.
RuleLetsThroughAnyApproval(j, r) == approverAllowed(r, j.approver)

\* A rule admits the submissions of its approvers and no direct approval.
RuleLetsThrough(j, r) ==
    IF j.kind = "submission" THEN approverAllowed(r, j.approver) ELSE r = None

\* Submission and direct approval list the approval rules.
MatchRule(p) ==
    LET j == job[p]
        r == matchingApprovalRule(j.item)
        next == IF j.kind = "submission" THEN "record" ELSE "mission"
    IN  /\ j.pc = "match"
        /\ \/ /\ RuleLetsThrough(j, r)
              /\ job' = [job EXCEPT ![p].pc = next, ![p].rule = r]
           \/ /\ ~RuleLetsThrough(j, r)
              /\ job' = [job EXCEPT ![p] = Idle]
        /\ UNCHANGED <<store, history>>

\* Seeded defect: an approver may submit again.
SubmittedNever(x, a) == FALSE

\* The approver has a record for the request.
Submitted(x, a) == \E i \in DOMAIN records[x] : records[x][i].approver = a

\* Once the record is saved it stays, whatever becomes of the decision.
SaveApprovalRecord(p) ==
    LET j == job[p]
    IN  /\ j.pc = "record"
        /\ Step(p, ~Submitted(j.item, j.approver), "count")
        /\ records' = IF Submitted(j.item, j.approver) THEN records
                      ELSE [records EXCEPT ![j.item] =
                              Append(@, [approver |-> j.approver, rule |-> j.rule])]
        /\ UNCHANGED <<mission, expansions, rules, containments, history>>

required(r) == IF r = None THEN 1 ELSE RuleOf[r].required

\* Seeded defect: the submission at hand is not counted.
QuorumWithoutOwn(j) == Len(records[j.item]) > required(j.rule)

\* The submissions received so far, whoever made them and under whatever rule.
QuorumReceived(j) == Len(records[j.item]) >= required(j.rule)

CountApprovals(p) ==
    /\ job[p].pc = "count"
    /\ Step(p, QuorumReceived(job[p]), "reread")
    /\ UNCHANGED <<store, history>>

-----------------------------------------------------------------------------
(* Decisions.                                                              *)

\* ApproveExpansionRequest and DenyExpansionRequest read the request.
ApproveExpansionRequest(p, x, a) == Begin(p, "approval", x, a, "match")
DenyExpansionRequest(p, x, a) == Begin(p, "denial", x, a, "mission")

\* A submission that completes the quorum reads the request again.
RereadExpansion(p) ==
    /\ job[p].pc = "reread"
    /\ Step(p, expansions[job[p].item].status = "pending", "mission")
    /\ UNCHANGED <<store, history>>

\* An approval needs an active mission at the version of the request.
MayGrant(j) == j.kind # "denial" => mission = [state |-> "active", version |-> 1]

ReadMissionToDecide(p) ==
    LET j == job[p]
        next == IF j.kind = "denial" THEN "commit" ELSE "contain"
    IN  /\ j.pc = "mission"
        /\ \/ /\ MayGrant(j)
              /\ job' = [job EXCEPT ![p].pc = next, ![p].version = mission.version]
           \/ /\ ~MayGrant(j)
              /\ job' = [job EXCEPT ![p] = Idle]
        /\ UNCHANGED <<store, history>>

\* ensureExpansionApprovalNotContained
GuardDecision(p) ==
    /\ job[p].pc = "contain"
    /\ Step(p, ~Contained, "commit")
    /\ UNCHANGED <<store, history>>

\* What the transaction compares with the store before it writes.
Unchanged(j) ==
    /\ expansions[j.item].status = "pending"
    /\ j.kind # "denial" => mission.version = j.version

\* Seeded defect: the name of the request is stored as the status.
VerdictAsKind(j) == j.kind

Verdict(j) == IF j.kind = "denial" THEN "denied" ELSE "approved"

CommitExpansionDecision(p) ==
    LET j == job[p]
    IN  /\ j.pc = "commit"
        /\ \/ /\ Unchanged(j)
              /\ expansions' = [expansions EXCEPT ![j.item] =
                    [status |-> Verdict(j), approver |-> j.approver]]
              /\ basis' = [basis EXCEPT ![j.item] =
                    [rule |-> j.rule, known |-> j.known]]
              /\ mission' = IF j.kind = "denial" THEN mission
                            ELSE [state |-> "active", version |-> j.version + 1]
           \/ ~Unchanged(j) /\ UNCHANGED <<expansions, basis, mission>>
        /\ job' = [job EXCEPT ![p] = Idle]
        /\ UNCHANGED <<rules, records, containments, cut>>

\* A store call fails, or the process dies.
Fail(p) ==
    /\ job[p] # Idle
    /\ job' = [job EXCEPT ![p] = Idle]
    /\ cut' = cut \cup {x \in {job[p].item} : job[p].kind = "submission"}
    /\ UNCHANGED <<store, basis>>

-----------------------------------------------------------------------------
Init ==
    /\ mission = [state |-> "active", version |-> 1]
    /\ expansions = [x \in ExpansionIds |-> [status |-> "pending", approver |-> None]]
    /\ rules = {}
    /\ records = [x \in ExpansionIds |-> << >>]
    /\ containments = [c \in ContainmentIds |-> "none"]
    /\ basis = [x \in ExpansionIds |-> [rule |-> None, known |-> {}]]
    /\ cut = {}
    /\ job = [p \in Handlers |-> Idle]

Administer(p) ==
    \/ \E r \in RuleIds : CreateApprovalRule(p, r)
    \/ \E c \in ContainmentIds :
          CreateContainmentRule(p, c) \/ LiftContainmentRule(p, c)
    \/ CloseMission(p)

Arrive(p) ==
    \E x \in ExpansionIds, a \in Approvers :
        \/ SubmitExpansionApproval(p, x, a)
        \/ ApproveExpansionRequest(p, x, a)
        \/ DenyExpansionRequest(p, x, a)

Continue(p) ==
    \/ GuardSubmission(p)
    \/ MatchRule(p)
    \/ SaveApprovalRecord(p)
    \/ CountApprovals(p)
    \/ RereadExpansion(p)
    \/ ReadMissionToDecide(p)
    \/ GuardDecision(p)
    \/ CommitExpansionDecision(p)

Next == \E p \in Handlers :
            Administer(p) \/ Arrive(p) \/ Continue(p) \/ Fail(p)

Spec == Init /\ [][Next]_vars

\* A handler that has arrived runs on; nothing has to arrive.
FairSpec == Spec /\ \A p \in Handlers : WF_vars(Continue(p))

-----------------------------------------------------------------------------
(* Properties of any number of overlapping handlers.                       *)

\* Every row and job has its type.
TypeOK ==
    /\ mission \in Missions
    /\ expansions \in [ExpansionIds -> Requests]
    /\ rules \subseteq RuleIds
    /\ records \in [ExpansionIds -> Seq(Records)]
    /\ containments \in [ContainmentIds -> {"none", "active", "lifted"}]
    /\ basis \in [ExpansionIds -> Bases]
    /\ cut \subseteq ExpansionIds
    /\ job \in [Handlers -> Jobs]

\* The different approvers who submitted for x.
Submitters(x) == {rec.approver : rec \in ToSet(records[x])}

\* A rule that was in place when the deciding request arrived cannot be passed
\* by, by a direct approval or a race, and the rule the decision went by had
\* its number of different approvers, the last of them one it permits.
QuorumBehindApproval ==
    \A x \in ExpansionIds : expansions[x].status = "approved" =>
        LET b == basis[x]
        IN  /\ (\E r \in b.known : x \in RuleOf[r].matches) => b.rule # None
            /\ b.rule # None =>
                  /\ Cardinality(Submitters(x)) >= RuleOf[b.rule].required
                  /\ expansions[x].approver \in RuleOf[b.rule].allowed

\* Approvals that arrive at the same time do not each wait for the other: when
\* the submissions fill the quorum of the rule the last of them went by, the
\* request is decided, unless the mission has moved on, an administrator
\* stepped in with a containment rule, or a submission was cut short.
QuorumDecides ==
    \A x \in ExpansionIds :
        (/\ records[x] # << >>
         /\ Len(records[x]) >= required(Last(records[x]).rule))
           ~> \/ expansions[x].status # "pending"
              \/ mission.version # 1
              \/ \E c \in ContainmentIds : containments[c] # "none"
              \/ x \in cut

\* A request that arrives under a containment rule neither approves nor leaves
\* a submission behind while that rule is in force, however long it is on its
\* way and whichever of the guards it meets.
ContainmentStops ==
    [][\A p \in Handlers, x \in ExpansionIds :
         (/\ job[p].item = x /\ job'[p] # job[p]
          /\ \/ records'[x] # records[x]
             \/ expansions[x].status # "approved" /\ expansions'[x].status = "approved")
            => job[p].banned \cap InForce = {}]_vars

-----------------------------------------------------------------------------
(* A statement of the repository that does not hold.                       *)

\* "Require multiple approvers for a sensitive expansion": the approvers a rule
\* permits are the ones that make up its quorum.
QuorumIsPermitted ==
    \A x \in ExpansionIds :
        (expansions[x].status = "approved" /\ basis[x].rule # None) =>
            LET r == RuleOf[basis[x].rule]
            IN  Cardinality(Submitters(x) \cap r.allowed) >= r.required
=============================================================================
