-------------------------- MODULE MissionLifecycle --------------------------
(***************************************************************************)
(* The mission authority lifecycle of the service: proposals and their     *)
(* approval, evaluation and resume where they change a mission, delegation *)
(* to child missions, completion and revocation with their cascade, and    *)
(* expansion requests with their decision.                                 *)
(*                                                                         *)
(* Every HTTP request runs in a goroutine of its own and takes no lock of  *)
(* its own: a call of the store is atomic (one mutex section of            *)
(* MemoryStore, one statement or transaction of PostgresStore), a handler  *)
(* is not.  A handler therefore is a small state machine with one step per *)
(* store call, and what it has read it keeps in its job record while the   *)
(* others go on.  The event append that directly follows a write is taken  *)
(* together with it: no handler reads the ledger, so it does not matter to *)
(* any of them when an append lands, only whether it does.                 *)
(*                                                                         *)
(* What a mission row holds is split in two.  missions has the fields some *)
(* operation rewrites; lineage has those set at creation and carried along *)
(* unchanged by every full-row overwrite.  An authority region is the set  *)
(* of actions it permits (module-level detail of regions is not needed     *)
(* here).  Checks that only ever refuse a request without touching the     *)
(* store (actor, containment, forbidden actions, approval rules) appear as *)
(* the step Refuse.  An evaluation that leaves the mission as it is only   *)
(* adds an evidence row, which nothing here reads, and is not a step.      *)
(***************************************************************************)
EXTENDS Integers, FiniteSets

CONSTANTS
    Handlers,         \* requests that may be in flight at the same time
    Refs,             \* mission references newID can draw
    ProposalIds,      \* proposal ids newID can draw
    ExpansionIds,     \* expansion request ids newID can draw
    Actions,          \* actions an authority region can permit
    TermsOf,          \* the terms each proposal asks for
    AskOf,            \* the authority each expansion request asks for
    DelegationTerms,  \* the terms a delegation request may ask for
    SeenAhead,        \* how far past the current version a client may claim to be
    MaxTime,          \* last instant of the clock
    Faults,           \* "call": store calls may fail and handlers may die;
                      \* "append": ledger appends may be lost
    None              \* no reference, no identifier

Terms == [authority : SUBSET Actions, notBefore : Nat, expiresAt : Nat,
          permitted : BOOLEAN, maxDepth : Nat]

ASSUME NoneAssumption ==
    /\ None \notin Refs
    /\ None \notin ProposalIds \cup ExpansionIds
    /\ ProposalIds \cap ExpansionIds = {}

ASSUME TermsAssumption ==
    /\ TermsOf \in [ProposalIds -> Terms]
    /\ AskOf \in [ExpansionIds -> SUBSET Actions]
    /\ DelegationTerms \subseteq Terms

ASSUME BoundsAssumption ==
    /\ SeenAhead \in Nat
    /\ MaxTime \in Nat
    /\ Faults \subseteq {"call", "append"}

VARIABLES
    now,         \* the clock
    proposals,   \* status of every proposal
    missions,    \* what operations rewrite of every mission
    lineage,     \* what is fixed of every mission once it exists
    expansions,  \* every expansion request
    events,      \* the event ledger
    job          \* where each handler is and what it has read

store == <<proposals, missions, lineage, expansions, events>>
vars == <<now, store, job>>

-----------------------------------------------------------------------------
(* States, rows and jobs.                                                  *)

Live == {"active", "suspended"}
Terminal == {"completed", "revoked", "expired"}
States == {"none"} \cup Live \cup Terminal

Rows == [state : States, version : Nat, authority : SUBSET Actions]
NoMission == [state |-> "none", version |-> 0, authority |-> {}]

Lineages == [approval : ProposalIds \cup {None}, parent : Refs \cup {None},
             depth : Nat, permitted : BOOLEAN, maxDepth : Nat,
             notBefore : Nat, expiresAt : Nat]
NoLineage == [approval |-> None, parent |-> None, depth |-> 0,
              permitted |-> FALSE, maxDepth |-> 0,
              notBefore |-> 0, expiresAt |-> 0]

ProposalStatus == {"unused", "pending", "approved"}

Verdicts == {"approved", "denied"}
Requests == [status : {"unused", "pending"} \cup Verdicts,
             ref : Refs \cup {None}, seen : Nat]
NoRequest == [status |-> "unused", ref |-> None, seen |-> 0]

\* A transition is recorded under the name of the state it leads to.
EventTypes == {"proposal_created", "activated", "delegated",
               "expansion_requested", "expansion_approved", "expansion_denied",
               "suspended", "completed", "revoked", "expired"}
Events == [type : EventTypes, ref : Refs \cup {None},
           item : ProposalIds \cup ExpansionIds \cup {None},
           before : Nat, after : Nat]

Frames == [ref : Refs, copy : Rows, level : Nat]

NoTerms == [authority |-> {}, notBefore |-> 0, expiresAt |-> 0,
            permitted |-> FALSE, maxDepth |-> 0]
Steps == {"idle", "approve", "transition", "children", "delegate",
          "expand", "decide", "commit"}
Jobs == [pc : Steps, ref : Refs \cup {None}, copy : Rows,
         goal : States \cup Verdicts, level : Nat, todo : SUBSET Frames,
         item : ProposalIds \cup ExpansionIds \cup {None},
         seen : Nat, terms : Terms]
Idle == [pc |-> "idle", ref |-> None, copy |-> NoMission, goal |-> "none",
         level |-> 0, todo |-> {}, item |-> None, seen |-> 0,
         terms |-> NoTerms]

\* GetMission finds the row.
Exists(r) == missions[r].state # "none"

\* Full-row insert, refused when the reference is taken, and full-row
\* overwrite, whatever the row holds by now.
SaveMission(r, row, line) ==
    /\ ~Exists(r)
    /\ missions' = [missions EXCEPT ![r] = row]
    /\ lineage' = [lineage EXCEPT ![r] = line]
UpdateMission(r, row) == missions' = [missions EXCEPT ![r] = row]

\* A mission is out of its window after its expiry, and also before its start.
expired(r) ==
    \/ lineage[r].notBefore > now
    \/ lineage[r].expiresAt # 0 /\ now > lineage[r].expiresAt

terminal(s) == s \in Terminal

EventOf(t, r, i, b, a) ==
    [type |-> t, ref |-> r, item |-> i, before |-> b, after |-> a]

\* Seeded defect: the entry is made after the version was already advanced.
StateEventLate(s, r, b) == EventOf(s, r, None, b + 1, b + 1)

\* The ledger entry a transition to state s writes.
StateEvent(s, r, b) == EventOf(s, r, None, b, b + 1)

\* Seeded defect: the append is made outside the transaction and may be lost.
AppendedLater(e) == events' = events \cup {e} \/ UNCHANGED events

\* An append that is part of the commit of what it records.
Committed(e) == events' = events \cup {e}

\* An append whose error the handler ignores.
AppendEvent(e) == Committed(e) \/ ("append" \in Faults /\ UNCHANGED events)

Begin(p, j) == /\ job[p] = Idle
               /\ job' = [job EXCEPT ![p] = j]
Finish(p) == job' = [job EXCEPT ![p] = Idle]

-----------------------------------------------------------------------------
(* Proposals.                                                              *)

CreateProposal(q) ==
    /\ proposals[q] = "unused"
    /\ proposals' = [proposals EXCEPT ![q] = "pending"]
    /\ AppendEvent(EventOf("proposal_created", None, q, 0, 0))
    /\ UNCHANGED <<now, missions, lineage, expansions, job>>

\* ApproveProposal up to its read of the proposal.
ApproveProposal(p, q) ==
    /\ proposals[q] = "pending"
    /\ Begin(p, [Idle EXCEPT !.pc = "approve", !.item = q])
    /\ UNCHANGED <<now, store>>

\* CreateProposal replaces a zero max depth by one before it saves.
ProposedDepth(t) == IF t.maxDepth = 0 THEN 1 ELSE t.maxDepth

\* Seeded defect: the read of the handler is trusted.
ProposalWasRead(q) == proposals[q] # "unused"

\* The deletion of the proposal affects a row.
StillProposed(q) == proposals[q] = "pending"

\* The transaction that turns the proposal, if it is still there, into a
\* mission.
CommitProposalApproval(p) ==
    LET q == job[p].item
        t == TermsOf[q]
    IN  /\ job[p].pc = "approve"
        /\ StillProposed(q)
        /\ \E r \in Refs :
              /\ SaveMission(r,
                    [state |-> "active", version |-> 1, authority |-> t.authority],
                    [approval |-> q, parent |-> None, depth |-> 0,
                     permitted |-> t.permitted, maxDepth |-> ProposedDepth(t),
                     notBefore |-> t.notBefore, expiresAt |-> t.expiresAt])
              /\ Committed(EventOf("activated", r, q, 0, 1))
        /\ proposals' = [proposals EXCEPT ![q] = "approved"]
        /\ Finish(p)
        /\ UNCHANGED <<now, expansions>>

-----------------------------------------------------------------------------
(* Transitions: evaluation, resume, completion, revocation.                *)

\* Evaluate and Resume: the mission read is outside its window.
EvaluateExpired(p, r) ==
    /\ Exists(r)
    /\ expired(r)
    /\ ~terminal(missions[r].state)
    /\ Begin(p, [Idle EXCEPT !.pc = "transition", !.ref = r,
                             !.copy = missions[r], !.goal = "expired"])
    /\ UNCHANGED <<now, store>>

\* Evaluate: a condition fails whose on_failure suspends the mission.
EvaluateConditionFailed(p, r) ==
    /\ missions[r].state = "active"
    /\ ~expired(r)
    /\ Begin(p, [Idle EXCEPT !.pc = "transition", !.ref = r,
                             !.copy = missions[r], !.goal = "suspended"])
    /\ UNCHANGED <<now, store>>

\* Revoke and Complete up to their read of the mission.  A mission read in a
\* terminal state is not written again, its children are still visited.
ChangeState(p, r, goal) ==
    /\ Exists(r)
    /\ \/ /\ ~terminal(missions[r].state)
          /\ Begin(p, [Idle EXCEPT !.pc = "transition", !.ref = r,
                                   !.copy = missions[r], !.goal = goal])
       \/ /\ terminal(missions[r].state)
          /\ Begin(p, [Idle EXCEPT !.pc = "children", !.ref = r, !.goal = goal])
    /\ UNCHANGED <<now, store>>

Revoke(p, r) == ChangeState(p, r, "revoked")
Complete(p, r) == ChangeState(p, r, "completed")

\* Seeded defects: the version is not advanced, it goes back, or a suspended
\* mission comes back active.
TransitionSameVersion(c, goal) ==
    [state |-> goal, version |-> c.version, authority |-> c.authority]
TransitionVersionBack(c, goal) ==
    [state |-> goal, version |-> c.version - 1, authority |-> c.authority]
TransitionResumes(c, goal) ==
    [state |-> IF c.state = "suspended" THEN "active" ELSE goal,
     version |-> c.version + 1, authority |-> c.authority]

\* The row transition writes: the copy the handler holds, in its new state
\* and with the next version of the copy.
TransitionRow(c, goal) ==
    [state |-> goal, version |-> c.version + 1, authority |-> c.authority]

\* The states whose transition is a transitionCascade.
Cascades(goal) == goal \in {"completed", "revoked"}

\* transition, and what transitionCascade does next.
transition(p) ==
    LET j == job[p]
    IN  /\ j.pc = "transition"
        /\ UpdateMission(j.ref, TransitionRow(j.copy, j.goal))
        /\ AppendEvent(StateEvent(j.goal, j.ref, j.copy.version))
        /\ IF Cascades(j.goal)
           THEN job' = [job EXCEPT ![p].pc = "children", ![p].copy = NoMission]
           ELSE Finish(p)
        /\ UNCHANGED <<now, proposals, lineage, expansions>>

\* Seeded defect: the mission visited stays on the list.
ProceedAgain(p, todo) ==
    \/ /\ todo = {}
       /\ Finish(p)
    \/ \E f \in todo :
          job' = [job EXCEPT ![p] =
            [Idle EXCEPT !.pc = "transition", !.ref = f.ref, !.copy = f.copy,
                         !.goal = "revoked", !.level = f.level, !.todo = todo]]

\* The recursion goes on with one of the deepest missions left, or returns.
Proceed(p, todo) ==
    \/ /\ todo = {}
       /\ Finish(p)
    \/ \E f \in todo :
          /\ \A g \in todo : g.level <= f.level
          /\ job' = [job EXCEPT ![p] =
                [Idle EXCEPT !.pc = "transition", !.ref = f.ref,
                             !.copy = f.copy, !.goal = "revoked",
                             !.level = f.level, !.todo = todo \ {f}]]

ChildrenOf(r) == {c \in Refs : lineage[c].parent = r}

\* Seeded defect: suspended children are left alone.
ActiveChildren(r) == {c \in ChildrenOf(r) : missions[c].state = "active"}

\* The children transitionCascade visits.
LiveChildren(r) == {c \in ChildrenOf(r) : missions[c].state \in Live}

cascade(p) ==
    LET j == job[p]
        children == {[ref |-> c, copy |-> missions[c], level |-> j.level + 1] :
                        c \in LiveChildren(j.ref)}
    IN  /\ j.pc = "children"
        /\ Proceed(p, j.todo \cup children)
        /\ UNCHANGED <<now, store>>

\* The error of a child's transitionCascade is ignored: its siblings go on.
CascadeChildFails(p) ==
    /\ "call" \in Faults
    /\ job[p].pc \in {"transition", "children"}
    /\ job[p].level > 0
    /\ Proceed(p, job[p].todo)
    /\ UNCHANGED <<now, store>>

-----------------------------------------------------------------------------
(* Delegation.                                                             *)

\* The expiry of a child: what is asked for, or the parent's.
ChildExpiry(r, d) ==
    IF d.expiresAt = 0 THEN lineage[r].expiresAt ELSE d.expiresAt

\* Seeded defects: no check of the authority asked for, none of the expiry.
MayDelegateAnything(r, d) ==
    /\ missions[r].state = "active"
    /\ lineage[r].permitted
    /\ lineage[r].maxDepth > 0 => lineage[r].depth < lineage[r].maxDepth
    /\ lineage[r].expiresAt # 0 => ChildExpiry(r, d) <= lineage[r].expiresAt
MayDelegateForLonger(r, d) ==
    /\ missions[r].state = "active"
    /\ lineage[r].permitted
    /\ lineage[r].maxDepth > 0 => lineage[r].depth < lineage[r].maxDepth
    /\ d.authority \subseteq missions[r].authority

\* What Delegate demands of the parent it has read, whether or not that is
\* still inside its window.
MayDelegate(r, d) ==
    /\ missions[r].state = "active"
    /\ lineage[r].permitted
    /\ lineage[r].maxDepth > 0 => lineage[r].depth < lineage[r].maxDepth
    /\ d.authority \subseteq missions[r].authority
    /\ lineage[r].expiresAt # 0 => ChildExpiry(r, d) <= lineage[r].expiresAt

\* Delegate up to its last check of the parent it has read.
Delegate(p, r, d) ==
    /\ MayDelegate(r, d)
    /\ Begin(p, [Idle EXCEPT !.pc = "delegate", !.ref = r, !.terms = d])
    /\ UNCHANGED <<now, store>>

\* SaveMission of the child.  The approval is the parent's, the child's own
\* delegation terms come from the request.
SaveChild(p) ==
    LET r == job[p].ref
        d == job[p].terms
    IN  /\ job[p].pc = "delegate"
        /\ \E c \in Refs :
              /\ SaveMission(c,
                    [state |-> "active", version |-> 1, authority |-> d.authority],
                    [approval |-> lineage[r].approval, parent |-> r,
                     depth |-> lineage[r].depth + 1,
                     permitted |-> d.permitted, maxDepth |-> d.maxDepth,
                     notBefore |-> now, expiresAt |-> ChildExpiry(r, d)])
              /\ AppendEvent(EventOf("delegated", c, None, 0, 1))
        /\ Finish(p)
        /\ UNCHANGED <<now, proposals, expansions>>

-----------------------------------------------------------------------------
(* Expansion requests.                                                     *)

\* CreateExpansionRequest, and Evaluate for a risky action out of scope, up to
\* the last check of the mission read.  A claimed version may not be older
\* than the one read; a missing one is replaced by it.
CreateExpansionRequest(p, r, ahead) ==
    /\ missions[r].state = "active"
    /\ Begin(p, [Idle EXCEPT !.pc = "expand", !.ref = r,
                             !.copy = missions[r],
                             !.seen = missions[r].version + ahead])
    /\ UNCHANGED <<now, store>>

SaveExpansionRequest(p) ==
    LET j == job[p]
    IN  /\ j.pc = "expand"
        /\ \E x \in ExpansionIds :
              /\ expansions[x].status = "unused"
              /\ expansions' = [expansions EXCEPT ![x] =
                    [status |-> "pending", ref |-> j.ref, seen |-> j.seen]]
              /\ AppendEvent(EventOf("expansion_requested", j.ref, x,
                                     j.copy.version, j.copy.version))
        /\ Finish(p)
        /\ UNCHANGED <<now, proposals, missions, lineage>>

\* decideExpansionRequest up to its read of the expansion request.
DecideExpansionRequest(p, x, verdict) ==
    /\ expansions[x].status = "pending"
    /\ Begin(p, [Idle EXCEPT !.pc = "decide", !.item = x, !.goal = verdict])
    /\ UNCHANGED <<now, store>>

\* What an approval demands of the mission it has read.
MayGrant(x, m) == m.state = "active" /\ expansions[x].seen = m.version

\* decideExpansionRequest reads the mission and checks it against the request.
ReadMissionToDecide(p) ==
    LET j == job[p]
        r == expansions[j.item].ref
    IN  /\ j.pc = "decide"
        /\ j.goal = "approved" => MayGrant(j.item, missions[r])
        /\ job' = [job EXCEPT ![p].pc = "commit", ![p].ref = r,
                              ![p].copy = missions[r]]
        /\ UNCHANGED <<now, store>>

\* The row an approval writes: the copy read, with the authority asked for.
GrantRow(c, x) ==
    [state |-> c.state, version |-> c.version + 1,
     authority |-> c.authority \cup AskOf[x]]

\* Seeded defect: the status of the request is not compared.
VersionUnchanged(j) ==
    j.goal = "approved" => missions[j.ref].version = j.copy.version

\* What the transaction compares with the store before it writes.
Unchanged(j) ==
    /\ expansions[j.item].status = "pending"
    /\ j.goal = "approved" => missions[j.ref].version = j.copy.version

CommitExpansionDecision(p) ==
    LET j == job[p]
        v == j.copy.version
    IN  /\ j.pc = "commit"
        /\ Unchanged(j)
        /\ expansions' = [expansions EXCEPT ![j.item].status = j.goal]
        /\ \/ /\ j.goal = "approved"
              /\ missions' = [missions EXCEPT ![j.ref] = GrantRow(j.copy, j.item)]
              /\ Committed(EventOf("expansion_approved", j.ref, j.item, v, v + 1))
           \/ /\ j.goal = "denied"
              /\ missions' = missions
              /\ Committed(EventOf("expansion_denied", j.ref, j.item, v, v))
        /\ Finish(p)
        /\ UNCHANGED <<now, proposals, lineage>>

-----------------------------------------------------------------------------
(* Refusals, failures, the clock.                                          *)

\* A handler returns an error before it writes: the proposal is gone, the
\* mission changed, a conflict, a containment rule, a cancelled request.
Refuse(p) ==
    /\ job[p].pc \in {"approve", "delegate", "expand", "decide", "commit"}
    /\ Finish(p)
    /\ UNCHANGED <<now, store>>

\* A store call fails in the mission the request names, or the process dies.
Fail(p) ==
    /\ "call" \in Faults
    /\ job[p].pc \in {"transition", "children"}
    /\ Finish(p)
    /\ UNCHANGED <<now, store>>

Tick ==
    /\ now < MaxTime
    /\ now' = now + 1
    /\ UNCHANGED <<store, job>>

-----------------------------------------------------------------------------
Init ==
    /\ now = 0
    /\ proposals = [q \in ProposalIds |-> "unused"]
    /\ missions = [r \in Refs |-> NoMission]
    /\ lineage = [r \in Refs |-> NoLineage]
    /\ expansions = [x \in ExpansionIds |-> NoRequest]
    /\ events = {}
    /\ job = [p \in Handlers |-> Idle]

\* A request arrives and its handler makes its first read.
Arrive(p) ==
    \/ \E q \in ProposalIds : ApproveProposal(p, q)
    \/ \E r \in Refs :
          \/ EvaluateExpired(p, r)
          \/ EvaluateConditionFailed(p, r)
          \/ Revoke(p, r)
          \/ Complete(p, r)
          \/ \E d \in DelegationTerms : Delegate(p, r, d)
          \/ \E ahead \in 0..SeenAhead : CreateExpansionRequest(p, r, ahead)
    \/ \E x \in ExpansionIds, verdict \in Verdicts :
          DecideExpansionRequest(p, x, verdict)

\* The handler of a request that has arrived makes its next store call.
Continue(p) ==
    \/ CommitProposalApproval(p)
    \/ transition(p)
    \/ cascade(p)
    \/ SaveChild(p)
    \/ SaveExpansionRequest(p)
    \/ ReadMissionToDecide(p)
    \/ CommitExpansionDecision(p)
    \/ Refuse(p)

Next ==
    \/ \E q \in ProposalIds : CreateProposal(q)
    \/ \E p \in Handlers : Arrive(p) \/ Continue(p)
                           \/ CascadeChildFails(p) \/ Fail(p)
    \/ Tick

Spec == Init /\ [][Next]_vars

\* A handler that has arrived runs on: net/http leaves its goroutine to the Go
\* scheduler, and every store call returns.  No request has to arrive.
FairSpec == Spec /\ \A p \in Handlers : WF_vars(Continue(p))

-----------------------------------------------------------------------------
(* Properties of any number of overlapping handlers.                       *)

\* Every row, request, event and job has its type.
TypeOK ==
    /\ now \in 0..MaxTime
    /\ proposals \in [ProposalIds -> ProposalStatus]
    /\ missions \in [Refs -> Rows]
    /\ lineage \in [Refs -> Lineages]
    /\ expansions \in [ExpansionIds -> Requests]
    /\ events \subseteq Events
    /\ job \in [Handlers -> Jobs]

\* However many approvals of a proposal run at once, the transaction of
\* CommitProposalApproval lets exactly one of them create a mission.
ProposalActivatesOnce ==
    \A q \in ProposalIds :
        LET made == {r \in Refs : lineage[r].approval = q /\ lineage[r].parent = None}
        IN  /\ proposals[q] = "approved" <=> made # {}
            /\ \A r1, r2 \in made : r1 = r2

\* What people have approved for the mission tree r belongs to: the terms of
\* the proposal at its root and every expansion approved within it.
Approved(r) ==
    TermsOf[lineage[r].approval].authority \cup
    UNION {AskOf[x] : x \in {y \in ExpansionIds :
              /\ expansions[y].status = "approved"
              /\ lineage[expansions[y].ref].approval = lineage[r].approval}}

\* No interleaving of delegation, expansion and stale writes gives a mission
\* an action that nobody approved for its tree.
AuthorityHasApproval ==
    \A r \in Refs : Exists(r) => missions[r].authority \subseteq Approved(r)

\* A child mission lives inside its parent: one level deeper, within the depth
\* the parent allows, and over no later than the parent.
DelegationNested ==
    \A c \in Refs : lineage[c].parent # None =>
        LET u == lineage[lineage[c].parent]
        IN  /\ u.permitted
            /\ lineage[c].depth = u.depth + 1
            /\ u.maxDepth > 0 => lineage[c].depth <= u.maxDepth
            /\ u.expiresAt # 0 => lineage[c].expiresAt \in 1..u.expiresAt

\* The stored state of a mission is the one its ledger entry for the stored
\* version tells, even when writes of overlapping handlers are lost.
LedgerExplainsRow ==
    \A r \in Refs : Exists(r) =>
        \E e \in events :
            /\ e.ref = r
            /\ e.before = missions[r].version - 1
            /\ e.after = missions[r].version
            /\ IF missions[r].state = "active"
               THEN e.type \in {"activated", "delegated", "expansion_approved"}
               ELSE e.type = missions[r].state

\* Each approved proposal and each decided expansion has one ledger entry, of
\* the right kind, whatever appends are lost elsewhere.
DecisionsLedgered ==
    /\ \A q \in ProposalIds :
          Cardinality({e \in events : e.type = "activated" /\ e.item = q})
             = (IF proposals[q] = "approved" THEN 1 ELSE 0)
    /\ \A x \in ExpansionIds :
          LET decided == {e \in events : e.item = x /\ e.type \in
                             {"expansion_approved", "expansion_denied"}}
          IN  /\ Cardinality(decided) =
                    (IF expansions[x].status \in Verdicts THEN 1 ELSE 0)
              /\ \A e \in decided : e.type = "expansion_approved"
                                    <=> expansions[x].status = "approved"

\* An expansion request is decided once, and an approval is granted at exactly
\* the mission version its requester saw.
DecidesOnceAtVersionSeen ==
    [][\A x \in ExpansionIds :
         LET e == expansions[x]
         IN  /\ e.status \in Verdicts => expansions'[x] = e
             /\ (e.status # "approved" /\ expansions'[x].status = "approved") =>
                   /\ e.status = "pending"
                   /\ missions[e.ref].version = e.seen
                   /\ missions'[e.ref].version = e.seen + 1
                   /\ AskOf[x] \subseteq missions'[e.ref].authority]_vars

\* A lost update may swap one inactive state for another, but only a granted
\* expansion can make a mission that was inactive active again.
OnlyGrantReactivates ==
    [][\A r \in Refs :
         (missions[r].state \notin {"none", "active"} /\ missions'[r].state = "active")
            => \E x \in ExpansionIds : /\ expansions[x].ref = r
                                       /\ expansions[x].status = "pending"
                                       /\ expansions'[x].status = "approved"]_vars

\* A handler that was interrupted by nothing but other handlers returns, even
\* when delegations keep growing the tree its cascade walks.
RequestsReturn ==
    \A p \in Handlers : job[p] # Idle ~> job[p] = Idle

-----------------------------------------------------------------------------
(* Properties of handlers that do not overlap and do not fail.             *)

Contract == INSTANCE MissionContract

\* Without overlap every write is one step of the contract of a mission:
\* terminal states are final, versions count changes, grants need an active
\* mission.
ImplementsContract == Contract!Spec

\* The missions above c: those in every set that has the parent of c and the
\* parents of its own members.
Ancestors(c) ==
    {a \in Refs : \A S \in SUBSET Refs :
        (\A b \in S \cup {c} : lineage[b].parent \in S \cup {None}) => a \in S}

\* Once completion or revocation of a mission has returned, no mission below it
\* can be used: it is inactive too, or outside its window, even where the
\* cascade did not descend because a mission in between had expired.
RevokedSubtreeUnusable ==
    (\A p \in Handlers : job[p] = Idle) =>
        \A c \in Refs :
            (\E a \in Ancestors(c) : missions[a].state \in {"completed", "revoked"})
                => missions[c].state \notin Live \/ expired(c)

\* The ledger tells the whole history of a mission: one entry per version.
LedgerIsChain ==
    \A r \in Refs : \A v \in 1..missions[r].version :
        Cardinality({e \in events : e.ref = r /\ e.before = v - 1 /\ e.after = v}) = 1

-----------------------------------------------------------------------------
(* A statement of the repository that does not hold.                       *)

\* "expected deny after completion": a closed mission is never active again.
ClosedNeverActive ==
    [][\A r \in Refs : missions[r].state \in {"completed", "revoked"}
                           => missions'[r].state # "active"]_vars
=============================================================================
