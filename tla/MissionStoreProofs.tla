------------------------- MODULE MissionStoreProofs -------------------------
(***************************************************************************)
(* Proofs about what overlapping handlers leave in the store: missions and *)
(* the proposals they come from, children and their parents, the ledger.   *)
(***************************************************************************)
EXTENDS MissionLifecycleProofs, FiniteSetTheorems

USE DEF Exists, SaveMission, UpdateMission

\* An unused row has no lineage, and a parent is a mission.
Rooted ==
    \A r \in Refs :
        /\ ~Exists(r) => lineage[r] = NoLineage
        /\ lineage[r].parent # None => /\ lineage[r].parent \in Refs
                                       /\ Exists(lineage[r].parent)

\* What Delegate found stays true until the child is saved: the lineage of the
\* parent is fixed.
DelegationsChecked ==
    \A p \in Handlers : job[p].pc = "delegate" =>
        LET u == lineage[job[p].ref]
        IN  /\ u.permitted
            /\ u.maxDepth > 0 => u.depth < u.maxDepth
            /\ u.expiresAt # 0 => ChildExpiry(job[p].ref, job[p].terms) <= u.expiresAt

Tree == Rooted /\ DelegationsChecked /\ DelegationNested /\ ProposalActivatesOnce

-----------------------------------------------------------------------------
(* The shapes a step has.                                                  *)

\* A step of another handler leaves the job of h alone.
LEMMA JobStep ==
  ASSUME TypeOK, [Next]_vars, NEW h \in Handlers, job'[h] # job[h]
  PROVE  Arrive(h) \/ Continue(h) \/ CascadeChildFails(h) \/ Fail(h)
<1>1. PICK p \in Handlers : Arrive(p) \/ Continue(p) \/ CascadeChildFails(p) \/ Fail(p)
  BY DEF Next, CreateProposal, Tick, vars
<1>2. \E j : job' = [job EXCEPT ![p] = j]
  BY <1>1 DEF Arrive, ApproveProposal, EvaluateExpired, EvaluateConditionFailed,
         Revoke, Complete, ChangeState, Delegate, CreateExpansionRequest,
         DecideExpansionRequest, Begin, Continue, CommitProposalApproval, transition,
         cascade, SaveChild, SaveExpansionRequest, ReadMissionToDecide,
         CommitExpansionDecision, Refuse, Finish, Proceed, CascadeChildFails, Fail
<1>3. h = p
  BY <1>2 DEF TypeOK
<1> QED BY <1>1, <1>3

\* The three kinds of step, by what they do to missions.
LEMMA StoreStep ==
  ASSUME TypeOK, [Next]_vars
  PROVE  \/ UNCHANGED <<missions, lineage>> /\ \/ UNCHANGED proposals
                                               \/ \E q \in ProposalIds : CreateProposal(q)
         \/ \E p \in Handlers : \/ CommitProposalApproval(p) \/ SaveChild(p)
                                \/ transition(p) \/ CommitExpansionDecision(p)
<1>1. CASE UNCHANGED vars \/ Tick
  BY <1>1 DEF vars, store, Tick
<1>2. CASE \E q \in ProposalIds : CreateProposal(q)
  BY <1>2 DEF CreateProposal
<1>3. CASE \E p \in Handlers : Arrive(p) \/ Continue(p) \/ CascadeChildFails(p) \/ Fail(p)
  <2>1. PICK p \in Handlers : Arrive(p) \/ Continue(p) \/ CascadeChildFails(p) \/ Fail(p)
    BY <1>3
  <2>2. CASE SaveExpansionRequest(p)
    BY <2>2 DEF SaveExpansionRequest
  <2>3. CASE \/ Arrive(p) \/ cascade(p) \/ ReadMissionToDecide(p) \/ Refuse(p)
             \/ CascadeChildFails(p) \/ Fail(p)
    BY <2>3, ReadOnly DEF store
  <2> QED BY <2>1, <2>2, <2>3 DEF Continue
<1> QED BY <1>1, <1>2, <1>3 DEF Next

\* A handler comes to delegate by the checks of Delegate.
LEMMA DelegateStep ==
  ASSUME TypeOK, Linked, [Next]_vars, NEW h \in Handlers, job'[h].pc = "delegate",
         job'[h] # job[h]
  PROVE  \E r \in Refs, d \in DelegationTerms :
            /\ MayDelegate(r, d) /\ UNCHANGED <<now, store>>
            /\ job'[h].ref = r /\ job'[h].terms = d
<1>1. Arrive(h) \/ Continue(h) \/ CascadeChildFails(h) \/ Fail(h)
  BY JobStep
<1>2. job[h] \in Jobs
  BY DEF TypeOK
<1>3. CASE Arrive(h)
  <2>1. \A q \in ProposalIds : ~ApproveProposal(h, q)
    BY DEF ApproveProposal, Begin, Idle, TypeOK
  <2>2. ASSUME NEW r, NEW goal,
               job' = [job EXCEPT ![h] = [Idle EXCEPT !.pc = "transition", !.ref = r,
                                             !.copy = missions[r], !.goal = goal]]
        PROVE  FALSE
    BY <2>2 DEF Idle, TypeOK
  <2>3. ASSUME NEW r, NEW goal,
               job' = [job EXCEPT ![h] = [Idle EXCEPT !.pc = "children", !.ref = r,
                                             !.goal = goal]]
        PROVE  FALSE
    BY <2>3 DEF Idle, TypeOK
  <2>7. \A r \in Refs : ~EvaluateExpired(h, r) /\ ~EvaluateConditionFailed(h, r)
    BY <2>2 DEF EvaluateExpired, EvaluateConditionFailed, Begin
  <2>8. \A r \in Refs : ~Revoke(h, r) /\ ~Complete(h, r)
    BY <2>2, <2>3 DEF Revoke, Complete, ChangeState, Begin
  <2>4. \A r \in Refs, n \in 0..SeenAhead : ~CreateExpansionRequest(h, r, n)
    BY DEF CreateExpansionRequest, Begin, Idle, TypeOK
  <2>5. \A x \in ExpansionIds, verdict \in Verdicts : ~DecideExpansionRequest(h, x, verdict)
    BY DEF DecideExpansionRequest, Begin, Idle, TypeOK
  <2>6. PICK r \in Refs, d \in DelegationTerms : Delegate(h, r, d)
    BY <1>3, <2>1, <2>7, <2>8, <2>4, <2>5 DEF Arrive
  <2> QED BY <2>6 DEF Delegate, Begin, Idle, TypeOK
<1>4. CASE Continue(h) \/ CascadeChildFails(h) \/ Fail(h)
  <2>1. \/ Finish(h) \/ Proceed(h, job[h].todo) \/ cascade(h) \/ transition(h)
        \/ ReadMissionToDecide(h)
    BY <1>4 DEF Continue, CommitProposalApproval, SaveChild, SaveExpansionRequest,
         CommitExpansionDecision, Refuse, CascadeChildFails, Fail
  <2>2. ~Finish(h)
    BY DEF Finish, Idle, TypeOK
  <2>3. ASSUME NEW todo, Proceed(h, todo) PROVE FALSE
    <3>1. PICK f \in todo : job' = [job EXCEPT ![h] =
                [Idle EXCEPT !.pc = "transition", !.ref = f.ref, !.copy = f.copy,
                             !.goal = "revoked", !.level = f.level, !.todo = todo \ {f}]]
      BY <2>2, <2>3 DEF Proceed
    <3>2. \A x : x = [Idle EXCEPT !.pc = "transition", !.ref = f.ref, !.copy = f.copy,
                          !.goal = "revoked", !.level = f.level, !.todo = todo \ {f}]
                    => x.pc = "transition"
      BY DEF Idle
    <3> QED BY <3>1, <3>2 DEF TypeOK
  <2>4. CASE transition(h) \/ ReadMissionToDecide(h)
    BY <1>2, <2>4 DEF transition, ReadMissionToDecide, Finish, Idle, TypeOK, Jobs
  <2> QED BY <2>1, <2>2, <2>3, <2>4 DEF cascade
<1> QED BY <1>1, <1>3, <1>4

-----------------------------------------------------------------------------
(* Missions form trees below the proposals they come from.                 *)

\* Nothing exists yet.
LEMMA InitTree == Init => Tree
  BY NoneAssumption
  DEF Init, Tree, Rooted, DelegationsChecked, DelegationNested, ProposalActivatesOnce,
      NoMission, NoLineage, Idle

\* The checks of a delegation survive every step.
LEMMA ChecksKept ==
  ASSUME TypeOK, Linked, Kept, DelegationsChecked, [Next]_vars
  PROVE  DelegationsChecked'
<1> SUFFICES ASSUME NEW h \in Handlers, job'[h].pc = "delegate"
             PROVE  LET u == lineage'[job'[h].ref]
                    IN  /\ u.permitted
                        /\ u.maxDepth > 0 => u.depth < u.maxDepth
                        /\ u.expiresAt # 0 =>
                             ChildExpiry(job[h].ref, job[h].terms)' <= u.expiresAt
  BY DEF DelegationsChecked
<1>1. CASE job'[h] = job[h]
  <2>1. job[h].ref \in Refs /\ Exists(job[h].ref)
    BY <1>1 DEF Linked, JobsLinked, JobFits
  <2>2. lineage'[job[h].ref] = lineage[job[h].ref]
    BY <2>1 DEF Kept
  <2> QED BY <1>1, <2>2 DEF DelegationsChecked, ChildExpiry
<1>2. CASE job'[h] # job[h]
  <2>1. PICK r \in Refs, d \in DelegationTerms :
            /\ MayDelegate(r, d) /\ UNCHANGED <<now, store>>
            /\ job'[h].ref = r /\ job'[h].terms = d
    BY <1>2, DelegateStep
  <2> QED BY <2>1 DEF MayDelegate, ChildExpiry, store
<1> QED BY <1>1, <1>2

\* A step that creates no mission and decides no proposal.
LEMMA TreeSame ==
  ASSUME TypeOK, Tree, Kept, lineage' = lineage,
         \A r \in Refs : Exists(r)' => Exists(r),
         \A q \in ProposalIds : proposals'[q] = "approved" <=> proposals[q] = "approved"
  PROVE  Rooted' /\ DelegationNested' /\ ProposalActivatesOnce'
<1>1. Rooted'
  BY DEF Tree, Rooted, Kept
<1> QED BY <1>1 DEF Tree, DelegationNested, ProposalActivatesOnce

\* A proposal that is still there becomes its only mission.
LEMMA TreeApproval ==
  ASSUME TypeOK, Linked, Tree, NEW p \in Handlers, CommitProposalApproval(p)
  PROVE  Rooted' /\ DelegationNested' /\ ProposalActivatesOnce'
<1>1. PICK q : q = job[p].item
  OBVIOUS
<1>2. /\ q \in ProposalIds /\ proposals[q] = "pending"
      /\ proposals' = [proposals EXCEPT ![q] = "approved"]
  BY <1>1 DEF CommitProposalApproval, StillProposed, Linked, JobsLinked, JobFits
<1>3. PICK r, row, line :
        /\ r \in Refs /\ ~Exists(r) /\ row.state = "active"
        /\ line.approval = q /\ line.parent = None
        /\ missions' = [missions EXCEPT ![r] = row]
        /\ lineage' = [lineage EXCEPT ![r] = line]
  <2> DEFINE t == TermsOf[q]
             row == [state |-> "active", version |-> 1, authority |-> t.authority]
             line == [approval |-> q, parent |-> None, depth |-> 0,
                      permitted |-> t.permitted, maxDepth |-> ProposedDepth(t),
                      notBefore |-> t.notBefore, expiresAt |-> t.expiresAt]
  <2>1. PICK r \in Refs : /\ ~Exists(r)
                         /\ missions' = [missions EXCEPT ![r] = row]
                         /\ lineage' = [lineage EXCEPT ![r] = line]
    BY <1>1 DEF CommitProposalApproval
  <2>2. row.state = "active" /\ line.approval = q /\ line.parent = None
    OBVIOUS
  <2> QED BY <2>1, <2>2
<1>4. /\ \A u \in Refs : u # r => lineage'[u] = lineage[u] /\ missions'[u] = missions[u]
      /\ lineage'[r] = line /\ missions'[r] = row
      /\ lineage[r].approval = None
      /\ \A k \in ProposalIds : k # q => proposals'[k] = proposals[k]
      /\ proposals'[q] = "approved"
  BY <1>2, <1>3 DEF TypeOK, Tree, Rooted, NoLineage
<1>5. \A u \in Refs : lineage[u].parent # r
  BY <1>3, NoneAssumption DEF Tree, Rooted
<1>6. Rooted'
  BY <1>3, <1>4 DEF Tree, Rooted
<1>7. DelegationNested'
  BY <1>3, <1>4, <1>5 DEF Tree, Rooted, DelegationNested
<1>8. ProposalActivatesOnce'
  BY <1>2, <1>3, <1>4, NoneAssumption DEF Tree, ProposalActivatesOnce
<1> QED BY <1>6, <1>7, <1>8

\* A child is saved below the parent it was checked against.
LEMMA TreeChild ==
  ASSUME TypeOK, Linked, Tree, NEW p \in Handlers, SaveChild(p)
  PROVE  Rooted' /\ DelegationNested' /\ ProposalActivatesOnce'
<1>1. PICK r, d : r = job[p].ref /\ d = job[p].terms
  OBVIOUS
<1>2. /\ r \in Refs /\ Exists(r) /\ d \in Terms /\ r # None
      /\ lineage[r] \in Lineages
      /\ lineage[r].permitted
      /\ lineage[r].maxDepth > 0 => lineage[r].depth < lineage[r].maxDepth
      /\ lineage[r].expiresAt # 0 => ChildExpiry(r, d) <= lineage[r].expiresAt
  BY <1>1, NoneAssumption, RowType
  DEF SaveChild, TypeOK, Linked, JobsLinked, JobFits, Jobs, Tree, DelegationsChecked
<1>3. PICK c, row, line :
        /\ c \in Refs /\ ~Exists(c) /\ row.state = "active"
        /\ line.parent = r /\ line.depth = lineage[r].depth + 1
        /\ line.expiresAt = ChildExpiry(r, d)
        /\ missions' = [missions EXCEPT ![c] = row]
        /\ lineage' = [lineage EXCEPT ![c] = line]
  <2> DEFINE row == [state |-> "active", version |-> 1, authority |-> d.authority]
             line == [approval |-> lineage[r].approval, parent |-> r,
                      depth |-> lineage[r].depth + 1,
                      permitted |-> d.permitted, maxDepth |-> d.maxDepth,
                      notBefore |-> now, expiresAt |-> ChildExpiry(r, d)]
  <2>1. PICK c \in Refs : /\ ~Exists(c)
                         /\ missions' = [missions EXCEPT ![c] = row]
                         /\ lineage' = [lineage EXCEPT ![c] = line]
    BY <1>1 DEF SaveChild
  <2>2. /\ row.state = "active" /\ line.parent = r /\ line.depth = lineage[r].depth + 1
        /\ line.expiresAt = ChildExpiry(r, d)
    OBVIOUS
  <2> HIDE DEF row, line
  <2> QED BY <2>1, <2>2
<1>4. /\ \A u \in Refs : u # c => lineage'[u] = lineage[u] /\ missions'[u] = missions[u]
      /\ lineage'[c] = line /\ missions'[c] = row
      /\ lineage[c].parent = None /\ lineage[c].approval = None
      /\ proposals' = proposals /\ r # c
  BY <1>2, <1>3 DEF TypeOK, Tree, Rooted, NoLineage, SaveChild
<1>5. \A u \in Refs : lineage[u].parent # c
  BY <1>3, NoneAssumption DEF Tree, Rooted
<1>6. Rooted'
  BY <1>2, <1>3, <1>4 DEF Tree, Rooted
<1>7. DelegationNested'
  <2>1. ASSUME NEW u \in Refs, lineage'[u].parent # None, u # c
        PROVE  lineage'[lineage'[u].parent] = lineage[lineage[u].parent]
    BY <1>4, <1>5, <2>1 DEF Tree, Rooted
  <2>2. lineage[r].expiresAt # 0 => ChildExpiry(r, d) \in 1..lineage[r].expiresAt
    BY <1>2 DEF ChildExpiry, Lineages, Terms
  <2>3. lineage[r].maxDepth > 0 => lineage[r].depth + 1 <= lineage[r].maxDepth
    BY <1>2 DEF Lineages
  <2>4. lineage'[r] = lineage[r] /\ lineage'[c] = line
    BY <1>2, <1>4
  <2> QED BY <1>2, <1>3, <1>4, <2>1, <2>2, <2>3, <2>4 DEF Tree, DelegationNested
<1>8. ProposalActivatesOnce'
  BY <1>2, <1>3, <1>4, NoneAssumption DEF Tree, ProposalActivatesOnce
<1> QED BY <1>6, <1>7, <1>8

\* Every step.
LEMMA NextTree ==
  ASSUME TypeOK, Linked, Tree, [Next]_vars
  PROVE  Tree'
<1>1. Kept /\ TypeOK'
  BY NextStep
<1>2. DelegationsChecked'
  BY <1>1, ChecksKept DEF Tree
<1>3. Rooted' /\ DelegationNested' /\ ProposalActivatesOnce'
  <2>1. CASE UNCHANGED <<missions, lineage, proposals>>
    BY <1>1, <2>1, TreeSame
  <2>2. ASSUME NEW q \in ProposalIds, CreateProposal(q)
        PROVE  Rooted' /\ DelegationNested' /\ ProposalActivatesOnce'
    BY <1>1, <2>2, TreeSame DEF CreateProposal, TypeOK
  <2>3. ASSUME NEW p \in Handlers, transition(p)
        PROVE  Rooted' /\ DelegationNested' /\ ProposalActivatesOnce'
    <3>1. lineage' = lineage /\ proposals' = proposals
      BY <2>3 DEF transition
    <3>2. \A r \in Refs : Exists(r)' => Exists(r)
      BY <2>3 DEF transition, TypeOK, Linked, JobsLinked, JobFits
    <3> QED BY <1>1, <3>1, <3>2, TreeSame
  <2>4. ASSUME NEW p \in Handlers, CommitExpansionDecision(p)
        PROVE  Rooted' /\ DelegationNested' /\ ProposalActivatesOnce'
    <3>1. lineage' = lineage /\ proposals' = proposals
      BY <2>4 DEF CommitExpansionDecision
    <3>2. \A r \in Refs : Exists(r)' => Exists(r)
      BY <2>4 DEF CommitExpansionDecision, TypeOK, Linked, JobsLinked, JobFits, RequestsLinked
    <3> QED BY <1>1, <3>1, <3>2, TreeSame
  <2>5. ASSUME NEW p \in Handlers, CommitProposalApproval(p) \/ SaveChild(p)
        PROVE  Rooted' /\ DelegationNested' /\ ProposalActivatesOnce'
    BY <2>5, TreeApproval, TreeChild
  <2> QED BY <2>1, <2>2, <2>3, <2>4, <2>5, StoreStep
<1> QED BY <1>2, <1>3 DEF Tree

\* The trees of missions, as an invariant.
THEOREM TreeInvariant == Spec => [](TypeOK /\ Linked /\ Tree)
<1>1. Init => Tree
  BY InitTree
<1>2. TypeOK /\ Linked /\ Tree /\ [Next]_vars => Tree'
  BY NextTree
<1> QED BY <1>1, <1>2, TypesAndLinks, PTL DEF Spec

\* However many approvals of a proposal overlap, the transaction of
\* CommitProposalApproval makes one mission of it.
THEOREM ProposalsActivateOnce == Spec => []ProposalActivatesOnce
<1>1. Tree => ProposalActivatesOnce
  BY DEF Tree
<1> QED BY <1>1, TreeInvariant, PTL

\* A child stays inside its parent although it is saved after the checks of
\* Delegate, while others go on.
THEOREM ChildrenNested == Spec => []DelegationNested
<1>1. Tree => DelegationNested
  BY DEF Tree
<1> QED BY <1>1, TreeInvariant, PTL
-----------------------------------------------------------------------------
(* The ledger tells of the rows.                                           *)

\* No step takes an entry away.
LEMMA LedgerGrows ==
  ASSUME [Next]_vars
  PROVE  events \subseteq events'
<1>1. CASE UNCHANGED events
  BY <1>1
<1>2. ASSUME NEW e, AppendEvent(e) \/ Committed(e) PROVE events \subseteq events'
  BY <1>2 DEF AppendEvent, Committed
<1>3. ASSUME NEW q \in ProposalIds, CreateProposal(q) PROVE events \subseteq events'
  BY <1>2, <1>3 DEF CreateProposal
<1>4. ASSUME NEW p \in Handlers, Arrive(p) \/ Continue(p) \/ CascadeChildFails(p) \/ Fail(p)
      PROVE  events \subseteq events'
  <2>1. CASE \/ Arrive(p) \/ cascade(p) \/ ReadMissionToDecide(p) \/ Refuse(p)
             \/ CascadeChildFails(p) \/ Fail(p)
    BY <2>1, ReadOnly DEF store
  <2>2. CASE CommitProposalApproval(p)
    BY <1>2, <2>2 DEF CommitProposalApproval
  <2>3. CASE transition(p)
    BY <1>2, <2>3 DEF transition
  <2>4. CASE SaveChild(p)
    BY <1>2, <2>4 DEF SaveChild
  <2>5. CASE SaveExpansionRequest(p)
    BY <1>2, <2>5 DEF SaveExpansionRequest
  <2>6. CASE CommitExpansionDecision(p)
    BY <1>2, <2>6 DEF CommitExpansionDecision
  <2> QED BY <1>4, <2>1, <2>2, <2>3, <2>4, <2>5, <2>6 DEF Continue
<1>5. CASE Tick \/ UNCHANGED vars
  BY <1>1, <1>5 DEF Tick, vars, store
<1> QED BY <1>3, <1>4, <1>5 DEF Next

\* The entry e tells how a mission came to hold the row.
Explains(e, r, row) ==
    /\ e.ref = r
    /\ e.before = row.version - 1
    /\ e.after = row.version
    /\ IF row.state = "active"
       THEN e.type \in {"activated", "delegated", "expansion_approved"}
       ELSE e.type = row.state

\* A write that comes with its entry.
LEMMA ExplainedWrite ==
  ASSUME TypeOK, LedgerExplainsRow, events \subseteq events', NEW r \in Refs, NEW row,
         missions' = [missions EXCEPT ![r] = row],
         NEW e \in events', Explains(e, r, row)
  PROVE  LedgerExplainsRow'
<1> SUFFICES ASSUME NEW u \in Refs, Exists(u)'
             PROVE  \E f \in events' : Explains(f, u, missions'[u])
  BY DEF LedgerExplainsRow, Explains
<1>1. CASE u = r
  BY <1>1 DEF TypeOK
<1>2. CASE u # r
  <2>1. missions'[u] = missions[u]
    BY <1>2 DEF TypeOK
  <2>2. PICK f \in events : Explains(f, u, missions[u])
    BY <2>1 DEF LedgerExplainsRow, Explains
  <2> QED BY <2>1, <2>2
<1> QED BY <1>1, <1>2

\* Every step, when no append is lost.
LEMMA NextExplained ==
  ASSUME TypeOK, Linked, LedgerExplainsRow, "append" \notin Faults, [Next]_vars
  PROVE  LedgerExplainsRow'
<1>1. events \subseteq events'
  BY LedgerGrows
<1>2. CASE UNCHANGED missions
  BY <1>1, <1>2 DEF LedgerExplainsRow
<1>3. ASSUME NEW p \in Handlers, CommitProposalApproval(p) PROVE LedgerExplainsRow'
  <2> DEFINE q == job[p].item
             row == [state |-> "active", version |-> 1, authority |-> TermsOf[q].authority]
  <2>1. PICK r \in Refs : /\ missions' = [missions EXCEPT ![r] = row]
                          /\ EventOf("activated", r, q, 0, 1) \in events'
    BY <1>3 DEF CommitProposalApproval, Committed
  <2>2. Explains(EventOf("activated", r, q, 0, 1), r, row)
    BY DEF Explains, EventOf
  <2> HIDE DEF row, q
  <2> QED BY <1>1, <2>1, <2>2, ExplainedWrite
<1>4. ASSUME NEW p \in Handlers, SaveChild(p) PROVE LedgerExplainsRow'
  <2> DEFINE row == [state |-> "active", version |-> 1, authority |-> job[p].terms.authority]
  <2>1. PICK r \in Refs : /\ missions' = [missions EXCEPT ![r] = row]
                          /\ EventOf("delegated", r, None, 0, 1) \in events'
    BY <1>4 DEF SaveChild, AppendEvent, Committed
  <2>2. Explains(EventOf("delegated", r, None, 0, 1), r, row)
    BY DEF Explains, EventOf
  <2> HIDE DEF row
  <2> QED BY <1>1, <2>1, <2>2, ExplainedWrite
<1>5. ASSUME NEW p \in Handlers, transition(p) PROVE LedgerExplainsRow'
  <2>1. PICK j : j = job[p]
    OBVIOUS
  <2>2. /\ j.ref \in Refs /\ j.goal \in Terminal \cup {"suspended"} /\ j.copy.version \in Nat
        /\ missions' = [missions EXCEPT ![j.ref] = TransitionRow(j.copy, j.goal)]
        /\ StateEvent(j.goal, j.ref, j.copy.version) \in events'
    BY <1>5, <2>1 DEF transition, AppendEvent, Committed, TypeOK, Jobs, Rows, Linked,
         JobsLinked, JobFits
  <2>3. Explains(StateEvent(j.goal, j.ref, j.copy.version), j.ref,
                 TransitionRow(j.copy, j.goal))
    BY <2>2 DEF Explains, StateEvent, EventOf, TransitionRow, Terminal
  <2> QED BY <1>1, <2>2, <2>3, ExplainedWrite
<1>6. ASSUME NEW p \in Handlers, CommitExpansionDecision(p), ~UNCHANGED missions
      PROVE  LedgerExplainsRow'
  <2>1. PICK j : j = job[p]
    OBVIOUS
  <2> DEFINE e == EventOf("expansion_approved", j.ref, j.item, j.copy.version,
                          j.copy.version + 1)
  <2>2. /\ j.pc = "commit" /\ j.goal = "approved" /\ j \in Jobs /\ JobFits(j)
        /\ missions' = [missions EXCEPT ![j.ref] = GrantRow(j.copy, j.item)]
        /\ e \in events'
    BY <1>6, <2>1 DEF CommitExpansionDecision, Committed, TypeOK, Linked, JobsLinked
  <2>3. /\ j.ref \in Refs /\ j.copy.state = "active" /\ j.copy.version \in Nat
    BY <2>2 DEF JobFits, Linked, RequestsLinked, Jobs, Rows
  <2>4. Explains(e, j.ref, GrantRow(j.copy, j.item))
    BY <2>3 DEF Explains, EventOf, GrantRow
  <2> HIDE DEF e
  <2> QED BY <1>1, <2>2, <2>3, <2>4, ExplainedWrite
<1> QED BY <1>2, <1>3, <1>4, <1>5, <1>6, StoreStep

\* When no append is lost, the row of a mission is what the ledger last made
\* it, also after the lost updates of overlapping handlers.
THEOREM LedgerExplains ==
  ASSUME "append" \notin Faults
  PROVE  Spec => []LedgerExplainsRow
<1>1. Init => LedgerExplainsRow
  BY DEF Init, LedgerExplainsRow, NoMission
<1>2. TypeOK /\ Linked /\ LedgerExplainsRow /\ [Next]_vars => LedgerExplainsRow'
  BY NextExplained
<1> QED BY <1>1, <1>2, TypesAndLinks, PTL DEF Spec

-----------------------------------------------------------------------------
(* The ledger tells of the decisions.                                      *)

Activations(q) == {e \in events : e.type = "activated" /\ e.item = q}
Decisions(x) == {e \in events : /\ e.item = x
                                /\ e.type \in {"expansion_approved", "expansion_denied"}}

\* DecisionsLedgered with the entries themselves in place of their number.
Entries ==
    /\ \A q \in ProposalIds :
          /\ proposals[q] # "approved" => Activations(q) = {}
          /\ proposals[q] = "approved" => \E e : Activations(q) = {e}
    /\ \A x \in ExpansionIds :
          /\ expansions[x].status \notin Verdicts => Decisions(x) = {}
          /\ expansions[x].status \in Verdicts =>
                \E e : /\ Decisions(x) = {e}
                       /\ e.type = "expansion_approved"
                             <=> expansions[x].status = "approved"

\* The entries of decisions, counted.
LEMMA EntriesCounted == Entries => DecisionsLedgered
<1> SUFFICES ASSUME Entries PROVE DecisionsLedgered
  OBVIOUS
<1>1. ASSUME NEW q \in ProposalIds
      PROVE  Cardinality(Activations(q)) = (IF proposals[q] = "approved" THEN 1 ELSE 0)
  BY FS_EmptySet, FS_Singleton DEF Entries
<1>2. ASSUME NEW x \in ExpansionIds
      PROVE  /\ Cardinality(Decisions(x)) =
                   (IF expansions[x].status \in Verdicts THEN 1 ELSE 0)
             /\ \A e \in Decisions(x) : e.type = "expansion_approved"
                                          <=> expansions[x].status = "approved"
  <2>1. CASE expansions[x].status \notin Verdicts
    BY <2>1, FS_EmptySet DEF Entries
  <2>2. CASE expansions[x].status \in Verdicts
    <3>1. PICK e : /\ Decisions(x) = {e}
                   /\ e.type = "expansion_approved" <=> expansions[x].status = "approved"
      BY <2>2 DEF Entries
    <3>2. Cardinality(Decisions(x)) = 1
      BY <3>1, FS_Singleton
    <3> QED BY <2>2, <3>1, <3>2
  <2> QED BY <2>1, <2>2
<1> QED BY <1>1, <1>2 DEF DecisionsLedgered, Activations, Decisions

\* A step that decides nothing.
LEMMA EntriesSame ==
  ASSUME Entries, events \subseteq events',
         \A e \in events' : \/ e \in events
                            \/ e.type \notin {"activated", "expansion_approved",
                                              "expansion_denied"},
         \A q \in ProposalIds : proposals'[q] = "approved" <=> proposals[q] = "approved",
         \A x \in ExpansionIds :
            \/ expansions'[x].status = expansions[x].status
            \/ {expansions[x].status, expansions'[x].status} \cap Verdicts = {}
  PROVE  Entries'
<1>1. \A q \in ProposalIds : Activations(q)' = Activations(q)
  BY DEF Activations
<1>2. \A x \in ExpansionIds : Decisions(x)' = Decisions(x)
  BY DEF Decisions
<1> QED BY <1>1, <1>2 DEF Entries

\* The commit of an approval.
LEMMA EntriesApproval ==
  ASSUME TypeOK, Entries, NEW p \in Handlers, CommitProposalApproval(p)
  PROVE  Entries'
<1>1. PICK q : q = job[p].item
  OBVIOUS
<1>2. PICK e :
        /\ e.type = "activated" /\ e.item = q
        /\ events' = events \cup {e}
        /\ proposals[q] = "pending"
        /\ proposals' = [proposals EXCEPT ![q] = "approved"]
        /\ expansions' = expansions
  <2>1. PICK r \in Refs : Committed(EventOf("activated", r, q, 0, 1))
    BY <1>1 DEF CommitProposalApproval
  <2>2. /\ EventOf("activated", r, q, 0, 1).type = "activated"
        /\ EventOf("activated", r, q, 0, 1).item = q
    BY DEF EventOf
  <2> QED BY <1>1, <2>1, <2>2 DEF CommitProposalApproval, StillProposed, Committed
<1>3. ASSUME NEW k \in ProposalIds
      PROVE  /\ proposals'[k] # "approved" => Activations(k)' = {}
             /\ proposals'[k] = "approved" => \E f : Activations(k)' = {f}
  <2>1. CASE k = q
    <3>1. Activations(k) = {} /\ proposals'[k] = "approved"
      BY <1>2, <2>1 DEF Entries, TypeOK
    <3>2. Activations(k)' = {e}
      BY <1>2, <2>1, <3>1 DEF Activations
    <3> QED BY <3>1, <3>2
  <2>2. CASE k # q
    <3>1. Activations(k)' = Activations(k) /\ proposals'[k] = proposals[k]
      BY <1>2, <2>2 DEF Activations, TypeOK
    <3> QED BY <3>1 DEF Entries
  <2> QED BY <2>1, <2>2
<1>4. \A x \in ExpansionIds : Decisions(x)' = Decisions(x)
  BY <1>2 DEF Decisions
<1> QED BY <1>2, <1>3, <1>4 DEF Entries

\* The commit of a decision.
LEMMA EntriesDecision ==
  ASSUME TypeOK, Linked, Entries, NEW p \in Handlers, CommitExpansionDecision(p)
  PROVE  Entries'
<1>1. PICK j : j = job[p]
  OBVIOUS
<1>2. PICK x : x = j.item
  OBVIOUS
<1>3. /\ x \in ExpansionIds /\ j.goal \in Verdicts /\ expansions[x].status = "pending"
      /\ expansions' = [expansions EXCEPT ![x].status = j.goal]
      /\ proposals' = proposals
  BY <1>1, <1>2 DEF CommitExpansionDecision, Unchanged, Linked, JobsLinked, JobFits
<1>4. PICK e : /\ e.item = x /\ e.type \in {"expansion_approved", "expansion_denied"}
               /\ e.type = "expansion_approved" <=> j.goal = "approved"
               /\ events' = events \cup {e}
  BY <1>1, <1>2 DEF CommitExpansionDecision, Committed, EventOf
<1>5. ASSUME NEW y \in ExpansionIds
      PROVE  /\ expansions'[y].status \notin Verdicts => Decisions(y)' = {}
             /\ expansions'[y].status \in Verdicts =>
                   \E f : /\ Decisions(y)' = {f}
                          /\ f.type = "expansion_approved"
                                <=> expansions'[y].status = "approved"
  <2>1. CASE y = x
    <3>1. expansions'[y].status = j.goal
      BY <1>3, <2>1 DEF TypeOK, Requests
    <3>2. Decisions(y) = {}
      BY <1>3, <2>1 DEF Entries, Verdicts
    <3>3. Decisions(y)' = {e}
      BY <1>4, <2>1, <3>2 DEF Decisions
    <3> QED BY <1>3, <1>4, <3>1, <3>3
  <2>2. CASE y # x
    <3>1. Decisions(y)' = Decisions(y) /\ expansions'[y] = expansions[y]
      BY <1>3, <1>4, <2>2 DEF Decisions, TypeOK
    <3> QED BY <3>1 DEF Entries
  <2> QED BY <2>1, <2>2
<1>6. \A q \in ProposalIds : Activations(q)' = Activations(q)
  BY <1>4 DEF Activations
<1> QED BY <1>3, <1>5, <1>6 DEF Entries

\* Every step.
LEMMA NextEntries ==
  ASSUME TypeOK, Linked, Entries, [Next]_vars
  PROVE  Entries'
<1>1. events \subseteq events'
  BY LedgerGrows
<1>2. CASE UNCHANGED <<proposals, expansions, events>>
  BY <1>2 DEF Entries, Activations, Decisions
<1>3. ASSUME NEW q \in ProposalIds, CreateProposal(q) PROVE Entries'
  <2>1. \A e \in events' : e \in events \/ e.type = "proposal_created"
    BY <1>3 DEF CreateProposal, AppendEvent, Committed, EventOf
  <2>2. expansions' = expansions
    BY <1>3 DEF CreateProposal
  <2>3. \A k \in ProposalIds : proposals'[k] = "approved" <=> proposals[k] = "approved"
    BY <1>3 DEF CreateProposal, TypeOK
  <2> QED BY <1>1, <2>1, <2>2, <2>3, EntriesSame
<1>4. ASSUME NEW p \in Handlers, transition(p) PROVE Entries'
  <2>1. \A e \in events' : e \in events \/ e.type = job[p].goal
    BY <1>4 DEF transition, AppendEvent, Committed, StateEvent, EventOf
  <2>2. job[p].goal \in Terminal \cup {"suspended"}
    BY <1>4 DEF transition, Linked, JobsLinked, JobFits
  <2>3. UNCHANGED <<proposals, expansions>>
    BY <1>4 DEF transition
  <2> QED BY <1>1, <2>1, <2>2, <2>3, EntriesSame DEF Terminal
<1>5. ASSUME NEW p \in Handlers, SaveChild(p) PROVE Entries'
  <2>1. \A e \in events' : e \in events \/ e.type = "delegated"
    BY <1>5 DEF SaveChild, AppendEvent, Committed, EventOf
  <2>2. UNCHANGED <<proposals, expansions>>
    BY <1>5 DEF SaveChild
  <2> QED BY <1>1, <2>1, <2>2, EntriesSame
<1>6. ASSUME NEW p \in Handlers, SaveExpansionRequest(p) PROVE Entries'
  <2>1. \A e \in events' : e \in events \/ e.type = "expansion_requested"
    BY <1>6 DEF SaveExpansionRequest, AppendEvent, Committed, EventOf
  <2>2. PICK x, row :
            /\ x \in ExpansionIds
            /\ expansions[x].status = "unused" /\ row.status = "pending"
            /\ expansions' = [expansions EXCEPT ![x] = row]
            /\ proposals' = proposals
    BY <1>6 DEF SaveExpansionRequest
  <2>3. \A y \in ExpansionIds :
            \/ expansions'[y].status = expansions[y].status
            \/ {expansions[y].status, expansions'[y].status} \cap Verdicts = {}
    BY <2>2 DEF TypeOK, Verdicts
  <2> QED BY <1>1, <2>1, <2>2, <2>3, EntriesSame
<1>7. ASSUME NEW p \in Handlers, CommitProposalApproval(p) \/ CommitExpansionDecision(p)
      PROVE  Entries'
  BY <1>7, EntriesApproval, EntriesDecision
<1>8. ASSUME NEW p \in Handlers,
             \/ Arrive(p) \/ cascade(p) \/ ReadMissionToDecide(p) \/ Refuse(p)
             \/ CascadeChildFails(p) \/ Fail(p)
      PROVE  Entries'
  BY <1>2, <1>8, ReadOnly DEF store
<1>9. CASE Tick \/ UNCHANGED vars
  BY <1>2, <1>9 DEF Tick, vars, store
<1> QED BY <1>3, <1>4, <1>5, <1>6, <1>7, <1>8, <1>9 DEF Next, Continue

\* Each approved proposal and each decided expansion has exactly one entry of
\* its kind, although other appends may be lost.
THEOREM DecisionsInLedger == Spec => []DecisionsLedgered
<1>1. Init => Entries
  BY DEF Init, Entries, Activations, Decisions, NoRequest, Verdicts
<1>2. TypeOK /\ Linked /\ Entries /\ [Next]_vars => Entries'
  BY NextEntries
<1> QED BY <1>1, <1>2, EntriesCounted, TypesAndLinks, PTL DEF Spec
=============================================================================
