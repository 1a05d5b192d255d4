----------------------- MODULE MissionLifecycleProofs -----------------------
(***************************************************************************)
(* Proofs about MissionLifecycle, for every number of handlers, missions,  *)
(* proposals and expansion requests, with and without faults.              *)
(***************************************************************************)
EXTENDS MissionLifecycle, TLAPS

(***************************************************************************)
(* What a handler holds refers to something in the store.  The type        *)
(* invariant alone is not inductive: a transition writes the goal of its   *)
(* job as the state of the mission the job names.                          *)
(***************************************************************************)
RowsLinked ==
    \A r \in Refs : Exists(r) => lineage[r].approval \in ProposalIds

RequestsLinked ==
    \A x \in ExpansionIds : expansions[x].status # "unused" =>
        expansions[x].ref \in Refs /\ Exists(expansions[x].ref)

JobFits(j) ==
    /\ j.pc = "approve" => j.item \in ProposalIds
    /\ j.pc \in {"transition", "children"} =>
          /\ j.ref \in Refs
          /\ Exists(j.ref)
          /\ j.goal \in Terminal \cup {"suspended"}
    /\ j.pc \in {"delegate", "expand"} => j.ref \in Refs /\ Exists(j.ref)
    /\ j.pc \in {"decide", "commit"} =>
          /\ j.item \in ExpansionIds
          /\ expansions[j.item].status # "unused"
          /\ j.goal \in Verdicts
    /\ j.pc = "commit" =>
          /\ j.ref = expansions[j.item].ref
          /\ j.goal = "approved" => /\ j.copy.state = "active"
                                   /\ j.copy.version = expansions[j.item].seen
    /\ \A f \in j.todo : Exists(f.ref)

JobsLinked == \A p \in Handlers : JobFits(job[p])

Linked == RowsLinked /\ RequestsLinked /\ JobsLinked

\* What no step takes back: a mission, its lineage, a request, a decision.
Kept ==
    /\ \A r \in Refs : Exists(r) => Exists(r)' /\ lineage'[r] = lineage[r]
    /\ \A x \in ExpansionIds : expansions[x].status # "unused" =>
          /\ expansions'[x].status # "unused"
          /\ expansions'[x].ref = expansions[x].ref
          /\ expansions'[x].seen = expansions[x].seen
          /\ expansions[x].status \in Verdicts => expansions'[x] = expansions[x]

-----------------------------------------------------------------------------
(* Initial states and the two shapes a step of a handler has.              *)

USE DEF Exists, SaveMission, UpdateMission, ChildrenOf

\* The initial store and idle handlers have their types.
LEMMA InitType == Init => TypeOK
  BY NoneAssumption, TermsAssumption, BoundsAssumption
  DEF Init, TypeOK, ProposalStatus, NoMission, Rows, States, Live, Terminal,
      NoLineage, Lineages, NoRequest, Requests, Verdicts, Idle, Jobs, Steps,
      NoTerms, Terms, Frames

\* Nothing is referred to before anything exists.
LEMMA InitLinked == Init => Linked
  BY DEF Init, Linked, RowsLinked, RequestsLinked, JobsLinked, JobFits,
         NoMission, NoRequest, Idle

\* The job of a handler that is not serving a request.
LEMMA IdleJob == Idle \in Jobs /\ JobFits(Idle) /\ JobFits(Idle)'
  BY DEF Idle, Jobs, Steps, NoMission, Rows, States, Live, Terminal, NoTerms,
         Terms, Frames, JobFits

\* A job stays good while others write, since nothing it refers to goes away.
LEMMA JobsKept ==
  ASSUME TypeOK, Linked, Kept, NEW p \in Handlers, NEW j \in Jobs,
         JobFits(j)', job' = [job EXCEPT ![p] = j]
  PROVE  job' \in [Handlers -> Jobs] /\ JobsLinked'
<1>1. job' \in [Handlers -> Jobs]
  BY DEF TypeOK
<1>2. ASSUME NEW h \in Handlers PROVE JobFits(job[h])'
  <2>1. CASE h = p
    BY <2>1 DEF TypeOK, JobFits
  <2>2. CASE h # p
    <3>1. job'[h] = job[h] /\ job[h] \in Jobs /\ JobFits(job[h])
      BY <2>2 DEF TypeOK, Linked, JobsLinked
    <3>2. \A f \in job[h].todo : f.ref \in Refs
      BY <3>1 DEF Jobs, Frames
    <3>3. \A f \in job[h].todo : Exists(f.ref)'
      BY <3>1, <3>2 DEF JobFits, Kept
    <3> QED
      BY <3>1, <3>3 DEF JobFits, Kept, Linked, RequestsLinked
  <2> QED BY <2>1, <2>2
<1> QED BY <1>1, <1>2 DEF JobsLinked

\* A step that only reads the store and changes the job of its handler.
LEMMA ReadStep ==
  ASSUME TypeOK, Linked, UNCHANGED <<now, store>>, NEW p \in Handlers,
         NEW j \in Jobs, JobFits(j), job' = [job EXCEPT ![p] = j]
  PROVE  TypeOK' /\ Linked' /\ Kept
<1>1. Kept
  BY DEF Kept, store
<1>2. JobFits(j)'
  BY DEF JobFits, store
<1>3. job' \in [Handlers -> Jobs] /\ JobsLinked'
  BY <1>1, <1>2, JobsKept
<1> QED
  BY <1>1, <1>3 DEF TypeOK, Linked, RowsLinked, RequestsLinked, store
-----------------------------------------------------------------------------
(* One lemma per group of actions: each keeps the types and the links.     *)

\* A row read from the store is a row.
LEMMA RowType ==
  ASSUME TypeOK, NEW r \in Refs
  PROVE  missions[r] \in Rows /\ lineage[r] \in Lineages
  BY DEF TypeOK

\* The handler returns.
LEMMA FinishStep ==
  ASSUME TypeOK, Linked, UNCHANGED <<now, store>>, NEW p \in Handlers, Finish(p)
  PROVE  TypeOK' /\ Linked' /\ Kept
  BY IdleJob, ReadStep DEF Finish

\* The first read of every request.
LEMMA ArriveStep ==
  ASSUME TypeOK, Linked, NEW p \in Handlers, Arrive(p)
  PROVE  TypeOK' /\ Linked' /\ Kept
<1>1. ASSUME NEW q \in ProposalIds, ApproveProposal(p, q)
      PROVE  TypeOK' /\ Linked' /\ Kept
  <2> DEFINE j == [Idle EXCEPT !.pc = "approve", !.item = q]
  <2>1. j \in Jobs /\ JobFits(j)
    BY IdleJob DEF Idle, Jobs, Steps, JobFits
  <2>2. job' = [job EXCEPT ![p] = j] /\ UNCHANGED <<now, store>>
    BY <1>1 DEF ApproveProposal, Begin
  <2> HIDE DEF j
  <2> QED BY <2>1, <2>2, ReadStep
<1>2. ASSUME NEW r \in Refs, NEW goal \in Terminal \cup {"suspended"},
             Exists(r), UNCHANGED <<now, store>>,
             job' = [job EXCEPT ![p] =
                [Idle EXCEPT !.pc = "transition", !.ref = r,
                             !.copy = missions[r], !.goal = goal]]
      PROVE  TypeOK' /\ Linked' /\ Kept
  <2> DEFINE j == [Idle EXCEPT !.pc = "transition", !.ref = r,
                               !.copy = missions[r], !.goal = goal]
  <2>1. j \in Jobs /\ JobFits(j)
    BY <1>2, IdleJob, RowType DEF Idle, Jobs, Steps, JobFits, Terminal, States, Live
  <2>2. job' = [job EXCEPT ![p] = j]
    BY <1>2
  <2> HIDE DEF j
  <2> QED BY <1>2, <2>1, <2>2, ReadStep
<1>3. ASSUME NEW r \in Refs, EvaluateExpired(p, r)
      PROVE  TypeOK' /\ Linked' /\ Kept
  BY <1>2, <1>3 DEF EvaluateExpired, Begin, Terminal
<1>4. ASSUME NEW r \in Refs, EvaluateConditionFailed(p, r)
      PROVE  TypeOK' /\ Linked' /\ Kept
  BY <1>2, <1>4 DEF EvaluateConditionFailed, Begin
<1>5. ASSUME NEW r \in Refs, NEW goal \in {"revoked", "completed"},
             ChangeState(p, r, goal)
      PROVE  TypeOK' /\ Linked' /\ Kept
  <2> DEFINE j == [Idle EXCEPT !.pc = "children", !.ref = r, !.goal = goal]
  <2>1. CASE job' = [job EXCEPT ![p] = j]
    <3>1. j \in Jobs /\ JobFits(j)
      BY <1>5, IdleJob
      DEF Idle, Jobs, Steps, JobFits, ChangeState, Terminal, States, Live
    <3>2. UNCHANGED <<now, store>>
      BY <1>5 DEF ChangeState
    <3> HIDE DEF j
    <3> QED BY <2>1, <3>1, <3>2, ReadStep
  <2>2. CASE job' # [job EXCEPT ![p] = j]
    BY <1>2, <1>5, <2>2 DEF ChangeState, Begin, Terminal
  <2> QED BY <2>1, <2>2
<1>6. ASSUME NEW r \in Refs, NEW d \in DelegationTerms, Delegate(p, r, d)
      PROVE  TypeOK' /\ Linked' /\ Kept
  <2> DEFINE j == [Idle EXCEPT !.pc = "delegate", !.ref = r, !.terms = d]
  <2>1. j \in Jobs /\ JobFits(j)
    BY <1>6, IdleJob, TermsAssumption
    DEF Idle, Jobs, Steps, JobFits, Delegate, MayDelegate
  <2>2. job' = [job EXCEPT ![p] = j] /\ UNCHANGED <<now, store>>
    BY <1>6 DEF Delegate, Begin
  <2> HIDE DEF j
  <2> QED BY <2>1, <2>2, ReadStep
<1>7. ASSUME NEW r \in Refs, NEW ahead \in 0..SeenAhead,
             CreateExpansionRequest(p, r, ahead)
      PROVE  TypeOK' /\ Linked' /\ Kept
  <2> DEFINE j == [Idle EXCEPT !.pc = "expand", !.ref = r, !.copy = missions[r],
                               !.seen = missions[r].version + ahead]
  <2>1. missions[r].version + ahead \in Nat
    BY RowType, BoundsAssumption DEF Rows
  <2>2. j \in Jobs /\ JobFits(j)
    BY <1>7, <2>1, IdleJob, RowType
    DEF Idle, Jobs, Steps, JobFits, CreateExpansionRequest
  <2>3. job' = [job EXCEPT ![p] = j] /\ UNCHANGED <<now, store>>
    BY <1>7 DEF CreateExpansionRequest, Begin
  <2> HIDE DEF j
  <2> QED BY <2>2, <2>3, ReadStep
<1>8. ASSUME NEW x \in ExpansionIds, NEW verdict \in Verdicts,
             DecideExpansionRequest(p, x, verdict)
      PROVE  TypeOK' /\ Linked' /\ Kept
  <2> DEFINE j == [Idle EXCEPT !.pc = "decide", !.item = x, !.goal = verdict]
  <2>1. j \in Jobs /\ JobFits(j)
    BY <1>8, IdleJob
    DEF Idle, Jobs, Steps, JobFits, DecideExpansionRequest, Verdicts
  <2>2. job' = [job EXCEPT ![p] = j] /\ UNCHANGED <<now, store>>
    BY <1>8 DEF DecideExpansionRequest, Begin
  <2> HIDE DEF j
  <2> QED BY <2>1, <2>2, ReadStep
<1> QED
  BY <1>1, <1>3, <1>4, <1>5, <1>6, <1>7, <1>8 DEF Arrive, Revoke, Complete
\* The recursion of the cascade goes on or returns.
LEMMA ProceedStep ==
  ASSUME TypeOK, Linked, UNCHANGED <<now, store>>, NEW p \in Handlers,
         NEW todo \in SUBSET Frames, \A f \in todo : Exists(f.ref),
         Proceed(p, todo)
  PROVE  TypeOK' /\ Linked' /\ Kept
<1>1. CASE Finish(p)
  BY <1>1, FinishStep
<1>2. CASE ~Finish(p)
  <2>1. PICK f \in todo : job' = [job EXCEPT ![p] =
            [Idle EXCEPT !.pc = "transition", !.ref = f.ref, !.copy = f.copy,
                         !.goal = "revoked", !.level = f.level,
                         !.todo = todo \ {f}]]
    BY <1>2 DEF Proceed
  <2> DEFINE j == [Idle EXCEPT !.pc = "transition", !.ref = f.ref, !.copy = f.copy,
                               !.goal = "revoked", !.level = f.level,
                               !.todo = todo \ {f}]
  <2>2. f \in Frames /\ f.ref \in Refs /\ f.copy \in Rows /\ f.level \in Nat
    BY DEF Frames
  <2>3. j \in Jobs /\ JobFits(j)
    BY <2>2, IdleJob DEF Idle, Jobs, Steps, JobFits, Terminal, States
  <2>4. job' = [job EXCEPT ![p] = j]
    BY <2>1
  <2> HIDE DEF j
  <2> QED BY <2>3, <2>4, ReadStep
<1> QED BY <1>1, <1>2

\* The children of a mission are read and queued.
LEMMA CascadeStep ==
  ASSUME TypeOK, Linked, NEW p \in Handlers, cascade(p)
  PROVE  TypeOK' /\ Linked' /\ Kept
<1> DEFINE children ==
      {[ref |-> c, copy |-> missions[c], level |-> job[p].level + 1] :
          c \in LiveChildren(job[p].ref)}
<1>1. job[p] \in Jobs /\ JobFits(job[p])
  BY DEF TypeOK, Linked, JobsLinked
<1>2. children \subseteq Frames
  BY <1>1, RowType DEF LiveChildren, Frames, Jobs
<1>3. \A f \in children : Exists(f.ref)
  BY DEF LiveChildren, Live
<1>4. job[p].todo \subseteq Frames /\ \A f \in job[p].todo : Exists(f.ref)
  BY <1>1 DEF Jobs, JobFits
<1>5. Proceed(p, job[p].todo \cup children) /\ UNCHANGED <<now, store>>
  BY DEF cascade
<1> HIDE DEF children
<1> QED BY <1>2, <1>3, <1>4, <1>5, ProceedStep

\* A child that could not be written is left, its siblings go on.
LEMMA ChildFailsStep ==
  ASSUME TypeOK, Linked, NEW p \in Handlers, CascadeChildFails(p)
  PROVE  TypeOK' /\ Linked' /\ Kept
<1>1. job[p] \in Jobs /\ JobFits(job[p])
  BY DEF TypeOK, Linked, JobsLinked
<1>2. job[p].todo \subseteq Frames /\ \A f \in job[p].todo : Exists(f.ref)
  BY <1>1 DEF Jobs, JobFits
<1> QED BY <1>2, ProceedStep DEF CascadeChildFails

\* A decision reads the mission of its request.
LEMMA ReadMissionStep ==
  ASSUME TypeOK, Linked, NEW p \in Handlers, ReadMissionToDecide(p)
  PROVE  TypeOK' /\ Linked' /\ Kept
<1> DEFINE r == expansions[job[p].item].ref
           j == [job[p] EXCEPT !.pc = "commit", !.ref = r, !.copy = missions[r]]
<1>1. job[p] \in Jobs /\ JobFits(job[p]) /\ job[p].pc = "decide"
  BY DEF TypeOK, Linked, JobsLinked, ReadMissionToDecide
<1>2. r \in Refs /\ Exists(r) /\ missions[r] \in Rows
  BY <1>1, RowType DEF JobFits, Linked, RequestsLinked
<1>3. j \in Jobs
  BY <1>1, <1>2 DEF Jobs, Steps
<1>4. JobFits(j)
  BY <1>1, <1>2 DEF Jobs, JobFits, ReadMissionToDecide, MayGrant
<1>5. job' = [job EXCEPT ![p] = j] /\ UNCHANGED <<now, store>>
  BY <1>1 DEF ReadMissionToDecide, TypeOK
<1> HIDE DEF j
<1> QED BY <1>3, <1>4, <1>5, ReadStep

\* Both kinds of append add at most the event.
LEMMA AppendType ==
  ASSUME events \subseteq Events, NEW e \in Events, AppendEvent(e) \/ Committed(e)
  PROVE  (events \subseteq Events)'
  BY DEF AppendEvent, Committed

\* A transition overwrites one row by a row.
LEMMA TransitionStep ==
  ASSUME TypeOK, Linked, NEW p \in Handlers, transition(p)
  PROVE  TypeOK' /\ Linked' /\ Kept
<1> DEFINE j == job[p]
           row == TransitionRow(j.copy, j.goal)
<1>1. /\ j \in Jobs /\ JobFits(j) /\ j.pc = "transition"
      /\ UNCHANGED <<now, proposals, lineage, expansions>>
      /\ missions' = [missions EXCEPT ![j.ref] = row]
  BY DEF TypeOK, Linked, JobsLinked, transition
<1>2. /\ j.ref \in Refs /\ Exists(j.ref) /\ j.goal \in Terminal \cup {"suspended"}
      /\ j.copy \in Rows
  BY <1>1 DEF JobFits, Jobs
<1>3. row \in Rows /\ row.state # "none"
  BY <1>2 DEF TransitionRow, Rows, States, Live, Terminal
<1>4. missions' \in [Refs -> Rows] /\ Kept
  BY <1>1, <1>2, <1>3 DEF TypeOK, Kept
<1>5. PICK k : k = IF Cascades(j.goal)
                    THEN [j EXCEPT !.pc = "children", !.copy = NoMission] ELSE Idle
  OBVIOUS
<1>6. k \in Jobs /\ JobFits(k)'
  <2>1. CASE Cascades(j.goal)
    <3>1. NoMission \in Rows
      BY DEF NoMission, Rows, States
    <3>2. k = [j EXCEPT !.pc = "children", !.copy = NoMission] /\ k \in Jobs
      BY <1>1, <1>5, <2>1, <3>1 DEF Jobs, Steps
    <3>3. \A f \in j.todo : f.ref \in Refs /\ Exists(f.ref)
      BY <1>1 DEF Jobs, Frames, JobFits
    <3> HIDE DEF j, row
    <3>4. /\ k.pc = "children" /\ k.ref = j.ref /\ k.goal = j.goal
          /\ k.todo = j.todo
      BY <1>1, <3>2 DEF Jobs
    <3> QED BY <1>2, <1>4, <3>2, <3>3, <3>4 DEF JobFits, Kept
  <2>2. CASE ~Cascades(j.goal)
    BY <1>5, <2>2, IdleJob
  <2> QED BY <2>1, <2>2
<1>7. job' \in [Handlers -> Jobs] /\ JobsLinked'
  <2>1. job' = [job EXCEPT ![p] = k]
    BY <1>1, <1>5 DEF transition, Finish, TypeOK
  <2> QED BY <1>4, <1>6, <2>1, JobsKept
<1>8. (events \subseteq Events)'
  <2>1. StateEvent(j.goal, j.ref, j.copy.version) \in Events
    BY <1>2 DEF StateEvent, EventOf, Events, EventTypes, Terminal, Rows
  <2>2. AppendEvent(StateEvent(j.goal, j.ref, j.copy.version))
    BY DEF transition
  <2> HIDE DEF j
  <2> QED BY <2>1, <2>2, AppendType DEF TypeOK
<1> HIDE DEF j, row
<1>9. TypeOK'
  BY <1>1, <1>4, <1>7, <1>8 DEF TypeOK
<1> QED
  BY <1>1, <1>4, <1>7, <1>9, <1>2, <1>3
  DEF Linked, RowsLinked, RequestsLinked, Kept, TypeOK
\* A proposal is saved.
LEMMA CreateProposalStep ==
  ASSUME TypeOK, Linked, NEW q \in ProposalIds, CreateProposal(q)
  PROVE  TypeOK' /\ Linked' /\ Kept
<1>1. (events \subseteq Events)'
  <2>1. EventOf("proposal_created", None, q, 0, 0) \in Events
    BY DEF EventOf, Events, EventTypes
  <2> QED BY <2>1, AppendType DEF TypeOK, CreateProposal
<1>2. TypeOK'
  BY <1>1 DEF TypeOK, CreateProposal, ProposalStatus
<1> QED
  BY <1>2 DEF CreateProposal, Linked, RowsLinked, RequestsLinked, JobsLinked,
              JobFits, Kept

\* A mission is created in an unused row: everything that exists is kept.
LEMMA CreateStep ==
  ASSUME TypeOK, Linked, NEW p \in Handlers, NEW r \in Refs, ~Exists(r),
         NEW row \in Rows, row.state = "active",
         NEW line \in Lineages, line.approval \in ProposalIds,
         NEW e \in Events, AppendEvent(e) \/ Committed(e),
         proposals' \in [ProposalIds -> ProposalStatus],
         missions' = [missions EXCEPT ![r] = row],
         lineage' = [lineage EXCEPT ![r] = line],
         Finish(p), UNCHANGED <<now, expansions>>
  PROVE  TypeOK' /\ Linked' /\ Kept
<1>1. Kept
  BY DEF Kept, TypeOK
<1>2. job' \in [Handlers -> Jobs] /\ JobsLinked'
  BY <1>1, IdleJob, JobsKept DEF Finish
<1>3. TypeOK'
  BY <1>2, AppendType DEF TypeOK
<1> QED
  BY <1>1, <1>2, <1>3 DEF Linked, RowsLinked, RequestsLinked, Kept, TypeOK

\* A proposal becomes a mission.
LEMMA CommitApprovalStep ==
  ASSUME TypeOK, Linked, NEW p \in Handlers, CommitProposalApproval(p)
  PROVE  TypeOK' /\ Linked' /\ Kept
<1> DEFINE q == job[p].item
           t == TermsOf[q]
           row == [state |-> "active", version |-> 1, authority |-> t.authority]
           line == [approval |-> q, parent |-> None, depth |-> 0,
                    permitted |-> t.permitted, maxDepth |-> ProposedDepth(t),
                    notBefore |-> t.notBefore, expiresAt |-> t.expiresAt]
<1>1. q \in ProposalIds /\ t \in Terms
  BY TermsAssumption DEF CommitProposalApproval, TypeOK, Linked, JobsLinked, JobFits
<1>2. row \in Rows /\ row.state = "active"
  BY <1>1 DEF Rows, States, Live, Terms
<1>3. line \in Lineages /\ line.approval \in ProposalIds
  BY <1>1 DEF Lineages, Terms, ProposedDepth
<1>4. proposals' \in [ProposalIds -> ProposalStatus]
  BY <1>1 DEF CommitProposalApproval, TypeOK, ProposalStatus
<1>5. PICK r \in Refs :
        /\ ~Exists(r)
        /\ missions' = [missions EXCEPT ![r] = row]
        /\ lineage' = [lineage EXCEPT ![r] = line]
        /\ Committed(EventOf("activated", r, q, 0, 1))
  BY DEF CommitProposalApproval
<1>6. EventOf("activated", r, q, 0, 1) \in Events
  BY <1>1 DEF EventOf, Events, EventTypes
<1>7. Finish(p) /\ UNCHANGED <<now, expansions>>
  BY DEF CommitProposalApproval
<1> HIDE DEF q, t, row, line
<1> QED BY <1>2, <1>3, <1>4, <1>5, <1>6, <1>7, CreateStep

\* A child mission is saved.
LEMMA SaveChildStep ==
  ASSUME TypeOK, Linked, NEW p \in Handlers, SaveChild(p)
  PROVE  TypeOK' /\ Linked' /\ Kept
<1> DEFINE r == job[p].ref
           d == job[p].terms
           row == [state |-> "active", version |-> 1, authority |-> d.authority]
           line == [approval |-> lineage[r].approval, parent |-> r,
                    depth |-> lineage[r].depth + 1, permitted |-> d.permitted,
                    maxDepth |-> d.maxDepth, notBefore |-> now,
                    expiresAt |-> ChildExpiry(r, d)]
<1>1. job[p] \in Jobs /\ r \in Refs /\ Exists(r) /\ d \in Terms
  BY DEF SaveChild, TypeOK, Linked, JobsLinked, JobFits, Jobs
<1>2. row \in Rows /\ row.state = "active"
  BY <1>1 DEF Rows, States, Live, Terms
<1>3. lineage[r] \in Lineages /\ lineage[r].approval \in ProposalIds /\ now \in Nat
  BY <1>1, RowType, BoundsAssumption DEF Linked, RowsLinked, TypeOK
<1>4. line \in Lineages /\ line.approval \in ProposalIds
  BY <1>1, <1>3 DEF Lineages, Terms, ChildExpiry
<1>5. PICK c \in Refs :
        /\ ~Exists(c)
        /\ missions' = [missions EXCEPT ![c] = row]
        /\ lineage' = [lineage EXCEPT ![c] = line]
        /\ AppendEvent(EventOf("delegated", c, None, 0, 1))
  BY DEF SaveChild
<1>6. EventOf("delegated", c, None, 0, 1) \in Events
  BY DEF EventOf, Events, EventTypes
<1>7. /\ Finish(p) /\ UNCHANGED <<now, expansions>>
      /\ proposals' \in [ProposalIds -> ProposalStatus]
  BY DEF SaveChild, TypeOK
<1> HIDE DEF r, d, row, line
<1> QED BY <1>2, <1>4, <1>5, <1>6, <1>7, CreateStep

\* An expansion request is saved.
LEMMA SaveExpansionStep ==
  ASSUME TypeOK, Linked, NEW p \in Handlers, SaveExpansionRequest(p)
  PROVE  TypeOK' /\ Linked' /\ Kept
<1> DEFINE j == job[p]
<1>1. j \in Jobs /\ j.ref \in Refs /\ Exists(j.ref) /\ j.seen \in Nat /\ j.copy \in Rows
  BY DEF SaveExpansionRequest, TypeOK, Linked, JobsLinked, JobFits, Jobs
<1>2. PICK x \in ExpansionIds :
        /\ expansions[x].status = "unused"
        /\ expansions' = [expansions EXCEPT ![x] =
              [status |-> "pending", ref |-> j.ref, seen |-> j.seen]]
        /\ AppendEvent(EventOf("expansion_requested", j.ref, x,
                               j.copy.version, j.copy.version))
  BY DEF SaveExpansionRequest
<1>3. Finish(p) /\ UNCHANGED <<now, proposals, missions, lineage>>
  BY DEF SaveExpansionRequest
<1>4. expansions' \in [ExpansionIds -> Requests]
  BY <1>1, <1>2 DEF TypeOK, Requests
<1>5. Kept
  BY <1>2, <1>3 DEF Kept, TypeOK
<1>6. EventOf("expansion_requested", j.ref, x, j.copy.version, j.copy.version) \in Events
  BY <1>1 DEF EventOf, Events, EventTypes, Rows
<1>7. (events \subseteq Events)'
  BY <1>2, <1>6, AppendType DEF TypeOK
<1>8. job' \in [Handlers -> Jobs] /\ JobsLinked'
  BY <1>3, <1>5, IdleJob, JobsKept DEF Finish
<1>9. RequestsLinked'
  BY <1>1, <1>2, <1>3 DEF Linked, RequestsLinked, TypeOK
<1> QED
  BY <1>3, <1>4, <1>5, <1>7, <1>8, <1>9 DEF TypeOK, Linked, RowsLinked

\* An expansion request is decided.
LEMMA CommitDecisionStep ==
  ASSUME TypeOK, Linked, NEW p \in Handlers, CommitExpansionDecision(p)
  PROVE  TypeOK' /\ Linked' /\ Kept
<1> DEFINE j == job[p]
           row == GrantRow(j.copy, j.item)
<1>1. /\ j \in Jobs /\ j.item \in ExpansionIds /\ j.goal \in Verdicts
      /\ j.ref = expansions[j.item].ref /\ j.ref \in Refs /\ Exists(j.ref)
      /\ j.goal = "approved" => j.copy.state = "active"
  BY DEF CommitExpansionDecision, TypeOK, Linked, JobsLinked, JobFits, RequestsLinked
<1>2. j.copy \in Rows /\ j.copy.version \in Nat
  BY <1>1 DEF Jobs, Rows
<1>3. row \in Rows /\ row.state = j.copy.state
  BY <1>1, <1>2, TermsAssumption DEF GrantRow, Rows
<1>4. /\ Finish(p) /\ UNCHANGED <<now, proposals, lineage>>
      /\ expansions[j.item].status = "pending"
      /\ expansions' = [expansions EXCEPT ![j.item].status = j.goal]
  BY DEF CommitExpansionDecision, Unchanged
<1>5. expansions' \in [ExpansionIds -> Requests]
  BY <1>1, <1>4 DEF TypeOK, Requests
<1>6. /\ missions' \in [Refs -> Rows]
      /\ \A r \in Refs : Exists(r) <=> Exists(r)'
      /\ (events \subseteq Events)'
  <2>1. CASE j.goal = "approved"
    <3>1. /\ missions' = [missions EXCEPT ![j.ref] = row]
          /\ Committed(EventOf("expansion_approved", j.ref, j.item,
                               j.copy.version, j.copy.version + 1))
      BY <2>1 DEF CommitExpansionDecision
    <3>2. EventOf("expansion_approved", j.ref, j.item,
                  j.copy.version, j.copy.version + 1) \in Events
      BY <1>1, <1>2 DEF EventOf, Events, EventTypes
    <3>3. (events \subseteq Events)'
      BY <3>1, <3>2, AppendType DEF TypeOK
    <3> HIDE DEF j, row
    <3> QED BY <1>1, <1>3, <2>1, <3>1, <3>3 DEF TypeOK
  <2>2. CASE j.goal # "approved"
    <3>1. /\ missions' = missions
          /\ Committed(EventOf("expansion_denied", j.ref, j.item,
                               j.copy.version, j.copy.version))
      BY <2>2 DEF CommitExpansionDecision
    <3>2. EventOf("expansion_denied", j.ref, j.item,
                  j.copy.version, j.copy.version) \in Events
      BY <1>1, <1>2 DEF EventOf, Events, EventTypes
    <3>3. (events \subseteq Events)'
      BY <3>1, <3>2, AppendType DEF TypeOK
    <3> QED BY <3>1, <3>3 DEF TypeOK
  <2> QED BY <2>1, <2>2
<1> HIDE DEF j, row
<1>7. Kept
  BY <1>1, <1>4, <1>6 DEF Kept, TypeOK, Requests, Verdicts
<1>8. job' \in [Handlers -> Jobs] /\ JobsLinked'
  BY <1>4, <1>7, IdleJob, JobsKept DEF Finish
<1>9. RowsLinked' /\ RequestsLinked'
  BY <1>1, <1>4, <1>5, <1>6 DEF Linked, RowsLinked, RequestsLinked, TypeOK, Requests
<1> QED
  BY <1>4, <1>5, <1>6, <1>7, <1>8, <1>9 DEF TypeOK, Linked

-----------------------------------------------------------------------------
(* Types and links.                                                        *)

\* Every step keeps types and links, and takes back nothing.
LEMMA NextStep ==
  ASSUME TypeOK, Linked, [Next]_vars
  PROVE  TypeOK' /\ Linked' /\ Kept
<1>1. CASE \E q \in ProposalIds : CreateProposal(q)
  BY <1>1, CreateProposalStep
<1>2. ASSUME NEW p \in Handlers, Arrive(p)
      PROVE  TypeOK' /\ Linked' /\ Kept
  BY <1>2, ArriveStep
<1>3. ASSUME NEW p \in Handlers, Continue(p)
      PROVE  TypeOK' /\ Linked' /\ Kept
  <2>1. CASE Refuse(p)
    BY <2>1, FinishStep DEF Refuse
  <2>2. CASE ~Refuse(p)
    BY <1>3, <2>2, CommitApprovalStep, TransitionStep, CascadeStep, SaveChildStep,
       SaveExpansionStep, ReadMissionStep, CommitDecisionStep DEF Continue
  <2> QED BY <2>1, <2>2
<1>4. ASSUME NEW p \in Handlers, CascadeChildFails(p) \/ Fail(p)
      PROVE  TypeOK' /\ Linked' /\ Kept
  BY <1>4, ChildFailsStep, FinishStep DEF Fail
<1>5. CASE Tick
  BY <1>5, BoundsAssumption
  DEF Tick, store, TypeOK, Linked, RowsLinked, RequestsLinked, JobsLinked, JobFits, Kept
<1>6. CASE UNCHANGED vars
  BY <1>6
  DEF vars, store, TypeOK, Linked, RowsLinked, RequestsLinked, JobsLinked, JobFits, Kept
<1> QED BY <1>1, <1>2, <1>3, <1>4, <1>5, <1>6 DEF Next

\* The inductive invariant below everything else.
THEOREM TypesAndLinks == Spec => [](TypeOK /\ Linked)
<1>1. Init => TypeOK /\ Linked
  BY InitType, InitLinked
<1>2. TypeOK /\ Linked /\ [Next]_vars => (TypeOK /\ Linked)'
  BY NextStep
<1> QED BY <1>1, <1>2, PTL DEF Spec

\* Every row, request, event and job keeps its type, however many handlers
\* overlap and whatever fails.
THEOREM TypeCorrect == Spec => []TypeOK
  BY TypesAndLinks, PTL

-----------------------------------------------------------------------------
(* Which steps decide a request and which make a mission active.           *)

\* What one step may do to the requests and to inactive missions.
DecidesRight ==
    \A x \in ExpansionIds :
        LET e == expansions[x]
        IN  /\ e.status \in Verdicts => expansions'[x] = e
            /\ (e.status # "approved" /\ expansions'[x].status = "approved") =>
                  /\ e.status = "pending"
                  /\ missions[e.ref].version = e.seen
                  /\ missions'[e.ref].version = e.seen + 1
                  /\ AskOf[x] \subseteq missions'[e.ref].authority

ReactivatesRight ==
    \A r \in Refs :
        (missions[r].state \notin {"none", "active"} /\ missions'[r].state = "active")
           => \E x \in ExpansionIds : /\ expansions[x].ref = r
                                      /\ expansions[x].status = "pending"
                                      /\ expansions'[x].status = "approved"

\* A step that leaves missions and requests alone does neither.
LEMMA QuietStep ==
  ASSUME UNCHANGED <<missions, expansions>>
  PROVE  DecidesRight /\ ReactivatesRight
  BY DEF DecidesRight, ReactivatesRight

\* Reads, refusals and failures change no row.
LEMMA ReadOnly ==
  ASSUME NEW p \in Handlers,
         \/ Arrive(p) \/ cascade(p) \/ ReadMissionToDecide(p) \/ Refuse(p)
         \/ CascadeChildFails(p) \/ Fail(p)
  PROVE  UNCHANGED <<now, store>>
  BY DEF Arrive, ApproveProposal, EvaluateExpired, EvaluateConditionFailed,
         Revoke, Complete, ChangeState, Delegate, CreateExpansionRequest,
         DecideExpansionRequest, cascade, ReadMissionToDecide, Refuse,
         CascadeChildFails, Fail

\* A new mission was not there before.
LEMMA CreationDecides ==
  ASSUME TypeOK, NEW p \in Handlers, CommitProposalApproval(p) \/ SaveChild(p)
  PROVE  DecidesRight /\ ReactivatesRight
<1>1. expansions' = expansions
  BY DEF CommitProposalApproval, SaveChild
<1>2. \E r \in Refs : \E row : /\ missions[r].state = "none"
                              /\ missions' = [missions EXCEPT ![r] = row]
  BY DEF CommitProposalApproval, SaveChild
<1> QED BY <1>1, <1>2 DEF DecidesRight, ReactivatesRight, TypeOK

\* A transition leads to an inactive state.
LEMMA TransitionDecides ==
  ASSUME TypeOK, Linked, NEW p \in Handlers, transition(p)
  PROVE  DecidesRight /\ ReactivatesRight
<1>1. /\ expansions' = expansions
      /\ missions' = [missions EXCEPT ![job[p].ref] =
                         TransitionRow(job[p].copy, job[p].goal)]
      /\ job[p].goal \in Terminal \cup {"suspended"}
  BY DEF transition, Linked, JobsLinked, JobFits
<1>2. TransitionRow(job[p].copy, job[p].goal).state # "active"
  BY <1>1 DEF TransitionRow, Terminal
<1> QED BY <1>1, <1>2 DEF DecidesRight, ReactivatesRight, TypeOK

\* A new request is pending.
LEMMA RequestDecides ==
  ASSUME TypeOK, NEW p \in Handlers, SaveExpansionRequest(p)
  PROVE  DecidesRight /\ ReactivatesRight
<1>1. /\ missions' = missions
      /\ \E x \in ExpansionIds :
            /\ expansions[x].status = "unused"
            /\ expansions' = [expansions EXCEPT ![x] =
                  [status |-> "pending", ref |-> job[p].ref, seen |-> job[p].seen]]
  BY DEF SaveExpansionRequest
<1> QED BY <1>1 DEF DecidesRight, ReactivatesRight, TypeOK, Verdicts

\* The decision itself: the version it compares is the one the request saw.
LEMMA CommitDecides ==
  ASSUME TypeOK, Linked, NEW p \in Handlers, CommitExpansionDecision(p)
  PROVE  DecidesRight /\ ReactivatesRight
<1> DEFINE j == job[p]
           row == GrantRow(j.copy, j.item)
<1>1. /\ j \in Jobs /\ j.item \in ExpansionIds /\ j.goal \in Verdicts
      /\ j.ref = expansions[j.item].ref /\ j.ref \in Refs /\ Exists(j.ref)
      /\ j.goal = "approved" => j.copy.version = expansions[j.item].seen
  BY DEF CommitExpansionDecision, TypeOK, Linked, JobsLinked, JobFits, RequestsLinked
<1>2. /\ expansions[j.item].status = "pending"
      /\ expansions' = [expansions EXCEPT ![j.item].status = j.goal]
      /\ j.goal = "approved" => /\ missions[j.ref].version = j.copy.version
                                /\ missions' = [missions EXCEPT ![j.ref] = row]
      /\ j.goal # "approved" => missions' = missions
  BY DEF CommitExpansionDecision, Unchanged
<1>3. row.version = j.copy.version + 1 /\ AskOf[j.item] \subseteq row.authority
  BY DEF GrantRow
<1> HIDE DEF j, row
<1>4. expansions'[j.item].status = j.goal
  BY <1>1, <1>2 DEF TypeOK, Requests
<1>5. \A x \in ExpansionIds : x # j.item => expansions'[x] = expansions[x]
  BY <1>2 DEF TypeOK
<1>6. DecidesRight
  BY <1>1, <1>2, <1>3, <1>4, <1>5 DEF DecidesRight, TypeOK, Verdicts
<1>7. ReactivatesRight
  BY <1>1, <1>2, <1>4 DEF ReactivatesRight, TypeOK
<1> QED BY <1>6, <1>7

\* Every step.
LEMMA NextDecides ==
  ASSUME TypeOK, Linked, [Next]_vars
  PROVE  DecidesRight /\ ReactivatesRight
<1>1. CASE UNCHANGED <<missions, expansions>>
  BY <1>1, QuietStep
<1>2. CASE ~UNCHANGED <<missions, expansions>>
  <2>1. PICK p \in Handlers : \/ CommitProposalApproval(p) \/ SaveChild(p)
                              \/ transition(p) \/ SaveExpansionRequest(p)
                              \/ CommitExpansionDecision(p)
    BY <1>2, ReadOnly DEF Next, Continue, CreateProposal, Tick, vars, store
  <2> QED BY <2>1, CreationDecides, TransitionDecides, RequestDecides, CommitDecides
<1> QED BY <1>1, <1>2

\* However approvals and denials of an expansion request overlap, with each
\* other and with blind overwrites of the mission, decideExpansionRequest
\* settles it once and grants it only at the version its requester saw.
THEOREM DecisionsAreFinal == Spec => DecidesOnceAtVersionSeen
<1>1. TypeOK /\ Linked /\ [Next]_vars => [DecidesRight]_vars
  BY NextDecides
<1> QED BY <1>1, TypesAndLinks, PTL DEF Spec, DecidesOnceAtVersionSeen, DecidesRight

\* No stale write of transition brings an inactive mission back: only the
\* commit of a granted expansion does.
THEOREM GrantsReactivate == Spec => OnlyGrantReactivates
<1>1. TypeOK /\ Linked /\ [Next]_vars => [ReactivatesRight]_vars
  BY NextDecides
<1> QED BY <1>1, TypesAndLinks, PTL DEF Spec, OnlyGrantReactivates, ReactivatesRight

-----------------------------------------------------------------------------
(* Authority comes from approvals.  Rows are written from copies, so what  *)
(* is true of the rows has to be true of every copy a handler holds.       *)

CopyApproved(j) ==
    /\ j.pc \in {"transition", "commit"} => j.copy.authority \subseteq Approved(j.ref)
    /\ j.pc = "delegate" => j.terms.authority \subseteq Approved(j.ref)
    /\ \A f \in j.todo : f.copy.authority \subseteq Approved(f.ref)

CopiesApproved == \A p \in Handlers : CopyApproved(job[p])

Backed == AuthorityHasApproval /\ CopiesApproved

\* The two sources of approved authority.
LEMMA ApprovedMember ==
  ASSUME NEW r, NEW a
  PROVE  a \in Approved(r) <=>
            \/ a \in TermsOf[lineage[r].approval].authority
            \/ \E x \in ExpansionIds :
                  /\ expansions[x].status = "approved"
                  /\ lineage[expansions[x].ref].approval = lineage[r].approval
                  /\ a \in AskOf[x]
  BY DEF Approved

\* The approved authority of a mission never shrinks.
LEMMA ApprovedGrows ==
  ASSUME TypeOK, Linked, Kept, NEW r \in Refs, Exists(r)
  PROVE  Approved(r) \subseteq Approved(r)'
<1> SUFFICES ASSUME NEW a \in Approved(r) PROVE a \in Approved(r)'
  OBVIOUS
<1>1. lineage'[r] = lineage[r]
  BY DEF Kept
<1>2. CASE a \in TermsOf[lineage[r].approval].authority
  BY <1>1, <1>2 DEF Approved
<1>3. CASE \E x \in ExpansionIds :
              /\ expansions[x].status = "approved"
              /\ lineage[expansions[x].ref].approval = lineage[r].approval
              /\ a \in AskOf[x]
  <2>1. PICK x \in ExpansionIds :
              /\ expansions[x].status = "approved"
              /\ lineage[expansions[x].ref].approval = lineage[r].approval
              /\ a \in AskOf[x]
    BY <1>3
  <2>2. /\ expansions'[x] = expansions[x]
        /\ lineage'[expansions[x].ref] = lineage[expansions[x].ref]
    BY <2>1 DEF Kept, Linked, RequestsLinked, Verdicts
  <2> QED BY <1>1, <2>1, <2>2 DEF Approved
<1> QED BY <1>2, <1>3, ApprovedMember

\* Copies stay approved while others write.
LEMMA CopiesKept ==
  ASSUME TypeOK, Linked, Kept, CopiesApproved, NEW p \in Handlers, NEW j,
         CopyApproved(j)', job' = [job EXCEPT ![p] = j]
  PROVE  CopiesApproved'
<1> SUFFICES ASSUME NEW h \in Handlers PROVE CopyApproved(job[h])'
  BY DEF CopiesApproved
<1>1. CASE h = p
  BY <1>1 DEF TypeOK, CopyApproved, Approved
<1>2. CASE h # p
  <2>1. PICK k : k = job[h]
    OBVIOUS
  <2>2. job'[h] = k /\ k \in Jobs /\ JobFits(k) /\ CopyApproved(k)
    BY <1>2, <2>1 DEF TypeOK, Linked, JobsLinked, CopiesApproved
  <2>3. k.pc \in {"transition", "commit", "delegate"} => k.ref \in Refs /\ Exists(k.ref)
    BY <2>2 DEF JobFits, Linked, RequestsLinked
  <2>4. k.pc \in {"transition", "commit", "delegate"} => Approved(k.ref) \subseteq Approved(k.ref)'
    BY <2>3, ApprovedGrows
  <2>5. ASSUME NEW f \in k.todo PROVE f.copy.authority \subseteq Approved(f.ref)'
    <3>1. f.ref \in Refs /\ Exists(f.ref) /\ f.copy.authority \subseteq Approved(f.ref)
      BY <2>2 DEF Jobs, Frames, JobFits, CopyApproved
    <3>2. Approved(f.ref) \subseteq Approved(f.ref)'
      BY <3>1, ApprovedGrows
    <3> QED BY <3>1, <3>2
  <2>6. CopyApproved(k)'
    BY <2>2, <2>4, <2>5 DEF CopyApproved
  <2> QED BY <2>2, <2>6 DEF CopyApproved, Approved
<1> QED BY <1>1, <1>2

\* An idle handler holds nothing.
LEMMA IdleCopy == CopyApproved(Idle)'
  BY DEF CopyApproved, Idle

\* A step that only reads.
LEMMA BackedRead ==
  ASSUME TypeOK, Linked, Kept, Backed, UNCHANGED <<now, store>>, NEW p \in Handlers,
         NEW j, CopyApproved(j), job' = [job EXCEPT ![p] = j]
  PROVE  Backed'
<1>1. CopyApproved(j)'
  BY DEF CopyApproved, Approved, store
<1>2. CopiesApproved'
  BY <1>1, CopiesKept DEF Backed
<1>3. AuthorityHasApproval'
  BY DEF Backed, AuthorityHasApproval, Approved, store
<1> QED BY <1>2, <1>3 DEF Backed

\* A handler that returns.
LEMMA BackedFinish ==
  ASSUME TypeOK, Linked, Kept, Backed, UNCHANGED <<now, store>>, NEW p \in Handlers,
         Finish(p)
  PROVE  Backed'
<1>1. CopyApproved(Idle)
  BY DEF CopyApproved, Idle
<1> QED BY <1>1, BackedRead DEF Finish

\* The first read of every request: the copy is a row.
LEMMA BackedArrive ==
  ASSUME TypeOK, Linked, Kept, Backed, NEW p \in Handlers, Arrive(p)
  PROVE  Backed'
<1>1. \A r \in Refs : Exists(r) => missions[r].authority \subseteq Approved(r)
  BY DEF Backed, AuthorityHasApproval
<1>2. PICK j : job' = [job EXCEPT ![p] = j] /\ CopyApproved(j)
  <2>1. ASSUME NEW r \in Refs, NEW goal, Exists(r)
        PROVE  /\ CopyApproved([Idle EXCEPT !.pc = "transition", !.ref = r,
                                            !.copy = missions[r], !.goal = goal])
               /\ CopyApproved([Idle EXCEPT !.pc = "children", !.ref = r, !.goal = goal])
    BY <1>1, <2>1 DEF CopyApproved, Idle
  <2>2. ASSUME NEW r \in Refs, NEW d \in DelegationTerms, Delegate(p, r, d)
        PROVE  CopyApproved([Idle EXCEPT !.pc = "delegate", !.ref = r, !.terms = d])
    BY <1>1, <2>2 DEF CopyApproved, Idle, Delegate, MayDelegate
  <2>3. ASSUME NEW q
        PROVE  CopyApproved([Idle EXCEPT !.pc = "approve", !.item = q])
    BY DEF CopyApproved, Idle
  <2>4. ASSUME NEW r, NEW m, NEW v
        PROVE  CopyApproved([Idle EXCEPT !.pc = "expand", !.ref = r, !.copy = m, !.seen = v])
    BY DEF CopyApproved, Idle
  <2>5. ASSUME NEW x, NEW verdict
        PROVE  CopyApproved([Idle EXCEPT !.pc = "decide", !.item = x, !.goal = verdict])
    BY DEF CopyApproved, Idle
  <2>6. CASE \E q \in ProposalIds : ApproveProposal(p, q)
    BY <2>3, <2>6 DEF ApproveProposal, Begin
  <2>7. CASE \E r \in Refs : EvaluateExpired(p, r) \/ EvaluateConditionFailed(p, r)
    <3>1. PICK r \in Refs, goal \in {"expired", "suspended"} :
            /\ Exists(r)
            /\ job' = [job EXCEPT ![p] = [Idle EXCEPT !.pc = "transition", !.ref = r,
                                                      !.copy = missions[r], !.goal = goal]]
      BY <2>7 DEF EvaluateExpired, EvaluateConditionFailed, Begin
    <3> QED BY <2>1, <3>1
  <2>8. CASE \E r \in Refs : Revoke(p, r) \/ Complete(p, r)
    <3>1. PICK r \in Refs, goal \in {"revoked", "completed"} :
            /\ Exists(r)
            /\ \/ job' = [job EXCEPT ![p] = [Idle EXCEPT !.pc = "transition", !.ref = r,
                                                !.copy = missions[r], !.goal = goal]]
               \/ job' = [job EXCEPT ![p] = [Idle EXCEPT !.pc = "children", !.ref = r,
                                                !.goal = goal]]
      BY <2>8 DEF Revoke, Complete, ChangeState, Begin
    <3> QED BY <2>1, <3>1
  <2>9. CASE \E r \in Refs : \E d \in DelegationTerms : Delegate(p, r, d)
    BY <2>2, <2>9 DEF Delegate, Begin
  <2>10. CASE \E r \in Refs : \E ahead \in 0..SeenAhead : CreateExpansionRequest(p, r, ahead)
    <3>1. PICK r \in Refs, ahead \in 0..SeenAhead :
            job' = [job EXCEPT ![p] = [Idle EXCEPT !.pc = "expand", !.ref = r,
                      !.copy = missions[r], !.seen = missions[r].version + ahead]]
      BY <2>10 DEF CreateExpansionRequest, Begin
    <3> QED BY <2>4, <3>1
  <2>11. CASE \E x \in ExpansionIds, verdict \in Verdicts :
                 DecideExpansionRequest(p, x, verdict)
    BY <2>5, <2>11 DEF DecideExpansionRequest, Begin
  <2> QED BY <2>6, <2>7, <2>8, <2>9, <2>10, <2>11 DEF Arrive
<1> QED BY <1>2, ReadOnly, BackedRead

\* The cascade goes on with a frame it holds.
LEMMA BackedProceed ==
  ASSUME TypeOK, Linked, Kept, Backed, UNCHANGED <<now, store>>, NEW p \in Handlers,
         NEW todo, \A f \in todo : f.copy.authority \subseteq Approved(f.ref),
         Proceed(p, todo)
  PROVE  Backed'
<1>1. CASE Finish(p)
  BY <1>1, BackedFinish
<1>2. CASE ~Finish(p)
  <2>1. PICK f \in todo : job' = [job EXCEPT ![p] =
            [Idle EXCEPT !.pc = "transition", !.ref = f.ref, !.copy = f.copy,
                         !.goal = "revoked", !.level = f.level,
                         !.todo = todo \ {f}]]
    BY <1>2 DEF Proceed
  <2>2. CopyApproved([Idle EXCEPT !.pc = "transition", !.ref = f.ref, !.copy = f.copy,
                                  !.goal = "revoked", !.level = f.level,
                                  !.todo = todo \ {f}])
    BY DEF CopyApproved, Idle
  <2> QED BY <2>1, <2>2, BackedRead
<1> QED BY <1>1, <1>2

\* The children read by the cascade are rows too.
LEMMA BackedCascade ==
  ASSUME TypeOK, Linked, Kept, Backed, NEW p \in Handlers,
         cascade(p) \/ CascadeChildFails(p)
  PROVE  Backed'
<1> DEFINE children ==
      {[ref |-> c, copy |-> missions[c], level |-> job[p].level + 1] :
          c \in LiveChildren(job[p].ref)}
<1>1. \A f \in job[p].todo : f.copy.authority \subseteq Approved(f.ref)
  BY DEF Backed, CopiesApproved, CopyApproved
<1>2. \A f \in children : f.copy.authority \subseteq Approved(f.ref)
  BY DEF Backed, AuthorityHasApproval, LiveChildren, Live
<1>3. UNCHANGED <<now, store>>
  BY ReadOnly
<1>4. Proceed(p, job[p].todo \cup children) \/ Proceed(p, job[p].todo)
  BY DEF cascade, CascadeChildFails
<1> HIDE DEF children
<1> QED BY <1>1, <1>2, <1>3, <1>4, BackedProceed

\* A decision copies the row of its mission.
LEMMA BackedReadMission ==
  ASSUME TypeOK, Linked, Kept, Backed, NEW p \in Handlers, ReadMissionToDecide(p)
  PROVE  Backed'
<1> DEFINE r == expansions[job[p].item].ref
<1>1. PICK j : j = [job[p] EXCEPT !.pc = "commit", !.ref = r, !.copy = missions[r]]
  OBVIOUS
<1>2. job[p] \in Jobs /\ r \in Refs /\ Exists(r)
  BY DEF TypeOK, Linked, JobsLinked, JobFits, RequestsLinked, ReadMissionToDecide
<1>3. j.pc = "commit" /\ j.ref = r /\ j.copy = missions[r] /\ j.todo = job[p].todo
  BY <1>1, <1>2 DEF Jobs
<1>4. CopyApproved(j)
  BY <1>2, <1>3 DEF Backed, AuthorityHasApproval, CopiesApproved, CopyApproved
<1>5. job' = [job EXCEPT ![p] = j]
  BY <1>1 DEF ReadMissionToDecide, TypeOK
<1> QED BY <1>4, <1>5, ReadOnly, BackedRead

\* One row is written, the others are as good as before.
LEMMA BackedWrite ==
  ASSUME TypeOK, Linked, Kept, Backed, NEW r \in Refs, NEW row,
         missions' = [missions EXCEPT ![r] = row],
         row.authority \subseteq Approved(r)', CopiesApproved'
  PROVE  Backed'
<1>1. ASSUME NEW u \in Refs, Exists(u)'
      PROVE  missions'[u].authority \subseteq Approved(u)'
  <2>1. CASE u = r
    BY <2>1 DEF TypeOK
  <2>2. CASE u # r
    <3>1. missions'[u] = missions[u] /\ Exists(u)
      BY <1>1, <2>2 DEF TypeOK
    <3> QED BY <3>1, ApprovedGrows DEF Backed, AuthorityHasApproval
  <2> QED BY <2>1, <2>2
<1> QED BY <1>1 DEF Backed, AuthorityHasApproval

\* A transition writes the authority of its copy.
LEMMA BackedTransition ==
  ASSUME TypeOK, Linked, Kept, Backed, NEW p \in Handlers, transition(p)
  PROVE  Backed'
<1>1. PICK j : j = job[p]
  OBVIOUS
<1>2. /\ j \in Jobs /\ j.ref \in Refs /\ Exists(j.ref) /\ CopyApproved(j)
      /\ j.pc = "transition"
      /\ \A f \in j.todo : f.ref \in Refs /\ Exists(f.ref)
      /\ missions' = [missions EXCEPT ![j.ref] = TransitionRow(j.copy, j.goal)]
  BY <1>1 DEF transition, TypeOK, Linked, JobsLinked, JobFits, Backed, CopiesApproved,
              Jobs, Frames
<1>3. Approved(j.ref) \subseteq Approved(j.ref)'
  BY <1>2, ApprovedGrows
<1>4. TransitionRow(j.copy, j.goal).authority \subseteq Approved(j.ref)'
  BY <1>2, <1>3 DEF TransitionRow, CopyApproved
<1>5. ASSUME NEW f \in j.todo PROVE f.copy.authority \subseteq Approved(f.ref)'
  <2>1. Approved(f.ref) \subseteq Approved(f.ref)'
    BY <1>2, ApprovedGrows
  <2> QED BY <1>2, <2>1 DEF CopyApproved
<1>6. PICK k : k = IF Cascades(j.goal)
                    THEN [j EXCEPT !.pc = "children", !.copy = NoMission] ELSE Idle
  OBVIOUS
<1>7. CopyApproved(k)'
  <2>1. CASE Cascades(j.goal)
    <3>1. k.pc = "children" /\ k.todo = j.todo
      BY <1>2, <1>6, <2>1 DEF Jobs
    <3> QED BY <1>5, <3>1 DEF CopyApproved
  <2>2. CASE ~Cascades(j.goal)
    BY <1>6, <2>2, IdleCopy
  <2> QED BY <2>1, <2>2
<1>8. job' = [job EXCEPT ![p] = k]
  BY <1>1, <1>6 DEF transition, Finish, TypeOK
<1>9. CopiesApproved'
  BY <1>7, <1>8, CopiesKept DEF Backed
<1> QED BY <1>2, <1>4, <1>9, BackedWrite

\* A write after which the handler returns.
LEMMA FinishCopies ==
  ASSUME TypeOK, Linked, Kept, Backed, NEW p \in Handlers, Finish(p)
  PROVE  CopiesApproved'
  BY IdleCopy, CopiesKept DEF Finish, Backed

\* A new root mission has what its proposal asked for.
LEMMA BackedApproval ==
  ASSUME TypeOK, Linked, Kept, Backed, NEW p \in Handlers, CommitProposalApproval(p)
  PROVE  Backed'
<1> DEFINE q == job[p].item
           t == TermsOf[q]
           row == [state |-> "active", version |-> 1, authority |-> t.authority]
           line == [approval |-> q, parent |-> None, depth |-> 0,
                    permitted |-> t.permitted, maxDepth |-> ProposedDepth(t),
                    notBefore |-> t.notBefore, expiresAt |-> t.expiresAt]
<1>0. PICK r \in Refs : /\ missions' = [missions EXCEPT ![r] = row]
                        /\ lineage' = [lineage EXCEPT ![r] = line]
  BY DEF CommitProposalApproval
<1>1. /\ missions' = [missions EXCEPT ![r] = row]
      /\ lineage' = [lineage EXCEPT ![r] = line]
      /\ row.authority = TermsOf[q].authority
      /\ line.approval = q
  BY <1>0
<1>2. lineage'[r].approval = q
  BY <1>1 DEF TypeOK
<1>3. row.authority \subseteq Approved(r)'
  BY <1>1, <1>2 DEF Approved
<1>4. CopiesApproved'
  BY FinishCopies DEF CommitProposalApproval
<1> HIDE DEF q, t, row, line
<1> QED BY <1>1, <1>3, <1>4, BackedWrite

\* A child has part of what is approved for its parent, hence for its tree.
LEMMA BackedChild ==
  ASSUME TypeOK, Linked, Kept, Backed, NEW p \in Handlers, SaveChild(p)
  PROVE  Backed'
<1> DEFINE r == job[p].ref
           d == job[p].terms
           row == [state |-> "active", version |-> 1, authority |-> d.authority]
           line == [approval |-> lineage[r].approval, parent |-> r,
                    depth |-> lineage[r].depth + 1, permitted |-> d.permitted,
                    maxDepth |-> d.maxDepth, notBefore |-> now,
                    expiresAt |-> ChildExpiry(r, d)]
<1>0. PICK c \in Refs : /\ missions' = [missions EXCEPT ![c] = row]
                        /\ lineage' = [lineage EXCEPT ![c] = line]
  BY DEF SaveChild
<1>1. /\ missions' = [missions EXCEPT ![c] = row]
      /\ lineage' = [lineage EXCEPT ![c] = line]
      /\ row.authority = d.authority
      /\ line.approval = lineage[r].approval
  BY <1>0
<1>2. r \in Refs /\ Exists(r) /\ d.authority \subseteq Approved(r)
  BY DEF SaveChild, Linked, JobsLinked, JobFits, Backed, CopiesApproved, CopyApproved
<1>3. PICK u : u = r
  OBVIOUS
<1>4. u \in Refs /\ Exists(u) /\ row.authority \subseteq Approved(u)
  BY <1>1, <1>2, <1>3
<1>5. Approved(u) \subseteq Approved(u)'
  BY <1>4, ApprovedGrows
<1>6. lineage'[c].approval = lineage'[u].approval
  BY <1>1, <1>3, <1>4 DEF TypeOK, Kept
<1>7. Approved(c)' = Approved(u)'
  BY <1>6 DEF Approved
<1>8. CopiesApproved'
  BY FinishCopies DEF SaveChild
<1> HIDE DEF r, d, row, line
<1> QED BY <1>1, <1>4, <1>5, <1>7, <1>8, BackedWrite

\* A request that is only saved approves nothing.
LEMMA BackedRequest ==
  ASSUME TypeOK, Linked, Kept, Backed, NEW p \in Handlers, SaveExpansionRequest(p)
  PROVE  Backed'
<1>1. missions' = missions /\ Finish(p)
  BY DEF SaveExpansionRequest
<1>2. CopiesApproved'
  BY <1>1, FinishCopies
<1>3. ASSUME NEW u \in Refs, Exists(u)'
      PROVE  missions'[u].authority \subseteq Approved(u)'
  BY <1>1, <1>3, ApprovedGrows DEF Backed, AuthorityHasApproval
<1> QED BY <1>2, <1>3 DEF Backed, AuthorityHasApproval

\* A granted expansion is approved for its mission in the same step.
LEMMA BackedDecision ==
  ASSUME TypeOK, Linked, Kept, Backed, NEW p \in Handlers, CommitExpansionDecision(p)
  PROVE  Backed'
<1>1. PICK j : j = job[p]
  OBVIOUS
<1>2. /\ j \in Jobs /\ j.item \in ExpansionIds /\ CopyApproved(j) /\ j.pc = "commit"
      /\ j.ref = expansions[j.item].ref /\ j.ref \in Refs /\ Exists(j.ref)
      /\ expansions' = [expansions EXCEPT ![j.item].status = j.goal]
      /\ \/ j.goal = "approved" /\ missions' = [missions EXCEPT ![j.ref] = GrantRow(j.copy, j.item)]
         \/ missions' = missions
  BY <1>1 DEF CommitExpansionDecision, TypeOK, Linked, JobsLinked, JobFits,
              RequestsLinked, Backed, CopiesApproved
<1>3. Approved(j.ref) \subseteq Approved(j.ref)'
  BY <1>2, ApprovedGrows
<1>4. CopiesApproved'
  BY FinishCopies DEF CommitExpansionDecision
<1>5. CASE j.goal = "approved" /\ missions' = [missions EXCEPT ![j.ref] = GrantRow(j.copy, j.item)]
  <2>1. expansions'[j.item].status = "approved" /\ expansions'[j.item].ref = j.ref
    BY <1>2, <1>5 DEF TypeOK, Requests
  <2>2. AskOf[j.item] \subseteq Approved(j.ref)'
    BY <1>2, <2>1 DEF Approved
  <2>3. GrantRow(j.copy, j.item).authority \subseteq Approved(j.ref)'
    BY <1>2, <1>3, <2>2 DEF GrantRow, CopyApproved
  <2> QED BY <1>2, <1>4, <1>5, <2>3, BackedWrite
<1>6. CASE missions' = missions
  <2>1. ASSUME NEW u \in Refs, Exists(u)'
        PROVE  missions'[u].authority \subseteq Approved(u)'
    BY <1>6, <2>1, ApprovedGrows DEF Backed, AuthorityHasApproval
  <2> QED BY <1>4, <2>1 DEF Backed, AuthorityHasApproval
<1> QED BY <1>2, <1>5, <1>6

\* Every step.
LEMMA NextBacked ==
  ASSUME TypeOK, Linked, Backed, [Next]_vars
  PROVE  Backed'
<1>1. Kept
  BY NextStep
<1>2. CASE UNCHANGED <<missions, lineage, expansions, job>>
  BY <1>2 DEF Backed, AuthorityHasApproval, CopiesApproved, CopyApproved, Approved
<1>3. CASE ~UNCHANGED <<missions, lineage, expansions, job>>
  <2>1. PICK p \in Handlers : Arrive(p) \/ Continue(p) \/ CascadeChildFails(p) \/ Fail(p)
    BY <1>3 DEF Next, CreateProposal, Tick, vars, store
  <2>2. CASE Refuse(p) \/ Fail(p)
    BY <1>1, <2>2, ReadOnly, BackedFinish DEF Refuse, Fail
  <2> QED
    BY <1>1, <2>1, <2>2, BackedArrive, BackedCascade, BackedReadMission,
       BackedTransition, BackedApproval, BackedChild, BackedRequest, BackedDecision
    DEF Continue
<1> QED BY <1>2, <1>3

\* However delegations, expansions and stale overwrites overlap and whatever
\* fails, no mission holds an action that neither its tree's proposal nor an
\* expansion approved within the tree contains.
THEOREM AuthorityApproved == Spec => []AuthorityHasApproval
<1>1. Init => Backed
  BY DEF Init, Backed, AuthorityHasApproval, CopiesApproved, CopyApproved, NoMission, Idle
<1>2. TypeOK /\ Linked /\ Backed /\ [Next]_vars => Backed'
  BY NextBacked
<1>3. Backed => AuthorityHasApproval
  BY DEF Backed
<1> QED BY <1>1, <1>2, <1>3, TypesAndLinks, PTL DEF Spec
=============================================================================
