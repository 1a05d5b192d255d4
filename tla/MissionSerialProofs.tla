------------------------- MODULE MissionSerialProofs -------------------------
(***************************************************************************)
(* Proofs about handlers that do not overlap: one handler serves every     *)
(* request, as in an instance that gets one request at a time.  Its store  *)
(* calls may fail at any point of a cascade, but for the last theorem.     *)
(***************************************************************************)
EXTENDS MissionStoreProofs

USE DEF Exists, SaveMission, UpdateMission, ChildrenOf

\* The frames of a cascade hold the rows of different live missions, and d is
\* the depth in the tree at which level 0 of the cascade is.
FramesFit(todo, d) ==
    /\ \A f \in todo : /\ f.copy = missions[f.ref]
                       /\ f.copy.state \in Live
                       /\ lineage[f.ref].depth = d + f.level
    /\ \A f, g \in todo : f.ref = g.ref => f = g

\* A handler that is not overlapped holds the row it is going to overwrite.
JobCurrent(j) ==
    /\ j.pc = "transition" => /\ j.copy = missions[j.ref]
                              /\ j.copy.state \in Live
                              /\ j.goal = "suspended" => j.copy.state = "active"
                              /\ \A f \in j.todo : f.ref # j.ref
    /\ j.pc = "commit" => j.copy = missions[j.ref]
    /\ j.pc \in {"transition", "children"} =>
          /\ FramesFit(j.todo, lineage[j.ref].depth - j.level)
          /\ \A f \in j.todo : f.level <= j.level

\* An unused row is blank, and jobs are current.
Serial ==
    /\ \A r \in Refs : ~Exists(r) => missions[r] = NoMission
    /\ \A p \in Handlers : JobCurrent(job[p])

-----------------------------------------------------------------------------
(* Steps that only read.                                                   *)

\* A new job that is current.
LEMMA CurrentRead ==
  ASSUME TypeOK, Serial, UNCHANGED <<now, store>>, NEW p \in Handlers,
         NEW j, JobCurrent(j), job' = [job EXCEPT ![p] = j]
  PROVE  Serial'
<1>1. missions' = missions /\ lineage' = lineage
  BY DEF store
<1>2. ASSUME NEW h \in Handlers PROVE JobCurrent(job[h])'
  <2>1. JobCurrent(job'[h])
    BY DEF Serial, TypeOK
  <2> QED BY <1>1, <2>1 DEF JobCurrent, FramesFit
<1>3. \A r \in Refs : ~Exists(r)' => missions'[r] = NoMission
  BY <1>1 DEF Serial
<1> QED BY <1>2, <1>3 DEF Serial

\* An idle handler holds nothing.
LEMMA IdleCurrent == JobCurrent(Idle)
  BY DEF JobCurrent, Idle

\* The first read of every request.
LEMMA CurrentArrive ==
  ASSUME TypeOK, Serial, NEW p \in Handlers, Arrive(p)
  PROVE  Serial'
<1>1. PICK j : job' = [job EXCEPT ![p] = j] /\ JobCurrent(j)
  <2>1. ASSUME NEW r \in Refs, NEW goal, missions[r].state \in Live,
               goal = "suspended" => missions[r].state = "active"
        PROVE  JobCurrent([Idle EXCEPT !.pc = "transition", !.ref = r,
                                       !.copy = missions[r], !.goal = goal])
    BY <2>1 DEF JobCurrent, FramesFit, Idle
  <2>2. ASSUME NEW r, NEW goal
        PROVE  JobCurrent([Idle EXCEPT !.pc = "children", !.ref = r, !.goal = goal])
    BY DEF JobCurrent, FramesFit, Idle
  <2>3. ASSUME NEW q
        PROVE  JobCurrent([Idle EXCEPT !.pc = "approve", !.item = q])
    BY DEF JobCurrent, Idle
  <2>4. ASSUME NEW r, NEW m, NEW v
        PROVE  JobCurrent([Idle EXCEPT !.pc = "expand", !.ref = r, !.copy = m, !.seen = v])
    BY DEF JobCurrent, Idle
  <2>5. ASSUME NEW x, NEW verdict
        PROVE  JobCurrent([Idle EXCEPT !.pc = "decide", !.item = x, !.goal = verdict])
    BY DEF JobCurrent, Idle
  <2>6. ASSUME NEW r, NEW d
        PROVE  JobCurrent([Idle EXCEPT !.pc = "delegate", !.ref = r, !.terms = d])
    BY DEF JobCurrent, Idle
  <2>7. \A r \in Refs : Exists(r) /\ ~terminal(missions[r].state)
                           => missions[r].state \in Live
    BY RowType DEF Rows, States, terminal
  <2>8. CASE \E q \in ProposalIds : ApproveProposal(p, q)
    BY <2>3, <2>8 DEF ApproveProposal, Begin
  <2>9. CASE \E r \in Refs : EvaluateExpired(p, r) \/ EvaluateConditionFailed(p, r)
    <3>1. PICK r \in Refs, goal \in {"expired", "suspended"} :
            /\ missions[r].state \in Live
            /\ goal = "suspended" => missions[r].state = "active"
            /\ job' = [job EXCEPT ![p] = [Idle EXCEPT !.pc = "transition", !.ref = r,
                                                      !.copy = missions[r], !.goal = goal]]
      BY <2>7, <2>9 DEF EvaluateExpired, EvaluateConditionFailed, Begin, Live
    <3> QED BY <2>1, <3>1
  <2>10. CASE \E r \in Refs : Revoke(p, r) \/ Complete(p, r)
    <3>1. PICK r \in Refs, goal \in {"revoked", "completed"} :
            \/ /\ missions[r].state \in Live
               /\ job' = [job EXCEPT ![p] = [Idle EXCEPT !.pc = "transition", !.ref = r,
                                                !.copy = missions[r], !.goal = goal]]
            \/ job' = [job EXCEPT ![p] = [Idle EXCEPT !.pc = "children", !.ref = r,
                                                !.goal = goal]]
      BY <2>7, <2>10 DEF Revoke, Complete, ChangeState, Begin
    <3> QED BY <2>1, <2>2, <3>1
  <2>11. CASE \E r \in Refs : \E d \in DelegationTerms : Delegate(p, r, d)
    BY <2>6, <2>11 DEF Delegate, Begin
  <2>12. CASE \E r \in Refs : \E ahead \in 0..SeenAhead : CreateExpansionRequest(p, r, ahead)
    <3>1. PICK r \in Refs, ahead \in 0..SeenAhead :
            job' = [job EXCEPT ![p] = [Idle EXCEPT !.pc = "expand", !.ref = r,
                      !.copy = missions[r], !.seen = missions[r].version + ahead]]
      BY <2>12 DEF CreateExpansionRequest, Begin
    <3> QED BY <2>4, <3>1
  <2>13. CASE \E x \in ExpansionIds, verdict \in Verdicts :
                 DecideExpansionRequest(p, x, verdict)
    BY <2>5, <2>13 DEF DecideExpansionRequest, Begin
  <2> QED BY <2>8, <2>9, <2>10, <2>11, <2>12, <2>13, Arrive(p) DEF Arrive
<1> QED BY <1>1, ReadOnly, CurrentRead

\* The cascade goes on with a frame that fits.
LEMMA CurrentProceed ==
  ASSUME TypeOK, Serial, UNCHANGED <<now, store>>, NEW p \in Handlers,
         NEW todo \in SUBSET Frames, NEW d \in Int, FramesFit(todo, d),
         Proceed(p, todo)
  PROVE  Serial'
<1>1. CASE Finish(p)
  BY <1>1, IdleCurrent, CurrentRead DEF Finish
<1>2. CASE ~Finish(p)
  <2>1. PICK f \in todo :
          /\ \A g \in todo : g.level <= f.level
          /\ job' = [job EXCEPT ![p] =
                [Idle EXCEPT !.pc = "transition", !.ref = f.ref, !.copy = f.copy,
                             !.goal = "revoked", !.level = f.level,
                             !.todo = todo \ {f}]]
    BY <1>2 DEF Proceed
  <2>2. PICK j : j = [Idle EXCEPT !.pc = "transition", !.ref = f.ref, !.copy = f.copy,
                                  !.goal = "revoked", !.level = f.level,
                                  !.todo = todo \ {f}]
    OBVIOUS
  <2>3. /\ j.pc = "transition" /\ j.ref = f.ref /\ j.copy = f.copy /\ j.goal = "revoked"
        /\ j.level = f.level /\ j.todo = todo \ {f}
    BY <2>2 DEF Idle
  <2>4. lineage[f.ref].depth - f.level = d
    <3>1. f.ref \in Refs /\ f.level \in Nat
      BY DEF Frames
    <3>2. lineage[f.ref].depth \in Nat
      BY <3>1 DEF TypeOK, Lineages
    <3> QED BY <3>1, <3>2 DEF FramesFit
  <2>5. JobCurrent(j)
    BY <2>1, <2>3, <2>4 DEF JobCurrent, FramesFit
  <2> QED BY <2>1, <2>2, <2>5, CurrentRead
<1> QED BY <1>1, <1>2

\* The children the cascade reads are deeper than all it still has to visit.
LEMMA CurrentCascade ==
  ASSUME TypeOK, Linked, Tree, Serial, NEW p \in Handlers,
         cascade(p) \/ CascadeChildFails(p)
  PROVE  Serial'
<1>1. PICK j : j = job[p]
  OBVIOUS
<1>2. /\ j \in Jobs /\ JobFits(j) /\ JobCurrent(j) /\ j.pc \in {"transition", "children"}
      /\ UNCHANGED <<now, store>>
  BY <1>1, ReadOnly DEF cascade, CascadeChildFails, TypeOK, Linked, JobsLinked, Serial
<1>3. j.ref \in Refs /\ j.level \in Nat /\ j.todo \subseteq Frames
  BY <1>2 DEF Jobs, JobFits
<1>4. lineage[j.ref].depth \in Nat
  BY <1>3 DEF TypeOK, Lineages
<1>5. PICK d : d = lineage[j.ref].depth - j.level
  OBVIOUS
<1>6. d \in Int /\ FramesFit(j.todo, d) /\ \A f \in j.todo : f.level <= j.level
  BY <1>2, <1>3, <1>4, <1>5 DEF JobCurrent
<1>7. PICK children :
        children = {[ref |-> c, copy |-> missions[c], level |-> j.level + 1] :
                        c \in LiveChildren(j.ref)}
  OBVIOUS
<1>8. ASSUME NEW f \in children
      PROVE  /\ f \in Frames /\ f.copy = missions[f.ref] /\ f.copy.state \in Live
             /\ lineage[f.ref].depth = d + f.level
             /\ f.level = j.level + 1
  <2>1. PICK c \in LiveChildren(j.ref) :
            f = [ref |-> c, copy |-> missions[c], level |-> j.level + 1]
    BY <1>7
  <2>2. c \in Refs /\ lineage[c].parent = j.ref /\ missions[c].state \in Live
    BY DEF LiveChildren
  <2>3. lineage[c].depth = lineage[j.ref].depth + 1
    BY <1>3, <2>2, NoneAssumption DEF Tree, DelegationNested
  <2>4. f.ref = c /\ f.copy = missions[c] /\ f.level = j.level + 1
    BY <2>1
  <2>5. f \in Frames
    BY <1>3, <2>1, <2>2 DEF Frames, TypeOK
  <2> QED BY <1>3, <1>4, <1>5, <2>2, <2>3, <2>4, <2>5
<1>9. FramesFit(j.todo \cup children, d)
  <2>1. ASSUME NEW f \in j.todo \cup children
        PROVE  /\ f.copy = missions[f.ref] /\ f.copy.state \in Live
               /\ lineage[f.ref].depth = d + f.level
    BY <1>6, <1>8 DEF FramesFit
  <2>2. ASSUME NEW f \in j.todo, NEW g \in children PROVE f.ref # g.ref
    <3>1. /\ lineage[f.ref].depth = d + f.level /\ f.level <= j.level /\ f.level \in Nat
      BY <1>3, <1>6 DEF FramesFit, Frames
    <3>2. lineage[g.ref].depth = d + (j.level + 1)
      BY <1>8
    <3> QED BY <1>3, <1>6, <3>1, <3>2
  <2>3. ASSUME NEW f \in children, NEW g \in children, f.ref = g.ref PROVE f = g
    BY <1>7, <2>3
  <2>4. \A f, g \in j.todo : f.ref = g.ref => f = g
    BY <1>6 DEF FramesFit
  <2> QED BY <2>1, <2>2, <2>3, <2>4 DEF FramesFit
<1>10. j.todo \cup children \subseteq Frames
  BY <1>3, <1>8
<1>11. Proceed(p, j.todo \cup children) \/ Proceed(p, j.todo)
  BY <1>1, <1>7 DEF cascade, CascadeChildFails
<1> QED BY <1>2, <1>3, <1>6, <1>9, <1>10, <1>11, CurrentProceed

\* A decision copies the row of its mission.
LEMMA CurrentReadMission ==
  ASSUME TypeOK, Serial, NEW p \in Handlers, ReadMissionToDecide(p)
  PROVE  Serial'
<1> DEFINE r == expansions[job[p].item].ref
<1>1. PICK j : j = [job[p] EXCEPT !.pc = "commit", !.ref = r, !.copy = missions[r]]
  OBVIOUS
<1>2. j.pc = "commit" /\ j.ref = r /\ j.copy = missions[r]
  BY <1>1 DEF TypeOK, Jobs
<1>3. JobCurrent(j)
  BY <1>2 DEF JobCurrent
<1>4. job' = [job EXCEPT ![p] = j]
  BY <1>1 DEF ReadMissionToDecide, TypeOK
<1> QED BY <1>3, <1>4, ReadOnly, CurrentRead

-----------------------------------------------------------------------------
(* Steps that write, with one handler.                                     *)

\* A write after which the only handler has returned.
LEMMA CurrentWrite ==
  ASSUME TypeOK, Serial, NEW p \in Handlers, Handlers = {p}, Finish(p),
         \/ missions' = missions
         \/ \E r \in Refs : \E row : /\ missions' = [missions EXCEPT ![r] = row]
                                     /\ row.state # "none"
  PROVE  Serial'
<1>1. JobCurrent(job[p])'
  BY DEF Finish, TypeOK, JobCurrent, Idle
<1>2. ASSUME NEW u \in Refs, ~Exists(u)' PROVE missions'[u] = NoMission
  <2>1. missions'[u] = missions[u]
    BY <1>2 DEF TypeOK
  <2> QED BY <1>2, <2>1 DEF Serial
<1> QED BY <1>1, <1>2 DEF Serial

\* The handler goes on with frames none of which is the row it has written.
LEMMA CurrentTransition ==
  ASSUME TypeOK, Linked, Serial, NEW p \in Handlers, Handlers = {p}, transition(p)
  PROVE  Serial'
<1>1. PICK j : j = job[p]
  OBVIOUS
<1>2. /\ j \in Jobs /\ JobFits(j) /\ JobCurrent(j) /\ j.pc = "transition"
      /\ missions' = [missions EXCEPT ![j.ref] = TransitionRow(j.copy, j.goal)]
      /\ lineage' = lineage
  BY <1>1 DEF transition, TypeOK, Linked, JobsLinked, Serial
<1>3. j.ref \in Refs /\ TransitionRow(j.copy, j.goal).state # "none"
  BY <1>2 DEF JobFits, TransitionRow, Terminal
<1>4. CASE ~Cascades(j.goal)
  <2>1. Finish(p)
    BY <1>1, <1>4 DEF transition
  <2> QED BY <1>2, <1>3, <2>1, CurrentWrite
<1>5. CASE Cascades(j.goal)
  <2>1. PICK k : k = [j EXCEPT !.pc = "children", !.copy = NoMission]
    OBVIOUS
  <2>2. k.pc = "children" /\ k.ref = j.ref /\ k.level = j.level /\ k.todo = j.todo
    BY <1>2, <2>1 DEF Jobs
  <2>3. job'[p] = k
    BY <1>1, <1>5, <2>1 DEF transition, TypeOK
  <2>4. ASSUME NEW f \in j.todo PROVE missions'[f.ref] = missions[f.ref]
    <3>1. f.ref \in Refs /\ f.ref # j.ref
      BY <1>2 DEF Jobs, Frames, JobCurrent
    <3> QED BY <1>2, <3>1 DEF TypeOK
  <2>5. FramesFit(k.todo, lineage[k.ref].depth - k.level)'
    BY <1>2, <2>2, <2>4 DEF JobCurrent, FramesFit
  <2>6. JobCurrent(job[p])'
    BY <1>2, <2>2, <2>3, <2>5 DEF JobCurrent
  <2>7. ASSUME NEW u \in Refs, ~Exists(u)' PROVE missions'[u] = NoMission
    <3>1. missions'[u] = missions[u]
      BY <1>2, <1>3, <2>7 DEF TypeOK
    <3> QED BY <2>7, <3>1 DEF Serial
  <2> QED BY <2>6, <2>7 DEF Serial
<1> QED BY <1>4, <1>5

\* Every step.
LEMMA NextSerial ==
  ASSUME TypeOK, Linked, Tree, Serial, NEW only, Handlers = {only}, [Next]_vars
  PROVE  Serial'
<1>1. CASE UNCHANGED <<missions, lineage, job>>
  BY <1>1 DEF Serial, JobCurrent, FramesFit
<1>2. ASSUME NEW p \in Handlers, Arrive(p) \/ cascade(p) \/ CascadeChildFails(p)
      PROVE  Serial'
  BY <1>2, CurrentArrive, CurrentCascade
<1>3. ASSUME NEW p \in Handlers, ReadMissionToDecide(p) PROVE Serial'
  BY <1>3, CurrentReadMission
<1>4. ASSUME NEW p \in Handlers, Refuse(p) \/ Fail(p) PROVE Serial'
  BY <1>4, CurrentWrite DEF Refuse, Fail, store
<1>5. ASSUME NEW p \in Handlers, transition(p) PROVE Serial'
  BY <1>5, CurrentTransition
<1>6. ASSUME NEW p \in Handlers, CommitProposalApproval(p) PROVE Serial'
  <2> DEFINE row == [state |-> "active", version |-> 1,
                     authority |-> TermsOf[job[p].item].authority]
  <2>1. PICK r \in Refs : missions' = [missions EXCEPT ![r] = row]
    BY <1>6 DEF CommitProposalApproval
  <2>2. row.state # "none" /\ Finish(p)
    BY <1>6 DEF CommitProposalApproval
  <2> HIDE DEF row
  <2> QED BY <2>1, <2>2, CurrentWrite
<1>7. ASSUME NEW p \in Handlers, SaveChild(p) PROVE Serial'
  <2> DEFINE row == [state |-> "active", version |-> 1,
                     authority |-> job[p].terms.authority]
  <2>1. PICK r \in Refs : missions' = [missions EXCEPT ![r] = row]
    BY <1>7 DEF SaveChild
  <2>2. row.state # "none" /\ Finish(p)
    BY <1>7 DEF SaveChild
  <2> HIDE DEF row
  <2> QED BY <2>1, <2>2, CurrentWrite
<1>8. ASSUME NEW p \in Handlers, SaveExpansionRequest(p) PROVE Serial'
  BY <1>8, CurrentWrite DEF SaveExpansionRequest
<1>9. ASSUME NEW p \in Handlers, CommitExpansionDecision(p) PROVE Serial'
  <2>1. PICK j : j = job[p]
    OBVIOUS
  <2>2. /\ j.pc = "commit" /\ JobFits(j) /\ Finish(p)
        /\ \/ missions' = missions
           \/ /\ j.goal = "approved"
              /\ missions' = [missions EXCEPT ![j.ref] = GrantRow(j.copy, j.item)]
    BY <1>9, <2>1 DEF CommitExpansionDecision, Linked, JobsLinked
  <2>3. j.ref \in Refs
    BY <2>2 DEF JobFits, Linked, RequestsLinked
  <2>4. j.goal = "approved" => GrantRow(j.copy, j.item).state # "none"
    BY <2>2 DEF JobFits, GrantRow
  <2> QED BY <2>2, <2>3, <2>4, CurrentWrite
<1>10. CASE \/ \E q \in ProposalIds : CreateProposal(q)
            \/ Tick \/ UNCHANGED vars
  BY <1>1, <1>10 DEF CreateProposal, Tick, vars, store
<1> QED BY <1>2, <1>3, <1>4, <1>5, <1>6, <1>7, <1>8, <1>9, <1>10 DEF Next, Continue

\* With one handler, what the handler holds is what the store holds.
THEOREM SerialInvariant ==
  ASSUME NEW only, Handlers = {only}
  PROVE  Spec => [](TypeOK /\ Linked /\ Tree /\ Serial)
<1>1. Init => Serial
  BY DEF Init, Serial, JobCurrent, Idle, NoMission
<1>2. TypeOK /\ Linked /\ Tree /\ Serial /\ [Next]_vars => Serial'
  BY NextSerial
<1> QED BY <1>1, <1>2, TreeInvariant, PTL DEF Spec

-----------------------------------------------------------------------------
(* The contract of a mission, step by step.                                *)

\* A transition of the current row.
LEMMA TransitionContract ==
  ASSUME TypeOK, Linked, Serial, NEW p \in Handlers, transition(p)
  PROVE  Contract!Next
<1>1. PICK j : j = job[p]
  OBVIOUS
<1>2. /\ j \in Jobs /\ JobFits(j) /\ JobCurrent(j) /\ j.pc = "transition"
      /\ missions' = [missions EXCEPT ![j.ref] = TransitionRow(j.copy, j.goal)]
  BY <1>1 DEF transition, TypeOK, Linked, JobsLinked, Serial
<1>3. /\ j.ref \in Refs /\ j.copy = missions[j.ref] /\ missions[j.ref].state \in Live
      /\ j.goal = "suspended" => missions[j.ref].state = "active"
      /\ j.goal \in Terminal \cup {"suspended"}
  BY <1>2 DEF JobFits, JobCurrent
<1>4. Contract!Write(j.ref, j.goal, missions[j.ref].authority)
  BY <1>2, <1>3 DEF TransitionRow, Contract!Write
<1>5. Contract!Suspend(j.ref) \/ Contract!Close(j.ref)
  BY <1>3, <1>4 DEF Contract!Suspend, Contract!Close, Contract!Final, Live, Terminal
<1> QED BY <1>3, <1>5 DEF Contract!Next

\* A creation uses a blank row.
LEMMA CreationContract ==
  ASSUME TypeOK, Linked, Serial, NEW p \in Handlers,
         CommitProposalApproval(p) \/ SaveChild(p)
  PROVE  Contract!Next
<1>1. PICK a : a = IF job[p].pc = "approve" THEN TermsOf[job[p].item].authority
                                            ELSE job[p].terms.authority
  OBVIOUS
<1>2. a \in SUBSET Actions
  BY <1>1, TermsAssumption
  DEF CommitProposalApproval, SaveChild, TypeOK, Jobs, Terms, Linked, JobsLinked, JobFits
<1>3. PICK r \in Refs :
        /\ ~Exists(r)
        /\ missions' = [missions EXCEPT ![r] =
              [state |-> "active", version |-> 1, authority |-> a]]
  BY <1>1 DEF CommitProposalApproval, SaveChild
<1>4. missions[r] = NoMission
  BY <1>3 DEF Serial
<1>5. missions[r] = Contract!Unborn /\ missions[r].version + 1 = 1
  BY <1>4 DEF NoMission, Contract!Unborn
<1>6. Contract!Create(r)
  BY <1>2, <1>3, <1>5 DEF Contract!Create, Contract!Write
<1> QED BY <1>6 DEF Contract!Next

\* A grant is made to the active row the decision has read.
LEMMA DecisionContract ==
  ASSUME TypeOK, Linked, Serial, NEW p \in Handlers, CommitExpansionDecision(p)
  PROVE  [Contract!Next]_missions
<1>1. PICK j : j = job[p]
  OBVIOUS
<1>2. /\ j.pc = "commit" /\ j \in Jobs /\ JobFits(j) /\ JobCurrent(j)
      /\ \/ missions' = missions
         \/ /\ j.goal = "approved"
            /\ missions' = [missions EXCEPT ![j.ref] = GrantRow(j.copy, j.item)]
  BY <1>1 DEF CommitExpansionDecision, Linked, JobsLinked, TypeOK, Serial
<1>3. CASE missions' # missions
  <2>1. /\ j.ref \in Refs /\ j.item \in ExpansionIds /\ j.copy = missions[j.ref]
        /\ missions[j.ref].state = "active"
    BY <1>2, <1>3 DEF JobFits, Linked, RequestsLinked, JobCurrent
  <2>2. AskOf[j.item] \in SUBSET Actions
    BY <2>1, TermsAssumption
  <2>3. Contract!Write(j.ref, "active", missions[j.ref].authority \cup AskOf[j.item])
    BY <1>2, <1>3, <2>1 DEF GrantRow, Contract!Write
  <2>4. Contract!Grant(j.ref)
    BY <2>1, <2>2, <2>3 DEF Contract!Grant
  <2> QED BY <2>1, <2>4 DEF Contract!Next
<1> QED BY <1>3

\* With one handler every step of the service is a step of the contract, or
\* leaves the missions alone: nothing is lost, swapped or brought back.
THEOREM SerialContract ==
  ASSUME NEW only, Handlers = {only}
  PROVE  Spec => ImplementsContract
<1>1. Init => Contract!Init
  BY DEF Init, Contract!Init, NoMission, Contract!Unborn
<1>2. TypeOK /\ Linked /\ Tree /\ Serial /\ [Next]_vars => [Contract!Next]_missions
  BY StoreStep, TransitionContract, CreationContract, DecisionContract
<1> QED BY <1>1, <1>2, SerialInvariant, PTL DEF Spec, ImplementsContract, Contract!Spec

-----------------------------------------------------------------------------
(* The ledger as the history of a mission.                                 *)

\* The entries that tell of the step to version v.
StepEntries(r, v) == {e \in events : e.ref = r /\ e.before = v - 1 /\ e.after = v}

\* LedgerIsChain with the entries themselves in place of their number, and no
\* entry telling of a version that is still to come.
Chained ==
    \A r \in Refs :
        /\ \A v \in 1..missions[r].version : \E e : StepEntries(r, v) = {e}
        /\ \A e \in events : e.ref = r /\ e.after = e.before + 1
                                => e.after <= missions[r].version

\* The entries of a version, counted.
LEMMA ChainedCounted == Chained => LedgerIsChain
<1> SUFFICES ASSUME Chained, NEW r \in Refs, NEW v \in 1..missions[r].version
             PROVE  Cardinality(StepEntries(r, v)) = 1
  BY DEF LedgerIsChain, StepEntries
<1>1. PICK e : StepEntries(r, v) = {e}
  BY DEF Chained
<1> QED BY <1>1, FS_Singleton

\* A step that changes no mission and adds no entry of a change.
LEMMA ChainedSame ==
  ASSUME TypeOK, TypeOK', Chained, events \subseteq events',
         \A r \in Refs : missions'[r].version = missions[r].version,
         \A e \in events' : e \in events \/ e.ref \notin Refs \/ e.after = e.before
  PROVE  Chained'
<1>1. ASSUME NEW r \in Refs, NEW v \in 1..missions[r].version
      PROVE  StepEntries(r, v)' = StepEntries(r, v)
  <2>1. v - 1 # v
    BY RowType DEF Rows
  <2> QED BY <2>1 DEF StepEntries
<1>2. ASSUME NEW r \in Refs, NEW e \in events', e.ref = r, e.after = e.before + 1
      PROVE  e.after <= missions'[r].version
  <2>1. e.before \in Nat
    BY DEF TypeOK, Events
  <2>2. e \in events
    BY <1>2, <2>1
  <2> QED BY <1>2, <2>2 DEF Chained
<1> QED BY <1>1, <1>2 DEF Chained

\* A write of the next version together with its entry.
LEMMA ChainedWrite ==
  ASSUME TypeOK, TypeOK', Chained, NEW r \in Refs, NEW row,
         missions' = [missions EXCEPT ![r] = row],
         row.version = missions[r].version + 1,
         NEW e, events' = events \cup {e},
         e.ref = r, e.before = missions[r].version, e.after = missions[r].version + 1
  PROVE  Chained'
<1>1. missions[r].version \in Nat
  BY RowType DEF Rows
<1>2. missions'[r].version = missions[r].version + 1
  BY DEF TypeOK
<1>3. ASSUME NEW u \in Refs, u # r
      PROVE  /\ missions'[u] = missions[u]
             /\ \A v : StepEntries(u, v)' = StepEntries(u, v)
  BY <1>3 DEF TypeOK, StepEntries
<1>4. ASSUME NEW v \in 1..missions'[r].version
      PROVE  \E f : StepEntries(r, v)' = {f}
  <2>1. CASE v = missions[r].version + 1
    <3>1. ASSUME NEW f \in StepEntries(r, v) PROVE FALSE
      <4>1. /\ f \in events /\ f.ref = r /\ f.before = v - 1 /\ f.after = v
        BY DEF StepEntries
      <4>2. f.after = f.before + 1
        BY <1>1, <2>1, <4>1
      <4>3. f.after <= missions[r].version
        BY <4>1, <4>2 DEF Chained
      <4> QED BY <1>1, <2>1, <4>1, <4>3
    <3>2. v - 1 = missions[r].version
      BY <1>1, <2>1
    <3>3. StepEntries(r, v)' = {e}
      BY <2>1, <3>1, <3>2 DEF StepEntries
    <3> QED BY <3>3
  <2>2. CASE v # missions[r].version + 1
    <3>1. v \in 1..missions[r].version
      BY <1>1, <1>2, <2>2
    <3>2. StepEntries(r, v)' = StepEntries(r, v)
      BY <2>2 DEF StepEntries
    <3>3. \E f : StepEntries(r, v) = {f}
      BY <3>1 DEF Chained
    <3> QED BY <3>2, <3>3
  <2> QED BY <2>1, <2>2
<1>5. ASSUME NEW f \in events', f.ref = r, f.after = f.before + 1
      PROVE  f.after <= missions'[r].version
  <2>1. CASE f = e
    BY <1>1, <1>2, <2>1
  <2>2. CASE f \in events
    <3>1. f.after <= missions[r].version /\ f.after \in Nat
      BY <1>5, <2>2 DEF Chained, TypeOK, Events
    <3> QED BY <1>1, <1>2, <3>1
  <2> QED BY <2>1, <2>2
<1>6. ASSUME NEW u \in Refs, u # r, NEW f \in events', f.ref = u, f.after = f.before + 1
      PROVE  f.after <= missions'[u].version
  BY <1>3, <1>6 DEF Chained
<1>7. ASSUME NEW u \in Refs, u # r, NEW v \in 1..missions'[u].version
      PROVE  \E f : StepEntries(u, v)' = {f}
  <2>1. missions'[u] = missions[u] /\ StepEntries(u, v)' = StepEntries(u, v)
    BY <1>3, <1>7
  <2>2. \E f : StepEntries(u, v) = {f}
    BY <1>7, <2>1 DEF Chained
  <2> QED BY <2>1, <2>2
<1>8. \A u \in Refs : \A v \in 1..missions'[u].version : \E f : StepEntries(u, v)' = {f}
  BY <1>4, <1>7
<1>9. \A u \in Refs : \A f \in events' : f.ref = u /\ f.after = f.before + 1
                                           => f.after <= missions'[u].version
  BY <1>5, <1>6
<1> QED BY <1>8, <1>9 DEF Chained

\* Every step, when no append is lost.
LEMMA NextChained ==
  ASSUME TypeOK, TypeOK', Linked, Serial, Chained, "append" \notin Faults, [Next]_vars
  PROVE  Chained'
<1>1. events \subseteq events'
  BY LedgerGrows
<1>2. CASE UNCHANGED <<missions, events>>
  BY <1>1, <1>2, ChainedSame
<1>3. ASSUME NEW q \in ProposalIds, CreateProposal(q) PROVE Chained'
  <2>1. missions' = missions /\ \A e \in events' : e \in events \/ e.ref = None
    BY <1>3 DEF CreateProposal, AppendEvent, Committed, EventOf
  <2> QED BY <1>1, <2>1, NoneAssumption, ChainedSame
<1>4. ASSUME NEW p \in Handlers, SaveExpansionRequest(p) PROVE Chained'
  <2>1. missions' = missions /\ \A e \in events' : e \in events \/ e.after = e.before
    BY <1>4 DEF SaveExpansionRequest, AppendEvent, Committed, EventOf
  <2> QED BY <1>1, <2>1, ChainedSame
<1>5. ASSUME NEW p \in Handlers, CommitProposalApproval(p) PROVE Chained'
  <2> DEFINE q == job[p].item
             row == [state |-> "active", version |-> 1, authority |-> TermsOf[q].authority]
  <2>1. PICK r \in Refs : /\ ~Exists(r)
                          /\ missions' = [missions EXCEPT ![r] = row]
                          /\ events' = events \cup {EventOf("activated", r, q, 0, 1)}
    BY <1>5 DEF CommitProposalApproval, Committed
  <2>2. missions[r].version = 0
    BY <2>1 DEF Serial, NoMission
  <2>3. PICK e : e = EventOf("activated", r, q, 0, 1)
    OBVIOUS
  <2>4. e.ref = r /\ e.before = 0 /\ e.after = 0 + 1 /\ row.version = 0 + 1
    BY <2>3 DEF EventOf
  <2> HIDE DEF row, q
  <2> QED BY <2>1, <2>2, <2>3, <2>4, ChainedWrite
<1>6. ASSUME NEW p \in Handlers, SaveChild(p) PROVE Chained'
  <2> DEFINE row == [state |-> "active", version |-> 1, authority |-> job[p].terms.authority]
  <2>1. PICK r \in Refs : /\ ~Exists(r)
                          /\ missions' = [missions EXCEPT ![r] = row]
                          /\ events' = events \cup {EventOf("delegated", r, None, 0, 1)}
    BY <1>6 DEF SaveChild, AppendEvent, Committed
  <2>2. missions[r].version = 0
    BY <2>1 DEF Serial, NoMission
  <2>3. PICK e : e = EventOf("delegated", r, None, 0, 1)
    OBVIOUS
  <2>4. e.ref = r /\ e.before = 0 /\ e.after = 0 + 1 /\ row.version = 0 + 1
    BY <2>3 DEF EventOf
  <2> HIDE DEF row
  <2> QED BY <2>1, <2>2, <2>3, <2>4, ChainedWrite
<1>7. ASSUME NEW p \in Handlers, transition(p) PROVE Chained'
  <2>1. PICK j : j = job[p]
    OBVIOUS
  <2>2. /\ j.ref \in Refs /\ j.copy = missions[j.ref]
        /\ missions' = [missions EXCEPT ![j.ref] = TransitionRow(j.copy, j.goal)]
        /\ events' = events \cup {StateEvent(j.goal, j.ref, j.copy.version)}
    BY <1>7, <2>1 DEF transition, AppendEvent, Committed, Linked, JobsLinked, JobFits,
         Serial, JobCurrent
  <2>3. PICK e : e = StateEvent(j.goal, j.ref, j.copy.version)
    OBVIOUS
  <2>4. e.ref = j.ref /\ e.before = j.copy.version /\ e.after = j.copy.version + 1
    BY <2>3 DEF StateEvent, EventOf
  <2>5. TransitionRow(j.copy, j.goal).version = j.copy.version + 1
    BY DEF TransitionRow
  <2> QED BY <2>2, <2>3, <2>4, <2>5, ChainedWrite
<1>8. ASSUME NEW p \in Handlers, CommitExpansionDecision(p) PROVE Chained'
  <2>1. PICK j : j = job[p]
    OBVIOUS
  <2>2. CASE j.goal = "denied"
    <3>1. missions' = missions /\ \A e \in events' : e \in events \/ e.after = e.before
      BY <1>8, <2>1, <2>2 DEF CommitExpansionDecision, Committed, EventOf
    <3> QED BY <1>1, <3>1, ChainedSame
  <2>3. CASE j.goal = "approved"
    <3>1. PICK e : e = EventOf("expansion_approved", j.ref, j.item, j.copy.version,
                               j.copy.version + 1)
      OBVIOUS
    <3>2. /\ j.pc = "commit" /\ j \in Jobs /\ JobFits(j) /\ JobCurrent(j)
          /\ missions' = [missions EXCEPT ![j.ref] = GrantRow(j.copy, j.item)]
          /\ events' = events \cup {e}
      BY <1>8, <2>1, <2>3, <3>1 DEF CommitExpansionDecision, Committed, TypeOK, Linked,
           JobsLinked, Serial
    <3>3. /\ j.ref \in Refs /\ j.copy = missions[j.ref]
      BY <3>2 DEF JobFits, JobCurrent, Linked, RequestsLinked
    <3>4. e.ref = j.ref /\ e.before = j.copy.version /\ e.after = j.copy.version + 1
      BY <3>1 DEF EventOf
    <3>5. GrantRow(j.copy, j.item).version = j.copy.version + 1
      BY DEF GrantRow
    <3> QED BY <3>2, <3>3, <3>4, <3>5, ChainedWrite
  <2> QED BY <1>8, <2>1, <2>2, <2>3 DEF CommitExpansionDecision
<1>9. ASSUME NEW p \in Handlers,
             \/ Arrive(p) \/ cascade(p) \/ ReadMissionToDecide(p) \/ Refuse(p)
             \/ CascadeChildFails(p) \/ Fail(p)
      PROVE  Chained'
  BY <1>2, <1>9, ReadOnly DEF store
<1>10. CASE Tick \/ UNCHANGED vars
  BY <1>2, <1>10 DEF Tick, vars, store
<1> QED BY <1>3, <1>4, <1>5, <1>6, <1>7, <1>8, <1>9, <1>10 DEF Next, Continue

\* With one handler and no lost append the ledger has one entry per version.
THEOREM SerialLedger ==
  ASSUME NEW only, Handlers = {only}, "append" \notin Faults
  PROVE  Spec => []LedgerIsChain
<1>1. Init => Chained
  BY DEF Init, Chained, NoMission
<1>2. TypeOK /\ TypeOK' /\ Linked /\ Serial /\ Chained /\ [Next]_vars => Chained'
  BY NextChained
<1> QED BY <1>1, <1>2, ChainedCounted, SerialInvariant, PTL DEF Spec

-----------------------------------------------------------------------------
(* What a cascade leaves below a closed mission.                           *)

Closed(r) == missions[r].state \in {"completed", "revoked"}

\* A mission that is past its expiry stays so.
Past(r) == lineage[r].expiresAt # 0 /\ now > lineage[r].expiresAt

\* The cascade has yet to visit c: it has c on its list, is about to close it, or
\* is about to list the children of its parent.
Pending(c) ==
    \E p \in Handlers :
        \/ /\ job[p].pc \in {"transition", "children"}
           /\ \E f \in job[p].todo : f.ref = c
        \/ job[p].pc = "transition" /\ job[p].ref = c /\ Cascades(job[p].goal)
        \/ job[p].pc = "children" /\ job[p].ref = lineage[c].parent

\* What a handler that is not overlapped knows of the mission it is at.
JobTells(j) ==
    /\ j.pc = "transition" /\ ~Cascades(j.goal) => j.todo = {}
    /\ j.pc = "transition" /\ j.goal = "expired" /\ lineage[j.ref].parent # None
          => Past(j.ref)
    /\ j.pc = "delegate" => missions[j.ref].state = "active"

\* Below a closed mission nothing is live but what the cascade has yet to visit,
\* and a child is only made "expired" when it is past its expiry.
ChildShut(c) ==
    lineage[c].parent # None =>
        /\ lineage[c].notBefore <= now
        /\ missions[c].state = "expired" => Past(c)
        /\ Closed(lineage[c].parent) => missions[c].state \notin Live \/ Pending(c)

Subtrees ==
    /\ \A c \in Refs : ChildShut(c)
    /\ \A p \in Handlers : JobTells(job[p])

\* With no cascade under way, what is below a closed mission or one past its expiry
\* is closed or past its expiry itself, and so on down the tree.
LEMMA SubtreesUnusable ==
  ASSUME TypeOK, Tree, Subtrees
  PROVE  RevokedSubtreeUnusable
<1> DEFINE Gone(c) == Closed(c) \/ Past(c)
<1> SUFFICES ASSUME \A p \in Handlers : job[p] = Idle,
                    NEW c \in Refs, NEW a \in Ancestors(c), Closed(a)
             PROVE  missions[c].state \notin Live \/ expired(c)
  BY DEF RevokedSubtreeUnusable, Closed
<1>1. ASSUME NEW b \in Refs, lineage[b].parent # None, Gone(lineage[b].parent)
      PROVE  Gone(b)
  <2>1. PICK u : u = lineage[b].parent
    OBVIOUS
  <2>2. /\ u \in Refs /\ Exists(b) /\ ChildShut(b)
        /\ lineage[u].expiresAt # 0 => lineage[b].expiresAt \in 1..lineage[u].expiresAt
        /\ lineage[u].expiresAt \in Nat /\ now \in Nat
    <3>1. Rooted /\ DelegationNested
      BY DEF Tree
    <3>2. u \in Refs /\ Exists(b)
      BY <1>1, <2>1, <3>1 DEF Rooted, NoLineage
    <3>3. lineage[u].expiresAt # 0 => lineage[b].expiresAt \in 1..lineage[u].expiresAt
      BY <1>1, <2>1, <3>1 DEF DelegationNested
    <3> QED BY <3>2, <3>3 DEF TypeOK, Lineages, Subtrees
  <2>3. CASE Past(u)
    BY <2>2, <2>3 DEF Past
  <2>4. CASE Closed(u)
    <3>1. ~Pending(b)
      BY DEF Pending, Idle
    <3>2. missions[b].state \notin Live
      BY <1>1, <2>1, <2>2, <2>4, <3>1 DEF ChildShut
    <3>3. missions[b].state \in {"completed", "revoked", "expired"}
      BY <2>2, <3>2, RowType DEF Rows, States, Terminal
    <3> QED BY <1>1, <2>2, <3>3 DEF ChildShut, Closed
  <2> QED BY <1>1, <2>1, <2>3, <2>4
<1>2. ASSUME ~Gone(c) PROVE FALSE
  <2>1. PICK S : S = {b \in Refs : ~Gone(b)}
    OBVIOUS
  <2>2. \A b \in S \cup {c} : lineage[b].parent \in S \cup {None}
    <3>1. ASSUME NEW b \in S \cup {c}, lineage[b].parent # None PROVE lineage[b].parent \in S
      <4>1. b \in Refs /\ ~Gone(b)
        BY <1>2, <2>1
      <4>2. lineage[b].parent \in Refs
        BY <3>1, <4>1 DEF Tree, Rooted
      <4> QED BY <1>1, <2>1, <3>1, <4>1, <4>2
    <3> QED BY <3>1
  <2>3. a \in S
    BY <2>1, <2>2 DEF Ancestors
  <2> QED BY <2>1, <2>3
<1>3. Past(c) => expired(c)
  BY DEF Past, expired
<1>4. Closed(c) => missions[c].state \notin Live
  BY DEF Closed, Live
<1> QED BY <1>2, <1>3, <1>4

\* A step that changes no state of a mission.
LEMMA SubtreesRead ==
  ASSUME TypeOK, Subtrees, lineage' = lineage, now' = now,
         \A c \in Refs : missions'[c].state = missions[c].state,
         \A c \in Refs : missions[c].state \in Live /\ Pending(c) => Pending(c)',
         \A c \in Refs : lineage[c].parent \in Refs \cup {None},
         \A p \in Handlers : JobTells(job[p])'
  PROVE  Subtrees'
<1>1. ASSUME NEW c \in Refs PROVE ChildShut(c)'
  <2>1. ChildShut(c)
    BY DEF Subtrees
  <2>2. Past(c)' = Past(c)
    BY DEF Past
  <2>3. lineage[c].parent # None => Closed(lineage[c].parent)' = Closed(lineage[c].parent)
    BY DEF Closed
  <2> QED BY <2>1, <2>2, <2>3 DEF ChildShut
<1> QED BY <1>1 DEF Subtrees

\* A handler that is at no cascade visits nothing.
LEMMA NothingPending ==
  ASSUME NEW p \in Handlers, Handlers = {p}, job[p].pc \notin {"transition", "children"}
  PROVE  \A c \in Refs : ~Pending(c)
BY DEF Pending

\* The first read of every request.
LEMMA SubtreesArrive ==
  ASSUME TypeOK, Linked, Tree, Subtrees, NEW p \in Handlers, Handlers = {p}, Arrive(p)
  PROVE  Subtrees'
<1>1. job[p] = Idle /\ UNCHANGED <<now, store>>
  BY ReadOnly
  DEF Arrive, ApproveProposal, EvaluateExpired, EvaluateConditionFailed, Revoke, Complete,
      ChangeState, Delegate, CreateExpansionRequest, DecideExpansionRequest, Begin
<1>2. ASSUME NEW j, job' = [job EXCEPT ![p] = j], JobTells(j) PROVE JobTells(job[p])'
  <2>1. job'[p] = j
    BY <1>2 DEF TypeOK
  <2> QED BY <1>1, <1>2, <2>1 DEF JobTells, Past, store
<1>3. JobTells(job[p])'
  <2>1. ASSUME NEW r, NEW goal, goal = "expired" /\ lineage[r].parent # None => Past(r)
        PROVE  JobTells([Idle EXCEPT !.pc = "transition", !.ref = r,
                                     !.copy = missions[r], !.goal = goal])
    <3>1. PICK j : j = [Idle EXCEPT !.pc = "transition", !.ref = r,
                                    !.copy = missions[r], !.goal = goal]
      OBVIOUS
    <3>2. j.pc = "transition" /\ j.ref = r /\ j.goal = goal /\ j.todo = {}
      BY <3>1 DEF Idle
    <3>3. JobTells(j)
      BY <2>1, <3>2 DEF JobTells
    <3> QED BY <3>1, <3>3
  <2>2. ASSUME NEW j, j.pc \notin {"transition", "delegate"} PROVE JobTells(j)
    BY <2>2 DEF JobTells
  <2>3. CASE \E q \in ProposalIds : ApproveProposal(p, q)
    BY <1>2, <2>2, <2>3 DEF ApproveProposal, Begin, Idle
  <2>4. ASSUME NEW r \in Refs, EvaluateExpired(p, r) PROVE JobTells(job[p])'
    <3>1. lineage[r].parent # None => Past(r)
      BY <2>4 DEF EvaluateExpired, expired, Past, Subtrees, ChildShut, TypeOK, Lineages
    <3> QED BY <1>2, <2>1, <2>4, <3>1 DEF EvaluateExpired, Begin
  <2>5. ASSUME NEW r \in Refs, EvaluateConditionFailed(p, r) PROVE JobTells(job[p])'
    BY <1>2, <2>1, <2>5 DEF EvaluateConditionFailed, Begin
  <2>6. ASSUME NEW r \in Refs, NEW goal \in {"revoked", "completed"}, ChangeState(p, r, goal)
        PROVE  JobTells(job[p])'
    <3>1. CASE job' = [job EXCEPT ![p] = [Idle EXCEPT !.pc = "transition", !.ref = r,
                                            !.copy = missions[r], !.goal = goal]]
      BY <1>2, <2>1, <3>1
    <3>2. CASE job' = [job EXCEPT ![p] = [Idle EXCEPT !.pc = "children", !.ref = r,
                                            !.goal = goal]]
      BY <1>2, <2>2, <3>2 DEF Idle
    <3> QED BY <2>6, <3>1, <3>2 DEF ChangeState, Begin
  <2>7. ASSUME NEW r \in Refs, NEW d, Delegate(p, r, d) PROVE JobTells(job[p])'
    <3>1. PICK j : j = [Idle EXCEPT !.pc = "delegate", !.ref = r, !.terms = d]
      OBVIOUS
    <3>2. j.pc = "delegate" /\ j.ref = r
      BY <3>1 DEF Idle
    <3>3. JobTells(j)
      BY <2>7, <3>2 DEF JobTells, Delegate, MayDelegate
    <3> QED BY <1>2, <2>7, <3>1, <3>3 DEF Delegate, Begin
  <2>8. ASSUME NEW r \in Refs, NEW n, CreateExpansionRequest(p, r, n) PROVE JobTells(job[p])'
    BY <1>2, <2>2, <2>8 DEF CreateExpansionRequest, Begin, Idle
  <2>9. ASSUME NEW x, NEW verdict, DecideExpansionRequest(p, x, verdict)
        PROVE  JobTells(job[p])'
    BY <1>2, <2>2, <2>9 DEF DecideExpansionRequest, Begin, Idle
  <2> QED BY <2>3, <2>4, <2>5, <2>6, <2>7, <2>8, <2>9 DEF Arrive, Revoke, Complete
<1>4. \A c \in Refs : ~Pending(c)
  BY <1>1, NothingPending DEF Idle
<1> QED BY <1>1, <1>3, <1>4, SubtreesRead DEF store, Tree, Rooted

\* The handler goes on with what it has yet to visit (transitionCascade).
LEMMA SubtreesCascade ==
  ASSUME TypeOK, Linked, Tree, Subtrees, NEW p \in Handlers, Handlers = {p}, cascade(p)
  PROVE  Subtrees'
<1>1. PICK j, todo : /\ j = job[p] /\ j.pc = "children" /\ Proceed(p, todo)
                     /\ todo = j.todo \cup {[ref |-> c, copy |-> missions[c], level |-> j.level + 1] :
                                               c \in LiveChildren(j.ref)}
  BY DEF cascade
<1>2. UNCHANGED <<now, store>>
  BY ReadOnly
<1>3. ASSUME NEW c \in Refs, missions[c].state \in Live, Pending(c)
      PROVE  \E f \in todo : f.ref = c
  <2>1. CASE \E f \in j.todo : f.ref = c
    BY <1>1, <2>1
  <2>2. CASE j.ref = lineage[c].parent
    <3>1. c \in LiveChildren(j.ref)
      BY <1>3, <2>2 DEF LiveChildren, ChildrenOf
    <3>2. PICK f : f = [ref |-> c, copy |-> missions[c], level |-> j.level + 1]
      OBVIOUS
    <3> QED BY <1>1, <3>1, <3>2
  <2> QED BY <1>1, <1>3, <2>1, <2>2 DEF Pending
<1>4. CASE todo = {}
  <2>1. job'[p] = Idle
    BY <1>1, <1>4 DEF Proceed, Finish, TypeOK
  <2>2. JobTells(job[p])'
    BY <2>1 DEF JobTells, Idle
  <2> QED BY <1>2, <1>3, <1>4, <2>2, SubtreesRead DEF store, Tree, Rooted
<1>5. CASE todo # {}
  <2>1. PICK f, k :
            /\ f \in todo
            /\ k = [Idle EXCEPT !.pc = "transition", !.ref = f.ref, !.copy = f.copy,
                                !.goal = "revoked", !.level = f.level, !.todo = todo \ {f}]
            /\ job' = [job EXCEPT ![p] = k]
    BY <1>1, <1>5 DEF Proceed
  <2>2. job'[p] = k /\ k.pc = "transition" /\ k.ref = f.ref /\ k.goal = "revoked"
        /\ k.todo = todo \ {f}
    BY <2>1 DEF TypeOK, Idle
  <2>3. JobTells(job[p])'
    BY <2>2 DEF JobTells, Cascades
  <2>4. ASSUME NEW c \in Refs, missions[c].state \in Live, Pending(c) PROVE Pending(c)'
    <3>1. PICK g \in todo : g.ref = c
      BY <1>3, <2>4
    <3>2. g = f \/ g \in k.todo
      BY <2>2
    <3> QED BY <2>2, <3>1, <3>2 DEF Pending, Cascades
  <2> QED BY <1>2, <2>3, <2>4, SubtreesRead DEF store, Tree, Rooted
<1> QED BY <1>4, <1>5

\* A mission is closed and its children are visited next, or it is suspended or past
\* its expiry and nobody visits anything (transition).
LEMMA SubtreesTransition ==
  ASSUME TypeOK, Linked, Tree, Serial, Subtrees, NEW p \in Handlers, Handlers = {p},
         transition(p)
  PROVE  Subtrees'
<1>1. PICK j : j = job[p]
  OBVIOUS
<1>2. /\ j \in Jobs /\ JobFits(j) /\ JobCurrent(j) /\ JobTells(j) /\ j.pc = "transition"
      /\ missions' = [missions EXCEPT ![j.ref] = TransitionRow(j.copy, j.goal)]
      /\ lineage' = lineage /\ now' = now
  BY <1>1 DEF transition, TypeOK, Linked, JobsLinked, Serial, Subtrees
<1>3. /\ j.ref \in Refs /\ j.goal \in Terminal \cup {"suspended"}
      /\ missions'[j.ref].state = j.goal
      /\ \A c \in Refs : c # j.ref => missions'[c] = missions[c]
  BY <1>2 DEF JobFits, TransitionRow, TypeOK
<1>4. CASE Cascades(j.goal)
  <2>1. job'[p].pc = "children" /\ job'[p].ref = j.ref /\ job'[p].todo = j.todo
    BY <1>1, <1>2, <1>4 DEF transition, TypeOK, Jobs
  <2>2. JobTells(job[p])'
    BY <2>1 DEF JobTells
  <2>3. ASSUME NEW c \in Refs PROVE ChildShut(c)'
    <3>1. ChildShut(c) /\ Past(c)' = Past(c)
      BY <1>2 DEF Subtrees, Past
    <3>2. CASE c = j.ref
      <4>1. missions'[c].state \notin Live /\ missions'[c].state # "expired"
        BY <1>3, <1>4, <3>2 DEF Cascades, Live
      <4> QED BY <1>2, <3>1, <4>1 DEF ChildShut
    <3>3. CASE c # j.ref /\ lineage[c].parent = j.ref
      <4>1. Pending(c)'
        BY <1>2, <2>1, <3>3 DEF Pending
      <4> QED BY <1>2, <1>3, <3>1, <3>3, <4>1 DEF ChildShut
    <3>4. CASE c # j.ref /\ lineage[c].parent # j.ref
      <4>1. lineage[c].parent # None => Closed(lineage[c].parent)' = Closed(lineage[c].parent)
        BY <1>2, <1>3, <3>4 DEF Closed, Tree, Rooted
      <4>2. Pending(c) => Pending(c)'
        BY <1>1, <1>2, <2>1, <3>4 DEF Pending
      <4> QED BY <1>2, <1>3, <3>1, <3>4, <4>1, <4>2 DEF ChildShut
    <3> QED BY <3>2, <3>3, <3>4
  <2> QED BY <2>2, <2>3 DEF Subtrees
<1>5. CASE ~Cascades(j.goal)
  <2>1. job'[p] = Idle /\ j.todo = {} /\ j.goal \in {"suspended", "expired"}
    BY <1>1, <1>2, <1>3, <1>5 DEF transition, Finish, TypeOK, JobTells, Cascades, Terminal
  <2>2. JobTells(job[p])'
    BY <2>1 DEF JobTells, Idle
  <2>3. \A c \in Refs : ~Pending(c)
    BY <1>1, <1>2, <1>5, <2>1 DEF Pending
  <2>4. ASSUME NEW c \in Refs, lineage[c].parent # None PROVE ChildShut(c)'
    <3>1. ChildShut(c) /\ Past(c)' = Past(c) /\ lineage[c].parent \in Refs
      BY <1>2, <2>4 DEF Subtrees, Past, Tree, Rooted
    <3>2. Closed(lineage[c].parent)' => Closed(lineage[c].parent)
      <4>1. CASE lineage[c].parent = j.ref
        BY <1>2, <1>3, <2>1, <4>1 DEF Closed
      <4>2. CASE lineage[c].parent # j.ref
        BY <1>2, <1>3, <3>1, <4>2 DEF Closed
      <4> QED BY <4>1, <4>2
    <3>3. Closed(lineage[c].parent) => missions[c].state \notin Live
      BY <2>3, <2>4, <3>1 DEF ChildShut
    <3>4. Closed(lineage[c].parent)' => missions'[c].state \notin Live
      <4>1. CASE c = j.ref
        <5>1. missions[c].state \in Live
          BY <1>2, <4>1 DEF JobCurrent
        <5> QED BY <3>2, <3>3, <5>1
      <4>2. CASE c # j.ref
        BY <1>3, <3>2, <3>3, <4>2
      <4> QED BY <4>1, <4>2
    <3>5. missions'[c].state = "expired" => Past(c)'
      <4>1. CASE c = j.ref
        BY <1>2, <1>3, <2>4, <3>1, <4>1 DEF JobTells
      <4>2. CASE c # j.ref
        BY <1>3, <2>4, <3>1, <4>2 DEF ChildShut
      <4> QED BY <4>1, <4>2
    <3> QED BY <1>2, <2>4, <3>1, <3>4, <3>5 DEF ChildShut
  <2>5. \A c \in Refs : lineage[c].parent = None => ChildShut(c)'
    BY <1>2 DEF ChildShut
  <2> QED BY <2>2, <2>4, <2>5 DEF Subtrees
<1> QED BY <1>4, <1>5

\* A new mission is no child, or the child of an active one.
LEMMA SubtreesCreation ==
  ASSUME TypeOK, Linked, Tree, Subtrees, NEW p \in Handlers, Handlers = {p},
         CommitProposalApproval(p) \/ SaveChild(p)
  PROVE  Subtrees'
<1>1. PICK u : u = IF job[p].pc = "approve" THEN None ELSE job[p].ref
  OBVIOUS
<1>2. PICK r, row, line :
        /\ r \in Refs /\ ~Exists(r) /\ row.state = "active" /\ line.parent = u
        /\ u # None => line.notBefore = now
        /\ missions' = [missions EXCEPT ![r] = row]
        /\ lineage' = [lineage EXCEPT ![r] = line]
  <2>1. CASE CommitProposalApproval(p)
    <3> DEFINE q == job[p].item
               t == TermsOf[q]
               row == [state |-> "active", version |-> 1, authority |-> t.authority]
               line == [approval |-> q, parent |-> None, depth |-> 0,
                        permitted |-> t.permitted, maxDepth |-> ProposedDepth(t),
                        notBefore |-> t.notBefore, expiresAt |-> t.expiresAt]
    <3>1. PICK r \in Refs : /\ ~Exists(r)
                           /\ missions' = [missions EXCEPT ![r] = row]
                           /\ lineage' = [lineage EXCEPT ![r] = line]
      BY <2>1 DEF CommitProposalApproval
    <3>2. row.state = "active" /\ line.parent = None /\ u = None
      BY <1>1, <2>1 DEF CommitProposalApproval
    <3> HIDE DEF row, line
    <3> QED BY <3>1, <3>2
  <2>2. CASE SaveChild(p)
    <3> DEFINE v == job[p].ref
               d == job[p].terms
               row == [state |-> "active", version |-> 1, authority |-> d.authority]
               line == [approval |-> lineage[v].approval, parent |-> v,
                        depth |-> lineage[v].depth + 1,
                        permitted |-> d.permitted, maxDepth |-> d.maxDepth,
                        notBefore |-> now, expiresAt |-> ChildExpiry(v, d)]
    <3>1. PICK r \in Refs : /\ ~Exists(r)
                           /\ missions' = [missions EXCEPT ![r] = row]
                           /\ lineage' = [lineage EXCEPT ![r] = line]
      BY <2>2 DEF SaveChild
    <3>2. row.state = "active" /\ line.parent = v /\ u = v /\ line.notBefore = now
      BY <1>1, <2>2 DEF SaveChild
    <3> HIDE DEF row, line
    <3> QED BY <3>1, <3>2
  <2> QED BY <2>1, <2>2
<1>3. now' = now /\ now \in Nat /\ job'[p] = Idle
      /\ job[p].pc \in {"approve", "delegate"}
  BY DEF CommitProposalApproval, SaveChild, Finish, TypeOK
<1>4. u # None => u \in Refs /\ Exists(u) /\ missions[u].state = "active"
  BY <1>1, <1>3 DEF Subtrees, JobTells, Linked, JobsLinked, JobFits
<1>5. JobTells(job[p])'
  BY <1>3 DEF JobTells, Idle
<1>6. \A c \in Refs : ~Pending(c)
  BY <1>3, NothingPending
<1>7. /\ missions'[r].state = "active" /\ lineage'[r].parent = u
      /\ u # None => lineage'[r].notBefore = now
      /\ \A c \in Refs : c # r => missions'[c] = missions[c] /\ lineage'[c] = lineage[c]
  BY <1>2 DEF TypeOK
<1>8. ChildShut(r)'
  <2>1. u # None => missions'[u] = missions[u]
    BY <1>2, <1>4, <1>7
  <2> QED BY <1>3, <1>4, <1>7, <2>1 DEF ChildShut, Closed
<1>9. ASSUME NEW c \in Refs, c # r PROVE ChildShut(c)'
  <2>1. ChildShut(c) /\ Past(c)' = Past(c)
    BY <1>3, <1>7, <1>9 DEF Subtrees, Past
  <2>2. lineage[c].parent # None => lineage[c].parent \in Refs /\ lineage[c].parent # r
    BY <1>2 DEF Tree, Rooted
  <2>3. lineage[c].parent # None => Closed(lineage[c].parent)' = Closed(lineage[c].parent)
    BY <1>7, <1>9, <2>2 DEF Closed
  <2> QED BY <1>3, <1>6, <1>7, <1>9, <2>1, <2>3 DEF ChildShut
<1> QED BY <1>5, <1>8, <1>9 DEF Subtrees

\* Every step, when no store call fails.
LEMMA NextSubtrees ==
  ASSUME TypeOK, Linked, Tree, Serial, Subtrees, NEW only, Handlers = {only},
         "call" \notin Faults, [Next]_vars
  PROVE  Subtrees'
<1>1. ASSUME NEW p \in Handlers, Arrive(p) \/ cascade(p) PROVE Subtrees'
  BY <1>1, SubtreesArrive, SubtreesCascade
<1>2. ASSUME NEW p \in Handlers, transition(p) PROVE Subtrees'
  BY <1>2, SubtreesTransition
<1>3. ASSUME NEW p \in Handlers, CommitProposalApproval(p) \/ SaveChild(p) PROVE Subtrees'
  BY <1>3, SubtreesCreation
<1>4. ASSUME NEW p \in Handlers, Finish(p), job[p].pc \notin {"transition", "children"},
             now' = now, lineage' = lineage,
             \A c \in Refs : missions'[c].state = missions[c].state
      PROVE  Subtrees'
  <2>1. JobTells(job[p])'
    BY <1>4 DEF Finish, TypeOK, JobTells, Idle
  <2>2. \A c \in Refs : ~Pending(c)
    BY <1>4, NothingPending
  <2> QED BY <1>4, <2>1, <2>2, SubtreesRead DEF Tree, Rooted
<1>5. ASSUME NEW p \in Handlers, SaveExpansionRequest(p) \/ Refuse(p) PROVE Subtrees'
  BY <1>4, <1>5 DEF SaveExpansionRequest, Refuse, store
<1>6. ASSUME NEW p \in Handlers, CommitExpansionDecision(p) PROVE Subtrees'
  <2>1. PICK j : j = job[p]
    OBVIOUS
  <2>2. /\ j.pc = "commit" /\ JobFits(j) /\ JobCurrent(j) /\ Finish(p)
        /\ now' = now /\ lineage' = lineage
        /\ \/ missions' = missions
           \/ missions' = [missions EXCEPT ![j.ref] = GrantRow(j.copy, j.item)]
    BY <1>6, <2>1 DEF CommitExpansionDecision, Linked, JobsLinked, Serial
  <2>3. GrantRow(j.copy, j.item).state = missions[j.ref].state
    BY <2>2 DEF GrantRow, JobCurrent
  <2>4. \A c \in Refs : missions'[c].state = missions[c].state
    BY <2>2, <2>3 DEF TypeOK
  <2> QED BY <1>4, <2>1, <2>2, <2>4
<1>7. ASSUME NEW p \in Handlers, ReadMissionToDecide(p) PROVE Subtrees'
  <2>1. UNCHANGED <<now, store>>
    BY <1>7, ReadOnly
  <2>2. JobTells(job[p])'
    BY <1>7 DEF ReadMissionToDecide, TypeOK, Jobs, JobTells
  <2>3. \A c \in Refs : ~Pending(c)
    BY <1>7, NothingPending DEF ReadMissionToDecide
  <2> QED BY <2>1, <2>2, <2>3, SubtreesRead DEF store, Tree, Rooted
<1>8. ASSUME NEW p \in Handlers, CascadeChildFails(p) \/ Fail(p) PROVE FALSE
  BY <1>8 DEF CascadeChildFails, Fail
<1>9. CASE UNCHANGED <<missions, lineage, job>> /\ now' \in {now, now + 1}
  <2>1. ASSUME NEW r \in Refs PROVE Past(r) => Past(r)'
    BY <1>9 DEF Past, TypeOK, Lineages
  <2>2. ASSUME NEW c \in Refs PROVE ChildShut(c)'
    <3>1. Pending(c)' = Pending(c) /\ ChildShut(c)
      BY <1>9 DEF Pending, Subtrees
    <3>2. lineage[c].notBefore \in Nat /\ now \in Nat
      BY DEF TypeOK, Lineages
    <3> QED BY <1>9, <2>1, <3>1, <3>2 DEF ChildShut, Closed
  <2>3. ASSUME NEW p \in Handlers PROVE JobTells(job[p])'
    <3>1. JobTells(job[p]) /\ (job[p].pc = "transition" => job[p].ref \in Refs)
      BY DEF Subtrees, Linked, JobsLinked, JobFits
    <3> QED BY <1>9, <2>1, <3>1 DEF JobTells
  <2> QED BY <2>2, <2>3 DEF Subtrees
<1>10. CASE \/ \E q \in ProposalIds : CreateProposal(q)
            \/ Tick \/ UNCHANGED vars
  BY <1>9, <1>10 DEF CreateProposal, Tick, vars, store
<1> QED BY <1>1, <1>2, <1>3, <1>5, <1>6, <1>7, <1>8, <1>10 DEF Next, Continue

\* With one handler whose store calls do not fail, nothing below a completed or
\* revoked mission can be used once the cascade has returned, although it does not
\* descend through missions that expired (transitionCascade).
THEOREM SerialCascade ==
  ASSUME NEW only, Handlers = {only}, "call" \notin Faults
  PROVE  Spec => []RevokedSubtreeUnusable
<1>1. Init => Subtrees
  BY DEF Init, Subtrees, ChildShut, JobTells, Idle, NoLineage
<1>2. TypeOK /\ Linked /\ Tree /\ Serial /\ Subtrees /\ [Next]_vars => Subtrees'
  BY NextSubtrees
<1>3. TypeOK /\ Linked /\ Tree /\ Serial /\ Subtrees => RevokedSubtreeUnusable
  BY SubtreesUnusable
<1> QED BY <1>1, <1>2, <1>3, SerialInvariant, PTL DEF Spec
=============================================================================
