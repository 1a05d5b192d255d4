----------------------- MODULE ExpansionApprovalProofs -----------------------
(***************************************************************************)
(* Proofs about ExpansionApproval, for every number of handlers, requests, *)
(* approvers, approval rules and containment rules, with failures.         *)
(***************************************************************************)
EXTENDS ExpansionApproval, NumberFacts, FiniteSetTheorems

(***************************************************************************)
(* What a handler has established on its way.  Approval rules are never    *)
(* removed, submissions are never withdrawn and a containment rule is      *)
(* lifted for good, so what it has found stays true.                       *)
(***************************************************************************)

\* The handler has been past the guard of its request.
Guarded(j) == \/ j.kind = "submission" /\ j.pc # "guard"
              \/ j.kind = "approval" /\ j.pc = "commit"

\* The handler has looked for the rule of its request.
Ruled(j) == /\ j.pc \in {"record", "count", "reread", "mission", "contain", "commit"}
            /\ j.kind # "denial"

Stages(kind) ==
    CASE kind = "submission" -> Steps \ {"idle"}
      [] kind = "approval"   -> {"match", "mission", "contain", "commit"}
      [] kind = "denial"     -> {"mission", "commit"}
      [] OTHER               -> {}

Serving(j) ==
    /\ j.item \in ExpansionIds
    /\ j.approver \in Approvers
    /\ j.pc \in Stages(j.kind)
    /\ j.known \subseteq rules
    /\ \A c \in j.banned : containments[c] # "none"
    /\ Guarded(j) => \A c \in j.banned : containments[c] = "lifted"
    /\ Ruled(j) /\ (\E r \in j.known : j.item \in RuleOf[r].matches) => j.rule # None
    /\ j.rule # None =>
          /\ j.rule \in RuleIds
          /\ j.approver \in RuleOf[j.rule].allowed
          /\ j.pc \in {"reread", "mission", "contain", "commit"} =>
                Len(records[j.item]) >= RuleOf[j.rule].required

Handling == \A p \in Handlers : job[p] = Idle \/ Serving(job[p])

\* No approver has two submissions for a request.
OneEach ==
    \A x \in ExpansionIds : \A i, k \in 1..Len(records[x]) :
        records[x][i].approver = records[x][k].approver => i = k

\* QuorumBehindApproval with the submissions in place of the submitters.
Backed ==
    \A x \in ExpansionIds : expansions[x].status = "approved" =>
        LET b == basis[x]
        IN  /\ (\E r \in b.known : x \in RuleOf[r].matches) => b.rule # None
            /\ b.rule # None =>
                  /\ Len(records[x]) >= RuleOf[b.rule].required
                  /\ expansions[x].approver \in RuleOf[b.rule].allowed

\* What no step takes back.
Grows ==
    /\ rules \subseteq rules'
    /\ \A c \in ContainmentIds :
          /\ containments[c] # "none" => containments'[c] # "none"
          /\ containments[c] = "lifted" => containments'[c] = "lifted"
    /\ \A x \in ExpansionIds : Len(records'[x]) >= Len(records[x])

-----------------------------------------------------------------------------
(* Facts the steps need.                                                   *)

\* The types of single rows.
LEMMA Types ==
  ASSUME TypeOK
  PROVE  /\ \A x \in ExpansionIds : /\ expansions[x] \in Requests
                                    /\ records[x] \in Seq(Records)
                                    /\ Len(records[x]) \in Nat
         /\ \A p \in Handlers : job[p] \in Jobs
         /\ \A r \in RuleIds : RuleOf[r] \in ApprovalRules
  BY ApprovalAssumption DEF TypeOK

\* The rule found is a rule that exists and matches, if there is one.
LEMMA RuleFound ==
  ASSUME TypeOK, NEW x
  PROVE  LET r == matchingApprovalRule(x)
         IN  /\ r \in rules \cup {None}
             /\ (\E u \in rules : x \in RuleOf[u].matches) => r # None
<1> DEFINE matching == {r \in rules : x \in RuleOf[r].matches}
<1>1. matching \in SUBSET Nat /\ None \notin rules
  BY ApprovalAssumption DEF TypeOK
<1>2. matching # {} => Min(matching) \in matching
  BY <1>1, MinOfNaturals
<1> QED BY <1>1, <1>2 DEF matchingApprovalRule

\* A served request stays well served while others work.
LEMMA ServingKept ==
  ASSUME TypeOK, Grows, NEW j \in Jobs, Serving(j)
  PROVE  Serving(j)'
<1>1. j.banned \subseteq ContainmentIds
  BY DEF Jobs
<1>2. j.item \in ExpansionIds /\ Len(records'[j.item]) >= Len(records[j.item])
  BY DEF Grows, Serving
<1>3. j.rule # None => RuleOf[j.rule].required \in Nat
  BY Types DEF Serving, ApprovalRules
<1> QED BY <1>1, <1>2, <1>3, Types DEF Grows, Serving, Guarded, Ruled

\* One handler gets a new job.
LEMMA JobStep ==
  ASSUME TypeOK, Handling, Grows, NEW p \in Handlers, NEW k \in Jobs,
         k = Idle \/ Serving(k)', job' = [job EXCEPT ![p] = k]
  PROVE  job' \in [Handlers -> Jobs] /\ Handling'
<1>1. job' \in [Handlers -> Jobs]
  BY DEF TypeOK
<1>2. ASSUME NEW h \in Handlers PROVE (job[h] = Idle \/ Serving(job[h]))'
  <2>1. CASE h = p
    <3>1. job'[h] = k
      BY <2>1 DEF TypeOK
    <3> QED BY <3>1 DEF Serving, Guarded, Ruled
  <2>2. CASE h # p
    <3>1. PICK j \in Jobs : j = job[h]
      BY DEF TypeOK
    <3>2. job'[h] = j
      BY <2>2, <3>1 DEF TypeOK
    <3>3. j = Idle \/ Serving(j)'
      BY <3>1, ServingKept DEF Handling
    <3> QED BY <3>2, <3>3 DEF Serving, Guarded, Ruled
  <2> QED BY <2>1, <2>2
<1> QED BY <1>1, <1>2 DEF Handling

\* The job of a handler that is not serving a request.
LEMMA IdleType == Idle \in Jobs
  BY DEF Idle, Jobs, Steps, Kinds

-----------------------------------------------------------------------------
(* Steps that leave the rows alone.                                        *)

Inv == TypeOK /\ Handling /\ OneEach /\ Backed

\* What ContainmentStops says of one step.
Stops ==
    \A p \in Handlers, x \in ExpansionIds :
        (/\ job[p].item = x /\ job'[p] # job[p]
         /\ \/ records'[x] # records[x]
            \/ expansions[x].status # "approved" /\ expansions'[x].status = "approved")
           => job[p].banned \cap InForce = {}

\* A handler goes on, or returns.
LEMMA ReadStep ==
  ASSUME Inv, NEW p \in Handlers, NEW k \in Jobs, k = Idle \/ Serving(k),
         job' = [job EXCEPT ![p] = k],
         UNCHANGED <<store, basis>>, cut' \subseteq ExpansionIds
  PROVE  Inv' /\ Stops
<1>1. Grows
  BY Types DEF Inv, Grows, store
<1>2. k = Idle \/ Serving(k)'
  BY DEF Serving, store
<1>3. job' \in [Handlers -> Jobs] /\ Handling'
  BY <1>1, <1>2, JobStep DEF Inv
<1>4. TypeOK'
  BY <1>3 DEF Inv, TypeOK, store
<1>5. OneEach' /\ Backed'
  BY DEF Inv, OneEach, Backed, store
<1>6. Stops
  BY DEF Stops, store
<1> QED BY <1>3, <1>4, <1>5, <1>6 DEF Inv

\* A handler that returns or fails.
LEMMA ReturnStep ==
  ASSUME Inv, NEW p \in Handlers, job' = [job EXCEPT ![p] = Idle],
         UNCHANGED <<store, basis>>, cut' \subseteq ExpansionIds
  PROVE  Inv' /\ Stops
  BY IdleType, ReadStep

\* Where a handler is and what it knows when it takes a step of its own.
LEMMA AtWork ==
  ASSUME Inv, NEW p \in Handlers, job[p].pc # "idle"
  PROVE  job[p] \in Jobs /\ Serving(job[p])
  BY Types DEF Inv, Handling, Idle

\* A request arrives.
LEMMA ArriveStep ==
  ASSUME Inv, NEW p \in Handlers, Arrive(p)
  PROVE  Inv' /\ Stops
<1>1. ASSUME NEW x \in ExpansionIds, NEW a \in Approvers, NEW kind, NEW pc,
             <<kind, pc>> \in {<<"submission", "guard">>, <<"approval", "match">>,
                               <<"denial", "mission">>},
             Begin(p, kind, x, a, pc)
      PROVE  Inv' /\ Stops
  <2>1. PICK k : k = [Idle EXCEPT !.pc = pc, !.kind = kind, !.item = x, !.approver = a,
                                  !.known = rules, !.banned = InForce]
    OBVIOUS
  <2>2. /\ k.pc = pc /\ k.kind = kind /\ k.item = x /\ k.approver = a
        /\ k.known = rules /\ k.banned = InForce /\ k.rule = None /\ k.version = 0
    BY <2>1 DEF Idle
  <2>3. k \in Jobs
    <3>1. kind \in Kinds /\ pc \in Steps /\ rules \subseteq RuleIds
          /\ InForce \subseteq ContainmentIds
      BY <1>1 DEF Kinds, Steps, InForce, Inv, TypeOK
    <3> QED BY <2>1, <3>1 DEF Idle, Jobs
  <2>4. Serving(k)
    BY <1>1, <2>2 DEF Serving, Stages, Guarded, Ruled, InForce, Steps
  <2> QED BY <1>1, <2>1, <2>3, <2>4, ReadStep DEF Begin, history, store, Inv, TypeOK
<1> QED BY <1>1 DEF Arrive, SubmitExpansionApproval, ApproveExpansionRequest,
             DenyExpansionRequest

\* No containment rule is in force.
LEMMA NoneInForce ==
  ASSUME TypeOK, ~Contained, NEW j \in Jobs, Serving(j)
  PROVE  \A c \in j.banned : containments[c] = "lifted"
  BY DEF TypeOK, Contained, InForce, Serving, Jobs

\* A step of a served request that only moves on.
LEMMA MoveStep ==
  ASSUME Inv, NEW p \in Handlers, NEW pc \in Steps, NEW may \in BOOLEAN,
         job[p].pc # "idle", Step(p, may, pc), UNCHANGED <<store, history>>,
         pc \in Stages(job[p].kind),
         may /\ Guarded([job[p] EXCEPT !.pc = pc]) =>
            \A c \in job[p].banned : containments[c] = "lifted",
         may /\ pc \in {"record", "count", "reread", "mission", "contain", "commit"} =>
            Ruled(job[p]) \/ job[p].kind = "denial",
         may /\ job[p].rule # None /\ pc \in {"reread", "mission", "contain", "commit"} =>
            Len(records[job[p].item]) >= RuleOf[job[p].rule].required
  PROVE  Inv' /\ Stops
<1>1. PICK j : j = job[p]
  OBVIOUS
<1>2. j \in Jobs /\ Serving(j)
  BY <1>1, AtWork
<1>3. cut' \subseteq ExpansionIds /\ UNCHANGED <<store, basis>>
  BY DEF history, Inv, TypeOK
<1>4. CASE job' = [job EXCEPT ![p] = Idle]
  BY <1>3, <1>4, ReturnStep
<1>5. CASE may /\ job' = [job EXCEPT ![p].pc = pc]
  <2>1. PICK k : k = [j EXCEPT !.pc = pc]
    OBVIOUS
  <2>2. /\ k \in Jobs /\ k.pc = pc /\ k.kind = j.kind /\ k.item = j.item
        /\ k.approver = j.approver /\ k.known = j.known /\ k.banned = j.banned
        /\ k.rule = j.rule
    BY <1>2, <2>1 DEF Jobs
  <2>3. Serving(k)
    BY <1>1, <1>2, <1>5, <2>1, <2>2 DEF Serving, Ruled
  <2>4. job' = [job EXCEPT ![p] = k]
    BY <1>1, <1>5, <2>1 DEF Inv, TypeOK
  <2> QED BY <1>3, <2>2, <2>3, <2>4, ReadStep
<1> QED BY <1>4, <1>5 DEF Step

\* The guard, before a submission is stored.
LEMMA GuardSubmissionStep ==
  ASSUME Inv, NEW p \in Handlers, GuardSubmission(p)
  PROVE  Inv' /\ Stops
<1>1. /\ job[p] \in Jobs /\ Serving(job[p]) /\ job[p].pc = "guard"
      /\ job[p].kind = "submission"
  BY AtWork DEF GuardSubmission, Serving, Stages
<1>2. ~Contained => \A c \in job[p].banned : containments[c] = "lifted"
  BY <1>1, NoneInForce DEF Inv
<1>3. "match" \in Stages(job[p].kind) /\ "match" \in Steps /\ (~Contained) \in BOOLEAN
  BY <1>1 DEF Stages, Steps, Contained
<1> QED BY <1>1, <1>2, <1>3, MoveStep DEF GuardSubmission

\* The rule of the request is looked up.
LEMMA MatchRuleStep ==
  ASSUME Inv, NEW p \in Handlers, MatchRule(p)
  PROVE  Inv' /\ Stops
<1>1. PICK j : j = job[p]
  OBVIOUS
<1>2. PICK r : r = matchingApprovalRule(j.item)
  OBVIOUS
<1>3. PICK next : next = IF j.kind = "submission" THEN "record" ELSE "mission"
  OBVIOUS
<1>4. /\ j \in Jobs /\ Serving(j) /\ j.pc = "match"
      /\ j.kind \in {"submission", "approval"}
  BY <1>1, AtWork DEF MatchRule, Serving, Stages
<1>5. /\ r \in rules \cup {None} /\ rules \subseteq RuleIds
      /\ (\E u \in j.known : j.item \in RuleOf[u].matches) => r # None
  BY <1>2, <1>4, RuleFound DEF Serving, Inv, TypeOK
<1>6. cut' \subseteq ExpansionIds /\ UNCHANGED <<store, basis>>
  BY DEF MatchRule, history, Inv, TypeOK
<1>7. CASE job' = [job EXCEPT ![p] = Idle]
  BY <1>6, <1>7, ReturnStep
<1>8. CASE RuleLetsThrough(j, r) /\ job' = [job EXCEPT ![p].pc = next, ![p].rule = r]
  <2>1. PICK k : k = [j EXCEPT !.pc = next, !.rule = r]
    OBVIOUS
  <2>2. /\ k \in Jobs /\ k.pc = next /\ k.kind = j.kind /\ k.item = j.item
        /\ k.approver = j.approver /\ k.known = j.known /\ k.banned = j.banned
        /\ k.rule = r
    BY <1>3, <1>4, <1>5, <2>1 DEF Jobs, Steps
  <2>3. r # None => j.approver \in RuleOf[r].allowed /\ j.kind = "submission"
    BY <1>8 DEF RuleLetsThrough, approverAllowed
  <2>4. Serving(k)
    BY <1>3, <1>4, <1>5, <2>2, <2>3 DEF Serving, Stages, Guarded, Ruled, Steps
  <2>5. job' = [job EXCEPT ![p] = k]
    BY <1>1, <1>8, <2>1 DEF Inv, TypeOK
  <2> QED BY <1>6, <2>2, <2>4, <2>5, ReadStep
<1> QED BY <1>1, <1>2, <1>3, <1>7, <1>8 DEF MatchRule

\* The submissions are counted.
LEMMA CountApprovalsStep ==
  ASSUME Inv, NEW p \in Handlers, CountApprovals(p)
  PROVE  Inv' /\ Stops
<1>1. /\ job[p] \in Jobs /\ Serving(job[p]) /\ job[p].pc = "count"
      /\ job[p].kind = "submission"
  BY AtWork DEF CountApprovals, Serving, Stages
<1>2. \A c \in job[p].banned : containments[c] = "lifted"
  BY <1>1 DEF Serving, Guarded
<1>3. QuorumReceived(job[p]) /\ job[p].rule # None
         => Len(records[job[p].item]) >= RuleOf[job[p].rule].required
  BY DEF QuorumReceived, required
<1>4. /\ "reread" \in Stages(job[p].kind) /\ "reread" \in Steps /\ Ruled(job[p])
      /\ QuorumReceived(job[p]) \in BOOLEAN
  BY <1>1 DEF Stages, Steps, Ruled, QuorumReceived
<1> QED BY <1>1, <1>2, <1>3, <1>4, MoveStep DEF CountApprovals

\* The request is read again.
LEMMA RereadStep ==
  ASSUME Inv, NEW p \in Handlers, RereadExpansion(p)
  PROVE  Inv' /\ Stops
<1>1. /\ job[p] \in Jobs /\ Serving(job[p]) /\ job[p].pc = "reread"
      /\ job[p].kind = "submission"
  BY AtWork DEF RereadExpansion, Serving, Stages
<1>2. /\ \A c \in job[p].banned : containments[c] = "lifted"
      /\ job[p].rule # None => Len(records[job[p].item]) >= RuleOf[job[p].rule].required
  BY <1>1 DEF Serving, Guarded
<1>3. "mission" \in Stages(job[p].kind) /\ "mission" \in Steps /\ Ruled(job[p])
  BY <1>1 DEF Stages, Steps, Ruled
<1> QED BY <1>1, <1>2, <1>3, MoveStep DEF RereadExpansion

\* The mission is read for the decision.
LEMMA ReadMissionStep ==
  ASSUME Inv, NEW p \in Handlers, ReadMissionToDecide(p)
  PROVE  Inv' /\ Stops
<1>1. PICK j : j = job[p]
  OBVIOUS
<1>2. PICK next : next = IF j.kind = "denial" THEN "commit" ELSE "contain"
  OBVIOUS
<1>3. /\ j \in Jobs /\ Serving(j) /\ j.pc = "mission"
      /\ j.kind \in {"submission", "approval", "denial"}
  BY <1>1, AtWork DEF ReadMissionToDecide, Serving, Stages
<1>4. cut' \subseteq ExpansionIds /\ UNCHANGED <<store, basis>>
      /\ mission.version \in Nat
  BY DEF ReadMissionToDecide, history, Inv, TypeOK, Missions
<1>5. CASE job' = [job EXCEPT ![p] = Idle]
  BY <1>4, <1>5, ReturnStep
<1>6. CASE job' = [job EXCEPT ![p].pc = next, ![p].version = mission.version]
  <2>1. PICK k : k = [j EXCEPT !.pc = next, !.version = mission.version]
    OBVIOUS
  <2>2. /\ k \in Jobs /\ k.pc = next /\ k.kind = j.kind /\ k.item = j.item
        /\ k.approver = j.approver /\ k.known = j.known /\ k.banned = j.banned
        /\ k.rule = j.rule
    BY <1>2, <1>3, <1>4, <2>1 DEF Jobs, Steps
  <2>3. Serving(k)
    BY <1>2, <1>3, <2>2 DEF Serving, Stages, Guarded, Ruled, Steps
  <2>4. job' = [job EXCEPT ![p] = k]
    BY <1>1, <1>6, <2>1 DEF Inv, TypeOK
  <2> QED BY <1>4, <2>2, <2>3, <2>4, ReadStep
<1> QED BY <1>1, <1>2, <1>5, <1>6 DEF ReadMissionToDecide

\* The guard, before an approval is committed.
LEMMA GuardDecisionStep ==
  ASSUME Inv, NEW p \in Handlers, GuardDecision(p)
  PROVE  Inv' /\ Stops
<1>1. /\ job[p] \in Jobs /\ Serving(job[p]) /\ job[p].pc = "contain"
      /\ job[p].kind \in {"submission", "approval"}
  BY AtWork DEF GuardDecision, Serving, Stages
<1>2. ~Contained => \A c \in job[p].banned : containments[c] = "lifted"
  BY <1>1, NoneInForce DEF Inv
<1>3. /\ "commit" \in Stages(job[p].kind) /\ "commit" \in Steps /\ (~Contained) \in BOOLEAN
      /\ Ruled(job[p])
      /\ job[p].rule # None => Len(records[job[p].item]) >= RuleOf[job[p].rule].required
  BY <1>1 DEF Stages, Steps, Ruled, Serving, Contained
<1> QED BY <1>1, <1>2, <1>3, MoveStep DEF GuardDecision

-----------------------------------------------------------------------------
(* Steps that write.                                                       *)

\* A submission is appended after those of other approvers.
LEMMA SaveRecordStep ==
  ASSUME Inv, NEW p \in Handlers, SaveApprovalRecord(p)
  PROVE  Inv' /\ Stops
<1>1. PICK j : j = job[p]
  OBVIOUS
<1>2. PICK x : x = j.item
  OBVIOUS
<1>3. /\ j \in Jobs /\ Serving(j) /\ j.pc = "record" /\ j.kind = "submission"
      /\ x \in ExpansionIds
  BY <1>1, <1>2, AtWork DEF SaveApprovalRecord, Serving, Stages
<1>4. CASE Submitted(x, j.approver)
  <2>1. /\ job' = [job EXCEPT ![p] = Idle] /\ UNCHANGED <<store, basis>>
        /\ cut' \subseteq ExpansionIds
    BY <1>1, <1>2, <1>4 DEF SaveApprovalRecord, Step, store, history, Inv, TypeOK
  <2> QED BY <2>1, ReturnStep
<1>5. CASE ~Submitted(x, j.approver)
  <2>1. PICK e : e = [approver |-> j.approver, rule |-> j.rule]
    OBVIOUS
  <2>2. e \in Records /\ e.approver = j.approver
    BY <1>3, <2>1 DEF Records, Serving
  <2>3. /\ records' = [records EXCEPT ![x] = Append(records[x], e)]
        /\ job' = [job EXCEPT ![p].pc = "count"]
        /\ UNCHANGED <<mission, expansions, rules, containments, basis, cut>>
    BY <1>1, <1>2, <1>5, <2>1 DEF SaveApprovalRecord, Step, history, Inv, TypeOK
  <2>4. /\ records[x] \in Seq(Records) /\ Append(records[x], e) \in Seq(Records)
        /\ Len(Append(records[x], e)) = Len(records[x]) + 1
        /\ \A i \in 1..Len(records[x]) : Append(records[x], e)[i] = records[x][i]
        /\ Append(records[x], e)[Len(records[x]) + 1] = e
        /\ Len(records[x]) \in Nat
    BY <1>3, <2>2, Types DEF Inv
  <2>5. /\ records'[x] = Append(records[x], e)
        /\ \A y \in ExpansionIds : y # x => records'[y] = records[y]
        /\ records' \in [ExpansionIds -> Seq(Records)]
    BY <1>3, <2>3, <2>4 DEF Inv, TypeOK
  <2>6. \A y \in ExpansionIds : Len(records'[y]) >= Len(records[y])
    BY <2>4, <2>5, Types DEF Inv
  <2>7. Grows
    BY <2>3, <2>6 DEF Grows
  <2>8. PICK k : k = [j EXCEPT !.pc = "count"]
    OBVIOUS
  <2>9. /\ k \in Jobs /\ k.pc = "count" /\ k.kind = j.kind /\ k.item = j.item
        /\ k.approver = j.approver /\ k.known = j.known /\ k.banned = j.banned
        /\ k.rule = j.rule
    BY <1>3, <2>8 DEF Jobs, Steps
  <2>10. Serving(k)
    BY <1>3, <2>9 DEF Serving, Stages, Guarded, Ruled, Steps
  <2>11. job' = [job EXCEPT ![p] = k]
    BY <1>1, <2>3, <2>8 DEF Inv, TypeOK
  <2>12. job' \in [Handlers -> Jobs] /\ Handling'
    BY <2>7, <2>9, <2>10, <2>11, ServingKept, JobStep DEF Inv
  <2>13. TypeOK'
    BY <2>3, <2>5, <2>12 DEF Inv, TypeOK
  <2>14. \A i \in 1..Len(records[x]) : records[x][i].approver # j.approver
    BY <1>5, <2>4 DEF Submitted
  <2>15. OneEach'
    <3>1. ASSUME NEW i \in 1..Len(records'[x]), NEW l \in 1..Len(records'[x]),
                 records'[x][i].approver = records'[x][l].approver
          PROVE  i = l
      <4>1. CASE i \in 1..Len(records[x]) /\ l \in 1..Len(records[x])
        BY <1>3, <2>4, <2>5, <3>1, <4>1 DEF Inv, OneEach
      <4>2. CASE i \in 1..Len(records[x]) /\ l = Len(records[x]) + 1
        BY <2>2, <2>4, <2>5, <2>14, <3>1, <4>2
      <4>3. CASE i = Len(records[x]) + 1 /\ l \in 1..Len(records[x])
        BY <2>2, <2>4, <2>5, <2>14, <3>1, <4>3
      <4>4. CASE i = Len(records[x]) + 1 /\ l = Len(records[x]) + 1
        BY <4>4
      <4> QED BY <2>4, <2>5, <4>1, <4>2, <4>3, <4>4
    <3>2. ASSUME NEW y \in ExpansionIds, y # x,
                 NEW i \in 1..Len(records'[y]), NEW l \in 1..Len(records'[y]),
                 records'[y][i].approver = records'[y][l].approver
          PROVE  i = l
      BY <2>5, <3>2 DEF Inv, OneEach
    <3> QED BY <3>1, <3>2 DEF OneEach
  <2>16. Backed'
    <3>1. ASSUME NEW y \in ExpansionIds, expansions[y].status = "approved",
                 basis[y].rule # None
          PROVE  Len(records'[y]) >= RuleOf[basis[y].rule].required
      <4>1. Len(records[y]) >= RuleOf[basis[y].rule].required
        BY <3>1 DEF Inv, Backed
      <4>2. RuleOf[basis[y].rule].required \in Nat
        BY <3>1, Types DEF Inv, TypeOK, Bases, ApprovalRules
      <4> QED BY <2>6, <4>1, <4>2, <2>13, Types DEF TypeOK, Inv
    <3> QED BY <2>3, <3>1 DEF Inv, Backed
  <2>17. Stops
    <3>1. \A h \in Handlers : job'[h] # job[h] => h = p
      BY <2>11 DEF Inv, TypeOK
    <3>2. \A c \in j.banned : containments[c] = "lifted"
      BY <1>3 DEF Serving, Guarded
    <3> QED BY <1>1, <2>3, <3>1, <3>2 DEF Stops, InForce
  <2> QED BY <2>12, <2>13, <2>15, <2>16, <2>17 DEF Inv
<1> QED BY <1>4, <1>5

\* A decision is committed.
LEMMA CommitStep ==
  ASSUME Inv, NEW p \in Handlers, CommitExpansionDecision(p)
  PROVE  Inv' /\ Stops
<1>1. PICK j : j = job[p]
  OBVIOUS
<1>2. PICK x : x = j.item
  OBVIOUS
<1>3. /\ j \in Jobs /\ Serving(j) /\ j.pc = "commit" /\ x \in ExpansionIds
      /\ j.kind \in {"submission", "approval", "denial"}
  BY <1>1, <1>2, AtWork DEF CommitExpansionDecision, Serving, Stages
<1>4. CASE ~Unchanged(j)
  <2>1. /\ job' = [job EXCEPT ![p] = Idle] /\ UNCHANGED <<store, basis>>
        /\ cut' \subseteq ExpansionIds
    BY <1>1, <1>4 DEF CommitExpansionDecision, store, Inv, TypeOK
  <2> QED BY <2>1, ReturnStep
<1>5. CASE Unchanged(j)
  <2>1. PICK e : e = [status |-> Verdict(j), approver |-> j.approver]
    OBVIOUS
  <2>2. PICK b : b = [rule |-> j.rule, known |-> j.known]
    OBVIOUS
  <2>3. /\ e \in Requests /\ e.approver = j.approver
        /\ e.status = "approved" => j.kind \in {"submission", "approval"}
        /\ b \in Bases /\ b.rule = j.rule /\ b.known = j.known
    BY <1>3, <2>1, <2>2 DEF Requests, Bases, Verdict, Jobs, Serving
  <2>4. /\ expansions' = [expansions EXCEPT ![x] = e]
        /\ basis' = [basis EXCEPT ![x] = b]
        /\ expansions[x].status = "pending"
        /\ mission' = IF j.kind = "denial" THEN mission
                      ELSE [state |-> "active", version |-> j.version + 1]
        /\ job' = [job EXCEPT ![p] = Idle]
        /\ UNCHANGED <<rules, records, containments, cut>>
    BY <1>1, <1>2, <1>5, <2>1, <2>2 DEF CommitExpansionDecision, Unchanged
  <2>5. mission' \in Missions
    BY <1>3, <2>4 DEF Inv, TypeOK, Missions, Jobs
  <2>6. Grows
    BY <2>4, Types DEF Inv, Grows
  <2>7. job' \in [Handlers -> Jobs] /\ Handling'
    BY <2>4, <2>6, IdleType, JobStep DEF Inv
  <2>8. TypeOK'
    BY <2>3, <2>4, <2>5, <2>7 DEF Inv, TypeOK
  <2>9. OneEach'
    BY <2>4 DEF Inv, OneEach
  <2>10. ASSUME NEW y \in ExpansionIds, y # x
         PROVE  expansions'[y] = expansions[y] /\ basis'[y] = basis[y]
    BY <2>4, <2>10 DEF Inv, TypeOK
  <2>11. expansions'[x] = e /\ basis'[x] = b
    BY <1>3, <2>4 DEF Inv, TypeOK
  <2>12. Backed'
    <3>1. ASSUME e.status = "approved"
          PROVE  /\ (\E r \in b.known : x \in RuleOf[r].matches) => b.rule # None
                 /\ b.rule # None =>
                       /\ Len(records[x]) >= RuleOf[b.rule].required
                       /\ e.approver \in RuleOf[b.rule].allowed
      BY <1>2, <1>3, <2>3, <3>1 DEF Serving, Ruled
    <3> QED BY <2>4, <2>10, <2>11, <3>1 DEF Inv, Backed
  <2>13. Stops
    <3>1. \A h \in Handlers : job'[h] # job[h] => h = p
      BY <2>4 DEF Inv, TypeOK
    <3>2. e.status = "approved" => \A c \in j.banned : containments[c] = "lifted"
      BY <1>3, <2>3 DEF Serving, Guarded
    <3> QED BY <1>1, <1>2, <2>4, <2>11, <3>1, <3>2 DEF Stops, InForce
  <2> QED BY <2>7, <2>8, <2>9, <2>12, <2>13 DEF Inv
<1> QED BY <1>4, <1>5

\* A handler fails or dies.
LEMMA FailStep ==
  ASSUME Inv, NEW p \in Handlers, Fail(p)
  PROVE  Inv' /\ Stops
<1>1. job[p].item \in ExpansionIds
  BY DEF Fail, Inv, Handling, Serving
<1>2. cut' \subseteq ExpansionIds
  BY <1>1 DEF Fail, Inv, TypeOK
<1> QED BY <1>2, ReturnStep DEF Fail

\* Rules and the mission change under the handlers.
LEMMA AdministerStep ==
  ASSUME Inv, NEW p \in Handlers, Administer(p)
  PROVE  Inv' /\ Stops
<1>1. /\ UNCHANGED <<expansions, records, basis, cut, job>>
      /\ rules \subseteq rules' /\ rules' \subseteq RuleIds
  BY DEF Administer, CreateApprovalRule, CreateContainmentRule, LiftContainmentRule,
         CloseMission, history, Inv, TypeOK
<1>2. mission' \in Missions
  BY DEF Administer, CreateApprovalRule, CreateContainmentRule, LiftContainmentRule,
         CloseMission, Inv, TypeOK, Missions
<1>3. /\ containments' \in [ContainmentIds -> {"none", "active", "lifted"}]
      /\ \A c \in ContainmentIds :
            /\ containments[c] # "none" => containments'[c] # "none"
            /\ containments[c] = "lifted" => containments'[c] = "lifted"
  BY DEF Administer, CreateApprovalRule, CreateContainmentRule, LiftContainmentRule,
         CloseMission, Inv, TypeOK
<1>4. Grows
  BY <1>1, <1>3, Types DEF Inv, Grows
<1>5. TypeOK'
  BY <1>1, <1>2, <1>3 DEF Inv, TypeOK
<1>6. Handling'
  <2>1. ASSUME NEW h \in Handlers PROVE (job[h] = Idle \/ Serving(job[h]))'
    <3>1. PICK j \in Jobs : j = job[h]
      BY DEF Inv, TypeOK
    <3>2. j = Idle \/ Serving(j)'
      BY <1>4, <3>1, ServingKept DEF Inv, Handling
    <3> QED BY <1>1, <3>1, <3>2 DEF Serving, Guarded, Ruled
  <2> QED BY <2>1 DEF Handling
<1> QED BY <1>1, <1>5, <1>6 DEF Inv, OneEach, Backed, Stops

-----------------------------------------------------------------------------
(* The theorems.                                                           *)

\* Every step.
LEMMA NextStep ==
  ASSUME Inv, [Next]_vars
  PROVE  Inv' /\ [Stops]_vars
<1>1. CASE UNCHANGED vars
  <2>1. Handling'
    BY <1>1 DEF Inv, Handling, Serving, Guarded, Ruled, vars, store, history
  <2> QED BY <1>1, <2>1 DEF Inv, TypeOK, OneEach, Backed, vars, store, history
<1>2. CASE Next
  BY <1>2, AdministerStep, ArriveStep, GuardSubmissionStep, MatchRuleStep,
     SaveRecordStep, CountApprovalsStep, RereadStep, ReadMissionStep,
     GuardDecisionStep, CommitStep, FailStep DEF Next, Continue
<1> QED BY <1>1, <1>2

\* Nothing has been submitted, and every handler is idle.
LEMMA InitInv == Init => Inv
<1> SUFFICES ASSUME Init PROVE Inv
  OBVIOUS
<1>1. TypeOK
  BY IdleType DEF Init, TypeOK, Missions, Requests, Bases
<1>2. \A x \in ExpansionIds : Len(records[x]) = 0 /\ expansions[x].status = "pending"
  BY DEF Init
<1>3. OneEach /\ Backed
  BY <1>2 DEF OneEach, Backed
<1> QED BY <1>1, <1>3 DEF Init, Inv, Handling

\* The invariant of the handlers that decide expansion requests.
THEOREM Invariant == Spec => []Inv
<1>1. Inv /\ [Next]_vars => Inv'
  BY NextStep
<1> QED BY <1>1, InitInv, PTL DEF Spec

\* Every row, submission and job has its type.
THEOREM TypeCorrect == Spec => []TypeOK
<1>1. Inv => TypeOK
  BY DEF Inv
<1> QED BY <1>1, Invariant, PTL

\* Different approvers, as many as there are submissions.
LEMMA SubmittersCounted ==
  ASSUME TypeOK, OneEach, NEW x \in ExpansionIds
  PROVE  Cardinality(Submitters(x)) = Len(records[x])
<1>1. PICK n \in Nat : n = Len(records[x]) /\ DOMAIN records[x] = 1..n
  BY Types
<1>2. PICK f : f = [i \in 1..n |-> records[x][i].approver]
  OBVIOUS
<1>3. Submitters(x) = {f[i] : i \in 1..n}
  BY <1>1, <1>2 DEF Submitters, ToSet
<1>4. f \in Bijection(1..n, Submitters(x))
  BY <1>1, <1>2, <1>3 DEF Bijection, Injection, Surjection, IsInjective, OneEach
<1>5. IsFiniteSet(1..n) /\ Cardinality(1..n) = n
  BY FS_Interval
<1> QED BY <1>1, <1>4, <1>5, FS_Bijection DEF ExistsBijection

\* An approval has the quorum of its rule behind it, of different approvers,
\* and does not pass by a rule that was there when its request arrived.
THEOREM ApprovalsHaveQuorum == Spec => []QuorumBehindApproval
<1>1. Inv => QuorumBehindApproval
  BY SubmittersCounted DEF Inv, Backed, QuorumBehindApproval
<1> QED BY <1>1, Invariant, PTL

\* A request that arrived under a containment rule writes nothing until that
\* rule is lifted.
THEOREM ContainmentHolds == Spec => ContainmentStops
<1>1. Inv /\ [Next]_vars => [Stops]_vars
  BY NextStep
<1> QED BY <1>1, Invariant, PTL DEF Spec, ContainmentStops, Stops
=============================================================================
