---------------------- MODULE MissionEvaluationProofs ----------------------
(***************************************************************************)
(* Proofs about MissionEvaluation, for every number of handlers, nonces,   *)
(* requests, containment rules and policy bundles, and whatever the        *)
(* authority regions, the rules and the conditions are.  The last part is  *)
(* about what the operations on regions do with their grants.              *)
(***************************************************************************)
EXTENDS MissionEvaluation, NumberFacts, FiniteSetTheorems, SequenceTheorems

(***************************************************************************)
(* Rows and jobs.                                                          *)
(***************************************************************************)
IsRow(m) == /\ m = [state |-> m.state, version |-> m.version, region |-> m.region]
            /\ m.state \in States /\ m.version \in Nat

IsJob(j) ==
    j = [pc |-> j.pc, nonce |-> j.nonce, request |-> j.request, copy |-> j.copy,
         base |-> j.base, decision |-> j.decision, goal |-> j.goal,
         bundle |-> j.bundle, banned |-> j.banned, policed |-> j.policed,
         archived |-> j.archived]

\* A job that answers a request of the agent; one that has read the mission; one
\* that has come to a decision.
Decided == {"policy", "global", "evidence"}
Informed == {"contain", "recheck", "expand", "transition"} \cup Decided
Asking == {"nonce", "contract", "mission"} \cup Informed

\* What evaluation permits: the request was in the scope of the row and met the
\* conditions.
Granted(row, q) ==
    /\ row.state = "active"
    /\ ~forbids(row.region, ActionAsked(q))
    /\ \E k \in DOMAIN row.region.resources :
          LET grant == row.region.resources[k]
          IN  /\ resourceMatches(grant, ActionAsked(q))
              /\ contains(grant.actions, ActionAsked(q).operation)
              /\ grant.constraints \subseteq q.context
    /\ Conditions \subseteq q.context
    /\ q.seen = 0 \/ q.seen >= row.version

\* Rules the request arrived under: each was active then, so it is active or
\* lifted now, and the evaluation still sees it while it is active.
Banned(j) ==
    \A c \in j.banned : /\ c \in ContainmentIds
                        /\ containments[c] # "none"
                        /\ containmentRuleMatchesEvaluation(c, ActionAsked(j.request))

\* A policy that was in force when the request arrived is found.
Policed(j) ==
    j.policed =>
        /\ j.pc \notin {"global", "evidence"} => Active(Tenant) \cup Active(Global) # {}
        /\ j.pc = "global" => Active(Global) # {}
        /\ j.pc = "evidence" => j.bundle # None

JobOK(j) ==
    /\ IsJob(j) /\ j.pc \in Steps
    /\ j.pc = "idle" => j = Idle
    /\ j.pc = "derive" => j.nonce = None
    /\ j.pc # "activate" => j.archived = {}
    /\ j.pc = "activate" => /\ j.bundle \in BundleIds
                            /\ j.archived \subseteq Active(BundleOf[j.bundle].tenant) \ {j.bundle}
    /\ j.goal \in {"active", "expired", "suspended"}
    /\ j.pc \in Asking =>
          /\ j.nonce \in Nonces /\ j.request \in Requests /\ j.policed \in BOOLEAN
          /\ Banned(j) /\ Policed(j)
          /\ j.base \in Decisions
          /\ j.pc = "evidence" => /\ j.bundle \in BundleIds \cup {None}
                                  /\ j.decision \in Decisions
                                  /\ j.decision \in Permitting => j.base \in Permitting
          /\ j.pc # "evidence" => j.bundle = None
          /\ j.pc \notin Decided => j.base \notin Permitting
          /\ j.base \in Permitting =>
                /\ Granted(j.copy, j.request)
                /\ \A c \in j.banned : containments[c] # "active"
    /\ j.pc \in Informed => j.copy \in past
    /\ j.pc \in {"contain", "recheck", "expand"} => j.copy.state = "active"

JobsOK == /\ job = [p \in Handlers |-> job[p]]
          /\ \A p \in Handlers : JobOK(job[p])

(***************************************************************************)
(* The store.                                                              *)
(***************************************************************************)
StoreOK ==
    /\ agent \in {"none", "active", "revoked"}
    /\ nonces \subseteq Nonces /\ contracts \subseteq DOMAIN ContractOf
    /\ mission \in past /\ \A row \in past : IsRow(row)
    /\ containments \in [ContainmentIds -> {"none", "active", "lifted"}]
    /\ bundles \in [BundleIds -> {"none", "draft", "active", "archived"}]
    /\ \A x \in expansions : x.seen \in Nat

\* Of the bundles of a tenant one is active once any was.
OneActive ==
    \A b \in BundleIds : bundles[b] \in {"active", "archived"} =>
        \E c \in BundleIds : Active(BundleOf[b].tenant) = {c}

EvidenceOK ==
    \A e \in evidence :
        /\ e \in Answers
        /\ e.decision \in Permitting =>
              /\ e.base \in Permitting
              /\ \E row \in past : row.version = e.version /\ Granted(row, e.request)
        /\ e.policed => e.bundle # None

(***************************************************************************)
(* A nonce is spent on one request, in flight or answered.                 *)
(***************************************************************************)
Serving(j) == j.pc \in Asking \ {"nonce"}

Once ==
    /\ \A p \in Handlers : Serving(job[p]) =>
          /\ job[p].nonce \in nonces
          /\ \A q \in Handlers : Serving(job[q]) /\ job[q].nonce = job[p].nonce => q = p
          /\ \A e \in evidence : e.nonce # job[p].nonce
    /\ \A e \in evidence : e.nonce \in nonces
    /\ \A e, f \in evidence : e.nonce = f.nonce => e = f

Inv == StoreOK /\ OneActive /\ EvidenceOK /\ JobsOK /\ Once

\* What no step takes back.
Grows ==
    /\ past \subseteq past'
    /\ \A c \in ContainmentIds :
          /\ containments[c] # "none" => containments'[c] # "none"
          /\ containments[c] \notin {"none", "active"} => containments'[c] # "active"
    /\ \A t \in {Tenant, Global} : Active(t) # {} => Active(t)' # {}

-----------------------------------------------------------------------------
(* What the jobs keep while the store moves on.                            *)

\* What a handler has read stays as good as it was, an activation's list of
\* bundles to archive aside.
LEMMA JobGrows ==
  ASSUME Grows, NEW k, JobOK(k),
         k.pc = "activate" =>
            k.archived \subseteq Active(BundleOf[k.bundle].tenant)' \ {k.bundle}
  PROVE  JobOK(k)'
<1>1. Banned(k) => Banned(k)'
  BY DEF Banned, Grows
<1>2. Policed(k) => Policed(k)'
  BY DEF Policed, Grows
<1>3. ASSUME Banned(k), \A c \in k.banned : containments[c] # "active"
      PROVE  \A c \in k.banned : containments'[c] # "active"
  BY <1>3 DEF Banned, Grows
<1>4. k.pc \in Informed => k.copy \in past'
  BY DEF JobOK, Grows
<1> QED BY <1>1, <1>2, <1>3, <1>4 DEF JobOK, Granted

\* A handler goes on with a sound job while the bundles stay as they are.
LEMMA JobStep ==
  ASSUME Inv, Grows, bundles' = bundles,
         NEW h \in Handlers, NEW k, job' = [job EXCEPT ![h] = k], JobOK(k)'
  PROVE  JobsOK'
<1>1. /\ job' = [p \in Handlers |-> job'[p]]
      /\ job'[h] = k /\ \A p \in Handlers : p # h => job'[p] = job[p]
  BY DEF Inv, JobsOK
<1>2. ASSUME NEW p \in Handlers PROVE JobOK(job[p])'
  <2>1. CASE p = h
    <3>1. PICK j : j = job'[p] /\ j = k
      BY <1>1, <2>1
    <3> QED BY <3>1 DEF JobOK, IsJob, Banned, Policed, Granted
  <2>2. CASE p # h
    <3>1. PICK j : j = job[p] /\ j = job'[p]
      BY <1>1, <2>2
    <3>2. JobOK(j)
      BY <3>1 DEF Inv, JobsOK
    <3>3. JobOK(j)'
      <4>1. j.pc = "activate" =>
                j.archived \subseteq Active(BundleOf[j.bundle].tenant)' \ {j.bundle}
        BY <3>2 DEF JobOK, Active
      <4> QED BY <3>2, <4>1, JobGrows
    <3> QED BY <3>1, <3>3 DEF JobOK, IsJob, Banned, Policed, Granted
  <2> QED BY <2>1, <2>2
<1> QED BY <1>1, <1>2 DEF JobsOK

\* All jobs stay.
LEMMA JobsGrow ==
  ASSUME Inv, Grows, bundles' = bundles, job' = job
  PROVE  JobsOK'
<1>1. job' = [p \in Handlers |-> job'[p]]
  BY DEF Inv, JobsOK
<1>2. ASSUME NEW p \in Handlers PROVE JobOK(job[p])'
  <2>1. PICK j : j = job[p] /\ j = job'[p]
    OBVIOUS
  <2>2. JobOK(j)
    BY <2>1 DEF Inv, JobsOK
  <2>3. JobOK(j)'
    <3>1. j.pc = "activate" =>
              j.archived \subseteq Active(BundleOf[j.bundle].tenant)' \ {j.bundle}
      BY <2>2 DEF JobOK, Active
    <3> QED BY <2>2, <3>1, JobGrows
  <2> QED BY <2>1, <2>3 DEF JobOK, IsJob, Banned, Policed, Granted
<1> QED BY <1>1, <1>2 DEF JobsOK

\* A handler that goes on with its nonce, or stops serving, spends none.
LEMMA OnceKept ==
  ASSUME Inv, evidence' = evidence, nonces \subseteq nonces',
         NEW h \in Handlers, NEW k, job' = [job EXCEPT ![h] = k],
         Serving(k) => Serving(job[h]) /\ k.nonce = job[h].nonce
  PROVE  Once'
<1>1. /\ job'[h] = k /\ \A p \in Handlers : p # h => job'[p] = job[p]
  BY DEF Inv, JobsOK
<1>2. \A p \in Handlers : Serving(job'[p]) =>
          Serving(job[p]) /\ job'[p].nonce = job[p].nonce
  BY <1>1 DEF Serving
<1>3. Once
  BY DEF Inv
<1>4. ASSUME NEW p \in Handlers, Serving(job'[p])
      PROVE  /\ job'[p].nonce \in nonces'
             /\ \A q \in Handlers : Serving(job'[q]) /\ job'[q].nonce = job'[p].nonce => q = p
             /\ \A e \in evidence' : e.nonce # job'[p].nonce
  <2>1. Serving(job[p]) /\ job'[p].nonce = job[p].nonce
    BY <1>2, <1>4
  <2> QED BY <1>2, <1>3, <2>1 DEF Once
<1> QED BY <1>3, <1>4 DEF Once, Serving

\* All jobs and all evidence stay.
LEMMA OnceStays ==
  ASSUME Inv, evidence' = evidence, nonces' = nonces, job' = job
  PROVE  Once'
  BY DEF Inv, Once, Serving

\* The store stands still.
LEMMA Still ==
  ASSUME Inv, UNCHANGED <<store, past>>
  PROVE  StoreOK' /\ OneActive' /\ EvidenceOK' /\ Grows
<1>1. /\ UNCHANGED <<agent, contracts, containments, bundles>>
      /\ UNCHANGED <<nonces, expansions, evidence, mission, past>>
  BY DEF store, admin, results
<1>2. StoreOK'
  BY <1>1 DEF Inv, StoreOK, IsRow
<1>3. OneActive'
  BY <1>1 DEF Inv, OneActive, Active
<1>4. EvidenceOK'
  BY <1>1 DEF Inv, EvidenceOK, Granted
<1>5. Grows
  BY <1>1 DEF Grows, Active
<1> QED BY <1>2, <1>3, <1>4, <1>5

\* A handler reads and goes on with a sound job.
LEMMA ReadStep ==
  ASSUME Inv, UNCHANGED <<store, past>>,
         NEW h \in Handlers, NEW k, job' = [job EXCEPT ![h] = k], JobOK(k),
         Serving(k) => Serving(job[h]) /\ k.nonce = job[h].nonce
  PROVE  Inv'
<1>1. /\ UNCHANGED <<agent, contracts, containments, bundles>>
      /\ UNCHANGED <<nonces, expansions, evidence, mission, past>>
  BY DEF store, admin, results
<1>2. StoreOK' /\ OneActive' /\ EvidenceOK' /\ Grows
  BY Still
<1>3. JobOK(k)'
  <2>1. k.pc = "activate" =>
            k.archived \subseteq Active(BundleOf[k.bundle].tenant)' \ {k.bundle}
    BY <1>1 DEF JobOK, Active
  <2> QED BY <1>2, <2>1, JobGrows
<1>4. JobsOK'
  BY <1>1, <1>2, <1>3, JobStep
<1>5. Once'
  BY <1>1, OnceKept
<1> QED BY <1>2, <1>4, <1>5 DEF Inv

\* A handler without a request.
LEMMA IdleJob ==
  /\ Idle.pc = "idle" /\ JobOK(Idle) /\ JobOK(Idle)' /\ ~Serving(Idle)
<1>1. /\ IsJob(Idle) /\ Idle.pc = "idle" /\ Idle.archived = {} /\ Idle.goal = "active"
  BY DEF Idle, IsJob
<1> QED BY <1>1 DEF JobOK, Serving, Steps, Asking, Informed, Decided

-----------------------------------------------------------------------------
(* Administration.                                                         *)

\* Requests that write the identity, the contracts or the containment rules.
LEMMA AdminStep ==
  ASSUME Inv, UNCHANGED <<bundles, nonces, expansions, evidence, mission, past, job>>,
         agent' \in {"none", "active", "revoked"}, contracts' \subseteq DOMAIN ContractOf,
         containments' \in [ContainmentIds -> {"none", "active", "lifted"}],
         \A c \in ContainmentIds :
            /\ containments[c] # "none" => containments'[c] # "none"
            /\ containments[c] \notin {"none", "active"} => containments'[c] # "active"
  PROVE  Inv'
<1>1. StoreOK'
  BY DEF Inv, StoreOK, IsRow
<1>2. OneActive'
  BY DEF Inv, OneActive, Active
<1>3. EvidenceOK'
  BY DEF Inv, EvidenceOK, Granted
<1>4. Grows
  BY DEF Grows, Active
<1>5. JobsOK' /\ Once'
  BY <1>4, JobsGrow, OnceStays
<1> QED BY <1>1, <1>2, <1>3, <1>5 DEF Inv

\* CreateContainmentRule and LiftContainmentRule.
LEMMA SetContainmentRuleStep ==
  ASSUME Inv, NEW p \in Handlers, NEW c \in ContainmentIds, NEW from, NEW to,
         <<from, to>> \in {<<"none", "active">>, <<"active", "lifted">>},
         SetContainmentRule(p, c, from, to)
  PROVE  Inv'
<1>1. /\ containments[c] = from /\ containments' = [containments EXCEPT ![c] = to]
      /\ UNCHANGED <<bundles, nonces, expansions, evidence, mission, past, job>>
      /\ agent' = agent /\ contracts' = contracts
  BY DEF SetContainmentRule, results
<1>2. containments \in [ContainmentIds -> {"none", "active", "lifted"}]
  BY DEF Inv, StoreOK
<1>3. \/ from = "none" /\ to = "active"
      \/ from = "active" /\ to = "lifted"
  OBVIOUS
<1>4. /\ containments' \in [ContainmentIds -> {"none", "active", "lifted"}]
      /\ \A d \in ContainmentIds :
            /\ containments[d] # "none" => containments'[d] # "none"
            /\ containments[d] \notin {"none", "active"} => containments'[d] # "active"
  BY <1>1, <1>2, <1>3
<1>5. agent' \in {"none", "active", "revoked"} /\ contracts' \subseteq DOMAIN ContractOf
  BY <1>1 DEF Inv, StoreOK
<1> QED BY <1>1, <1>4, <1>5, AdminStep

\* RegisterAgent, RevokeAgent, RegisterToolContract.
LEMMA RegisterStep ==
  ASSUME Inv, NEW p \in Handlers,
         \/ RegisterAgent(p) \/ RevokeAgent(p)
         \/ \E tool \in DOMAIN ContractOf : RegisterToolContract(p, tool)
  PROVE  Inv'
<1>1. /\ UNCHANGED <<bundles, nonces, expansions, evidence, mission, past, job>>
      /\ containments' = containments
      /\ agent' \in {"none", "active", "revoked"} /\ contracts' \subseteq DOMAIN ContractOf
  BY DEF RegisterAgent, RevokeAgent, RegisterToolContract, results, Inv, StoreOK
<1>2. containments' \in [ContainmentIds -> {"none", "active", "lifted"}]
  BY <1>1 DEF Inv, StoreOK
<1> QED BY <1>1, <1>2, AdminStep

\* A new bundle is a draft.
LEMMA CreatePolicyBundleStep ==
  ASSUME Inv, NEW p \in Handlers, NEW b \in BundleIds, CreatePolicyBundle(p, b)
  PROVE  Inv'
<1>1. /\ UNCHANGED <<agent, contracts, containments>>
      /\ UNCHANGED <<nonces, expansions, evidence, mission, past, job>>
      /\ bundles[b] = "none" /\ bundles' = [bundles EXCEPT ![b] = "draft"]
  BY DEF CreatePolicyBundle, results
<1>2. bundles \in [BundleIds -> {"none", "draft", "active", "archived"}]
  BY DEF Inv, StoreOK
<1>3. \A t : Active(t)' = Active(t)
  BY <1>1, <1>2 DEF Active
<1>4. \A c \in BundleIds : bundles'[c] \in {"active", "archived"} => bundles'[c] = bundles[c]
  BY <1>1, <1>2
<1>5. StoreOK'
  BY <1>1, <1>2 DEF Inv, StoreOK, IsRow
<1>6. OneActive'
  BY <1>3, <1>4 DEF Inv, OneActive
<1>7. EvidenceOK'
  BY <1>1 DEF Inv, EvidenceOK, Granted
<1>8. Grows
  BY <1>1, <1>3 DEF Grows
<1>9. Once'
  BY <1>1, OnceStays
<1>10. ASSUME NEW q \in Handlers PROVE JobOK(job[q])'
  <2>1. PICK j : j = job[q] /\ j = job'[q]
    BY <1>1
  <2>2. JobOK(j)
    BY <2>1 DEF Inv, JobsOK
  <2>3. j.pc = "activate" =>
            j.archived \subseteq Active(BundleOf[j.bundle].tenant)' \ {j.bundle}
    BY <1>3, <2>2 DEF JobOK
  <2>4. JobOK(j)'
    BY <1>8, <2>2, <2>3, JobGrows
  <2> QED BY <2>1, <2>4 DEF JobOK, IsJob, Banned, Policed, Granted
<1>11. JobsOK'
  BY <1>1, <1>10 DEF Inv, JobsOK
<1> QED BY <1>5, <1>6, <1>7, <1>9, <1>11 DEF Inv

\* The first statement of an activation.
LEMMA ActivatePolicyBundleStep ==
  ASSUME Inv, NEW p \in Handlers, NEW b \in BundleIds, ActivatePolicyBundle(p, b)
  PROVE  Inv'
<1>1. PICK k : k = [Idle EXCEPT !.pc = "activate", !.bundle = b,
                      !.archived = Active(BundleOf[b].tenant) \ {b}]
  OBVIOUS
<1>2. UNCHANGED <<store, past>> /\ job' = [job EXCEPT ![p] = k]
  BY <1>1 DEF ActivatePolicyBundle
<1>3. /\ IsJob(k) /\ k.pc = "activate" /\ k.bundle = b /\ k.goal = "active"
      /\ k.archived = Active(BundleOf[b].tenant) \ {b}
  BY <1>1 DEF Idle, IsJob
<1>4. JobOK(k) /\ ~Serving(k)
  BY <1>3 DEF JobOK, Serving, Steps, Asking, Informed, Decided
<1> QED BY <1>2, <1>4, ReadStep

\* The commit, when the index admits it: the bundle is the only active one of
\* its tenant from then on.
LEMMA Admitted ==
  ASSUME Inv, NEW p \in Handlers, CommitActivation(p),
         NEW b, NEW t, NEW A,
         b = job[p].bundle, t = BundleOf[b].tenant, A = job[p].archived,
         OnlyActive(b, A)
  PROVE  /\ b \in BundleIds
         /\ bundles' \in [BundleIds -> {"none", "draft", "active", "archived"}]
         /\ Active(t)' = {b}
         /\ \A u : u # t => Active(u)' = Active(u)
         /\ \A c \in BundleIds : BundleOf[c].tenant # t => bundles'[c] = bundles[c]
<1>1. b \in BundleIds /\ A \subseteq Active(t) \ {b} /\ Active(t) \subseteq A \cup {b}
  <2>1. JobOK(job[p]) /\ job[p].pc = "activate"
    BY DEF CommitActivation, Inv, JobsOK
  <2> QED BY <2>1 DEF JobOK, OnlyActive
<1>2. \A c \in BundleIds : bundles'[c] = IF c = b THEN "active"
                                         ELSE IF c \in A THEN "archived" ELSE bundles[c]
  BY DEF CommitActivation
<1>3. bundles' \in [BundleIds -> {"none", "draft", "active", "archived"}]
  BY DEF CommitActivation, Inv, StoreOK
<1>4. Active(t)' = {b}
  BY <1>1, <1>2 DEF Active
<1>5. \A c \in BundleIds : BundleOf[c].tenant # t => bundles'[c] = bundles[c]
  BY <1>1, <1>2 DEF Active
<1>6. \A u : u # t => Active(u)' = Active(u)
  BY <1>5 DEF Active
<1> QED BY <1>1, <1>3, <1>4, <1>5, <1>6

\* The other activations under way have lost the bundles it archived.
LEMMA CommitActivationStep ==
  ASSUME Inv, NEW p \in Handlers, CommitActivation(p)
  PROVE  Inv'
<1> PICK b, t, A : b = job[p].bundle /\ t = BundleOf[b].tenant /\ A = job[p].archived
  OBVIOUS
<1>1. /\ UNCHANGED <<agent, contracts, containments>>
      /\ UNCHANGED <<nonces, expansions, evidence, mission, past>>
      /\ job' = [q \in Handlers |->
                     IF q = p THEN Idle
                     ELSE [job[q] EXCEPT !.archived = IF OnlyActive(b, A) THEN @ \ A ELSE @]]
  BY DEF CommitActivation, results
<1>2. \/ /\ OnlyActive(b, A) /\ b \in BundleIds
         /\ bundles' \in [BundleIds -> {"none", "draft", "active", "archived"}]
         /\ Active(t)' = {b}
         /\ \A u : u # t => Active(u)' = Active(u)
         /\ \A c \in BundleIds : BundleOf[c].tenant # t => bundles'[c] = bundles[c]
      \/ ~OnlyActive(b, A) /\ bundles' = bundles
  <2>1. ~OnlyActive(b, A) => bundles' = bundles
    BY DEF CommitActivation
  <2>2. ASSUME OnlyActive(b, A)
        PROVE  /\ b \in BundleIds
               /\ bundles' \in [BundleIds -> {"none", "draft", "active", "archived"}]
               /\ Active(t)' = {b}
               /\ \A u : u # t => Active(u)' = Active(u)
               /\ \A c \in BundleIds : BundleOf[c].tenant # t => bundles'[c] = bundles[c]
    BY <2>2, Admitted
  <2> QED BY <2>1, <2>2
<1>3. StoreOK'
  BY <1>1, <1>2 DEF Inv, StoreOK, IsRow
<1>4. OneActive'
  <2>1. ASSUME NEW c \in BundleIds, bundles'[c] \in {"active", "archived"}
        PROVE  \E d \in BundleIds : Active(BundleOf[c].tenant)' = {d}
    <3>1. CASE BundleOf[c].tenant = t /\ OnlyActive(b, A)
      BY <1>2, <3>1
    <3>2. CASE BundleOf[c].tenant # t \/ ~OnlyActive(b, A)
      <4>1. /\ bundles'[c] = bundles[c]
            /\ Active(BundleOf[c].tenant)' = Active(BundleOf[c].tenant)
        BY <1>2, <3>2 DEF Active
      <4> QED BY <2>1, <4>1 DEF Inv, OneActive
    <3> QED BY <3>1, <3>2
  <2> QED BY <2>1 DEF OneActive
<1>5. EvidenceOK'
  BY <1>1 DEF Inv, EvidenceOK, Granted
<1>6. Grows
  <2>1. \A u \in {Tenant, Global} : Active(u) # {} => Active(u)' # {}
    BY <1>2 DEF Active
  <2> QED BY <1>1, <2>1 DEF Grows
<1>7. ASSUME NEW q \in Handlers
      PROVE  JobOK(job[q])' /\ (Serving(job'[q]) => job'[q] = job[q])
  <2>1. CASE q = p
    <3>1. job'[q] = Idle
      BY <1>1, <2>1
    <3> QED BY <3>1, IdleJob DEF JobOK, IsJob, Banned, Policed, Granted, Serving
  <2>2. CASE q # p
    <3>1. PICK j : j = job[q] /\ JobOK(j)
      BY DEF Inv, JobsOK
    <3>2. PICK k : k = job'[q]
      OBVIOUS
    <3>3. k = [j EXCEPT !.archived = IF OnlyActive(b, A) THEN j.archived \ A ELSE j.archived]
      BY <1>1, <2>2, <3>1, <3>2
    <3>4. IsJob(j)
      BY <3>1 DEF JobOK
    <3>5. CASE j.pc # "activate"
      <4>1. j.archived = {}
        BY <3>1, <3>5 DEF JobOK
      <4>2. k = j
        BY <3>3, <3>4, <4>1 DEF IsJob
      <4>3. JobOK(j)'
        BY <1>6, <3>1, <3>5, JobGrows
      <4> QED BY <3>1, <3>2, <4>2, <4>3 DEF JobOK, IsJob, Banned, Policed, Granted
    <3>6. CASE j.pc = "activate"
      <4>1. /\ IsJob(k) /\ k.pc = "activate" /\ k.bundle = j.bundle /\ k.goal = j.goal
            /\ k.archived = IF OnlyActive(b, A) THEN j.archived \ A ELSE j.archived
        BY <3>3, <3>4, <3>6 DEF IsJob
      <4>2. /\ j.bundle \in BundleIds /\ j.goal \in {"active", "expired", "suspended"}
            /\ j.archived \subseteq Active(BundleOf[j.bundle].tenant) \ {j.bundle}
        BY <3>1, <3>6 DEF JobOK
      <4>3. k.archived \subseteq Active(BundleOf[k.bundle].tenant)' \ {k.bundle}
        <5>1. CASE ~OnlyActive(b, A)
          BY <1>2, <4>1, <4>2, <5>1 DEF Active
        <5>2. CASE OnlyActive(b, A) /\ BundleOf[j.bundle].tenant # t
          BY <1>2, <4>1, <4>2, <5>2
        <5>3. CASE OnlyActive(b, A) /\ BundleOf[j.bundle].tenant = t
          <6>1. j.archived \subseteq A \cup {b}
            BY <4>2, <5>3 DEF OnlyActive
          <6> QED BY <1>2, <4>1, <4>2, <5>3, <6>1
        <5> QED BY <5>1, <5>2, <5>3
      <4>4. JobOK(k)' /\ ~Serving(k)
        BY <4>1, <4>2, <4>3 DEF JobOK, Serving, Steps, Asking, Informed, Decided
      <4> QED BY <3>2, <4>4 DEF JobOK, IsJob, Banned, Policed, Granted
    <3> QED BY <3>5, <3>6
  <2> QED BY <2>1, <2>2
<1>8. JobsOK'
  BY <1>1, <1>7 DEF JobsOK
<1>9. Once'
  <2>1. Once
    BY DEF Inv
  <2>2. \A q \in Handlers : Serving(job'[q]) => job'[q] = job[q]
    BY <1>7
  <2> QED BY <1>1, <2>1, <2>2 DEF Once
<1> QED BY <1>3, <1>4, <1>5, <1>8, <1>9 DEF Inv

-----------------------------------------------------------------------------
(* A request of the agent.                                                 *)

\* A signed request arrives.
LEMMA VerifyStep ==
  ASSUME Inv, NEW p \in Handlers, NEW n \in Nonces, NEW q \in Requests,
         VerifyAgentRequestSignature(p, n, q)
  PROVE  Inv'
<1>1. PICK k : k = [Idle EXCEPT !.pc = "nonce", !.nonce = n, !.request = q,
                      !.banned = InForce(ActionAsked(q)),
                      !.policed = Active(Tenant) \cup Active(Global) # {}]
  OBVIOUS
<1>2. UNCHANGED <<store, past>> /\ job' = [job EXCEPT ![p] = k]
  BY <1>1 DEF VerifyAgentRequestSignature
<1>3. /\ IsJob(k) /\ k.pc = "nonce" /\ k.nonce = n /\ k.request = q /\ k.goal = "active"
      /\ k.banned = InForce(ActionAsked(q)) /\ k.base = "deny" /\ k.bundle = None
      /\ k.policed = (Active(Tenant) \cup Active(Global) # {}) /\ k.archived = {}
  BY <1>1 DEF Idle, IsJob
<1>4. Banned(k)
  BY <1>3 DEF Banned, InForce
<1>5. Policed(k) /\ k.policed \in BOOLEAN
  BY <1>3 DEF Policed
<1>6. JobOK(k) /\ ~Serving(k)
  BY <1>3, <1>4, <1>5 DEF JobOK, Serving, Steps, Asking, Informed, Decided, Decisions,
     Permitting
<1> QED BY <1>2, <1>6, ReadStep

\* The nonce is stored; a request with a fresh one is served from then on.
LEMMA SaveAgentNonceStep ==
  ASSUME Inv, NEW p \in Handlers, SaveAgentNonce(p)
  PROVE  Inv'
<1>1. PICK j : j = job[p] /\ JobOK(j) /\ j.pc = "nonce"
  BY DEF SaveAgentNonce, Inv, JobsOK
<1>2. /\ IsJob(j) /\ j.nonce \in Nonces /\ j.archived = {} /\ j.bundle = None
      /\ j.base \notin Permitting
  BY <1>1 DEF JobOK, Asking, Decided
<1>3. /\ nonces' = nonces \cup {j.nonce}
      /\ UNCHANGED <<agent, contracts, containments, bundles>>
      /\ UNCHANGED <<expansions, evidence, mission, past>>
  BY <1>1 DEF SaveAgentNonce, admin
<1>4. StoreOK'
  BY <1>2, <1>3 DEF Inv, StoreOK, IsRow
<1>5. OneActive' /\ EvidenceOK' /\ Grows
  BY <1>3 DEF Inv, OneActive, Active, EvidenceOK, Granted, Grows
<1>6. CASE j.nonce \in nonces
  <2>1. PICK k : k = Idle
    OBVIOUS
  <2>2. job' = [job EXCEPT ![p] = k]
    BY <1>1, <1>6, <2>1 DEF SaveAgentNonce, NonceFresh, Return
  <2>3. JobOK(k)' /\ ~Serving(k)
    BY <2>1 DEF Idle, IsJob, JobOK, Serving, Steps, Asking, Informed, Decided
  <2>4. JobsOK'
    BY <1>3, <1>5, <2>2, <2>3, JobStep
  <2>5. Once'
    BY <1>3, <2>2, <2>3, OnceKept
  <2> QED BY <1>4, <1>5, <2>4, <2>5 DEF Inv
<1>7. CASE j.nonce \notin nonces
  <2>1. PICK pc \in {"mission", "contract"} :
            job' = [job EXCEPT ![p] = [j EXCEPT !.pc = pc]]
    BY <1>1, <1>7 DEF SaveAgentNonce, NonceFresh, Goto, Inv, JobsOK
  <2>2. PICK k : k = [j EXCEPT !.pc = pc]
    OBVIOUS
  <2>3. /\ IsJob(k) /\ k.pc = pc /\ k.nonce = j.nonce /\ k.request = j.request
        /\ k.base = j.base /\ k.goal = j.goal /\ k.bundle = j.bundle
        /\ k.banned = j.banned /\ k.policed = j.policed /\ k.archived = j.archived
    BY <1>2, <2>2 DEF IsJob
  <2>4. Banned(k) /\ Policed(k)
    BY <1>1, <2>3 DEF JobOK, Asking, Banned, Policed
  <2>5. JobOK(k)
    BY <1>1, <1>2, <2>3, <2>4 DEF JobOK, Steps, Asking, Informed, Decided
  <2>6. JobOK(k)'
    <3>1. k.pc # "activate"
      BY <2>3
    <3> QED BY <1>5, <2>5, <3>1, JobGrows
  <2>7. job' = [job EXCEPT ![p] = k]
    BY <2>1, <2>2
  <2>8. JobsOK'
    BY <1>3, <1>5, <2>6, <2>7, JobStep
  <2>9. /\ job'[p] = k /\ \A q \in Handlers : q # p => job'[q] = job[q]
        /\ k.nonce \in nonces' /\ nonces \subseteq nonces'
    BY <1>3, <2>3, <2>7 DEF Inv, JobsOK
  <2>10. Once'
    <3>1. Once
      BY DEF Inv
    <3>2. ASSUME NEW q \in Handlers, Serving(job'[q])
          PROVE  /\ job'[q].nonce \in nonces'
                 /\ \A r \in Handlers : Serving(job'[r]) /\ job'[r].nonce = job'[q].nonce => r = q
                 /\ \A e \in evidence : e.nonce # job'[q].nonce
      <4>1. \A r \in Handlers : r # p /\ Serving(job'[r]) =>
                Serving(job[r]) /\ job'[r] = job[r] /\ job[r].nonce \in nonces
        BY <2>9, <3>1 DEF Once, Serving
      <4>2. CASE q = p
        BY <1>7, <2>3, <2>9, <3>1, <4>1, <4>2 DEF Once
      <4>3. CASE q # p
        BY <1>7, <2>3, <2>9, <3>1, <3>2, <4>1, <4>3 DEF Once
      <4> QED BY <4>2, <4>3
    <3> QED BY <1>3, <3>1, <3>2 DEF Once, Serving
  <2> QED BY <1>4, <1>5, <2>8, <2>10 DEF Inv
<1> QED BY <1>6, <1>7

\* A handler gives up or is done.
LEMMA ReturnStep ==
  ASSUME Inv, NEW p \in Handlers, Return(p), UNCHANGED <<store, past>>
  PROVE  Inv'
<1>1. PICK k : k = Idle
  OBVIOUS
<1>2. job' = [job EXCEPT ![p] = k] /\ JobOK(k) /\ ~Serving(k)
  BY <1>1, IdleJob DEF Return
<1> QED BY <1>2, ReadStep

\* A handler that serves a request goes on to another step of the same kind.
LEMMA GotoStep ==
  ASSUME Inv, NEW p \in Handlers, NEW pc, Goto(p, pc), UNCHANGED <<store, past>>,
         \/ job[p].pc = "contract" /\ pc = "mission"
         \/ job[p].pc = "contain" /\ pc = "recheck"
         \/ job[p].pc = "recheck" /\ pc = "expand"
  PROVE  Inv'
<1>1. PICK j : j = job[p] /\ JobOK(j) /\ j.pc \in {"contract", "contain", "recheck"}
  BY DEF Inv, JobsOK
<1>2. IsJob(j) /\ pc \in {"mission", "recheck", "expand"}
  BY <1>1 DEF JobOK
<1>3. PICK k : k = [j EXCEPT !.pc = pc]
  OBVIOUS
<1>4. job' = [job EXCEPT ![p] = k]
  BY <1>1, <1>3 DEF Goto, Inv, JobsOK
<1>5. /\ IsJob(k) /\ k.pc = pc /\ k.nonce = j.nonce /\ k.request = j.request
      /\ k.base = j.base /\ k.goal = j.goal /\ k.bundle = j.bundle /\ k.copy = j.copy
      /\ k.banned = j.banned /\ k.policed = j.policed /\ k.archived = j.archived
  BY <1>2, <1>3 DEF IsJob
<1>6. Banned(k) /\ Policed(k)
  BY <1>1, <1>2, <1>5 DEF JobOK, Asking, Informed, Banned, Policed
<1>7. JobOK(k)
  BY <1>1, <1>2, <1>5, <1>6 DEF JobOK, Steps, Asking, Informed, Decided
<1>8. Serving(job[p]) /\ k.nonce = job[p].nonce
  BY <1>1, <1>5 DEF Serving, Asking, Informed
<1> QED BY <1>4, <1>7, <1>8, ReadStep

\* The contract of the tool, and the context it asks for.
LEMMA AuthorizeToolCallStep ==
  ASSUME Inv, NEW p \in Handlers, AuthorizeToolCall(p)
  PROVE  Inv'
<1>1. UNCHANGED <<store, past>> /\ (Return(p) \/ (job[p].pc = "contract" /\ Goto(p, "mission")))
  BY DEF AuthorizeToolCall
<1>2. CASE Return(p)
  BY <1>1, <1>2, ReturnStep
<1>3. CASE job[p].pc = "contract" /\ Goto(p, "mission")
  BY <1>1, <1>3, GotoStep
<1> QED BY <1>1, <1>2, <1>3

\* The mission and the clock are read.
LEMMA EvaluateStep ==
  ASSUME Inv, NEW p \in Handlers, Evaluate(p)
  PROVE  Inv'
<1>1. PICK j : j = job[p] /\ JobOK(j) /\ j.pc = "mission"
  BY DEF Evaluate, Inv, JobsOK
<1>2. PICK goal \in {"active", "expired"}, pc \in {"transition", "contain", "policy"} :
          /\ goal = (IF over THEN "expired" ELSE "active")
          /\ pc = (IF over /\ ~terminal(mission.state) THEN "transition"
                   ELSE IF ~over /\ mission.state = "active" /\ job[p].request.own
                   THEN "contain" ELSE "policy")
          /\ pc = "contain" => mission.state = "active"
  OBVIOUS
<1>3. PICK k : k = [j EXCEPT !.copy = mission, !.goal = goal, !.pc = pc]
  OBVIOUS
<1>4. job' = [job EXCEPT ![p] = k] /\ UNCHANGED <<store, past>>
  BY <1>1, <1>2, <1>3 DEF Evaluate, Inv, JobsOK
<1>5. IsJob(j)
  BY <1>1 DEF JobOK
<1>6. /\ IsJob(k) /\ k.pc = pc /\ k.nonce = j.nonce /\ k.request = j.request
      /\ k.base = j.base /\ k.goal = goal /\ k.bundle = j.bundle /\ k.copy = mission
      /\ k.banned = j.banned /\ k.policed = j.policed /\ k.archived = j.archived
  BY <1>3, <1>5 DEF IsJob
<1>7. Banned(k) /\ Policed(k)
  BY <1>1, <1>2, <1>6 DEF JobOK, Asking, Informed, Banned, Policed
<1>8. mission \in past
  BY DEF Inv, StoreOK
<1>9. JobOK(k)
  BY <1>1, <1>2, <1>6, <1>7, <1>8 DEF JobOK, Steps, Asking, Informed, Decided
<1>10. Serving(job[p]) /\ k.nonce = job[p].nonce
  BY <1>1, <1>6 DEF Serving, Asking, Informed
<1> QED BY <1>4, <1>9, <1>10, ReadStep

-----------------------------------------------------------------------------
(* The decision.                                                           *)

\* What evaluation permits is granted.
LEMMA AssessGrants ==
  ASSUME NEW copy, NEW q, copy.state = "active", IsRow(copy), q.seen \in Nat
  PROVE  /\ Assess(copy, q) \in Decisions
         /\ Assess(copy, q) \in Permitting => Granted(copy, q)
<1> DEFINE a == ActionAsked(q)
<1>1. Assess(copy, q) \in Decisions
  BY DEF Assess, Decisions, Permitting
<1>2. ASSUME Assess(copy, q) \in Permitting PROVE Granted(copy, q)
  <2>1. /\ ~(q.seen > 0 /\ q.seen < copy.version)
        /\ actionInScopeForContext(copy.region, a, q.context)
        /\ Conditions \subseteq q.context
    BY <1>2 DEF Assess, Permitting
  <2>2. q.seen = 0 \/ q.seen >= copy.version
    BY <2>1 DEF IsRow
  <2>3. PICK grant \in GrantsFor(copy.region, a) : grant.constraints \subseteq q.context
    BY <2>1 DEF actionInScopeForContext
  <2>4. /\ ~forbids(copy.region, a)
        /\ grant \in Range(copy.region.resources)
        /\ resourceMatches(grant, a) /\ contains(grant.actions, a.operation)
    BY <2>3 DEF GrantsFor
  <2>5. PICK k \in DOMAIN copy.region.resources : grant = copy.region.resources[k]
    BY <2>4 DEF Range
  <2> QED BY <2>1, <2>2, <2>3, <2>4, <2>5 DEF Granted
<1> QED BY <1>1, <1>2

\* A handler that has come to a sound decision.
LEMMA DecideStep ==
  ASSUME Inv, NEW p \in Handlers, NEW d \in Decisions, Decide(p, d),
         job[p].pc \in {"contain", "expand"}, UNCHANGED <<store, past>>,
         d \in Permitting =>
            /\ Granted(job[p].copy, job[p].request)
            /\ \A c \in job[p].banned : containments[c] # "active"
  PROVE  Inv'
<1>1. PICK j : j = job[p] /\ JobOK(j)
  BY DEF Inv, JobsOK
<1>2. PICK k : k = [j EXCEPT !.pc = "policy", !.base = d]
  OBVIOUS
<1>3. job' = [job EXCEPT ![p] = k]
  BY <1>1, <1>2 DEF Decide, Inv, JobsOK
<1>4. IsJob(j)
  BY <1>1 DEF JobOK
<1>5. /\ IsJob(k) /\ k.pc = "policy" /\ k.nonce = j.nonce /\ k.request = j.request
      /\ k.base = d /\ k.goal = j.goal /\ k.bundle = j.bundle /\ k.copy = j.copy
      /\ k.banned = j.banned /\ k.policed = j.policed /\ k.archived = j.archived
  BY <1>2, <1>4 DEF IsJob
<1>6. Banned(k) /\ Policed(k)
  BY <1>1, <1>5 DEF JobOK, Asking, Informed, Banned, Policed
<1>7. JobOK(k)
  BY <1>1, <1>5, <1>6 DEF JobOK, Steps, Asking, Informed, Decided
<1>8. Serving(job[p]) /\ k.nonce = job[p].nonce
  BY <1>1, <1>5 DEF Serving, Asking, Informed
<1> QED BY <1>3, <1>7, <1>8, ReadStep

\* Containment first, then the mission as it was read.
LEMMA CheckContainmentStep ==
  ASSUME Inv, NEW p \in Handlers, CheckContainment(p)
  PROVE  Inv'
<1>1. PICK j : j = job[p] /\ JobOK(j) /\ j.pc = "contain"
  BY DEF CheckContainment, Inv, JobsOK
<1>2. /\ j.request \in Requests /\ j.copy \in past /\ j.copy.state = "active" /\ Banned(j)
      /\ IsJob(j) /\ Policed(j)
  BY <1>1 DEF JobOK, Asking, Informed
<1>3. PICK verdict \in Decisions :
          /\ verdict = Assess(j.copy, j.request)
          /\ verdict \in Permitting => Granted(j.copy, j.request)
  <2>1. IsRow(j.copy) /\ j.request.seen \in Nat
    BY <1>2, EvaluationAssumption DEF Inv, StoreOK
  <2> QED BY <1>2, <2>1, AssessGrants
<1>4. UNCHANGED <<store, past>>
  BY DEF CheckContainment
<1>5. CASE Contained(ActionAsked(j.request))
  <2>1. Decide(p, "deny")
    BY <1>1, <1>5 DEF CheckContainment
  <2>2. "deny" \in Decisions /\ "deny" \notin Permitting
    BY DEF Decisions, Permitting
  <2> QED BY <1>1, <1>4, <2>1, <2>2, DecideStep
<1>6. CASE ~Contained(ActionAsked(j.request))
  <2>1. \A c \in j.banned : containments[c] # "active"
    BY <1>2, <1>6 DEF Contained, InForce, Banned
  <2>2. CASE verdict = "require_approval"
    <3>1. Goto(p, "recheck")
      BY <1>1, <1>3, <1>6, <2>2 DEF CheckContainment
    <3> QED BY <1>1, <1>4, <3>1, GotoStep
  <2>3. CASE verdict = "suspend"
    <3>1. job' = [job EXCEPT ![p] = [j EXCEPT !.pc = "transition", !.goal = "suspended"]]
      BY <1>1, <1>3, <1>6, <2>3 DEF CheckContainment, Inv, JobsOK
    <3>2. PICK k : k = [j EXCEPT !.pc = "transition", !.goal = "suspended"]
      OBVIOUS
    <3>3. /\ IsJob(k) /\ k.pc = "transition" /\ k.nonce = j.nonce /\ k.request = j.request
          /\ k.base = j.base /\ k.goal = "suspended" /\ k.bundle = j.bundle
          /\ k.copy = j.copy /\ k.banned = j.banned /\ k.policed = j.policed
          /\ k.archived = j.archived
      BY <1>2, <3>2 DEF IsJob
    <3>4. Banned(k) /\ Policed(k)
      BY <1>1, <1>2, <3>3 DEF Banned, Policed
    <3>5. JobOK(k)
      BY <1>1, <3>3, <3>4 DEF JobOK, Steps, Asking, Informed, Decided
    <3>6. Serving(job[p]) /\ k.nonce = job[p].nonce
      BY <1>1, <3>3 DEF Serving, Asking, Informed
    <3> QED BY <1>4, <3>1, <3>2, <3>5, <3>6, ReadStep
  <2>4. CASE verdict \notin {"require_approval", "suspend"}
    <3>1. Decide(p, verdict)
      BY <1>1, <1>3, <1>6, <2>4 DEF CheckContainment
    <3> QED BY <1>1, <1>3, <1>4, <2>1, <3>1, DecideStep
  <2> QED BY <2>2, <2>3, <2>4
<1> QED BY <1>5, <1>6

\* Containment once more before an expansion request is made.
LEMMA RecheckContainmentStep ==
  ASSUME Inv, NEW p \in Handlers, RecheckContainment(p)
  PROVE  Inv'
<1>1. UNCHANGED <<store, past>> /\ (Return(p) \/ (job[p].pc = "recheck" /\ Goto(p, "expand")))
  BY DEF RecheckContainment
<1>2. CASE Return(p)
  BY <1>1, <1>2, ReturnStep
<1>3. CASE job[p].pc = "recheck" /\ Goto(p, "expand")
  BY <1>1, <1>3, GotoStep
<1> QED BY <1>1, <1>2, <1>3

\* The request for an expansion is stored with the version it was made for.
LEMMA SaveExpansionRequestStep ==
  ASSUME Inv, NEW p \in Handlers, SaveExpansionRequest(p)
  PROVE  Inv'
<1>1. PICK j : j = job[p] /\ JobOK(j) /\ j.pc = "expand"
  BY DEF SaveExpansionRequest, Inv, JobsOK
<1>2. /\ j.request \in Requests /\ j.copy \in past /\ IsJob(j) /\ Banned(j) /\ Policed(j)
  BY <1>1 DEF JobOK, Asking, Informed
<1>3. PICK s \in Nat : s = effectiveMissionVersionSeen(j.request.seen, j.copy.version)
  <2>1. j.copy.version \in Nat /\ j.request.seen \in Nat
    BY <1>2, EvaluationAssumption DEF Inv, StoreOK, IsRow
  <2> QED BY <2>1 DEF effectiveMissionVersionSeen
<1>4. /\ UNCHANGED <<agent, contracts, containments, bundles>>
      /\ UNCHANGED <<nonces, evidence, mission, past>>
  BY DEF SaveExpansionRequest, admin
<1>5. expansions' = expansions \cup
          {[region |-> authorityForAction(ActionAsked(j.request)), seen |-> s]}
  BY <1>1, <1>3 DEF SaveExpansionRequest
<1>6. \A x \in expansions' : x.seen \in Nat
  BY <1>5 DEF Inv, StoreOK
<1>7. StoreOK'
  BY <1>4, <1>6 DEF Inv, StoreOK, IsRow
<1>8. OneActive' /\ EvidenceOK' /\ Grows
  BY <1>4 DEF Inv, OneActive, Active, EvidenceOK, Granted, Grows
<1>9. PICK k : k = [j EXCEPT !.pc = "policy", !.base = "require_approval"]
  OBVIOUS
<1>10. job' = [job EXCEPT ![p] = k]
  BY <1>1, <1>9 DEF SaveExpansionRequest, Decide, Inv, JobsOK
<1>11. /\ IsJob(k) /\ k.pc = "policy" /\ k.nonce = j.nonce /\ k.request = j.request
       /\ k.base = "require_approval" /\ k.goal = j.goal /\ k.bundle = j.bundle
       /\ k.copy = j.copy /\ k.banned = j.banned /\ k.policed = j.policed
       /\ k.archived = j.archived
  BY <1>2, <1>9 DEF IsJob
<1>12. Banned(k) /\ Policed(k)
  BY <1>1, <1>2, <1>11 DEF Banned, Policed
<1>13. JobOK(k)
  BY <1>1, <1>11, <1>12 DEF JobOK, Steps, Asking, Informed, Decided, Decisions, Permitting
<1>14. JobOK(k)'
  <2>1. k.pc # "activate"
    BY <1>11
  <2> QED BY <1>8, <1>13, <2>1, JobGrows
<1>15. JobsOK'
  BY <1>4, <1>8, <1>10, <1>14, JobStep
<1>16. Serving(job[p]) /\ k.nonce = job[p].nonce
  BY <1>1, <1>11 DEF Serving, Asking, Informed
<1>17. Once'
  BY <1>4, <1>10, <1>16, OnceKept
<1> QED BY <1>7, <1>8, <1>15, <1>17 DEF Inv

\* A row is a row with another state, version or region.
LEMMA RowWritten ==
  ASSUME NEW m, IsRow(m), NEW s \in States, NEW region
  PROVE  /\ IsRow([m EXCEPT !.state = s, !.version = @ + 1])
         /\ IsRow([m EXCEPT !.region = region, !.version = @ + 1])
<1>1. PICK state \in States, version \in Nat, any \in {m.region} :
          m = [state |-> state, version |-> version, region |-> any]
  BY DEF IsRow
<1>2. PICK row : row = [m EXCEPT !.state = s, !.version = @ + 1]
  OBVIOUS
<1>3. row = [state |-> s, version |-> version + 1, region |-> any]
  BY <1>1, <1>2
<1>4. IsRow(row)
  BY <1>3 DEF IsRow
<1>5. PICK new : new = [m EXCEPT !.region = region, !.version = @ + 1]
  OBVIOUS
<1>6. new = [state |-> state, version |-> version + 1, region |-> region]
  BY <1>1, <1>5
<1>7. IsRow(new)
  BY <1>6 DEF IsRow
<1> QED BY <1>2, <1>4, <1>5, <1>7

\* Writes of the mission: a row like the others, and all that was is past.
LEMMA MissionWritten ==
  ASSUME Inv, UNCHANGED <<agent, contracts, containments, bundles>>,
         UNCHANGED <<nonces, expansions, evidence>>,
         NEW row, IsRow(row), mission' = row, past' = past \cup {row}
  PROVE  StoreOK' /\ OneActive' /\ EvidenceOK' /\ Grows
<1>1. StoreOK'
  BY DEF Inv, StoreOK, IsRow
<1>2. OneActive'
  BY DEF Inv, OneActive, Active
<1>3. EvidenceOK'
  BY DEF Inv, EvidenceOK, Granted
<1>4. Grows
  BY DEF Grows, Active
<1> QED BY <1>1, <1>2, <1>3, <1>4

\* An evaluation expires or suspends the mission it read.
LEMMA transitionStep ==
  ASSUME Inv, NEW p \in Handlers, transition(p)
  PROVE  Inv'
<1>1. PICK j : j = job[p] /\ JobOK(j) /\ j.pc = "transition"
  BY DEF transition, Inv, JobsOK
<1>2. /\ j.copy \in past /\ IsJob(j) /\ Banned(j) /\ Policed(j)
      /\ j.goal \in {"active", "expired", "suspended"} /\ IsRow(j.copy)
  BY <1>1 DEF JobOK, Asking, Informed, Inv, StoreOK
<1>3. PICK row, d : /\ row = [j.copy EXCEPT !.state = j.goal, !.version = @ + 1]
                    /\ d = IF row.state = "suspended" THEN "suspend" ELSE "deny"
  OBVIOUS
<1>4. IsRow(row)
  <2>1. j.goal \in States
    BY <1>2 DEF States
  <2> QED BY <1>2, <1>3, <2>1, RowWritten
<1>5. d \in {"suspend", "deny"}
  BY <1>3
<1>6. /\ UNCHANGED <<agent, contracts, containments, bundles>>
      /\ UNCHANGED <<nonces, expansions, evidence>>
      /\ mission' = row /\ past' = past \cup {row}
  BY <1>1, <1>3 DEF transition, admin, results
<1>7. StoreOK' /\ OneActive' /\ EvidenceOK' /\ Grows
  BY <1>4, <1>6, MissionWritten
<1>8. PICK k : k = [j EXCEPT !.pc = "policy", !.copy = row, !.base = d]
  OBVIOUS
<1>9. job' = [job EXCEPT ![p] = k]
  BY <1>1, <1>3, <1>8 DEF transition, Inv, JobsOK
<1>10. /\ IsJob(k) /\ k.pc = "policy" /\ k.nonce = j.nonce /\ k.request = j.request
       /\ k.base = d /\ k.goal = j.goal /\ k.bundle = j.bundle /\ k.copy = row
       /\ k.banned = j.banned /\ k.policed = j.policed /\ k.archived = j.archived
  BY <1>2, <1>8 DEF IsJob
<1>11. Banned(k)' /\ Policed(k)'
  BY <1>1, <1>2, <1>6, <1>10 DEF Banned, Policed, Active
<1>12. k.copy \in past'
  BY <1>6, <1>10
<1>13. JobOK(k)'
  BY <1>1, <1>5, <1>10, <1>11, <1>12 DEF JobOK, Steps, Asking, Informed, Decided, Decisions,
     Permitting
<1>14. JobsOK'
  BY <1>6, <1>7, <1>9, <1>13, JobStep
<1>15. Serving(job[p]) /\ k.nonce = job[p].nonce
  BY <1>1, <1>10 DEF Serving, Asking, Informed
<1>16. Once'
  BY <1>6, <1>9, <1>15, OnceKept
<1> QED BY <1>7, <1>14, <1>16 DEF Inv

-----------------------------------------------------------------------------
(* Policy and evidence.                                                    *)

\* A bundle restricts: what it permits was permitted.
LEMMA PolicyAnswer ==
  ASSUME NEW b \in BundleIds, NEW q, NEW base \in Decisions
  PROVE  /\ applyPolicyBundle(b, q, base) \in Decisions
         /\ applyPolicyBundle(b, q, base) \in Permitting => base \in Permitting
<1>1. PICK rules : rules = BundleOf[b].rules
  OBVIOUS
<1>2. PICK applies : applies = {k \in DOMAIN rules : RuleApplies(rules[k], q, base)}
  OBVIOUS
<1>3. PICK first : first = CHOOSE k \in applies : \A l \in applies : k <= l
  OBVIOUS
<1>4. applyPolicyBundle(b, q, base) =
          IF ~policyMayRestrictDecision(base) \/ applies = {} THEN base
          ELSE IF rules[first].effect = "allow" THEN base ELSE rules[first].effect
  BY <1>1, <1>2, <1>3 DEF applyPolicyBundle
<1>5. CASE applies = {}
  BY <1>4, <1>5
<1>6. CASE applies # {}
  <2>1. applies \in SUBSET Nat
    BY <1>1, <1>2, EvaluationAssumption
  <2>2. \E k \in applies : \A l \in applies : k <= l
    BY <1>6, <2>1, LeastNumber
  <2>3. first \in applies
    BY <1>3, <2>2
  <2>4. /\ rules[first].effect \in PolicyEffects
        /\ policyEffectCanApply(rules[first].effect, base)
    BY <1>1, <1>2, <2>3, EvaluationAssumption DEF RuleApplies
  <2> QED BY <1>4, <2>4 DEF PolicyEffects, policyEffectCanApply, Decisions, Permitting
<1> QED BY <1>5, <1>6

\* The active bundle of the tenant, or without one the global one.
LEMMA GetActivePolicyBundleStep ==
  ASSUME Inv, NEW p \in Handlers, NEW pc, NEW tenant,
         <<pc, tenant>> \in {<<"policy", Tenant>>, <<"global", Global>>},
         GetActivePolicyBundle(p, pc, tenant)
  PROVE  Inv'
<1>1. \/ pc = "policy" /\ tenant = Tenant
      \/ pc = "global" /\ tenant = Global
  OBVIOUS
<1>2. PICK j : j = job[p] /\ JobOK(j) /\ j.pc = pc
  BY DEF GetActivePolicyBundle, Inv, JobsOK
<1>3. /\ IsJob(j) /\ Banned(j) /\ Policed(j) /\ j.base \in Decisions /\ j.bundle = None
      /\ j.pc \in Asking \ {"nonce"} /\ j.pc \in {"policy", "global"}
  BY <1>1, <1>2 DEF JobOK, Asking, Informed, Decided
<1>4. UNCHANGED <<store, past>>
  BY DEF GetActivePolicyBundle
<1>5. CASE \E b \in Active(tenant) : job' = [job EXCEPT ![p].pc = "evidence", ![p].bundle = b,
                ![p].decision = applyPolicyBundle(b, job[p].request, job[p].base)]
  <2>1. PICK b \in BundleIds : job' = [job EXCEPT ![p].pc = "evidence", ![p].bundle = b,
                ![p].decision = applyPolicyBundle(b, job[p].request, job[p].base)]
    BY <1>5 DEF Active
  <2>2. PICK d \in Decisions : /\ d = applyPolicyBundle(b, j.request, j.base)
                               /\ d \in Permitting => j.base \in Permitting
    BY <1>3, PolicyAnswer
  <2>3. PICK k : k = [j EXCEPT !.pc = "evidence", !.bundle = b, !.decision = d]
    OBVIOUS
  <2>4. job' = [job EXCEPT ![p] = k]
    BY <1>2, <2>1, <2>2, <2>3 DEF Inv, JobsOK
  <2>5. /\ IsJob(k) /\ k.pc = "evidence" /\ k.nonce = j.nonce /\ k.request = j.request
        /\ k.base = j.base /\ k.goal = j.goal /\ k.bundle = b /\ k.copy = j.copy
        /\ k.banned = j.banned /\ k.policed = j.policed /\ k.archived = j.archived
        /\ k.decision = d
    BY <1>3, <2>3 DEF IsJob
  <2>6. Banned(k) /\ Policed(k)
    BY <1>3, <2>5, EvaluationAssumption DEF Banned, Policed
  <2>7. JobOK(k)
    BY <1>2, <1>3, <2>2, <2>5, <2>6 DEF JobOK, Steps, Asking, Informed, Decided
  <2>8. Serving(job[p]) /\ k.nonce = job[p].nonce
    BY <1>2, <1>3, <2>5 DEF Serving
  <2> QED BY <1>4, <2>4, <2>7, <2>8, ReadStep
<1>6. CASE /\ Active(tenant) = {}
           /\ job' = [job EXCEPT ![p].pc = IF pc = "policy" THEN "global" ELSE "evidence",
                                 ![p].decision = job[p].base]
  <2>1. PICK next : next = IF pc = "policy" THEN "global" ELSE "evidence"
    OBVIOUS
  <2>2. PICK k : k = [j EXCEPT !.pc = next, !.decision = j.base]
    OBVIOUS
  <2>3. job' = [job EXCEPT ![p] = k]
    BY <1>2, <1>6, <2>1, <2>2 DEF Inv, JobsOK
  <2>4. /\ IsJob(k) /\ k.pc = next /\ k.nonce = j.nonce /\ k.request = j.request
        /\ k.base = j.base /\ k.goal = j.goal /\ k.bundle = j.bundle /\ k.copy = j.copy
        /\ k.banned = j.banned /\ k.policed = j.policed /\ k.archived = j.archived
        /\ k.decision = j.base
    BY <1>3, <2>2 DEF IsJob
  <2>5. next \in {"global", "evidence"}
    BY <2>1
  <2>6. Policed(k)
    BY <1>1, <1>2, <1>3, <1>6, <2>1, <2>4 DEF Policed
  <2>7. Banned(k)
    BY <1>3, <2>4 DEF Banned
  <2>8. JobOK(k)
    BY <1>2, <1>3, <2>4, <2>5, <2>6, <2>7 DEF JobOK, Steps, Asking, Informed, Decided
  <2>9. Serving(job[p]) /\ k.nonce = job[p].nonce
    BY <1>2, <1>3, <2>4 DEF Serving
  <2> QED BY <1>4, <2>3, <2>8, <2>9, ReadStep
<1> QED BY <1>5, <1>6 DEF GetActivePolicyBundle

\* The answer is recorded: the request is no longer served, its nonce is spent.
LEMMA SaveEvaluationEvidenceStep ==
  ASSUME Inv, NEW p \in Handlers, SaveEvaluationEvidence(p)
  PROVE  Inv'
<1>1. PICK j : j = job[p] /\ JobOK(j) /\ j.pc = "evidence"
  BY DEF SaveEvaluationEvidence, Inv, JobsOK
<1>2. /\ j.nonce \in Nonces /\ j.request \in Requests /\ j.policed \in BOOLEAN /\ Policed(j)
      /\ j.base \in Decisions /\ j.decision \in Decisions /\ j.bundle \in BundleIds \cup {None}
      /\ j.copy \in past /\ IsRow(j.copy)
      /\ j.decision \in Permitting => j.base \in Permitting
      /\ j.base \in Permitting => Granted(j.copy, j.request)
  BY <1>1 DEF JobOK, Asking, Informed, Decided, Inv, StoreOK
<1>3. PICK e : e = [nonce |-> j.nonce, request |-> j.request,
                    version |-> j.copy.version, base |-> j.base,
                    decision |-> j.decision, bundle |-> j.bundle, policed |-> j.policed]
  OBVIOUS
<1>4. /\ e \in Answers /\ e.nonce = j.nonce /\ e.request = j.request
      /\ e.version = j.copy.version /\ e.base = j.base /\ e.decision = j.decision
      /\ e.bundle = j.bundle /\ e.policed = j.policed
  BY <1>2, <1>3 DEF Answers, IsRow
<1>5. /\ UNCHANGED <<agent, contracts, containments, bundles>>
      /\ UNCHANGED <<nonces, expansions, mission, past>>
      /\ evidence' = evidence \cup {e}
  BY <1>1, <1>3 DEF SaveEvaluationEvidence, admin
<1>6. StoreOK' /\ OneActive' /\ Grows
  BY <1>5 DEF Inv, StoreOK, IsRow, OneActive, Active, Grows
<1>7. EvidenceOK'
  <2>1. /\ e.decision \in Permitting =>
              /\ e.base \in Permitting
              /\ \E row \in past : row.version = e.version /\ Granted(row, e.request)
        /\ e.policed => e.bundle # None
    BY <1>1, <1>2, <1>4 DEF Policed
  <2> QED BY <1>4, <1>5, <2>1 DEF Inv, EvidenceOK, Granted
<1>8. PICK k : k = Idle
  OBVIOUS
<1>9. job' = [job EXCEPT ![p] = k]
  BY <1>8 DEF SaveEvaluationEvidence, Return
<1>10. JobOK(k)' /\ ~Serving(k)
  BY <1>8 DEF Idle, IsJob, JobOK, Serving, Steps, Asking, Informed, Decided
<1>11. JobsOK'
  BY <1>5, <1>6, <1>9, <1>10, JobStep
<1>12. Once'
  <2>1. Once /\ Serving(job[p]) /\ job[p].nonce = e.nonce
    BY <1>1, <1>4 DEF Inv, Serving, Asking, Informed, Decided
  <2>2. \A q \in Handlers : Serving(job'[q]) => q # p /\ job'[q] = job[q]
    BY <1>9, <1>10 DEF Inv, JobsOK
  <2>3. ASSUME NEW q \in Handlers, Serving(job'[q])
        PROVE  /\ job'[q].nonce \in nonces'
               /\ \A r \in Handlers : Serving(job'[r]) /\ job'[r].nonce = job'[q].nonce => r = q
               /\ \A f \in evidence' : f.nonce # job'[q].nonce
    <3>1. q # p /\ job'[q] = job[q] /\ Serving(job[q])
      BY <2>2, <2>3
    <3>2. job[q].nonce # e.nonce
      BY <2>1, <3>1 DEF Once
    <3> QED BY <1>5, <2>1, <2>2, <3>1, <3>2 DEF Once
  <2>4. \A f \in evidence : f.nonce # e.nonce
    BY <2>1 DEF Once
  <2>5. /\ \A f \in evidence' : f.nonce \in nonces'
        /\ \A f, g \in evidence' : f.nonce = g.nonce => f = g
    BY <1>5, <2>1, <2>4 DEF Once
  <2> QED BY <2>3, <2>5 DEF Once
<1> QED BY <1>6, <1>7, <1>11, <1>12 DEF Inv

-----------------------------------------------------------------------------
(* What is derived, and the lifecycle.                                     *)

\* A negotiation or a delegation has read the mission.
LEMMA DeriveStep ==
  ASSUME Inv, NEW p \in Handlers, NEW kind, NEW ask, NEW region, Derive(p, kind, ask, region)
  PROVE  Inv'
<1>1. PICK k : k = [Idle EXCEPT !.pc = "derive", !.copy = mission,
                      !.request = [kind |-> kind, ask |-> ask, region |-> region]]
  OBVIOUS
<1>2. UNCHANGED <<store, past>> /\ job' = [job EXCEPT ![p] = k]
  BY <1>1 DEF Derive
<1>3. IsJob(k) /\ k.pc = "derive" /\ k.nonce = None /\ k.goal = "active" /\ k.archived = {}
  BY <1>1 DEF Idle, IsJob
<1>4. JobOK(k) /\ ~Serving(k)
  BY <1>3 DEF JobOK, Serving, Steps, Asking, Informed, Decided
<1> QED BY <1>2, <1>4, ReadStep

\* The mission is granted more, or closed.
LEMMA LifecycleStep ==
  ASSUME Inv, CloseMission \/ \E g : GrantExpansion(g)
  PROVE  Inv'
<1>1. mission \in past /\ IsRow(mission)
  BY DEF Inv, StoreOK
<1>2. PICK row : /\ IsRow(row) /\ mission' = row /\ past' = past \cup {row}
                 /\ UNCHANGED <<admin, results, job>>
  <2>1. CASE CloseMission
    <3>1. "revoked" \in States
      BY DEF States
    <3> QED BY <1>1, <2>1, <3>1, RowWritten DEF CloseMission
  <2>2. CASE \E g : GrantExpansion(g)
    <3>1. PICK g : GrantExpansion(g)
      BY <2>2
    <3>2. PICK region : region = mergeAuthority(mission.region, g)
      OBVIOUS
    <3>3. PICK row : row = [mission EXCEPT !.region = region, !.version = @ + 1]
      OBVIOUS
    <3>4. IsRow(row)
      <4>1. PICK m : m = mission /\ IsRow(m) /\ m.state \in States
        BY <1>1 DEF IsRow
      <4>2. IsRow([m EXCEPT !.region = region, !.version = @ + 1])
        BY <4>1, RowWritten
      <4> QED BY <3>3, <4>1, <4>2
    <3>5. mission' = row /\ past' = past \cup {row} /\ UNCHANGED <<admin, results, job>>
      BY <3>1, <3>2, <3>3 DEF GrantExpansion
    <3> QED BY <3>4, <3>5
  <2> QED BY <2>1, <2>2
<1>3. /\ UNCHANGED <<agent, contracts, containments, bundles>>
      /\ UNCHANGED <<nonces, expansions, evidence>>
  BY <1>2 DEF admin, results
<1>4. StoreOK' /\ OneActive' /\ EvidenceOK' /\ Grows
  BY <1>2, <1>3, MissionWritten
<1>5. JobsOK' /\ Once'
  BY <1>2, <1>3, <1>4, JobsGrow, OnceStays
<1> QED BY <1>4, <1>5 DEF Inv

\* Nothing but the clock or the end of the mission.
LEMMA IdleStep ==
  ASSUME Inv, UNCHANGED <<store, past, job>>
  PROVE  Inv'
<1>1. StoreOK' /\ OneActive' /\ EvidenceOK' /\ Grows
  BY Still
<1>2. bundles' = bundles /\ evidence' = evidence /\ nonces' = nonces
  BY DEF store, admin, results
<1>3. JobsOK' /\ Once'
  BY <1>1, <1>2, JobsGrow, OnceStays
<1> QED BY <1>1, <1>3 DEF Inv

-----------------------------------------------------------------------------
(* The invariant and what follows from it.                                 *)

\* A store that administrators have worked on is sound.
LEMMA InitInv == Init => Inv
<1> SUFFICES ASSUME Init PROVE Inv
  OBVIOUS
<1>1. PICK s \in Beginnings : /\ agent = s.agent /\ contracts = s.contracts
                              /\ containments = s.containments /\ bundles = s.bundles
  BY DEF Init
<1>2. IsRow(mission)
  BY DEF Init, IsRow, States
<1>3. StoreOK
  BY <1>1, <1>2, EvaluationAssumption DEF Init, StoreOK
<1>4. OneActive
  <2>1. ASSUME NEW b \in BundleIds, bundles[b] \in {"active", "archived"}
        PROVE  \E c \in BundleIds : Active(BundleOf[b].tenant) = {c}
    BY <1>1, <2>1, EvaluationAssumption DEF Active
  <2> QED BY <2>1 DEF OneActive
<1>5. EvidenceOK
  BY DEF Init, EvidenceOK
<1>6. JobsOK
  BY IdleJob DEF Init, JobsOK
<1>7. Once
  BY IdleJob DEF Init, Once
<1> QED BY <1>3, <1>4, <1>5, <1>6, <1>7 DEF Inv

\* Every step keeps the store and the jobs sound.
LEMMA NextInv == Inv /\ [Next]_vars => Inv'
<1> SUFFICES ASSUME Inv, [Next]_vars PROVE Inv'
  OBVIOUS
<1>1. ASSUME NEW p \in Handlers, Administer(p) PROVE Inv'
  <2>1. CASE RegisterAgent(p) \/ RevokeAgent(p) \/
             \E tool \in DOMAIN ContractOf : RegisterToolContract(p, tool)
    BY <2>1, RegisterStep
  <2>2. ASSUME NEW c \in ContainmentIds, SetContainmentRule(p, c, "none", "active") PROVE Inv'
    BY <2>2, SetContainmentRuleStep
  <2>3. ASSUME NEW c \in ContainmentIds, SetContainmentRule(p, c, "active", "lifted") PROVE Inv'
    BY <2>3, SetContainmentRuleStep
  <2>4. ASSUME NEW b \in BundleIds, CreatePolicyBundle(p, b) \/ ActivatePolicyBundle(p, b)
        PROVE  Inv'
    BY <2>4, CreatePolicyBundleStep, ActivatePolicyBundleStep
  <2>5. CASE CommitActivation(p)
    BY <2>5, CommitActivationStep
  <2> QED BY <1>1, <2>1, <2>2, <2>3, <2>4, <2>5 DEF Administer
<1>2. ASSUME NEW p \in Handlers, Ask(p) PROVE Inv'
  <2>1. ASSUME NEW n \in Nonces, NEW q \in Requests, VerifyAgentRequestSignature(p, n, q)
        PROVE  Inv'
    BY <2>1, VerifyStep
  <2>2. CASE SaveAgentNonce(p) \/ AuthorizeToolCall(p) \/ Evaluate(p) \/ CheckContainment(p)
             \/ RecheckContainment(p) \/ SaveExpansionRequest(p) \/ transition(p)
             \/ SaveEvaluationEvidence(p)
    BY <2>2, SaveAgentNonceStep, AuthorizeToolCallStep, EvaluateStep, CheckContainmentStep,
       RecheckContainmentStep, SaveExpansionRequestStep, transitionStep,
       SaveEvaluationEvidenceStep
  <2>3. CASE GetActivePolicyBundle(p, "policy", Tenant)
    BY <2>3, GetActivePolicyBundleStep
  <2>4. CASE GetActivePolicyBundle(p, "global", Global)
    BY <2>4, GetActivePolicyBundleStep
  <2>5. ASSUME NEW ask \in Asks, CreateAuthorityNegotiation(p, ask) \/ Delegate(p, ask)
        PROVE  Inv'
    BY <2>5, DeriveStep DEF CreateAuthorityNegotiation, Delegate
  <2>6. CASE SaveDerived(p)
    BY <2>6, ReturnStep DEF SaveDerived
  <2> QED BY <1>2, <2>1, <2>2, <2>3, <2>4, <2>5, <2>6 DEF Ask
<1>3. ASSUME NEW p \in Handlers, Fail(p) PROVE Inv'
  BY <1>3, ReturnStep DEF Fail
<1>4. CASE CloseMission \/ \E g : GrantExpansion(g)
  BY <1>4, LifecycleStep
<1>5. CASE PassEnd \/ UNCHANGED vars
  <2>1. UNCHANGED <<store, past, job>>
    BY <1>5 DEF PassEnd, vars
  <2> QED BY <2>1, IdleStep
<1> QED BY <1>1, <1>2, <1>3, <1>4, <1>5 DEF Next

\* The inductive invariant of evaluation.
THEOREM Invariant == Spec => []Inv
  BY InitInv, NextInv, PTL DEF Spec

\* Every row, rule, bundle, answer and job has its type, and a handler that has
\* returned keeps nothing.
THEOREM TypeCorrect == Spec => []TypeOK
<1>1. Inv => TypeOK
  <2> SUFFICES ASSUME Inv PROVE TypeOK
    OBVIOUS
  <2>1. mission \in past /\ mission.state \in States /\ mission.version \in Nat
    BY DEF Inv, StoreOK, IsRow
  <2>2. evidence \subseteq Answers
    BY DEF Inv, EvidenceOK
  <2>3. \A p \in Handlers : job[p].pc \in Steps /\ (job[p].pc = "idle" => job[p] = Idle)
    BY DEF Inv, JobsOK, JobOK
  <2> QED BY <2>1, <2>2, <2>3 DEF Inv, StoreOK, TypeOK
<1> QED BY <1>1, Invariant, PTL

\* Evidence that permits names a version at which the action was granted, and
\* its conditions held, whatever happened between the read of the mission in
\* Evaluate and the row written by finalizeEvaluationWithEvidence.
THEOREM AllowGranted == Spec => []AllowIsGranted
<1>1. Inv => AllowIsGranted
  <2> SUFFICES ASSUME Inv, NEW e \in evidence, e.decision \in Permitting
               PROVE  /\ \E row \in past :
                            /\ row.version = e.version /\ row.state = "active"
                            /\ ~forbids(row.region, ActionAsked(e.request))
                            /\ \E k \in DOMAIN row.region.resources :
                                  LET grant == row.region.resources[k]
                                  IN  /\ resourceMatches(grant, ActionAsked(e.request))
                                      /\ contains(grant.actions, ActionAsked(e.request).operation)
                                      /\ grant.constraints \subseteq e.request.context
                      /\ Conditions \subseteq e.request.context
                      /\ e.request.seen = 0 \/ e.request.seen >= e.version
    BY DEF AllowIsGranted
  <2>1. PICK row \in past : row.version = e.version /\ Granted(row, e.request)
    BY DEF Inv, EvidenceOK
  <2> QED BY <2>1 DEF Granted
<1> QED BY <1>1, Invariant, PTL

\* A containment rule that was active when the request arrived and still is when
\* the answer is ready has kept the evaluation from permitting: rules are lifted
\* for good, so it was active at the check in between.
THEOREM ContainedRefused == Spec => []ContainedNotAllowed
<1>1. Inv => ContainedNotAllowed
  <2> SUFFICES ASSUME Inv, NEW p \in Handlers, job[p].pc = "evidence",
                      job[p].decision \in Permitting
               PROVE  \A c \in job[p].banned : containments[c] # "active"
    BY DEF ContainedNotAllowed
  <2>1. JobOK(job[p]) /\ job[p].pc \in Asking
    BY DEF Inv, JobsOK, Asking, Informed, Decided
  <2> QED BY <2>1 DEF JobOK
<1> QED BY <1>1, Invariant, PTL

\* The two statements of an activation, and the index on active bundles, leave
\* a tenant that ever had a policy with exactly one.
THEOREM OnePolicyInForce == Spec => []PolicyInForce
<1>1. Inv => PolicyInForce
  <2> SUFFICES ASSUME Inv, NEW tenant \in {Tenant, Global}, NEW ever,
                      ever = {b \in BundleIds : /\ BundleOf[b].tenant = tenant
                                                /\ bundles[b] \in {"active", "archived"}}
               PROVE  Cardinality(Active(tenant)) = IF ever = {} THEN 0 ELSE 1
    BY DEF PolicyInForce
  <2>1. CASE ever = {}
    <3>1. Active(tenant) = {}
      BY <2>1 DEF Active
    <3> QED BY <2>1, <3>1, FS_EmptySet
  <2>2. CASE ever # {}
    <3>1. PICK b \in BundleIds : BundleOf[b].tenant = tenant
                                 /\ bundles[b] \in {"active", "archived"}
      BY <2>2
    <3>2. PICK c \in BundleIds : Active(tenant) = {c}
      BY <3>1 DEF Inv, OneActive
    <3>3. Cardinality({c}) = 1
      BY FS_Singleton
    <3> QED BY <2>2, <3>2, <3>3
  <2> QED BY <2>1, <2>2
<1> QED BY <1>1, Invariant, PTL

\* applyPolicyBundle permits nothing that the mission did not, and a request
\* that arrives while a policy is in force is answered with one, however
\* activations overlap the two lookups.
THEOREM PolicyOnlyRestricts == Spec => []PolicyRestricts
<1>1. Inv => PolicyRestricts
  BY DEF Inv, EvidenceOK, PolicyRestricts
<1> QED BY <1>1, Invariant, PTL

\* The insert of a nonce lets one request pass: those in flight behind it and
\* those answered all have different ones.
THEOREM NoncesServedOnce == Spec => []NonceServedOnce
<1>1. Inv => NonceServedOnce
  <2> SUFFICES ASSUME Inv, NEW n \in Nonces, NEW S, NEW E,
                      S = {p \in Handlers : /\ job[p].pc \notin {"idle", "nonce", "activate"}
                                            /\ job[p].nonce = n},
                      E = {e \in evidence : e.nonce = n}
               PROVE  Cardinality(S) + Cardinality(E) <= 1
    <3>1. ASSUME NEW n \in Nonces
          PROVE  {p \in {q \in Handlers : job[q].pc \notin {"idle", "nonce", "activate"}} :
                     job[p].nonce = n}
                 = {p \in Handlers : /\ job[p].pc \notin {"idle", "nonce", "activate"}
                                     /\ job[p].nonce = n}
      OBVIOUS
    <3> QED BY <3>1 DEF NonceServedOnce
  <2>1. Once /\ None \notin Nonces
    BY EvaluationAssumption DEF Inv
  <2>2. \A p \in S : p \in Handlers /\ Serving(job[p]) /\ job[p].nonce = n
    <3>1. ASSUME NEW p \in S PROVE p \in Handlers /\ Serving(job[p]) /\ job[p].nonce = n
      <4>1. p \in Handlers /\ job[p].nonce = n /\ job[p].pc \notin {"idle", "nonce", "activate"}
        OBVIOUS
      <4>2. JobOK(job[p])
        BY <4>1 DEF Inv, JobsOK
      <4>3. job[p].pc # "derive"
        BY <2>1, <4>1, <4>2 DEF JobOK
      <4> QED BY <4>1, <4>2, <4>3 DEF JobOK, Steps, Serving, Asking, Informed, Decided
    <3> QED BY <3>1
  <2>3. \A p, q \in S : p = q
    BY <2>1, <2>2 DEF Once
  <2>4. \A e, f \in E : e = f
    BY <2>1 DEF Once
  <2>5. S = {} \/ E = {}
    BY <2>1, <2>2 DEF Once
  <2>6. ASSUME NEW T, \A x, y \in T : x = y
        PROVE  (T = {} /\ Cardinality(T) = 0) \/ Cardinality(T) = 1
    <3>1. CASE T = {}
      BY <3>1, FS_EmptySet
    <3>2. CASE T # {}
      <4>1. PICK x \in T : T = {x}
        BY <2>6, <3>2
      <4> QED BY <4>1, FS_Singleton
    <3> QED BY <3>1, <3>2
  <2>7. /\ Cardinality(S) = 0 \/ Cardinality(S) = 1
        /\ Cardinality(E) = 0 \/ Cardinality(E) = 1
        /\ S = {} => Cardinality(S) = 0
        /\ E = {} => Cardinality(E) = 0
    BY <2>3, <2>4, <2>6, FS_EmptySet
  <2> QED BY <2>5, <2>7
<1> QED BY <1>1, Invariant, PTL

-----------------------------------------------------------------------------
(* Regions.                                                                *)

\* An id without wildcards that matches is the id itself, or none at all.
LEMMA LiteralId ==
  ASSUME NEW pattern \in Seq(STRING), NEW id \in Seq(STRING),
         \A l \in DOMAIN pattern : pattern[l] \notin Wildcards,
         resourceIDMatches(pattern, id)
  PROVE  pattern \in {<< >>, id}
<1>1. CASE pattern = <<"*">>
  <2>1. 1 \in DOMAIN pattern /\ pattern[1] = "*"
    BY <1>1
  <2> QED BY <2>1 DEF Wildcards
<1>2. CASE pattern \notin {<<"*">>, << >>, id}
  <2>1. Len(pattern) \in Nat /\ Len(id) \in Nat
        /\ DOMAIN pattern = 1..Len(pattern) /\ DOMAIN id = 1..Len(id)
    OBVIOUS
  <2>2. ~(Len(pattern) > 1 /\ Last(pattern) = "**")
    BY <2>1 DEF Last, Wildcards
  <2>3. Len(pattern) = Len(id) /\ \A k \in 1..Len(id) : pattern[k] = id[k]
    BY <1>2, <2>1, <2>2 DEF resourceIDMatches
  <2>4. pattern = id
    BY <2>1, <2>3
  <2> QED BY <2>4
<1> QED BY <1>1, <1>2

\* Only a pattern for everything matches an id that is not there.
LEMMA MatchesNothing ==
  ASSUME NEW pattern \in Seq(STRING), resourceIDMatches(pattern, << >>)
  PROVE  pattern \in {<<"*">>, << >>}
<1> SUFFICES ASSUME pattern \notin {<<"*">>, << >>} PROVE FALSE
  OBVIOUS
<1>1. Len(pattern) \in Nat /\ Len(pattern) # 0
  BY EmptySeq
<1>2. Len(<< >>) = 0
  OBVIOUS
<1>3. Len(pattern) > 1 /\ IsPrefix(Front(pattern), << >>)
  BY <1>1, <1>2 DEF resourceIDMatches
<1>4. Len(Front(pattern)) = Len(pattern) - 1
  BY <1>1, <1>3 DEF Front
<1> QED BY <1>1, <1>2, <1>3, <1>4 DEF IsPrefix

\* What matches a grant without wildcards matches what the grant matches.
LEMMA LiteralMatch ==
  ASSUME NEW g \in Grants, NEW h \in Grants, NEW a, a.id \in Seq(STRING),
         \A l \in DOMAIN g.id : g.id[l] \notin Wildcards,
         resourceMatches(g, a), resourceMatches(h, g)
  PROVE  resourceMatches(h, a)
<1>1. g.id \in Seq(STRING) /\ h.id \in Seq(STRING)
  BY DEF Grants
<1>2. g.id \in {<< >>, a.id}
  BY <1>1, LiteralId DEF resourceMatches
<1>3. h.type \in {"*", "", a.type}
  BY DEF resourceMatches
<1>4. resourceIDMatches(h.id, a.id)
  <2>1. CASE g.id = << >>
    <3>1. h.id \in {<<"*">>, << >>}
      BY <1>1, <2>1, MatchesNothing DEF resourceMatches
    <3> QED BY <3>1 DEF resourceIDMatches
  <2>2. CASE g.id = a.id
    BY <2>2 DEF resourceMatches
  <2> QED BY <1>2, <2>1, <2>2
<1> QED BY <1>3, <1>4 DEF resourceMatches

\* The grants of a region.
LEMMA RegionGrants ==
  ASSUME NEW region \in Regions
  PROVE  /\ region.resources \in Seq(Grants)
         /\ \A k \in DOMAIN region.resources : region.resources[k] \in Grants
<1>1. PICK r \in Seq(Grants) : r = region.resources
  BY DEF Regions
<1>2. \A k \in DOMAIN r : r[k] \in Grants
  OBVIOUS
<1> QED BY <1>1, <1>2

\* A grant permits an action, its constraints aside.
Permits(grant, a) == resourceMatches(grant, a) /\ contains(grant.actions, a.operation)

\* The scope of a region, by its grants.
LEMMA InScope ==
  ASSUME NEW region, NEW a
  PROVE  actionInScope(region, a) <=>
            /\ ~forbids(region, a)
            /\ \E k \in DOMAIN region.resources : Permits(region.resources[k], a)
<1>1. GrantsFor(region, a) = IF forbids(region, a) THEN {}
                             ELSE {grant \in Range(region.resources) : Permits(grant, a)}
  BY DEF GrantsFor, Permits
<1>2. \A grant : grant \in Range(region.resources)
          <=> \E k \in DOMAIN region.resources : grant = region.resources[k]
  BY Zenon DEF Range
<1> QED BY <1>1, <1>2 DEF actionInScope

\* A child that passes authoritySubset permits what its parent permits.
LEMMA SubsetInScope ==
  ASSUME NEW parent \in Regions, NEW child \in Regions, Literal(child),
         authoritySubset(parent, child), NEW a, a.id \in Seq(STRING),
         actionInScope(child, a)
  PROVE  actionInScope(parent, a)
<1>1. PICK k \in DOMAIN child.resources :
          /\ resourceMatches(child.resources[k], a)
          /\ contains(child.resources[k].actions, a.operation)
          /\ ~forbids(child, a)
  BY InScope DEF Permits
<1>2. PICK l \in DOMAIN parent.resources :
          /\ resourceMatches(parent.resources[l], child.resources[k])
          /\ \A op \in child.resources[k].actions :
                contains(parent.resources[l].actions, op)
  BY <1>1 DEF authoritySubset
<1>3. PICK g \in Grants, h \in Grants : g = child.resources[k] /\ h = parent.resources[l]
  BY <1>1, <1>2, RegionGrants
<1>4. \A m \in DOMAIN g.id : g.id[m] \notin Wildcards
  BY <1>1, <1>3 DEF Literal
<1>5. resourceMatches(h, a)
  BY <1>1, <1>2, <1>3, <1>4, LiteralMatch
<1>6. contains(h.actions, a.operation)
  BY <1>1, <1>2, <1>3 DEF contains
<1>7. ~forbids(parent, a)
  BY <1>1 DEF authoritySubset, forbids, contains
<1> QED BY <1>2, <1>3, <1>5, <1>6, <1>7, InScope DEF Permits

\* A grant whose actions a parent permits one by one gives no more than it does,
\* what the parent forbids aside.
LEMMA CoveredInScope ==
  ASSUME NEW parent \in Regions, NEW g \in Grants, NEW a, a.id \in Seq(STRING),
         \A l \in DOMAIN g.id : g.id[l] \notin Wildcards,
         \A op \in g.actions : actionInScope(parent, ActionOf(g, op)),
         resourceMatches(g, a), contains(g.actions, a.operation)
  PROVE  actionInScope(parent, a) \/ forbids(parent, a)
<1>1. PICK op \in g.actions : op \in {"*", a.operation}
  BY DEF contains
<1>2. PICK x : x = ActionOf(g, op)
  OBVIOUS
<1>3. x.type = g.type /\ x.id = g.id /\ x.operation = op
  BY <1>2 DEF ActionOf
<1>4. actionInScope(parent, x)
  BY <1>2
<1>5. PICK l \in DOMAIN parent.resources :
          /\ resourceMatches(parent.resources[l], x)
          /\ contains(parent.resources[l].actions, op)
  BY <1>3, <1>4, InScope DEF Permits
<1>6. PICK h \in Grants : h = parent.resources[l]
  BY <1>5, RegionGrants
<1>7. resourceMatches(h, g)
  BY <1>3, <1>5, <1>6 DEF resourceMatches
<1>8. resourceMatches(h, a)
  BY <1>7, LiteralMatch
<1>9. contains(h.actions, a.operation)
  BY <1>1, <1>5, <1>6 DEF contains
<1> QED BY <1>5, <1>6, <1>8, <1>9, InScope DEF Permits

-----------------------------------------------------------------------------
(* The loops over the grants of a region.                                  *)

\* A grant that joins stays out, comes last, or is merged into one for the same
\* resource.
LEMMA JoinCases ==
  ASSUME NEW r \in Seq(Grants), NEW extra \in Grants
  PROVE  \/ JoinGrant(r, extra) = r
         \/ JoinGrant(r, extra) = Append(r, extra)
         \/ \E k \in DOMAIN r :
               /\ r[k].type = extra.type /\ r[k].id = extra.id
               /\ JoinGrant(r, extra) = [r EXCEPT ![k] = MergeGrants(r[k], extra)]
<1>1. PICK same : same = {k \in DOMAIN r : r[k].type = extra.type /\ r[k].id = extra.id}
  OBVIOUS
<1>2. CASE same = {}
  BY <1>1, <1>2 DEF JoinGrant
<1>3. CASE same # {}
  <2>1. same \in SUBSET Nat
    BY <1>1
  <2>2. \E k \in same : \A l \in same : k <= l
    BY <1>3, <2>1, LeastNumber
  <2>3. PICK first \in same : first = CHOOSE k \in same : \A l \in same : k <= l
    BY <2>2
  <2>4. \/ JoinGrant(r, extra) = r
        \/ JoinGrant(r, extra) = [r EXCEPT ![first] = MergeGrants(r[first], extra)]
    BY <1>1, <1>3, <2>3 DEF JoinGrant
  <2>5. first \in DOMAIN r /\ r[first].type = extra.type /\ r[first].id = extra.id
    BY <1>1
  <2> QED BY <2>4, <2>5
<1> QED BY <1>2, <1>3

\* A merged grant.
LEMMA MergedGrant ==
  ASSUME NEW g \in Grants, NEW extra \in Grants
  PROVE  /\ MergeGrants(g, extra) \in Grants
         /\ MergeGrants(g, extra).type = g.type /\ MergeGrants(g, extra).id = g.id
         /\ MergeGrants(g, extra).actions
              = g.actions \cup {op \in extra.actions : ~contains(g.actions, op)}
         /\ MergeGrants(g, extra).constraints
              = IF g.constraints = {} THEN extra.constraints ELSE g.constraints
<1>1. g = [type |-> g.type, id |-> g.id, actions |-> g.actions, constraints |-> g.constraints]
  BY DEF Grants
<1>2. PICK m : m = MergeGrants(g, extra)
  OBVIOUS
<1>3. /\ m = [type |-> m.type, id |-> m.id, actions |-> m.actions, constraints |-> m.constraints]
      /\ m.type = g.type /\ m.id = g.id
      /\ m.actions = g.actions \cup {op \in extra.actions : ~contains(g.actions, op)}
      /\ m.constraints = IF g.constraints = {} THEN extra.constraints ELSE g.constraints
  BY <1>1, <1>2 DEF MergeGrants
<1>4. m \in Grants
  BY <1>3 DEF Grants
<1> QED BY <1>2, <1>3, <1>4

\* Joining leaves grants.
LEMMA JoinType ==
  ASSUME NEW r \in Seq(Grants), NEW extra \in Grants
  PROVE  JoinGrant(r, extra) \in Seq(Grants)
<1>1. Append(r, extra) \in Seq(Grants)
  OBVIOUS
<1>2. ASSUME NEW k \in DOMAIN r
      PROVE  [r EXCEPT ![k] = MergeGrants(r[k], extra)] \in Seq(Grants)
  <2>1. PICK m \in Grants : m = MergeGrants(r[k], extra)
    BY MergedGrant
  <2>2. [r EXCEPT ![k] = m] \in Seq(Grants)
    OBVIOUS
  <2> QED BY <2>1, <2>2
<1> QED BY <1>1, <1>2, JoinCases

\* f holds the grants after each round of the loop in mergeAuthority.
MergeRounds(f, region, requested) ==
    LET n == Len(requested.resources)
    IN  /\ f \in [0..n -> Seq(Grants)]
        /\ f[0] = region.resources
        /\ \A k \in 1..n : f[k] = JoinGrant(f[k - 1], requested.resources[k])
        /\ mergeAuthority(region, requested) = [region EXCEPT !.resources = f[n]]

\* mergeAuthority goes through the requested grants one by one.
LEMMA MergeLoop ==
  ASSUME NEW region \in Regions, NEW requested \in Regions
  PROVE  \E f : MergeRounds(f, region, requested)
<1>1. PICK asked \in Seq(Grants), n \in Nat : asked = requested.resources /\ n = Len(asked)
  BY RegionGrants
<1>2. PICK T : T = Seq(Grants)
  OBVIOUS
<1>3. PICK b \in T : b = region.resources
  BY <1>2, RegionGrants
<1>4. PICK G : G = [k \in 1..n |-> [r \in T |-> JoinGrant(r, asked[k])]]
  OBVIOUS
<1>5. ASSUME NEW k \in 1..n, NEW r \in T PROVE JoinGrant(r, asked[k]) \in T
  <2>1. asked[k] \in Grants
    BY <1>1
  <2> QED BY <1>2, <2>1, JoinType
<1>6. G \in [1..n -> [T -> T]]
  BY <1>4, <1>5
<1>7. PICK f \in [0..n -> T] : Iterates(f, b, n, G)
  <2>1. n \in Nat /\ b \in T
    OBVIOUS
  <2> QED BY <1>6, <2>1, Recursion, Zenon
<1>8. \A k \in 1..n : k - 1 \in 0..n /\ f[k] = JoinGrant(f[k - 1], asked[k])
  BY <1>4, <1>7 DEF Iterates
<1>9. f = [k \in 0..n |-> IF k = 0 THEN b ELSE JoinGrant(f[k - 1], asked[k])]
  BY <1>7, <1>8 DEF Iterates
<1>10. PICK h : h = CHOOSE e : e = [k \in 0..n |-> IF k = 0 THEN b
                                                   ELSE JoinGrant(e[k - 1], asked[k])]
  OBVIOUS
<1>11. h = [k \in 0..n |-> IF k = 0 THEN b ELSE JoinGrant(h[k - 1], asked[k])]
  BY <1>9, <1>10, Zenon
<1>12. mergeAuthority(region, requested) = [region EXCEPT !.resources = h[n]]
  BY <1>1, <1>3, <1>10, Zenon DEF mergeAuthority
<1>13. \A k \in 1..n : h[k] = JoinGrant(h[k - 1], asked[k])
  BY <1>11
<1>14. h \in [0..n -> T] /\ h[0] = b
  <2>1. h[0] = b
    BY <1>11
  <2>2. PICK S : S = {k \in Nat : k <= n => h[k] \in T}
    OBVIOUS
  <2>3. 0 \in S
    BY <2>1, <2>2
  <2>4. ASSUME NEW k \in Nat, k \in S PROVE k + 1 \in S
    <3>1. ASSUME k + 1 <= n PROVE h[k + 1] \in T
      <4>1. h[k] \in T /\ k + 1 \in 1..n /\ k + 1 - 1 = k
        BY <2>2, <2>4, <3>1
      <4> QED BY <1>5, <1>13, <4>1
    <3> QED BY <2>2, <3>1
  <2>5. Nat \subseteq S
    BY <2>3, <2>4, AllNaturals
  <2>6. \A k \in 0..n : h[k] \in T
    BY <2>2, <2>5
  <2> QED BY <1>11, <2>1, <2>6
<1> QED BY <1>1, <1>2, <1>3, <1>12, <1>13, <1>14 DEF MergeRounds

\* A merged region is a region.
LEMMA MergeType ==
  ASSUME NEW region \in Regions, NEW requested \in Regions
  PROVE  /\ mergeAuthority(region, requested) \in Regions
         /\ mergeAuthority(region, requested).forbidden = region.forbidden
<1>1. PICK n : n = Len(requested.resources)
  OBVIOUS
<1>2. n \in Nat
  BY <1>1, RegionGrants
<1>3. PICK f \in [0..n -> Seq(Grants)] :
          mergeAuthority(region, requested) = [region EXCEPT !.resources = f[n]]
  BY <1>1, MergeLoop DEF MergeRounds
<1>4. f[n] \in Seq(Grants)
  BY <1>2
<1> QED BY <1>3, <1>4 DEF Regions

\* Some grant permits the action in a context.
InContext(r, a, context) ==
    \E k \in DOMAIN r : Permits(r[k], a) /\ r[k].constraints \subseteq context

\* A grant without constraints that joins takes nothing away and gives what it
\* permits itself.
LEMMA JoinGives ==
  ASSUME NEW r \in Seq(Grants), NEW extra \in Grants, extra.constraints = {},
         NEW a, NEW context
  PROVE  /\ InContext(r, a, context) => InContext(JoinGrant(r, extra), a, context)
         /\ InContext(JoinGrant(r, extra), a, context) =>
               InContext(r, a, context) \/ Permits(extra, a)
<1>1. CASE JoinGrant(r, extra) = r
  BY <1>1
<1>2. CASE JoinGrant(r, extra) = Append(r, extra)
  <2>1. PICK s : s = Append(r, extra)
    OBVIOUS
  <2>2. /\ Len(r) \in Nat /\ DOMAIN r = 1..Len(r) /\ DOMAIN s = 1..(Len(r) + 1)
        /\ \A k \in 1..Len(r) : s[k] = r[k]
        /\ s[Len(r) + 1] = extra
    BY <2>1
  <2>3. DOMAIN s = DOMAIN r \cup {Len(r) + 1}
    BY <2>2
  <2>4. /\ InContext(r, a, context) => InContext(s, a, context)
        /\ InContext(s, a, context) => InContext(r, a, context) \/ Permits(extra, a)
    <3>0. PICK last : last = Len(r) + 1
      OBVIOUS
    <3>1. last \notin DOMAIN r /\ DOMAIN s = DOMAIN r \cup {last} /\ s[last] = extra
      BY <2>2, <2>3, <3>0
    <3>2. \A k \in DOMAIN r : s[k] = r[k]
      BY <2>2
    <3>3. InContext(r, a, context) => InContext(s, a, context)
      BY <3>1, <3>2 DEF InContext
    <3>4. ASSUME NEW k \in DOMAIN s, Permits(s[k], a), s[k].constraints \subseteq context
          PROVE  InContext(r, a, context) \/ Permits(extra, a)
      <4>1. CASE k = last
        BY <3>1, <3>4, <4>1
      <4>2. CASE k \in DOMAIN r
        BY <3>2, <3>4, <4>2 DEF InContext
      <4> QED BY <3>1, <4>1, <4>2
    <3>5. InContext(s, a, context) => InContext(r, a, context) \/ Permits(extra, a)
      BY <3>4 DEF InContext
    <3> QED BY <3>3, <3>5
  <2> QED BY <1>2, <2>1, <2>4
<1>3. ASSUME NEW k \in DOMAIN r, r[k].type = extra.type, r[k].id = extra.id,
             JoinGrant(r, extra) = [r EXCEPT ![k] = MergeGrants(r[k], extra)]
      PROVE  /\ InContext(r, a, context) => InContext(JoinGrant(r, extra), a, context)
             /\ InContext(JoinGrant(r, extra), a, context) =>
                   InContext(r, a, context) \/ Permits(extra, a)
  <2>1. PICK g \in Grants : g = r[k]
    OBVIOUS
  <2>2. PICK m : m = MergeGrants(g, extra)
    OBVIOUS
  <2>3. /\ m.type = g.type /\ m.id = g.id /\ m.constraints = g.constraints
        /\ m.actions = g.actions \cup {op \in extra.actions : ~contains(g.actions, op)}
    BY <1>3, <2>2, MergedGrant
  <2>4. PICK s : s = [r EXCEPT ![k] = m]
    OBVIOUS
  <2>5. /\ DOMAIN s = DOMAIN r /\ s[k] = m
        /\ \A l \in DOMAIN r : l # k => s[l] = r[l]
    BY <2>4
  <2>6. Permits(g, a) => Permits(m, a)
    BY <2>3 DEF Permits, resourceMatches, contains
  <2>7. Permits(m, a) => Permits(g, a) \/ Permits(extra, a)
    BY <1>3, <2>1, <2>3 DEF Permits, resourceMatches, contains
  <2>8. /\ InContext(r, a, context) => InContext(s, a, context)
        /\ InContext(s, a, context) => InContext(r, a, context) \/ Permits(extra, a)
    BY <2>1, <2>3, <2>5, <2>6, <2>7 DEF InContext
  <2>9. JoinGrant(r, extra) = s
    BY <1>3, <2>1, <2>2, <2>4
  <2> QED BY <2>8, <2>9
<1> QED BY <1>1, <1>2, <1>3, JoinCases

\* The scope of a region in a context, by its grants.
LEMMA InScopeForContext ==
  ASSUME NEW region, NEW a, NEW context
  PROVE  actionInScopeForContext(region, a, context) <=>
            ~forbids(region, a) /\ InContext(region.resources, a, context)
<1>1. GrantsFor(region, a) = IF forbids(region, a) THEN {}
                             ELSE {grant \in Range(region.resources) : Permits(grant, a)}
  BY DEF GrantsFor, Permits
<1>2. \A grant : grant \in Range(region.resources)
          <=> \E k \in DOMAIN region.resources : grant = region.resources[k]
  BY Zenon DEF Range
<1> QED BY <1>1, <1>2 DEF actionInScopeForContext, InContext

\* An expansion without constraints only adds, and only what it asks for.
LEMMA MergeGives ==
  ASSUME NEW region \in Regions, NEW requested \in Regions, Unconstrained(requested),
         NEW a, NEW context
  PROVE  /\ actionInScopeForContext(region, a, context) =>
               actionInScopeForContext(mergeAuthority(region, requested), a, context)
         /\ actionInScopeForContext(mergeAuthority(region, requested), a, context) =>
               \/ actionInScopeForContext(region, a, context)
               \/ actionInScope([requested EXCEPT !.forbidden = {}], a)
<1>1. PICK asked \in Seq(Grants), n \in Nat : asked = requested.resources /\ n = Len(asked)
  BY RegionGrants
<1>2. PICK f \in [0..n -> Seq(Grants)] :
          /\ f[0] = region.resources
          /\ \A k \in 1..n : f[k] = JoinGrant(f[k - 1], asked[k])
          /\ mergeAuthority(region, requested) = [region EXCEPT !.resources = f[n]]
  <2>1. PICK f : MergeRounds(f, region, requested)
    BY MergeLoop
  <2>2. /\ f \in [0..n -> Seq(Grants)] /\ f[0] = region.resources
        /\ \A k \in 1..n : f[k] = JoinGrant(f[k - 1], asked[k])
        /\ mergeAuthority(region, requested) = [region EXCEPT !.resources = f[n]]
    BY <1>1, <2>1 DEF MergeRounds
  <2> QED BY <2>2
<1> DEFINE In(k) == InContext(f[k], a, context)
           Asked == \E k \in 1..n : Permits(asked[k], a)
<1>3. ASSUME NEW k \in Nat, k + 1 <= n
      PROVE  (In(k) => In(k + 1)) /\ (In(k + 1) => In(k) \/ Asked)
  <2>1. k + 1 \in 1..n /\ k \in 0..n /\ k + 1 - 1 = k
    BY <1>3
  <2>2. f[k] \in Seq(Grants) /\ asked[k + 1] \in Grants
    BY <1>1, <2>1
  <2>3. asked[k + 1].constraints = {}
    BY <1>1, <2>1 DEF Unconstrained
  <2>4. f[k + 1] = JoinGrant(f[k], asked[k + 1])
    BY <1>2, <2>1
  <2> QED BY <2>1, <2>2, <2>3, <2>4, JoinGives
<1>4. (In(0) => In(n)) /\ (In(n) => In(0) \/ Asked)
  <2> HIDE DEF In, Asked
  <2>1. PICK S : S = {k \in Nat : k <= n => (In(0) => In(k)) /\ (In(k) => In(0) \/ Asked)}
    OBVIOUS
  <2>2. 0 \in S /\ \A k \in Nat : k \in S => k + 1 \in S
    BY <1>3, <2>1
  <2>3. n \in S
    BY <2>2, AllNaturals
  <2> QED BY <2>1, <2>3
<1>5. PICK merged \in Regions : /\ merged = mergeAuthority(region, requested)
                               /\ merged.forbidden = region.forbidden
  BY MergeType
<1>6. merged.resources = f[n]
  BY <1>2, <1>5 DEF Regions
<1>7. forbids(merged, a) <=> forbids(region, a)
  BY <1>5 DEF forbids
<1>8. Asked => actionInScope([requested EXCEPT !.forbidden = {}], a)
  <2>1. PICK open : open = [requested EXCEPT !.forbidden = {}]
    OBVIOUS
  <2>2. open.resources = asked /\ open.forbidden = {}
    BY <1>1, <2>1 DEF Regions
  <2>3. ~forbids(open, a)
    BY <2>2 DEF forbids, contains
  <2>4. DOMAIN asked = 1..n
    BY <1>1
  <2>5. Asked => actionInScope(open, a)
    BY <2>2, <2>3, <2>4, InScope
  <2> QED BY <2>1, <2>5
<1> QED BY <1>2, <1>4, <1>5, <1>6, <1>7, <1>8, InScopeForContext

\* part is what the parent covers of grant.
IsPart(parent, grant, part) ==
    part = [grant EXCEPT !.actions =
               {op \in grant.actions : actionInScope(parent, ActionOf(grant, op))}]

\* A round of the loop in authorityIntersection offers a part of a grant or nothing.
LEMMA OfferCases ==
  ASSUME NEW parent, NEW r \in Seq(Grants), NEW grant \in Grants
  PROVE  /\ OfferGrant(parent, r, grant) \in Seq(Grants)
         /\ \A i \in DOMAIN OfferGrant(parent, r, grant) :
               \/ i \in DOMAIN r /\ OfferGrant(parent, r, grant)[i] = r[i]
               \/ IsPart(parent, grant, OfferGrant(parent, r, grant)[i])
<1>1. PICK part : IsPart(parent, grant, part)
  BY DEF IsPart
<1>2. part \in Grants
  BY <1>1 DEF IsPart, Grants
<1>3. OfferGrant(parent, r, grant) \in {r, Append(r, part)}
  BY <1>1 DEF OfferGrant, IsPart
<1>4. /\ Append(r, part) \in Seq(Grants)
      /\ \A i \in DOMAIN Append(r, part) : \/ i \in DOMAIN r /\ Append(r, part)[i] = r[i]
                                           \/ Append(r, part)[i] = part
  <2>1. PICK g \in Grants : g = part
    BY <1>2
  <2>2. PICK s : s = Append(r, g)
    OBVIOUS
  <2>3. /\ s \in Seq(Grants)
        /\ Len(r) \in Nat /\ DOMAIN r = 1..Len(r) /\ DOMAIN s = 1..(Len(r) + 1)
        /\ \A i \in 1..Len(r) : s[i] = r[i]
        /\ s[Len(r) + 1] = g
    BY <2>2
  <2>4. \A i \in DOMAIN s : (i \in DOMAIN r /\ s[i] = r[i]) \/ s[i] = g
    BY <2>3
  <2> QED BY <2>1, <2>2, <2>3, <2>4
<1> QED BY <1>1, <1>3, <1>4

\* authorityIntersection offers parts of the requested grants.
LEMMA OfferedGrants ==
  ASSUME NEW parent \in Regions, NEW requested \in Regions
  PROVE  \A i \in DOMAIN authorityIntersection(parent, requested).resources :
            \E k \in DOMAIN requested.resources :
               IsPart(parent, requested.resources[k],
                      authorityIntersection(parent, requested).resources[i])
<1>1. PICK asked \in Seq(Grants), n \in Nat : asked = requested.resources /\ n = Len(asked)
  BY RegionGrants
<1>2. PICK T : T = Seq(Grants)
  OBVIOUS
<1>3. PICK b \in T : b = << >>
  BY <1>2, EmptySeq, Zenon
<1>4. PICK G : G = [k \in 1..n |-> [r \in T |-> OfferGrant(parent, r, asked[k])]]
  OBVIOUS
<1>5. ASSUME NEW k \in 1..n, NEW r \in T PROVE OfferGrant(parent, r, asked[k]) \in T
  <2>1. asked[k] \in Grants
    BY <1>1
  <2> QED BY <1>2, <2>1, OfferCases
<1>6. G \in [1..n -> [T -> T]]
  BY <1>4, <1>5
<1>7. PICK f \in [0..n -> T] : Iterates(f, b, n, G)
  <2>1. n \in Nat /\ b \in T
    OBVIOUS
  <2> QED BY <1>6, <2>1, Recursion, Zenon
<1>8. \A k \in 1..n : k - 1 \in 0..n /\ f[k] = OfferGrant(parent, f[k - 1], asked[k])
  BY <1>4, <1>7 DEF Iterates
<1>9. f = [k \in 0..n |-> IF k = 0 THEN b ELSE OfferGrant(parent, f[k - 1], asked[k])]
  BY <1>7, <1>8 DEF Iterates
<1>10. PICK h : h = CHOOSE e : e = [k \in 0..n |-> IF k = 0 THEN b
                                          ELSE OfferGrant(parent, e[k - 1], asked[k])]
  OBVIOUS
<1>11. h = [k \in 0..n |-> IF k = 0 THEN b ELSE OfferGrant(parent, h[k - 1], asked[k])]
  BY <1>9, <1>10, Zenon
<1>12. authorityIntersection(parent, requested).resources = h[n]
  <2>1. authorityIntersection(parent, requested)
          = [resources |-> h[n], forbidden |-> parent.forbidden]
    BY <1>1, <1>3, <1>10, Zenon DEF authorityIntersection
  <2> QED BY <2>1
<1> DEFINE Parts(r) ==
             r \in T /\ \A i \in DOMAIN r : \E k \in 1..n : IsPart(parent, asked[k], r[i])
<1>13. h[0] = b /\ Parts(b)
  <2>1. DOMAIN b = {}
    BY <1>3
  <2> QED BY <1>11, <2>1
<1>14. ASSUME NEW k \in 1..n, Parts(h[k - 1]) PROVE Parts(h[k])
  <2>1. h[k] = OfferGrant(parent, h[k - 1], asked[k])
    BY <1>11
  <2>2. h[k - 1] \in Seq(Grants) /\ asked[k] \in Grants
    BY <1>1, <1>2, <1>14
  <2>3. /\ h[k] \in Seq(Grants)
        /\ \A i \in DOMAIN h[k] : \/ i \in DOMAIN h[k - 1] /\ h[k][i] = h[k - 1][i]
                                  \/ IsPart(parent, asked[k], h[k][i])
    BY <2>1, <2>2, OfferCases
  <2> QED BY <1>2, <1>14, <2>3
<1>15. Parts(h[n])
  <2> HIDE DEF Parts
  <2>1. PICK S : S = {k \in Nat : k <= n => Parts(h[k])}
    OBVIOUS
  <2>2. 0 \in S
    BY <1>13, <2>1
  <2>3. ASSUME NEW k \in Nat, k \in S PROVE k + 1 \in S
    <3>1. ASSUME k + 1 <= n PROVE Parts(h[k + 1])
      <4>1. Parts(h[k]) /\ k + 1 \in 1..n /\ k + 1 - 1 = k
        BY <2>1, <2>3, <3>1
      <4> QED BY <1>14, <4>1
    <3> QED BY <2>1, <3>1
  <2>4. n \in S
    BY <2>2, <2>3, AllNaturals
  <2> QED BY <2>1, <2>4
<1> QED BY <1>1, <1>12, <1>15

\* What a negotiation offers permits what the mission does, what the mission
\* forbids aside.
LEMMA OfferInScope ==
  ASSUME NEW parent \in Regions, NEW ask \in Regions, Literal(ask), NEW a,
         a.id \in Seq(STRING), NEW offer,
         offer = (IF allRequestedActionsInScope(parent, ask) THEN ask
                  ELSE authorityIntersection(parent, ask)),
         actionInScope(offer, a)
  PROVE  actionInScope(parent, a) \/ forbids(parent, a)
<1>1. PICK i \in DOMAIN offer.resources :
          /\ resourceMatches(offer.resources[i], a)
          /\ contains(offer.resources[i].actions, a.operation)
  BY InScope DEF Permits
<1>2. PICK g \in Grants : /\ resourceMatches(g, a) /\ contains(g.actions, a.operation)
                          /\ \A l \in DOMAIN g.id : g.id[l] \notin Wildcards
                          /\ \A op \in g.actions : actionInScope(parent, ActionOf(g, op))
  <2>1. CASE allRequestedActionsInScope(parent, ask)
    <3>1. PICK g \in Grants : g = ask.resources[i] /\ i \in DOMAIN ask.resources
      BY <1>1, <2>1, RegionGrants
    <3>2. \A l \in DOMAIN g.id : g.id[l] \notin Wildcards
      BY <3>1 DEF Literal
    <3>3. \A op \in g.actions : actionInScope(parent, ActionOf(g, op))
      BY <2>1, <3>1 DEF allRequestedActionsInScope
    <3> QED BY <1>1, <2>1, <3>1, <3>2, <3>3
  <2>2. CASE ~allRequestedActionsInScope(parent, ask)
    <3>1. PICK part : part = offer.resources[i]
      OBVIOUS
    <3>2. PICK k \in DOMAIN ask.resources : IsPart(parent, ask.resources[k], part)
      BY <1>1, <2>2, <3>1, OfferedGrants
    <3>3. PICK g \in Grants : g = ask.resources[k]
      BY <3>2, RegionGrants
    <3>4. /\ part \in Grants /\ part.id = g.id /\ part.type = g.type
          /\ part.actions = {op \in g.actions : actionInScope(parent, ActionOf(g, op))}
      BY <3>2, <3>3 DEF IsPart, Grants
    <3>5. \A l \in DOMAIN part.id : part.id[l] \notin Wildcards
      BY <3>2, <3>3, <3>4 DEF Literal
    <3>6. \A op \in part.actions : actionInScope(parent, ActionOf(part, op))
      <4>1. \A op : ActionOf(part, op) = ActionOf(g, op)
        BY <3>4 DEF ActionOf
      <4> QED BY <3>4, <4>1
    <3> QED BY <1>1, <3>1, <3>4, <3>5, <3>6
  <2> QED BY <2>1, <2>2
<1> QED BY <1>2, CoveredInScope

-----------------------------------------------------------------------------
(* The mission and what is derived from it.                                *)

\* Every row, and every expansion asked for, has a region.
RegionsOK == /\ \A row \in past : row.region \in Regions
             /\ \A x \in expansions : x.region \in Regions

\* What is derived, d, keeps to the region it was derived from.
Within(d, from) ==
    Literal(d.ask) => \A a \in {ActionAsked(q) : q \in Requests} :
                         actionInScope(d.region, a) =>
                             \/ actionInScope(from, a)
                             \/ d.kind = "negotiation" /\ forbids(from, a)

DerivedOK == \A p \in Handlers :
                job[p].pc = "derive" => Within(job[p].request, job[p].copy.region)

\* An expansion that an evaluation asks for has a region.
LEMMA AskedRegion ==
  ASSUME NEW q \in Requests
  PROVE  authorityForAction(ActionAsked(q)) \in Regions
<1>1. PICK a : a = ActionAsked(q) /\ a.type \in STRING /\ a.id \in Seq(STRING)
                                 /\ a.operation \in STRING
  BY RegionAssumption
<1>2. PICK g : g = [type |-> a.type, id |-> a.id, actions |-> {a.operation},
                    constraints |-> {}]
  OBVIOUS
<1>3. g \in Grants
  BY <1>1, <1>2 DEF Grants
<1>4. <<g>> \in Seq(Grants)
  BY <1>3
<1>5. [resources |-> <<g>>, forbidden |-> {}] \in Regions
  BY <1>4 DEF Regions
<1> QED BY <1>1, <1>2, <1>5 DEF authorityForAction

\* The rows and the expansions keep their regions.
LEMMA RegionsStep ==
  ASSUME Inv, RegionsOK, [Next]_vars
  PROVE  RegionsOK'
<1>1. mission.region \in Regions
  BY DEF Inv, StoreOK, RegionsOK
<1>2. ASSUME past' = past, expansions' = expansions PROVE RegionsOK'
  BY <1>2 DEF RegionsOK
<1>3. ASSUME NEW p \in Handlers, Administer(p) PROVE RegionsOK'
  <2>1. past' = past /\ expansions' = expansions
    BY <1>3 DEF Administer, RegisterAgent, RevokeAgent, RegisterToolContract,
       SetContainmentRule, CreatePolicyBundle, ActivatePolicyBundle, CommitActivation,
       store, results
  <2> QED BY <1>2, <2>1
<1>4. ASSUME NEW p \in Handlers, SaveExpansionRequest(p) PROVE RegionsOK'
  <2>1. job[p].request \in Requests
    BY <1>4 DEF SaveExpansionRequest, Inv, JobsOK, JobOK, Asking, Informed
  <2>2. PICK x : x = [region |-> authorityForAction(ActionAsked(job[p].request)),
                      seen |-> effectiveMissionVersionSeen(job[p].request.seen,
                                                           job[p].copy.version)]
    OBVIOUS
  <2>3. expansions' = expansions \cup {x} /\ past' = past
    BY <1>4, <2>2 DEF SaveExpansionRequest
  <2>4. x.region \in Regions
    BY <2>1, <2>2, AskedRegion
  <2> QED BY <2>3, <2>4 DEF RegionsOK
<1>5. ASSUME NEW p \in Handlers, transition(p) PROVE RegionsOK'
  <2>1. PICK copy \in past : copy = job[p].copy
    BY <1>5 DEF transition, Inv, JobsOK, JobOK, Informed
  <2>2. IsRow(copy)
    BY DEF Inv, StoreOK
  <2>3. PICK row : row = [copy EXCEPT !.state = job[p].goal, !.version = @ + 1]
    OBVIOUS
  <2>4. row.region = copy.region
    BY <2>2, <2>3 DEF IsRow
  <2>5. past' = past \cup {row} /\ expansions' = expansions
    BY <1>5, <2>1, <2>3 DEF transition, results
  <2> QED BY <2>1, <2>4, <2>5 DEF RegionsOK
<1>6. ASSUME NEW p \in Handlers, Ask(p) \/ Fail(p), ~SaveExpansionRequest(p), ~transition(p)
      PROVE  RegionsOK'
  <2>1. past' = past /\ expansions' = expansions
    BY <1>6 DEF Ask, Fail, VerifyAgentRequestSignature, SaveAgentNonce, AuthorizeToolCall,
       Evaluate, CheckContainment, RecheckContainment, GetActivePolicyBundle,
       SaveEvaluationEvidence, CreateAuthorityNegotiation, Delegate, Derive, SaveDerived,
       store, results
  <2> QED BY <1>2, <2>1
<1>7. ASSUME NEW g \in Regions, GrantExpansion(g) PROVE RegionsOK'
  <2>1. PICK region \in Regions : region = mergeAuthority(mission.region, g)
    BY <1>1, MergeType
  <2>2. IsRow(mission)
    BY DEF Inv, StoreOK
  <2>3. PICK row : row = [mission EXCEPT !.region = region, !.version = @ + 1]
    OBVIOUS
  <2>4. row.region = region
    BY <2>2, <2>3 DEF IsRow
  <2>5. past' = past \cup {row} /\ expansions' = expansions
    BY <1>7, <2>1, <2>3 DEF GrantExpansion, results
  <2> QED BY <2>1, <2>4, <2>5 DEF RegionsOK
<1>8. ASSUME CloseMission PROVE RegionsOK'
  <2>1. IsRow(mission)
    BY DEF Inv, StoreOK
  <2>2. PICK row : row = [mission EXCEPT !.state = "revoked", !.version = @ + 1]
    OBVIOUS
  <2>3. row.region = mission.region
    BY <2>1, <2>2 DEF IsRow
  <2>4. past' = past \cup {row} /\ expansions' = expansions
    BY <1>8, <2>2 DEF CloseMission, results
  <2> QED BY <1>1, <2>3, <2>4 DEF RegionsOK
<1>9. CASE PassEnd \/ UNCHANGED vars
  <2>1. past' = past /\ expansions' = expansions
    BY <1>9 DEF PassEnd, vars, store, results
  <2> QED BY <1>2, <2>1
<1>10. \A g \in Expansions : g \in Regions
  BY RegionAssumption
<1>11. \A x \in expansions : x.region \in Regions
  BY DEF RegionsOK
<1> QED BY <1>3, <1>4, <1>5, <1>6, <1>7, <1>8, <1>9, <1>10, <1>11 DEF Next

\* No handler but one that derives comes to derive.
LEMMA DerivedKept ==
  ASSUME DerivedOK,
         \A h \in Handlers : job'[h].pc = "derive" =>
            /\ job[h].pc = "derive"
            /\ job'[h].request = job[h].request /\ job'[h].copy = job[h].copy
  PROVE  DerivedOK'
<1>1. ASSUME NEW h \in Handlers, job'[h].pc = "derive"
      PROVE  Within(job'[h].request, job'[h].copy.region)
  BY <1>1 DEF DerivedOK
<1> QED BY <1>1 DEF DerivedOK, Within

\* One handler goes on to something else.
LEMMA DerivedElsewhere ==
  ASSUME Inv, DerivedOK, NEW p \in Handlers, NEW k, job' = [job EXCEPT ![p] = k],
         k.pc # "derive"
  PROVE  DerivedOK'
<1>1. job'[p] = k /\ \A h \in Handlers : h # p => job'[h] = job[h]
  BY DEF Inv, JobsOK
<1>2. \A h \in Handlers : job'[h].pc = "derive" => job'[h] = job[h]
  BY <1>1
<1>3. \A h \in Handlers : job'[h].pc = "derive" =>
          /\ job[h].pc = "derive"
          /\ job'[h].request = job[h].request /\ job'[h].copy = job[h].copy
  BY <1>2
<1> QED BY <1>3, DerivedKept

\* Something is derived from the mission.
LEMMA DeriveWithin ==
  ASSUME Inv, RegionsOK, DerivedOK, NEW p \in Handlers, NEW ask \in Asks,
         CreateAuthorityNegotiation(p, ask) \/ Delegate(p, ask)
  PROVE  DerivedOK'
<1>1. mission.region \in Regions /\ ask \in Regions
  BY RegionAssumption DEF Inv, StoreOK, RegionsOK
<1>2. PICK kind, region :
          /\ Derive(p, kind, ask, region)
          /\ \/ kind = "delegation" /\ region = ask /\ authoritySubset(mission.region, ask)
             \/ /\ kind = "negotiation"
                /\ region = IF allRequestedActionsInScope(mission.region, ask) THEN ask
                            ELSE authorityIntersection(mission.region, ask)
  BY DEF CreateAuthorityNegotiation, Delegate
<1>3. PICK d : d = [kind |-> kind, ask |-> ask, region |-> region]
  OBVIOUS
<1>4. Within(d, mission.region)
  <2>1. d.kind = kind /\ d.ask = ask /\ d.region = region
    BY <1>3
  <2>2. ASSUME Literal(ask), NEW q \in Requests, actionInScope(region, ActionAsked(q))
        PROVE  \/ actionInScope(mission.region, ActionAsked(q))
               \/ kind = "negotiation" /\ forbids(mission.region, ActionAsked(q))
    <3>1. PICK a : a = ActionAsked(q) /\ a.id \in Seq(STRING)
      BY RegionAssumption
    <3>2. CASE kind = "delegation" /\ region = ask /\ authoritySubset(mission.region, ask)
      BY <1>1, <2>2, <3>1, <3>2, SubsetInScope
    <3>3. CASE kind = "negotiation"
      <4>1. region = IF allRequestedActionsInScope(mission.region, ask) THEN ask
                     ELSE authorityIntersection(mission.region, ask)
        BY <1>2, <3>3
      <4>2. actionInScope(mission.region, a) \/ forbids(mission.region, a)
        BY <1>1, <2>2, <3>1, <4>1, OfferInScope
      <4> QED BY <3>1, <3>3, <4>2
    <3> QED BY <1>2, <3>2, <3>3
  <2> QED BY <2>1, <2>2 DEF Within
<1>5. PICK k : k = [Idle EXCEPT !.pc = "derive", !.copy = mission, !.request = d]
  OBVIOUS
<1>6. k.request = d /\ k.copy = mission
  BY <1>5 DEF Idle
<1>7. job' = [job EXCEPT ![p] = k]
  BY <1>2, <1>3, <1>5 DEF Derive
<1>8. job'[p] = k /\ \A h \in Handlers : h # p => job'[h] = job[h]
  BY <1>7 DEF Inv, JobsOK
<1>9. ASSUME NEW h \in Handlers, job'[h].pc = "derive"
      PROVE  Within(job'[h].request, job'[h].copy.region)
  <2>1. CASE h = p
    BY <1>4, <1>6, <1>8, <2>1
  <2>2. CASE h # p
    BY <1>8, <1>9, <2>2 DEF DerivedOK
  <2> QED BY <2>1, <2>2
<1> QED BY <1>9 DEF DerivedOK, Within

\* No step lets a derived authority outgrow what it was derived from.
LEMMA DerivedStep ==
  ASSUME Inv, RegionsOK, DerivedOK, [Next]_vars
  PROVE  DerivedOK'
<1>0. job = [h \in Handlers |-> job[h]] /\ \A h \in Handlers : IsJob(job[h])
  BY DEF Inv, JobsOK, JobOK
<1>1. ASSUME job' = job PROVE DerivedOK'
  BY <1>1, DerivedKept
<1>2. ASSUME NEW p \in Handlers, Return(p) PROVE DerivedOK'
  <2>1. PICK k : k = Idle
    OBVIOUS
  <2>2. k.pc = "idle" /\ job' = [job EXCEPT ![p] = k]
    BY <1>2, <2>1 DEF Return, Idle
  <2> QED BY <2>2, DerivedElsewhere
<1>3. ASSUME NEW p \in Handlers, NEW pc, pc # "derive", Goto(p, pc) PROVE DerivedOK'
  <2>1. PICK j : j = job[p] /\ IsJob(j)
    BY <1>0
  <2>2. PICK k : k = [j EXCEPT !.pc = pc]
    OBVIOUS
  <2>3. k.pc = pc
    BY <2>1, <2>2 DEF IsJob
  <2>4. job' = [job EXCEPT ![p] = k]
    BY <1>3, <2>1, <2>2 DEF Goto, Inv, JobsOK
  <2> QED BY <1>3, <2>3, <2>4, DerivedElsewhere
<1>4. ASSUME NEW p \in Handlers, NEW d, Decide(p, d) PROVE DerivedOK'
  <2>1. PICK j : j = job[p] /\ IsJob(j)
    BY <1>0
  <2>2. PICK k : k = [j EXCEPT !.pc = "policy", !.base = d]
    OBVIOUS
  <2>3. k.pc = "policy"
    BY <2>1, <2>2 DEF IsJob
  <2>4. job' = [job EXCEPT ![p] = k]
    BY <1>4, <2>1, <2>2 DEF Decide, Inv, JobsOK
  <2> QED BY <2>3, <2>4, DerivedElsewhere
<1>5. ASSUME NEW p \in Handlers, Administer(p) PROVE DerivedOK'
  <2>1. CASE job' = job
    BY <1>1, <2>1
  <2>2. ASSUME NEW b \in BundleIds, ActivatePolicyBundle(p, b) PROVE DerivedOK'
    <3>1. PICK k : k = [Idle EXCEPT !.pc = "activate", !.bundle = b,
                          !.archived = Active(BundleOf[b].tenant) \ {b}]
      OBVIOUS
    <3>2. k.pc = "activate" /\ job' = [job EXCEPT ![p] = k]
      BY <2>2, <3>1 DEF ActivatePolicyBundle, Idle
    <3> QED BY <3>2, DerivedElsewhere
  <2>3. CASE CommitActivation(p)
    <3>1. PICK rest : job' = [q \in Handlers |-> IF q = p THEN Idle
                                ELSE [job[q] EXCEPT !.archived = rest[q]]]
      <4>1. PICK rest : rest = [q \in Handlers |->
                 IF OnlyActive(job[p].bundle, job[p].archived)
                 THEN job[q].archived \ job[p].archived ELSE job[q].archived]
        OBVIOUS
      <4>2. job' = [q \in Handlers |-> IF q = p THEN Idle
                                ELSE [job[q] EXCEPT !.archived = rest[q]]]
        BY <2>3, <4>1 DEF CommitActivation
      <4> QED BY <4>2
    <3>2. ASSUME NEW h \in Handlers, job'[h].pc = "derive"
          PROVE  /\ job[h].pc = "derive"
                 /\ job'[h].request = job[h].request /\ job'[h].copy = job[h].copy
      <4>1. h # p
        BY <3>1, <3>2 DEF Idle
      <4>2. PICK j : j = job[h] /\ IsJob(j)
        BY <1>0
      <4>3. job'[h] = [j EXCEPT !.archived = rest[h]]
        BY <3>1, <4>1, <4>2
      <4>4. job'[h].pc = j.pc /\ job'[h].request = j.request /\ job'[h].copy = j.copy
        BY <4>2, <4>3 DEF IsJob
      <4> QED BY <3>2, <4>2, <4>4
    <3> QED BY <3>2, DerivedKept
  <2> QED BY <1>5, <2>1, <2>2, <2>3 DEF Administer, RegisterAgent, RevokeAgent,
        RegisterToolContract, SetContainmentRule, CreatePolicyBundle
<1>6. ASSUME NEW p \in Handlers, Ask(p) PROVE DerivedOK'
  <2>1. ASSUME NEW n \in Nonces, NEW q \in Requests, VerifyAgentRequestSignature(p, n, q)
        PROVE  DerivedOK'
    <3>1. PICK k : k = [Idle EXCEPT !.pc = "nonce", !.nonce = n, !.request = q,
                          !.banned = InForce(ActionAsked(q)),
                          !.policed = Active(Tenant) \cup Active(Global) # {}]
      OBVIOUS
    <3>2. k.pc = "nonce" /\ job' = [job EXCEPT ![p] = k]
      BY <2>1, <3>1 DEF VerifyAgentRequestSignature, Idle
    <3> QED BY <3>2, DerivedElsewhere
  <2>2. CASE SaveAgentNonce(p) \/ AuthorizeToolCall(p) \/ RecheckContainment(p)
             \/ SaveExpansionRequest(p) \/ SaveEvaluationEvidence(p) \/ SaveDerived(p)
    <3>1. \/ Return(p) \/ Goto(p, "mission") \/ Goto(p, "contract") \/ Goto(p, "expand")
          \/ Decide(p, "require_approval")
      BY <2>2 DEF SaveAgentNonce, AuthorizeToolCall, RecheckContainment,
         SaveExpansionRequest, SaveEvaluationEvidence, SaveDerived
    <3> QED BY <1>2, <1>3, <1>4, <3>1
  <2>3. CASE Evaluate(p)
    <3>1. PICK j : j = job[p] /\ IsJob(j)
      BY <1>0
    <3>2. PICK goal, pc :
              /\ goal = (IF over THEN "expired" ELSE "active")
              /\ pc = (IF over /\ ~terminal(mission.state) THEN "transition"
                       ELSE IF ~over /\ mission.state = "active" /\ job[p].request.own
                       THEN "contain" ELSE "policy")
      OBVIOUS
    <3>3. PICK k : k = [j EXCEPT !.copy = mission, !.goal = goal, !.pc = pc]
      OBVIOUS
    <3>4. k.pc # "derive"
      BY <3>1, <3>2, <3>3 DEF IsJob
    <3>5. job' = [job EXCEPT ![p].copy = mission, ![p].goal = goal, ![p].pc = pc]
      BY <2>3, <3>2 DEF Evaluate
    <3>6. job' = [job EXCEPT ![p] = k]
      BY <1>0, <3>1, <3>3, <3>5
    <3> QED BY <3>4, <3>6, DerivedElsewhere
  <2>4. CASE CheckContainment(p)
    <3>1. CASE \E d : Decide(p, d)
      BY <1>4, <3>1
    <3>2. CASE Goto(p, "recheck")
      BY <1>3, <3>2
    <3>3. CASE job' = [job EXCEPT ![p].pc = "transition", ![p].goal = "suspended"]
      <4>1. PICK j : j = job[p] /\ IsJob(j)
        BY <1>0
      <4>2. PICK k : k = [j EXCEPT !.pc = "transition", !.goal = "suspended"]
        OBVIOUS
      <4>3. k.pc # "derive"
        BY <4>1, <4>2 DEF IsJob
      <4>4. job' = [job EXCEPT ![p] = k]
        BY <1>0, <3>3, <4>1, <4>2
      <4> QED BY <4>3, <4>4, DerivedElsewhere
    <3> QED BY <2>4, <3>1, <3>2, <3>3 DEF CheckContainment
  <2>5. CASE transition(p)
    <3>1. PICK j : j = job[p] /\ IsJob(j)
      BY <1>0
    <3>2. PICK row, base :
              job' = [job EXCEPT ![p].pc = "policy", ![p].copy = row, ![p].base = base]
      BY <2>5 DEF transition
    <3>3. PICK k : k = [j EXCEPT !.pc = "policy", !.copy = row, !.base = base]
      OBVIOUS
    <3>4. k.pc # "derive"
      BY <3>1, <3>3 DEF IsJob
    <3>5. job' = [job EXCEPT ![p] = k]
      BY <1>0, <3>1, <3>2, <3>3
    <3> QED BY <3>4, <3>5, DerivedElsewhere
  <2>6. ASSUME NEW pc \in {"policy", "global"}, NEW tenant,
               GetActivePolicyBundle(p, pc, tenant)
        PROVE  DerivedOK'
    <3>1. PICK j : j = job[p] /\ IsJob(j)
      BY <1>0
    <3>2. ASSUME NEW b, NEW d,
                 job' = [job EXCEPT ![p].pc = "evidence", ![p].bundle = b, ![p].decision = d]
          PROVE  DerivedOK'
      <4>1. PICK k : k = [j EXCEPT !.pc = "evidence", !.bundle = b, !.decision = d]
        OBVIOUS
      <4>2. k.pc # "derive"
        BY <3>1, <4>1 DEF IsJob
      <4>3. job' = [job EXCEPT ![p] = k]
        BY <1>0, <3>1, <3>2, <4>1
      <4> QED BY <4>2, <4>3, DerivedElsewhere
    <3>3. ASSUME NEW next \in {"evidence", "global"}, NEW d,
                 job' = [job EXCEPT ![p].pc = next, ![p].decision = d]
          PROVE  DerivedOK'
      <4>1. PICK k : k = [j EXCEPT !.pc = next, !.decision = d]
        OBVIOUS
      <4>2. k.pc # "derive"
        BY <3>1, <4>1 DEF IsJob
      <4>3. job' = [job EXCEPT ![p] = k]
        BY <1>0, <3>1, <3>3, <4>1
      <4> QED BY <4>2, <4>3, DerivedElsewhere
    <3>4. CASE \E b \in Active(tenant) :
                 job' = [job EXCEPT ![p].pc = "evidence", ![p].bundle = b,
                           ![p].decision = applyPolicyBundle(b, job[p].request, job[p].base)]
      BY <3>2, <3>4
    <3>5. CASE job' = [job EXCEPT ![p].pc = IF pc = "policy" THEN "global" ELSE "evidence",
                                  ![p].decision = job[p].base]
      <4>1. PICK next \in {"evidence", "global"} :
                next = IF pc = "policy" THEN "global" ELSE "evidence"
        OBVIOUS
      <4> QED BY <3>3, <3>5, <4>1
    <3> QED BY <2>6, <3>4, <3>5 DEF GetActivePolicyBundle
  <2>7. ASSUME NEW ask \in Asks, CreateAuthorityNegotiation(p, ask) \/ Delegate(p, ask)
        PROVE  DerivedOK'
    BY <2>7, DeriveWithin
  <2> QED BY <1>6, <2>1, <2>2, <2>3, <2>4, <2>5, <2>6, <2>7 DEF Ask
<1>7. ASSUME NEW p \in Handlers, Fail(p) PROVE DerivedOK'
  BY <1>2, <1>7 DEF Fail
<1>8. ASSUME NEW g, GrantExpansion(g) PROVE DerivedOK'
  BY <1>1, <1>8 DEF GrantExpansion
<1>9. CASE CloseMission \/ PassEnd \/ UNCHANGED vars
  BY <1>1, <1>9 DEF CloseMission, PassEnd, vars
<1> QED BY <1>5, <1>6, <1>7, <1>8, <1>9 DEF Next

\* Negotiations and delegations take place within the mission they were derived
\* from, whatever grants it has and however it came to them.
THEOREM DerivedWithin == Spec => []DerivedInScope
<1>1. Init => RegionsOK /\ DerivedOK
  <2> SUFFICES ASSUME Init PROVE RegionsOK /\ DerivedOK
    OBVIOUS
  <2>1. Region \in Regions
    BY RegionAssumption
  <2>2. mission.region = Region /\ past = {mission} /\ expansions = {}
    BY DEF Init
  <2>3. \A p \in Handlers : job[p].pc = "idle"
    BY DEF Init, Idle
  <2> QED BY <2>1, <2>2, <2>3 DEF RegionsOK, DerivedOK
<1>2. Inv /\ RegionsOK /\ DerivedOK /\ [Next]_vars => RegionsOK' /\ DerivedOK'
  BY RegionsStep, DerivedStep
<1>3. DerivedOK => DerivedInScope
  BY DEF DerivedOK, DerivedInScope, Within
<1> QED BY <1>1, <1>2, <1>3, Invariant, PTL DEF Spec

\* Every region is one, so mergeAuthority joins an expansion to it grant by grant.
THEOREM ExpansionsJoin == Spec => []GrantsJoin
<1>1. Init => RegionsOK
  <2>1. Region \in Regions
    BY RegionAssumption
  <2> QED BY <2>1 DEF Init, RegionsOK
<1>2. Inv /\ RegionsOK /\ [Next]_vars => RegionsOK'
  BY RegionsStep
<1>3. Inv /\ RegionsOK => GrantsJoin
  <2> SUFFICES ASSUME Inv, RegionsOK, NEW g \in Expansions, NEW q \in Requests,
                      Unconstrained(g)
               PROVE  LET a == ActionAsked(q)
                          before == actionInScopeForContext(mission.region, a, q.context)
                          merged == mergeAuthority(mission.region, g)
                          after == actionInScopeForContext(merged, a, q.context)
                      IN  /\ before => after
                          /\ after => before \/ actionInScope([g EXCEPT !.forbidden = {}], a)
    BY DEF GrantsJoin
  <2>1. mission.region \in Regions /\ g \in Regions
    BY RegionAssumption DEF Inv, StoreOK, RegionsOK
  <2> QED BY <2>1, MergeGives
<1> QED BY <1>1, <1>2, <1>3, Invariant, PTL DEF Spec
=============================================================================
