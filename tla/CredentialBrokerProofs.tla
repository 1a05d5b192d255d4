----------------------- MODULE CredentialBrokerProofs -----------------------
(***************************************************************************)
(* Proofs about CredentialBroker, for every number of handlers, missions,  *)
(* projections, credentials, leases and nonces, and every lifetime.        *)
(***************************************************************************)
EXTENDS CredentialBroker, NumberFacts

(***************************************************************************)
(* The missions under the broker: a version never comes back, and the time *)
(* at which a version ended is known for every version.                    *)
(***************************************************************************)
MissionRows == [state : {"none", "active", "suspended"} \cup Missions!Final,
                version : Nat, authority : SUBSET Actions]

MissionsOK ==
    /\ missions \in [Refs -> MissionRows]
    /\ endedAt \in [Refs -> [1..MaxVersion -> Nat]]
    /\ \A r \in Refs : /\ missions[r].version <= MaxVersion
                       /\ missions[r].state = "active" => missions[r].version >= 1

\* A projection ends with its mission at the latest.
Within(j) == /\ j.ref \in Refs
             /\ WindowOf[j.ref].expiresAt # 0 => j.expiresAt <= WindowOf[j.ref].expiresAt

\* A lease was given for a version the mission has reached, and runs out soon
\* enough after that version.
Lapses(l) ==
    /\ l.ref \in Refs
    /\ l.version \in 1..missions[l.ref].version
    /\ IF missions[l.ref].state = "active" /\ missions[l.ref].version = l.version
       THEN l.expiresAt <= now + MaxLeaseTTL
       ELSE l.expiresAt <= endedAt[l.ref][l.version] + MaxLeaseTTL

ProjectionsOK ==
    \A i \in ProjectionIds : IF projections[i].status = "none"
                             THEN projections[i] = NoProjection
                             ELSE Within(projections[i])

\* A credential ends with its projection, which is there and was never ahead of
\* its mission.
Fits(k) ==
    LET j == projections[k.projection]
    IN  /\ k.projection \in ProjectionIds
        /\ j.status # "none"
        /\ k.version <= missions[j.ref].version
        /\ k.expiresAt <= j.expiresAt

CredentialsOK ==
    \A c \in CredentialIds : credentials[c] # NoPayload => Fits(credentials[c])

LeasesOK == \A l \in LeaseIds : leases[l] # NoLease => Lapses(leases[l])

\* What a handler has read is the projection it writes, but for its status and
\* its records.
JobOK(j) ==
    /\ j.pc = "project" => j.copy.status = "active" /\ Within(j.copy)
    /\ j.pc \notin {"revoke", "exchange", "issue"} => j.projection = None
    /\ j.pc \in {"revoke", "exchange", "issue"} =>
          /\ j.projection \in ProjectionIds
          /\ projections[j.projection].status # "none"
          /\ j.copy.status # "none"
          /\ j.copy.ref = projections[j.projection].ref
          /\ j.copy.expiresAt = projections[j.projection].expiresAt
    /\ j.pc \in {"exchange", "issue"} => j.nonce \in Nonces
    /\ j.pc = "issue" => /\ j.copy.status = "active"
                         /\ j.version <= missions[j.copy.ref].version
                         /\ j.expiresAt <= j.copy.expiresAt
    /\ j.pc \in {"lease", "refresh", "extend"} => Lapses(j.lease)
    /\ j.pc \in {"refresh", "extend"} => j.leaseId \in LeaseIds

JobsOK == \A p \in Handlers : JobOK(job[p])

Sound == MissionsOK /\ ProjectionsOK /\ CredentialsOK /\ LeasesOK /\ JobsOK

(***************************************************************************)
(* Projections whose requests never overlapped.  Every credential has its  *)
(* record, and the one handler at work holds the row as it is stored.      *)
(***************************************************************************)
HeldAlone(i) ==
    /\ \A p \in Handlers : job[p].projection = i =>
          /\ job[p].copy = projections[i]
          /\ job[p].pc \in {"exchange", "issue"} =>
                ~projectionExchangeNonceUsed(projections[i], job[p].nonce)
    /\ \A p, q \in Handlers : job[p].projection = i /\ job[q].projection = i => p = q

Recorded(i) ==
    /\ \A c \in CredentialIds : credentials[c].projection = i =>
          \E rec \in projections[i].records : /\ rec.id = c
                                              /\ rec.nonce = credentials[c].nonce
    /\ \A c, d \in CredentialIds :
          (/\ credentials[c].projection = i /\ credentials[d].projection = i
           /\ credentials[c].nonce = credentials[d].nonce) => c = d

Alone == \A i \in ProjectionIds \ shared : HeldAlone(i) /\ Recorded(i)

Inv == TypeOK /\ Sound /\ Alone

\* What no step takes back.
Grows ==
    /\ \A i \in ProjectionIds : projections[i].status # "none" =>
          /\ projections'[i].status # "none"
          /\ projections'[i].ref = projections[i].ref
          /\ projections'[i].expiresAt = projections[i].expiresAt
    /\ \A r \in Refs : missions'[r].version >= missions[r].version
    /\ \A l \in Leases : Lapses(l) => Lapses(l)'

-----------------------------------------------------------------------------
(* Expiries.                                                               *)

\* A lifetime that starts now and ends with the mission.
LEMMA BoundedExpiry ==
  ASSUME now \in Nat, NEW ttl \in Nat, NEW default \in Nat, NEW r \in Refs
  PROVE  /\ boundedExpiry(ttl, default, r) \in Nat
         /\ boundedExpiry(ttl, default, r) <= now + (IF ttl = 0 THEN default ELSE ttl)
         /\ WindowOf[r].expiresAt # 0 =>
               boundedExpiry(ttl, default, r) <= WindowOf[r].expiresAt
<1> DEFINE end == now + (IF ttl = 0 THEN default ELSE ttl)
           ends == {end} \cup ({WindowOf[r].expiresAt} \ {0})
<1>1. WindowOf[r].expiresAt \in Nat
  BY BrokerAssumption
<1>2. ends \in SUBSET Nat /\ end \in ends
  BY <1>1
<1>3. Min(ends) \in ends /\ \A m \in ends : Min(ends) <= m
  BY <1>2, MinOfNaturals
<1>4. boundedExpiry(ttl, default, r) = Min(ends)
  BY DEF boundedExpiry
<1> QED BY <1>1, <1>2, <1>3, <1>4

\* The smaller of two numbers.
LEMMA MinOfTwo ==
  ASSUME NEW a \in Nat, NEW b \in Nat
  PROVE  Min({a, b}) \in Nat /\ Min({a, b}) <= a /\ Min({a, b}) <= b
  BY MinOfNaturals

\* A lease is never given for longer than MaxLeaseTTL.
LEMMA LeaseExpiryBound ==
  ASSUME now \in Nat, NEW ttl \in RequestedTTLs, NEW r \in Refs
  PROVE  LeaseExpiry(ttl, r) \in Nat /\ LeaseExpiry(ttl, r) <= now + MaxLeaseTTL
<1>1. ttl \in Nat /\ LeaseTTL \in Nat /\ MaxLeaseTTL \in Nat /\ LeaseTTL <= MaxLeaseTTL
  BY BrokerAssumption
<1>2. PICK t \in Nat : t = Min({ttl, MaxLeaseTTL}) /\ t <= MaxLeaseTTL
  BY <1>1, MinOfTwo
<1>3. LeaseExpiry(ttl, r) = boundedExpiry(t, LeaseTTL, r)
  BY <1>2 DEF LeaseExpiry
<1>4. /\ boundedExpiry(t, LeaseTTL, r) \in Nat
      /\ boundedExpiry(t, LeaseTTL, r) <= now + (IF t = 0 THEN LeaseTTL ELSE t)
  BY <1>1, BoundedExpiry
<1> QED BY <1>1, <1>2, <1>3, <1>4

\* A projection ends with its mission.
LEMMA ProjectionExpiryBound ==
  ASSUME now \in Nat, NEW ttl \in RequestedTTLs, NEW r \in Refs
  PROVE  /\ boundedExpiry(ttl, ProjectionTTL, r) \in Nat
         /\ WindowOf[r].expiresAt # 0 =>
               boundedExpiry(ttl, ProjectionTTL, r) <= WindowOf[r].expiresAt
<1>1. ttl \in Nat /\ ProjectionTTL \in Nat
  BY BrokerAssumption
<1> QED BY <1>1, BoundedExpiry

\* A credential ends with the projection it was exchanged for.
LEMMA CredentialExpiryBound ==
  ASSUME now \in Nat, NEW ttl \in RequestedTTLs, NEW j \in Projections, j.ref \in Refs
  PROVE  /\ boundedBrokerExpiry(ttl, j) \in Nat
         /\ boundedBrokerExpiry(ttl, j) <= j.expiresAt
<1>1. ttl \in Nat /\ CredentialTTL \in Nat /\ MaxCredentialTTL \in Nat
  BY BrokerAssumption
<1>2. PICK t \in Nat : t = Min({ttl, MaxCredentialTTL})
  BY <1>1, MinOfTwo
<1>3. PICK e \in Nat : e = boundedExpiry(t, CredentialTTL, j.ref)
  BY <1>1, BoundedExpiry
<1>4. boundedBrokerExpiry(ttl, j) = Min({e, j.expiresAt})
  BY <1>2, <1>3 DEF boundedBrokerExpiry
<1>5. j.expiresAt \in Nat
  BY DEF Projections
<1> QED BY <1>4, <1>5, MinOfTwo

-----------------------------------------------------------------------------
(* Missions and the clock move on.                                         *)

\* The contract advances one mission by one version.
LEMMA MissionMoves ==
  ASSUME MissionsOK, Missions!Next
  PROVE  \E r \in Refs : \E row \in MissionRows :
            /\ missions' = [missions EXCEPT ![r] = row]
            /\ row.version = missions[r].version + 1
<1>1. PICK r \in Refs : \/ Missions!Create(r) \/ Missions!Grant(r)
                        \/ Missions!Suspend(r) \/ Missions!Close(r)
  BY DEF Missions!Next
<1>2. missions[r] \in MissionRows
  BY DEF MissionsOK
<1>3. \E s \in {"active", "suspended"} \cup Missions!Final, a \in SUBSET Actions :
          Missions!Write(r, s, a)
  BY <1>1, <1>2 DEF MissionRows, Missions!Create, Missions!Grant, Missions!Suspend,
     Missions!Close
<1>4. PICK s \in {"active", "suspended"} \cup Missions!Final, a \in SUBSET Actions :
          missions' = [missions EXCEPT ![r] =
              [state |-> s, version |-> missions[r].version + 1, authority |-> a]]
  BY <1>3 DEF Missions!Write
<1>5. [state |-> s, version |-> missions[r].version + 1, authority |-> a] \in MissionRows
  BY <1>2 DEF MissionRows
<1> QED BY <1>4, <1>5

\* A version that ends leaves the time at which it ended.
LEMMA MissionGrows ==
  ASSUME Inv, MissionStep
  PROVE  Grows /\ MissionsOK'
<1>1. PICK r \in Refs, row \in MissionRows :
            /\ missions' = [missions EXCEPT ![r] = row]
            /\ row.version = missions[r].version + 1
  BY MissionMoves DEF Inv, Sound, MissionStep
<1>2. /\ missions \in [Refs -> MissionRows] /\ missions' \in [Refs -> MissionRows]
      /\ missions'[r] = row
      /\ \A u \in Refs : u # r => missions'[u] = missions[u]
  BY <1>1 DEF Inv, Sound, MissionsOK
<1>3. \A u \in Refs : /\ missions[u].version \in Nat /\ missions'[u].version \in Nat
                      /\ missions[u].version <= MaxVersion
                      /\ missions'[u].version <= MaxVersion
                      /\ endedAt[u] \in [1..MaxVersion -> Nat]
  BY <1>2 DEF MissionRows, MissionStep, Inv, Sound, MissionsOK
<1>4. \A u \in Refs : missions'[u].version >= missions[u].version
  BY <1>1, <1>2, <1>3
<1>5. /\ now \in Nat /\ MaxVersion \in Nat /\ MaxLeaseTTL \in Nat
      /\ UNCHANGED <<now, rows, shared, job>>
  BY BrokerAssumption DEF Inv, TypeOK, MissionStep
<1>6. \A u \in Refs : \A v \in 1..MaxVersion :
          endedAt'[u][v] = IF /\ missions[u].state = "active" /\ missions[u].version = v
                              /\ missions'[u] # missions[u]
                           THEN now ELSE endedAt[u][v]
  BY DEF MissionStep
<1>7. endedAt' \in [Refs -> [1..MaxVersion -> Nat]]
  BY <1>3, <1>5 DEF MissionStep
<1>8. ASSUME NEW l \in Leases, Lapses(l) PROVE Lapses(l)'
  <2>1. PICK u, v, e : u = l.ref /\ v = l.version /\ e = l.expiresAt
    OBVIOUS
  <2>2. /\ u \in Refs /\ v \in 1..missions[u].version /\ v \in 1..MaxVersion
        /\ e \in Nat /\ v \in 1..missions'[u].version
    BY <1>3, <1>4, <1>5, <1>8, <2>1 DEF Lapses, Leases
  <2>3. IF missions[u].state = "active" /\ missions[u].version = v
        THEN e <= now + MaxLeaseTTL ELSE e <= endedAt[u][v] + MaxLeaseTTL
    BY <1>8, <2>1 DEF Lapses
  <2>4. CASE u # r
    BY <1>2, <1>5, <1>6, <1>8, <2>1, <2>2, <2>4 DEF Lapses
  <2>5. CASE u = r
    <3>1. missions'[u].version # v /\ missions'[u] # missions[u]
      BY <1>1, <1>2, <1>3, <2>2, <2>5
    <3>2. e <= endedAt'[u][v] + MaxLeaseTTL
      BY <1>6, <2>2, <2>3, <3>1
    <3> QED BY <2>1, <2>2, <3>1, <3>2 DEF Lapses
  <2> QED BY <2>4, <2>5
<1>9. Grows
  BY <1>4, <1>5, <1>8 DEF Grows, rows
<1>10. \A u \in Refs : missions'[u].state = "active" => missions'[u].version >= 1
  BY <1>1, <1>2, <1>3 DEF Inv, Sound, MissionsOK
<1> QED BY <1>2, <1>3, <1>7, <1>9, <1>10 DEF MissionsOK

\* Time passes.
LEMMA TickGrows ==
  ASSUME Inv, Tick
  PROVE  Grows /\ MissionsOK'
<1>1. /\ UNCHANGED <<missions, endedAt, rows>> /\ now \in Nat /\ now' = now + 1
      /\ MaxLeaseTTL \in Nat
  BY BrokerAssumption DEF Tick, Inv, TypeOK
<1>2. \A r \in Refs : missions[r].version \in Nat
  BY DEF Inv, Sound, MissionsOK, MissionRows
<1>3. ASSUME NEW l \in Leases, Lapses(l) PROVE Lapses(l)'
  BY <1>1, <1>3 DEF Lapses, Leases
<1> QED BY <1>1, <1>2, <1>3 DEF Grows, rows, Inv, Sound, MissionsOK

-----------------------------------------------------------------------------
(* What the other rows keep while the missions, the clock and the          *)
(* projections move on.                                                    *)

\* A store call of the broker: the missions and the clock stand still and no
\* projection is given another mission or another end.
LEMMA StoreCallGrows ==
  ASSUME Inv, UNCHANGED <<now, missions, endedAt>>,
         \A i \in ProjectionIds : projections[i].status # "none" =>
            /\ projections'[i].status # "none"
            /\ projections'[i].ref = projections[i].ref
            /\ projections'[i].expiresAt = projections[i].expiresAt
  PROVE  Grows /\ MissionsOK'
<1>1. \A l \in Leases : Lapses(l) => Lapses(l)'
  BY DEF Lapses
<1>2. \A r \in Refs : missions[r].version \in Nat
  BY DEF Inv, Sound, MissionsOK, MissionRows
<1>3. MissionsOK'
  BY DEF Inv, Sound, MissionsOK
<1> QED BY <1>1, <1>2, <1>3 DEF Grows

\* Leases that are not written stay sound.
LEMMA LeasesGrow ==
  ASSUME Inv, Grows, leases' = leases
  PROVE  LeasesOK'
<1>1. ASSUME NEW l \in LeaseIds, leases[l] # NoLease
      PROVE  Lapses(leases[l])'
  <2>1. PICK k \in Leases : k = leases[l] /\ k = leases'[l]
    BY DEF Inv, TypeOK
  <2>2. Lapses(k)
    BY <1>1, <2>1 DEF Inv, Sound, LeasesOK
  <2>3. Lapses(k)'
    BY <2>2 DEF Grows
  <2> QED BY <2>1, <2>3 DEF Lapses
<1> QED BY <1>1 DEF LeasesOK

\* A credential stays sound.
LEMMA CredentialGrows ==
  ASSUME Inv, Grows, MissionsOK', NEW k \in Payloads, Fits(k)
  PROVE  Fits(k)'
<1> DEFINE i == k.projection
<1>1. /\ i \in ProjectionIds /\ projections[i].status # "none"
      /\ k.version <= missions[projections[i].ref].version
      /\ k.expiresAt <= projections[i].expiresAt
  BY DEF Fits
<1>2. /\ projections'[i].status # "none"
      /\ projections'[i].ref = projections[i].ref
      /\ projections'[i].expiresAt = projections[i].expiresAt
  BY <1>1 DEF Grows
<1>3. projections[i].ref \in Refs
  BY <1>1 DEF Inv, Sound, ProjectionsOK, Within
<1>4. /\ missions[projections[i].ref].version \in Nat
      /\ missions'[projections[i].ref].version \in Nat
      /\ missions'[projections[i].ref].version >= missions[projections[i].ref].version
  BY <1>3 DEF Inv, Sound, MissionsOK, MissionRows, Grows
<1>5. k.version \in Nat
  BY DEF Payloads
<1>6. k.version <= missions'[projections'[i].ref].version
  BY <1>1, <1>2, <1>4, <1>5
<1> QED BY <1>1, <1>2, <1>6 DEF Fits

\* Credentials that are not written stay sound.
LEMMA CredentialsGrow ==
  ASSUME Inv, Grows, MissionsOK', credentials' = credentials
  PROVE  CredentialsOK'
<1>1. ASSUME NEW c \in CredentialIds, credentials[c] # NoPayload
      PROVE  Fits(credentials[c])'
  <2>1. PICK k \in Payloads : k = credentials[c] /\ k = credentials'[c]
    BY DEF Inv, TypeOK
  <2>2. Fits(k)
    BY <1>1, <2>1 DEF Inv, Sound, CredentialsOK
  <2>3. Fits(k)'
    BY <2>2, CredentialGrows
  <2> QED BY <2>1, <2>3 DEF Fits
<1> QED BY <1>1 DEF CredentialsOK

\* What a handler has read stays as good as it was.
LEMMA JobGrows ==
  ASSUME Inv, Grows, MissionsOK', ProjectionsOK', NEW k \in Jobs, JobOK(k)
  PROVE  JobOK(k)'
<1> DEFINE i == k.projection
<1>1. k.pc \in {"revoke", "exchange", "issue"} =>
          /\ i \in ProjectionIds /\ projections[i].status # "none"
          /\ projections'[i].status # "none"
          /\ projections'[i].ref = projections[i].ref
          /\ projections'[i].expiresAt = projections[i].expiresAt
          /\ k.copy.status # "none"
          /\ k.copy.ref = projections[i].ref
          /\ k.copy.expiresAt = projections[i].expiresAt
          /\ projections[i].ref \in Refs
  BY DEF JobOK, Grows, Inv, Sound, ProjectionsOK, Within
<1>2. k.pc = "issue" => k.version <= missions'[k.copy.ref].version
  <2>1. HAVE k.pc = "issue"
  <2>2. k.copy.ref \in Refs /\ k.version <= missions[k.copy.ref].version /\ k.version \in Nat
    BY <1>1, <2>1 DEF JobOK, Jobs
  <2>3. /\ missions[k.copy.ref].version \in Nat /\ missions'[k.copy.ref].version \in Nat
        /\ missions'[k.copy.ref].version >= missions[k.copy.ref].version
    BY <2>2 DEF Inv, Sound, MissionsOK, MissionRows, Grows
  <2> QED BY <2>2, <2>3
<1>3. k.pc \in {"lease", "refresh", "extend"} => Lapses(k.lease)'
  <2>1. k.lease \in Leases
    BY DEF Jobs
  <2> QED BY <2>1 DEF JobOK, Grows
<1>4. k.pc = "project" => Within(k.copy)'
  BY DEF JobOK, Within
<1> QED BY <1>1, <1>2, <1>3, <1>4 DEF JobOK

\* A step of handler h leaves every handler with a sound job when the one it
\* gives to h is.
LEMMA JobStep ==
  ASSUME Inv, Grows, MissionsOK', ProjectionsOK',
         NEW h \in Handlers, NEW k \in Jobs, job' = [job EXCEPT ![h] = k], JobOK(k)'
  PROVE  job' \in [Handlers -> Jobs] /\ JobsOK'
<1>1. job' \in [Handlers -> Jobs]
  BY DEF Inv, TypeOK
<1>2. ASSUME NEW p \in Handlers
      PROVE  (JobOK(job[p]))'
  <2>1. CASE p = h
    <3>1. job'[p] = k
      BY <2>1 DEF Inv, TypeOK
    <3> QED BY <3>1 DEF JobOK, Lapses, Within
  <2>2. CASE p # h
    <3>1. PICK j \in Jobs : j = job[p] /\ j = job'[p]
      BY <2>2 DEF Inv, TypeOK
    <3>2. JobOK(j)
      BY <3>1 DEF Inv, Sound, JobsOK
    <3>3. JobOK(j)'
      BY <3>2, JobGrows
    <3> QED BY <3>1, <3>3 DEF JobOK, Lapses, Within
  <2> QED BY <2>1, <2>2
<1> QED BY <1>1, <1>2 DEF JobsOK

\* A step that leaves all jobs alone.
LEMMA JobsGrow ==
  ASSUME Inv, Grows, MissionsOK', ProjectionsOK', job' = job
  PROVE  JobsOK'
<1>1. ASSUME NEW p \in Handlers
      PROVE  (JobOK(job[p]))'
  <2>1. PICK j \in Jobs : j = job[p] /\ j = job'[p]
    BY DEF Inv, TypeOK
  <2>2. JobOK(j)
    BY <2>1 DEF Inv, Sound, JobsOK
  <2>3. JobOK(j)'
    BY <2>2, JobGrows
  <2> QED BY <2>1, <2>3 DEF JobOK, Lapses, Within
<1> QED BY <1>1 DEF JobsOK

\* A handler without a request.
LEMMA IdleJob ==
  Idle \in Jobs /\ (Inv => JobOK(Idle)')
<1>1. Idle \in Jobs
  BY DEF Idle, Jobs, Steps, NoProjection, Projections, NoLease, Leases
<1>2. Idle.pc = "idle" /\ Idle.projection = None
  BY DEF Idle
<1>3. JobOK(Idle)'
  BY <1>2 DEF JobOK
<1> QED BY <1>1, <1>3

-----------------------------------------------------------------------------
(* Steps that write no row.                                                *)

\* A handler reads and goes on with a sound job.
LEMMA ReadStep ==
  ASSUME Inv, UNCHANGED <<now, missions, endedAt, rows>>, shared' \subseteq ProjectionIds,
         NEW h \in Handlers, NEW k \in Jobs, job' = [job EXCEPT ![h] = k], JobOK(k)
  PROVE  TypeOK' /\ Sound'
<1>1. Grows /\ MissionsOK'
  BY StoreCallGrows DEF rows
<1>2. ProjectionsOK'
  BY DEF Inv, Sound, ProjectionsOK, Within, rows
<1>3. JobOK(k)'
  BY <1>1, <1>2, JobGrows
<1>4. job' \in [Handlers -> Jobs] /\ JobsOK'
  BY <1>1, <1>2, <1>3, JobStep
<1>5. CredentialsOK' /\ LeasesOK'
  BY <1>1, CredentialsGrow, LeasesGrow DEF rows
<1>6. TypeOK'
  BY <1>4 DEF Inv, TypeOK, rows
<1> QED BY <1>1, <1>2, <1>4, <1>5, <1>6 DEF Sound

\* It is alone on its projection as before, or on none.
LEMMA ReadAlone ==
  ASSUME Inv, UNCHANGED rows, shared' = shared,
         NEW h \in Handlers, NEW k, job' = [job EXCEPT ![h] = k],
         \/ k.projection = None
         \/ /\ k.projection = job[h].projection /\ k.copy = job[h].copy
            /\ k.nonce = job[h].nonce /\ job[h].pc \in {"exchange", "issue"}
  PROVE  Alone'
<1>1. /\ None \notin ProjectionIds
      /\ projections' = projections /\ credentials' = credentials
      /\ job'[h] = k /\ \A p \in Handlers : p # h => job'[p] = job[p]
  BY BrokerAssumption DEF rows, Inv, TypeOK
<1>2. ASSUME NEW i \in ProjectionIds, i \notin shared
      PROVE  HeldAlone(i)' /\ Recorded(i)'
  <2>1. HeldAlone(i) /\ Recorded(i)
    BY <1>2 DEF Inv, Alone
  <2>2. Recorded(i)'
    BY <1>1, <2>1 DEF Recorded
  <2>3. \A p \in Handlers : job'[p].projection = i =>
          /\ job[p].projection = i /\ job'[p].copy = job[p].copy
          /\ job'[p].nonce = job[p].nonce
          /\ job'[p].pc \in {"exchange", "issue"} => job[p].pc \in {"exchange", "issue"}
    BY <1>1
  <2>4. HeldAlone(i)'
    BY <1>1, <2>1, <2>3 DEF HeldAlone, projectionExchangeNonceUsed
  <2> QED BY <2>2, <2>4
<1> QED BY <1>2 DEF Alone

\* A handler gives up or is done.
LEMMA RefuseStep ==
  ASSUME Inv, NEW h \in Handlers, Refuse(h)
  PROVE  Inv'
<1>1. PICK k : k = Idle
  OBVIOUS
<1>2. /\ k \in Jobs /\ k.projection = None /\ JobOK(k)
  BY <1>1 DEF Idle, JobOK, Jobs, Steps, NoProjection, Projections, NoLease, Leases
<1>3. /\ UNCHANGED <<now, missions, endedAt, rows, shared>>
      /\ job' = [job EXCEPT ![h] = k]
  BY <1>1 DEF Refuse, Finish
<1>4. shared' \subseteq ProjectionIds
  BY <1>3 DEF Inv, TypeOK
<1>5. TypeOK' /\ Sound'
  BY <1>2, <1>3, <1>4, ReadStep
<1>6. Alone'
  BY <1>2, <1>3, ReadAlone
<1> QED BY <1>5, <1>6 DEF Inv

\* CreateProjection fixes what it will write.
LEMMA CreateProjectionStep ==
  ASSUME Inv, NEW h \in Handlers, NEW r \in Refs, NEW ttl \in RequestedTTLs,
         CreateProjection(h, r, ttl)
  PROVE  Inv'
<1>1. PICK e \in Nat : /\ e = boundedExpiry(ttl, ProjectionTTL, r)
                       /\ WindowOf[r].expiresAt # 0 => e <= WindowOf[r].expiresAt
  BY ProjectionExpiryBound DEF Inv, TypeOK
<1>2. PICK k : k = [Idle EXCEPT !.pc = "project",
                      !.copy = [status |-> "active", ref |-> r,
                                version |-> missions[r].version,
                                expiresAt |-> e, records |-> {}]]
  OBVIOUS
<1>3. /\ UNCHANGED <<now, missions, endedAt, rows, shared>>
      /\ job' = [job EXCEPT ![h] = k]
  BY <1>1, <1>2 DEF CreateProjection, Begin
<1>4. missions[r].version \in Nat
  BY DEF Inv, Sound, MissionsOK, MissionRows
<1>5. /\ k \in Jobs /\ k.projection = None /\ k.pc = "project"
      /\ k.copy.status = "active" /\ k.copy.ref = r /\ k.copy.expiresAt = e
  BY <1>2, <1>4 DEF Idle, Jobs, Steps, NoProjection, Projections, Status, NoLease, Leases
<1>6. JobOK(k)
  BY <1>1, <1>5 DEF JobOK, Within
<1>7. shared' \subseteq ProjectionIds
  BY <1>3 DEF Inv, TypeOK
<1>8. TypeOK' /\ Sound'
  BY <1>3, <1>5, <1>6, <1>7, ReadStep
<1>9. Alone'
  BY <1>3, <1>5, ReadAlone
<1> QED BY <1>8, <1>9 DEF Inv

\* CreateMissionLease does.
LEMMA CreateMissionLeaseStep ==
  ASSUME Inv, NEW h \in Handlers, NEW r \in Refs, NEW ttl \in RequestedTTLs,
         CreateMissionLease(h, r, ttl)
  PROVE  Inv'
<1>1. PICK e \in Nat : e = LeaseExpiry(ttl, r) /\ e <= now + MaxLeaseTTL
  BY LeaseExpiryBound DEF Inv, TypeOK
<1>2. PICK k : k = [Idle EXCEPT !.pc = "lease",
                      !.lease = [ref |-> r, version |-> missions[r].version,
                                 expiresAt |-> e]]
  OBVIOUS
<1>3. /\ UNCHANGED <<now, missions, endedAt, rows, shared>>
      /\ job' = [job EXCEPT ![h] = k]
      /\ missions[r].state = "active"
  BY <1>1, <1>2 DEF CreateMissionLease, Begin, ensureMissionUsable
<1>4. missions[r].version \in Nat /\ missions[r].version >= 1
  BY <1>3 DEF Inv, Sound, MissionsOK, MissionRows
<1>5. /\ k \in Jobs /\ k.projection = None /\ k.pc = "lease"
      /\ k.lease.ref = r /\ k.lease.version = missions[r].version /\ k.lease.expiresAt = e
  BY <1>2, <1>4 DEF Idle, Jobs, Steps, NoProjection, Projections, NoLease, Leases
<1>6. JobOK(k)
  <2>1. Lapses(k.lease)
    BY <1>1, <1>3, <1>4, <1>5 DEF Lapses
  <2> QED BY <1>5, <2>1 DEF JobOK
<1>7. shared' \subseteq ProjectionIds
  BY <1>3 DEF Inv, TypeOK
<1>8. TypeOK' /\ Sound'
  BY <1>3, <1>5, <1>6, <1>7, ReadStep
<1>9. Alone'
  BY <1>3, <1>5, ReadAlone
<1> QED BY <1>8, <1>9 DEF Inv

\* RefreshMissionLease reads the lease.
LEMMA RefreshMissionLeaseStep ==
  ASSUME Inv, NEW h \in Handlers, NEW l \in LeaseIds, RefreshMissionLease(h, l)
  PROVE  Inv'
<1>1. PICK k : k = [Idle EXCEPT !.pc = "refresh", !.leaseId = l, !.lease = leases[l]]
  OBVIOUS
<1>2. /\ UNCHANGED <<now, missions, endedAt, rows, shared>>
      /\ job' = [job EXCEPT ![h] = k]
      /\ leases[l] # NoLease /\ leases[l] \in Leases
  BY <1>1 DEF RefreshMissionLease, Begin, Inv, TypeOK
<1>3. /\ k \in Jobs /\ k.projection = None /\ k.pc = "refresh"
      /\ k.lease = leases[l] /\ k.leaseId = l
  BY <1>1, <1>2 DEF Idle, Jobs, Steps, NoProjection, Projections
<1>4. JobOK(k)
  <2>1. Lapses(k.lease)
    BY <1>2, <1>3 DEF Inv, Sound, LeasesOK
  <2> QED BY <1>3, <2>1 DEF JobOK
<1>5. shared' \subseteq ProjectionIds
  BY <1>2 DEF Inv, TypeOK
<1>6. TypeOK' /\ Sound'
  BY <1>2, <1>3, <1>4, <1>5, ReadStep
<1>7. Alone'
  BY <1>2, <1>3, ReadAlone
<1> QED BY <1>6, <1>7 DEF Inv

\* It reads the mission and fixes the new end.
LEMMA ReadMissionToRefreshStep ==
  ASSUME Inv, NEW h \in Handlers, NEW ttl \in RequestedTTLs, ReadMissionToRefresh(h, ttl)
  PROVE  Inv'
<1>1. PICK j \in Jobs : j = job[h] /\ JobOK(j)
  BY DEF Inv, TypeOK, Sound, JobsOK
<1>2. /\ j.pc = "refresh" /\ Lapses(j.lease) /\ j.lease.ref \in Refs
      /\ j.leaseId \in LeaseIds /\ j.projection = None
  BY <1>1 DEF ReadMissionToRefresh, JobOK, Lapses
<1>3. PICK e \in Nat : e = LeaseExpiry(ttl, j.lease.ref) /\ e <= now + MaxLeaseTTL
  BY <1>2, LeaseExpiryBound DEF Inv, TypeOK
<1>4. PICK k : k = [j EXCEPT !.pc = "extend", !.lease.expiresAt = e]
  OBVIOUS
<1>5. /\ UNCHANGED <<now, missions, endedAt, rows, shared>>
      /\ missions[j.lease.ref].state = "active"
      /\ missions[j.lease.ref].version = j.lease.version
  BY <1>1 DEF ReadMissionToRefresh, ensureMissionUsable
<1>6. job' = [job EXCEPT ![h] = k]
  BY <1>1, <1>3, <1>4 DEF ReadMissionToRefresh, Inv, TypeOK, Jobs
<1>7. /\ k \in Jobs /\ k.projection = None /\ k.pc = "extend" /\ k.leaseId \in LeaseIds
      /\ k.lease.ref = j.lease.ref /\ k.lease.version = j.lease.version
      /\ k.lease.expiresAt = e
  BY <1>2, <1>4 DEF Jobs, Steps, Leases
<1>8. JobOK(k)
  <2>1. Lapses(k.lease)
    BY <1>2, <1>3, <1>5, <1>7 DEF Lapses
  <2> QED BY <1>7, <2>1 DEF JobOK
<1>9. shared' \subseteq ProjectionIds
  BY <1>5 DEF Inv, TypeOK
<1>10. TypeOK' /\ Sound'
  BY <1>5, <1>6, <1>7, <1>8, <1>9, ReadStep
<1>11. Alone'
  BY <1>5, <1>6, <1>7, ReadAlone
<1> QED BY <1>10, <1>11 DEF Inv

\* An exchange reads the mission and fixes the token.
LEMMA ReadMissionToExchangeStep ==
  ASSUME Inv, NEW h \in Handlers, NEW ttl \in RequestedTTLs, ReadMissionToExchange(h, ttl)
  PROVE  Inv'
<1>1. PICK j \in Jobs : j = job[h] /\ JobOK(j)
  BY DEF Inv, TypeOK, Sound, JobsOK
<1>2. /\ j.pc = "exchange" /\ j.projection \in ProjectionIds /\ j.nonce \in Nonces
      /\ projections[j.projection].status # "none" /\ j.copy.status # "none"
      /\ j.copy.ref = projections[j.projection].ref
      /\ j.copy.expiresAt = projections[j.projection].expiresAt
      /\ j.copy \in Projections
  BY <1>1 DEF ReadMissionToExchange, JobOK, Jobs
<1>3. j.copy.ref \in Refs
  BY <1>2 DEF Inv, Sound, ProjectionsOK, Within
<1>4. PICK e \in Nat : e = boundedBrokerExpiry(ttl, j.copy) /\ e <= j.copy.expiresAt
  BY <1>2, <1>3, CredentialExpiryBound DEF Inv, TypeOK
<1>5. PICK v \in Nat : v = missions[j.copy.ref].version
  BY <1>3 DEF Inv, Sound, MissionsOK, MissionRows
<1>6. PICK k : k = [j EXCEPT !.pc = "issue", !.version = v, !.expiresAt = e]
  OBVIOUS
<1>7. /\ UNCHANGED <<now, missions, endedAt, rows, shared>>
      /\ j.copy.status # "revoked"
  BY <1>1 DEF ReadMissionToExchange, validateProjectionForBroker
<1>8. job' = [job EXCEPT ![h] = k]
  BY <1>1, <1>4, <1>5, <1>6 DEF ReadMissionToExchange, Inv, TypeOK, Jobs
<1>9. /\ k \in Jobs /\ k.pc = "issue" /\ k.projection = j.projection /\ k.copy = j.copy
      /\ k.nonce = j.nonce /\ k.version = v /\ k.expiresAt = e
  BY <1>6 DEF Jobs, Steps
<1>10. j.copy.status = "active"
  BY <1>2, <1>7 DEF Projections, Status
<1>11. JobOK(k)
  BY <1>2, <1>4, <1>5, <1>9, <1>10 DEF JobOK
<1>12. shared' \subseteq ProjectionIds
  BY <1>7 DEF Inv, TypeOK
<1>13. TypeOK' /\ Sound'
  BY <1>7, <1>8, <1>9, <1>11, <1>12, ReadStep
<1>14. Alone'
  BY <1>1, <1>2, <1>7, <1>8, <1>9, ReadAlone
<1> QED BY <1>13, <1>14 DEF Inv

\* A request that begins to work on projection i holds its row; if another
\* works on it too, the projection is shared from now on.
LEMMA BeginAlone ==
  ASSUME Inv, NEW h \in Handlers, NEW i \in ProjectionIds, NEW k \in Jobs,
         BeginOn(h, i, k), k.projection = i, k.copy = projections[i],
         k.pc \in {"exchange", "issue"} =>
            ~projectionExchangeNonceUsed(projections[i], k.nonce)
  PROVE  Alone'
<1>1. /\ projections' = projections /\ credentials' = credentials
      /\ job'[h] = k /\ \A p \in Handlers : p # h => job'[p] = job[p]
      /\ shared \subseteq shared'
      /\ i \notin shared' => \A q \in Handlers : job[q].projection # i
  BY DEF rows, Inv, TypeOK, BeginOn, Begin
<1>2. ASSUME NEW m \in ProjectionIds, m \notin shared'
      PROVE  HeldAlone(m)' /\ Recorded(m)'
  <2>1. HeldAlone(m) /\ Recorded(m)
    BY <1>1, <1>2 DEF Inv, Alone
  <2>2. Recorded(m)'
    BY <1>1, <2>1 DEF Recorded
  <2>3. m = i => HeldAlone(m)'
    BY <1>1, <1>2 DEF HeldAlone, projectionExchangeNonceUsed
  <2>4. ASSUME m # i PROVE HeldAlone(m)'
    <3>1. \A p \in Handlers : job'[p].projection = m => job'[p] = job[p]
      BY <1>1, <2>4
    <3> QED BY <1>1, <2>1, <3>1 DEF HeldAlone, projectionExchangeNonceUsed
  <2> QED BY <2>2, <2>3, <2>4
<1> QED BY <1>2 DEF Alone

\* RevokeProjection reads the row.
LEMMA RevokeProjectionStep ==
  ASSUME Inv, NEW h \in Handlers, NEW i \in ProjectionIds, RevokeProjection(h, i)
  PROVE  Inv'
<1>1. PICK k : k = [Idle EXCEPT !.pc = "revoke", !.projection = i, !.copy = projections[i]]
  OBVIOUS
<1>2. /\ BeginOn(h, i, k) /\ projections[i].status = "active"
      /\ projections[i] \in Projections
  BY <1>1 DEF RevokeProjection, Inv, TypeOK
<1>3. k \in Jobs /\ k.pc = "revoke" /\ k.projection = i /\ k.copy = projections[i]
  BY <1>1, <1>2 DEF Idle, Jobs, Steps, NoLease, Leases
<1>4. JobOK(k)
  BY <1>2, <1>3 DEF JobOK
<1>5. /\ UNCHANGED <<now, missions, endedAt, rows>> /\ job' = [job EXCEPT ![h] = k]
      /\ shared' \subseteq ProjectionIds
  BY <1>2 DEF BeginOn, Begin, Inv, TypeOK
<1>6. TypeOK' /\ Sound'
  BY <1>3, <1>4, <1>5, ReadStep
<1>7. Alone'
  BY <1>2, <1>3, BeginAlone
<1> QED BY <1>6, <1>7 DEF Inv

\* ExchangeProjectionToken reads the row.
LEMMA ExchangeProjectionTokenStep ==
  ASSUME Inv, NEW h \in Handlers, NEW i \in ProjectionIds, NEW n \in Nonces,
         ExchangeProjectionToken(h, i, n)
  PROVE  Inv'
<1>1. PICK k : k = [Idle EXCEPT !.pc = "exchange", !.projection = i,
                                !.copy = projections[i], !.nonce = n]
  OBVIOUS
<1>2. /\ BeginOn(h, i, k) /\ projections[i].status # "none"
      /\ ~projectionExchangeNonceUsed(projections[i], n)
      /\ projections[i] \in Projections
  BY <1>1 DEF ExchangeProjectionToken, MayExchange, Inv, TypeOK
<1>3. /\ k \in Jobs /\ k.pc = "exchange" /\ k.projection = i /\ k.copy = projections[i]
      /\ k.nonce = n
  BY <1>1, <1>2 DEF Idle, Jobs, Steps, NoLease, Leases
<1>4. JobOK(k)
  BY <1>2, <1>3 DEF JobOK
<1>5. /\ UNCHANGED <<now, missions, endedAt, rows>> /\ job' = [job EXCEPT ![h] = k]
      /\ shared' \subseteq ProjectionIds
  BY <1>2 DEF BeginOn, Begin, Inv, TypeOK
<1>6. TypeOK' /\ Sound'
  BY <1>3, <1>4, <1>5, ReadStep
<1>7. Alone'
  BY <1>2, <1>3, BeginAlone
<1> QED BY <1>6, <1>7 DEF Inv

-----------------------------------------------------------------------------
(* Steps that write a row.                                                 *)

\* A handler that has written projection i is done.  The row keeps its mission
\* and its end if it had one.
LEMMA WriteProjection ==
  ASSUME Inv, NEW h \in Handlers, NEW i \in ProjectionIds, NEW j \in Projections,
         projections' = [projections EXCEPT ![i] = j],
         projections[i].status # "none" =>
            j.ref = projections[i].ref /\ j.expiresAt = projections[i].expiresAt,
         j.status # "none", Within(j),
         UNCHANGED <<now, missions, endedAt, leases, shared>>, Finish(h)
  PROVE  /\ Grows /\ MissionsOK' /\ ProjectionsOK' /\ LeasesOK' /\ JobsOK'
         /\ projections' \in [ProjectionIds -> Projections]
         /\ job' \in [Handlers -> Jobs]
<1>1. /\ projections' \in [ProjectionIds -> Projections] /\ projections'[i] = j
      /\ \A m \in ProjectionIds : m # i => projections'[m] = projections[m]
  BY DEF Inv, TypeOK
<1>2. Grows /\ MissionsOK'
  BY <1>1, StoreCallGrows
<1>3. ProjectionsOK'
  BY <1>1 DEF ProjectionsOK, Within, Inv, Sound
<1>4. LeasesOK'
  BY <1>2, LeasesGrow
<1>5. PICK k : k = Idle
  OBVIOUS
<1>6. k \in Jobs /\ JobOK(k)'
  BY <1>5 DEF Idle, JobOK, Jobs, Steps, NoProjection, Projections, NoLease, Leases
<1>7. job' = [job EXCEPT ![h] = k]
  BY <1>5 DEF Finish
<1>8. job' \in [Handlers -> Jobs] /\ JobsOK'
  BY <1>2, <1>3, <1>6, <1>7, JobStep
<1> QED BY <1>1, <1>2, <1>3, <1>4, <1>8

\* The new projection of CreateProjection.
LEMMA SaveProjectionStep ==
  ASSUME Inv, NEW h \in Handlers, SaveProjection(h)
  PROVE  Inv'
<1>1. PICK j \in Projections : /\ j = job[h].copy /\ job[h].pc = "project"
                               /\ JobOK(job[h])
  BY DEF SaveProjection, Inv, TypeOK, Jobs, Sound, JobsOK
<1>2. j.status # "none" /\ Within(j) /\ job[h].projection = None
  BY <1>1 DEF JobOK
<1>3. PICK i \in ProjectionIds : /\ projections[i] = NoProjection
                                 /\ projections' = [projections EXCEPT ![i] = j]
  BY <1>1 DEF SaveProjection
<1>4. /\ UNCHANGED <<now, missions, endedAt, credentials, leases, shared>> /\ Finish(h)
  BY DEF SaveProjection
<1>5. projections[i].status = "none"
  BY <1>3 DEF NoProjection
<1>6. /\ Grows /\ MissionsOK' /\ ProjectionsOK' /\ LeasesOK' /\ JobsOK'
      /\ projections' \in [ProjectionIds -> Projections] /\ job' \in [Handlers -> Jobs]
  BY <1>2, <1>3, <1>4, <1>5, WriteProjection
<1>7. CredentialsOK'
  BY <1>4, <1>6, CredentialsGrow
<1>8. TypeOK'
  BY <1>4, <1>6 DEF Inv, TypeOK
<1>9. ASSUME NEW m \in ProjectionIds, m \notin shared
      PROVE  HeldAlone(m)' /\ Recorded(m)'
  <2>1. HeldAlone(m) /\ Recorded(m)
    BY <1>9 DEF Inv, Alone
  <2>2. /\ None \notin ProjectionIds /\ Idle.projection = None
        /\ job'[h] = Idle /\ \A p \in Handlers : p # h => job'[p] = job[p]
    BY <1>4, BrokerAssumption DEF Finish, Idle, Inv, TypeOK
  <2>3. \A p \in Handlers : job'[p].projection = m =>
            job'[p] = job[p] /\ projections[m].status # "none"
    <3>1. ASSUME NEW p \in Handlers, job'[p].projection = m
          PROVE  job'[p] = job[p] /\ projections[m].status # "none"
      <4>1. p # h /\ job'[p] = job[p]
        BY <2>2, <3>1
      <4>2. JobOK(job[p])
        BY DEF Inv, Sound, JobsOK
      <4> QED BY <2>2, <3>1, <4>1, <4>2 DEF JobOK
    <3> QED BY <3>1
  <2>4. \A c \in CredentialIds : credentials[c].projection = m =>
            projections[m].status # "none"
    <3>1. ASSUME NEW c \in CredentialIds, credentials[c].projection = m
          PROVE  projections[m].status # "none"
      <4>1. credentials[c] # NoPayload
        BY <2>2, <3>1 DEF NoPayload
      <4> QED BY <3>1, <4>1 DEF Inv, Sound, CredentialsOK, Fits
    <3> QED BY <3>1
  <2>5. projections[m].status # "none" => projections'[m] = projections[m]
    BY <1>3, <1>5 DEF Inv, TypeOK
  <2>6. HeldAlone(m)'
    BY <2>1, <2>2, <2>3, <2>5 DEF HeldAlone, projectionExchangeNonceUsed
  <2>7. Recorded(m)'
    BY <1>4, <2>1, <2>4, <2>5 DEF Recorded
  <2> QED BY <2>6, <2>7
<1>10. Alone'
  BY <1>4, <1>9 DEF Alone
<1> QED BY <1>6, <1>7, <1>8, <1>10 DEF Inv, Sound

\* What a handler at work on a projection holds.
LEMMA CopyFits ==
  ASSUME Inv, NEW h \in Handlers, job[h].pc \in {"revoke", "exchange", "issue"}
  PROVE  LET i == job[h].projection
             j == job[h].copy
         IN  /\ i \in ProjectionIds /\ j \in Projections
             /\ projections[i].status # "none" /\ j.status # "none"
             /\ j.ref = projections[i].ref /\ j.expiresAt = projections[i].expiresAt
             /\ Within(j)
             /\ i \notin shared => j = projections[i]
<1> DEFINE i == job[h].projection
           j == job[h].copy
<1>1. /\ i \in ProjectionIds /\ j \in Projections
      /\ projections[i].status # "none" /\ j.status # "none"
      /\ j.ref = projections[i].ref /\ j.expiresAt = projections[i].expiresAt
  <2>1. JobOK(job[h]) /\ job[h] \in Jobs
    BY DEF Inv, TypeOK, Sound, JobsOK
  <2> QED BY <2>1 DEF JobOK, Jobs
<1>2. Within(projections[i])
  BY <1>1 DEF Inv, Sound, ProjectionsOK
<1>3. Within(j)
  BY <1>1, <1>2 DEF Within
<1>4. i \notin shared => j = projections[i]
  BY <1>1 DEF Inv, Alone, HeldAlone
<1> QED BY <1>1, <1>3, <1>4

\* The handler at work on i has written its row and is done: nobody else worked
\* on an unshared i, and the other projections stand as they did.
LEMMA WriteAlone ==
  ASSUME Inv, NEW h \in Handlers, Finish(h), shared' = shared,
         \A m \in ProjectionIds : m # job[h].projection => projections'[m] = projections[m],
         NEW m \in ProjectionIds, m \notin shared
  PROVE  HeldAlone(m)'
<1>1. HeldAlone(m)
  BY DEF Inv, Alone
<1>2. /\ None \notin ProjectionIds /\ Idle.projection = None
      /\ job'[h] = Idle /\ \A p \in Handlers : p # h => job'[p] = job[p]
  BY BrokerAssumption DEF Finish, Idle, Inv, TypeOK
<1>3. \A p \in Handlers : job'[p].projection = m => p # h /\ job'[p] = job[p]
  BY <1>2
<1>4. CASE job[h].projection = m
  <2>1. \A p \in Handlers : job'[p].projection # m
    BY <1>1, <1>3, <1>4 DEF HeldAlone
  <2> QED BY <2>1 DEF HeldAlone
<1>5. CASE job[h].projection # m
  <2>1. projections'[m] = projections[m]
    BY <1>5
  <2> QED BY <1>1, <1>3, <2>1 DEF HeldAlone, projectionExchangeNonceUsed
<1> QED BY <1>4, <1>5

\* The records of a projection and the credentials of it are the same two lists.
LEMMA SameRecords ==
  ASSUME NEW m \in ProjectionIds, Recorded(m), credentials' = credentials,
         \A rec \in projections[m].records : \E new \in projections'[m].records :
            new.id = rec.id /\ new.nonce = rec.nonce
  PROVE  Recorded(m)'
<1>1. ASSUME NEW c \in CredentialIds, credentials[c].projection = m
      PROVE  \E rec \in projections'[m].records :
                rec.id = c /\ rec.nonce = credentials[c].nonce
  <2>1. PICK rec \in projections[m].records : rec.id = c /\ rec.nonce = credentials[c].nonce
    BY <1>1 DEF Recorded
  <2>2. PICK new \in projections'[m].records : new.id = rec.id /\ new.nonce = rec.nonce
    OBVIOUS
  <2> QED BY <2>1, <2>2
<1> QED BY <1>1 DEF Recorded

\* RevokeProjection writes its copy, revoked.
LEMMA SaveRevocationStep ==
  ASSUME Inv, NEW h \in Handlers, SaveRevocation(h)
  PROVE  Inv' /\ projections'[job[h].projection].status = "revoked"
<1>1. PICK i \in ProjectionIds, j \in Projections :
          /\ i = job[h].projection /\ j = job[h].copy
          /\ projections[i].status # "none" /\ j.status # "none"
          /\ j.ref = projections[i].ref /\ j.expiresAt = projections[i].expiresAt
          /\ Within(j)
          /\ i \notin shared => j = projections[i]
  BY CopyFits DEF SaveRevocation
<1>2. PICK new : new = Revoked(j)
  OBVIOUS
<1>3. /\ new \in Projections /\ new.status = "revoked" /\ new.ref = j.ref
      /\ new.expiresAt = j.expiresAt
      /\ new.records = {[rec EXCEPT !.status = "revoked"] : rec \in j.records}
  <2>1. {[rec EXCEPT !.status = "revoked"] : rec \in j.records} \subseteq Records
    BY DEF Projections, Records, Status
  <2> QED BY <1>2, <2>1 DEF Revoked, Projections, Status
<1>4. Within(new)
  BY <1>1, <1>3 DEF Within
<1>5. /\ UNCHANGED <<now, missions, endedAt, credentials, leases, shared>> /\ Finish(h)
      /\ projections' = [projections EXCEPT ![i] = new]
  BY <1>1, <1>2 DEF SaveRevocation, UpdateProjection
<1>6. /\ Grows /\ MissionsOK' /\ ProjectionsOK' /\ LeasesOK' /\ JobsOK'
      /\ projections' \in [ProjectionIds -> Projections] /\ job' \in [Handlers -> Jobs]
  <2>1. new.status # "none"
    BY <1>3
  <2>2. new.ref = projections[i].ref /\ new.expiresAt = projections[i].expiresAt
    BY <1>1, <1>3
  <2> QED BY <1>3, <1>4, <1>5, <2>1, <2>2, WriteProjection
<1>7. CredentialsOK'
  BY <1>5, <1>6, CredentialsGrow
<1>8. TypeOK'
  BY <1>5, <1>6 DEF Inv, TypeOK
<1>9. /\ projections'[i] = new
      /\ \A m \in ProjectionIds : m # i => projections'[m] = projections[m]
  BY <1>5 DEF Inv, TypeOK
<1>10. ASSUME NEW m \in ProjectionIds, m \notin shared
       PROVE  HeldAlone(m)' /\ Recorded(m)'
  <2>1. HeldAlone(m)'
    BY <1>1, <1>5, <1>9, <1>10, WriteAlone
  <2>2. \A rec \in projections[m].records : \E r \in projections'[m].records :
            r.id = rec.id /\ r.nonce = rec.nonce
    <3>1. CASE m # i
      BY <1>9, <3>1
    <3>2. CASE m = i
      <4>1. \A rec \in j.records : rec \in Records
        BY DEF Projections
      <4>2. ASSUME NEW rec \in j.records
            PROVE  \E r \in new.records : r.id = rec.id /\ r.nonce = rec.nonce
        <5>1. [rec EXCEPT !.status = "revoked"] \in new.records
          BY <1>3
        <5>2. /\ [rec EXCEPT !.status = "revoked"].id = rec.id
              /\ [rec EXCEPT !.status = "revoked"].nonce = rec.nonce
          BY <4>1 DEF Records
        <5> QED BY <5>1, <5>2
      <4>3. j = projections[m] /\ new = projections'[m]
        BY <1>1, <1>9, <1>10, <3>2
      <4> QED BY <4>2, <4>3
    <3> QED BY <3>1, <3>2
  <2>3. Recorded(m)'
    <3>1. Recorded(m)
      BY <1>10 DEF Inv, Alone
    <3> QED BY <1>5, <2>2, <3>1, SameRecords
  <2> QED BY <2>1, <2>3
<1>11. Alone'
  BY <1>5, <1>10 DEF Alone
<1> QED BY <1>1, <1>3, <1>6, <1>7, <1>8, <1>9, <1>11 DEF Inv, Sound

\* The exchange writes its copy with the new record and hands out the token.
LEMMA IssueCredentialStep ==
  ASSUME Inv, NEW h \in Handlers, IssueCredential(h)
  PROVE  Inv' /\ job[h].copy.status = "active"
         /\ \A m \in ProjectionIds : m # job[h].projection => projections'[m] = projections[m]
<1>1. PICK i \in ProjectionIds, j \in Projections :
          /\ i = job[h].projection /\ j = job[h].copy
          /\ projections[i].status # "none" /\ j.status # "none"
          /\ j.ref = projections[i].ref /\ j.expiresAt = projections[i].expiresAt
          /\ Within(j)
          /\ i \notin shared => j = projections[i]
  BY CopyFits DEF IssueCredential
<1>2. PICK n \in Nonces, v \in Nat, e \in Nat :
          /\ n = job[h].nonce /\ v = job[h].version /\ e = job[h].expiresAt
          /\ v <= missions[j.ref].version /\ e <= j.expiresAt /\ j.status = "active"
  <2>1. JobOK(job[h]) /\ job[h] \in Jobs /\ job[h].pc = "issue"
    BY DEF IssueCredential, Inv, TypeOK, Sound, JobsOK
  <2> QED BY <1>1, <2>1 DEF JobOK, Jobs
<1>3. PICK c \in CredentialIds :
          /\ credentials[c] = NoPayload
          /\ projections' = [projections EXCEPT ![i] = [j EXCEPT !.records = @ \cup
                {[id |-> c, nonce |-> n, status |-> "active", expiresAt |-> e]}]]
          /\ credentials' = [credentials EXCEPT ![c] =
                [projection |-> i, nonce |-> n, version |-> v, expiresAt |-> e]]
  BY <1>1, <1>2 DEF IssueCredential, UpdateProjection
<1>4. PICK rec, new, k :
          /\ rec = [id |-> c, nonce |-> n, status |-> "active", expiresAt |-> e]
          /\ new = [j EXCEPT !.records = @ \cup {rec}]
          /\ k = [projection |-> i, nonce |-> n, version |-> v, expiresAt |-> e]
  OBVIOUS
<1>5. /\ rec \in Records /\ rec.id = c /\ rec.nonce = n
      /\ k \in Payloads /\ k.projection = i /\ k.nonce = n /\ k.version = v
      /\ k.expiresAt = e /\ k # NoPayload
  BY <1>1, <1>2, <1>4, BrokerAssumption DEF Records, Payloads, Status, NoPayload
<1>6. /\ new \in Projections /\ new.status = j.status /\ new.ref = j.ref
      /\ new.expiresAt = j.expiresAt /\ new.records = j.records \cup {rec}
  <2>1. j.records \cup {rec} \subseteq Records
    BY <1>5 DEF Projections
  <2> QED BY <1>4, <2>1 DEF Projections
<1>7. /\ UNCHANGED <<now, missions, endedAt, leases, shared>> /\ Finish(h)
      /\ projections' = [projections EXCEPT ![i] = new]
      /\ credentials' = [credentials EXCEPT ![c] = k]
  BY <1>3, <1>4 DEF IssueCredential
<1>8. /\ Grows /\ MissionsOK' /\ ProjectionsOK' /\ LeasesOK' /\ JobsOK'
      /\ projections' \in [ProjectionIds -> Projections] /\ job' \in [Handlers -> Jobs]
  <2>1. new.status # "none" /\ Within(new)
    BY <1>1, <1>6 DEF Within
  <2>2. new.ref = projections[i].ref /\ new.expiresAt = projections[i].expiresAt
    BY <1>1, <1>6
  <2> QED BY <1>6, <1>7, <2>1, <2>2, WriteProjection
<1>9. /\ projections'[i] = new
      /\ \A m \in ProjectionIds : m # i => projections'[m] = projections[m]
      /\ credentials' \in [CredentialIds -> Payloads] /\ credentials'[c] = k
      /\ \A d \in CredentialIds : d # c => credentials'[d] = credentials[d]
  BY <1>5, <1>7 DEF Inv, TypeOK
<1>10. CredentialsOK'
  <2>1. ASSUME NEW d \in CredentialIds, credentials'[d] # NoPayload
        PROVE  Fits(credentials[d])'
    <3>1. CASE d = c
      <4>1. j.ref \in Refs
        BY <1>1 DEF Within
      <4>2. v <= missions'[new.ref].version
        BY <1>2, <1>6, <1>7
      <4> QED BY <1>1, <1>2, <1>5, <1>6, <1>9, <3>1, <4>2 DEF Fits
    <3>2. CASE d # c
      <4>1. PICK l \in Payloads : l = credentials[d] /\ l = credentials'[d]
        BY <1>9, <3>2 DEF Inv, TypeOK
      <4>2. Fits(l)
        BY <2>1, <4>1 DEF Inv, Sound, CredentialsOK
      <4>3. Fits(l)'
        BY <1>8, <4>2, CredentialGrows
      <4> QED BY <4>1, <4>3 DEF Fits
    <3> QED BY <3>1, <3>2
  <2> QED BY <2>1 DEF CredentialsOK
<1>11. TypeOK'
  BY <1>7, <1>8, <1>9 DEF Inv, TypeOK
<1>12. ASSUME NEW m \in ProjectionIds, m \notin shared
       PROVE  HeldAlone(m)' /\ Recorded(m)'
  <2>1. HeldAlone(m)'
    BY <1>1, <1>7, <1>9, <1>12, WriteAlone
  <2>2. HeldAlone(m) /\ Recorded(m)
    BY <1>12 DEF Inv, Alone
  <2>3. None \notin ProjectionIds /\ credentials[c].projection = None
    BY <1>3, BrokerAssumption DEF NoPayload
  <2>4. CASE m # i
    <3>1. projections'[m] = projections[m]
      BY <1>9, <2>4
    <3>2. \A d \in CredentialIds : credentials'[d].projection = m =>
              credentials'[d] = credentials[d]
      BY <1>5, <1>9, <2>4
    <3>3. Recorded(m)'
      BY <2>2, <3>1, <3>2 DEF Recorded
    <3> QED BY <2>1, <3>3
  <2>5. CASE m = i
    <3>1. j = projections[i] /\ ~projectionExchangeNonceUsed(j, n)
      BY <1>1, <1>2, <1>12, <2>2, <2>5 DEF HeldAlone, IssueCredential
    <3>2. ASSUME NEW d \in CredentialIds, d # c, credentials'[d].projection = i
          PROVE  /\ \E r \in j.records : r.id = d /\ r.nonce = credentials'[d].nonce
                 /\ credentials'[d].nonce # n
      <4>1. credentials'[d] = credentials[d]
        BY <1>9, <3>2
      <4>2. PICK r \in j.records : r.id = d /\ r.nonce = credentials[d].nonce
        BY <2>2, <2>5, <3>1, <3>2, <4>1 DEF Recorded
      <4>3. r.nonce # n
        BY <3>1 DEF projectionExchangeNonceUsed
      <4> QED BY <4>1, <4>2, <4>3
    <3>3. ASSUME NEW d \in CredentialIds, credentials'[d].projection = i
          PROVE  \E r \in projections'[i].records :
                     r.id = d /\ r.nonce = credentials'[d].nonce
      BY <1>5, <1>6, <1>9, <3>2, <3>3
    <3>4. ASSUME NEW d \in CredentialIds, NEW b \in CredentialIds,
                 credentials'[d].projection = i, credentials'[b].projection = i,
                 credentials'[d].nonce = credentials'[b].nonce
          PROVE  d = b
      <4>1. CASE d = c
        BY <1>5, <1>9, <3>2, <3>4, <4>1
      <4>2. CASE b = c
        BY <1>5, <1>9, <3>2, <3>4, <4>2
      <4>3. CASE d # c /\ b # c
        BY <1>9, <2>2, <2>5, <3>4, <4>3 DEF Recorded
      <4> QED BY <4>1, <4>2, <4>3
    <3>5. Recorded(m)'
      BY <2>5, <3>3, <3>4 DEF Recorded
    <3> QED BY <2>1, <3>5
  <2> QED BY <2>4, <2>5
<1>13. Alone'
  BY <1>7, <1>12 DEF Alone
<1> QED BY <1>1, <1>2, <1>8, <1>9, <1>10, <1>11, <1>13 DEF Inv, Sound

\* A handler that has written a lease is done.
LEMMA WriteLease ==
  ASSUME Inv, NEW h \in Handlers, NEW l \in LeaseIds, NEW j \in Leases, Lapses(j),
         leases' = [leases EXCEPT ![l] = j], Finish(h),
         UNCHANGED <<now, missions, endedAt, projections, credentials, shared>>
  PROVE  Inv'
<1>1. Grows /\ MissionsOK'
  BY StoreCallGrows
<1>2. ProjectionsOK'
  BY DEF Inv, Sound, ProjectionsOK, Within
<1>3. CredentialsOK'
  BY <1>1, CredentialsGrow
<1>4. ASSUME NEW m \in LeaseIds, leases'[m] # NoLease
      PROVE  Lapses(leases[m])'
  <2>1. PICK k \in Leases : k = leases'[m] /\ Lapses(k)
    BY <1>4 DEF Inv, TypeOK, Sound, LeasesOK
  <2>2. Lapses(k)'
    BY <1>1, <2>1 DEF Grows
  <2> QED BY <2>1, <2>2 DEF Lapses
<1>5. LeasesOK'
  BY <1>4 DEF LeasesOK
<1>6. PICK k : k = Idle
  OBVIOUS
<1>7. k \in Jobs /\ JobOK(k)' /\ k.projection = None
  BY <1>6 DEF Idle, JobOK, Jobs, Steps, NoProjection, Projections, NoLease, Leases
<1>8. job' = [job EXCEPT ![h] = k]
  BY <1>6 DEF Finish
<1>9. job' \in [Handlers -> Jobs] /\ JobsOK'
  BY <1>1, <1>2, <1>7, <1>8, JobStep
<1>10. TypeOK'
  BY <1>9 DEF Inv, TypeOK
<1>11. ASSUME NEW m \in ProjectionIds, m \notin shared
       PROVE  HeldAlone(m)' /\ Recorded(m)'
  <2>1. HeldAlone(m) /\ Recorded(m)
    BY <1>11 DEF Inv, Alone
  <2>2. \A p \in Handlers : job'[p].projection = m => job'[p] = job[p]
    BY <1>7, <1>8, BrokerAssumption DEF Inv, TypeOK
  <2>3. HeldAlone(m)'
    BY <2>1, <2>2 DEF HeldAlone, projectionExchangeNonceUsed
  <2>4. Recorded(m)'
    BY <2>1 DEF Recorded
  <2> QED BY <2>3, <2>4
<1>12. Alone'
  BY <1>11 DEF Alone
<1> QED BY <1>1, <1>2, <1>3, <1>5, <1>9, <1>10, <1>12 DEF Inv, Sound

\* A new lease.
LEMMA SaveMissionLeaseStep ==
  ASSUME Inv, NEW h \in Handlers, SaveMissionLease(h)
  PROVE  Inv'
<1>1. JobOK(job[h]) /\ job[h] \in Jobs
  BY DEF Inv, TypeOK, Sound, JobsOK
<1>2. PICK j \in Leases : j = job[h].lease /\ Lapses(j)
  BY <1>1 DEF SaveMissionLease, JobOK, Jobs
<1>3. PICK l \in LeaseIds : leases' = [leases EXCEPT ![l] = j]
  BY <1>2 DEF SaveMissionLease
<1>4. /\ UNCHANGED <<now, missions, endedAt, projections, credentials, shared>>
      /\ Finish(h)
  BY DEF SaveMissionLease
<1> QED BY <1>2, <1>3, <1>4, WriteLease

\* A lease is extended.
LEMMA UpdateMissionLeaseStep ==
  ASSUME Inv, NEW h \in Handlers, UpdateMissionLease(h)
  PROVE  Inv'
<1>1. JobOK(job[h]) /\ job[h] \in Jobs
  BY DEF Inv, TypeOK, Sound, JobsOK
<1>2. PICK j \in Leases, l \in LeaseIds :
          j = job[h].lease /\ Lapses(j) /\ l = job[h].leaseId
  BY <1>1 DEF UpdateMissionLease, JobOK, Jobs
<1>3. /\ leases' = [leases EXCEPT ![l] = j] /\ Finish(h)
      /\ UNCHANGED <<now, missions, endedAt, projections, credentials, shared>>
  BY <1>2 DEF UpdateMissionLease
<1> QED BY <1>2, <1>3, WriteLease

\* The missions or the clock move under the broker.
LEMMA MovesUnder ==
  ASSUME Inv, Grows, MissionsOK', UNCHANGED <<rows, shared, job>>
  PROVE  Sound' /\ Alone'
<1>1. ProjectionsOK'
  BY DEF Inv, Sound, ProjectionsOK, Within, rows
<1>2. CredentialsOK' /\ LeasesOK'
  BY CredentialsGrow, LeasesGrow DEF rows
<1>3. JobsOK'
  BY <1>1, JobsGrow
<1>4. ASSUME NEW m \in ProjectionIds, m \notin shared
      PROVE  HeldAlone(m)' /\ Recorded(m)'
  <2>1. HeldAlone(m) /\ Recorded(m)
    BY <1>4 DEF Inv, Alone
  <2> QED BY <2>1 DEF HeldAlone, Recorded, projectionExchangeNonceUsed, rows
<1>5. Alone'
  BY <1>4 DEF Alone
<1> QED BY <1>1, <1>2, <1>3, <1>5 DEF Sound

-----------------------------------------------------------------------------
(* The invariant and what follows from it.                                 *)

\* A broker that starts empty is sound.
LEMMA InitInv == Init => Inv
<1> SUFFICES ASSUME Init PROVE Inv
  OBVIOUS
<1>1. /\ MaxTime \in Nat /\ MaxVersion \in Nat /\ None \notin ProjectionIds
  BY BrokerAssumption
<1>2. TypeOK
  BY <1>1, IdleJob DEF Init, TypeOK, NoProjection, Projections, Status, NoPayload,
     Payloads, NoLease, Leases
<1>3. MissionsOK
  BY <1>1 DEF Init, MissionsOK, MissionRows, Missions!Init, Missions!Unborn
<1>4. ProjectionsOK /\ CredentialsOK /\ LeasesOK
  BY DEF Init, ProjectionsOK, CredentialsOK, LeasesOK, NoProjection
<1>5. Idle.pc = "idle" /\ Idle.projection = None
  BY DEF Idle
<1>6. JobsOK
  BY <1>5 DEF Init, JobsOK, JobOK
<1>7. Alone
  BY <1>1, <1>5 DEF Init, Alone, HeldAlone, Recorded, NoPayload
<1> QED BY <1>2, <1>3, <1>4, <1>6, <1>7 DEF Inv, Sound

\* Every step keeps the broker sound.
LEMMA NextInv == Inv /\ [Next]_vars => Inv'
<1> SUFFICES ASSUME Inv, [Next]_vars PROVE Inv'
  OBVIOUS
<1>1. ASSUME NEW p \in Handlers, Arrive(p) PROVE Inv'
  BY <1>1, CreateProjectionStep, CreateMissionLeaseStep, RevokeProjectionStep,
     ExchangeProjectionTokenStep, RefreshMissionLeaseStep DEF Arrive
<1>2. ASSUME NEW p \in Handlers, Continue(p) PROVE Inv'
  BY <1>2, SaveProjectionStep, SaveRevocationStep, ReadMissionToExchangeStep,
     ReadMissionToRefreshStep, IssueCredentialStep, SaveMissionLeaseStep,
     UpdateMissionLeaseStep, RefuseStep DEF Continue
<1>3. CASE MissionStep
  <2>1. UNCHANGED <<now, rows, shared, job>>
    BY <1>3 DEF MissionStep
  <2>2. TypeOK'
    BY <2>1 DEF Inv, TypeOK, rows
  <2> QED BY <1>3, <2>1, <2>2, MissionGrows, MovesUnder DEF Inv
<1>4. CASE Tick
  <2>1. UNCHANGED <<rows, shared, job>>
    BY <1>4 DEF Tick
  <2>2. TypeOK'
    BY <1>4, <2>1, BrokerAssumption DEF Tick, Inv, TypeOK, rows
  <2> QED BY <1>4, <2>1, <2>2, TickGrows, MovesUnder DEF Inv
<1>5. CASE UNCHANGED vars
  <2>1. /\ UNCHANGED <<now, missions, endedAt, rows, shared, job>>
        /\ UNCHANGED <<projections, credentials, leases>>
    BY <1>5 DEF vars, rows
  <2>2. Grows /\ MissionsOK'
    BY <2>1, StoreCallGrows
  <2>3. TypeOK'
    BY <2>1 DEF Inv, TypeOK
  <2> QED BY <2>1, <2>2, <2>3, MovesUnder DEF Inv
<1> QED BY <1>1, <1>2, <1>3, <1>4, <1>5 DEF Next

\* The inductive invariant of the broker.
THEOREM Invariant == Spec => []Inv
  BY InitInv, NextInv, PTL DEF Spec

\* Every row, token and job has its type.
THEOREM TypeCorrect == Spec => []TypeOK
<1>1. Inv => TypeOK
  BY DEF Inv
<1> QED BY <1>1, Invariant, PTL

\* However long a refresh was under way, and whatever became of the mission
\* since the lease was read, a lease runs out within MaxLeaseTTL of the end of
\* the version it was given for: ensureMissionUsable and LeaseExpiry.
THEOREM LeasesRunOut == Spec => []LeasesLapse
<1>1. Inv => LeasesLapse
  BY DEF Inv, Sound, LeasesOK, Lapses, LeasesLapse
<1> QED BY <1>1, Invariant, PTL

\* VerifyCredentialAccessToken accepts no token of a mission that has changed
\* since the exchange, nor one that outlives its projection or its mission,
\* though overlapping writes may overwrite the projection row.
THEOREM AcceptedCurrent == Spec => []AcceptedIsCurrent
<1>1. Inv => AcceptedIsCurrent
  <2> SUFFICES ASSUME Inv, NEW c \in CredentialIds, validateCredentialAccessToken(c)
               PROVE  LET k == credentials[c]
                          j == projections[k.projection]
                      IN  /\ missions[j.ref].state = "active"
                          /\ missions[j.ref].version = k.version
                          /\ k.expiresAt <= j.expiresAt
                          /\ WindowOf[j.ref].expiresAt # 0 =>
                                j.expiresAt <= WindowOf[j.ref].expiresAt
    BY DEF AcceptedIsCurrent
  <2>1. PICK k \in Payloads, j \in {projections[credentials[c].projection]} :
            /\ k = credentials[c] /\ k # NoPayload /\ j = projections[k.projection]
    BY DEF validateCredentialAccessToken, Inv, TypeOK
  <2>2. /\ k.projection \in ProjectionIds /\ j.status # "none"
        /\ k.version <= missions[j.ref].version /\ k.expiresAt <= j.expiresAt
    BY <2>1 DEF Inv, Sound, CredentialsOK, Fits
  <2>3. Within(j)
    BY <2>1, <2>2 DEF Inv, Sound, ProjectionsOK
  <2>4. missions[j.ref].state = "active" /\ k.version >= missions[j.ref].version
    BY <2>1 DEF validateCredentialAccessToken, ensureMissionUsable
  <2>5. k.version \in Nat /\ missions[j.ref].version \in Nat
    BY <2>3 DEF Payloads, Within, Inv, Sound, MissionsOK, MissionRows
  <2>6. missions[j.ref].version = k.version
    BY <2>2, <2>4, <2>5
  <2> QED BY <2>1, <2>2, <2>3, <2>4, <2>6 DEF Within
<1> QED BY <1>1, Invariant, PTL

\* On a projection whose requests never overlapped, replaying a nonce never
\* buys a second credential: no write of the row loses an exchange record.
THEOREM NoncesBuyOnce == Spec => []NonceBuysOnce
<1>1. Inv => NonceBuysOnce
  <2> SUFFICES ASSUME Inv, NEW c \in CredentialIds, NEW d \in CredentialIds,
                      credentials[c] # NoPayload,
                      credentials[c].projection = credentials[d].projection,
                      credentials[c].projection \notin shared,
                      credentials[c].nonce = credentials[d].nonce
               PROVE  c = d
    BY DEF NonceBuysOnce
  <2>1. credentials[c].projection \in ProjectionIds
    BY DEF Inv, Sound, CredentialsOK, Fits
  <2> QED BY <2>1 DEF Inv, Alone, Recorded
<1> QED BY <1>1, Invariant, PTL

\* A step after which a credential of an unshared, revoked projection is
\* accepted would have rewritten the row: only IssueCredential could, and it
\* holds the row as it is stored, which was active when the mission was read.
LEMMA RevokedStays ==
  ASSUME Inv, [Next]_vars, NEW i \in ProjectionIds, i \notin shared,
         projections[i].status = "revoked"
  PROVE  projections'[i].status = "revoked"
<1>1. ASSUME NEW p \in Handlers, SaveProjection(p) PROVE projections'[i] = projections[i]
  <2>1. PICK m \in ProjectionIds : /\ projections[m] = NoProjection
                                   /\ projections' = [projections EXCEPT ![m] = job[p].copy]
    BY <1>1 DEF SaveProjection
  <2>2. m # i
    BY <2>1 DEF NoProjection
  <2> QED BY <2>1, <2>2 DEF Inv, TypeOK
<1>2. ASSUME NEW p \in Handlers, SaveRevocation(p)
      PROVE  projections'[i].status = "revoked"
  <2>1. CASE job[p].projection = i
    BY <1>2, <2>1, SaveRevocationStep
  <2>2. CASE job[p].projection # i
    BY <1>2, <2>2 DEF SaveRevocation, UpdateProjection, Inv, TypeOK
  <2> QED BY <2>1, <2>2
<1>3. ASSUME NEW p \in Handlers, IssueCredential(p) PROVE projections'[i] = projections[i]
  <2>1. CASE job[p].projection = i
    <3>1. job[p].copy = projections[i]
      BY <2>1 DEF Inv, Alone, HeldAlone
    <3> QED BY <1>3, <3>1, IssueCredentialStep
  <2>2. CASE job[p].projection # i
    BY <1>3, <2>2, IssueCredentialStep
  <2> QED BY <2>1, <2>2
<1>4. ASSUME NEW p \in Handlers, Arrive(p) PROVE projections' = projections
  BY <1>4 DEF Arrive, CreateProjection, CreateMissionLease, RevokeProjection,
     ExchangeProjectionToken, RefreshMissionLease, BeginOn, rows
<1>5. ASSUME NEW p \in Handlers, Continue(p) PROVE projections'[i].status = "revoked"
  <2>1. CASE SaveProjection(p) \/ SaveRevocation(p) \/ IssueCredential(p)
    BY <1>1, <1>2, <1>3, <2>1
  <2>2. CASE ~(SaveProjection(p) \/ SaveRevocation(p) \/ IssueCredential(p))
    BY <1>5, <2>2 DEF Continue, ReadMissionToExchange, ReadMissionToRefresh,
       SaveMissionLease, UpdateMissionLease, Refuse, rows
  <2> QED BY <2>1, <2>2
<1>6. CASE MissionStep \/ Tick \/ UNCHANGED vars
  BY <1>6 DEF MissionStep, Tick, vars, rows
<1> QED BY <1>4, <1>5, <1>6 DEF Next

\* RevokeProjection is final: no step makes a credential of a revoked
\* projection acceptable, if its requests never overlapped.
THEOREM RevocationFinal == Spec => RevokedAloneIsFinal
<1>1. Inv /\ [Next]_vars => [~AcceptsRevoked(ProjectionIds \ shared)]_vars
  <2> SUFFICES ASSUME Inv, [Next]_vars, AcceptsRevoked(ProjectionIds \ shared) PROVE FALSE
    OBVIOUS
  <2>1. PICK c \in CredentialIds :
            /\ credentials'[c].projection \in ProjectionIds \ shared
            /\ projections[credentials'[c].projection].status = "revoked"
            /\ validateCredentialAccessToken(c)'
    BY DEF AcceptsRevoked
  <2>2. projections'[credentials'[c].projection].status = "revoked"
    BY <2>1, RevokedStays
  <2>3. projections'[credentials'[c].projection].status # "revoked"
    BY <2>1 DEF validateCredentialAccessToken, credentialRevoked
  <2> QED BY <2>2, <2>3
<1> QED BY <1>1, Invariant, PTL DEF Spec, RevokedAloneIsFinal
=============================================================================
