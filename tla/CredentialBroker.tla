-------------------------- MODULE CredentialBroker --------------------------
(***************************************************************************)
(* Projections of a mission, the credentials the broker exchanges them     *)
(* for, and mission leases.                                                *)
(*                                                                         *)
(* The missions themselves change under the broker as MissionContract      *)
(* allows.  A handler of the broker has one step per store call, as in     *)
(* MissionLifecycle; between two of them the others go on and time passes. *)
(* A clock read belongs to the store call before it: a tick is long        *)
(* compared with the few instructions in between, a store call is not.     *)
(*                                                                         *)
(* A projection row is rewritten as a whole, exchange records included.    *)
(* Actor, audience, tool, resource and scope checks and containment rules  *)
(* only refuse a request; they are the step Refuse.                        *)
(***************************************************************************)
EXTENDS Integers, FiniteSetsExt

CONSTANTS
    Handlers,           \* requests that may be in flight at the same time
    Refs,               \* missions
    ProjectionIds,      \* projection ids newID can draw
    CredentialIds,      \* exchange ids newID can draw
    LeaseIds,           \* lease ids newID can draw
    Nonces,             \* nonces clients use
    Actions,            \* actions an authority region can permit
    WindowOf,           \* when each mission starts and expires, 0 for never
    RequestedTTLs,      \* ttl_seconds of a request, 0 when left out
    ProjectionTTL,      \* defaultProjectionTTLSeconds
    CredentialTTL,      \* defaultCredentialTTLSeconds
    MaxCredentialTTL,   \* maxCredentialTTLSeconds
    LeaseTTL,           \* defaultLeaseTTLSeconds
    MaxLeaseTTL,        \* maxLeaseTTLSeconds
    MaxVersion,         \* bound on the versions of a mission
    MaxTime,            \* last instant of the clock
    None                \* no identifier

ASSUME BrokerAssumption ==
    /\ None \notin Refs \cup ProjectionIds \cup LeaseIds \cup Nonces
    /\ WindowOf \in [Refs -> [notBefore : Nat, expiresAt : Nat]]
    /\ RequestedTTLs \subseteq Nat
    /\ {ProjectionTTL, CredentialTTL, MaxCredentialTTL, LeaseTTL, MaxLeaseTTL}
          \subseteq Nat \ {0}
    /\ CredentialTTL <= MaxCredentialTTL
    /\ LeaseTTL <= MaxLeaseTTL
    /\ MaxVersion \in Nat
    /\ MaxTime \in Nat

VARIABLES
    now,          \* the clock
    missions,     \* the mission rows
    endedAt,      \* when a mission stopped being active at a version (history)
    projections,  \* projection rows with their exchange records
    credentials,  \* the access tokens handed out
    leases,       \* lease rows
    shared,       \* projections two handlers ever held at once (history)
    job           \* where each handler is and what it has read

rows == <<projections, credentials, leases>>
vars == <<now, missions, endedAt, rows, shared, job>>

Missions == INSTANCE MissionContract

-----------------------------------------------------------------------------
(* Rows and jobs.                                                          *)

Status == {"active", "revoked"}
Records == [id : CredentialIds, nonce : Nonces, status : Status, expiresAt : Nat]
Projections == [status : Status \cup {"none"}, ref : Refs \cup {None},
                version : Nat, expiresAt : Nat, records : SUBSET Records]
NoProjection == [status |-> "none", ref |-> None, version |-> 0,
                 expiresAt |-> 0, records |-> {}]

\* What the signed payload of an access token says.
Payloads == [projection : ProjectionIds \cup {None}, nonce : Nonces \cup {None},
             version : Nat, expiresAt : Nat]
NoPayload == [projection |-> None, nonce |-> None, version |-> 0, expiresAt |-> 0]

Leases == [ref : Refs \cup {None}, version : Nat, expiresAt : Nat]
NoLease == [ref |-> None, version |-> 0, expiresAt |-> 0]

Steps == {"idle", "project", "revoke", "exchange", "issue",
          "lease", "refresh", "extend"}
Jobs == [pc : Steps, projection : ProjectionIds \cup {None}, copy : Projections,
         nonce : Nonces \cup {None}, version : Nat, expiresAt : Nat,
         leaseId : LeaseIds \cup {None}, lease : Leases]
Idle == [pc |-> "idle", projection |-> None, copy |-> NoProjection,
         nonce |-> None, version |-> 0, expiresAt |-> 0,
         leaseId |-> None, lease |-> NoLease]

Begin(p, j) == /\ job[p] = Idle
               /\ job' = [job EXCEPT ![p] = j]
\* The same for a request that works on projection i.
BeginOn(p, i, j) ==
    /\ Begin(p, j)
    /\ shared' = shared \cup {k \in {i} : \E q \in Handlers : job[q].projection = k}
    /\ UNCHANGED <<now, missions, endedAt, rows>>

Finish(p) == job' = [job EXCEPT ![p] = Idle]

-----------------------------------------------------------------------------
(* Checks and expiries.                                                    *)

expired(r) ==
    \/ WindowOf[r].notBefore > now
    \/ WindowOf[r].expiresAt # 0 /\ now > WindowOf[r].expiresAt

\* Seeded defect: a caller with stale mission state is let through.
MissionUsableAtAnyVersion(r, seen) ==
    missions[r].state = "active" /\ ~expired(r)

ensureMissionUsable(r, seen) ==
    /\ missions[r].state = "active"
    /\ ~expired(r)
    /\ seen >= missions[r].version

\* The requested lifetime or the default, starting now, but no longer than
\* the mission.
boundedExpiry(ttl, default, r) ==
    LET end == now + (IF ttl = 0 THEN default ELSE ttl)
    IN  Min({end} \cup ({WindowOf[r].expiresAt} \ {0}))

\* Seeded defect: the cap is applied to the default only.
LeaseExpiryUncapped(ttl, r) == boundedExpiry(ttl, LeaseTTL, r)

\* Lease lifetimes are capped, projection lifetimes are not.
LeaseExpiry(ttl, r) ==
    boundedExpiry(Min({ttl, MaxLeaseTTL}), LeaseTTL, r)

boundedBrokerExpiry(ttl, j) ==
    Min({boundedExpiry(Min({ttl, MaxCredentialTTL}), CredentialTTL, j.ref),
         j.expiresAt})

projectionExchangeNonceUsed(j, n) == \E rec \in j.records : rec.nonce = n

\* The projection j read before, against the mission read now.
validateProjectionForBroker(j) ==
    /\ j.status # "revoked"
    /\ now <= j.expiresAt
    /\ ensureMissionUsable(j.ref, j.version)

\* Seeded defect: revocation is not looked up.
NeverRevoked(j, rec) == FALSE

credentialRevoked(j, rec) == rec.status = "revoked" \/ j.status = "revoked"

\* What VerifyCredentialAccessToken answers for token c.
validateCredentialAccessToken(c) ==
    LET k == credentials[c]
        j == projections[k.projection]
    IN  /\ k # NoPayload
        /\ \E rec \in j.records :
              rec.id = c /\ ~credentialRevoked(j, rec) /\ now <= rec.expiresAt
        /\ now < k.expiresAt
        /\ now <= j.expiresAt
        /\ ensureMissionUsable(j.ref, k.version)

-----------------------------------------------------------------------------
(* Projections.                                                            *)

\* CreateProjection up to its checks of the mission read.
CreateProjection(p, r, ttl) ==
    /\ ensureMissionUsable(r, missions[r].version)
    /\ Begin(p, [Idle EXCEPT !.pc = "project",
                   !.copy = [status |-> "active", ref |-> r,
                             version |-> missions[r].version,
                             expiresAt |-> boundedExpiry(ttl, ProjectionTTL, r),
                             records |-> {}]])
    /\ UNCHANGED <<now, missions, endedAt, rows, shared>>

SaveProjection(p) ==
    /\ job[p].pc = "project"
    /\ \E i \in ProjectionIds :
          /\ projections[i] = NoProjection
          /\ projections' = [projections EXCEPT ![i] = job[p].copy]
    /\ Finish(p)
    /\ UNCHANGED <<now, missions, endedAt, credentials, leases, shared>>

\* UpdateProjection overwrites whatever row is stored by now.
UpdateProjection(i, j) == projections' = [projections EXCEPT ![i] = j]

\* RevokeProjection up to its read; a projection read as revoked is left alone.
RevokeProjection(p, i) ==
    /\ projections[i].status = "active"
    /\ BeginOn(p, i, [Idle EXCEPT !.pc = "revoke", !.projection = i,
                                  !.copy = projections[i]])

\* Seeded defect: the row gets a status only responses may show.
RevokedAsExpired(j) ==
    [j EXCEPT !.status = "expired",
              !.records = {[rec EXCEPT !.status = "revoked"] : rec \in @}]

\* The projection and all exchange records of the copy, revoked.
Revoked(j) ==
    [j EXCEPT !.status = "revoked",
              !.records = {[rec EXCEPT !.status = "revoked"] : rec \in @}]

SaveRevocation(p) ==
    /\ job[p].pc = "revoke"
    /\ UpdateProjection(job[p].projection, Revoked(job[p].copy))
    /\ Finish(p)
    /\ UNCHANGED <<now, missions, endedAt, credentials, leases, shared>>

-----------------------------------------------------------------------------
(* Exchange of a projection for a credential.                              *)

\* Seeded defect: nonces are not compared.
NonceNotCompared(i, n) == projections[i].status # "none"

\* The projection is there and the nonce is not among its records.
MayExchange(i, n) ==
    /\ projections[i].status # "none"
    /\ ~projectionExchangeNonceUsed(projections[i], n)

\* ExchangeProjectionToken reads the projection.
ExchangeProjectionToken(p, i, n) ==
    /\ MayExchange(i, n)
    /\ BeginOn(p, i, [Idle EXCEPT !.pc = "exchange", !.projection = i,
                                  !.copy = projections[i], !.nonce = n])

\* It reads the mission and fixes what the token will say.
ReadMissionToExchange(p, ttl) ==
    LET j == job[p].copy
    IN  /\ job[p].pc = "exchange"
        /\ validateProjectionForBroker(j)
        /\ job' = [job EXCEPT ![p].pc = "issue",
                              ![p].version = missions[j.ref].version,
                              ![p].expiresAt = boundedBrokerExpiry(ttl, j)]
        /\ UNCHANGED <<now, missions, endedAt, rows, shared>>

\* It writes its copy of the projection with the new record and returns the
\* token.
IssueCredential(p) ==
    LET j == job[p]
    IN  /\ j.pc = "issue"
        /\ \E c \in CredentialIds :
              /\ credentials[c] = NoPayload
              /\ UpdateProjection(j.projection,
                    [j.copy EXCEPT !.records = @ \cup
                        {[id |-> c, nonce |-> j.nonce, status |-> "active",
                          expiresAt |-> j.expiresAt]}])
              /\ credentials' = [credentials EXCEPT ![c] =
                    [projection |-> j.projection, nonce |-> j.nonce,
                     version |-> j.version, expiresAt |-> j.expiresAt]]
        /\ Finish(p)
        /\ UNCHANGED <<now, missions, endedAt, leases, shared>>

-----------------------------------------------------------------------------
(* Leases.                                                                 *)

\* CreateMissionLease up to its checks of the mission read.
CreateMissionLease(p, r, ttl) ==
    /\ ensureMissionUsable(r, missions[r].version)
    /\ Begin(p, [Idle EXCEPT !.pc = "lease",
                   !.lease = [ref |-> r, version |-> missions[r].version,
                              expiresAt |-> LeaseExpiry(ttl, r)]])
    /\ UNCHANGED <<now, missions, endedAt, rows, shared>>

SaveMissionLease(p) ==
    /\ job[p].pc = "lease"
    /\ \E l \in LeaseIds :
          /\ leases[l] = NoLease
          /\ leases' = [leases EXCEPT ![l] = job[p].lease]
    /\ Finish(p)
    /\ UNCHANGED <<now, missions, endedAt, projections, credentials, shared>>

\* RefreshMissionLease reads the lease.
RefreshMissionLease(p, l) ==
    /\ leases[l] # NoLease
    /\ Begin(p, [Idle EXCEPT !.pc = "refresh", !.leaseId = l, !.lease = leases[l]])
    /\ UNCHANGED <<now, missions, endedAt, rows, shared>>

\* It reads the mission; the lease must not have expired and the mission must
\* still be at the version of the lease.
ReadMissionToRefresh(p, ttl) ==
    LET l == job[p].lease
    IN  /\ job[p].pc = "refresh"
        /\ now <= l.expiresAt
        /\ ensureMissionUsable(l.ref, l.version)
        /\ l.version = missions[l.ref].version
        /\ job' = [job EXCEPT ![p].pc = "extend",
                              ![p].lease.expiresAt = LeaseExpiry(ttl, l.ref)]
        /\ UNCHANGED <<now, missions, endedAt, rows, shared>>

UpdateMissionLease(p) ==
    /\ job[p].pc = "extend"
    /\ leases' = [leases EXCEPT ![job[p].leaseId] = job[p].lease]
    /\ Finish(p)
    /\ UNCHANGED <<now, missions, endedAt, projections, credentials, shared>>

-----------------------------------------------------------------------------
(* Refusals, the missions, the clock.                                      *)

\* A check fails, a store call fails or the process dies before it writes.
Refuse(p) ==
    /\ job[p].pc # "idle"
    /\ Finish(p)
    /\ UNCHANGED <<now, missions, endedAt, rows, shared>>

\* The lifecycle changes a mission.
MissionStep ==
    /\ Missions!Next
    /\ \A r \in Refs : missions'[r].version <= MaxVersion
    /\ endedAt' = [r \in Refs |-> [v \in 1..MaxVersion |->
          IF /\ missions[r].state = "active" /\ missions[r].version = v
             /\ missions'[r] # missions[r]
          THEN now ELSE endedAt[r][v]]]
    /\ UNCHANGED <<now, rows, shared, job>>

Tick ==
    /\ now < MaxTime
    /\ now' = now + 1
    /\ UNCHANGED <<missions, endedAt, rows, shared, job>>

Init ==
    /\ now = 0
    /\ Missions!Init
    /\ endedAt = [r \in Refs |-> [v \in 1..MaxVersion |-> MaxTime + 1]]
    /\ projections = [i \in ProjectionIds |-> NoProjection]
    /\ credentials = [c \in CredentialIds |-> NoPayload]
    /\ leases = [l \in LeaseIds |-> NoLease]
    /\ shared = {}
    /\ job = [p \in Handlers |-> Idle]

Arrive(p) ==
    \/ \E r \in Refs, ttl \in RequestedTTLs :
          CreateProjection(p, r, ttl) \/ CreateMissionLease(p, r, ttl)
    \/ \E i \in ProjectionIds :
          \/ RevokeProjection(p, i)
          \/ \E n \in Nonces : ExchangeProjectionToken(p, i, n)
    \/ \E l \in LeaseIds : RefreshMissionLease(p, l)

Continue(p) ==
    \/ SaveProjection(p)
    \/ SaveRevocation(p)
    \/ \E ttl \in RequestedTTLs :
          ReadMissionToExchange(p, ttl) \/ ReadMissionToRefresh(p, ttl)
    \/ IssueCredential(p)
    \/ SaveMissionLease(p)
    \/ UpdateMissionLease(p)
    \/ Refuse(p)

Next ==
    \/ \E p \in Handlers : Arrive(p) \/ Continue(p)
    \/ MissionStep
    \/ Tick

Spec == Init /\ [][Next]_vars

-----------------------------------------------------------------------------
(* Properties of any number of overlapping handlers.                       *)

\* Every row, token and job has its type.
TypeOK ==
    /\ now \in 0..MaxTime
    /\ projections \in [ProjectionIds -> Projections]
    /\ credentials \in [CredentialIds -> Payloads]
    /\ leases \in [LeaseIds -> Leases]
    /\ shared \subseteq ProjectionIds
    /\ job \in [Handlers -> Jobs]

\* A lease is a decision a gateway may cache: when its mission has left the
\* version it was given for, by closure or by a grant, it runs out within
\* MaxLeaseTTL, however long a refresh was under way.
LeasesLapse ==
    \A l \in LeaseIds : leases[l] # NoLease =>
        LET r == leases[l].ref
            v == leases[l].version
        IN  (missions[r].state # "active" \/ missions[r].version # v) =>
                leases[l].expiresAt <= endedAt[r][v] + MaxLeaseTTL

\* A credential the broker accepts belongs to an active mission that nobody
\* has changed since the exchange, and ends with its projection and mission at
\* the latest, whatever overlapping writes did to the projection row.
AcceptedIsCurrent ==
    \A c \in CredentialIds : validateCredentialAccessToken(c) =>
        LET k == credentials[c]
            j == projections[k.projection]
        IN  /\ missions[j.ref].state = "active"
            /\ missions[j.ref].version = k.version
            /\ k.expiresAt <= j.expiresAt
            /\ WindowOf[j.ref].expiresAt # 0 =>
                  j.expiresAt <= WindowOf[j.ref].expiresAt

\* A step after which a credential of a projection in S is accepted although
\* the projection was revoked before the step.
AcceptsRevoked(S) ==
    \E c \in CredentialIds :
        /\ credentials'[c] # NoPayload
        /\ credentials'[c].projection \in S
        /\ projections[credentials'[c].projection].status = "revoked"
        /\ validateCredentialAccessToken(c)'

\* Revocation is final on a projection whose requests never overlapped.
RevokedAloneIsFinal == [][~AcceptsRevoked(ProjectionIds \ shared)]_vars

\* "replaying the same nonce returns a conflict": on a projection whose
\* requests never overlapped, a nonce buys one credential, however the
\* exchanges before it ended.
NonceBuysOnce ==
    \A c, d \in CredentialIds :
        (/\ credentials[c] # NoPayload
         /\ credentials[c].projection = credentials[d].projection
         /\ credentials[c].projection \notin shared
         /\ credentials[c].nonce = credentials[d].nonce) => c = d

-----------------------------------------------------------------------------
(* A statement of the repository that does not hold.                       *)

\* "credential verification fails once the projection [...] is revoked": from
\* then on no credential of it is accepted.
RevokedNeverAccepted == [][~AcceptsRevoked(ProjectionIds)]_vars
=============================================================================
