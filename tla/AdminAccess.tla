----------------------------- MODULE AdminAccess -----------------------------
(***************************************************************************)
(* Who an administrator is and what it may do: static credentials, OIDC    *)
(* tokens, roles, permissions and the tenant an administrator is confined  *)
(* to.  Signatures are external: a token says which key signed it.         *)
(***************************************************************************)
EXTENDS Names, Integers, FiniteSets

CONSTANTS
    Static,  \* the configured credentials, token -> credential
    Oidc,    \* issuer, audience, claim names, keys and group mapping
    Now      \* the time at which tokens are verified

Permissions == {"admin:read", "missions:approve", "missions:operate",
                "governance:manage", "integrations:manage"}

\* The names of the code have no capitals.
ASSUME AccessAssumption ==
    \A x \in Permissions \cup {"", "owner", "integration-admin"} : x \notin DOMAIN Lowered

normalizeAdminRoles(roles) ==
    LET canonical(r) ==
            CASE r \in {"admin", "administrator", "security-admin", "super-admin"} -> "owner"
              [] r \in {"integration_admin", "integration admin"} -> "integration-admin"
              [] OTHER -> r
    IN  {canonical(r) : r \in LowerAll(roles) \ {"", "none"}}

normalizeAdminPermissions(permissions) == LowerAll(permissions) \ {""}

rolePermissionStrings(roles) ==
    UNION {CASE r = "owner"             -> Permissions
             [] r = "approver"          -> {"admin:read", "missions:approve"}
             [] r = "auditor"           -> {"admin:read"}
             [] r = "operator"          -> {"admin:read", "missions:operate", "governance:manage"}
             [] r = "integration-admin" -> {"admin:read", "integrations:manage"}
             [] OTHER                   -> {} : r \in roles}

\* A static credential that names neither roles nor permissions is the owner's.
newAdminIdentity(subject, tenant, groups, roles, permissions, legacyOwner) ==
    LET own == normalizeAdminPermissions(permissions)
        named == normalizeAdminRoles(roles)
        held == IF legacyOwner /\ named = {} /\ own = {} THEN {"owner"} ELSE named
    IN  [subject |-> subject, tenant |-> tenant, groups |-> groups, roles |-> held,
         permissions |-> own \cup rolePermissionStrings(held)]

adminIdentityHasPermission(i, permission) == permission = "" \/ permission \in i.permissions

Nobody == [subject |-> "", tenant |-> "", groups |-> {}, roles |-> {}, permissions |-> {}]

-----------------------------------------------------------------------------
(* Static credentials.  The identities are built twice, once from the      *)
(* credential and once from the identity.                                  *)

CredentialIdentity(c) ==
    newAdminIdentity(c.subject, c.tenant, c.groups, c.roles, c.permissions, TRUE)

NewMultiBearerAuthenticator(i) ==
    newAdminIdentity(i.subject, i.tenant, i.groups, i.roles, i.permissions, TRUE)

StaticIdentities ==
    [t \in {t \in DOMAIN Static : t # "" /\ Static[t].subject # ""} |->
        NewMultiBearerAuthenticator(CredentialIdentity(Static[t]))]

AuthenticateBearer(token) ==
    IF token \in DOMAIN StaticIdentities THEN StaticIdentities[token] ELSE Nobody

-----------------------------------------------------------------------------
(* OIDC tokens.                                                            *)

\* A token without a key id fits the only key there is.
keyForHeader(kid) ==
    IF kid # "" THEN {kid} \cap DOMAIN Oidc.keys
    ELSE IF Cardinality(DOMAIN Oidc.keys) = 1 THEN DOMAIN Oidc.keys ELSE {}

verifyJWT(t) ==
    /\ t.alg = "RS256"
    /\ \E k \in keyForHeader(t.kid) : Oidc.keys[k] = t.signedWith

Leeway == 5  \* minutes a token may be issued in the future

\* A claim that is not there is -1; only exp has to be.
validateJWTTimeClaims(t) ==
    /\ t.exp # -1 /\ Now < t.exp
    /\ t.nbf # -1 => Now >= t.nbf
    /\ t.iat # -1 => Now + Leeway >= t.iat

audienceMatches(t) == Oidc.audience \in t.aud

rolesForAdminGroups(groups) ==
    normalizeAdminRoles(UNION {Oidc.mapping[g] : g \in groups \cap DOMAIN Oidc.mapping})

\* Claims under the configured names; a tenant also under the name "tenant"
\* unless another name was configured.
TextClaim(t, name) == IF name \in DOMAIN t.text THEN t.text[name] ELSE ""
ListClaim(t, name) == IF name \in DOMAIN t.lists THEN CleanStringList(t.lists[name]) ELSE {}

AuthenticateOIDC(t) ==
    LET subject == TextClaim(t, Oidc.subjectClaim)
        groups == ListClaim(t, Oidc.groupsClaim)
        tenant == firstString(<<TextClaim(t, Oidc.tenantClaim),
                                IF Oidc.tenantClaim = "tenant_subject"
                                THEN TextClaim(t, "tenant") ELSE "">>)
    IN  IF verifyJWT(t) /\ TextClaim(t, "iss") = Oidc.issuer /\ audienceMatches(t)
           /\ validateJWTTimeClaims(t) /\ subject # ""
        THEN newAdminIdentity(subject, tenant, groups,
                ListClaim(t, Oidc.rolesClaim) \cup rolesForAdminGroups(groups),
                ListClaim(t, Oidc.permissionsClaim), FALSE)
        ELSE Nobody

\* Static credentials that are configured keep OIDC from being used.
AdminAuthenticatorFromEnv(login, presented) ==
    IF login = "static" THEN AuthenticateBearer(presented.token)
    ELSE IF presented.jwt = {} THEN Nobody
    ELSE AuthenticateOIDC(CHOOSE t \in presented.jwt : TRUE)

-----------------------------------------------------------------------------
(* The tenant an administrator is confined to; "" is all of them.          *)

\* The tenant a request is served for, {} when it is refused.
bindAdminTenant(i, requested) ==
    IF i.tenant = "" THEN {requested}
    ELSE IF requested \in {"", i.tenant} THEN {i.tenant} ELSE {}

ensureAdminTenantAccess(i, tenant) == i.tenant = "" \/ tenant = i.tenant
=============================================================================
