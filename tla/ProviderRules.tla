---------------------------- MODULE ProviderRules ----------------------------
(***************************************************************************)
(* What the integrations compute: the binding a request creates, the       *)
(* conflicts the stores refuse, the order in which they list, the binding  *)
(* a request is answered from.                                             *)
(*                                                                         *)
(* Names are strings and "" is a name left out.  A list is a set of names, *)
(* since nothing depends on its order.  A claim is a text or a list, and   *)
(* texts that identify somebody hold one word.  A fact of the context is a *)
(* set of values; the prefix of the provider in its key is left out.       *)
(***************************************************************************)
EXTENDS Names, Integers, FiniteSets

CONSTANT Rank  \* position of names in the order of the stores

FirstList(lists) ==
    LET given == {k \in DOMAIN lists : lists[k] # {}}
    IN  IF given = {} THEN {} ELSE lists[CHOOSE k \in given : \A l \in given : k <= l]

Items(claim) == {claim.of[k] : k \in DOMAIN claim.of}

StringClaim(claims, key) ==
    IF key \in DOMAIN claims /\ ~claims[key].list THEN claims[key].of[1] ELSE ""

AudienceClaim(claims) ==
    IF "aud" \in DOMAIN claims THEN firstString(claims["aud"].of) ELSE ""

StringsClaim(claims, key) ==
    IF key \in DOMAIN claims THEN CleanStringList(Items(claims[key])) ELSE {}

\* A match mode and what it asks of the names somebody holds.
Modes == {"any", "all"}
MatchMode(q) == firstString(<<Lower(q.mode), "any">>)

GroupRequirementSatisfied(required, groups, mode) ==
    \/ required = {}
    \/ IF mode = "all" THEN required \subseteq groups ELSE required \cap groups # {}

\* The same for providers that ignore case.
FoldedRequirementSatisfied(required, held, mode) ==
    GroupRequirementSatisfied(LowerAll(required), LowerAll(held), mode)

HasAny(values, candidates) == values \cap candidates # {}

\* An empty list restricts nothing.
Allows(list, x) == list = {} \/ x \in list
ContainsAnyIdentity(allowed, candidates) ==
    allowed = {} \/ HasAny(LowerAll(allowed), LowerAll(candidates))

Unless(holds, reason) == IF holds THEN {} ELSE {reason}

-----------------------------------------------------------------------------
(* Addresses.                                                              *)

AbsoluteURL(u, schemes) == u.scheme \in schemes /\ u.host # ""

\* Trailing slashes go; letters and path stay.
NormalizeIssuer(u) == [u EXCEPT !.slash = FALSE]

\* Only scheme and host stay, in lower case.
NormalizeSiteURL(u) == [u EXCEPT !.host = Lower(u.host), !.path = "", !.slash = FALSE]
SiteURLAccepted(u) == AbsoluteURL(u, {"https", "http"}) /\ ~u.user

NormalizeRepositoryName(r) ==
    [r EXCEPT !.url = FALSE, !.git = FALSE, !.owner = Lower(r.owner), !.name = Lower(r.name)]

\* A repository given in one piece or as an owner and a name of its own.
NormalizeRepository(owner, name, r) ==
    LET given == NormalizeRepositoryName(r)
    IN  [given EXCEPT !.owner = Lower(firstString(<<owner, given.owner>>)),
                      !.name = Lower(firstString(<<name, given.name>>))]

\* One piece needs both halves, and together the parts name an owner and a name.
RepositoryAccepted(owner, name, r) ==
    /\ (r.owner = "") = (r.name = "")
    /\ firstString(<<owner, r.owner>>) # "" /\ firstString(<<name, r.name>>) # ""

-----------------------------------------------------------------------------
(* Bindings.  A request that is refused creates the row Refused.           *)

Refused == [id |-> 0]

Bound(q, id, now, fields) ==
    Over([id |-> id, created |-> now, status |-> "active", mission |-> q.mission,
          tenant |-> firstString(<<q.tenant, "default">>),
          lastSubject |-> "", lastStatus |-> ""], fields)

CreateRepositoryBinding(q, id, now) ==
    IF RepositoryAccepted(q.owner, q.name, q.repository)
    THEN Bound(q, id, now,
            [repository |-> NormalizeRepository(q.owner, q.name, q.repository),
             lastDelivery |-> 0, lastSHA |-> "", lastCheck |-> ""])
    ELSE Refused

OktaAppBinding(q, id, now) ==
    IF AbsoluteURL(q.issuer, {"https", "http"}) /\ q.client # "" /\ q.mission # ""
       /\ MatchMode(q) \in Modes
    THEN Bound(q, id, now,
            [issuer |-> NormalizeIssuer(q.issuer), client |-> q.client,
             groups |-> CleanStringList(q.groups), admins |-> CleanStringList(q.admins),
             subjects |-> CleanStringList(q.subjects), mode |-> MatchMode(q),
             groupClaim |-> firstString(<<q.groupClaim, "groups">>),
             subjectClaim |-> firstString(<<q.subjectClaim, "sub">>),
             scopeClaim |-> firstString(<<q.scopeClaim, "scp">>)])
    ELSE Refused

EntraAppRegistration(q, id, now) ==
    IF AbsoluteURL(q.issuer, {"https"}) /\ q.client # "" /\ q.mission # ""
       /\ MatchMode(q) \in Modes
    THEN Bound(q, id, now,
            [issuer |-> NormalizeIssuer(q.issuer), client |-> q.client,
             groups |-> CleanStringList(q.groups), admins |-> CleanStringList(q.admins),
             subjects |-> CleanStringList(q.subjects), mode |-> MatchMode(q),
             groupClaim |-> firstString(<<q.groupClaim, "groups">>),
             subjectClaim |-> firstString(<<q.subjectClaim, "sub">>),
             rolesClaim |-> firstString(<<q.rolesClaim, "roles">>)])
    ELSE Refused

SlackWorkspaceBinding(q, id, now) ==
    IF q.workspace # "" /\ q.mission # "" /\ MatchMode(q) \in Modes
    THEN Bound(q, id, now,
            [workspace |-> q.workspace, roles |-> CleanStringList(q.roles),
             admins |-> CleanStringList(q.admins), users |-> CleanStringList(q.users),
             channels |-> CleanStringList(q.channels), blocked |-> CleanStringList(q.blocked),
             actions |-> CleanStringList(q.actions), mode |-> MatchMode(q),
             roleClaim |-> firstString(<<q.roleClaim, "roles">>)])
    ELSE Refused

AtlassianSiteBinding(q, id, now) ==
    IF SiteURLAccepted(q.site) /\ q.mission # "" /\ MatchMode(q) \in Modes
    THEN Bound(q, id, now,
            [site |-> NormalizeSiteURL(q.site), cloud |-> q.cloud,
             projects |-> CleanStringList(q.projects), spaces |-> CleanStringList(q.spaces),
             jiraActions |-> CleanStringList(q.jiraActions),
             pageActions |-> CleanStringList(q.pageActions),
             groups |-> CleanStringList(q.groups), admins |-> CleanStringList(q.admins),
             subjects |-> CleanStringList(q.subjects), mode |-> MatchMode(q),
             groupClaim |-> firstString(<<q.groupClaim, "groups">>),
             subjectClaim |-> firstString(<<q.subjectClaim, "sub">>),
             emailClaim |-> firstString(<<q.emailClaim, "email">>)])
    ELSE Refused

SalesforceOrgBinding(q, id, now) ==
    IF SiteURLAccepted(q.site) /\ q.mission # "" /\ MatchMode(q) \in Modes
    THEN Bound(q, id, now,
            [site |-> NormalizeSiteURL(q.site), org |-> q.org,
             objects |-> CleanStringList(q.objects),
             recordTypeIDs |-> CleanStringList(q.recordTypeIDs),
             recordTypeNames |-> CleanStringList(q.recordTypeNames),
             actions |-> CleanStringList(q.actions), profiles |-> CleanStringList(q.profiles),
             sets |-> CleanStringList(q.sets), subjects |-> CleanStringList(q.subjects),
             adminProfiles |-> CleanStringList(q.adminProfiles),
             adminSets |-> CleanStringList(q.adminSets), mode |-> MatchMode(q),
             subjectClaim |-> firstString(<<q.subjectClaim, "sub">>),
             usernameClaim |-> firstString(<<q.usernameClaim, "username">>),
             emailClaim |-> firstString(<<q.emailClaim, "email">>),
             profileClaim |-> firstString(<<q.profileClaim, "profile">>),
             setsClaim |-> firstString(<<q.setsClaim, "permission_sets">>)])
    ELSE Refused

\* The state a ticket starts in is not checked.
TicketBinding(q, id, now) ==
    IF q.mission # "" /\ q.instance # "" /\ MatchMode(q) \in Modes
    THEN Bound(q, id, now,
            [instance |-> q.instance, ticket |-> q.ticket,
             state |-> firstString(<<q.state, "new">>),
             groups |-> CleanStringList(q.groups), admins |-> CleanStringList(q.admins),
             subjects |-> CleanStringList(q.subjects), mode |-> MatchMode(q),
             groupClaim |-> firstString(<<q.groupClaim, "groups">>),
             subjectClaim |-> firstString(<<q.subjectClaim, "sub">>)])
    ELSE Refused
-----------------------------------------------------------------------------
(* Stores.  Memory compares a new row with the active ones, the database   *)
(* keeps unique indexes over all of them; a list is sorted, and the first  *)
(* binding of the list that matches answers a request.                     *)

GitHubRowsClash(b, e) == e.status = "active" /\ e.repository = b.repository

OktaRowsClash(b, e) ==
    /\ e.status = "active"
    /\ e.issuer = b.issuer /\ e.client = b.client /\ e.mission = b.mission

EntraRowsClash(b, e) ==
    /\ e.status = "active"
    /\ e.issuer = b.issuer /\ e.client = b.client /\ e.mission = b.mission

SlackRowsClash(b, e) ==
    /\ e.status = "active" /\ e.tenant = b.tenant
    /\ e.workspace = b.workspace /\ e.mission = b.mission

AtlassianRowsClash(b, e) ==
    /\ e.status = "active" /\ e.tenant = b.tenant /\ e.mission = b.mission
    /\ e.site = b.site \/ (e.cloud # "" /\ e.cloud = b.cloud)

\* Seeded defect: two rows of one organisation under different addresses pass.
SalesforceSitesClash(b, e) ==
    /\ e.status = "active" /\ e.tenant = b.tenant /\ e.mission = b.mission
    /\ e.site = b.site

SalesforceRowsClash(b, e) ==
    /\ e.status = "active" /\ e.tenant = b.tenant /\ e.mission = b.mission
    /\ e.site = b.site \/ (e.org # "" /\ e.org = b.org)

MemoryConflict(provider, b, e) ==
    CASE provider = "github"     -> GitHubRowsClash(b, e)
      [] provider = "okta"       -> OktaRowsClash(b, e)
      [] provider = "entra"      -> EntraRowsClash(b, e)
      [] provider = "slack"      -> SlackRowsClash(b, e)
      [] provider = "atlassian"  -> AtlassianRowsClash(b, e)
      [] provider = "salesforce" -> SalesforceRowsClash(b, e)
      [] provider = "servicenow" -> FALSE

\* The entries of a row in the unique indexes of its table.
GitHubIndexes(b) == {<<b.repository>>}
OktaIndexes(b) == {<<b.issuer, b.client, b.mission>>}
EntraIndexes(b) == {<<b.issuer, b.client, b.mission>>}
SlackIndexes(b) == {<<b.tenant, b.workspace, b.mission>>}
AtlassianIndexes(b) ==
    {<<"site", b.tenant, b.site, b.mission>>}
    \cup IF b.cloud = "" THEN {} ELSE {<<"cloud", b.tenant, b.cloud, b.mission>>}
SalesforceIndexes(b) ==
    {<<"instance", b.tenant, b.site, b.mission>>}
    \cup IF b.org = "" THEN {} ELSE {<<"org", b.tenant, b.org, b.mission>>}

Indexes(provider, b) ==
    CASE provider = "github"     -> GitHubIndexes(b)
      [] provider = "okta"       -> OktaIndexes(b)
      [] provider = "entra"      -> EntraIndexes(b)
      [] provider = "slack"      -> SlackIndexes(b)
      [] provider = "atlassian"  -> AtlassianIndexes(b)
      [] provider = "salesforce" -> SalesforceIndexes(b)
      [] provider = "servicenow" -> {}

Conflict(provider, store, b, e) ==
    IF store = "memory" THEN MemoryConflict(provider, b, e)
    ELSE Indexes(provider, b) \cap Indexes(provider, e) # {}

\* What the lists are sorted by; ids are random.  Memory leaves ties to the
\* id, the database to the time of creation.
URLRank(u) == <<IF u.scheme = "http" THEN 0 ELSE 1, Rank[u.host], Rank[u.path]>>

ListGitHubRepositoryBindings(b) == <<Rank[b.repository.owner], Rank[b.repository.name], b.id>>
ListOktaAppBindings(b) == URLRank(b.issuer) \o <<Rank[b.client], b.id>>
ListEntraAppRegistrations(b) == URLRank(b.issuer) \o <<Rank[b.client], b.id>>
ListSlackWorkspaceBindings(b) == <<Rank[b.workspace], Rank[b.mission], b.id>>
ListAtlassianSiteBindings(b) == URLRank(b.site) \o <<Rank[b.mission], b.id>>
ListSalesforceOrgBindings(b) == URLRank(b.site) \o <<Rank[b.mission], b.id>>

GitHubOrder(b) == <<Rank[b.repository.owner], Rank[b.repository.name], b.created, b.id>>
OktaOrder(b) == URLRank(b.issuer) \o <<Rank[b.client], b.created, b.id>>
EntraOrder(b) == URLRank(b.issuer) \o <<Rank[b.client], b.created, b.id>>
SlackOrder(b) == <<Rank[b.workspace], Rank[b.mission], b.created, b.id>>
AtlassianOrder(b) == URLRank(b.site) \o <<Rank[b.mission], b.created, b.id>>
SalesforceOrder(b) == URLRank(b.site) \o <<Rank[b.mission], b.created, b.id>>

SortKey(provider, store, b) ==
    LET memory == store = "memory"
    IN  CASE provider = "github"     -> IF memory THEN ListGitHubRepositoryBindings(b) ELSE GitHubOrder(b)
          [] provider = "okta"       -> IF memory THEN ListOktaAppBindings(b) ELSE OktaOrder(b)
          [] provider = "entra"      -> IF memory THEN ListEntraAppRegistrations(b) ELSE EntraOrder(b)
          [] provider = "slack"      -> IF memory THEN ListSlackWorkspaceBindings(b) ELSE SlackOrder(b)
          [] provider = "atlassian"  -> IF memory THEN ListAtlassianSiteBindings(b) ELSE AtlassianOrder(b)
          [] provider = "salesforce" -> IF memory THEN ListSalesforceOrgBindings(b) ELSE SalesforceOrder(b)
          [] provider = "servicenow" -> <<b.id>>

Precedes(s, t) == \E k \in DOMAIN s : s[k] < t[k] /\ \A l \in 1..(k - 1) : s[l] = t[l]

FirstListed(provider, store, rows) ==
    CHOOSE b \in rows : \A c \in rows \ {b} :
        Precedes(SortKey(provider, store, b), SortKey(provider, store, c))

-----------------------------------------------------------------------------
(* The binding a request is about.  A request that gives neither mission   *)
(* nor tenant matches the bindings of all of them.                         *)

Hinted(b, q) ==
    /\ b.status = "active"
    /\ q.mission = "" \/ b.mission = q.mission
    /\ q.tenant = "" \/ b.tenant = q.tenant

bindingForRepository(b, repository) ==
    b.status = "active" /\ b.repository = NormalizeRepositoryName(repository)

FirstURL(u, v) == IF u.host # "" THEN u ELSE v

OktaClientHint(q) ==
    firstString(<<q.client, StringClaim(q.claims, "cid"), StringClaim(q.claims, "client_id"),
                  AudienceClaim(q.claims)>>)
OktaServes(q) ==
    AbsoluteURL(FirstURL(q.issuer, q.iss), {"https", "http"}) /\ OktaClientHint(q) # ""
OktaBindingFor(b, q) ==
    /\ Hinted(b, q)
    /\ b.issuer = NormalizeIssuer(FirstURL(q.issuer, q.iss)) /\ b.client = OktaClientHint(q)

EntraClientHint(q) ==
    firstString(<<q.client, StringClaim(q.claims, "appid"), StringClaim(q.claims, "azp"),
                  StringClaim(q.claims, "client_id"), AudienceClaim(q.claims)>>)
EntraServes(q) == AbsoluteURL(FirstURL(q.issuer, q.iss), {"https"}) /\ EntraClientHint(q) # ""
EntraRegistrationFor(b, q) ==
    /\ Hinted(b, q)
    /\ b.issuer = NormalizeIssuer(FirstURL(q.issuer, q.iss)) /\ b.client = EntraClientHint(q)

SlackServes(q) == q.workspace # "" /\ q.action # ""
SlackBindingFor(b, q) == Hinted(b, q) /\ b.workspace = q.workspace

\* Address and second name (cloud, organisation) of a site: an address that is
\* given must match, and a second name that both sides have must match.
SiteServes(q, name) == IF q.site.host = "" THEN name # "" ELSE SiteURLAccepted(q.site)
SiteMatches(site, name, q, given) ==
    IF q.site.host # ""
    THEN site = NormalizeSiteURL(q.site) /\ (given = "" \/ name = "" \/ name = given)
    ELSE name = given

ProjectKeyFromIssueKey(issue) == IF issue = << >> THEN "" ELSE issue[1]
ProjectKey(q) == Lower(firstString(<<q.project, ProjectKeyFromIssueKey(q.issue)>>))

AtlassianServes(q) ==
    /\ q.action # "" /\ SiteServes(q, q.cloud)
    /\ IF q.product = "jira" THEN ProjectKey(q) # "" ELSE q.space # ""
AtlassianBindingFor(b, q) == Hinted(b, q) /\ SiteMatches(b.site, b.cloud, q, q.cloud)

SalesforceServes(q) == q.action # "" /\ q.object # "" /\ SiteServes(q, q.org)
SalesforceBindingFor(b, q) == Hinted(b, q) /\ SiteMatches(b.site, b.org, q, q.org)

\* The ticket that is to be evaluated, or the one the context names.
requestedSysID(q) ==
    IF q.evaluates /\ q.onTicket THEN q.ticket
    ELSE IF "ticket" \in DOMAIN q.context THEN CHOOSE t \in q.context["ticket"] : TRUE
    ELSE ""
TicketBindingFor(b, q) ==
    LET ticket == requestedSysID(q)
    IN  Hinted(b, q) /\ (ticket = "" \/ b.ticket = "" \/ b.ticket = ticket)

Serves(provider, q) ==
    CASE provider = "okta"       -> OktaServes(q)
      [] provider = "entra"      -> EntraServes(q)
      [] provider = "slack"      -> SlackServes(q)
      [] provider = "atlassian"  -> AtlassianServes(q)
      [] provider = "salesforce" -> SalesforceServes(q)
      [] provider = "servicenow" -> TRUE

Matches(provider, b, q) ==
    CASE provider = "okta"       -> OktaBindingFor(b, q)
      [] provider = "entra"      -> EntraRegistrationFor(b, q)
      [] provider = "slack"      -> SlackBindingFor(b, q)
      [] provider = "atlassian"  -> AtlassianBindingFor(b, q)
      [] provider = "salesforce" -> SalesforceBindingFor(b, q)
      [] provider = "servicenow" -> TicketBindingFor(b, q)
=============================================================================
