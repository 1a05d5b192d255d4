--------------------------- MODULE ProviderAnswers ---------------------------
(***************************************************************************)
(* What the integrations answer from the binding they found: who asks, by  *)
(* the request or by its claims, what the binding holds against it, and    *)
(* the context a mission is then evaluated in.  For GitHub, what a webhook *)
(* says and how the decisions on the files of a change add up.             *)
(***************************************************************************)
EXTENDS ProviderRules

\* Seeded defect: the context of the request wins.
AnswerOverridden(b, q, subject, reasons, facts) ==
    [id |-> b.id, subject |-> subject, reasons |-> reasons, accepted |-> reasons = {},
     context |-> Over(q.context, Over(facts, [binding |-> {b.id}])),
     row |-> [b EXCEPT !.lastSubject = subject,
                       !.lastStatus = IF reasons = {} THEN "accepted" ELSE "denied"]]

\* Accepted and denied answers alike are noted on the row.  What the provider
\* states goes into the context over what the request put there.
Answer(b, q, subject, reasons, facts) ==
    [id |-> b.id, subject |-> subject, reasons |-> reasons, accepted |-> reasons = {},
     context |-> Over(Over(facts, [binding |-> {b.id}]), q.context),
     row |-> [b EXCEPT !.lastSubject = subject,
                       !.lastStatus = IF reasons = {} THEN "accepted" ELSE "denied"]]

ListOrClaim(given, claims, claim) ==
    FirstList(<<CleanStringList(given), StringsClaim(claims, claim)>>)

OktaAnswer(b, q) ==
    LET subject == firstString(<<q.subject, StringClaim(q.claims, b.subjectClaim),
                                 StringClaim(q.claims, "sub")>>)
        groups == ListOrClaim(q.groups, q.claims, b.groupClaim)
        scopes == FirstList(<<ListOrClaim(q.scopes, q.claims, b.scopeClaim),
                              {StringClaim(q.claims, "scope")} \ {""}>>)
        reasons ==
            Unless(Allows(b.subjects, subject), "subject_not_allowed")
            \cup Unless(GroupRequirementSatisfied(b.groups, groups, b.mode),
                        "required_group_missing")
    IN  IF subject = "" THEN Refused
        ELSE Answer(b, q, subject, reasons,
                [subject |-> {subject}, groups |-> groups, scopes |-> scopes,
                 admin |-> {HasAny(groups, b.admins)}])

EntraAnswer(b, q) ==
    LET subject == firstString(<<q.subject, StringClaim(q.claims, b.subjectClaim),
                                 StringClaim(q.claims, "oid"), StringClaim(q.claims, "sub")>>)
        groups == ListOrClaim(q.groups, q.claims, b.groupClaim)
        roles == ListOrClaim(q.roles, q.claims, b.rolesClaim)
        reasons ==
            Unless(Allows(b.subjects, subject), "subject_not_allowed")
            \cup Unless(GroupRequirementSatisfied(b.groups, groups, b.mode),
                        "required_group_missing")
    IN  IF subject = "" THEN Refused
        ELSE Answer(b, q, subject, reasons,
                [subject |-> {subject}, groups |-> groups, roles |-> roles,
                 admin |-> {HasAny(groups, b.admins)}])

SlackAnswer(b, q) ==
    LET user == firstString(<<q.user, StringClaim(q.claims, "sub"),
                              StringClaim(q.claims, "user_id")>>)
        email == firstString(<<q.email, StringClaim(q.claims, "email")>>)
        roles == ListOrClaim(q.roles, q.claims, b.roleClaim)
        reasons ==
            Unless(Allows(b.users, user) \/ email \in b.users, "user_not_allowed")
            \cup Unless(q.channel \notin b.blocked, "channel_blocked")
            \cup Unless(Allows(b.channels, q.channel), "channel_not_allowed")
            \cup Unless(GroupRequirementSatisfied(b.roles, roles, b.mode),
                        "required_role_missing")
            \cup Unless(Allows(b.actions, q.action), "action_not_allowed")
    IN  IF user = "" THEN Refused
        ELSE Answer(b, q, user, reasons,
                [subject |-> {user}, email |-> {email}, groups |-> roles,
                 channel |-> {q.channel}, action |-> {q.action},
                 admin |-> {HasAny(roles, b.admins)}])

\* Account, subject and email: one of them is enough.
AtlassianUser(b, q) ==
    LET account == firstString(<<q.account, StringClaim(q.claims, "account_id"),
                                 StringClaim(q.claims, "accountId")>>)
    IN  [account |-> account,
         subject |-> firstString(<<q.subject, StringClaim(q.claims, b.subjectClaim), account>>),
         email |-> firstString(<<q.email, StringClaim(q.claims, b.emailClaim)>>),
         groups |-> ListOrClaim(q.groups, q.claims, b.groupClaim)]

AtlassianIdentityReasons(b, u) ==
    Unless(ContainsAnyIdentity(b.subjects, {u.account, u.subject, u.email}),
           "subject_not_allowed")
    \cup Unless(FoldedRequirementSatisfied(b.groups, u.groups, b.mode),
                "required_group_missing")

JiraAnswer(b, q) ==
    LET u == AtlassianUser(b, q)
        reasons ==
            AtlassianIdentityReasons(b, u)
            \cup Unless(Allows(LowerAll(b.projects), ProjectKey(q)), "project_not_allowed")
            \cup Unless(Allows(LowerAll(b.jiraActions), Lower(q.action)), "action_not_allowed")
    IN  IF firstString(<<u.subject, u.email>>) = "" THEN Refused
        ELSE Answer(b, q, firstString(<<u.subject, u.account, u.email>>), reasons,
                [subject |-> {u.subject}, account |-> {u.account}, email |-> {u.email},
                 groups |-> u.groups, product |-> {"jira"}, project |-> {ProjectKey(q)},
                 action |-> {q.action}])

ConfluenceAnswer(b, q) ==
    LET u == AtlassianUser(b, q)
        reasons ==
            AtlassianIdentityReasons(b, u)
            \cup Unless(Allows(LowerAll(b.spaces), Lower(q.space)), "space_not_allowed")
            \cup Unless(Allows(LowerAll(b.pageActions), Lower(q.action)), "action_not_allowed")
    IN  IF firstString(<<u.subject, u.email>>) = "" THEN Refused
        ELSE Answer(b, q, firstString(<<u.subject, u.account, u.email>>), reasons,
                [subject |-> {u.subject}, account |-> {u.account}, email |-> {u.email},
                 groups |-> u.groups, product |-> {"confluence"}, space |-> {q.space},
                 action |-> {q.action}])

SalesforceUser(b, q) ==
    LET user == firstString(<<q.user, StringClaim(q.claims, "user_id"),
                              StringClaim(q.claims, "userId")>>)
    IN  [user |-> user,
         subject |-> firstString(<<q.subject, StringClaim(q.claims, b.subjectClaim), user>>),
         username |-> firstString(<<q.username, StringClaim(q.claims, b.usernameClaim),
                                    StringClaim(q.claims, "preferred_username")>>),
         email |-> firstString(<<q.email, StringClaim(q.claims, b.emailClaim)>>),
         profile |-> firstString(<<q.profile, StringClaim(q.claims, b.profileClaim),
                                   StringClaim(q.claims, "profile_name")>>),
         sets |-> ListOrClaim(q.sets, q.claims, b.setsClaim)]

SalesforceIdentityReasons(b, u) ==
    Unless(ContainsAnyIdentity(b.subjects, {u.user, u.subject, u.username, u.email}),
           "subject_not_allowed")
    \cup Unless(Allows(LowerAll(b.profiles), Lower(u.profile)), "required_profile_missing")
    \cup Unless(FoldedRequirementSatisfied(b.sets, u.sets, b.mode),
                "required_permission_set_missing")

SalesforceAnswer(b, q) ==
    LET u == SalesforceUser(b, q)
        reasons ==
            SalesforceIdentityReasons(b, u)
            \cup Unless(Allows(LowerAll(b.objects), Lower(q.object)), "object_not_allowed")
            \cup Unless(Allows(LowerAll(b.recordTypeIDs), Lower(q.recordTypeID)),
                        "record_type_id_not_allowed")
            \cup Unless(Allows(LowerAll(b.recordTypeNames), Lower(q.recordTypeName)),
                        "record_type_name_not_allowed")
            \cup Unless(Allows(LowerAll(b.actions), Lower(q.action)), "action_not_allowed")
        subject == firstString(<<u.subject, u.user, u.username, u.email>>)
    IN  IF subject = "" THEN Refused
        ELSE Answer(b, q, subject, reasons,
                [subject |-> {u.subject}, username |-> {u.username}, email |-> {u.email},
                 profile |-> {u.profile}, groups |-> u.sets, object |-> {q.object},
                 action |-> {q.action}])

\* Nobody in particular may ask about a ticket whose binding names no subjects.
TicketAnswer(b, q) ==
    LET subject == firstString(<<q.subject, StringClaim(q.claims, b.subjectClaim)>>)
        groups == CleanStringList(FirstList(<<q.groups, StringsClaim(q.claims, b.groupClaim)>>))
        reasons ==
            Unless(Allows(LowerAll(b.subjects), Lower(subject)), "subject_not_allowed")
            \cup Unless(FoldedRequirementSatisfied(b.groups, groups, b.mode),
                        "required_group_missing")
    IN  Answer(b, q, subject, reasons,
            [subject |-> {subject}, groups |-> groups, ticket |-> {b.ticket},
             state |-> {b.state}, admin |-> {HasAny(LowerAll(groups), LowerAll(b.admins))}])

AnswerFrom(provider, b, q) ==
    CASE provider = "okta"       -> OktaAnswer(b, q)
      [] provider = "entra"      -> EntraAnswer(b, q)
      [] provider = "slack"      -> SlackAnswer(b, q)
      [] provider = "atlassian"  -> IF q.product = "jira" THEN JiraAnswer(b, q)
                                    ELSE ConfluenceAnswer(b, q)
      [] provider = "salesforce" -> SalesforceAnswer(b, q)
      [] provider = "servicenow" -> TicketAnswer(b, q)

\* The states a ticket can be moved to.
validTicketState(s) == s \in {"new", "in_progress", "on_hold", "resolved", "closed"}

NewBinding(provider, q, id, now) ==
    CASE provider = "github"     -> CreateRepositoryBinding(q, id, now)
      [] provider = "okta"       -> OktaAppBinding(q, id, now)
      [] provider = "entra"      -> EntraAppRegistration(q, id, now)
      [] provider = "slack"      -> SlackWorkspaceBinding(q, id, now)
      [] provider = "atlassian"  -> AtlassianSiteBinding(q, id, now)
      [] provider = "salesforce" -> SalesforceOrgBinding(q, id, now)
      [] provider = "servicenow" -> TicketBinding(q, id, now)

-----------------------------------------------------------------------------
(* GitHub.                                                                 *)

\* The full name of the repository, or its owner and name when both are there.
NoRepository == [url |-> FALSE, owner |-> "", name |-> "", git |-> FALSE]
RepositoryFromPayload(payload) ==
    IF payload.fullName # NoRepository THEN NormalizeRepositoryName(payload.fullName)
    ELSE IF payload.owner # "" /\ payload.name # ""
    THEN NormalizeRepositoryName([NoRepository EXCEPT !.owner = payload.owner,
                                                      !.name = payload.name])
    ELSE NoRepository

\* The head of a pull request replaces the commit a push arrived at.
SummarizeWebhook(payload) ==
    [repository |-> RepositoryFromPayload(payload),
     sha |-> firstString(<<payload.head, payload.after>>)]

FileOperation(file) ==
    IF file.operation # "" THEN file.operation
    ELSE IF Lower(file.status) \in {"removed", "deleted"} THEN "delete" ELSE "edit"

MergeCheckContext(q, file, repository) ==
    Over([repository |-> {repository}, sha |-> {q.sha}, path |-> {file.path}], q.context)

ConclusionForDecision(decision) ==
    CASE decision \in {"allow", "allow_with_constraints"}      -> "success"
      [] decision \in {"deny", "suspend"}                      -> "failure"
      [] decision \in {"require_approval", "require_expansion"} -> "action_required"
      [] OTHER                                                 -> "neutral"

Severity == [success |-> 0, neutral |-> 1, action_required |-> 2, failure |-> 3]

\* Seeded defect: the last file decides.
LastConclusion(current, next) == next

CombineConclusion(current, next) ==
    IF Severity[next] > Severity[current] THEN next ELSE current
=============================================================================
