-------------------------- MODULE AuthorityRegions --------------------------
(***************************************************************************)
(* Authority regions: what a mission may do, and the operations on regions *)
(* that evaluation, delegation, expansion and negotiation use.             *)
(*                                                                         *)
(* A resource id is the sequence of its path segments.  A segment of a     *)
(* pattern may be one of the wildcards "*" and "**"; other globs inside a  *)
(* segment are left out.  A context is the set of facts that hold in it,   *)
(* and the constraints of a grant are the facts it asks for, {} if none.   *)
(***************************************************************************)
EXTENDS Integers, Sequences, SequencesExt

Wildcards == {"*", "**"}

Grants == [type : STRING, id : Seq(STRING), actions : SUBSET STRING,
           constraints : SUBSET STRING]
Regions == [resources : Seq(Grants), forbidden : SUBSET STRING]

\* A list with the entry "*" has everything.
contains(values, want) == "*" \in values \/ want \in values

\* A trailing "**" stands for a whole subtree; every other wildcard stands for
\* one segment, whatever that segment is.
resourceIDMatches(pattern, id) ==
    \/ pattern \in {<<"*">>, << >>, id}
    \/ IF Len(pattern) > 1 /\ Last(pattern) = "**"
       THEN IsPrefix(Front(pattern), id)
       ELSE /\ Len(pattern) = Len(id)
            /\ \A k \in DOMAIN id : pattern[k] \in Wildcards \/ pattern[k] = id[k]

\* resourceMatches for an action, grantsResource for a grant: a grant asked
\* about is compared like an action, its wildcards taken literally.
resourceMatches(grant, resource) ==
    /\ grant.type \in {"*", "", resource.type}
    /\ resourceIDMatches(grant.id, resource.id)

forbids(region, a) ==
    contains(region.forbidden, a.operation) \/ contains(region.forbidden, a.name)

\* The grants that permit the action, their constraints aside.
GrantsFor(region, a) ==
    IF forbids(region, a) THEN {}
    ELSE {grant \in Range(region.resources) : /\ resourceMatches(grant, a)
                                              /\ contains(grant.actions, a.operation)}

actionInScope(region, a) == GrantsFor(region, a) # {}

\* Seeded defect: the constraints of the grants are not enforced.
InScopeInAnyContext(region, a, context) == actionInScope(region, a)

actionInScopeForContext(region, a, context) ==
    \E grant \in GrantsFor(region, a) : grant.constraints \subseteq context

\* What a grant of a region asks for, as an action of its own name.
ActionOf(grant, operation) ==
    [type |-> grant.type, id |-> grant.id, operation |-> operation, name |-> operation]

\* The region of one action, used to ask for an expansion.
authorityForAction(a) ==
    [resources |-> <<[type |-> a.type, id |-> a.id, actions |-> {a.operation},
                      constraints |-> {}]>>,
     forbidden |-> {}]

authorityConflictsWithForbiddenActions(region, requested) ==
    \E k \in DOMAIN requested.resources :
        \E op \in requested.resources[k].actions : contains(region.forbidden, op)

\* Seeded defect: the new actions replace those of the grant.
ReplaceActions(grant, extra) ==
    [grant EXCEPT !.actions = extra.actions,
                  !.constraints = IF @ = {} THEN extra.constraints ELSE @]

\* The actions of extra join those of a grant for the same resource; its
\* constraints come along only where there were none.
MergeGrants(grant, extra) ==
    [grant EXCEPT !.actions = @ \cup {op \in extra.actions : ~contains(@, op)},
                  !.constraints = IF @ = {} THEN extra.constraints ELSE @]

\* A requested grant joins the first grant for the same resource, or is added
\* at the end; a grant without a type, an id or an action is skipped.
JoinGrant(resources, extra) ==
    LET same == {k \in DOMAIN resources : resources[k].type = extra.type /\
                                          resources[k].id = extra.id}
        first == CHOOSE k \in same : \A l \in same : k <= l
    IN  IF extra.type = "" \/ extra.id = << >> \/ extra.actions = {} THEN resources
        ELSE IF same = {} THEN Append(resources, extra)
        ELSE [resources EXCEPT ![first] = MergeGrants(@, extra)]

\* The requested grants join one after the other.
mergeAuthority(region, requested) ==
    LET asked == requested.resources
        joined[n \in 0..Len(asked)] ==
            IF n = 0 THEN region.resources ELSE JoinGrant(joined[n - 1], asked[n])
    IN  [region EXCEPT !.resources = joined[Len(asked)]]

\* Seeded defect: any grant may carry the operations a child asks for.
ActionsAnywhere(parent, child) ==
    /\ \A k \in DOMAIN child.resources : \E l \in DOMAIN parent.resources :
          resourceMatches(parent.resources[l], child.resources[k])
    /\ \A f \in parent.forbidden : contains(child.forbidden, f)

\* Every grant of the child lies within one grant of the parent, and the child
\* forbids what the parent forbids.  Constraints are not compared.
authoritySubset(parent, child) ==
    /\ \A k \in DOMAIN child.resources : \E l \in DOMAIN parent.resources :
          /\ resourceMatches(parent.resources[l], child.resources[k])
          /\ \A op \in child.resources[k].actions :
                contains(parent.resources[l].actions, op)
    /\ \A f \in parent.forbidden : contains(child.forbidden, f)

\* What of a grant the parent covers is offered, if that is any action.
OfferGrant(parent, offered, grant) ==
    LET covered == {op \in grant.actions : actionInScope(parent, ActionOf(grant, op))}
    IN  IF covered = {} THEN offered
        ELSE Append(offered, [grant EXCEPT !.actions = covered])

\* What of the request the parent covers.
authorityIntersection(parent, requested) ==
    LET asked == requested.resources
        offered[n \in 0..Len(asked)] ==
            IF n = 0 THEN << >> ELSE OfferGrant(parent, offered[n - 1], asked[n])
    IN  [resources |-> offered[Len(asked)], forbidden |-> parent.forbidden]

allRequestedActionsInScope(parent, requested) ==
    \A k \in DOMAIN requested.resources :
        \A op \in requested.resources[k].actions :
            actionInScope(parent, ActionOf(requested.resources[k], op))
=============================================================================
