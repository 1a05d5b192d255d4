\* A rule with permitted approvers comes into force after somebody else submitted.
SPECIFICATION Spec
CONSTANTS
    h1 = h1  h2 = h2  x1 = x1  ann = ann  bob = bob  cat = cat  k1 = k1
    None = None
    Handlers = {h1}
    ExpansionIds = {x1}
    Approvers = {ann, bob, cat}
    RuleIds = {1, 2}
    RuleOf <- MCNarrowFirst
    ContainmentIds = {}
INVARIANTS QuorumIsPermitted
CHECK_DEADLOCK FALSE
