\* Overlapping submissions, approvals and denials of one request under two rules.
SPECIFICATION FairSpec
CONSTANTS
    h1 = h1  h2 = h2  x1 = x1  ann = ann  bob = bob  cat = cat  k1 = k1
    None = None
    Handlers = {h1, h2}
    ExpansionIds = {x1}
    Approvers = {ann, bob}
    RuleIds = {1, 2}
    RuleOf <- MCOneThenTwo
    ContainmentIds = {k1}
INVARIANTS TypeOK QuorumBehindApproval
PROPERTIES  ContainmentStops
CHECK_DEADLOCK FALSE
