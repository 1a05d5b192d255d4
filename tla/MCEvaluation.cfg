SPECIFICATION Spec
CONSTANTS
    h1 = h1
    h2 = h2
    n1 = n1
    wipe = wipe
    toolRule = toolRule
    fileRule = fileRule
    b1 = b1
    b2 = b2
    g1 = g1
    None = None
    Handlers = {h1, h2}
    Nonces = {n1}
    Requests <- MCRequests
    ContractOf <- MCContractOf
    Region <- MCRegionOfMission
    Expansions <- MCExpansions
    Asks <- MCAsks
    Conditions = {"fresh"}
    Suspends = TRUE
    ContainmentIds = {toolRule, fileRule}
    TargetOf <- MCTargetOf
    BundleIds = {b1, b2, g1}
    BundleOf <- MCBundleOf
    Beginnings <- MCBeginnings
    MaxChanges = 2
SYMMETRY Symmetry
INVARIANTS TypeOK NonceServedOnce PolicyRestricts AllowIsGranted ContainedNotAllowed PolicyInForce DerivedInScope GrantsJoin
CHECK_DEADLOCK FALSE
