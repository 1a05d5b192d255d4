\* Two overlapping requests on one lease of a mission without end.
SPECIFICATION Spec
CONSTANTS
    h1 = h1  h2 = h2  m1 = m1  i1 = i1  i2 = i2
    c1 = c1  c2 = c2  l1 = l1  n1 = n1  n2 = n2
    None = None
    Handlers = {h1, h2}
    Refs = {m1}
    ProjectionIds = {}
    CredentialIds = {}
    LeaseIds = {l1}
    Nonces = {}
    Actions = {}
    WindowOf <- MCWindowOpen
    RequestedTTLs = {0, 3}
    ProjectionTTL = 2
    CredentialTTL = 1
    MaxCredentialTTL = 2
    LeaseTTL = 1
    MaxLeaseTTL = 2
    MaxVersion = 3
    MaxTime = 6
SYMMETRY Symmetry
INVARIANTS LeasesLapse
CHECK_DEADLOCK FALSE
