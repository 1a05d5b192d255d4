\* Two overlapping requests: does the cascade reach every child?
SPECIFICATION Spec
CONSTANTS
    h1 = h1  h2 = h2  m1 = m1  m2 = m2  m3 = m3
    q1 = q1  x1 = x1  x2 = x2  read = read  write = write
    None = None
    Handlers = {h1, h2}
    Refs = {m1, m2}
    ProposalIds = {q1}
    ExpansionIds = {x1}
    Actions = {read, write}
    TermsOf <- MCTermsOfOne
    AskOf <- MCAskOfOne
    DelegationTerms <- MCDelegationBounds
    SeenAhead = 0
    MaxTime = 0
    Faults = {}
SYMMETRY Symmetry
INVARIANTS RevokedSubtreeUnusable
