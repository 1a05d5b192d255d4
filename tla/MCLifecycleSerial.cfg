\* One request at a time, a tree of three missions, an expansion, a clock.
SPECIFICATION Spec
CONSTANTS
    h1 = h1  h2 = h2  m1 = m1  m2 = m2  m3 = m3
    q1 = q1  x1 = x1  x2 = x2  read = read  write = write
    None = None
    Handlers = {h1}
    Refs = {m1, m2, m3}
    ProposalIds = {q1}
    ExpansionIds = {x1}
    Actions = {read, write}
    TermsOf <- MCTermsOfLate
    AskOf <- MCAskOfOne
    DelegationTerms <- MCDelegationBounds
    SeenAhead = 1
    MaxTime = 2
    Faults = {}
SYMMETRY Symmetry
INVARIANTS RevokedSubtreeUnusable LedgerIsChain
PROPERTIES ImplementsContract
