\* Two overlapping requests on one mission; calls and ledger appends may fail.
SPECIFICATION Spec
CONSTANTS
    h1 = h1  h2 = h2  m1 = m1  m2 = m2  m3 = m3
    q1 = q1  x1 = x1  x2 = x2  read = read  write = write
    None = None
    Handlers = {h1, h2}
    Refs = {m1}
    ProposalIds = {q1}
    ExpansionIds = {x1, x2}
    Actions = {read, write}
    TermsOf <- MCTermsOfOne
    AskOf <- MCAskOf
    DelegationTerms <- MCDelegationNone
    SeenAhead = 0
    MaxTime = 0
    Faults = {"call", "append"}
SYMMETRY Symmetry
INVARIANTS DecisionsLedgered
PROPERTIES OnlyGrantReactivates
