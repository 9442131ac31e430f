SPECIFICATION Spec
CONSTANTS
    a = a  b = b  c = c
    a0 = a0  a1 = a1  b1 = b1  c1 = c1  c2 = c2  c3 = c3
    None = None
    Files <- MCFiles
    TextsOf <- MCTextsOf
    IncludesOf <- MCIncludesOf
    Candidates <- MCCandidates
    Requests = {}
    Outcomes = {TRUE, FALSE}
    Diagnosable = {c}
    MaxOpen = 2
SYMMETRY Symmetry
INVARIANTS ClosedRootsForgotten OpenFilesCurrent DiagnosticsCurrent
PROPERTY BodiesKept
CHECK_DEADLOCK FALSE
