SPECIFICATION MCSpec
CONSTANTS
    a = a  b = b  c = c
    a0 = a0  a1 = a1  b1 = b1  c1 = c1  c2 = c2  c3 = c3
    None = None
    Files <- MCFiles
    TextsOf <- MCCyclicTextsOf
    IncludesOf <- MCIncludesOf
    Candidates <- MCCandidates
    Requests = {q1}
    Outcomes = {TRUE}
    Diagnosable = {}
    MaxOpen = 2
    Parts <- MCParts
    MaxParts = 2
    MaximumHeaderSize = 11
    MaximumMessageSize = 2
    Invalid = Invalid
    t1 = t1  t2 = t2
    Threads = {t1, t2}
    HeapObjects = {o1, o2}
    Memories = {}
    Locals = {}
    Refs = {r1, r2, r3}
    WeakRefs = {w1}
INVARIANTS AnsweredOnce ReceivedAsSent
PROPERTIES EventuallyAnswered EventuallyReceived EventuallyFreed
CHECK_DEADLOCK FALSE
