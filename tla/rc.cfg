SPECIFICATION Spec
CONSTANTS
    Threads = {t1, t2}
    HeapObjects = {a, b}
    Memories = {m}
    Locals = {s}
    Refs = {r1, r2, r3}
    WeakRefs = {w1, w2}
    None = None
SYMMETRY Symmetry
INVARIANTS  CountsExact BlockOutlivesUse 
PROPERTIES RefinesLifetime
CHECK_DEADLOCK FALSE
