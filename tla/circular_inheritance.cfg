SPECIFICATION MCSpec
CONSTANTS
    Packages = {main, s}
    MainPackage = main
    Standard = s
    Classes = {A, B, C, D}
    NoClass = NoClass
    GenericCount <- MCGenericCount
    A = A  B = B  C = C  x = s  y = s
    Exercised = {"inheritance"}
    Generic = {m, n}
    Other = o
    a = a
    b = b
    Key <- MCKey
    MaxDepth = 3
    MaxCreated = 5
    MaxQueued = 2
    f = f  g = g  d = d  i = i
    None = None
    Methods = {f, g, d}
    Deinitializers = {d}
    Initializers = {i}
    Super <- MCSuper
    DeclaredThis = {}
    DeclaredParam = {}
    Statements <- MCStatements
    MaxLength = 2
SYMMETRY Symmetry
INVARIANT OnlyCyclesRefused
CHECK_DEADLOCK FALSE
