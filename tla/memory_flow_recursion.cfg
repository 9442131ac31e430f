SPECIFICATION MCSpec
CONSTANTS
    Packages = {main, s, x, y}
    MainPackage = main
    Standard = s
    Classes = {A, B, C}
    NoClass = NoClass
    GenericCount <- MCGenericCount
    A = A  B = B  C = C  x = x  y = y
    Exercised = {"memory flow"}
    Generic = {m, n}
    Other = o
    a = a
    b = b
    Key <- MCKey
    MaxDepth = 3
    MaxCreated = 5
    MaxQueued = 2
    f = f  g = g  d = d  i = i
    None = None
    Methods = {f, g, d}
    Deinitializers = {d}
    Initializers = {i}
    Super <- MCSuper
    DeclaredThis = {}
    DeclaredParam = {}
    Statements <- MCStatements
    MaxLength = 2
SYMMETRY Symmetry
INVARIANT RecursionNeverOutlived
CHECK_DEADLOCK FALSE
