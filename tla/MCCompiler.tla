----------------------------- MODULE MCCompiler -----------------------------
(***************************************************************************)
(* How packages are loaded, and the analyses that follow calls from        *)
(* function to function, Specialization and MemoryFlow, on small           *)
(* instances; a behaviour exercises one of them.                           *)
(***************************************************************************)
EXTENDS PackageLoading, Specialization, MemoryFlow, TLC

(***************************************************************************)
(* The packages main, s, x and y; x and y declare one class each at most.  *)
(* A library imports before it declares classes.  Errors other than cycles *)
(* happen in a library that another one imports, before it has classes.  A *)
(* is declared before B and x loaded before y, as they differ in their     *)
(* names only.                                                             *)
(***************************************************************************)
CONSTANTS A, B, C, x, y

MCGenericCount == [k \in Classes |-> IF k \in {A, B} THEN 1 ELSE 0]
PackagesBounded ==
    /\ B \in Declared' => A \in Declared'
    /\ progress'[y] # "absent" => progress'[x] # "absent"
    /\ \A p \in Packages \ {MainPackage} :
           Len(classes'[p]) <= 1 /\ \A k \in exportedTypes'[p] : argument'[k] = NoClass
    /\ classes'[Standard] = <<>> /\ imports'[Standard] = {}
    /\ \A p \in Packages : imports'[p] # imports[p] => classes[p] = <<>>
    /\ (hasError' # hasError /\ outcome' \in {"running", "error"}) =>
           Len(loading) = 3 /\ progress[Last(loading)] = "parsing" /\ classes[Last(loading)] = <<>>

(* Classes of the main package that inherit from each other, one of which  *)
(* mentions a class in its superclass type.                                *)
InheritanceBounded ==
    /\ Cardinality({k \in Classes : argument'[k] # NoClass}) <= 1
    /\ \A p \in Packages : p # MainPackage => classes'[p] = <<>>
    /\ \A k \in exportedTypes'[MainPackage] : superclass'[k] = NoClass => k = B

(***************************************************************************)
(* Three generic functions, one of them called with two lists of arguments. *)
(***************************************************************************)
CONSTANTS Generic, Other, a, b

MCKey == {<<k, a>> : k \in Generic} \cup {<<Other, a>>, <<Other, b>>}
Symmetry == Permutations(Generic)

(***************************************************************************)
(* Methods f and g, where g overrides f, a deinitializer d and an          *)
(* initializer i, each of any body of up to two of the statements below:   *)
(* f and g call each other and themselves, i and d call f.                 *)
(***************************************************************************)
CONSTANTS f, g, d, i

StatementOf(use, op, target, callee, arg) ==
    [use |-> use, op |-> op, target |-> target, callee |-> callee, arg |-> arg]
Given(use, arg) == StatementOf(use, "value", None, None, arg)
Calling(use, target, callee, arg) == StatementOf(use, "call", target, callee, arg)

MCSuper == (f :> None) @@ (g :> f) @@ (d :> None) @@ (i :> None)

News == {StatementOf(use, "new", i, None, "this") : use \in {"let", "discard"}}
MCStatements ==
    (f :> {Given("store", "this"), Given("store", "param"), Given("return", "param"), Given("return", "var")}
            \cup News \cup {Calling("discard", g, "var", "this"), Calling("return", g, "var", "param")}
            \cup {Calling("discard", f, "this", "var")})
 @@ (g :> {Given("store", "this"), Given("store", "param")}
            \cup News \cup {Calling("store", f, "var", "param"), StatementOf("discard", "super", f, None, "var")})
 @@ (d :> {Calling("discard", f, "this", "param")})
 @@ (i :> {Given("store", "this"), Calling("discard", f, "this", "param")})

(***************************************************************************)
CONSTANT Exercised      \* what the behaviours may exercise
VARIABLE focus

MCInit == LoadInit /\ Init /\ FlowInit /\ focus \in Exercised
MCNext ==
    /\ UNCHANGED focus
    /\ \/ /\ focus \in {"packages", "inheritance"}
          /\ LoadNext /\ PackagesBounded
          /\ focus = "inheritance" => InheritanceBounded
          /\ UNCHANGED <<vars, flowVars>>
       \/ focus = "specialization" /\ Next /\ UNCHANGED <<loadVars, flowVars>>
       \/ focus = "memory flow" /\ FlowNext /\ UNCHANGED <<loadVars, vars>>
MCSpec == MCInit /\ [][MCNext]_<<loadVars, vars, flowVars, focus>>
=============================================================================
