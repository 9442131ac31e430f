--------------------------- MODULE PackageLoading ---------------------------
(***************************************************************************)
(* How the compiler loads packages and brings their classes in order       *)
(* (Compiler.cpp, Package.cpp, SemanticAnalyser::analyse, Class.cpp,       *)
(* CodeGenerator::generate).                                               *)
(*                                                                         *)
(* An import loads a package in the middle of the parse of the importing   *)
(* one: its interface is parsed, which may import further packages, and    *)
(* analysed before the importing package is parsed on.  The main package   *)
(* is analysed last, then code is generated for all.                       *)
(*                                                                         *)
(* Of a package its imports and classes matter, of a class its superclass  *)
(* and one class that the superclass mentions as generic argument.  They   *)
(* are chosen as the parser reaches them.  Superclasses are names that are *)
(* looked up when the package is analysed, so a class can be declared      *)
(* before its superclass.                                                  *)
(***************************************************************************)
EXTENDS Naturals, SequencesExt

CONSTANTS
    Packages,
    MainPackage,
    Standard,       \* the package s, which every other one imports first
    Classes,
    GenericCount,   \* the number of generic parameters each class declares
    NoClass

ASSUME PackagesAssumption == {MainPackage, Standard} \subseteq Packages /\ MainPackage # Standard
ASSUME ClassesAssumption == GenericCount \in [Classes -> Nat] /\ NoClass \notin Classes

VARIABLES
    loading,        \* the packages being loaded, each imported by the one before it
    progress,          \* how far each package is
    imports,        \* the packages each package asked for
    importOrder,    \* packageImportOrder_
    classes,        \* classes_ of each package, in the order in which they are compiled
    exportedTypes,  \* exportedTypes_: the classes each package offers by their names
    superclass,     \* of each class that was declared, or NoClass
    argument,       \* the class its superclass type mentions, or NoClass
    position,       \* of the loop over classes_ that runs
    analyses,       \* the calls of analyseSuperType that run, each for the one before it
    started,        \* superTypeAnalysisStarted_
    analysing,      \* analysingSuperType_
    analysed,       \* superTypeAnalysed_
    offset,         \* offset_: the generic arguments a class inherits
    inherited,      \* the classes that have inherited from their superclasses
    generated,      \* the classes for which code was generated, in order
    hasError,       \* hasError_: an error was reported
    outcome         \* "running", "generating", "done", or the error that was thrown

packageVars == <<loading, progress, imports, importOrder>>
declarationVars == <<exportedTypes, superclass, argument>>
superTypeVars == <<analyses, started, analysing, analysed, offset>>
resultVars == <<inherited, generated>>
loadVars == <<packageVars, classes, declarationVars, position, superTypeVars, resultVars, hasError, outcome>>

Loading(p) == outcome = "running" /\ loading # <<>> /\ Last(loading) = p
FinishedLoading(p) == progress[p] \in {"supertypes", "inheriting", "analysed"}
Declared == UNION {exportedTypes[p] : p \in Packages}

(***************************************************************************)
(* Errors                                                                  *)
(***************************************************************************)

\* A CompilerError is caught by compile(), which ends.
Throw(error) == outcome' = error /\ hasError' = TRUE

\* Any error of the parser or of the analysis, like a package that is not found.
ThrowError(p) ==
    /\ Loading(p)
    /\ Throw("error")
    /\ UNCHANGED <<packageVars, classes, declarationVars, position, superTypeVars, resultVars>>

\* Compiler::error, after which the parser or the analysis goes on.
ReportError(p) ==
    /\ Loading(p)
    /\ hasError' = TRUE
    /\ UNCHANGED <<packageVars, classes, declarationVars, position, superTypeVars, resultVars, outcome>>

(***************************************************************************)
(* Parsing                                                                 *)
(***************************************************************************)

Parsing(p) == Loading(p) /\ progress[p] = "parsing"

\* s is imported before anything else is parsed.
StandardImported(p) == p = Standard \/ Standard \in imports[p]

UnfinishedReturned(q) == FALSE
IsCircular(q) == ~FinishedLoading(q)

\* loadPackage, called by importPackage: the main package is not one that can be found.
LoadPackage(p, q) ==
    /\ Parsing(p)
    /\ q # MainPackage
    /\ StandardImported(p) \/ q = Standard
    /\ imports' = [imports EXCEPT ![p] = @ \cup {q}]
    /\ IF progress[q] = "absent"
       THEN /\ progress' = [progress EXCEPT ![q] = "parsing"]
            /\ importOrder' = Append(importOrder, q)
            /\ loading' = Append(loading, q)
            /\ UNCHANGED <<hasError, outcome>>
       ELSE /\ IF IsCircular(q) THEN Throw("circularImport") ELSE UNCHANGED <<hasError, outcome>>
            /\ UNCHANGED <<progress, importOrder, loading>>
    /\ UNCHANGED <<classes, declarationVars, position, superTypeVars, resultVars>>

DeclareClass(p, k, super, arg) ==
    /\ Parsing(p) /\ StandardImported(p)
    /\ k \notin Declared
    /\ arg # NoClass => super # NoClass /\ GenericCount[super] > 0
    /\ classes' = [classes EXCEPT ![p] = Append(@, k)]
    /\ exportedTypes' = [exportedTypes EXCEPT ![p] = @ \cup {k}]
    /\ superclass' = [superclass EXCEPT ![k] = super]
    /\ argument' = [argument EXCEPT ![k] = arg]
    /\ UNCHANGED <<packageVars, position, superTypeVars, resultVars, hasError, outcome>>

\* The parse returns.  The analysis of an imported package follows whatever was reported,
\* that of the main package is a phase of its own.
FinishParse(p) ==
    /\ Parsing(p) /\ StandardImported(p)
    /\ IF p = MainPackage /\ hasError
       THEN outcome' = "error" /\ UNCHANGED <<progress, position>>
       ELSE /\ progress' = [progress EXCEPT ![p] = "supertypes"]
            /\ position' = 0
            /\ UNCHANGED outcome
    /\ UNCHANGED <<loading, imports, importOrder, classes, declarationVars, superTypeVars, resultVars, hasError>>

(***************************************************************************)
(* The superclasses of a package's classes                                 *)
(***************************************************************************)

\* The types p can name: its own and those its imports export.
Visible(p, k) == k \in exportedTypes[p] \/ \E q \in imports[p] : k \in exportedTypes[q]

StartedIsCircular(k, busy) == k \in started
InheritsFromItself(k, busy) == k \in busy

\* analyseSuperType of k is called while the calls in pending run, which wait for those in
\* busy.  A class whose analysis started, but that is only mentioned, is not circular.
AnalyseSuperType(k, pending, busy) ==
    IF superclass[k] = NoClass \/ k \in analysed
    THEN analyses' = pending /\ UNCHANGED <<started, hasError, outcome>>
    ELSE IF InheritsFromItself(k, busy)
    THEN Throw("circularInheritance") /\ UNCHANGED <<analyses, started>>
    ELSE IF k \in started
    THEN analyses' = pending /\ UNCHANGED <<started, hasError, outcome>>
    ELSE /\ analyses' = Append(pending, [class |-> k, at |-> "superclass"])
         /\ started' = started \cup {k}
         /\ UNCHANGED <<hasError, outcome>>

AnalysingSuperTypes(p) == Loading(p) /\ progress[p] = "supertypes"
Current == Last(analyses).class
At(p, place) == AnalysingSuperTypes(p) /\ analyses # <<>> /\ Last(analyses).at = place
Reached(place) == [analyses EXCEPT ![Len(analyses)].at = place]

\* analyse() calls analyseSuperType of one class after the other.
NextSuperType(p) ==
    /\ AnalysingSuperTypes(p) /\ analyses = <<>> /\ position < Len(classes[p])
    /\ position' = position + 1
    /\ AnalyseSuperType(classes[p][position + 1], <<>>, analysing)
    /\ UNCHANGED <<packageVars, classes, declarationVars, analysing, analysed, offset, resultVars>>

SuperclassLater(p) ==
    /\ At(p, "superclass")
    /\ Visible(p, superclass[Current])
    /\ analyses' = Reached("offset")
    /\ UNCHANGED <<packageVars, classes, declarationVars, position, started, analysing, analysed, offset, resultVars, hasError, outcome>>

\* The superclass comes first.
AnalyseSuperclass(p) ==
    /\ At(p, "superclass")
    /\ Visible(p, superclass[Current])
    /\ analysing' = analysing \cup {Current}
    /\ AnalyseSuperType(superclass[Current], Reached("offset"), analysing')
    /\ UNCHANGED <<packageVars, classes, declarationVars, position, analysed, offset, resultVars>>

OffsetIndices(p) ==
    LET super == superclass[Current] IN
    /\ At(p, "offset")
    /\ analysing' = analysing \ {Current}
    /\ offset' = [offset EXCEPT ![Current] = offset[super] + GenericCount[super]]
    /\ analyses' = Reached("argument")
    /\ UNCHANGED <<packageVars, classes, declarationVars, position, started, analysed, resultVars, hasError, outcome>>

\* analyseSuperTypeWhenUsed of the class the superclass type mentions.
AnalyseArgument(p) ==
    LET arg == argument[Current] IN
    /\ At(p, "argument")
    /\ arg = NoClass \/ Visible(p, arg)
    /\ IF arg = NoClass \/ arg \in started
       THEN analyses' = Reached("type") /\ UNCHANGED <<started, hasError, outcome>>
       ELSE AnalyseSuperType(arg, Reached("type"), analysing)
    /\ UNCHANGED <<packageVars, classes, declarationVars, position, analysing, analysed, offset, resultVars>>

SuperTypeAnalysed(p) ==
    /\ At(p, "type")
    /\ analysed' = analysed \cup {Current}
    /\ analyses' = Front(analyses)
    /\ UNCHANGED <<packageVars, classes, declarationVars, position, started, analysing, offset, resultVars, hasError, outcome>>

(***************************************************************************)
(* Inheriting and generating code                                          *)
(***************************************************************************)

DeclarationOrder(own) == own
\* orderClassesSuperclassFirst: append takes a class and its superclasses, as far as they are
\* left, the topmost first.
SuperclassFirst(own) ==
    LET append[left \in SUBSET ToSet(own)] ==
            [k \in Classes \cup {NoClass} |->
                IF k \notin left THEN <<>> ELSE Append(append[left \ {k}][superclass[k]], k)]
        ordered[i \in 0..Len(own)] ==
            IF i = 0 THEN <<>>
            ELSE ordered[i - 1] \o append[ToSet(own) \ ToSet(ordered[i - 1])][own[i]]
    IN  ordered[Len(own)]

OrderClasses(p) ==
    /\ AnalysingSuperTypes(p) /\ analyses = <<>> /\ position = Len(classes[p])
    /\ classes' = [classes EXCEPT ![p] = SuperclassFirst(@)]
    /\ progress' = [progress EXCEPT ![p] = "inheriting"]
    /\ position' = 0
    /\ UNCHANGED <<loading, imports, importOrder, declarationVars, superTypeVars, resultVars, hasError, outcome>>

\* Class::inherit takes over what its superclass has, inherited or its own.
Inherit(p) ==
    /\ Loading(p) /\ progress[p] = "inheriting" /\ position < Len(classes[p])
    /\ position' = position + 1
    /\ inherited' = inherited \cup {classes[p][position + 1]}
    /\ UNCHANGED <<packageVars, classes, declarationVars, superTypeVars, generated, hasError, outcome>>

\* The analysis of p returns, and with it the import.  Memory flow analysis, which changes
\* nothing here, is skipped after an error.
FinishAnalysis(p) ==
    /\ Loading(p) /\ progress[p] = "inheriting" /\ position = Len(classes[p])
    /\ progress' = [progress EXCEPT ![p] = "analysed"]
    /\ loading' = Front(loading)
    /\ outcome' = IF p # MainPackage THEN outcome ELSE IF hasError THEN "error" ELSE "generating"
    /\ UNCHANGED <<imports, importOrder, classes, declarationVars, position, superTypeVars, resultVars, hasError>>

\* The packages in the order in which they were first imported, the main package last.
GenerationOrder == FlattenSeq([i \in 1..Len(importOrder) |-> classes[importOrder[i]]]) \o classes[MainPackage]

\* createClass builds the virtual table from that of the superclass.
CreateClass ==
    /\ outcome = "generating"
    /\ Len(generated) < Len(GenerationOrder)
    /\ generated' = Append(generated, GenerationOrder[Len(generated) + 1])
    /\ UNCHANGED <<packageVars, classes, declarationVars, position, superTypeVars, inherited, hasError, outcome>>

FinishGeneration ==
    /\ outcome = "generating"
    /\ Len(generated) = Len(GenerationOrder)
    /\ outcome' = "done"
    /\ UNCHANGED <<packageVars, classes, declarationVars, position, superTypeVars, resultVars, hasError>>

(***************************************************************************)
(* The compiler                                                            *)
(***************************************************************************)

LoadInit ==
    /\ loading = <<MainPackage>>
    /\ progress = [p \in Packages |-> IF p = MainPackage THEN "parsing" ELSE "absent"]
    /\ imports = [p \in Packages |-> {}]
    /\ importOrder = <<>>
    /\ classes = [p \in Packages |-> <<>>]
    /\ exportedTypes = [p \in Packages |-> {}]
    /\ superclass = [k \in Classes |-> NoClass]
    /\ argument = [k \in Classes |-> NoClass]
    /\ position = 0
    /\ analyses = <<>>
    /\ started = {} /\ analysing = {} /\ analysed = {}
    /\ offset = [k \in Classes |-> 0]
    /\ inherited = {}
    /\ generated = <<>>
    /\ hasError = FALSE
    /\ outcome = "running"

ParseStep(p) ==
    \/ \E q \in Packages : LoadPackage(p, q)
    \/ \E k \in Classes : \E super, arg \in Classes \cup {NoClass} : DeclareClass(p, k, super, arg)
    \/ FinishParse(p)

SuperTypeStep(p) ==
    \/ NextSuperType(p)
    \/ AnalyseSuperclass(p)
    \/ OffsetIndices(p)
    \/ AnalyseArgument(p)
    \/ SuperTypeAnalysed(p)

LoadStep(p) ==
    \/ ParseStep(p)
    \/ SuperTypeStep(p)
    \/ OrderClasses(p)
    \/ Inherit(p)
    \/ FinishAnalysis(p)
    \/ ReportError(p)
    \/ ThrowError(p)

LoadNext == (\E p \in Packages : LoadStep(p)) \/ CreateClass \/ FinishGeneration

LoadSpec == LoadInit /\ [][LoadNext]_loadVars

(***************************************************************************)
(* What must hold                                                          *)
(***************************************************************************)

\* There is a cycle: some nodes each of which leads to one of them.
Cyclic(nodes, next) ==
    \E s \in SUBSET {x \in nodes : next[x] # {}} : s # {} /\ \A x \in s : next[x] \cap s # {}

\* A package whose imports lead back to it is refused, and nothing else is: what was
\* imported before, through whatever chain of imports, is never taken for circular.
CircularImportsRefused == outcome = "circularImport" <=> Cyclic(Packages, imports)

Superclasses == [k \in Classes |-> {superclass[k]} \ {NoClass}]

\* What the superclass type of a class mentions.
Mentioned == [k \in Classes |-> {superclass[k], argument[k]} \ {NoClass}]
Leads(k, x) ==
    /\ k # NoClass
    /\ \A s \in SUBSET Classes : (k \in s /\ \A c \in s : Mentioned[c] \subseteq s) => x \in s

\* The superclasses of a class that inherits from itself, through any number of classes and
\* in whatever order they are declared, are never analysed, and so nothing is inherited from
\* it.  A class is refused only if the analysis of its superclass leads to a class that
\* inherits from it; that its superclass mentions it is no reason.
CircularInheritanceRefused ==
    /\ ~Cyclic(analysed, Superclasses)
    /\ outcome = "circularInheritance" =>
           \E k, x \in Classes : superclass[x] = k /\ Leads(superclass[k], x)

\* What Class.hpp says that analysingSuperType_ detects: only a class that inherits from
\* itself is refused.
OnlyCyclesRefused == outcome = "circularInheritance" => Cyclic(Classes, Superclasses)

\* The generic parameters of a class follow all those it inherits, though superclasses are
\* analysed on demand and in the middle of each other.
OffsetsFollowSuperclass ==
    \A k \in analysed : offset[k] = offset[superclass[k]] + GenericCount[superclass[k]]

\* A class inherits when its superclass, of its own package or of another, has done so,
\* and the superclass is complete.
InheritedAfterSuperclass ==
    \A k \in inherited : superclass[k] # NoClass => k \in analysed /\ superclass[k] \in inherited

\* What Package.hpp says of creating a class, that it uses the results for its superclass.
CreatedAfterSuperclass ==
    \A i \in 1..Len(generated) :
        superclass[generated[i]] # NoClass => \E j \in 1..(i - 1) : generated[j] = superclass[generated[i]]
=============================================================================
