----------------------------- MODULE MemoryFlow -----------------------------
(***************************************************************************)
(* Memory flow analysis (Compiler/MemoryFlowAnalysis): for every function, *)
(* whether its context 👇 and its parameter may escape, found by analysing *)
(* the functions a body calls on demand, and, from that, which objects are *)
(* allocated on the stack of the function that creates them.               *)
(*                                                                         *)
(* Every function has a context, one parameter and one local variable, all *)
(* of class types.  A statement evaluates an expression (op) and uses its  *)
(* value (use):                                                            *)
(*   "value"  the context, the parameter or the variable (arg)             *)
(*   "call"   the method target is called on callee with arg               *)
(*   "super"  the overridden method, or the superinitializer, target is    *)
(*            called on the context with arg                               *)
(*   "new"    an object is created with the initializer target and arg     *)
(* Whether a statement stands in a branch makes no difference to the       *)
(* analysis, which sees all of them in order.  A body is chosen statement  *)
(* by statement as the analysis reaches it, and recorded in body.          *)
(***************************************************************************)
EXTENDS Naturals, SequencesExt

CONSTANTS
    Methods,        \* the methods of classes
    Initializers,   \* the initializers of classes
    Deinitializers, \* the methods that are deinitializers
    Super,          \* the function each function overrides, or None
    DeclaredThis,   \* the functions declared with 🎍🥡, whose context escapes
    DeclaredParam,  \* the functions whose parameter is declared with 🎍🥡
    Statements,     \* the statements a function may consist of
    MaxLength,      \* bound: the number of statements of a body
    None

Functions == Methods \cup Initializers
Values == {"this", "param", "var"}
Statement ==
    [use : {"discard", "let", "store", "return"},
     op : {"value", "call", "super", "new"},
     target : Functions \cup {None},
     callee : Values \cup {None},
     arg : Values]

ASSUME FunctionsAssumption ==
    /\ Methods \cap Initializers = {}
    /\ Deinitializers \subseteq Methods \ DeclaredThis
    /\ DeclaredThis \subseteq Functions
    /\ DeclaredParam \subseteq Functions
    /\ Super \in [Functions -> Functions \cup {None}]
    /\ \A d \in Deinitializers : Super[d] = None
    /\ None \notin Functions \cup Values \cup Statement
    /\ MaxLength \in Nat

ASSUME ProgramIsFinite == IsFiniteSet(Functions)

ASSUME StatementsAssumption ==
    /\ Statements \in [Functions -> SUBSET Statement]
    /\ \A f \in Functions : \A s \in Statements[f] :
        /\ s.op = "value" <=> s.target = None
        /\ s.op = "call" <=> s.callee # None
        /\ s.op = "call" => s.target \in Methods
        /\ s.op = "new" => s.target \in Initializers

VARIABLES
    body,       \* the statements of each function seen so far
    running,    \* the functions being analysed, each for the one before it
    stage,      \* how far the analysis of each function is
    statement,  \* the statement of each function being analysed, or None
    escaping,   \* what has been found to escape from each function
    inits,      \* the positions of the objects each function assigns to its variable
    thisFlow,   \* the category of the context of each function
    paramFlow,  \* the category of the parameter of each function
    onStack,    \* the objects allocated on the stack: <<function, position>>
    broken,     \* the functions that break a promise, each of which is an error
    assumed     \* what was taken for granted of functions that were being analysed

flowVars == <<body, running, stage, statement, escaping, inits, thisFlow, paramFlow, onStack, broken, assumed>>

Flow == {"Borrowing", "Escaping", "Unknown"}
Stage == {"new", "body", "promises", "done"}

Innermost == running[Len(running)]
IsMemoryFlowAnalysed(f) == stage[f] # "new"
Running(f) == stage[f] \in {"body", "promises"}
Positions(f) == 1..Len(body[f])

IsEscaping(category) == category \in {"Escaping", "Return"}
PromiseReversed(category, promise) == promise = "Borrowing" \/ IsEscaping(category)
FulfillsPromise(category, promise) == category = "Borrowing" \/ IsEscaping(promise)

\* The category of the value of an expression statement, of an assignment to a
\* local or an instance variable, and of a return statement.
Category(use) ==
    CASE use = "discard" -> "Borrowing"
      [] use \in {"let", "store"} -> "Escaping"
      [] use = "return" -> "Return"

\* The categories with which a statement uses values; a call asks its target.
UsesOf(s) ==
    CASE s.op = "value" -> {<<s.arg, Category(s.use)>>}
      [] s.op = "call" -> {<<s.callee, thisFlow[s.target]>>, <<s.arg, paramFlow[s.target]>>}
      [] s.op = "super" -> {<<"this", thisFlow[s.target]>>, <<s.arg, paramFlow[s.target]>>}
      [] s.op = "new" -> {<<s.arg, paramFlow[s.target]>>}

\* A returned context does not count as escaping, a returned parameter does.
RecordThis(category) == IsEscaping(category) /\ category # "Return"
RecordVariableGet(category) == IsEscaping(category)
Records(v, category) == IF v = "this" THEN RecordThis(category) ELSE RecordVariableGet(category)
EscapingIn(s) == {u[1] : u \in {w \in UsesOf(s) : Records(w[1], w[2])}}

\* An object may only be on the stack if its initializer does not let it escape.
InitializerIgnored(s, flow) == TRUE
StackInitializable(s, flow) == ~IsEscaping(flow[s.target])
IsInit(s) == s.op = "new" /\ s.use = "let"

FlowInit ==
    /\ body = [f \in Functions |-> <<>>]
    /\ running = <<>>
    /\ stage = [f \in Functions |-> "new"]
    /\ statement = [f \in Functions |-> None]
    /\ escaping = [f \in Functions |-> {}]
    /\ inits = [f \in Functions |-> {}]
    /\ thisFlow = [f \in Functions |-> IF f \in DeclaredThis THEN "Escaping" ELSE "Unknown"]
    /\ paramFlow = [f \in Functions |-> IF f \in DeclaredParam THEN "Escaping" ELSE "Borrowing"]
    /\ onStack = {}
    /\ broken = {}
    /\ assumed = {}

\* Until its body is analysed, the context of a function counts as escaping.
Begin(f) ==
    /\ ~IsMemoryFlowAnalysed(f)
    /\ running' = Append(running, f)
    /\ stage' = [stage EXCEPT ![f] = "body"]
    /\ thisFlow' = [thisFlow EXCEPT ![f] = "Escaping"]
    /\ UNCHANGED <<body, statement, escaping, inits, paramFlow, onStack, broken, assumed>>

\* The package is analysed function by function.
Analyse(f) == running = <<>> /\ Begin(f)

\* The next statement s of the body of f.
Reach(f, s) ==
    /\ stage[f] = "body" /\ statement[f] = None
    /\ Len(body[f]) < MaxLength
    /\ body[f] # <<>> => Last(body[f]).use # "return"
    /\ body' = [body EXCEPT ![f] = Append(@, s)]
    /\ statement' = [statement EXCEPT ![f] = s]
    /\ UNCHANGED <<running, stage, escaping, inits, thisFlow, paramFlow, onStack, broken, assumed>>

\* The function a statement calls is analysed before the statement.
AnalyseIfNecessary(f) ==
    /\ statement[f] # None
    /\ statement[f].target # None
    /\ Begin(statement[f].target)

NotAnalysedFirst(s) == TRUE
Ready(s) == s.target # None => IsMemoryFlowAnalysed(s.target)

AnalyseStatement(f) ==
    LET s == statement[f]
        position == Len(body[f])
    IN
    /\ s # None
    /\ Ready(s)
    /\ statement' = [statement EXCEPT ![f] = None]
    /\ escaping' = [escaping EXCEPT ![f] = @ \cup EscapingIn(s)]
    /\ inits' = [inits EXCEPT ![f] = IF IsInit(s) THEN @ \cup {position} ELSE @]
    /\ onStack' = IF s.op = "new" /\ ~IsEscaping(Category(s.use)) /\ StackInitializable(s, thisFlow)
                  THEN onStack \cup {<<f, position>>}
                  ELSE onStack
    /\ assumed' = IF s.target # None /\ Running(s.target) /\ paramFlow[s.target] = "Borrowing"
                  THEN assumed \cup {<<s.target, "param", "Borrowing">>}
                  ELSE assumed
    /\ UNCHANGED <<body, running, stage, thisFlow, paramFlow, broken>>

ThisCategory(f) == IF "this" \in escaping[f] \/ f \in DeclaredThis THEN "Escaping" ELSE "Borrowing"

\* The category of a variable decides about the objects that were assigned to it.
PopScope(f, flow) ==
    /\ paramFlow' = [paramFlow EXCEPT ![f] = IF "param" \in escaping[f] THEN "Escaping" ELSE "Borrowing"]
    /\ onStack' = IF "var" \in escaping[f] THEN onStack
                  ELSE onStack \cup {<<f, k>> : k \in {i \in inits[f] : StackInitializable(body[f][i], flow)}}

\* The end of the body.  A deinitializer must not let its instance escape.
FinishBody(f) ==
    /\ stage[f] = "body" /\ statement[f] = None
    /\ thisFlow' = [thisFlow EXCEPT ![f] = ThisCategory(f)]
    /\ PopScope(f, thisFlow')
    /\ IF Super[f] = None
       THEN /\ stage' = [stage EXCEPT ![f] = "done"]
            /\ running' = Front(running)
            /\ broken' = IF f \in Deinitializers /\ "this" \in escaping[f] THEN broken \cup {f} ELSE broken
       ELSE /\ stage' = [stage EXCEPT ![f] = "promises"]
            /\ UNCHANGED <<running, broken>>
    /\ UNCHANGED <<body, statement, escaping, inits, assumed>>

AnalyseSuper(f) ==
    /\ stage[f] = "promises"
    /\ Begin(Super[f])

CheckMFPromises(f) ==
    LET super == Super[f] IN
    /\ stage[f] = "promises"
    /\ IsMemoryFlowAnalysed(super)
    /\ broken' = IF FulfillsPromise(thisFlow[f], thisFlow[super])
                    /\ FulfillsPromise(paramFlow[f], paramFlow[super])
                 THEN broken ELSE broken \cup {f}
    /\ assumed' = IF Running(super)
                  THEN assumed \cup {<<super, "this", thisFlow[super]>>, <<super, "param", paramFlow[super]>>}
                  ELSE assumed
    /\ stage' = [stage EXCEPT ![f] = "done"]
    /\ running' = Front(running)
    /\ UNCHANGED <<body, statement, escaping, inits, thisFlow, paramFlow, onStack>>

\* Only the analysis that was started last goes on.
Step(f) ==
    \/ \E s \in Statements[f] : Reach(f, s)
    \/ AnalyseIfNecessary(f)
    \/ AnalyseStatement(f)
    \/ FinishBody(f)
    \/ AnalyseSuper(f)
    \/ CheckMFPromises(f)

FlowNext ==
    \/ \E f \in Functions : Analyse(f)
    \/ running # <<>> /\ Step(Innermost)

FlowSpec == FlowInit /\ [][FlowNext]_flowVars

-----------------------------------------------------------------------------
(***************************************************************************)
(* What the program does with its values, independent of the analysis.     *)
(* <<f, v, sink>> says that the value v of an activation of f may be kept  *)
(* in heap memory ("heap") or returned by this activation ("result").  An  *)
(* object created at position k of f is the value <<"site", k>>, as is     *)
(* what a call at position k returns.                                      *)
(***************************************************************************)
Local(v) == <<v, 0>>
Site(k) == <<"site", k>>
Facts == Functions \X ({Local(v) : v \in Values} \cup {Site(k) : k \in 1..MaxLength}) \X {"heap", "result"}
SinksOf(sinks, f, v) == {x \in {"heap", "result"} : <<f, v, x>> \in sinks}

ValueOf(f, k) == IF body[f][k].op = "value" THEN Local(body[f][k].arg) ELSE Site(k)

\* A method is called on an instance of any subclass.
Targets(s) ==
    IF s.op = "call" THEN {s.target} \cup {f \in Functions : Super[f] = s.target}
    ELSE {s.target} \ {None}

\* The values passed for 👇 and for the parameter of what is called at k.
Actuals(f, k) ==
    LET s == body[f][k] IN
    CASE s.op = "value" -> {}
      [] s.op = "call" -> {<<"this", Local(s.callee)>>, <<"param", Local(s.arg)>>}
      [] s.op = "super" -> {<<"this", Local("this")>>, <<"param", Local(s.arg)>>}
      [] s.op = "new" -> {<<"this", Site(k)>>, <<"param", Local(s.arg)>>}

UsedIn(sinks, f, k) ==
    CASE body[f][k].use = "store" -> {"heap"}
      [] body[f][k].use = "return" -> {"result"}
      [] body[f][k].use = "let" -> SinksOf(sinks, f, Local("var"))
      [] body[f][k].use = "discard" -> {}

\* Where what is passed for formal to the function g, called at k, may end up.
PassedIn(sinks, f, k, g, formal) ==
    {x \in SinksOf(sinks, g, Local(formal)) : x = "heap"}
        \cup {x \in SinksOf(sinks, f, Site(k)) : <<g, Local(formal), "result">> \in sinks}

\* Where the values of statement k of f end up.
SinksAt(sinks, f, k) ==
    {<<f, ValueOf(f, k), x>> : x \in UsedIn(sinks, f, k)}
        \cup UNION {{<<f, a[2], x>> : x \in PassedIn(sinks, f, k, g, a[1])}
                     : g \in Targets(body[f][k]), a \in Actuals(f, k)}

MoreSinks(sinks) == UNION {UNION {SinksAt(sinks, f, k) : k \in Positions(f)} : f \in Functions}

\* The least set closed under MoreSinks.
Sinks ==
    LET grow[sinks \in SUBSET Facts] ==
            LET more == sinks \cup MoreSinks(sinks) IN IF more = sinks THEN sinks ELSE grow[more]
    IN grow[{}]

-----------------------------------------------------------------------------
Compiled == running = <<>> /\ (\A f \in Functions : IsMemoryFlowAnalysed(f)) /\ broken = {}

\* What was taken for granted of functions being analysed was found to be so.
AssumptionsHold ==
    \A a \in assumed : a[3] = IF a[2] = "this" THEN thisFlow[a[1]] ELSE paramFlow[a[1]]
ReturnsThis(f) == \E k \in Positions(f) : body[f][k].use = "return" /\ ValueOf(f, k) = Local("this")
NoneReturnsThis == \A f \in Functions : ~ReturnsThis(f)

\* What the analysis leaves possible: a borrowed value and an object on the stack
\* have no sink.
Escapes(f, v) ==
    CASE v = Local("this") -> IsEscaping(thisFlow[f])
      [] v = Local("param") -> IsEscaping(paramFlow[f])
      [] v = Local("var") -> \E k \in Positions(f) : "var" \in EscapingIn(body[f][k])
      [] OTHER -> <<f, v[2]>> \notin onStack
Permitted == {fact \in Facts : Escapes(fact[1], fact[2])}

-----------------------------------------------------------------------------
FlowTypeOK ==
    /\ body \in [Functions -> Seq(Statement)]
    /\ \A f \in Functions : Len(body[f]) <= MaxLength /\ \A k \in Positions(f) : body[f][k] \in Statements[f]
    /\ running \in Seq(Functions)
    /\ stage \in [Functions -> Stage]
    /\ statement \in [Functions -> Statement \cup {None}]
    /\ escaping \in [Functions -> SUBSET Values]
    /\ inits \in [Functions -> SUBSET (1..MaxLength)]
    /\ \A f \in Functions : \A k \in inits[f] : k \in Positions(f) /\ body[f][k].op = "new"
    /\ thisFlow \in [Functions -> Flow]
    /\ paramFlow \in [Functions -> {"Borrowing", "Escaping"}]
    /\ onStack \subseteq Functions \X (1..MaxLength)
    /\ broken \subseteq Functions
    /\ assumed \subseteq Functions \X {"this", "param"} \X {"Borrowing", "Escaping"}

\* No object on the stack outlives the function that created it, in whatever
\* order functions are analysed and methods overridden, provided that what was
\* assumed of functions being analysed holds and that no method returns 👇.
StackNeverOutlived ==
    Compiled /\ onStack # {} /\ AssumptionsHold /\ NoneReturnsThis =>
        LET sinks == Sinks IN
        \A site \in onStack : SinksOf(sinks, site[1], Site(site[2])) = {}

\* No deinitializer lets the instance being destructed be kept, whatever it calls
\* (the error "👇 must not escape from ♻️").
DeinitializedNeverKept ==
    Compiled /\ AssumptionsHold /\ NoneReturnsThis =>
        LET sinks == Sinks IN
        \A d \in Deinitializers : <<d, Local("this"), "heap">> \notin sinks

\* The categories are consistent with each other: whatever a body, or a method it
\* may call, does with a value is permitted if it is for what the value becomes.
AnalysisClosed ==
    Compiled /\ AssumptionsHold /\ NoneReturnsThis => MoreSinks(Permitted) \subseteq Permitted

\* What MFFunctionAnalyser.hpp says of a borrowing use, that the value is never used
\* in a way that could let it escape, for functions that call themselves or each
\* other.
RecursionNeverOutlived ==
    Compiled /\ onStack # {} /\ NoneReturnsThis =>
        LET sinks == Sinks IN
        \A site \in onStack : SinksOf(sinks, site[1], Site(site[2])) = {}
=============================================================================
