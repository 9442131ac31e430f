# Emojicode: specifications

TLA+ models of the parts of Emojicode whose correctness depends on interleavings,
on long sequences of calls or on the agreement of two analyses, checked with TLC,
and theorems about them, checked with TLAPS. `PROJECT.json` maps every definition to
the source lines it stands for.

    tlc -workers 2 -config rc.cfg MCReferenceCounting.tla
    tlapm ReferenceCountingProofs.tla

## The system

| component | state | operations | hard behaviour |
|---|---|---|---|
| **runtime/** | a control block per object: atomic strong and weak counts; for objects on the stack and blocks of memory a plain count; one block shared by all literals; global tables under mutexes | `ejcAlloc`, `ejcRetain*`, `ejcRelease*`, weak references, casts, interning of type values and multiprotocol tables | threads that retain, release and acquire at once; user code (deinitializers) in the middle of a release; initializers that raise |
| **s/** (standard library) | thread objects, mutexes; lists, dictionaries and strings in Emojicode over raw memory | start, join, detach, lock; copy-on-write collections | a thread that releases its own thread object; growing and rehashing at the limits |
| **Compiler/** | packages, types and functions; a syntax tree per function; scopes and the `PathAnalyser` during semantic analysis; `MFFunctionAnalyser`'s variables during memory flow analysis | parse, import, analyse, memory flow, generate LLVM code, optimise reference counting | two analyses that must agree (which variables have a value, who releases them); recursion over packages and functions while they are incomplete |
| **LanguageServer/** | open documents (`documents_`, `overlays_`), the root file of each (`roots_`), scheduled checks (`scheduled_`), analyses (`analyses_`, `parsedAnalyses_`), published diagnostics (`published_`), deferred requests (`deferred_`) | one handler per message, `runChecks` when no message is ready | files that move between packages when includes change; answers that wait; analyses that stop at an error or throw |
| **files, sockets, json, c, testtube** | handles | wrappers of system calls, a parser, a test helper | none beyond the library's |
| **editors, tools, CLI, pretty printer** | none of interest | start the server, generate tables, print | none |

How they interact: the compiler emits calls of the runtime (a load of a variable
retains, an assignment releases the old value, a block's end and every exit release
the local variables); the library is compiled against the same runtime and its C++
parts call it directly (`s/Thread.cpp` retains what a started thread uses); the
language server runs the compiler's front end on the open documents, once per
package, and keeps the compiler alive to answer queries.

What makes each component correct:

* runtime: counts are exact; nothing refers to an object that was torn down; each
  object is torn down once and freed eventually; a control block outlives its users.
* compiled functions: a variable is used and released only while it has a value,
  is released once, and an initializer returns only complete instances.
* language server: no change of an open document goes unanalysed; what the client
  shows belongs to a package that is open; every request is answered once.
* specialization of generic functions: whatever is compiled only calls what is compiled,
  though any specialization may fail after others already call it.
* package loading: cycles of imports are refused, and nothing else is; cycles of superclasses
  are refused; a class uses what is known of its superclass only when it is known.
* transport: messages are received intact and in order, however the input is cut, and found
  again after a broken header.
* reference counting passes: removing a pair of retain and release changes nothing that
  anyone can tell.

## Modules

| module | models | state and actions |
|---|---|---|
| `ReferenceCounting` | `runtime/main.cpp` and the calls the compiler emits | counts and blocks of objects; strong and weak references held by variables, fields, threads and temporaries; a stack of running releases per thread. One action per atomic access: `AcquireLoad` / `AcquireSucceeds` / `AcquireFails` / `AcquireRetries` are the loop of `ejcAcquireStrong`, `DropStrong` … `Free` the phases of a release. |
| `ObjectLifetime` | abstract: what the runtime promises | an object is unallocated, alive, being destructed or freed; only references to live objects exist |
| `VariableAssignment` | one assignment to an instance variable whose old value has a deinitializer that reads it | steps of `generateAssignment` and of the deinitializer |
| `PathAnalyser` | `Compiler/Analysis/PathAnalyser` | operators on the stack of branches |
| `InitializerCompilation` | the analysis and the code of a class initializer's body | phase `analyse`: one action per statement and per end of a block, each running the semantic analysis, the memory flow analysis and code generation; phase `run`: the generated instructions, branches either way |
| `Specialization` | `SemanticAnalyser::specialize`, `recordCall`, `discardSpecialization`, `analyseSpecialization`, `enqueueFunction`, `analyseQueue` | the stack of analyses, the table of specializations, the unfinished ones with their recorded calls; one action per way a call resolves (`UseExisting`, `BeginSpecialization`) and per way an analysis ends (`FinishSpecialization`, `FailSpecialization`) |
| `LanguageServer` | `LanguageServer/Server.cpp` and the parts of `Checker.cpp` it depends on | the server's tables, the client's view (`shown`), requests; one action per message, `runChecks` and `CheckDue` for the checks |
| `MemoryFlow` | `MFFunctionAnalyser` on functions that call and override each other, `analyseFlow` of values, calls and `ASTInitialization` | the bodies, the analyses in progress, the categories found for contexts and parameters, which objects are on the stack; one action per statement, per analysis on demand (`AnalyseIfNecessary`, `AnalyseSuper`) and per end of a body |
| `Threads` | `s/Thread.cpp`, `s/🧵.🍇` | thread objects and callables with their counts, handles (empty, joinable, joined), variables and fields that hold threads; one action per step of a thread's start, end, join and tear-down, mutexes |
| `TypeDescriptions` | flattened type descriptions, `checkGenericArgs`, `ejcIndexTypeDescription` in `runtime/main.cpp` | operators |
| `Interning` | `ejcMultiprotocolTable`, `ejcTypeValue` | the global tables, the mutex, a cache per thread |
| `ListValues` | abstract: lists are values | a list per variable |
| `CopyOnWrite` | `s/🍨.🍇` on `🍧` storages, `ejcIsOnlyReference`, the snapshots of `CallCodeGenerator` | storages with contents and counts; one action per step of a mutating method, of a copy and of a call that borrows the storage as argument |
| `HashTables` | `s/🍯.🍇` | the table and the count of each dictionary, the buckets of tables, entries linked to chains; one action per mutating method, copy and release |
| `PackageLoading` | `Compiler::loadPackage`, `Package::parse`, the superclasses in `SemanticAnalyser::analyse` and `Class.cpp`, the order in which `CodeGenerator` creates classes | the packages being loaded, their imports and classes, the calls of `analyseSuperType` in progress, what was analysed, inherited and created; one action per import, declaration and step of an analysis |
| `Transport` | `Transport::read`, `takeMessage` | the unread input, `buffer_` and the two flags; one action per way `takeMessage` goes on or returns, `ReadInput` for each piece of any length |
| `RedundantReferenceCounting` | `RedundantReferenceCountingPass` | phase one: the pass, an instruction at a time; phase two: the block as it was and as it is, executed side by side |
| `MCReferenceCounting`, `MCLanguageServer`, `MCThreads` | instances | symmetry, files, texts and includes, types |
| `MCProgress` | `MCLanguageServer`, `Transport` and `ReferenceCounting` | what must eventually happen: messages and broken headers, requests, releases |
| `MCFunctionBodies` | `InitializerCompilation` and `RedundantReferenceCounting` | blocks |
| `MCCompiler` | `PackageLoading`, `Specialization` and `MemoryFlow` | packages, generic functions, statements |
| `ReferenceCountingProofs`, `LanguageServerProofs`, `InitializerCompilationProofs`, `SpecializationProofs`, `MemoryFlowProofs`, `HashTablesProofs`, `ThreadsProofs`, `PackageLoadingProofs` | theorems about the module each is named for | see *Proofs* |

`MCProgress`, `MCFunctionBodies`, `MCCompiler` and `MCThreads` hold several components that
the code runs one after the other or side by side and that share no state in the models;
their variable `focus` chooses which one a behaviour exercises.

### Correspondence worth knowing

`ReferenceCounting`: a thread is a stack of frames, because a release runs a
deinitializer, which may release again. Inside a deinitializer any operation the
language allows may happen, on the object itself too. Objects are of three kinds as
in the code: on the heap (a block of their own), on the stack and blocks of memory
(a plain count, only used by one thread). The collective share that all strong references hold
of the weak count is explicit (`HoldsShare`).

`LanguageServer`: a package is named by its root file. A text is a model value and
only what it includes matters. What the compiler finds (files with diagnostics,
whether it reached the function bodies, which files it read before an error) is a free choice
within `Outcomes` and `Diagnosable`. Which root a file has is computed as in
`Checker::rootFile`: the nearest file that includes it, followed until none or a
cycle.

`InitializerCompilation`: a statement the compiler rejects is not enabled, so every
behaviour that reaches phase `run` is an accepted program. Code after a certain return
is analysed but not generated, as in `ASTBlock::analyse`. Each instruction carries
`certain`, what the analyser would answer there, so that one property covers every
read, every use of 👇 and every `wasInitialized_` that could stand there. A body is an
initializer of a class with a superclass, that may raise: it needs everything the analyser
offers. Left out: closures, optional bindings, parameters, for-in (a declaration and
a repeat).

`Specialization`: what a body calls and whether it compiles is a free choice at every
step, so the model covers every program, and bodies that behave differently when they are
analysed again at another depth. `discardSpecialization` is recursive; the model
states what the recursion reaches (`Discarded`, the least set that includes the failed one
and every unfinished caller of its members). The lists of `unique_ptr`s are
sets, as only their members matter. A call that resolves to the generic function (a
`nullptr` in the table, `GivesUp`) changes nothing and is no step. `calls` and
`generalCalls` are not in the code: they say to what the analysed bodies refer.

`MemoryFlow`: a statement evaluates an expression (a value, a call, a super call, a new
object) and uses its value (discards it, keeps it in the variable, stores or returns it). A body
is chosen statement by statement as the analysis reaches it. A call of a function that was not
analysed suspends the analysis until that function is; one of a function that is being analysed
uses the categories it has at that moment, which `assumed` records (it is not in the code).
`Sinks` says, independently of the analysis, what running the bodies may do with each
value: the least set of facts closed under assignments, calls, overrides and returns. That a
method returns 👇 is excluded from the properties (`NoneReturnsThis`): the analysis does not count
it as an escape, the generated code retains what it returns, and that is not modelled.

`PackageLoading`: packages, imports and classes are chosen as the parser reaches them, so
every program is covered. An import is a call in the middle of a parse, so `loading` is
the stack of packages being parsed or analysed; `analyses` is the stack of calls of
`analyseSuperType`. The main package cannot be imported: it is not in
`packages_`, so an import of its name finds another package or none. A class mentions at most one
other class in its superclass's type, which is enough for every order in which
`analyseSuperTypeWhenUsed` starts analyses. `Throw` ends everything, `ReportError` does not:
whatever was reported in a library, the packages that import it are loaded on.
`inherited` and `generated` are not in the code; they record what is done by
`Class::inherit` and `createClass`, which take over tables of the superclass.

`Transport`: a character that matters for framing is kept, all others are one. `Content-Length:`
is two characters, so that it can be cut in the middle. A message with a broken header
has the result `Invalid`; the properties compare what was received with what was sent. What the client may
send is an assumption (`PartsAssumption`). A message has one well-formed field and a header within
the limit, also when it is read from its first field name on, which is where the server may
find it after a broken header. A broken message does not say `Content-Length:` in its body: nothing tells the server how long
that body is, and it would resume there. If its header is over-long, it has no body, as the server skips no further
than to the end of the header.
An over-long header is refused only if the server looks before the end of it has arrived, so how
many headers are refused depends on the pieces; that no message is lost does not.

`RedundantReferenceCounting`: two values of a block can be the same object, which the pass
does not know. References exist in the block and elsewhere. A call may give up one held
elsewhere, and so does a deinitializer that a release runs. `differed` says that a call, a use or
a deinitializer found out that the pass has run.

`Threads`: `sThreadNew` is split where another thread can run: the two references
it takes, the start of the thread, the store of the handle. The new thread may end before the
handle is stored. `std::thread::join` and the destructor of a joinable handle are
external: `JoinRefused` says which joins the library refuses with an exception, which nothing
catches. A program never touches the runtime's state, so all it can do is
copy, store, release and forget references.

`Interning`: a thread with a question first looks into its own cache at a slot that
other keys share, then searches the table under the mutex. A cache ends with its
thread. `TypeDescriptions` gives the entries the comparison and indexing walk over.

`CopyOnWrite`: an edit is prepared (`PrepareForMutation` clones the storage unless
`ejcIsOnlyReference`) and changes items in place; another list may be passed as an
argument, the one that is mutated included, which the generated code retains for the
call. Storages are of any length and edits are described by what they do to a sequence.

`HashTables`: a method of a dictionary is one step; how steps of methods that share storage
interleave is the subject of `CopyOnWrite`. Its effect on memory is computed as the
code does it: look for the key in the chain of its bucket, clone the table with every entry of
every chain unless its reference is the only one, insert all entries anew into a larger table,
link or unlink an entry. The hash of a key is any that a seed of the process can give, as
`hashOf` is chosen at the start. `value` is not in the code: it is what the program has set.

## Checks

| run | what it shows |
|---|---|
| `rc` | counts exact, nothing dangles, one tear-down per object, blocks outlive their users, and the counting implements `ObjectLifetime` |
| `assignment` | **violation**: the deinitializer of a replaced value can run twice |
| `initializer` | what the analyser is certain of has happened; nothing without a value is released at a block's end or, for instance variables, at an abort; only complete instances are returned; a block does the same after the removal of retains and releases |
| `initializer_exits` | **violation**: an exit releases a local variable that only another path has set |
| `compiler` | exactly the cycles of imports are refused; no cycle of superclasses is analysed, and a class is refused only if the analysis of its superclass leads to one that inherits from it; classes inherit after their superclasses and their generic parameters follow the inherited ones; compiled code only calls compiled code, no pointer outlives a specialization, none is discarded while it is analysed, errors are trapped exactly inside specializations, and retries are bounded by failures; as long as what was assumed of functions being analysed turns out to be so, nothing on the stack outlives its frame, what is being deinitialized is never kept, and the categories found agree however calls and overrides are nested |
| `package_order` | **violation**: a class is created before its superclass |
| `circular_inheritance` | **violation**: a class that does not inherit from itself is refused as circular |
| `server` | no missed change, no leftovers of packages that are not open, diagnostics of the right analysis, completion keeps an analysis |
| `progress` | messages are received intact, in order and eventually, also after broken ones; requests are answered exactly once, and eventually; objects without strong references are freed, blocks without users are deleted |
| `server_closed` | **violation**: a closed file loses the diagnostics another program has for it |
| `memory_flow_recursion` | **violation**: a function that calls itself lets a value on the stack outlive its frame |
| `threads` | thread objects and callables are used only while they exist and freed in the end; only a join the library refuses terminates a program; equal questions about types have equal answers, casts agree with comparisons of type values; joins end; lists behave as values, and dictionaries as maps |

Every property of a passing run has a mutant: a definition changed as a plausible
bug would change it, with which TLC finds the property violated.

### Bounds

* `rc`: two threads, two heap objects, one on the stack, one block of memory, three
  strong and two weak references. Two threads suffice for every race on one count (a
  count is one atomic variable, and the code never waits for a third party); two heap
  objects are needed for a release inside a destructor; three references let each
  thread hold one while a field holds another; two weak references let one outlive
  the other.
* `progress`, counting: two heap objects, three strong references and one weak one; what is asked
  is termination of releases and of the loop of `ejcAcquireStrong`, to which objects on the
  stack and blocks of memory add nothing. The other parts of this run are below.
* `initializer`: bodies of up to five statements, two local variables at a time,
  two nested blocks, one own and one inherited instance variable. A complete
  initializer takes two statements, which leaves three for control flow and exits
  around them. `initializer_exits`: six statements of fewer kinds. Blocks of up to five
  instructions on two values: a pair for each and something between them.
* `compiler`, packages: the main package, `s` and two more, so that one library can import another
  after or before the main package does, and cycles have up to two members; three
  classes, so that a class can be declared before, between or after its superclasses, and cycles of
  superclasses have up to three members. Two classes are generic. A library has one class at most,
  which is enough for superclasses of another package; the order of several classes
  is exercised in the main package. Errors other than cycles happen in a library that
  another one imports. `package_order` is the same instance for packages only, and
  `circular_inheritance` one for superclasses only, in two packages with four classes, the
  fewest that show it.
* `compiler`, specialization: three generic functions, one of them with two lists of arguments, five
  specializations, two functions in the queue. Three functions make the cycles that
  matter (a failed one, one that calls it, one that calls that) and a stack of three; five
  specializations leave room for two that are created anew after they were discarded.
* `compiler`, memory flow: a method, one that overrides it, a deinitializer and an initializer
  that call each other, each of up to `MaxLength` = 2 statements: one to obtain a value and
  one to let it escape; longer chains of escapes go through calls. `memory_flow_recursion`
  is the same instance without the condition.
* `threads`: the main thread and two others, so that a thread can be joined, shared and
  released by one that did not start it. `focus` chooses what a behaviour exercises:
  shared references to threads; the mutex; what is interned (`MaxAnswers` = 2 answers,
  two keys in one slot of the cache, type descriptions with superclasses that have
  arguments of their own); lists (two variables, three storages, up to two items: a
  storage that is shared, one that is cloned from it and one passed as an argument); or
  dictionaries: two variables and a third table to enlarge into, three keys, so that the first, a
  middle and the last entry of a chain can be removed. Tables have 2, 3 and 6 buckets
  instead of 7, 17 and more, so that a third key enlarges a table that is
  shared or not, and keys meet in one and part in the other.
* `server`: three files, two of them programs that share the third; `a` may include
  `c` or not, so that `c` moves between packages; `MaxOpen` = 2 documents open at a
  time; diagnostics only for the shared file (`Diagnosable`); every analysis may stop
  early (`Outcomes`). `progress`, requests: the shared file includes `b` and closes a
  cycle; one request; analyses without diagnostics. `progress`, input: up to `MaxParts` = 2 messages
  out of ten, correct or broken in every way the code tells apart, cut anywhere; a header of up to 11
  characters and a body of up to 2, which leaves room for a body that is a field name. Two
  messages suffice, as the flags and the buffer hold the remains of one.
* `CHECK_DEADLOCK FALSE`: programs end, the server exits after `exit`.

### Fairness

* `progress`, counting: weak fairness of the steps of releases and of the loop of
  `ejcAcquireStrong` (`ReleaseStep`, `AcquireStep`), per thread, as the operating system runs every thread; nothing
  is assumed about which operations programs begin. Strong fairness of
  `AcquireSucceeds` (an exchange that is tried again and again finds the count
  unchanged once: another thread's change makes it fail, not the exchange itself) and
  of `DeinitReturns` (a deinitializer, which may call anything, returns in the end).
* `progress`, requests: weak fairness of `CheckDue`, which the loop of `runChecks`
  executes without reading, and strong fairness of `runChecks` with each scheduled
  root: `run` calls it whenever no message is ready, the time of a scheduled check is
  never put off, and it is assumed that the client pauses again and again. A client that never
  pauses postpones checks without limit (see *Seen*).
* `progress`, input: weak fairness of `takeMessage`, which is a call that runs to its end,
  and strong fairness of `Arrive`: `Server::run` calls `read` again and again, and what the
  client sent arrives in the end, although a wait may time out any number of times.
* `MCProgress` states the strong fairness of two conditions of different components as one of their
  disjunction. A behaviour exercises one component, the others' actions are never enabled in it, so
  the disjunction is fair exactly when the one that is exercised is.
* `threads`: weak fairness of `RuntimeStep` of every thread, the steps inside
  `sThreadNew`, `sThreadJoin` and the lambda a thread runs; nothing is assumed about
  what the program does, so a join ends if the joined thread ends.

## Findings

1. *Replaced values are deinitialized twice* (`assignment`). `generateAssignment`
   releases the old value before it stores the new one. A deinitializer that reads the
   variable retains the object, whose count is zero, and releases it again.
2. *Exits release variables without a value* (`initializer_exits`). In

       🖍🆕 x 🔡
       ↪️ a 🍇 🔤1🔤 ➡️ 🖍x 🍉
       🙅 🍇 ↩️↩️ 🍉
       🔤2🔤 ➡️ 🖍x

   the memory flow analysis has seen an assignment to `x` when it adds releases to
   `↩️↩️`. The semantic analysis asks at the end of the scope only whether `x` is set
   on all paths, and there it is.
3. *Diagnostics of closed files* (`server_closed`). `didClose` publishes an empty list
   for a file that another open program has diagnostics for.
4. *Recursive functions* (`memory_flow_recursion`). While a function is analysed, a call of
   itself uses the categories found so far. An escape found further down in
   the body is not seen by the calls above it, so that an argument of such a call
   may be allocated on the stack and outlive its frame.

5. *Classes are created before their superclasses* (`package_order`). `loadPackage` enters a package
   into `packageImportOrder_` before it parses it, so a package precedes those it
   imports first itself. `CodeGenerator::generate` creates classes in this order. If
   `main` imports `x`, and `x` imports `y` and extends a class of `y`, the virtual table of
   the subclass is built from one that is still empty.

6. *Classes refused as circular* (`circular_inheritance`). While the superclass type of a class is
   analysed, and with it every class it mentions as a generic argument, `analysingSuperType_` of
   the subclasses that wait for it stays set. In

       🐇 A C 🍇🍉    🐇 C B🐚D🍆 🍇🍉    🐇 D A 🍇🍉

   the analysis of `A` asks for `C`, which mentions `D`, which finds `A` being analysed. Nothing
   inherits from itself, and with `C` declared first the program is accepted.

Seen without a document that promises otherwise, so no run: the pass
`ConstantReferenceCountingPass` collects retains and releases of constants in
`toBeDeleted_` and deletes none; `ejcAcquireStrong` counts
acquisitions of literals in the shared `ejcIgnoreBlock` and `ejcRelease` does not take
them back, so 2^31 of them change its sign; `Server::run` checks packages only when no
message is ready, so that a client that never pauses postpones checks that are due; `🐗` of a
dictionary releases the entries before it clears the buckets (`s/🍯.🍇:351`), so a deinitializer of an element that
looks a key up meets released entries.

Seen in `InitializerCompilation` without a document that promises otherwise: a loop
body is analysed once, so an assignment in a loop to a variable that is not set before
does not release the value of the previous iteration, and neither does an assignment
after a conditional one; and a superinitializer called in a loop whose function then
raises or never returns is called repeatedly.

## Proofs

Assumptions are the named `ASSUME`s only: constants are sets of the right shape.

`ReferenceCountingProofs`, for any sets of threads, objects, references and weak
references. `Invariance` shows that `IInv` is inductive: typing; the counts equal the
number of references, running releases and acquisitions (`CountsExact`); a reference points to an object
whose count is positive; the weak count is the number of weak references plus the share of the
strong ones. `CountsExact` alone is not inductive: a step that takes a count to zero needs to know
that no other reference exists, which needs the counting of references as finite sets.
`TypeCorrect`, `CountsAreExact`, `NothingDangles` and `BlocksAreSafe` follow.
`OnePlace`: a place is a position in the stack of releases of a thread; every object that is being
torn down has exactly one. A release pushes and pops such stacks, so the invariant speaks of all
positions and not only of their number. `ObjectsTornDownOnce` counts them.
`LivesAsPromised` is the refinement: initial states map to initial states of `ObjectLifetime`, and
every step to a step of it or a stutter (`AllocRefines`, `RetainRefines`, `DropRefines`, …). That
`ejcAcquireStrong` fails only for an object whose life has ended needs `ZeroIsDead`: a count of
zero that a thread has read stays zero, and the object it belongs to is not alive.

`LanguageServerProofs`, for any files, texts and requests. `RequestInvariance` shows
that typing, `WaitingIsScheduled` and `AnsweredOnce` together are inductive, with the
fact that the roots `runChecks` still goes through and the scheduled ones cover every
root with deferred requests. `WaitingScheduled` and `RequestsAnsweredOnce` follow.
`SessionInvariance` adds the analyses: `ClosedRootsForgotten`, `OpenFilesCurrent` and
`DiagnosticsCurrent` depend on each other (what the client shows is compared with analyses, and
analyses are dropped with their roots) and are inductive together with `PublishedKnown`, which ties
`published_` to the analysis it came from. Its steps are two: a handler that regroups the
documents (`RegroupStep`) and a check (`CheckFacts`). `LastBodiesKept` is an action property
proved from it: only a step that closes the last document of a root loses its usable analysis.
The same module proves `MessagesReceivedAsSent` about `Transport`, for any number of messages and broken
ones in any order. `TransportInv` is about what is *untaken*, the buffer and what is still unread, so reading
(`ReadInputStep`) does not change what it says. Untaken text begins with a part (`BeginsWith`), or its next field
name is the first one of a part (`Resumes`), or its next blank line ends one (`Skips`); `Accounted` says
that the parts before it have been received, in their order, but for broken ones that were skipped together. The lemmas
it rests on are about searching: what is found in the buffer is found at the same place in all of the text
(`FindJoined`), the end of the buffer that is kept is long enough to find what is cut
(`KeptFacts`), a header says the same whatever follows it (`SameHeader`), and a text without a field name is
skipped with the broken parts after it that have none (`Skipped`). It assumes what `IsMessage` and `IsBroken`
say of the parts.

`InitializerCompilationProofs`, for bodies of any length and nesting and any instance and local
variables. The invariant has one part per phase. While a body is analysed, the code so far is a
graph, and `Consistent` says that what is certain at a place is implied along every edge that
leads there, by what is certain before the edge and what the instruction adds or releases (`After`);
the end of the code counts as a place where the analyser's present answers hold. Jumps whose
targets are not patched yet are exempt, and are accounted for by `Pending`: the branch past a
block knows what was certain when the block began, and each jump behind the structure comes from a
branch that `PathAnalyser` keeps and that did not return. When branches are merged, what
`CertainIncidents` makes of them is therefore implied at every jump (`BranchesFinished`). `Scoped` says
that no branch, ended or not, knows of a variable whose scope was left, as their numbers are used
again, and `Remembered` that the memory flow analysis only knows variables that the semantic
analysis takes for potentially set; with `checkScope` they are certainly set at the end of the scope.
At the end of the body every path has returned, so no edge leads past the code; then the
execution, which is a walk along the edges, keeps `certain` a subset of what happened (`RunInv`).
`CertainlyMeansHappened`, `ScopesReleaseWhatWasSet`, `AbortsReleaseWhatWasSet`,
`ReturnsAreInitialized` and `BodiesReturn` follow. The property that does not hold,
`ExitsReleaseInitialized`, is where `Remembered` is all there is to know.

`SpecializationProofs`, for any set of keys and any bounds. `Invariance` shows that `IInv`
is inductive. `CallsCompiled` alone is not: that no caller is missed when something is
discarded needs `CallsRecorded` (every call of something unfinished is a recorded
dependency), and that the analyses which contain the failed one are spared needs
`OlderIndependent`: what existed when an analysis on the stack began depends on nothing
made since. The lemma `ContainingSpared` draws the conclusion: what was made since is
closed under callers, so it includes all that is discarded. `CompiledClosed`,
`AnalysesSurvive`, `NoDanglingPointer`, `NothingCompiledTwice` and `TrapsRestored` follow.
`RetriesEnd` has an invariant of its own, `RetryInv`, which counts: a specialization was made at most
as often as it exists now, plus the specializations that failed for good, which are among those made
and hence finitely many; a discarded one was discarded by such a failure, which is one more.

`MemoryFlowProofs`, for any functions, overriding, declarations and bodies of any length.
`Invariance` shows that every category an analysed statement used is final or in `assumed`
and that what the statements let escape is summarised in `escaping`. `CategoriesClosed`
(`AnalysisClosed`) follows: what the categories permit is closed under what programs do.
`Sinks`, which is computed by adding facts until none follows, is the least such set
(`SinksAreClosure`): a program has finitely many facts, as `ProgramIsFinite` assumes, and a set of facts that is as
large as possible among those the computation goes wrong for could not grow. `FramesAreSafe`
(`StackNeverOutlived`) and `DeinitializersAreSafe` (`DeinitializedNeverKept`) follow, however long the chains
of calls.
The same module proves `RemovalIsUnobservable` about `RedundantReferenceCounting`, for any block,
values and objects. `RedundantInvariant`: what the pass has deleted can be paired, each release with an earlier
retain of the same value and nothing between them at which other code runs (`Pairing`); a retain it
has noted can still be paired (`RetainsPairable`). While the block is executed, the two executions
differ by the pairs that are open (`Balanced`), and while a pair of an object is open there is another
reference to it: it existed when the pair was opened, and what could give that up closes all pairs.

`HashTablesProofs`, for any variables, keys, elements and hashes and any set of capacities.
`MapsAlways` (`DictionariesAreMaps`) follows from `TablesInv`, which says of each dictionary that
there is a *layout* of its table (`Laid`): a sequence of cells for each bucket, such that the bucket has the
first of them and each entry has the next, the keys in it belong to the bucket and differ, and together they are
the keys of the value; that no other entry of the table is occupied (`Exact`); and that a table no
variable refers to was released. Chains, lookups and lists of entries are defined by recursion
over entries that are linked, which need not end anywhere; the lemmas show once that on a layout they
are what the layout says (`ChainsLaid`, `AllLaid`), and everything else argues about layouts: each change to a table leads from
one layout to another. An insertion extends a sequence of it (`Extends`), by which cloning and enlarging, which insert
all entries anew, hold the same map in another table (`Enumerates` says they insert each once); a removal
takes one cell out of a sequence. A dictionary that is changed either holds the only reference to its table or
was given a clone (`Ready`), so the tables of the others stay as they were. The assumptions are that memory does not
run out: a table has room for as many entries as there are keys (`RoomForEntries`), and there is one table more than
there are dictionaries, as a clone exists before the reference to the old table is given up (`RoomForTables`).

`ThreadsProofs`, for any finite set of threads. `ThreadsInvariant` shows that the counts of
thread objects and callables are the numbers of their holders (`ReferencesCounted`), with what that
needs: `StartedAlone` (until `sThreadNew` returns, only the references it took itself exist, so that
whoever creates or destructs a thread object is its only user), `StartedWithObject`,
`MainHasNoObject`, `JoinedIsReachable` and `MainRuns` (the main thread is always at a step of its own,
as a lambda that releases its own references relies on). A release that destructs a thread object or a callable releases what it
captured, which may destruct further ones: `ReleaseObjects` does it for a set of them at once, and
the lemmas about it count by cardinalities. `AllReferencesCounted`, `NothingUsed` and
`OnlyRefusedTerminate` follow.
The same module proves `AnswersAgree` about `Interning`, for any threads, conformances,
descriptions and hashes. `InternInvariant`: an entry of a cache is an entry of the map it stands for
(`CachesAgree`; that a slot is shared by several keys does no harm as `CacheHit` compares them), a thread that
found no entry still holds the mutex when it creates one (`CreatorsHoldMutex`), so keys and addresses are
unique. It assumes `KeysDescribeTypes`: the entries a walk takes for a description are equal
exactly for equal types, which is what the walks are for; TLC evaluates it on the instance.
`CastsAgree`: a cast finds two descriptions the same exactly if the class type values of them have the same
address, for descriptions of any size and depth, although `checkGenericArgs` compares neither
lengths nor the arguments of superclasses. Nothing marks where a description ends, so the proof counts: the
height of a position (`Height`) is how many descriptions have ended before it, less those to come. It rises by one at
most per entry (`Heights`), so a description ends where the height first exceeds the one it starts at, and the
walks over arguments find those positions (`LengthFacts`, `IndexFacts`). The comparison is an iteration over the stack of
calls in progress (`CheckStep`). Its invariant (`Framed`) says of every call which two entries it is about, that both
pointers are where the call has as many arguments left as it counts, and that the own arguments passed are alike;
when a call ends, the superclass's arguments follow from them, so the whole descriptions of its entries are alike
(`FrameDone`, `CallReturns`). Every step has less left to do (`Effort`), so the iteration ends. The assumptions are that
numbers of arguments are not negative (`ArgumentsCounted`), that keys are descriptions of one type
(`KeysAreDescriptions`) and what the comment at `runtime/main.cpp:336` says, that the arguments to the superclass
follow from the class's own (`SuperArgumentsFollow`); TLC evaluates them on the instance.
About `CopyOnWrite` it proves, for any variables, storages and items, and lists of any length, the invariant
`ListsInv` (`Invariance`): the count of a storage is the number of variables, running methods and
snapshots that hold it (`StoragesCounted`), and a method past its preparation holds the only reference.
`ListsBehaveAsValues` is the refinement of `ListValues`: every step is a step of the
abstract lists or changes none of them.

`PackageLoadingProofs`, for any packages and classes. Imports: the packages being loaded form a
chain in which each is imported by the one before (`LoadingIsChain`), and what a package imported is finished
or next in the chain (`ImportsFinished`); so an import of a package in the chain closes a cycle, and one
of a finished package does not, since a set of packages that is closed under some import would have to
reach into the chain. `ImportsAreNotCircular` follows. Superclasses: `Nested` describes the stack of
calls of `analyseSuperType`, `Led` says that the superclass type of a class that waits leads to every class
above it on the stack, and `PlacedInOrder` that a class whose offset is known follows one that is
known, so that the known ones contain no cycle. `InheritanceIsNotCircular` and
`GenericsFollowSuperclass` follow. A cycle is a set in which every element leads to another
(`Cyclic`), so no induction over paths is needed.

`InheritedInOrder`: a class inherits after its superclass. `SuperclassFirst` is defined by two recursive
functions, so the proof first shows that they exist: `Recursion` proves, once and for any sets, that there is a
function that is defined by recursion along steps to something smaller, by taking a number without one that
is least. `AppendsExists` and `OrdersExists` apply it (fewer classes are left; the loop goes on), `Chains` says
what `append` returns, and `SuperclassesFirst` that every class is listed, after its superclass, provided no class
inherits from itself, which `PlacedInOrder` grants. The invariant `InheritInv` adds that classes whose analysis began are
analysed, or wait for a call made for the package analysed last, and see their superclasses
(`Accounted`), that the loop over the classes left none out (`LoopedOver`), that the classes of a package are in
order once it is analysed (`BroughtInOrder`), and how far inheriting got (`InheritedSoFar`).

The types of the state (`TypeOK`, `FlowTypeOK`), `WaitingIsScheduled` and `CompiledOnce` are proved, as parts of the
inductive invariants or from them, and no run checks them again.

Only model-checked:

* liveness (`EventuallyFreed`, `EventuallyAnswered`, `EventuallyReceived`, `JoinsEnd`): fairness and
  `ENABLED` are out of the prover's reach;
* what `Checker::rootFile` returns, which follows includes until a cycle: it enters the proofs by the
  assumption `RootFileAssumption` about its range and that of `Package`, which TLC evaluates on the
  instances;
* that the compiler lays type descriptions out as `KeysDescribeTypes`, `KeysAreDescriptions` and
  `SuperArgumentsFollow` assume, which TLC evaluates on the blocks of the instance.

## Not modelled, and the plan

In this order.

1. Overload resolution, as an operator checked against a reference definition.
2. The token stream, likewise.

Not planned: the parser, the generation of LLVM types and of run-time type
information, conversions of numbers and strings, files, sockets, JSON, queries of the
language server, editors, command line and pretty printer: pure functions or wrappers
of library calls, without state that several steps share.
