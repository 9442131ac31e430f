--------------------------- MODULE Specialization ---------------------------
(***************************************************************************)
(* How the semantic analyser specializes generic functions                 *)
(* (Compiler/Analysis/SemanticAnalyser.cpp: specialize, recordCall,        *)
(* discardSpecialization, analyseSpecialization, enqueueFunction,          *)
(* analyseQueue, and Compiler::error).                                     *)
(*                                                                         *)
(* A call of a generic function with concrete arguments is compiled to a   *)
(* specialization, whose body is analysed at once, inside the analysis of  *)
(* the calling body.  That analysis may itself call, specialize and        *)
(* recurse, and may fail: then the generic function is called instead, and *)
(* everything already analysed that calls the failed specialization is     *)
(* discarded too.                                                          *)
(*                                                                         *)
(* What a body calls, and whether it compiles, is left open.  The run      *)
(* begins where the declarations were analysed (declarationsAnalysed_).    *)
(***************************************************************************)
EXTENDS Integers, SequencesExt

CONSTANTS
    Key,            \* a specializable generic function and concrete arguments for it,
                    \* what a specialization is filed under
    MaxDepth,       \* kMaxSpecializationDepth
    MaxCreated,     \* bound: specializations created
    MaxQueued       \* bound: functions of the queue

ASSUME BoundsAssumption == MaxDepth \in Nat /\ MaxCreated \in Nat /\ MaxQueued \in Nat

Id == 1..MaxCreated             \* specializations, numbered as they are created
Null == 0                       \* the nullptr of specializations_: cannot be specialized
Absent == -1                    \* no entry in specializations_
General == 0                    \* a function of the queue, which is no specialization

VARIABLES
    created,            \* the number of specializations created
    key,                \* their function and arguments
    specializations,    \* specializations_
    stack,              \* specializationStack_, the innermost last
    unfinished,         \* unfinishedSpecializations_
    dependencies,       \* specializationDependencies_
    unused,             \* unusedSpecializations_
    package,            \* Package::specializations_: what is compiled
    calls,              \* the specializations a specialization's analysed body refers to
    generalCalls,       \* those the bodies of the queue refer to
    queue,              \* queue_: the owner of each function in it
    queued,             \* the number of functions queued in all
    trapped,            \* the value of trapsErrors_ each analysis on the stack restores
    trapsErrors         \* Compiler::trapsErrors_: an error is thrown and not reported

vars == <<created, key, specializations, stack, unfinished, dependencies, unused, package, calls,
          generalCalls, queue, queued, trapped, trapsErrors>>
(***************************************************************************)
(* analyseQueue started with one function of the queue.                    *)
(***************************************************************************)
Init ==
    /\ created = 0
    /\ key = [s \in Id |-> <<>>]
    /\ specializations = [k \in Key |-> Absent]
    /\ stack = <<>>
    /\ unfinished = {} /\ unused = {} /\ package = {}
    /\ dependencies = [s \in Id |-> {}]
    /\ calls = [s \in Id |-> {}] /\ generalCalls = {}
    /\ queue = <<General>> /\ queued = 1
    /\ trapped = <<>> /\ trapsErrors = FALSE

Top == stack[Len(stack)]
Analysing == queue # <<>>

-----------------------------------------------------------------------------
\* The dependencies after a call of s was recorded for the caller, the last of the stack on.
RecordCall(on, s) ==
    IF on # <<>> /\ s # on[Len(on)] /\ s \in unfinished
    THEN [dependencies EXCEPT ![on[Len(on)]] = @ \cup {s}]
    ELSE dependencies

\* The body being analysed, the last of the stack on, now calls s.  Calls of what is in the
\* package already are not recorded: nothing is ever taken out of it.
Refer(on, s) ==
    IF s \in package THEN UNCHANGED <<calls, generalCalls>>
    ELSE IF on = <<>> THEN generalCalls' = generalCalls \cup {s} /\ UNCHANGED calls
    ELSE calls' = [calls EXCEPT ![on[Len(on)]] = @ \cup {s}] /\ UNCHANGED generalCalls

\* The call resolves to a specialization made before, possibly one that is being analysed.
\* When specializations_ holds nullptr, the generic function is called and nothing changes.
UseExisting(k) ==
    /\ Analysing
    /\ specializations[k] \in Id
    /\ dependencies' = RecordCall(stack, specializations[k])
    /\ Refer(stack, specializations[k])
    /\ UNCHANGED <<created, key, specializations, stack, unfinished, unused, package, queue, queued,
                   trapped, trapsErrors>>

\* Whether the generic function is called because specialize gives up: too deep, or inside
\* a specialization of the same function.
GivesUp(f) ==
    \/ Len(stack) >= MaxDepth
    \/ \E i \in 1..Len(stack) : key[stack[i]][1] = f

\* specialize creates a specialization, files it, and starts its analysis.
BeginSpecialization(k) ==
    /\ Analysing
    /\ specializations[k] = Absent
    /\ ~GivesUp(k[1])
    /\ created < MaxCreated
    /\ created' = created + 1
    /\ key' = [key EXCEPT ![created'] = k]
    /\ specializations' = [specializations EXCEPT ![k] = created']
    /\ unfinished' = unfinished \cup {created'}
    /\ stack' = Append(stack, created')
    /\ trapped' = Append(trapped, trapsErrors)
    /\ trapsErrors' = TRUE
    /\ UNCHANGED <<dependencies, unused, package, calls, generalCalls, queue, queued>>

-----------------------------------------------------------------------------
\* What specialize does with the unfinished ones, those left of them, and with the unused
\* ones, when the stack is left with on.
Settle(on, left, discarded) ==
    IF on = <<>>
    THEN /\ package' = package \cup left
         /\ unfinished' = {}
         /\ unused' = {}
    ELSE /\ unfinished' = left
         /\ unused' = unused \cup discarded
         /\ UNCHANGED package

\* Mutant: analyseSpecialization stops trapping instead of restoring what it found.
PopUntrapped ==
    /\ stack # <<>>
    /\ stack' = Front(stack)
    /\ trapped' = Front(trapped)
    /\ trapsErrors' = FALSE

\* analyseSpecialization returns and the innermost specialization is popped.
Pop ==
    /\ stack # <<>>
    /\ stack' = Front(stack)
    /\ trapped' = Front(trapped)
    /\ trapsErrors' = trapped[Len(trapped)]

\* The innermost specialization compiled: its caller calls it.
FinishSpecialization ==
    /\ Pop
    /\ Settle(Front(stack), unfinished, {})
    /\ dependencies' = IF Front(stack) = <<>> THEN [s \in Id |-> {}] ELSE RecordCall(Front(stack), Top)
    /\ Refer(Front(stack), Top)
    /\ UNCHANGED <<created, key, specializations, queue, queued>>

\* discardSpecialization follows the callers of what it discards.
ClosedUnderCallers(set) ==
    \A s \in unfinished : dependencies[s] \cap set # {} => s \in set
\* Mutants: only the failed one is discarded; everything unfinished is.
DiscardedAlone(failed) == {failed}
DiscardedAll(failed) == unfinished
Discarded(failed) ==
    {s \in unfinished : \A set \in SUBSET unfinished :
                            failed \in set /\ ClosedUnderCallers(set) => s \in set}

\* Mutants: the entries of the callers are kept; the failed one may be tried again.
ForgetFailed(set, failed) == [k \in Key |-> IF specializations[k] = failed THEN Null ELSE specializations[k]]
ForgetFailure(set, failed) ==
    [k \in Key |-> IF specializations[k] \in set THEN Absent ELSE specializations[k]]

\* The entries of specializations_ once those in set are discarded because failed failed.
Forget(set, failed) ==
    [k \in Key |-> IF specializations[k] = failed THEN Null
                   ELSE IF specializations[k] \in set THEN Absent ELSE specializations[k]]

\* The analysis of the innermost specialization throws: it cannot be parsed or has an error
\* (a CompilerError, or a TrappedError thrown by Compiler::error).  The generic function is
\* called instead.
FailSpecialization ==
    /\ Pop
    /\ specializations' = Forget(Discarded(Top), Top)
    /\ Settle(Front(stack), unfinished \ Discarded(Top), Discarded(Top))
    /\ dependencies' = [s \in Id |-> IF Front(stack) = <<>> \/ s \in Discarded(Top)
                                     THEN {} ELSE dependencies[s]]
    /\ calls' = [s \in Id |-> IF s \in Discarded(Top) THEN {} ELSE calls[s]]
    /\ UNCHANGED <<created, key, generalCalls, queue, queued>>

-----------------------------------------------------------------------------
\* Who owns a function that the body being analysed makes, and that is analysed from the
\* queue: one made for a specialization is analysed at once instead, as part of it.
Enqueued == IF stack = <<>> THEN <<General>> ELSE <<>>

\* The body being analysed makes a function, like a callable thunk: enqueueFunction.
EnqueueFunction ==
    /\ Analysing
    /\ queued < MaxQueued
    /\ queue' = queue \o Enqueued
    /\ queued' = queued + Len(Enqueued)
    /\ UNCHANGED <<created, key, specializations, stack, unfinished, dependencies, unused, package, calls,
                   generalCalls, trapped, trapsErrors>>

\* analyseQueue is done with the first function of the queue.
FinishFunction ==
    /\ Analysing
    /\ stack = <<>>
    /\ queue' = Tail(queue)
    /\ UNCHANGED <<created, key, specializations, stack, unfinished, dependencies, unused, package, calls,
                   generalCalls, queued, trapped, trapsErrors>>

Next ==
    \/ \E k \in Key : UseExisting(k) \/ BeginSpecialization(k)
    \/ FinishSpecialization
    \/ FailSpecialization
    \/ EnqueueFunction
    \/ FinishFunction

Spec == Init /\ [][Next]_vars

-----------------------------------------------------------------------------
(***************************************************************************)
(* Properties.                                                             *)
(***************************************************************************)

\* The state has the types of the code, and a specialization is owned by one list at most
\* (a unique_ptr).
TypeOK ==
    /\ created \in 0..MaxCreated
    /\ key \in [Id -> Key \cup {<<>>}]
    /\ specializations \in [Key -> Id \cup {Null, Absent}]
    /\ stack \in Seq(Id)
    /\ unfinished \cup unused \cup package \subseteq 1..created
    /\ unfinished \cap unused = {} /\ package \cap (unfinished \cup unused) = {}
    /\ dependencies \in [Id -> SUBSET Id]
    /\ calls \in [Id -> SUBSET Id] /\ generalCalls \subseteq Id
    /\ queue \in Seq(Id \cup {General}) /\ queued \in Nat
    /\ trapped \in Seq(BOOLEAN) /\ trapsErrors \in BOOLEAN

\* Whatever a function that is compiled calls is compiled: nothing refers to a
\* specialization that failed, or that was discarded because one it calls, directly or
\* through others, in a cycle or not, failed; those are freed.
CallsCompiled ==
    /\ generalCalls \subseteq package
    /\ \A s \in package : calls[s] \subseteq package

\* No specialization is discarded while it is being analysed, and a recursive call in it
\* finds it.
StackAlive ==
    \A i \in 1..Len(stack) : stack[i] \in unfinished /\ specializations[key[stack[i]]] = stack[i]

\* The analyser and the queue only refer to specializations that exist.
PointersAlive ==
    /\ \A k \in Key : specializations[k] \in unfinished \cup package \cup {Null, Absent}
    /\ \A i \in 1..Len(queue) : queue[i] \in unfinished \cup package \cup {General}

\* A function is not compiled twice for the same arguments.
CompiledOnce == \A s, t \in unfinished \cup package : key[s] = key[t] => s = t

\* Errors in a specialization are never reported to the user, and errors in any other code
\* never thrown, however the analyses nest and fail.
ErrorsTrapped == trapsErrors = (stack # <<>>)

\* A specialization is only tried again after a further one failed for good, so the
\* analysis ends.
RetriesPaidFor ==
    \A k \in Key : Cardinality({s \in 1..created : key[s] = k})
                        <= 1 + Cardinality({l \in Key : specializations[l] = Null})

=============================================================================
