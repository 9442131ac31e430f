------------------------- MODULE ReferenceCounting -------------------------
(***************************************************************************)
(* Reference counting in the runtime library (runtime/main.cpp): objects,  *)
(* their control blocks, strong and weak references, and the threads of a  *)
(* program that retain, release and acquire them concurrently.             *)
(*                                                                         *)
(* A strong reference is a token of Refs: it is held by a thread (a local  *)
(* variable or a temporary) or by an object (an instance variable), and it *)
(* points to an object.  Tokens are what the compiled program owns; the    *)
(* runtime sees only the counts.  A weak reference is a token of WeakRefs, *)
(* an initialized WeakReference struct.  Every atomic operation of the     *)
(* runtime is a step of its own, and so are the destructor, free() and     *)
(* the deletion of the control block, which other threads may overtake.    *)
(***************************************************************************)
EXTENDS Integers, Sequences, FiniteSets

CONSTANTS
    Threads,      \* threads of the program
    HeapObjects,  \* objects and captures created by ejcAlloc, with a destructor
    Memories,     \* 🧠 blocks and remote boxes: ejcAlloc, released without destructor
    Locals,       \* objects allocated on the stack: null control block
    Refs,         \* strong reference tokens (bounds how many exist at a time)
    WeakRefs,     \* weak reference tokens (bounds how many exist at a time)
    None

Objects == HeapObjects \cup Memories \cup Locals
Heap == HeapObjects \cup Memories

\* A call of ejcAcquireStrong: the weak reference, the reference that will hold the
\* result, and the strong count last read by the loop.
Acquisition == [ref : WeakRefs, into : Refs, count : Int]

ASSUME RefsAssumption == IsFiniteSet(Refs) /\ IsFiniteSet(WeakRefs)
ASSUME SortsAssumption ==
    /\ None \notin Objects \cup Threads \cup Refs \cup WeakRefs \cup Acquisition
    /\ Threads \cap Objects = {}
    /\ HeapObjects \cap Memories = {}
    /\ Locals \cap Heap = {}

VARIABLES
    phase,     \* [Objects -> Phases]: how far an object's life has come
    strong,    \* [Objects -> Int]: ControlBlock::strongCount, or the count before a stack object
    weak,      \* [Objects -> Int]: ControlBlock::weakCount
    block,     \* [Objects -> {"none", "allocated", "deleted"}]: the control block
    target,    \* [Refs -> Objects or None]: what a strong reference points to
    holder,    \* [Refs -> Threads, Objects or None]: where a strong reference is stored
    weakTo,    \* [WeakRefs -> Objects or None]: WeakReference::object and ::block
    teardown,  \* [Threads -> Seq(Objects)]: objects whose release the thread is inside, innermost first
    deleting,  \* [Threads -> Objects or None]: releaseWeakCount saw zero, delete is next
    acquiring  \* [Threads -> Acquisition or None]: the thread is inside ejcAcquireStrong

vars == <<phase, strong, weak, block, target, holder, weakTo, teardown, deleting, acquiring>>

Phases == {"unborn", "live", "deinit", "fields", "free", "unshare", "dead"}

Strong(o) == {r \in Refs : target[r] = o}
Weak(o) == {w \in WeakRefs : weakTo[w] = o}

\* Phases in which the strong references still hold their share of the weak count.
HoldsShare(o) == phase[o] \in {"live", "deinit", "fields", "free", "unshare"}

Spare(r) == /\ target[r] = None
            /\ \A t \in Threads : acquiring[t] # None => acquiring[t].into # r

InPhase(t, p) == /\ deleting[t] = None
                 /\ teardown[t] # <<>>
                 /\ phase[Head(teardown[t])] = p

\* The thread runs compiled code: the program, or a deinitializer called by the
\* destructor of the object it is tearing down.
Running(t) == /\ deleting[t] = None
              /\ acquiring[t] = None
              /\ teardown[t] # <<>> => phase[Head(teardown[t])] = "deinit"

\* The thread may use an object: it holds a reference to it, or the object is `this`
\* of the deinitializer it runs.
MayUse(t, o) == \/ \E r \in Refs : target[r] = o /\ holder[r] = t
                \/ InPhase(t, "deinit") /\ Head(teardown[t]) = o

----------------------------------------------------------------------------
Init ==
    /\ phase = [o \in Objects |-> "unborn"]
    /\ strong = [o \in Objects |-> 0]
    /\ weak = [o \in Objects |-> 0]
    /\ block = [o \in Objects |-> "none"]
    /\ target = [r \in Refs |-> None]
    /\ holder = [r \in Refs |-> None]
    /\ weakTo = [w \in WeakRefs |-> None]
    /\ teardown = [t \in Threads |-> <<>>]
    /\ deleting = [t \in Threads |-> None]
    /\ acquiring = [t \in Threads |-> None]

Point(r, o, h) == /\ target' = [target EXCEPT ![r] = o]
                  /\ holder' = [holder EXCEPT ![r] = h]

\* ejcAlloc: the new control block starts with one strong reference, held by the
\* thread, and with the strong references' share of the weak count.
Alloc(t, o, r) ==
    /\ Running(t) /\ Spare(r) /\ o \in Heap
    /\ phase[o] = "unborn"
    /\ phase' = [phase EXCEPT ![o] = "live"]
    /\ strong' = [strong EXCEPT ![o] = 1]
    /\ weak' = [weak EXCEPT ![o] = 1]
    /\ block' = [block EXCEPT ![o] = "allocated"]
    /\ Point(r, o, t)
    /\ UNCHANGED <<weakTo, teardown, deleting, acquiring>>

\* FunctionCodeGenerator::stackAlloc: a count of one, and no control block.
StackAlloc(t, o, r) ==
    /\ Running(t) /\ Spare(r) /\ o \in Locals
    /\ phase[o] = "unborn"
    /\ phase' = [phase EXCEPT ![o] = "live"]
    /\ strong' = [strong EXCEPT ![o] = 1]
    /\ Point(r, o, t)
    /\ UNCHANGED <<weak, block, weakTo, teardown, deleting, acquiring>>

\* ejcRetain and ejcRetainMemory: fetch_add on the control block, or an increment of
\* the count before a stack object.  Reading an instance variable (src held by an
\* object) retains its value as reading a local variable does.
Retain(t, src, r) ==
    /\ Running(t) /\ Spare(r)
    /\ target[src] # None
    /\ holder[src] = t \/ MayUse(t, holder[src])
    /\ strong' = [strong EXCEPT ![target[src]] = @ + 1]
    /\ Point(r, target[src], t)
    /\ UNCHANGED <<phase, weak, block, weakTo, teardown, deleting, acquiring>>

\* The value of a temporary is stored into an instance variable that holds none (see
\* ReleaseStored).  A stack object does not escape, so no reference to it is stored.
Store(t, r, o) ==
    /\ Running(t) /\ holder[r] = t
    /\ target[r] \notin Locals /\ o \notin Memories
    /\ MayUse(t, o)
    /\ holder' = [holder EXCEPT ![r] = o]
    /\ UNCHANGED <<phase, strong, weak, block, target, weakTo, teardown, deleting, acquiring>>

\* sThreadNew: the callable, retained for the new thread, becomes that thread's.
Send(t, u, r) ==
    /\ Running(t) /\ holder[r] = t /\ u # t
    /\ target[r] \notin Locals
    /\ holder' = [holder EXCEPT ![r] = u]
    /\ UNCHANGED <<phase, strong, weak, block, target, weakTo, teardown, deleting, acquiring>>

----------------------------------------------------------------------------
\* releaseStrong, and the same for a stack object (releaseLocal): the count is
\* decremented, and whoever takes it to zero takes the object down, beginning with
\* the given phase.
DropStrong(t, r, first) ==
    LET o == target[r] IN
    /\ Point(r, None, None)
    /\ strong' = [strong EXCEPT ![o] = @ - 1]
    /\ IF strong[o] - 1 = 0
       THEN /\ phase' = [phase EXCEPT ![o] = first]
            /\ teardown' = IF first = "dead" THEN teardown
                           ELSE [teardown EXCEPT ![t] = <<o>> \o @]
       ELSE UNCHANGED <<phase, teardown>>
    /\ UNCHANGED <<weak, block, weakTo, deleting, acquiring>>

\* A block of memory has no destructor.
FirstPhase(o) == IF o \in Memories THEN "free" ELSE "deinit"

\* ejcRelease, ejcReleaseCapture, ejcReleaseMemory, ejcReleaseLocal called by the
\* compiled code for a variable or temporary.
Release(t, r) ==
    /\ Running(t)
    /\ target[r] # None /\ holder[r] = t
    /\ DropStrong(t, r, FirstPhase(target[r]))

\* An assignment to an instance variable releases its old value before the new one is
\* stored.  That nothing reads the variable in between is up to the program: the release
\* may run a deinitializer, which finds the pointer to the released value still there.
ReleaseStored(t, r) ==
    /\ Running(t)
    /\ target[r] # None /\ MayUse(t, holder[r])
    /\ DropStrong(t, r, FirstPhase(target[r]))

\* An initializer raises an error: it has released the instance variables it had set,
\* and ejcReleaseWithoutDeinit frees the object, which has not left the initializer.
AbortInit(t, r) ==
    LET o == target[r] IN
    /\ Running(t)
    /\ o \in HeapObjects \cup Locals /\ holder[r] = t
    /\ strong[o] = 1 /\ \A f \in Refs : holder[f] # o
    /\ DropStrong(t, r, IF o \in Locals THEN "dead" ELSE "free")

\* The deinitializers of the class and its superclasses have returned.
DeinitReturns(t) ==
    /\ InPhase(t, "deinit") /\ acquiring[t] = None
    /\ phase' = [phase EXCEPT ![Head(teardown[t])] = "fields"]
    /\ UNCHANGED <<strong, weak, block, target, holder, weakTo, teardown, deleting, acquiring>>

\* The destructor releases an instance variable, which may tear down its object first.
ReleaseField(t, r) ==
    /\ InPhase(t, "fields")
    /\ target[r] # None /\ holder[r] = Head(teardown[t])
    /\ DropStrong(t, r, FirstPhase(target[r]))

\* The destructor returns.  Nothing is left to do for an object on the stack.
DestructReturns(t) ==
    LET o == Head(teardown[t]) IN
    /\ InPhase(t, "fields")
    /\ \A r \in Refs : holder[r] # o
    /\ IF o \in Locals
       THEN /\ phase' = [phase EXCEPT ![o] = "dead"]
            /\ teardown' = [teardown EXCEPT ![t] = Tail(@)]
       ELSE /\ phase' = [phase EXCEPT ![o] = "free"]
            /\ UNCHANGED teardown
    /\ UNCHANGED <<strong, weak, block, target, holder, weakTo, deleting, acquiring>>

\* freeObject
Free(t) ==
    /\ InPhase(t, "free")
    /\ phase' = [phase EXCEPT ![Head(teardown[t])] = "unshare"]
    /\ UNCHANGED <<strong, weak, block, target, holder, weakTo, teardown, deleting, acquiring>>

\* releaseWeakCount: fetch_sub, and the thread that takes the count to zero deletes.
DropWeak(t, o) ==
    /\ weak' = [weak EXCEPT ![o] = @ - 1]
    /\ deleting' = IF weak[o] - 1 = 0 THEN [deleting EXCEPT ![t] = o] ELSE deleting

\* Mutation: the control block is deleted together with the object.
UnshareDeletes(t) ==
    LET o == Head(teardown[t]) IN
    /\ InPhase(t, "unshare")
    /\ weak' = [weak EXCEPT ![o] = @ - 1]
    /\ deleting' = [deleting EXCEPT ![t] = o]
    /\ phase' = [phase EXCEPT ![o] = "dead"]
    /\ teardown' = [teardown EXCEPT ![t] = Tail(@)]
    /\ UNCHANGED <<strong, block, target, holder, weakTo, acquiring>>

\* Mutation: the share is given up only when no weak reference is left.
UnshareLast(t) ==
    LET o == Head(teardown[t]) IN
    /\ InPhase(t, "unshare") /\ weak[o] = 1
    /\ DropWeak(t, o)
    /\ phase' = [phase EXCEPT ![o] = "dead"]
    /\ teardown' = [teardown EXCEPT ![t] = Tail(@)]
    /\ UNCHANGED <<strong, block, target, holder, weakTo, acquiring>>

\* releaseStrong gives up the strong references' share of the weak count and returns.
Unshare(t) ==
    LET o == Head(teardown[t]) IN
    /\ InPhase(t, "unshare")
    /\ DropWeak(t, o)
    /\ phase' = [phase EXCEPT ![o] = "dead"]
    /\ teardown' = [teardown EXCEPT ![t] = Tail(@)]
    /\ UNCHANGED <<strong, block, target, holder, weakTo, acquiring>>

DeleteBlock(t) ==
    /\ deleting[t] # None
    /\ block' = [block EXCEPT ![deleting[t]] = "deleted"]
    /\ deleting' = [deleting EXCEPT ![t] = None]
    /\ UNCHANGED <<phase, strong, weak, target, holder, weakTo, teardown, acquiring>>

----------------------------------------------------------------------------
\* ejcCreateWeak, of a heap object the thread holds.  Its parameter escapes, so the
\* object is not on the stack.
CreateWeak(t, w, o) ==
    /\ Running(t) /\ weakTo[w] = None
    /\ o \in HeapObjects /\ \E r \in Refs : target[r] = o /\ holder[r] = t
    /\ weak' = [weak EXCEPT ![o] = @ + 1]
    /\ weakTo' = [weakTo EXCEPT ![w] = o]
    /\ UNCHANGED <<phase, strong, block, target, holder, teardown, deleting, acquiring>>

\* Mutation: the struct is copied without counting the new weak reference.
RetainWeakUncounted(t, src, w) ==
    /\ Running(t) /\ weakTo[w] = None /\ weakTo[src] # None
    /\ weakTo' = [weakTo EXCEPT ![w] = weakTo[src]]
    /\ UNCHANGED <<phase, strong, weak, block, target, holder, teardown, deleting, acquiring>>

\* ejcRetainWeak, called on the copy of a WeakReference.
RetainWeak(t, src, w) ==
    /\ Running(t) /\ weakTo[w] = None /\ weakTo[src] # None
    /\ weak' = [weak EXCEPT ![weakTo[src]] = @ + 1]
    /\ weakTo' = [weakTo EXCEPT ![w] = weakTo[src]]
    /\ UNCHANGED <<phase, strong, block, target, holder, teardown, deleting, acquiring>>

\* ejcReleaseWeak, by the compiled code or a destructor.  The variable the struct is
\* in is kept alive by every thread that acquires from it.
ReleaseWeak(t, w) ==
    /\ Running(t) \/ InPhase(t, "fields")
    /\ weakTo[w] # None
    /\ \A u \in Threads : acquiring[u] # None => acquiring[u].ref # w
    /\ DropWeak(t, weakTo[w])
    /\ weakTo' = [weakTo EXCEPT ![w] = None]
    /\ UNCHANGED <<phase, strong, block, target, holder, teardown, acquiring>>

\* ejcAcquireStrong: the count is loaded ...
AcquireLoad(t, w, r) ==
    /\ Running(t) /\ weakTo[w] # None /\ Spare(r)
    /\ acquiring' = [acquiring EXCEPT ![t] = [ref |-> w, into |-> r, count |-> strong[weakTo[w]]]]
    /\ UNCHANGED <<phase, strong, weak, block, target, holder, weakTo, teardown, deleting>>

\* Mutation: a failed exchange is not tried again.
AcquireGivesUp(t) ==
    /\ acquiring[t] # None
    /\ acquiring[t].count = 0 \/ acquiring[t].count # strong[weakTo[acquiring[t].ref]]
    /\ acquiring' = [acquiring EXCEPT ![t] = None]
    /\ UNCHANGED <<phase, strong, weak, block, target, holder, weakTo, teardown, deleting>>

\* ... if it is zero there is no value ...
AcquireFails(t) ==
    /\ acquiring[t] # None /\ acquiring[t].count = 0
    /\ acquiring' = [acquiring EXCEPT ![t] = None]
    /\ UNCHANGED <<phase, strong, weak, block, target, holder, weakTo, teardown, deleting>>

\* Mutation: the loaded count is incremented and stored, without comparing again.
AcquireStores(t) ==
    LET attempt == acquiring[t]
        o == weakTo[attempt.ref] IN
    /\ attempt # None /\ attempt.count # 0
    /\ strong' = [strong EXCEPT ![o] = attempt.count + 1]
    /\ Point(attempt.into, o, t)
    /\ acquiring' = [acquiring EXCEPT ![t] = None]
    /\ UNCHANGED <<phase, weak, block, weakTo, teardown, deleting>>

\* Mutation: a count of zero is incremented like any other.
AcquireFromZero(t) ==
    LET attempt == acquiring[t]
        o == weakTo[attempt.ref] IN
    /\ attempt # None
    /\ strong[o] = attempt.count
    /\ strong' = [strong EXCEPT ![o] = attempt.count + 1]
    /\ Point(attempt.into, o, t)
    /\ acquiring' = [acquiring EXCEPT ![t] = None]
    /\ UNCHANGED <<phase, weak, block, weakTo, teardown, deleting>>

\* ... otherwise it is incremented if it is still the same ...
AcquireSucceeds(t) ==
    LET attempt == acquiring[t]
        o == weakTo[attempt.ref] IN
    /\ attempt # None /\ attempt.count # 0
    /\ strong[o] = attempt.count
    /\ strong' = [strong EXCEPT ![o] = attempt.count + 1]
    /\ Point(attempt.into, o, t)
    /\ acquiring' = [acquiring EXCEPT ![t] = None]
    /\ UNCHANGED <<phase, weak, block, weakTo, teardown, deleting>>

\* ... and else read again: compare_exchange_weak failed, perhaps spuriously.
AcquireRetries(t) ==
    /\ acquiring[t] # None /\ acquiring[t].count # 0
    /\ acquiring' = [acquiring EXCEPT ![t].count = strong[weakTo[acquiring[t].ref]]]
    /\ UNCHANGED <<phase, strong, weak, block, target, holder, weakTo, teardown, deleting>>

----------------------------------------------------------------------------
\* What the compiled program may do next.
Program(t) ==
    \/ \E o \in Objects, r \in Refs : Alloc(t, o, r) \/ StackAlloc(t, o, r) \/ Store(t, r, o)
    \/ \E src, r \in Refs : Retain(t, src, r)
    \/ \E u \in Threads, r \in Refs : Send(t, u, r)
    \/ \E r \in Refs : Release(t, r) \/ ReleaseStored(t, r) \/ AbortInit(t, r)
    \/ \E w \in WeakRefs, o \in HeapObjects : CreateWeak(t, w, o)
    \/ \E src, w \in WeakRefs : RetainWeak(t, src, w)
    \/ \E w \in WeakRefs : ReleaseWeak(t, w)
    \/ \E w \in WeakRefs, r \in Refs : AcquireLoad(t, w, r)

\* What the runtime and the destructors do once they have been called; a thread does one
\* of these at a time.
ReleaseStep(t) ==
    \/ DestructReturns(t) \/ Free(t) \/ Unshare(t) \/ DeleteBlock(t)
    \/ \E r \in Refs : ReleaseField(t, r)
AcquireStep(t) == AcquireFails(t) \/ AcquireSucceeds(t) \/ AcquireRetries(t)
Runtime(t) == DeinitReturns(t) \/ ReleaseStep(t) \/ AcquireStep(t)

Next == \E t \in Threads : Program(t) \/ Runtime(t)

Spec == Init /\ [][Next]_vars

\* Threads are scheduled, a deinitializer that is running returns eventually, and a
\* compare_exchange_weak that is tried again and again succeeds eventually.
Fairness ==
    \A t \in Threads :
        /\ WF_vars(ReleaseStep(t) \/ AcquireStep(t))
        /\ SF_vars(AcquireSucceeds(t)) /\ SF_vars(DeinitReturns(t))

FairSpec == Spec /\ Fairness

----------------------------------------------------------------------------
Tearing == {"deinit", "fields", "free", "unshare"}

\* Every variable has its type; a count is never negative.
TypeOK ==
    /\ phase \in [Objects -> Phases]
    /\ strong \in [Objects -> Nat]
    /\ weak \in [Objects -> Nat]
    /\ block \in [Objects -> {"none", "allocated", "deleted"}]
    /\ target \in [Refs -> Objects \cup {None}]
    /\ holder \in [Refs -> Threads \cup Objects \cup {None}]
    /\ weakTo \in [WeakRefs -> Heap \cup {None}]
    /\ teardown \in [Threads -> Seq(Objects)]
    /\ deleting \in [Threads -> Heap \cup {None}]
    /\ acquiring \in [Threads -> Acquisition \cup {None}]

\* No strong reference dangles: whatever a variable, a temporary or an instance
\* variable points to has not begun to be destructed.  This is what retain, release and
\* acquire, interleaved by several threads, must guarantee the compiled program.
ReferencesKeepAlive == \A r \in Refs : target[r] # None => phase[target[r]] = "live"

\* The strong count is the number of strong references, and the weak count is the
\* number of weak references plus the share the strong references hold until the object
\* is freed (the comment on ControlBlock in Internal.hpp).
CountsExact ==
    \A o \in Objects :
        /\ strong[o] = Cardinality(Strong(o))
        /\ o \in Heap => weak[o] = Cardinality(Weak(o)) + IF HoldsShare(o) THEN 1 ELSE 0

\* A control block is allocated whenever something may still read or write it: a weak
\* reference (ejcAcquireStrong may be looking at the count), a strong reference, a
\* release that has not given up its share, or the thread that is about to delete it;
\* and when nothing can, it has been deleted.
BlockOutlivesUse ==
    \A o \in Heap :
        LET used == \/ Weak(o) # {} \/ HoldsShare(o)
                    \/ \E t \in Threads : deleting[t] = o
        IN  block[o] = IF phase[o] = "unborn" THEN "none"
                       ELSE IF used THEN "allocated" ELSE "deleted"

\* An object that is being torn down is torn down by one thread, by one call of a
\* release function: it is destructed and freed once, even if several threads release
\* it at the same time or its own destructor leads back to it.
TornDownOnce ==
    \A o \in Objects :
        LET places == UNION {{<<t, i>> : i \in {j \in 1..Len(teardown[t]) : teardown[t][j] = o}}
                             : t \in Threads}
        IN  Cardinality(places) = IF phase[o] \in Tearing THEN 1 ELSE 0

\* The life of an object as the program sees it.
Life(o) == CASE phase[o] = "unborn" -> "unborn"
             [] phase[o] = "live" -> "alive"
             [] phase[o] \in {"deinit", "fields", "free"} -> "finalizing"
             [] OTHER -> "reclaimed"

Lifetime == INSTANCE ObjectLifetime WITH
    life <- [o \in Objects |-> Life(o)],
    held <- target,
    asking <- [t \in Threads |-> IF acquiring[t] = None THEN None ELSE weakTo[acquiring[t].ref]]

\* The counting implements the promise: the last release and no other finalizes the
\* object, and ejcAcquireStrong is refused only if the object is no longer alive when it
\* returns and granted only if it is alive.
RefinesLifetime == Lifetime!Spec

\* Once its last strong reference is gone, an object is destructed and freed, with
\* everything only it kept alive, and no thread is left with a block to delete.  As an object
\* is created once, what begins to be torn down ends so if nothing is any longer in the end.
EventuallyFreed ==
    <>[](/\ \A o \in Objects : phase[o] \notin Tearing
         /\ \A t \in Threads : deleting[t] = None)

============================================================================
