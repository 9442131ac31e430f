------------------------------ MODULE Threads ------------------------------
(***************************************************************************)
(* Threads and mutexes of an Emojicode program (s/Thread.cpp).             *)
(*                                                                         *)
(* A thread object holds a std::thread handle.  sThreadNew starts the      *)
(* operating system thread before it stores the handle, so the new thread  *)
(* may run to its end first; that is why the object and the callable are   *)
(* retained for the new thread, which releases both when the callable has  *)
(* returned.  The last release of the object destructs it, in whichever    *)
(* thread that happens.                                                    *)
(*                                                                         *)
(* An operating system thread is named like the object that started it;    *)
(* each is started at most once.  Besides a thread's own variables a       *)
(* reference can be in a callable, which captures it, or in `stored', the  *)
(* variables of objects that the threads share (the program guards them).  *)
(***************************************************************************)
EXTENDS Integers, FiniteSets

CONSTANTS Threads,  \* the main thread and those the program may start
          Main

ASSUME ThreadsAssumption == Main \in Threads /\ IsFiniteSet(Threads)

Nobody == "nobody"

VARIABLES
    pc,          \* where each thread is
    target,      \* the thread it starts or joins there
    object,      \* "absent", "alive" or "destructed", for each thread object
    handle,      \* "empty", "joinable" or "detached": its std::thread
    references,  \* the reference count of each thread object
    callable,    \* the reference count of the callable each thread runs
    captures,    \* the thread objects captured by that callable
    variables,   \* the thread objects the variables of each thread refer to
    callables,   \* the threads whose callables each thread still refers to
    stored,      \* the thread objects referred to from shared objects
    owner,       \* the thread that locked the mutex
    stopped,     \* "no", "returned" (from main), "terminated"
    refused      \* whether a join was refused, which ends the program

counts == <<references, callable, captures, variables, callables, stored>>
vars == <<pc, target, object, handle, counts, owner, stopped, refused>>

Running(p) == stopped = "no" /\ pc[p] = "program"

(* What a running thread can name: its variables and what its callable     *)
(* captured.                                                               *)
Reachable(p) == variables[p] \cup captures[p]

Starting(p, t) == pc[p] = "new" /\ target[p] = t
Joining(p, t) == pc[p] = "join" /\ target[p] = t

(***************************************************************************)
(* Releasing                                                               *)
(***************************************************************************)

(* sThreadDestruct detaches a handle nobody joined; what ~thread() finds   *)
(* is what is left.                                                        *)
HandleKept(t) == handle[t]
DetachedHandle(t) == IF handle[t] = "joinable" THEN "detached" ELSE handle[t]

(* Each object in ts loses one reference and is destructed if it was the   *)
(* last.  A std::thread destroyed while joinable terminates the program.   *)
ReleaseObjects(ts) ==
    LET gone == {t \in ts : references[t] = 1}
    IN  /\ references' = [t \in Threads |->
                              references[t] - IF t \in ts THEN 1 ELSE 0]
        /\ object' = [t \in Threads |->
                          IF t \in gone THEN "destructed" ELSE object[t]]
        /\ handle' = [t \in Threads |->
                          IF t \in gone THEN DetachedHandle(t) ELSE handle[t]]
        /\ stopped' = IF \E t \in gone : DetachedHandle(t) = "joinable"
                      THEN "terminated" ELSE stopped

(* The last release of a callable releases what it captured.               *)
ReleaseCallable(t) ==
    /\ callable' = [callable EXCEPT ![t] = @ - 1]
    /\ IF callable[t] = 1
       THEN /\ ReleaseObjects(captures[t])
            /\ captures' = [captures EXCEPT ![t] = {}]
       ELSE UNCHANGED <<references, object, handle, stopped, captures>>

(***************************************************************************)
(* The operations of a thread p of the program                             *)
(***************************************************************************)

(* Of the new object and of its callable: the caller's, and the one        *)
(* retained for the thread.                                                *)
OnlyTheCallers == 1
InitialReferences == 2

(* sThreadNew up to the start of the operating system thread: p passes a   *)
(* callable that captures C.  The object and the callable have a reference *)
(* of p, and one retained for the new thread.                              *)
sThreadNew(p, t, C) ==
    /\ Running(p) /\ object[t] = "absent" /\ C \subseteq Reachable(p)
    /\ object' = [object EXCEPT ![t] = "alive"]
    /\ references' = [u \in Threads |->
                          IF u = t THEN InitialReferences
                          ELSE references[u] + IF u \in C THEN 1 ELSE 0]
    /\ callable' = [callable EXCEPT ![t] = InitialReferences]
    /\ captures' = [captures EXCEPT ![t] = C]
    /\ pc' = [pc EXCEPT ![p] = "new", ![t] = "program"]
    /\ target' = [target EXCEPT ![p] = t]
    /\ UNCHANGED <<handle, variables, callables, stored, owner, stopped,
                   refused>>

(* The rest of sThreadNew: the handle is stored, the object is returned.   *)
StoreHandle(p, t) ==
    /\ stopped = "no" /\ Starting(p, t)
    /\ handle' = [handle EXCEPT ![t] = "joinable"]
    /\ variables' = [variables EXCEPT ![p] = @ \cup {t}]
    /\ callables' = [callables EXCEPT ![p] = @ \cup {t}]
    /\ pc' = [pc EXCEPT ![p] = "program"]
    /\ target' = [target EXCEPT ![p] = Nobody]
    /\ UNCHANGED <<object, references, callable, captures, stored, owner,
                   stopped, refused>>

(* std::thread::join() throws, which nobody catches, if there is no thread *)
(* to join, it is the caller, or another thread already joins it.          *)
OnlyEmptyRefused(p, t) == handle[t] # "joinable" \/ t = p
JoinRefused(p, t) ==
    handle[t] # "joinable" \/ t = p \/ \E q \in Threads : Joining(q, t)

sThreadJoin(p, t) ==
    /\ Running(p) /\ t \in Reachable(p)
    /\ ~JoinRefused(p, t)
    /\ pc' = [pc EXCEPT ![p] = "join"]
    /\ target' = [target EXCEPT ![p] = t]
    /\ UNCHANGED <<object, handle, counts, owner, stopped, refused>>

(* A join of threads that join each other may also be refused: the         *)
(* operating system detects some of these cycles.                          *)
JoinThrows(p, t) ==
    /\ Running(p) /\ t \in Reachable(p)
    /\ JoinRefused(p, t) \/ Joining(t, p)
    /\ stopped' = "terminated" /\ refused' = TRUE
    /\ UNCHANGED <<target, pc, object, handle, counts, owner>>

Joined(p, t) ==
    /\ stopped = "no" /\ Joining(p, t)
    /\ pc[t] = "finished" /\ handle[t] = "joinable"
    /\ handle' = [handle EXCEPT ![t] = "empty"]
    /\ pc' = [pc EXCEPT ![p] = "program"]
    /\ target' = [target EXCEPT ![p] = Nobody]
    /\ UNCHANGED <<object, counts, owner, stopped, refused>>

(* A reference is copied to a variable of p, or to a shared object.        *)
Copy(p, t) ==
    /\ Running(p) /\ t \in (captures[p] \cup stored) \ variables[p]
    /\ variables' = [variables EXCEPT ![p] = @ \cup {t}]
    /\ references' = [references EXCEPT ![t] = @ + 1]
    /\ UNCHANGED <<target, pc, object, handle, callable, captures, callables,
                   stored, owner, stopped, refused>>

Store(p, t) ==
    /\ Running(p) /\ t \in Reachable(p) \ stored
    /\ stored' = stored \cup {t}
    /\ references' = [references EXCEPT ![t] = @ + 1]
    /\ UNCHANGED <<target, pc, object, handle, callable, captures, variables,
                   callables, owner, stopped, refused>>

(* A variable goes out of scope, or a shared one is assigned to.           *)
Release(p, t) ==
    /\ Running(p) /\ t \in variables[p]
    /\ variables' = [variables EXCEPT ![p] = @ \ {t}]
    /\ ReleaseObjects({t})
    /\ UNCHANGED <<target, pc, callable, captures, callables, stored, owner,
                   refused>>

ReleaseStored(p, t) ==
    /\ Running(p) /\ t \in stored
    /\ stored' = stored \ {t}
    /\ ReleaseObjects({t})
    /\ UNCHANGED <<target, pc, callable, captures, variables, callables, owner,
                   refused>>

ForgetCallable(p, t) ==
    /\ Running(p) /\ t \in callables[p]
    /\ callables' = [callables EXCEPT ![p] = @ \ {t}]
    /\ ReleaseCallable(t)
    /\ UNCHANGED <<target, pc, variables, stored, owner, refused>>

(* The mutex: a program neither locks what it has locked nor unlocks what  *)
(* it has not, which std::mutex leaves undefined.                          *)
sMutexLock(p) ==
    /\ Running(p) /\ owner # p
    /\ pc' = [pc EXCEPT ![p] = "lock"]
    /\ UNCHANGED <<target, object, handle, counts, owner, stopped, refused>>

Locked(p) ==
    /\ stopped = "no" /\ pc[p] = "lock" /\ owner = Nobody
    /\ owner' = p
    /\ pc' = [pc EXCEPT ![p] = "program"]
    /\ UNCHANGED <<target, object, handle, counts, stopped, refused>>

sMutexTryLock(p) ==
    /\ Running(p) /\ owner = Nobody
    /\ owner' = p
    /\ UNCHANGED <<target, pc, object, handle, counts, stopped, refused>>

sMutexUnlock(p) ==
    /\ Running(p) /\ owner = p
    /\ owner' = Nobody
    /\ UNCHANGED <<target, pc, object, handle, counts, stopped, refused>>

(***************************************************************************)
(* The end of a thread                                                     *)
(***************************************************************************)

(* The callable returns, having released its variables and the mutex; then *)
(* the lambda of sThreadNew releases the callable and the thread object.   *)
CallableReturns(t) ==
    /\ Running(t) /\ t # Main
    /\ variables[t] = {} /\ callables[t] = {} /\ owner # t
    /\ pc' = [pc EXCEPT ![t] = "returned"]
    /\ UNCHANGED <<target, object, handle, counts, owner, stopped, refused>>

LambdaReleasesCallable(t) ==
    /\ stopped = "no" /\ pc[t] = "returned"
    /\ pc' = [pc EXCEPT ![t] = "released"]
    /\ ReleaseCallable(t)
    /\ UNCHANGED <<target, variables, callables, stored, owner, refused>>

LambdaKeepsThread(t) ==
    /\ stopped = "no" /\ pc[t] = "released"
    /\ pc' = [pc EXCEPT ![t] = "exiting"]
    /\ UNCHANGED <<target, object, handle, counts, owner, stopped, refused>>

LambdaReleasesThread(t) ==
    /\ stopped = "no" /\ pc[t] = "released"
    /\ pc' = [pc EXCEPT ![t] = "exiting"]
    /\ ReleaseObjects({t})
    /\ UNCHANGED <<target, callable, captures, variables, callables, stored,
                   owner, refused>>

(* The operating system thread ends, its thread_local objects with it.     *)
Exit(t) ==
    /\ stopped = "no" /\ pc[t] = "exiting"
    /\ pc' = [pc EXCEPT ![t] = "finished"]
    /\ UNCHANGED <<target, object, handle, counts, owner, stopped, refused>>

(* The process ends when the main thread returns, whatever still runs.     *)
MainReturns ==
    /\ Running(Main)
    /\ variables[Main] = {} /\ callables[Main] = {} /\ owner # Main
    /\ stopped' = "returned"
    /\ UNCHANGED <<target, pc, object, handle, counts, owner, refused>>

(***************************************************************************)
(* The program                                                             *)
(***************************************************************************)

Init ==
    /\ pc = [t \in Threads |-> IF t = Main THEN "program" ELSE "unstarted"]
    /\ target = [t \in Threads |-> Nobody]
    /\ object = [t \in Threads |-> IF t = Main THEN "none" ELSE "absent"]
    /\ handle = [t \in Threads |-> "empty"]
    /\ references = [t \in Threads |-> 0]
    /\ callable = [t \in Threads |-> 0]
    /\ captures = [t \in Threads |-> {}]
    /\ variables = [t \in Threads |-> {}]
    /\ callables = [t \in Threads |-> {}]
    /\ stored = {}
    /\ owner = Nobody
    /\ stopped = "no"
    /\ refused = FALSE

(* The steps a thread decides on: those of the program.                    *)
ProgramStep(p) ==
    \/ \E t \in Threads : \/ \E C \in SUBSET Threads : sThreadNew(p, t, C)
                          \/ sThreadJoin(p, t) \/ JoinThrows(p, t)
                          \/ Copy(p, t) \/ Store(p, t)
                          \/ Release(p, t) \/ ReleaseStored(p, t)
                          \/ ForgetCallable(p, t)
    \/ sMutexLock(p) \/ sMutexTryLock(p) \/ sMutexUnlock(p)
    \/ CallableReturns(p)
    \/ p = Main /\ MainReturns

(* The steps the runtime takes for it.                                     *)
RuntimeStep(p) ==
    \/ \E t \in Threads : StoreHandle(p, t) \/ Joined(p, t)
    \/ Locked(p)
    \/ LambdaReleasesCallable(p) \/ LambdaReleasesThread(p)
    \/ Exit(p)

Next == \E p \in Threads : ProgramStep(p) \/ RuntimeStep(p)

(* What the runtime began it carries through, as threads are scheduled.    *)
(* Nothing is assumed of the program.                                      *)
Fairness == \A p \in Threads : WF_vars(RuntimeStep(p))

Spec == Init /\ [][Next]_vars
FairSpec == Spec /\ Fairness

(***************************************************************************)
(* What must hold                                                          *)
(***************************************************************************)

Gone(t) == pc[t] \in {"exiting", "finished"}
Returned(t) == pc[t] \in {"returned", "released"} \/ Gone(t)

(* No thread uses what was destructed: the handle is stored in, and joins  *)
(* wait on, an object that is alive, and a thread's callable lives until   *)
(* it has returned (the retain()s of sThreadNew).                      *)
NothingUsedAfterItsEnd ==
    /\ \A p, t \in Threads : Starting(p, t) \/ Joining(p, t)
                                 => object[t] = "alive"
    /\ \A p \in Threads : \A t \in variables[p] \cup captures[p] \cup stored :
           object[t] = "alive"
    /\ \A t \in Threads \ {Main} :
           pc[t] \in {"program", "join", "new", "lock", "returned"}
               => callable[t] > 0

(* Objects and callables are reclaimed: one that is alive has a reference, *)
(* and every reference is held by somebody, who has yet to release it.     *)
Holders(t) == Cardinality({p \in Threads : t \in variables[p]})
              + Cardinality({u \in Threads : t \in captures[u]})
              + Cardinality({p \in Threads : Starting(p, t)})
              + (IF t \in stored THEN 1 ELSE 0)
              + (IF pc[t] = "unstarted" \/ Gone(t) THEN 0 ELSE 1)

CallableHolders(t) == Cardinality({p \in Threads : t \in callables[p]})
                      + Cardinality({p \in Threads : Starting(p, t)})
                      + (IF \/ pc[t] \in {"unstarted", "released"}
                            \/ Gone(t)
                         THEN 0 ELSE 1)

ReferencesCounted ==
    \A t \in Threads \ {Main} :
        /\ references[t] = Holders(t)
        /\ callable[t] = CallableHolders(t)
        /\ object[t] = "alive" <=> references[t] > 0
        /\ captures[t] # {} => callable[t] > 0

(* The program is terminated for a refused join alone: no std::thread is   *)
(* destroyed while it is joinable, whichever thread releases the object.   *)
OnlyRefusedJoinsTerminate == stopped = "terminated" => refused

(* A join whose thread's callable has returned comes to its end, although  *)
(* other threads may release the object or try to join it meanwhile.       *)
JoinsEnd ==
    \A p \in Threads :
        pc[p] = "join" /\ Returned(target[p])
            ~> pc[p] # "join" \/ stopped # "no"
=============================================================================
