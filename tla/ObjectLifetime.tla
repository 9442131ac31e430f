-------------------------- MODULE ObjectLifetime --------------------------
(***************************************************************************)
(* What the runtime promises about the life of objects, without counts,    *)
(* control blocks or destructors (runtime/main.cpp, s/📶.🍇): an object is *)
(* alive while a strong reference points to it, is finalized once, when    *)
(* the last one goes, and a weak reference yields a strong reference if    *)
(* and only if its object is alive at that moment.                         *)
(***************************************************************************)

CONSTANTS Threads, Objects, Refs, None

VARIABLES
    life,    \* [Objects -> {"unborn", "alive", "finalizing", "reclaimed"}]
    held,    \* [Refs -> Objects or None]: the strong references
    asking   \* [Threads -> Objects or None]: asks for a strong reference to an object

vars == <<life, held, asking>>

Init ==
    /\ life = [o \in Objects |-> "unborn"]
    /\ held = [r \in Refs |-> None]
    /\ asking = [t \in Threads |-> None]

Create(o, r) ==
    /\ life[o] = "unborn" /\ held[r] = None
    /\ life' = [life EXCEPT ![o] = "alive"]
    /\ held' = [held EXCEPT ![r] = o]
    /\ UNCHANGED asking

Share(src, r) ==
    /\ held[src] # None /\ held[r] = None
    /\ held' = [held EXCEPT ![r] = held[src]]
    /\ UNCHANGED <<life, asking>>

\* The last reference to go, and only that one, ends the life of the object.  An object
\* on the stack that has nothing to finalize is gone at once.
Drop(r) ==
    /\ held[r] # None
    /\ held' = [held EXCEPT ![r] = None]
    /\ IF \E s \in Refs \ {r} : held[s] = held[r]
       THEN UNCHANGED life
       ELSE \E next \in {"finalizing", "reclaimed"} : life' = [life EXCEPT ![held[r]] = next]
    /\ UNCHANGED asking

Reclaim(o) ==
    /\ life[o] = "finalizing"
    /\ life' = [life EXCEPT ![o] = "reclaimed"]
    /\ UNCHANGED <<held, asking>>

Ask(t, o) ==
    /\ asking[t] = None /\ life[o] # "unborn"
    /\ asking' = [asking EXCEPT ![t] = o]
    /\ UNCHANGED <<life, held>>

Grant(t, r) ==
    /\ asking[t] # None /\ life[asking[t]] = "alive" /\ held[r] = None
    /\ held' = [held EXCEPT ![r] = asking[t]]
    /\ asking' = [asking EXCEPT ![t] = None]
    /\ UNCHANGED life

Refuse(t) ==
    /\ asking[t] # None /\ life[asking[t]] # "alive"
    /\ asking' = [asking EXCEPT ![t] = None]
    /\ UNCHANGED <<life, held>>

Next ==
    \/ \E o \in Objects, r \in Refs : Create(o, r)
    \/ \E src, r \in Refs : Share(src, r)
    \/ \E r \in Refs : Drop(r)
    \/ \E o \in Objects : Reclaim(o)
    \/ \E t \in Threads, o \in Objects : Ask(t, o)
    \/ \E t \in Threads, r \in Refs : Grant(t, r)
    \/ \E t \in Threads : Refuse(t)

Spec == Init /\ [][Next]_vars

============================================================================
