--------------------------- MODULE ThreadsProofs ---------------------------
(***************************************************************************)
(* Proofs about Threads, for any finite set of threads: every reference to *)
(* a thread object and to a callable is counted, nothing is used after its *)
(* end, and only a refused join terminates the program.  And about         *)
(* Interning, for any threads, questions and placement in the caches:      *)
(* equal questions have the same answer.  And about the lists that share   *)
(* storage, from "The lists" on: for any variables, storages and           *)
(* operations they are values (CopyOnWrite implements ListValues).         *)
(***************************************************************************)
EXTENDS Threads, Interning, CopyOnWrite, FiniteSetTheorems, SequenceTheorems,
        WellFoundedInduction, TLAPS

States == {"unstarted", "program", "new", "join", "lock", "returned",
           "released", "exiting", "finished"}

\* The types of the state.
ThreadsTypeOK ==
    /\ pc \in [Threads -> States]
    /\ target \in [Threads -> Threads \cup {Nobody}]
    /\ object \in [Threads -> {"none", "absent", "alive", "destructed"}]
    /\ handle \in [Threads -> {"empty", "joinable", "detached"}]
    /\ references \in [Threads -> Int] /\ callable \in [Threads -> Int]
    /\ captures \in [Threads -> SUBSET Threads]
    /\ variables \in [Threads -> SUBSET Threads]
    /\ callables \in [Threads -> SUBSET Threads]
    /\ stored \in SUBSET Threads
    /\ stopped \in {"no", "returned", "terminated"} /\ refused \in BOOLEAN

\* The parts of Holders and CallableHolders.
VariablesWith(t) == {p \in Threads : t \in variables[p]}
CapturesWith(t) == {p \in Threads : t \in captures[p]}
CallablesWith(t) == {p \in Threads : t \in callables[p]}
Starters(t) == {p \in Threads : Starting(p, t)}
StoredReference(t) == IF t \in stored THEN 1 ELSE 0
OwnReference(t) == IF pc[t] = "unstarted" \/ Gone(t) THEN 0 ELSE 1
OwnCallable(t) == IF pc[t] \in {"unstarted", "released"} \/ Gone(t) THEN 0 ELSE 1

\* The main thread has no object, so nothing refers to it, and no callable.
MainHasNoObject ==
    /\ object[Main] = "none" /\ pc[Main] # "unstarted"
    /\ captures[Main] = {} /\ Main \notin stored
    /\ \A p \in Threads : /\ Main \notin variables[p] \cup captures[p] \cup callables[p]
                          /\ ~Starting(p, Main)

\* A thread was started if and only if its object was created; before, it has no callable.
StartedWithObject ==
    \A t \in Threads \ {Main} :
        /\ pc[t] = "unstarted" <=> object[t] = "absent"
        /\ object[t] = "absent" => callable[t] = 0

\* While the thread that starts t has not returned from sThreadNew, no other reference to
\* the object exists than those sThreadNew accounts for.
StartedAlone ==
    \A p, t \in Threads : Starting(p, t) =>
        /\ \A q \in Threads : /\ Starting(q, t) => q = p
                              /\ t \notin variables[q] \cup captures[q] \cup callables[q]
        /\ t \notin stored

\* A thread that joins another has a reference to it.
JoinedIsReachable == \A p, t \in Threads : Joining(p, t) => t \in Reachable(p)

\* The inductive invariant.
IInv == /\ ThreadsTypeOK /\ ReferencesCounted /\ MainHasNoObject
        /\ StartedWithObject /\ StartedAlone /\ JoinedIsReachable
        /\ OnlyRefusedJoinsTerminate

\* What ReferencesCounted says of one thread, in terms of these parts.
Counted(t) ==
    /\ references[t] = Cardinality(VariablesWith(t)) + Cardinality(CapturesWith(t))
                       + Cardinality(Starters(t)) + StoredReference(t) + OwnReference(t)
    /\ callable[t] = Cardinality(CallablesWith(t)) + Cardinality(Starters(t)) + OwnCallable(t)
    /\ object[t] = "alive" <=> references[t] > 0
    /\ captures[t] # {} => callable[t] > 0

\* References are counted if those to each thread are.
LEMMA CountedEach == ReferencesCounted <=> \A t \in Threads \ {Main} : Counted(t)
BY DEF ReferencesCounted, Counted, Holders, CallableHolders, VariablesWith, CapturesWith,
       CallablesWith, Starters, StoredReference, OwnReference, OwnCallable

\* The same after a step.
LEMMA CountedEachNext == ReferencesCounted' <=> \A t \in Threads \ {Main} : Counted(t)'
BY DEF ReferencesCounted, Counted, Holders, CallableHolders, VariablesWith, CapturesWith,
       CallablesWith, Starters, StoredReference, OwnReference, OwnCallable

----------------------------------------------------------------------------
\* Sets of threads that differ in one thread at most differ in their number by one at most.
LEMMA DifferInOne ==
    ASSUME NEW F \in SUBSET Threads, NEW G \in SUBSET Threads, NEW p \in Threads,
           \A q \in Threads \ {p} : q \in F <=> q \in G
    PROVE  /\ Cardinality(F) \in Nat /\ (Cardinality(F) = 0 <=> F = {})
           /\ Cardinality(G) = Cardinality(F) + (IF p \in G THEN 1 ELSE 0)
                                              - (IF p \in F THEN 1 ELSE 0)
<1>1. IsFiniteSet(F) /\ Cardinality(F) \in Nat /\ (Cardinality(F) = 0 <=> F = {})
  BY ThreadsAssumption, FS_Subset, FS_CardinalityType, FS_EmptySet
<1>2. CASE p \in G /\ p \notin F
  <2>1. G = F \cup {p}
    BY <1>2
  <2> QED
    <3>1. Cardinality(F \cup {p}) = Cardinality(F) + 1
      BY <1>1, <1>2, FS_AddElement
    <3> QED
      BY <1>1, <1>2, <2>1, <3>1
<1>3. CASE p \in F /\ p \notin G
  <2>1. G = F \ {p}
    BY <1>3
  <2> QED
    BY <1>1, <1>3, <2>1, FS_RemoveElement
<1>4. CASE p \in F <=> p \in G
  <2>1. F = G
    BY <1>4
  <2> QED
    BY <1>1, <2>1
<1> QED
  BY <1>2, <1>3, <1>4

\* The numbers of holders of each kind.
LEMMA Numbers ==
    ASSUME NEW t \in Threads
    PROVE  /\ Cardinality(VariablesWith(t)) \in Nat /\ Cardinality(CapturesWith(t)) \in Nat
           /\ Cardinality(CallablesWith(t)) \in Nat /\ Cardinality(Starters(t)) \in Nat
           /\ Cardinality(VariablesWith(t)) = 0 <=> VariablesWith(t) = {}
           /\ Cardinality(CapturesWith(t)) = 0 <=> CapturesWith(t) = {}
           /\ Cardinality(CallablesWith(t)) = 0 <=> CallablesWith(t) = {}
           /\ Cardinality(Starters(t)) = 0 <=> Starters(t) = {}
           /\ StoredReference(t) \in 0..1 /\ OwnReference(t) \in 0..1 /\ OwnCallable(t) \in 0..1
<1>1. /\ VariablesWith(t) \in SUBSET Threads /\ CapturesWith(t) \in SUBSET Threads
      /\ CallablesWith(t) \in SUBSET Threads /\ Starters(t) \in SUBSET Threads
  BY DEF VariablesWith, CapturesWith, CallablesWith, Starters
<1>2. \A F \in SUBSET Threads : Cardinality(F) \in Nat /\ (Cardinality(F) = 0 <=> F = {})
  BY ThreadsAssumption, DifferInOne
<1>3. StoredReference(t) \in 0..1 /\ OwnReference(t) \in 0..1 /\ OwnCallable(t) \in 0..1
  BY DEF StoredReference, OwnReference, OwnCallable
<1> QED
  BY <1>1, <1>2, <1>3

\* The same for a step of one thread that changes its variables, captures or callables.
LEMMA VariablesChanged ==
    ASSUME NEW p \in Threads, NEW t \in Threads,
           \A q \in Threads \ {p} : t \in variables'[q] <=> t \in variables[q]
    PROVE  Cardinality(VariablesWith(t)') = Cardinality(VariablesWith(t))
               + (IF t \in variables'[p] THEN 1 ELSE 0) - (IF t \in variables[p] THEN 1 ELSE 0)
<1> DEFINE F == VariablesWith(t)
           G == VariablesWith(t)'
<1>1. F \in SUBSET Threads /\ G \in SUBSET Threads
  BY DEF VariablesWith
<1>2. \A q \in Threads : (q \in G <=> t \in variables'[q]) /\ (q \in F <=> t \in variables[q])
  BY DEF VariablesWith
<1> HIDE DEF F, G
<1>3. Cardinality(G) = Cardinality(F) + (IF p \in G THEN 1 ELSE 0) - (IF p \in F THEN 1 ELSE 0)
  BY <1>1, <1>2, DifferInOne
<1> QED
  BY <1>2, <1>3 DEF F, G

\* Who captures a thread when the captures of one thread change.
LEMMA CapturesChanged ==
    ASSUME NEW p \in Threads, NEW t \in Threads,
           \A q \in Threads \ {p} : t \in captures'[q] <=> t \in captures[q]
    PROVE  Cardinality(CapturesWith(t)') = Cardinality(CapturesWith(t))
               + (IF t \in captures'[p] THEN 1 ELSE 0) - (IF t \in captures[p] THEN 1 ELSE 0)
<1> DEFINE F == CapturesWith(t)
           G == CapturesWith(t)'
<1>1. F \in SUBSET Threads /\ G \in SUBSET Threads
  BY DEF CapturesWith
<1>2. \A q \in Threads : (q \in G <=> t \in captures'[q]) /\ (q \in F <=> t \in captures[q])
  BY DEF CapturesWith
<1> HIDE DEF F, G
<1>3. Cardinality(G) = Cardinality(F) + (IF p \in G THEN 1 ELSE 0) - (IF p \in F THEN 1 ELSE 0)
  BY <1>1, <1>2, DifferInOne
<1> QED
  BY <1>2, <1>3 DEF F, G

\* Who has a callable that captures a thread when the callables of one thread change.
LEMMA CallablesChanged ==
    ASSUME NEW p \in Threads, NEW t \in Threads,
           \A q \in Threads \ {p} : t \in callables'[q] <=> t \in callables[q]
    PROVE  Cardinality(CallablesWith(t)') = Cardinality(CallablesWith(t))
               + (IF t \in callables'[p] THEN 1 ELSE 0) - (IF t \in callables[p] THEN 1 ELSE 0)
<1> DEFINE F == CallablesWith(t)
           G == CallablesWith(t)'
<1>1. F \in SUBSET Threads /\ G \in SUBSET Threads
  BY DEF CallablesWith
<1>2. \A q \in Threads : (q \in G <=> t \in callables'[q]) /\ (q \in F <=> t \in callables[q])
  BY DEF CallablesWith
<1> HIDE DEF F, G
<1>3. Cardinality(G) = Cardinality(F) + (IF p \in G THEN 1 ELSE 0) - (IF p \in F THEN 1 ELSE 0)
  BY <1>1, <1>2, DifferInOne
<1> QED
  BY <1>2, <1>3 DEF F, G

\* A thread enters or leaves sThreadNew.
LEMMA StartersChanged ==
    ASSUME NEW p \in Threads, NEW t \in Threads,
           \A q \in Threads \ {p} : Starting(q, t)' <=> Starting(q, t)
    PROVE  Cardinality(Starters(t)') = Cardinality(Starters(t))
               + (IF Starting(p, t)' THEN 1 ELSE 0) - (IF Starting(p, t) THEN 1 ELSE 0)
<1> DEFINE F == Starters(t)
           G == Starters(t)'
<1>1. F \in SUBSET Threads /\ G \in SUBSET Threads
  BY DEF Starters
<1>2. \A q \in Threads : (q \in G <=> Starting(q, t)') /\ (q \in F <=> Starting(q, t))
  BY DEF Starters
<1> HIDE DEF F, G
<1>4. Cardinality(G) = Cardinality(F) + (IF p \in G THEN 1 ELSE 0) - (IF p \in F THEN 1 ELSE 0)
  BY <1>1, <1>2, DifferInOne
<1> QED
  BY <1>2, <1>4 DEF F, G

----------------------------------------------------------------------------
\* The count of references is positive if and only if there is one of any kind.
LEMMA ReferencedIffSome ==
    ASSUME NEW t \in Threads, Counted(t)
    PROVE  /\ references[t] > 0 <=> \/ VariablesWith(t) # {} \/ CapturesWith(t) # {}
                                    \/ Starters(t) # {} \/ StoredReference(t) # 0
                                    \/ OwnReference(t) # 0
           /\ references[t] >= 0
           /\ callable[t] > 0 <=> \/ CallablesWith(t) # {} \/ Starters(t) # {}
                                  \/ OwnCallable(t) # 0
           /\ callable[t] >= 0
<1>1. /\ Cardinality(VariablesWith(t)) \in Nat /\ Cardinality(CapturesWith(t)) \in Nat
      /\ Cardinality(CallablesWith(t)) \in Nat /\ Cardinality(Starters(t)) \in Nat
      /\ StoredReference(t) \in 0..1 /\ OwnReference(t) \in 0..1 /\ OwnCallable(t) \in 0..1
  BY Numbers
<1>2. references[t] = Cardinality(VariablesWith(t)) + Cardinality(CapturesWith(t))
                      + Cardinality(Starters(t)) + StoredReference(t) + OwnReference(t)
  BY DEF Counted
<1>3. callable[t] = Cardinality(CallablesWith(t)) + Cardinality(Starters(t)) + OwnCallable(t)
  BY DEF Counted
<1>4. /\ references[t] >= 0
      /\ references[t] > 0 <=> \/ Cardinality(VariablesWith(t)) # 0 \/ Cardinality(CapturesWith(t)) # 0
                               \/ Cardinality(Starters(t)) # 0 \/ StoredReference(t) # 0
                               \/ OwnReference(t) # 0
  BY <1>1, <1>2
<1>5. /\ callable[t] >= 0
      /\ callable[t] > 0 <=> \/ Cardinality(CallablesWith(t)) # 0 \/ Cardinality(Starters(t)) # 0
                             \/ OwnCallable(t) # 0
  BY <1>1, <1>3
<1> QED
  BY <1>4, <1>5, Numbers

\* What a thread can refer to, except its callables.
Holds(p, t) == t \in variables[p] \cup captures[p] \cup stored \/ Starting(p, t)

\* What is referred to is alive and is not the main thread.
LEMMA HeldIsAlive ==
    ASSUME IInv, NEW p \in Threads, NEW t \in Threads, Holds(p, t)
    PROVE  t # Main /\ object[t] = "alive" /\ references[t] > 0
<1>1. t # Main
  BY DEF Holds, IInv, MainHasNoObject
<1>2. \/ VariablesWith(t) # {} \/ CapturesWith(t) # {} \/ Starters(t) # {}
      \/ StoredReference(t) # 0
  BY DEF Holds, VariablesWith, CapturesWith, Starters, StoredReference
<1>3. Counted(t)
  BY <1>1, CountedEach DEF IInv
<1>4. references[t] > 0
  BY <1>2, <1>3, ReferencedIffSome
<1> QED
  BY <1>1, <1>3, <1>4 DEF Counted

\* Nothing refers to the object of a thread before that was started.
LEMMA AbsentIsUnreferenced ==
    ASSUME IInv, NEW t \in Threads, object[t] = "absent"
    PROVE  /\ t # Main /\ pc[t] = "unstarted" /\ references[t] = 0 /\ callable[t] = 0
           /\ captures[t] = {} /\ t \notin stored
           /\ \A p \in Threads : /\ t \notin variables[p] \cup captures[p] \cup callables[p]
                                 /\ ~Starting(p, t) /\ ~Joining(p, t)
           /\ VariablesWith(t) = {} /\ CapturesWith(t) = {} /\ CallablesWith(t) = {} /\ Starters(t) = {}
<1>1. t # Main /\ pc[t] = "unstarted" /\ callable[t] = 0
  BY DEF IInv, MainHasNoObject, StartedWithObject
<1>2. Counted(t) /\ references[t] \in Int
  BY <1>1, CountedEach DEF IInv, ThreadsTypeOK
<1>3. ~(references[t] > 0) /\ ~(callable[t] > 0) /\ captures[t] = {}
  BY <1>1, <1>2 DEF Counted
<1>4. /\ VariablesWith(t) = {} /\ CapturesWith(t) = {} /\ CallablesWith(t) = {} /\ Starters(t) = {}
      /\ StoredReference(t) = 0 /\ references[t] >= 0
  BY <1>2, <1>3, ReferencedIffSome
<1>5. references[t] = 0
  BY <1>2, <1>3, <1>4
<1>6. t \notin stored
  BY <1>4 DEF StoredReference
<1>7. ASSUME NEW p \in Threads
      PROVE  t \notin variables[p] \cup captures[p] \cup callables[p] /\ ~Starting(p, t)
  BY <1>4 DEF VariablesWith, CapturesWith, CallablesWith, Starters
<1>8. \A p \in Threads : ~Joining(p, t)
  BY <1>7 DEF IInv, JoinedIsReachable, Reachable
<1> QED
  BY <1>1, <1>3, <1>4, <1>5, <1>6, <1>7, <1>8

----------------------------------------------------------------------------
\* Steps that change neither objects nor references: locks, joins, and the end of a thread
\* that has given everything up.
LEMMA QuietStep ==
    ASSUME IInv, ThreadsTypeOK', UNCHANGED <<object, counts>>,
           \A p, t \in Threads : Starting(p, t)' <=> Starting(p, t),
           \A t \in Threads : /\ OwnReference(t)' = OwnReference(t)
                              /\ OwnCallable(t)' = OwnCallable(t)
                              /\ pc'[t] = "unstarted" <=> pc[t] = "unstarted",
           JoinedIsReachable', OnlyRefusedJoinsTerminate'
    PROVE  IInv'
<1>1. \A t \in Threads : /\ VariablesWith(t)' = VariablesWith(t) /\ CapturesWith(t)' = CapturesWith(t)
                         /\ CallablesWith(t)' = CallablesWith(t) /\ Starters(t)' = Starters(t)
                         /\ StoredReference(t)' = StoredReference(t)
  BY DEF counts, VariablesWith, CapturesWith, CallablesWith, Starters, StoredReference
<1>2. ReferencesCounted'
  <2>1. ASSUME NEW t \in Threads \ {Main} PROVE Counted(t)'
    <3>1. Counted(t)
      BY CountedEach DEF IInv
    <3> QED
      BY <1>1, <3>1 DEF Counted, counts
  <2> QED
    BY <2>1, CountedEachNext
<1>3. MainHasNoObject'
  BY ThreadsAssumption DEF IInv, MainHasNoObject, counts
<1>4. StartedWithObject'
  BY DEF IInv, StartedWithObject, counts
<1>5. StartedAlone'
  BY DEF IInv, StartedAlone, counts
<1> QED
  BY <1>2, <1>3, <1>4, <1>5 DEF IInv

\* Between these states a thread moves without gaining or losing a reference of its own.
LEMMA OrdinaryMove ==
    ASSUME IInv, NEW p \in Threads, NEW s \in States,
           pc' = [pc EXCEPT ![p] = s],
           \/ {pc[p], s} \subseteq {"program", "join", "lock", "returned"}
           \/ {pc[p], s} \subseteq {"exiting", "finished"},
           \A q \in Threads : pc[q] = "new" => target'[q] = target[q]
    PROVE  /\ \A q, t \in Threads : Starting(q, t)' <=> Starting(q, t)
           /\ \A t \in Threads : /\ OwnReference(t)' = OwnReference(t)
                                 /\ OwnCallable(t)' = OwnCallable(t)
                                 /\ pc'[t] = "unstarted" <=> pc[t] = "unstarted"
<1>1. \A q \in Threads : pc'[q] = IF q = p THEN s ELSE pc[q]
  BY DEF IInv, ThreadsTypeOK
<1>2. \A q, t \in Threads : Starting(q, t)' <=> Starting(q, t)
  BY <1>1 DEF Starting
<1>3. \A t \in Threads : /\ OwnReference(t)' = OwnReference(t)
                         /\ OwnCallable(t)' = OwnCallable(t)
                         /\ pc'[t] = "unstarted" <=> pc[t] = "unstarted"
  BY <1>1 DEF OwnReference, OwnCallable, Gone
<1> QED
  BY <1>2, <1>3

\* A join that begins keeps the invariant.
LEMMA JoinKeeps ==
    ASSUME IInv, NEW p \in Threads, NEW t \in Threads, sThreadJoin(p, t)
    PROVE  IInv'
<1>1. pc[p] = "program" /\ pc' = [pc EXCEPT ![p] = "join"] /\ target' = [target EXCEPT ![p] = t]
      /\ UNCHANGED <<object, handle, counts, owner, stopped, refused>> /\ t \in Reachable(p)
  BY DEF sThreadJoin, Running
<1>2. ThreadsTypeOK'
  BY <1>1 DEF IInv, ThreadsTypeOK, States, counts
<1>3. JoinedIsReachable'
  BY <1>1 DEF IInv, JoinedIsReachable, Joining, Reachable, ThreadsTypeOK, counts
<1>4. \A q \in Threads : pc[q] = "new" => target'[q] = target[q]
  BY <1>1 DEF IInv, ThreadsTypeOK
<1>5. OnlyRefusedJoinsTerminate'
  BY <1>1 DEF IInv, OnlyRefusedJoinsTerminate
<1> QED
  BY <1>1, <1>2, <1>3, <1>4, <1>5, QuietStep, OrdinaryMove DEF States

\* A join that returns keeps the invariant.
LEMMA JoinedKeeps ==
    ASSUME IInv, NEW p \in Threads, NEW t \in Threads, Joined(p, t)
    PROVE  IInv'
<1>1. pc[p] = "join" /\ pc' = [pc EXCEPT ![p] = "program"] /\ target' = [target EXCEPT ![p] = Nobody]
      /\ handle' = [handle EXCEPT ![t] = "empty"]
      /\ UNCHANGED <<object, counts, owner, stopped, refused>>
  BY DEF Joined, Joining
<1>2. ThreadsTypeOK'
  BY <1>1 DEF IInv, ThreadsTypeOK, States, counts
<1>3. JoinedIsReachable'
  BY <1>1 DEF IInv, JoinedIsReachable, Joining, Reachable, ThreadsTypeOK, counts
<1>4. \A q \in Threads : pc[q] = "new" => target'[q] = target[q]
  BY <1>1 DEF IInv, ThreadsTypeOK
<1>5. OnlyRefusedJoinsTerminate'
  BY <1>1 DEF IInv, OnlyRefusedJoinsTerminate
<1> QED
  BY <1>1, <1>2, <1>3, <1>4, <1>5, QuietStep, OrdinaryMove DEF States

\* A join that is refused keeps the invariant.
LEMMA JoinThrowsKeeps ==
    ASSUME IInv, NEW p \in Threads, NEW t \in Threads, JoinThrows(p, t)
    PROVE  IInv'
<1>1. stopped' = "terminated" /\ refused' = TRUE /\ UNCHANGED <<target, pc, object, handle, counts, owner>>
  BY DEF JoinThrows
<1>2. ThreadsTypeOK' /\ OnlyRefusedJoinsTerminate'
  BY <1>1 DEF IInv, ThreadsTypeOK, OnlyRefusedJoinsTerminate, counts
<1>3. JoinedIsReachable'
  BY <1>1 DEF IInv, JoinedIsReachable, Joining, Reachable, counts
<1>4. /\ \A q, u \in Threads : Starting(q, u)' <=> Starting(q, u)
      /\ \A u \in Threads : /\ OwnReference(u)' = OwnReference(u)
                            /\ OwnCallable(u)' = OwnCallable(u)
                            /\ pc'[u] = "unstarted" <=> pc[u] = "unstarted"
  BY <1>1 DEF Starting, OwnReference, OwnCallable, Gone
<1> QED
  BY <1>1, <1>2, <1>3, <1>4, QuietStep

\* The mutex, the return of a callable, of main, and the exit of a thread.
LEMMA MoveKeeps ==
    ASSUME IInv, NEW p \in Threads, NEW s \in States,
           pc' = [pc EXCEPT ![p] = s], s # "join",
           \/ {pc[p], s} \subseteq {"program", "join", "lock", "returned"}
           \/ {pc[p], s} \subseteq {"exiting", "finished"},
           UNCHANGED <<target, object, handle, counts, refused>>,
           stopped' = stopped
    PROVE  IInv'
<1>1. ThreadsTypeOK'
  BY DEF IInv, ThreadsTypeOK, counts
<1>2. JoinedIsReachable'
  BY DEF IInv, JoinedIsReachable, Joining, Reachable, ThreadsTypeOK, counts
<1>3. OnlyRefusedJoinsTerminate'
  BY DEF IInv, OnlyRefusedJoinsTerminate
<1> QED
  BY <1>1, <1>2, <1>3, QuietStep, OrdinaryMove

\* Nothing but the mutex, or whether the program runs, changes.
LEMMA StillStep ==
    ASSUME IInv, UNCHANGED <<target, pc, object, handle, counts, refused>>,
           stopped' \in {"returned", stopped}
    PROVE  IInv'
<1>1. ThreadsTypeOK' /\ OnlyRefusedJoinsTerminate'
  BY DEF IInv, ThreadsTypeOK, OnlyRefusedJoinsTerminate, counts
<1>2. JoinedIsReachable'
  BY DEF IInv, JoinedIsReachable, Joining, Reachable, counts
<1>3. /\ \A q, u \in Threads : Starting(q, u)' <=> Starting(q, u)
      /\ \A u \in Threads : /\ OwnReference(u)' = OwnReference(u)
                            /\ OwnCallable(u)' = OwnCallable(u)
                            /\ pc'[u] = "unstarted" <=> pc[u] = "unstarted"
  BY DEF Starting, OwnReference, OwnCallable, Gone
<1> QED
  BY <1>1, <1>2, <1>3, QuietStep

----------------------------------------------------------------------------
\* A thread t that is counted stays so if its counts change as the numbers of holders do.
LEMMA CountsFollow ==
    ASSUME NEW t \in Threads, Counted(t), references[t] \in Int, callable[t] \in Int,
           NEW inVariables \in Int, NEW inCaptures \in Int, NEW inCallables \in Int,
           NEW starting \in Int, NEW inStored \in Int, NEW own \in Int, NEW ownCallable \in Int,
           Cardinality(VariablesWith(t)') = Cardinality(VariablesWith(t)) + inVariables,
           Cardinality(CapturesWith(t)') = Cardinality(CapturesWith(t)) + inCaptures,
           Cardinality(CallablesWith(t)') = Cardinality(CallablesWith(t)) + inCallables,
           Cardinality(Starters(t)') = Cardinality(Starters(t)) + starting,
           StoredReference(t)' = StoredReference(t) + inStored,
           OwnReference(t)' = OwnReference(t) + own,
           OwnCallable(t)' = OwnCallable(t) + ownCallable,
           references'[t] = references[t] + inVariables + inCaptures + starting + inStored + own,
           callable'[t] = callable[t] + inCallables + starting + ownCallable,
           object'[t] = "alive" <=> references'[t] > 0,
           captures'[t] # {} => callable'[t] > 0
    PROVE  Counted(t)'
<1>1. /\ Cardinality(VariablesWith(t)) \in Nat /\ Cardinality(CapturesWith(t)) \in Nat
      /\ Cardinality(CallablesWith(t)) \in Nat /\ Cardinality(Starters(t)) \in Nat
      /\ StoredReference(t) \in Int /\ OwnReference(t) \in Int /\ OwnCallable(t) \in Int
  BY Numbers
<1>2. references'[t] = Cardinality(VariablesWith(t)') + Cardinality(CapturesWith(t)')
                       + Cardinality(Starters(t)') + StoredReference(t)' + OwnReference(t)'
  <2>1. references[t] = Cardinality(VariablesWith(t)) + Cardinality(CapturesWith(t))
                        + Cardinality(Starters(t)) + StoredReference(t) + OwnReference(t)
    BY DEF Counted
  <2> QED
    BY <1>1, <2>1
<1>3. callable'[t] = Cardinality(CallablesWith(t)') + Cardinality(Starters(t)') + OwnCallable(t)'
  <2>1. callable[t] = Cardinality(CallablesWith(t)) + Cardinality(Starters(t)) + OwnCallable(t)
    BY DEF Counted
  <2> QED
    BY <1>1, <2>1
<1> QED
  BY <1>2, <1>3 DEF Counted

\* A reference is copied to a variable of p.
LEMMA CopyKeeps ==
    ASSUME IInv, NEW p \in Threads, NEW t \in Threads, Copy(p, t)
    PROVE  IInv'
<1>1. /\ t \notin variables[p] /\ variables' = [variables EXCEPT ![p] = @ \cup {t}]
      /\ references' = [references EXCEPT ![t] = @ + 1]
      /\ UNCHANGED <<target, pc, object, handle, callable, captures, callables, stored, owner,
                     stopped, refused>>
  BY DEF Copy
<1>2. Holds(p, t)
  BY DEF Copy, Holds
<1>3. t # Main /\ object[t] = "alive" /\ references[t] > 0
  BY <1>2, HeldIsAlive
<1>int. references[t] \in Int
  BY DEF IInv, ThreadsTypeOK
<1>next. references[t] + 1 \in Int
  BY <1>int
<1>4. /\ variables[p] \cup {t} \in SUBSET Threads
      /\ variables' = [variables EXCEPT ![p] = variables[p] \cup {t}]
      /\ \A u \in Threads : /\ references'[u] = IF u = t THEN references[u] + 1 ELSE references[u]
                            /\ variables'[u] = IF u = p THEN variables[u] \cup {t} ELSE variables[u]
  BY <1>1 DEF IInv, ThreadsTypeOK
<1>type. ThreadsTypeOK'
  BY <1>1, <1>4, <1>next DEF IInv, ThreadsTypeOK
<1>5. ReferencesCounted'
  <2>1. ASSUME NEW u \in Threads \ {Main} PROVE Counted(u)'
    <3> DEFINE one == IF u = t THEN 1 ELSE 0
    <3>1. Counted(u) /\ references[u] \in Int /\ callable[u] \in Int
      BY CountedEach DEF IInv, ThreadsTypeOK
    <3>2. Cardinality(VariablesWith(u)') = Cardinality(VariablesWith(u)) + one
      <4>1. \A q \in Threads \ {p} : u \in variables'[q] <=> u \in variables[q]
        BY <1>4
      <4>2. (u \in variables'[p] <=> u \in variables[p] \/ u = t) /\ (u = t => u \notin variables[p])
        BY <1>1, <1>4
      <4>3. Cardinality(VariablesWith(u)) \in Nat
        BY Numbers
      <4>4. Cardinality(VariablesWith(u)') = Cardinality(VariablesWith(u))
               + (IF u \in variables'[p] THEN 1 ELSE 0) - (IF u \in variables[p] THEN 1 ELSE 0)
        BY <4>1, VariablesChanged
      <4> QED
        BY <4>2, <4>3, <4>4
    <3>3. /\ CapturesWith(u)' = CapturesWith(u) /\ CallablesWith(u)' = CallablesWith(u)
          /\ Starters(u)' = Starters(u) /\ StoredReference(u)' = StoredReference(u)
          /\ OwnReference(u)' = OwnReference(u) /\ OwnCallable(u)' = OwnCallable(u)
      BY <1>1 DEF CapturesWith, CallablesWith, Starters, Starting, StoredReference, OwnReference,
                  OwnCallable, Gone
    <3>4. references'[u] = references[u] + one
      <4>1. references'[u] = IF u = t THEN references[u] + 1 ELSE references[u]
        BY <1>4
      <4> QED
        BY <3>1, <4>1
    <3>5. object'[u] = "alive" <=> references'[u] > 0
      BY <1>1, <1>3, <3>1, <3>4 DEF Counted
    <3>6. captures'[u] # {} => callable'[u] > 0
      BY <1>1, <3>1 DEF Counted
    <3>7. one \in Int
      OBVIOUS
    <3> HIDE DEF one
    <3>8. /\ Cardinality(CapturesWith(u)') = Cardinality(CapturesWith(u)) + 0
          /\ Cardinality(CallablesWith(u)') = Cardinality(CallablesWith(u)) + 0
          /\ Cardinality(Starters(u)') = Cardinality(Starters(u)) + 0
          /\ StoredReference(u)' = StoredReference(u) + 0
          /\ OwnReference(u)' = OwnReference(u) + 0 /\ OwnCallable(u)' = OwnCallable(u) + 0
      BY <3>3, Numbers
    <3>9. /\ references'[u] = references[u] + one + 0 + 0 + 0 + 0
          /\ callable'[u] = callable[u] + 0 + 0 + 0
      BY <1>1, <3>1, <3>4, <3>7
    <3> QED
      BY <3>1, <3>2, <3>5, <3>6, <3>7, <3>8, <3>9, CountsFollow
  <2> QED
    BY <2>1, CountedEachNext
<1>6. MainHasNoObject' /\ StartedWithObject'
  BY <1>1, <1>3, ThreadsAssumption DEF IInv, MainHasNoObject, StartedWithObject, Starting, ThreadsTypeOK
<1>7. StartedAlone'
  BY <1>1, <1>4 DEF Copy, IInv, StartedAlone, Starting
<1>8. JoinedIsReachable' /\ OnlyRefusedJoinsTerminate'
  BY <1>1 DEF IInv, JoinedIsReachable, Joining, Reachable, OnlyRefusedJoinsTerminate, ThreadsTypeOK
<1> QED
  BY <1>type, <1>5, <1>6, <1>7, <1>8 DEF IInv

\* The same for a shared object.
LEMMA StoreKeeps ==
    ASSUME IInv, NEW p \in Threads, NEW t \in Threads, Store(p, t)
    PROVE  IInv'
<1>1. /\ t \notin stored /\ stored' = stored \cup {t}
      /\ references' = [references EXCEPT ![t] = @ + 1]
      /\ UNCHANGED <<target, pc, object, handle, callable, captures, variables, callables, owner,
                     stopped, refused>>
  BY DEF Store
<1>2. Holds(p, t) /\ (t \in variables[p] \/ t \in captures[p])
  BY DEF Store, Holds, Reachable
<1>3. t # Main /\ object[t] = "alive" /\ references[t] > 0
  BY <1>2, HeldIsAlive
<1>int. references[t] \in Int
  BY DEF IInv, ThreadsTypeOK
<1>next. references[t] + 1 \in Int
  BY <1>int
<1>4. \A u \in Threads : references'[u] = IF u = t THEN references[u] + 1 ELSE references[u]
  BY <1>1 DEF IInv, ThreadsTypeOK
<1>type. ThreadsTypeOK'
  BY <1>1, <1>next DEF IInv, ThreadsTypeOK
<1>5. ReferencesCounted'
  <2>1. ASSUME NEW u \in Threads \ {Main} PROVE Counted(u)'
    <3> DEFINE one == IF u = t THEN 1 ELSE 0
    <3>1. Counted(u) /\ references[u] \in Int /\ callable[u] \in Int
      BY CountedEach DEF IInv, ThreadsTypeOK
    <3>2. StoredReference(u)' = StoredReference(u) + one
      BY <1>1 DEF StoredReference
    <3>3. /\ VariablesWith(u)' = VariablesWith(u) /\ CapturesWith(u)' = CapturesWith(u)
          /\ CallablesWith(u)' = CallablesWith(u) /\ Starters(u)' = Starters(u)
          /\ OwnReference(u)' = OwnReference(u) /\ OwnCallable(u)' = OwnCallable(u)
      BY <1>1 DEF VariablesWith, CapturesWith, CallablesWith, Starters, Starting, OwnReference,
                  OwnCallable, Gone
    <3>4. references'[u] = references[u] + one
      <4>1. references'[u] = IF u = t THEN references[u] + 1 ELSE references[u]
        BY <1>4
      <4> QED
        BY <3>1, <4>1
    <3>5. object'[u] = "alive" <=> references'[u] > 0
      BY <1>1, <1>3, <3>1, <3>4 DEF Counted
    <3>6. captures'[u] # {} => callable'[u] > 0
      BY <1>1, <3>1 DEF Counted
    <3>7. one \in Int
      OBVIOUS
    <3> HIDE DEF one
    <3>8. /\ Cardinality(VariablesWith(u)') = Cardinality(VariablesWith(u)) + 0
          /\ Cardinality(CapturesWith(u)') = Cardinality(CapturesWith(u)) + 0
          /\ Cardinality(CallablesWith(u)') = Cardinality(CallablesWith(u)) + 0
          /\ Cardinality(Starters(u)') = Cardinality(Starters(u)) + 0
          /\ OwnReference(u)' = OwnReference(u) + 0 /\ OwnCallable(u)' = OwnCallable(u) + 0
      BY <3>3, Numbers
    <3>9. /\ references'[u] = references[u] + 0 + 0 + 0 + one + 0
          /\ callable'[u] = callable[u] + 0 + 0 + 0
      BY <1>1, <3>1, <3>4, <3>7
    <3> QED
      BY <3>1, <3>2, <3>5, <3>6, <3>7, <3>8, <3>9, CountsFollow
  <2> QED
    BY <2>1, CountedEachNext
<1>6. MainHasNoObject' /\ StartedWithObject'
  BY <1>1, <1>3 DEF IInv, MainHasNoObject, StartedWithObject, Starting
<1>7. StartedAlone'
  BY <1>1, <1>2 DEF IInv, StartedAlone, Starting
<1>8. JoinedIsReachable' /\ OnlyRefusedJoinsTerminate'
  BY <1>1 DEF IInv, JoinedIsReachable, Joining, Reachable, OnlyRefusedJoinsTerminate
<1> QED
  BY <1>type, <1>5, <1>6, <1>7, <1>8 DEF IInv

----------------------------------------------------------------------------
\* What the release of a set of objects changes.
LEMMA ObjectsReleased ==
    ASSUME ThreadsTypeOK, NEW ts \in SUBSET Threads, ReleaseObjects(ts)
    PROVE  /\ \A u \in Threads :
                 /\ references'[u] = references[u] - IF u \in ts THEN 1 ELSE 0
                 /\ object'[u] = IF u \in ts /\ references[u] = 1 THEN "destructed" ELSE object[u]
           /\ references' \in [Threads -> Int]
           /\ object' \in [Threads -> {"none", "absent", "alive", "destructed"}]
           /\ handle' \in [Threads -> {"empty", "joinable", "detached"}]
           /\ stopped' = stopped
<1>1. /\ references' = [t \in Threads |-> references[t] - IF t \in ts THEN 1 ELSE 0]
      /\ object' = [t \in Threads |-> IF t \in ts /\ references[t] = 1 THEN "destructed" ELSE object[t]]
      /\ handle' = [t \in Threads |-> IF t \in ts /\ references[t] = 1 THEN DetachedHandle(t) ELSE handle[t]]
  BY DEF ReleaseObjects
<1>2. \A t \in Threads : references[t] \in Int
  BY DEF ThreadsTypeOK
<1>3. \A t \in Threads : references[t] - (IF t \in ts THEN 1 ELSE 0) \in Int
  BY <1>2
<1>4. references' \in [Threads -> Int]
  BY <1>1, <1>3
<1>5. object' \in [Threads -> {"none", "absent", "alive", "destructed"}]
  BY <1>1 DEF ThreadsTypeOK
<1>6. \A t \in Threads : DetachedHandle(t) \in {"empty", "detached"}
  BY DEF DetachedHandle, ThreadsTypeOK
<1>7. handle' \in [Threads -> {"empty", "joinable", "detached"}]
  BY <1>1, <1>6 DEF ThreadsTypeOK
<1>8. stopped' = stopped
  BY <1>6 DEF ReleaseObjects
<1> QED
  BY <1>1, <1>4, <1>5, <1>7, <1>8

\* An object is alive after it was released if and only if it is still counted.
LEMMA AliveWhileCounted ==
    ASSUME IInv, NEW ts \in SUBSET Threads, ReleaseObjects(ts), NEW u \in Threads \ {Main},
           u \in ts => references[u] > 0
    PROVE  object'[u] = "alive" <=> references'[u] > 0
<1>1. ThreadsTypeOK /\ Counted(u)
  BY CountedEach DEF IInv
<1>2. references[u] \in Int /\ (object[u] = "alive" <=> references[u] > 0)
  BY <1>1 DEF ThreadsTypeOK, Counted
<1>3. /\ references'[u] = references[u] - IF u \in ts THEN 1 ELSE 0
      /\ object'[u] = IF u \in ts /\ references[u] = 1 THEN "destructed" ELSE object[u]
  BY <1>1, ObjectsReleased
<1>4. CASE u \in ts
  <2>1. references'[u] = references[u] - 1 /\ object[u] = "alive"
    BY <1>2, <1>3, <1>4
  <2>2. references'[u] > 0 <=> references[u] # 1
    BY <1>2, <1>4, <2>1
  <2> QED
    BY <1>3, <1>4, <2>1, <2>2
<1>5. CASE u \notin ts
  BY <1>2, <1>3, <1>5
<1> QED
  BY <1>4, <1>5

\* A release keeps what does not depend on the counts.
LEMMA ReleaseKeepsRest ==
    ASSUME IInv, NEW ts \in SUBSET Threads, ReleaseObjects(ts),
           \A t \in ts : t # Main /\ references[t] > 0,
           \A p \in Threads : /\ variables'[p] \subseteq variables[p] /\ captures'[p] \subseteq captures[p]
                              /\ callables'[p] \subseteq callables[p]
                              /\ pc'[p] = "unstarted" <=> pc[p] = "unstarted"
                              /\ object[p] = "absent" => callable'[p] = callable[p],
           stored' \subseteq stored, refused' = refused,
           \A p, t \in Threads : Starting(p, t)' <=> Starting(p, t)
    PROVE  MainHasNoObject' /\ StartedWithObject' /\ StartedAlone' /\ OnlyRefusedJoinsTerminate'
<1>1. ThreadsTypeOK
  BY DEF IInv
<1>2. \A u \in Threads : object'[u] = IF u \in ts /\ references[u] = 1 THEN "destructed" ELSE object[u]
  BY <1>1, ObjectsReleased
<1>3. \A u \in ts : object[u] = "alive"
  BY CountedEach DEF IInv, Counted
<1>4. MainHasNoObject'
  BY <1>2, ThreadsAssumption DEF IInv, MainHasNoObject
<1>5. StartedWithObject'
  BY <1>2, <1>3 DEF IInv, StartedWithObject
<1>6. StartedAlone'
  BY DEF IInv, StartedAlone
<1>7. OnlyRefusedJoinsTerminate'
  BY <1>1, ObjectsReleased DEF IInv, OnlyRefusedJoinsTerminate
<1> QED
  BY <1>4, <1>5, <1>6, <1>7

\* All references to the object of t, and to its callable.
Total(t) == Cardinality(VariablesWith(t)) + Cardinality(CapturesWith(t)) + Cardinality(Starters(t))
            + StoredReference(t) + OwnReference(t)
TotalCallable(t) == Cardinality(CallablesWith(t)) + Cardinality(Starters(t)) + OwnCallable(t)

\* A release that takes one holder of each released object away keeps the invariant.
LEMMA ReleaseStep ==
    ASSUME IInv, ThreadsTypeOK', NEW ts \in SUBSET Threads, ReleaseObjects(ts),
           \A t \in ts : t # Main /\ references[t] > 0,
           \A p \in Threads : /\ variables'[p] \subseteq variables[p] /\ captures'[p] \subseteq captures[p]
                              /\ callables'[p] \subseteq callables[p]
                              /\ pc'[p] = "unstarted" <=> pc[p] = "unstarted"
                              /\ object[p] = "absent" => callable'[p] = callable[p],
           stored' \subseteq stored, refused' = refused,
           \A p, t \in Threads : Starting(p, t)' <=> Starting(p, t),
           JoinedIsReachable',
           \A u \in Threads \ {Main} : /\ Total(u)' = Total(u) - IF u \in ts THEN 1 ELSE 0
                                       /\ callable'[u] = TotalCallable(u)'
                                       /\ captures'[u] # {} => callable'[u] > 0
    PROVE  IInv'
<1>1. MainHasNoObject' /\ StartedWithObject' /\ StartedAlone' /\ OnlyRefusedJoinsTerminate'
  BY ReleaseKeepsRest
<1>2. ReferencesCounted'
  <2>1. ASSUME NEW u \in Threads \ {Main} PROVE Counted(u)'
    <3>1. Counted(u)
      BY CountedEach DEF IInv
    <3>2. references[u] = Total(u)
      BY <3>1 DEF Counted, Total
    <3>3. references'[u] = references[u] - IF u \in ts THEN 1 ELSE 0
      BY ObjectsReleased DEF IInv
    <3>4. references'[u] = Total(u)'
      BY <3>2, <3>3
    <3>5. object'[u] = "alive" <=> references'[u] > 0
      BY AliveWhileCounted
    <3> QED
      BY <3>4, <3>5 DEF Counted, Total, TotalCallable
  <2> QED
    BY <2>1, CountedEachNext
<1> QED
  BY <1>1, <1>2 DEF IInv

\* The counts are exact, and a callable that captures something is referenced.
LEMMA CallableCounted ==
    ASSUME IInv, NEW u \in Threads \ {Main}
    PROVE  /\ callable[u] = TotalCallable(u) /\ references[u] = Total(u)
           /\ captures[u] # {} => callable[u] > 0
<1>1. Counted(u)
  BY CountedEach DEF IInv
<1> QED
  BY <1>1 DEF Counted, Total, TotalCallable

\* A variable goes out of scope.
LEMMA ReleaseKeeps ==
    ASSUME IInv, NEW p \in Threads, NEW t \in Threads, Release(p, t)
    PROVE  IInv'
<1>1. /\ t \in variables[p] /\ variables' = [variables EXCEPT ![p] = @ \ {t}] /\ ReleaseObjects({t})
      /\ pc[p] = "program"
      /\ UNCHANGED <<target, pc, callable, captures, callables, stored, owner, refused>>
  BY DEF Release, Running
<1>2. t # Main /\ references[t] > 0
  BY <1>1, HeldIsAlive DEF Holds
<1>3. /\ references' \in [Threads -> Int] /\ stopped' = stopped
      /\ object' \in [Threads -> {"none", "absent", "alive", "destructed"}]
      /\ handle' \in [Threads -> {"empty", "joinable", "detached"}]
  BY <1>1, ObjectsReleased DEF IInv
<1>4. \A q \in Threads : variables'[q] = IF q = p THEN variables[q] \ {t} ELSE variables[q]
  BY <1>1 DEF IInv, ThreadsTypeOK
<1>5. ThreadsTypeOK'
  <2>1. variables' \in [Threads -> SUBSET Threads]
    BY <1>1 DEF IInv, ThreadsTypeOK
  <2> QED
    BY <1>1, <1>3, <2>1 DEF IInv, ThreadsTypeOK
<1>6. JoinedIsReachable'
  BY <1>1, <1>4 DEF IInv, JoinedIsReachable, Joining, Reachable
<1>7. ASSUME NEW u \in Threads \ {Main}
      PROVE  /\ Total(u)' = Total(u) - IF u \in {t} THEN 1 ELSE 0
             /\ callable'[u] = TotalCallable(u)'
             /\ captures'[u] # {} => callable'[u] > 0
  <2>1. /\ CapturesWith(u)' = CapturesWith(u) /\ CallablesWith(u)' = CallablesWith(u)
        /\ Starters(u)' = Starters(u) /\ StoredReference(u)' = StoredReference(u)
        /\ OwnReference(u)' = OwnReference(u) /\ OwnCallable(u)' = OwnCallable(u)
    BY <1>1 DEF CapturesWith, CallablesWith, Starters, Starting, StoredReference, OwnReference,
                OwnCallable, Gone
  <2>2. Cardinality(VariablesWith(u)') = Cardinality(VariablesWith(u)) - IF u = t THEN 1 ELSE 0
    <3>1. \A q \in Threads \ {p} : u \in variables'[q] <=> u \in variables[q]
      BY <1>4
    <3>2. (u \in variables'[p] <=> u \in variables[p] /\ u # t) /\ (u = t => u \in variables[p])
      BY <1>1, <1>4
    <3>3. Cardinality(VariablesWith(u)) \in Nat
      BY Numbers
    <3>4. Cardinality(VariablesWith(u)') = Cardinality(VariablesWith(u))
             + (IF u \in variables'[p] THEN 1 ELSE 0) - (IF u \in variables[p] THEN 1 ELSE 0)
      BY <3>1, VariablesChanged
    <3> QED
      BY <3>2, <3>3, <3>4
  <2>3. Total(u)' = Total(u) - IF u = t THEN 1 ELSE 0
    BY <2>1, <2>2, Numbers DEF Total
  <2>4. TotalCallable(u)' = TotalCallable(u)
    BY <2>1 DEF TotalCallable
  <2> QED
    BY <1>1, <2>3, <2>4, CallableCounted
<1>8. \A q \in Threads : /\ variables'[q] \subseteq variables[q] /\ captures'[q] \subseteq captures[q]
                         /\ callables'[q] \subseteq callables[q]
                         /\ pc'[q] = "unstarted" <=> pc[q] = "unstarted"
                         /\ object[q] = "absent" => callable'[q] = callable[q]
  BY <1>1, <1>4
<1>9. \A q, u \in Threads : Starting(q, u)' <=> Starting(q, u)
  BY <1>1 DEF Starting
<1> QED
  BY <1>1, <1>2, <1>5, <1>6, <1>7, <1>8, <1>9, ReleaseStep

\* A shared object gives its reference up.
LEMMA ReleaseStoredKeeps ==
    ASSUME IInv, NEW p \in Threads, NEW t \in Threads, ReleaseStored(p, t)
    PROVE  IInv'
<1>1. /\ t \in stored /\ stored' = stored \ {t} /\ ReleaseObjects({t})
      /\ UNCHANGED <<target, pc, callable, captures, variables, callables, owner, refused>>
  BY DEF ReleaseStored
<1>2. t # Main /\ references[t] > 0
  BY <1>1, HeldIsAlive DEF Holds
<1>3. /\ references' \in [Threads -> Int] /\ stopped' = stopped
      /\ object' \in [Threads -> {"none", "absent", "alive", "destructed"}]
      /\ handle' \in [Threads -> {"empty", "joinable", "detached"}]
  BY <1>1, ObjectsReleased DEF IInv
<1>5. ThreadsTypeOK'
  BY <1>1, <1>3 DEF IInv, ThreadsTypeOK
<1>6. JoinedIsReachable'
  BY <1>1 DEF IInv, JoinedIsReachable, Joining, Reachable
<1>7. ASSUME NEW u \in Threads \ {Main}
      PROVE  /\ Total(u)' = Total(u) - IF u \in {t} THEN 1 ELSE 0
             /\ callable'[u] = TotalCallable(u)'
             /\ captures'[u] # {} => callable'[u] > 0
  <2>1. /\ VariablesWith(u)' = VariablesWith(u) /\ CapturesWith(u)' = CapturesWith(u)
        /\ CallablesWith(u)' = CallablesWith(u) /\ Starters(u)' = Starters(u)
        /\ OwnReference(u)' = OwnReference(u) /\ OwnCallable(u)' = OwnCallable(u)
    BY <1>1 DEF VariablesWith, CapturesWith, CallablesWith, Starters, Starting, OwnReference,
                OwnCallable, Gone
  <2>2. StoredReference(u)' = StoredReference(u) - IF u = t THEN 1 ELSE 0
    BY <1>1 DEF StoredReference
  <2>3. Total(u)' = Total(u) - IF u = t THEN 1 ELSE 0
    BY <2>1, <2>2, Numbers DEF Total
  <2>4. TotalCallable(u)' = TotalCallable(u)
    BY <2>1 DEF TotalCallable
  <2> QED
    BY <1>1, <2>3, <2>4, CallableCounted
<1>8. \A q \in Threads : /\ variables'[q] \subseteq variables[q] /\ captures'[q] \subseteq captures[q]
                         /\ callables'[q] \subseteq callables[q]
                         /\ pc'[q] = "unstarted" <=> pc[q] = "unstarted"
                         /\ object[q] = "absent" => callable'[q] = callable[q]
  BY <1>1
<1>9. \A q, u \in Threads : Starting(q, u)' <=> Starting(q, u)
  BY <1>1 DEF Starting
<1> QED
  BY <1>1, <1>2, <1>5, <1>6, <1>7, <1>8, <1>9, ReleaseStep

\* The callable of the main thread, which has none, does not return.
MainRuns == pc[Main] \in {"program", "new", "join", "lock"}

\* The lambda of sThreadNew gives up the reference to the object of its own thread.
LEMMA LambdaReleasesThreadKeeps ==
    ASSUME IInv, MainRuns, NEW t \in Threads, LambdaReleasesThread(t)
    PROVE  IInv'
<1>1. /\ pc[t] = "released" /\ pc' = [pc EXCEPT ![t] = "exiting"] /\ ReleaseObjects({t})
      /\ UNCHANGED <<target, callable, captures, variables, callables, stored, owner, refused>>
  BY DEF LambdaReleasesThread
<1>2. t # Main
  BY <1>1 DEF MainRuns
<1>3. references[t] > 0
  <2>1. OwnReference(t) # 0
    BY <1>1 DEF OwnReference, Gone
  <2> QED
    BY <1>2, <2>1, CountedEach, ReferencedIffSome DEF IInv
<1>4. /\ references' \in [Threads -> Int] /\ stopped' = stopped
      /\ object' \in [Threads -> {"none", "absent", "alive", "destructed"}]
      /\ handle' \in [Threads -> {"empty", "joinable", "detached"}]
  BY <1>1, ObjectsReleased DEF IInv
<1>5. \A q \in Threads : pc'[q] = IF q = t THEN "exiting" ELSE pc[q]
  BY <1>1 DEF IInv, ThreadsTypeOK
<1>6. ThreadsTypeOK'
  BY <1>1, <1>4 DEF IInv, ThreadsTypeOK, States
<1>7. JoinedIsReachable'
  BY <1>1, <1>5 DEF IInv, JoinedIsReachable, Joining, Reachable
<1>8. \A q, u \in Threads : Starting(q, u)' <=> Starting(q, u)
  BY <1>1, <1>5 DEF Starting
<1>9. ASSUME NEW u \in Threads \ {Main}
      PROVE  /\ Total(u)' = Total(u) - IF u \in {t} THEN 1 ELSE 0
             /\ callable'[u] = TotalCallable(u)'
             /\ captures'[u] # {} => callable'[u] > 0
  <2>1. /\ VariablesWith(u)' = VariablesWith(u) /\ CapturesWith(u)' = CapturesWith(u)
        /\ CallablesWith(u)' = CallablesWith(u) /\ StoredReference(u)' = StoredReference(u)
    BY <1>1 DEF VariablesWith, CapturesWith, CallablesWith, StoredReference
  <2>2. Starters(u)' = Starters(u)
    BY <1>8 DEF Starters
  <2>3. OwnReference(u)' = OwnReference(u) - IF u = t THEN 1 ELSE 0
    BY <1>1, <1>5 DEF OwnReference, Gone
  <2>4. OwnCallable(u)' = OwnCallable(u)
    BY <1>1, <1>5 DEF OwnCallable, Gone
  <2>5. Total(u)' = Total(u) - IF u = t THEN 1 ELSE 0
    BY <2>1, <2>2, <2>3, Numbers DEF Total
  <2>6. TotalCallable(u)' = TotalCallable(u)
    BY <2>1, <2>2, <2>4 DEF TotalCallable
  <2> QED
    BY <1>1, <2>5, <2>6, CallableCounted
<1>10. \A q \in Threads : /\ variables'[q] \subseteq variables[q] /\ captures'[q] \subseteq captures[q]
                          /\ callables'[q] \subseteq callables[q]
                          /\ pc'[q] = "unstarted" <=> pc[q] = "unstarted"
                          /\ object[q] = "absent" => callable'[q] = callable[q]
  BY <1>1, <1>5
<1> QED
  BY <1>1, <1>2, <1>3, <1>6, <1>7, <1>8, <1>9, <1>10, ReleaseStep

\* What the release of a callable gives up: all that was captured, or nothing.
GivenUp(t) == IF callable[t] = 1 THEN captures[t] ELSE {}

\* What the release of a callable gives up, and the counts after it.
LEMMA CallableReleased ==
    ASSUME IInv, NEW t \in Threads, ReleaseCallable(t)
    PROVE  /\ ReleaseObjects(GivenUp(t)) /\ GivenUp(t) \in SUBSET Threads
           /\ \A q \in Threads : /\ captures'[q] = IF q = t THEN captures[q] \ GivenUp(t) ELSE captures[q]
                                 /\ callable'[q] = IF q = t THEN callable[q] - 1 ELSE callable[q]
           /\ callable' \in [Threads -> Int] /\ captures' \in [Threads -> SUBSET Threads]
<1>1. /\ callable \in [Threads -> Int] /\ captures \in [Threads -> SUBSET Threads]
      /\ references \in [Threads -> Int] /\ ThreadsTypeOK
  BY DEF IInv, ThreadsTypeOK
<1>2. callable' = [callable EXCEPT ![t] = @ - 1] /\ callable[t] - 1 \in Int
  BY <1>1 DEF ReleaseCallable
<1>3. CASE callable[t] = 1
  <2>1. ReleaseObjects(captures[t]) /\ captures' = [captures EXCEPT ![t] = {}] /\ GivenUp(t) = captures[t]
    BY <1>3 DEF ReleaseCallable, GivenUp
  <2> QED
    BY <1>1, <1>2, <2>1
<1>4. CASE callable[t] # 1
  <2>1. UNCHANGED <<references, object, handle, stopped, captures>> /\ GivenUp(t) = {}
    BY <1>4 DEF ReleaseCallable, GivenUp
  <2>2. ReleaseObjects({})
    <3>1. /\ references = [u \in Threads |-> references[u]] /\ object = [u \in Threads |-> object[u]]
          /\ handle = [u \in Threads |-> handle[u]]
      BY <1>1 DEF ThreadsTypeOK
    <3>2. [u \in Threads |-> references[u] - 0] = [u \in Threads |-> references[u]]
      BY <1>1
    <3> QED
      BY <2>1, <3>1, <3>2 DEF ReleaseObjects
  <2> QED
    BY <1>1, <1>2, <2>1, <2>2
<1> QED
  BY <1>3, <1>4

\* A holder of a callable releases it.
LEMMA ReleaseCallableStep ==
    ASSUME IInv, ThreadsTypeOK', NEW t \in Threads \ {Main}, ReleaseCallable(t), callable[t] > 0,
           UNCHANGED <<variables, stored, refused>>,
           \A p \in Threads : /\ callables'[p] \subseteq callables[p]
                              /\ pc'[p] = "unstarted" <=> pc[p] = "unstarted",
           \A p, u \in Threads : /\ Starting(p, u)' <=> Starting(p, u)
                                 /\ Joining(p, u)' => Joining(p, u),
           \A u \in Threads : Joining(t, u) => callable[t] # 1,
           \A u \in Threads : /\ OwnReference(u)' = OwnReference(u)
                              /\ TotalCallable(u)' = TotalCallable(u) - IF u = t THEN 1 ELSE 0
    PROVE  IInv'
<1>1. /\ ReleaseObjects(GivenUp(t)) /\ GivenUp(t) \in SUBSET Threads
      /\ \A q \in Threads : /\ captures'[q] = IF q = t THEN captures[q] \ GivenUp(t) ELSE captures[q]
                            /\ callable'[q] = IF q = t THEN callable[q] - 1 ELSE callable[q]
  BY CallableReleased
<1>2. GivenUp(t) \subseteq captures[t] /\ (callable[t] # 1 => GivenUp(t) = {})
      /\ (callable[t] = 1 => GivenUp(t) = captures[t])
  BY DEF GivenUp
<1>3. \A u \in GivenUp(t) : u # Main /\ references[u] > 0
  BY <1>1, <1>2, HeldIsAlive DEF Holds
<1>4. object[t] # "absent"
  BY AbsentIsUnreferenced
<1>5. \A p \in Threads : /\ variables'[p] \subseteq variables[p] /\ captures'[p] \subseteq captures[p]
                         /\ callables'[p] \subseteq callables[p]
                         /\ pc'[p] = "unstarted" <=> pc[p] = "unstarted"
                         /\ object[p] = "absent" => callable'[p] = callable[p]
  BY <1>1, <1>4
<1>6. JoinedIsReachable'
  BY <1>1, <1>2 DEF IInv, JoinedIsReachable, Reachable
<1>7. ASSUME NEW u \in Threads \ {Main}
      PROVE  /\ Total(u)' = Total(u) - IF u \in GivenUp(t) THEN 1 ELSE 0
             /\ callable'[u] = TotalCallable(u)'
             /\ captures'[u] # {} => callable'[u] > 0
  <2>1. /\ VariablesWith(u)' = VariablesWith(u) /\ StoredReference(u)' = StoredReference(u)
        /\ OwnReference(u)' = OwnReference(u)
    BY DEF VariablesWith, StoredReference
  <2>2. Starters(u)' = Starters(u)
    BY DEF Starters
  <2>3. Cardinality(CapturesWith(u)') = Cardinality(CapturesWith(u)) - IF u \in GivenUp(t) THEN 1 ELSE 0
    <3>1. \A q \in Threads \ {t} : u \in captures'[q] <=> u \in captures[q]
      BY <1>1
    <3>2. (u \in captures'[t] <=> u \in captures[t] /\ u \notin GivenUp(t))
          /\ (u \in GivenUp(t) => u \in captures[t])
      BY <1>1, <1>2
    <3>3. Cardinality(CapturesWith(u)) \in Nat
      BY Numbers
    <3>4. Cardinality(CapturesWith(u)') = Cardinality(CapturesWith(u))
             + (IF u \in captures'[t] THEN 1 ELSE 0) - (IF u \in captures[t] THEN 1 ELSE 0)
      BY <3>1, CapturesChanged
    <3> QED
      BY <3>2, <3>3, <3>4
  <2>4. Total(u)' = Total(u) - IF u \in GivenUp(t) THEN 1 ELSE 0
    BY <2>1, <2>2, <2>3, Numbers DEF Total
  <2>5. callable[u] = TotalCallable(u) /\ (captures[u] # {} => callable[u] > 0)
    BY CallableCounted
  <2>6. callable'[u] = TotalCallable(u)'
    <3>1. callable[u] \in Int
      BY DEF IInv, ThreadsTypeOK
    <3>2. callable'[u] = callable[u] - IF u = t THEN 1 ELSE 0
      <4>1. callable'[u] = IF u = t THEN callable[u] - 1 ELSE callable[u]
        BY <1>1
      <4> QED
        BY <3>1, <4>1
    <3>3. TotalCallable(u)' = TotalCallable(u) - IF u = t THEN 1 ELSE 0
      OBVIOUS
    <3> QED
      BY <2>5, <3>2, <3>3
  <2>7. captures'[u] # {} => callable'[u] > 0
    <3>1. callable[t] \in Int
      BY DEF IInv, ThreadsTypeOK
    <3>2. callable[t] # 1 => callable[t] - 1 > 0
      BY <3>1
    <3>3. captures'[t] # {} => callable[t] # 1
      BY <1>1, <1>2
    <3> QED
      BY <1>1, <2>5, <3>2, <3>3
  <2> QED
    BY <2>4, <2>6, <2>7
<1> QED
  BY <1>1, <1>3, <1>5, <1>6, <1>7, ReleaseStep

\* A thread forgets the callable of one it started; that of a thread which joins is still held
\* by the thread itself.
LEMMA ForgetCallableKeeps ==
    ASSUME IInv, NEW p \in Threads, NEW t \in Threads, ForgetCallable(p, t)
    PROVE  IInv'
<1>1. /\ t \in callables[p] /\ callables' = [callables EXCEPT ![p] = @ \ {t}] /\ ReleaseCallable(t)
      /\ UNCHANGED <<target, pc, variables, stored, owner, refused>>
  BY DEF ForgetCallable
<1>2. t # Main
  BY <1>1 DEF IInv, MainHasNoObject
<1>3. CallablesWith(t) # {}
  BY <1>1 DEF CallablesWith
<1>4. callable[t] = TotalCallable(t) /\ Counted(t)
  BY <1>2, CallableCounted, CountedEach DEF IInv
<1>5. callable[t] > 0
  BY <1>3, <1>4, ReferencedIffSome
<1>6. ASSUME NEW u \in Threads, Joining(t, u) PROVE callable[t] # 1
  <2>1. OwnCallable(t) = 1
    BY <1>6 DEF Joining, OwnCallable, Gone
  <2>2. Cardinality(CallablesWith(t)) \in Nat /\ Cardinality(CallablesWith(t)) # 0
        /\ Cardinality(Starters(t)) \in Nat
    BY <1>3, Numbers
  <2> QED
    BY <1>4, <2>1, <2>2 DEF TotalCallable
<1>7. \A q \in Threads : callables'[q] = IF q = p THEN callables[q] \ {t} ELSE callables[q]
  BY <1>1 DEF IInv, ThreadsTypeOK
<1>8. ThreadsTypeOK'
  <2>1. callables' \in [Threads -> SUBSET Threads]
    BY <1>1 DEF IInv, ThreadsTypeOK
  <2>2. /\ callable' \in [Threads -> Int] /\ captures' \in [Threads -> SUBSET Threads]
        /\ ReleaseObjects(GivenUp(t)) /\ GivenUp(t) \in SUBSET Threads
    BY <1>1, CallableReleased
  <2>3. /\ references' \in [Threads -> Int] /\ stopped' = stopped
        /\ object' \in [Threads -> {"none", "absent", "alive", "destructed"}]
        /\ handle' \in [Threads -> {"empty", "joinable", "detached"}]
    BY <2>2, ObjectsReleased DEF IInv
  <2> QED
    BY <1>1, <2>1, <2>2, <2>3 DEF IInv, ThreadsTypeOK
<1>9. \A q, u \in Threads : (Starting(q, u)' <=> Starting(q, u)) /\ (Joining(q, u)' => Joining(q, u))
  BY <1>1 DEF Starting, Joining
<1>10. ASSUME NEW u \in Threads
       PROVE  /\ OwnReference(u)' = OwnReference(u)
              /\ TotalCallable(u)' = TotalCallable(u) - IF u = t THEN 1 ELSE 0
  <2>1. OwnReference(u)' = OwnReference(u) /\ OwnCallable(u)' = OwnCallable(u)
    BY <1>1 DEF OwnReference, OwnCallable, Gone
  <2>2. Starters(u)' = Starters(u)
    BY <1>9 DEF Starters
  <2>3. Cardinality(CallablesWith(u)') = Cardinality(CallablesWith(u)) - IF u = t THEN 1 ELSE 0
    <3>1. \A q \in Threads \ {p} : u \in callables'[q] <=> u \in callables[q]
      BY <1>7
    <3>2. (u \in callables'[p] <=> u \in callables[p] /\ u # t) /\ (u = t => u \in callables[p])
      BY <1>1, <1>7
    <3>3. Cardinality(CallablesWith(u)) \in Nat
      BY Numbers
    <3>4. Cardinality(CallablesWith(u)') = Cardinality(CallablesWith(u))
             + (IF u \in callables'[p] THEN 1 ELSE 0) - (IF u \in callables[p] THEN 1 ELSE 0)
      BY <3>1, CallablesChanged
    <3> QED
      BY <3>2, <3>3, <3>4
  <2> QED
    BY <2>1, <2>2, <2>3, Numbers DEF TotalCallable
<1>11. \A q \in Threads : /\ callables'[q] \subseteq callables[q]
                          /\ pc'[q] = "unstarted" <=> pc[q] = "unstarted"
  BY <1>1, <1>7
<1> QED
  BY <1>1, <1>2, <1>5, <1>6, <1>8, <1>9, <1>10, <1>11, ReleaseCallableStep

\* The lambda of sThreadNew releases the callable that returned.
LEMMA LambdaReleasesCallableKeeps ==
    ASSUME IInv, MainRuns, NEW t \in Threads, LambdaReleasesCallable(t)
    PROVE  IInv'
<1>1. /\ pc[t] = "returned" /\ pc' = [pc EXCEPT ![t] = "released"] /\ ReleaseCallable(t)
      /\ UNCHANGED <<target, variables, callables, stored, owner, refused>>
  BY DEF LambdaReleasesCallable
<1>2. t # Main
  BY <1>1 DEF MainRuns
<1>3. OwnCallable(t) # 0
  BY <1>1 DEF OwnCallable, Gone
<1>4. callable[t] > 0
  BY <1>2, <1>3, CountedEach, ReferencedIffSome DEF IInv
<1>5. \A q \in Threads : pc'[q] = IF q = t THEN "released" ELSE pc[q]
  BY <1>1 DEF IInv, ThreadsTypeOK
<1>6. ThreadsTypeOK'
  <2>1. /\ callable' \in [Threads -> Int] /\ captures' \in [Threads -> SUBSET Threads]
        /\ ReleaseObjects(GivenUp(t)) /\ GivenUp(t) \in SUBSET Threads
    BY <1>1, CallableReleased
  <2>2. /\ references' \in [Threads -> Int] /\ stopped' = stopped
        /\ object' \in [Threads -> {"none", "absent", "alive", "destructed"}]
        /\ handle' \in [Threads -> {"empty", "joinable", "detached"}]
    BY <2>1, ObjectsReleased DEF IInv
  <2> QED
    BY <1>1, <2>1, <2>2 DEF IInv, ThreadsTypeOK, States
<1>7. \A q, u \in Threads : (Starting(q, u)' <=> Starting(q, u)) /\ (Joining(q, u)' => Joining(q, u))
  BY <1>1, <1>5 DEF Starting, Joining
<1>8. \A u \in Threads : ~Joining(t, u)
  BY <1>1 DEF Joining
<1>9. ASSUME NEW u \in Threads
      PROVE  /\ OwnReference(u)' = OwnReference(u)
             /\ TotalCallable(u)' = TotalCallable(u) - IF u = t THEN 1 ELSE 0
  <2>1. OwnReference(u)' = OwnReference(u)
    BY <1>1, <1>5 DEF OwnReference, Gone
  <2>2. OwnCallable(u)' = OwnCallable(u) - IF u = t THEN 1 ELSE 0
    BY <1>1, <1>5 DEF OwnCallable, Gone
  <2>3. Starters(u)' = Starters(u)
    BY <1>7 DEF Starters
  <2>4. CallablesWith(u)' = CallablesWith(u)
    BY <1>1 DEF CallablesWith
  <2> QED
    BY <2>1, <2>2, <2>3, <2>4, Numbers DEF TotalCallable
<1>10. \A q \in Threads : callables'[q] \subseteq callables[q] /\ (pc'[q] = "unstarted" <=> pc[q] = "unstarted")
  BY <1>1, <1>5
<1> QED
  BY <1>1, <1>2, <1>4, <1>6, <1>7, <1>8, <1>9, <1>10, ReleaseCallableStep

----------------------------------------------------------------------------
\* sThreadNew returns: the reference it held becomes one of a variable.
LEMMA StoreHandleKeeps ==
    ASSUME IInv, NEW p \in Threads, NEW t \in Threads, StoreHandle(p, t)
    PROVE  IInv'
<1>1. /\ Starting(p, t) /\ pc[p] = "new" /\ target[p] = t
      /\ handle' = [handle EXCEPT ![t] = "joinable"]
      /\ variables' = [variables EXCEPT ![p] = @ \cup {t}]
      /\ callables' = [callables EXCEPT ![p] = @ \cup {t}]
      /\ pc' = [pc EXCEPT ![p] = "program"] /\ target' = [target EXCEPT ![p] = Nobody]
      /\ UNCHANGED <<object, references, callable, captures, stored, owner, stopped, refused>>
  BY DEF StoreHandle, Starting
<1>2. /\ t # Main /\ t \notin variables[p] /\ t \notin callables[p]
      /\ \A q \in Threads : Starting(q, t) => q = p
  BY <1>1 DEF IInv, MainHasNoObject, StartedAlone
<1>3. \A q \in Threads : /\ variables'[q] = IF q = p THEN variables[q] \cup {t} ELSE variables[q]
                         /\ callables'[q] = IF q = p THEN callables[q] \cup {t} ELSE callables[q]
                         /\ pc'[q] = IF q = p THEN "program" ELSE pc[q]
                         /\ target'[q] = IF q = p THEN Nobody ELSE target[q]
  BY <1>1 DEF IInv, ThreadsTypeOK
<1>4. ThreadsTypeOK'
  <2>1. variables' \in [Threads -> SUBSET Threads] /\ callables' \in [Threads -> SUBSET Threads]
    BY <1>1 DEF IInv, ThreadsTypeOK
  <2> QED
    BY <1>1, <2>1 DEF IInv, ThreadsTypeOK, States
<1>5. \A q, u \in Threads : Starting(q, u)' <=> Starting(q, u) /\ q # p
  BY <1>3 DEF Starting
<1>6. \A u \in Threads : Starting(p, u) <=> u = t
  BY <1>1 DEF Starting
<1>7. ReferencesCounted'
  <2>1. ASSUME NEW u \in Threads \ {Main} PROVE Counted(u)'
    <3> DEFINE one == IF u = t THEN 1 ELSE 0
    <3>1. Counted(u) /\ references[u] \in Int /\ callable[u] \in Int
      BY CountedEach DEF IInv, ThreadsTypeOK
    <3>2. Cardinality(VariablesWith(u)') = Cardinality(VariablesWith(u)) + one
      <4>1. \A q \in Threads \ {p} : u \in variables'[q] <=> u \in variables[q]
        BY <1>3
      <4>2. (u \in variables'[p] <=> u \in variables[p] \/ u = t) /\ (u = t => u \notin variables[p])
        BY <1>2, <1>3
      <4>3. Cardinality(VariablesWith(u)) \in Nat
        BY Numbers
      <4>4. Cardinality(VariablesWith(u)') = Cardinality(VariablesWith(u))
               + (IF u \in variables'[p] THEN 1 ELSE 0) - (IF u \in variables[p] THEN 1 ELSE 0)
        BY <4>1, VariablesChanged
      <4> QED
        BY <4>2, <4>3, <4>4
    <3>3. Cardinality(CallablesWith(u)') = Cardinality(CallablesWith(u)) + one
      <4>1. \A q \in Threads \ {p} : u \in callables'[q] <=> u \in callables[q]
        BY <1>3
      <4>2. (u \in callables'[p] <=> u \in callables[p] \/ u = t) /\ (u = t => u \notin callables[p])
        BY <1>2, <1>3
      <4>3. Cardinality(CallablesWith(u)) \in Nat
        BY Numbers
      <4>4. Cardinality(CallablesWith(u)') = Cardinality(CallablesWith(u))
               + (IF u \in callables'[p] THEN 1 ELSE 0) - (IF u \in callables[p] THEN 1 ELSE 0)
        BY <4>1, CallablesChanged
      <4> QED
        BY <4>2, <4>3, <4>4
    <3>4. Cardinality(Starters(u)') = Cardinality(Starters(u)) + (0 - one)
      <4>1. \A q \in Threads \ {p} : Starting(q, u)' <=> Starting(q, u)
        BY <1>5
      <4>2. ~Starting(p, u)' /\ (Starting(p, u) <=> u = t)
        BY <1>5, <1>6
      <4>3. Cardinality(Starters(u)) \in Nat
        BY Numbers
      <4>4. Cardinality(Starters(u)') = Cardinality(Starters(u))
               + (IF Starting(p, u)' THEN 1 ELSE 0) - (IF Starting(p, u) THEN 1 ELSE 0)
        BY <4>1, StartersChanged
      <4> QED
        BY <4>2, <4>3, <4>4
    <3>5. /\ CapturesWith(u)' = CapturesWith(u) /\ StoredReference(u)' = StoredReference(u)
          /\ OwnReference(u)' = OwnReference(u) /\ OwnCallable(u)' = OwnCallable(u)
      BY <1>1, <1>3 DEF CapturesWith, StoredReference, OwnReference, OwnCallable, Gone
    <3>6. /\ object'[u] = "alive" <=> references'[u] > 0
          /\ captures'[u] # {} => callable'[u] > 0
      BY <1>1, <3>1 DEF Counted
    <3>7. one \in Int
      OBVIOUS
    <3> HIDE DEF one
    <3>8. /\ Cardinality(CapturesWith(u)') = Cardinality(CapturesWith(u)) + 0
          /\ StoredReference(u)' = StoredReference(u) + 0
          /\ OwnReference(u)' = OwnReference(u) + 0 /\ OwnCallable(u)' = OwnCallable(u) + 0
      BY <3>5, Numbers
    <3>9. references'[u] = references[u] /\ callable'[u] = callable[u]
      BY <1>1
    <3> DEFINE less == 0 - one
    <3>10. /\ references'[u] = references[u] + one + 0 + less + 0 + 0
           /\ callable'[u] = callable[u] + one + less + 0 /\ less \in Int
           /\ Cardinality(Starters(u)') = Cardinality(Starters(u)) + less
      BY <3>9, <3>1, <3>4, <3>7
    <3> HIDE DEF less
    <3> QED
      BY <3>1, <3>2, <3>3, <3>6, <3>7, <3>8, <3>10, CountsFollow
  <2> QED
    BY <2>1, CountedEachNext
<1>8. MainHasNoObject' /\ StartedWithObject'
  BY <1>1, <1>2, <1>3, <1>5, ThreadsAssumption DEF IInv, MainHasNoObject, StartedWithObject
<1>9. StartedAlone'
  BY <1>1, <1>2, <1>3, <1>5 DEF IInv, StartedAlone
<1>10. JoinedIsReachable' /\ OnlyRefusedJoinsTerminate'
  BY <1>1, <1>3 DEF IInv, JoinedIsReachable, Joining, Reachable, OnlyRefusedJoinsTerminate
<1> QED
  BY <1>4, <1>7, <1>8, <1>9, <1>10 DEF IInv

\* A thread is created: two references each, of the creator and of the new thread.
LEMMA ThreadNewKeeps ==
    ASSUME IInv, NEW p \in Threads, NEW t \in Threads, NEW C \in SUBSET Threads, sThreadNew(p, t, C)
    PROVE  IInv'
<1>1. /\ pc[p] = "program" /\ object[t] = "absent" /\ C \subseteq Reachable(p)
      /\ object' = [object EXCEPT ![t] = "alive"]
      /\ references' = [u \in Threads |-> IF u = t THEN 2 ELSE references[u] + IF u \in C THEN 1 ELSE 0]
      /\ callable' = [callable EXCEPT ![t] = 2] /\ captures' = [captures EXCEPT ![t] = C]
      /\ pc' = [pc EXCEPT ![p] = "new", ![t] = "program"] /\ target' = [target EXCEPT ![p] = t]
      /\ UNCHANGED <<handle, variables, callables, stored, owner, stopped, refused>>
  BY DEF sThreadNew, Running, InitialReferences
<1>2. /\ t # Main /\ pc[t] = "unstarted" /\ references[t] = 0 /\ callable[t] = 0
      /\ captures[t] = {} /\ t \notin stored
      /\ \A q \in Threads : /\ t \notin variables[q] \cup captures[q] \cup callables[q]
                            /\ ~Starting(q, t) /\ ~Joining(q, t)
      /\ VariablesWith(t) = {} /\ CapturesWith(t) = {} /\ CallablesWith(t) = {} /\ Starters(t) = {}
  BY <1>1, AbsentIsUnreferenced
<1>3. p # t /\ t \notin C
  BY <1>1, <1>2 DEF Reachable
<1>4. \A u \in C : u # Main /\ object[u] = "alive" /\ references[u] > 0
  <2>1. \A u \in C : Holds(p, u)
    BY <1>1 DEF Reachable, Holds
  <2> QED
    BY <2>1, HeldIsAlive
<1>5. \A q \in Threads : /\ captures'[q] = IF q = t THEN C ELSE captures[q]
                         /\ pc'[q] = IF q = t THEN "program" ELSE IF q = p THEN "new" ELSE pc[q]
                         /\ target'[q] = IF q = p THEN t ELSE target[q]
                         /\ object'[q] = IF q = t THEN "alive" ELSE object[q]
                         /\ callable'[q] = IF q = t THEN 2 ELSE callable[q]
                         /\ references'[q] = IF q = t THEN 2 ELSE references[q] + IF q \in C THEN 1 ELSE 0
  BY <1>1 DEF IInv, ThreadsTypeOK
<1>6. ThreadsTypeOK'
  <2>1. \A u \in Threads : references[u] \in Int
    BY DEF IInv, ThreadsTypeOK
  <2>2. \A u \in Threads : (IF u = t THEN 2 ELSE references[u] + IF u \in C THEN 1 ELSE 0) \in Int
    BY <2>1
  <2>3. references' \in [Threads -> Int]
    BY <1>1, <2>2
  <2>4. callable' \in [Threads -> Int] /\ captures' \in [Threads -> SUBSET Threads]
    BY <1>1 DEF IInv, ThreadsTypeOK
  <2> QED
    BY <1>1, <2>3, <2>4 DEF IInv, ThreadsTypeOK, States
<1>7. \A q, u \in Threads : Starting(q, u)' <=> Starting(q, u) \/ (q = p /\ u = t)
  <2>1. ASSUME NEW q \in Threads, NEW u \in Threads
        PROVE  Starting(q, u)' <=> Starting(q, u) \/ (q = p /\ u = t)
    <3>1. CASE q = p
      <4>1. pc'[q] = "new" /\ target'[q] = t /\ pc[q] # "new"
        BY <1>1, <1>3, <1>5, <3>1
      <4>2. QED
        BY <3>1, <4>1 DEF Starting
    <3>2. CASE q = t
      <4>1. pc'[q] # "new" /\ pc[q] # "new" /\ q # p
        BY <1>2, <1>3, <1>5, <3>2
      <4>2. QED
        BY <4>1 DEF Starting
    <3>3. CASE q # p /\ q # t
      <4>1. pc'[q] = pc[q] /\ target'[q] = target[q]
        BY <1>5, <3>3
      <4>2. QED
        BY <3>3, <4>1 DEF Starting
    <3> QED
      BY <3>1, <3>2, <3>3
  <2> QED
    BY <2>1
<1>8. ReferencesCounted'
  <2>1. ASSUME NEW u \in Threads \ {Main} PROVE Counted(u)'
    <3> DEFINE new == IF u = t THEN 1 ELSE 0
               captured == IF u \in C THEN 1 ELSE 0
    <3>1. Counted(u) /\ references[u] \in Int /\ callable[u] \in Int
      BY CountedEach DEF IInv, ThreadsTypeOK
    <3>2. Cardinality(CapturesWith(u)') = Cardinality(CapturesWith(u)) + captured
      <4>1. \A q \in Threads \ {t} : u \in captures'[q] <=> u \in captures[q]
        BY <1>5
      <4>2. (u \in captures'[t] <=> u \in C) /\ u \notin captures[t]
        BY <1>2, <1>5
      <4>3. Cardinality(CapturesWith(u)) \in Nat
        BY Numbers
      <4>4. Cardinality(CapturesWith(u)') = Cardinality(CapturesWith(u))
               + (IF u \in captures'[t] THEN 1 ELSE 0) - (IF u \in captures[t] THEN 1 ELSE 0)
        BY <4>1, CapturesChanged
      <4> QED
        BY <4>2, <4>3, <4>4
    <3>3. Cardinality(Starters(u)') = Cardinality(Starters(u)) + new
      <4>1. \A q \in Threads \ {p} : Starting(q, u)' <=> Starting(q, u)
        BY <1>7
      <4>2. (Starting(p, u)' <=> u = t) /\ ~Starting(p, u)
        BY <1>1, <1>7 DEF Starting
      <4>3. Cardinality(Starters(u)) \in Nat
        BY Numbers
      <4>4. Cardinality(Starters(u)') = Cardinality(Starters(u))
               + (IF Starting(p, u)' THEN 1 ELSE 0) - (IF Starting(p, u) THEN 1 ELSE 0)
        BY <4>1, StartersChanged
      <4> QED
        BY <4>2, <4>3, <4>4
    <3>4. /\ VariablesWith(u)' = VariablesWith(u) /\ CallablesWith(u)' = CallablesWith(u)
          /\ StoredReference(u)' = StoredReference(u)
      BY <1>1 DEF VariablesWith, CallablesWith, StoredReference
    <3>5. OwnReference(u)' = OwnReference(u) + new /\ OwnCallable(u)' = OwnCallable(u) + new
      <4>1. CASE u = t
        <5>1. pc[u] = "unstarted" /\ pc'[u] = "program"
          BY <1>2, <1>5, <4>1
        <5> QED
          BY <4>1, <5>1 DEF OwnReference, OwnCallable, Gone
      <4>2. CASE u # t
        <5>1. pc'[u] = pc[u] \/ (pc[u] = "program" /\ pc'[u] = "new")
          BY <1>1, <1>5, <4>2
        <5>2. OwnReference(u)' = OwnReference(u) /\ OwnCallable(u)' = OwnCallable(u)
          BY <5>1 DEF OwnReference, OwnCallable, Gone
        <5> QED
          BY <4>2, <5>2, Numbers
      <4> QED
        BY <4>1, <4>2
    <3>6. /\ references'[u] = references[u] + captured + new + new
          /\ callable'[u] = callable[u] + new + new
      <4>1. CASE u = t
        <5>1. references'[u] = 2 /\ callable'[u] = 2 /\ captured = 0 /\ new = 1
          BY <1>3, <1>5, <4>1
        <5> QED
          BY <1>2, <4>1, <5>1
      <4>2. CASE u # t
        <5>1. references'[u] = references[u] + captured /\ callable'[u] = callable[u] /\ new = 0
          BY <1>5, <4>2
        <5> QED
          BY <3>1, <5>1
      <4> QED
        BY <4>1, <4>2
    <3>7. object'[u] = "alive" <=> references'[u] > 0
      <4>1. CASE u = t
        BY <1>5, <4>1
      <4>2. CASE u # t
        <5>1. object'[u] = object[u] /\ references'[u] = references[u] + captured
          BY <1>5, <4>2
        <5>2. u \in C => object[u] = "alive" /\ references[u] > 0
          BY <1>4
        <5>3. object[u] = "alive" <=> references[u] > 0
          BY <3>1 DEF Counted
        <5> QED
          BY <3>1, <5>1, <5>2, <5>3
      <4> QED
        BY <4>1, <4>2
    <3>8. captures'[u] # {} => callable'[u] > 0
      BY <1>5, <3>1 DEF Counted
    <3>9. new \in Int /\ captured \in Int
      OBVIOUS
    <3> HIDE DEF new, captured
    <3>10. /\ Cardinality(VariablesWith(u)') = Cardinality(VariablesWith(u)) + 0
           /\ Cardinality(CallablesWith(u)') = Cardinality(CallablesWith(u)) + 0
           /\ StoredReference(u)' = StoredReference(u) + 0
      BY <3>4, Numbers
    <3>11. /\ references'[u] = references[u] + 0 + captured + new + 0 + new
           /\ callable'[u] = callable[u] + 0 + new + new
      BY <3>1, <3>6, <3>9
    <3> QED
      BY <3>1, <3>2, <3>3, <3>5, <3>7, <3>8, <3>9, <3>10, <3>11, CountsFollow
  <2> QED
    BY <2>1, CountedEachNext
<1>step. UNCHANGED <<variables, callables, stored, stopped, refused>> /\ C \subseteq Reachable(p)
  BY <1>1
<1>9. MainHasNoObject'
  <2>1. Main \notin C
    BY <1>4
  <2> QED
    BY <1>step, <1>2, <1>5, <1>7, <2>1, ThreadsAssumption DEF IInv, MainHasNoObject
<1>10. StartedWithObject'
  <2>1. \A u \in Threads \ {Main} : /\ pc[u] = "unstarted" <=> object[u] = "absent"
                                    /\ object[u] = "absent" => callable[u] = 0
    BY DEF IInv, StartedWithObject
  <2>2. pc[p] = "program"
    BY <1>1
  <2> QED
    BY <1>5, <2>1, <2>2 DEF StartedWithObject
<1>11. StartedAlone'
  <2>1. ASSUME NEW q \in Threads, NEW u \in Threads, Starting(q, u)'
        PROVE  /\ \A r \in Threads : /\ Starting(r, u)' => r = q
                                     /\ u \notin (variables[r] \cup captures[r] \cup callables[r])'
               /\ u \notin stored'
    <3>1. CASE Starting(q, u)
      <4>1. u # t /\ u \notin Reachable(p)
        BY <1>2, <3>1 DEF IInv, StartedAlone, Reachable
      <4>2. u \notin C
        BY <1>1, <4>1
      <4> QED
        BY <1>1, <1>5, <1>7, <3>1, <4>1, <4>2 DEF IInv, StartedAlone
    <3>2. CASE q = p /\ u = t
      BY <1>1, <1>2, <1>3, <1>5, <1>7, <3>2
    <3> QED
      BY <1>7, <2>1, <3>1, <3>2
  <2> QED
    BY <2>1 DEF StartedAlone
<1>12. JoinedIsReachable'
  <2>1. ASSUME NEW q \in Threads, NEW u \in Threads, Joining(q, u)' PROVE u \in Reachable(q)'
    <3>1. q # p /\ q # t /\ Joining(q, u)
      BY <1>5, <2>1 DEF Joining
    <3> QED
      BY <1>step, <1>5, <3>1 DEF IInv, JoinedIsReachable, Reachable
  <2> QED
    BY <2>1 DEF JoinedIsReachable
<1>13. OnlyRefusedJoinsTerminate'
  BY <1>step DEF IInv, OnlyRefusedJoinsTerminate
<1> QED
  BY <1>6, <1>8, <1>9, <1>10, <1>11, <1>12, <1>13 DEF IInv

----------------------------------------------------------------------------
\* The invariant, of which MainRuns needs the types alone.
MainIInv == IInv /\ MainRuns

\* Before a thread is started the invariant holds.
LEMMA InitiallyMainIInv == Init => MainIInv
<1> SUFFICES ASSUME Init PROVE MainIInv
  OBVIOUS
<1>1. ThreadsTypeOK
  <2>1. 0 \in Int /\ {} \in SUBSET Threads /\ Nobody \in Threads \cup {Nobody}
    OBVIOUS
  <2>2. /\ pc \in [Threads -> States] /\ target \in [Threads -> Threads \cup {Nobody}]
        /\ object \in [Threads -> {"none", "absent", "alive", "destructed"}]
        /\ handle \in [Threads -> {"empty", "joinable", "detached"}]
    BY <2>1 DEF Init, States
  <2>3. /\ references \in [Threads -> Int] /\ callable \in [Threads -> Int]
        /\ captures \in [Threads -> SUBSET Threads] /\ variables \in [Threads -> SUBSET Threads]
        /\ callables \in [Threads -> SUBSET Threads]
    BY <2>1 DEF Init
  <2> QED
    BY <2>2, <2>3 DEF Init, ThreadsTypeOK
<1>2. MainHasNoObject /\ StartedWithObject /\ StartedAlone /\ JoinedIsReachable /\ MainRuns
  BY ThreadsAssumption DEF Init, MainHasNoObject, StartedWithObject, StartedAlone,
     JoinedIsReachable, MainRuns, Starting, Joining
<1>3. OnlyRefusedJoinsTerminate
  BY DEF Init, OnlyRefusedJoinsTerminate
<1>4. ReferencesCounted
  <2>1. ASSUME NEW t \in Threads \ {Main} PROVE Counted(t)
    <3>1. /\ VariablesWith(t) = {} /\ CapturesWith(t) = {} /\ CallablesWith(t) = {} /\ Starters(t) = {}
          /\ StoredReference(t) = 0 /\ OwnReference(t) = 0 /\ OwnCallable(t) = 0
      BY DEF Init, VariablesWith, CapturesWith, CallablesWith, Starters, Starting, StoredReference,
             OwnReference, OwnCallable
    <3>2. Cardinality({}) = 0
      BY FS_EmptySet
    <3>3. references[t] = 0 /\ callable[t] = 0 /\ object[t] = "absent" /\ captures[t] = {}
      BY DEF Init
    <3> QED
      BY <3>1, <3>2, <3>3 DEF Counted
  <2> QED
    BY <2>1, CountedEach
<1> QED
  BY <1>1, <1>2, <1>3, <1>4 DEF MainIInv, IInv

\* The steps that ReleaseObjects and the counts take no part in.
LEMMA MutexAndEndKeep ==
    ASSUME IInv, NEW p \in Threads,
           \/ sMutexLock(p) \/ Locked(p) \/ sMutexTryLock(p) \/ sMutexUnlock(p)
           \/ CallableReturns(p) \/ MainReturns \/ Exit(p)
    PROVE  IInv'
<1>1. CASE sMutexLock(p)
  BY <1>1, MoveKeeps DEF sMutexLock, Running, States
<1>2. CASE Locked(p)
  BY <1>2, MoveKeeps DEF Locked, States
<1>3. CASE sMutexTryLock(p) \/ sMutexUnlock(p)
  BY <1>3, StillStep DEF sMutexTryLock, sMutexUnlock
<1>4. CASE CallableReturns(p)
  BY <1>4, MoveKeeps DEF CallableReturns, Running, States
<1>5. CASE MainReturns
  BY <1>5, StillStep DEF MainReturns
<1>6. CASE Exit(p)
  BY <1>6, MoveKeeps DEF Exit, States
<1> QED
  BY <1>1, <1>2, <1>3, <1>4, <1>5, <1>6

\* The callable of the main thread returns in no step.
LEMMA MainKeepsRunning ==
    ASSUME MainIInv, Next PROVE MainRuns'
<1>1. PICK p \in Threads : ProgramStep(p) \/ RuntimeStep(p)
  BY DEF Next
<1>2. pc \in [Threads -> States] /\ MainRuns /\ Main \in Threads
  BY ThreadsAssumption DEF MainIInv, IInv, ThreadsTypeOK
<1>3. CASE ProgramStep(p)
  <2>1. CASE \E t \in Threads : \E C \in SUBSET Threads : sThreadNew(p, t, C)
    BY <1>2, <2>1 DEF sThreadNew, MainRuns
  <2>2. CASE \E t \in Threads : \/ sThreadJoin(p, t) \/ JoinThrows(p, t) \/ Copy(p, t) \/ Store(p, t)
                                \/ Release(p, t) \/ ReleaseStored(p, t) \/ ForgetCallable(p, t)
    BY <1>2, <2>2 DEF sThreadJoin, JoinThrows, Copy, Store, Release, ReleaseStored, ForgetCallable,
       MainRuns
  <2>3. CASE \/ sMutexLock(p) \/ sMutexTryLock(p) \/ sMutexUnlock(p) \/ CallableReturns(p)
             \/ MainReturns
    BY <1>2, <2>3 DEF sMutexLock, sMutexTryLock, sMutexUnlock, CallableReturns, MainReturns, MainRuns
  <2> QED
    BY <1>3, <2>1, <2>2, <2>3 DEF ProgramStep
<1>4. CASE RuntimeStep(p)
  <2>1. CASE \E t \in Threads : StoreHandle(p, t) \/ Joined(p, t)
    BY <1>2, <2>1 DEF StoreHandle, Joined, MainRuns
  <2>2. CASE Locked(p) \/ LambdaReleasesCallable(p) \/ LambdaReleasesThread(p) \/ Exit(p)
    BY <1>2, <2>2 DEF Locked, LambdaReleasesCallable, LambdaReleasesThread, Exit, MainRuns
  <2> QED
    BY <1>4, <2>1, <2>2 DEF RuntimeStep
<1> QED
  BY <1>1, <1>3, <1>4

\* Every step keeps the invariant.
LEMMA NextKeepsMainIInv == MainIInv /\ [Next]_vars => MainIInv'
<1> SUFFICES ASSUME MainIInv, [Next]_vars PROVE MainIInv'
  OBVIOUS
<1> USE DEF MainIInv
<1>1. CASE UNCHANGED vars
  BY <1>1, StillStep DEF vars, MainRuns
<1>2. CASE Next
  <2>1. MainRuns'
    BY <1>2, MainKeepsRunning
  <2>2. PICK p \in Threads : ProgramStep(p) \/ RuntimeStep(p)
    BY <1>2 DEF Next
  <2>3. ASSUME NEW t \in Threads, NEW C \in SUBSET Threads, sThreadNew(p, t, C) PROVE IInv'
    BY <2>3, ThreadNewKeeps
  <2>4. ASSUME NEW t \in Threads, sThreadJoin(p, t) PROVE IInv'
    BY <2>4, JoinKeeps
  <2>5. ASSUME NEW t \in Threads, JoinThrows(p, t) PROVE IInv'
    BY <2>5, JoinThrowsKeeps
  <2>6. ASSUME NEW t \in Threads, Copy(p, t) PROVE IInv'
    BY <2>6, CopyKeeps
  <2>7. ASSUME NEW t \in Threads, Store(p, t) PROVE IInv'
    BY <2>7, StoreKeeps
  <2>8. ASSUME NEW t \in Threads, Release(p, t) PROVE IInv'
    BY <2>8, ReleaseKeeps
  <2>9. ASSUME NEW t \in Threads, ReleaseStored(p, t) PROVE IInv'
    BY <2>9, ReleaseStoredKeeps
  <2>10. ASSUME NEW t \in Threads, ForgetCallable(p, t) PROVE IInv'
    BY <2>10, ForgetCallableKeeps
  <2>11. ASSUME \/ sMutexLock(p) \/ Locked(p) \/ sMutexTryLock(p) \/ sMutexUnlock(p)
                \/ CallableReturns(p) \/ MainReturns \/ Exit(p)
         PROVE IInv'
    BY <2>11, MutexAndEndKeep
  <2>12. ASSUME NEW t \in Threads, StoreHandle(p, t) PROVE IInv'
    BY <2>12, StoreHandleKeeps
  <2>13. ASSUME NEW t \in Threads, Joined(p, t) PROVE IInv'
    BY <2>13, JoinedKeeps
  <2>14. ASSUME LambdaReleasesCallable(p) PROVE IInv'
    BY <2>14, LambdaReleasesCallableKeeps
  <2>15. ASSUME LambdaReleasesThread(p) PROVE IInv'
    BY <2>15, LambdaReleasesThreadKeeps
  <2>16. ASSUME ProgramStep(p) PROVE IInv'
    BY <2>16, <2>3, <2>4, <2>5, <2>6, <2>7, <2>8, <2>9, <2>10, <2>11 DEF ProgramStep
  <2>17. ASSUME RuntimeStep(p) PROVE IInv'
    BY <2>17, <2>11, <2>12, <2>13, <2>14, <2>15 DEF RuntimeStep
  <2> QED
    BY <2>1, <2>2, <2>16, <2>17
<1> QED
  BY <1>1, <1>2

\* The inductive invariant holds.
THEOREM ThreadsInvariant == Spec => []MainIInv
BY InitiallyMainIInv, NextKeepsMainIInv, PTL DEF Spec

\* Every reference to a thread object and to its callable is counted, whichever thread holds it
\* and however the steps of sThreadNew, of the lambda and of the program interleave; so the
\* object is alive while, and only while, there is one.
THEOREM AllReferencesCounted == Spec => []ReferencesCounted
<1>1. MainIInv => ReferencesCounted
  BY DEF MainIInv, IInv
<1> QED
  BY <1>1, ThreadsInvariant, PTL

\* The program is terminated for a refused join alone: sThreadDestruct detaches what nobody
\* joined.
THEOREM OnlyRefusedTerminate == Spec => []OnlyRefusedJoinsTerminate
<1>1. MainIInv => OnlyRefusedJoinsTerminate
  BY DEF MainIInv, IInv
<1> QED
  BY <1>1, ThreadsInvariant, PTL

\* sThreadNew stores the handle in, and a join waits on, an object that is alive; what a
\* thread can name is alive; the callable lives until it has returned.
THEOREM NothingUsed == Spec => []NothingUsedAfterItsEnd
<1>1. ASSUME MainIInv PROVE NothingUsedAfterItsEnd
  <2> USE <1>1 DEF MainIInv
  <2>1. ASSUME NEW p \in Threads, NEW t \in Threads, Starting(p, t) \/ Joining(p, t)
        PROVE  object[t] = "alive"
    <3>1. Holds(p, t)
      BY <2>1 DEF Holds, IInv, JoinedIsReachable, Reachable
    <3> QED
      BY <3>1, HeldIsAlive
  <2>2. ASSUME NEW p \in Threads, NEW t \in variables[p] \cup captures[p] \cup stored
        PROVE  object[t] = "alive"
    <3>1. t \in Threads /\ Holds(p, t)
      BY <2>2 DEF Holds, IInv, ThreadsTypeOK
    <3> QED
      BY <3>1, HeldIsAlive
  <2>3. ASSUME NEW t \in Threads \ {Main},
               pc[t] \in {"program", "join", "new", "lock", "returned"}
        PROVE  callable[t] > 0
    <3>1. OwnCallable(t) # 0
      BY <2>3 DEF OwnCallable, Gone
    <3> QED
      BY <3>1, CountedEach, ReferencedIffSome DEF IInv
  <2> QED
    BY <2>1, <2>2, <2>3 DEF NothingUsedAfterItsEnd
<1> QED
  BY <1>1, ThreadsInvariant, PTL

(***************************************************************************)
(* Interning                                                               *)
(***************************************************************************)

Maps == {"tables", "values"}

\* What a thread can have the runtime look up.
Questions ==
    {Question("tables", c, c) : c \in Conformances} \cup
    UNION {{Question("values", b.types[i + 1], TypeKey(b, i)) :
               i \in 0..(Len(b.types) - 1)} : b \in Blocks}
AskedKeys == {q.key : q \in Questions}
Entries == AskedKeys \X Nat

\* The types of the state.
InternTypeOK ==
    /\ asked \in [Callers -> Questions \cup {None}]
    /\ creating \in SUBSET Callers
    /\ mutex \in [Maps -> Callers \cup {None}]
    /\ map \in [Maps -> SUBSET Entries]
    /\ allocated \in Nat
    /\ cache \in [Callers -> [Slots -> Entries \cup {None}]]

\* A key has one entry in its map, an address belongs to one entry.
KeysUnique ==
    \A m \in Maps : \A e, f \in map[m] : e[1] = f[1] => e = f
AddressesAllocated == \A m \in Maps : \A e \in map[m] : e[2] <= allocated
AddressesUnique ==
    \A m, n \in Maps : \A e \in map[m], f \in map[n] :
        e[2] = f[2] => m = n /\ e = f

\* A cache only holds entries of the map it stands for.
CachesAgree ==
    \A p \in Callers : \A s \in Slots :
        cache[p][s] = None \/ cache[p][s] \in map["tables"]

\* A thread that creates an entry holds the mutex since it missed the key.
CreatorsHoldMutex ==
    \A p \in creating :
        /\ asked[p] # None /\ mutex[asked[p].map] = p
        /\ \A e \in map[asked[p].map] : e[1] # asked[p].key

\* What was answered was asked, and its entry is in the map.
IsAnswer(a) ==
    /\ Question(a.map, a.meaning, a.key) \in Questions
    /\ <<a.key, a.address>> \in map[a.map]
AnswersInMaps == \A a \in answers : IsAnswer(a)

InternInv ==
    /\ InternTypeOK /\ KeysUnique /\ AddressesAllocated /\ AddressesUnique
    /\ CachesAgree /\ CreatorsHoldMutex /\ AnswersInMaps

(* A question has the fields it is made of and is about one of the maps.   *)
LEMMA QuestionFields ==
    ASSUME NEW q \in Questions
    PROVE  /\ q.map \in Maps /\ q.key \in AskedKeys
           /\ q = Question(q.map, q.meaning, q.key)
           /\ q.map = "tables" => q.key \in Conformances /\ SlotOf[q.key] \in Slots
<1>1. q.key \in AskedKeys
    BY DEF AskedKeys
<1>2. CASE \E c \in Conformances : q = Question("tables", c, c)
    <2>1. PICK c \in Conformances : q = Question("tables", c, c)
        BY <1>2
    <2>2. q.map = "tables" /\ q.key = c /\ q.meaning = c
        BY <2>1 DEF Question
    <2>. QED BY <1>1, <2>1, <2>2 DEF Maps, Slots
<1>3. CASE \E b \in Blocks : \E i \in 0..(Len(b.types) - 1) :
              q = Question("values", b.types[i + 1], TypeKey(b, i))
    <2>1a. PICK b \in Blocks : \E i \in 0..(Len(b.types) - 1) :
              q = Question("values", b.types[i + 1], TypeKey(b, i))
        BY <1>3
    <2>1. PICK i \in 0..(Len(b.types) - 1) : q = Question("values", b.types[i + 1], TypeKey(b, i))
        BY <2>1a
    <2>2. q.map = "values" /\ q.key = TypeKey(b, i) /\ q.meaning = b.types[i + 1]
        BY <2>1 DEF Question
    <2>. QED BY <1>1, <2>1, <2>2 DEF Maps
<1>. QED BY <1>2, <1>3 DEF Questions

(* The key says what is asked for: questions answered from the same map    *)
(* have the same key exactly if they have the same meaning.                *)
LEMMA KeysAreMeanings ==
    ASSUME NEW q \in Questions, NEW r \in Questions, q.map = r.map
    PROVE  q.key = r.key <=> q.meaning = r.meaning
<1>1. CASE \E c \in Conformances : q = Question("tables", c, c)
    <2>1. q.map = "tables" /\ q.key = q.meaning
        BY <1>1 DEF Question
    <2>2. r.key = r.meaning
        <3>1. CASE \E c \in Conformances : r = Question("tables", c, c)
            BY <3>1 DEF Question
        <3>2. CASE \E b \in Blocks : \E i \in 0..(Len(b.types) - 1) :
                      r = Question("values", b.types[i + 1], TypeKey(b, i))
            <4>1. PICK b \in Blocks : \E i \in 0..(Len(b.types) - 1) :
                      r = Question("values", b.types[i + 1], TypeKey(b, i))
                BY <3>2
            <4>2. r.map = "values"
                BY <4>1 DEF Question
            <4>. QED BY <2>1, <4>2
        <3>. QED BY <3>1, <3>2 DEF Questions
    <2>. QED BY <2>1, <2>2
<1>2. CASE \E b \in Blocks : \E i \in 0..(Len(b.types) - 1) :
              q = Question("values", b.types[i + 1], TypeKey(b, i))
    <2>1a. PICK b \in Blocks : \E i \in 0..(Len(b.types) - 1) :
              q = Question("values", b.types[i + 1], TypeKey(b, i))
        BY <1>2
    <2>1. PICK i \in 0..(Len(b.types) - 1) : q = Question("values", b.types[i + 1], TypeKey(b, i))
        BY <2>1a
    <2>2. q.map = "values" /\ q.key = TypeKey(b, i) /\ q.meaning = b.types[i + 1]
        BY <2>1 DEF Question
    <2>3. ASSUME NEW c \in Conformances, r = Question("tables", c, c)
          PROVE  FALSE
        <3>1. r.map = "tables"
            BY <2>3 DEF Question
        <3>. QED BY <2>2, <3>1
    <2>4a. PICK d \in Blocks : \E j \in 0..(Len(d.types) - 1) :
              r = Question("values", d.types[j + 1], TypeKey(d, j))
        BY <2>3 DEF Questions
    <2>4. PICK j \in 0..(Len(d.types) - 1) : r = Question("values", d.types[j + 1], TypeKey(d, j))
        BY <2>4a
    <2>5. r.key = TypeKey(d, j) /\ r.meaning = d.types[j + 1]
        BY <2>4 DEF Question
    <2>. QED BY <2>2, <2>5, KeysDescribeTypes
<1>. QED BY <1>1, <1>2 DEF Questions

(* The invariant gives the property.                                       *)
LEMMA UniqueEntriesAgree ==
    ASSUME InternInv
    PROVE  SameAnswerToSameQuestion
<1>. SUFFICES ASSUME NEW a \in answers, NEW b \in answers
              PROVE  /\ a.address = b.address <=> a.map = b.map /\ a.meaning = b.meaning
                     /\ <<a.key, a.address>> \in map[a.map]
    BY DEF SameAnswerToSameQuestion
<1>. DEFINE q == Question(a.map, a.meaning, a.key)
            r == Question(b.map, b.meaning, b.key)
            e == <<a.key, a.address>>
            f == <<b.key, b.address>>
<1>1. q \in Questions /\ r \in Questions /\ e \in map[a.map] /\ f \in map[b.map]
    BY DEF InternInv, AnswersInMaps, IsAnswer
<1>2. /\ q.map = a.map /\ q.meaning = a.meaning /\ q.key = a.key
      /\ r.map = b.map /\ r.meaning = b.meaning /\ r.key = b.key
    BY DEF Question
<1>3. /\ e[1] = a.key /\ e[2] = a.address
      /\ f[1] = b.key /\ f[2] = b.address
    OBVIOUS
<1>4. a.map \in Maps /\ b.map \in Maps
    BY <1>1, <1>2, QuestionFields
<1>. HIDE DEF q, r, e, f
<1>5. ASSUME a.map = b.map
      PROVE  a.key = b.key <=> a.meaning = b.meaning
    BY <1>1, <1>2, <1>5, KeysAreMeanings
<1>6. ASSUME a.address = b.address
      PROVE  a.map = b.map /\ a.key = b.key
    <2>1. a.map = b.map /\ e = f
        BY <1>1, <1>3, <1>4, <1>6 DEF InternInv, AddressesUnique
    <2>. QED BY <2>1, <1>3
<1>7. ASSUME a.map = b.map, a.key = b.key
      PROVE  a.address = b.address
    <2>1. e = f
        BY <1>1, <1>3, <1>4, <1>7 DEF InternInv, KeysUnique
    <2>. QED BY <2>1, <1>3
<1>8. e \in map[a.map] => <<a.key, a.address>> \in map[a.map]
    BY DEF e
<1>. QED BY <1>1, <1>5, <1>6, <1>7, <1>8

(* Nothing is interned, asked or answered at first.                        *)
LEMMA InternInitEstablishes == InternInit => InternInv
<1>. SUFFICES ASSUME InternInit PROVE InternInv
    OBVIOUS
<1>. USE DEF InternInit
<1>1. InternTypeOK
    BY DEF InternTypeOK, EmptyCache, Maps
<1>2. KeysUnique /\ AddressesAllocated /\ AddressesUnique
    BY DEF KeysUnique, AddressesAllocated, AddressesUnique, Maps
<1>3. CachesAgree
    BY DEF CachesAgree, EmptyCache
<1>4. CreatorsHoldMutex /\ AnswersInMaps
    BY DEF CreatorsHoldMutex, AnswersInMaps
<1>. QED BY <1>1, <1>2, <1>3, <1>4 DEF InternInv

\* Steps that leave what is interned alone.
KeepsMaps == UNCHANGED <<map, allocated>>

(* What is interned stays as it is if nothing is created.                  *)
LEMMA MapsKept ==
    ASSUME InternInv, KeepsMaps
    PROVE  KeysUnique' /\ AddressesAllocated' /\ AddressesUnique'
<1>1. KeysUnique' /\ AddressesAllocated'
    BY DEF InternInv, KeepsMaps, KeysUnique, AddressesAllocated
<1>2. AddressesUnique'
    BY DEF InternInv, KeepsMaps, AddressesUnique
<1>. QED BY <1>1, <1>2

(* A thread only has the cache answer or looks the key up.                 *)
LEMMA TableAsked ==
    ASSUME InternInv, NEW p \in Callers, NEW c \in Conformances,
           ejcMultiprotocolTable(p, c)
    PROVE  InternInv'
<1>. DEFINE q == Question("tables", c, c)
<1>1. q \in Questions
    BY DEF Questions
<1>2. q.map = "tables" /\ q.key = c /\ q.meaning = c
    BY DEF Question
<1>. HIDE DEF q
<1>3. asked[p] = None /\ UNCHANGED <<creating, mutex, map, allocated, cache>>
    BY DEF ejcMultiprotocolTable
<1>4. asked' = asked \/ asked' = [asked EXCEPT ![p] = q]
    BY DEF ejcMultiprotocolTable, q
<1>5. InternTypeOK'
    BY <1>1, <1>3, <1>4 DEF InternInv, InternTypeOK
<1>6. CachesAgree'
    BY <1>3 DEF InternInv, CachesAgree
<1>7. CreatorsHoldMutex'
    <2>1. p \notin creating
        BY <1>3 DEF InternInv, CreatorsHoldMutex
    <2>2. \A r \in creating : asked'[r] = asked[r]
        BY <1>4, <2>1 DEF InternInv, InternTypeOK
    <2>. QED BY <1>3, <2>2 DEF InternInv, CreatorsHoldMutex
<1>8. AnswersInMaps'
    <2>1. CASE CacheHit(p, c)
        <3>. DEFINE entry == cache[p][SlotOf[c]]
        <3>1. entry # None /\ entry[1] = c
            BY <2>1 DEF CacheHit
        <3>2. entry \in map["tables"] /\ entry \in Entries
            BY <1>1, <1>2, <3>1, QuestionFields
            DEF InternInv, InternTypeOK, CachesAgree
        <3>3. entry = <<c, entry[2]>>
            BY <3>1, <3>2 DEF Entries
        <3>4. answers' = answers \cup
                  {[map |-> q.map, meaning |-> q.meaning,
                    key |-> q.key, address |-> entry[2]]}
            BY <2>1 DEF ejcMultiprotocolTable, Answered, q
        <3>. HIDE DEF entry
        <3>5. Question(q.map, q.meaning, q.key) \in Questions
            BY <1>1, QuestionFields
        <3>6. <<q.key, entry[2]>> \in map[q.map]
            BY <1>2, <3>2, <3>3
        <3>. SUFFICES ASSUME NEW a \in answers' PROVE IsAnswer(a)'
            BY DEF AnswersInMaps
        <3>7. CASE a \in answers
            BY <1>3, <3>7 DEF InternInv, AnswersInMaps, IsAnswer
        <3>8. CASE a = [map |-> q.map, meaning |-> q.meaning,
                        key |-> q.key, address |-> entry[2]]
            BY <1>3, <3>5, <3>6, <3>8 DEF IsAnswer
        <3>. QED BY <3>4, <3>7, <3>8
    <2>2. CASE ~CacheHit(p, c)
        <3>1. answers' = answers
            BY <2>2 DEF ejcMultiprotocolTable
        <3>. QED BY <1>3, <3>1 DEF InternInv, AnswersInMaps, IsAnswer
    <2>. QED BY <2>1, <2>2
<1>9. KeysUnique' /\ AddressesAllocated' /\ AddressesUnique'
    BY <1>3, MapsKept DEF KeepsMaps
<1>. QED BY <1>5, <1>6, <1>7, <1>8, <1>9 DEF InternInv

(* A type value is always looked up.                                       *)
LEMMA ValueAsked ==
    ASSUME InternInv, NEW p \in Callers, NEW b \in Blocks,
           NEW i \in 0..(Len(b.types) - 1), ejcTypeValue(p, b, i)
    PROVE  InternInv'
<1>. DEFINE q == Question("values", b.types[i + 1], TypeKey(b, i))
<1>1. q \in Questions
    BY DEF Questions
<1>2. /\ asked[p] = None /\ asked' = [asked EXCEPT ![p] = q]
      /\ UNCHANGED <<creating, mutex, map, allocated, cache, answers>>
    BY DEF ejcTypeValue
<1>. HIDE DEF q
<1>3. InternTypeOK'
    BY <1>1, <1>2 DEF InternInv, InternTypeOK
<1>4. CachesAgree' /\ AnswersInMaps'
    BY <1>2 DEF InternInv, CachesAgree, AnswersInMaps, IsAnswer
<1>5. CreatorsHoldMutex'
    <2>1. p \notin creating
        BY <1>2 DEF InternInv, CreatorsHoldMutex
    <2>2. \A r \in creating : asked'[r] = asked[r]
        BY <1>2, <2>1 DEF InternInv, InternTypeOK
    <2>. QED BY <1>2, <2>2 DEF InternInv, CreatorsHoldMutex
<1>6. KeysUnique' /\ AddressesAllocated' /\ AddressesUnique'
    BY <1>2, MapsKept DEF KeepsMaps
<1>. QED BY <1>3, <1>4, <1>5, <1>6 DEF InternInv

(* A mutex nobody holds is not one a creator holds.                        *)
LEMMA MutexLocked ==
    ASSUME InternInv, NEW p \in Callers, Lock(p)
    PROVE  InternInv'
<1>. DEFINE m == asked[p].map
<1>1. /\ asked[p] # None /\ mutex[m] = None /\ mutex' = [mutex EXCEPT ![m] = p]
      /\ UNCHANGED <<asked, creating, map, allocated, cache, answers>>
    BY DEF Lock
<1>2. m \in Maps
    BY <1>1, QuestionFields DEF InternInv, InternTypeOK
<1>. HIDE DEF m
<1>3. InternTypeOK'
    BY <1>1, <1>2 DEF InternInv, InternTypeOK
<1>4. CachesAgree' /\ AnswersInMaps'
    BY <1>1 DEF InternInv, CachesAgree, AnswersInMaps, IsAnswer
<1>5. CreatorsHoldMutex'
    <2>. SUFFICES ASSUME NEW r \in creating
                  PROVE  mutex'[asked[r].map] = r
        BY <1>1 DEF InternInv, CreatorsHoldMutex
    <2>1. r \in Callers /\ asked[r] # None /\ mutex[asked[r].map] = r
        BY DEF InternInv, InternTypeOK, CreatorsHoldMutex
    <2>2. asked[r].map # m /\ asked[r].map \in Maps
        BY <1>1, <2>1, NobodyCalls, QuestionFields DEF InternInv, InternTypeOK
    <2>. QED BY <1>1, <2>1, <2>2 DEF InternInv, InternTypeOK
<1>6. KeysUnique' /\ AddressesAllocated' /\ AddressesUnique'
    BY <1>1, MapsKept DEF KeepsMaps
<1>. QED BY <1>3, <1>4, <1>5, <1>6 DEF InternInv

\* Steps that only add to the maps.
MapsGrow == /\ map' \in [Maps -> SUBSET Entries]
            /\ \A m \in Maps : map[m] \subseteq map'[m]

\* What the return of a lookup of p leaves intact.
CreatorKept(p, r) ==
    /\ asked'[r] = asked[r] /\ asked[r] # None
    /\ asked[r].map \in Maps /\ asked[r].map # asked[p].map
    /\ mutex'[asked[r].map] = r
ReturnKeeps(p) ==
    /\ asked' \in [Callers -> Questions \cup {None}]
    /\ mutex' \in [Maps -> Callers \cup {None}]
    /\ cache' \in [Callers -> [Slots -> Entries \cup {None}]]
    /\ CachesAgree' /\ AnswersInMaps'
    /\ \A r \in creating \ {p} : CreatorKept(p, r)

(* What a lookup returns is in the map; it is stored in the cache and the  *)
(* mutex unlocked, which the thread held alone.                            *)
LEMMA LookupReturns ==
    ASSUME InternInv, NEW p \in Callers, Looking(p), NEW n, Return(p, n),
           <<asked[p].key, n>> \in map'[asked[p].map],
           MapsGrow
    PROVE  ReturnKeeps(p)
<1>. DEFINE q == asked[p]
            entry == <<q.key, n>>
<1>1. /\ q \in Questions /\ mutex[q.map] = p
    BY DEF Looking, InternInv, InternTypeOK
<1>2. /\ q.map \in Maps /\ q.key \in AskedKeys
      /\ q = Question(q.map, q.meaning, q.key)
      /\ q.map = "tables" => SlotOf[q.key] \in Slots
    BY <1>1, QuestionFields
<1>3. /\ answers' = answers \cup {[map |-> q.map, meaning |-> q.meaning,
                                   key |-> q.key, address |-> n]}
      /\ cache' = IF q.map = "tables"
                  THEN [cache EXCEPT ![p][SlotOf[q.key]] = entry]
                  ELSE cache
      /\ mutex' = [mutex EXCEPT ![q.map] = None]
      /\ asked' = [asked EXCEPT ![p] = None]
    BY DEF Return, Answered
<1>4. entry \in map'[q.map] /\ entry \in Entries
    BY <1>2 DEF MapsGrow
<1>5. asked' \in [Callers -> Questions \cup {None}]
    BY <1>3 DEF InternInv, InternTypeOK
<1>6. mutex' \in [Maps -> Callers \cup {None}]
    BY <1>3 DEF InternInv, InternTypeOK
<1>. HIDE DEF q, entry
<1>7. cache' \in [Callers -> [Slots -> Entries \cup {None}]]
    BY <1>2, <1>3, <1>4 DEF InternInv, InternTypeOK
<1>8. CachesAgree'
    <2>. SUFFICES ASSUME NEW r \in Callers, NEW s \in Slots
                  PROVE  cache'[r][s] = None \/ cache'[r][s] \in map'["tables"]
        BY DEF CachesAgree
    <2>1. cache[r][s] = None \/ cache[r][s] \in map'["tables"]
        BY DEF InternInv, CachesAgree, Maps, MapsGrow
    <2>2. CASE q.map = "tables" /\ r = p /\ s = SlotOf[q.key]
        <3>1. cache'[r][s] = entry
            BY <1>2, <1>3, <2>2 DEF InternInv, InternTypeOK
        <3>. QED BY <1>4, <2>2, <3>1
    <2>3. CASE ~(q.map = "tables" /\ r = p /\ s = SlotOf[q.key])
        <3>1. cache'[r][s] = cache[r][s]
            BY <1>2, <1>3, <2>3 DEF InternInv, InternTypeOK
        <3>. QED BY <2>1, <3>1
    <2>. QED BY <2>2, <2>3
<1>9. AnswersInMaps'
    <2>. SUFFICES ASSUME NEW a \in answers' PROVE IsAnswer(a)'
        BY DEF AnswersInMaps
    <2>1. CASE a \in answers
        <3>1. IsAnswer(a)
            BY <2>1 DEF InternInv, AnswersInMaps
        <3>2. a.map \in Maps
            <4>1. Question(a.map, a.meaning, a.key).map = a.map
                BY DEF Question
            <4>. QED BY <3>1, <4>1, QuestionFields DEF IsAnswer
        <3>. QED BY <3>1, <3>2 DEF IsAnswer, MapsGrow
    <2>2. CASE a = [map |-> q.map, meaning |-> q.meaning,
                    key |-> q.key, address |-> n]
        BY <1>1, <1>2, <1>4, <2>2 DEF IsAnswer, entry
    <2>. QED BY <1>3, <2>1, <2>2
<1>10. ASSUME NEW r \in creating \ {p}
       PROVE  CreatorKept(p, r)
    <2>1. r \in Callers /\ r # p /\ asked[r] # None /\ mutex[asked[r].map] = r
        BY DEF InternInv, InternTypeOK, CreatorsHoldMutex
    <2>2. asked[r].map \in Maps /\ asked[r].map # q.map
        BY <1>1, <2>1, QuestionFields DEF InternInv, InternTypeOK
    <2>3. asked'[r] = asked[r]
        BY <1>3, <2>1 DEF InternInv, InternTypeOK
    <2>4. mutex'[asked[r].map] = r
        BY <1>3, <2>1, <2>2 DEF InternInv, InternTypeOK
    <2>5. asked[r].map # asked[p].map
        BY <2>2 DEF q
    <2>. QED BY <2>1, <2>2, <2>3, <2>4, <2>5 DEF CreatorKept
<1>11. \A r \in creating \ {p} : CreatorKept(p, r)
    BY <1>10
<1>. QED BY <1>5, <1>6, <1>7, <1>8, <1>9, <1>11 DEF ReturnKeeps

(* A thread that finds its key returns the address, one that does not      *)
(* creates the entry next, and still holds the mutex.                      *)
LEMMA EntryFound ==
    ASSUME InternInv, NEW p \in Callers, Find(p)
    PROVE  InternInv'
<1>1. Looking(p) /\ p \notin creating /\ UNCHANGED <<map, allocated>>
    BY DEF Find
<1>2. asked[p] \in Questions /\ mutex[asked[p].map] = p /\ asked[p] # None
    BY <1>1 DEF Looking, InternInv, InternTypeOK
<1>3. asked[p].map \in Maps
    BY <1>2, QuestionFields
<1>4. KeysUnique' /\ AddressesAllocated' /\ AddressesUnique'
    BY <1>1, MapsKept DEF KeepsMaps
<1>5. CASE \E entry \in map[asked[p].map] : entry[1] = asked[p].key
    <2>1. PICK entry \in map[asked[p].map] :
              entry[1] = asked[p].key /\ Return(p, entry[2])
        BY <1>5 DEF Find
    <2>2. creating' = creating
        BY <1>5 DEF Find
    <2>3. entry \in Entries
        BY <1>3 DEF InternInv, InternTypeOK
    <2>4. <<asked[p].key, entry[2]>> = entry
        BY <2>1, <2>3 DEF Entries
    <2>5. <<asked[p].key, entry[2]>> \in map'[asked[p].map]
        BY <1>1, <2>4
    <2>6. MapsGrow
        BY <1>1 DEF InternInv, InternTypeOK, MapsGrow
    <2>7. ReturnKeeps(p)
        BY <1>1, <2>1, <2>5, <2>6, LookupReturns
    <2>8. InternTypeOK'
        BY <1>1, <2>2, <2>6, <2>7 DEF InternInv, InternTypeOK, MapsGrow, ReturnKeeps
    <2>9. CreatorsHoldMutex'
        BY <1>1, <2>2, <2>7
        DEF InternInv, CreatorsHoldMutex, ReturnKeeps, CreatorKept
    <2>. QED BY <1>4, <2>7, <2>8, <2>9 DEF InternInv, ReturnKeeps
<1>6. CASE ~\E entry \in map[asked[p].map] : entry[1] = asked[p].key
    <2>1. creating' = creating \cup {p} /\ UNCHANGED <<asked, mutex, cache, answers>>
        BY <1>6 DEF Find
    <2>2. InternTypeOK'
        BY <1>1, <2>1 DEF InternInv, InternTypeOK
    <2>3. CachesAgree' /\ AnswersInMaps'
        BY <1>1, <2>1 DEF InternInv, CachesAgree, AnswersInMaps, IsAnswer
    <2>4. CreatorsHoldMutex'
        BY <1>1, <1>2, <1>6, <2>1 DEF InternInv, CreatorsHoldMutex
    <2>. QED BY <1>4, <2>2, <2>3, <2>4 DEF InternInv
<1>. QED BY <1>5, <1>6

(* The new entry is the only one of its key and of its address.            *)
LEMMA EntryCreated ==
    ASSUME InternInv, NEW p \in Callers, Create(p)
    PROVE  InternInv'
<1>. DEFINE q == asked[p]
            n == allocated + 1
            new == <<q.key, n>>
<1>1. /\ Looking(p) /\ p \in creating /\ allocated' = n
      /\ map' = [map EXCEPT ![q.map] = @ \cup {new}]
      /\ Return(p, n) /\ creating' = creating \ {p}
    BY DEF Create
<1>2. /\ q \in Questions /\ mutex[q.map] = p /\ q # None
      /\ \A e \in map[q.map] : e[1] # q.key
    BY <1>1 DEF Looking, InternInv, InternTypeOK, CreatorsHoldMutex
<1>3. q.map \in Maps /\ q.key \in AskedKeys
    BY <1>2, QuestionFields
<1>4. n \in Nat /\ allocated \in Nat /\ n > allocated
    BY DEF InternInv, InternTypeOK
<1>5. new \in Entries /\ new[1] = q.key /\ new[2] = n
    BY <1>3, <1>4 DEF Entries
<1>6. \A m \in Maps : map'[m] = IF m = q.map THEN map[m] \cup {new} ELSE map[m]
    BY <1>1 DEF InternInv, InternTypeOK
<1>7. map' \in [Maps -> SUBSET Entries]
    BY <1>1, <1>5 DEF InternInv, InternTypeOK
<1>8. MapsGrow
    BY <1>6, <1>7 DEF MapsGrow
<1>9. <<asked[p].key, n>> \in map'[asked[p].map]
    BY <1>3, <1>6
<1>. HIDE DEF n, new
<1>10. ReturnKeeps(p)
    BY <1>1, <1>8, <1>9, LookupReturns
<1>11. InternTypeOK'
    BY <1>1, <1>4, <1>7, <1>10 DEF InternInv, InternTypeOK, ReturnKeeps
<1>12. CreatorsHoldMutex'
    BY <1>1, <1>6, <1>10
    DEF InternInv, CreatorsHoldMutex, ReturnKeeps, CreatorKept
<1>13. \A m \in Maps : \A e \in map[m] : e \in Entries /\ e[2] <= allocated /\ e[2] \in Nat
    BY DEF InternInv, InternTypeOK, AddressesAllocated, Entries
<1>14. \A m \in Maps : \A e \in map'[m] : e \in map[m] \/ (m = q.map /\ e = new)
    BY <1>6
<1>15. \A m \in Maps : \A e \in map[m] : e[2] # n
    BY <1>4, <1>13
<1>16. KeysUnique'
    <2>. SUFFICES ASSUME NEW m \in Maps, NEW e \in map'[m], NEW f \in map'[m], e[1] = f[1]
                  PROVE  e = f
        BY DEF KeysUnique
    <2>. QED BY <1>2, <1>5, <1>14 DEF InternInv, KeysUnique
<1>17. AddressesAllocated'
    <2>. SUFFICES ASSUME NEW m \in Maps, NEW e \in map'[m] PROVE e[2] <= n
        BY <1>1 DEF AddressesAllocated
    <2>. QED BY <1>4, <1>5, <1>13, <1>14
<1>18. AddressesUnique'
    <2>. SUFFICES ASSUME NEW l \in Maps, NEW m \in Maps,
                         NEW e \in map'[l], NEW f \in map'[m], e[2] = f[2]
                  PROVE  l = m /\ e = f
        BY DEF AddressesUnique
    <2>. QED BY <1>5, <1>14, <1>15 DEF InternInv, AddressesUnique
<1>. QED BY <1>10, <1>11, <1>12, <1>16, <1>17, <1>18 DEF InternInv, ReturnKeeps

(* A thread's cache is empty again for the thread that takes its place.    *)
LEMMA CacheEnds ==
    ASSUME InternInv, NEW p \in Callers, ThreadEnds(p)
    PROVE  InternInv'
<1>1. /\ cache' = [cache EXCEPT ![p] = EmptyCache]
      /\ UNCHANGED <<asked, creating, mutex, map, allocated, answers>>
    BY DEF ThreadEnds
<1>2. InternTypeOK'
    BY <1>1 DEF InternInv, InternTypeOK, EmptyCache
<1>3. CachesAgree'
    BY <1>1 DEF InternInv, InternTypeOK, CachesAgree, EmptyCache
<1>4. CreatorsHoldMutex' /\ AnswersInMaps'
    BY <1>1 DEF InternInv, CreatorsHoldMutex, AnswersInMaps, IsAnswer
<1>5. KeysUnique' /\ AddressesAllocated' /\ AddressesUnique'
    BY <1>1, MapsKept DEF KeepsMaps
<1>. QED BY <1>2, <1>3, <1>4, <1>5 DEF InternInv

(* What a step does to the invariant if nothing changes: nothing.          *)
LEMMA InternStutters ==
    ASSUME InternInv, UNCHANGED internVars
    PROVE  InternInv'
<1>. USE DEF internVars
<1>1. InternTypeOK' /\ CachesAgree'
    BY DEF InternInv, InternTypeOK, CachesAgree
<1>2. CreatorsHoldMutex' /\ AnswersInMaps'
    BY DEF InternInv, CreatorsHoldMutex, AnswersInMaps, IsAnswer
<1>3. KeysUnique' /\ AddressesAllocated' /\ AddressesUnique'
    BY MapsKept DEF KeepsMaps
<1>. QED BY <1>1, <1>2, <1>3 DEF InternInv

(* The entries of the maps, what the caches hold of them, who creates one  *)
(* and what was answered keep InternInv (ejcMultiprotocolTable,            *)
(* ejcTypeValue).                                                          *)
THEOREM InternInvariant == InternSpec => []InternInv
<1>1. ASSUME InternInv, [InternNext]_internVars PROVE InternInv'
    <2>1. ASSUME NEW p \in Callers, Ask(p) PROVE InternInv'
        BY <1>1, <2>1, TableAsked, ValueAsked DEF Ask
    <2>2. ASSUME NEW p \in Callers, Lookup(p) PROVE InternInv'
        BY <1>1, <2>2, MutexLocked, EntryFound, EntryCreated DEF Lookup
    <2>3. ASSUME NEW p \in Callers, ThreadEnds(p) PROVE InternInv'
        BY <1>1, <2>3, CacheEnds
    <2>4. CASE UNCHANGED internVars
        BY <1>1, <2>4, InternStutters
    <2>. QED BY <1>1, <2>1, <2>2, <2>3, <2>4 DEF InternNext
<1>. QED BY <1>1, InternInitEstablishes, PTL DEF InternSpec

(* Equal questions have the same answer and different ones different       *)
(* answers, whichever threads ask them when, for any threads, conformances,*)
(* descriptions and placement in the caches.                               *)
THEOREM AnswersAgree == InternSpec => []SameAnswerToSameQuestion
BY InternInvariant, UniqueEntriesAgree, PTL

(***************************************************************************)
(* Casts: the comparison of type descriptions (checkGenericArgs)           *)
(*                                                                         *)
(* A position of a description has a height: how many of the descriptions  *)
(* in it have ended before, less those it says are to come.  It rises by   *)
(* one at most per entry, so a description ends where the height first     *)
(* exceeds the one it starts at, which gives what the walks compute        *)
(* (LengthFacts, IndexFacts).  A comparison is an iteration over the stack *)
(* of calls in progress; the invariant says of every call which entries it *)
(* is about, at which height it has to be and that the arguments it has    *)
(* compared are alike (Framed).                                            *)
(***************************************************************************)

\* Numbers have a least one.
LEMMA LeastNumber ==
    ASSUME NEW S \in SUBSET Nat, S # {}
    PROVE  \E x \in S : \A y \in S : x <= y
<1>1. IsWellFoundedOn(OpToRel(<, Nat), Nat)
  BY NatLessThanWellFounded
<1>2. PICK x \in S : \A y \in S : ~(<<y, x>> \in OpToRel(<, Nat))
  BY <1>1, WFMin
<1>3. \A y \in S : ~(y < x)
  BY <1>2 DEF OpToRel
<1>4. QED
  BY <1>3

\* Induction, over the members of a set of numbers.
LEMMA Induct ==
    ASSUME NEW S, 0 \in S, \A n \in Nat : n \in S => n + 1 \in S
    PROVE  \A n \in Nat : n \in S
<1>. DEFINE wrong == {n \in Nat : n \notin S}
<1>1. SUFFICES ASSUME wrong # {} PROVE FALSE
  BY <1>1
<1>2. wrong \in SUBSET Nat
  OBVIOUS
<1>3. PICK x \in wrong : \A y \in wrong : x <= y
  <2>. HIDE DEF wrong
  <2>1. QED
    BY <1>1, <1>2, LeastNumber
<1>4. x \in Nat /\ x \notin S
  OBVIOUS
<1>5. x - 1 \in Nat /\ x = (x - 1) + 1 /\ ~(x <= x - 1)
  <2>1. x # 0
    BY <1>4
  <2>2. QED
    BY <1>4, <2>1
<1>6. x - 1 \in S
  BY <1>3, <1>5
<1>7. QED
  BY <1>4, <1>5, <1>6

(***************************************************************************)
(* The length of a description                                             *)
(***************************************************************************)
CountEquation(memory, arg, n, f) ==
    f = [i \in 0..n |-> IF i = 0 THEN 1 ELSE f[i - 1] + Arguments(memory[arg + i - 1])]

\* The loop of typeDescriptionLength: a function that satisfies its equation exists.
LEMMA CountExists ==
    ASSUME NEW memory, NEW arg
    PROVE  \A n \in Nat : \E f : CountEquation(memory, arg, n, f)
<1>. DEFINE S == {n \in Nat : \E f : CountEquation(memory, arg, n, f)}
<1>1. 0 \in S
  <2>. DEFINE g == [i \in 0..0 |-> 1]
  <2>1. g = [i \in 0..0 |-> IF i = 0 THEN 1 ELSE g[i - 1] + Arguments(memory[arg + i - 1])]
    OBVIOUS
  <2>2. CountEquation(memory, arg, 0, g)
    BY <2>1 DEF CountEquation
  <2>3. QED
    BY <2>2
<1>2. ASSUME NEW n \in Nat, n \in S
      PROVE  n + 1 \in S
  <2>1. PICK f : CountEquation(memory, arg, n, f)
    BY <1>2
  <2>2. \A i \in 0..n : f[i] = IF i = 0 THEN 1 ELSE f[i - 1] + Arguments(memory[arg + i - 1])
    BY <2>1 DEF CountEquation
  <2>. DEFINE g == [i \in 0..(n + 1) |-> IF i = 0 THEN 1 ELSE f[i - 1] + Arguments(memory[arg + i - 1])]
  <2>3. \A i \in 0..n : g[i] = f[i]
    BY <2>2
  <2>4. \A i \in 0..(n + 1) : i # 0 => i - 1 \in 0..n
    OBVIOUS
  <2>5. g = [i \in 0..(n + 1) |-> IF i = 0 THEN 1 ELSE g[i - 1] + Arguments(memory[arg + i - 1])]
    BY <2>3, <2>4
  <2>6. CountEquation(memory, arg, n + 1, g)
    BY <2>5 DEF CountEquation
  <2>7. QED
    BY <2>6
<1>3. \A n \in Nat : n \in S
  <2>. HIDE DEF S
  <2>1. QED
    BY <1>1, <1>2, Induct
<1>4. QED
  BY <1>3

\* So the counts are what the loop computes, one entry after the other.
LEMMA CountFacts ==
    ASSUME NEW memory, Len(memory) \in Nat, NEW arg
    PROVE  /\ EntriesToPass(memory, arg)[0] = 1
           /\ \A i \in 1..Len(memory) : EntriesToPass(memory, arg)[i]
                  = EntriesToPass(memory, arg)[i - 1] + Arguments(memory[arg + i - 1])
<1>. DEFINE number == CHOOSE f : CountEquation(memory, arg, Len(memory), f)
<1>1. \E f : CountEquation(memory, arg, Len(memory), f)
  BY CountExists
<1>2. CountEquation(memory, arg, Len(memory), number)
  BY <1>1
<1>3. EntriesToPass(memory, arg) = number
  BY DEF EntriesToPass, CountEquation
<1>. HIDE DEF number
<1>4. number[0] = 1 /\ \A i \in 1..Len(memory) : number[i] = number[i - 1] + Arguments(memory[arg + i - 1])
  BY <1>2 DEF CountEquation
<1>5. QED
  BY <1>3, <1>4

\* A description is a sequence of entries with numbers of arguments.
LEMMA DescriptionFacts ==
    ASSUME NEW s, IsDescription(s)
    PROVE  /\ s \in Seq(TypeDescription) /\ Len(s) \in Nat /\ DOMAIN s = 1..Len(s)
           /\ \A p \in 1..Len(s) : /\ s[p] \in TypeDescription /\ s[p].rtti \in DOMAIN ParamCount
                                   /\ ParamCount[s[p].rtti] \in Nat /\ ParamOffset[s[p].rtti] \in Nat
                                   /\ Arguments(s[p]) \in Nat
<1>1. s \in Seq(TypeDescription)
  BY DEF IsDescription
<1>2. Len(s) \in Nat /\ DOMAIN s = 1..Len(s) /\ \A p \in 1..Len(s) : s[p] \in TypeDescription
  BY <1>1, LenProperties, ElementOfSeq
<1>3. \A e \in TypeDescription : /\ e.rtti \in DOMAIN ParamCount
                                 /\ ParamCount[e.rtti] \in Nat /\ ParamOffset[e.rtti] \in Nat
                                 /\ Arguments(e) \in Nat
  BY ArgumentsCounted DEF TypeDescription, Arguments
<1>4. QED
  BY <1>1, <1>2, <1>3

\* How many descriptions more have ended before p than were begun, the whole one left out.
Height(s, p) == p - EntriesToPass(s, 1)[p - 1]

\* The height starts at 0, rises by one at most per entry, and is above 0 at the end only.
LEMMA Heights ==
    ASSUME NEW s, IsDescription(s)
    PROVE  /\ Len(s) \in Nat \ {0}
           /\ Height(s, 1) = 0
           /\ Height(s, Len(s) + 1) = 1
           /\ \A p \in 1..(Len(s) + 1) : Height(s, p) \in Int
           /\ \A p \in 1..Len(s) : Height(s, p + 1) = Height(s, p) + 1 - Arguments(s[p])
           /\ \A p \in 1..Len(s) : Height(s, p) <= 0
<1>. DEFINE L == Len(s)
            number == EntriesToPass(s, 1)
<1>1. L \in Nat /\ \A p \in 1..L : Arguments(s[p]) \in Nat
  BY DescriptionFacts
<1>2. number[0] = 1 /\ \A i \in 1..L : number[i] = number[i - 1] + Arguments(s[1 + i - 1])
  BY <1>1, CountFacts
<1>3. number[L] = L /\ \A i \in 1..(L - 1) : number[i] # i
  BY DEF IsDescription
<1>4. \A p : Height(s, p) = p - number[p - 1]
  BY DEF Height
<1>. HIDE DEF number, L
<1>5. L # 0
  BY <1>2, <1>3
<1>. DEFINE S == {i \in Nat : i <= L => number[i] \in Int}
<1>6. \A i \in Nat : i \in S
  <2>1. 0 \in S
    BY <1>2
  <2>2. ASSUME NEW i \in Nat, i \in S
        PROVE  i + 1 \in S
    <3>1. SUFFICES ASSUME i + 1 <= L PROVE number[i + 1] \in Int
      OBVIOUS
    <3>2. i + 1 \in 1..L /\ i + 1 - 1 = i /\ 1 + (i + 1) - 1 = i + 1 /\ i <= L
      BY <1>1, <3>1
    <3>3. number[i + 1] = number[i] + Arguments(s[i + 1])
      BY <1>2, <3>2
    <3>4. number[i] \in Int /\ Arguments(s[i + 1]) \in Nat
      BY <1>1, <2>2, <3>2
    <3>5. QED
      BY <3>3, <3>4
  <2>3. QED
    <3>. HIDE DEF S
    <3>1. QED
      BY <2>1, <2>2, Induct
<1>7. ASSUME NEW p \in 0..L
      PROVE  Height(s, p + 1) = p + 1 - number[p]
  <2>1. PICK m : m = p + 1
    OBVIOUS
  <2>2. m - 1 = p
    BY <1>1, <2>1
  <2>3. Height(s, m) = m - number[m - 1]
    BY <1>4
  <2>4. QED
    BY <1>1, <1>6, <2>1, <2>2, <2>3
<1>8. ASSUME NEW p \in 1..(L + 1)
      PROVE  Height(s, p) \in Int
  <2>1. p - 1 \in Nat /\ p - 1 <= L
    BY <1>1
  <2>2. number[p - 1] \in Int
    BY <1>6, <2>1
  <2>3. QED
    BY <1>1, <1>4, <2>2
<1>9. ASSUME NEW p \in 1..L
      PROVE  Height(s, p + 1) = Height(s, p) + 1 - Arguments(s[p])
  <2>1. p \in Nat /\ p + 1 \in 1..(L + 1) /\ p \in 1..(L + 1) /\ p + 1 - 1 = p /\ 1 + p - 1 = p
        /\ p - 1 \in Nat /\ p - 1 <= L /\ p \in 0..L
    BY <1>1
  <2>2. Height(s, p + 1) = p + 1 - number[p] /\ Height(s, p) = p - number[p - 1]
    BY <1>4, <1>7, <2>1
  <2>3. number[p] = number[p - 1] + Arguments(s[p])
    BY <1>2, <2>1
  <2>4. number[p - 1] \in Int /\ Arguments(s[p]) \in Nat
    BY <1>1, <1>6, <2>1
  <2>5. QED
    BY <2>1, <2>2, <2>3, <2>4
<1>10. Height(s, 1) = 0
  <2>1. 1 \in 1..(L + 1)
    BY <1>1
  <2>2. QED
    BY <1>2, <1>4, <2>1
<1>11. Height(s, L + 1) = 1
  <2>1. L \in 0..L
    BY <1>1
  <2>2. Height(s, L + 1) = L + 1 - number[L]
    BY <1>7, <2>1
  <2>3. QED
    BY <1>1, <1>3, <2>2
<1>. DEFINE T == {i \in Nat : i + 1 <= L => Height(s, i + 1) <= 0}
<1>12. \A i \in Nat : i \in T
  <2>1. 0 \in T
    BY <1>10
  <2>2. ASSUME NEW i \in Nat, i \in T
        PROVE  i + 1 \in T
    <3>1. SUFFICES ASSUME i + 1 + 1 <= L PROVE Height(s, i + 1 + 1) <= 0
      OBVIOUS
    <3>2. i + 1 \in 1..L /\ i + 1 + 1 \in 1..(L + 1) /\ i + 1 \in 1..(L - 1) /\ i + 1 \in 1..(L + 1) /\ i + 1 \in 0..L
          /\ i + 1 <= L /\ i + 1 + 1 - 1 = i + 1 /\ i + 1 \in Nat
      BY <1>1, <3>1
    <3>3. Height(s, i + 1 + 1) = Height(s, i + 1) + 1 - Arguments(s[i + 1])
      BY <1>9, <3>2
    <3>4. Height(s, i + 1) <= 0 /\ Height(s, i + 1) \in Int /\ Arguments(s[i + 1]) \in Nat
      BY <1>1, <1>8, <2>2, <3>2
    <3>5. Height(s, i + 1 + 1) # 1
      <4>1. Height(s, i + 1 + 1) = i + 1 + 1 - number[i + 1]
        BY <1>7, <3>2
      <4>2. number[i + 1] # i + 1 /\ number[i + 1] \in Int
        BY <1>3, <1>6, <3>2
      <4>3. QED
        BY <3>2, <4>1, <4>2
    <3>6. QED
      BY <3>3, <3>4, <3>5
  <2>3. QED
    <3>. HIDE DEF T
    <3>1. QED
      BY <2>1, <2>2, Induct
<1>13. ASSUME NEW p \in 1..L
       PROVE  Height(s, p) <= 0
  <2>1. p - 1 \in Nat /\ p - 1 + 1 = p /\ p <= L
    BY <1>1
  <2>2. QED
    BY <1>12, <2>1
<1>14. QED
  BY <1>1, <1>5, <1>8, <1>9, <1>10, <1>11, <1>13 DEF L

\* Position q is the first from p on at which the height is x.
First(s, p, q, x) ==
    /\ q \in p..(Len(s) + 1) /\ Height(s, q) = x
    /\ \A m \in p..(q - 1) : Height(s, m) < x

\* As it rises by one at most, every height up to the last one is reached.
LEMMA FirstExists ==
    ASSUME NEW s, IsDescription(s), NEW p \in 1..(Len(s) + 1), NEW x \in Int,
           Height(s, p) <= x, x <= 1
    PROVE  \E q : First(s, p, q, x)
<1>. DEFINE L == Len(s)
            reached == {q \in p..(L + 1) : Height(s, q) >= x}
<1>1. L \in Nat \ {0} /\ Height(s, L + 1) = 1
      /\ (\A m \in 1..(L + 1) : Height(s, m) \in Int)
      /\ \A m \in 1..L : Height(s, m + 1) = Height(s, m) + 1 - Arguments(s[m]) /\ Arguments(s[m]) \in Nat
  BY Heights, DescriptionFacts
<1>2. L + 1 \in reached
  BY <1>1
<1>3. PICK q \in reached : \A m \in reached : q <= m
  <2>1. reached \in SUBSET Nat /\ reached # {}
    BY <1>1, <1>2
  <2>. HIDE DEF reached
  <2>2. QED
    BY <2>1, LeastNumber
<1>. HIDE DEF L
<1>4. q \in p..(L + 1) /\ Height(s, q) >= x /\ Height(s, q) \in Int
  BY <1>1 DEF L
<1>5. ASSUME NEW m \in p..(q - 1)
      PROVE  Height(s, m) < x
  <2>1. m \in p..(L + 1) /\ m \in 1..(L + 1) /\ ~(q <= m)
    BY <1>1, <1>4 DEF L
  <2>2. m \notin reached
    BY <1>3, <2>1
  <2>3. ~(Height(s, m) >= x) /\ Height(s, m) \in Int
    BY <1>1, <2>1, <2>2
  <2>4. QED
    BY <2>3
<1>6. Height(s, q) = x
  <2>1. CASE q = p
    BY <1>4, <2>1
  <2>2. CASE q # p
    <3>1. PICK m : m = q - 1
      OBVIOUS
    <3>2. m \in p..(q - 1) /\ m \in 1..L /\ m \in 1..(L + 1) /\ m + 1 = q
      BY <1>1, <1>4, <2>2, <3>1 DEF L
    <3>3. Height(s, m) < x /\ Height(s, m) \in Int /\ Arguments(s[m]) \in Nat
      BY <1>1, <1>5, <3>2
    <3>4. Height(s, q) = Height(s, m) + 1 - Arguments(s[m])
      BY <1>1, <3>2
    <3>5. QED
      BY <1>4, <3>3, <3>4
  <2>3. QED
    BY <2>1, <2>2
<1>7. QED
  BY <1>4, <1>5, <1>6 DEF First, L

\* There is one first position.
LEMMA FirstUnique ==
    ASSUME NEW s, Len(s) \in Nat, NEW p \in Nat, NEW x \in Int, NEW q, First(s, p, q, x), NEW r, First(s, p, r, x)
    PROVE  q = r
<1>1. q \in Int /\ r \in Int /\ Height(s, q) = x /\ Height(s, r) = x
  BY DEF First
<1>2. ~(q < r)
  <2>1. SUFFICES ASSUME q < r PROVE FALSE
    OBVIOUS
  <2>2. q \in p..(r - 1)
    BY <1>1, <2>1 DEF First
  <2>3. Height(s, q) < x
    BY <2>2 DEF First
  <2>4. QED
    BY <1>1, <2>3
<1>3. ~(r < q)
  <2>1. SUFFICES ASSUME r < q PROVE FALSE
    OBVIOUS
  <2>2. r \in p..(q - 1)
    BY <1>1, <2>1 DEF First
  <2>3. Height(s, r) < x
    BY <2>2 DEF First
  <2>4. QED
    BY <1>1, <2>3
<1>4. QED
  BY <1>1, <1>2, <1>3

\* First to x, then from there first to y, is first to y.
LEMMA FirstThen ==
    ASSUME NEW s, IsDescription(s), NEW p \in Nat \ {0}, NEW x \in Int, NEW y \in Int, x <= y,
           NEW q, First(s, p, q, x), NEW r, First(s, q, r, y)
    PROVE  First(s, p, r, y)
<1>1. Len(s) \in Nat /\ q \in p..(Len(s) + 1) /\ r \in q..(Len(s) + 1) /\ Height(s, r) = y
  BY DescriptionFacts DEF First
<1>2. ASSUME NEW m \in p..(r - 1)
      PROVE  Height(s, m) < y
  <2>1. Height(s, m) \in Int
    <3>1. m \in 1..(Len(s) + 1)
      BY <1>1
    <3>2. QED
      BY <3>1, Heights
  <2>2. CASE m < q
    <3>1. m \in p..(q - 1)
      BY <1>1, <2>2
    <3>2. Height(s, m) < x
      BY <3>1 DEF First
    <3>3. QED
      BY <2>1, <3>2
  <2>3. CASE ~(m < q)
    <3>1. m \in q..(r - 1)
      BY <1>1, <2>3
    <3>2. QED
      BY <3>1 DEF First
  <2>4. QED
    BY <2>2, <2>3
<1>3. r \in p..(Len(s) + 1)
  BY <1>1
<1>4. QED
  BY <1>1, <1>2, <1>3 DEF First

\* The description at p ends where the height is one more for the first time.
LEMMA LengthFacts ==
    ASSUME NEW s, IsDescription(s), NEW p \in 1..Len(s), NEW q, First(s, p, q, Height(s, p) + 1)
    PROVE  typeDescriptionLength(s, p) = q - p /\ q \in (p + 1)..(Len(s) + 1)
<1>. DEFINE L == Len(s)
            number == EntriesToPass(s, p)
<1>1. L \in Nat \ {0} /\ (\A m \in 1..(L + 1) : Height(s, m) \in Int)
      /\ \A m \in 1..L : Height(s, m + 1) = Height(s, m) + 1 - Arguments(s[m]) /\ Arguments(s[m]) \in Nat
  BY Heights, DescriptionFacts
<1>2. number[0] = 1 /\ \A i \in 1..L : number[i] = number[i - 1] + Arguments(s[p + i - 1])
  BY <1>1, CountFacts
<1>3. q \in p..(L + 1) /\ Height(s, q) = Height(s, p) + 1 /\ \A m \in p..(q - 1) : Height(s, m) < Height(s, p) + 1
  BY DEF First
<1>4. typeDescriptionLength(s, p) = CHOOSE n \in 1..L : number[n] = n /\ \A i \in 1..(n - 1) : number[i] # i
  BY DEF typeDescriptionLength
<1>. HIDE DEF number
<1>. DEFINE S == {i \in Nat : p + i <= L + 1 => number[i] = i + 1 - Height(s, p + i) + Height(s, p)}
<1>5. p \in 1..L /\ Height(s, p) \in Int
  BY <1>1
<1>. HIDE DEF L
<1>6. \A i \in Nat : i \in S
  <2>1. 0 \in S
    <3>1. p + 0 = p
      BY <1>1, <1>5
    <3>2. QED
      BY <1>2, <1>5, <3>1
  <2>2. ASSUME NEW i \in Nat, i \in S
        PROVE  i + 1 \in S
    <3>1. SUFFICES ASSUME p + (i + 1) <= L + 1
                   PROVE  number[i + 1] = i + 1 + 1 - Height(s, p + (i + 1)) + Height(s, p)
      OBVIOUS
    <3>2. PICK m : m = p + i
      OBVIOUS
    <3>3. m \in 1..L /\ m \in 1..(L + 1) /\ m + 1 = p + (i + 1) /\ m <= L + 1 /\ i + 1 \in 1..L
          /\ p + (i + 1) - 1 = m /\ i + 1 - 1 = i /\ m + 1 \in 1..(L + 1)
      <4>1. L \in Nat /\ p \in Int /\ 1 <= p
        BY <1>1, <1>5
      <4>2. QED
        BY ONLY <3>1, <3>2, <4>1, i \in Nat
    <3>4. number[i] = i + 1 - Height(s, m) + Height(s, p)
      BY <2>2, <3>2, <3>3
    <3>5. number[i + 1] = number[i] + Arguments(s[m])
      BY <1>2, <3>3
    <3>6. Height(s, m + 1) = Height(s, m) + 1 - Arguments(s[m]) /\ Arguments(s[m]) \in Nat
          /\ Height(s, m) \in Int
      BY <1>1, <3>3
    <3>7. number[i + 1] = i + 1 + 1 - Height(s, m + 1) + Height(s, p)
      <4>1. PICK h, k, u, c : h = Height(s, m) /\ k = Height(s, p) /\ u = Arguments(s[m]) /\ c = number[i]
        OBVIOUS
      <4>2. /\ h \in Int /\ k \in Int /\ u \in Nat /\ c = i + 1 - h + k
            /\ Height(s, m + 1) = h + 1 - u /\ number[i + 1] = c + u
        BY <1>5, <3>4, <3>5, <3>6, <4>1
      <4>3. c + u = i + 1 + 1 - (h + 1 - u) + k
        BY ONLY <4>2, i \in Nat
      <4>4. QED
        BY <4>1, <4>2, <4>3
    <3>8. QED
      BY <3>3, <3>7
  <2>3. QED
    <3>. HIDE DEF S
    <3>1. QED
      BY <2>1, <2>2, Induct
<1>7. ASSUME NEW i \in Nat, p + i <= L + 1
      PROVE  number[i] = i <=> Height(s, p + i) = Height(s, p) + 1
  <2>1. number[i] = i + 1 - Height(s, p + i) + Height(s, p)
    BY <1>6, <1>7
  <2>2. p + i \in 1..(L + 1)
    BY <1>1, <1>5, <1>7
  <2>3. Height(s, p + i) \in Int
    BY <1>1, <2>2
  <2>4. QED
    BY <1>5, <2>1, <2>3
<1>8. q # p
  <2>1. SUFFICES ASSUME q = p PROVE FALSE
    OBVIOUS
  <2>2. Height(s, p) = Height(s, p) + 1
    BY <1>3, <2>1
  <2>3. QED
    BY <1>5, <2>2
<1>9. PICK d : d = q - p
  OBVIOUS
<1>10. d \in 1..L /\ p + d = q /\ d \in Nat /\ q \in (p + 1)..(L + 1)
  <2>1. L \in Nat /\ p \in 1..L /\ q \in p..(L + 1)
    BY <1>1, <1>3, <1>5
  <2>2. q \in (p + 1)..(L + 1)
    BY ONLY <1>8, <2>1
  <2>3. p + d = q
    BY ONLY <1>9, <2>1
  <2>4. d \in 1..L /\ d \in Nat
    BY ONLY <1>9, <2>1, <2>2
  <2>5. QED
    BY ONLY <2>2, <2>3, <2>4
<1>11. number[d] = d
  <2>1. d \in Nat /\ p + d <= L + 1
    BY <1>1, <1>10
  <2>2. number[d] = d <=> Height(s, p + d) = Height(s, p) + 1
    BY <1>7, <2>1
  <2>3. QED
    BY <1>3, <1>10, <2>2
<1>12. ASSUME NEW i \in 1..(d - 1)
       PROVE  number[i] # i
  <2>1. PICK m : m = p + i
    OBVIOUS
  <2>2. i \in Nat /\ m <= L + 1 /\ m \in p..(q - 1) /\ m \in 1..(L + 1)
    BY <1>1, <1>3, <1>5, <1>10, <2>1
  <2>3. Height(s, m) < Height(s, p) + 1 /\ Height(s, m) \in Int
    BY <1>1, <1>3, <2>2
  <2>4. Height(s, m) # Height(s, p) + 1
    BY <1>5, <2>3
  <2>5. QED
    BY <1>7, <2>1, <2>2, <2>4
<1>13. ASSUME NEW n \in 1..L, number[n] = n, \A i \in 1..(n - 1) : number[i] # i
       PROVE  n = d
  <2>1. ~(n < d)
    <3>1. n < d => n \in 1..(d - 1)
      BY <1>1, <1>10
    <3>2. QED
      BY <1>12, <1>13, <3>1
  <2>2. ~(d < n)
    <3>1. d < n => d \in 1..(n - 1)
      BY <1>1, <1>10
    <3>2. QED
      BY <1>11, <1>13, <3>1
  <2>3. QED
    BY <1>1, <1>10, <2>1, <2>2
<1>14. typeDescriptionLength(s, p) = d
  <2>. DEFINE Ends(n) == number[n] = n /\ \A i \in 1..(n - 1) : number[i] # i
  <2>1. d \in 1..L /\ Ends(d) /\ \A n \in 1..L : Ends(n) => n = d
    BY <1>10, <1>11, <1>12, <1>13
  <2>2. typeDescriptionLength(s, p) = CHOOSE n \in 1..L : Ends(n)
    BY <1>4
  <2>. HIDE DEF Ends
  <2>3. QED
    BY <2>1, <2>2
<1>15. QED
  BY <1>9, <1>10, <1>14 DEF L

\* An argument after which the description at p does not end is followed by the next.
LEMMA NextArgument ==
    ASSUME NEW s, IsDescription(s), NEW p \in Nat \ {0}, NEW l, NEW x \in Int, First(s, p, l, x), x <= 0
    PROVE  /\ l \in 1..Len(s)
           /\ First(s, l, l + typeDescriptionLength(s, l), x + 1)
           /\ First(s, p, l + typeDescriptionLength(s, l), x + 1)
           /\ l + typeDescriptionLength(s, l) \in (l + 1)..(Len(s) + 1)
<1>1. Len(s) \in Nat \ {0} /\ Height(s, Len(s) + 1) = 1
  BY Heights
<1>2. l \in 1..(Len(s) + 1) /\ Height(s, l) = x
  BY <1>1 DEF First
<1>3. l \in 1..Len(s)
  <2>1. l # Len(s) + 1
    BY <1>1, <1>2
  <2>2. QED
    BY <1>1, <1>2, <2>1
<1>4. PICK q : First(s, l, q, x + 1)
  <2>1. x + 1 \in Int /\ x <= x + 1 /\ x + 1 <= 1
    OBVIOUS
  <2>2. QED
    BY <1>2, <2>1, FirstExists
<1>5. typeDescriptionLength(s, l) = q - l /\ q \in (l + 1)..(Len(s) + 1)
  BY <1>2, <1>3, <1>4, LengthFacts
<1>6. l + typeDescriptionLength(s, l) = q
  BY <1>1, <1>3, <1>5
<1>7. First(s, p, q, x + 1)
  <2>1. x + 1 \in Int /\ x <= x + 1
    OBVIOUS
  <2>2. QED
    BY <1>4, <2>1, FirstThen
<1>8. QED
  BY <1>3, <1>4, <1>5, <1>6, <1>7

WalkEquation(s, arg, n, f) ==
    f = [i \in 0..n |-> IF i = 0 THEN arg ELSE f[i - 1] + typeDescriptionLength(s, f[i - 1])]

\* The walk of ejcIndexTypeDescription: a function that satisfies its equation exists.
LEMMA WalkExists ==
    ASSUME NEW s, NEW arg
    PROVE  \A n \in Nat : \E f : WalkEquation(s, arg, n, f)
<1>. DEFINE S == {n \in Nat : \E f : WalkEquation(s, arg, n, f)}
<1>1. 0 \in S
  <2>. DEFINE g == [i \in 0..0 |-> arg]
  <2>1. g = [i \in 0..0 |-> IF i = 0 THEN arg ELSE g[i - 1] + typeDescriptionLength(s, g[i - 1])]
    OBVIOUS
  <2>2. WalkEquation(s, arg, 0, g)
    BY <2>1 DEF WalkEquation
  <2>3. QED
    BY <2>2
<1>2. ASSUME NEW n \in Nat, n \in S
      PROVE  n + 1 \in S
  <2>1. PICK f : WalkEquation(s, arg, n, f)
    BY <1>2
  <2>2. \A i \in 0..n : f[i] = IF i = 0 THEN arg ELSE f[i - 1] + typeDescriptionLength(s, f[i - 1])
    BY <2>1 DEF WalkEquation
  <2>. DEFINE g == [i \in 0..(n + 1) |-> IF i = 0 THEN arg ELSE f[i - 1] + typeDescriptionLength(s, f[i - 1])]
  <2>3. \A i \in 0..n : g[i] = f[i]
    BY <2>2
  <2>4. \A i \in 0..(n + 1) : i # 0 => i - 1 \in 0..n
    OBVIOUS
  <2>5. g = [i \in 0..(n + 1) |-> IF i = 0 THEN arg ELSE g[i - 1] + typeDescriptionLength(s, g[i - 1])]
    BY <2>3, <2>4
  <2>6. WalkEquation(s, arg, n + 1, g)
    BY <2>5 DEF WalkEquation
  <2>7. QED
    BY <2>6
<1>3. \A n \in Nat : n \in S
  <2>. HIDE DEF S
  <2>1. QED
    BY <1>1, <1>2, Induct
<1>4. QED
  BY <1>3

\* After n arguments of the entry at p.
LEMMA IndexFacts ==
    ASSUME NEW s, IsDescription(s), NEW p \in 1..Len(s), NEW n \in 0..Arguments(s[p])
    PROVE  First(s, p + 1, ejcIndexTypeDescription(s, p + 1, n), Height(s, p + 1) + n)
<1>. DEFINE walk == CHOOSE f : WalkEquation(s, p + 1, n, f)
<1>1. n \in Nat /\ p + 1 \in 1..(Len(s) + 1) /\ p + 1 \in Nat \ {0} /\ Len(s) \in Nat
      /\ Height(s, p + 1) \in Int /\ Height(s, p) \in Int /\ Height(s, p) <= 0 /\ Arguments(s[p]) \in Nat
      /\ Height(s, p + 1) = Height(s, p) + 1 - Arguments(s[p])
  <2>1. Len(s) \in Nat /\ p \in 1..(Len(s) + 1) /\ p + 1 \in 1..(Len(s) + 1) /\ p + 1 \in Nat \ {0}
    BY DescriptionFacts
  <2>2. QED
    BY <2>1, Heights, DescriptionFacts
<1>2. WalkEquation(s, p + 1, n, walk)
  <2>1. \E f : WalkEquation(s, p + 1, n, f)
    BY <1>1, WalkExists
  <2>2. QED
    BY <2>1
<1>3. ejcIndexTypeDescription(s, p + 1, n) = walk[n]
  BY DEF ejcIndexTypeDescription, WalkEquation
<1>. HIDE DEF walk
<1>4. \A i \in 0..n : walk[i] = IF i = 0 THEN p + 1 ELSE walk[i - 1] + typeDescriptionLength(s, walk[i - 1])
  BY <1>2 DEF WalkEquation
<1>. DEFINE S == {i \in Nat : i <= n => First(s, p + 1, walk[i], Height(s, p + 1) + i)}
<1>5. 0 \in S
  <2>1. walk[0] = p + 1 /\ Height(s, p + 1) + 0 = Height(s, p + 1)
    BY <1>1, <1>4
  <2>2. First(s, p + 1, p + 1, Height(s, p + 1))
    BY <1>1 DEF First
  <2>3. QED
    BY <2>1, <2>2
<1>6. ASSUME NEW i \in Nat, i \in S
      PROVE  i + 1 \in S
  <2>1. SUFFICES ASSUME i + 1 <= n
                 PROVE  First(s, p + 1, walk[i + 1], Height(s, p + 1) + (i + 1))
    OBVIOUS
  <2>2. PICK x : x = Height(s, p + 1) + i
    OBVIOUS
  <2>3. x \in Int /\ x <= 0 /\ x + 1 = Height(s, p + 1) + (i + 1)
    <3>1. PICK h, k, u : h = Height(s, p + 1) /\ k = Height(s, p) /\ u = Arguments(s[p])
      OBVIOUS
    <3>2. h = k + 1 - u /\ k \in Int /\ k <= 0 /\ u \in Nat /\ n \in 0..u /\ x = h + i
      BY <1>1, <2>2, <3>1
    <3>3. x \in Int /\ x <= 0 /\ x + 1 = h + (i + 1)
      BY ONLY <2>1, <3>2, i \in Nat
    <3>4. QED
      BY <3>1, <3>3
  <2>4. First(s, p + 1, walk[i], x)
    BY <1>1, <1>6, <2>1, <2>2
  <2>5. First(s, p + 1, walk[i] + typeDescriptionLength(s, walk[i]), x + 1)
    BY <1>1, <2>3, <2>4, NextArgument
  <2>6. i + 1 \in 0..n /\ i + 1 # 0 /\ i + 1 - 1 = i
    BY <1>1, <2>1
  <2>7. walk[i + 1] = walk[i] + typeDescriptionLength(s, walk[i])
    BY <1>4, <2>6
  <2>8. QED
    BY <2>3, <2>5, <2>7
<1>7. \A i \in Nat : i \in S
  <2>. HIDE DEF S
  <2>1. QED
    BY <1>5, <1>6, Induct
<1>8. QED
  BY <1>1, <1>3, <1>7

\* d entries from p on and from q on are the same.
Alike(s, p, u, q, d) == \A m \in 0..(d - 1) : s[p + m] = u[q + m]

\* The entries of a piece.
LEMMA PieceFacts ==
    ASSUME NEW s, IsDescription(s), NEW p \in 1..(Len(s) + 1), NEW l \in p..(Len(s) + 1)
    PROVE  /\ SubSeq(s, p, l - 1) \in Seq(TypeDescription)
           /\ Len(SubSeq(s, p, l - 1)) = l - p
           /\ \A m \in 0..(l - p - 1) : SubSeq(s, p, l - 1)[m + 1] = s[p + m]
<1>1. Len(s) \in Nat /\ \A i \in 1..Len(s) : s[i] \in TypeDescription
  BY DescriptionFacts
<1>2. p \in Int /\ l - 1 \in Int /\ \A i \in p..(l - 1) : s[i] \in TypeDescription
  BY <1>1
<1>3. PICK k : k = l - 1
  OBVIOUS
<1>4. /\ SubSeq(s, p, k) \in Seq(TypeDescription)
      /\ Len(SubSeq(s, p, k)) = IF p <= k THEN k - p + 1 ELSE 0
      /\ \A i \in 1..(k - p + 1) : SubSeq(s, p, k)[i] = s[p + i - 1]
  BY <1>2, <1>3, SubSeqProperties
<1>5. Len(SubSeq(s, p, k)) = l - p
  BY <1>1, <1>3, <1>4
<1>6. ASSUME NEW m \in 0..(l - p - 1)
      PROVE  SubSeq(s, p, k)[m + 1] = s[p + m]
  <2>1. m + 1 \in 1..(k - p + 1) /\ p + (m + 1) - 1 = p + m
    BY <1>1, <1>3
  <2>2. SubSeq(s, p, k)[m + 1] = s[p + (m + 1) - 1]
    BY <1>4, <2>1
  <2>3. QED
    BY <2>1, <2>2
<1>7. QED
  BY <1>3, <1>4, <1>5, <1>6

\* Pieces are equal if they are as long and alike.
LEMMA Pieces ==
    ASSUME NEW s, IsDescription(s), NEW p \in 1..(Len(s) + 1), NEW l \in p..(Len(s) + 1),
           NEW u, IsDescription(u), NEW q \in 1..(Len(u) + 1), NEW r \in q..(Len(u) + 1)
    PROVE  SubSeq(s, p, l - 1) = SubSeq(u, q, r - 1) <=> l - p = r - q /\ Alike(s, p, u, q, l - p)
<1>. DEFINE x == SubSeq(s, p, l - 1)
            y == SubSeq(u, q, r - 1)
<1>1. x \in Seq(TypeDescription) /\ Len(x) = l - p /\ \A m \in 0..(l - p - 1) : x[m + 1] = s[p + m]
  BY PieceFacts
<1>2. y \in Seq(TypeDescription) /\ Len(y) = r - q /\ \A m \in 0..(r - q - 1) : y[m + 1] = u[q + m]
  BY PieceFacts
<1>3. l - p \in Nat /\ r - q \in Nat
  <2>1. Len(s) \in Nat /\ Len(u) \in Nat
    BY DescriptionFacts
  <2>2. QED
    BY <2>1
<1>. HIDE DEF x, y
<1>4. ASSUME x = y
      PROVE  l - p = r - q /\ Alike(s, p, u, q, l - p)
  <2>1. l - p = r - q
    BY <1>1, <1>2, <1>4
  <2>2. PICK d : d = l - p
    OBVIOUS
  <2>3. \A m \in 0..(d - 1) : s[p + m] = u[q + m]
    BY <1>1, <1>2, <1>4, <2>1, <2>2
  <2>4. QED
    BY <2>1, <2>2, <2>3 DEF Alike
<1>5. ASSUME l - p = r - q, Alike(s, p, u, q, l - p)
      PROVE  x = y
  <2>1. PICK d : d = l - p
    OBVIOUS
  <2>2. d \in Nat /\ Len(x) = d /\ Len(y) = d
    BY <1>1, <1>2, <1>3, <1>5, <2>1
  <2>3. \A m \in 0..(d - 1) : x[m + 1] = y[m + 1]
    BY <1>1, <1>2, <1>5, <2>1 DEF Alike
  <2>4. ASSUME NEW i \in 1..Len(x)
        PROVE  x[i] = y[i]
    <3>1. PICK m : m = i - 1
      OBVIOUS
    <3>2. m \in 0..(d - 1) /\ m + 1 = i
      BY <2>2, <3>1
    <3>3. QED
      BY <2>3, <3>2
  <2>5. QED
    BY <1>1, <1>2, <2>2, <2>4, SeqEqual
<1>6. QED
  BY <1>4, <1>5 DEF x, y

\* Pieces that follow each other.
LEMMA AlikeJoined ==
    ASSUME NEW s, NEW u, NEW p \in Int, NEW q \in Int, NEW l \in Int, NEW r \in Int, NEW m \in Int, NEW n \in Int,
           p <= l, l <= m, l - p = r - q, m - l = n - r,
           Alike(s, p, u, q, l - p), Alike(s, l, u, r, m - l)
    PROVE  m - p = n - q /\ Alike(s, p, u, q, m - p)
<1>1. m - p = n - q
  OBVIOUS
<1>2. ASSUME NEW k \in 0..(m - p - 1)
      PROVE  s[p + k] = u[q + k]
  <2>1. CASE k < l - p
    <3>1. k \in 0..(l - p - 1)
      BY <2>1
    <3>2. QED
      BY <3>1 DEF Alike
  <2>2. CASE ~(k < l - p)
    <3>1. PICK j : j = k - (l - p)
      OBVIOUS
    <3>2. j \in 0..(m - l - 1) /\ p + k = l + j /\ q + k = r + j
      BY <2>2, <3>1
    <3>3. s[l + j] = u[r + j]
      BY <3>2 DEF Alike
    <3>4. QED
      BY <3>2, <3>3
  <2>3. QED
    BY <2>1, <2>2
<1>3. QED
  BY <1>1, <1>2 DEF Alike

\* The arguments of the superclass follow from the others.
Follows(a, b) ==
    \A p \in 1..Len(a), q \in 1..Len(b) :
        a[p].rtti = b[q].rtti /\ OwnArguments(a, p) = OwnArguments(b, q)
            => SuperArguments(a, p) = SuperArguments(b, q)

Comparable(a, b) == IsDescription(a) /\ IsDescription(b) /\ Follows(a, b)

(***************************************************************************)
(* A call that compares the arguments of the entries at p and q, which has *)
(* come to l and r and has missing arguments left                          *)
(***************************************************************************)
Starts(s, p, o) == First(s, p + 1, o, Height(s, p) + 1 - ParamCount[s[p].rtti])

\* The own arguments up to l and r are alike.
Passed(a, b, p, q, l, r) ==
    \E i, j : /\ Starts(a, p, i) /\ Starts(b, q, j)
              /\ i <= l /\ l - i = r - j /\ Alike(a, i, b, j, l - i)

Frame(a, b, p, q, call, missing, l, r) ==
    /\ p \in 1..Len(a) /\ q \in 1..Len(b) /\ SameEntry(a[p], b[q])
    /\ First(a, p + 1, l, Height(a, p) + 1 - missing)
    /\ First(b, q + 1, r, Height(b, q) + 1 - missing)
    /\ IF call.offset = 0 THEN Passed(a, b, p, q, l, r) ELSE call.count = ParamCount[a[p].rtti]

\* Where a call is, and at which heights.
LEMMA FramePlaces ==
    ASSUME NEW a, NEW b, Comparable(a, b), NEW p, NEW q, NEW call, NEW missing \in Nat, NEW l, NEW r,
           Frame(a, b, p, q, call, missing, l, r)
    PROVE  /\ p \in 1..Len(a) /\ p + 1 \in Nat \ {0} /\ Height(a, p) \in Int /\ Height(a, p) <= 0
           /\ l \in (p + 1)..(Len(a) + 1) /\ l \in 1..(Len(a) + 1) /\ Height(a, l) = Height(a, p) + 1 - missing
           /\ q \in 1..Len(b) /\ q + 1 \in Nat \ {0} /\ Height(b, q) \in Int /\ Height(b, q) <= 0
           /\ r \in (q + 1)..(Len(b) + 1) /\ r \in 1..(Len(b) + 1) /\ Height(b, r) = Height(b, q) + 1 - missing
           /\ a[p].rtti = b[q].rtti /\ ParamCount[a[p].rtti] \in Nat /\ ParamOffset[a[p].rtti] \in Nat
           /\ Len(a) \in Nat /\ Len(b) \in Nat /\ IsDescription(a) /\ IsDescription(b)
<1>1. IsDescription(a) /\ IsDescription(b) /\ Len(a) \in Nat /\ Len(b) \in Nat
  BY DescriptionFacts DEF Comparable
<1>2. p \in 1..Len(a) /\ q \in 1..Len(b) /\ a[p].rtti = b[q].rtti
  BY DEF Frame, SameEntry
<1>3. p \in 1..(Len(a) + 1) /\ q \in 1..(Len(b) + 1) /\ p + 1 \in Nat \ {0} /\ q + 1 \in Nat \ {0}
  BY <1>1, <1>2
<1>4. Height(a, p) \in Int /\ Height(a, p) <= 0 /\ Height(b, q) \in Int /\ Height(b, q) <= 0
  BY <1>1, <1>2, <1>3, Heights
<1>5. ParamCount[a[p].rtti] \in Nat /\ ParamOffset[a[p].rtti] \in Nat
  BY <1>1, <1>2, DescriptionFacts
<1>6. l \in (p + 1)..(Len(a) + 1) /\ r \in (q + 1)..(Len(b) + 1)
      /\ Height(a, l) = Height(a, p) + 1 - missing /\ Height(b, r) = Height(b, q) + 1 - missing
  BY DEF Frame, First
<1>7. l \in 1..(Len(a) + 1) /\ r \in 1..(Len(b) + 1)
  BY <1>1, <1>3, <1>6
<1>8. QED
  BY <1>1, <1>2, <1>3, <1>4, <1>5, <1>6, <1>7

\* An argument is passed over.
LEMMA FrameSkips ==
    ASSUME NEW a, NEW b, Comparable(a, b), NEW p, NEW q, NEW number \in Nat, NEW offset \in Nat, offset > 0, NEW l, NEW r,
           Frame(a, b, p, q, Call(number, offset), number + offset, l, r)
    PROVE  /\ l \in 1..Len(a) /\ l + typeDescriptionLength(a, l) \in (l + 1)..(Len(a) + 1)
           /\ Frame(a, b, p, q, Call(number, offset - 1), number + (offset - 1),
                    l + typeDescriptionLength(a, l), r + typeDescriptionLength(b, r))
<1>. DEFINE i == l + typeDescriptionLength(a, l)
            j == r + typeDescriptionLength(b, r)
<1>1. number + offset \in Nat /\ number = ParamCount[a[p].rtti]
  BY DEF Frame, Call
<1>2. /\ p \in 1..Len(a) /\ p + 1 \in Nat \ {0} /\ Height(a, p) \in Int /\ Height(a, p) <= 0
      /\ q \in 1..Len(b) /\ q + 1 \in Nat \ {0} /\ Height(b, q) \in Int /\ Height(b, q) <= 0
      /\ a[p].rtti = b[q].rtti
      /\ Len(a) \in Nat /\ Len(b) \in Nat /\ IsDescription(a) /\ IsDescription(b)
  BY <1>1, FramePlaces
<1>3. PICK x, y : x = Height(a, p) + 1 - (number + offset) /\ y = Height(b, q) + 1 - (number + offset)
  OBVIOUS
<1>4. x \in Int /\ x <= 0 /\ y \in Int /\ y <= 0
      /\ x + 1 = Height(a, p) + 1 - (number + (offset - 1)) /\ y + 1 = Height(b, q) + 1 - (number + (offset - 1))
  <2>1. PICK h, k : h = Height(a, p) /\ k = Height(b, q)
    OBVIOUS
  <2>2. h \in Int /\ h <= 0 /\ x = h + 1 - (number + offset) /\ k \in Int /\ k <= 0 /\ y = k + 1 - (number + offset)
    BY <1>2, <1>3, <2>1
  <2>3. x \in Int /\ x <= 0 /\ x + 1 = h + 1 - (number + (offset - 1))
    BY ONLY <2>2, number \in Nat, offset \in Nat, offset > 0
  <2>4. y \in Int /\ y <= 0 /\ y + 1 = k + 1 - (number + (offset - 1))
    BY ONLY <2>2, number \in Nat, offset \in Nat, offset > 0
  <2>5. QED
    BY <2>1, <2>3, <2>4
<1>5. First(a, p + 1, l, x) /\ First(b, q + 1, r, y)
  BY <1>3 DEF Frame
<1>6. l \in 1..Len(a) /\ i \in (l + 1)..(Len(a) + 1) /\ First(a, p + 1, i, x + 1)
  BY <1>2, <1>4, <1>5, NextArgument
<1>7. First(b, q + 1, j, y + 1)
  BY <1>2, <1>4, <1>5, NextArgument
<1>. HIDE DEF i, j
<1>8. ASSUME offset - 1 = 0
      PROVE  Passed(a, b, p, q, i, j)
  <2>1. x + 1 = Height(a, p) + 1 - number /\ y + 1 = Height(b, q) + 1 - number
    BY <1>4, <1>8
  <2>2. Starts(a, p, i) /\ Starts(b, q, j)
    BY <1>1, <1>2, <1>6, <1>7, <2>1 DEF Starts
  <2>3. i \in Int /\ j \in Int
    BY <1>6, <1>7 DEF First
  <2>4. i <= i /\ i - i = j - j /\ Alike(a, i, b, j, i - i)
    BY <2>3 DEF Alike
  <2>5. QED
    BY <2>2, <2>4 DEF Passed
<1>9. Call(number, offset - 1).offset = offset - 1 /\ Call(number, offset - 1).count = number
  BY DEF Call
<1>10. SameEntry(a[p], b[q])
  BY DEF Frame
<1>11. First(a, p + 1, i, Height(a, p) + 1 - (number + (offset - 1)))
       /\ First(b, q + 1, j, Height(b, q) + 1 - (number + (offset - 1)))
  BY <1>4, <1>6, <1>7
<1>12. Frame(a, b, p, q, Call(number, offset - 1), number + (offset - 1), i, j)
  BY <1>1, <1>2, <1>8, <1>9, <1>10, <1>11 DEF Frame
<1>13. QED
  BY <1>6, <1>12 DEF i, j

\* Where the own arguments of an entry begin.
LEMMA OwnArgumentFacts ==
    ASSUME NEW s, IsDescription(s), NEW p \in 1..Len(s), NEW o, Starts(s, p, o)
    PROVE  OwnArgument(s, p) = o /\ o \in (p + 1)..(Len(s) + 1)
<1>1. Len(s) \in Nat /\ ParamCount[s[p].rtti] \in Nat /\ ParamOffset[s[p].rtti] \in Nat
  BY DescriptionFacts
<1>2. Height(s, p) \in Int /\ p + 1 \in Nat
      /\ Height(s, p + 1) = Height(s, p) + 1 - (ParamOffset[s[p].rtti] + ParamCount[s[p].rtti])
  <2>1. p \in 1..(Len(s) + 1)
    BY <1>1
  <2>2. QED
    BY <2>1, Heights DEF Arguments
<1>3. ParamOffset[s[p].rtti] \in 0..Arguments(s[p])
  BY <1>1 DEF Arguments
<1>4. First(s, p + 1, OwnArgument(s, p), Height(s, p + 1) + ParamOffset[s[p].rtti])
  BY <1>3, IndexFacts DEF OwnArgument
<1>5. PICK x : x = Height(s, p) + 1 - ParamCount[s[p].rtti]
  OBVIOUS
<1>6. x \in Int /\ Height(s, p + 1) + ParamOffset[s[p].rtti] = x
  BY <1>1, <1>2, <1>5
<1>7. First(s, p + 1, o, x) /\ First(s, p + 1, OwnArgument(s, p), x)
  BY <1>4, <1>5, <1>6 DEF Starts
<1>8. OwnArgument(s, p) = o
  BY <1>1, <1>2, <1>6, <1>7, FirstUnique
<1>9. o \in (p + 1)..(Len(s) + 1)
  BY <1>7 DEF First
<1>10. QED
  BY <1>8, <1>9

\* Entries of the same type, both optional or not, are the same.
LEMMA SameEntries ==
    ASSUME NEW e \in TypeDescription, NEW f \in TypeDescription, SameEntry(e, f)
    PROVE  e = f
BY DEF TypeDescription, SameEntry

\* Where the entries after p rise above it for the first time the description at p ends.
LEMMA FirstIsEnd ==
    ASSUME NEW s, IsDescription(s), NEW p \in 1..Len(s), NEW l, First(s, p + 1, l, Height(s, p) + 1)
    PROVE  First(s, p, l, Height(s, p) + 1)
<1>1. Len(s) \in Nat /\ Height(s, p) \in Int
  <2>1. Len(s) \in Nat
    BY DescriptionFacts
  <2>2. p \in 1..(Len(s) + 1)
    BY <2>1
  <2>3. QED
    BY <2>1, <2>2, Heights
<1>2. l \in (p + 1)..(Len(s) + 1) /\ l \in p..(Len(s) + 1)
  BY <1>1 DEF First
<1>3. ASSUME NEW m \in p..(l - 1)
      PROVE  Height(s, m) < Height(s, p) + 1
  <2>1. m = p \/ m \in (p + 1)..(l - 1)
    BY <1>1, <1>2
  <2>2. QED
    BY <1>1, <2>1 DEF First
<1>4. QED
  BY <1>2, <1>3 DEF First

\* When all arguments were compared, the entries describe the same type.
LEMMA FrameDone ==
    ASSUME NEW a, NEW b, Comparable(a, b), NEW p, NEW q, NEW call, call.offset = 0, NEW l, NEW r,
           Frame(a, b, p, q, call, 0, l, r)
    PROVE  /\ First(a, p, l, Height(a, p) + 1) /\ First(b, q, r, Height(b, q) + 1)
           /\ l - p = r - q /\ Alike(a, p, b, q, l - p)
<1>1. /\ p \in 1..Len(a) /\ Height(a, p) \in Int /\ l \in (p + 1)..(Len(a) + 1) /\ l \in 1..(Len(a) + 1)
      /\ q \in 1..Len(b) /\ Height(b, q) \in Int /\ r \in (q + 1)..(Len(b) + 1) /\ r \in 1..(Len(b) + 1)
      /\ a[p].rtti = b[q].rtti
      /\ Len(a) \in Nat /\ Len(b) \in Nat /\ IsDescription(a) /\ IsDescription(b)
  BY FramePlaces
<1>2. First(a, p, l, Height(a, p) + 1) /\ First(b, q, r, Height(b, q) + 1)
  <2>1. First(a, p + 1, l, Height(a, p) + 1 - 0) /\ First(b, q + 1, r, Height(b, q) + 1 - 0)
    BY DEF Frame
  <2>2. Height(a, p) + 1 - 0 = Height(a, p) + 1 /\ Height(b, q) + 1 - 0 = Height(b, q) + 1
    BY <1>1
  <2>3. First(a, p + 1, l, Height(a, p) + 1) /\ First(b, q + 1, r, Height(b, q) + 1)
    BY <2>1, <2>2
  <2>4. QED
    BY <1>1, <2>3, FirstIsEnd
<1>3. typeDescriptionLength(a, p) = l - p /\ typeDescriptionLength(b, q) = r - q
  BY <1>1, <1>2, LengthFacts
<1>4. p + typeDescriptionLength(a, p) - 1 = l - 1 /\ q + typeDescriptionLength(b, q) - 1 = r - 1
  BY <1>1, <1>3
<1>5. PICK i, j : /\ Starts(a, p, i) /\ Starts(b, q, j)
                  /\ i <= l /\ l - i = r - j /\ Alike(a, i, b, j, l - i)
  BY DEF Frame, Passed
<1>6. /\ OwnArgument(a, p) = i /\ i \in (p + 1)..(Len(a) + 1)
      /\ OwnArgument(b, q) = j /\ j \in (q + 1)..(Len(b) + 1)
  BY <1>1, <1>5, OwnArgumentFacts
<1>7. /\ i \in 1..(Len(a) + 1) /\ l \in i..(Len(a) + 1) /\ p + 1 \in 1..(Len(a) + 1)
      /\ j \in 1..(Len(b) + 1) /\ r \in j..(Len(b) + 1) /\ q + 1 \in 1..(Len(b) + 1)
  <2>1. PICK c, d : c = Len(a) /\ d = Len(b)
    OBVIOUS
  <2>2. c \in Nat /\ p \in 1..c /\ l \in (p + 1)..(c + 1) /\ i \in (p + 1)..(c + 1) /\ i <= l
    BY <1>1, <1>5, <1>6, <2>1
  <2>3. i \in 1..(c + 1) /\ l \in i..(c + 1) /\ p + 1 \in 1..(c + 1)
    BY ONLY <2>2
  <2>4. d \in Nat /\ q \in 1..d /\ r \in (q + 1)..(d + 1) /\ j \in (q + 1)..(d + 1) /\ l - i = r - j
    BY <1>1, <1>5, <1>6, <2>1
  <2>5. j \in 1..(d + 1) /\ r \in j..(d + 1) /\ q + 1 \in 1..(d + 1)
    BY ONLY <2>2, <2>4
  <2>6. QED
    BY <2>1, <2>3, <2>5
<1>8. OwnArguments(a, p) = SubSeq(a, i, l - 1) /\ OwnArguments(b, q) = SubSeq(b, j, r - 1)
  BY <1>4, <1>6 DEF OwnArguments
<1>9. SubSeq(a, i, l - 1) = SubSeq(b, j, r - 1)
  <2>1. /\ IsDescription(a) /\ i \in 1..(Len(a) + 1) /\ l \in i..(Len(a) + 1)
        /\ IsDescription(b) /\ j \in 1..(Len(b) + 1) /\ r \in j..(Len(b) + 1)
    BY <1>1, <1>7
  <2>2. l - i = r - j /\ Alike(a, i, b, j, l - i)
    BY <1>5
  <2>3. QED
    BY ONLY <2>1, <2>2, Pieces
<1>10. SuperArguments(a, p) = SuperArguments(b, q)
  BY <1>1, <1>8, <1>9 DEF Comparable, Follows
<1>11. SuperArguments(a, p) = SubSeq(a, p + 1, i - 1) /\ SuperArguments(b, q) = SubSeq(b, q + 1, j - 1)
  BY <1>6 DEF SuperArguments
<1>12. SubSeq(a, p + 1, i - 1) = SubSeq(b, q + 1, j - 1)
  BY <1>10, <1>11
<1>13. PICK p1, q1 : p1 = p + 1 /\ q1 = q + 1
  OBVIOUS
<1>14. i - p1 = j - q1 /\ Alike(a, p1, b, q1, i - p1)
  <2>1. /\ p1 \in 1..(Len(a) + 1) /\ i \in p1..(Len(a) + 1)
        /\ q1 \in 1..(Len(b) + 1) /\ j \in q1..(Len(b) + 1)
    BY <1>6, <1>7, <1>13
  <2>2. SubSeq(a, p1, i - 1) = SubSeq(b, q1, j - 1)
    BY <1>12, <1>13
  <2>3. IsDescription(a) /\ IsDescription(b)
    BY <1>1
  <2>4. QED
    BY ONLY <2>1, <2>2, <2>3, Pieces
<1>15. a[p] = b[q]
  <2>1. a[p] \in TypeDescription /\ b[q] \in TypeDescription /\ SameEntry(a[p], b[q])
    BY <1>1, DescriptionFacts DEF Frame
  <2>2. QED
    BY <2>1, SameEntries
<1>16. p1 - p = 1 /\ q1 - q = 1 /\ p1 - p = q1 - q /\ p <= p1 /\ p1 <= i /\ p \in Int /\ q \in Int
       /\ p1 \in Int /\ q1 \in Int /\ i \in Int /\ j \in Int /\ l \in Int /\ r \in Int /\ p <= i
  BY <1>1, <1>6, <1>7, <1>13
<1>17. Alike(a, p, b, q, p1 - p)
  <2>1. \A m \in 0..(1 - 1) : p + m = p /\ q + m = q
    BY <1>16
  <2>2. \A m \in 0..(1 - 1) : a[p + m] = b[q + m]
    BY <1>15, <2>1
  <2>3. QED
    BY <1>16, <2>2 DEF Alike
<1>18. i - p = j - q /\ Alike(a, p, b, q, i - p)
  BY ONLY <1>14, <1>16, <1>17, AlikeJoined
<1>19. l - p = r - q /\ Alike(a, p, b, q, l - p)
  BY ONLY <1>5, <1>16, <1>18, AlikeJoined
<1>20. QED
  BY <1>2, <1>19

\* The arguments that begin at l and r describe the same type, and end at m and n.
LEMMA FrameGoesOn ==
    ASSUME NEW a, NEW b, Comparable(a, b), NEW p, NEW q, NEW call, NEW next, call.offset = 0, next.offset = 0,
           NEW missing \in Nat, NEW l, NEW r, Frame(a, b, p, q, call, missing + 1, l, r),
           NEW m, NEW n, First(a, l, m, Height(a, l) + 1), First(b, r, n, Height(b, r) + 1),
           m - l = n - r, Alike(a, l, b, r, m - l)
    PROVE  Frame(a, b, p, q, next, missing, m, n)
<1>1. missing + 1 \in Nat
  OBVIOUS
<1>2. /\ p \in 1..Len(a) /\ p + 1 \in Nat \ {0} /\ Height(a, p) \in Int
      /\ l \in (p + 1)..(Len(a) + 1) /\ Height(a, l) = Height(a, p) + 1 - (missing + 1)
      /\ q \in 1..Len(b) /\ q + 1 \in Nat \ {0} /\ Height(b, q) \in Int
      /\ r \in (q + 1)..(Len(b) + 1) /\ Height(b, r) = Height(b, q) + 1 - (missing + 1)
      /\ Len(a) \in Nat /\ Len(b) \in Nat /\ IsDescription(a) /\ IsDescription(b)
  BY <1>1, FramePlaces
<1>3. PICK x, y : x = Height(a, l) /\ y = Height(b, r)
  OBVIOUS
<1>4. /\ x \in Int /\ x + 1 \in Int /\ x <= x + 1 /\ x = Height(a, p) + 1 - (missing + 1)
      /\ x + 1 = Height(a, p) + 1 - missing
      /\ y \in Int /\ y + 1 \in Int /\ y <= y + 1 /\ y = Height(b, q) + 1 - (missing + 1)
      /\ y + 1 = Height(b, q) + 1 - missing
  <2>1. PICK h, k : h = Height(a, p) /\ k = Height(b, q)
    OBVIOUS
  <2>2. h \in Int /\ k \in Int /\ x = h + 1 - (missing + 1) /\ y = k + 1 - (missing + 1)
    BY <1>2, <1>3, <2>1
  <2>3. x \in Int /\ x + 1 \in Int /\ x <= x + 1 /\ x + 1 = h + 1 - missing
    BY ONLY <2>2, missing \in Nat
  <2>4. y \in Int /\ y + 1 \in Int /\ y <= y + 1 /\ y + 1 = k + 1 - missing
    BY ONLY <2>2, missing \in Nat
  <2>5. QED
    BY <2>1, <2>2, <2>3, <2>4
<1>5. First(a, p + 1, l, x) /\ First(b, q + 1, r, y)
  BY <1>4 DEF Frame
<1>6. First(a, l, m, x + 1) /\ First(b, r, n, y + 1)
  BY <1>3
<1>7. First(a, p + 1, m, x + 1) /\ First(b, q + 1, n, y + 1)
  <2>1. PICK v, w : v = x + 1 /\ w = y + 1
    OBVIOUS
  <2>2. v \in Int /\ w \in Int /\ x <= v /\ y <= w
    BY <1>4, <2>1
  <2>3. First(a, l, m, v) /\ First(b, r, n, w)
    BY <1>6, <2>1
  <2>4. First(a, p + 1, m, v)
    <3>1. PICK c : c = p + 1
      OBVIOUS
    <3>2. IsDescription(a) /\ c \in Nat \ {0} /\ x \in Int /\ First(a, c, l, x)
      BY <1>2, <1>4, <1>5, <3>1
    <3>3. First(a, c, m, v)
      BY ONLY <2>2, <2>3, <3>2, FirstThen
    <3>4. QED
      BY <3>1, <3>3
  <2>5. First(b, q + 1, n, w)
    <3>1. PICK c : c = q + 1
      OBVIOUS
    <3>2. IsDescription(b) /\ c \in Nat \ {0} /\ y \in Int /\ First(b, c, r, y)
      BY <1>2, <1>4, <1>5, <3>1
    <3>3. First(b, c, n, w)
      BY ONLY <2>2, <2>3, <3>2, FirstThen
    <3>4. QED
      BY <3>1, <3>3
  <2>6. QED
    BY <2>1, <2>4, <2>5
<1>8. PICK i, j : /\ Starts(a, p, i) /\ Starts(b, q, j)
                  /\ i <= l /\ l - i = r - j /\ Alike(a, i, b, j, l - i)
  BY DEF Frame, Passed
<1>9. l \in Int /\ r \in Int /\ m \in Int /\ n \in Int /\ i \in Int /\ j \in Int /\ l <= m
  BY <1>2, <1>6, <1>8 DEF First, Starts
<1>10. m - i = n - j /\ Alike(a, i, b, j, m - i)
  BY <1>8, <1>9, AlikeJoined
<1>11. i <= m
  BY <1>8, <1>9
<1>12. Passed(a, b, p, q, m, n)
  BY <1>8, <1>10, <1>11 DEF Passed
<1>13. SameEntry(a[p], b[q])
  BY DEF Frame
<1>14. QED
  BY <1>2, <1>4, <1>7, <1>12, <1>13 DEF Frame

\* A call begins.
LEMMA FrameBegins ==
    ASSUME NEW a, NEW b, Comparable(a, b), NEW p \in 1..Len(a), NEW q \in 1..Len(b), SameEntry(a[p], b[q])
    PROVE  Frame(a, b, p, q, Call(ParamCount[a[p].rtti], ParamOffset[a[p].rtti]),
                 ParamCount[a[p].rtti] + ParamOffset[a[p].rtti], p + 1, q + 1)
<1>. DEFINE number == ParamCount[a[p].rtti]
            offset == ParamOffset[a[p].rtti]
<1>1. /\ IsDescription(a) /\ IsDescription(b) /\ Len(a) \in Nat /\ Len(b) \in Nat
      /\ number \in Nat /\ offset \in Nat /\ a[p].rtti = b[q].rtti
  BY DescriptionFacts DEF Comparable, SameEntry
<1>2. /\ Height(a, p) \in Int /\ p + 1 \in (p + 1)..(Len(a) + 1)
      /\ Height(a, p + 1) = Height(a, p) + 1 - (offset + number)
      /\ Height(b, q) \in Int /\ q + 1 \in (q + 1)..(Len(b) + 1)
      /\ Height(b, q + 1) = Height(b, q) + 1 - (offset + number)
  <2>1. p \in 1..(Len(a) + 1) /\ q \in 1..(Len(b) + 1)
        /\ p + 1 \in (p + 1)..(Len(a) + 1) /\ q + 1 \in (q + 1)..(Len(b) + 1)
    BY <1>1
  <2>2. Arguments(a[p]) = offset + number /\ Arguments(b[q]) = offset + number
    BY <1>1 DEF Arguments
  <2>3. QED
    BY <1>1, <2>1, <2>2, Heights
<1>3. SameEntry(a[p], b[q]) /\ ParamCount[b[q].rtti] = number
  BY <1>1
<1>. HIDE DEF number, offset
<1>4. First(a, p + 1, p + 1, Height(a, p) + 1 - (number + offset))
  <2>1. Height(a, p + 1) = Height(a, p) + 1 - (number + offset)
    BY <1>1, <1>2
  <2>2. \A m \in (p + 1)..(p + 1 - 1) : FALSE
    OBVIOUS
  <2>3. QED
    BY <1>2, <2>1, <2>2 DEF First
<1>5. First(b, q + 1, q + 1, Height(b, q) + 1 - (number + offset))
  <2>1. Height(b, q + 1) = Height(b, q) + 1 - (number + offset)
    BY <1>1, <1>2
  <2>2. \A m \in (q + 1)..(q + 1 - 1) : FALSE
    OBVIOUS
  <2>3. QED
    BY <1>2, <2>1, <2>2 DEF First
<1>6. ASSUME offset = 0
      PROVE  Passed(a, b, p, q, p + 1, q + 1)
  <2>1. PICK i, j : i = p + 1 /\ j = q + 1
    OBVIOUS
  <2>2. number + offset = number
    BY <1>1, <1>6
  <2>3. Starts(a, p, i) /\ Starts(b, q, j)
    BY <1>3, <1>4, <1>5, <2>1, <2>2 DEF Starts, number
  <2>4. i <= i /\ i - i = j - j /\ Alike(a, i, b, j, i - i)
    BY <2>1 DEF Alike
  <2>5. Passed(a, b, p, q, i, j)
    BY <2>3, <2>4 DEF Passed
  <2>6. QED
    BY <2>1, <2>5
<1>7. Call(number, offset).offset = offset /\ Call(number, offset).count = number
  BY DEF Call
<1>8. Frame(a, b, p, q, Call(number, offset), number + offset, p + 1, q + 1)
  <2>1. IF Call(number, offset).offset = 0 THEN Passed(a, b, p, q, p + 1, q + 1)
        ELSE Call(number, offset).count = ParamCount[a[p].rtti]
    BY <1>6, <1>7 DEF number
  <2>2. QED
    BY <1>3, <1>4, <1>5, <2>1 DEF Frame
<1>9. QED
  BY <1>8 DEF number, offset

(***************************************************************************)
(* The walk of a comparison                                                *)
(***************************************************************************)
Calls == [count : Nat, offset : Nat]
Check(l, r, calls, same) == [l |-> l, r |-> r, calls |-> calls, same |-> same]

Ended(l, r) == Check(l, r, <<>>, FALSE)

\* What the j-th call has left, the argument an inner call is about included.
Missing(calls, j) == calls[j].count + calls[j].offset + (IF j < Len(calls) THEN 1 ELSE 0)

\* The j-th call is about the entries at P[j] and Q[j] and has come to P[j + 1] and Q[j + 1].
Frames(a, b, calls, P, Q, n) ==
    \A j \in 2..n : Frame(a, b, P[j], Q[j], calls[j], Missing(calls, j), P[j + 1], Q[j + 1])

Framed(a, b, l, r, calls, P, Q) ==
    LET n == Len(calls)
    IN  /\ P[n + 1] = l /\ Q[n + 1] = r
        /\ Frames(a, b, calls, P, Q, n)
        /\ \A j \in 2..(n - 1) : calls[j].offset = 0
        /\ n > 1 => calls[1] = Call(0, 0) /\ P[2] = 1 /\ Q[2] = 1
        /\ n = 1 => \/ calls[1] = Call(1, 0) /\ l = 1 /\ r = 1
                    \/ calls[1] = Call(0, 0) /\ a = b

InFrames(a, b, l, r, calls) == \E P, Q : Framed(a, b, l, r, calls, P, Q)

WalkInv(a, b, w) ==
    /\ w = Check(w.l, w.r, w.calls, w.same)
    /\ w.calls \in Seq(Calls) /\ w.l \in 1..(Len(a) + 1)
    /\ ~w.same => w.calls = <<>>
    /\ w.same => IF w.calls = <<>> THEN a = b ELSE InFrames(a, b, w.l, w.r, w.calls)

Effort(a, w) == 2 * (Len(a) + 1 - w.l) + Len(w.calls)

\* The places after a step: the outer calls are where they were.
Moved(P, n, l) == [j \in 2..(n + 1) |-> IF j = n + 1 THEN l ELSE P[j]]

Agree(P, Q, n) == \A j \in 2..n : P[j] = Q[j]

\* The place of the last call moved, the others did not.
LEMMA MovedFacts ==
    ASSUME NEW P, NEW n \in Nat \ {0}, NEW l
    PROVE  Moved(P, n, l)[n + 1] = l /\ Agree(Moved(P, n, l), P, n)
<1>1. n + 1 \in 2..(n + 1)
  OBVIOUS
<1>2. \A j \in 2..n : j \in 2..(n + 1) /\ j # n + 1
  OBVIOUS
<1>3. QED
  BY <1>1, <1>2 DEF Moved, Agree

\* A call is made of its two numbers.
LEMMA CallFacts ==
    ASSUME NEW call \in Calls
    PROVE  /\ call.count \in Nat /\ call.offset \in Nat /\ call = Call(call.count, call.offset)
           /\ \A number, offset \in Nat : Call(number, offset) \in Calls
BY DEF Calls, Call

\* And says them.
LEMMA CallFields ==
    ASSUME NEW number, NEW offset
    PROVE  Call(number, offset).count = number /\ Call(number, offset).offset = offset
BY DEF Call

\* Of any two numbers.
LEMMA CallsMade ==
    ASSUME NEW c \in Nat, NEW offset \in Nat
    PROVE  Call(c, offset) \in Calls /\ Call(c, offset).count = c /\ Call(c, offset).offset = offset
BY DEF Calls, Call

\* A sequence of calls.
LEMMA CallsFacts ==
    ASSUME NEW calls \in Seq(Calls)
    PROVE  /\ Len(calls) \in Nat /\ calls = <<>> <=> Len(calls) = 0
           /\ \A j \in 1..Len(calls) : calls[j] \in Calls
BY LenProperties, ElementOfSeq, EmptySeq

\* The last call, and what a step makes of it.
LastCall(calls, n, call) == n = Len(calls) /\ n > 0 /\ call = calls[n]

Skips(a, b, l, r, calls, n, call, l2, r2, calls2) ==
    /\ call.offset > 0
    /\ l2 = l + typeDescriptionLength(a, l) /\ r2 = r + typeDescriptionLength(b, r)
    /\ calls2 = [calls EXCEPT ![n] = Call(call.count, call.offset - 1)]

Returns(calls, n, call, calls2) ==
    ~(call.offset > 0) /\ call.count = 0 /\ calls2 = SubSeq(calls, 1, n - 1)

Differs(a, b, l, r, call) == ~(call.offset > 0) /\ call.count # 0 /\ ~SameEntry(a[l], b[r])

Enters(a, b, l, r, calls, n, call, inner, calls2) ==
    /\ ~(call.offset > 0) /\ call.count # 0 /\ SameEntry(a[l], b[r])
    /\ inner = Call(ParamCount[a[l].rtti], ParamOffset[a[l].rtti])
    /\ calls2 = Append([calls EXCEPT ![n] = Call(call.count - 1, 0)], inner)

\* A step that passes an argument of the superclass over.
LEMMA StepSkips ==
    ASSUME NEW a, NEW b, NEW l, NEW r, NEW calls, NEW same, NEW w, w = Check(l, r, calls, same),
           NEW n, NEW call, LastCall(calls, n, call),
           NEW l2, NEW r2, NEW calls2, Skips(a, b, l, r, calls, n, call, l2, r2, calls2)
    PROVE  CheckStep(a, b, w) = Check(l2, r2, calls2, same)
BY DEF CheckStep, Check, LastCall, Skips

\* A step that ends a call.
LEMMA StepReturns ==
    ASSUME NEW a, NEW b, NEW l, NEW r, NEW calls, NEW same, NEW w, w = Check(l, r, calls, same),
           NEW n, NEW call, LastCall(calls, n, call),
           NEW calls2, Returns(calls, n, call, calls2)
    PROVE  CheckStep(a, b, w) = Check(l, r, calls2, same)
BY DEF CheckStep, Check, LastCall, Returns

\* A step that compares two entries that are the same, and calls for their arguments.
LEMMA StepEnters ==
    ASSUME NEW a, NEW b, NEW l, NEW r, NEW calls, NEW same, NEW w, w = Check(l, r, calls, same),
           NEW n, NEW call, LastCall(calls, n, call),
           NEW inner, NEW calls2, Enters(a, b, l, r, calls, n, call, inner, calls2)
    PROVE  CheckStep(a, b, w) = Check(l + 1, r + 1, calls2, same)
BY DEF CheckStep, Check, LastCall, Enters

\* A step that finds entries that differ.
LEMMA StepDiffers ==
    ASSUME NEW a, NEW b, NEW l, NEW r, NEW calls, NEW same, NEW w, w = Check(l, r, calls, same),
           NEW n, NEW call, LastCall(calls, n, call),
           Differs(a, b, l, r, call)
    PROVE  CheckStep(a, b, w) = Ended(l, r)
BY DEF CheckStep, Check, LastCall, Differs, Ended

\* What a call has left is a number.
LEMMA MissingFacts ==
    ASSUME NEW calls \in Seq(Calls), NEW j \in 1..Len(calls)
    PROVE  /\ Missing(calls, j) \in Nat /\ calls[j] \in Calls
           /\ calls[j].count \in Nat /\ calls[j].offset \in Nat /\ calls[j] = Call(calls[j].count, calls[j].offset)
<1>1. calls[j] \in Calls
  BY CallsFacts
<1>2. calls[j].count \in Nat /\ calls[j].offset \in Nat /\ calls[j] = Call(calls[j].count, calls[j].offset)
  BY <1>1, CallFacts
<1>3. QED
  BY <1>1, <1>2 DEF Missing

\* The calls but the last are where they were.
LEMMA OuterFrames ==
    ASSUME NEW a, NEW b, NEW calls \in Seq(Calls), NEW calls2 \in Seq(Calls), NEW P, NEW Q, NEW P2, NEW Q2,
           NEW n \in Nat, n <= Len(calls), n <= Len(calls2), Frames(a, b, calls, P, Q, n),
           Agree(P2, P, n), Agree(Q2, Q, n), Agree(calls2, calls, n - 1)
    PROVE  Frames(a, b, calls2, P2, Q2, n - 1)
<1>. SUFFICES ASSUME NEW j \in 2..(n - 1)
              PROVE  Frame(a, b, P2[j], Q2[j], calls2[j], Missing(calls2, j), P2[j + 1], Q2[j + 1])
  BY DEF Frames
<1>1. j \in 2..n /\ j + 1 \in 2..n /\ j \in Nat /\ j < Len(calls) /\ j < Len(calls2)
  BY CallsFacts
<1>2. P2[j] = P[j] /\ Q2[j] = Q[j] /\ P2[j + 1] = P[j + 1] /\ Q2[j + 1] = Q[j + 1] /\ calls2[j] = calls[j]
  BY <1>1 DEF Agree
<1>3. Missing(calls2, j) = Missing(calls, j)
  BY <1>1, <1>2 DEF Missing
<1>4. Frame(a, b, P[j], Q[j], calls[j], Missing(calls, j), P[j + 1], Q[j + 1])
  BY <1>1 DEF Frames
<1>5. QED
  BY <1>2, <1>3, <1>4

\* And the last one is where it should be.
LEMMA AllFrames ==
    ASSUME NEW a, NEW b, NEW calls, NEW P, NEW Q, NEW n \in Nat, Frames(a, b, calls, P, Q, n - 1),
           n > 1 => Frame(a, b, P[n], Q[n], calls[n], Missing(calls, n), P[n + 1], Q[n + 1])
    PROVE  Frames(a, b, calls, P, Q, n)
<1>1. ASSUME NEW j \in 2..n
      PROVE  Frame(a, b, P[j], Q[j], calls[j], Missing(calls, j), P[j + 1], Q[j + 1])
  <2>1. CASE j = n
    <3>1. n > 1
      BY <2>1
    <3>2. QED
      BY <2>1, <3>1
  <2>2. CASE j # n
    <3>1. j \in 2..(n - 1)
      BY <2>2
    <3>2. QED
      BY <3>1 DEF Frames
  <2>3. QED
    BY <2>1, <2>2
<1>2. QED
  BY <1>1 DEF Frames

\* Passing an argument over, the calls stay where they should be, and get ahead.
LEMMA SkipKeeps ==
    ASSUME NEW a, NEW b, Comparable(a, b), NEW l, NEW r, NEW calls \in Seq(Calls), NEW P, NEW Q,
           Framed(a, b, l, r, calls, P, Q), NEW n, NEW call, LastCall(calls, n, call),
           NEW l2, NEW r2, NEW calls2, Skips(a, b, l, r, calls, n, call, l2, r2, calls2)
    PROVE  /\ l \in 1..Len(a) /\ l2 \in (l + 1)..(Len(a) + 1) /\ calls2 \in Seq(Calls) /\ Len(calls2) = n
           /\ Framed(a, b, l2, r2, calls2, Moved(P, n, l2), Moved(Q, n, r2))
<1>. /\ n = Len(calls) /\ n > 0 /\ call = calls[n] /\ call.offset > 0
     /\ l2 = l + typeDescriptionLength(a, l) /\ r2 = r + typeDescriptionLength(b, r)
     /\ calls2 = [calls EXCEPT ![n] = Call(call.count, call.offset - 1)]
  BY DEF LastCall, Skips
<1>1. n \in Nat \ {0} /\ n \in 1..n /\ call \in Calls /\ call.count \in Nat /\ call.offset \in Nat
      /\ call = Call(call.count, call.offset) /\ call.offset - 1 \in Nat
  BY CallsFacts, CallFacts
<1>2. PICK next : next = Call(call.count, call.offset - 1)
  OBVIOUS
<1>3. next \in Calls /\ next.count = call.count /\ next.offset = call.offset - 1
  BY <1>1, <1>2, CallFacts, CallFields
<1>4. calls2 \in Seq(Calls) /\ Len(calls2) = n /\ \A j \in 1..n : calls2[j] = IF j = n THEN next ELSE calls[j]
  BY <1>1, <1>2, <1>3, ExceptSeq
<1>5. n # 1
  <2>1. SUFFICES ASSUME n = 1 PROVE FALSE
    OBVIOUS
  <2>2. call = Call(1, 0) \/ call = Call(0, 0)
    BY <2>1 DEF Framed
  <2>3. call.offset = 0
    BY <2>2, CallFields
  <2>4. QED
    BY <2>3
<1>6. n \in 2..n /\ n > 1 /\ 1 \in 1..n /\ 1 # n
  BY <1>1, <1>5
<1>7. Missing(calls, n) = call.count + call.offset /\ Missing(calls2, n) = next.count + next.offset
  BY <1>1, <1>3, <1>4 DEF Missing
<1>8. P[n + 1] = l /\ Q[n + 1] = r
  BY DEF Framed
<1>9. Frame(a, b, P[n], Q[n], Call(call.count, call.offset), call.count + call.offset, l, r)
  BY <1>1, <1>6, <1>7, <1>8 DEF Framed, Frames
<1>10. /\ l \in 1..Len(a) /\ l2 \in (l + 1)..(Len(a) + 1)
       /\ Frame(a, b, P[n], Q[n], Call(call.count, call.offset - 1), call.count + (call.offset - 1), l2, r2)
  BY <1>1, <1>9, FrameSkips
<1>11. Frame(a, b, P[n], Q[n], next, Missing(calls2, n), l2, r2)
  BY <1>2, <1>3, <1>7, <1>10
<1>12. PICK P2, Q2 : P2 = Moved(P, n, l2) /\ Q2 = Moved(Q, n, r2)
  OBVIOUS
<1>13. P2[n + 1] = l2 /\ Q2[n + 1] = r2 /\ Agree(P2, P, n) /\ Agree(Q2, Q, n)
  BY <1>1, <1>12, MovedFacts
<1>14. Agree(calls2, calls, n - 1)
  <2>1. \A j \in 2..(n - 1) : j \in 1..n /\ j # n
    BY <1>1
  <2>2. QED
    BY <1>4, <2>1 DEF Agree
<1>15. Frames(a, b, calls2, P2, Q2, n - 1)
  <2>1. Frames(a, b, calls, P, Q, n) /\ n <= Len(calls) /\ n <= Len(calls2) /\ n \in Nat
    BY <1>1, <1>4 DEF Framed
  <2>2. QED
    BY <1>4, <1>13, <1>14, <2>1, OuterFrames
<1>16. Frame(a, b, P2[n], Q2[n], calls2[n], Missing(calls2, n), P2[n + 1], Q2[n + 1])
  BY <1>1, <1>4, <1>6, <1>11, <1>13 DEF Agree
<1>17. Frames(a, b, calls2, P2, Q2, n)
  BY <1>1, <1>15, <1>16, AllFrames
<1>18. \A j \in 2..(n - 1) : calls2[j].offset = 0
  BY <1>14 DEF Framed, Agree
<1>19. calls2[1] = Call(0, 0) /\ P2[2] = 1 /\ Q2[2] = 1
  <2>1. calls[1] = Call(0, 0) /\ P[2] = 1 /\ Q[2] = 1
    BY <1>6 DEF Framed
  <2>2. 2 \in 2..n
    BY <1>1, <1>5
  <2>3. QED
    BY <1>4, <1>6, <1>13, <2>1, <2>2 DEF Agree
<1>20. Framed(a, b, l2, r2, calls2, P2, Q2)
  BY <1>4, <1>5, <1>13, <1>17, <1>18, <1>19 DEF Framed
<1>21. QED
  BY <1>4, <1>10, <1>12, <1>20

\* A description that is alike from beginning to end is the same.
LEMMA AlikeWhole ==
    ASSUME NEW a, NEW b, Comparable(a, b), NEW l, NEW r, First(a, 1, l, Height(a, 1) + 1),
           First(b, 1, r, Height(b, 1) + 1), l - 1 = r - 1, Alike(a, 1, b, 1, l - 1)
    PROVE  a = b
<1>1. /\ IsDescription(a) /\ IsDescription(b)
      /\ a \in Seq(TypeDescription) /\ b \in Seq(TypeDescription)
      /\ Len(a) \in Nat /\ Len(b) \in Nat
  BY DescriptionFacts DEF Comparable
<1>2. /\ l \in 1..(Len(a) + 1) /\ Height(a, l) = 1
      /\ r \in 1..(Len(b) + 1) /\ Height(b, r) = 1
  <2>1. Height(a, 1) = 0 /\ Height(b, 1) = 0
    BY <1>1, Heights
  <2>2. QED
    BY <2>1 DEF First
<1>3. l = Len(a) + 1
  <2>1. SUFFICES ASSUME l \in 1..Len(a) PROVE FALSE
    BY <1>1, <1>2
  <2>2. Height(a, l) <= 0
    BY <1>1, <2>1, Heights
  <2>3. QED
    BY <1>2, <2>2
<1>4. r = Len(b) + 1
  <2>1. SUFFICES ASSUME r \in 1..Len(b) PROVE FALSE
    BY <1>1, <1>2
  <2>2. Height(b, r) <= 0
    BY <1>1, <2>1, Heights
  <2>3. QED
    BY <1>2, <2>2
<1>5. Len(a) = Len(b) /\ l - 1 = Len(a)
  BY <1>1, <1>3, <1>4
<1>6. ASSUME NEW i \in 1..Len(a)
      PROVE  a[i] = b[i]
  <2>1. PICK m : m = i - 1
    OBVIOUS
  <2>2. m \in 0..(Len(a) - 1) /\ 1 + m = i
    BY <1>1, <2>1
  <2>3. a[1 + m] = b[1 + m]
    BY <1>5, <2>2 DEF Alike
  <2>4. QED
    BY <2>2, <2>3
<1>7. QED
  BY <1>1, <1>5, <1>6, SeqEqual

\* When a call has ended the outer one is where it should be, or the descriptions are the same.
LEMMA CallReturns ==
    ASSUME NEW a, NEW b, Comparable(a, b), NEW l, NEW r, NEW calls \in Seq(Calls), NEW P, NEW Q,
           Framed(a, b, l, r, calls, P, Q), NEW n, NEW call, LastCall(calls, n, call),
           NEW calls2, Returns(calls, n, call, calls2)
    PROVE  /\ calls2 \in Seq(Calls) /\ Len(calls2) = n - 1
           /\ n = 1 => a = b
           /\ n > 1 => Framed(a, b, l, r, calls2, Moved(P, n - 1, l), Moved(Q, n - 1, r))
<1>. /\ n = Len(calls) /\ n > 0 /\ call = calls[n] /\ ~(call.offset > 0) /\ call.count = 0
     /\ calls2 = SubSeq(calls, 1, n - 1)
  BY DEF LastCall, Returns
<1>1. n \in Nat \ {0} /\ n \in 1..n /\ call \in Calls /\ call.offset = 0 /\ call = Call(0, 0)
      /\ \A j \in 1..n : calls[j] \in Calls
  BY CallsFacts, CallFacts
<1>2. calls2 \in Seq(Calls) /\ Len(calls2) = n - 1 /\ \A j \in 1..(n - 1) : calls2[j] = calls[j]
  <2>1. PICK k : k = n - 1
    OBVIOUS
  <2>2. k \in Int /\ 1 \in Int /\ \A j \in 1..k : calls[j] \in Calls
    BY <1>1, <2>1
  <2>3. /\ SubSeq(calls, 1, k) \in Seq(Calls)
        /\ Len(SubSeq(calls, 1, k)) = IF 1 <= k THEN k - 1 + 1 ELSE 0
        /\ \A j \in 1..(k - 1 + 1) : SubSeq(calls, 1, k)[j] = calls[1 + j - 1]
    BY ONLY <2>2, SubSeqProperties
  <2>4. k \in Nat /\ k - 1 + 1 = k
    BY <1>1, <2>1
  <2>5. Len(SubSeq(calls, 1, k)) = k
    BY <2>3, <2>4
  <2>6. \A j \in 1..k : SubSeq(calls, 1, k)[j] = calls[j]
    <3>1. \A j \in 1..k : 1 + j - 1 = j
      OBVIOUS
    <3>2. QED
      BY <2>3, <2>4, <3>1
  <2>7. QED
    BY <2>1, <2>3, <2>5, <2>6
<1>3. ASSUME n = 1
      PROVE  a = b
  <2>1. calls[1] # Call(1, 0)
    <3>1. Call(1, 0).count = 1
      BY CallFields
    <3>2. QED
      BY <1>3, <3>1
  <2>2. QED
    BY <1>3, <2>1 DEF Framed
<1>4. ASSUME n > 1
      PROVE  Framed(a, b, l, r, calls2, Moved(P, n - 1, l), Moved(Q, n - 1, r))
  <2>1. PICK k : k = n - 1
    OBVIOUS
  <2>2. k \in Nat \ {0} /\ k + 1 = n /\ k < n /\ n \in 2..n /\ k \in 1..k /\ k \in 1..n /\ 1 \in 1..k
    BY <1>1, <1>4, <2>1
  <2>3. Frame(a, b, P[n], Q[n], call, 0, l, r)
    <3>1. Missing(calls, n) = 0
      BY <1>1 DEF Missing
    <3>2. QED
      BY <2>2, <3>1 DEF Framed, Frames
  <2>4. /\ First(a, P[n], l, Height(a, P[n]) + 1) /\ First(b, Q[n], r, Height(b, Q[n]) + 1)
        /\ l - P[n] = r - Q[n] /\ Alike(a, P[n], b, Q[n], l - P[n])
    BY <1>1, <2>3, FrameDone
  <2>5. PICK P2, Q2 : P2 = Moved(P, k, l) /\ Q2 = Moved(Q, k, r)
    OBVIOUS
  <2>6. P2[n] = l /\ Q2[n] = r /\ Agree(P2, P, k) /\ Agree(Q2, Q, k)
    BY <2>2, <2>5, MovedFacts
  <2>7. Len(calls2) = k /\ \A j \in 1..k : calls2[j] = calls[j]
    BY <1>2, <2>1
  <2>8. Frames(a, b, calls2, P2, Q2, k - 1)
    <3>1. Agree(calls2, calls, k - 1)
      <4>1. \A j \in 2..(k - 1) : j \in 1..k
        BY <2>2
      <4>2. QED
        BY <2>7, <4>1 DEF Agree
    <3>2. Frames(a, b, calls, P, Q, k)
      <4>1. \A j \in 2..k : j \in 2..n
        BY <2>2
      <4>2. QED
        BY <4>1 DEF Framed, Frames
    <3>3. k \in Nat /\ k <= Len(calls) /\ k <= Len(calls2)
      BY <2>2, <2>7
    <3>4. QED
      BY <1>2, <2>6, <3>1, <3>2, <3>3, OuterFrames
  <2>9. ASSUME k > 1
        PROVE  Frame(a, b, P2[k], Q2[k], calls2[k], Missing(calls2, k), P2[k + 1], Q2[k + 1])
    <3>1. k \in 2..n /\ k \in 2..k /\ k \in 2..(n - 1)
      BY <2>2, <2>9
    <3>2. calls[k].offset = 0 /\ Frame(a, b, P[k], Q[k], calls[k], Missing(calls, k), P[n], Q[n])
      BY <2>2, <3>1 DEF Framed, Frames
    <3>3. calls[k].count \in Nat
      BY <1>1, <2>2, CallFacts
    <3>4. Missing(calls2, k) \in Nat /\ Missing(calls, k) = Missing(calls2, k) + 1
      BY <2>2, <2>7, <3>2, <3>3 DEF Missing
    <3>5. Frame(a, b, P[k], Q[k], calls[k], Missing(calls2, k) + 1, P[n], Q[n])
      BY <3>2, <3>4
    <3>6. Frame(a, b, P[k], Q[k], calls[k], Missing(calls2, k), l, r)
      BY <2>4, <3>2, <3>4, <3>5, FrameGoesOn
    <3>7. P2[k] = P[k] /\ Q2[k] = Q[k] /\ calls2[k] = calls[k]
      BY <2>2, <2>6, <2>7, <3>1 DEF Agree
    <3>8. QED
      BY <2>2, <2>6, <3>6, <3>7
  <2>10. Frames(a, b, calls2, P2, Q2, k)
    BY <2>2, <2>8, <2>9, AllFrames
  <2>11. \A j \in 2..(k - 1) : calls2[j].offset = 0
    <3>1. \A j \in 2..(k - 1) : j \in 2..(n - 1) /\ j \in 1..k
      BY <2>2
    <3>2. QED
      BY <2>7, <3>1 DEF Framed
  <2>12. calls2[1] = Call(0, 0) /\ P[2] = 1 /\ Q[2] = 1
    BY <1>4, <2>2, <2>7 DEF Framed
  <2>13. k > 1 => P2[2] = 1 /\ Q2[2] = 1
    <3>1. k > 1 => 2 \in 2..k
      BY <2>2
    <3>2. QED
      BY <2>6, <2>12, <3>1 DEF Agree
  <2>14. k = 1 => a = b
    <3>1. SUFFICES ASSUME k = 1 PROVE a = b
      OBVIOUS
    <3>2. P[n] = 1 /\ Q[n] = 1
      BY <2>2, <2>12, <3>1
    <3>3. QED
      BY <2>4, <3>2, AlikeWhole
  <2>15. Framed(a, b, l, r, calls2, P2, Q2)
    BY <2>2, <2>6, <2>7, <2>10, <2>11, <2>12, <2>13, <2>14 DEF Framed
  <2>16. QED
    BY <2>1, <2>5, <2>15
<1>5. QED
  BY <1>2, <1>3, <1>4

\* The entries a call compares are there.
LEMMA EntriesThere ==
    ASSUME NEW a, NEW b, Comparable(a, b), NEW l, NEW r, NEW calls \in Seq(Calls), NEW P, NEW Q,
           Framed(a, b, l, r, calls, P, Q), NEW n, NEW call, LastCall(calls, n, call),
           ~(call.offset > 0), call.count # 0
    PROVE  l \in 1..Len(a) /\ r \in 1..Len(b)
<1>. n = Len(calls) /\ n > 0 /\ call = calls[n]
  BY DEF LastCall
<1>1. /\ n \in Nat \ {0} /\ call \in Calls /\ call.offset = 0 /\ call.count \in Nat \ {0}
      /\ IsDescription(a) /\ IsDescription(b)
  BY CallsFacts, CallFacts DEF Comparable
<1>2. Len(a) \in Nat \ {0} /\ Len(b) \in Nat \ {0} /\ Height(a, Len(a) + 1) = 1 /\ Height(b, Len(b) + 1) = 1
  BY <1>1, Heights
<1>3. CASE n = 1
  <2>1. call # Call(0, 0)
    <3>1. Call(0, 0).count = 0
      BY CallFields
    <3>2. QED
      BY <1>1, <3>1
  <2>2. l = 1 /\ r = 1
    BY <1>3, <2>1 DEF Framed
  <2>3. QED
    BY <1>2, <2>2
<1>4. CASE n # 1
  <2>1. n \in 2..n
    BY <1>1, <1>4
  <2>2. Missing(calls, n) = call.count + call.offset
    BY <1>1 DEF Missing
  <2>3. PICK missing : missing = Missing(calls, n)
    OBVIOUS
  <2>4. missing \in Nat \ {0}
    BY <1>1, <2>2, <2>3
  <2>5. Frame(a, b, P[n], Q[n], call, missing, l, r)
    BY <2>1, <2>3 DEF Framed, Frames
  <2>6. /\ l \in 1..(Len(a) + 1) /\ Height(a, P[n]) \in Int /\ Height(a, P[n]) <= 0
        /\ Height(a, l) = Height(a, P[n]) + 1 - missing
        /\ r \in 1..(Len(b) + 1) /\ Height(b, Q[n]) \in Int /\ Height(b, Q[n]) <= 0
        /\ Height(b, r) = Height(b, Q[n]) + 1 - missing
    BY <2>4, <2>5, FramePlaces
  <2>7. l # Len(a) + 1 /\ r # Len(b) + 1
    BY <1>2, <2>4, <2>6
  <2>8. QED
    BY <1>2, <2>6, <2>7
<1>5. QED
  BY <1>3, <1>4

\* Calling for the arguments of an entry, all calls are where they should be.
LEMMA EnterKeeps ==
    ASSUME NEW a, NEW b, Comparable(a, b), NEW l, NEW r, NEW calls \in Seq(Calls), NEW P, NEW Q,
           Framed(a, b, l, r, calls, P, Q), NEW n, NEW call, LastCall(calls, n, call),
           NEW inner, NEW calls2, Enters(a, b, l, r, calls, n, call, inner, calls2)
    PROVE  /\ calls2 \in Seq(Calls) /\ Len(calls2) = n + 1
           /\ Framed(a, b, l + 1, r + 1, calls2, Moved(P, n + 1, l + 1), Moved(Q, n + 1, r + 1))
<1>. /\ n = Len(calls) /\ n > 0 /\ call = calls[n]
     /\ ~(call.offset > 0) /\ call.count # 0 /\ SameEntry(a[l], b[r])
     /\ inner = Call(ParamCount[a[l].rtti], ParamOffset[a[l].rtti])
     /\ calls2 = Append([calls EXCEPT ![n] = Call(call.count - 1, 0)], inner)
  BY DEF LastCall, Enters
<1>1. /\ n \in Nat \ {0} /\ n \in 1..n /\ call \in Calls /\ call.offset = 0 /\ call.count \in Nat \ {0}
      /\ call = Call(call.count, 0) /\ call.count - 1 \in Nat
      /\ IsDescription(a) /\ IsDescription(b)
  <2>1. n \in Nat \ {0} /\ n \in 1..n /\ call \in Calls
    BY CallsFacts
  <2>2. call.count \in Nat /\ call.offset \in Nat /\ call = Call(call.count, call.offset)
    BY <2>1, CallFacts
  <2>3. call.offset = 0 /\ call.count \in Nat \ {0} /\ call.count - 1 \in Nat
    BY <2>2
  <2>4. call = Call(call.count, 0)
    BY <2>2, <2>3
  <2>5. IsDescription(a) /\ IsDescription(b)
    BY DEF Comparable
  <2>6. QED
    BY <2>1, <2>3, <2>4, <2>5
<1>2. l \in 1..Len(a) /\ r \in 1..Len(b)
  BY EntriesThere
<1>3. PICK outer : outer = Call(call.count - 1, 0)
  OBVIOUS
<1>4. outer \in Calls /\ outer.count = call.count - 1 /\ outer.offset = 0
  <2>1. call.count - 1 \in Nat /\ 0 \in Nat
    BY <1>1
  <2>2. QED
    BY ONLY <1>3, <2>1, CallsMade
<1>5. inner \in Calls /\ inner.count = ParamCount[a[l].rtti] /\ inner.offset = ParamOffset[a[l].rtti]
      /\ inner.count \in Nat /\ inner.offset \in Nat
  <2>1. ParamCount[a[l].rtti] \in Nat /\ ParamOffset[a[l].rtti] \in Nat
    BY <1>1, <1>2, DescriptionFacts
  <2>2. inner = Call(ParamCount[a[l].rtti], ParamOffset[a[l].rtti])
    OBVIOUS
  <2>3. QED
    BY ONLY <2>1, <2>2, CallsMade
<1>6. PICK waiting : waiting = [calls EXCEPT ![n] = outer]
  OBVIOUS
<1>7. waiting \in Seq(Calls) /\ Len(waiting) = n /\ \A j \in 1..n : waiting[j] = IF j = n THEN outer ELSE calls[j]
  BY ONLY calls \in Seq(Calls), n = Len(calls), <1>1, <1>4, <1>6, ExceptSeq
<1>8. calls2 = Append(waiting, inner)
  BY <1>3, <1>6
<1>9. /\ calls2 \in Seq(Calls) /\ Len(calls2) = n + 1 /\ calls2[n + 1] = inner
      /\ \A j \in 1..n : calls2[j] = waiting[j]
  <2>1. /\ calls2 \in Seq(Calls) /\ Len(calls2) = Len(waiting) + 1 /\ calls2[Len(waiting) + 1] = inner
        /\ \A j \in 1..Len(waiting) : calls2[j] = waiting[j]
    <3>1. waiting \in Seq(Calls) /\ inner \in Calls
      BY <1>5, <1>7
    <3>2. QED
      BY ONLY <3>1, <1>8, AppendProperties
  <2>2. Len(waiting) = n
    BY <1>7
  <2>3. QED
    BY ONLY <2>1, <2>2
<1>10. calls2[n] = outer /\ \A j \in 1..(n - 1) : calls2[j] = calls[j]
  <2>1. n \in 1..n /\ \A j \in 1..(n - 1) : j \in 1..n /\ j # n
    BY <1>1
  <2>2. QED
    BY ONLY <1>7, <1>9, <2>1
<1>11. PICK k : k = n + 1
  OBVIOUS
<1>12. k \in Nat \ {0} /\ k > 1 /\ k - 1 = n /\ n < k /\ k # 1
  BY <1>1, <1>11
<1>13. PICK P2, Q2 : P2 = Moved(P, k, l + 1) /\ Q2 = Moved(Q, k, r + 1)
  OBVIOUS
<1>14. P2[k + 1] = l + 1 /\ Q2[k + 1] = r + 1 /\ Agree(P2, P, k) /\ Agree(Q2, Q, k)
  BY <1>12, <1>13, MovedFacts
<1>15. P2[k] = l /\ Q2[k] = r
  <2>1. P[k] = l /\ Q[k] = r
    BY <1>11 DEF Framed
  <2>2. k \in 2..k
    BY <1>12
  <2>3. QED
    BY <1>14, <2>1, <2>2 DEF Agree
<1>16. Agree(P2, P, n) /\ Agree(Q2, Q, n)
  <2>1. \A j \in 2..n : j \in 2..k
    BY <1>12
  <2>2. QED
    BY <1>14, <2>1 DEF Agree
<1>17. Frames(a, b, calls2, P2, Q2, n - 1)
  <2>1. Agree(calls2, calls, n - 1)
    <3>1. \A j \in 2..(n - 1) : j \in 1..(n - 1)
      OBVIOUS
    <3>2. QED
      BY <1>10, <3>1 DEF Agree
  <2>2. n \in Nat /\ n <= Len(calls) /\ n <= Len(calls2) /\ Frames(a, b, calls, P, Q, n)
    BY <1>1, <1>9 DEF Framed
  <2>3. calls \in Seq(Calls) /\ calls2 \in Seq(Calls)
    BY <1>9
  <2>4. QED
    BY ONLY <1>16, <2>1, <2>2, <2>3, OuterFrames
<1>18. ASSUME n > 1
       PROVE  Frame(a, b, P2[n], Q2[n], calls2[n], Missing(calls2, n), P2[n + 1], Q2[n + 1])
  <2>1. n \in 2..n
    BY <1>1, <1>18
  <2>2. Missing(calls2, n) = Missing(calls, n)
    <3>1. calls2[n] = outer /\ n < Len(calls2) /\ calls[n] = call /\ ~(n < Len(calls))
      <4>1. n \in Nat /\ Len(calls2) = n + 1 /\ Len(calls) = n
        BY <1>1, <1>9
      <4>2. n < Len(calls2) /\ ~(n < Len(calls))
        BY ONLY <4>1
      <4>3. QED
        BY <1>10, <4>2
    <3>2. Missing(calls2, n) = outer.count + outer.offset + 1
      BY ONLY <3>1 DEF Missing
    <3>3. Missing(calls, n) = call.count + call.offset + 0
      BY ONLY <3>1 DEF Missing
    <3>4. call.count \in Nat /\ call.offset = 0 /\ outer.count = call.count - 1 /\ outer.offset = 0
      BY <1>1, <1>4
    <3>5. QED
      BY ONLY <3>2, <3>3, <3>4
  <2>3. Frame(a, b, P[n], Q[n], call, Missing(calls, n), l, r)
    BY <2>1 DEF Framed, Frames
  <2>4. Frame(a, b, P[n], Q[n], outer, Missing(calls, n), l, r)
    BY <1>1, <1>4, <2>3 DEF Frame
  <2>5. P2[n] = P[n] /\ Q2[n] = Q[n] /\ P2[n + 1] = l /\ Q2[n + 1] = r
    BY <1>11, <1>15, <1>16, <2>1 DEF Agree
  <2>6. QED
    BY <1>10, <2>2, <2>4, <2>5
<1>19. Frames(a, b, calls2, P2, Q2, n)
  BY <1>1, <1>17, <1>18, AllFrames
<1>20. Frame(a, b, P2[k], Q2[k], calls2[k], Missing(calls2, k), P2[k + 1], Q2[k + 1])
  <2>1. Frame(a, b, l, r, inner, ParamCount[a[l].rtti] + ParamOffset[a[l].rtti], l + 1, r + 1)
    BY <1>2, FrameBegins
  <2>2. Missing(calls2, k) = ParamCount[a[l].rtti] + ParamOffset[a[l].rtti]
    <3>1. calls2[k] = inner /\ ~(k < Len(calls2))
      <4>1. Len(calls2) = k /\ calls2[k] = inner
        BY <1>9, <1>11
      <4>2. QED
        BY ONLY <1>12, <4>1
    <3>2. Missing(calls2, k) = inner.count + inner.offset + 0
      BY ONLY <3>1 DEF Missing
    <3>3. inner.count + inner.offset \in Nat /\ inner.count + inner.offset + 0 = inner.count + inner.offset
      BY ONLY <1>5
    <3>4. QED
      BY <1>5, <3>2, <3>3
  <2>3. QED
    BY <1>9, <1>11, <1>14, <1>15, <2>1, <2>2
<1>21. Frames(a, b, calls2, P2, Q2, k)
  <2>1. Frames(a, b, calls2, P2, Q2, k - 1) /\ k \in Nat
    BY <1>12, <1>19
  <2>2. QED
    BY <1>20, <2>1, AllFrames
<1>22. \A j \in 2..(k - 1) : calls2[j].offset = 0
  <2>1. \A j \in 2..(k - 1) : j = n \/ (j \in 2..(n - 1) /\ j \in 1..(n - 1))
    BY <1>12
  <2>2. \A j \in 2..(n - 1) : calls[j].offset = 0
    BY DEF Framed
  <2>3. QED
    BY ONLY <1>4, <1>10, <2>1, <2>2
<1>23. calls2[1] = Call(0, 0) /\ P2[2] = 1 /\ Q2[2] = 1
  <2>1. CASE n = 1
    <3>1. call = Call(1, 0) /\ l = 1 /\ r = 1
      <4>1. Call(0, 0).count = 0
        BY CallFields
      <4>2. QED
        BY <1>1, <2>1, <4>1 DEF Framed
    <3>2. call.count = 1
      BY <3>1, CallFields
    <3>3. outer = Call(0, 0) /\ k = 2
      BY <1>3, <1>11, <2>1, <3>2
    <3>4. QED
      BY <1>10, <1>15, <2>1, <3>1, <3>3
  <2>2. CASE n # 1
    <3>1. n > 1 /\ 1 \in 1..(n - 1) /\ 2 \in 2..n
      BY <1>1, <2>2
    <3>2. calls[1] = Call(0, 0) /\ P[2] = 1 /\ Q[2] = 1
      BY <3>1 DEF Framed
    <3>3. QED
      BY <1>10, <1>16, <3>1, <3>2 DEF Agree
  <2>3. QED
    BY <2>1, <2>2
<1>24. Framed(a, b, l + 1, r + 1, calls2, P2, Q2)
  BY <1>9, <1>11, <1>12, <1>14, <1>21, <1>22, <1>23 DEF Framed
<1>25. QED
  BY <1>9, <1>11, <1>13, <1>24

\* A step keeps the invariant, and leaves less to do.
LEMMA WalkStep ==
    ASSUME NEW a, NEW b, Comparable(a, b), NEW w, WalkInv(a, b, w), w.calls # <<>>,
           NEW v, v = CheckStep(a, b, w)
    PROVE  WalkInv(a, b, v) /\ (v.calls # <<>> => Effort(a, v) < Effort(a, w))
<1>1. PICK l, r, calls, same : l = w.l /\ r = w.r /\ calls = w.calls /\ same = w.same
  OBVIOUS
<1>2. w = Check(l, r, calls, same) /\ same
  <2>1. w = Check(w.l, w.r, w.calls, w.same) /\ (~w.same => w.calls = <<>>)
    BY DEF WalkInv
  <2>2. w.same
    BY <2>1
  <2>3. QED
    BY <1>1, <2>1, <2>2
<1>3. w = Check(l, r, calls, same)
  BY <1>2
<1>4. calls \in Seq(Calls) /\ l \in 1..(Len(a) + 1) /\ Len(a) \in Nat
  BY <1>1, DescriptionFacts DEF WalkInv, Comparable
<1>5. PICK P, Q : Framed(a, b, l, r, calls, P, Q)
  <2>1. InFrames(a, b, l, r, calls)
    BY <1>1, <1>2 DEF WalkInv
  <2>2. QED
    BY <2>1 DEF InFrames
<1>6. PICK n, call : LastCall(calls, n, call)
  <2>1. Len(calls) > 0
    BY <1>1, <1>4, CallsFacts
  <2>2. LastCall(calls, Len(calls), calls[Len(calls)])
    BY <2>1 DEF LastCall
  <2>3. QED
    BY <2>2
<1>7. n = Len(calls) /\ n \in Nat /\ n > 0
  BY <1>4, <1>6, CallsFacts DEF LastCall
<1>8. Effort(a, w) = 2 * (Len(a) + 1 - l) + n
  BY <1>1, <1>7 DEF Effort
<1>9. CASE call.offset > 0
  <2>1. PICK l2, r2, calls2 : Skips(a, b, l, r, calls, n, call, l2, r2, calls2)
    <3>. DEFINE l2 == l + typeDescriptionLength(a, l)
                r2 == r + typeDescriptionLength(b, r)
                calls2 == [calls EXCEPT ![n] = Call(call.count, call.offset - 1)]
    <3>1. Skips(a, b, l, r, calls, n, call, l2, r2, calls2)
      BY <1>9 DEF Skips
    <3>. HIDE DEF l2, r2, calls2
    <3>2. QED
      BY <3>1
  <2>2. v = Check(l2, r2, calls2, same)
    BY <1>6, <1>3, <2>1, StepSkips
  <2>3. /\ l \in 1..Len(a) /\ l2 \in (l + 1)..(Len(a) + 1) /\ calls2 \in Seq(Calls) /\ Len(calls2) = n
        /\ Framed(a, b, l2, r2, calls2, Moved(P, n, l2), Moved(Q, n, r2))
    BY <1>4, <1>5, <1>6, <2>1, SkipKeeps
  <2>4. v.l = l2 /\ v.r = r2 /\ v.calls = calls2 /\ v.same = same
    BY <2>2 DEF Check
  <2>5. l2 \in 1..(Len(a) + 1) /\ calls2 # <<>>
    BY <1>4, <1>7, <2>3, CallsFacts
  <2>6. WalkInv(a, b, v)
    <3>1. InFrames(a, b, l2, r2, calls2)
      BY <2>3 DEF InFrames
    <3>2. QED
      BY <1>2, <2>2, <2>3, <2>4, <2>5, <3>1 DEF WalkInv
  <2>7. Effort(a, v) = 2 * (Len(a) + 1 - l2) + n
    BY <2>3, <2>4 DEF Effort
  <2>8. QED
    BY <1>4, <1>7, <1>8, <2>3, <2>6, <2>7
<1>10. CASE ~(call.offset > 0) /\ call.count = 0
  <2>1. PICK calls2 : Returns(calls, n, call, calls2)
    <3>. DEFINE calls2 == SubSeq(calls, 1, n - 1)
    <3>1. Returns(calls, n, call, calls2)
      BY <1>10 DEF Returns
    <3>. HIDE DEF calls2
    <3>2. QED
      BY <3>1
  <2>2. v = Check(l, r, calls2, same)
    BY <1>6, <1>3, <2>1, StepReturns
  <2>3. /\ calls2 \in Seq(Calls) /\ Len(calls2) = n - 1
        /\ n = 1 => a = b
        /\ n > 1 => Framed(a, b, l, r, calls2, Moved(P, n - 1, l), Moved(Q, n - 1, r))
    BY <1>4, <1>5, <1>6, <2>1, CallReturns
  <2>4. v.l = l /\ v.r = r /\ v.calls = calls2 /\ v.same = same
    BY <2>2 DEF Check
  <2>5. calls2 = <<>> <=> n = 1
    BY <1>7, <2>3, CallsFacts
  <2>6. WalkInv(a, b, v)
    <3>1. calls2 # <<>> => InFrames(a, b, l, r, calls2)
      <4>1. calls2 # <<>> => n > 1
        BY <1>7, <2>5
      <4>2. QED
        BY <2>3, <4>1 DEF InFrames
    <3>2. QED
      BY <1>2, <1>4, <2>2, <2>3, <2>4, <2>5, <3>1 DEF WalkInv
  <2>7. Effort(a, v) = 2 * (Len(a) + 1 - l) + (n - 1)
    BY <2>3, <2>4 DEF Effort
  <2>8. QED
    BY <1>4, <1>7, <1>8, <2>6, <2>7
<1>11. CASE ~(call.offset > 0) /\ call.count # 0 /\ SameEntry(a[l], b[r])
  <2>1. PICK inner, calls2 : Enters(a, b, l, r, calls, n, call, inner, calls2)
    <3>. DEFINE inner == Call(ParamCount[a[l].rtti], ParamOffset[a[l].rtti])
                calls2 == Append([calls EXCEPT ![n] = Call(call.count - 1, 0)], inner)
    <3>1. Enters(a, b, l, r, calls, n, call, inner, calls2)
      BY <1>11 DEF Enters
    <3>. HIDE DEF inner, calls2
    <3>2. QED
      BY <3>1
  <2>2. v = Check(l + 1, r + 1, calls2, same)
    BY <1>6, <1>3, <2>1, StepEnters
  <2>3. /\ calls2 \in Seq(Calls) /\ Len(calls2) = n + 1
        /\ Framed(a, b, l + 1, r + 1, calls2, Moved(P, n + 1, l + 1), Moved(Q, n + 1, r + 1))
    BY <1>4, <1>5, <1>6, <2>1, EnterKeeps
  <2>4. v.l = l + 1 /\ v.r = r + 1 /\ v.calls = calls2 /\ v.same = same
    BY <2>2 DEF Check
  <2>5. l \in 1..Len(a)
    BY <1>4, <1>5, <1>6, <1>11, EntriesThere
  <2>6. l + 1 \in 1..(Len(a) + 1) /\ calls2 # <<>>
    BY <1>4, <1>7, <2>3, <2>5, CallsFacts
  <2>7. WalkInv(a, b, v)
    <3>1. InFrames(a, b, l + 1, r + 1, calls2)
      BY <2>3 DEF InFrames
    <3>2. QED
      BY <1>2, <2>2, <2>3, <2>4, <2>6, <3>1 DEF WalkInv
  <2>8. Effort(a, v) = 2 * (Len(a) + 1 - (l + 1)) + (n + 1)
    BY <2>3, <2>4 DEF Effort
  <2>9. QED
    BY <1>4, <1>7, <1>8, <2>7, <2>8
<1>12. CASE ~(call.offset > 0) /\ call.count # 0 /\ ~SameEntry(a[l], b[r])
  <2>1. v = Check(l, r, <<>>, FALSE)
    <3>1. Differs(a, b, l, r, call)
      BY <1>12 DEF Differs
    <3>2. CheckStep(a, b, w) = Ended(l, r)
      BY <1>6, <1>3, <3>1, StepDiffers
    <3>3. QED
      BY <3>2 DEF Ended
  <2>2. v.l = l /\ v.r = r /\ v.calls = <<>> /\ v.same = FALSE
    BY <2>1 DEF Check
  <2>3. <<>> \in Seq(Calls)
    OBVIOUS
  <2>4. QED
    BY <1>4, <2>1, <2>2, <2>3 DEF WalkInv
<1>13. QED
  BY <1>9, <1>10, <1>11, <1>12

\* The comparison begins with the whole descriptions.
LEMMA WalkBegins ==
    ASSUME NEW a, NEW b, Comparable(a, b), NEW w, w = Check(1, 1, <<Call(1, 0)>>, TRUE)
    PROVE  WalkInv(a, b, w) /\ Effort(a, w) = 2 * Len(a) + 1
<1>1. w.l = 1 /\ w.r = 1 /\ w.calls = <<Call(1, 0)>> /\ w.same = TRUE
  BY DEF Check
<1>2. PICK calls : calls = <<Call(1, 0)>>
  OBVIOUS
<1>3. Call(1, 0) \in Calls
  BY DEF Call, Calls
<1>4. calls \in Seq(Calls) /\ Len(calls) = 1 /\ calls[1] = Call(1, 0) /\ calls # <<>>
  BY <1>2, <1>3
<1>5. Len(a) \in Nat
  BY DescriptionFacts DEF Comparable
<1>. DEFINE P == [j \in 2..2 |-> 1]
<1>6. P[1 + 1] = 1
  OBVIOUS
<1>. HIDE DEF P
<1>7. Frames(a, b, calls, P, P, 1)
  BY DEF Frames
<1>8. Framed(a, b, 1, 1, calls, P, P)
  <2>1. /\ P[1 + 1] = 1 /\ calls[1] = Call(1, 0)
        /\ \A j \in 2..(1 - 1) : calls[j].offset = 0
    BY <1>4, <1>6
  <2>2. QED
    BY <1>4, <1>7, <2>1 DEF Framed
<1>9. WalkInv(a, b, w)
  <2>1. InFrames(a, b, 1, 1, calls)
    BY <1>8 DEF InFrames
  <2>2. QED
    <3>1. w = Check(w.l, w.r, w.calls, w.same) /\ w.calls = calls /\ w.calls # <<>>
      <4>1. w = Check(w.l, w.r, w.calls, w.same)
        BY DEF Check
      <4>2. QED
        BY <1>1, <1>2, <1>4, <4>1
    <3>2. w.calls \in Seq(Calls) /\ w.l \in 1..(Len(a) + 1)
      <4>1. 1 \in 1..(Len(a) + 1)
        BY ONLY <1>5
      <4>2. QED
        BY <1>1, <1>2, <1>4, <4>1
    <3>3. QED
      BY <1>1, <2>1, <3>1, <3>2 DEF WalkInv
<1>10. Effort(a, w) = 2 * Len(a) + 1
  <2>1. Effort(a, w) = 2 * (Len(a) + 1 - 1) + 1
    <3>1. w.l = 1 /\ Len(w.calls) = 1
      BY <1>1, <1>2, <1>4
    <3>2. QED
      BY <3>1 DEF Effort
  <2>2. QED
    BY ONLY <1>5, <2>1
<1>11. QED
  BY <1>9, <1>10

\* What a comparison begins with, and one step of it if it has not ended.
Beginning(number, offset) == Check(1, 1, <<Call(number, offset)>>, TRUE)
Stepped(a, b, w) == IF w.calls = <<>> THEN w ELSE CheckStep(a, b, w)

CheckEquation(a, b, w, n, f) ==
    f = [i \in 0..n |-> IF i = 0 THEN w ELSE Stepped(a, b, f[i - 1])]

\* The comparison: a function that satisfies its equation exists.
LEMMA CheckExists ==
    ASSUME NEW a, NEW b, NEW w
    PROVE  \A n \in Nat : \E f : CheckEquation(a, b, w, n, f)
<1>. DEFINE S == {n \in Nat : \E f : CheckEquation(a, b, w, n, f)}
<1>1. 0 \in S
  <2>. DEFINE g == [i \in 0..0 |-> w]
  <2>1. g = [i \in 0..0 |-> IF i = 0 THEN w ELSE Stepped(a, b, g[i - 1])]
    OBVIOUS
  <2>2. CheckEquation(a, b, w, 0, g)
    BY <2>1 DEF CheckEquation
  <2>3. QED
    BY <2>2
<1>2. ASSUME NEW n \in Nat, n \in S
      PROVE  n + 1 \in S
  <2>1. PICK f : CheckEquation(a, b, w, n, f)
    BY <1>2
  <2>2. \A i \in 0..n : f[i] = IF i = 0 THEN w ELSE Stepped(a, b, f[i - 1])
    BY <2>1 DEF CheckEquation
  <2>. DEFINE g == [i \in 0..(n + 1) |-> IF i = 0 THEN w ELSE Stepped(a, b, f[i - 1])]
  <2>3. \A i \in 0..n : g[i] = f[i]
    BY <2>2
  <2>4. \A i \in 0..(n + 1) : i # 0 => i - 1 \in 0..n
    OBVIOUS
  <2>5. g = [i \in 0..(n + 1) |-> IF i = 0 THEN w ELSE Stepped(a, b, g[i - 1])]
    BY <2>3, <2>4
  <2>6. CheckEquation(a, b, w, n + 1, g)
    BY <2>5 DEF CheckEquation
  <2>7. QED
    BY <2>6
<1>3. \A n \in Nat : n \in S
  <2>. HIDE DEF S
  <2>1. QED
    BY <1>1, <1>2, Induct
<1>4. QED
  BY <1>3

\* The states of a comparison, one after the other.
Walked(a, b, w, n, f) ==
    f[0] = w /\ \A i \in 0..(n - 1) : f[i + 1] = Stepped(a, b, f[i])

\* What ejcCheckGenericArgs returns is what the last of the steps has.
LEMMA ComparisonWalks ==
    ASSUME NEW a, NEW b, Len(a) \in Nat, NEW n, n = 2 * Len(a) + 1
    PROVE  \E f : /\ Walked(a, b, Beginning(1, 0), n, f)
                  /\ ejcCheckGenericArgs(a, b, 1, 0) = f[n].same
<1>. DEFINE w == Beginning(1, 0)
            f == CHOOSE g : CheckEquation(a, b, w, n, g)
<1>1. n \in Nat
  OBVIOUS
<1>2. CheckEquation(a, b, w, n, f)
  BY <1>1, CheckExists
<1>3. checkGenericArgs(a, b, 1, 0) = f[n]
  BY DEF checkGenericArgs, CheckEquation, Stepped, Beginning, Check
<1>. HIDE DEF w, f
<1>4. \A i \in 0..n : f[i] = IF i = 0 THEN w ELSE Stepped(a, b, f[i - 1])
  BY <1>2 DEF CheckEquation
<1>5. f[0] = w
  BY <1>1, <1>4
<1>6. ASSUME NEW i \in 0..(n - 1)
      PROVE  f[i + 1] = Stepped(a, b, f[i])
  <2>1. PICK j : j = i + 1
    OBVIOUS
  <2>2. j \in 0..n /\ j # 0 /\ j - 1 = i
    BY <1>1, <2>1
  <2>3. f[j] = Stepped(a, b, f[j - 1])
    BY <1>4, <2>2
  <2>4. QED
    BY <2>1, <2>2, <2>3
<1>7. Walked(a, b, w, n, f)
  BY <1>5, <1>6 DEF Walked
<1>8. ejcCheckGenericArgs(a, b, 1, 0) = f[n].same
  BY <1>3 DEF ejcCheckGenericArgs
<1>9. QED
  BY <1>7, <1>8 DEF w

\* What is left to do is a number, 0 only when the comparison has ended.
LEMMA EffortFacts ==
    ASSUME NEW a, NEW b, Len(a) \in Nat, NEW w, WalkInv(a, b, w)
    PROVE  Effort(a, w) \in Nat /\ (w.calls # <<>> => Effort(a, w) > 0)
<1>1. w.calls \in Seq(Calls) /\ w.l \in 1..(Len(a) + 1)
  BY DEF WalkInv
<1>2. Len(w.calls) \in Nat /\ (w.calls # <<>> => Len(w.calls) > 0)
  BY <1>1, CallsFacts
<1>3. QED
  BY <1>1, <1>2 DEF Effort

\* The comparison ends in time, and finds descriptions that are the same.
LEMMA WalkEnds ==
    ASSUME NEW a, NEW b, Comparable(a, b), NEW n, n = 2 * Len(a) + 1,
           NEW f, Walked(a, b, Beginning(1, 0), n, f)
    PROVE  f[n].same => a = b
<1>1. Len(a) \in Nat /\ n \in Nat
  BY DescriptionFacts DEF Comparable
<1>. DEFINE Kept(i) == WalkInv(a, b, f[i]) /\ (f[i].calls # <<>> => Effort(a, f[i]) <= n - i)
            S == {i \in Nat : i <= n => Kept(i)}
<1>2. 0 \in S
  <2>1. f[0] = Check(1, 1, <<Call(1, 0)>>, TRUE)
    BY DEF Walked, Beginning
  <2>2. WalkInv(a, b, f[0]) /\ Effort(a, f[0]) = n
    BY <2>1, WalkBegins
  <2>3. QED
    BY <1>1, <2>2
<1>3. ASSUME NEW i \in Nat, i \in S
      PROVE  i + 1 \in S
  <2>1. SUFFICES ASSUME i + 1 <= n PROVE Kept(i + 1)
    OBVIOUS
  <2>2. Kept(i) /\ i \in 0..(n - 1)
    BY <1>1, <1>3, <2>1
  <2>3. PICK w, v : w = f[i] /\ v = f[i + 1]
    OBVIOUS
  <2>4. v = Stepped(a, b, w)
    BY <2>2, <2>3 DEF Walked
  <2>5. WalkInv(a, b, w) /\ (w.calls # <<>> => Effort(a, w) <= n - i)
    BY <2>2, <2>3
  <2>6. WalkInv(a, b, v) /\ (v.calls # <<>> => Effort(a, v) <= n - (i + 1))
    <3>1. CASE w.calls = <<>>
      BY <2>4, <2>5, <3>1 DEF Stepped
    <3>2. CASE w.calls # <<>>
      <4>1. v = CheckStep(a, b, w)
        BY <2>4, <3>2 DEF Stepped
      <4>2. WalkInv(a, b, v) /\ (v.calls # <<>> => Effort(a, v) < Effort(a, w))
        BY <2>5, <3>2, <4>1, WalkStep
      <4>3. Effort(a, v) \in Nat /\ Effort(a, w) \in Nat
        BY <1>1, <2>5, <4>2, EffortFacts
      <4>4. v.calls # <<>> => Effort(a, v) <= n - (i + 1)
        BY <1>1, <2>5, <3>2, <4>2, <4>3
      <4>5. QED
        BY <4>2, <4>4
    <3>3. QED
      BY <3>1, <3>2
  <2>7. QED
    BY <2>3, <2>6
<1>4. n \in S
  <2>. HIDE DEF S
  <2>1. QED
    BY <1>1, <1>2, <1>3, Induct
<1>5. PICK w : w = f[n]
  OBVIOUS
<1>6. WalkInv(a, b, w) /\ (w.calls # <<>> => Effort(a, w) <= 0)
  <2>1. WalkInv(a, b, f[n]) /\ (f[n].calls # <<>> => Effort(a, f[n]) <= n - n)
    BY <1>1, <1>4
  <2>2. n - n = 0
    BY <1>1
  <2>3. QED
    BY <1>5, <2>1, <2>2
<1>7. w.calls = <<>>
  BY <1>1, <1>6, EffortFacts
<1>8. w.same => a = b
  BY <1>6, <1>7 DEF WalkInv
<1>9. QED
  BY <1>5, <1>8

\* The comparison of a description with itself has both pointers at the same place.
Level(l, calls) == [l |-> l, r |-> l, calls |-> calls, same |-> TRUE]
Even(w) == \E l, calls : w = Level(l, calls)

\* A step of it keeps them there.
LEMMA EvenStep ==
    ASSUME NEW a, NEW w, Even(w)
    PROVE  Even(Stepped(a, a, w))
<1>1. PICK l, calls : w = Level(l, calls)
  BY DEF Even
<1>2. w.calls = calls
  BY <1>1 DEF Level
<1>3. CASE calls = <<>>
  BY <1>1, <1>2, <1>3 DEF Even, Stepped
<1>4. CASE calls # <<>>
  <2>1. Stepped(a, a, w) = CheckStep(a, a, w)
    BY <1>2, <1>4 DEF Stepped
  <2>2. PICK n, call : n = Len(calls) /\ call = calls[n]
    OBVIOUS
  <2>3. CASE call.offset > 0
    <3>. DEFINE calls2 == [calls EXCEPT ![n] = Call(call.count, call.offset - 1)]
    <3>1. CheckStep(a, a, w) = Level(l + typeDescriptionLength(a, l), calls2)
      BY <1>1, <2>2, <2>3 DEF CheckStep, Level
    <3>. HIDE DEF calls2
    <3>2. QED
      BY <2>1, <3>1 DEF Even
  <2>4. CASE ~(call.offset > 0) /\ call.count = 0
    <3>. DEFINE calls2 == SubSeq(calls, 1, n - 1)
    <3>1. CheckStep(a, a, w) = Level(l, calls2)
      BY <1>1, <2>2, <2>4 DEF CheckStep, Level
    <3>. HIDE DEF calls2
    <3>2. QED
      BY <2>1, <3>1 DEF Even
  <2>5. CASE ~(call.offset > 0) /\ call.count # 0
    <3>. DEFINE calls2 == Append([calls EXCEPT ![n] = Call(call.count - 1, 0)],
                                 Call(ParamCount[a[l].rtti], ParamOffset[a[l].rtti]))
    <3>1. SameEntry(a[l], a[l])
      BY DEF SameEntry
    <3>2. CheckStep(a, a, w) = Level(l + 1, calls2)
      BY <1>1, <2>2, <2>5, <3>1 DEF CheckStep, Level
    <3>. HIDE DEF calls2
    <3>3. QED
      BY <2>1, <3>2 DEF Even
  <2>6. QED
    BY <2>3, <2>4, <2>5
<1>5. QED
  BY <1>3, <1>4

\* So it finds no difference.
LEMMA SameFound ==
    ASSUME NEW a, NEW n \in Nat, NEW f, Walked(a, a, Beginning(1, 0), n, f)
    PROVE  f[n].same
<1>. DEFINE S == {i \in Nat : i <= n => Even(f[i])}
<1>1. 0 \in S
  <2>1. f[0] = Level(1, <<Call(1, 0)>>)
    BY DEF Walked, Beginning, Check, Level
  <2>2. QED
    BY <2>1 DEF Even
<1>2. ASSUME NEW i \in Nat, i \in S
      PROVE  i + 1 \in S
  <2>1. SUFFICES ASSUME i + 1 <= n PROVE Even(f[i + 1])
    OBVIOUS
  <2>2. Even(f[i]) /\ i \in 0..(n - 1)
    BY <1>2, <2>1
  <2>3. f[i + 1] = Stepped(a, a, f[i])
    BY <2>2 DEF Walked
  <2>4. QED
    BY <2>2, <2>3, EvenStep
<1>3. n \in S
  <2>. HIDE DEF S
  <2>1. QED
    BY <1>1, <1>2, Induct
<1>4. PICK l, calls : f[n] = Level(l, calls)
  BY <1>3 DEF Even
<1>5. QED
  BY <1>4 DEF Level

\* A cast compares whole descriptions, although it passes the arguments of superclasses over.
LEMMA CastComparesDescriptions ==
    ASSUME NEW a, NEW b, Comparable(a, b)
    PROVE  ejcCheckGenericArgs(a, b, 1, 0) <=> a = b
<1>1. PICK n : n = 2 * Len(a) + 1
  OBVIOUS
<1>2. Len(a) \in Nat /\ n \in Nat
  BY <1>1, DescriptionFacts DEF Comparable
<1>3. PICK f : Walked(a, b, Beginning(1, 0), n, f) /\ ejcCheckGenericArgs(a, b, 1, 0) = f[n].same
  BY <1>1, <1>2, ComparisonWalks
<1>4. f[n].same => a = b
  BY <1>1, <1>3, WalkEnds
<1>5. a = b => f[n].same
  BY <1>2, <1>3, SameFound
<1>6. QED
  BY <1>3, <1>4, <1>5

\* What is answered about class type values are keys that can be compared.
LEMMA AnswersAreComparable ==
    ASSUME NEW a \in TypeKeys, NEW b \in TypeKeys
    PROVE  Comparable(a, b)
<1>1. IsDescription(a) /\ IsDescription(b)
  BY KeysAreDescriptions
<1>2. DOMAIN a = 1..Len(a) /\ DOMAIN b = 1..Len(b)
  BY <1>1, DescriptionFacts
<1>3. Follows(a, b)
  BY <1>2, SuperArgumentsFollow DEF Follows
<1>4. QED
  BY <1>1, <1>3 DEF Comparable

\* The keys of class type values are descriptions of types.
LEMMA ValuesHaveTypeKeys ==
    ASSUME NEW q \in Questions, q.map = "values"
    PROVE  q.key \in TypeKeys
<1>1. \A c \in Conformances : q # Question("tables", c, c)
  BY DEF Question
<1>2. PICK b \in Blocks : \E i \in 0..(Len(b.types) - 1) :
          q = Question("values", b.types[i + 1], TypeKey(b, i))
  BY <1>1 DEF Questions
<1>3. PICK i \in 0..(Len(b.types) - 1) : q = Question("values", b.types[i + 1], TypeKey(b, i))
  BY <1>2
<1>4. q.key = TypeKey(b, i)
  BY <1>3 DEF Question
<1>5. QED
  BY <1>4 DEF TypeKeys

\* The invariant gives the property: the answers have the same address exactly if they have the same key.
LEMMA ComparisonsAgree ==
    ASSUME InternInv
    PROVE  CastsAgreeWithTypeValues
<1>. SUFFICES ASSUME NEW a \in answers, NEW b \in answers, a.map = "values", b.map = "values"
              PROVE  ejcCheckGenericArgs(a.key, b.key, 1, 0) <=> a.address = b.address
  BY DEF CastsAgreeWithTypeValues
<1>. DEFINE q == Question(a.map, a.meaning, a.key)
            r == Question(b.map, b.meaning, b.key)
<1>1. q \in Questions /\ r \in Questions
  BY DEF InternInv, AnswersInMaps, IsAnswer
<1>2. /\ q.map = a.map /\ q.meaning = a.meaning /\ q.key = a.key
      /\ r.map = b.map /\ r.meaning = b.meaning /\ r.key = b.key
  BY DEF Question
<1>. HIDE DEF q, r
<1>3. a.key \in TypeKeys /\ b.key \in TypeKeys
  BY <1>1, <1>2, ValuesHaveTypeKeys
<1>4. a.key = b.key <=> a.meaning = b.meaning
  BY <1>1, <1>2, KeysAreMeanings
<1>5. a.address = b.address <=> a.meaning = b.meaning
  BY UniqueEntriesAgree DEF SameAnswerToSameQuestion
<1>6. PICK k, l : k = a.key /\ l = b.key
  OBVIOUS
<1>7. ejcCheckGenericArgs(k, l, 1, 0) <=> k = l
  BY <1>3, <1>6, AnswersAreComparable, CastComparesDescriptions
<1>8. QED
  BY <1>4, <1>5, <1>6, <1>7

(* A cast, which walks two descriptions and leaves the arguments of        *)
(* superclasses out (checkGenericArgs), agrees with the comparison of the  *)
(* addresses ejcTypeValue answered, for descriptions of any size and depth.*)
THEOREM CastsAgree == InternSpec => []CastsAgreeWithTypeValues
BY InternInvariant, ComparisonsAgree, PTL

(***************************************************************************)
(* The lists: the inductive invariant                                      *)
(***************************************************************************)

Typed ==
    /\ storageOf \in [Lists -> Storages \cup {NoValue}]
    /\ count \in [Storages -> Int]
    /\ contents \in [Storages -> Seq(Items)]
    /\ stage \in [Lists -> {"idle", "call", "clone", "change", "return"}]
    /\ operation \in [Lists -> Edits \cup {NoValue}]
    /\ snapshot \in [Lists -> Storages \cup {NoValue}]
    /\ listCount \in [Lists -> Nat]
    /\ appended \in [Lists -> Nat]

\* A storage has a reference of each list in it and of each call that
\* retained it.
Occurrences(f, s) == Cardinality({v \in Lists : f[v] = s})

StoragesCounted == \A s \in Storages :
               count[s] = Occurrences(storageOf, s) + Occurrences(snapshot, s)

\* What the stages of a method mean for the other variables.
Staged == \A v \in Lists :
    /\ storageOf[v] = NoValue => stage[v] = "idle"
    /\ stage[v] = "idle" => snapshot[v] = NoValue
    /\ stage[v] = "return" => snapshot[v] # NoValue
    /\ stage[v] \in {"call", "clone", "change"} /\ snapshot[v] = NoValue
           => operation[v] \in Edits
    /\ appended[v] # 0 => stage[v] = "change" /\ snapshot[v] # NoValue

\* Storage is only changed by who has the only reference to it.
Exclusive == \A u, v \in Lists :
    stage[v] = "change" => /\ u # v => storageOf[u] # storageOf[v]
                           /\ snapshot[u] # storageOf[v]

\* How far the appending of an argument has come.
Before(items, n) == SubSeq(items, 1, Len(items) - n)
Grown(items, argument, n) == items = Before(items, n) \o SubSeq(argument, 1, n)

ProgressOf(v) ==
    snapshot[v] # NoValue =>
    /\ stage[v] \in {"clone", "change"} => listCount[v] = Len(contents[snapshot[v]])
    /\ stage[v] = "change" =>
           /\ appended[v] <= listCount[v]
           /\ appended[v] <= Len(contents[storageOf[v]])
           /\ Grown(contents[storageOf[v]], contents[snapshot[v]], appended[v])

Progressed == \A v \in Lists : ProgressOf(v)

ListsInv == Typed /\ StoragesCounted /\ Staged /\ Exclusive /\ Progressed

USE NoValueIsNone

(***************************************************************************)
(* Counting                                                                *)
(***************************************************************************)

\* The variables that have a storage are finitely many.
LEMMA OccurrencesFinite ==
    ASSUME NEW f, NEW s
    PROVE  IsFiniteSet({v \in Lists : f[v] = s})
  BY FiniteLists, FS_Subset

\* How often a storage occurs is a number.
LEMMA OccurrencesNat == \A f, s : Occurrences(f, s) \in Nat
  BY OccurrencesFinite, FS_CardinalityType DEF Occurrences

\* A storage that no variable has does not occur.
LEMMA OccurrencesNone ==
    ASSUME NEW f, NEW s, \A v \in Lists : f[v] # s
    PROVE  Occurrences(f, s) = 0
  <1>1. {v \in Lists : f[v] = s} = {}
    OBVIOUS
  <1> QED  BY <1>1, FS_EmptySet DEF Occurrences

\* A storage that some variable has occurs.
LEMMA OccurrencesSome ==
    ASSUME NEW f, NEW s, NEW v \in Lists, f[v] = s
    PROVE  Occurrences(f, s) >= 1
  <1> DEFINE F == {u \in Lists : f[u] = s}
  <1>1. F # {} /\ IsFiniteSet(F)
    BY OccurrencesFinite
  <1> HIDE DEF F
  <1>2. Cardinality(F) # 0
    BY <1>1, FS_EmptySet
  <1>3. Occurrences(f, s) # 0
    BY <1>2 DEF F, Occurrences
  <1> QED  BY <1>3, OccurrencesNat

\* Changing one value of a function changes the occurrences of two.
LEMMA OccurrencesChanged ==
    \A f, g, s : \A v \in Lists :
        (\A u \in Lists : u # v => g[u] = f[u]) =>
            /\ g[v] = s /\ f[v] # s => Occurrences(g, s) = Occurrences(f, s) + 1
            /\ g[v] # s /\ f[v] = s => Occurrences(g, s) = Occurrences(f, s) - 1
            /\ (g[v] = s <=> f[v] = s) => Occurrences(g, s) = Occurrences(f, s)
  <1> SUFFICES ASSUME NEW f, NEW g, NEW s, NEW v \in Lists,
                      \A u \in Lists : u # v => g[u] = f[u]
               PROVE  /\ g[v] = s /\ f[v] # s =>
                             Occurrences(g, s) = Occurrences(f, s) + 1
                      /\ g[v] # s /\ f[v] = s =>
                             Occurrences(g, s) = Occurrences(f, s) - 1
                      /\ (g[v] = s <=> f[v] = s) =>
                             Occurrences(g, s) = Occurrences(f, s)
    OBVIOUS
  <1> DEFINE F == {u \in Lists : f[u] = s}
             G == {u \in Lists : g[u] = s}
  <1>1. IsFiniteSet(F) /\ Cardinality(F) \in Nat
    BY OccurrencesFinite, FS_CardinalityType
  <1>2. /\ g[v] = s /\ f[v] # s => G = F \cup {v} /\ v \notin F
        /\ g[v] # s /\ f[v] = s => G = F \ {v} /\ v \in F
        /\ (g[v] = s <=> f[v] = s) => G = F
    OBVIOUS
  <1>3. /\ Occurrences(f, s) = Cardinality(F)
        /\ Occurrences(g, s) = Cardinality(G)
    BY DEF Occurrences
  <1> HIDE DEF F, G
  <1>4. CASE g[v] = s /\ f[v] # s
    <2>1. Cardinality(F \cup {v}) = Cardinality(F) + 1
      BY <1>1, <1>2, <1>4, FS_AddElement
    <2> QED  BY <2>1, <1>2, <1>3, <1>4
  <1>5. CASE g[v] # s /\ f[v] = s
    <2>1. Cardinality(F \ {v}) = Cardinality(F) - 1
      BY <1>1, <1>2, <1>5, FS_RemoveElement
    <2> QED  BY <2>1, <1>2, <1>3, <1>5
  <1>6. CASE g[v] = s <=> f[v] = s
    BY <1>2, <1>3, <1>6
  <1> QED  BY <1>4, <1>5, <1>6

\* A value that occurs in two places occurs twice.
LEMMA OccurrencesTwice ==
    ASSUME NEW S, NEW f \in [Lists -> S], NEW s, NEW u \in Lists, NEW v \in Lists,
           u # v, f[u] = s, f[v] = s
    PROVE  Occurrences(f, s) >= 2
  <1>1. PICK other : other # s
    <2>1. TRUE # s \/ FALSE # s
      OBVIOUS
    <2> QED  BY <2>1
  <1> DEFINE g == [f EXCEPT ![v] = other]
  <1>2. g[u] = s
    OBVIOUS
  <1>3. Occurrences(g, s) >= 1
    BY <1>2, OccurrencesSome
  <1>4. Occurrences(g, s) = Occurrences(f, s) - 1
    <2>1. (\A w \in Lists : w # v => g[w] = f[w]) /\ g[v] # s
      BY <1>1
    <2> HIDE DEF g
    <2> QED  BY <2>1, OccurrencesChanged
  <1> QED  BY <1>3, <1>4, OccurrencesNat

\* The only reference to a storage, of a list or of a call.
LEMMA OnlyList ==
    ASSUME Typed, StoragesCounted, NEW v \in Lists, storageOf[v] # NoValue,
           count[storageOf[v]] = 1
    PROVE  \A u \in Lists : /\ u # v => storageOf[u] # storageOf[v]
                            /\ snapshot[u] # storageOf[v]
  <1> DEFINE s == storageOf[v]
  <1>1. s \in Storages
    BY DEF Typed
  <1>2. 1 = Occurrences(storageOf, s) + Occurrences(snapshot, s)
    BY <1>1 DEF StoragesCounted
  <1>3. ASSUME NEW u \in Lists, u # v, storageOf[u] = s  PROVE FALSE
    <2>1. Occurrences(storageOf, s) >= 2
      BY <1>3, OccurrencesTwice DEF Typed
    <2> QED  BY <2>1, <1>2, OccurrencesNat
  <1>4. ASSUME NEW u \in Lists, snapshot[u] = s  PROVE FALSE
    <2>1. Occurrences(storageOf, s) >= 1 /\ Occurrences(snapshot, s) >= 1
      BY <1>4, OccurrencesSome
    <2> QED  BY <2>1, <1>2, OccurrencesNat
  <1> QED  BY <1>3, <1>4

\* A snapshot that is counted once belongs to no list and to no other call.
LEMMA OnlySnapshot ==
    ASSUME Typed, StoragesCounted, NEW v \in Lists, snapshot[v] # NoValue,
           count[snapshot[v]] = 1
    PROVE  \A u \in Lists : /\ storageOf[u] # snapshot[v]
                            /\ u # v => snapshot[u] # snapshot[v]
  <1> DEFINE s == snapshot[v]
  <1>1. s \in Storages
    BY DEF Typed
  <1>2. 1 = Occurrences(storageOf, s) + Occurrences(snapshot, s)
    BY <1>1 DEF StoragesCounted
  <1>3. ASSUME NEW u \in Lists, u # v, snapshot[u] = s  PROVE FALSE
    <2>1. Occurrences(snapshot, s) >= 2
      BY <1>3, OccurrencesTwice DEF Typed
    <2> QED  BY <2>1, <1>2, OccurrencesNat
  <1>4. ASSUME NEW u \in Lists, storageOf[u] = s  PROVE FALSE
    <2>1. Occurrences(storageOf, s) >= 1 /\ Occurrences(snapshot, s) >= 1
      BY <1>4, OccurrencesSome
    <2> QED  BY <2>1, <1>2, OccurrencesNat
  <1> QED  BY <1>3, <1>4

\* Nothing refers to free storage.
LEMMA FreeUnused ==
    ASSUME Typed, StoragesCounted, NEW s \in Storages, count[s] = 0, NEW v \in Lists
    PROVE  storageOf[v] # s /\ snapshot[v] # s
  <1>1. 0 = Occurrences(storageOf, s) + Occurrences(snapshot, s)
    BY DEF StoragesCounted
  <1>2. storageOf[v] = s => Occurrences(storageOf, s) >= 1
    BY OccurrencesSome
  <1>3. snapshot[v] = s => Occurrences(snapshot, s) >= 1
    BY OccurrencesSome
  <1> QED  BY <1>1, <1>2, <1>3, OccurrencesNat

(***************************************************************************)
(* What the steps keep                                                     *)
(***************************************************************************)

\* Two sequences of items make one.
LEMMA Concatenated == \A s, t \in Seq(Items) : s \o t \in Seq(Items)
  OBVIOUS

\* An edit makes a sequence of items from a sequence of items.
LEMMA EditedIsASequence ==
    ASSUME NEW edit \in Edits, NEW items \in Seq(Items)
    PROVE  Edited(edit, items) \in Seq(Items)
  <1> SUFFICES ASSUME NEW edited, edited = Edited(edit, items)
               PROVE  edited \in Seq(Items)
    OBVIOUS
  <1>1. /\ edit.op = "append" => edited = Append(items, edit.item)
        /\ edit.op = "set" /\ edit.index \in DOMAIN items =>
               edited = [items EXCEPT ![edit.index] = edit.item]
        /\ edit.op = "remove all" => edited = <<>>
    BY DEF Edited, Values!Edited
  <1>2. edit.op = "insert" /\ edit.index \in DOMAIN items =>
            edited = (SubSeq(items, 1, edit.index - 1) \o <<edit.item>>)
                         \o SubSeq(items, edit.index, Len(items))
    BY DEF Edited, Values!Edited, Values!InsertAt
  <1>3. edit.op = "remove" /\ edit.index \in DOMAIN items =>
            edited = SubSeq(items, 1, edit.index - 1)
                         \o SubSeq(items, edit.index + 1, Len(items))
    BY DEF Edited, Values!Edited, Values!RemoveAt
  <1>4. edit.op = "remove last" /\ items # <<>> =>
            edited = SubSeq(items, 1, Len(items) - 1)
    BY DEF Edited, Values!Edited, Values!Front
  <1>5. edit.op = "reverse" =>
            edited = [i \in 1..Len(items) |-> items[(Len(items) - i) + 1]]
    BY DEF Edited, Values!Edited, Values!Reverse
  <1>6. \/ edit.op \in {"append", "remove all", "reverse"}
        \/ /\ edit.op \in {"set", "insert", "remove"}
           /\ edit.index \in DOMAIN items
        \/ edit.op = "remove last" /\ items # <<>>
        \/ edited = items
    BY DEF Edited, Values!Edited
  <1>7. \A n \in 1..Len(items) :
            /\ SubSeq(items, 1, n - 1) \in Seq(Items)
            /\ SubSeq(items, n, Len(items)) \in Seq(Items)
            /\ SubSeq(items, n + 1, Len(items)) \in Seq(Items)
    BY SubSeqProperties
  <1>8. DOMAIN items = 1..Len(items) /\ \A i \in 1..Len(items) : items[i] \in Items
    OBVIOUS
  <1>9. edit.op \in {"append", "set", "insert"} => edit.item \in Items
    BY EditsUseItems
  <1>10. CASE edit.op = "append"
    BY <1>10, <1>1, <1>9
  <1>11. CASE edit.op = "set" /\ edit.index \in DOMAIN items
    BY <1>11, <1>1, <1>9
  <1>12. CASE edit.op = "insert" /\ edit.index \in DOMAIN items
    <2>1. <<edit.item>> \in Seq(Items)
      BY <1>9, <1>12
    <2>2. /\ SubSeq(items, 1, edit.index - 1) \in Seq(Items)
          /\ SubSeq(items, edit.index, Len(items)) \in Seq(Items)
      BY <1>7, <1>8, <1>12
    <2>3. PICK before \in Seq(Items), after \in Seq(Items), new \in Seq(Items) :
              /\ before = SubSeq(items, 1, edit.index - 1)
              /\ after = SubSeq(items, edit.index, Len(items))
              /\ new = <<edit.item>>
      BY <2>1, <2>2
    <2>4. before \o new \in Seq(Items)
      BY ONLY <2>3, Concatenated
    <2>5. (before \o new) \o after \in Seq(Items)
      BY ONLY <2>3, <2>4, Concatenated
    <2>6. edited = (before \o new) \o after
      BY ONLY <1>2, <1>12, <2>3
    <2> QED  BY ONLY <2>5, <2>6
  <1>13. CASE edit.op = "remove" /\ edit.index \in DOMAIN items
    <2>1. /\ SubSeq(items, 1, edit.index - 1) \in Seq(Items)
          /\ SubSeq(items, edit.index + 1, Len(items)) \in Seq(Items)
      BY <1>7, <1>8, <1>13
    <2> QED  BY ONLY <1>3, <1>13, <2>1, Concatenated
  <1>14. CASE edit.op = "remove last" /\ items # <<>>
    <2>1. Len(items) - 1 \in 0..Len(items)
      <3>1. Len(items) \in Nat \ {0}
        BY <1>14, EmptySeq
      <3> QED  BY ONLY <3>1
    <2>2. SubSeq(items, 1, Len(items) - 1) \in Seq(Items)
      BY <2>1, SubSeqProperties
    <2> QED  BY <1>4, <1>14, <2>2
  <1>15. CASE edit.op = "reverse"
    <2>1. \A i \in 1..Len(items) : items[(Len(items) - i) + 1] \in Items
      BY <1>8
    <2>2. [i \in 1..Len(items) |-> items[(Len(items) - i) + 1]] \in Seq(Items)
      BY <2>1, LenProperties
    <2> QED  BY <1>5, <1>15, <2>2
  <1>16. CASE edit.op = "remove all"
    BY <1>1, <1>16, EmptySeq
  <1>17. CASE edited = items
    BY <1>17
  <1> QED  BY ONLY <1>6, <1>10, <1>11, <1>12, <1>13, <1>14, <1>15, <1>16, <1>17

\* A step that leaves a method, its storage and its argument alone.
LEMMA ProgressKept ==
    ASSUME NEW v \in Lists, ProgressOf(v),
           stage'[v] = stage[v], listCount'[v] = listCount[v],
           appended'[v] = appended[v], snapshot'[v] = snapshot[v],
           snapshot[v] # NoValue /\ stage[v] \in {"clone", "change"} =>
               /\ storageOf'[v] = storageOf[v]
               /\ contents'[snapshot[v]] = contents[snapshot[v]]
               /\ contents'[storageOf[v]] = contents[storageOf[v]]
    PROVE  ProgressOf(v)'
  <1>1. CASE snapshot[v] # NoValue /\ stage[v] \in {"clone", "change"}
    <2>1. /\ storageOf'[v] = storageOf[v]
          /\ contents'[snapshot[v]] = contents[snapshot[v]]
          /\ contents'[storageOf[v]] = contents[storageOf[v]]
      BY <1>1
    <2> QED  BY <2>1, <1>1 DEF ProgressOf
  <1>2. CASE ~(snapshot[v] # NoValue /\ stage[v] \in {"clone", "change"})
    BY <1>2 DEF ProgressOf
  <1> QED  BY <1>1, <1>2

\* Moving the reference of one list, or of one call, and counting it.
LEMMA ListCounted ==
    ASSUME Typed, StoragesCounted, NEW v \in Lists, snapshot' = snapshot,
           \A u \in Lists : u # v => storageOf'[u] = storageOf[u],
           \A s \in Storages : count'[s] = count[s]
               + (IF s = storageOf'[v] THEN 1 ELSE 0)
               - (IF s = storageOf[v] THEN 1 ELSE 0)
    PROVE  StoragesCounted'
  <1> SUFFICES ASSUME NEW s \in Storages, NEW f, NEW g, f = storageOf, g = storageOf'
               PROVE  count'[s] = Occurrences(g, s) + Occurrences(snapshot, s)
    BY DEF StoragesCounted
  <1>1. \A u \in Lists : u # v => g[u] = f[u]
    OBVIOUS
  <1>2. /\ g[v] = s /\ f[v] # s => Occurrences(g, s) = Occurrences(f, s) + 1
        /\ g[v] # s /\ f[v] = s => Occurrences(g, s) = Occurrences(f, s) - 1
        /\ (g[v] = s <=> f[v] = s) => Occurrences(g, s) = Occurrences(f, s)
    BY ONLY <1>1, OccurrencesChanged, v \in Lists
  <1>3. count[s] = Occurrences(f, s) + Occurrences(snapshot, s)
    BY DEF StoragesCounted
  <1>4. count'[s] = count[s] + (IF s = g[v] THEN 1 ELSE 0) - (IF s = f[v] THEN 1 ELSE 0)
    OBVIOUS
  <1>5. /\ Occurrences(f, s) \in Nat /\ Occurrences(g, s) \in Nat
        /\ Occurrences(snapshot, s) \in Nat
    BY OccurrencesNat
  <1> QED  BY ONLY <1>2, <1>3, <1>4, <1>5

\* A call changes only its own snapshot: the counts stay exact if they follow it.
LEMMA CallCounted ==
    ASSUME Typed, StoragesCounted, NEW v \in Lists, storageOf' = storageOf,
           \A u \in Lists : u # v => snapshot'[u] = snapshot[u],
           \A s \in Storages : count'[s] = count[s]
               + (IF s = snapshot'[v] THEN 1 ELSE 0)
               - (IF s = snapshot[v] THEN 1 ELSE 0)
    PROVE  StoragesCounted'
  <1> SUFFICES ASSUME NEW s \in Storages, NEW f, NEW g, f = snapshot, g = snapshot'
               PROVE  count'[s] = Occurrences(storageOf, s) + Occurrences(g, s)
    BY DEF StoragesCounted
  <1>1. \A u \in Lists : u # v => g[u] = f[u]
    OBVIOUS
  <1>2. /\ g[v] = s /\ f[v] # s => Occurrences(g, s) = Occurrences(f, s) + 1
        /\ g[v] # s /\ f[v] = s => Occurrences(g, s) = Occurrences(f, s) - 1
        /\ (g[v] = s <=> f[v] = s) => Occurrences(g, s) = Occurrences(f, s)
    BY ONLY <1>1, OccurrencesChanged, v \in Lists
  <1>3. count[s] = Occurrences(storageOf, s) + Occurrences(f, s)
    BY DEF StoragesCounted
  <1>4. count'[s] = count[s] + (IF s = g[v] THEN 1 ELSE 0) - (IF s = f[v] THEN 1 ELSE 0)
    OBVIOUS
  <1>5. /\ Occurrences(f, s) \in Nat /\ Occurrences(g, s) \in Nat
        /\ Occurrences(storageOf, s) \in Nat
    BY OccurrencesNat
  <1> QED  BY ONLY <1>2, <1>3, <1>4, <1>5

\* Creating a list keeps the invariant.
LEMMA CreateListKeeps ==
    ASSUME ListsInv, NEW v \in Lists, NEW s \in Storages, CreateList(v, s)
    PROVE  ListsInv'
  <1>1. /\ \A u \in Lists : storageOf'[u] = IF u = v THEN s ELSE storageOf[u]
        /\ \A t \in Storages : count'[t] = IF t = s THEN 1 ELSE count[t]
        /\ \A t \in Storages : contents'[t] = IF t = s THEN <<>> ELSE contents[t]
    BY DEF CreateList, ListsInv, Typed
  <1>2. /\ storageOf[v] = NoValue /\ count[s] = 0
        /\ stage' = stage /\ operation' = operation /\ snapshot' = snapshot
        /\ listCount' = listCount /\ appended' = appended
    BY DEF CreateList, HasList, Free, methodVars
  <1>3. \A u \in Lists : storageOf[u] # s /\ snapshot[u] # s
    BY <1>2, FreeUnused DEF ListsInv
  <1>4. stage[v] = "idle" /\ snapshot[v] = NoValue
    BY <1>2 DEF ListsInv, Staged
  <1>5. Typed'
    BY <1>2 DEF CreateList, ListsInv, Typed
  <1>6. StoragesCounted'
    <2>1. \A t \in Storages : count'[t] = count[t]
               + (IF t = storageOf'[v] THEN 1 ELSE 0)
               - (IF t = storageOf[v] THEN 1 ELSE 0)
      <3>1. \A t \in Storages : count[t] \in Int /\ t # storageOf[v]
        BY <1>2 DEF ListsInv, Typed
      <3> QED  BY <3>1, <1>1, <1>2
    <2>2. \A u \in Lists : u # v => storageOf'[u] = storageOf[u]
      BY <1>1
    <2> QED  BY <2>1, <2>2, <1>2, ListCounted DEF ListsInv
  <1>7. Staged'
    BY <1>1, <1>2, <1>4 DEF ListsInv, Staged
  <1>8. Exclusive'
    BY <1>1, <1>2, <1>3, <1>4 DEF ListsInv, Exclusive
  <1>9. Progressed'
    <2> SUFFICES ASSUME NEW u \in Lists  PROVE ProgressOf(u)'
      BY DEF Progressed
    <2>1. stage[u] # "idle" => storageOf[u] \in Storages /\ u # v
      BY <1>4 DEF ListsInv, Staged, Typed
    <2>2. snapshot[u] # NoValue => snapshot[u] \in Storages
      BY DEF ListsInv, Typed
    <2>3. ProgressOf(u)
      BY DEF ListsInv, Progressed
    <2> QED  BY <1>1, <1>2, <1>3, <2>1, <2>2, <2>3, ProgressKept
  <1> QED  BY <1>5, <1>6, <1>7, <1>8, <1>9 DEF ListsInv

\* A release does not touch the items of a storage that is still referenced.
LEMMA ReleasedUnseen ==
    ASSUME Typed, StoragesCounted, NEW v \in Lists, storageOf[v] # NoValue
    PROVE  /\ AfterRelease(storageOf[v]) \in Seq(Items)
           /\ \A u \in Lists :
                  /\ u # v /\ storageOf[u] = storageOf[v]
                         => AfterRelease(storageOf[v]) = contents[storageOf[v]]
                  /\ snapshot[u] = storageOf[v]
                         => AfterRelease(storageOf[v]) = contents[storageOf[v]]
  <1>1. storageOf[v] \in Storages /\ contents[storageOf[v]] \in Seq(Items)
    BY DEF Typed
  <1>2. AfterRelease(storageOf[v]) \in Seq(Items)
    BY <1>1, EmptySeq DEF AfterRelease
  <1>3. CASE count[storageOf[v]] = 1
    BY <1>2, <1>3, OnlyList
  <1>4. CASE count[storageOf[v]] # 1
    BY <1>2, <1>4 DEF AfterRelease
  <1> QED  BY <1>3, <1>4

\* Releasing a snapshot leaves the contents that others have of its storage.
LEMMA SnapshotReleasedUnseen ==
    ASSUME Typed, StoragesCounted, NEW v \in Lists, snapshot[v] # NoValue
    PROVE  /\ AfterRelease(snapshot[v]) \in Seq(Items)
           /\ \A u \in Lists :
                  /\ storageOf[u] = snapshot[v]
                         => AfterRelease(snapshot[v]) = contents[snapshot[v]]
                  /\ u # v /\ snapshot[u] = snapshot[v]
                         => AfterRelease(snapshot[v]) = contents[snapshot[v]]
  <1>1. snapshot[v] \in Storages /\ contents[snapshot[v]] \in Seq(Items)
    BY DEF Typed
  <1>2. AfterRelease(snapshot[v]) \in Seq(Items)
    BY <1>1, EmptySeq DEF AfterRelease
  <1>3. CASE count[snapshot[v]] = 1
    BY <1>2, <1>3, OnlySnapshot
  <1>4. CASE count[snapshot[v]] # 1
    BY <1>2, <1>4 DEF AfterRelease
  <1> QED  BY <1>3, <1>4

\* Copying a list keeps the invariant.
LEMMA CopyListKeeps ==
    ASSUME ListsInv, NEW v \in Lists, NEW w \in Lists, CopyList(v, w)
    PROVE  ListsInv'
  <1>1. /\ storageOf[v] # NoValue /\ stage[v] = "idle" /\ w # v /\ stage[w] = "idle"
        /\ stage' = stage /\ operation' = operation /\ snapshot' = snapshot
        /\ listCount' = listCount /\ appended' = appended
    BY DEF CopyList, Idle, HasList, methodVars
  <1>2. /\ \A u \in Lists : storageOf'[u] = IF u = w THEN storageOf[v] ELSE storageOf[u]
        /\ \A t \in Storages : count'[t] = count[t]
               + (IF t = storageOf[v] THEN 1 ELSE 0)
               - (IF t = storageOf[w] THEN 1 ELSE 0)
        /\ \A t \in Storages :
               contents'[t] = IF t = storageOf[w] /\ t # storageOf[v]
                              THEN AfterRelease(t) ELSE contents[t]
    BY DEF CopyList, ListsInv, Typed
  <1>3. storageOf[w] # NoValue =>
            /\ AfterRelease(storageOf[w]) \in Seq(Items)
            /\ \A u \in Lists :
                  /\ u # w /\ storageOf[u] = storageOf[w]
                         => AfterRelease(storageOf[w]) = contents[storageOf[w]]
                  /\ snapshot[u] = storageOf[w]
                         => AfterRelease(storageOf[w]) = contents[storageOf[w]]
    BY ReleasedUnseen DEF ListsInv
  <1>4. Typed'
    <2>1. storageOf' \in [Lists -> Storages \cup {NoValue}]
      BY <1>1 DEF CopyList, ListsInv, Typed
    <2>2. count' \in [Storages -> Int]
      BY DEF CopyList, ListsInv, Typed
    <2>3. contents' \in [Storages -> Seq(Items)]
      <3>1. \A t \in Storages : contents'[t] \in Seq(Items)
        <4>1. \A t \in Storages : contents[t] \in Seq(Items) /\ t # NoValue
          BY DEF ListsInv, Typed
        <4> QED  BY <4>1, <1>2, <1>3
      <3>2. contents' = [t \in Storages |-> contents'[t]]
        BY DEF CopyList
      <3> QED  BY <3>1, <3>2
    <2> QED  BY <2>1, <2>2, <2>3, <1>1 DEF ListsInv, Typed
  <1>5. StoragesCounted'
    <2>1. /\ \A u \in Lists : u # w => storageOf'[u] = storageOf[u]
          /\ storageOf'[w] = storageOf[v]
      BY <1>2
    <2>2. \A t \in Storages : count'[t] = count[t]
               + (IF t = storageOf'[w] THEN 1 ELSE 0)
               - (IF t = storageOf[w] THEN 1 ELSE 0)
      BY <1>2, <2>1
    <2> QED  BY <2>1, <2>2, <1>1, ListCounted DEF ListsInv
  <1>6. Staged'
    BY <1>1, <1>2 DEF ListsInv, Staged
  <1>7. Exclusive'
    BY <1>1, <1>2 DEF ListsInv, Exclusive
  <1>8. Progressed'
    <2> SUFFICES ASSUME NEW u \in Lists  PROVE ProgressOf(u)'
      BY DEF Progressed
    <2>1. stage[u] # "idle" => storageOf[u] \in Storages /\ u # w /\ u # v
      BY <1>1 DEF ListsInv, Staged, Typed
    <2>2. snapshot[u] # NoValue => snapshot[u] \in Storages
      BY DEF ListsInv, Typed
    <2>3. ProgressOf(u)
      BY DEF ListsInv, Progressed
    <2>4. stage[u] # "idle" =>
              /\ storageOf'[u] = storageOf[u]
              /\ contents'[storageOf[u]] = contents[storageOf[u]]
      BY <1>2, <1>3, <2>1
    <2>5. snapshot[u] # NoValue => contents'[snapshot[u]] = contents[snapshot[u]]
      BY <1>2, <1>3, <2>2
    <2> QED  BY <1>1, <2>3, <2>4, <2>5, ProgressKept
  <1> QED  BY <1>4, <1>5, <1>6, <1>7, <1>8 DEF ListsInv

\* Dropping a list keeps the invariant.
LEMMA DropListKeeps ==
    ASSUME ListsInv, NEW v \in Lists, DropList(v)
    PROVE  ListsInv'
  <1>1. /\ storageOf[v] \in Storages /\ storageOf[v] # NoValue /\ stage[v] = "idle"
        /\ stage' = stage /\ operation' = operation /\ snapshot' = snapshot
        /\ listCount' = listCount /\ appended' = appended
    BY DEF DropList, Idle, HasList, methodVars, ListsInv, Typed
  <1>2. /\ \A u \in Lists : storageOf'[u] = IF u = v THEN NoValue ELSE storageOf[u]
        /\ \A t \in Storages :
               count'[t] = IF t = storageOf[v] THEN count[t] - 1 ELSE count[t]
        /\ \A t \in Storages :
               contents'[t] = IF t = storageOf[v] THEN AfterRelease(t) ELSE contents[t]
    BY DEF DropList, ListsInv, Typed
  <1>3. /\ AfterRelease(storageOf[v]) \in Seq(Items)
        /\ \A u \in Lists :
              /\ u # v /\ storageOf[u] = storageOf[v]
                     => AfterRelease(storageOf[v]) = contents[storageOf[v]]
              /\ snapshot[u] = storageOf[v]
                     => AfterRelease(storageOf[v]) = contents[storageOf[v]]
    BY <1>1, ReleasedUnseen DEF ListsInv
  <1>4. Typed'
    BY <1>1, <1>3 DEF DropList, ListsInv, Typed
  <1>5. StoragesCounted'
    <2>1. /\ \A u \in Lists : u # v => storageOf'[u] = storageOf[u]
          /\ storageOf'[v] = NoValue
      BY <1>2
    <2>2. \A t \in Storages : count'[t] = count[t]
               + (IF t = storageOf'[v] THEN 1 ELSE 0)
               - (IF t = storageOf[v] THEN 1 ELSE 0)
      <3>1. \A t \in Storages : count[t] \in Int /\ t # NoValue
        BY DEF ListsInv, Typed
      <3> QED  BY <3>1, <1>2, <2>1
    <2> QED  BY <2>1, <2>2, <1>1, ListCounted DEF ListsInv
  <1>6. Staged'
    BY <1>1, <1>2 DEF ListsInv, Staged
  <1>7. Exclusive'
    <2>1. \A u \in Lists : stage[u] = "change" => storageOf[u] # NoValue
      BY DEF ListsInv, Staged
    <2> QED  BY <2>1, <1>1, <1>2 DEF ListsInv, Exclusive
  <1>8. Progressed'
    <2> SUFFICES ASSUME NEW u \in Lists  PROVE ProgressOf(u)'
      BY DEF Progressed
    <2>1. stage[u] # "idle" => storageOf[u] \in Storages /\ u # v
      BY <1>1 DEF ListsInv, Staged, Typed
    <2>2. snapshot[u] # NoValue => snapshot[u] \in Storages
      BY DEF ListsInv, Typed
    <2>3. ProgressOf(u)
      BY DEF ListsInv, Progressed
    <2>4. stage[u] # "idle" =>
              /\ storageOf'[u] = storageOf[u]
              /\ contents'[storageOf[u]] = contents[storageOf[u]]
      BY <1>2, <1>3, <2>1
    <2>5. snapshot[u] # NoValue => contents'[snapshot[u]] = contents[snapshot[u]]
      BY <1>2, <1>3, <2>2
    <2> QED  BY <1>1, <2>3, <2>4, <2>5, ProgressKept
  <1> QED  BY <1>4, <1>5, <1>6, <1>7, <1>8 DEF ListsInv

\* Calling a mutating method keeps the invariant.
LEMMA CallMethodKeeps ==
    ASSUME ListsInv, NEW v \in Lists, NEW edit \in Edits, CallMethod(v, edit)
    PROVE  ListsInv'
  <1>1. /\ storageOf[v] # NoValue /\ stage[v] = "idle"
        /\ storageOf' = storageOf /\ count' = count /\ contents' = contents
        /\ snapshot' = snapshot /\ listCount' = listCount /\ appended' = appended
    BY DEF CallMethod, Idle, HasList, storageVars
  <1>2. /\ \A u \in Lists : stage'[u] = IF u = v THEN "call" ELSE stage[u]
        /\ \A u \in Lists : operation'[u] = IF u = v THEN edit ELSE operation[u]
    BY DEF CallMethod, ListsInv, Typed
  <1>3. snapshot[v] = NoValue
    BY <1>1 DEF ListsInv, Staged
  <1>4. Typed'
    BY <1>1 DEF CallMethod, ListsInv, Typed
  <1>5. StoragesCounted'
    BY <1>1 DEF ListsInv, StoragesCounted, Occurrences
  <1>6. Staged'
    BY <1>1, <1>2, <1>3 DEF ListsInv, Staged
  <1>7. Exclusive'
    BY <1>1, <1>2 DEF ListsInv, Exclusive
  <1>8. Progressed'
    <2> SUFFICES ASSUME NEW u \in Lists  PROVE ProgressOf(u)'
      BY DEF Progressed
    <2>1. CASE u = v
      BY <2>1, <1>1, <1>3 DEF ProgressOf
    <2>2. CASE u # v
      <3>1. ProgressOf(u)
        BY DEF ListsInv, Progressed
      <3> QED  BY <3>1, <2>2, <1>1, <1>2, ProgressKept
    <2> QED  BY <2>1, <2>2
  <1> QED  BY <1>4, <1>5, <1>6, <1>7, <1>8 DEF ListsInv

\* Calling the method that appends another list keeps the invariant.
LEMMA CallExtendKeeps ==
    ASSUME ListsInv, NEW v \in Lists, NEW w \in Lists, CallExtend(v, w)
    PROVE  ListsInv'
  <1>1. /\ storageOf[v] # NoValue /\ stage[v] = "idle"
        /\ storageOf[w] # NoValue /\ stage[w] = "idle"
        /\ storageOf' = storageOf /\ contents' = contents /\ operation' = operation
        /\ listCount' = listCount /\ appended' = appended
    BY DEF CallExtend, Idle, HasList
  <1>2. /\ \A u \in Lists : stage'[u] = IF u = v THEN "call" ELSE stage[u]
        /\ \A u \in Lists : snapshot'[u] = IF u = v THEN storageOf[w] ELSE snapshot[u]
        /\ \A t \in Storages :
               count'[t] = IF t = storageOf[w] THEN count[t] + 1 ELSE count[t]
    BY DEF CallExtend, ListsInv, Typed
  <1>3. snapshot[v] = NoValue
    BY <1>1 DEF ListsInv, Staged
  <1>4. Typed'
    <2>1. storageOf[w] \in Storages
      BY <1>1 DEF ListsInv, Typed
    <2> QED  BY <1>1, <2>1 DEF CallExtend, ListsInv, Typed
  <1>5. StoragesCounted'
    <2>1. /\ \A u \in Lists : u # v => snapshot'[u] = snapshot[u]
          /\ snapshot'[v] = storageOf[w]
      BY <1>2
    <2>2. \A t \in Storages : count'[t] = count[t]
               + (IF t = snapshot'[v] THEN 1 ELSE 0)
               - (IF t = snapshot[v] THEN 1 ELSE 0)
      <3>1. \A t \in Storages : count[t] \in Int /\ t # NoValue
        BY DEF ListsInv, Typed
      <3> QED  BY <3>1, <1>2, <1>3, <2>1
    <2> QED  BY <2>1, <2>2, <1>1, CallCounted DEF ListsInv
  <1>6. Staged'
    BY <1>1, <1>2 DEF ListsInv, Staged
  <1>7. Exclusive'
    <2> SUFFICES ASSUME NEW u \in Lists, NEW x \in Lists, stage'[x] = "change"
                 PROVE  /\ u # x => storageOf'[u] # storageOf'[x]
                        /\ snapshot'[u] # storageOf'[x]
      BY DEF Exclusive
    <2>1. x # v /\ stage[x] = "change" /\ x # w
      BY <1>1, <1>2
    <2>2. /\ u # x => storageOf[u] # storageOf[x]
          /\ snapshot[u] # storageOf[x]
          /\ storageOf[w] # storageOf[x]
      BY <2>1 DEF ListsInv, Exclusive
    <2> QED  BY <2>2, <1>1, <1>2
  <1>8. Progressed'
    <2> SUFFICES ASSUME NEW u \in Lists  PROVE ProgressOf(u)'
      BY DEF Progressed
    <2>1. CASE u = v
      <3>1. stage'[v] = "call"
        BY <1>2
      <3> QED  BY <2>1, <3>1 DEF ProgressOf
    <2>2. CASE u # v
      <3>1. ProgressOf(u)
        BY DEF ListsInv, Progressed
      <3> QED  BY <3>1, <2>2, <1>1, <1>2, ProgressKept
    <2> QED  BY <2>1, <2>2
  <1> QED  BY <1>4, <1>5, <1>6, <1>7, <1>8 DEF ListsInv

\* Before anything was appended.
LEMMA NothingAppended ==
    ASSUME NEW items \in Seq(Items), NEW argument \in Seq(Items)
    PROVE  Grown(items, argument, 0)
  <1>1. SubSeq(items, 1, Len(items) - 0) = items
    OBVIOUS
  <1>2. SubSeq(argument, 1, 0) = <<>>
    OBVIOUS
  <1> QED  BY <1>1, <1>2, ConcatEmptySeq DEF Grown, Before

\* Comparing the count before a mutation keeps the invariant.
LEMMA PrepareForMutationKeeps ==
    ASSUME ListsInv, NEW v \in Lists, PrepareForMutation(v)
    PROVE  ListsInv'
  <1>1. /\ stage[v] = "call"
        /\ storageOf' = storageOf /\ count' = count /\ contents' = contents
        /\ snapshot' = snapshot /\ operation' = operation /\ appended' = appended
    BY DEF PrepareForMutation, storageVars
  <1>2. /\ \A u \in Lists : u # v => stage'[u] = stage[u]
        /\ stage'[v] = IF count[storageOf[v]] = 1 THEN "change" ELSE "clone"
        /\ \A u \in Lists : u # v => listCount'[u] = listCount[u]
        /\ snapshot[v] # NoValue => listCount'[v] = Len(contents[snapshot[v]])
    BY DEF PrepareForMutation, ejcIsOnlyReference, ListsInv, Typed
  <1>3. storageOf[v] \in Storages /\ storageOf[v] # NoValue /\ appended[v] = 0
    BY <1>1 DEF ListsInv, Staged, Typed
  <1>4. Typed'
    <2>1. snapshot[v] # NoValue => Len(contents[snapshot[v]]) \in Nat
      BY LenProperties DEF ListsInv, Typed
    <2>2. stage' \in [Lists -> {"idle", "call", "clone", "change", "return"}]
      BY DEF PrepareForMutation, ListsInv, Typed
    <2>3. listCount' \in [Lists -> Nat]
      BY <2>1 DEF PrepareForMutation, ListsInv, Typed
    <2> QED  BY <2>2, <2>3, <1>1 DEF ListsInv, Typed
  <1>5. StoragesCounted'
    BY <1>1 DEF ListsInv, StoragesCounted, Occurrences
  <1>6. Staged'
    BY <1>1, <1>2, <1>3 DEF ListsInv, Staged
  <1>7. Exclusive'
    <2> SUFFICES ASSUME NEW u \in Lists, NEW x \in Lists, stage'[x] = "change"
                 PROVE  /\ u # x => storageOf[u] # storageOf[x]
                        /\ snapshot[u] # storageOf[x]
      BY <1>1 DEF Exclusive
    <2>1. CASE x = v
      <3>1. count[storageOf[v]] = 1
        BY <2>1, <1>2
      <3> QED  BY <2>1, <3>1, <1>3, OnlyList DEF ListsInv
    <2>2. CASE x # v
      BY <2>2, <1>2 DEF ListsInv, Exclusive
    <2> QED  BY <2>1, <2>2
  <1>8. Progressed'
    <2> SUFFICES ASSUME NEW u \in Lists  PROVE ProgressOf(u)'
      BY DEF Progressed
    <2>1. CASE u = v
      <3>1. CASE snapshot[v] # NoValue
        <4>1. contents[storageOf[v]] \in Seq(Items) /\ contents[snapshot[v]] \in Seq(Items)
          BY <1>3, <3>1 DEF ListsInv, Typed
        <4>2. /\ Len(contents[storageOf[v]]) \in Nat
              /\ Len(contents[snapshot[v]]) \in Nat
          BY <4>1, LenProperties
        <4>3. Grown(contents[storageOf[v]], contents[snapshot[v]], appended[v])
          BY <4>1, <1>3, NothingAppended
        <4> QED  BY <2>1, <4>2, <4>3, <1>1, <1>2, <1>3, <3>1 DEF ProgressOf
      <3>2. CASE snapshot[v] = NoValue
        BY <2>1, <3>2, <1>1 DEF ProgressOf
      <3> QED  BY <3>1, <3>2
    <2>2. CASE u # v
      <3>1. ProgressOf(u)
        BY DEF ListsInv, Progressed
      <3> QED  BY <3>1, <2>2, <1>1, <1>2, ProgressKept
    <2> QED  BY <2>1, <2>2
  <1> QED  BY <1>4, <1>5, <1>6, <1>7, <1>8 DEF ListsInv

\* Cloning the storage keeps the invariant.
LEMMA CloneStorageKeeps ==
    ASSUME ListsInv, NEW v \in Lists, NEW s \in Storages, CloneStorage(v, s)
    PROVE  ListsInv'
  <1>1. /\ stage[v] = "clone" /\ count[s] = 0
        /\ operation' = operation /\ snapshot' = snapshot
        /\ listCount' = listCount /\ appended' = appended
    BY DEF CloneStorage, Free
  <1>2. storageOf[v] \in Storages /\ storageOf[v] # NoValue /\ appended[v] = 0
    BY <1>1 DEF ListsInv, Staged, Typed
  <1>3. \A u \in Lists : storageOf[u] # s /\ snapshot[u] # s
    BY <1>1, FreeUnused DEF ListsInv
  <1>4. /\ \A u \in Lists : storageOf'[u] = IF u = v THEN s ELSE storageOf[u]
        /\ \A u \in Lists : stage'[u] = IF u = v THEN "change" ELSE stage[u]
        /\ \A t \in Storages :
               count'[t] = IF t = storageOf[v] THEN count[t] - 1
                           ELSE IF t = s THEN 1 ELSE count[t]
        /\ \A t \in Storages :
               contents'[t] = IF t = storageOf[v] THEN AfterRelease(t)
                              ELSE IF t = s THEN contents[storageOf[v]]
                              ELSE contents[t]
    BY <1>2, <1>3 DEF CloneStorage, ListsInv, Typed
  <1>5. /\ AfterRelease(storageOf[v]) \in Seq(Items)
        /\ \A u \in Lists :
              /\ u # v /\ storageOf[u] = storageOf[v]
                     => AfterRelease(storageOf[v]) = contents[storageOf[v]]
              /\ snapshot[u] = storageOf[v]
                     => AfterRelease(storageOf[v]) = contents[storageOf[v]]
    BY <1>2, ReleasedUnseen DEF ListsInv
  <1>6. Typed'
    <2>1. contents' \in [Storages -> Seq(Items)]
      BY <1>2, <1>5 DEF CloneStorage, ListsInv, Typed
    <2>2. count' \in [Storages -> Int]
      BY <1>2, <1>3 DEF CloneStorage, ListsInv, Typed
    <2>3. /\ storageOf' \in [Lists -> Storages \cup {NoValue}]
          /\ stage' \in [Lists -> {"idle", "call", "clone", "change", "return"}]
      BY DEF CloneStorage, ListsInv, Typed
    <2> QED  BY <2>1, <2>2, <2>3, <1>1 DEF ListsInv, Typed
  <1>7. StoragesCounted'
    <2>1. /\ \A u \in Lists : u # v => storageOf'[u] = storageOf[u]
          /\ storageOf'[v] = s
      BY <1>4
    <2>2. \A t \in Storages : count'[t] = count[t]
               + (IF t = storageOf'[v] THEN 1 ELSE 0)
               - (IF t = storageOf[v] THEN 1 ELSE 0)
      <3>1. \A t \in Storages : count[t] \in Int
        BY DEF ListsInv, Typed
      <3> QED  BY <3>1, <1>1, <1>3, <1>4, <2>1
    <2> QED  BY <2>1, <2>2, <1>1, ListCounted DEF ListsInv
  <1>8. Staged'
    <2>1. \A u \in Lists : u # v => storageOf'[u] = storageOf[u] /\ stage'[u] = stage[u]
      BY <1>4
    <2>2. storageOf'[v] # NoValue /\ stage'[v] = "change"
      BY <1>4
    <2> QED  BY <2>1, <2>2, <1>1, <1>2 DEF ListsInv, Staged
  <1>9. Exclusive'
    <2> SUFFICES ASSUME NEW u \in Lists, NEW x \in Lists, stage'[x] = "change"
                 PROVE  /\ u # x => storageOf'[u] # storageOf'[x]
                        /\ snapshot[u] # storageOf'[x]
      BY <1>1 DEF Exclusive
    <2>1. CASE x = v
      BY <2>1, <1>3, <1>4
    <2>2. CASE x # v
      <3>1. /\ u # x => storageOf[u] # storageOf[x]
            /\ snapshot[u] # storageOf[x]
        BY <2>2, <1>4 DEF ListsInv, Exclusive
      <3> QED  BY <2>2, <3>1, <1>3, <1>4
    <2> QED  BY <2>1, <2>2
  <1>10. Progressed'
    <2> SUFFICES ASSUME NEW u \in Lists  PROVE ProgressOf(u)'
      BY DEF Progressed
    <2>1. snapshot[u] # NoValue =>
              snapshot[u] \in Storages /\ contents'[snapshot[u]] = contents[snapshot[u]]
      <3>1. snapshot[u] # NoValue => snapshot[u] \in Storages
        BY DEF ListsInv, Typed
      <3> QED  BY <3>1, <1>3, <1>4, <1>5
    <2>2. ProgressOf(u)
      BY DEF ListsInv, Progressed
    <2>3. CASE u = v
      <3>1. CASE snapshot[v] # NoValue
        <4>1. contents'[storageOf'[v]] = contents[storageOf[v]]
          BY <1>2, <1>3, <1>4
        <4>2. contents[storageOf[v]] \in Seq(Items) /\ contents[snapshot[v]] \in Seq(Items)
          BY <1>2, <3>1, <2>1, <2>3 DEF ListsInv, Typed
        <4>3. /\ Len(contents[storageOf[v]]) \in Nat
              /\ Len(contents[snapshot[v]]) \in Nat
          BY <4>2, LenProperties
        <4>4. Grown(contents[storageOf[v]], contents[snapshot[v]], appended[v])
          BY <4>2, <1>2, NothingAppended
        <4>5. listCount[v] = Len(contents[snapshot[v]])
          BY <2>2, <2>3, <3>1, <1>1 DEF ProgressOf
        <4>6. /\ appended'[v] <= listCount'[v]
              /\ appended'[v] <= Len(contents'[storageOf'[v]])
          BY <4>1, <4>3, <4>5, <1>1, <1>2
        <4> QED  BY <4>1, <4>4, <4>5, <4>6, <1>1, <2>1, <2>3 DEF ProgressOf
      <3>2. CASE snapshot[v] = NoValue
        BY <2>3, <3>2, <1>1 DEF ProgressOf
      <3> QED  BY <3>1, <3>2
    <2>4. CASE u # v
      <3>1. stage[u] # "idle" => storageOf[u] \in Storages
        BY DEF ListsInv, Staged, Typed
      <3>2. stage[u] # "idle" =>
                /\ storageOf'[u] = storageOf[u]
                /\ contents'[storageOf[u]] = contents[storageOf[u]]
        BY <2>4, <3>1, <1>3, <1>4, <1>5
      <3> QED  BY <2>1, <2>2, <2>4, <3>2, <1>1, <1>4, ProgressKept
    <2> QED  BY <2>3, <2>4
  <1> QED  BY <1>6, <1>7, <1>8, <1>9, <1>10 DEF ListsInv

\* The mutation itself keeps the invariant.
LEMMA ChangeItemsKeeps ==
    ASSUME ListsInv, NEW v \in Lists, ChangeItems(v)
    PROVE  ListsInv'
  <1>1. /\ stage[v] = "change" /\ snapshot[v] = NoValue
        /\ storageOf' = storageOf /\ count' = count
        /\ snapshot' = snapshot /\ listCount' = listCount /\ appended' = appended
    BY DEF ChangeItems
  <1>2. /\ storageOf[v] \in Storages /\ operation[v] \in Edits
        /\ contents[storageOf[v]] \in Seq(Items) /\ appended[v] = 0
    BY <1>1 DEF ListsInv, Staged, Typed
  <1>3. /\ \A u \in Lists : stage'[u] = IF u = v THEN "idle" ELSE stage[u]
        /\ \A t \in Storages : t # storageOf[v] => contents'[t] = contents[t]
    BY DEF ChangeItems, ListsInv, Typed
  <1>4. Typed'
    <2>1. Edited(operation[v], contents[storageOf[v]]) \in Seq(Items)
      BY <1>2, EditedIsASequence
    <2>2. contents' \in [Storages -> Seq(Items)]
      BY <2>1 DEF ChangeItems, ListsInv, Typed
    <2>3. /\ stage' \in [Lists -> {"idle", "call", "clone", "change", "return"}]
          /\ operation' \in [Lists -> Edits \cup {NoValue}]
      BY DEF ChangeItems, ListsInv, Typed
    <2> QED  BY <2>2, <2>3, <1>1 DEF ListsInv, Typed
  <1>5. StoragesCounted'
    BY <1>1 DEF ListsInv, StoragesCounted, Occurrences
  <1>6. Staged'
    <2>1. \A u \in Lists : u # v => operation'[u] = operation[u]
      BY DEF ChangeItems, ListsInv, Typed
    <2> QED  BY <2>1, <1>1, <1>2, <1>3 DEF ListsInv, Staged
  <1>7. Exclusive'
    BY <1>1, <1>3 DEF ListsInv, Exclusive
  <1>8. Progressed'
    <2> SUFFICES ASSUME NEW u \in Lists  PROVE ProgressOf(u)'
      BY DEF Progressed
    <2>1. CASE u = v
      BY <2>1, <1>1 DEF ProgressOf
    <2>2. CASE u # v
      <3>1. ProgressOf(u)
        BY DEF ListsInv, Progressed
      <3>2. storageOf[u] # storageOf[v] /\ snapshot[u] # storageOf[v]
        BY <2>2, <1>1 DEF ListsInv, Exclusive
      <3>3. /\ snapshot[u] # NoValue => snapshot[u] \in Storages
            /\ stage[u] # "idle" => storageOf[u] \in Storages
        BY DEF ListsInv, Typed, Staged
      <3> QED  BY <3>1, <3>2, <3>3, <2>2, <1>1, <1>3, ProgressKept
    <2> QED  BY <2>1, <2>2
  <1> QED  BY <1>4, <1>5, <1>6, <1>7, <1>8 DEF ListsInv

\* Appending the next item of the argument.
LEMMA PrefixKept ==
    ASSUME NEW items \in Seq(Items), NEW item \in Items, NEW k \in 0..Len(items)
    PROVE  SubSeq(Append(items, item), 1, k) = SubSeq(items, 1, k)
  <1>1. \A i \in 1..k : Append(items, item)[i] = items[i]
    BY LenProperties
  <1>2. /\ SubSeq(Append(items, item), 1, k) = [i \in 1..k |-> Append(items, item)[i]]
        /\ SubSeq(items, 1, k) = [i \in 1..k |-> items[i]]
    OBVIOUS
  <1> QED  BY <1>1, <1>2

\* A prefix of a sequence of items is one.
LEMMA PrefixIsASequence ==
    \A s \in Seq(Items) : \A k \in 0..Len(s) : SubSeq(s, 1, k) \in Seq(Items)
  BY SubSeqProperties, LenProperties

\* Concatenation is associative.
LEMMA Associative == \A s, t, u \in Seq(Items) : (s \o t) \o u = s \o (t \o u)
  BY ConcatAssociative

\* Appending an item concatenates it.
LEMMA AppendedIsConcatenated == \A s \in Seq(Items), x \in Items : Append(s, x) = s \o <<x>>
  OBVIOUS

\* One more item of the argument extends what was appended, behind the same items as before.
LEMMA OneMoreAppended ==
    ASSUME NEW items \in Seq(Items), NEW argument \in Seq(Items), NEW n \in Nat,
           n < Len(argument), n <= Len(items), Grown(items, argument, n)
    PROVE  /\ Before(Append(items, argument[n + 1]), n + 1) = Before(items, n)
           /\ Grown(Append(items, argument[n + 1]), argument, n + 1)
  <1> SUFFICES ASSUME NEW longer, longer = Append(items, argument[n + 1])
               PROVE  /\ Before(longer, n + 1) = Before(items, n)
                      /\ Grown(longer, argument, n + 1)
    OBVIOUS
  <1>0. items = SubSeq(items, 1, Len(items) - n) \o SubSeq(argument, 1, n)
    BY DEF Grown, Before
  <1>1. Len(items) \in Nat /\ Len(argument) \in Nat /\ argument[n + 1] \in Items
    BY LenProperties, ElementOfSeq
  <1>2. Len(longer) = Len(items) + 1
    BY <1>1
  <1>3. Len(longer) - (n + 1) = Len(items) - n /\ Len(items) - n \in 0..Len(items)
    BY ONLY <1>1, <1>2, n \in Nat, n <= Len(items)
  <1>4. SubSeq(longer, 1, Len(items) - n) = SubSeq(items, 1, Len(items) - n)
    BY <1>1, <1>3, PrefixKept
  <1>5. SubSeq(argument, 1, n + 1) = SubSeq(argument, 1, n) \o <<argument[n + 1]>>
    <2>1. 1 \in 1..Len(argument) /\ n + 1 \in 1..Len(argument) /\ (n + 1) - 1 = n
      BY <1>1
    <2>2. SubSeq(argument, 1, n + 1) =
              SubSeq(argument, 1, (n + 1) - 1) \o <<argument[n + 1]>>
      BY <2>1, SubSeqRecursiveSecond
    <2> QED  BY <2>1, <2>2
  <1>6. /\ SubSeq(items, 1, Len(items) - n) \in Seq(Items)
        /\ SubSeq(argument, 1, n) \in Seq(Items)
        /\ <<argument[n + 1]>> \in Seq(Items)
    <2>1. Len(items) - n \in 0..Len(items) /\ n \in 0..Len(argument)
      BY ONLY <1>1, <1>3, n \in Nat, n < Len(argument)
    <2>2. SubSeq(items, 1, Len(items) - n) \in Seq(Items)
      BY <2>1, PrefixIsASequence
    <2>3. SubSeq(argument, 1, n) \in Seq(Items)
      BY <2>1, PrefixIsASequence
    <2>4. \A x \in Items : <<x>> \in Seq(Items)
      OBVIOUS
    <2> QED  BY ONLY <1>1, <2>2, <2>3, <2>4
  <1>7. longer = items \o <<argument[n + 1]>>
    BY <1>1, AppendedIsConcatenated
  <1>8. longer = (SubSeq(items, 1, Len(items) - n) \o SubSeq(argument, 1, n))
                     \o <<argument[n + 1]>>
    BY <1>0, <1>7
  <1>9. longer = SubSeq(items, 1, Len(items) - n)
                     \o (SubSeq(argument, 1, n) \o <<argument[n + 1]>>)
    <2>1. PICK front, part, last : /\ front = SubSeq(items, 1, Len(items) - n)
                                   /\ part = SubSeq(argument, 1, n)
                                   /\ last = <<argument[n + 1]>>
      OBVIOUS
    <2>2. front \in Seq(Items) /\ part \in Seq(Items) /\ last \in Seq(Items)
      BY ONLY <1>6, <2>1
    <2>3. (front \o part) \o last = front \o (part \o last)
      BY ONLY <2>2, Associative, SMTT(30)
    <2> QED  BY ONLY <1>8, <2>1, <2>3
  <1> QED  BY ONLY <1>3, <1>4, <1>5, <1>9 DEF Grown, Before

\* Appending one item of the argument keeps the invariant.
LEMMA AppendItemKeeps ==
    ASSUME ListsInv, NEW v \in Lists, AppendItem(v)
    PROVE  /\ ListsInv'
           /\ Before(contents'[storageOf[v]], appended[v] + 1) =
                  Before(contents[storageOf[v]], appended[v])
  <1>1. /\ stage[v] = "change" /\ snapshot[v] # NoValue /\ appended[v] < listCount[v]
        /\ storageOf' = storageOf /\ count' = count /\ stage' = stage
        /\ operation' = operation /\ snapshot' = snapshot /\ listCount' = listCount
    BY DEF AppendItem
  <1>2. /\ storageOf[v] \in Storages /\ snapshot[v] \in Storages
        /\ contents[storageOf[v]] \in Seq(Items) /\ contents[snapshot[v]] \in Seq(Items)
        /\ appended[v] \in Nat /\ listCount[v] \in Nat
        /\ snapshot[v] # storageOf[v]
    BY <1>1 DEF ListsInv, Staged, Typed, Exclusive
  <1>3. /\ listCount[v] = Len(contents[snapshot[v]])
        /\ appended[v] <= Len(contents[storageOf[v]])
        /\ Grown(contents[storageOf[v]], contents[snapshot[v]], appended[v])
    BY <1>1 DEF ListsInv, Progressed, ProgressOf
  <1>4. /\ \A u \in Lists : appended'[u] = IF u = v THEN appended[v] + 1 ELSE appended[u]
        /\ \A t \in Storages : t # storageOf[v] => contents'[t] = contents[t]
    BY DEF AppendItem, ListsInv, Typed
  <1>5. contents'[storageOf[v]] =
            Append(contents[storageOf[v]], contents[snapshot[v]][appended[v] + 1])
    <2>1. appended[v] + 1 \in DOMAIN contents[snapshot[v]]
      BY <1>1, <1>2, <1>3, LenProperties
    <2>2. ItemAt(snapshot[v], appended[v] + 1) = contents[snapshot[v]][appended[v] + 1]
      BY <2>1 DEF ItemAt
    <2> QED  BY <1>2, <2>2 DEF AppendItem, ListsInv, Typed
  <1>6. PICK items, argument, n, longer :
            /\ items = contents[storageOf[v]] /\ argument = contents[snapshot[v]]
            /\ n = appended[v] /\ longer = contents'[storageOf[v]]
    OBVIOUS
  <1>7. /\ items \in Seq(Items) /\ argument \in Seq(Items) /\ n \in Nat
        /\ n < Len(argument) /\ n <= Len(items)
        /\ Grown(items, argument, n) /\ longer = Append(items, argument[n + 1])
    BY <1>1, <1>2, <1>3, <1>5, <1>6
  <1>8. Before(longer, n + 1) = Before(items, n) /\ Grown(longer, argument, n + 1)
    BY ONLY <1>7, OneMoreAppended
  <1>9. longer \in Seq(Items) /\ Len(longer) = Len(items) + 1 /\ Len(items) \in Nat
    <2>1. argument[n + 1] \in Items
      BY <1>7, ElementOfSeq, LenProperties
    <2> QED  BY <1>7, <2>1
  <1>10. Typed'
    <2>1. contents' \in [Storages -> Seq(Items)]
      <3>1. contents' = [contents EXCEPT ![storageOf[v]] = longer]
        BY <1>2, <1>6 DEF AppendItem, ListsInv, Typed
      <3> QED  BY <3>1, <1>9 DEF ListsInv, Typed
    <2>2. appended' \in [Lists -> Nat]
      BY <1>2 DEF AppendItem, ListsInv, Typed
    <2> QED  BY <2>1, <2>2, <1>1 DEF ListsInv, Typed
  <1>11. StoragesCounted'
    BY <1>1 DEF ListsInv, StoragesCounted, Occurrences
  <1>12. Staged'
    BY <1>1, <1>4 DEF ListsInv, Staged
  <1>13. Exclusive'
    BY <1>1 DEF ListsInv, Exclusive
  <1>14. Progressed'
    <2> SUFFICES ASSUME NEW u \in Lists  PROVE ProgressOf(u)'
      BY DEF Progressed
    <2>1. CASE u = v
      <3>1. /\ contents'[storageOf'[u]] = longer /\ contents'[snapshot'[u]] = argument
            /\ appended'[u] = n + 1 /\ listCount'[u] = Len(argument)
        BY <2>1, <1>1, <1>2, <1>3, <1>4, <1>6
      <3>2. n + 1 <= Len(argument) /\ n + 1 <= Len(longer)
        BY <1>7, <1>9, LenProperties
      <3> QED  BY <3>1, <3>2, <1>8 DEF ProgressOf
    <2>2. CASE u # v
      <3>1. ProgressOf(u)
        BY DEF ListsInv, Progressed
      <3>2. storageOf[u] # storageOf[v] /\ snapshot[u] # storageOf[v]
        BY <2>2, <1>1 DEF ListsInv, Exclusive
      <3>3. /\ snapshot[u] # NoValue => snapshot[u] \in Storages
            /\ stage[u] # "idle" => storageOf[u] \in Storages
        BY DEF ListsInv, Typed, Staged
      <3> QED  BY <3>1, <3>2, <3>3, <2>2, <1>1, <1>4, ProgressKept
    <2> QED  BY <2>1, <2>2
  <1>15. ListsInv'
    BY <1>10, <1>11, <1>12, <1>13, <1>14 DEF ListsInv
  <1> QED  BY <1>15, <1>8, <1>6

\* The end of the iteration keeps the invariant.
LEMMA EndExtendKeeps ==
    ASSUME ListsInv, NEW v \in Lists, EndExtend(v)
    PROVE  ListsInv'
  <1>1. /\ stage[v] = "change" /\ snapshot[v] # NoValue
        /\ storageOf' = storageOf /\ count' = count /\ contents' = contents
        /\ operation' = operation /\ snapshot' = snapshot
    BY DEF EndExtend, storageVars
  <1>2. /\ \A u \in Lists : stage'[u] = IF u = v THEN "return" ELSE stage[u]
        /\ \A u \in Lists : listCount'[u] = IF u = v THEN 0 ELSE listCount[u]
        /\ \A u \in Lists : appended'[u] = IF u = v THEN 0 ELSE appended[u]
    BY DEF EndExtend, ListsInv, Typed
  <1>3. Typed'
    BY <1>1 DEF EndExtend, ListsInv, Typed
  <1>4. StoragesCounted'
    BY <1>1 DEF ListsInv, StoragesCounted, Occurrences
  <1>5. Staged'
    BY <1>1, <1>2 DEF ListsInv, Staged
  <1>6. Exclusive'
    BY <1>1, <1>2 DEF ListsInv, Exclusive
  <1>7. Progressed'
    <2> SUFFICES ASSUME NEW u \in Lists  PROVE ProgressOf(u)'
      BY DEF Progressed
    <2>1. CASE u = v
      <3>1. stage'[u] = "return"
        BY <2>1, <1>2
      <3> QED  BY <3>1 DEF ProgressOf
    <2>2. CASE u # v
      <3>1. ProgressOf(u)
        BY DEF ListsInv, Progressed
      <3> QED  BY <3>1, <2>2, <1>1, <1>2, ProgressKept
    <2> QED  BY <2>1, <2>2
  <1> QED  BY <1>3, <1>4, <1>5, <1>6, <1>7 DEF ListsInv

\* Releasing the argument at the return keeps the invariant.
LEMMA ReturnSnapshotKeeps ==
    ASSUME ListsInv, NEW v \in Lists, ReturnSnapshot(v)
    PROVE  ListsInv'
  <1>1. /\ stage[v] = "return" /\ storageOf' = storageOf
        /\ operation' = operation /\ listCount' = listCount /\ appended' = appended
    BY DEF ReturnSnapshot
  <1>2. snapshot[v] \in Storages /\ snapshot[v] # NoValue /\ appended[v] = 0
    BY <1>1 DEF ListsInv, Staged, Typed
  <1>3. /\ \A u \in Lists : stage'[u] = IF u = v THEN "idle" ELSE stage[u]
        /\ \A u \in Lists : snapshot'[u] = IF u = v THEN NoValue ELSE snapshot[u]
        /\ \A t \in Storages :
               count'[t] = IF t = snapshot[v] THEN count[t] - 1 ELSE count[t]
        /\ \A t \in Storages :
               contents'[t] = IF t = snapshot[v] THEN AfterRelease(t) ELSE contents[t]
    BY DEF ReturnSnapshot, ListsInv, Typed
  <1>4. /\ AfterRelease(snapshot[v]) \in Seq(Items)
        /\ \A u \in Lists :
               /\ storageOf[u] = snapshot[v]
                      => AfterRelease(snapshot[v]) = contents[snapshot[v]]
               /\ u # v /\ snapshot[u] = snapshot[v]
                      => AfterRelease(snapshot[v]) = contents[snapshot[v]]
    BY <1>2, SnapshotReleasedUnseen DEF ListsInv
  <1>5. Typed'
    BY <1>1, <1>2, <1>4 DEF ReturnSnapshot, ListsInv, Typed
  <1>6. StoragesCounted'
    <2>1. /\ \A u \in Lists : u # v => snapshot'[u] = snapshot[u]
          /\ snapshot'[v] = NoValue
      BY <1>3
    <2>2. \A t \in Storages : count'[t] = count[t]
               + (IF t = snapshot'[v] THEN 1 ELSE 0)
               - (IF t = snapshot[v] THEN 1 ELSE 0)
      <3>1. \A t \in Storages : count[t] \in Int /\ t # NoValue
        BY DEF ListsInv, Typed
      <3> QED  BY <3>1, <1>3, <2>1
    <2> QED  BY <2>1, <2>2, <1>1, CallCounted DEF ListsInv
  <1>7. Staged'
    BY <1>1, <1>2, <1>3 DEF ListsInv, Staged
  <1>8. Exclusive'
    <2>1. \A u \in Lists : stage[u] = "change" => storageOf[u] # NoValue
      BY DEF ListsInv, Staged
    <2> QED  BY <2>1, <1>1, <1>3 DEF ListsInv, Exclusive
  <1>9. Progressed'
    <2> SUFFICES ASSUME NEW u \in Lists  PROVE ProgressOf(u)'
      BY DEF Progressed
    <2>1. CASE u = v
      <3>1. stage'[u] = "idle" /\ snapshot'[u] = NoValue
        BY <2>1, <1>3
      <3> QED  BY <3>1 DEF ProgressOf
    <2>2. CASE u # v
      <3>1. ProgressOf(u)
        BY DEF ListsInv, Progressed
      <3>2. snapshot[u] # NoValue => contents'[snapshot[u]] = contents[snapshot[u]]
        <4>1. snapshot[u] # NoValue => snapshot[u] \in Storages
          BY DEF ListsInv, Typed
        <4> QED  BY <4>1, <2>2, <1>3, <1>4
      <3>3. stage[u] # "idle" => contents'[storageOf[u]] = contents[storageOf[u]]
        <4>1. stage[u] # "idle" => storageOf[u] \in Storages
          BY DEF ListsInv, Typed, Staged
        <4> QED  BY <4>1, <1>3, <1>4
      <3> QED  BY <3>1, <3>2, <3>3, <2>2, <1>1, <1>3, ProgressKept
    <2> QED  BY <2>1, <2>2
  <1> QED  BY <1>5, <1>6, <1>7, <1>8, <1>9 DEF ListsInv

\* Steps of others keep the invariant.
LEMMA StutterKeeps ==
    ASSUME ListsInv, UNCHANGED cowVars
    PROVE  ListsInv'
  <1>1. /\ storageOf' = storageOf /\ count' = count /\ contents' = contents
        /\ stage' = stage /\ operation' = operation /\ snapshot' = snapshot
        /\ listCount' = listCount /\ appended' = appended
    BY DEF cowVars, storageVars, methodVars
  <1>2. Typed' /\ Staged' /\ Exclusive'
    BY <1>1 DEF ListsInv, Typed, Staged, Exclusive
  <1>3. StoragesCounted'
    BY <1>1 DEF ListsInv, StoragesCounted, Occurrences
  <1>4. Progressed'
    BY <1>1 DEF ListsInv, Progressed, ProgressOf
  <1> QED  BY <1>2, <1>3, <1>4 DEF ListsInv

\* Without lists the invariant holds.
LEMMA InitEstablishes == CowInit => ListsInv
  <1> SUFFICES ASSUME CowInit  PROVE ListsInv
    OBVIOUS
  <1>1. Typed
    BY EmptySeq DEF CowInit, Typed
  <1>2. StoragesCounted
    <2> SUFFICES ASSUME NEW s \in Storages
                 PROVE  count[s] = Occurrences(storageOf, s) + Occurrences(snapshot, s)
      BY DEF StoragesCounted
    <2>1. \A v \in Lists : storageOf[v] # s /\ snapshot[v] # s
      BY DEF CowInit
    <2>2. Occurrences(storageOf, s) = 0 /\ Occurrences(snapshot, s) = 0
      BY <2>1, OccurrencesNone
    <2> QED  BY <2>2 DEF CowInit
  <1>3. Staged /\ Exclusive
    BY DEF CowInit, Staged, Exclusive
  <1>4. Progressed
    BY DEF CowInit, Progressed, ProgressOf
  <1> QED  BY <1>1, <1>2, <1>3, <1>4 DEF ListsInv

\* Storage is only changed by who has the only reference to it, however the
\* methods on the variables interleave, and the counts are the references.
THEOREM Invariance == CowSpec => []ListsInv
  <1>1. CowInit => ListsInv
    BY InitEstablishes
  <1>2. ListsInv /\ [CowNext]_cowVars => ListsInv'
    <2> SUFFICES ASSUME ListsInv, CowNext \/ UNCHANGED cowVars  PROVE ListsInv'
      OBVIOUS
    <2>1. CASE UNCHANGED cowVars
      BY <2>1, StutterKeeps
    <2>2. CASE CowNext
      BY <2>2, CreateListKeeps, CloneStorageKeeps, CopyListKeeps, CallExtendKeeps,
         CallMethodKeeps, DropListKeeps, PrepareForMutationKeeps, ChangeItemsKeeps,
         AppendItemKeeps, EndExtendKeeps, ReturnSnapshotKeeps DEF CowNext
    <2> QED  BY <2>1, <2>2
  <1> QED  BY <1>1, <1>2, PTL DEF CowSpec

(***************************************************************************)
(* The refinement                                                          *)
(***************************************************************************)

\* What a variable that has a list shows is a sequence of items.
LEMMA ItemsAreASequence ==
    ASSUME ListsInv, NEW v \in Lists, storageOf[v] # NoValue
    PROVE  ItemsOf(v) \in Seq(Items) /\ ItemsOf(v) # NoValue
  <1>1. contents[storageOf[v]] \in Seq(Items) /\ appended[v] \in Nat
    BY DEF ListsInv, Typed
  <1>2. appended[v] <= Len(contents[storageOf[v]])
    <2>1. CASE appended[v] = 0
      BY <1>1, <2>1, LenProperties
    <2>2. CASE appended[v] # 0
      BY <2>2 DEF ListsInv, Staged, Progressed, ProgressOf
    <2> QED  BY <2>1, <2>2
  <1>3. PICK items, n : items = contents[storageOf[v]] /\ n = appended[v]
    OBVIOUS
  <1>4. Len(items) - n \in 0..Len(items)
    BY <1>1, <1>2, <1>3, LenProperties
  <1>5. SubSeq(items, 1, Len(items) - n) \in Seq(Items)
    BY <1>1, <1>3, <1>4, PrefixIsASequence
  <1>6. ItemsOf(v) = SubSeq(items, 1, Len(items) - n)
    BY <1>3 DEF ItemsOf, HasList
  <1> QED  BY <1>5, <1>6

\* When nothing was appended yet, a variable shows what its storage contains.
LEMMA ItemsWhenIdle ==
    ASSUME ListsInv, NEW v \in Lists, storageOf[v] # NoValue, appended[v] = 0
    PROVE  ItemsOf(v) = contents[storageOf[v]]
  <1>1. contents[storageOf[v]] \in Seq(Items)
    BY DEF ListsInv, Typed
  <1>2. \A items \in Seq(Items) : SubSeq(items, 1, Len(items) - 0) = items
    OBVIOUS
  <1> QED  BY <1>1, <1>2 DEF ItemsOf, HasList

\* What a step that leaves a list and its argument alone does not show.
LEMMA ItemsKept ==
    ASSUME NEW v \in Lists, storageOf'[v] = storageOf[v], appended'[v] = appended[v],
           storageOf[v] # NoValue => contents'[storageOf[v]] = contents[storageOf[v]]
    PROVE  ItemsOf(v)' = ItemsOf(v)
  BY DEF ItemsOf, HasList

\* A call whose snapshot keeps its contents keeps its argument.
LEMMA ArgumentKept ==
    ASSUME NEW v \in Lists, snapshot'[v] = snapshot[v],
           stage'[v] = "return" <=> stage[v] = "return",
           snapshot[v] # NoValue => contents'[snapshot[v]] = contents[snapshot[v]]
    PROVE  ArgumentOf(v)' = ArgumentOf(v)
  BY DEF ArgumentOf

\* The steps of the abstract specification, for each variable.
LEMMA CreateStep ==
    ASSUME NEW v \in Lists, ItemsOf(v) = NoValue,
           \A u \in Lists : ItemsOf(u)' = IF u = v THEN <<>> ELSE ItemsOf(u),
           \A u \in Lists : ArgumentOf(u)' = ArgumentOf(u)
    PROVE  Values!Next
  <1>1. Values!Create(v)
    BY DEF Values!Create, Values!HasList
  <1> QED  BY <1>1 DEF Values!Next

\* A variable that comes to show what another one shows takes a copy.
LEMMA CopyStep ==
    ASSUME NEW v \in Lists, NEW w \in Lists, ItemsOf(v) # NoValue,
           \A u \in Lists : ItemsOf(u)' = IF u = w THEN ItemsOf(v) ELSE ItemsOf(u),
           \A u \in Lists : ArgumentOf(u)' = ArgumentOf(u)
    PROVE  Values!Next
  <1>1. Values!Copy(v, w)
    BY DEF Values!Copy, Values!HasList
  <1> QED  BY <1>1 DEF Values!Next

\* A variable that comes to show nothing drops its list.
LEMMA DropStep ==
    ASSUME NEW v \in Lists, ItemsOf(v) # NoValue,
           \A u \in Lists : ItemsOf(u)' = IF u = v THEN NoValue ELSE ItemsOf(u),
           \A u \in Lists : ArgumentOf(u)' = ArgumentOf(u)
    PROVE  Values!Next
  <1>1. Values!Drop(v)
    BY DEF Values!Drop, Values!HasList
  <1> QED  BY <1>1 DEF Values!Next

\* A variable that comes to show an edit of what it showed changes.
LEMMA ChangeStep ==
    ASSUME NEW v \in Lists, NEW edit \in Edits, ItemsOf(v) # NoValue,
           \A u \in Lists : ItemsOf(u)' = IF u = v THEN Edited(edit, ItemsOf(v))
                                          ELSE ItemsOf(u),
           \A u \in Lists : ArgumentOf(u)' = ArgumentOf(u)
    PROVE  Values!Next
  <1>1. Values!Change(v, edit)
    BY DEF Values!Change, Values!HasList, Edited
  <1> QED  BY <1>1 DEF Values!Next

\* A call that comes to have what a variable shows as its argument begins to append it.
LEMMA BeginExtendStep ==
    ASSUME NEW v \in Lists, NEW w \in Lists, ItemsOf(v) # NoValue,
           ItemsOf(w) # NoValue, ArgumentOf(v) = NoValue,
           \A u \in Lists : ItemsOf(u)' = ItemsOf(u),
           \A u \in Lists : ArgumentOf(u)' = IF u = v THEN ItemsOf(w)
                                             ELSE ArgumentOf(u)
    PROVE  Values!Next
  <1>1. Values!BeginExtend(v, w)
    BY DEF Values!BeginExtend, Values!HasList
  <1> QED  BY <1>1 DEF Values!Next

\* A call whose argument was appended to what its variable shows ends.
LEMMA EndExtendStep ==
    ASSUME NEW v \in Lists, ItemsOf(v) # NoValue, ArgumentOf(v) # NoValue,
           \A u \in Lists : ItemsOf(u)' = IF u = v THEN ItemsOf(v) \o ArgumentOf(v)
                                          ELSE ItemsOf(u),
           \A u \in Lists : ArgumentOf(u)' = IF u = v THEN NoValue ELSE ArgumentOf(u)
    PROVE  Values!Next
  <1>1. Values!EndExtend(v)
    BY DEF Values!EndExtend, Values!HasList
  <1> QED  BY <1>1 DEF Values!Next

Values_vars == <<[v \in Lists |-> ItemsOf(v)], [v \in Lists |-> ArgumentOf(v)]>>

\* A step after which every variable and every call shows the same is not seen.
LEMMA NothingSeen ==
    ASSUME \A u \in Lists : ItemsOf(u)' = ItemsOf(u),
           \A u \in Lists : ArgumentOf(u)' = ArgumentOf(u)
    PROVE  UNCHANGED Values_vars
  BY DEF Values_vars

\* Creating a list creates a value.
LEMMA CreateListRefines ==
    ASSUME ListsInv, NEW v \in Lists, NEW s \in Storages, CreateList(v, s)
    PROVE  Values!Next
  <1>1. /\ storageOf[v] = NoValue /\ count[s] = 0
        /\ stage' = stage /\ snapshot' = snapshot /\ appended' = appended
    BY DEF CreateList, HasList, Free, methodVars
  <1>2. /\ \A u \in Lists : storageOf'[u] = IF u = v THEN s ELSE storageOf[u]
        /\ \A t \in Storages : contents'[t] = IF t = s THEN <<>> ELSE contents[t]
    BY DEF CreateList, ListsInv, Typed
  <1>3. \A u \in Lists : storageOf[u] # s /\ snapshot[u] # s
    BY <1>1, FreeUnused DEF ListsInv
  <1>4. ItemsOf(v) = NoValue
    BY <1>1 DEF ItemsOf, HasList
  <1>5. ItemsOf(v)' = <<>>
    <2>1. stage[v] = "idle"
      BY <1>1 DEF ListsInv, Staged
    <2>2. appended[v] = 0
      BY <2>1 DEF ListsInv, Staged
    <2>3. SubSeq(<<>>, 1, Len(<<>>) - 0) = <<>>
      BY EmptySeq, SubSeqEmpty
    <2> QED  BY <1>1, <1>2, <2>2, <2>3 DEF ItemsOf, HasList
  <1>6. ASSUME NEW u \in Lists, u # v  PROVE ItemsOf(u)' = ItemsOf(u)
    <2>1. storageOf[u] # NoValue => storageOf[u] \in Storages
      BY DEF ListsInv, Typed
    <2> QED  BY <2>1, <1>1, <1>2, <1>3, <1>6, ItemsKept
  <1>7. ASSUME NEW u \in Lists  PROVE ArgumentOf(u)' = ArgumentOf(u)
    <2>1. snapshot[u] # NoValue => snapshot[u] \in Storages
      BY DEF ListsInv, Typed
    <2> QED  BY <2>1, <1>1, <1>2, <1>3, ArgumentKept
  <1> QED  BY <1>4, <1>5, <1>6, <1>7, CreateStep

\* Copying a list copies a value.
LEMMA CopyListRefines ==
    ASSUME ListsInv, NEW v \in Lists, NEW w \in Lists, CopyList(v, w)
    PROVE  Values!Next
  <1>1. /\ storageOf[v] # NoValue /\ stage[v] = "idle" /\ w # v /\ stage[w] = "idle"
        /\ stage' = stage /\ snapshot' = snapshot /\ appended' = appended
    BY DEF CopyList, Idle, HasList, methodVars
  <1>2. /\ \A u \in Lists : storageOf'[u] = IF u = w THEN storageOf[v] ELSE storageOf[u]
        /\ \A t \in Storages :
               contents'[t] = IF t = storageOf[w] /\ t # storageOf[v]
                              THEN AfterRelease(t) ELSE contents[t]
    BY DEF CopyList, ListsInv, Typed
  <1>3. storageOf[w] # NoValue =>
            \A u \in Lists :
                  /\ u # w /\ storageOf[u] = storageOf[w]
                         => AfterRelease(storageOf[w]) = contents[storageOf[w]]
                  /\ snapshot[u] = storageOf[w]
                         => AfterRelease(storageOf[w]) = contents[storageOf[w]]
    BY ReleasedUnseen DEF ListsInv
  <1>4. \A u \in Lists : /\ storageOf[u] # NoValue => storageOf[u] \in Storages
                         /\ snapshot[u] # NoValue => snapshot[u] \in Storages
    BY DEF ListsInv, Typed
  <1>5. ItemsOf(v) # NoValue
    BY <1>1, ItemsAreASequence
  <1>6. ItemsOf(w)' = ItemsOf(v)
    <2>1. appended[v] = 0 /\ appended[w] = 0
      BY <1>1 DEF ListsInv, Staged
    <2>2. storageOf'[w] = storageOf[v] /\ contents'[storageOf[v]] = contents[storageOf[v]]
      BY <1>1, <1>2, <1>4
    <2> QED  BY <1>1, <2>1, <2>2 DEF ItemsOf, HasList
  <1>7. ASSUME NEW u \in Lists, u # w  PROVE ItemsOf(u)' = ItemsOf(u)
    <2>1. storageOf[u] # NoValue => contents'[storageOf[u]] = contents[storageOf[u]]
      BY <1>2, <1>3, <1>4, <1>7
    <2> QED  BY <2>1, <1>1, <1>2, <1>7, ItemsKept
  <1>8. ASSUME NEW u \in Lists  PROVE ArgumentOf(u)' = ArgumentOf(u)
    <2>1. snapshot[u] # NoValue => contents'[snapshot[u]] = contents[snapshot[u]]
      BY <1>2, <1>3, <1>4
    <2> QED  BY <2>1, <1>1, ArgumentKept
  <1> QED  BY <1>5, <1>6, <1>7, <1>8, CopyStep

\* Dropping a list drops a value.
LEMMA DropListRefines ==
    ASSUME ListsInv, NEW v \in Lists, DropList(v)
    PROVE  Values!Next
  <1>1. /\ storageOf[v] \in Storages /\ storageOf[v] # NoValue
        /\ stage' = stage /\ snapshot' = snapshot /\ appended' = appended
    BY DEF DropList, Idle, HasList, methodVars, ListsInv, Typed
  <1>2. /\ \A u \in Lists : storageOf'[u] = IF u = v THEN NoValue ELSE storageOf[u]
        /\ \A t \in Storages :
               contents'[t] = IF t = storageOf[v] THEN AfterRelease(t) ELSE contents[t]
    BY DEF DropList, ListsInv, Typed
  <1>3. \A u \in Lists :
              /\ u # v /\ storageOf[u] = storageOf[v]
                     => AfterRelease(storageOf[v]) = contents[storageOf[v]]
              /\ snapshot[u] = storageOf[v]
                     => AfterRelease(storageOf[v]) = contents[storageOf[v]]
    BY <1>1, ReleasedUnseen DEF ListsInv
  <1>4. \A u \in Lists : /\ storageOf[u] # NoValue => storageOf[u] \in Storages
                         /\ snapshot[u] # NoValue => snapshot[u] \in Storages
    BY DEF ListsInv, Typed
  <1>5. ItemsOf(v) # NoValue
    BY <1>1, ItemsAreASequence
  <1>6. ItemsOf(v)' = NoValue
    BY <1>2 DEF ItemsOf, HasList
  <1>7. ASSUME NEW u \in Lists, u # v  PROVE ItemsOf(u)' = ItemsOf(u)
    <2>1. storageOf[u] # NoValue => contents'[storageOf[u]] = contents[storageOf[u]]
      BY <1>2, <1>3, <1>4, <1>7
    <2> QED  BY <2>1, <1>1, <1>2, <1>7, ItemsKept
  <1>8. ASSUME NEW u \in Lists  PROVE ArgumentOf(u)' = ArgumentOf(u)
    <2>1. snapshot[u] # NoValue => contents'[snapshot[u]] = contents[snapshot[u]]
      BY <1>2, <1>3, <1>4
    <2> QED  BY <2>1, <1>1, ArgumentKept
  <1> QED  BY <1>5, <1>6, <1>7, <1>8, DropStep

\* Calling a mutating method is not seen.
LEMMA CallMethodUnseen ==
    ASSUME ListsInv, NEW v \in Lists, NEW edit \in Edits, CallMethod(v, edit)
    PROVE  UNCHANGED Values_vars
  <1>1. /\ stage[v] = "idle" /\ storageOf' = storageOf /\ contents' = contents
        /\ snapshot' = snapshot /\ appended' = appended
    BY DEF CallMethod, Idle, storageVars
  <1>2. \A u \in Lists : stage'[u] = IF u = v THEN "call" ELSE stage[u]
    BY DEF CallMethod, ListsInv, Typed
  <1>3. \A u \in Lists : ItemsOf(u)' = ItemsOf(u)
    BY <1>1, ItemsKept
  <1>4. \A u \in Lists : ArgumentOf(u)' = ArgumentOf(u)
    BY <1>1, <1>2, ArgumentKept
  <1> QED  BY <1>3, <1>4, NothingSeen

\* Comparing the count is not seen.
LEMMA PrepareForMutationUnseen ==
    ASSUME ListsInv, NEW v \in Lists, PrepareForMutation(v)
    PROVE  UNCHANGED Values_vars
  <1>1. /\ stage[v] = "call" /\ storageOf' = storageOf /\ contents' = contents
        /\ snapshot' = snapshot /\ appended' = appended
    BY DEF PrepareForMutation, storageVars
  <1>2. /\ \A u \in Lists : u # v => stage'[u] = stage[u]
        /\ stage'[v] \in {"change", "clone"}
    BY DEF PrepareForMutation, ListsInv, Typed
  <1>3. \A u \in Lists : ItemsOf(u)' = ItemsOf(u)
    BY <1>1, ItemsKept
  <1>4. \A u \in Lists : stage'[u] = "return" <=> stage[u] = "return"
    BY <1>1, <1>2
  <1>5. \A u \in Lists : ArgumentOf(u)' = ArgumentOf(u)
    BY <1>1, <1>4, ArgumentKept
  <1> QED  BY <1>3, <1>5, NothingSeen

\* Calling the method that appends a list takes its value.
LEMMA CallExtendRefines ==
    ASSUME ListsInv, NEW v \in Lists, NEW w \in Lists, CallExtend(v, w)
    PROVE  Values!Next
  <1>1. /\ storageOf[v] # NoValue /\ stage[v] = "idle"
        /\ storageOf[w] # NoValue /\ stage[w] = "idle"
        /\ storageOf' = storageOf /\ contents' = contents /\ appended' = appended
    BY DEF CallExtend, Idle, HasList
  <1>2. /\ \A u \in Lists : stage'[u] = IF u = v THEN "call" ELSE stage[u]
        /\ \A u \in Lists : snapshot'[u] = IF u = v THEN storageOf[w] ELSE snapshot[u]
    BY DEF CallExtend, ListsInv, Typed
  <1>3. snapshot[v] = NoValue /\ appended[w] = 0
    BY <1>1 DEF ListsInv, Staged
  <1>4. ItemsOf(v) # NoValue /\ ItemsOf(w) # NoValue
    BY <1>1, ItemsAreASequence
  <1>5. \A u \in Lists : ItemsOf(u)' = ItemsOf(u)
    BY <1>1, ItemsKept
  <1>6. ArgumentOf(v) = NoValue
    BY <1>3 DEF ArgumentOf
  <1>7. ArgumentOf(v)' = ItemsOf(w)
    <2>1. ItemsOf(w) = contents[storageOf[w]]
      BY <1>1, <1>3, ItemsWhenIdle
    <2> QED  BY <2>1, <1>1, <1>2 DEF ArgumentOf
  <1>8. ASSUME NEW u \in Lists, u # v  PROVE ArgumentOf(u)' = ArgumentOf(u)
    BY <1>1, <1>2, <1>8, ArgumentKept
  <1> QED  BY <1>4, <1>5, <1>6, <1>7, <1>8, BeginExtendStep

\* Cloning the storage is not seen.
LEMMA CloneStorageUnseen ==
    ASSUME ListsInv, NEW v \in Lists, NEW s \in Storages, CloneStorage(v, s)
    PROVE  UNCHANGED Values_vars
  <1>1. /\ stage[v] = "clone" /\ count[s] = 0
        /\ snapshot' = snapshot /\ appended' = appended
    BY DEF CloneStorage, Free
  <1>2. storageOf[v] \in Storages /\ storageOf[v] # NoValue
    BY <1>1 DEF ListsInv, Staged, Typed
  <1>3. \A u \in Lists : storageOf[u] # s /\ snapshot[u] # s
    BY <1>1, FreeUnused DEF ListsInv
  <1>4. /\ \A u \in Lists : storageOf'[u] = IF u = v THEN s ELSE storageOf[u]
        /\ \A u \in Lists : stage'[u] = IF u = v THEN "change" ELSE stage[u]
        /\ \A t \in Storages :
               contents'[t] = IF t = storageOf[v] THEN AfterRelease(t)
                              ELSE IF t = s THEN contents[storageOf[v]]
                              ELSE contents[t]
    BY <1>2, <1>3 DEF CloneStorage, ListsInv, Typed
  <1>5. \A u \in Lists :
              /\ u # v /\ storageOf[u] = storageOf[v]
                     => AfterRelease(storageOf[v]) = contents[storageOf[v]]
              /\ snapshot[u] = storageOf[v]
                     => AfterRelease(storageOf[v]) = contents[storageOf[v]]
    BY <1>2, ReleasedUnseen DEF ListsInv
  <1>6. \A u \in Lists : /\ storageOf[u] # NoValue => storageOf[u] \in Storages
                         /\ snapshot[u] # NoValue => snapshot[u] \in Storages
    BY DEF ListsInv, Typed
  <1>7. ItemsOf(v)' = ItemsOf(v)
    <2>1. contents'[storageOf'[v]] = contents[storageOf[v]] /\ storageOf'[v] # NoValue
      BY <1>2, <1>3, <1>4
    <2> QED  BY <2>1, <1>1, <1>2 DEF ItemsOf, HasList
  <1>8. ASSUME NEW u \in Lists, u # v  PROVE ItemsOf(u)' = ItemsOf(u)
    <2>1. storageOf[u] # NoValue => contents'[storageOf[u]] = contents[storageOf[u]]
      BY <1>3, <1>4, <1>5, <1>6, <1>8
    <2> QED  BY <2>1, <1>1, <1>4, <1>8, ItemsKept
  <1>9. ASSUME NEW u \in Lists  PROVE ArgumentOf(u)' = ArgumentOf(u)
    <2>1. snapshot[u] # NoValue => contents'[snapshot[u]] = contents[snapshot[u]]
      BY <1>3, <1>4, <1>5, <1>6
    <2>2. stage'[u] = "return" <=> stage[u] = "return"
      BY <1>1, <1>4
    <2> QED  BY <2>1, <2>2, <1>1, ArgumentKept
  <1> QED  BY <1>7, <1>8, <1>9, NothingSeen

\* The mutation changes the value of its variable only.
LEMMA ChangeItemsRefines ==
    ASSUME ListsInv, NEW v \in Lists, ChangeItems(v)
    PROVE  Values!Next
  <1>1. /\ stage[v] = "change" /\ snapshot[v] = NoValue
        /\ storageOf' = storageOf /\ snapshot' = snapshot /\ appended' = appended
    BY DEF ChangeItems
  <1>2. /\ storageOf[v] \in Storages /\ storageOf[v] # NoValue
        /\ operation[v] \in Edits /\ appended[v] = 0
    BY <1>1 DEF ListsInv, Staged, Typed
  <1>3. /\ \A u \in Lists : stage'[u] = IF u = v THEN "idle" ELSE stage[u]
        /\ contents'[storageOf[v]] = Edited(operation[v], contents[storageOf[v]])
        /\ \A t \in Storages : t # storageOf[v] => contents'[t] = contents[t]
    BY <1>2 DEF ChangeItems, ListsInv, Typed
  <1>4. ItemsOf(v) = contents[storageOf[v]] /\ ItemsOf(v) # NoValue
    BY <1>2, ItemsWhenIdle, ItemsAreASequence
  <1>5. ItemsOf(v)' = Edited(operation[v], ItemsOf(v))
    <2>1. contents'[storageOf[v]] \in Seq(Items)
      BY <1>2, <1>3, EditedIsASequence DEF ListsInv, Typed
    <2>2. \A items \in Seq(Items) : SubSeq(items, 1, Len(items) - 0) = items
      OBVIOUS
    <2>3. ItemsOf(v)' = contents'[storageOf[v]]
      BY <2>1, <2>2, <1>1, <1>2 DEF ItemsOf, HasList
    <2> QED  BY <2>3, <1>3, <1>4
  <1>6. ASSUME NEW u \in Lists, u # v  PROVE ItemsOf(u)' = ItemsOf(u)
    <2>1. storageOf[u] # storageOf[v]
      BY <1>1, <1>6 DEF ListsInv, Exclusive
    <2>2. storageOf[u] # NoValue => storageOf[u] \in Storages
      BY DEF ListsInv, Typed
    <2> QED  BY <2>1, <2>2, <1>1, <1>3, ItemsKept
  <1>7. ASSUME NEW u \in Lists  PROVE ArgumentOf(u)' = ArgumentOf(u)
    <2>1. snapshot[u] # storageOf[v]
      BY <1>1 DEF ListsInv, Exclusive
    <2>2. snapshot[u] # NoValue => snapshot[u] \in Storages
      BY DEF ListsInv, Typed
    <2>3. stage'[u] = "return" <=> stage[u] = "return"
      BY <1>1, <1>3
    <2> QED  BY <2>1, <2>2, <2>3, <1>1, <1>3, ArgumentKept
  <1> QED  BY <1>2, <1>4, <1>5, <1>6, <1>7, ChangeStep

\* Appending one item is not seen until the iteration ends.
LEMMA AppendItemUnseen ==
    ASSUME ListsInv, NEW v \in Lists, AppendItem(v)
    PROVE  UNCHANGED Values_vars
  <1>1. /\ stage[v] = "change" /\ storageOf' = storageOf
        /\ stage' = stage /\ snapshot' = snapshot
    BY DEF AppendItem
  <1>2. storageOf[v] \in Storages /\ storageOf[v] # NoValue
    BY <1>1 DEF ListsInv, Staged, Typed
  <1>3. /\ \A u \in Lists : appended'[u] = IF u = v THEN appended[v] + 1 ELSE appended[u]
        /\ \A t \in Storages : t # storageOf[v] => contents'[t] = contents[t]
    BY DEF AppendItem, ListsInv, Typed
  <1>4. ItemsOf(v)' = ItemsOf(v)
    <2>1. Before(contents'[storageOf[v]], appended[v] + 1) =
              Before(contents[storageOf[v]], appended[v])
      BY AppendItemKeeps
    <2>2. ItemsOf(v) = Before(contents[storageOf[v]], appended[v])
      BY <1>2 DEF ItemsOf, HasList, Before
    <2>3. ItemsOf(v)' = Before(contents'[storageOf[v]], appended[v] + 1)
      BY <1>1, <1>2, <1>3 DEF ItemsOf, HasList, Before
    <2> QED  BY <2>1, <2>2, <2>3
  <1>5. ASSUME NEW u \in Lists, u # v  PROVE ItemsOf(u)' = ItemsOf(u)
    <2>1. storageOf[u] # storageOf[v]
      BY <1>1, <1>5 DEF ListsInv, Exclusive
    <2>2. storageOf[u] # NoValue => storageOf[u] \in Storages
      BY DEF ListsInv, Typed
    <2> QED  BY <2>1, <2>2, <1>1, <1>3, <1>5, ItemsKept
  <1>6. ASSUME NEW u \in Lists  PROVE ArgumentOf(u)' = ArgumentOf(u)
    <2>1. snapshot[u] # storageOf[v]
      BY <1>1 DEF ListsInv, Exclusive
    <2>2. snapshot[u] # NoValue => snapshot[u] \in Storages
      BY DEF ListsInv, Typed
    <2> QED  BY <2>1, <2>2, <1>1, <1>3, ArgumentKept
  <1> QED  BY <1>4, <1>5, <1>6, NothingSeen

\* The end of the iteration appends the whole argument.
LEMMA EndExtendRefines ==
    ASSUME ListsInv, NEW v \in Lists, EndExtend(v)
    PROVE  Values!Next
  <1>1. /\ stage[v] = "change" /\ snapshot[v] # NoValue /\ appended[v] = listCount[v]
        /\ storageOf' = storageOf /\ contents' = contents /\ snapshot' = snapshot
    BY DEF EndExtend, storageVars
  <1>2. /\ \A u \in Lists : stage'[u] = IF u = v THEN "return" ELSE stage[u]
        /\ \A u \in Lists : appended'[u] = IF u = v THEN 0 ELSE appended[u]
    BY DEF EndExtend, ListsInv, Typed
  <1>3. /\ storageOf[v] \in Storages /\ storageOf[v] # NoValue
        /\ snapshot[v] \in Storages
        /\ contents[storageOf[v]] \in Seq(Items) /\ contents[snapshot[v]] \in Seq(Items)
    BY <1>1 DEF ListsInv, Staged, Typed
  <1>4. /\ listCount[v] = Len(contents[snapshot[v]])
        /\ Grown(contents[storageOf[v]], contents[snapshot[v]], appended[v])
    BY <1>1 DEF ListsInv, Progressed, ProgressOf
  <1>5. ItemsOf(v) # NoValue
    BY <1>3, ItemsAreASequence
  <1>6. ArgumentOf(v) = contents[snapshot[v]] /\ ArgumentOf(v) # NoValue
    BY <1>1, <1>3 DEF ArgumentOf
  <1>7. ItemsOf(v)' = ItemsOf(v) \o ArgumentOf(v)
    <2>1. ItemsOf(v) = Before(contents[storageOf[v]], appended[v])
      BY <1>3 DEF ItemsOf, HasList, Before
    <2>2. SubSeq(contents[snapshot[v]], 1, appended[v]) = contents[snapshot[v]]
      BY <1>1, <1>3, <1>4, SubSeqFull
    <2>3. contents[storageOf[v]] = ItemsOf(v) \o ArgumentOf(v)
      BY <2>1, <2>2, <1>4, <1>6 DEF Grown
    <2>4. \A items \in Seq(Items) : SubSeq(items, 1, Len(items) - 0) = items
      OBVIOUS
    <2>5. ItemsOf(v)' = contents[storageOf[v]]
      BY <2>4, <1>1, <1>2, <1>3 DEF ItemsOf, HasList
    <2> QED  BY <2>3, <2>5
  <1>8. ASSUME NEW u \in Lists, u # v  PROVE ItemsOf(u)' = ItemsOf(u)
    BY <1>1, <1>2, <1>8, ItemsKept
  <1>9. ArgumentOf(v)' = NoValue
    BY <1>2 DEF ArgumentOf
  <1>10. ASSUME NEW u \in Lists, u # v  PROVE ArgumentOf(u)' = ArgumentOf(u)
    BY <1>1, <1>2, <1>10, ArgumentKept
  <1> QED  BY <1>5, <1>6, <1>7, <1>8, <1>9, <1>10, EndExtendStep

\* Releasing the argument is not seen.
LEMMA ReturnSnapshotUnseen ==
    ASSUME ListsInv, NEW v \in Lists, ReturnSnapshot(v)
    PROVE  UNCHANGED Values_vars
  <1>1. stage[v] = "return" /\ storageOf' = storageOf /\ appended' = appended
    BY DEF ReturnSnapshot
  <1>2. snapshot[v] \in Storages /\ snapshot[v] # NoValue
    BY <1>1 DEF ListsInv, Staged, Typed
  <1>3. /\ \A u \in Lists : stage'[u] = IF u = v THEN "idle" ELSE stage[u]
        /\ \A u \in Lists : snapshot'[u] = IF u = v THEN NoValue ELSE snapshot[u]
        /\ \A t \in Storages :
               contents'[t] = IF t = snapshot[v] THEN AfterRelease(t) ELSE contents[t]
    BY DEF ReturnSnapshot, ListsInv, Typed
  <1>4. \A u \in Lists :
               /\ storageOf[u] = snapshot[v]
                      => AfterRelease(snapshot[v]) = contents[snapshot[v]]
               /\ u # v /\ snapshot[u] = snapshot[v]
                      => AfterRelease(snapshot[v]) = contents[snapshot[v]]
    BY <1>2, SnapshotReleasedUnseen DEF ListsInv
  <1>5. \A u \in Lists : /\ storageOf[u] # NoValue => storageOf[u] \in Storages
                         /\ snapshot[u] # NoValue => snapshot[u] \in Storages
    BY DEF ListsInv, Typed
  <1>6. ASSUME NEW u \in Lists  PROVE ItemsOf(u)' = ItemsOf(u)
    <2>1. storageOf[u] # NoValue => contents'[storageOf[u]] = contents[storageOf[u]]
      BY <1>3, <1>4, <1>5
    <2> QED  BY <2>1, <1>1, ItemsKept
  <1>7. ArgumentOf(v)' = ArgumentOf(v)
    BY <1>1, <1>3 DEF ArgumentOf
  <1>8. ASSUME NEW u \in Lists, u # v  PROVE ArgumentOf(u)' = ArgumentOf(u)
    <2>1. snapshot[u] # NoValue => contents'[snapshot[u]] = contents[snapshot[u]]
      BY <1>3, <1>4, <1>5, <1>8
    <2> QED  BY <2>1, <1>3, <1>8, ArgumentKept
  <1> QED  BY <1>6, <1>7, <1>8, NothingSeen

\* Lists are values: whatever storage they share, and however the methods on
\* different variables interleave, every list changes only by the operations
\* on its own variable, and an argument is the list it was at the call.
THEOREM ListsBehaveAsValues == CowSpec => ListsAreValues
  <1>1. CowInit => Values!Init
    BY DEF CowInit, Values!Init, ItemsOf, ArgumentOf, HasList
  <1>2. ListsInv /\ [CowNext]_cowVars => [Values!Next]_Values_vars
    <2> SUFFICES ASSUME ListsInv, CowNext \/ UNCHANGED cowVars
                 PROVE  Values!Next \/ UNCHANGED Values_vars
      OBVIOUS
    <2>1. CASE UNCHANGED cowVars
      <3>1. /\ storageOf' = storageOf /\ contents' = contents /\ stage' = stage
            /\ snapshot' = snapshot /\ appended' = appended
        BY <2>1 DEF cowVars, storageVars, methodVars
      <3>2. /\ \A u \in Lists : ItemsOf(u)' = ItemsOf(u)
            /\ \A u \in Lists : ArgumentOf(u)' = ArgumentOf(u)
        BY <3>1, ItemsKept, ArgumentKept
      <3> QED  BY <3>2, NothingSeen
    <2>2. CASE CowNext
      BY <2>2, CreateListRefines, CloneStorageUnseen, CopyListRefines,
         CallExtendRefines, CallMethodUnseen, DropListRefines,
         PrepareForMutationUnseen, ChangeItemsRefines, AppendItemUnseen,
         EndExtendRefines, ReturnSnapshotUnseen DEF CowNext
    <2> QED  BY <2>1, <2>2
  <1> QED  BY <1>1, <1>2, Invariance, PTL
           DEF CowSpec, ListsAreValues, Values!Spec, Values_vars
=============================================================================
