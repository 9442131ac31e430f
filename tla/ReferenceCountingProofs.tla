---------------------- MODULE ReferenceCountingProofs ----------------------
(***************************************************************************)
(* Proofs about ReferenceCounting, for any number of threads, objects and  *)
(* references: the counts are exact, no strong reference dangles, a        *)
(* control block is allocated exactly as long as something can use it, an  *)
(* object is torn down once, and the counting implements ObjectLifetime.   *)
(***************************************************************************)
EXTENDS ReferenceCounting, FiniteSetTheorems, TLAPS

\* A reference counts: a positive number of references is the same as some reference.
LEMMA CountedIffSome ==
    ASSUME TypeOK, NEW o \in Objects
    PROVE  /\ IsFiniteSet(Strong(o)) /\ IsFiniteSet(Weak(o))
           /\ Cardinality(Strong(o)) \in Nat /\ Cardinality(Weak(o)) \in Nat
           /\ (Cardinality(Strong(o)) = 0) <=> (Strong(o) = {})
           /\ (Cardinality(Weak(o)) = 0) <=> (Weak(o) = {})
<1>1. IsFiniteSet(Strong(o)) /\ IsFiniteSet(Weak(o))
  <2>1. Strong(o) \in SUBSET Refs /\ Weak(o) \in SUBSET WeakRefs
    BY DEF Strong, Weak
  <2> QED
    BY <2>1, RefsAssumption, FS_Subset
<1> QED
  BY <1>1, FS_EmptySet, FS_CardinalityType

\* Repointing the strong reference r from target[r] to v adds one reference to v and takes
\* one from target[r]; every strong count of the runtime changes in this way.
LEMMA StrongStep ==
    ASSUME TypeOK, NEW r \in Refs, NEW v, target' = [target EXCEPT ![r] = v],
           NEW o \in Objects
    PROVE  /\ (target[r] # o /\ v = o) => Cardinality(Strong(o)') = Cardinality(Strong(o)) + 1
           /\ (target[r] = o /\ v # o) => /\ Cardinality(Strong(o)') = Cardinality(Strong(o)) - 1
                                          /\ Cardinality(Strong(o)) > 0
           /\ (target[r] = o <=> v = o) => Strong(o)' = Strong(o)
<1> DEFINE F == Strong(o)
           G == Strong(o)'
<1>1. IsFiniteSet(F) /\ Cardinality(F) \in Nat /\ (Cardinality(F) = 0 <=> F = {})
  BY CountedIffSome
<1>2. target'[r] = v /\ \A y \in Refs \ {r} : target'[y] = target[y]
  BY DEF TypeOK
<1>3. ASSUME target[r] # o, v = o
      PROVE  Cardinality(G) = Cardinality(F) + 1
  <2>1. G = F \cup {r} /\ r \notin F
    BY <1>2, <1>3 DEF Strong
  <2> HIDE DEF F, G
  <2> QED
    BY <1>1, <2>1, FS_AddElement
<1>4. ASSUME target[r] = o, v # o
      PROVE  Cardinality(G) = Cardinality(F) - 1 /\ Cardinality(F) > 0
  <2>1. G = F \ {r} /\ r \in F
    BY <1>2, <1>4 DEF Strong
  <2> HIDE DEF F, G
  <2>2. Cardinality(G) = Cardinality(F) - 1
    BY <1>1, <2>1, FS_RemoveElement
  <2> QED
    BY <1>1, <2>1, <2>2
<1>5. ASSUME target[r] = o <=> v = o
      PROVE  G = F
  BY <1>2, <1>5 DEF Strong
<1> QED
  BY <1>3, <1>4, <1>5

\* The same for a weak reference.
LEMMA WeakStep ==
    ASSUME TypeOK, NEW w \in WeakRefs, NEW v, weakTo' = [weakTo EXCEPT ![w] = v],
           NEW o \in Objects
    PROVE  /\ (weakTo[w] # o /\ v = o) => Cardinality(Weak(o)') = Cardinality(Weak(o)) + 1
           /\ (weakTo[w] = o /\ v # o) => /\ Cardinality(Weak(o)') = Cardinality(Weak(o)) - 1
                                          /\ Cardinality(Weak(o)) > 0
           /\ (weakTo[w] = o <=> v = o) => Weak(o)' = Weak(o)
<1> DEFINE F == Weak(o)
           G == Weak(o)'
<1>1. IsFiniteSet(F) /\ Cardinality(F) \in Nat /\ (Cardinality(F) = 0 <=> F = {})
  BY CountedIffSome
<1>2. weakTo'[w] = v /\ \A y \in WeakRefs \ {w} : weakTo'[y] = weakTo[y]
  BY DEF TypeOK
<1>3. ASSUME weakTo[w] # o, v = o
      PROVE  Cardinality(G) = Cardinality(F) + 1
  <2>1. G = F \cup {w} /\ w \notin F
    BY <1>2, <1>3 DEF Weak
  <2> HIDE DEF F, G
  <2> QED
    BY <1>1, <2>1, FS_AddElement
<1>4. ASSUME weakTo[w] = o, v # o
      PROVE  Cardinality(G) = Cardinality(F) - 1 /\ Cardinality(F) > 0
  <2>1. G = F \ {w} /\ w \in F
    BY <1>2, <1>4 DEF Weak
  <2> HIDE DEF F, G
  <2>2. Cardinality(G) = Cardinality(F) - 1
    BY <1>1, <2>1, FS_RemoveElement
  <2> QED
    BY <1>1, <2>1, <2>2
<1>5. ASSUME weakTo[w] = o <=> v = o
      PROVE  G = F
  BY <1>2, <1>5 DEF Weak
<1> QED
  BY <1>3, <1>4, <1>5

----------------------------------------------------------------------------
\* The counts decide the life of an object: it is live exactly while the strong count is
\* not zero, and an object that does not exist yet has no references.
LiveIffCounted ==
    \A o \in Objects : /\ phase[o] = "live" <=> strong[o] # 0
                       /\ phase[o] = "unborn" => weak[o] = 0

\* An object on the stack is not freed and has no weak count.
LocalsNotFreed == \A o \in Locals : phase[o] \notin {"free", "unshare"}

\* The weak reference a thread acquires from is initialized, and the reference that will
\* hold the result is set aside for it alone.
AcquiringKnown ==
    \A t \in Threads : acquiring[t] # None =>
        /\ weakTo[acquiring[t].ref] # None
        /\ target[acquiring[t].into] = None
        /\ \A u \in Threads : (acquiring[u] # None /\ acquiring[u].into = acquiring[t].into) => u = t

\* One thread deletes a block, of a dead object, and nothing counts on it any more.
DeletingUnused ==
    \A t \in Threads : deleting[t] # None =>
        /\ phase[deleting[t]] = "dead" /\ weak[deleting[t]] = 0
        /\ \A u \in Threads : deleting[u] = deleting[t] => u = t

\* The inductive invariant.
IInv == /\ TypeOK /\ CountsExact /\ LiveIffCounted /\ LocalsNotFreed
        /\ AcquiringKnown /\ DeletingUnused /\ BlockOutlivesUse

USE DEF Objects, Heap

\* Nothing is no object, thread or reference.
LEMMA NoneDistinct ==
    /\ None \notin Objects /\ None \notin Threads /\ None \notin Refs /\ None \notin WeakRefs
    /\ None \notin Acquisition
BY SortsAssumption

\* A strong reference to an object keeps its count above zero, and the object live.
LEMMA Referenced ==
    ASSUME IInv, NEW r \in Refs, target[r] # None
    PROVE  target[r] \in Objects /\ phase[target[r]] = "live" /\ strong[target[r]] > 0
<1>1. target[r] \in Objects
  BY DEF IInv, TypeOK
<1>2. r \in Strong(target[r])
  BY DEF Strong
<1>3. Cardinality(Strong(target[r])) # 0 /\ Cardinality(Strong(target[r])) \in Nat
  BY <1>1, <1>2, CountedIffSome DEF IInv
<1>4. strong[target[r]] = Cardinality(Strong(target[r]))
  BY <1>1 DEF IInv, CountsExact
<1> QED
  BY <1>1, <1>3, <1>4 DEF IInv, LiveIffCounted

\* The control block an initialized weak reference points to is allocated.
LEMMA WeaklyReferenced ==
    ASSUME IInv, NEW w \in WeakRefs, weakTo[w] # None
    PROVE  /\ weakTo[w] \in Heap /\ phase[weakTo[w]] # "unborn"
           /\ block[weakTo[w]] = "allocated" /\ weak[weakTo[w]] > 0
<1> DEFINE o == weakTo[w]
<1>1. o \in Heap /\ o \in Objects
  BY DEF IInv, TypeOK
<1>2. Weak(o) # {}
  BY DEF Weak
<1>3. Cardinality(Weak(o)) \in Nat /\ Cardinality(Weak(o)) # 0
  BY <1>1, <1>2, CountedIffSome DEF IInv
<1>4. weak[o] > 0
  BY <1>1, <1>3 DEF IInv, CountsExact
<1> QED
  BY <1>1, <1>2, <1>4 DEF IInv, LiveIffCounted, BlockOutlivesUse

----------------------------------------------------------------------------
\* The steps of the specification change the counted state in eleven ways.  For each of
\* them a lemma shows that the inductive invariant is preserved.

\* A reference moves: Store, Send.
LEMMA MoveStep ==
    ASSUME IInv, holder' \in [Refs -> Threads \cup Objects \cup {None}],
           UNCHANGED <<phase, strong, weak, block, target, weakTo, teardown, deleting, acquiring>>
    PROVE  IInv'
<1>1. CountsExact' /\ BlockOutlivesUse'
  BY DEF IInv, CountsExact, BlockOutlivesUse, Strong, Weak, HoldsShare
<1>2. TypeOK'
  BY DEF IInv, TypeOK
<1> QED
  BY <1>1, <1>2 DEF IInv, LiveIffCounted, LocalsNotFreed, AcquiringKnown, DeletingUnused

\* A thread looks at the count: AcquireLoad, AcquireFails, AcquireRetries.
LEMMA LookStep ==
    ASSUME IInv, NEW t \in Threads, NEW a \in Acquisition \cup {None},
           acquiring' = [acquiring EXCEPT ![t] = a],
           a # None => /\ weakTo[a.ref] # None /\ target[a.into] = None
                       /\ \A u \in Threads \ {t} : acquiring[u] # None => acquiring[u].into # a.into,
           UNCHANGED <<phase, strong, weak, block, target, holder, weakTo, teardown, deleting>>
    PROVE  IInv'
<1>1. CountsExact' /\ BlockOutlivesUse'
  BY DEF IInv, CountsExact, BlockOutlivesUse, Strong, Weak, HoldsShare
<1>2. TypeOK'
  BY DEF IInv, TypeOK
<1>3. AcquiringKnown'
  <2>1. \A u \in Threads : acquiring'[u] = IF u = t THEN a ELSE acquiring[u]
    BY DEF IInv, TypeOK
  <2> QED
    BY <2>1 DEF IInv, AcquiringKnown
<1> QED
  BY <1>1, <1>2, <1>3 DEF IInv, LiveIffCounted, LocalsNotFreed, DeletingUnused

\* The destructor and free() proceed, while the share of the weak count is held:
\* DeinitReturns, DestructReturns, Free.
LEMMA ProceedStep ==
    ASSUME IInv, NEW o \in Objects, NEW next \in Phases,
           phase[o] \in {"deinit", "fields", "free"},
           phase' = [phase EXCEPT ![o] = next],
           IF o \in Locals THEN next \in {"fields", "dead"}
                            ELSE next \in {"fields", "free", "unshare"},
           teardown' \in [Threads -> Seq(Objects)],
           UNCHANGED <<strong, weak, block, target, holder, weakTo, deleting, acquiring>>
    PROVE  IInv'
<1>1. \A x \in Objects : phase'[x] = IF x = o THEN next ELSE phase[x]
  BY DEF IInv, TypeOK
<1>2. \A x \in Objects : Strong(x)' = Strong(x) /\ Weak(x)' = Weak(x)
  BY DEF Strong, Weak
<1>3. \A x \in Heap : HoldsShare(x)' <=> HoldsShare(x)
  BY <1>1, SortsAssumption DEF HoldsShare
<1>4. TypeOK'
  BY <1>1 DEF IInv, TypeOK
<1>5. CountsExact'
  BY <1>2, <1>3 DEF IInv, CountsExact
<1>6. LiveIffCounted' /\ LocalsNotFreed' /\ AcquiringKnown'
  BY <1>1, SortsAssumption DEF IInv, LiveIffCounted, LocalsNotFreed, AcquiringKnown, TypeOK
<1>7. DeletingUnused'
  BY <1>1 DEF IInv, DeletingUnused, TypeOK
<1>8. BlockOutlivesUse'
  BY <1>1, <1>2, <1>3 DEF IInv, BlockOutlivesUse
<1> QED
  BY <1>4, <1>5, <1>6, <1>7, <1>8 DEF IInv

\* A new object on the heap: Alloc.
LEMMA AllocStep ==
    ASSUME IInv, NEW t \in Threads, NEW o \in Objects, NEW r \in Refs, Alloc(t, o, r)
    PROVE  IInv'
<1>1. /\ o \in Heap /\ target[r] = None /\ phase[o] = "unborn" /\ o # None
      /\ strong[o] = 0 /\ weak[o] = 0
  BY SortsAssumption DEF Alloc, Spare, IInv, LiveIffCounted, TypeOK
<1>2. /\ \A x \in Objects : /\ phase'[x] = IF x = o THEN "live" ELSE phase[x]
                            /\ strong'[x] = IF x = o THEN 1 ELSE strong[x]
                            /\ weak'[x] = IF x = o THEN 1 ELSE weak[x]
                            /\ block'[x] = IF x = o THEN "allocated" ELSE block[x]
      /\ UNCHANGED <<weakTo, teardown, deleting, acquiring>>
  BY DEF IInv, TypeOK, Alloc
<1>target. target' = [target EXCEPT ![r] = o]
  BY DEF Alloc, Point
<1>3. TypeOK'
  BY DEF IInv, TypeOK, Alloc, Point, Phases
<1>4. \A x \in Objects : Weak(x)' = Weak(x)
  BY <1>2 DEF Weak
<1>5. CountsExact'
  <2> SUFFICES ASSUME NEW x \in Objects
               PROVE  /\ strong'[x] = Cardinality(Strong(x)')
                      /\ x \in Heap => weak'[x] = Cardinality(Weak(x)') + IF HoldsShare(x)' THEN 1 ELSE 0
    BY DEF CountsExact
  <2>1. strong'[x] = Cardinality(Strong(x)')
    <3>1. /\ x = o => Cardinality(Strong(x)') = Cardinality(Strong(x)) + 1
          /\ x # o => Strong(x)' = Strong(x)
      <4>1. TypeOK /\ target[r] # x
        BY <1>1, NoneDistinct DEF IInv
      <4> QED
        BY <4>1, <1>target, StrongStep
    <3> QED
      BY <1>1, <1>2, <3>1 DEF IInv, CountsExact
  <2>2. ASSUME x \in Heap
        PROVE  weak'[x] = Cardinality(Weak(x)') + IF HoldsShare(x)' THEN 1 ELSE 0
    <3>1. Cardinality(Weak(o)) = 0
      BY <1>1, CountedIffSome DEF IInv, CountsExact, HoldsShare
    <3> QED
      BY <1>1, <1>2, <1>4, <2>2, <3>1 DEF IInv, CountsExact, HoldsShare
  <2> QED
    BY <2>1, <2>2
<1>6. LiveIffCounted' /\ LocalsNotFreed' /\ AcquiringKnown'
  <2>1. LiveIffCounted' /\ LocalsNotFreed'
    BY <1>1, <1>2 DEF IInv, LiveIffCounted, LocalsNotFreed
  <2>2. \A u \in Threads : acquiring[u] # None => acquiring[u].into # r
    BY DEF Alloc, Spare
  <2>3. AcquiringKnown'
    BY <1>2, <1>target, <2>2 DEF IInv, AcquiringKnown, TypeOK, Acquisition
  <2> QED
    BY <2>1, <2>3
<1>7. DeletingUnused'
  <2>1. \A u \in Threads : deleting[u] # None => deleting[u] \in Objects /\ deleting[u] # o
    BY <1>1 DEF IInv, DeletingUnused, TypeOK
  <2> QED
    BY <1>2, <2>1 DEF IInv, DeletingUnused
<1>8. BlockOutlivesUse'
  BY <1>1, <1>2, <1>4 DEF IInv, BlockOutlivesUse, HoldsShare
<1> QED
  BY <1>3, <1>5, <1>6, <1>7, <1>8 DEF IInv

\* A new object on the stack: StackAlloc.
LEMMA StackAllocStep ==
    ASSUME IInv, NEW t \in Threads, NEW o \in Objects, NEW r \in Refs, StackAlloc(t, o, r)
    PROVE  IInv'
<1>1. o \in Locals /\ target[r] = None /\ phase[o] = "unborn" /\ o # None /\ strong[o] = 0
  BY SortsAssumption DEF StackAlloc, Spare, IInv, LiveIffCounted, TypeOK
<1>2. /\ \A x \in Objects : /\ phase'[x] = IF x = o THEN "live" ELSE phase[x]
                            /\ strong'[x] = IF x = o THEN 1 ELSE strong[x]
      /\ UNCHANGED <<weak, block, weakTo, teardown, deleting, acquiring>>
  BY DEF IInv, TypeOK, StackAlloc
<1>target. target' = [target EXCEPT ![r] = o]
  BY DEF StackAlloc, Point
<1>3. TypeOK'
  BY DEF IInv, TypeOK, StackAlloc, Point, Phases
<1>4. \A x \in Objects : Weak(x)' = Weak(x)
  BY <1>2 DEF Weak
<1>5. \A x \in Heap : phase'[x] = phase[x] /\ (HoldsShare(x)' <=> HoldsShare(x))
  BY <1>1, <1>2, SortsAssumption DEF HoldsShare
<1>6. CountsExact'
  <2>1. ASSUME NEW x \in Objects
        PROVE  strong'[x] = Cardinality(Strong(x)')
    <3>1. /\ x = o => Cardinality(Strong(x)') = Cardinality(Strong(x)) + 1
          /\ x # o => Strong(x)' = Strong(x)
      <4>1. TypeOK /\ target[r] # x
        BY <1>1, NoneDistinct DEF IInv
      <4> QED
        BY <4>1, <1>target, StrongStep
    <3> QED
      BY <1>1, <1>2, <3>1 DEF IInv, CountsExact
  <2> QED
    BY <1>2, <1>4, <1>5, <2>1 DEF IInv, CountsExact
<1>7. LiveIffCounted' /\ LocalsNotFreed' /\ AcquiringKnown'
  <2>1. LiveIffCounted' /\ LocalsNotFreed'
    BY <1>1, <1>2 DEF IInv, LiveIffCounted, LocalsNotFreed
  <2>2. \A u \in Threads : acquiring[u] # None => acquiring[u].into # r
    BY DEF StackAlloc, Spare
  <2>3. AcquiringKnown'
    BY <1>2, <1>target, <2>2 DEF IInv, AcquiringKnown, TypeOK, Acquisition
  <2> QED
    BY <2>1, <2>3
<1>8. DeletingUnused'
  <2>1. \A u \in Threads : deleting[u] # None => deleting[u] \in Objects /\ deleting[u] # o
    BY <1>1 DEF IInv, DeletingUnused, TypeOK
  <2> QED
    BY <1>2, <2>1 DEF IInv, DeletingUnused
<1>9. BlockOutlivesUse'
  BY <1>2, <1>4, <1>5 DEF IInv, BlockOutlivesUse
<1> QED
  BY <1>3, <1>6, <1>7, <1>8, <1>9 DEF IInv

\* One more strong reference to a live object: Retain, AcquireSucceeds.
LEMMA GainStep ==
    ASSUME IInv, NEW o \in Objects, NEW r \in Refs, phase[o] = "live", target[r] = None,
           strong' = [strong EXCEPT ![o] = @ + 1],
           target' = [target EXCEPT ![r] = o],
           holder' \in [Refs -> Threads \cup Objects \cup {None}],
           acquiring' \in [Threads -> Acquisition \cup {None}],
           \A t \in Threads : acquiring'[t] \in {acquiring[t], None},
           \A t \in Threads : acquiring'[t] # None => acquiring'[t].into # r,
           UNCHANGED <<phase, weak, block, weakTo, teardown, deleting>>
    PROVE  IInv'
<1>1. o # None /\ strong[o] # 0 /\ strong[o] \in Nat
  BY SortsAssumption DEF IInv, LiveIffCounted, TypeOK
<1>2. \A x \in Objects : strong'[x] = IF x = o THEN strong[x] + 1 ELSE strong[x]
  BY DEF IInv, TypeOK
<1>3. TypeOK'
  <2>1. strong' \in [Objects -> Nat] /\ target' \in [Refs -> Objects \cup {None}]
    BY <1>1 DEF IInv, TypeOK
  <2> QED
    BY <2>1 DEF IInv, TypeOK
<1>4. \A x \in Objects : Weak(x)' = Weak(x) /\ (HoldsShare(x)' <=> HoldsShare(x))
  BY DEF Weak, HoldsShare
<1>5. CountsExact'
  <2>1. ASSUME NEW x \in Objects
        PROVE  strong'[x] = Cardinality(Strong(x)')
    <3>1. /\ x = o => Cardinality(Strong(x)') = Cardinality(Strong(x)) + 1
          /\ x # o => Strong(x)' = Strong(x)
      <4>1. TypeOK /\ target[r] # x
        BY NoneDistinct DEF IInv
      <4> QED
        BY <4>1, StrongStep
    <3> QED
      BY <1>2, <3>1 DEF IInv, CountsExact
  <2> QED
    BY <1>4, <2>1 DEF IInv, CountsExact
<1>6. LiveIffCounted'
  BY <1>1, <1>2 DEF IInv, LiveIffCounted
<1>7. LocalsNotFreed' /\ AcquiringKnown' /\ DeletingUnused'
  <2>1. AcquiringKnown'
    BY DEF IInv, AcquiringKnown, TypeOK, Acquisition
  <2> QED
    BY <2>1 DEF IInv, LocalsNotFreed, DeletingUnused
<1>8. BlockOutlivesUse'
  BY <1>4 DEF IInv, BlockOutlivesUse
<1> QED
  BY <1>3, <1>5, <1>6, <1>7, <1>8 DEF IInv

\* One strong reference less: Release, ReleaseStored, AbortInit, ReleaseField.
LEMMA DropStep ==
    ASSUME IInv, NEW t \in Threads, NEW r \in Refs, target[r] # None,
           NEW first \in {"deinit", "free", "dead"},
           first = "dead" => target[r] \in Locals,
           first = "free" => target[r] \in Heap,
           DropStrong(t, r, first)
    PROVE  IInv'
<1> DEFINE o == target[r]
           last == strong[o] = 1
<1>1. o \in Objects /\ phase[o] = "live" /\ strong[o] > 0 /\ strong[o] \in Nat
  BY Referenced DEF IInv, TypeOK
<1>2. target' = [target EXCEPT ![r] = None]
  BY DEF DropStrong, Point
<1> HIDE DEF o
<1>3. /\ \A x \in Objects : /\ strong'[x] = IF x = o THEN strong[x] - 1 ELSE strong[x]
                            /\ phase'[x] = IF x = o /\ last THEN first ELSE phase[x]
      /\ UNCHANGED <<weak, block, weakTo, deleting, acquiring>>
  BY <1>1 DEF DropStrong, IInv, TypeOK, o
<1>4. /\ strong' \in [Objects -> Nat] /\ phase' \in [Objects -> Phases]
      /\ teardown' \in [Threads -> Seq(Objects)]
  <2>1. strong' \in [Objects -> Nat] /\ phase' \in [Objects -> Phases]
    <3>1. phase' \in {phase, [phase EXCEPT ![o] = first]}
      BY DEF DropStrong, o
    <3>2. strong' = [strong EXCEPT ![o] = @ - 1] /\ strong[o] - 1 \in Nat
      BY <1>1 DEF DropStrong, o
    <3> QED
      BY <1>1, <3>1, <3>2 DEF IInv, TypeOK, Phases
  <2>2. teardown \in [Threads -> Seq(Objects)]
    BY DEF IInv, TypeOK
  <2>3. <<o>> \o teardown[t] \in Seq(Objects)
    BY <1>1, <2>2
  <2>4. teardown' \in {teardown, [teardown EXCEPT ![t] = <<o>> \o @]}
    BY DEF DropStrong, o
  <2>5. teardown' \in [Threads -> Seq(Objects)]
    BY <2>2, <2>3, <2>4
  <2> QED
    BY <2>1, <2>5
<1>5. TypeOK'
  BY <1>4 DEF DropStrong, Point, IInv, TypeOK
<1>6. \A x \in Objects : Weak(x)' = Weak(x)
  BY <1>3 DEF Weak
<1>7. \A x \in Heap : HoldsShare(x)' <=> HoldsShare(x)
  BY <1>1, <1>3, SortsAssumption DEF HoldsShare, o
<1>8. CountsExact'
  <2>1. ASSUME NEW x \in Objects
        PROVE  strong'[x] = Cardinality(Strong(x)')
    <3>1. /\ x = o => Cardinality(Strong(x)') = Cardinality(Strong(x)) - 1
          /\ x # o => Strong(x)' = Strong(x)
      BY <1>2, NoneDistinct, StrongStep DEF IInv, o
    <3> QED
      BY <1>3, <3>1 DEF IInv, CountsExact
  <2> QED
    BY <1>3, <1>6, <1>7, <2>1 DEF IInv, CountsExact
<1>9. LiveIffCounted' /\ LocalsNotFreed' /\ AcquiringKnown'
  <2>1. LiveIffCounted'
    BY <1>1, <1>3 DEF IInv, LiveIffCounted
  <2>2. LocalsNotFreed'
    BY <1>3, SortsAssumption DEF IInv, LocalsNotFreed, o
  <2>3. AcquiringKnown'
    BY <1>2, <1>3 DEF IInv, AcquiringKnown, TypeOK, Acquisition
  <2> QED
    BY <2>1, <2>2, <2>3
<1>10. DeletingUnused'
  BY <1>1, <1>3 DEF IInv, DeletingUnused, TypeOK
<1>11. BlockOutlivesUse'
  BY <1>1, <1>3, <1>6, <1>7 DEF IInv, BlockOutlivesUse
<1> QED
  BY <1>5, <1>8, <1>9, <1>10, <1>11 DEF IInv

\* One more weak reference to an object whose block is allocated: CreateWeak, RetainWeak.
LEMMA GainWeakStep ==
    ASSUME IInv, NEW o \in Heap, NEW w \in WeakRefs, weakTo[w] = None,
           block[o] = "allocated", weak[o] > 0, phase[o] # "unborn",
           weak' = [weak EXCEPT ![o] = @ + 1],
           weakTo' = [weakTo EXCEPT ![w] = o],
           UNCHANGED <<phase, strong, block, target, holder, teardown, deleting, acquiring>>
    PROVE  IInv'
<1>1. o \in Objects /\ o # None
  BY NoneDistinct
<1>2. \A x \in Objects : weak'[x] = IF x = o THEN weak[x] + 1 ELSE weak[x]
  BY DEF IInv, TypeOK
<1>3. TypeOK'
  <2>1. weak' \in [Objects -> Nat] /\ weakTo' \in [WeakRefs -> Heap \cup {None}]
    BY DEF IInv, TypeOK
  <2> QED
    BY <2>1 DEF IInv, TypeOK
<1>4. \A x \in Objects : Strong(x)' = Strong(x) /\ (HoldsShare(x)' <=> HoldsShare(x))
  BY DEF Strong, HoldsShare
<1>5. \A x \in Objects : /\ x = o => Cardinality(Weak(x)') = Cardinality(Weak(x)) + 1
                         /\ x # o => Weak(x)' = Weak(x)
                         /\ Cardinality(Weak(x)) \in Nat
  <2> SUFFICES ASSUME NEW x \in Objects
               PROVE  /\ x = o => Cardinality(Weak(x)') = Cardinality(Weak(x)) + 1
                      /\ x # o => Weak(x)' = Weak(x)
                      /\ Cardinality(Weak(x)) \in Nat
    OBVIOUS
  <2>1. TypeOK /\ weakTo[w] # x
    BY NoneDistinct DEF IInv
  <2> QED
    BY <2>1, WeakStep, CountedIffSome
<1>6. CountsExact'
  BY <1>2, <1>4, <1>5 DEF IInv, CountsExact
<1>7. LiveIffCounted' /\ LocalsNotFreed'
  BY <1>1, <1>2 DEF IInv, LiveIffCounted, LocalsNotFreed
<1>8. AcquiringKnown'
  BY <1>1 DEF IInv, AcquiringKnown, TypeOK, Acquisition
<1>9. DeletingUnused'
  BY <1>2 DEF IInv, DeletingUnused, TypeOK
<1>10. BlockOutlivesUse'
  <2>1. Weak(o)' # {}
    BY DEF Weak, IInv, TypeOK
  <2> QED
    BY <1>4, <1>5, <2>1 DEF IInv, BlockOutlivesUse
<1> QED
  BY <1>3, <1>6, <1>7, <1>8, <1>9, <1>10 DEF IInv

\* A weak reference is released and the block deleted if it was the last: ReleaseWeak.
LEMMA ReleaseWeakStep ==
    ASSUME IInv, NEW t \in Threads, NEW w \in WeakRefs, NEW o, o = weakTo[w],
           deleting[t] = None, ReleaseWeak(t, w)
    PROVE  IInv'
<1> DEFINE last == weak[o] = 1
<1>1. /\ o \in Heap /\ o \in Objects /\ o # None /\ phase[o] # "unborn"
      /\ block[o] = "allocated" /\ weak[o] > 0 /\ weak[o] \in Nat
  BY WeaklyReferenced DEF ReleaseWeak, IInv, TypeOK
<1>2. weakTo' = [weakTo EXCEPT ![w] = None]
  BY DEF ReleaseWeak
<1>3. \A u \in Threads : acquiring[u] # None => acquiring[u].ref # w
  BY DEF ReleaseWeak
<1>4. /\ \A x \in Objects : weak'[x] = IF x = o THEN weak[x] - 1 ELSE weak[x]
      /\ \A u \in Threads : deleting'[u] = IF u = t /\ last THEN o ELSE deleting[u]
      /\ UNCHANGED <<phase, strong, block, target, acquiring>>
  BY <1>1 DEF ReleaseWeak, DropWeak, IInv, TypeOK
<1>5. TypeOK'
  <2>1. weak' \in [Objects -> Nat] /\ weakTo' \in [WeakRefs -> Heap \cup {None}]
    BY <1>1, <1>2 DEF ReleaseWeak, DropWeak, IInv, TypeOK
  <2>2. deleting' \in [Threads -> Heap \cup {None}]
    BY <1>1 DEF ReleaseWeak, DropWeak, IInv, TypeOK
  <2> QED
    BY <2>1, <2>2 DEF ReleaseWeak, IInv, TypeOK
<1>6. \A x \in Objects : Strong(x)' = Strong(x) /\ (HoldsShare(x)' <=> HoldsShare(x))
  BY <1>4 DEF Strong, HoldsShare
<1>7. \A x \in Objects : /\ x = o => /\ Cardinality(Weak(x)') = Cardinality(Weak(x)) - 1
                                     /\ Cardinality(Weak(x)) > 0
                         /\ x # o => Weak(x)' = Weak(x)
                         /\ Cardinality(Weak(x)) \in Nat
  <2> SUFFICES ASSUME NEW x \in Objects
               PROVE  /\ x = o => /\ Cardinality(Weak(x)') = Cardinality(Weak(x)) - 1
                                  /\ Cardinality(Weak(x)) > 0
                      /\ x # o => Weak(x)' = Weak(x)
                      /\ Cardinality(Weak(x)) \in Nat
    OBVIOUS
  <2>1. TypeOK /\ None # x
    BY NoneDistinct DEF IInv
  <2> QED
    <3>1. Cardinality(Weak(x)) \in Nat
      BY <2>1, CountedIffSome
    <3>2. (weakTo[w] = x /\ None # x) => /\ Cardinality(Weak(x)') = Cardinality(Weak(x)) - 1
                                         /\ Cardinality(Weak(x)) > 0
      BY <1>2, <2>1, WeakStep
    <3>3. (weakTo[w] = x <=> None = x) => Weak(x)' = Weak(x)
      BY <1>2, <2>1, WeakStep
    <3> QED
      BY <2>1, <3>1, <3>2, <3>3
<1>8. CountsExact'
  BY <1>4, <1>6, <1>7 DEF IInv, CountsExact
<1>9. weak'[o] = 0 <=> last
  BY <1>1, <1>4
<1>10. last => phase[o] = "dead" /\ Weak(o)' = {}
  <2> SUFFICES ASSUME last
               PROVE  phase[o] = "dead" /\ Weak(o)' = {}
    OBVIOUS
  <2>1. w \in Weak(o) /\ Weak(o)' = Weak(o) \ {w}
    BY <1>1, <1>2 DEF Weak, IInv, TypeOK
  <2>2. /\ IsFiniteSet(Weak(o)) /\ Cardinality(Weak(o)) \in Nat /\ Cardinality(Weak(o)) # 0
        /\ weak[o] = Cardinality(Weak(o)) + IF HoldsShare(o) THEN 1 ELSE 0
    BY <1>1, <2>1, CountedIffSome DEF IInv, CountsExact
  <2>3. Cardinality(Weak(o)) = 1 /\ ~HoldsShare(o)
    BY <2>2
  <2>4. Weak(o) = {w}
    BY <2>1, <2>2, <2>3, FS_Singleton
  <2> QED
    BY <1>1, <2>1, <2>3, <2>4 DEF HoldsShare, IInv, TypeOK, Phases
<1>11. LiveIffCounted' /\ LocalsNotFreed'
  BY <1>1, <1>4 DEF IInv, LiveIffCounted, LocalsNotFreed
<1>12. AcquiringKnown'
  BY <1>2, <1>3, <1>4 DEF IInv, AcquiringKnown, TypeOK, Acquisition
<1>13. DeletingUnused'
  <2>1. \A u \in Threads : deleting[u] # None => deleting[u] \in Objects /\ deleting[u] # o
    BY <1>1 DEF IInv, DeletingUnused, TypeOK
  <2> QED
    BY <1>1, <1>4, <1>9, <1>10, <2>1 DEF IInv, DeletingUnused
<1>14. BlockOutlivesUse'
  <2> SUFFICES ASSUME NEW x \in Heap
               PROVE  LET used == \/ Weak(x)' # {} \/ HoldsShare(x)'
                                  \/ \E u \in Threads : deleting'[u] = x
                      IN  block'[x] = IF phase'[x] = "unborn" THEN "none"
                                      ELSE IF used THEN "allocated" ELSE "deleted"
    BY DEF BlockOutlivesUse
  <2>1. CASE x = o /\ last
    BY <1>1, <1>4, <2>1
  <2>2. CASE x = o /\ ~last
    <3>0. Cardinality(Weak(o)') \in Nat
      BY <1>1, <1>7, <2>2
    <3>1. Cardinality(Weak(o)') + (IF HoldsShare(o)' THEN 1 ELSE 0) > 0
      BY <1>1, <1>4, <1>8, <2>2 DEF CountsExact
    <3>2. Weak(o)' # {} \/ HoldsShare(o)'
      BY <3>1, FS_EmptySet
    <3> QED
      BY <1>1, <1>4, <2>2, <3>2
  <2>3. CASE x # o
    <3>1. \A u \in Threads : deleting'[u] = x <=> deleting[u] = x
      BY <1>4, <2>3, NoneDistinct
    <3>2. Weak(x)' = Weak(x) /\ (HoldsShare(x)' <=> HoldsShare(x))
      BY <1>6, <1>7, <2>3
    <3> QED
      BY <1>4, <3>1, <3>2 DEF IInv, BlockOutlivesUse
  <2> QED
    BY <2>1, <2>2, <2>3
<1> QED
  BY <1>5, <1>8, <1>11, <1>12, <1>13, <1>14 DEF IInv

\* The share of the weak count is given up once the object is freed: Unshare.
LEMMA UnshareStep ==
    ASSUME IInv, NEW t \in Threads, NEW o, o = Head(teardown[t]), Unshare(t)
    PROVE  IInv'
<1> DEFINE last == weak[o] = 1
<1>1. /\ o \in Objects /\ o \in Heap /\ o # None /\ phase[o] = "unshare"
      /\ deleting[t] = None /\ weak[o] \in Nat
  BY NoneDistinct DEF Unshare, InPhase, IInv, TypeOK, LocalsNotFreed
<1>2. HoldsShare(o) /\ block[o] = "allocated"
  BY <1>1 DEF HoldsShare, IInv, BlockOutlivesUse
<1>3. weak[o] = Cardinality(Weak(o)) + 1 /\ Cardinality(Weak(o)) \in Nat
  BY <1>1, <1>2, CountedIffSome DEF IInv, CountsExact
<1>4. /\ \A x \in Objects : /\ weak'[x] = IF x = o THEN weak[x] - 1 ELSE weak[x]
                            /\ phase'[x] = IF x = o THEN "dead" ELSE phase[x]
      /\ \A u \in Threads : deleting'[u] = IF u = t /\ last THEN o ELSE deleting[u]
      /\ UNCHANGED <<strong, block, target, weakTo, acquiring>>
  BY <1>1, <1>3 DEF Unshare, DropWeak, IInv, TypeOK
<1>5. TypeOK'
  <2>1. /\ weak' \in [Objects -> Nat] /\ phase' \in [Objects -> Phases]
        /\ deleting' \in [Threads -> Heap \cup {None}]
    BY <1>1, <1>3 DEF Unshare, DropWeak, IInv, TypeOK, Phases
  <2>2. teardown' \in [Threads -> Seq(Objects)]
    BY DEF Unshare, InPhase, IInv, TypeOK
  <2> QED
    BY <2>1, <2>2 DEF Unshare, IInv, TypeOK
<1>6. /\ \A x \in Objects : Strong(x)' = Strong(x) /\ Weak(x)' = Weak(x)
      /\ \A x \in Objects : HoldsShare(x)' <=> HoldsShare(x) /\ x # o
  BY <1>1, <1>4 DEF Strong, Weak, HoldsShare
<1>7. CountsExact'
  BY <1>1, <1>3, <1>4, <1>6 DEF IInv, CountsExact
<1>8. LiveIffCounted' /\ LocalsNotFreed' /\ AcquiringKnown'
  BY <1>1, <1>4 DEF IInv, LiveIffCounted, LocalsNotFreed, AcquiringKnown
<1>9. DeletingUnused'
  <2>1. \A u \in Threads : deleting[u] # None => deleting[u] \in Objects /\ deleting[u] # o
    BY <1>1 DEF IInv, DeletingUnused, TypeOK
  <2> QED
    BY <1>1, <1>3, <1>4, <2>1 DEF IInv, DeletingUnused
<1>10. BlockOutlivesUse'
  <2> SUFFICES ASSUME NEW x \in Heap
               PROVE  LET used == \/ Weak(x)' # {} \/ HoldsShare(x)'
                                  \/ \E u \in Threads : deleting'[u] = x
                      IN  block'[x] = IF phase'[x] = "unborn" THEN "none"
                                      ELSE IF used THEN "allocated" ELSE "deleted"
    BY DEF BlockOutlivesUse
  <2>1. CASE x = o /\ last
    BY <1>1, <1>2, <1>4, <2>1
  <2>2. CASE x = o /\ ~last
    <3>1. Weak(o) # {}
      <4>1. Cardinality(Weak(o)) # 0
        BY <1>3, <2>2
      <4> QED
        BY <1>1, <4>1, CountedIffSome DEF IInv
    <3> QED
      BY <1>1, <1>2, <1>4, <1>6, <2>2, <3>1
  <2>3. CASE x # o
    <3>1. \A u \in Threads : deleting'[u] = x <=> deleting[u] = x
      BY <1>1, <1>4, <2>3, NoneDistinct
    <3>2. Weak(x)' = Weak(x) /\ (HoldsShare(x)' <=> HoldsShare(x))
      BY <1>6, <2>3
    <3> QED
      BY <1>4, <2>3, <3>1, <3>2 DEF IInv, BlockOutlivesUse
  <2> QED
    BY <2>1, <2>2, <2>3
<1> QED
  BY <1>5, <1>7, <1>8, <1>9, <1>10 DEF IInv

\* The block nothing counts on is deleted: DeleteBlock.
LEMMA DeleteStep ==
    ASSUME IInv, NEW t \in Threads, NEW o, o = deleting[t], DeleteBlock(t)
    PROVE  IInv'
<1>1. /\ o \in Objects /\ o \in Heap /\ o # None /\ phase[o] = "dead" /\ weak[o] = 0
      /\ \A u \in Threads : deleting[u] = o => u = t
  BY DEF DeleteBlock, IInv, TypeOK, DeletingUnused
<1>2. /\ \A x \in Objects : block'[x] = IF x = o THEN "deleted" ELSE block[x]
      /\ \A u \in Threads : deleting'[u] = IF u = t THEN None ELSE deleting[u]
      /\ UNCHANGED <<phase, strong, weak, target, holder, weakTo, teardown, acquiring>>
  BY <1>1 DEF DeleteBlock, IInv, TypeOK
<1>3. TypeOK'
  BY DEF DeleteBlock, IInv, TypeOK
<1>4. \A x \in Objects : /\ Strong(x)' = Strong(x) /\ Weak(x)' = Weak(x)
                         /\ HoldsShare(x)' <=> HoldsShare(x)
  BY <1>2 DEF Strong, Weak, HoldsShare
<1>5. CountsExact'
  BY <1>2, <1>4 DEF IInv, CountsExact
<1>6. LiveIffCounted' /\ LocalsNotFreed' /\ AcquiringKnown' /\ DeletingUnused'
  BY <1>2 DEF IInv, LiveIffCounted, LocalsNotFreed, AcquiringKnown, DeletingUnused
<1>7. Weak(o) = {} /\ ~HoldsShare(o)
  <2>1. Cardinality(Weak(o)) = 0
    BY <1>1, CountedIffSome DEF IInv, CountsExact, HoldsShare
  <2> QED
    BY <1>1, <2>1, CountedIffSome DEF IInv, HoldsShare
<1>8. BlockOutlivesUse'
  BY <1>1, <1>2, <1>4, <1>7, NoneDistinct DEF IInv, BlockOutlivesUse
<1> QED
  BY <1>3, <1>5, <1>6, <1>8 DEF IInv

----------------------------------------------------------------------------
\* Before the program runs the invariant holds.
LEMMA Initially == Init => IInv
<1> SUFFICES ASSUME Init PROVE IInv
  OBVIOUS
<1>1. TypeOK
  BY SortsAssumption DEF Init, TypeOK, Phases
<1>2. \A o \in Objects : Strong(o) = {} /\ Weak(o) = {} /\ ~HoldsShare(o)
  BY NoneDistinct DEF Init, Strong, Weak, HoldsShare
<1>3. CountsExact
  <2>1. \A o \in Objects : strong[o] = 0 /\ weak[o] = 0
    BY DEF Init
  <2> QED
    BY <1>2, <2>1, FS_EmptySet DEF CountsExact
<1>4. BlockOutlivesUse
  BY <1>2 DEF Init, BlockOutlivesUse
<1> QED
  BY <1>1, <1>3, <1>4 DEF Init, IInv, LiveIffCounted, LocalsNotFreed, AcquiringKnown,
                          DeletingUnused

\* Whatever the compiled program does, the invariant is preserved.
LEMMA ProgramPreserves ==
    ASSUME IInv, NEW t \in Threads, Program(t)
    PROVE  IInv'
<1>1. CASE \E o \in Objects, r \in Refs : Alloc(t, o, r)
  BY <1>1, AllocStep
<1>2. CASE \E o \in Objects, r \in Refs : StackAlloc(t, o, r)
  BY <1>2, StackAllocStep
<1>3. CASE \E o \in Objects, r \in Refs : Store(t, r, o)
  <2> PICK o \in Objects, r \in Refs : Store(t, r, o)
    BY <1>3
  <2>1. holder' \in [Refs -> Threads \cup Objects \cup {None}]
    BY DEF Store, IInv, TypeOK
  <2> QED
    BY <2>1, MoveStep DEF Store
<1>4. CASE \E src, r \in Refs : Retain(t, src, r)
  <2> PICK src \in Refs, r \in Refs : Retain(t, src, r)
    BY <1>4
  <2>1. target[src] \in Objects /\ phase[target[src]] = "live"
    BY Referenced DEF Retain
  <2>2. /\ holder' \in [Refs -> Threads \cup Objects \cup {None}]
        /\ acquiring' \in [Threads -> Acquisition \cup {None}]
    BY DEF Retain, Point, IInv, TypeOK
  <2> QED
    BY <2>1, <2>2, GainStep DEF Retain, Point, Spare
<1>5. CASE \E u \in Threads, r \in Refs : Send(t, u, r)
  <2> PICK u \in Threads, r \in Refs : Send(t, u, r)
    BY <1>5
  <2>1. holder' \in [Refs -> Threads \cup Objects \cup {None}]
    BY DEF Send, IInv, TypeOK
  <2> QED
    BY <2>1, MoveStep DEF Send
<1>6. CASE \E r \in Refs : ReleaseStored(t, r)
  <2> PICK r \in Refs : ReleaseStored(t, r)
    BY <1>6
  <2> QED
    BY DropStep DEF ReleaseStored, FirstPhase
<1>7. CASE \E r \in Refs : Release(t, r)
  <2> PICK r \in Refs : Release(t, r)
    BY <1>7
  <2> QED
    BY DropStep DEF Release, FirstPhase
<1>8. CASE \E r \in Refs : AbortInit(t, r)
  <2> PICK r \in Refs : AbortInit(t, r)
    BY <1>8
  <2> QED
    BY DropStep, NoneDistinct DEF AbortInit
<1>9. CASE \E w \in WeakRefs, o \in HeapObjects : CreateWeak(t, w, o)
  <2> PICK w \in WeakRefs, o \in HeapObjects : CreateWeak(t, w, o)
    BY <1>9
  <2>1. phase[o] = "live"
    BY Referenced, NoneDistinct DEF CreateWeak
  <2>2. HoldsShare(o) /\ block[o] = "allocated"
    BY <2>1 DEF HoldsShare, IInv, BlockOutlivesUse
  <2>3. weak[o] > 0
    BY <2>2, CountedIffSome DEF IInv, CountsExact
  <2> QED
    BY <2>1, <2>2, <2>3, GainWeakStep DEF CreateWeak
<1>10. CASE \E src, w \in WeakRefs : RetainWeak(t, src, w)
  <2> PICK src \in WeakRefs, w \in WeakRefs : RetainWeak(t, src, w)
    BY <1>10
  <2> QED
    BY WeaklyReferenced, GainWeakStep DEF RetainWeak
<1>11. CASE \E w \in WeakRefs : ReleaseWeak(t, w)
  BY <1>11, ReleaseWeakStep DEF ReleaseWeak, Running, InPhase
<1>12. CASE \E w \in WeakRefs, r \in Refs : AcquireLoad(t, w, r)
  <2> PICK w \in WeakRefs, r \in Refs : AcquireLoad(t, w, r)
    BY <1>12
  <2> DEFINE a == [ref |-> w, into |-> r, count |-> strong[weakTo[w]]]
  <2>1. a \in Acquisition
    BY WeaklyReferenced DEF AcquireLoad, Acquisition, IInv, TypeOK
  <2>2. /\ a.ref = w /\ a.into = r /\ weakTo[w] # None /\ target[r] = None
        /\ \A u \in Threads : acquiring[u] # None => acquiring[u].into # r
    BY DEF AcquireLoad, Spare
  <2>3. /\ acquiring' = [acquiring EXCEPT ![t] = a]
        /\ UNCHANGED <<phase, strong, weak, block, target, holder, weakTo, teardown, deleting>>
    BY DEF AcquireLoad
  <2> HIDE DEF a
  <2> QED
    BY <2>1, <2>2, <2>3, LookStep
<1> QED
  BY <1>1, <1>2, <1>3, <1>4, <1>5, <1>6, <1>7, <1>8, <1>9, <1>10, <1>11, <1>12 DEF Program

\* Whatever the runtime does, the invariant is preserved.
LEMMA RuntimePreserves ==
    ASSUME IInv, NEW t \in Threads, Runtime(t)
    PROVE  IInv'
<1> DEFINE o == Head(teardown[t])
           a == acquiring[t]
<1>0. teardown[t] # <<>> => o \in Objects /\ Tail(teardown[t]) \in Seq(Objects)
  BY DEF IInv, TypeOK
<1>1. CASE DeinitReturns(t)
  BY <1>0, <1>1, ProceedStep DEF DeinitReturns, InPhase, Phases, IInv, TypeOK
<1>2. CASE DestructReturns(t)
  <2>1. teardown' \in [Threads -> Seq(Objects)]
    BY <1>0, <1>2 DEF DestructReturns, InPhase, IInv, TypeOK
  <2> QED
    BY <1>0, <1>2, <2>1, ProceedStep DEF DestructReturns, InPhase, Phases
<1>3. CASE Free(t)
  BY <1>0, <1>3, ProceedStep DEF Free, InPhase, Phases, IInv, TypeOK, LocalsNotFreed
<1>4. CASE Unshare(t)
  BY <1>4, UnshareStep
<1>5. CASE DeleteBlock(t)
  BY <1>5, DeleteStep
<1>6. CASE \E r \in Refs : ReleaseField(t, r)
  <2> PICK r \in Refs : ReleaseField(t, r)
    BY <1>6
  <2> QED
    BY DropStep DEF ReleaseField, FirstPhase
<1>7. CASE AcquireFails(t)
  BY <1>7, LookStep DEF AcquireFails
<1>8. CASE AcquireSucceeds(t)
  <2>1. /\ a \in Acquisition /\ a.into \in Refs /\ a.ref \in WeakRefs
        /\ weakTo[a.ref] # None /\ target[a.into] = None
    BY <1>8 DEF AcquireSucceeds, Acquisition, IInv, TypeOK, AcquiringKnown
  <2>2. weakTo[a.ref] \in Objects /\ phase[weakTo[a.ref]] = "live"
    BY <1>8, <2>1 DEF AcquireSucceeds, IInv, TypeOK, LiveIffCounted
  <2>3. /\ strong' = [strong EXCEPT ![weakTo[a.ref]] = @ + 1]
        /\ target' = [target EXCEPT ![a.into] = weakTo[a.ref]]
        /\ UNCHANGED <<phase, weak, block, weakTo, teardown, deleting>>
    BY <1>8 DEF AcquireSucceeds, Point
  <2>4. holder' \in [Refs -> Threads \cup Objects \cup {None}]
    BY <1>8, <2>1 DEF AcquireSucceeds, Point, IInv, TypeOK
  <2>5. /\ acquiring' \in [Threads -> Acquisition \cup {None}]
        /\ \A u \in Threads : acquiring'[u] = IF u = t THEN None ELSE acquiring[u]
    BY <1>8 DEF AcquireSucceeds, IInv, TypeOK
  <2>6. \A u \in Threads : acquiring'[u] # None => acquiring'[u].into # a.into
    BY <1>8, <2>5 DEF AcquireSucceeds, IInv, AcquiringKnown
  <2> QED
    BY <2>1, <2>2, <2>3, <2>4, <2>5, <2>6, GainStep
<1>9. CASE AcquireRetries(t)
  <2> DEFINE b == [a EXCEPT !.count = strong[weakTo[a.ref]]]
  <2>1. /\ a \in Acquisition /\ weakTo[a.ref] \in Objects /\ target[a.into] = None
        /\ weakTo[a.ref] # None
    BY <1>9, WeaklyReferenced DEF AcquireRetries, Acquisition, IInv, TypeOK, AcquiringKnown
  <2>2. b \in Acquisition /\ b.ref = a.ref /\ b.into = a.into
    <3>1. strong[weakTo[a.ref]] \in Int
      BY <2>1 DEF IInv, TypeOK
    <3> HIDE DEF a
    <3> QED
      BY <2>1, <3>1 DEF Acquisition
  <2>3. /\ acquiring' = [acquiring EXCEPT ![t] = b]
        /\ UNCHANGED <<phase, strong, weak, block, target, holder, weakTo, teardown, deleting>>
    BY <1>9 DEF AcquireRetries
  <2>4. \A u \in Threads \ {t} : acquiring[u] # None => acquiring[u].into # a.into
    BY <1>9 DEF AcquireRetries, IInv, AcquiringKnown
  <2> HIDE DEF a, b
  <2> QED
    BY <2>1, <2>2, <2>3, <2>4, LookStep
<1> QED
  BY <1>1, <1>2, <1>3, <1>4, <1>5, <1>6, <1>7, <1>8, <1>9 DEF Runtime, ReleaseStep, AcquireStep

\* A stuttering step keeps the invariant.
LEMMA Stutter == IInv /\ UNCHANGED vars => IInv'
<1> SUFFICES ASSUME IInv, UNCHANGED vars PROVE IInv'
  OBVIOUS
<1>1. holder' \in [Refs -> Threads \cup Objects \cup {None}]
  BY DEF vars, IInv, TypeOK
<1> QED
  BY <1>1, MoveStep DEF vars

\* The invariant is inductive.
THEOREM Invariance == Spec => []IInv
<1>1. IInv /\ [Next]_vars => IInv'
  BY ProgramPreserves, RuntimePreserves, Stutter DEF Next
<1> QED
  BY Initially, <1>1, PTL DEF Spec

\* Every variable keeps its type; in particular no count ever becomes negative.
THEOREM TypeCorrect == Spec => []TypeOK
<1>1. IInv => TypeOK
  BY DEF IInv
<1> QED
  BY Invariance, <1>1, PTL

\* The counts in the control blocks are exact in every state, for any number of threads.
THEOREM CountsAreExact == Spec => []CountsExact
<1>1. IInv => CountsExact
  BY DEF IInv
<1> QED
  BY Invariance, <1>1, PTL

\* No strong reference ever points to an object whose destruction has begun.
THEOREM NothingDangles == Spec => []ReferencesKeepAlive
<1>1. IInv => ReferencesKeepAlive
  BY Referenced DEF ReferencesKeepAlive
<1> QED
  BY Invariance, <1>1, PTL

\* A control block is never used after it was deleted, and never leaked.
THEOREM BlocksAreSafe == Spec => []BlockOutlivesUse
<1>1. IInv => BlockOutlivesUse
  BY DEF IInv
<1> QED
  BY Invariance, <1>1, PTL


----------------------------------------------------------------------------
\* An object is torn down while, and only while, it is in the release of one thread, once.
At(t, i, o) == i \in 1..Len(teardown[t]) /\ teardown[t][i] = o
TornDownInOnePlace ==
    /\ \A t \in Threads, i \in Nat, o \in Objects : At(t, i, o) => phase[o] \in Tearing
    /\ \A o \in Objects : phase[o] \in Tearing => \E t \in Threads, i \in Nat : At(t, i, o)
    /\ \A t, u \in Threads, i, j \in Nat, o \in Objects : At(t, i, o) /\ At(u, j, o) => t = u /\ i = j

\* Steps that begin and end no release.
Proceeds == UNCHANGED teardown /\ \A o \in Objects : phase'[o] \in Tearing <=> phase[o] \in Tearing

\* The last release of o begins; thread t is inside it.
Begins(t, o) == /\ teardown' = [teardown EXCEPT ![t] = <<o>> \o @]
                /\ phase[o] = "live" /\ phase'[o] \in Tearing
                /\ \A x \in Objects \ {o} : phase'[x] = phase[x]

\* The release of the object t tears down ends.
Ends(t) == /\ teardown[t] # <<>> /\ teardown' = [teardown EXCEPT ![t] = Tail(@)]
           /\ phase'[Head(teardown[t])] = "dead"
           /\ \A x \in Objects \ {Head(teardown[t])} : phase'[x] = phase[x]

\* A teardown that begins is the only one of its object.
LEMMA BeginStep ==
    ASSUME TypeOK, TornDownInOnePlace, NEW t \in Threads, NEW o \in Objects, Begins(t, o)
    PROVE  TornDownInOnePlace'
<1>1. teardown[t] \in Seq(Objects) /\ \A u \in Threads : Len(teardown[u]) \in Nat
  BY DEF TypeOK
<1>2. teardown'[t] = <<o>> \o teardown[t] /\ \A u \in Threads \ {t} : teardown'[u] = teardown[u]
  BY DEF Begins, TypeOK
<1>3. /\ Len(teardown'[t]) = Len(teardown[t]) + 1
      /\ \A i \in 1..(Len(teardown[t]) + 1) :
             teardown'[t][i] = IF i = 1 THEN o ELSE teardown[t][i - 1]
  BY <1>1, <1>2
<1>4. ASSUME NEW u \in Threads, NEW i \in Nat, NEW x \in Objects
      PROVE  At(u, i, x)' <=> IF u = t THEN (i = 1 /\ x = o) \/ At(t, i - 1, x) ELSE At(u, i, x)
  <2>1. CASE u = t
    BY <1>1, <1>3, <2>1 DEF At
  <2>2. CASE u # t
    BY <1>2, <2>2 DEF At
  <2> QED
    BY <2>1, <2>2
<1>5. ASSUME NEW u \in Threads, NEW i \in Nat PROVE ~At(u, i, o)
  BY DEF TornDownInOnePlace, Begins, Tearing
<1>6. ASSUME NEW i \in Nat, NEW x \in Objects, At(t, i - 1, x) PROVE i - 1 \in Nat /\ x # o
  <2>1. i - 1 \in Nat
    BY <1>6 DEF At
  <2> QED
    BY <1>5, <1>6, <2>1
<1>7. phase'[o] \in Tearing /\ \A x \in Objects \ {o} : phase'[x] = phase[x]
  BY DEF Begins
<1>8. ASSUME NEW u \in Threads, NEW i \in Nat, NEW x \in Objects, At(u, i, x)'
      PROVE  phase'[x] \in Tearing
  BY <1>4, <1>5, <1>6, <1>7, <1>8 DEF TornDownInOnePlace
<1>9. ASSUME NEW x \in Objects, phase'[x] \in Tearing
      PROVE  \E u \in Threads, i \in Nat : At(u, i, x)'
  <2>1. CASE x = o
    <3>1. At(t, 1, o)'
      BY <1>4
    <3> QED
      BY <2>1, <3>1
  <2>2. CASE x # o
    <3>1. PICK u \in Threads, i \in Nat : At(u, i, x)
      BY <1>7, <1>9, <2>2 DEF TornDownInOnePlace
    <3>2. CASE u = t
      <4>1. At(t, i + 1, x)' /\ i + 1 \in Nat
        BY <1>4, <3>1, <3>2
      <4> QED
        BY <4>1
    <3>3. CASE u # t
      BY <1>4, <3>1, <3>3
    <3> QED
      BY <3>2, <3>3
  <2> QED
    BY <2>1, <2>2
<1>10. ASSUME NEW u \in Threads, NEW v \in Threads, NEW i \in Nat, NEW j \in Nat, NEW x \in Objects,
              At(u, i, x)', At(v, j, x)'
       PROVE  u = v /\ i = j
  <2>1. CASE x = o
    BY <1>4, <1>5, <1>6, <1>10, <2>1
  <2>2. CASE x # o
    <3> DEFINE before(w, k) == IF w = t THEN k - 1 ELSE k
    <3>1. /\ before(u, i) \in Nat /\ At(u, before(u, i), x)
          /\ before(v, j) \in Nat /\ At(v, before(v, j), x)
      BY <1>4, <1>6, <1>10, <2>2
    <3>2. u = v /\ before(u, i) = before(v, j)
      BY <3>1 DEF TornDownInOnePlace
    <3> QED
      BY <3>2
  <2> QED
    BY <2>1, <2>2
<1> QED
  BY <1>8, <1>9, <1>10 DEF TornDownInOnePlace

\* A teardown that ends leaves those around it in place.
LEMMA EndStep ==
    ASSUME TypeOK, TornDownInOnePlace, NEW t \in Threads, Ends(t)
    PROVE  TornDownInOnePlace'
<1>0. PICK o : o = Head(teardown[t])
  OBVIOUS
<1>1. teardown[t] \in Seq(Objects) /\ teardown[t] # <<>> /\ \A u \in Threads : Len(teardown[u]) \in Nat
  BY DEF TypeOK, Ends
<1>2. teardown'[t] = Tail(teardown[t]) /\ \A u \in Threads \ {t} : teardown'[u] = teardown[u]
  BY DEF Ends, TypeOK
<1>3. /\ Len(teardown'[t]) = Len(teardown[t]) - 1 /\ Len(teardown[t]) > 0
      /\ \A i \in 1..(Len(teardown[t]) - 1) : teardown'[t][i] = teardown[t][i + 1]
      /\ o = teardown[t][1] /\ o \in Objects
  BY <1>0, <1>1, <1>2
<1>4. ASSUME NEW u \in Threads, NEW i \in Nat, NEW x \in Objects
      PROVE  At(u, i, x)' <=> IF u = t THEN i # 0 /\ At(t, i + 1, x) ELSE At(u, i, x)
  <2>1. CASE u = t
    BY <1>1, <1>3, <2>1 DEF At
  <2>2. CASE u # t
    BY <1>2, <2>2 DEF At
  <2> QED
    BY <2>1, <2>2
<1>5. phase'[o] = "dead" /\ \A x \in Objects \ {o} : phase'[x] = phase[x]
  BY <1>0 DEF Ends
<1>6. At(t, 1, o)
  BY <1>1, <1>3 DEF At
<1>7. ASSUME NEW u \in Threads, NEW i \in Nat PROVE At(u, i, o) => u = t /\ i = 1
  BY <1>3, <1>6 DEF TornDownInOnePlace
<1>8. ASSUME NEW u \in Threads, NEW i \in Nat PROVE ~At(u, i, o)'
  <2>1. i # 0 => i + 1 # 1
    OBVIOUS
  <2>2. At(t, i + 1, o) => i + 1 = 1
    BY <1>7
  <2>3. u # t => ~At(u, i, o)
    BY <1>7
  <2> QED
    BY <1>3, <1>4, <2>1, <2>2, <2>3
<1>9. ASSUME NEW u \in Threads, NEW i \in Nat, NEW x \in Objects, At(u, i, x)'
      PROVE  phase'[x] \in Tearing
  <2>1. x # o
    BY <1>8, <1>9
  <2>2. \E j \in Nat : At(u, j, x)
    BY <1>4, <1>9
  <2> QED
    BY <1>5, <2>1, <2>2 DEF TornDownInOnePlace
<1>10. ASSUME NEW x \in Objects, phase'[x] \in Tearing
       PROVE  \E u \in Threads, i \in Nat : At(u, i, x)'
  <2>1. x # o /\ phase[x] \in Tearing
    BY <1>5, <1>10 DEF Tearing
  <2>2. PICK u \in Threads, i \in Nat : At(u, i, x)
    BY <2>1 DEF TornDownInOnePlace
  <2>3. CASE u = t
    <3>1. i # 0
      BY <2>2 DEF At
    <3>2. i # 1
      BY <1>3, <2>1, <2>2, <2>3 DEF At
    <3>3. i - 1 \in Nat /\ i - 1 # 0 /\ (i - 1) + 1 = i
      BY <3>1, <3>2
    <3>4. At(t, i - 1, x)'
      BY <1>4, <2>2, <2>3, <3>3
    <3> QED
      BY <3>3, <3>4
  <2>4. CASE u # t
    BY <1>4, <2>2, <2>4
  <2> QED
    BY <2>3, <2>4
<1>11. ASSUME NEW u \in Threads, NEW v \in Threads, NEW i \in Nat, NEW j \in Nat, NEW x \in Objects,
              At(u, i, x)', At(v, j, x)'
       PROVE  u = v /\ i = j
  <2> DEFINE before(w, k) == IF w = t THEN k + 1 ELSE k
  <2>1. /\ before(u, i) \in Nat /\ At(u, before(u, i), x)
        /\ before(v, j) \in Nat /\ At(v, before(v, j), x)
    BY <1>4, <1>11
  <2>2. u = v /\ before(u, i) = before(v, j)
    BY <2>1 DEF TornDownInOnePlace
  <2> QED
    BY <2>2
<1> QED
  BY <1>9, <1>10, <1>11 DEF TornDownInOnePlace

\* Dropping a strong reference begins a teardown or none.
LEMMA DropShape ==
    ASSUME IInv, NEW t \in Threads, NEW r \in Refs, target[r] # None,
           NEW first \in {"deinit", "free", "dead"}, DropStrong(t, r, first)
    PROVE  Proceeds \/ \E o \in Objects : Begins(t, o)
<1>1. PICK o \in Objects : o = target[r] /\ phase[o] = "live"
  BY Referenced
<1>2. phase \in [Objects -> Phases] /\ teardown \in [Threads -> Seq(Objects)]
  BY DEF IInv, TypeOK
<1>3. CASE strong[o] - 1 = 0 /\ first # "dead"
  <2>1. phase' = [phase EXCEPT ![o] = first] /\ teardown' = [teardown EXCEPT ![t] = <<o>> \o @]
    BY <1>1, <1>3 DEF DropStrong
  <2>2. Begins(t, o)
    BY <1>1, <1>2, <1>3, <2>1 DEF Begins, Tearing
  <2> QED
    BY <2>2
<1>4. CASE strong[o] - 1 = 0 /\ first = "dead"
  <2>1. phase' = [phase EXCEPT ![o] = "dead"] /\ teardown' = teardown
    BY <1>1, <1>4 DEF DropStrong
  <2> QED
    BY <1>1, <1>2, <2>1 DEF Proceeds, Tearing
<1>5. CASE strong[o] - 1 # 0
  <2>1. UNCHANGED <<phase, teardown>>
    BY <1>1, <1>5 DEF DropStrong
  <2> QED
    BY <2>1 DEF Proceeds
<1> QED
  BY <1>3, <1>4, <1>5

\* Every step begins a release, ends one, or does neither.
LEMMA StepShapes ==
    ASSUME IInv, NEW t \in Threads, Program(t) \/ Runtime(t)
    PROVE  Proceeds \/ (\E o \in Objects : Begins(t, o)) \/ Ends(t)
<1>1. phase \in [Objects -> Phases] /\ teardown \in [Threads -> Seq(Objects)]
  BY DEF IInv, TypeOK
<1>2. teardown[t] # <<>> => Head(teardown[t]) \in Objects
  BY <1>1
<1>3. ASSUME NEW o \in Objects, NEW r \in Refs, Alloc(t, o, r) \/ StackAlloc(t, o, r) \/ Store(t, r, o)
      PROVE  Proceeds
  BY <1>1, <1>3 DEF Alloc, StackAlloc, Store, Proceeds, Tearing
<1>4. ASSUME NEW src \in Refs, NEW r \in Refs, Retain(t, src, r) PROVE Proceeds
  BY <1>4 DEF Retain, Proceeds
<1>5. ASSUME NEW u \in Threads, NEW r \in Refs, Send(t, u, r) PROVE Proceeds
  BY <1>5 DEF Send, Proceeds
<1>6. ASSUME NEW r \in Refs, \/ Release(t, r) \/ ReleaseStored(t, r) \/ AbortInit(t, r)
                             \/ ReleaseField(t, r)
      PROVE  Proceeds \/ \E o \in Objects : Begins(t, o)
  <2>1. FirstPhase(target[r]) \in {"deinit", "free", "dead"}
    BY DEF FirstPhase
  <2>2. CASE Release(t, r) \/ ReleaseStored(t, r) \/ ReleaseField(t, r)
    BY <2>1, <2>2, DropShape DEF Release, ReleaseStored, ReleaseField
  <2>3. CASE AbortInit(t, r)
    BY <2>3, DropShape, NoneDistinct DEF AbortInit
  <2> QED
    BY <1>6, <2>2, <2>3
<1>7. ASSUME NEW w \in WeakRefs, NEW o \in HeapObjects, CreateWeak(t, w, o) PROVE Proceeds
  BY <1>7 DEF CreateWeak, Proceeds
<1>8. ASSUME NEW src \in WeakRefs, NEW w \in WeakRefs, RetainWeak(t, src, w) PROVE Proceeds
  BY <1>8 DEF RetainWeak, Proceeds
<1>9. ASSUME NEW w \in WeakRefs, ReleaseWeak(t, w) PROVE Proceeds
  BY <1>9 DEF ReleaseWeak, Proceeds
<1>10. ASSUME NEW w \in WeakRefs, NEW r \in Refs, AcquireLoad(t, w, r) PROVE Proceeds
  BY <1>10 DEF AcquireLoad, Proceeds
<1>11. ASSUME \/ DeleteBlock(t) \/ AcquireFails(t) \/ AcquireSucceeds(t) \/ AcquireRetries(t)
       PROVE  Proceeds
  BY <1>11 DEF DeleteBlock, AcquireFails, AcquireSucceeds, AcquireRetries, Proceeds
<1>12. ASSUME DeinitReturns(t) \/ Free(t) PROVE Proceeds
  BY <1>1, <1>2, <1>12 DEF DeinitReturns, Free, InPhase, Proceeds, Tearing
<1>13. ASSUME DestructReturns(t) PROVE Proceeds \/ Ends(t)
  BY <1>1, <1>2, <1>13 DEF DestructReturns, InPhase, Proceeds, Ends, Tearing
<1>14. ASSUME Unshare(t) PROVE Ends(t)
  BY <1>1, <1>2, <1>14 DEF Unshare, InPhase, Ends
<1>15. CASE Program(t)
  BY <1>15, <1>3, <1>4, <1>5, <1>6, <1>7, <1>8, <1>9, <1>10 DEF Program
<1>16. CASE Runtime(t)
  BY <1>16, <1>6, <1>11, <1>12, <1>13, <1>14 DEF Runtime, ReleaseStep, AcquireStep
<1> QED
  BY <1>15, <1>16

\* A step that begins and ends no teardown keeps where the objects are torn down.
LEMMA ProceedsStep ==
    ASSUME TornDownInOnePlace, Proceeds PROVE TornDownInOnePlace'
<1>1. \A t \in Threads, i \in Nat, o \in Objects : At(t, i, o)' <=> At(t, i, o)
  BY DEF Proceeds, At
<1>2. \A o \in Objects : phase'[o] \in Tearing <=> phase[o] \in Tearing
  BY DEF Proceeds
<1>3. \A t \in Threads, i \in Nat, o \in Objects : At(t, i, o)' => phase'[o] \in Tearing
  BY <1>1, <1>2 DEF TornDownInOnePlace
<1>4. \A o \in Objects : phase'[o] \in Tearing => \E t \in Threads, i \in Nat : At(t, i, o)'
  BY <1>1, <1>2 DEF TornDownInOnePlace
<1>5. \A t, u \in Threads, i, j \in Nat, o \in Objects : At(t, i, o)' /\ At(u, j, o)' => t = u /\ i = j
  BY <1>1 DEF TornDownInOnePlace
<1>6. Tearing' = Tearing
  BY DEF Tearing
<1> QED
  BY <1>3, <1>4, <1>5, <1>6 DEF TornDownInOnePlace

\* Every object that is torn down is torn down in one place, in any state.
THEOREM OnePlace == Spec => []TornDownInOnePlace
<1>1. Init => TornDownInOnePlace
  <2> SUFFICES ASSUME Init PROVE TornDownInOnePlace
    OBVIOUS
  <2>1. \A t \in Threads : teardown[t] = <<>> /\ Len(teardown[t]) = 0
    BY DEF Init
  <2>2. \A o \in Objects : phase[o] \notin Tearing
    BY DEF Init, Tearing
  <2>3. ASSUME NEW t \in Threads, NEW i \in Nat, NEW o \in Objects PROVE ~At(t, i, o)
    BY <2>1 DEF At
  <2> QED
    BY <2>2, <2>3 DEF TornDownInOnePlace
<1>2. IInv /\ TornDownInOnePlace /\ [Next]_vars => TornDownInOnePlace'
  <2> SUFFICES ASSUME IInv, TornDownInOnePlace, [Next]_vars PROVE TornDownInOnePlace'
    OBVIOUS
  <2>1. CASE Next
    <3>1. PICK t \in Threads : Program(t) \/ Runtime(t)
      BY <2>1 DEF Next
    <3> QED
      BY <3>1, StepShapes, ProceedsStep, BeginStep, EndStep DEF IInv
  <2>2. CASE UNCHANGED vars
    BY <2>2, ProceedsStep DEF vars, Proceeds
  <2> QED
    BY <2>1, <2>2
<1> QED
  BY <1>1, <1>2, Invariance, PTL DEF Spec

\* An object is destructed and freed by one thread, in one call of a release function, however
\* many threads release it at the same time and whatever its own destructor leads back to.
THEOREM ObjectsTornDownOnce == Spec => []TornDownOnce
<1>1. ASSUME TornDownInOnePlace PROVE TornDownOnce
  <2> SUFFICES ASSUME NEW o \in Objects
               PROVE  LET places == UNION {{<<t, i>> : i \in {j \in 1..Len(teardown[t]) : teardown[t][j] = o}}
                                           : t \in Threads}
                      IN  Cardinality(places) = IF phase[o] \in Tearing THEN 1 ELSE 0
    BY DEF TornDownOnce
  <2> DEFINE places == UNION {{<<t, i>> : i \in {j \in 1..Len(teardown[t]) : teardown[t][j] = o}}
                              : t \in Threads}
  <2>1. \A t \in Threads, i \in Nat : At(t, i, o) => <<t, i>> \in places
    BY DEF At
  <2>2. \A x \in places : \E t \in Threads, i \in Nat : x = <<t, i>> /\ At(t, i, o)
    BY DEF At
  <2> HIDE DEF places
  <2>3. ASSUME phase[o] \in Tearing PROVE Cardinality(places) = 1
    <3>1. PICK t \in Threads, i \in Nat : At(t, i, o)
      BY <1>1, <2>3 DEF TornDownInOnePlace
    <3>2. \A u \in Threads, j \in Nat : At(u, j, o) => u = t /\ j = i
      BY <1>1, <3>1 DEF TornDownInOnePlace
    <3>3. places = {<<t, i>>}
      BY <2>1, <2>2, <3>1, <3>2
    <3> QED
      BY <3>3, FS_Singleton
  <2>4. ASSUME phase[o] \notin Tearing PROVE Cardinality(places) = 0
    <3>1. \A t \in Threads, i \in Nat : ~At(t, i, o)
      BY <1>1, <2>4 DEF TornDownInOnePlace
    <3>2. places = {}
      BY <2>1, <2>2, <3>1
    <3> QED
      BY <3>2, FS_EmptySet
  <2> QED
    BY <2>3, <2>4 DEF places
<1> QED
  BY <1>1, OnePlace, PTL

----------------------------------------------------------------------------
\* The refinement.  What the program sees of a state of the runtime are the lives of the
\* objects, the strong references, and the objects that threads ask for.
Asked(t) == IF acquiring[t] = None THEN None ELSE weakTo[acquiring[t].ref]

\* The strong count ejcAcquireStrong found zero is that of an object whose life has ended.
ZeroIsDead ==
    \A t \in Threads : acquiring[t] # None /\ acquiring[t].count = 0 =>
        phase[weakTo[acquiring[t].ref]] # "live"

\* A step nobody sees.
LEMMA NobodySees ==
    ASSUME \A x \in Objects : Life(x)' = Life(x), target' = target,
           \A t \in Threads : Asked(t)' = Asked(t)
    PROVE  UNCHANGED Lifetime!vars
BY DEF Lifetime!vars, Asked

\* An object comes to life, and a reference points to it.
LEMMA IsCreate ==
    ASSUME NEW o \in Objects, NEW r \in Refs, Life(o) = "unborn", target[r] = None,
           \A x \in Objects : Life(x)' = IF x = o THEN "alive" ELSE Life(x),
           target' = [target EXCEPT ![r] = o],
           \A t \in Threads : Asked(t)' = Asked(t)
    PROVE  Lifetime!Next
<1>1. Lifetime!Create(o, r)
  BY DEF Lifetime!Create, Asked
<1> QED
  BY <1>1 DEF Lifetime!Next

\* A reference is copied.
LEMMA IsShare ==
    ASSUME NEW src \in Refs, NEW r \in Refs, target[src] # None, target[r] = None,
           \A x \in Objects : Life(x)' = Life(x),
           target' = [target EXCEPT ![r] = target[src]],
           \A t \in Threads : Asked(t)' = Asked(t)
    PROVE  Lifetime!Next
<1>1. Lifetime!Share(src, r)
  BY DEF Lifetime!Share, Asked
<1> QED
  BY <1>1 DEF Lifetime!Next

\* A reference that is not the last one goes.
LEMMA IsDropOfOne ==
    ASSUME NEW r \in Refs, NEW s \in Refs \ {r}, target[r] # None, target[s] = target[r],
           \A x \in Objects : Life(x)' = Life(x),
           target' = [target EXCEPT ![r] = None],
           \A t \in Threads : Asked(t)' = Asked(t)
    PROVE  Lifetime!Next
<1>1. Lifetime!Drop(r)
  BY DEF Lifetime!Drop, Asked
<1> QED
  BY <1>1 DEF Lifetime!Next

\* The last reference to an object goes, and its life ends.
LEMMA IsDropOfLast ==
    ASSUME NEW r \in Refs, NEW next \in {"finalizing", "reclaimed"},
           target[r] # None, target[r] \in Objects,
           \A s \in Refs \ {r} : target[s] # target[r],
           \A x \in Objects : Life(x)' = IF x = target[r] THEN next ELSE Life(x),
           target' = [target EXCEPT ![r] = None],
           \A t \in Threads : Asked(t)' = Asked(t)
    PROVE  Lifetime!Next
<1>1. [x \in Objects |-> Life(x)]' = [[x \in Objects |-> Life(x)] EXCEPT ![target[r]] = next]
  OBVIOUS
<1>2. Lifetime!Drop(r)
  BY <1>1 DEF Lifetime!Drop, Asked
<1> QED
  BY <1>2 DEF Lifetime!Next

\* The object is gone.
LEMMA IsReclaim ==
    ASSUME NEW o \in Objects, Life(o) = "finalizing",
           \A x \in Objects : Life(x)' = IF x = o THEN "reclaimed" ELSE Life(x),
           target' = target,
           \A t \in Threads : Asked(t)' = Asked(t)
    PROVE  Lifetime!Next
<1>1. Lifetime!Reclaim(o)
  BY DEF Lifetime!Reclaim, Asked
<1> QED
  BY <1>1 DEF Lifetime!Next

\* A thread asks for a strong reference to an object.
LEMMA IsAsk ==
    ASSUME NEW t \in Threads, NEW o \in Objects, Asked(t) = None, Life(o) # "unborn",
           \A x \in Objects : Life(x)' = Life(x), target' = target,
           \A u \in Threads : Asked(u)' = IF u = t THEN o ELSE Asked(u)
    PROVE  Lifetime!Next
<1>1. Lifetime!Ask(t, o)
  BY DEF Lifetime!Ask, Asked
<1> QED
  BY <1>1 DEF Lifetime!Next

\* It is granted one.
LEMMA IsGrant ==
    ASSUME NEW t \in Threads, NEW r \in Refs, Asked(t) \in Objects, Asked(t) # None,
           Life(Asked(t)) = "alive", target[r] = None,
           \A x \in Objects : Life(x)' = Life(x),
           target' = [target EXCEPT ![r] = Asked(t)],
           \A u \in Threads : Asked(u)' = IF u = t THEN None ELSE Asked(u)
    PROVE  Lifetime!Next
<1>1. Lifetime!Grant(t, r)
  BY DEF Lifetime!Grant, Asked
<1> QED
  BY <1>1 DEF Lifetime!Next

\* It is refused one.
LEMMA IsRefuse ==
    ASSUME NEW t \in Threads, Asked(t) \in Objects, Asked(t) # None, Life(Asked(t)) # "alive",
           \A x \in Objects : Life(x)' = Life(x), target' = target,
           \A u \in Threads : Asked(u)' = IF u = t THEN None ELSE Asked(u)
    PROVE  Lifetime!Next
<1>1. Lifetime!Refuse(t)
  BY DEF Lifetime!Refuse, Asked
<1> QED
  BY <1>1 DEF Lifetime!Next

\* Lives change with the phases, and what is asked for with the weak references.
LEMMA LivesKept == phase' = phase => \A x \in Objects : Life(x)' = Life(x)
BY DEF Life

\* A step that leaves the acquisitions and weak references alone keeps what threads ask for.
LEMMA AskedKept == UNCHANGED <<acquiring, weakTo>> => \A t \in Threads : Asked(t)' = Asked(t)
BY DEF Asked

\* A weak reference some thread acquires from stays as it is while another one changes.
LEMMA AskedKeptBy ==
    ASSUME IInv, NEW w \in WeakRefs, NEW v, weakTo' = [weakTo EXCEPT ![w] = v],
           \/ weakTo[w] = None
           \/ \A t \in Threads : acquiring[t] # None => acquiring[t].ref # w,
           acquiring' = acquiring
    PROVE  \A t \in Threads : Asked(t)' = Asked(t)
<1> SUFFICES ASSUME NEW t \in Threads PROVE Asked(t)' = Asked(t)
  OBVIOUS
<1>1. CASE acquiring[t] = None
  BY <1>1 DEF Asked
<1>2. CASE acquiring[t] # None
  <2>1. acquiring[t].ref \in WeakRefs /\ acquiring[t].ref # w
    BY <1>2 DEF IInv, TypeOK, Acquisition, AcquiringKnown
  <2> QED
    BY <2>1 DEF Asked, IInv, TypeOK
<1> QED
  BY <1>1, <1>2

\* What a thread asks for is an object of the heap.
LEMMA AskedKnown ==
    ASSUME IInv, NEW t \in Threads, acquiring[t] # None
    PROVE  /\ acquiring[t].ref \in WeakRefs /\ acquiring[t].into \in Refs
           /\ Asked(t) = weakTo[acquiring[t].ref]
           /\ Asked(t) \in Objects /\ Asked(t) # None
<1>1. acquiring[t].ref \in WeakRefs /\ acquiring[t].into \in Refs /\ weakTo[acquiring[t].ref] # None
  BY DEF IInv, TypeOK, Acquisition, AcquiringKnown
<1> QED
  BY <1>1, WeaklyReferenced DEF Asked

\* An allocation brings an object to life.
LEMMA AllocRefines ==
    ASSUME IInv, NEW t \in Threads, NEW o \in Objects, NEW r \in Refs,
           Alloc(t, o, r) \/ StackAlloc(t, o, r)
    PROVE  Lifetime!Next
<1>1. /\ target[r] = None /\ phase[o] = "unborn" /\ target' = [target EXCEPT ![r] = o]
      /\ phase' = [phase EXCEPT ![o] = "live"] /\ UNCHANGED <<acquiring, weakTo>>
  BY DEF Alloc, StackAlloc, Spare, Point
<1>2. Life(o) = "unborn" /\ \A x \in Objects : Life(x)' = IF x = o THEN "alive" ELSE Life(x)
  BY <1>1 DEF Life, IInv, TypeOK
<1> QED
  BY <1>1, <1>2, AskedKept, IsCreate

\* A retain shares a reference.
LEMMA RetainRefines ==
    ASSUME NEW t \in Threads, NEW src \in Refs, NEW r \in Refs, Retain(t, src, r)
    PROVE  Lifetime!Next
<1>1. /\ target[src] # None /\ target[r] = None /\ target' = [target EXCEPT ![r] = target[src]]
      /\ UNCHANGED <<phase, acquiring, weakTo>>
  BY DEF Retain, Spare, Point
<1> QED
  BY <1>1, LivesKept, AskedKept, IsShare

\* A release is the last one exactly if it takes the count to zero.
LEMMA DropRefines ==
    ASSUME IInv, NEW t \in Threads, NEW r \in Refs, target[r] # None,
           NEW first \in {"deinit", "free", "dead"}, DropStrong(t, r, first)
    PROVE  Lifetime!Next
<1>1. PICK o \in Objects : o = target[r] /\ phase[o] = "live"
  BY Referenced
<1>2. target' = [target EXCEPT ![r] = None] /\ UNCHANGED <<acquiring, weakTo>>
  BY DEF DropStrong, Point
<1>3. \A t1 \in Threads : Asked(t1)' = Asked(t1)
  BY <1>2, AskedKept
<1>4. /\ IsFiniteSet(Strong(o)) /\ Cardinality(Strong(o)) \in Nat /\ r \in Strong(o)
      /\ strong[o] = Cardinality(Strong(o))
  BY <1>1, CountedIffSome DEF IInv, CountsExact, Strong
<1>5. CASE strong[o] - 1 = 0
  <2>1. Cardinality(Strong(o)) = 1
    BY <1>4, <1>5
  <2>2. \A s \in Refs \ {r} : target[s] # target[r]
    <3>1. PICK q : Strong(o) = {q}
      BY <1>4, <2>1, FS_Singleton
    <3> QED
      BY <1>1, <1>4, <3>1 DEF Strong
  <2>3. phase' = [phase EXCEPT ![o] = first]
    BY <1>1, <1>5 DEF DropStrong
  <2>4. PICK next \in {"finalizing", "reclaimed"} : next = IF first = "dead" THEN "reclaimed" ELSE "finalizing"
    OBVIOUS
  <2>5. \A x \in Objects : Life(x)' = IF x = o THEN next ELSE Life(x)
    BY <2>3, <2>4 DEF Life, IInv, TypeOK
  <2> QED
    BY <1>1, <1>2, <1>3, <2>2, <2>5, IsDropOfLast
<1>6. CASE strong[o] - 1 # 0
  <2>1. PICK s \in Refs \ {r} : target[s] = target[r]
    <3>1. Strong(o) # {r}
      <4>1. Cardinality({r}) = 1
        BY FS_Singleton
      <4>2. Cardinality(Strong(o)) # 1
        BY <1>4, <1>6
      <4> QED
        BY <4>1, <4>2
    <3> QED
      BY <1>1, <1>4, <3>1 DEF Strong
  <2>2. phase' = phase
    BY <1>1, <1>6 DEF DropStrong
  <2>3. \A x \in Objects : Life(x)' = Life(x)
    BY <2>2, LivesKept
  <2> QED
    BY <1>2, <1>3, <2>1, <2>3, IsDropOfOne
<1> QED
  BY <1>5, <1>6

\* Every function that gives up a reference does so as promised.
LEMMA ReleasesRefine ==
    ASSUME IInv, NEW t \in Threads, NEW r \in Refs,
           Release(t, r) \/ ReleaseStored(t, r) \/ AbortInit(t, r) \/ ReleaseField(t, r)
    PROVE  Lifetime!Next
<1>1. FirstPhase(target[r]) \in {"deinit", "free", "dead"}
  BY DEF FirstPhase
<1>2. CASE Release(t, r) \/ ReleaseStored(t, r) \/ ReleaseField(t, r)
  BY <1>1, <1>2, DropRefines DEF Release, ReleaseStored, ReleaseField
<1>3. CASE AbortInit(t, r)
  BY <1>3, DropRefines, NoneDistinct DEF AbortInit
<1> QED
  BY <1>2, <1>3

\* The destructor proceeds unseen, but for the end of an object on the stack.
LEMMA TeardownRefines ==
    ASSUME IInv, NEW t \in Threads, DeinitReturns(t) \/ DestructReturns(t) \/ Free(t) \/ Unshare(t)
    PROVE  Lifetime!Next \/ UNCHANGED Lifetime!vars
<1>1. PICK o \in Objects : o = Head(teardown[t]) /\ teardown[t] # <<>>
  BY DEF DeinitReturns, DestructReturns, Free, Unshare, InPhase, IInv, TypeOK
<1>2. phase \in [Objects -> Phases] /\ UNCHANGED <<acquiring, weakTo, target>>
  BY DEF DeinitReturns, DestructReturns, Free, Unshare, IInv, TypeOK
<1>3. \A t1 \in Threads : Asked(t1)' = Asked(t1)
  BY <1>2, AskedKept
<1>4. ASSUME DeinitReturns(t) \/ (DestructReturns(t) /\ o \notin Locals) \/ Unshare(t)
      PROVE  UNCHANGED Lifetime!vars
  <2>1. \A x \in Objects : Life(x)' = Life(x)
    BY <1>1, <1>2, <1>4 DEF DeinitReturns, DestructReturns, Unshare, InPhase, Life
  <2> QED
    BY <1>2, <1>3, <2>1, NobodySees
<1>5. ASSUME Free(t) \/ (DestructReturns(t) /\ o \in Locals)
      PROVE  Lifetime!Next
  <2>1. /\ Life(o) = "finalizing"
        /\ \A x \in Objects : Life(x)' = IF x = o THEN "reclaimed" ELSE Life(x)
    BY <1>1, <1>2, <1>5 DEF Free, DestructReturns, InPhase, Life
  <2> QED
    BY <1>2, <1>3, <2>1, IsReclaim
<1> QED
  BY <1>4, <1>5

\* Weak references come and go unseen, and so does all that leaves the lives alone.
LEMMA UnseenSteps ==
    ASSUME IInv, NEW t \in Threads,
           \/ DeleteBlock(t) \/ AcquireRetries(t)
           \/ \E o \in Objects, r \in Refs : Store(t, r, o)
           \/ \E u \in Threads, r \in Refs : Send(t, u, r)
           \/ \E w \in WeakRefs, o \in HeapObjects : CreateWeak(t, w, o)
           \/ \E src, w \in WeakRefs : RetainWeak(t, src, w)
           \/ \E w \in WeakRefs : ReleaseWeak(t, w)
    PROVE  UNCHANGED Lifetime!vars
<1>1. UNCHANGED <<phase, target>>
  BY DEF DeleteBlock, AcquireRetries, Store, Send, CreateWeak, RetainWeak, ReleaseWeak
<1>2. CASE DeleteBlock(t) \/ (\E o \in Objects, r \in Refs : Store(t, r, o))
                          \/ (\E u \in Threads, r \in Refs : Send(t, u, r))
  <2>1. UNCHANGED <<acquiring, weakTo>>
    BY <1>2 DEF DeleteBlock, Store, Send
  <2> QED
    BY <1>1, <2>1, AskedKept, LivesKept, NobodySees
<1>3. CASE \/ \E w \in WeakRefs, o \in HeapObjects : CreateWeak(t, w, o)
           \/ \E src, w \in WeakRefs : RetainWeak(t, src, w)
           \/ \E w \in WeakRefs : ReleaseWeak(t, w)
  <2>1. PICK w \in WeakRefs :
            /\ \E v : weakTo' = [weakTo EXCEPT ![w] = v]
            /\ weakTo[w] = None \/ \A u \in Threads : acquiring[u] # None => acquiring[u].ref # w
            /\ acquiring' = acquiring
    BY <1>3 DEF CreateWeak, RetainWeak, ReleaseWeak
  <2>2. \A u \in Threads : Asked(u)' = Asked(u)
    BY <2>1, AskedKeptBy
  <2> QED
    BY <1>1, <2>2, LivesKept, NobodySees
<1>4. CASE AcquireRetries(t)
  <2>1. /\ acquiring[t] # None /\ weakTo' = weakTo
        /\ acquiring' = [acquiring EXCEPT ![t].count = strong[weakTo[acquiring[t].ref]]]
    BY <1>4 DEF AcquireRetries
  <2>2. acquiring[t] \in Acquisition /\ acquiring \in [Threads -> Acquisition \cup {None}]
    BY <2>1 DEF IInv, TypeOK
  <2>3. acquiring'[t].ref = acquiring[t].ref /\ \A u \in Threads \ {t} : acquiring'[u] = acquiring[u]
    BY <2>1, <2>2 DEF Acquisition
  <2>4. acquiring'[t] # None
    <3>1. [acquiring[t] EXCEPT !.count = strong[weakTo[acquiring[t].ref]]] \in Acquisition
      <4>1. strong[weakTo[acquiring[t].ref]] \in Int
        BY <2>1, AskedKnown DEF IInv, TypeOK
      <4> QED
        BY <2>2, <4>1 DEF Acquisition
    <3> QED
      BY <2>1, <2>2, <3>1, NoneDistinct
  <2>5. \A u \in Threads : Asked(u)' = Asked(u)
    BY <2>1, <2>3, <2>4 DEF Asked
  <2> QED
    BY <1>1, <2>5, LivesKept, NobodySees
<1> QED
  BY <1>2, <1>3, <1>4

\* The steps of an acquisition are those of the promise, or not seen.
LEMMA AcquireRefines ==
    ASSUME IInv, ZeroIsDead, NEW t \in Threads,
           \/ \E w \in WeakRefs, r \in Refs : AcquireLoad(t, w, r)
           \/ AcquireFails(t) \/ AcquireSucceeds(t)
    PROVE  Lifetime!Next
<1>1. UNCHANGED <<phase, weakTo>> /\ \A x \in Objects : Life(x)' = Life(x)
  BY LivesKept DEF AcquireLoad, AcquireFails, AcquireSucceeds
<1>2. acquiring \in [Threads -> Acquisition \cup {None}]
  BY DEF IInv, TypeOK
<1>3. ASSUME NEW w \in WeakRefs, NEW r \in Refs, AcquireLoad(t, w, r)
      PROVE  Lifetime!Next
  <2>1. /\ weakTo[w] \in Objects /\ phase[weakTo[w]] # "unborn" /\ acquiring[t] = None
        /\ target' = target /\ strong[weakTo[w]] \in Int
    BY <1>3, WeaklyReferenced DEF AcquireLoad, Running, IInv, TypeOK
  <2>2. PICK a : a = [ref |-> w, into |-> r, count |-> strong[weakTo[w]]]
    OBVIOUS
  <2>3. a.ref = w /\ a \in Acquisition
    BY <2>1, <2>2 DEF Acquisition
  <2>4. acquiring' = [acquiring EXCEPT ![t] = a] /\ a # None
    BY <1>3, <2>2, <2>3, NoneDistinct DEF AcquireLoad
  <2>5. \A u \in Threads : Asked(u)' = IF u = t THEN weakTo[w] ELSE Asked(u)
    BY <1>1, <1>2, <2>3, <2>4 DEF Asked
  <2>6. Asked(t) = None /\ Life(weakTo[w]) # "unborn"
    BY <2>1 DEF Asked, Life
  <2> QED
    BY <1>1, <2>1, <2>5, <2>6, IsAsk
<1>4. ASSUME AcquireFails(t)
      PROVE  Lifetime!Next
  <2>1. /\ acquiring[t] # None /\ acquiring[t].count = 0 /\ target' = target
        /\ acquiring' = [acquiring EXCEPT ![t] = None]
    BY <1>4 DEF AcquireFails
  <2>2. \A u \in Threads : Asked(u)' = IF u = t THEN None ELSE Asked(u)
    BY <1>1, <1>2, <2>1 DEF Asked
  <2>3. Asked(t) \in Objects /\ Asked(t) # None /\ phase[Asked(t)] # "live"
    BY <2>1, AskedKnown DEF ZeroIsDead
  <2>4. Life(Asked(t)) # "alive"
    BY <2>3 DEF Life, IInv, TypeOK, Phases
  <2> QED
    BY <1>1, <2>1, <2>2, <2>3, <2>4, IsRefuse
<1>5. ASSUME AcquireSucceeds(t)
      PROVE  Lifetime!Next
  <2>1. /\ acquiring[t] # None /\ acquiring' = [acquiring EXCEPT ![t] = None]
        /\ acquiring[t].count # 0 /\ strong[weakTo[acquiring[t].ref]] = acquiring[t].count
        /\ target' = [target EXCEPT ![acquiring[t].into] = weakTo[acquiring[t].ref]]
    BY <1>5 DEF AcquireSucceeds, Point
  <2>2. \A u \in Threads : Asked(u)' = IF u = t THEN None ELSE Asked(u)
    BY <1>1, <1>2, <2>1 DEF Asked
  <2>3. /\ Asked(t) \in Objects /\ Asked(t) # None /\ acquiring[t].into \in Refs
        /\ Asked(t) = weakTo[acquiring[t].ref] /\ target[acquiring[t].into] = None
    BY <2>1, AskedKnown DEF IInv, AcquiringKnown
  <2>4. phase[Asked(t)] = "live"
    BY <2>1, <2>3 DEF IInv, LiveIffCounted
  <2>5. Life(Asked(t)) = "alive"
    BY <2>4 DEF Life
  <2> QED
    BY <1>1, <2>1, <2>2, <2>3, <2>5, IsGrant
<1> QED
  BY <1>3, <1>4, <1>5

\* A dead object does not come back to life.
LEMMA NoResurrection ==
    ASSUME IInv, NEW t \in Threads, Program(t) \/ Runtime(t), NEW o \in Objects,
           phase[o] # "live", phase[o] # "unborn"
    PROVE  phase'[o] # "live"
<1>1. phase \in [Objects -> Phases] /\ teardown \in [Threads -> Seq(Objects)]
  BY DEF IInv, TypeOK
<1>2. ASSUME NEW x \in Objects, NEW r \in Refs, Alloc(t, x, r) \/ StackAlloc(t, x, r)
      PROVE  phase'[o] # "live"
  BY <1>1, <1>2 DEF Alloc, StackAlloc
<1>3. ASSUME NEW r \in Refs, \/ Release(t, r) \/ ReleaseStored(t, r) \/ AbortInit(t, r)
                             \/ ReleaseField(t, r)
      PROVE  phase'[o] # "live"
  <2>1. PICK first \in {"deinit", "free", "dead"} : DropStrong(t, r, first)
    BY <1>3 DEF Release, ReleaseStored, AbortInit, ReleaseField, FirstPhase
  <2> QED
    BY <1>1, <2>1 DEF DropStrong
<1>4. ASSUME DeinitReturns(t) \/ DestructReturns(t) \/ Free(t) \/ Unshare(t)
      PROVE  phase'[o] # "live"
  BY <1>1, <1>4 DEF DeinitReturns, DestructReturns, Free, Unshare
<1>5. ASSUME \/ DeleteBlock(t) \/ AcquireFails(t) \/ AcquireSucceeds(t) \/ AcquireRetries(t)
             \/ \E x \in Objects, r \in Refs : Store(t, r, x)
             \/ \E src, r \in Refs : Retain(t, src, r)
             \/ \E u \in Threads, r \in Refs : Send(t, u, r)
             \/ \E w \in WeakRefs, x \in HeapObjects : CreateWeak(t, w, x)
             \/ \E src, w \in WeakRefs : RetainWeak(t, src, w)
             \/ \E w \in WeakRefs : ReleaseWeak(t, w)
             \/ \E w \in WeakRefs, r \in Refs : AcquireLoad(t, w, r)
      PROVE  phase'[o] # "live"
  BY <1>5 DEF DeleteBlock, AcquireFails, AcquireSucceeds, AcquireRetries, Store, Retain, Send,
              CreateWeak, RetainWeak, ReleaseWeak, AcquireLoad
<1> QED
  BY <1>2, <1>3, <1>4, <1>5 DEF Program, Runtime, ReleaseStep, AcquireStep

\* Thread u reads on through the same weak reference, or has just read the count.
ReadsOn(u) == /\ acquiring'[u] = acquiring[u]
              /\ weakTo'[acquiring[u].ref] = weakTo[acquiring[u].ref]

JustRead(u) == /\ UNCHANGED <<phase, weakTo>>
               /\ weakTo[acquiring'[u].ref] \in Objects
               /\ acquiring'[u].count = strong[weakTo[acquiring'[u].ref]]

\* A thread that reads a control block after a step read it before or begins to.
LEMMA ReadersStep ==
    ASSUME IInv, NEW t \in Threads, Program(t) \/ Runtime(t),
           NEW u \in Threads, acquiring'[u] # None
    PROVE  ReadsOn(u) \/ JustRead(u)
<1>1. acquiring \in [Threads -> Acquisition \cup {None}]
  BY DEF IInv, TypeOK
<1>2. ASSUME UNCHANGED <<acquiring, weakTo>> PROVE ReadsOn(u)
  BY <1>2 DEF ReadsOn
<1>3. ASSUME acquiring' = [acquiring EXCEPT ![t] = None], weakTo' = weakTo PROVE ReadsOn(u)
  BY <1>1, <1>3 DEF ReadsOn
<1>4. ASSUME NEW w \in WeakRefs,
             acquiring' = acquiring, \E v : weakTo' = [weakTo EXCEPT ![w] = v],
             weakTo[w] = None \/ \A v \in Threads : acquiring[v] # None => acquiring[v].ref # w
      PROVE  ReadsOn(u)
  <2>1. acquiring[u].ref \in WeakRefs /\ weakTo[acquiring[u].ref] # None
    BY <1>4, AskedKnown
  <2> QED
    BY <1>4, <2>1 DEF ReadsOn, IInv, TypeOK
<1>5. ASSUME \/ \E w \in WeakRefs, x \in HeapObjects : CreateWeak(t, w, x)
             \/ \E src, w \in WeakRefs : RetainWeak(t, src, w)
             \/ \E w \in WeakRefs : ReleaseWeak(t, w)
      PROVE  ReadsOn(u)
  BY <1>4, <1>5 DEF CreateWeak, RetainWeak, ReleaseWeak
<1>6. ASSUME NEW w \in WeakRefs, NEW r \in Refs, AcquireLoad(t, w, r)
      PROVE  ReadsOn(u) \/ JustRead(u)
  <2>1. PICK a : a = [ref |-> w, into |-> r, count |-> strong[weakTo[w]]]
    OBVIOUS
  <2>2. a.ref = w /\ a.count = strong[weakTo[w]] /\ weakTo[w] \in Objects
    BY <1>6, <2>1, WeaklyReferenced DEF AcquireLoad
  <2>3. acquiring' = [acquiring EXCEPT ![t] = a] /\ UNCHANGED <<phase, weakTo>>
    BY <1>6, <2>1 DEF AcquireLoad
  <2> QED
    BY <1>1, <2>2, <2>3 DEF ReadsOn, JustRead
<1>7. ASSUME AcquireRetries(t)
      PROVE  ReadsOn(u) \/ JustRead(u)
  <2>1. /\ acquiring[t] # None /\ UNCHANGED <<phase, weakTo>>
        /\ acquiring' = [acquiring EXCEPT ![t].count = strong[weakTo[acquiring[t].ref]]]
    BY <1>7 DEF AcquireRetries
  <2>2. weakTo[acquiring[t].ref] \in Objects /\ acquiring[t] \in Acquisition
    BY <1>1, <2>1, AskedKnown
  <2>3. /\ acquiring'[t].ref = acquiring[t].ref
        /\ acquiring'[t].count = strong[weakTo[acquiring[t].ref]]
        /\ \A v \in Threads \ {t} : acquiring'[v] = acquiring[v]
    BY <1>1, <2>1, <2>2 DEF Acquisition
  <2> QED
    BY <2>1, <2>2, <2>3 DEF ReadsOn, JustRead
<1>8. ASSUME AcquireFails(t) \/ AcquireSucceeds(t)
      PROVE  ReadsOn(u)
  BY <1>3, <1>8 DEF AcquireFails, AcquireSucceeds
<1>9. ASSUME \/ DeinitReturns(t) \/ DestructReturns(t) \/ Free(t) \/ Unshare(t) \/ DeleteBlock(t)
             \/ \E o \in Objects, r \in Refs : Alloc(t, o, r) \/ StackAlloc(t, o, r) \/ Store(t, r, o)
             \/ \E src, r \in Refs : Retain(t, src, r)
             \/ \E v \in Threads, r \in Refs : Send(t, v, r)
      PROVE  ReadsOn(u)
  BY <1>2, <1>9 DEF DeinitReturns, DestructReturns, Free, Unshare, DeleteBlock, Alloc,
                    StackAlloc, Store, Retain, Send
<1>10. ASSUME NEW r \in Refs, \/ Release(t, r) \/ ReleaseStored(t, r) \/ AbortInit(t, r)
                              \/ ReleaseField(t, r)
       PROVE  ReadsOn(u)
  BY <1>2, <1>10 DEF Release, ReleaseStored, AbortInit, ReleaseField, DropStrong
<1> QED
  BY <1>5, <1>6, <1>7, <1>8, <1>9, <1>10 DEF Program, Runtime, ReleaseStep, AcquireStep

\* A count of zero that was read stays the count of a dead object.
LEMMA ZeroIsDeadStep ==
    ASSUME IInv, ZeroIsDead, [Next]_vars
    PROVE  ZeroIsDead'
<1> SUFFICES ASSUME NEW u \in Threads, acquiring'[u] # None, acquiring'[u].count = 0
             PROVE  phase'[weakTo'[acquiring'[u].ref]] # "live"
  BY DEF ZeroIsDead
<1>1. CASE UNCHANGED vars
  BY <1>1 DEF vars, ZeroIsDead
<1>2. ASSUME NEW t \in Threads, Program(t) \/ Runtime(t)
      PROVE  phase'[weakTo'[acquiring'[u].ref]] # "live"
  <2>1. CASE ReadsOn(u)
    <3>1. acquiring[u] # None /\ phase[weakTo[acquiring[u].ref]] # "live"
      BY <2>1 DEF ReadsOn, ZeroIsDead
    <3>2. weakTo[acquiring[u].ref] \in Objects /\ phase[weakTo[acquiring[u].ref]] # "unborn"
      BY <3>1, AskedKnown, WeaklyReferenced, NoneDistinct
    <3> QED
      BY <1>2, <2>1, <3>1, <3>2, NoResurrection DEF ReadsOn
  <2>2. CASE JustRead(u)
    BY <2>2 DEF JustRead, IInv, LiveIffCounted
  <2> QED
    BY <1>2, <2>1, <2>2, ReadersStep
<1> QED
  BY <1>1, <1>2 DEF Next

\* The counting keeps the promise ObjectLifetime makes the program, for any number of threads,
\* objects and references: the last release and no other ends the life of an object, and
\* ejcAcquireStrong is granted a reference only to a living object and refused one only to an
\* object whose life has ended.
THEOREM LivesAsPromised == Spec => RefinesLifetime
<1>1. Init => Lifetime!Init /\ ZeroIsDead
  BY DEF Init, Lifetime!Init, Life, ZeroIsDead
<1>2. IInv /\ ZeroIsDead /\ [Next]_vars => ZeroIsDead'
  BY ZeroIsDeadStep
<1>3. IInv /\ ZeroIsDead /\ [Next]_vars => [Lifetime!Next]_(Lifetime!vars)
  <2> SUFFICES ASSUME IInv, ZeroIsDead, [Next]_vars
               PROVE  Lifetime!Next \/ UNCHANGED Lifetime!vars
    OBVIOUS
  <2>1. CASE UNCHANGED vars
    <3>1. UNCHANGED <<phase, target, acquiring, weakTo>>
      BY <2>1 DEF vars
    <3> QED
      BY <3>1, LivesKept, AskedKept, NobodySees
  <2>2. ASSUME NEW t \in Threads, Program(t) \/ Runtime(t)
        PROVE  Lifetime!Next \/ UNCHANGED Lifetime!vars
    BY <2>2, AllocRefines, RetainRefines, ReleasesRefine, TeardownRefines, UnseenSteps,
       AcquireRefines DEF Program, Runtime, ReleaseStep, AcquireStep
  <2> QED
    BY <2>1, <2>2 DEF Next
<1> QED
  BY <1>1, <1>2, <1>3, Invariance, PTL DEF Spec, RefinesLifetime, Lifetime!Spec
============================================================================
