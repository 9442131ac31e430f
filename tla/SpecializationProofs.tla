------------------------ MODULE SpecializationProofs ------------------------
(***************************************************************************)
(* Proofs about Specialization for every set of keys and every bound.      *)
(***************************************************************************)
EXTENDS Specialization, SequenceTheorems, FunctionTheorems, FiniteSetTheorems, TLAPS

(***************************************************************************)
(* The inductive invariant.  Discarding is safe by OlderIndependent:       *)
(* what existed when an analysis on the stack began does not depend on     *)
(* anything made since, so no failure reaches the analyses that contain it. *)
(***************************************************************************)

\* The analyses on the stack began one after the other and are unfinished; outside of one
\* nothing is unfinished.
StackOrdered ==
    /\ \A i \in 1..Len(stack) : stack[i] \in unfinished
    /\ \A i, j \in 1..Len(stack) : i < j => stack[i] < stack[j]
    /\ stack = <<>> => unfinished = {}

\* specializations_ has exactly the specializations that are not discarded.
Filed ==
    /\ \A k \in Key : specializations[k] \in Id =>
            specializations[k] \in unfinished \cup package /\ key[specializations[k]] = k
    /\ \A s \in unfinished \cup package : key[s] \in Key /\ specializations[key[s]] = s

OlderIndependent ==
    \A i \in 1..Len(stack) : \A u \in unfinished :
        u < stack[i] => \A v \in dependencies[u] : v < stack[i]

\* Every call of something unfinished is a recorded dependency, but for calls of itself.
CallsRecorded ==
    \A s \in unfinished : \A t \in calls[s] :
        t \in package \/ t = s \/ (t \in unfinished /\ t \in dependencies[s])

\* Nothing is known of specializations that are not created yet.
Fresh == \A s \in Id : /\ dependencies[s] \subseteq 1..created
                       /\ s > created => calls[s] = {}

\* Each analysis on the stack restores what its caller needs.
TrapsNest ==
    /\ Len(trapped) = Len(stack)
    /\ \A i \in 1..Len(trapped) : trapped[i] <=> i > 1
    /\ trapsErrors <=> stack # <<>>

QueueGeneral == \A i \in 1..Len(queue) : queue[i] = General

IInv ==
    /\ TypeOK
    /\ StackOrdered
    /\ Filed
    /\ OlderIndependent
    /\ CallsRecorded
    /\ CallsCompiled
    /\ Fresh
    /\ TrapsNest
    /\ QueueGeneral

-----------------------------------------------------------------------------
\* A sequence without its last element.
LEMMA FrontFacts ==
    ASSUME NEW S, NEW seq \in Seq(S), seq # <<>>
    PROVE  /\ Len(seq) \in Nat /\ Len(seq) > 0
           /\ Front(seq) \in Seq(S)
           /\ Len(Front(seq)) = Len(seq) - 1
           /\ \A i \in 1..Len(seq) - 1 : Front(seq)[i] = seq[i]
           /\ Front(seq) = <<>> <=> Len(seq) = 1
<1>1. Len(seq) \in Nat /\ Len(seq) > 0 /\ \A i \in 1..Len(seq) : seq[i] \in S
  BY EmptySeq, LenProperties
<1>2. /\ Front(seq) \in Seq(S)
      /\ Len(Front(seq)) = IF 1 <= Len(seq) - 1 THEN Len(seq) - 1 - 1 + 1 ELSE 0
      /\ \A i \in 1..(Len(seq) - 1 - 1 + 1) : Front(seq)[i] = seq[1 + i - 1]
  <2>1. \A i \in 1..(Len(seq) - 1) : seq[i] \in S
    BY <1>1
  <2>2. Len(seq) - 1 \in Int /\ 1 \in Int
    BY <1>1
  <2>3. QED
    BY <2>1, <2>2, SubSeqProperties DEF Front
<1>3. Front(seq) = <<>> <=> Len(Front(seq)) = 0
  BY <1>2, EmptySeq
<1>4. Len(Front(seq)) = Len(seq) - 1
  <2>1. \A n, m : n \in Nat /\ n > 0 /\ m = (IF 1 <= n - 1 THEN n - 1 - 1 + 1 ELSE 0) => m = n - 1
    OBVIOUS
  <2>2. Len(seq) \in Nat /\ Len(seq) > 0
    BY <1>1
  <2>3. Len(Front(seq)) = IF 1 <= Len(seq) - 1 THEN Len(seq) - 1 - 1 + 1 ELSE 0
    BY <1>2
  <2>4. QED
    BY <2>1, <2>2, <2>3
<1>5. \A i \in 1..Len(seq) - 1 : Front(seq)[i] = seq[i]
  <2>1. ASSUME NEW i \in 1..Len(seq) - 1
        PROVE  Front(seq)[i] = seq[i]
    <3>1. i \in 1..(Len(seq) - 1 - 1 + 1) /\ 1 + i - 1 = i
      BY <1>1
    <3>2. Front(seq)[i] = seq[1 + i - 1]
      BY <1>2, <3>1
    <3>3. QED
      BY <3>1, <3>2
  <2>2. QED
    BY <2>1
<1>6. QED
  BY <1>1, <1>2, <1>3, <1>4, <1>5

\* A sequence with one more element.
LEMMA AppendFacts ==
    ASSUME NEW S, NEW seq \in Seq(S), NEW e \in S
    PROVE  /\ Append(seq, e) \in Seq(S)
           /\ Len(Append(seq, e)) = Len(seq) + 1
           /\ Len(seq) \in Nat
           /\ \A i \in 1..Len(seq) : Append(seq, e)[i] = seq[i]
           /\ Append(seq, e)[Len(seq) + 1] = e
           /\ Append(seq, e) # <<>>
  OBVIOUS

\* What is discarded includes the failed specialization and, with any specialization, its
\* callers.
LEMMA DiscardedClosed ==
    ASSUME NEW failed \in unfinished
    PROVE  /\ failed \in Discarded(failed)
           /\ Discarded(failed) \subseteq unfinished
           /\ ClosedUnderCallers(Discarded(failed))
<1>1. failed \in Discarded(failed) /\ Discarded(failed) \subseteq unfinished
  BY DEF Discarded
<1>2. ASSUME NEW s \in unfinished, NEW t \in dependencies[s], t \in Discarded(failed)
      PROVE  s \in Discarded(failed)
  <2>1. ASSUME NEW set \in SUBSET unfinished, failed \in set, ClosedUnderCallers(set)
        PROVE  s \in set
    <3>1. t \in set
      BY <1>2, <2>1 DEF Discarded
    <3>2. QED
      BY <1>2, <2>1, <3>1 DEF ClosedUnderCallers
  <2>2. QED
    BY <2>1 DEF Discarded
<1>3. QED
  BY <1>1, <1>2 DEF ClosedUnderCallers

\* Only what was created since the failed analysis began is discarded, which leaves the
\* analyses that contain it alone.
LEMMA ContainingSpared ==
    ASSUME TypeOK, StackOrdered, OlderIndependent, stack # <<>>
    PROVE  \A i \in 1..Len(stack) - 1 : stack[i] \notin Discarded(Top)
<1>1. Len(stack) \in Nat /\ Len(stack) > 0 /\ Len(stack) \in 1..Len(stack)
  BY FrontFacts DEF TypeOK
<1>2. Top \in unfinished /\ unfinished \subseteq Id
  BY <1>1, BoundsAssumption DEF StackOrdered, Top, TypeOK, Id
<1> DEFINE since == {s \in unfinished : s >= Top}
<1>3. ClosedUnderCallers(since)
  <2>1. ASSUME NEW s \in unfinished, NEW t \in dependencies[s], t \in since
        PROVE  s \in since
    <3>1. s < Top => t < Top
      BY <1>1, <2>1 DEF OlderIndependent, Top
    <3>2. s \in Int /\ t \in Int /\ Top \in Int
      BY <1>2, <2>1 DEF Id
    <3>3. QED
      BY <2>1, <3>1, <3>2
  <2>2. QED
    BY <2>1 DEF ClosedUnderCallers
<1>4. Discarded(Top) \subseteq since
  <2>1. Top \in since
    BY <1>2 DEF Id
  <2>2. QED
    BY <1>3, <2>1 DEF Discarded
<1>5. ASSUME NEW i \in 1..Len(stack) - 1
      PROVE  stack[i] \notin since
  <2>1. stack[i] < Top
    BY <1>1 DEF StackOrdered, Top
  <2>2. stack[i] \in Int /\ Top \in Int
    BY <1>1, <1>2 DEF StackOrdered, TypeOK, Id
  <2>3. QED
    BY <2>1, <2>2
<1>6. QED
  BY <1>4, <1>5

\* Before any call is specialized the invariant holds.
LEMMA InitIInv == Init => IInv
<1> SUFFICES ASSUME Init PROVE IInv
  OBVIOUS
<1>1. Len(stack) = 0 /\ Len(trapped) = 0 /\ Len(queue) = 1
  BY DEF Init
<1>2. TypeOK
  <2>1. /\ queue \in Seq(Id \cup {General}) /\ stack \in Seq(Id) /\ trapped \in Seq(BOOLEAN)
        /\ queued \in Nat /\ trapsErrors \in BOOLEAN
    <3>1. <<General>> \in Seq(Id \cup {General})
      OBVIOUS
    <3>2. <<>> \in Seq(Id) /\ <<>> \in Seq(BOOLEAN)
      BY EmptySeq
    <3>3. QED
      BY <3>1, <3>2 DEF Init
  <2>2. /\ unfinished \cup unused \cup package \subseteq 1..created
        /\ unfinished \cap unused = {} /\ package \cap (unfinished \cup unused) = {}
        /\ created \in 0..MaxCreated
    BY BoundsAssumption DEF Init
  <2>3. /\ key \in [Id -> Key \cup {<<>>}]
        /\ specializations \in [Key -> Id \cup {Null, Absent}]
        /\ dependencies \in [Id -> SUBSET Id]
        /\ calls \in [Id -> SUBSET Id] /\ generalCalls \subseteq Id
    BY DEF Init
  <2>4. QED
    BY <2>1, <2>2, <2>3 DEF TypeOK
<1>3. StackOrdered /\ OlderIndependent /\ CallsRecorded /\ CallsCompiled /\ Fresh
  BY <1>1 DEF Init, StackOrdered, OlderIndependent, CallsRecorded, CallsCompiled, Fresh
<1>4. Filed
  BY DEF Init, Filed, Id, Absent
<1>5. TrapsNest
  BY <1>1 DEF Init, TrapsNest
<1>6. QueueGeneral
  BY <1>1 DEF Init, QueueGeneral
<1>7. QED
  BY <1>2, <1>3, <1>4, <1>5, <1>6 DEF IInv

-----------------------------------------------------------------------------
\* Facts about the specialization a call resolves to, recorded for the last one of on.
LEMMA RecordCallFacts ==
    ASSUME TypeOK, NEW on \in Seq(Id), NEW s \in Id
    PROVE  /\ RecordCall(on, s) \in [Id -> SUBSET Id]
           /\ \A u \in Id : dependencies[u] \subseteq RecordCall(on, s)[u]
           /\ \A u \in Id : \A v \in RecordCall(on, s)[u] :
                v \in dependencies[u] \/ (on # <<>> /\ u = on[Len(on)] /\ v = s /\ s \in unfinished)
           /\ on # <<>> /\ s \in unfinished /\ s # on[Len(on)] => s \in RecordCall(on, s)[on[Len(on)]]
<1>1. on # <<>> => on[Len(on)] \in Id
  BY EmptySeq, LenProperties
<1>2. CASE on # <<>> /\ s # on[Len(on)] /\ s \in unfinished
  <2>1. RecordCall(on, s) = [dependencies EXCEPT ![on[Len(on)]] = @ \cup {s}]
    BY <1>2 DEF RecordCall
  <2>2. dependencies \in [Id -> SUBSET Id]
    BY DEF TypeOK
  <2>3. QED
    BY <1>1, <1>2, <2>1, <2>2
<1>3. CASE ~(on # <<>> /\ s # on[Len(on)] /\ s \in unfinished)
  <2>1. RecordCall(on, s) = dependencies
    BY <1>3 DEF RecordCall
  <2>2. QED
    BY <1>3, <2>1 DEF TypeOK
<1>4. QED
  BY <1>2, <1>3

\* The same for what its body refers to.
LEMMA ReferFacts ==
    ASSUME TypeOK, NEW on \in Seq(Id), NEW s \in Id, Refer(on, s)
    PROVE  /\ calls' \in [Id -> SUBSET Id] /\ generalCalls' \subseteq Id
           /\ \A u \in Id : \A v \in calls'[u] :
                v \in calls[u] \/ (on # <<>> /\ u = on[Len(on)] /\ v = s)
           /\ \A v \in generalCalls' : v \in generalCalls \/ (on = <<>> /\ v = s)
<1>1. on # <<>> => on[Len(on)] \in Id
  BY EmptySeq, LenProperties
<1>2. CASE on # <<>> /\ s \notin package
  <2>1. calls' = [calls EXCEPT ![on[Len(on)]] = @ \cup {s}] /\ generalCalls' = generalCalls
    BY <1>2 DEF Refer
  <2>2. QED
    BY <1>1, <1>2, <2>1 DEF TypeOK
<1>3. CASE on = <<>> /\ s \notin package
  BY <1>3 DEF Refer, TypeOK
<1>4. CASE s \in package
  BY <1>4 DEF Refer, TypeOK
<1>5. QED
  BY <1>2, <1>3, <1>4

\* Using a specialization that exists keeps the invariant.
LEMMA UseExistingStep ==
    ASSUME IInv, NEW k \in Key, UseExisting(k)
    PROVE  IInv'
<1> DEFINE s == specializations[k]
<1>1. /\ s \in Id /\ s \in unfinished \cup package
      /\ TypeOK /\ stack \in Seq(Id) /\ unfinished \subseteq 1..created /\ created \in Nat
      /\ package \subseteq 1..created
  BY BoundsAssumption DEF IInv, Filed, UseExisting, TypeOK
<1>2. /\ created' = created /\ key' = key /\ specializations' = specializations /\ stack' = stack
      /\ unfinished' = unfinished /\ unused' = unused /\ package' = package /\ queue' = queue
      /\ queued' = queued /\ trapped' = trapped /\ trapsErrors' = trapsErrors
  BY DEF UseExisting
<1>3. /\ dependencies' \in [Id -> SUBSET Id]
      /\ \A u \in Id : dependencies[u] \subseteq dependencies'[u]
      /\ \A u \in Id : \A v \in dependencies'[u] :
            v \in dependencies[u] \/ (stack # <<>> /\ u = Top /\ v = s /\ s \in unfinished)
      /\ stack # <<>> /\ s \in unfinished /\ s # Top => s \in dependencies'[Top]
  BY <1>1, RecordCallFacts DEF UseExisting, Top
<1>4. /\ calls' \in [Id -> SUBSET Id] /\ generalCalls' \subseteq Id
      /\ \A u \in Id : \A v \in calls'[u] : v \in calls[u] \/ (stack # <<>> /\ u = Top /\ v = s)
      /\ \A v \in generalCalls' : v \in generalCalls \/ (stack = <<>> /\ v = s)
  BY <1>1, ReferFacts DEF UseExisting, Top
<1>5. stack # <<>> => Len(stack) \in Nat /\ Len(stack) > 0 /\ Top \in unfinished
  BY <1>1, EmptySeq DEF IInv, StackOrdered, Top
<1> HIDE DEF s
<1>0. \A u \in unfinished : u \in Int
  BY <1>1
<1>6. TypeOK'
  BY <1>2, <1>3, <1>4 DEF IInv, TypeOK
<1>7. StackOrdered' /\ Filed' /\ TrapsNest' /\ QueueGeneral'
  BY <1>2 DEF IInv, StackOrdered, Filed, TrapsNest, QueueGeneral
<1>8. OlderIndependent'
  <2>1. ASSUME NEW i \in 1..Len(stack), NEW u \in unfinished, u < stack[i], NEW v \in dependencies'[u]
        PROVE  v < stack[i]
    <3>1. stack # <<>> /\ Len(stack) \in Nat
      BY <1>1, <2>1, EmptySeq
    <3>2. u # Top
      <4>1. stack[i] <= Top
        <5>1. i = Len(stack) \/ i < Len(stack)
          BY <3>1
        <5>2. stack[i] \in Int /\ Top \in Int
          BY <1>0, <1>5, <3>1 DEF IInv, StackOrdered
        <5>3. QED
          BY <3>1, <5>1, <5>2 DEF IInv, StackOrdered, Top
      <4>2. stack[i] \in Int /\ Top \in Int /\ u \in Int
        BY <1>0, <1>5, <3>1 DEF IInv, StackOrdered
      <4>3. QED
        BY <2>1, <4>1, <4>2
    <3>3. v \in dependencies[u]
      BY <1>1, <1>3, <3>2, BoundsAssumption DEF TypeOK, Id
    <3>4. QED
      BY <2>1, <3>3 DEF IInv, OlderIndependent
  <2>2. QED
    BY <1>2, <2>1 DEF OlderIndependent
<1>9. CallsRecorded'
  <2>1. ASSUME NEW u \in unfinished, NEW v \in calls'[u]
        PROVE  v \in package \/ v = u \/ (v \in unfinished /\ v \in dependencies'[u])
    <3>1. u \in Id
      BY <1>1, BoundsAssumption DEF TypeOK, Id
    <3>2. CASE v \in calls[u]
      BY <1>3, <3>1, <3>2 DEF IInv, CallsRecorded
    <3>3. CASE stack # <<>> /\ u = Top /\ v = s
      BY <1>1, <1>3, <3>3
    <3>4. QED
      BY <1>4, <3>1, <3>2, <3>3
  <2>2. QED
    BY <1>2, <2>1 DEF CallsRecorded
<1>10. CallsCompiled'
  <2>1. ASSUME NEW u \in package
        PROVE  calls'[u] \subseteq package
    <3>1. u \in Id /\ u \notin unfinished
      BY <1>1, BoundsAssumption DEF TypeOK, Id
    <3>2. QED
      BY <1>4, <1>5, <3>1 DEF IInv, CallsCompiled
  <2>2. generalCalls' \subseteq package
    BY <1>1, <1>4 DEF IInv, CallsCompiled, StackOrdered
  <2>3. QED
    BY <1>2, <2>1, <2>2 DEF CallsCompiled
<1>11. Fresh'
  <2>1. ASSUME NEW u \in Id
        PROVE  dependencies'[u] \subseteq 1..created /\ (u > created => calls'[u] = {})
    <3>1. dependencies'[u] \subseteq 1..created
      BY <1>1, <1>3 DEF IInv, Fresh
    <3>2. ASSUME u > created PROVE calls'[u] = {}
      <4>1. stack # <<>> => u # Top
        BY <1>1, <1>5, <3>2
      <4>2. QED
        BY <1>4, <3>2, <4>1 DEF IInv, Fresh
    <3>3. QED
      BY <3>1, <3>2
  <2>2. QED
    BY <1>2, <2>1 DEF Fresh
<1>12. QED
  BY <1>6, <1>7, <1>8, <1>9, <1>10, <1>11 DEF IInv

\* Beginning a specialization keeps the invariant.
LEMMA BeginStep ==
    ASSUME IInv, NEW k \in Key, BeginSpecialization(k)
    PROVE  IInv'
<1>1. /\ TypeOK /\ stack \in Seq(Id) /\ trapped \in Seq(BOOLEAN) /\ created \in Nat /\ MaxCreated \in Nat
      /\ unfinished \subseteq 1..created /\ package \subseteq 1..created /\ unused \subseteq 1..created
  BY BoundsAssumption DEF IInv, TypeOK
<1> SUFFICES ASSUME NEW n \in Id, n = created + 1
             PROVE  IInv'
  BY <1>1 DEF BeginSpecialization, Id
<1>2. /\ created' = n /\ key' = [key EXCEPT ![n] = k] /\ specializations' = [specializations EXCEPT ![k] = n]
      /\ unfinished' = unfinished \cup {n} /\ stack' = Append(stack, n)
      /\ trapped' = Append(trapped, trapsErrors) /\ trapsErrors' = TRUE
      /\ dependencies' = dependencies /\ unused' = unused /\ package' = package /\ calls' = calls
      /\ generalCalls' = generalCalls /\ queue' = queue /\ queued' = queued
      /\ specializations[k] = Absent
  BY <1>1 DEF BeginSpecialization
<1>3. /\ stack' \in Seq(Id) /\ Len(stack') = Len(stack) + 1 /\ Len(stack) \in Nat
      /\ \A i \in 1..Len(stack) : stack'[i] = stack[i]
      /\ stack'[Len(stack) + 1] = n
      /\ stack' # <<>>
  BY <1>1, <1>2, AppendFacts
<1>4. /\ trapped' \in Seq(BOOLEAN) /\ Len(trapped') = Len(trapped) + 1
      /\ \A i \in 1..Len(trapped) : trapped'[i] = trapped[i]
      /\ trapped'[Len(trapped) + 1] = trapsErrors
  <2>1. trapsErrors \in BOOLEAN
    BY DEF IInv, TypeOK
  <2>2. QED
    BY <1>1, <1>2, <2>1, AppendFacts
<1>5. n \notin unfinished /\ n \notin package /\ n \notin unused /\ n \in Int
  BY <1>1
<1>6. TypeOK'
  <2>1. key' \in [Id -> Key \cup {<<>>}] /\ specializations' \in [Key -> Id \cup {Null, Absent}]
    BY <1>1, <1>2 DEF TypeOK
  <2>2. /\ (unfinished \cup unused \cup package)' \subseteq 1..created' /\ created' \in 0..MaxCreated
        /\ (unfinished \cap unused)' = {} /\ (package \cap (unfinished \cup unused))' = {}
    BY <1>1, <1>2, <1>5 DEF TypeOK, Id
  <2>3. QED
    BY <1>1, <1>2, <1>3, <1>4, <2>1, <2>2 DEF TypeOK
<1>7. StackOrdered'
  <2>1. ASSUME NEW i \in 1..Len(stack')
        PROVE  stack'[i] \in unfinished'
    <3>1. i \in 1..Len(stack) \/ i = Len(stack) + 1
      BY <1>3
    <3>2. QED
      BY <1>2, <1>3, <3>1 DEF IInv, StackOrdered
  <2>2. ASSUME NEW i \in 1..Len(stack'), NEW j \in 1..Len(stack'), i < j
        PROVE  stack'[i] < stack'[j]
    <3>1. i \in 1..Len(stack) /\ (j \in 1..Len(stack) \/ j = Len(stack) + 1)
      BY <1>3, <2>2
    <3>2. CASE j \in 1..Len(stack)
      BY <1>3, <2>2, <3>1, <3>2 DEF IInv, StackOrdered
    <3>3. CASE j = Len(stack) + 1
      <4>1. stack[i] \in 1..created
        BY <1>1, <3>1 DEF IInv, StackOrdered
      <4>2. QED
        BY <1>1, <1>3, <3>1, <3>3, <4>1
    <3>4. QED
      BY <3>1, <3>2, <3>3
  <2>3. QED
    BY <1>3, <2>1, <2>2 DEF StackOrdered
<1>8. Filed'
  <2>1. k \in DOMAIN specializations /\ n \in DOMAIN key /\ n # Absent
    BY <1>1, <1>5 DEF TypeOK, Absent, Id
  <2>2. ASSUME NEW l \in Key, specializations'[l] \in Id
        PROVE  specializations'[l] \in (unfinished \cup package)' /\ key'[specializations'[l]] = l
    <3>1. CASE l = k
      BY <1>2, <2>1, <3>1
    <3>2. CASE l # k
      <4>1. specializations'[l] = specializations[l]
        BY <1>1, <1>2, <3>2 DEF TypeOK
      <4>2. specializations[l] \in unfinished \cup package /\ key[specializations[l]] = l
        BY <2>2, <4>1 DEF IInv, Filed
      <4>3. key'[specializations[l]] = key[specializations[l]]
        BY <1>2, <1>5, <4>2
      <4>4. QED
        BY <1>2, <4>1, <4>2, <4>3
    <3>3. QED
      BY <3>1, <3>2
  <2>3. ASSUME NEW s \in (unfinished \cup package)'
        PROVE  key'[s] \in Key /\ specializations'[key'[s]] = s
    <3>1. CASE s = n
      BY <1>2, <2>1, <3>1
    <3>2. CASE s # n
      <4>1. s \in unfinished \cup package /\ key'[s] = key[s]
        BY <1>2, <3>2
      <4>2. key[s] \in Key /\ specializations[key[s]] = s
        BY <4>1 DEF IInv, Filed
      <4>3. key[s] # k
        <5>1. s \in Id
          BY <1>1, <4>1, BoundsAssumption DEF TypeOK, Id
        <5>2. QED
          BY <1>2, <4>2, <5>1 DEF Absent, Id
      <4>4. QED
        BY <1>1, <1>2, <4>1, <4>2, <4>3 DEF TypeOK
    <3>3. QED
      BY <3>1, <3>2
  <2>4. QED
    BY <2>2, <2>3 DEF Filed
<1>9. OlderIndependent'
  <2>1. ASSUME NEW i \in 1..Len(stack'), NEW u \in unfinished', u < stack'[i], NEW v \in dependencies[u]
        PROVE  v < stack'[i]
    <3>1. CASE i \in 1..Len(stack)
      <4>1. stack[i] \in 1..created /\ stack'[i] = stack[i]
        BY <1>1, <1>3, <3>1 DEF IInv, StackOrdered
      <4>2. u \in unfinished
        BY <1>1, <1>2, <2>1, <4>1
      <4>3. QED
        BY <2>1, <3>1, <4>1, <4>2 DEF IInv, OlderIndependent
    <3>2. CASE i = Len(stack) + 1
      <4>1. stack'[i] = n
        BY <1>3, <3>2
      <4>2. u \in Id
        BY <1>1, <1>2 DEF Id
      <4>3. v \in 1..created
        BY <4>2 DEF IInv, Fresh
      <4>4. QED
        BY <1>1, <4>1, <4>3
    <3>3. QED
      BY <1>3, <3>1, <3>2
  <2>2. QED
    BY <1>2, <2>1 DEF OlderIndependent
<1>10. CallsRecorded'
  <2>1. calls[n] = {}
    BY <1>1 DEF IInv, Fresh
  <2>2. QED
    BY <1>2, <2>1 DEF IInv, CallsRecorded
<1>11. CallsCompiled'
  BY <1>2 DEF IInv, CallsCompiled
<1>12. Fresh'
  <2>1. ASSUME NEW s \in Id
        PROVE  dependencies[s] \subseteq 1..n /\ (s > n => calls[s] = {})
    <3>1. dependencies[s] \subseteq 1..created /\ (s > created => calls[s] = {})
      BY DEF IInv, Fresh
    <3>2. s \in Int
      BY DEF Id
    <3>3. QED
      BY <1>1, <3>1, <3>2
  <2>2. QED
    BY <1>2, <2>1 DEF Fresh
<1>13. TrapsNest'
  <2>1. Len(trapped) = Len(stack) /\ (trapsErrors <=> stack # <<>>)
    BY DEF IInv, TrapsNest
  <2>2. stack # <<>> <=> Len(stack) > 0
    BY <1>1, EmptySeq
  <2>3. ASSUME NEW i \in 1..Len(trapped')
        PROVE  trapped'[i] <=> i > 1
    <3>1. CASE i \in 1..Len(trapped)
      BY <1>4, <3>1 DEF IInv, TrapsNest
    <3>2. CASE i = Len(trapped) + 1
      <4>1. trapped'[i] = trapsErrors
        BY <1>4, <3>2
      <4>2. i > 1 <=> stack # <<>>
        BY <1>3, <2>1, <2>2, <3>2
      <4>3. QED
        BY <2>1, <4>1, <4>2
    <3>3. QED
      BY <1>3, <1>4, <2>1, <3>1, <3>2
  <2>4. QED
    BY <1>2, <1>3, <1>4, <2>1, <2>3 DEF TrapsNest
<1>14. QueueGeneral'
  BY <1>2 DEF IInv, QueueGeneral
<1>15. QED
  BY <1>6, <1>7, <1>8, <1>9, <1>10, <1>11, <1>12, <1>13, <1>14 DEF IInv

\* What popping the innermost analysis leaves.
LEMMA PopFacts ==
    ASSUME IInv, Pop
    PROVE  /\ stack \in Seq(Id) /\ Len(stack) \in Nat /\ Len(stack) > 0
           /\ Top \in unfinished /\ Top \in Id
           /\ stack' = Front(stack) /\ stack' \in Seq(Id) /\ Len(stack') = Len(stack) - 1
           /\ \A i \in 1..Len(stack') : stack'[i] = stack[i] /\ i \in 1..Len(stack) - 1
           /\ stack' = <<>> <=> Len(stack) = 1
           /\ stack' # <<>> => stack'[Len(stack')] \in unfinished /\ stack'[Len(stack')] < Top
           /\ trapped' \in Seq(BOOLEAN)
           /\ trapsErrors' \in BOOLEAN
           /\ TrapsNest'
<1>1. stack \in Seq(Id) /\ stack # <<>> /\ trapped \in Seq(BOOLEAN) /\ Len(trapped) = Len(stack)
  BY DEF IInv, TypeOK, TrapsNest, Pop
<1>2. /\ Len(stack) \in Nat /\ Len(stack) > 0
      /\ stack' = Front(stack) /\ stack' \in Seq(Id) /\ Len(stack') = Len(stack) - 1
      /\ \A i \in 1..Len(stack) - 1 : stack'[i] = stack[i]
      /\ stack' = <<>> <=> Len(stack) = 1
  BY <1>1, FrontFacts DEF Pop
<1>3. trapped # <<>>
  BY <1>1, <1>2, EmptySeq
<1>4. /\ trapped' \in Seq(BOOLEAN) /\ Len(trapped') = Len(trapped) - 1
      /\ \A i \in 1..Len(trapped) - 1 : trapped'[i] = trapped[i]
      /\ trapsErrors' = trapped[Len(trapped)]
  BY <1>1, <1>3, FrontFacts DEF Pop
<1>5. Len(stack) \in 1..Len(stack) /\ \A i \in 1..Len(stack') : i \in 1..Len(stack) - 1
  BY <1>2
<1>6. Top \in unfinished /\ Top \in Id
  BY <1>1, <1>5, LenProperties DEF IInv, StackOrdered, Top
<1>7. ASSUME stack' # <<>>
      PROVE  stack'[Len(stack')] \in unfinished /\ stack'[Len(stack')] < Top
  <2>1. Len(stack') \in 1..Len(stack) - 1 /\ Len(stack') \in 1..Len(stack) /\ Len(stack') < Len(stack)
    BY <1>2, <1>7
  <2>2. stack'[Len(stack')] = stack[Len(stack')]
    BY <1>2, <2>1
  <2>3. QED
    BY <1>5, <2>1, <2>2 DEF IInv, StackOrdered, Top
<1>8. trapped[Len(trapped)] \in BOOLEAN /\ (trapped[Len(trapped)] <=> Len(trapped) > 1)
  BY <1>1, <1>5, LenProperties DEF IInv, TrapsNest
<1>9. TrapsNest'
  <2>1. Len(trapped') = Len(stack')
    BY <1>1, <1>2, <1>4
  <2>2. \A i \in 1..Len(trapped') : trapped'[i] <=> i > 1
    <3>1. \A i \in 1..Len(trapped') : i \in 1..Len(trapped) - 1 /\ i \in 1..Len(trapped)
      BY <1>1, <1>2, <1>4
    <3>2. QED
      BY <1>4, <3>1 DEF IInv, TrapsNest
  <2>3. Len(trapped) > 1 <=> stack' # <<>>
    BY <1>1, <1>2
  <2>4. trapsErrors' <=> stack' # <<>>
    BY <1>4, <1>8, <2>3
  <2>5. QED
    BY <2>1, <2>2, <2>4 DEF TrapsNest
<1>10. QED
  BY <1>1, <1>2, <1>4, <1>5, <1>6, <1>7, <1>8, <1>9

\* Finishing a specialization keeps the invariant.
LEMMA FinishStep ==
    ASSUME IInv, FinishSpecialization
    PROVE  IInv'
<1>0. Pop
  BY DEF FinishSpecialization
<1>1. /\ stack \in Seq(Id) /\ Len(stack) \in Nat /\ Len(stack) > 0
      /\ Top \in unfinished /\ Top \in Id
      /\ stack' = Front(stack) /\ stack' \in Seq(Id) /\ Len(stack') = Len(stack) - 1
      /\ \A i \in 1..Len(stack') : stack'[i] = stack[i] /\ i \in 1..Len(stack) - 1
      /\ stack' # <<>> => stack'[Len(stack')] \in unfinished /\ stack'[Len(stack')] < Top
      /\ trapped' \in Seq(BOOLEAN) /\ trapsErrors' \in BOOLEAN /\ TrapsNest'
  BY <1>0, PopFacts
<1>2. /\ TypeOK /\ created \in Nat /\ unfinished \subseteq 1..created /\ package \subseteq 1..created
      /\ unfinished \subseteq Id /\ package \subseteq Id
  BY BoundsAssumption DEF IInv, TypeOK, Id
<1>3. /\ created' = created /\ key' = key /\ specializations' = specializations
      /\ queue' = queue /\ queued' = queued
  BY DEF FinishSpecialization
<1>4. /\ stack' = <<>> => package' = package \cup unfinished /\ unfinished' = {} /\ unused' = {}
      /\ stack' # <<>> => package' = package /\ unfinished' = unfinished /\ unused' = unused
  BY <1>1 DEF FinishSpecialization, Settle
<1>5. /\ dependencies' \in [Id -> SUBSET Id]
      /\ \A u \in Id : \A v \in dependencies'[u] :
            v \in dependencies[u] \/ (stack' # <<>> /\ u = stack'[Len(stack')] /\ v = Top)
      /\ stack' # <<>> => \A u \in Id : dependencies[u] \subseteq dependencies'[u]
      /\ stack' # <<>> => Top \in dependencies'[stack'[Len(stack')]]
  <2>1. CASE stack' = <<>>
    <3>1. dependencies' = [s \in Id |-> {}]
      BY <1>1, <2>1 DEF FinishSpecialization
    <3>2. QED
      BY <2>1, <3>1
  <2>2. CASE stack' # <<>>
    <3>1. dependencies' = RecordCall(stack', Top)
      BY <1>1, <2>2 DEF FinishSpecialization
    <3>2. Top # stack'[Len(stack')]
      BY <1>1, <1>2, <2>2
    <3>3. /\ RecordCall(stack', Top) \in [Id -> SUBSET Id]
          /\ \A u \in Id : dependencies[u] \subseteq RecordCall(stack', Top)[u]
          /\ \A u \in Id : \A v \in RecordCall(stack', Top)[u] :
                v \in dependencies[u] \/ (stack' # <<>> /\ u = stack'[Len(stack')] /\ v = Top /\ Top \in unfinished)
          /\ stack' # <<>> /\ Top \in unfinished /\ Top # stack'[Len(stack')]
                => Top \in RecordCall(stack', Top)[stack'[Len(stack')]]
      BY <1>1, <1>2, RecordCallFacts
    <3>4. QED
      BY <1>1, <2>2, <3>1, <3>2, <3>3
  <2>3. QED
    BY <2>1, <2>2
<1>6. /\ calls' \in [Id -> SUBSET Id] /\ generalCalls' \subseteq Id
      /\ \A u \in Id : \A v \in calls'[u] :
            v \in calls[u] \/ (stack' # <<>> /\ u = stack'[Len(stack')] /\ v = Top)
      /\ \A v \in generalCalls' : v \in generalCalls \/ (stack' = <<>> /\ v = Top)
  <2>1. Refer(stack', Top)
    BY <1>1 DEF FinishSpecialization
  <2>2. QED
    BY <1>1, <1>2, <2>1, ReferFacts
<1>7. TypeOK'
  <2>1. /\ (unfinished \cup unused \cup package)' \subseteq 1..created' /\ created' \in 0..MaxCreated
        /\ (unfinished \cap unused)' = {} /\ (package \cap (unfinished \cup unused))' = {}
    <3>1. CASE stack' = <<>>
      BY <1>3, <1>4, <3>1 DEF IInv, TypeOK
    <3>2. CASE stack' # <<>>
      BY <1>3, <1>4, <3>2 DEF IInv, TypeOK
    <3>3. QED
      BY <3>1, <3>2
  <2>2. QED
    BY <1>1, <1>3, <1>5, <1>6, <2>1 DEF IInv, TypeOK
<1>8. StackOrdered'
  <2>1. CASE stack' = <<>>
    <3>1. Len(stack') = 0
      BY <2>1, EmptySeq
    <3>2. QED
      BY <1>4, <2>1, <3>1 DEF StackOrdered
  <2>2. CASE stack' # <<>>
    <3>1. \A i \in 1..Len(stack') : i \in 1..Len(stack) /\ stack'[i] = stack[i]
      BY <1>1
    <3>2. QED
      BY <1>4, <2>2, <3>1 DEF IInv, StackOrdered
  <2>3. QED
    BY <2>1, <2>2
<1>9. Filed'
  <2>1. unfinished' \cup package' = unfinished \cup package
    BY <1>4
  <2>2. QED
    BY <1>3, <2>1 DEF IInv, Filed
<1>10. OlderIndependent'
  <2>1. ASSUME NEW i \in 1..Len(stack'), NEW u \in unfinished', u < stack'[i], NEW v \in dependencies'[u]
        PROVE  v < stack'[i]
    <3>1. stack' # <<>> /\ i \in 1..Len(stack) /\ stack'[i] = stack[i] /\ u \in unfinished
      BY <1>1, <1>4, <2>1, EmptySeq
    <3>2. u # stack'[Len(stack')]
      <4>1. i = Len(stack') \/ (i < Len(stack') /\ Len(stack') \in 1..Len(stack'))
        BY <1>1, <2>1
      <4>2. i # Len(stack') => stack'[i] < stack'[Len(stack')]
        BY <1>8, <2>1, <4>1 DEF StackOrdered
      <4>3. stack'[i] \in Int /\ stack'[Len(stack')] \in Int /\ u \in Int
        <5>1. \A s \in unfinished : s \in Int
          BY <1>2
        <5>2. stack[i] \in unfinished /\ stack'[Len(stack')] \in unfinished
          BY <1>1, <3>1 DEF IInv, StackOrdered
        <5>3. QED
          BY <3>1, <5>1, <5>2
      <4>4. QED
        BY <2>1, <4>1, <4>2, <4>3
    <3>3. v \in dependencies[u]
      BY <1>2, <1>5, <2>1, <3>1, <3>2
    <3>4. QED
      BY <2>1, <3>1, <3>3 DEF IInv, OlderIndependent
  <2>2. QED
    BY <2>1 DEF OlderIndependent
<1>11. CallsRecorded'
  <2>1. ASSUME NEW u \in unfinished', NEW v \in calls'[u]
        PROVE  v \in package' \/ v = u \/ (v \in unfinished' /\ v \in dependencies'[u])
    <3>1. stack' # <<>> /\ u \in unfinished /\ unfinished' = unfinished /\ package' = package /\ u \in Id
      BY <1>2, <1>4, <2>1
    <3>2. CASE v \in calls[u]
      BY <1>5, <3>1, <3>2 DEF IInv, CallsRecorded
    <3>3. CASE u = stack'[Len(stack')] /\ v = Top
      BY <1>1, <1>5, <3>1, <3>3
    <3>4. QED
      BY <1>6, <2>1, <3>1, <3>2, <3>3
  <2>2. QED
    BY <2>1 DEF CallsRecorded
<1>12. CallsCompiled'
  <2>1. ASSUME NEW u \in package', NEW v \in calls'[u]
        PROVE  v \in package'
    <3>1. u \in Id
      BY <1>2, <1>4, <2>1
    <3>2. CASE stack' = <<>>
      <4>1. v \in calls[u] /\ u \in package \cup unfinished /\ package' = package \cup unfinished
        BY <1>4, <1>6, <2>1, <3>1, <3>2
      <4>2. QED
        BY <4>1 DEF IInv, CallsCompiled, CallsRecorded
    <3>3. CASE stack' # <<>>
      <4>1. u \in package /\ u \notin unfinished /\ package' = package
        BY <1>4, <2>1, <3>3 DEF IInv, TypeOK
      <4>2. v \in calls[u]
        BY <1>1, <1>6, <2>1, <3>1, <3>3, <4>1
      <4>3. QED
        BY <4>1, <4>2 DEF IInv, CallsCompiled
    <3>4. QED
      BY <3>2, <3>3
  <2>2. generalCalls' \subseteq package'
    BY <1>1, <1>4, <1>6 DEF IInv, CallsCompiled
  <2>3. QED
    BY <2>1, <2>2 DEF CallsCompiled
<1>13. Fresh'
  <2>1. ASSUME NEW u \in Id
        PROVE  dependencies'[u] \subseteq 1..created /\ (u > created => calls'[u] = {})
    <3>1. dependencies'[u] \subseteq 1..created
      <4>1. dependencies[u] \subseteq 1..created /\ Top \in 1..created
        BY <1>1, <1>2 DEF IInv, Fresh
      <4>2. \A v \in dependencies'[u] : v \in dependencies[u] \/ v = Top
        BY <1>5
      <4>3. QED
        BY <4>1, <4>2
    <3>2. ASSUME u > created PROVE calls'[u] = {}
      <4>1. stack' # <<>> => u # stack'[Len(stack')]
        BY <1>1, <1>2, <3>2
      <4>2. QED
        BY <1>6, <3>2, <4>1 DEF IInv, Fresh
    <3>3. QED
      BY <3>1, <3>2
  <2>2. QED
    BY <1>3, <2>1 DEF Fresh
<1>14. QueueGeneral'
  BY <1>3 DEF IInv, QueueGeneral
<1>15. QED
  BY <1>1, <1>7, <1>8, <1>9, <1>10, <1>11, <1>12, <1>13, <1>14 DEF IInv

\* Giving a specialization up keeps the invariant.
LEMMA FailStep ==
    ASSUME IInv, FailSpecialization
    PROVE  IInv'
<1>0. Pop
  BY DEF FailSpecialization
<1>1. /\ stack \in Seq(Id) /\ Len(stack) \in Nat /\ Len(stack) > 0
      /\ Top \in unfinished /\ Top \in Id
      /\ stack' = Front(stack) /\ stack' \in Seq(Id) /\ Len(stack') = Len(stack) - 1
      /\ \A i \in 1..Len(stack') : stack'[i] = stack[i] /\ i \in 1..Len(stack) - 1
      /\ trapped' \in Seq(BOOLEAN) /\ trapsErrors' \in BOOLEAN /\ TrapsNest'
  BY <1>0, PopFacts
<1>2. /\ TypeOK /\ created \in Nat /\ unfinished \subseteq 1..created /\ package \subseteq 1..created
      /\ unfinished \subseteq Id /\ package \subseteq Id
  BY BoundsAssumption DEF IInv, TypeOK, Id
<1>3. /\ created' = created /\ key' = key /\ generalCalls' = generalCalls
      /\ queue' = queue /\ queued' = queued
  BY DEF FailSpecialization
<1> SUFFICES ASSUME NEW gone, gone = Discarded(Top)
             PROVE  IInv'
  OBVIOUS
<1>4. /\ Top \in gone /\ gone \subseteq unfinished
      /\ \A s \in unfinished : dependencies[s] \cap gone # {} => s \in gone
  BY <1>1, DiscardedClosed DEF ClosedUnderCallers
<1>5. \A i \in 1..Len(stack) - 1 : stack[i] \notin gone
  BY <1>0, ContainingSpared DEF IInv, Pop
<1>6. /\ stack' = <<>> => package' = package \cup (unfinished \ gone) /\ unfinished' = {} /\ unused' = {}
      /\ stack' # <<>> => package' = package /\ unfinished' = unfinished \ gone /\ unused' = unused \cup gone
  BY <1>1 DEF FailSpecialization, Settle
<1>7. /\ dependencies' \in [Id -> SUBSET Id]
      /\ \A u \in Id : dependencies'[u] \subseteq dependencies[u]
      /\ stack' # <<>> => \A u \in Id \ gone : dependencies'[u] = dependencies[u]
  <2>1. dependencies' = [s \in Id |-> IF stack' = <<>> \/ s \in gone THEN {} ELSE dependencies[s]]
    BY <1>1 DEF FailSpecialization
  <2>2. QED
    BY <1>2, <2>1 DEF TypeOK
<1>8. /\ calls' \in [Id -> SUBSET Id]
      /\ \A u \in Id : calls'[u] \subseteq calls[u]
  <2>1. calls' = [s \in Id |-> IF s \in gone THEN {} ELSE calls[s]]
    BY DEF FailSpecialization
  <2>2. QED
    BY <1>2, <2>1 DEF TypeOK
<1>9. \A l \in Key : specializations'[l] = IF specializations[l] = Top THEN Null
                                           ELSE IF specializations[l] \in gone THEN Absent ELSE specializations[l]
  BY DEF FailSpecialization, Forget
<1>10. TypeOK'
  <2>1. specializations' \in [Key -> Id \cup {Null, Absent}]
    BY <1>2 DEF FailSpecialization, Forget, TypeOK
  <2>2. /\ (unfinished \cup unused \cup package)' \subseteq 1..created' /\ created' \in 0..MaxCreated
        /\ (unfinished \cap unused)' = {} /\ (package \cap (unfinished \cup unused))' = {}
    <3>1. CASE stack' = <<>>
      BY <1>3, <1>6, <3>1 DEF IInv, TypeOK
    <3>2. CASE stack' # <<>>
      BY <1>3, <1>4, <1>6, <3>2 DEF IInv, TypeOK
    <3>3. QED
      BY <3>1, <3>2
  <2>3. QED
    BY <1>1, <1>3, <1>7, <1>8, <2>1, <2>2 DEF IInv, TypeOK
<1>11. StackOrdered'
  <2>1. CASE stack' = <<>>
    <3>1. Len(stack') = 0
      BY <2>1, EmptySeq
    <3>2. QED
      BY <1>6, <2>1, <3>1 DEF StackOrdered
  <2>2. CASE stack' # <<>>
    <3>1. \A i \in 1..Len(stack') : i \in 1..Len(stack) /\ stack'[i] = stack[i] /\ stack[i] \notin gone
      BY <1>1, <1>5
    <3>2. QED
      BY <1>6, <2>2, <3>1 DEF IInv, StackOrdered
  <2>3. QED
    BY <2>1, <2>2
<1>12. unfinished' \cup package' = (unfinished \cup package) \ gone
  <2>1. package \cap gone = {}
    BY <1>4 DEF IInv, TypeOK
  <2>2. QED
    BY <1>6, <2>1
<1>13. Filed'
  <2>1. ASSUME NEW l \in Key, specializations'[l] \in Id
        PROVE  specializations'[l] \in unfinished' \cup package' /\ key'[specializations'[l]] = l
    <3>1. specializations[l] \notin gone /\ specializations'[l] = specializations[l]
      BY <1>4, <1>9, <2>1 DEF Null, Absent, Id
    <3>2. QED
      BY <1>3, <1>12, <2>1, <3>1 DEF IInv, Filed
  <2>2. ASSUME NEW s \in unfinished' \cup package'
        PROVE  key'[s] \in Key /\ specializations'[key'[s]] = s
    <3>1. s \in unfinished \cup package /\ s \notin gone
      BY <1>12
    <3>2. QED
      BY <1>3, <1>4, <1>9, <3>1 DEF IInv, Filed
  <2>3. QED
    BY <2>1, <2>2 DEF Filed
<1>14. OlderIndependent'
  <2>1. ASSUME NEW i \in 1..Len(stack'), NEW u \in unfinished', u < stack'[i], NEW v \in dependencies'[u]
        PROVE  v < stack'[i]
    <3>1. i \in 1..Len(stack) /\ stack'[i] = stack[i]
      BY <1>1
    <3>2. u \in unfinished /\ u \in Id
      BY <1>2, <1>6
    <3>3. v \in dependencies[u]
      BY <1>7, <3>2
    <3>4. QED
      BY <2>1, <3>1, <3>2, <3>3 DEF IInv, OlderIndependent
  <2>2. QED
    BY <2>1 DEF OlderIndependent
<1>15. ASSUME NEW u \in unfinished \ gone, NEW v \in calls[u]
       PROVE  v \in package \/ v = u \/ (v \in unfinished \ gone /\ v \in dependencies[u])
  BY <1>4 DEF IInv, CallsRecorded
<1>16. CallsRecorded'
  <2>1. ASSUME NEW u \in unfinished', NEW v \in calls'[u]
        PROVE  v \in package' \/ v = u \/ (v \in unfinished' /\ v \in dependencies'[u])
    <3>1. stack' # <<>> /\ u \in unfinished \ gone /\ u \in Id
      BY <1>2, <1>6
    <3>2. QED
      BY <1>6, <1>7, <1>8, <1>15, <3>1
  <2>2. QED
    BY <2>1 DEF CallsRecorded
<1>17. CallsCompiled'
  <2>1. ASSUME NEW u \in package', NEW v \in calls'[u]
        PROVE  v \in package'
    <3>1. u \in Id /\ (u \in package \/ u \in unfinished \ gone)
      BY <1>2, <1>6
    <3>2. v \in calls[u]
      BY <1>8, <3>1
    <3>3. CASE u \in package
      BY <1>6, <3>2, <3>3 DEF IInv, CallsCompiled
    <3>4. CASE u \in unfinished \ gone
      <4>1. stack' = <<>>
        BY <1>6, <3>4 DEF IInv, TypeOK
      <4>2. QED
        BY <1>6, <1>15, <3>2, <3>4, <4>1
    <3>5. QED
      BY <3>1, <3>3, <3>4
  <2>2. generalCalls' \subseteq package'
    BY <1>3, <1>6 DEF IInv, CallsCompiled
  <2>3. QED
    BY <2>1, <2>2 DEF CallsCompiled
<1>18. Fresh'
  BY <1>3, <1>7, <1>8 DEF IInv, Fresh
<1>19. QueueGeneral'
  BY <1>3 DEF IInv, QueueGeneral
<1>20. QED
  BY <1>1, <1>10, <1>11, <1>13, <1>14, <1>16, <1>17, <1>18, <1>19 DEF IInv

\* Taking functions from the queue keeps the invariant.
LEMMA QueueStep ==
    ASSUME IInv, EnqueueFunction \/ FinishFunction
    PROVE  IInv'
<1>1. /\ created' = created /\ key' = key /\ specializations' = specializations /\ stack' = stack
      /\ unfinished' = unfinished /\ dependencies' = dependencies /\ unused' = unused
      /\ package' = package /\ calls' = calls /\ generalCalls' = generalCalls
      /\ trapped' = trapped /\ trapsErrors' = trapsErrors
  BY DEF EnqueueFunction, FinishFunction
<1>2. queue \in Seq(Id \cup {General}) /\ queue # <<>> /\ queued \in Nat
  BY DEF IInv, TypeOK, EnqueueFunction, FinishFunction, Analysing
<1>3. /\ queue' \in Seq(Id \cup {General}) /\ queued' \in Nat
      /\ QueueGeneral'
  <2>1. CASE EnqueueFunction
    <3>1. /\ Enqueued \in Seq(Id \cup {General}) /\ Len(Enqueued) \in Nat
          /\ \A i \in 1..Len(Enqueued) : Enqueued[i] = General
      <4>1. CASE stack = <<>>
        BY <4>1 DEF Enqueued
      <4>2. CASE stack # <<>>
        BY <4>2, EmptySeq DEF Enqueued
      <4>3. QED
        BY <4>1, <4>2
    <3>2. queue' = queue \o Enqueued /\ queued' = queued + Len(Enqueued)
      BY <2>1 DEF EnqueueFunction
    <3>3. /\ queue' \in Seq(Id \cup {General}) /\ Len(queue') = Len(queue) + Len(Enqueued)
          /\ \A i \in 1..Len(queue) + Len(Enqueued) :
                queue'[i] = IF i <= Len(queue) THEN queue[i] ELSE Enqueued[i - Len(queue)]
      BY <1>2, <3>1, <3>2, ConcatProperties
    <3>4. ASSUME NEW i \in 1..Len(queue')
          PROVE  queue'[i] = General
      <4>1. Len(queue) \in Nat /\ i \in 1..Len(queue) + Len(Enqueued)
        BY <1>2, <3>3, EmptySeq
      <4>2. i \in 1..Len(queue) \/ (i > Len(queue) /\ i - Len(queue) \in 1..Len(Enqueued))
        BY <3>1, <4>1
      <4>3. QED
        BY <3>1, <3>3, <4>1, <4>2 DEF IInv, QueueGeneral
    <3>5. QED
      BY <1>2, <3>1, <3>2, <3>3, <3>4 DEF QueueGeneral
  <2>2. CASE FinishFunction
    <3>1. queue' = Tail(queue) /\ queued' = queued
      BY <2>2 DEF FinishFunction
    <3>2. /\ queue' \in Seq(Id \cup {General}) /\ Len(queue') = Len(queue) - 1
          /\ \A i \in 1..Len(queue') : queue'[i] = queue[i + 1]
      BY <1>2, <3>1, HeadTailProperties
    <3>3. Len(queue) \in Nat /\ \A i \in 1..Len(queue') : i + 1 \in 1..Len(queue)
      BY <1>2, <3>2, EmptySeq
    <3>4. QED
      BY <1>2, <3>1, <3>2, <3>3 DEF IInv, QueueGeneral
  <2>3. QED
    BY <2>1, <2>2
<1>4. TypeOK'
  BY <1>1, <1>3 DEF IInv, TypeOK
<1>5. /\ StackOrdered' /\ Filed' /\ OlderIndependent' /\ CallsRecorded'
      /\ CallsCompiled' /\ Fresh' /\ TrapsNest'
  BY <1>1 DEF IInv, StackOrdered, Filed, OlderIndependent, CallsRecorded, CallsCompiled, Fresh, TrapsNest
<1>6. QED
  BY <1>3, <1>4, <1>5 DEF IInv

-----------------------------------------------------------------------------
\* The invariant holds in every state.
THEOREM Invariance == Spec => []IInv
<1>1. ASSUME IInv, [Next]_vars
      PROVE  IInv'
  <2>1. ASSUME NEW k \in Key, UseExisting(k)
        PROVE  IInv'
    BY <1>1, <2>1, UseExistingStep
  <2>2. ASSUME NEW k \in Key, BeginSpecialization(k)
        PROVE  IInv'
    BY <1>1, <2>2, BeginStep
  <2>3. CASE FinishSpecialization
    BY <1>1, <2>3, FinishStep
  <2>4. CASE FailSpecialization
    BY <1>1, <2>4, FailStep
  <2>5. CASE EnqueueFunction \/ FinishFunction
    BY <1>1, <2>5, QueueStep
  <2>6. CASE UNCHANGED vars
    BY <1>1, <2>6 DEF vars, IInv, TypeOK, StackOrdered, Filed, OlderIndependent, CallsRecorded,
                      CallsCompiled, Fresh, TrapsNest, QueueGeneral
  <2>7. QED
    BY <1>1, <2>1, <2>2, <2>3, <2>4, <2>5, <2>6 DEF Next
<1>2. QED
  BY InitIInv, <1>1, PTL DEF Spec

\* The types, and the ownership of specializations by one list, hold in every state.
THEOREM TypeCorrect == Spec => []TypeOK
<1>1. IInv => TypeOK
  BY DEF IInv
<1>2. QED
  BY Invariance, <1>1, PTL

\* Whatever is compiled only calls what is compiled, for any number of functions and
\* arguments and any depth: discarding the recorded callers is enough.
THEOREM CompiledClosed == Spec => []CallsCompiled
<1>1. IInv => CallsCompiled
  BY DEF IInv
<1>2. QED
  BY Invariance, <1>1, PTL

\* No specialization is discarded while it is being analysed.
THEOREM AnalysesSurvive == Spec => []StackAlive
<1>1. IInv => StackAlive
  BY DEF IInv, StackAlive, StackOrdered, Filed
<1>2. QED
  BY Invariance, <1>1, PTL

\* specializations_ and the queue never point to a specialization that is discarded.
THEOREM NoDanglingPointer == Spec => []PointersAlive
<1>1. IInv => PointersAlive
  BY DEF IInv, PointersAlive, Filed, QueueGeneral, TypeOK
<1>2. QED
  BY Invariance, <1>1, PTL

\* No two specializations that are compiled are the same.
THEOREM NothingCompiledTwice == Spec => []CompiledOnce
<1>1. IInv => CompiledOnce
  BY DEF IInv, CompiledOnce, Filed
<1>2. QED
  BY Invariance, <1>1, PTL

\* Errors are trapped exactly inside specializations, at any depth.
THEOREM TrapsRestored == Spec => []ErrorsTrapped
<1>1. IInv => ErrorsTrapped
  BY DEF IInv, ErrorsTrapped, TrapsNest, TypeOK
<1>2. QED
  BY Invariance, <1>1, PTL

-----------------------------------------------------------------------------
(***************************************************************************)
(* Retries.  Each failure discards one specialization of a key at most and *)
(* is final for the key that failed.                                       *)
(***************************************************************************)
Made(k) == {s \in 1..created : key[s] = k}
Failed == {l \in Key : specializations[l] = Null}
Existing(k) == IF specializations[k] \in Id THEN 1 ELSE 0

\* However often a specialization was made, it exists or a failure for good discarded it.
RetryInv ==
    /\ Failed \subseteq {key[s] : s \in 1..created}
    /\ \A k \in Key : Cardinality(Made(k)) <= Existing(k) + Cardinality(Failed)

\* The sets that are counted are finite.
LEMMA RetriesFinite ==
    ASSUME TypeOK, RetryInv
    PROVE  /\ created \in Nat /\ IsFiniteSet(Failed) /\ Cardinality(Failed) \in Nat
           /\ \A k : IsFiniteSet(Made(k)) /\ Cardinality(Made(k)) \in Nat
<1>1. created \in Nat
  BY BoundsAssumption DEF TypeOK
<1>2. IsFiniteSet(1..created)
  BY <1>1, FS_Interval
<1>3. IsFiniteSet({key[s] : s \in 1..created})
  <2> DEFINE keys == {key[s] : s \in 1..created}
             f == [s \in 1..created |-> key[s]]
  <2>1. f \in [1..created -> keys] /\ \A k \in keys : \E s \in 1..created : f[s] = k
    OBVIOUS
  <2> HIDE DEF keys, f
  <2>2. f \in Surjection(1..created, keys)
    BY <2>1, Fun_IsSurj
  <2>3. IsFiniteSet(keys)
    BY <1>2, <2>2, FS_Surjection
  <2>4. QED
    BY <2>3 DEF keys
<1>4. IsFiniteSet(Failed)
  BY <1>3, FS_Subset DEF RetryInv
<1>5. \A k : IsFiniteSet(Made(k))
  BY <1>2, FS_Subset DEF Made
<1>6. QED
  BY <1>1, <1>4, <1>5, FS_CardinalityType

\* A step of the analysis pays for what it makes again.
LEMMA RetryStep ==
    ASSUME IInv, RetryInv, [Next]_vars
    PROVE  RetryInv'
<1>1. /\ TypeOK /\ created \in Nat /\ IsFiniteSet(Failed) /\ Cardinality(Failed) \in Nat
      /\ \A k : IsFiniteSet(Made(k)) /\ Cardinality(Made(k)) \in Nat
  BY RetriesFinite DEF IInv
<1>2. ASSUME NEW k \in Key, BeginSpecialization(k)
      PROVE  RetryInv'
  <2> DEFINE n == created + 1
  <2>1. /\ specializations[k] = Absent /\ created' = n /\ n \in Id
        /\ key' = [key EXCEPT ![n] = k] /\ specializations' = [specializations EXCEPT ![k] = n]
        /\ key \in [Id -> Key \cup {<<>>}] /\ specializations \in [Key -> Id \cup {Null, Absent}]
    BY <1>1, <1>2, BoundsAssumption DEF BeginSpecialization, TypeOK, Id
  <2>2. n \notin 1..created /\ 1..created' = (1..created) \cup {n} /\ n \in Nat /\ n # Null /\ n # Absent
        /\ Absent # Null /\ Absent \notin Id
    BY <1>1, <2>1 DEF Null, Absent, Id
  <2>3. key'[n] = k /\ \A s \in 1..created : key'[s] = key[s]
    BY <1>1, <2>1, <2>2, BoundsAssumption DEF Id
  <2>4. specializations'[k] = n /\ \A l \in Key \ {k} : specializations'[l] = specializations[l]
    BY <2>1
  <2> HIDE DEF n
  <2>5. Failed' = Failed
    BY <2>1, <2>2, <2>4 DEF Failed
  <2>6. Failed' \subseteq {key'[s] : s \in 1..created'}
    BY <2>2, <2>3, <2>5 DEF RetryInv
  <2>7. ASSUME NEW l \in Key
        PROVE  Cardinality(Made(l)') <= Existing(l)' + Cardinality(Failed)
    <3>1. CASE l = k
      <4>1. Made(l)' = Made(l) \cup {n} /\ n \notin Made(l)
        BY <2>2, <2>3, <3>1 DEF Made
      <4>2. Cardinality(Made(l)') = Cardinality(Made(l)) + 1
        BY <1>1, <4>1, FS_AddElement
      <4>3. Existing(l) = 0 /\ Existing(l)' = 1
        BY <2>1, <2>2, <2>4, <3>1 DEF Existing
      <4>4. QED
        BY <1>1, <4>2, <4>3 DEF RetryInv
    <3>2. CASE l # k
      <4>1. Made(l)' = Made(l)
        BY <2>2, <2>3, <3>2 DEF Made
      <4>2. Existing(l)' = Existing(l)
        BY <2>4, <3>2 DEF Existing
      <4>3. QED
        BY <4>1, <4>2 DEF RetryInv
    <3>3. QED
      BY <3>1, <3>2
  <2>8. QED
    BY <2>5, <2>6, <2>7 DEF RetryInv
<1>3. CASE FailSpecialization
  <2> DEFINE set == Discarded(Top)
             k == key[Top]
  <2>1. /\ Pop /\ created' = created /\ key' = key
        /\ specializations' = Forget(set, Top)
    BY <1>3 DEF FailSpecialization
  <2>2. Top \in unfinished /\ Top \in Id
    BY <2>1, PopFacts
  <2>3. /\ k \in Key /\ specializations[k] = Top
        /\ \A l \in Key : specializations[l] = Top => l = k
    BY <2>2 DEF IInv, Filed
  <2> HIDE DEF set, k
  <2>4. \A l \in Key : specializations'[l] = IF l = k THEN Null
                           ELSE IF specializations[l] \in set THEN Absent ELSE specializations[l]
    BY <2>1, <2>3 DEF Forget
  <2>5. Null \notin Id /\ Absent # Null
    BY DEF Null, Absent, Id
  <2>6. set \subseteq Id
    <3>1. unfinished \subseteq Id
      BY <1>1, BoundsAssumption DEF TypeOK, Id
    <3>2. QED
      BY <3>1 DEF set, Discarded
  <2>7. Failed' = Failed \cup {k} /\ k \notin Failed
    BY <2>2, <2>3, <2>4, <2>5, <2>6 DEF Failed
  <2>8. Cardinality(Failed') = Cardinality(Failed) + 1
    BY <1>1, <2>7, FS_AddElement
  <2>9. Failed' \subseteq {key'[s] : s \in 1..created'}
    <3>1. Top \in 1..created
      BY <1>1, <2>2 DEF TypeOK
    <3>2. QED
      BY <2>1, <2>7, <3>1 DEF RetryInv, k
  <2>10. ASSUME NEW l \in Key
         PROVE  Cardinality(Made(l)') <= Existing(l)' + Cardinality(Failed')
    <3>1. Made(l)' = Made(l)
      BY <2>1 DEF Made
    <3>2. Existing(l) \in {0, 1} /\ Existing(l)' \in {0, 1}
      BY DEF Existing
    <3>3. QED
      BY <1>1, <2>8, <3>1, <3>2 DEF RetryInv
  <2>11. QED
    BY <2>9, <2>10 DEF RetryInv
<1>4. ASSUME created' = created, key' = key, specializations' = specializations
      PROVE  RetryInv'
  BY <1>4 DEF RetryInv, Failed, Made, Existing
<1>5. CASE FinishSpecialization \/ EnqueueFunction \/ FinishFunction \/ UNCHANGED vars
  BY <1>4, <1>5 DEF FinishSpecialization, EnqueueFunction, FinishFunction, vars
<1>6. ASSUME NEW k \in Key, UseExisting(k)
      PROVE  RetryInv'
  BY <1>4, <1>6 DEF UseExisting
<1>7. QED
  BY <1>2, <1>3, <1>5, <1>6 DEF Next

\* A function is specialized for the same arguments again only after a further specialization
\* failed for good, so that retries end, however failures and callers interleave.
THEOREM RetriesEnd == Spec => []RetriesPaidFor
<1>1. Init => RetryInv
  <2> SUFFICES ASSUME Init PROVE RetryInv
    OBVIOUS
  <2>1. Failed = {} /\ \A k \in Key : Made(k) = {} /\ Existing(k) = 0
    BY DEF Init, Failed, Made, Existing, Id, Null, Absent
  <2>2. QED
    BY <2>1, FS_EmptySet DEF RetryInv
<1>2. RetryInv /\ IInv => RetriesPaidFor
  <2> SUFFICES ASSUME RetryInv, IInv, NEW k \in Key
               PROVE  Cardinality(Made(k)) <= 1 + Cardinality(Failed)
    BY DEF RetriesPaidFor, Made, Failed
  <2>1. Cardinality(Failed) \in Nat /\ Cardinality(Made(k)) \in Nat /\ Existing(k) \in {0, 1}
    BY RetriesFinite DEF IInv, Existing
  <2>2. QED
    BY <2>1 DEF RetryInv
<1>3. QED
  BY <1>1, <1>2, RetryStep, Invariance, PTL DEF Spec
=============================================================================
