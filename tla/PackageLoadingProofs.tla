------------------------ MODULE PackageLoadingProofs ------------------------
(***************************************************************************)
(* Proofs about PackageLoading, for any packages and classes: exactly the  *)
(* imports that close a cycle are refused; the superclasses of a class in  *)
(* a cycle are never analysed, and a class is refused only if the analysis *)
(* of its superclass leads to a class that inherits from it; the generic   *)
(* parameters of a class follow those of its superclass; and a class       *)
(* inherits after its superclass, as the classes of a package are brought  *)
(* in order.                                                               *)
(***************************************************************************)
EXTENDS PackageLoading, Integers, SequenceTheorems, FiniteSetTheorems, WellFoundedInduction, TLAPS

Places == {"superclass", "offset", "argument", "type"}
Call == [class : Classes, at : Places]

PackageTypes ==
    /\ loading \in Seq(Packages)
    /\ progress \in [Packages -> {"absent", "parsing", "supertypes", "inheriting", "analysed"}]
    /\ imports \in [Packages -> SUBSET Packages]

ClassTypes ==
    /\ classes = [p \in Packages |-> classes[p]]
    /\ exportedTypes \in [Packages -> SUBSET Classes]
    /\ superclass \in [Classes -> Classes \cup {NoClass}]
    /\ argument \in [Classes -> Classes \cup {NoClass}]
    /\ position \in Nat
    /\ analyses \in Seq(Call)
    /\ started \subseteq Classes /\ analysing \subseteq Classes /\ analysed \subseteq started
    /\ offset \in [Classes -> Nat]

(***************************************************************************)
(* Imports                                                                 *)
(***************************************************************************)

\* The packages being loaded are different ones, of which all but the last are being parsed,
\* each for an import of the one before it; no other package is being parsed or analysed.
LoadingIsChain ==
    /\ \A i, j \in 1..Len(loading) : loading[i] = loading[j] => i = j
    /\ \A i \in 1..Len(loading) :
           /\ progress[loading[i]] \in {"parsing", "supertypes", "inheriting"}
           /\ i # Len(loading) => /\ progress[loading[i]] = "parsing"
                                  /\ loading[i + 1] \in imports[loading[i]]
    /\ \A p \in Packages : progress[p] = "parsing" => \E i \in 1..Len(loading) : loading[i] = p
    /\ \A p \in Packages : progress[p] = "absent" => imports[p] = {}

\* What a package has imported is finished, or is being loaded for it.
ImportsFinished ==
    \A p \in Packages : \A q \in imports[p] :
        FinishedLoading(q) \/ \E i \in 1..Len(loading) : i # Len(loading) /\ loading[i] = p /\ loading[i + 1] = q

ImportInv ==
    /\ PackageTypes
    /\ LoadingIsChain
    /\ outcome # "circularImport" => ImportsFinished /\ ~Cyclic(Packages, imports)
    /\ outcome = "circularImport" => Cyclic(Packages, imports)

(***************************************************************************)
(* Sequences and cycles                                                    *)
(***************************************************************************)

\* A sequence with one more element.
LEMMA AppendFacts ==
    ASSUME NEW S, NEW seq \in Seq(S), NEW e \in S
    PROVE  /\ Len(seq) \in Nat
           /\ Append(seq, e) \in Seq(S)
           /\ Len(Append(seq, e)) = Len(seq) + 1
           /\ \A i \in 1..Len(seq) : Append(seq, e)[i] = seq[i]
           /\ Append(seq, e)[Len(seq) + 1] = e
  OBVIOUS

\* A sequence without its last element.
LEMMA FrontFacts ==
    ASSUME NEW S, NEW seq \in Seq(S), seq # <<>>
    PROVE  /\ Len(seq) \in Nat \ {0}
           /\ Front(seq) \in Seq(S)
           /\ Len(Front(seq)) = Len(seq) - 1
           /\ \A i \in 1..(Len(seq) - 1) : Front(seq)[i] = seq[i]
<1>1. Len(seq) \in Nat /\ Len(seq) > 0 /\ \A i \in 1..Len(seq) : seq[i] \in S
  BY EmptySeq, LenProperties
<1>2. /\ Front(seq) \in Seq(S)
      /\ Len(Front(seq)) = IF 1 <= Len(seq) - 1 THEN Len(seq) - 1 - 1 + 1 ELSE 0
      /\ \A i \in 1..(Len(seq) - 1 - 1 + 1) : Front(seq)[i] = seq[1 + i - 1]
  <2>1. \A i \in 1..(Len(seq) - 1) : seq[i] \in S
    BY <1>1
  <2>2. Len(seq) - 1 \in Int /\ 1 \in Int
    BY <1>1
  <2>3. QED
    BY <2>1, <2>2, SubSeqProperties DEF Front
<1>3. \A n, m : n \in Nat /\ n > 0 /\ m = (IF 1 <= n - 1 THEN n - 1 - 1 + 1 ELSE 0) => m = n - 1
  OBVIOUS
<1>4. ASSUME NEW i \in 1..(Len(seq) - 1)
      PROVE  Front(seq)[i] = seq[i]
  <2>1. i \in 1..(Len(seq) - 1 - 1 + 1) /\ 1 + i - 1 = i
    BY <1>1
  <2>2. QED
    BY <1>2, <2>1
<1>5. Len(Front(seq)) = Len(seq) - 1
  BY <1>1, <1>2, <1>3
<1>6. Len(seq) \in Nat \ {0}
  BY <1>1
<1>7. QED
  BY <1>2, <1>4, <1>5, <1>6

\* A node of a cycle leads somewhere.
LEMMA CyclicNodes ==
    ASSUME NEW nodes, NEW next
    PROVE  Cyclic(nodes, next) <=> \E s \in SUBSET nodes : s # {} /\ \A x \in s : next[x] \cap s # {}
<1>1. ASSUME NEW s \in SUBSET nodes, \A x \in s : next[x] \cap s # {}
      PROVE  s \in SUBSET {x \in nodes : next[x] # {}}
  <2>1. \A x \in s : x \in nodes /\ next[x] # {}
    BY <1>1
  <2>2. QED
    BY <2>1
<1>2. {x \in nodes : next[x] # {}} \subseteq nodes
  OBVIOUS
<1>3. QED
  BY <1>1, <1>2 DEF Cyclic

(***************************************************************************)
(* Imports                                                                 *)
(***************************************************************************)

\* The package being loaded is the last one.
LEMMA LastLoading ==
    ASSUME ImportInv, NEW p \in Packages, Loading(p)
    PROVE  /\ Len(loading) \in Nat \ {0}
           /\ loading[Len(loading)] = p
           /\ outcome = "running"
  BY EmptySeq, LenProperties DEF Loading, Last, ImportInv, PackageTypes

\* All that the last package imported is finished, and what is finished imports what is.
LEMMA FinishedImports ==
    ASSUME ImportInv, outcome # "circularImport", NEW p \in Packages, NEW q \in imports[p],
           FinishedLoading(p) \/ (loading # <<>> /\ Last(loading) = p)
    PROVE  FinishedLoading(q)
<1> SUFFICES ASSUME NEW i \in 1..Len(loading), i # Len(loading), loading[i] = p
             PROVE  FALSE
  BY DEF ImportInv, ImportsFinished
<1>1. progress[p] = "parsing"
  BY DEF ImportInv, LoadingIsChain
<1>2. Len(loading) \in 1..Len(loading) /\ loading[Len(loading)] = p
  BY <1>1, EmptySeq, LenProperties DEF FinishedLoading, Last, ImportInv, PackageTypes
<1>3. QED
  BY <1>2 DEF ImportInv, LoadingIsChain

\* A step that loads nothing.
LEMMA NothingLoaded ==
    ASSUME ImportInv, UNCHANGED <<loading, progress, imports>>,
           outcome' = outcome \/ (outcome # "circularImport" /\ outcome' # "circularImport")
    PROVE  ImportInv'
<1>1. PackageTypes' /\ LoadingIsChain' /\ (ImportsFinished <=> ImportsFinished')
  BY DEF ImportInv, PackageTypes, LoadingIsChain, ImportsFinished, FinishedLoading
<1>2. Cyclic(Packages, imports)' <=> Cyclic(Packages, imports)
  BY DEF Cyclic
<1>3. QED
  BY <1>1, <1>2 DEF ImportInv

\* An import of a package that imports nothing yet closes no cycle.
LEMMA NewImport ==
    ASSUME ImportInv, ~Cyclic(Packages, imports), NEW p \in Packages, NEW q \in Packages, q # p, imports[q] = {},
           imports' = [imports EXCEPT ![p] = @ \cup {q}]
    PROVE  ~Cyclic(Packages, imports)'
<1> SUFFICES ASSUME NEW s \in SUBSET Packages, s # {}, \A x \in s : imports'[x] \cap s # {}
             PROVE  FALSE
  BY DEF Cyclic
<1>1. \A x \in Packages : imports'[x] = IF x = p THEN imports[p] \cup {q} ELSE imports[x]
  BY DEF ImportInv, PackageTypes
<1>2. q \notin s
  BY <1>1
<1>3. \A x \in s : imports[x] \cap s # {}
  BY <1>1, <1>2
<1>4. QED
  BY <1>3, CyclicNodes

\* So does an import of a package that is finished, as what that imports is finished too.
LEMMA FinishedImport ==
    ASSUME ImportInv, outcome # "circularImport", NEW p \in Packages, NEW q \in Packages,
           ~FinishedLoading(p), FinishedLoading(q),
           imports' = [imports EXCEPT ![p] = @ \cup {q}]
    PROVE  ~Cyclic(Packages, imports)'
<1> SUFFICES ASSUME NEW s \in SUBSET Packages, s # {}, \A x \in s : imports'[x] \cap s # {}
             PROVE  FALSE
  BY CyclicNodes DEF Cyclic
<1>0. ~Cyclic(Packages, imports)
  BY DEF ImportInv
<1>1. \A x \in Packages : imports'[x] = IF x = p THEN imports[p] \cup {q} ELSE imports[x]
  BY DEF ImportInv, PackageTypes
<1>2. CASE q \notin s
  <2>1. \A x \in s : imports[x] \cap s # {}
    BY <1>1, <1>2
  <2>2. QED
    BY <1>0, <2>1, CyclicNodes
<1>3. CASE q \in s
  <2> DEFINE f == {x \in s : FinishedLoading(x)}
  <2>1. ASSUME NEW x \in f
        PROVE  imports[x] \cap f # {}
    <3>1. x \in s /\ x \in Packages /\ FinishedLoading(x) /\ x # p
      OBVIOUS
    <3>2. imports[x] \cap s # {}
      BY <1>1, <3>1
    <3>3. PICK y \in s : y \in imports[x]
      BY <3>2
    <3>4. FinishedLoading(y)
      BY <3>1, <3>3, FinishedImports
    <3>5. QED
      BY <3>3, <3>4
  <2>2. f \in SUBSET Packages /\ f # {}
    BY <1>3
  <2> HIDE DEF f
  <2>3. QED
    BY <1>0, <2>1, <2>2, CyclicNodes
<1>4. QED
  BY <1>2, <1>3

\* An import of a package that is being parsed closes a cycle: the packages from that one on
\* are being loaded for each other.
LEMMA CircularImport ==
    ASSUME ImportInv, NEW p \in Packages, NEW q \in Packages, Loading(p), progress[q] = "parsing",
           imports' = [imports EXCEPT ![p] = @ \cup {q}]
    PROVE  Cyclic(Packages, imports)'
<1>1. Len(loading) \in Nat \ {0} /\ loading[Len(loading)] = p
  BY LastLoading
<1>2. \A x \in Packages : imports'[x] = IF x = p THEN imports[p] \cup {q} ELSE imports[x]
  BY DEF ImportInv, PackageTypes
<1>3. PICK j \in 1..Len(loading) : loading[j] = q
  BY DEF ImportInv, LoadingIsChain
<1> DEFINE s == {loading[i] : i \in j..Len(loading)}
<1>4. ASSUME NEW i \in j..Len(loading)
      PROVE  imports'[loading[i]] \cap s # {}
  <2>1. i \in 1..Len(loading) /\ loading[i] \in Packages
    BY <1>1, LenProperties DEF ImportInv, PackageTypes
  <2>2. CASE i = Len(loading)
    <3>1. q \in s
      BY <1>1, <1>3
    <3>2. QED
      BY <1>1, <1>2, <2>2, <3>1
  <2>3. CASE i # Len(loading)
    <3>1. loading[i + 1] \in imports[loading[i]]
      BY <2>1, <2>3 DEF ImportInv, LoadingIsChain
    <3>2. i + 1 \in j..Len(loading)
      BY <1>1, <2>1, <2>3
    <3>3. loading[i + 1] \in imports'[loading[i]]
      BY <1>2, <2>1, <3>1
    <3>4. QED
      BY <3>2, <3>3
  <2>4. QED
    BY <2>2, <2>3
<1>5. s \in SUBSET Packages /\ s # {}
  <2>1. \A i \in j..Len(loading) : i \in 1..Len(loading)
    BY <1>1
  <2>2. \A i \in 1..Len(loading) : loading[i] \in Packages
    BY LenProperties DEF ImportInv, PackageTypes
  <2>3. j \in j..Len(loading)
    BY <1>1
  <2>4. QED
    BY <2>1, <2>2, <2>3
<1>6. \A x \in s : imports'[x] \cap s # {}
  BY <1>4
<1> HIDE DEF s
<1>7. \A x \in s : x \in Packages /\ imports'[x] # {}
  BY <1>5, <1>6
<1>8. s \in SUBSET {x \in Packages : imports'[x] # {}}
  BY <1>7
<1>9. QED
  BY <1>5, <1>6, <1>8 DEF Cyclic

\* loadPackage of a package that was not asked for before.
LEMMA LoadNew ==
    ASSUME ImportInv, NEW p \in Packages, NEW q \in Packages, LoadPackage(p, q), progress[q] = "absent"
    PROVE  ImportInv'
<1> DEFINE n == Len(loading)
<1>1. n \in Nat \ {0} /\ loading[n] = p /\ outcome = "running" /\ progress[p] = "parsing"
  BY LastLoading DEF LoadPackage, Parsing
<1>2. /\ imports' = [imports EXCEPT ![p] = @ \cup {q}]
      /\ progress' = [progress EXCEPT ![q] = "parsing"]
      /\ loading' = Append(loading, q)
      /\ outcome' = outcome
  BY DEF LoadPackage
<1>3. q # p /\ imports[q] = {}
  BY <1>1 DEF ImportInv, LoadingIsChain
<1>4. /\ \A x \in Packages : imports'[x] = IF x = p THEN imports[p] \cup {q} ELSE imports[x]
      /\ \A x \in Packages : progress'[x] = IF x = q THEN "parsing" ELSE progress[x]
      /\ PackageTypes'
  BY <1>2, AppendFacts DEF ImportInv, PackageTypes
<1>5. /\ Len(loading') = n + 1
      /\ \A i \in 1..n : loading'[i] = loading[i] /\ loading[i] \in Packages /\ loading[i] # q
      /\ loading'[n + 1] = q
  <2>1. \A i \in 1..n : loading[i] \in Packages
    BY LenProperties DEF ImportInv, PackageTypes
  <2>2. \A i \in 1..n : loading[i] # q
    BY DEF ImportInv, LoadingIsChain
  <2>3. QED
    BY <1>2, <2>1, <2>2, AppendFacts DEF ImportInv, PackageTypes
<1>6. LoadingIsChain'
  <2>1. \A i, j \in 1..Len(loading') : loading'[i] = loading'[j] => i = j
    <3>1. \A i, j \in 1..n : loading[i] = loading[j] => i = j
      BY DEF ImportInv, LoadingIsChain
    <3>2. \A i \in 1..(n + 1) : i \in 1..n \/ i = n + 1
      BY <1>1
    <3>3. QED
      BY <1>5, <3>1, <3>2
  <2>2. ASSUME NEW i \in 1..Len(loading')
        PROVE  /\ progress'[loading'[i]] \in {"parsing", "supertypes", "inheriting"}
               /\ i # Len(loading') => /\ progress'[loading'[i]] = "parsing"
                                       /\ loading'[i + 1] \in imports'[loading'[i]]
    <3>1. CASE i = n + 1
      BY <1>4, <1>5, <3>1
    <3>2. CASE i = n
      BY <1>1, <1>3, <1>4, <1>5, <3>2
    <3>3. CASE i \in 1..n /\ i # n
      <4>1. /\ progress[loading[i]] = "parsing"
            /\ loading[i + 1] \in imports[loading[i]]
        BY <3>3 DEF ImportInv, LoadingIsChain
      <4>2. i + 1 \in 1..n
        BY <1>1, <3>3
      <4>3. QED
        BY <1>4, <1>5, <3>3, <4>1, <4>2
    <3>4. i \in 1..n \/ i = n + 1
      BY <1>1, <1>5
    <3>5. QED
      BY <3>1, <3>2, <3>3, <3>4
  <2>3. ASSUME NEW x \in Packages, progress'[x] = "parsing"
        PROVE  \E i \in 1..Len(loading') : loading'[i] = x
    <3>1. CASE x = q
      <4>1. n + 1 \in 1..Len(loading')
        BY <1>1, <1>5
      <4>2. QED
        BY <1>5, <3>1, <4>1
    <3>2. CASE x # q
      <4>1. PICK i \in 1..n : loading[i] = x
        BY <1>4, <2>3, <3>2 DEF ImportInv, LoadingIsChain
      <4>2. i \in 1..Len(loading')
        BY <1>1, <1>5
      <4>3. QED
        BY <1>5, <4>1, <4>2
    <3>3. QED
      BY <3>1, <3>2
  <2>4. \A x \in Packages : progress'[x] = "absent" => imports'[x] = {}
    BY <1>1, <1>4 DEF ImportInv, LoadingIsChain
  <2> HIDE DEF n
  <2>5. QED
    BY <2>1, <2>2, <2>3, <2>4 DEF LoadingIsChain
<1>7. ImportsFinished'
  <2> SUFFICES ASSUME NEW x \in Packages, NEW y \in imports'[x]
               PROVE  \/ FinishedLoading(y)'
                      \/ \E i \in 1..Len(loading') : /\ i # Len(loading')
                                                     /\ loading'[i] = x /\ loading'[i + 1] = y
    BY DEF ImportsFinished
  <2>1. CASE x = p /\ y = q
    <3>1. n \in 1..Len(loading') /\ n # Len(loading')
      BY <1>1, <1>5
    <3>2. n \in 1..n
      BY <1>1
    <3>3. QED
      BY <1>1, <1>5, <2>1, <3>1, <3>2
  <2>2. CASE y \in imports[x]
    <3>1. y \in Packages
      BY <2>2 DEF ImportInv, PackageTypes
    <3>2. CASE FinishedLoading(y)
      BY <1>4, <3>1, <3>2 DEF FinishedLoading, ImportInv, LoadingIsChain
    <3>3. CASE ~FinishedLoading(y)
      <4>1. PICK i \in 1..n : i # n /\ loading[i] = x /\ loading[i + 1] = y
        BY <1>1, <2>2, <3>3 DEF ImportInv, ImportsFinished
      <4>2. i \in 1..Len(loading') /\ i # Len(loading') /\ i + 1 \in 1..n
        BY <1>1, <1>5, <4>1
      <4>3. QED
        BY <1>5, <4>1, <4>2
    <3>4. QED
      BY <3>2, <3>3
  <2>3. QED
    BY <1>4, <2>1, <2>2
<1>8. ~Cyclic(Packages, imports)'
  BY <1>1, <1>2, <1>3, NewImport DEF ImportInv
<1>9. outcome' # "circularImport"
  BY <1>1, <1>2
<1>10. QED
  BY <1>4, <1>6, <1>7, <1>8, <1>9 DEF ImportInv

\* loadPackage of a package that was asked for before.
LEMMA LoadAgain ==
    ASSUME ImportInv, NEW p \in Packages, NEW q \in Packages, LoadPackage(p, q), progress[q] # "absent"
    PROVE  ImportInv'
<1>1. outcome = "running" /\ progress[p] = "parsing" /\ Loading(p)
  BY DEF LoadPackage, Parsing, Loading
<1>2. /\ imports' = [imports EXCEPT ![p] = @ \cup {q}]
      /\ progress' = progress /\ loading' = loading
      /\ IF FinishedLoading(q) THEN outcome' = outcome ELSE outcome' = "circularImport"
  BY DEF LoadPackage, IsCircular, Throw
<1>3. /\ \A x \in Packages : imports'[x] = IF x = p THEN imports[p] \cup {q} ELSE imports[x]
      /\ PackageTypes'
  BY <1>2 DEF ImportInv, PackageTypes
<1>4. LoadingIsChain'
  <2>1. \A i \in 1..Len(loading) : loading[i] \in Packages
    BY LenProperties DEF ImportInv, PackageTypes
  <2>2. \A x \in Packages : progress[x] = "absent" => imports'[x] = {}
    BY <1>1, <1>3 DEF ImportInv, LoadingIsChain
  <2>3. \A i \in 1..Len(loading) : i # Len(loading) => loading[i + 1] \in imports'[loading[i]]
    BY <1>3, <2>1 DEF ImportInv, LoadingIsChain
  <2>4. QED
    BY <1>2, <2>2, <2>3 DEF ImportInv, LoadingIsChain
<1>5. CASE FinishedLoading(q)
  <2>1. ImportsFinished'
    BY <1>1, <1>2, <1>3, <1>5 DEF ImportInv, ImportsFinished, FinishedLoading
  <2>2. ~FinishedLoading(p)
    BY <1>1 DEF FinishedLoading
  <2>3. ~Cyclic(Packages, imports)'
    BY <1>1, <1>2, <1>5, <2>2, FinishedImport
  <2>4. outcome' # "circularImport"
    BY <1>1, <1>2, <1>5
  <2>5. QED
    BY <1>3, <1>4, <2>1, <2>3, <2>4 DEF ImportInv
<1>6. CASE ~FinishedLoading(q)
  <2>1. progress[q] = "parsing"
    BY <1>6 DEF FinishedLoading, LoadPackage, ImportInv, PackageTypes
  <2>2. Cyclic(Packages, imports)'
    BY <1>1, <1>2, <2>1, CircularImport
  <2>3. outcome' = "circularImport"
    BY <1>2, <1>6
  <2>4. QED
    BY <1>3, <1>4, <2>2, <2>3 DEF ImportInv
<1>7. QED
  BY <1>5, <1>6

\* The package being loaded comes further, and is finished before and after, or becomes so.
LEMMA LoadedFurther ==
    ASSUME ImportInv, NEW p \in Packages, Loading(p), NEW place \in {"supertypes", "inheriting"},
           progress' = [progress EXCEPT ![p] = place], UNCHANGED <<loading, imports>>, outcome' = outcome
    PROVE  ImportInv'
<1>1. Len(loading) \in Nat \ {0} /\ loading[Len(loading)] = p /\ outcome = "running"
  BY LastLoading
<1>2. \A x \in Packages : progress'[x] = IF x = p THEN place ELSE progress[x]
  BY DEF ImportInv, PackageTypes
<1>3. PackageTypes'
  BY <1>2 DEF ImportInv, PackageTypes
<1>4. \A i \in 1..Len(loading) : loading[i] \in Packages /\ (i # Len(loading) => loading[i] # p)
  BY <1>1, LenProperties DEF ImportInv, PackageTypes, LoadingIsChain
<1>5. progress[p] # "absent"
  BY <1>1 DEF ImportInv, LoadingIsChain
<1>6. LoadingIsChain'
  <2>1. \A i \in 1..Len(loading) :
            /\ progress'[loading[i]] \in {"parsing", "supertypes", "inheriting"}
            /\ i # Len(loading) => progress'[loading[i]] = "parsing" /\ loading[i + 1] \in imports[loading[i]]
    BY <1>2, <1>4 DEF ImportInv, LoadingIsChain
  <2>2. \A x \in Packages : progress'[x] = "parsing" => progress[x] = "parsing"
    BY <1>2
  <2>3. \A x \in Packages : progress'[x] = "absent" => progress[x] = "absent"
    BY <1>2
  <2>4. QED
    BY <2>1, <2>2, <2>3 DEF ImportInv, LoadingIsChain
<1>7. ImportsFinished'
  <2>1. \A x \in Packages : FinishedLoading(x) => FinishedLoading(x)'
    BY <1>2 DEF FinishedLoading
  <2>2. \A x \in Packages : imports[x] \subseteq Packages
    BY DEF ImportInv, PackageTypes
  <2>3. QED
    BY <1>1, <2>1, <2>2 DEF ImportInv, ImportsFinished
<1>8. ~Cyclic(Packages, imports)'
  BY <1>1 DEF ImportInv, Cyclic
<1>9. QED
  BY <1>1, <1>3, <1>6, <1>7, <1>8 DEF ImportInv

\* The import returns.
LEMMA LoadReturns ==
    ASSUME ImportInv, NEW p \in Packages, FinishAnalysis(p)
    PROVE  ImportInv'
<1> DEFINE n == Len(loading)
<1>1. n \in Nat \ {0} /\ loading[n] = p /\ outcome = "running" /\ loading # <<>>
  BY LastLoading DEF FinishAnalysis, Loading
<1>2. /\ progress[p] = "inheriting"
      /\ progress' = [progress EXCEPT ![p] = "analysed"]
      /\ loading' = Front(loading)
      /\ imports' = imports
      /\ outcome' # "circularImport"
  BY <1>1 DEF FinishAnalysis
<1>3. \A x \in Packages : progress'[x] = IF x = p THEN "analysed" ELSE progress[x]
  BY <1>2 DEF ImportInv, PackageTypes
<1>4. /\ loading' \in Seq(Packages)
      /\ Len(loading') = n - 1
      /\ \A i \in 1..(n - 1) : loading'[i] = loading[i]
  BY <1>1, <1>2, FrontFacts DEF ImportInv, PackageTypes
<1>5. \A i \in 1..(n - 1) : /\ i \in 1..n /\ i # n /\ loading[i] \in Packages /\ loading[i] # p
                            /\ progress[loading[i]] = "parsing" /\ loading[i + 1] \in imports[loading[i]]
  <2>1. \A i \in 1..(n - 1) : i \in 1..n /\ i # n
    BY <1>1
  <2>2. \A i \in 1..n : loading[i] \in Packages
    BY LenProperties DEF ImportInv, PackageTypes
  <2>3. n \in 1..n
    BY <1>1
  <2>4. QED
    BY <1>1, <2>1, <2>2, <2>3 DEF ImportInv, LoadingIsChain
<1>6. PackageTypes'
  BY <1>2, <1>3, <1>4 DEF ImportInv, PackageTypes
<1>7. LoadingIsChain'
  <2>1. \A i, j \in 1..Len(loading') : loading'[i] = loading'[j] => i = j
    BY <1>4, <1>5 DEF ImportInv, LoadingIsChain
  <2>2. ASSUME NEW i \in 1..Len(loading')
        PROVE  /\ progress'[loading'[i]] \in {"parsing", "supertypes", "inheriting"}
               /\ i # Len(loading') => /\ progress'[loading'[i]] = "parsing"
                                       /\ loading'[i + 1] \in imports'[loading'[i]]
    <3>1. i # Len(loading') => i + 1 \in 1..(n - 1)
      BY <1>1, <1>4
    <3>2. QED
      BY <1>2, <1>3, <1>4, <1>5, <3>1
  <2>3. ASSUME NEW x \in Packages, progress'[x] = "parsing"
        PROVE  \E i \in 1..Len(loading') : loading'[i] = x
    <3>1. x # p /\ progress[x] = "parsing"
      BY <1>3, <2>3
    <3>2. PICK i \in 1..n : loading[i] = x
      BY <3>1 DEF ImportInv, LoadingIsChain
    <3>3. i \in 1..(n - 1)
      BY <1>1, <3>1, <3>2
    <3>4. QED
      BY <1>4, <3>2, <3>3
  <2>4. \A x \in Packages : progress'[x] = "absent" => imports'[x] = {}
    BY <1>2, <1>3 DEF ImportInv, LoadingIsChain
  <2> HIDE DEF n
  <2>5. QED
    BY <2>1, <2>2, <2>3, <2>4 DEF LoadingIsChain
<1>8. ImportsFinished'
  <2> SUFFICES ASSUME NEW x \in Packages, NEW y \in imports[x], ~FinishedLoading(y)'
               PROVE  \E i \in 1..Len(loading') : /\ i # Len(loading')
                                                  /\ loading'[i] = x /\ loading'[i + 1] = y
    BY <1>2 DEF ImportsFinished
  <2>1. y \in Packages
    BY DEF ImportInv, PackageTypes
  <2>2. y # p /\ ~FinishedLoading(y)
    BY <1>2, <1>3, <2>1 DEF FinishedLoading
  <2>3. PICK i \in 1..n : i # n /\ loading[i] = x /\ loading[i + 1] = y
    BY <1>1, <2>2 DEF ImportInv, ImportsFinished
  <2>4. i \in 1..(n - 1) /\ i # n - 1 /\ i + 1 \in 1..(n - 1)
    BY <1>1, <2>2, <2>3
  <2>5. QED
    BY <1>4, <2>3, <2>4
<1>9. ~Cyclic(Packages, imports)'
  BY <1>1, <1>2 DEF ImportInv, Cyclic
<1>10. QED
  BY <1>2, <1>6, <1>7, <1>8, <1>9 DEF ImportInv

\* Every step keeps the invariant.
LEMMA ImportStep ==
    ASSUME ImportInv, [LoadNext]_loadVars
    PROVE  ImportInv'
<1>1. ASSUME NEW p \in Packages, NEW q \in Packages, LoadPackage(p, q)
      PROVE  ImportInv'
  BY <1>1, LoadNew, LoadAgain
<1>2. ASSUME NEW p \in Packages, FinishParse(p)
      PROVE  ImportInv'
  <2>1. Loading(p) /\ outcome = "running" /\ UNCHANGED <<loading, imports>>
    BY <1>2 DEF FinishParse, Parsing, Loading
  <2>2. CASE p = MainPackage /\ hasError
    <3>1. outcome' = "error" /\ progress' = progress
      BY <1>2, <2>2 DEF FinishParse
    <3>2. QED
      BY <2>1, <3>1, NothingLoaded
  <2>3. CASE ~(p = MainPackage /\ hasError)
    <3>1. outcome' = outcome /\ progress' = [progress EXCEPT ![p] = "supertypes"]
      BY <1>2, <2>3 DEF FinishParse
    <3>2. QED
      BY <2>1, <3>1, LoadedFurther
  <2>4. QED
    BY <2>2, <2>3
<1>3. ASSUME NEW p \in Packages, OrderClasses(p)
      PROVE  ImportInv'
  <2>1. /\ Loading(p) /\ UNCHANGED <<loading, imports>> /\ outcome' = outcome
        /\ progress' = [progress EXCEPT ![p] = "inheriting"]
    BY <1>3 DEF OrderClasses, AnalysingSuperTypes
  <2>2. QED
    BY <2>1, LoadedFurther
<1>4. ASSUME NEW p \in Packages, FinishAnalysis(p)
      PROVE  ImportInv'
  BY <1>4, LoadReturns
<1>5. ASSUME NEW p \in Packages, SuperTypeStep(p)
      PROVE  ImportInv'
  <2>1. outcome = "running" /\ UNCHANGED <<loading, progress, imports>>
    BY <1>5 DEF SuperTypeStep, NextSuperType, AnalyseSuperclass, OffsetIndices, AnalyseArgument, SuperTypeAnalysed,
                At, AnalysingSuperTypes, Loading, packageVars
  <2>2. outcome' = outcome \/ outcome' = "circularInheritance"
    BY <1>5 DEF SuperTypeStep, NextSuperType, AnalyseSuperclass, OffsetIndices, AnalyseArgument, SuperTypeAnalysed,
                AnalyseSuperType, Throw
  <2>3. QED
    BY <2>1, <2>2, NothingLoaded
<1>6. ASSUME NEW p \in Packages,
             \/ \E k \in Classes : \E super, arg \in Classes \cup {NoClass} : DeclareClass(p, k, super, arg)
             \/ Inherit(p) \/ ReportError(p) \/ ThrowError(p)
      PROVE  ImportInv'
  <2>1. outcome = "running" /\ UNCHANGED <<loading, progress, imports>> /\ (outcome' = outcome \/ outcome' = "error")
    BY <1>6 DEF DeclareClass, Inherit, ReportError, ThrowError, Throw, Parsing, Loading, packageVars
  <2>2. QED
    BY <2>1, NothingLoaded
<1>7. CASE CreateClass \/ FinishGeneration
  <2>1. /\ outcome = "generating" /\ UNCHANGED <<loading, progress, imports>>
        /\ outcome' = outcome \/ outcome' = "done"
    BY <1>7 DEF CreateClass, FinishGeneration, packageVars
  <2>2. QED
    BY <2>1, NothingLoaded
<1>8. CASE UNCHANGED loadVars
  BY <1>8, NothingLoaded DEF loadVars, packageVars
<1>9. QED
  BY <1>1, <1>2, <1>3, <1>4, <1>5, <1>6, <1>7, <1>8 DEF LoadNext, LoadStep, ParseStep

\* At first the main package is being parsed.
LEMMA ImportInit ==
    ASSUME LoadInit
    PROVE  ImportInv
<1>1. PackageTypes
  BY PackagesAssumption DEF LoadInit, PackageTypes
<1>2. Len(loading) = 1 /\ loading[1] = MainPackage /\ 1..1 = {1}
  BY DEF LoadInit
<1>3. LoadingIsChain
  BY <1>2, PackagesAssumption DEF LoadInit, LoadingIsChain
<1>4. ImportsFinished /\ ~Cyclic(Packages, imports)
  BY DEF LoadInit, ImportsFinished, Cyclic
<1>5. QED
  BY <1>1, <1>3, <1>4 DEF ImportInv, LoadInit

\* A package whose imports lead back to it is refused, and nothing else is
\* (Compiler::loadPackage), for any packages that import each other in any way.
THEOREM ImportsAreNotCircular == LoadSpec => []CircularImportsRefused
<1>1. LoadInit => ImportInv
  BY ImportInit
<1>2. ImportInv /\ [LoadNext]_loadVars => ImportInv'
  BY ImportStep
<1>3. ImportInv => CircularImportsRefused
  BY DEF ImportInv, CircularImportsRefused
<1>4. QED
  BY <1>1, <1>2, <1>3, PTL DEF LoadSpec

(***************************************************************************)
(* Superclasses                                                            *)
(***************************************************************************)

\* The calls of analyseSuperType are for different classes, which are not analysed yet; only
\* the last one may not have looked at its superclass, and those that wait for their
\* superclass are followed by the call for it.
Nested(calls, begun, done) ==
    /\ \A i, j \in 1..Len(calls) : calls[i].class = calls[j].class => i = j
    /\ \A i \in 1..Len(calls) :
           /\ calls[i].class \in begun \ done
           /\ i # Len(calls) => /\ calls[i].at # "superclass"
                                /\ calls[i].at = "offset" => superclass[calls[i].class] = calls[i + 1].class

\* The classes that wait for their superclass, and those whose offset is known.
Waits(calls, k) == \E i \in 1..Len(calls) : calls[i].class = k /\ calls[i].at = "offset"
PlacedBy(calls, begun, k) ==
    k \in begun /\ \A i \in 1..Len(calls) : calls[i].class = k => calls[i].at \in {"argument", "type"}

\* The analysis of the superclass of a class leads to the classes that are analysed for it.
Led(calls) ==
    \A i, j \in 1..Len(calls) :
        i < j /\ calls[i].at = "offset" => Leads(superclass[calls[i].class], calls[j].class)

CallsAreNested ==
    /\ analyses # <<>> => loading # <<>> /\ progress[Last(loading)] = "supertypes"
    /\ Nested(analyses, started, analysed)
    /\ Led(analyses)
    /\ outcome # "circularInheritance" => \A k \in Classes : k \in analysing <=> Waits(analyses, k)

\* Classes are analysed once they and their superclasses are declared.
AnalysedAreDeclared ==
    /\ \A p \in Packages : progress[p] \in {"absent", "parsing", "supertypes"} => classes[p] \in Seq(exportedTypes[p])
    /\ started \subseteq Declared
    /\ \A k \in started :
           /\ superclass[k] \in Classes
           /\ \/ superclass[k] \in Declared
              \/ \E i \in 1..Len(analyses) : analyses[i] = [class |-> k, at |-> "superclass"]

\* Classes whose offset is known follow their superclasses, and there is no cycle of them.
Placed == {k \in started : PlacedBy(analyses, started, k)}
Follows(k) == superclass[k] \in Placed \/ superclass[superclass[k]] = NoClass
PlacedInOrder ==
    /\ \A k \in Placed : /\ Follows(k)
                         /\ offset[k] = offset[superclass[k]] + GenericCount[superclass[k]]
    /\ ~Cyclic(Placed, Superclasses)
    /\ analyses # <<>> /\ Last(analyses).at = "offset" => Follows(Last(analyses).class)

RefusedForReason ==
    outcome = "circularInheritance" =>
        \E k, x \in Classes : superclass[x] = k /\ Leads(superclass[k], x)

ClassInv ==
    /\ ImportInv
    /\ ClassTypes /\ CallsAreNested /\ AnalysedAreDeclared /\ PlacedInOrder /\ RefusedForReason

\* A class leads to itself, and to what any class that it leads to mentions.
LEMMA LeadsToItself ==
    ASSUME NEW k \in Classes
    PROVE  Leads(k, k)
  BY ClassesAssumption DEF Leads

\* What leads to a class leads to its superclass and its generic argument.
LEMMA LeadsFurther ==
    ASSUME NEW k, NEW x \in Classes, NEW y, Leads(k, x), y \in {superclass[x], argument[x]}, y # NoClass
    PROVE  Leads(k, y)
<1>1. y \in Mentioned[x]
  BY DEF Mentioned
<1>2. QED
  BY <1>1 DEF Leads

\* The last call goes on.
LEMMA ReachedFacts ==
    ASSUME NEW calls \in Seq(Call), calls # <<>>, NEW place \in Places
    PROVE  LET n == Len(calls)
               later == [calls EXCEPT ![n].at = place]
           IN  /\ n \in Nat \ {0}
               /\ later \in Seq(Call)
               /\ Len(later) = n
               /\ \A i \in 1..n : later[i].class = calls[i].class
               /\ \A i \in 1..n : i # n => later[i] = calls[i]
               /\ later[n].at = place
<1> DEFINE n == Len(calls)
           e == [calls[n] EXCEPT !.at = place]
           later == [calls EXCEPT ![n].at = place]
<1>1. n \in Nat \ {0} /\ n \in 1..n /\ calls[n] \in Call
  BY EmptySeq, LenProperties
<1>2. e \in Call /\ e.class = calls[n].class /\ e.at = place
  BY <1>1 DEF Call
<1>3. /\ later \in Seq(Call)
      /\ Len(later) = Len(calls)
      /\ \A j \in 1 .. Len(calls) : later[j] = IF j = n THEN e ELSE calls[j]
  BY <1>1, <1>2, ExceptSeq
<1> HIDE DEF e, later
<1>4. /\ \A i \in 1..n : later[i].class = calls[i].class
      /\ \A i \in 1..n : i # n => later[i] = calls[i]
      /\ later[n].at = place
  BY <1>1, <1>2, <1>3
<1>5. QED
  BY <1>1, <1>3, <1>4 DEF later

\* The calls are nested as before, if the last one still is not at its superclass.
LEMMA ReachedNested ==
    ASSUME NEW calls \in Seq(Call), calls # <<>>, NEW place \in Places,
           NEW begun, NEW done, Nested(calls, begun, done), Led(calls)
    PROVE  LET later == [calls EXCEPT ![Len(calls)].at = place]
           IN  Nested(later, begun, done) /\ Led(later)
<1> DEFINE n == Len(calls)
           later == [calls EXCEPT ![n].at = place]
<1>1. /\ n \in Nat \ {0}
      /\ Len(later) = n
      /\ \A i \in 1..n : later[i].class = calls[i].class
      /\ \A i \in 1..n : i # n => later[i] = calls[i]
  BY ReachedFacts
<1>2. \A i \in 1..n : i # n => i + 1 \in 1..n
  BY <1>1
<1>3. \A i, j \in 1..n : i < j => i # n
  BY <1>1
<1> HIDE DEF later
<1>4. Nested(later, begun, done)
  BY <1>1, <1>2 DEF Nested
<1>5. Led(later)
  BY <1>1, <1>3 DEF Led
<1>6. QED
  BY <1>4, <1>5 DEF later

\* What a call for the class k that is made while others wait leaves as it is, and adds.
Pushed(more, calls, begun, done, k) ==
    /\ more \in Seq(Call) /\ more # <<>>
    /\ Len(more) \in Nat \ {0} /\ more[Len(more)] = [class |-> k, at |-> "superclass"]
    /\ Len(more) \in 1..Len(more)
    /\ Nested(more, begun \cup {k}, done) /\ Led(more)
    /\ \A x : Waits(more, x) <=> Waits(calls, x)
    /\ \A x : PlacedBy(more, begun \cup {k}, x) <=> PlacedBy(calls, begun, x)

\* Another call is made for the class k, which the last one waits for or mentions.
LEMMA PushedFacts ==
    ASSUME NEW calls \in Seq(Call), NEW begun, NEW done, Nested(calls, begun, done), Led(calls),
           done \subseteq begun, NEW k \in Classes \ begun, superclass[k] # NoClass,
           calls # <<>> => /\ calls[Len(calls)].at \in {"offset", "type"}
                           /\ k \in {superclass[calls[Len(calls)].class], argument[calls[Len(calls)].class]}
                           /\ calls[Len(calls)].at = "offset" => superclass[calls[Len(calls)].class] = k
    PROVE  Pushed(Append(calls, [class |-> k, at |-> "superclass"]), calls, begun, done, k)
<1> DEFINE n == Len(calls)
           e == [class |-> k, at |-> "superclass"]
           more == Append(calls, e)
<1>1. e \in Call /\ e.class = k /\ e.at = "superclass"
  BY DEF Call, Places
<1>2. /\ n \in Nat /\ more \in Seq(Call) /\ Len(more) = n + 1
      /\ \A i \in 1..n : more[i] = calls[i]
      /\ more[n + 1] = e
  BY <1>1, AppendFacts
<1>3. /\ \A i \in 1..(n + 1) : i = n + 1 \/ i \in 1..n
      /\ \A i \in 1..n : i \in 1..(n + 1) /\ i # n + 1 /\ i + 1 \in 1..(n + 1)
      /\ \A i \in 1..n : i # n => i + 1 \in 1..n
      /\ n + 1 \in 1..(n + 1) /\ n + 1 \in Nat \ {0}
      /\ \A i, j \in 1..(n + 1) : i < j => i \in 1..n
      /\ \A i \in 1..n : n # 0 /\ n \in 1..n
      /\ \A i \in 1..n : i # n => i < n
  BY <1>2
<1>4. \A i \in 1..n : calls[i] \in Call /\ calls[i].class \in Classes /\ calls[i].class # k /\ calls # <<>>
  <2>1. \A i \in 1..n : calls[i] \in Call
    BY ElementOfSeq
  <2>2. \A i \in 1..n : calls[i].class \in begun
    BY DEF Nested
  <2>3. calls = <<>> => 1..n = {}
    BY EmptySeq
  <2>4. \A c \in Call : c.class \in Classes
    BY DEF Call
  <2>5. QED
    BY <2>1, <2>2, <2>3, <2>4
<1> HIDE DEF n, e
<1>5. /\ \A i \in 1..n : more[i] = calls[i]
      /\ more[n + 1] = e /\ Len(more) = n + 1 /\ more \in Seq(Call)
  BY <1>2
<1> HIDE DEF more
<1>6. Nested(more, begun \cup {k}, done)
  <2>1. \A i, j \in 1..Len(more) : more[i].class = more[j].class => i = j
    BY <1>1, <1>3, <1>4, <1>5 DEF Nested, n
  <2>2. ASSUME NEW i \in 1..Len(more)
        PROVE  /\ more[i].class \in (begun \cup {k}) \ done
               /\ i # Len(more) => /\ more[i].at # "superclass"
                                   /\ more[i].at = "offset" => superclass[more[i].class] = more[i + 1].class
    <3>1. CASE i = n + 1
      BY <1>1, <1>5, <3>1
    <3>2. CASE i \in 1..n
      <4>1. more[i] = calls[i] /\ calls[i].class \in begun \ done
        BY <1>5, <3>2 DEF Nested, n
      <4>2. CASE i = n
        BY <1>1, <1>4, <1>5, <3>2, <4>1, <4>2 DEF n
      <4>3. CASE i # n
        <5>1. more[i + 1] = calls[i + 1]
          BY <1>3, <1>5, <3>2, <4>3
        <5>2. QED
          BY <3>2, <4>1, <4>3, <5>1 DEF Nested, n
      <4>4. QED
        BY <4>2, <4>3
    <3>3. QED
      BY <1>3, <1>5, <3>1, <3>2
  <2>3. QED
    BY <2>1, <2>2 DEF Nested
<1>7. Led(more)
  <2> SUFFICES ASSUME NEW i \in 1..(n + 1), NEW j \in 1..(n + 1), i < j, more[i].at = "offset"
               PROVE  Leads(superclass[more[i].class], more[j].class)
    BY <1>5 DEF Led
  <2>1. i \in 1..n /\ more[i] = calls[i] /\ n \in 1..n /\ calls # <<>>
    BY <1>3, <1>4, <1>5
  <2>2. CASE j \in 1..n
    BY <1>5, <2>1, <2>2 DEF Led, n
  <2>3. CASE j = n + 1
    <3>1. more[j].class = k
      BY <1>1, <1>5, <2>3
    <3>2. CASE i = n
      <4>1. superclass[more[i].class] = k
        BY <2>1, <3>2 DEF n
      <4>2. QED
        BY <3>1, <4>1, LeadsToItself
    <3>3. CASE i # n
      <4>1. i < n
        BY <1>3, <2>1, <3>3
      <4>2. Leads(superclass[calls[i].class], calls[n].class)
        BY <2>1, <4>1 DEF Led, n
      <4>3. k \in {superclass[calls[n].class], argument[calls[n].class]} /\ k # NoClass
        BY <2>1, ClassesAssumption DEF n
      <4>4. QED
        BY <1>4, <2>1, <3>1, <4>2, <4>3, LeadsFurther
    <3>4. QED
      BY <3>2, <3>3
  <2>4. QED
    BY <1>3, <2>2, <2>3
<1>8. \A x : Waits(more, x) <=> Waits(calls, x)
  BY <1>1, <1>3, <1>5 DEF Waits, n
<1>9. ASSUME NEW x
      PROVE  PlacedBy(more, begun \cup {k}, x) <=> PlacedBy(calls, begun, x)
  <2>1. CASE x = k
    BY <1>1, <1>3, <1>5, <2>1 DEF PlacedBy, n
  <2>2. CASE x # k
    BY <1>1, <1>3, <1>5, <2>2 DEF PlacedBy, n
  <2>3. QED
    BY <2>1, <2>2
<1>10. more # <<>> /\ Len(more) \in Nat \ {0} /\ Len(more) \in 1..Len(more)
  BY <1>3, <1>5, EmptySeq
<1>11. more[Len(more)] = e
  BY <1>5
<1>12. Pushed(more, calls, begun, done, k)
  BY <1>5, <1>6, <1>7, <1>8, <1>9, <1>10, <1>11 DEF Pushed, e
<1>13. QED
  BY <1>12 DEF more, e

\* The last call, which analysed its class, returns.
LEMMA PoppedFacts ==
    ASSUME NEW calls \in Seq(Call), calls # <<>>, NEW begun, NEW done, Nested(calls, begun, done), Led(calls),
           calls[Len(calls)].at = "type"
    PROVE  LET n == Len(calls)
               k == calls[n].class
               rest == Front(calls)
           IN  /\ rest \in Seq(Call) /\ Len(rest) = n - 1 /\ n \in Nat \ {0}
               /\ k \in begun \cap Classes /\ k \notin done
               /\ Nested(rest, begun, done \cup {k}) /\ Led(rest)
               /\ \A x : Waits(rest, x) <=> Waits(calls, x)
               /\ \A x : PlacedBy(rest, begun, x) <=> PlacedBy(calls, begun, x)
               /\ PlacedBy(calls, begun, k)
               /\ \A i \in 1..(n - 1) : rest[i] = calls[i]
               /\ rest # <<>> /\ rest[n - 1].at = "offset" => superclass[rest[n - 1].class] = k
               /\ \A i \in 1..n : i = n \/ i \in 1..(n - 1)
<1> DEFINE n == Len(calls)
           k == calls[n].class
           rest == Front(calls)
<1>1. /\ n \in Nat \ {0} /\ rest \in Seq(Call) /\ Len(rest) = n - 1
      /\ \A i \in 1..(n - 1) : rest[i] = calls[i]
  BY FrontFacts
<1>2. /\ n \in 1..n
      /\ \A i \in 1..n : i = n \/ i \in 1..(n - 1)
      /\ \A i \in 1..(n - 1) : i \in 1..n /\ i # n
      /\ \A i \in 1..(n - 1) : i # n - 1 => i + 1 \in 1..(n - 1)
  BY <1>1
<1>3. calls[n] \in Call /\ k \in Classes
  <2>1. calls[n] \in Call
    BY <1>2, ElementOfSeq
  <2>2. QED
    BY <2>1 DEF Call
<1>4. k \in begun /\ k \notin done /\ \A i \in 1..n : calls[i].class = k => i = n
  BY <1>2 DEF Nested
<1> HIDE DEF n, rest
<1>5. Nested(rest, begun, done \cup {k})
  <2>1. \A i, j \in 1..Len(rest) : rest[i].class = rest[j].class => i = j
    BY <1>1, <1>2 DEF Nested, n
  <2>2. \A i \in 1..Len(rest) :
            /\ rest[i].class \in begun \ (done \cup {k})
            /\ i # Len(rest) => /\ rest[i].at # "superclass"
                                /\ rest[i].at = "offset" => superclass[rest[i].class] = rest[i + 1].class
    BY <1>1, <1>2, <1>4 DEF Nested, n
  <2>3. QED
    BY <2>1, <2>2 DEF Nested
<1>6. Led(rest)
  BY <1>1, <1>2 DEF Led, n
<1>7. \A x : Waits(rest, x) <=> Waits(calls, x)
  BY <1>1, <1>2 DEF Waits, n
<1>8. \A x : PlacedBy(rest, begun, x) <=> PlacedBy(calls, begun, x)
  BY <1>1, <1>2 DEF PlacedBy, n
<1>9. PlacedBy(calls, begun, k)
  BY <1>4 DEF PlacedBy, n
<1>10. ASSUME rest # <<>>, rest[n - 1].at = "offset"
       PROVE  superclass[rest[n - 1].class] = k
  <2>1. Len(rest) # 0
    BY <1>1, <1>10, EmptySeq
  <2>2. n - 1 \in 1..(n - 1) /\ n - 1 + 1 = n
    BY <1>1, <2>1
  <2>3. n - 1 \in 1..n /\ n - 1 # n /\ rest[n - 1] = calls[n - 1]
    BY <1>1, <1>2, <2>2
  <2>4. superclass[calls[n - 1].class] = calls[n - 1 + 1].class
    BY <1>10, <2>3 DEF Nested, n
  <2>5. QED
    BY <2>2, <2>3, <2>4
<1>11. QED
  BY <1>1, <1>2, <1>3, <1>4, <1>5, <1>6, <1>7, <1>8, <1>9, <1>10 DEF n, rest

\* Whether there is a cycle depends on what its nodes lead to.
LEMMA CyclicSame ==
    ASSUME NEW nodes, NEW next, NEW next2, \A x \in nodes : next[x] = next2[x], ~Cyclic(nodes, next)
    PROVE  ~Cyclic(nodes, next2)
<1> SUFFICES ASSUME NEW s \in SUBSET nodes, s # {}, \A x \in s : next2[x] \cap s # {}
             PROVE  FALSE
  BY CyclicNodes
<1>1. \A x \in s : next[x] \cap s # {}
  OBVIOUS
<1>2. QED
  BY <1>1, CyclicNodes

\* A class that follows its superclass closes no cycle.
LEMMA PlacedNext ==
    ASSUME ClassTypes, NEW P \in SUBSET Classes, NEW c \in Classes, c \notin P, ~Cyclic(P, Superclasses),
           \A x \in P \cup {c} : superclass[x] \in P \/ superclass[superclass[x]] = NoClass
    PROVE  ~Cyclic(P \cup {c}, Superclasses)
<1> SUFFICES ASSUME NEW s \in SUBSET (P \cup {c}), s # {}, \A x \in s : Superclasses[x] \cap s # {}
             PROVE  FALSE
  BY CyclicNodes
<1>1. \A x \in s : x \in Classes /\ superclass[x] \in s
  BY DEF Superclasses
<1>2. \A x \in s : superclass[superclass[x]] # NoClass
  BY <1>1, ClassesAssumption
<1>3. \A x \in s : superclass[x] \in P
  BY <1>2
<1>4. \A x \in s \ {c} : Superclasses[x] \cap (s \ {c}) # {}
  <2>1. ASSUME NEW x \in s \ {c}
        PROVE  superclass[x] \in Superclasses[x] \cap (s \ {c})
    BY <1>1, <1>3, ClassesAssumption DEF Superclasses
  <2>2. QED
    BY <2>1
<1>5. s \ {c} # {} /\ s \ {c} \in SUBSET P
  BY <1>1, <1>3
<1>6. QED
  BY <1>4, <1>5, CyclicNodes

\* The last call, and what was looked up for it.
LEMMA LastCall ==
    ASSUME ClassInv, NEW p \in Packages, NEW place \in Places, At(p, place)
    PROVE  /\ analyses # <<>> /\ analyses \in Seq(Call)
           /\ Len(analyses) \in Nat \ {0} /\ Len(analyses) \in 1..Len(analyses)
           /\ analyses[Len(analyses)] = [class |-> Current, at |-> place]
           /\ Current \in started /\ Current \notin analysed /\ Current \in Classes
           /\ superclass[Current] \in Classes /\ superclass[Current] # NoClass
           /\ \A i \in 1..Len(analyses) : analyses[i].class = Current => i = Len(analyses)
           /\ outcome = "running" /\ loading # <<>> /\ progress[Last(loading)] = "supertypes"
           /\ Last(loading) = p /\ p \in Packages
<1>1. /\ analyses # <<>> /\ Last(analyses).at = place
      /\ outcome = "running" /\ loading # <<>> /\ progress[Last(loading)] = "supertypes"
      /\ Last(loading) = p
  BY DEF At, AnalysingSuperTypes, Loading
<1>2. analyses \in Seq(Call)
  BY DEF ClassInv, ClassTypes
<1>3. Len(analyses) \in Nat \ {0} /\ Len(analyses) \in 1..Len(analyses)
  BY <1>1, <1>2, EmptySeq, LenProperties
<1>4. analyses[Len(analyses)] \in Call
  BY <1>2, <1>3, ElementOfSeq
<1>5. analyses[Len(analyses)] = [class |-> Current, at |-> place] /\ Current \in Classes
  BY <1>1, <1>4 DEF Current, Last, Call
<1>6. /\ Current \in started /\ Current \notin analysed
      /\ \A i \in 1..Len(analyses) : analyses[i].class = Current => i = Len(analyses)
  BY <1>3, <1>5 DEF ClassInv, CallsAreNested, Nested
<1>7. superclass[Current] \in Classes /\ superclass[Current] # NoClass
  BY <1>6, ClassesAssumption DEF ClassInv, AnalysedAreDeclared
<1>8. QED
  BY <1>1, <1>2, <1>3, <1>5, <1>6, <1>7

\* If no class is placed and nothing is declared, the placed classes stay in order.
LEMMA PlacedAsBefore ==
    ASSUME PlacedInOrder, Placed' = Placed, UNCHANGED <<superclass, offset>>,
           analyses' # <<>> /\ Last(analyses').at = "offset" =>
               \/ superclass[Last(analyses').class] \in Placed
               \/ superclass[superclass[Last(analyses').class]] = NoClass
    PROVE  PlacedInOrder'
<1>1. Superclasses' = Superclasses
  BY DEF Superclasses
<1>2. ~Cyclic(Placed, Superclasses)'
  BY <1>1 DEF PlacedInOrder, Cyclic
<1>3. \A k : Follows(k)' <=> Follows(k)
  BY DEF Follows
<1>4. (analyses # <<>> /\ Last(analyses).at = "offset" => Follows(Last(analyses).class))'
  BY DEF Follows
<1>5. QED
  BY <1>2, <1>3, <1>4 DEF PlacedInOrder

\* A step outside of the analysis of superclasses.
LEMMA NothingAnalysed ==
    ASSUME ClassInv, ImportInv', UNCHANGED <<exportedTypes, superclass, argument, superTypeVars>>,
           classes' = [p \in Packages |-> classes'[p]], position' \in Nat,
           outcome' = "circularInheritance" <=> outcome = "circularInheritance",
           \A p \in Packages : progress'[p] \in {"absent", "parsing", "supertypes"} =>
               classes'[p] = classes[p] /\ progress[p] \in {"absent", "parsing", "supertypes"},
           analyses # <<>> => loading' # <<>> /\ progress'[Last(loading')] = "supertypes"
    PROVE  ClassInv'
<1>1. UNCHANGED <<analyses, started, analysing, analysed, offset>>
  BY DEF superTypeVars
<1>2. ClassTypes'
  BY <1>1 DEF ClassInv, ClassTypes
<1>3. /\ \A k, x : Leads(k, x)' <=> Leads(k, x)
      /\ Placed' = Placed /\ Declared' = Declared
      /\ Nested(analyses, started, analysed)' <=> Nested(analyses, started, analysed)
      /\ \A k : Waits(analyses, k)' <=> Waits(analyses, k)
  BY <1>1 DEF Leads, Mentioned, Placed, PlacedBy, Declared, Nested, Waits
<1>4. Led(analyses)' <=> Led(analyses)
  BY <1>1, <1>3 DEF Led
<1>5. CallsAreNested'
  BY <1>1, <1>3, <1>4 DEF ClassInv, CallsAreNested
<1>6. AnalysedAreDeclared'
  BY <1>1, <1>3 DEF ClassInv, AnalysedAreDeclared
<1>7. PlacedInOrder'
  <2>1. analyses' # <<>> /\ Last(analyses').at = "offset" =>
               \/ superclass[Last(analyses').class] \in Placed
               \/ superclass[superclass[Last(analyses').class]] = NoClass
    BY <1>1 DEF ClassInv, PlacedInOrder, Follows
  <2>2. QED
    BY <1>1, <1>3, <2>1, PlacedAsBefore DEF ClassInv
<1>8. RefusedForReason'
  BY <1>3 DEF ClassInv, RefusedForReason
<1>9. QED
  BY <1>2, <1>5, <1>6, <1>7, <1>8 DEF ClassInv

\* The calls that wait when analyseSuperType is called for a class.
Pending(calls, busy) ==
    /\ calls \in Seq(Call)
    /\ Nested(calls, started, analysed) /\ Led(calls)
    /\ \A x : PlacedBy(calls, started, x) <=> PlacedBy(analyses, started, x)
    /\ busy \subseteq Classes
    /\ \A x \in Classes : x \in busy <=> Waits(calls, x)
    /\ \A x \in started : superclass[x] \in Declared

Analysing == outcome = "running" /\ loading # <<>> /\ progress[Last(loading)] = "supertypes"

\* What depends on the declarations is as before.
LEMMA SameDeclarations ==
    ASSUME UNCHANGED <<exportedTypes, superclass, argument>>
    PROVE  /\ \A k, x : Leads(k, x)' <=> Leads(k, x)
           /\ Superclasses' = Superclasses
           /\ Declared' = Declared
           /\ \A calls, begun, done : Nested(calls, begun, done)' <=> Nested(calls, begun, done)
           /\ \A calls : Led(calls)' <=> Led(calls)
<1>1. \A k, x : Leads(k, x)' <=> Leads(k, x)
  BY DEF Leads, Mentioned
<1>2. \A calls : Led(calls)' <=> Led(calls)
  BY <1>1 DEF Led
<1>3. \A calls, begun, done : Nested(calls, begun, done)' <=> Nested(calls, begun, done)
  BY DEF Nested
<1>4. QED
  BY <1>1, <1>2, <1>3 DEF Superclasses, Declared

\* analyseSuperType returns at once.
LEMMA CallReturns ==
    ASSUME ClassInv, ImportInv', Analysing, NEW calls \in Seq(Call), Pending(calls, analysing'),
           UNCHANGED <<packageVars, classes, declarationVars, analysed, offset>>, position' \in Nat,
           analyses' = calls, started' = started, outcome' = outcome,
           calls # <<>> /\ Last(calls).at = "offset" => Follows(Last(calls).class)
    PROVE  ClassInv'
<1>1. /\ UNCHANGED <<loading, progress, exportedTypes, superclass, argument>>
      /\ outcome' = "running" /\ outcome = "running"
  BY DEF packageVars, declarationVars, Analysing
<1>2. ClassTypes'
  BY <1>1 DEF ClassInv, ClassTypes, Pending
<1>3. CallsAreNested'
  <2>1. Nested(calls, started, analysed)' /\ Led(calls)'
    BY <1>1, SameDeclarations DEF Pending, Nested
  <2>2. \A x : Waits(calls, x)' <=> Waits(calls, x)
    BY DEF Waits
  <2>3. QED
    BY <1>1, <2>1, <2>2 DEF CallsAreNested, Pending, Analysing
<1>4. AnalysedAreDeclared'
  BY <1>1, SameDeclarations DEF AnalysedAreDeclared, Pending, ClassInv
<1>5. PlacedInOrder'
  <2>1. Placed' = Placed
    BY DEF Placed, PlacedBy, Pending
  <2>2. QED
    BY <1>1, <2>1, PlacedAsBefore DEF ClassInv, Follows
<1>6. RefusedForReason'
  BY <1>1 DEF RefusedForReason
<1>7. QED
  BY <1>2, <1>3, <1>4, <1>5, <1>6 DEF ClassInv

\* A call is made while others wait.
LEMMA PendingPushed ==
    ASSUME NEW calls \in Seq(Call), NEW busy, Pending(calls, busy), analysed \subseteq started,
           NEW k \in Classes, k \notin started, superclass[k] # NoClass,
           calls # <<>> => /\ calls[Len(calls)].at \in {"offset", "type"}
                           /\ k \in {superclass[calls[Len(calls)].class], argument[calls[Len(calls)].class]}
                           /\ calls[Len(calls)].at = "offset" => superclass[calls[Len(calls)].class] = k
    PROVE  Pushed(Append(calls, [class |-> k, at |-> "superclass"]), calls, started, analysed, k)
<1>1. Nested(calls, started, analysed) /\ Led(calls) /\ k \in Classes \ started
  BY DEF Pending
<1>2. QED
  BY <1>1, PushedFacts

\* analyseSuperType begins to analyse the class.
LEMMA CallBegins ==
    ASSUME ClassInv, ImportInv', Analysing, NEW calls \in Seq(Call), Pending(calls, analysing'),
           UNCHANGED <<packageVars, classes, declarationVars, analysed, offset>>, position' \in Nat,
           NEW k \in Declared, k \notin started, superclass[k] # NoClass,
           calls # <<>> => /\ calls[Len(calls)].at \in {"offset", "type"}
                           /\ k \in {superclass[calls[Len(calls)].class], argument[calls[Len(calls)].class]}
                           /\ calls[Len(calls)].at = "offset" => superclass[calls[Len(calls)].class] = k,
           analyses' = Append(calls, [class |-> k, at |-> "superclass"]), started' = started \cup {k},
           outcome' = outcome
    PROVE  ClassInv'
<1> DEFINE more == Append(calls, [class |-> k, at |-> "superclass"])
<1>1. /\ UNCHANGED <<loading, progress, exportedTypes, superclass, argument>>
      /\ outcome' = "running" /\ outcome = "running"
  BY DEF packageVars, declarationVars, Analysing
<1>2. k \in Classes /\ k \in Classes \ started /\ analysed \subseteq started
  BY DEF Declared, ClassInv, ClassTypes
<1>3. /\ more \in Seq(Call) /\ more # <<>>
      /\ Len(more) \in Nat \ {0} /\ more[Len(more)] = [class |-> k, at |-> "superclass"]
      /\ Len(more) \in 1..Len(more)
      /\ Nested(more, started \cup {k}, analysed) /\ Led(more)
      /\ \A x : Waits(more, x) <=> Waits(calls, x)
      /\ \A x : PlacedBy(more, started \cup {k}, x) <=> PlacedBy(calls, started, x)
  <2>1. Pushed(more, calls, started, analysed, k)
    BY <1>2, PendingPushed
  <2>2. QED
    BY <2>1 DEF Pushed
<1>4. analyses' = more
  OBVIOUS
<1> HIDE DEF more
<1>5. ClassTypes'
  BY <1>1, <1>2, <1>3, <1>4 DEF ClassInv, ClassTypes, Pending
<1>6. CallsAreNested'
  <2>1. Nested(analyses, started, analysed)' /\ Led(analyses)'
    <3>1. Nested(more, started', analysed') /\ analyses' = more
      BY <1>3, <1>4
    <3>2. Nested(analyses, started, analysed)'
      BY <1>1, <3>1 DEF Nested
    <3>3. \A x, y : Leads(x, y)' <=> Leads(x, y)
      BY <1>1 DEF Leads, Mentioned
    <3>4. Led(analyses)'
      BY <1>1, <1>3, <1>4, <3>3 DEF Led
    <3>5. QED
      BY <3>2, <3>4
  <2>2. \A x : Waits(analyses, x)' <=> Waits(more, x)
    BY <1>4 DEF Waits
  <2>3. QED
    BY <1>1, <1>3, <2>1, <2>2 DEF CallsAreNested, Pending, Analysing
<1>7. AnalysedAreDeclared'
  <2>1. superclass[k] \in Classes
    BY <1>2 DEF ClassInv, ClassTypes
  <2>2. \A x \in started : superclass[x] \in Classes
    BY DEF ClassInv, AnalysedAreDeclared
  <2>3. QED
    BY <1>1, <1>3, <1>4, <2>1, <2>2, SameDeclarations DEF AnalysedAreDeclared, Pending, ClassInv
<1>8. PlacedInOrder'
  <2>1. \A x : PlacedBy(analyses, started, x)' <=> PlacedBy(analyses, started, x)
    <3>1. \A x : PlacedBy(analyses, started, x)' <=> PlacedBy(more, started', x)
      BY <1>4 DEF PlacedBy
    <3>2. \A x : PlacedBy(calls, started, x) <=> PlacedBy(analyses, started, x)
      BY DEF Pending
    <3>3. QED
      BY <1>3, <3>1, <3>2
  <2>2. Placed' = Placed
    BY <2>1 DEF Placed, PlacedBy
  <2>3. (Last(analyses).at # "offset")'
    BY <1>3, <1>4 DEF Last
  <2>4. QED
    BY <1>1, <2>2, <2>3, PlacedAsBefore DEF ClassInv
<1>9. RefusedForReason'
  BY <1>1 DEF RefusedForReason
<1>10. QED
  BY <1>5, <1>6, <1>7, <1>8, <1>9 DEF ClassInv

\* analyseSuperType refuses the class.
LEMMA CallRefuses ==
    ASSUME ClassInv, ImportInv', Analysing, analysing' \subseteq Classes,
           UNCHANGED <<packageVars, classes, declarationVars, analysed, offset>>, position' \in Nat,
           UNCHANGED <<analyses, started>>, outcome' = "circularInheritance",
           NEW k \in Classes, NEW x \in Classes, superclass[x] = k, Leads(superclass[k], x)
    PROVE  ClassInv'
<1>1. UNCHANGED <<loading, progress, exportedTypes, superclass, argument>>
  BY DEF packageVars, declarationVars
<1>2. ClassTypes'
  BY <1>1 DEF ClassInv, ClassTypes
<1>3. CallsAreNested'
  <2>1. Nested(analyses, started, analysed)' <=> Nested(analyses, started, analysed)
    BY <1>1 DEF Nested
  <2>2. Led(analyses)' <=> Led(analyses)
    BY <1>1 DEF Led, Leads, Mentioned
  <2>3. \A c : Waits(analyses, c)' <=> Waits(analyses, c)
    BY DEF Waits
  <2>4. QED
    BY <1>1, <2>1, <2>2, <2>3 DEF CallsAreNested, ClassInv
<1>4. AnalysedAreDeclared'
  BY <1>1, SameDeclarations DEF AnalysedAreDeclared, ClassInv
<1>5. PlacedInOrder'
  <2>1. Placed' = Placed
    BY DEF Placed, PlacedBy
  <2>2. QED
    BY <1>1, <2>1, PlacedAsBefore DEF ClassInv, PlacedInOrder, Follows
<1>6. RefusedForReason'
  BY <1>1, SameDeclarations DEF RefusedForReason
<1>7. QED
  BY <1>2, <1>3, <1>4, <1>5, <1>6 DEF ClassInv

\* The last call goes on: what the calls wait for and what is placed changes for its class only.
LEMMA ReachedCalls ==
    ASSUME ClassInv, NEW p \in Packages, NEW place \in Places, At(p, place), NEW next \in Places
    PROVE  /\ Reached(next) \in Seq(Call) /\ Reached(next) # <<>>
           /\ Len(Reached(next)) = Len(analyses)
           /\ Reached(next)[Len(analyses)] = [class |-> Current, at |-> next]
           /\ Nested(Reached(next), started, analysed) /\ Led(Reached(next))
           /\ \A x : x # Current => /\ Waits(Reached(next), x) <=> Waits(analyses, x)
                                    /\ PlacedBy(Reached(next), started, x) <=> PlacedBy(analyses, started, x)
           /\ Waits(Reached(next), Current) <=> next = "offset"
           /\ Waits(analyses, Current) <=> place = "offset"
           /\ PlacedBy(Reached(next), started, Current) <=> next \in {"argument", "type"}
           /\ PlacedBy(analyses, started, Current) <=> place \in {"argument", "type"}
           /\ \A x \in started : superclass[x] \in Declared \/ (x = Current /\ place = "superclass")
<1> DEFINE n == Len(analyses)
           later == Reached(next)
<1>1. /\ analyses # <<>> /\ analyses \in Seq(Call)
      /\ n \in Nat \ {0} /\ n \in 1..n
      /\ analyses[n] = [class |-> Current, at |-> place]
      /\ Current \in started
      /\ \A i \in 1..n : analyses[i].class = Current => i = n
  BY LastCall
<1>2. Nested(analyses, started, analysed) /\ Led(analyses)
  BY DEF ClassInv, CallsAreNested
<1>3. /\ later \in Seq(Call)
      /\ Len(later) = n
      /\ \A i \in 1..n : later[i].class = analyses[i].class
      /\ \A i \in 1..n : i # n => later[i] = analyses[i]
      /\ later[n].at = next
  BY <1>1, ReachedFacts DEF Reached
<1>4. Nested(later, started, analysed) /\ Led(later)
  BY <1>1, <1>2, ReachedNested DEF Reached
<1>5. later[n] = [class |-> Current, at |-> next]
  <2>1. later[n] \in Call /\ later[n].class = Current
    BY <1>1, <1>3, ElementOfSeq
  <2>2. QED
    BY <1>3, <2>1 DEF Call
<1>6. later # <<>>
  BY <1>1, <1>3, EmptySeq
<1> HIDE DEF later
<1>7. ASSUME NEW x, x # Current
      PROVE  /\ Waits(later, x) <=> Waits(analyses, x)
             /\ PlacedBy(later, started, x) <=> PlacedBy(analyses, started, x)
  <2>1. \A i \in 1..n : later[i].class = x => i # n
    BY <1>1, <1>3, <1>7
  <2>2. \A i \in 1..n : analyses[i].class = x => i # n
    BY <1>1, <1>7
  <2>3. \A i \in 1..n : i # n => later[i] = analyses[i]
    BY <1>3
  <2>4. Len(later) = n
    BY <1>3
  <2> HIDE DEF n
  <2>5. QED
    BY <2>1, <2>2, <2>3, <2>4 DEF Waits, PlacedBy, n
<1>8. /\ Waits(analyses, Current) <=> place = "offset"
      /\ PlacedBy(analyses, started, Current) <=> place \in {"argument", "type"}
  <2>1. analyses[n].class = Current /\ analyses[n].at = place
    BY <1>1
  <2> HIDE DEF n
  <2>2. QED
    BY <1>1, <2>1 DEF Waits, PlacedBy, n
<1>9. /\ Waits(later, Current) <=> next = "offset"
      /\ PlacedBy(later, started, Current) <=> next \in {"argument", "type"}
  <2>1. later[n].class = Current /\ later[n].at = next
    BY <1>5
  <2>2. \A i \in 1..n : later[i].class = Current => i = n
    BY <1>1, <1>3
  <2> HIDE DEF n
  <2>3. QED
    BY <1>1, <1>3, <2>1, <2>2 DEF Waits, PlacedBy
<1>10. ASSUME NEW x \in started
       PROVE  superclass[x] \in Declared \/ (x = Current /\ place = "superclass")
  <2>1. CASE \E i \in 1..n : analyses[i] = [class |-> x, at |-> "superclass"]
    <3>1. PICK i \in 1..n : analyses[i] = [class |-> x, at |-> "superclass"]
      BY <2>1
    <3>2. i = n
      BY <1>2, <3>1 DEF Nested
    <3>3. QED
      BY <1>1, <3>1, <3>2
  <2>2. CASE superclass[x] \in Declared
    BY <2>2
  <2>3. QED
    BY <2>1, <2>2 DEF ClassInv, AnalysedAreDeclared
<1>11. QED
  BY <1>3, <1>4, <1>5, <1>6, <1>7, <1>8, <1>9, <1>10 DEF later

\* A type that can be named is declared.
LEMMA VisibleDeclared ==
    ASSUME ClassInv, NEW p \in Packages, NEW k, Visible(p, k)
    PROVE  k \in Declared
  BY DEF Visible, Declared, ClassInv, ImportInv, PackageTypes

\* The classes whose superclass was analysed follow it.
LEMMA AnalysedPlaced ==
    ASSUME ClassInv
    PROVE  analysed \subseteq Placed
  BY DEF ClassInv, ClassTypes, CallsAreNested, Nested, Placed, PlacedBy

\* While the last call is at a place, superclasses are being analysed.
LEMMA AtAnalysing ==
    ASSUME NEW p, NEW place, At(p, place)
    PROVE  Analysing /\ outcome # "circularInheritance"
  BY DEF At, AnalysingSuperTypes, Loading, Analysing

\* analyseSuperType asks for the superclass.
LEMMA SuperclassStep ==
    ASSUME ClassInv, ImportInv', NEW p \in Packages, AnalyseSuperclass(p)
    PROVE  ClassInv'
<1> DEFINE k == superclass[Current]
           calls == Reached("offset")
           n == Len(analyses)
<1>1. At(p, "superclass") /\ "superclass" \in Places /\ "offset" \in Places
  BY DEF AnalyseSuperclass, Places
<1>2. /\ n \in Nat \ {0} /\ n \in 1..n /\ analyses \in Seq(Call)
      /\ analyses[n] = [class |-> Current, at |-> "superclass"]
      /\ Current \in started /\ Current \notin analysed /\ Current \in Classes
      /\ k \in Classes /\ k # NoClass
      /\ \A i \in 1..n : analyses[i].class = Current => i = n
  BY <1>1, LastCall
<1>3. /\ calls \in Seq(Call) /\ calls # <<>>
      /\ Len(calls) = n
      /\ calls[n] = [class |-> Current, at |-> "offset"]
      /\ Nested(calls, started, analysed) /\ Led(calls)
      /\ \A x : x # Current => /\ Waits(calls, x) <=> Waits(analyses, x)
                               /\ PlacedBy(calls, started, x) <=> PlacedBy(analyses, started, x)
      /\ Waits(calls, Current) /\ ~Waits(analyses, Current)
      /\ ~PlacedBy(calls, started, Current) /\ ~PlacedBy(analyses, started, Current)
      /\ \A x \in started : superclass[x] \in Declared \/ x = Current
  BY <1>1, ReachedCalls
<1>4. Analysing /\ outcome # "circularInheritance"
  BY <1>1, AtAnalysing
<1>5. k \in Declared
  BY VisibleDeclared DEF AnalyseSuperclass
<1>6. /\ analysing' = analysing \cup {Current} /\ position' = position
      /\ UNCHANGED <<packageVars, classes, declarationVars, analysed, offset>>
      /\ AnalyseSuperType(k, calls, analysing')
  BY DEF AnalyseSuperclass
<1>7. position' \in Nat /\ analysing' \subseteq Classes /\ analysed \subseteq started
  BY <1>2, <1>6 DEF ClassInv, ClassTypes
<1>8. \A x \in Classes : x \in analysing <=> Waits(analyses, x)
  BY <1>4 DEF ClassInv, CallsAreNested
<1> HIDE DEF n, calls, k
<1>9. Pending(calls, analysing')
  BY <1>2, <1>3, <1>5, <1>6, <1>7, <1>8 DEF Pending, k
<1>10. Last(calls) = [class |-> Current, at |-> "offset"]
  BY <1>3 DEF Last
<1>11. ASSUME analyses' = calls, started' = started, outcome' = outcome, Follows(Current)
       PROVE  ClassInv'
  <2>1. Last(calls).class = Current
    BY <1>10
  <2>2. calls # <<>> /\ Last(calls).at = "offset" => Follows(Last(calls).class)
    BY <1>11, <2>1
  <2>3. calls \in Seq(Call)
    BY <1>3
  <2>4. QED
    BY <1>4, <1>6, <1>7, <1>9, <1>11, <2>2, <2>3, CallReturns
<1>12. CASE superclass[k] = NoClass \/ k \in analysed
  <2>1. analyses' = calls /\ started' = started /\ outcome' = outcome
    BY <1>6, <1>12 DEF AnalyseSuperType
  <2>2. Follows(Current)
    BY <1>12, AnalysedPlaced DEF Follows, k
  <2>3. QED
    BY <1>11, <2>1, <2>2
<1>13. CASE ~(superclass[k] = NoClass \/ k \in analysed) /\ k \in analysing'
  <2>1. UNCHANGED <<analyses, started>> /\ outcome' = "circularInheritance"
    BY <1>6, <1>13 DEF AnalyseSuperType, InheritsFromItself, Throw
  <2>2. Leads(superclass[k], Current)
    <3>1. CASE k = Current
      BY <1>2, <3>1, LeadsToItself DEF k
    <3>2. CASE k # Current
      <4>1. PICK i \in 1..n : analyses[i].class = k /\ analyses[i].at = "offset"
        BY <1>2, <1>6, <1>8, <1>13, <3>2 DEF Waits, n
      <4>2. i < n
        BY <1>2, <3>2, <4>1
      <4>3. QED
        BY <1>2, <4>1, <4>2 DEF ClassInv, CallsAreNested, Led, n
    <3>3. QED
      BY <3>1, <3>2
  <2>3. QED
    BY <1>2, <1>4, <1>6, <1>7, <2>1, <2>2, CallRefuses DEF k
<1>14. CASE ~(superclass[k] = NoClass \/ k \in analysed) /\ k \notin analysing' /\ k \in started
  <2>1. analyses' = calls /\ started' = started /\ outcome' = outcome
    BY <1>6, <1>14 DEF AnalyseSuperType, InheritsFromItself
  <2>2. k # Current /\ ~Waits(calls, k)
    BY <1>2, <1>3, <1>6, <1>8, <1>14
  <2>3. PlacedBy(calls, started, k)
    <3>1. ASSUME NEW i \in 1..n, calls[i].class = k
          PROVE  calls[i].at \in {"argument", "type"}
      <4>1. i # n /\ calls[i] \in Call
        BY <1>2, <1>3, <2>2, <3>1, ElementOfSeq
      <4>2. calls[i].at # "superclass" /\ calls[i].at # "offset"
        BY <1>3, <2>2, <3>1, <4>1 DEF Nested, Waits
      <4>3. QED
        BY <4>1, <4>2 DEF Call, Places
    <3>2. QED
      BY <1>3, <1>14, <3>1 DEF PlacedBy
  <2>4. Follows(Current)
    BY <1>3, <1>14, <2>2, <2>3 DEF Follows, Placed, k
  <2>5. QED
    BY <1>11, <2>1, <2>4
<1>15. CASE ~(superclass[k] = NoClass \/ k \in analysed) /\ k \notin analysing' /\ k \notin started
  <2>1. /\ analyses' = Append(calls, [class |-> k, at |-> "superclass"]) /\ started' = started \cup {k}
        /\ outcome' = outcome
    BY <1>6, <1>15 DEF AnalyseSuperType, InheritsFromItself
  <2>2. calls[Len(calls)].class = Current /\ calls[Len(calls)].at = "offset"
    BY <1>3
  <2>3. superclass[k] # NoClass /\ k \notin started /\ superclass[Current] = k
    BY <1>15 DEF k
  <2>4. QED
    BY <1>3, <1>4, <1>5, <1>6, <1>7, <1>9, <2>1, <2>2, <2>3, CallBegins
<1>16. QED
  BY <1>12, <1>13, <1>14, <1>15

\* Nothing waits between the calls that analyse() makes.
LEMMA NoCalls ==
    ASSUME ClassInv, NEW busy, busy = analysing, analyses = <<>>, outcome = "running"
    PROVE  Pending(<<>>, busy)
<1>1. 1..Len(<<>>) = {} /\ <<>> \in Seq(Call)
  OBVIOUS
<1>2. Nested(<<>>, started, analysed) /\ Led(<<>>)
  BY <1>1 DEF Nested, Led
<1>3. \A i \in 1..Len(analyses) : FALSE
  BY <1>1
<1>4. \A x \in started : superclass[x] \in Declared
  BY <1>3 DEF ClassInv, AnalysedAreDeclared
<1>5. busy \subseteq Classes /\ \A x \in Classes : x \in busy <=> Waits(<<>>, x)
  BY DEF ClassInv, ClassTypes, CallsAreNested
<1>6. QED
  BY <1>1, <1>2, <1>4, <1>5 DEF Pending

\* analyse() calls analyseSuperType for the next class.
LEMMA NextStep ==
    ASSUME ClassInv, ImportInv', NEW p \in Packages, NextSuperType(p)
    PROVE  ClassInv'
<1> DEFINE k == classes[p][position + 1]
<1>1. /\ AnalysingSuperTypes(p) /\ analyses = <<>> /\ position < Len(classes[p])
      /\ position' = position + 1 /\ analysing' = analysing
      /\ UNCHANGED <<packageVars, classes, declarationVars, analysed, offset>>
      /\ AnalyseSuperType(k, <<>>, analysing)
  BY DEF NextSuperType
<1>2. Analysing /\ outcome = "running" /\ progress[p] = "supertypes"
  BY <1>1 DEF AnalysingSuperTypes, Loading, Analysing
<1>3. position' \in Nat /\ position \in Nat
  BY <1>1 DEF ClassInv, ClassTypes
<1>4. k \in Declared
  <2>1. classes[p] \in Seq(exportedTypes[p])
    BY <1>2 DEF ClassInv, AnalysedAreDeclared
  <2>2. position + 1 \in 1..Len(classes[p])
    BY <1>1, <1>3, <2>1, LenProperties
  <2>3. k \in exportedTypes[p]
    BY <2>1, <2>2, ElementOfSeq
  <2>4. QED
    BY <2>3 DEF Declared
<1> HIDE DEF k
<1>5. Pending(<<>>, analysing')
  BY <1>1, <1>2, NoCalls
<1>6. k \notin analysing
  BY <1>1, <1>2, <1>4 DEF ClassInv, CallsAreNested, Waits, ClassTypes
<1>7. <<>> \in Seq(Call)
  OBVIOUS
<1>8. CASE analyses' = <<>> /\ started' = started /\ outcome' = outcome
  BY <1>1, <1>2, <1>3, <1>5, <1>7, <1>8, CallReturns
<1>9. CASE /\ ~(superclass[k] = NoClass \/ k \in analysed) /\ k \notin started
           /\ analyses' = Append(<<>>, [class |-> k, at |-> "superclass"]) /\ started' = started \cup {k}
           /\ outcome' = outcome
  BY <1>1, <1>2, <1>3, <1>4, <1>5, <1>7, <1>9, CallBegins
<1>10. QED
  BY <1>1, <1>6, <1>8, <1>9 DEF AnalyseSuperType, InheritsFromItself

\* analyseSuperType looks at the class that the superclass type mentions.
LEMMA ArgumentStep ==
    ASSUME ClassInv, ImportInv', NEW p \in Packages, AnalyseArgument(p)
    PROVE  ClassInv'
<1> DEFINE k == argument[Current]
           calls == Reached("type")
           n == Len(analyses)
<1>1. At(p, "argument") /\ "argument" \in Places /\ "type" \in Places
  BY DEF AnalyseArgument, Places
<1>2. n \in Nat \ {0} /\ Current \in started /\ Current \in Classes
  BY <1>1, LastCall
<1>3. /\ calls \in Seq(Call) /\ calls # <<>>
      /\ Len(calls) = n
      /\ calls[n] = [class |-> Current, at |-> "type"]
      /\ Nested(calls, started, analysed) /\ Led(calls)
      /\ \A x : x # Current => /\ Waits(calls, x) <=> Waits(analyses, x)
                               /\ PlacedBy(calls, started, x) <=> PlacedBy(analyses, started, x)
      /\ ~Waits(calls, Current) /\ ~Waits(analyses, Current)
      /\ PlacedBy(calls, started, Current) /\ PlacedBy(analyses, started, Current)
      /\ \A x \in started : superclass[x] \in Declared
  BY <1>1, ReachedCalls
<1>4. Analysing /\ outcome # "circularInheritance"
  BY <1>1, AtAnalysing
<1>5. /\ analysing' = analysing /\ position' = position
      /\ UNCHANGED <<packageVars, classes, declarationVars, analysed, offset>>
      /\ k # NoClass => k \in Declared
      /\ IF k = NoClass \/ k \in started
         THEN analyses' = calls /\ UNCHANGED <<started, hasError, outcome>>
         ELSE AnalyseSuperType(k, calls, analysing)
  BY VisibleDeclared DEF AnalyseArgument
<1>6. position' \in Nat /\ analysing' \subseteq Classes /\ analysed \subseteq started
  BY <1>5 DEF ClassInv, ClassTypes
<1>7. \A x \in Classes : x \in analysing <=> Waits(analyses, x)
  BY <1>4 DEF ClassInv, CallsAreNested
<1> HIDE DEF n, calls, k
<1>8. Pending(calls, analysing')
  BY <1>3, <1>5, <1>6, <1>7 DEF Pending
<1>9. \A x \in Classes : x \in analysing => x \in started
  BY <1>7 DEF Waits, ClassInv, CallsAreNested, Nested
<1>10. Last(calls).at = "type" /\ calls[Len(calls)].class = Current /\ calls[Len(calls)].at = "type"
  BY <1>3 DEF Last
<1>11. ASSUME analyses' = calls, started' = started, outcome' = outcome
       PROVE  ClassInv'
  <2>1. calls # <<>> /\ Last(calls).at = "offset" => Follows(Last(calls).class)
    BY <1>10
  <2>2. calls \in Seq(Call)
    BY <1>3
  <2>3. QED
    BY <1>4, <1>5, <1>6, <1>8, <1>11, <2>1, <2>2, CallReturns
<1>12. CASE k = NoClass \/ k \in started \/ superclass[k] = NoClass \/ k \in analysed
  <2>1. analyses' = calls /\ started' = started /\ outcome' = outcome
    BY <1>5, <1>12 DEF AnalyseSuperType
  <2>2. QED
    BY <1>11, <2>1
<1>13. CASE ~(k = NoClass \/ k \in started \/ superclass[k] = NoClass \/ k \in analysed)
  <2>1. k \in Declared /\ k \in Classes /\ k \notin started /\ superclass[k] # NoClass
    BY <1>5, <1>13 DEF Declared, ClassInv, ClassTypes
  <2>2. k \notin analysing
    BY <1>9, <2>1
  <2>3. /\ analyses' = Append(calls, [class |-> k, at |-> "superclass"]) /\ started' = started \cup {k}
        /\ outcome' = outcome
    BY <1>5, <1>13, <2>2 DEF AnalyseSuperType, InheritsFromItself
  <2>4. k \in {superclass[Current], argument[Current]}
    BY DEF k
  <2>5. calls \in Seq(Call)
    BY <1>3
  <2>6. QED
    BY <1>4, <1>5, <1>6, <1>8, <1>10, <2>1, <2>3, <2>4, <2>5, CallBegins
<1>14. QED
  BY <1>12, <1>13

\* The superclass of the last class was analysed: its offset is known and the class is placed.
LEMMA OffsetStep ==
    ASSUME ClassInv, ImportInv', NEW p \in Packages, OffsetIndices(p)
    PROVE  ClassInv'
<1> DEFINE k == superclass[Current]
           calls == Reached("argument")
           n == Len(analyses)
<1>1. At(p, "offset") /\ "argument" \in Places /\ "offset" \in Places
  BY DEF OffsetIndices, Places
<1>2. /\ n \in Nat \ {0} /\ n \in 1..n /\ analyses # <<>>
      /\ analyses[n] = [class |-> Current, at |-> "offset"]
      /\ Current \in started /\ Current \in Classes
      /\ k \in Classes /\ k # NoClass
  BY <1>1, LastCall
<1>3. /\ calls \in Seq(Call) /\ calls # <<>>
      /\ Len(calls) = n
      /\ calls[n] = [class |-> Current, at |-> "argument"]
      /\ Nested(calls, started, analysed) /\ Led(calls)
      /\ \A x : x # Current => /\ Waits(calls, x) <=> Waits(analyses, x)
                               /\ PlacedBy(calls, started, x) <=> PlacedBy(analyses, started, x)
      /\ ~Waits(calls, Current) /\ Waits(analyses, Current)
      /\ PlacedBy(calls, started, Current) /\ ~PlacedBy(analyses, started, Current)
      /\ \A x \in started : superclass[x] \in Declared
  BY <1>1, ReachedCalls
<1>4. Analysing /\ outcome # "circularInheritance"
  BY <1>1, AtAnalysing
<1>5. /\ analysing' = analysing \ {Current} /\ position' = position
      /\ analyses' = calls
      /\ UNCHANGED <<loading, progress, classes, exportedTypes, superclass, argument, started, analysed, outcome>>
      /\ offset' = [offset EXCEPT ![Current] = offset[k] + GenericCount[k]]
  BY DEF OffsetIndices, packageVars, declarationVars
<1>6. Last(analyses) = [class |-> Current, at |-> "offset"]
  BY <1>2 DEF Last
<1>7. Follows(Current)
  BY <1>2, <1>6 DEF ClassInv, PlacedInOrder
<1> HIDE DEF n, calls, k
<1>8. ClassTypes'
  <2>1. offset[k] \in Nat /\ GenericCount[k] \in Nat
    BY <1>2, ClassesAssumption DEF ClassInv, ClassTypes
  <2>2. offset[k] + GenericCount[k] \in Nat
    BY <2>1
  <2>3. offset' \in [Classes -> Nat]
    BY <1>5, <2>2 DEF ClassInv, ClassTypes
  <2>4. analyses' \in Seq(Call) /\ analysing' \subseteq Classes
    BY <1>3, <1>5 DEF ClassInv, ClassTypes
  <2>5. QED
    BY <1>5, <2>3, <2>4 DEF ClassInv, ClassTypes
<1>9. CallsAreNested'
  <2>1. Nested(analyses, started, analysed)' /\ Led(analyses)'
    BY <1>3, <1>5 DEF Nested, Led, Leads, Mentioned
  <2>2. \A x : Waits(analyses, x)' <=> Waits(calls, x)
    BY <1>5 DEF Waits
  <2>3. \A x \in Classes : x \in analysing <=> Waits(analyses, x)
    BY <1>4 DEF ClassInv, CallsAreNested
  <2>4. \A x \in Classes : x \in analysing' <=> Waits(calls, x)
    BY <1>3, <1>5, <2>3
  <2>5. QED
    BY <1>4, <1>5, <2>1, <2>2, <2>4 DEF CallsAreNested, Analysing
<1>10. AnalysedAreDeclared'
  BY <1>3, <1>5, SameDeclarations DEF AnalysedAreDeclared, ClassInv
<1>11. PlacedInOrder'
  <2>1. Placed' = Placed \cup {Current} /\ Current \notin Placed
    BY <1>2, <1>3, <1>5 DEF Placed, PlacedBy
  <2>2. Placed \subseteq Classes /\ \A x \in Placed : Follows(x)
    BY DEF Placed, ClassInv, ClassTypes, PlacedInOrder
  <2>3. \A x \in Placed' : Follows(x) /\ x \in Classes
    BY <1>2, <1>7, <2>1, <2>2
  <2>4. ~Cyclic(Placed \cup {Current}, Superclasses)
    BY <1>2, <2>1, <2>2, <2>3, PlacedNext DEF ClassInv, PlacedInOrder, Follows
  <2>5. ~Cyclic(Placed, Superclasses)'
    BY <1>5, <2>1, <2>4, SameDeclarations DEF Cyclic
  <2>6. \A x : Follows(x) => Follows(x)'
    BY <1>5, <2>1 DEF Follows
  <2>7. superclass[Current] # NoClass
    BY <1>2 DEF k
  <2>8. \A x \in Placed' : superclass[x] # Current
    BY <2>1, <2>3, <2>7 DEF Follows
  <2>9. ASSUME NEW x \in Placed'
        PROVE  offset'[x] = offset'[superclass[x]] + GenericCount[superclass[x]]
    <3>1. superclass[x] \in Classes /\ x \in Classes
      BY <1>2, <2>1, <2>2, <2>9 DEF ClassInv, AnalysedAreDeclared, Placed, k
    <3>2. offset'[superclass[x]] = offset[superclass[x]]
      BY <1>5, <2>8, <2>9, <3>1 DEF ClassInv, ClassTypes
    <3>3. CASE x = Current
      BY <1>2, <1>5, <3>2, <3>3 DEF ClassInv, ClassTypes, k
    <3>4. CASE x # Current
      BY <1>5, <2>1, <2>9, <3>1, <3>2, <3>4 DEF ClassInv, ClassTypes, PlacedInOrder
    <3>5. QED
      BY <3>3, <3>4
  <2>10. (Last(analyses).at # "offset")'
    BY <1>3, <1>5 DEF Last
  <2>11. QED
    BY <1>5, <2>3, <2>5, <2>6, <2>9, <2>10 DEF PlacedInOrder
<1>12. RefusedForReason'
  BY <1>4, <1>5 DEF RefusedForReason
<1>13. QED
  BY <1>8, <1>9, <1>10, <1>11, <1>12 DEF ClassInv

\* The superclass of the last class is analysed, and its call returns.
LEMMA ReturnStep ==
    ASSUME ClassInv, ImportInv', NEW p \in Packages, SuperTypeAnalysed(p)
    PROVE  ClassInv'
<1> DEFINE n == Len(analyses)
           rest == Front(analyses)
<1>1. At(p, "type") /\ "type" \in Places
  BY DEF SuperTypeAnalysed, Places
<1>2. /\ n \in Nat \ {0} /\ n \in 1..n /\ analyses # <<>> /\ analyses \in Seq(Call)
      /\ analyses[n] = [class |-> Current, at |-> "type"]
      /\ Current \in started /\ Current \in Classes
  BY <1>1, LastCall
<1>3. Nested(analyses, started, analysed) /\ Led(analyses)
  BY DEF ClassInv, CallsAreNested
<1>4. analyses[n].class = Current /\ analyses[n].at = "type"
  BY <1>2
<1>5. /\ rest \in Seq(Call) /\ Len(rest) = n - 1
      /\ Nested(rest, started, analysed \cup {Current}) /\ Led(rest)
      /\ \A x : Waits(rest, x) <=> Waits(analyses, x)
      /\ \A x : PlacedBy(rest, started, x) <=> PlacedBy(analyses, started, x)
      /\ PlacedBy(analyses, started, Current)
      /\ \A i \in 1..(n - 1) : rest[i] = analyses[i]
      /\ rest # <<>> /\ rest[n - 1].at = "offset" => superclass[rest[n - 1].class] = Current
  BY <1>2, <1>3, <1>4, PoppedFacts
<1>6. Analysing /\ outcome # "circularInheritance"
  BY <1>1, AtAnalysing
<1>7. /\ analyses' = rest /\ analysed' = analysed \cup {Current}
      /\ UNCHANGED <<loading, progress, classes, exportedTypes, superclass, argument, position, started,
                     analysing, offset, outcome>>
  BY DEF SuperTypeAnalysed, packageVars, declarationVars
<1>8. \A x \in started : superclass[x] \in Declared
  BY <1>1, ReachedCalls DEF Places
<1> HIDE DEF n, rest
<1>9. ClassTypes'
  BY <1>2, <1>5, <1>7 DEF ClassInv, ClassTypes
<1>10. CallsAreNested'
  <2>1. Nested(analyses, started, analysed)' /\ Led(analyses)'
    <3>1. Nested(analyses, started, analysed)'
      BY <1>5, <1>7 DEF Nested
    <3>2. \A x, y : Leads(x, y)' <=> Leads(x, y)
      BY <1>7 DEF Leads, Mentioned
    <3>3. Led(analyses)'
      BY <1>5, <1>7, <3>2 DEF Led
    <3>4. QED
      BY <3>1, <3>3
  <2>2. \A x : Waits(analyses, x)' <=> Waits(analyses, x)
    BY <1>5, <1>7 DEF Waits
  <2>3. \A x \in Classes : x \in analysing <=> Waits(analyses, x)
    BY <1>6 DEF ClassInv, CallsAreNested
  <2>4. QED
    BY <1>6, <1>7, <2>1, <2>2, <2>3 DEF CallsAreNested, Analysing
<1>11. AnalysedAreDeclared'
  BY <1>7, <1>8, SameDeclarations DEF AnalysedAreDeclared, ClassInv
<1>12. PlacedInOrder'
  <2>1. Placed' = Placed
    BY <1>5, <1>7 DEF Placed, PlacedBy
  <2>2. Current \in Placed
    BY <1>2, <1>5 DEF Placed
  <2>3. ASSUME analyses' # <<>>, Last(analyses').at = "offset"
        PROVE  superclass[Last(analyses').class] \in Placed
    BY <1>5, <1>7, <2>2, <2>3 DEF Last
  <2>4. QED
    BY <1>7, <2>1, <2>3, PlacedAsBefore DEF ClassInv
<1>13. RefusedForReason'
  BY <1>6, <1>7 DEF RefusedForReason
<1>14. QED
  BY <1>9, <1>10, <1>11, <1>12, <1>13 DEF ClassInv

\* A class is declared: what was analysed is about other classes.
LEMMA DeclareStep ==
    ASSUME ClassInv, ImportInv', NEW p \in Packages, NEW k \in Classes, NEW super \in Classes \cup {NoClass},
           NEW arg \in Classes \cup {NoClass}, DeclareClass(p, k, super, arg)
    PROVE  ClassInv'
<1>1. /\ outcome = "running" /\ loading # <<>> /\ progress[Last(loading)] = "parsing"
      /\ k \notin Declared
      /\ classes' = [classes EXCEPT ![p] = Append(@, k)]
      /\ exportedTypes' = [exportedTypes EXCEPT ![p] = @ \cup {k}]
      /\ superclass' = [superclass EXCEPT ![k] = super]
      /\ argument' = [argument EXCEPT ![k] = arg]
      /\ UNCHANGED <<loading, progress, position, analyses, started, analysing, analysed, offset, outcome>>
  BY DEF DeclareClass, Parsing, Loading, packageVars, superTypeVars
<1>2. analyses = <<>>
  BY <1>1 DEF ClassInv, CallsAreNested
<1>3. /\ Len(<<>>) = 0 /\ 1..0 = {} /\ <<>> \in Seq(Call)
  OBVIOUS
<1>4. /\ \A x \in Packages : exportedTypes'[x] = IF x = p THEN exportedTypes[p] \cup {k} ELSE exportedTypes[x]
      /\ \A x \in Classes : superclass'[x] = IF x = k THEN super ELSE superclass[x]
      /\ \A x \in Packages : exportedTypes[x] \subseteq Classes
  BY <1>1 DEF ClassInv, ClassTypes
<1>5. ClassTypes'
  <2>1. classes' = [x \in Packages |-> classes'[x]]
    BY <1>1 DEF ClassInv, ClassTypes
  <2>2. exportedTypes' \in [Packages -> SUBSET Classes]
    BY <1>1 DEF ClassInv, ClassTypes
  <2>3. superclass' \in [Classes -> Classes \cup {NoClass}] /\ argument' \in [Classes -> Classes \cup {NoClass}]
    BY <1>1 DEF ClassInv, ClassTypes
  <2>4. QED
    BY <1>1, <2>1, <2>2, <2>3 DEF ClassInv, ClassTypes
<1>6. CallsAreNested'
  <2>1. (Nested(analyses, started, analysed) /\ Led(analyses))'
    BY <1>1, <1>2, <1>3 DEF Nested, Led
  <2>2. \A x : Waits(analyses, x)' <=> Waits(analyses, x)
    BY <1>1 DEF Waits
  <2>3. QED
    BY <1>1, <1>2, <2>1, <2>2 DEF ClassInv, CallsAreNested
<1>7. Declared' = Declared \cup {k}
  BY <1>4 DEF Declared
<1>8. started \subseteq Declared /\ Declared \subseteq Classes
  BY <1>4 DEF ClassInv, AnalysedAreDeclared, Declared
<1>9. \A x \in started : superclass[x] \in Declared
  BY <1>2, <1>3 DEF ClassInv, AnalysedAreDeclared
<1>10. \A x \in Declared : superclass'[x] = superclass[x]
  BY <1>1, <1>4, <1>8
<1>11. AnalysedAreDeclared'
  <2>1. ASSUME NEW x \in Packages, progress[x] \in {"absent", "parsing", "supertypes"}
        PROVE  classes'[x] \in Seq(exportedTypes'[x])
    <3>1. classes[x] \in Seq(exportedTypes[x]) /\ exportedTypes[x] \subseteq exportedTypes'[x]
      BY <1>4, <2>1 DEF ClassInv, AnalysedAreDeclared
    <3>2. classes[x] \in Seq(exportedTypes'[x])
      BY <3>1, SeqMonotonic
    <3>3. CASE x = p
      <4>1. classes'[x] = Append(classes[x], k) /\ k \in exportedTypes'[x]
        BY <1>1, <1>4, <3>3 DEF ClassInv, ClassTypes
      <4>2. \A S, seq, e : seq \in Seq(S) /\ e \in S => Append(seq, e) \in Seq(S)
        BY AppendFacts
      <4>3. QED
        BY <3>2, <4>1, <4>2, Zenon
    <3>4. CASE x # p
      BY <1>1, <3>2, <3>4 DEF ClassInv, ClassTypes
    <3>5. QED
      BY <3>3, <3>4
  <2>2. QED
    BY <1>1, <1>7, <1>8, <1>9, <1>10, <2>1 DEF AnalysedAreDeclared
<1>12. PlacedInOrder'
  <2>1. Placed' = Placed /\ Placed \subseteq started
    BY <1>1 DEF Placed, PlacedBy
  <2>2. \A x \in Placed : superclass'[x] = superclass[x] /\ superclass'[superclass[x]] = superclass[superclass[x]]
    BY <1>8, <1>9, <1>10, <2>1
  <2>3. \A x \in Placed : Follows(x)'
    BY <2>1, <2>2 DEF ClassInv, PlacedInOrder, Follows
  <2>4. ~Cyclic(Placed, Superclasses)'
    <3>1. \A x \in Placed : Superclasses[x] = Superclasses'[x]
      BY <1>8, <2>1, <2>2 DEF Superclasses
    <3>2. ~Cyclic(Placed, Superclasses)
      BY DEF ClassInv, PlacedInOrder
    <3>3. ~Cyclic(Placed, Superclasses')
      BY <3>1, <3>2, CyclicSame
    <3>4. QED
      BY <2>1, <3>3 DEF Cyclic
  <2>5. QED
    BY <1>1, <1>2, <2>1, <2>2, <2>3, <2>4 DEF ClassInv, PlacedInOrder
<1>13. RefusedForReason'
  BY <1>1 DEF RefusedForReason
<1>14. QED
  BY <1>5, <1>6, <1>11, <1>12, <1>13 DEF ClassInv

\* The invariant holds at first, and every step keeps it.
LEMMA ClassInit ==
    ASSUME LoadInit, ImportInv
    PROVE  ClassInv
<1>1. /\ Len(<<>>) = 0 /\ 1..0 = {} /\ <<>> \in Seq(Call) /\ \A S : <<>> \in Seq(S)
  OBVIOUS
<1>2. ClassTypes
  BY <1>1 DEF LoadInit, ClassTypes
<1>3. CallsAreNested /\ AnalysedAreDeclared /\ PlacedInOrder /\ RefusedForReason
  BY <1>1 DEF LoadInit, CallsAreNested, Nested, Led, Waits, AnalysedAreDeclared, PlacedInOrder, Placed, Cyclic,
              RefusedForReason
<1>4. QED
  BY <1>2, <1>3 DEF ClassInv

\* Every step of loading and compiling packages keeps the invariant of the classes.
LEMMA ClassStep ==
    ASSUME ClassInv, [LoadNext]_loadVars
    PROVE  ClassInv'
<1>0. ImportInv'
  BY ImportStep DEF ClassInv
<1>1. ASSUME NEW p \in Packages, NEW q \in Packages, LoadPackage(p, q)
      PROVE  ClassInv'
  <2>1. /\ outcome = "running" /\ loading # <<>> /\ progress[Last(loading)] = "parsing"
        /\ UNCHANGED <<classes, exportedTypes, superclass, argument, position, superTypeVars>>
        /\ outcome' # "circularInheritance"
        /\ progress' = progress \/ (progress[q] = "absent" /\ progress' = [progress EXCEPT ![q] = "parsing"])
    BY <1>1 DEF LoadPackage, Parsing, Loading, Throw, declarationVars
  <2>2. analyses = <<>>
    BY <2>1 DEF ClassInv, CallsAreNested
  <2>3. \A x \in Packages : progress'[x] \in {"absent", "parsing", "supertypes"} =>
            progress[x] \in {"absent", "parsing", "supertypes"}
    BY <2>1 DEF ClassInv, ImportInv, PackageTypes
  <2>4. position' \in Nat /\ classes' = [x \in Packages |-> classes'[x]]
    BY <2>1 DEF ClassInv, ClassTypes
  <2>5. QED
    BY <1>0, <2>1, <2>2, <2>3, <2>4, NothingAnalysed
<1>2. ASSUME NEW p \in Packages, FinishParse(p)
      PROVE  ClassInv'
  <2>1. /\ outcome = "running" /\ loading # <<>> /\ progress[Last(loading)] = "parsing" /\ progress[p] = "parsing"
        /\ UNCHANGED <<classes, exportedTypes, superclass, argument, superTypeVars>>
        /\ position' = position \/ position' = 0
        /\ outcome' # "circularInheritance"
        /\ progress' = progress \/ progress' = [progress EXCEPT ![p] = "supertypes"]
    BY <1>2 DEF FinishParse, Parsing, Loading, declarationVars
  <2>2. analyses = <<>>
    BY <2>1 DEF ClassInv, CallsAreNested
  <2>3. \A x \in Packages : progress'[x] \in {"absent", "parsing", "supertypes"} =>
            progress[x] \in {"absent", "parsing", "supertypes"}
    BY <2>1 DEF ClassInv, ImportInv, PackageTypes
  <2>4. position' \in Nat /\ classes' = [x \in Packages |-> classes'[x]]
    BY <2>1 DEF ClassInv, ClassTypes
  <2>5. QED
    BY <1>0, <2>1, <2>2, <2>3, <2>4, NothingAnalysed
<1>3. ASSUME NEW p \in Packages, OrderClasses(p)
      PROVE  ClassInv'
  <2>1. /\ outcome = "running" /\ analyses = <<>> /\ progress[p] = "supertypes"
        /\ UNCHANGED <<exportedTypes, superclass, argument, superTypeVars>>
        /\ position' = 0 /\ outcome' = outcome
        /\ progress' = [progress EXCEPT ![p] = "inheriting"]
        /\ classes' = [classes EXCEPT ![p] = SuperclassFirst(@)]
    BY <1>3 DEF OrderClasses, AnalysingSuperTypes, Loading, declarationVars
  <2>2. \A x \in Packages : progress'[x] = IF x = p THEN "inheriting" ELSE progress[x]
    BY <2>1 DEF ClassInv, ImportInv, PackageTypes
  <2>3. \A x \in Packages : x # p => classes'[x] = classes[x]
    BY <2>1 DEF ClassInv, ClassTypes
  <2>4. \A x \in Packages : progress'[x] \in {"absent", "parsing", "supertypes"} =>
            classes'[x] = classes[x] /\ progress[x] \in {"absent", "parsing", "supertypes"}
    BY <2>2, <2>3
  <2>5. position' \in Nat /\ classes' = [x \in Packages |-> classes'[x]]
    BY <2>1 DEF ClassInv, ClassTypes
  <2>6. QED
    BY <1>0, <2>1, <2>4, <2>5, NothingAnalysed
<1>4. ASSUME NEW p \in Packages, Inherit(p) \/ FinishAnalysis(p)
      PROVE  ClassInv'
  <2>1. /\ outcome = "running" /\ loading # <<>> /\ progress[Last(loading)] = "inheriting"
        /\ UNCHANGED <<classes, exportedTypes, superclass, argument, superTypeVars>>
        /\ position' = position \/ position' = position + 1
        /\ outcome' # "circularInheritance"
        /\ progress' = progress \/ progress' = [progress EXCEPT ![p] = "analysed"]
    BY <1>4 DEF Inherit, FinishAnalysis, Loading, declarationVars, packageVars
  <2>2. analyses = <<>>
    BY <2>1 DEF ClassInv, CallsAreNested
  <2>3. \A x \in Packages : progress'[x] \in {"absent", "parsing", "supertypes"} =>
            progress[x] \in {"absent", "parsing", "supertypes"}
    BY <2>1 DEF ClassInv, ImportInv, PackageTypes
  <2>4. position' \in Nat /\ classes' = [x \in Packages |-> classes'[x]]
    BY <2>1 DEF ClassInv, ClassTypes
  <2>5. QED
    BY <1>0, <2>1, <2>2, <2>3, <2>4, NothingAnalysed
<1>5. ASSUME \/ \E p \in Packages : ReportError(p) \/ ThrowError(p)
             \/ CreateClass \/ FinishGeneration
             \/ UNCHANGED loadVars
      PROVE  ClassInv'
  <2>1. /\ UNCHANGED <<loading, progress, classes, exportedTypes, superclass, argument, position, superTypeVars>>
        /\ outcome' = "circularInheritance" <=> outcome = "circularInheritance"
    BY <1>5 DEF ReportError, ThrowError, Throw, CreateClass, FinishGeneration, Loading, loadVars, packageVars,
                declarationVars
  <2>2. analyses # <<>> => loading' # <<>> /\ progress'[Last(loading')] = "supertypes"
    BY <2>1 DEF ClassInv, CallsAreNested
  <2>3. position' \in Nat /\ classes' = [x \in Packages |-> classes'[x]]
    BY <2>1 DEF ClassInv, ClassTypes
  <2>4. \A x \in Packages : progress'[x] \in {"absent", "parsing", "supertypes"} =>
            classes'[x] = classes[x] /\ progress[x] \in {"absent", "parsing", "supertypes"}
    BY <2>1
  <2>5. QED
    BY <1>0, <2>1, <2>2, <2>3, <2>4, NothingAnalysed
<1>6. QED
  BY <1>0, <1>1, <1>2, <1>3, <1>4, <1>5, DeclareStep, NextStep, SuperclassStep, OffsetStep, ArgumentStep, ReturnStep
     DEF LoadNext, LoadStep, ParseStep, SuperTypeStep

\* The invariant of the analysis of superclasses, for any classes in any packages.
LEMMA ClassesInOrder == LoadSpec => []ClassInv
<1>1. LoadInit => ClassInv
  BY ImportInit, ClassInit
<1>2. ClassInv /\ [LoadNext]_loadVars => ClassInv'
  BY ClassStep
<1>3. QED
  BY <1>1, <1>2, PTL DEF LoadSpec

\* However classes are declared and mention each other, the superclasses of one that inherits
\* from itself are never analysed, and a class is refused only if the analysis of its
\* superclass leads to one that inherits from it (Class::analyseSuperType).
THEOREM InheritanceIsNotCircular == LoadSpec => []CircularInheritanceRefused
<1>1. ASSUME ClassInv
      PROVE  CircularInheritanceRefused
  <2>1. analysed \subseteq Placed
    BY <1>1, AnalysedPlaced
  <2>2. ~Cyclic(Placed, Superclasses)
    BY <1>1 DEF ClassInv, PlacedInOrder
  <2>3. ~Cyclic(analysed, Superclasses)
    BY <2>1, <2>2, CyclicNodes
  <2>4. QED
    BY <1>1, <2>3 DEF CircularInheritanceRefused, ClassInv, RefusedForReason
<1>2. QED
  BY <1>1, ClassesInOrder, PTL

\* The generic parameters of a class follow those of its superclass when its analysis is
\* complete, in whatever order and nesting the superclasses were analysed.
THEOREM GenericsFollowSuperclass == LoadSpec => []OffsetsFollowSuperclass
<1>1. ASSUME ClassInv
      PROVE  OffsetsFollowSuperclass
  BY <1>1, AnalysedPlaced DEF ClassInv, PlacedInOrder, OffsetsFollowSuperclass
<1>2. QED
  BY <1>1, ClassesInOrder, PTL

(***************************************************************************)
(* Functions defined by recursion                                          *)
(***************************************************************************)

\* A set of natural numbers that is not empty has a least one.
LEMMA Least ==
    ASSUME NEW T \in SUBSET Nat, T # {}
    PROVE  \E x \in T : \A y \in T : x <= y
<1>1. IsWellFoundedOn(OpToRel(<, Nat), Nat)
  BY NatLessThanWellFounded
<1>2. PICK x \in T : \A y \in T : ~(<<y, x>> \in OpToRel(<, Nat))
  BY <1>1, WFMin
<1>3. \A y \in T : ~(y < x)
  BY <1>2 DEF OpToRel
<1>4. QED
  BY <1>3

\* Functions on D that are defined by recursion: by start on base, and elsewhere by step from
\* the value of what next leads to.
Solves(f, D, X, base, start, next, step) ==
    /\ f \in [D -> X]
    /\ \A s \in D : f[s] = IF s \in base THEN start[s] ELSE step[<<s, f[next[s]]>>]

\* There is one if next always leads to something smaller.
LEMMA Recursion ==
    ASSUME NEW S, NEW X, NEW measure \in [S -> Nat], NEW base \in SUBSET S,
           NEW start \in [base -> X], NEW next \in [S \ base -> S], NEW step \in [S \X X -> X],
           \A s \in S \ base : measure[next[s]] < measure[s]
    PROVE  \E f : Solves(f, S, X, base, start, next, step)
<1>. DEFINE Below(n) == {s \in S : measure[s] < n}
            Partial(f, n) == Solves(f, Below(n), X, base, start, next, step)
<1>1. \A n \in Nat : \E f : Partial(f, n)
  <2>. DEFINE without == {n \in Nat : ~\E f : Partial(f, n)}
  <2>1. SUFFICES ASSUME without # {} PROVE FALSE
    BY <2>1
  <2>2. PICK n \in without : \A m \in without : n <= m
    BY <2>1, Least
  <2>3. CASE n = 0
    <3>1. Below(0) = {}
      OBVIOUS
    <3>2. Partial([s \in Below(0) |-> s], 0)
      BY <3>1 DEF Solves
    <3>3. QED
      BY <2>3, <3>2
  <2>4. CASE n # 0
    <3>1. n - 1 \in Nat /\ n - 1 \notin without
      <4>1. n \in Nat
        BY <2>2
      <4>2. n - 1 \in Nat /\ ~(n <= n - 1)
        BY <2>4, <4>1
      <4>. HIDE DEF without
      <4>3. QED
        BY <2>2, <4>2
    <3>2. PICK f : Partial(f, n - 1)
      BY <3>1
    <3>. DEFINE g == [s \in Below(n) |-> IF s \in base THEN start[s] ELSE step[<<s, f[next[s]]>>]]
    <3>3. \A s \in Below(n) \ base : next[s] \in Below(n - 1) /\ next[s] \in Below(n)
      <4>1. \A s \in Below(n) \ base : /\ s \in S \ base /\ next[s] \in S
                                       /\ measure[s] \in Nat /\ measure[next[s]] \in Nat
                                       /\ measure[next[s]] < measure[s] /\ measure[s] < n
        OBVIOUS
      <4>2. QED
        BY <2>2, <4>1
    <3>4. \A s \in Below(n - 1) : s \in Below(n) /\ g[s] = f[s]
      BY <2>2, <3>2 DEF Solves
    <3>5. \A s \in Below(n) : g[s] \in X
      BY <3>2, <3>3 DEF Solves
    <3>6. Partial(g, n)
      BY <3>3, <3>4, <3>5 DEF Solves
    <3>7. QED
      BY <2>2, <3>6
  <2>5. QED
    BY <2>3, <2>4
<1>2. ASSUME NEW n \in Nat, NEW m \in Nat, NEW f, NEW g, Partial(f, n), Partial(g, m)
      PROVE  \A s \in Below(n) \cap Below(m) : f[s] = g[s]
  <2>. DEFINE wrong == {s \in Below(n) \cap Below(m) : f[s] # g[s]}
              sizes == {measure[s] : s \in wrong}
  <2>1. SUFFICES ASSUME wrong # {} PROVE FALSE
    BY <2>1
  <2>2. sizes \in SUBSET Nat /\ sizes # {}
    BY <2>1
  <2>3. PICK x \in sizes : \A y \in sizes : x <= y
    BY <2>2, Least
  <2>4. PICK s \in wrong : x = measure[s]
    BY <2>3
  <2>5. s \in S /\ s \in Below(n) /\ s \in Below(m) /\ f[s] # g[s]
    BY <2>4
  <2>6. s \notin base
    BY <1>2, <2>5 DEF Solves
  <2>7. next[s] \in S /\ measure[next[s]] < measure[s] /\ measure[s] \in Nat /\ measure[next[s]] \in Nat
    BY <2>5, <2>6
  <2>8. next[s] \in Below(n) /\ next[s] \in Below(m)
    BY <2>5, <2>7
  <2>9. next[s] \notin wrong
    <3>1. ASSUME next[s] \in wrong
          PROVE  x <= measure[next[s]]
      <4>1. measure[next[s]] \in sizes
        BY <3>1
      <4>. HIDE DEF sizes, wrong
      <4>2. QED
        BY <2>3, <4>1
    <3>2. ~(x <= measure[next[s]])
      BY <2>4, <2>7
    <3>3. QED
      BY <3>1, <3>2
  <2>10. f[next[s]] = g[next[s]]
    BY <2>8, <2>9
  <2>11. QED
    BY <1>2, <2>5, <2>6, <2>10 DEF Solves
<1>. DEFINE partial(n) == CHOOSE f : Partial(f, n)
            F == [s \in S |-> partial(measure[s] + 1)[s]]
<1>3. \A n \in Nat : Partial(partial(n), n)
  BY <1>1
<1>. HIDE DEF partial, Partial
<1>4. ASSUME NEW s \in S
      PROVE  F[s] \in X /\ F[s] = IF s \in base THEN start[s] ELSE step[<<s, F[next[s]]>>]
  <2>1. measure[s] \in Nat /\ measure[s] + 1 \in Nat /\ s \in Below(measure[s] + 1)
    OBVIOUS
  <2>2. Partial(partial(measure[s] + 1), measure[s] + 1)
    BY <1>3, <2>1
  <2>3. /\ partial(measure[s] + 1)[s] \in X
        /\ partial(measure[s] + 1)[s] =
               IF s \in base THEN start[s] ELSE step[<<s, partial(measure[s] + 1)[next[s]]>>]
    BY <2>1, <2>2 DEF Partial, Solves
  <2>4. ASSUME s \notin base
        PROVE  partial(measure[s] + 1)[next[s]] = F[next[s]]
    <3>1. next[s] \in S /\ measure[next[s]] \in Nat /\ measure[next[s]] < measure[s]
      BY <2>4
    <3>2. measure[next[s]] + 1 \in Nat /\ measure[next[s]] < measure[s] + 1
      BY <2>1, <3>1
    <3>3. next[s] \in Below(measure[s] + 1) /\ next[s] \in Below(measure[next[s]] + 1)
      BY <3>1, <3>2
    <3>4. Partial(partial(measure[next[s]] + 1), measure[next[s]] + 1)
      BY <1>3, <3>2
    <3>5. partial(measure[s] + 1)[next[s]] = partial(measure[next[s]] + 1)[next[s]]
      BY <1>2, <2>1, <2>2, <3>2, <3>3, <3>4
    <3>6. QED
      BY <3>1, <3>5
  <2>5. QED
    BY <2>3, <2>4
<1>5. F \in [S -> X]
  BY <1>4
<1>6. QED
  BY <1>4, <1>5 DEF Solves

(***************************************************************************)
(* The order in which classes inherit                                      *)
(***************************************************************************)

\* What a sequence consists of.
LEMMA ToSetFacts ==
    ASSUME NEW S, NEW seq \in Seq(S)
    PROVE  /\ Len(seq) \in Nat /\ ToSet(seq) = {seq[i] : i \in 1..Len(seq)}
           /\ ToSet(seq) \in SUBSET S /\ IsFiniteSet(ToSet(seq))
           /\ seq \in Seq(ToSet(seq))
<1>1. Len(seq) \in Nat /\ DOMAIN seq = 1..Len(seq) /\ \A i \in 1..Len(seq) : seq[i] \in S
  BY LenProperties, ElementOfSeq
<1>2. ToSet(seq) = {seq[i] : i \in 1..Len(seq)}
  BY <1>1 DEF ToSet
<1>3. IsFiniteSet(ToSet(seq))
  <2>. DEFINE g == [i \in 1..Len(seq) |-> seq[i]]
  <2>1. g \in Surjection(1..Len(seq), ToSet(seq))
    BY <1>2 DEF Surjection
  <2>2. IsFiniteSet(1..Len(seq))
    BY <1>1, FS_Interval
  <2>. HIDE DEF g
  <2>3. QED
    BY <2>1, <2>2, FS_Surjection
<1>4. seq \in Seq(ToSet(seq))
  <2>1. seq = [i \in 1..Len(seq) |-> seq[i]]
    BY LenProperties
  <2>2. \A i \in 1..Len(seq) : seq[i] \in ToSet(seq)
    BY <1>2
  <2>3. QED
    BY <1>1, <2>1, <2>2, IsASeq
<1>5. QED
  BY <1>1, <1>2, <1>3, <1>4

\* A sequence of some elements is one of more elements.
LEMMA SeqWithin ==
    ASSUME NEW A, NEW B, A \subseteq B, NEW seq \in Seq(A)
    PROVE  seq \in Seq(B)
  OBVIOUS

\* What defines append, for the classes in all, and the order they are brought in.
Appends(all, f) ==
    f = [left \in SUBSET all |->
            [k \in Classes \cup {NoClass} |->
                IF k \notin left THEN <<>> ELSE Append(f[left \ {k}][superclass[k]], k)]]

Orders(own, f, g) ==
    g = [i \in 0..Len(own) |->
            IF i = 0 THEN <<>> ELSE g[i - 1] \o f[ToSet(own) \ ToSet(g[i - 1])][own[i]]]

NoneOrClass == Classes \cup {NoClass}

\* What append returns when those in left are left: k after its superclasses, the first of
\* which has no superclass that is left.
ChainOf(left, k, seq) ==
    /\ seq \in Seq(left)
    /\ k \in left => Len(seq) # 0 /\ seq[Len(seq)] = k
    /\ k \notin left => seq = <<>>
    /\ \A i \in 1..Len(seq) : i # 1 => superclass[seq[i]] = seq[i - 1]
    /\ Len(seq) # 0 => superclass[seq[1]] \notin left \/ \E i \in 1..Len(seq) : seq[i] = superclass[seq[1]]

\* append ends, as the classes that are left become fewer.
LEMMA AppendsExists ==
    ASSUME superclass \in [Classes -> NoneOrClass], NEW all \in SUBSET Classes, IsFiniteSet(all)
    PROVE  \E f : Appends(all, f)
<1>. DEFINE S == (SUBSET all) \X NoneOrClass
            X == Seq(NoneOrClass)
            measure == [s \in S |-> Cardinality(s[1])]
            base == {s \in S : s[2] \notin s[1]}
            start == [s \in base |-> <<>>]
            next == [s \in S \ base |-> <<s[1] \ {s[2]}, superclass[s[2]]>>]
            step == [p \in S \X X |-> Append(p[2], p[1][2])]
<1>1. \A t \in SUBSET all : IsFiniteSet(t) /\ Cardinality(t) \in Nat
  BY FS_Subset, FS_CardinalityType
<1>2. \A s \in S \ base : /\ s[1] \in SUBSET all /\ s[2] \in s[1] /\ s[2] \in Classes
                          /\ next[s] = <<s[1] \ {s[2]}, superclass[s[2]]>> /\ next[s] \in S
  BY DEF NoneOrClass
<1>3. measure \in [S -> Nat] /\ base \in SUBSET S /\ start \in [base -> X] /\ next \in [S \ base -> S]
  <2>1. measure \in [S -> Nat]
    BY <1>1
  <2>2. base \in SUBSET S /\ start \in [base -> X]
    OBVIOUS
  <2>3. next \in [S \ base -> S]
    BY <1>2
  <2>4. QED
    BY <2>1, <2>2, <2>3
<1>4. step \in [S \X X -> X]
  OBVIOUS
<1>5. \A s \in S \ base : measure[next[s]] < measure[s]
  <2>1. ASSUME NEW s \in S \ base
        PROVE  Cardinality(s[1] \ {s[2]}) = Cardinality(s[1]) - 1 /\ Cardinality(s[1]) \in Nat
    BY <1>1, <1>2, FS_RemoveElement
  <2>2. \A s \in S \ base : s \in S /\ measure[s] = Cardinality(s[1]) /\ measure[next[s]] = Cardinality(s[1] \ {s[2]})
    BY <1>2
  <2>3. \A m \in Nat : m - 1 < m
    OBVIOUS
  <2>. HIDE DEF S, X, measure, base, start, next, step
  <2>4. QED
    BY <2>1, <2>2, <2>3
<1>6. \A s \in S : (s \in base => start[s] = <<>>)
                   /\ \A x \in X : step[<<s, x>>] = Append(x, s[2])
  OBVIOUS
<1>7. \A t \in SUBSET all, k \in NoneOrClass :
        /\ <<t, k>> \in S
        /\ <<t, k>> \in base <=> k \notin t
        /\ k \in t => next[<<t, k>>] = <<t \ {k}, superclass[k]>> /\ superclass[k] \in NoneOrClass
  BY DEF NoneOrClass
<1>. HIDE DEF S, X, measure, base, start, next, step
<1>8. PICK F : Solves(F, S, X, base, start, next, step)
  BY <1>3, <1>4, <1>5, Recursion
<1>. DEFINE f == [left \in SUBSET all |-> [k \in NoneOrClass |-> F[<<left, k>>]]]
<1>9. ASSUME NEW t \in SUBSET all, NEW k \in NoneOrClass
      PROVE  F[<<t, k>>] = IF k \notin t THEN <<>> ELSE Append(F[<<t \ {k}, superclass[k]>>], k)
  <2>1. CASE k \notin t
    BY <1>6, <1>7, <1>8, <2>1 DEF Solves
  <2>2. CASE k \in t
    <3>1. <<t, k>> \in S /\ <<t, k>> \notin base /\ next[<<t, k>>] = <<t \ {k}, superclass[k]>>
          /\ superclass[k] \in NoneOrClass /\ t \ {k} \in SUBSET all
      BY <1>7, <2>2
    <3>2. F[<<t \ {k}, superclass[k]>>] \in X
      BY <1>7, <1>8, <3>1 DEF Solves
    <3>3. F[<<t, k>>] = step[<<<<t, k>>, F[next[<<t, k>>]]>>]
      BY <1>8, <3>1 DEF Solves
    <3>4. step[<<<<t, k>>, F[<<t \ {k}, superclass[k]>>]>>] = Append(F[<<t \ {k}, superclass[k]>>], k)
      <4>1. PICK s : s = <<t, k>>
        OBVIOUS
      <4>2. s \in S /\ s[2] = k
        BY <3>1, <4>1
      <4>3. QED
        BY <1>6, <3>2, <4>1, <4>2
    <3>5. QED
      BY <2>2, <3>1, <3>3, <3>4
  <2>3. QED
    BY <2>1, <2>2
<1>10. \A t \in SUBSET all, k \in NoneOrClass : f[t][k] = F[<<t, k>>]
  OBVIOUS
<1>11. ASSUME NEW t \in SUBSET all
       PROVE  f[t] = [k \in NoneOrClass |-> IF k \notin t THEN <<>> ELSE Append(f[t \ {k}][superclass[k]], k)]
  <2>1. \A k \in NoneOrClass : k \in t => superclass[k] \in NoneOrClass /\ t \ {k} \in SUBSET all
    BY <1>7
  <2>2. \A k \in NoneOrClass :
            F[<<t, k>>] = IF k \notin t THEN <<>> ELSE Append(f[t \ {k}][superclass[k]], k)
    BY <1>9, <1>10, <2>1
  <2>3. f[t] = [k \in NoneOrClass |-> F[<<t, k>>]]
    OBVIOUS
  <2>. HIDE DEF f
  <2>4. QED
    BY <2>2, <2>3
<1>12. f = [t \in SUBSET all |-> f[t]]
  OBVIOUS
<1>. HIDE DEF f
<1>13. Appends(all, f)
  <2>1. f = [t \in SUBSET all |->
               [k \in NoneOrClass |-> IF k \notin t THEN <<>> ELSE Append(f[t \ {k}][superclass[k]], k)]]
    BY <1>11, <1>12
  <2>2. QED
    BY <2>1 DEF Appends, NoneOrClass
<1>14. QED
  BY <1>13

\* Whatever is left, append returns the chain of superclasses that are.
LEMMA Chains ==
    ASSUME superclass \in [Classes -> NoneOrClass], NEW all \in SUBSET Classes, IsFiniteSet(all),
           NEW f, Appends(all, f), NEW left \in SUBSET all, NEW k \in NoneOrClass
    PROVE  ChainOf(left, k, f[left][k])
<1>. DEFINE wrong == {t \in SUBSET all : ~\A c \in NoneOrClass : ChainOf(t, c, f[t][c])}
<1>1. SUFFICES ASSUME wrong # {} PROVE FALSE
  BY <1>1
<1>2. wrong \subseteq FiniteSubsetsOf(all)
  <2>1. \A t \in wrong : t \in SUBSET all
    OBVIOUS
  <2>2. \A t \in wrong : IsFiniteSet(t)
    BY <2>1, FS_Subset
  <2>3. QED
    BY <2>1, <2>2 DEF FiniteSubsetsOf
<1>3. PICK t \in wrong : \A u \in wrong : ~(<<u, t>> \in StrictSubsetOrdering(all))
  <2>1. IsWellFoundedOn(StrictSubsetOrdering(all), FiniteSubsetsOf(all))
    BY FS_StrictSubsetOrderingWellFounded
  <2>2. QED
    BY <1>1, <1>2, <2>1, WFMin
<1>4. PICK c \in NoneOrClass : ~ChainOf(t, c, f[t][c])
  BY <1>3
<1>5. t \in SUBSET all /\ f[t][c] = IF c \notin t THEN <<>> ELSE Append(f[t \ {c}][superclass[c]], c)
  <2>1. t \in SUBSET all
    BY <1>3
  <2>2. f = [u \in SUBSET all |->
               [x \in NoneOrClass |-> IF x \notin u THEN <<>> ELSE Append(f[u \ {x}][superclass[x]], x)]]
    BY DEF Appends, NoneOrClass
  <2>. HIDE DEF wrong
  <2>3. f[t] = [x \in NoneOrClass |-> IF x \notin t THEN <<>> ELSE Append(f[t \ {x}][superclass[x]], x)]
    BY <2>1, <2>2
  <2>4. QED
    BY <1>4, <2>1, <2>3
<1>6. CASE c \notin t
  <2>1. f[t][c] = <<>> /\ <<>> \in Seq(t) /\ Len(<<>>) = 0 /\ \A i \in 1..0 : FALSE
    BY <1>5, <1>6
  <2>2. QED
    BY <1>4, <1>6, <2>1 DEF ChainOf
<1>7. CASE c \in t
  <2>. DEFINE u == t \ {c}
  <2>1. u \in SUBSET all /\ c \in Classes /\ superclass[c] \in NoneOrClass
    BY <1>5, <1>7
  <2>2. u \notin wrong
    BY <1>3, <1>5, <1>7 DEF StrictSubsetOrdering
  <2>3. PICK seq : seq = f[u][superclass[c]]
    OBVIOUS
  <2>4. ChainOf(u, superclass[c], seq)
    BY <2>1, <2>2, <2>3
  <2>5. f[t][c] = Append(seq, c)
    BY <1>5, <1>7, <2>3
  <2>. HIDE DEF u
  <2>6. PICK n : n = Len(seq)
    OBVIOUS
  <2>7. /\ seq \in Seq(t) /\ n \in Nat
        /\ Append(seq, c) \in Seq(t) /\ Len(Append(seq, c)) = n + 1
        /\ \A i \in 1..n : Append(seq, c)[i] = seq[i] /\ seq[i] \in u
        /\ Append(seq, c)[n + 1] = c
    <3>1. seq \in Seq(u) /\ \A i \in 1..Len(seq) : seq[i] \in u
      BY <2>4, ElementOfSeq DEF ChainOf
    <3>2. seq \in Seq(t)
      BY <3>1, SeqMonotonic DEF u
    <3>3. QED
      BY <1>7, <2>6, <3>1, <3>2, AppendFacts
  <2>8. \A i \in 1..(n + 1) : i = n + 1 \/ i \in 1..n
    BY <2>7
  <2>9. ASSUME NEW i \in 1..(n + 1), i # 1
        PROVE  superclass[Append(seq, c)[i]] = Append(seq, c)[i - 1]
    <3>1. CASE i \in 1..n
      <4>1. i - 1 \in 1..n /\ superclass[seq[i]] = seq[i - 1]
        BY <2>4, <2>6, <2>7, <2>9, <3>1 DEF ChainOf
      <4>2. QED
        BY <2>7, <3>1, <4>1
    <3>2. CASE i = n + 1
      <4>1. n # 0 /\ n \in 1..n /\ i - 1 = n
        BY <2>7, <2>9, <3>2
      <4>2. superclass[c] \in u
        BY <2>4, <2>6, <4>1 DEF ChainOf
      <4>3. seq[n] = superclass[c]
        BY <2>4, <2>6, <4>2 DEF ChainOf
      <4>4. QED
        BY <2>7, <3>2, <4>1, <4>3
    <3>3. QED
      BY <2>8, <3>1, <3>2
  <2>10. PICK first : first = Append(seq, c)[1]
    OBVIOUS
  <2>11. superclass[first] \notin t \/ \E i \in 1..(n + 1) : Append(seq, c)[i] = superclass[first]
    <3>1. CASE n = 0
      <4>1. first = c
        BY <2>7, <2>10, <3>1
      <4>2. superclass[c] \notin u
        BY <2>4, <2>6, <3>1 DEF ChainOf
      <4>3. superclass[c] \notin t \/ superclass[c] = c
        BY <4>2 DEF u
      <4>4. QED
        BY <2>7, <3>1, <4>1, <4>3
    <3>2. CASE n # 0
      <4>1. 1 \in 1..n /\ n + 1 \in 1..(n + 1) /\ \A i \in 1..n : i \in 1..(n + 1)
        BY <2>7, <3>2
      <4>2. first = seq[1]
        BY <2>7, <2>10, <4>1
      <4>3. superclass[first] \notin u \/ \E i \in 1..n : seq[i] = superclass[first]
        BY <2>4, <2>6, <3>2, <4>2 DEF ChainOf
      <4>4. superclass[first] \notin u => superclass[first] \notin t \/ superclass[first] = c
        BY DEF u
      <4>5. QED
        BY <2>7, <4>1, <4>3, <4>4
    <3>3. QED
      BY <3>1, <3>2
  <2>12. n + 1 # 0
    BY <2>7
  <2>13. ChainOf(t, c, Append(seq, c))
    BY <1>7, <2>7, <2>9, <2>10, <2>11, <2>12 DEF ChainOf
  <2>14. QED
    BY <1>4, <2>5, <2>13
<1>8. QED
  BY <1>6, <1>7

\* The loop over the classes ends.
LEMMA OrdersExists ==
    ASSUME superclass \in [Classes -> NoneOrClass], NEW own \in Seq(Classes), NEW f, Appends(ToSet(own), f)
    PROVE  \E g : Orders(own, f, g) /\ g \in [0..Len(own) -> Seq(Classes)]
<1>. DEFINE n == Len(own)
            S == 0..n
            X == Seq(Classes)
            measure == [i \in S |-> i]
            base == {0}
            start == [i \in base |-> <<>>]
            next == [i \in S \ base |-> i - 1]
            step == [p \in S \X X |-> IF p[1] = 0 THEN <<>> ELSE p[2] \o f[ToSet(own) \ ToSet(p[2])][own[p[1]]]]
<1>1. n \in Nat /\ \A i \in 1..n : own[i] \in Classes
  BY LenProperties, ElementOfSeq
<1>2. /\ measure \in [S -> Nat] /\ base \in SUBSET S /\ start \in [base -> X]
      /\ next \in [S \ base -> S] /\ \A i \in S \ base : measure[next[i]] < measure[i]
  BY <1>1
<1>3. ASSUME NEW i \in S, NEW x \in X, i # 0
      PROVE  x \o f[ToSet(own) \ ToSet(x)][own[i]] \in X
  <2>1. own[i] \in NoneOrClass
    BY <1>1, <1>3 DEF NoneOrClass
  <2>2. ToSet(own) \in SUBSET Classes /\ IsFiniteSet(ToSet(own))
    BY ToSetFacts
  <2>3. ChainOf(ToSet(own) \ ToSet(x), own[i], f[ToSet(own) \ ToSet(x)][own[i]])
    BY <2>1, <2>2, Chains
  <2>4. f[ToSet(own) \ ToSet(x)][own[i]] \in Seq(Classes)
    BY <2>2, <2>3, SeqMonotonic DEF ChainOf
  <2>5. QED
    BY <2>4, ConcatProperties
<1>4. step \in [S \X X -> X]
  <2>1. \A p \in S \X X : p[1] # 0 => p[2] \o f[ToSet(own) \ ToSet(p[2])][own[p[1]]] \in X
    BY <1>3
  <2>2. QED
    BY <2>1
<1>5. \A i \in S : \A x \in X : i # 0 => step[<<i, x>>] = x \o f[ToSet(own) \ ToSet(x)][own[i]]
  OBVIOUS
<1>6. start[0] = <<>> /\ \A i \in S : i # 0 => next[i] = i - 1 /\ i - 1 \in S
  BY <1>1
<1>. HIDE DEF measure, start, next, step
<1>7. PICK g : Solves(g, S, X, base, start, next, step)
  BY <1>2, <1>4, Recursion
<1>8. g \in [S -> X]
  BY <1>7 DEF Solves
<1>9. ASSUME NEW i \in S
      PROVE  g[i] = IF i = 0 THEN <<>> ELSE g[i - 1] \o f[ToSet(own) \ ToSet(g[i - 1])][own[i]]
  <2>1. i = 0 => g[i] = <<>>
    BY <1>6, <1>7 DEF Solves
  <2>2. ASSUME i # 0
        PROVE  g[i] = g[i - 1] \o f[ToSet(own) \ ToSet(g[i - 1])][own[i]]
    <3>1. next[i] = i - 1 /\ i - 1 \in S /\ g[i - 1] \in X
      BY <1>6, <1>8, <2>2
    <3>2. g[i] = step[<<i, g[i - 1]>>]
      BY <1>7, <2>2, <3>1 DEF Solves
    <3>3. QED
      BY <1>5, <2>2, <3>1, <3>2
  <2>3. QED
    BY <2>1, <2>2
<1>10. Orders(own, f, g)
  <2>1. g = [i \in S |-> IF i = 0 THEN <<>> ELSE g[i - 1] \o f[ToSet(own) \ ToSet(g[i - 1])][own[i]]]
    BY <1>8, <1>9
  <2>2. QED
    BY <2>1 DEF Orders
<1>11. QED
  BY <1>8, <1>10

\* A superclass of the same package comes before a class.
InSuperclassOrder(all, seq) ==
    \A i \in 1..Len(seq) : superclass[seq[i]] \in all => \E j \in 1..(i - 1) : seq[j] = superclass[seq[i]]

\* Classes that do not inherit from themselves are brought in order, and none is left out.
LEMMA SuperclassesFirst ==
    ASSUME superclass \in [Classes -> NoneOrClass], NEW own \in Seq(Classes),
           NEW done \in SUBSET Classes, ~Cyclic(done, Superclasses),
           \A k \in ToSet(own) : superclass[k] # NoClass => k \in done
    PROVE  /\ SuperclassFirst(own) \in Seq(ToSet(own))
           /\ ToSet(own) \subseteq ToSet(SuperclassFirst(own))
           /\ InSuperclassOrder(ToSet(own), SuperclassFirst(own))
<1>. DEFINE all == ToSet(own)
            f == CHOOSE f : Appends(all, f)
            g == CHOOSE g : Orders(own, f, g)
<1>1. all \in SUBSET Classes /\ IsFiniteSet(all) /\ Len(own) \in Nat /\ \A i \in 1..Len(own) : own[i] \in all
  BY ToSetFacts
<1>2. Appends(all, f)
  BY <1>1, AppendsExists
<1>3. SuperclassFirst(own) = g[Len(own)]
  BY DEF SuperclassFirst, Appends, Orders
<1>. HIDE DEF f
<1>4. Orders(own, f, g)
  BY <1>2, OrdersExists
<1>. HIDE DEF g
<1>. DEFINE Good(i) == /\ g[i] \in Seq(all)
                       /\ \A j \in 1..i : own[j] \in ToSet(g[i])
                       /\ InSuperclassOrder(all, g[i])
            bad == {i \in 0..Len(own) : ~Good(i)}
<1>5. ASSUME NEW i \in 0..Len(own), i # 0, Good(i - 1)
      PROVE  Good(i)
  <2>1. PICK x : x = g[i - 1]
    OBVIOUS
  <2>2. PICK left : left = all \ ToSet(x)
    OBVIOUS
  <2>3. PICK a : a = f[left][own[i]]
    OBVIOUS
  <2>4. g[i] = x \o a
    BY <1>4, <1>5, <2>1, <2>2, <2>3 DEF Orders
  <2>5. left \in SUBSET all /\ own[i] \in all /\ own[i] \in NoneOrClass
    BY <1>1, <1>5, <2>2 DEF NoneOrClass
  <2>6. ChainOf(left, own[i], a)
    BY <1>1, <1>2, <2>3, <2>5, Chains
  <2>7. x \in Seq(all) /\ a \in Seq(all) /\ a \in Seq(left)
    BY <1>5, <2>1, <2>5, <2>6, SeqMonotonic DEF ChainOf
  <2>. DEFINE m == Len(x)
              n == Len(a)
  <2>8. /\ m \in Nat /\ n \in Nat /\ x \o a \in Seq(all) /\ Len(x \o a) = m + n
        /\ \A k \in 1..m : (x \o a)[k] = x[k]
        /\ \A k \in 1..n : (x \o a)[m + k] = a[k]
    <3>1. m \in Nat /\ n \in Nat
      BY <2>7, LenProperties
    <3>2. x \o a \in Seq(all) /\ Len(x \o a) = m + n
          /\ \A k \in 1..(m + n) : (x \o a)[k] = IF k <= m THEN x[k] ELSE a[k - m]
      BY <2>7, ConcatProperties
    <3>3. \A k \in 1..m : k \in 1..(m + n) /\ k <= m
      BY <3>1
    <3>4. \A k \in 1..n : m + k \in 1..(m + n) /\ ~(m + k <= m) /\ m + k - m = k
      BY <3>1
    <3>5. QED
      BY <3>1, <3>2, <3>3, <3>4
  <2>9. /\ ToSet(x) = {x[k] : k \in 1..m} /\ ToSet(x \o a) = {(x \o a)[k] : k \in 1..(m + n)}
        /\ ToSet(a) = {a[k] : k \in 1..n}
    BY <2>7, <2>8, ToSetFacts
  <2>10. /\ \A k \in 1..m : k \in 1..(m + n)
         /\ \A k \in 1..n : m + k \in 1..(m + n)
         /\ \A k \in 1..(m + n) : k \in 1..m \/ \E h \in 1..n : k = m + h
    <3>1. \A k \in 1..(m + n) : k \notin 1..m => k - m \in 1..n /\ k = m + (k - m)
      BY <2>8
    <3>2. \A k \in 1..m : k \in 1..(m + n)
      BY <2>8
    <3>3. \A k \in 1..n : m + k \in 1..(m + n)
      BY <2>8
    <3>4. QED
      BY <3>1, <3>2, <3>3
  <2>. HIDE DEF m, n, all, Good
  <2>11. ToSet(x) \subseteq ToSet(x \o a) /\ ToSet(a) \subseteq ToSet(x \o a)
    BY <2>8, <2>9, <2>10
  <2>12. ASSUME NEW j \in 1..i
         PROVE  own[j] \in ToSet(x \o a)
    <3>1. CASE j \in 1..(i - 1)
      BY <1>5, <2>1, <2>11, <3>1 DEF Good
    <3>2. CASE j = i
      <4>1. CASE own[i] \in left
        <5>1. n # 0 /\ a[n] = own[i]
          BY <2>6, <4>1 DEF ChainOf, n
        <5>2. n \in 1..n
          BY <2>8, <5>1
        <5>3. own[i] \in ToSet(a)
          BY <2>9, <5>1, <5>2
        <5>4. QED
          BY <2>11, <3>2, <5>3
      <4>2. CASE own[i] \notin left
        BY <2>2, <2>5, <2>11, <3>2, <4>2
      <4>3. QED
        BY <4>1, <4>2
    <3>3. j \in 1..(i - 1) \/ j = i
      BY <1>1
    <3>4. QED
      BY <3>1, <3>2, <3>3
  <2>13. ASSUME NEW h \in 1..n, superclass[a[h]] \in all
         PROVE  \E j \in 1..(m + h - 1) : (x \o a)[j] = superclass[a[h]]
    <3>1. CASE h # 1
      <4>1. superclass[a[h]] = a[h - 1]
        BY <2>6, <3>1 DEF ChainOf, n
      <4>2. h - 1 \in 1..n /\ m + (h - 1) \in 1..(m + h - 1)
        BY <2>8, <3>1
      <4>3. QED
        BY <2>8, <4>1, <4>2
    <3>2. CASE h = 1 /\ superclass[a[h]] \notin left
      <4>1. superclass[a[h]] \in ToSet(x)
        BY <2>2, <2>13, <3>2
      <4>2. PICK k \in 1..m : x[k] = superclass[a[h]]
        BY <2>9, <4>1
      <4>3. k \in 1..(m + h - 1)
        BY <2>8, <3>2
      <4>4. QED
        BY <2>8, <4>2, <4>3
    <3>3. CASE h = 1 /\ superclass[a[h]] \in left
      <4>1. n # 0
        BY <2>8
      <4>2. superclass[a[1]] \in ToSet(a)
        BY <2>6, <2>9, <3>3, <4>1 DEF ChainOf, n
      <4>3. ASSUME NEW c \in ToSet(a)
            PROVE  superclass[c] \in ToSet(a) /\ c \in all
        <5>1. PICK k \in 1..n : c = a[k]
          BY <2>9
        <5>2. k # 1 => superclass[c] = a[k - 1] /\ k - 1 \in 1..n
          BY <2>6, <2>8, <5>1 DEF ChainOf, n
        <5>3. a[k] \in all
          BY <2>7, <5>1, ElementOfSeq DEF n
        <5>4. QED
          BY <2>9, <4>2, <5>1, <5>2, <5>3
      <4>4. ASSUME NEW c \in ToSet(a)
            PROVE  c \in done /\ Superclasses[c] \cap ToSet(a) # {}
        <5>1. superclass[c] \in ToSet(a) /\ c \in all /\ superclass[c] \in all
          BY <4>3
        <5>2. c \in Classes /\ superclass[c] \in Classes /\ superclass[c] # NoClass
          BY <1>1, <5>1, ClassesAssumption
        <5>3. superclass[c] \in Superclasses[c]
          BY <5>2 DEF Superclasses
        <5>4. c \in done
          BY <5>1, <5>2 DEF all
        <5>5. QED
          BY <5>1, <5>3, <5>4
      <4>5. QED
        BY <4>2, <4>4, CyclicNodes
    <3>4. QED
      BY <2>13, <3>1, <3>2, <3>3
  <2>14. InSuperclassOrder(all, x \o a)
    <3> SUFFICES ASSUME NEW k \in 1..(m + n), superclass[(x \o a)[k]] \in all
                 PROVE  \E j \in 1..(k - 1) : (x \o a)[j] = superclass[(x \o a)[k]]
      BY <2>8 DEF InSuperclassOrder
    <3>1. CASE k \in 1..m
      <4>1. superclass[x[k]] \in all /\ (x \o a)[k] = x[k]
        BY <2>8, <3>1
      <4>2. PICK j \in 1..(k - 1) : x[j] = superclass[x[k]]
        BY <1>5, <2>1, <3>1, <4>1 DEF Good, InSuperclassOrder, m
      <4>3. j \in 1..m
        BY <2>8, <3>1
      <4>4. QED
        BY <2>8, <4>1, <4>2, <4>3
    <3>2. CASE k \notin 1..m
      <4>1. PICK h \in 1..n : k = m + h
        BY <2>10, <3>2
      <4>2. (x \o a)[k] = a[h]
        BY <2>8, <4>1
      <4>3. PICK j \in 1..(m + h - 1) : (x \o a)[j] = superclass[a[h]]
        BY <2>13, <4>2
      <4>4. j \in 1..(k - 1)
        BY <2>8, <4>1
      <4>5. QED
        BY <4>2, <4>3, <4>4
    <3>3. QED
      BY <3>1, <3>2
  <2>15. QED
    BY <2>4, <2>8, <2>12, <2>14 DEF Good
<1>6. Good(0)
  <2>1. g[0] = <<>>
    BY <1>1, <1>4 DEF Orders
  <2>2. <<>> \in Seq(all) /\ Len(<<>>) = 0 /\ \A j \in 1..0 : FALSE
    OBVIOUS
  <2>3. QED
    BY <2>1, <2>2 DEF InSuperclassOrder
<1>. HIDE DEF Good
<1>7. bad = {}
  <2>1. SUFFICES ASSUME bad # {} PROVE FALSE
    OBVIOUS
  <2>2. bad \in SUBSET Nat
    BY <1>1
  <2>3. PICK i \in bad : \A j \in bad : i <= j
    BY <2>1, <2>2, Least
  <2>4. i \in 0..Len(own) /\ ~Good(i) /\ i # 0
    BY <1>6, <2>3
  <2>5. i - 1 \in 0..Len(own) /\ ~(i <= i - 1)
    BY <1>1, <2>4
  <2>6. Good(i - 1)
    BY <2>3, <2>5
  <2>7. QED
    BY <1>5, <2>4, <2>6
<1>8. Good(Len(own))
  <2>1. Len(own) \in 0..Len(own)
    BY <1>1
  <2>2. QED
    BY <1>7, <2>1
<1>9. ASSUME NEW k \in all
      PROVE  k \in ToSet(g[Len(own)])
  <2>1. PICK j \in 1..Len(own) : own[j] = k
    BY ToSetFacts
  <2>2. QED
    BY <1>8, <2>1 DEF Good
<1>10. QED
  BY <1>3, <1>8, <1>9 DEF Good

(***************************************************************************)
(* Inheriting                                                              *)
(***************************************************************************)

\* Only the last of the packages being loaded is analysed.
OneAnalysed ==
    \A p \in Packages : progress[p] \in {"supertypes", "inheriting"} => loading # <<>> /\ Last(loading) = p

\* A class is declared in one package, and listed there.
ClassesListed ==
    /\ \A p, q \in Packages : exportedTypes[p] \cap exportedTypes[q] # {} => p = q
    /\ \A p \in Packages : classes[p] \in Seq(exportedTypes[p]) /\ exportedTypes[p] \subseteq ToSet(classes[p])
    /\ inherited \subseteq Declared

\* A class whose analysis began is analysed, or there is a call for it, which is made for the
\* package being analysed; until it looks at the superclass, that may not be one the package sees.
Accounted(calls, begun, done) ==
    /\ \A k \in begun : k \in done \/ \E i \in 1..Len(calls) : calls[i].class = k
    /\ \A i \in 1..Len(calls) : loading # <<>> /\ calls[i].class \in exportedTypes[Last(loading)]
    /\ \A k \in begun : \A p \in Packages : k \in exportedTypes[p] =>
           \/ Visible(p, superclass[k])
           \/ \E i \in 1..Len(calls) : calls[i].class = k /\ calls[i].at = "superclass"

\* The loop over the classes began the analysis of those it passed.
LoopedOver ==
    \A p \in Packages : progress[p] = "supertypes" /\ outcome # "circularInheritance" =>
        \A i \in 1..Len(classes[p]) : i <= position =>
            superclass[classes[p][i]] = NoClass \/ classes[p][i] \in started

\* The classes of a package whose superclasses are analysed are in order.
BroughtInOrder ==
    \A p \in Packages : progress[p] \in {"inheriting", "analysed"} =>
        /\ InSuperclassOrder(exportedTypes[p], classes[p])
        /\ \A k \in exportedTypes[p] : superclass[k] # NoClass => k \in analysed

\* The loop over the classes let those it passed inherit.
InheritedSoFar ==
    \A p \in Packages :
        /\ progress[p] = "inheriting" =>
               \A i \in 1..Len(classes[p]) : i <= position => classes[p][i] \in inherited
        /\ progress[p] = "analysed" => exportedTypes[p] \subseteq inherited

InheritInv ==
    /\ OneAnalysed /\ ClassesListed /\ Accounted(analyses, started, analysed)
    /\ LoopedOver /\ BroughtInOrder /\ InheritedSoFar /\ InheritedAfterSuperclass

\* What a package sees is its own or of a package whose classes are complete.
LEMMA OwnOrComplete ==
    ASSUME ClassInv, InheritInv, NEW p \in Packages, Loading(p), NEW k, Visible(p, k)
    PROVE  \/ k \in exportedTypes[p]
           \/ \E q \in Packages : /\ progress[q] = "analysed" /\ k \in exportedTypes[q]
                                  /\ superclass[k] # NoClass => k \in analysed
<1>1. SUFFICES ASSUME NEW q \in imports[p], k \in exportedTypes[q], q # p
               PROVE  \E r \in Packages : /\ progress[r] = "analysed" /\ k \in exportedTypes[r]
                                          /\ superclass[k] # NoClass => k \in analysed
  BY DEF Visible
<1>2. outcome = "running" /\ loading # <<>> /\ Last(loading) = p
  BY DEF Loading
<1>3. FinishedLoading(q) /\ q \in Packages
  BY <1>2, FinishedImports DEF ClassInv, ImportInv, PackageTypes
<1>4. progress[q] = "analysed"
  BY <1>1, <1>2, <1>3 DEF FinishedLoading, InheritInv, OneAnalysed
<1>5. QED
  BY <1>1, <1>3, <1>4 DEF InheritInv, BroughtInOrder

\* A call for a class of the package is accounted for.
LEMMA CallAccounted ==
    ASSUME NEW begun, NEW done, NEW calls \in Seq(Call), Accounted(calls, begun, done),
           NEW k \in Classes, loading # <<>>, k \in exportedTypes[Last(loading)]
    PROVE  Accounted(Append(calls, [class |-> k, at |-> "superclass"]), begun \cup {k}, done)
<1>. DEFINE e == [class |-> k, at |-> "superclass"]
            more == Append(calls, e)
            n == Len(calls)
<1>1. e \in Call
  BY DEF Call, Places
<1>2. /\ n \in Nat /\ Len(more) = n + 1 /\ \A i \in 1..n : more[i] = calls[i]
      /\ more[n + 1].class = k /\ more[n + 1].at = "superclass"
  BY <1>1, AppendFacts
<1>3. n + 1 \in 1..(n + 1) /\ (\A i \in 1..n : i \in 1..(n + 1)) /\ \A i \in 1..(n + 1) : i \in 1..n \/ i = n + 1
  BY <1>2
<1>. HIDE DEF more, e, n
<1>4. \A x \in begun \cup {k} : x \in done \/ \E i \in 1..Len(more) : more[i].class = x
  BY <1>2, <1>3 DEF Accounted, n
<1>5. \A i \in 1..Len(more) : loading # <<>> /\ more[i].class \in exportedTypes[Last(loading)]
  BY <1>2, <1>3 DEF Accounted, n
<1>6. \A x \in begun \cup {k} : \A p \in Packages : x \in exportedTypes[p] =>
          \/ Visible(p, superclass[x])
          \/ \E i \in 1..Len(more) : more[i].class = x /\ more[i].at = "superclass"
  BY <1>2, <1>3 DEF Accounted, n
<1>7. QED
  BY <1>4, <1>5, <1>6 DEF Accounted, more, e

\* So is the last call when it goes on, once the superclass is known to be visible.
LEMMA GoesOn ==
    ASSUME NEW begun, NEW done, NEW calls \in Seq(Call), Accounted(calls, begun, done), calls # <<>>,
           NEW place \in Places,
           \/ calls[Len(calls)].at # "superclass"
           \/ \A p \in Packages : calls[Len(calls)].class \in exportedTypes[p] =>
                  Visible(p, superclass[calls[Len(calls)].class])
    PROVE  Accounted([calls EXCEPT ![Len(calls)].at = place], begun, done)
<1>. DEFINE n == Len(calls)
            later == [calls EXCEPT ![n].at = place]
<1>1. /\ n \in Nat \ {0} /\ Len(later) = n
      /\ \A i \in 1..n : later[i].class = calls[i].class
      /\ \A i \in 1..n : i # n => later[i] = calls[i]
  BY ReachedFacts
<1>. HIDE DEF later
<1>2. \A x \in begun : x \in done \/ \E i \in 1..Len(later) : later[i].class = x
  BY <1>1 DEF Accounted
<1>3. \A i \in 1..Len(later) : loading # <<>> /\ later[i].class \in exportedTypes[Last(loading)]
  BY <1>1 DEF Accounted
<1>4. \A x \in begun : \A p \in Packages : x \in exportedTypes[p] =>
          \/ Visible(p, superclass[x])
          \/ \E i \in 1..Len(later) : later[i].class = x /\ later[i].at = "superclass"
  BY <1>1 DEF Accounted
<1>5. QED
  BY <1>2, <1>3, <1>4 DEF Accounted, later

\* So are the calls when the last one returned.
LEMMA ReturnAccounted ==
    ASSUME NEW begun, NEW done, NEW calls \in Seq(Call), Accounted(calls, begun, done), calls # <<>>,
           calls[Len(calls)].at # "superclass"
    PROVE  Accounted(Front(calls), begun, done \cup {calls[Len(calls)].class})
<1>. DEFINE n == Len(calls)
            rest == Front(calls)
<1>1. n \in Nat \ {0} /\ Len(rest) = n - 1 /\ \A i \in 1..(n - 1) : rest[i] = calls[i]
  BY FrontFacts
<1>2. \A i \in 1..n : i = n \/ i \in 1..(n - 1)
  BY <1>1
<1>3. \A i \in 1..(n - 1) : i \in 1..n
  BY <1>1
<1>. HIDE DEF rest
<1>4. \A x \in begun : x \in done \cup {calls[n].class} \/ \E i \in 1..Len(rest) : rest[i].class = x
  BY <1>1, <1>2 DEF Accounted
<1>5. \A i \in 1..Len(rest) : loading # <<>> /\ rest[i].class \in exportedTypes[Last(loading)]
  BY <1>1, <1>3 DEF Accounted
<1>6. \A x \in begun : \A p \in Packages : x \in exportedTypes[p] =>
          \/ Visible(p, superclass[x])
          \/ \E i \in 1..Len(rest) : rest[i].class = x /\ rest[i].at = "superclass"
  BY <1>1, <1>2 DEF Accounted
<1>7. QED
  BY <1>4, <1>5, <1>6 DEF Accounted, rest

\* While nothing is called, what was begun is analysed, and sees its superclass.
LEMMA NothingCalled ==
    ASSUME Accounted(analyses, started, analysed), analyses = <<>>
    PROVE  /\ started \subseteq analysed
           /\ \A k \in started : \A p \in Packages : k \in exportedTypes[p] => Visible(p, superclass[k])
<1>1. \A i \in 1..Len(analyses) : FALSE
  OBVIOUS
<1>2. QED
  BY <1>1 DEF Accounted

\* This stays so when packages import more and declare other classes.
LEMMA NothingCalledLater ==
    ASSUME Accounted(analyses, started, analysed), analyses = <<>>, UNCHANGED superTypeVars,
           \A k \in started : superclass'[k] = superclass[k],
           \A p \in Packages : /\ imports[p] \subseteq imports'[p] /\ exportedTypes[p] \subseteq exportedTypes'[p]
                               /\ \A k \in started : k \in exportedTypes'[p] => k \in exportedTypes[p],
           \A p \in Packages : imports[p] \subseteq Packages
    PROVE  Accounted(analyses, started, analysed)'
<1>1. \A i \in 1..Len(analyses') : FALSE
  BY DEF superTypeVars
<1>2. \A k \in started' : k \in analysed'
  BY NothingCalled DEF superTypeVars
<1>3. ASSUME NEW k \in started', NEW p \in Packages, k \in exportedTypes'[p]
      PROVE  Visible(p, superclass[k])'
  <2>1. k \in started /\ superclass'[k] = superclass[k] /\ k \in exportedTypes[p]
    BY <1>3 DEF superTypeVars
  <2>2. Visible(p, superclass[k])
    BY <2>1, NothingCalled
  <2>3. QED
    BY <2>1, <2>2 DEF Visible
<1>4. QED
  BY <1>1, <1>2, <1>3 DEF Accounted

\* What analyseSuperType does when it is called.
LEMMA CallMade ==
    ASSUME ClassInv, InheritInv, NEW calls \in Seq(Call), Accounted(calls, started, analysed), NEW busy,
           NEW k \in Classes, loading # <<>>,
           k \in exportedTypes[Last(loading)] \/ superclass[k] = NoClass \/ k \in analysed,
           AnalyseSuperType(k, calls, busy)
    PROVE  /\ Accounted(analyses', started', analysed) /\ started \subseteq started'
           /\ outcome' # "circularInheritance" => superclass[k] = NoClass \/ k \in started'
<1>1. analysed \subseteq started
  BY DEF ClassInv, ClassTypes
<1>2. CASE superclass[k] = NoClass \/ k \in analysed
  BY <1>1, <1>2 DEF AnalyseSuperType
<1>3. CASE ~(superclass[k] = NoClass \/ k \in analysed) /\ InheritsFromItself(k, busy)
  BY <1>3 DEF AnalyseSuperType, Throw, InheritInv
<1>4. CASE ~(superclass[k] = NoClass \/ k \in analysed) /\ ~InheritsFromItself(k, busy) /\ k \in started
  BY <1>4 DEF AnalyseSuperType
<1>5. CASE ~(superclass[k] = NoClass \/ k \in analysed) /\ ~InheritsFromItself(k, busy) /\ k \notin started
  <2>1. analyses' = Append(calls, [class |-> k, at |-> "superclass"]) /\ started' = started \cup {k}
    BY <1>5 DEF AnalyseSuperType
  <2>2. QED
    BY <1>5, <2>1, CallAccounted
<1>6. QED
  BY <1>2, <1>3, <1>4, <1>5

\* A step of the analysis of superclasses.
LEMMA AnalysisGoesOn ==
    ASSUME ClassInv, InheritInv, UNCHANGED <<packageVars, classes, declarationVars, inherited>>,
           analysed \subseteq analysed', Analysing, Accounted(analyses', started', analysed'), LoopedOver'
    PROVE  InheritInv'
<1>1. /\ UNCHANGED <<loading, progress, imports, classes, exportedTypes, superclass, inherited>>
      /\ Declared' = Declared
  BY DEF packageVars, declarationVars, Declared
<1>2. OneAnalysed' /\ ClassesListed'
  BY <1>1 DEF InheritInv, OneAnalysed, ClassesListed
<1>3. \A p, k : Visible(p, k)' <=> Visible(p, k)
  BY <1>1 DEF Visible
<1>4. Accounted(analyses, started, analysed)'
  BY <1>1, <1>3 DEF Accounted
<1>5. BroughtInOrder'
  BY <1>1 DEF InheritInv, BroughtInOrder, InSuperclassOrder
<1>6. \A p \in Packages : progress[p] # "inheriting"
  BY DEF InheritInv, OneAnalysed, Analysing
<1>7. InheritedSoFar'
  BY <1>1, <1>6 DEF InheritInv, InheritedSoFar
<1>8. InheritedAfterSuperclass'
  BY <1>1 DEF InheritInv, InheritedAfterSuperclass
<1>9. QED
  BY <1>2, <1>4, <1>5, <1>7, <1>8 DEF InheritInv

\* The loop goes no further while superclasses are analysed.
LEMMA LoopWaits ==
    ASSUME InheritInv, UNCHANGED <<packageVars, classes, declarationVars, position>>, started \subseteq started',
           outcome # "circularInheritance"
    PROVE  LoopedOver'
<1>1. UNCHANGED <<progress, classes, superclass, position>>
  BY DEF packageVars, declarationVars
<1>2. QED
  BY <1>1 DEF InheritInv, LoopedOver

\* The steps of the analysis of superclasses.
LEMMA SuperTypesInherit ==
    ASSUME ClassInv, InheritInv, NEW p \in Packages, SuperTypeStep(p)
    PROVE  InheritInv'
<1>0. Accounted(analyses, started, analysed) /\ analyses \in Seq(Call) /\ position \in Nat
  BY DEF InheritInv, ClassInv, ClassTypes
<1>1. CASE NextSuperType(p)
  <2>. DEFINE k == classes[p][position + 1]
  <2>1. /\ AnalysingSuperTypes(p) /\ analyses = <<>> /\ position < Len(classes[p])
        /\ position' = position + 1
        /\ UNCHANGED <<packageVars, classes, declarationVars, analysed, resultVars>>
        /\ AnalyseSuperType(k, <<>>, analysing)
    BY <1>1 DEF NextSuperType
  <2>2. /\ Analysing /\ Loading(p) /\ progress[p] = "supertypes"
        /\ outcome = "running" /\ loading # <<>> /\ Last(loading) = p
    BY <2>1 DEF AnalysingSuperTypes, Loading, Analysing
  <2>3. classes[p] \in Seq(exportedTypes[p]) /\ exportedTypes[p] \subseteq Classes
    BY DEF InheritInv, ClassesListed, ClassInv, ClassTypes
  <2>4. position + 1 \in 1..Len(classes[p])
    BY <1>0, <2>1, <2>3, LenProperties
  <2>5. k \in exportedTypes[p] /\ k \in Classes
    BY <2>3, <2>4, ElementOfSeq
  <2>. HIDE DEF k
  <2>6. <<>> \in Seq(Call) /\ Accounted(<<>>, started, analysed)
    BY <1>0, <2>1
  <2>7. /\ Accounted(analyses', started', analysed) /\ started \subseteq started'
        /\ outcome' # "circularInheritance" => superclass[k] = NoClass \/ k \in started'
    BY <2>1, <2>2, <2>5, <2>6, CallMade
  <2>8. LoopedOver'
    <3> SUFFICES ASSUME NEW q \in Packages, progress'[q] = "supertypes", outcome' # "circularInheritance",
                        NEW i \in 1..Len(classes'[q]), i <= position'
                 PROVE  superclass'[classes'[q][i]] = NoClass \/ classes'[q][i] \in started'
      BY DEF LoopedOver
    <3>1. UNCHANGED <<progress, classes, superclass>>
      BY <2>1 DEF packageVars, declarationVars
    <3>2. q = p
      BY <2>2, <3>1 DEF InheritInv, OneAnalysed
    <3>3. CASE i <= position
      <4>1. superclass[classes[q][i]] = NoClass \/ classes[q][i] \in started
        BY <2>2, <3>1, <3>2, <3>3 DEF InheritInv, LoopedOver
      <4>2. QED
        BY <2>7, <3>1, <4>1
    <3>4. CASE ~(i <= position)
      <4>1. i = position + 1
        BY <1>0, <2>1, <2>3, <3>1, <3>2, <3>4, LenProperties
      <4>2. QED
        BY <2>7, <3>1, <3>2, <4>1 DEF k
    <3>5. QED
      BY <3>3, <3>4
  <2>9. QED
    BY <2>1, <2>2, <2>7, <2>8, AnalysisGoesOn DEF resultVars
<1>2. ASSUME NEW place \in Places, At(p, place)
      PROVE  /\ analyses # <<>> /\ Analysing /\ Loading(p) /\ outcome # "circularInheritance"
             /\ loading # <<>> /\ Last(loading) = p
             /\ analyses[Len(analyses)].class = Current /\ analyses[Len(analyses)].at = place
             /\ Current \in Classes /\ superclass[Current] \in Classes /\ Current \in exportedTypes[p]
  <2>1. /\ analyses # <<>> /\ Current \in Classes /\ superclass[Current] \in Classes /\ Len(analyses) \in 1..Len(analyses)
        /\ analyses[Len(analyses)] = [class |-> Current, at |-> place]
        /\ outcome = "running" /\ loading # <<>> /\ Last(loading) = p
    BY <1>2, LastCall
  <2>2. Current \in exportedTypes[p]
    BY <1>0, <2>1 DEF Accounted
  <2>3. QED
    BY <1>2, <2>1, <2>2, AtAnalysing DEF Loading
<1>3. /\ "superclass" \in Places /\ "offset" \in Places /\ "argument" \in Places /\ "type" \in Places
      /\ \A place \in Places : analyses # <<>> => Reached(place) \in Seq(Call)
  <2>1. \A place \in Places : analyses # <<>> => Reached(place) \in Seq(Call)
    BY <1>0, ReachedFacts DEF Reached
  <2>2. QED
    BY <2>1 DEF Places
<1>4. CASE AnalyseSuperclass(p)
  <2>1. /\ At(p, "superclass") /\ Visible(p, superclass[Current])
        /\ AnalyseSuperType(superclass[Current], Reached("offset"), analysing')
        /\ UNCHANGED <<packageVars, classes, declarationVars, position, analysed, resultVars>>
    BY <1>4 DEF AnalyseSuperclass
  <2>2. \A q \in Packages : Current \in exportedTypes[q] => Visible(q, superclass[Current])
    <3>1. Current \in exportedTypes[p]
      BY <1>2, <1>3, <2>1
    <3>2. QED
      BY <2>1, <3>1 DEF InheritInv, ClassesListed
  <2>3. Accounted(Reached("offset"), started, analysed)
    BY <1>0, <1>2, <1>3, <2>1, <2>2, GoesOn DEF Reached
  <2>4. superclass[Current] \in exportedTypes[p] \/ superclass[superclass[Current]] = NoClass
            \/ superclass[Current] \in analysed
    BY <1>2, <1>3, <2>1, OwnOrComplete
  <2>5. Accounted(analyses', started', analysed) /\ started \subseteq started'
    BY <1>2, <1>3, <2>1, <2>3, <2>4, CallMade
  <2>6. LoopedOver'
    BY <1>2, <1>3, <2>1, <2>5, LoopWaits
  <2>7. QED
    BY <1>2, <1>3, <2>1, <2>5, <2>6, AnalysisGoesOn DEF resultVars
<1>5. CASE OffsetIndices(p)
  <2>1. /\ At(p, "offset") /\ analyses' = Reached("argument")
        /\ UNCHANGED <<packageVars, classes, declarationVars, position, started, analysed, resultVars>>
    BY <1>5 DEF OffsetIndices
  <2>2. Accounted(analyses', started', analysed)
    BY <1>0, <1>2, <1>3, <2>1, GoesOn DEF Reached
  <2>3. LoopedOver'
    BY <1>2, <1>3, <2>1, LoopWaits
  <2>4. QED
    BY <1>2, <1>3, <2>1, <2>2, <2>3, AnalysisGoesOn DEF resultVars
<1>6. CASE AnalyseArgument(p)
  <2>. DEFINE arg == argument[Current]
  <2>1. /\ At(p, "argument") /\ (arg = NoClass \/ Visible(p, arg))
        /\ IF arg = NoClass \/ arg \in started
           THEN analyses' = Reached("type") /\ UNCHANGED <<started, hasError, outcome>>
           ELSE AnalyseSuperType(arg, Reached("type"), analysing)
        /\ UNCHANGED <<packageVars, classes, declarationVars, position, analysed, resultVars>>
    BY <1>6 DEF AnalyseArgument
  <2>2. Accounted(Reached("type"), started, analysed)
    BY <1>0, <1>2, <1>3, <2>1, GoesOn DEF Reached
  <2>3. arg \in Classes \cup {NoClass}
    BY <1>2, <1>3, <2>1 DEF ClassInv, ClassTypes
  <2>. HIDE DEF arg
  <2>4. Accounted(analyses', started', analysed) /\ started \subseteq started'
    <3>1. CASE arg = NoClass \/ arg \in started
      BY <2>1, <2>2, <3>1
    <3>2. CASE ~(arg = NoClass \/ arg \in started)
      <4>1. arg \in exportedTypes[p] \/ superclass[arg] = NoClass \/ arg \in analysed
        BY <1>2, <1>3, <2>1, <3>2, OwnOrComplete
      <4>2. QED
        BY <1>2, <1>3, <2>1, <2>2, <2>3, <3>2, <4>1, CallMade
    <3>3. QED
      BY <3>1, <3>2
  <2>5. LoopedOver'
    BY <1>2, <1>3, <2>1, <2>4, LoopWaits
  <2>6. QED
    BY <1>2, <1>3, <2>1, <2>4, <2>5, AnalysisGoesOn DEF resultVars
<1>7. CASE SuperTypeAnalysed(p)
  <2>1. /\ At(p, "type") /\ analyses' = Front(analyses) /\ analysed' = analysed \cup {Current}
        /\ UNCHANGED <<packageVars, classes, declarationVars, position, started, resultVars>>
    BY <1>7 DEF SuperTypeAnalysed
  <2>2. Accounted(analyses', started', analysed')
    BY <1>0, <1>2, <1>3, <2>1, ReturnAccounted
  <2>3. LoopedOver'
    BY <1>2, <1>3, <2>1, LoopWaits
  <2>4. QED
    BY <1>2, <1>3, <2>1, <2>2, <2>3, AnalysisGoesOn DEF resultVars
<1>8. QED
  BY <1>1, <1>4, <1>5, <1>6, <1>7 DEF SuperTypeStep

\* While the last package is parsed or inherits, there are no calls, and no other is analysed.
LEMMA NotAnalysing ==
    ASSUME ClassInv, InheritInv, NEW p \in Packages, Loading(p), progress[p] # "supertypes"
    PROVE  /\ analyses = <<>> /\ outcome = "running" /\ loading # <<>> /\ Last(loading) = p
           /\ \A q \in Packages : progress[q] # "supertypes" /\ (progress[q] = "inheriting" => q = p)
           /\ Accounted(analyses, started, analysed) /\ \A q \in Packages : imports[q] \subseteq Packages
<1>1. outcome = "running" /\ loading # <<>> /\ Last(loading) = p
  BY DEF Loading
<1>2. analyses = <<>>
  BY <1>1 DEF ClassInv, CallsAreNested
<1>3. \A q \in Packages : progress[q] # "supertypes" /\ (progress[q] = "inheriting" => q = p)
  BY <1>1 DEF InheritInv, OneAnalysed
<1>4. QED
  BY <1>1, <1>2, <1>3 DEF InheritInv, ClassInv, ImportInv, PackageTypes

\* Steps that only report an error or generate code.
LEMMA NothingInherits ==
    ASSUME InheritInv, UNCHANGED <<loading, progress, imports, classes, exportedTypes, superclass, position, superTypeVars, inherited>>,
           outcome # "circularInheritance" \/ outcome' = outcome
    PROVE  InheritInv'
<1>1. UNCHANGED <<analyses, started, analysed>> /\ Declared' = Declared /\ \A p, k : Visible(p, k)' <=> Visible(p, k)
  BY DEF superTypeVars, Declared, Visible
<1>2. OneAnalysed' /\ ClassesListed' /\ LoopedOver'
  BY <1>1 DEF InheritInv, OneAnalysed, ClassesListed, LoopedOver
<1>3. Accounted(analyses, started, analysed)'
  BY <1>1 DEF InheritInv, Accounted
<1>4. BroughtInOrder' /\ InheritedSoFar' /\ InheritedAfterSuperclass'
  BY <1>1 DEF InheritInv, BroughtInOrder, InSuperclassOrder, InheritedSoFar, InheritedAfterSuperclass
<1>5. QED
  BY <1>2, <1>3, <1>4 DEF InheritInv

\* A package is imported.
LEMMA LoadInherits ==
    ASSUME ClassInv, InheritInv, NEW p \in Packages, NEW q \in Packages, LoadPackage(p, q)
    PROVE  InheritInv'
<1>1. /\ Loading(p) /\ progress[p] = "parsing"
      /\ imports' = [imports EXCEPT ![p] = @ \cup {q}]
      /\ progress' = progress \/ (progress[q] = "absent" /\ progress' = [progress EXCEPT ![q] = "parsing"])
      /\ UNCHANGED <<classes, exportedTypes, superclass, position, superTypeVars, inherited>>
  BY DEF LoadPackage, Parsing, declarationVars, resultVars
<1>2. /\ analyses = <<>> /\ Accounted(analyses, started, analysed)
      /\ \A x \in Packages : progress[x] # "supertypes" /\ progress[x] # "inheriting" /\ imports[x] \subseteq Packages
  BY <1>1, NotAnalysing
<1>3. \A x \in Packages : /\ progress'[x] # "supertypes" /\ progress'[x] # "inheriting"
                          /\ progress'[x] = "analysed" => progress[x] = "analysed"
  BY <1>1, <1>2 DEF ClassInv, ImportInv, PackageTypes
<1>4. Declared' = Declared
  BY <1>1 DEF Declared
<1>5. OneAnalysed' /\ ClassesListed' /\ LoopedOver'
  BY <1>1, <1>3, <1>4 DEF InheritInv, OneAnalysed, ClassesListed, LoopedOver
<1>6. Accounted(analyses, started, analysed)'
  <2>1. \A x \in Packages : imports[x] \subseteq imports'[x]
    BY <1>1 DEF ClassInv, ImportInv, PackageTypes
  <2>2. QED
    BY <1>1, <1>2, <2>1, NothingCalledLater
<1>7. BroughtInOrder'
  BY <1>1, <1>3 DEF InheritInv, BroughtInOrder, InSuperclassOrder, superTypeVars
<1>8. InheritedSoFar' /\ InheritedAfterSuperclass'
  BY <1>1, <1>3 DEF InheritInv, InheritedSoFar, InheritedAfterSuperclass, superTypeVars
<1>9. QED
  BY <1>5, <1>6, <1>7, <1>8 DEF InheritInv

\* A class is declared.
LEMMA DeclarationInherits ==
    ASSUME ClassInv, InheritInv, NEW p \in Packages, NEW k \in Classes, NEW super \in Classes \cup {NoClass},
           NEW arg \in Classes \cup {NoClass}, DeclareClass(p, k, super, arg)
    PROVE  InheritInv'
<1>1. /\ Loading(p) /\ progress[p] = "parsing" /\ k \notin Declared
      /\ classes' = [classes EXCEPT ![p] = Append(@, k)]
      /\ exportedTypes' = [exportedTypes EXCEPT ![p] = @ \cup {k}]
      /\ superclass' = [superclass EXCEPT ![k] = super]
      /\ UNCHANGED <<loading, progress, imports, position, superTypeVars, inherited>>
  BY DEF DeclareClass, Parsing, packageVars, resultVars
<1>2. /\ analyses = <<>> /\ Accounted(analyses, started, analysed)
      /\ \A x \in Packages : progress[x] # "supertypes" /\ progress[x] # "inheriting" /\ imports[x] \subseteq Packages
  BY <1>1, NotAnalysing
<1>3. /\ \A x \in Packages : /\ exportedTypes'[x] = IF x = p THEN exportedTypes[p] \cup {k} ELSE exportedTypes[x]
                             /\ classes'[x] = IF x = p THEN Append(classes[p], k) ELSE classes[x]
      /\ \A x \in Classes : superclass'[x] = IF x = k THEN super ELSE superclass[x]
      /\ \A x \in Packages : k \notin exportedTypes[x] /\ exportedTypes[x] \subseteq Classes
  <2>1. classes = [x \in Packages |-> classes[x]] /\ exportedTypes \in [Packages -> SUBSET Classes]
        /\ superclass \in [Classes -> Classes \cup {NoClass}]
    BY DEF ClassInv, ClassTypes
  <2>2. \A x \in Packages : classes'[x] = IF x = p THEN Append(classes[p], k) ELSE classes[x]
    BY <1>1, <2>1
  <2>3. QED
    BY <1>1, <2>1, <2>2 DEF Declared
<1>4. Declared \subseteq Declared' /\ started \subseteq Declared /\ inherited \subseteq Declared
  BY <1>3 DEF Declared, ClassInv, AnalysedAreDeclared, InheritInv, ClassesListed
<1>5. OneAnalysed' /\ LoopedOver'
  BY <1>1, <1>2 DEF OneAnalysed, LoopedOver
<1>6. ClassesListed'
  <2>1. \A x, y \in Packages : exportedTypes'[x] \cap exportedTypes'[y] # {} => x = y
    BY <1>3 DEF InheritInv, ClassesListed
  <2>2. ASSUME NEW x \in Packages
        PROVE  classes'[x] \in Seq(exportedTypes'[x]) /\ exportedTypes'[x] \subseteq ToSet(classes'[x])
    <3>1. classes[x] \in Seq(exportedTypes[x]) /\ exportedTypes[x] \subseteq ToSet(classes[x])
      BY DEF InheritInv, ClassesListed
    <3>2. CASE x # p
      BY <1>3, <3>1, <3>2
    <3>3. CASE x = p
      <4>. DEFINE own == exportedTypes[p] \cup {k}
                  more == Append(classes[p], k)
                  n == Len(classes[p])
      <4>1. classes[p] \in Seq(own) /\ k \in own
        BY <3>1, <3>3, SeqWithin
      <4>2. /\ n \in Nat /\ more \in Seq(own) /\ Len(more) = n + 1
            /\ \A i \in 1..n : more[i] = classes[p][i]
            /\ more[n + 1] = k
        BY <4>1, AppendFacts
      <4>3. \A e \in exportedTypes[p] : \E i \in 1..n : classes[p][i] = e
        <5>1. PICK s \in Seq(own) : s = classes[p]
          BY <4>1
        <5>2. ToSet(s) = {s[i] : i \in 1..Len(s)}
          BY ToSetFacts
        <5>3. exportedTypes[p] \subseteq ToSet(s)
          BY <3>1, <3>3, <5>1
        <5>4. QED
          BY <5>1, <5>2, <5>3
      <4>4. n + 1 \in 1..(n + 1) /\ \A i \in 1..n : i \in 1..(n + 1)
        BY <4>2
      <4>. HIDE DEF more, n
      <4>5. \A e \in own : \E i \in 1..Len(more) : more[i] = e
        BY <4>2, <4>3, <4>4
      <4>6. own \subseteq ToSet(more)
        BY <4>2, <4>5, ToSetFacts
      <4>7. QED
        BY <1>3, <3>3, <4>2, <4>6 DEF more
    <3>4. QED
      BY <3>2, <3>3
  <2>3. QED
    BY <1>1, <1>4, <2>1, <2>2 DEF ClassesListed
<1>7. Accounted(analyses, started, analysed)'
  <2>1. \A x \in started : x \in Classes /\ x # k
    BY <1>1, <1>4 DEF ClassInv, ClassTypes
  <2>2. \A x \in started : superclass'[x] = superclass[x]
    BY <1>3, <2>1
  <2>3. \A x \in Packages : /\ imports[x] \subseteq imports'[x] /\ exportedTypes[x] \subseteq exportedTypes'[x]
                            /\ \A c \in started : c \in exportedTypes'[x] => c \in exportedTypes[x]
    BY <1>1, <1>3, <2>1
  <2>4. QED
    BY <1>1, <1>2, <2>2, <2>3, NothingCalledLater
<1>8. BroughtInOrder'
  <2> SUFFICES ASSUME NEW x \in Packages, progress'[x] \in {"inheriting", "analysed"}
               PROVE  /\ InSuperclassOrder(exportedTypes[x], classes[x])'
                      /\ \A c \in exportedTypes'[x] : superclass'[c] # NoClass => c \in analysed'
    BY DEF BroughtInOrder
  <2>1. /\ progress[x] \in {"inheriting", "analysed"} /\ x # p /\ analysed' = analysed
        /\ exportedTypes'[x] = exportedTypes[x] /\ classes'[x] = classes[x]
    BY <1>1, <1>3 DEF superTypeVars
  <2>2. \A c \in exportedTypes[x] : superclass'[c] = superclass[c]
    BY <1>3
  <2>3. \A i \in 1..Len(classes[x]) : classes[x][i] \in exportedTypes[x]
    BY ElementOfSeq DEF InheritInv, ClassesListed
  <2>4. InSuperclassOrder(exportedTypes[x], classes[x])
    BY <2>1 DEF InheritInv, BroughtInOrder
  <2>5. InSuperclassOrder(exportedTypes[x], classes[x])'
    BY <2>1, <2>2, <2>3, <2>4 DEF InSuperclassOrder
  <2>6. QED
    BY <2>1, <2>2, <2>5 DEF InheritInv, BroughtInOrder
<1>9. InheritedSoFar'
  BY <1>1, <1>2, <1>3 DEF InheritInv, InheritedSoFar
<1>10. InheritedAfterSuperclass'
  <2>1. \A x \in inherited : x \in Classes /\ x # k
    BY <1>1, <1>4, <1>3 DEF Declared
  <2>2. QED
    BY <1>1, <1>3, <2>1 DEF InheritInv, InheritedAfterSuperclass, superTypeVars
<1>11. QED
  BY <1>5, <1>6, <1>7, <1>8, <1>9, <1>10 DEF InheritInv

\* The parse of a package returns.
LEMMA ParsedInherits ==
    ASSUME ClassInv, InheritInv, NEW p \in Packages, FinishParse(p)
    PROVE  InheritInv'
<1>1. /\ Loading(p) /\ progress[p] = "parsing"
      /\ UNCHANGED <<loading, imports, classes, exportedTypes, superclass, superTypeVars, inherited>>
      /\ \/ UNCHANGED <<progress, position>>
         \/ progress' = [progress EXCEPT ![p] = "supertypes"] /\ position' = 0
  BY DEF FinishParse, Parsing, declarationVars, resultVars
<1>2. /\ analyses = <<>> /\ outcome = "running" /\ loading # <<>> /\ Last(loading) = p
      /\ Accounted(analyses, started, analysed)
      /\ \A x \in Packages : progress[x] # "supertypes" /\ progress[x] # "inheriting" /\ imports[x] \subseteq Packages
  BY <1>1, NotAnalysing
<1>3. CASE UNCHANGED <<progress, position>>
  BY <1>1, <1>2, <1>3, NothingInherits
<1>4. CASE progress' = [progress EXCEPT ![p] = "supertypes"] /\ position' = 0
  <2>1. \A x \in Packages : progress'[x] = IF x = p THEN "supertypes" ELSE progress[x]
    BY <1>4 DEF ClassInv, ImportInv, PackageTypes
  <2>2. Declared' = Declared
    BY <1>1 DEF Declared
  <2>3. OneAnalysed' /\ ClassesListed'
    BY <1>1, <1>2, <2>1, <2>2 DEF InheritInv, OneAnalysed, ClassesListed
  <2>4. Accounted(analyses, started, analysed)'
    BY <1>1, <1>2, NothingCalledLater
  <2>5. \A x \in Packages : \A i \in 1..Len(classes'[x]) : ~(i <= position')
    BY <1>4
  <2>6. LoopedOver'
    BY <2>5 DEF LoopedOver
  <2>7. BroughtInOrder'
    BY <1>1, <2>1 DEF InheritInv, BroughtInOrder, InSuperclassOrder, superTypeVars
  <2>8. InheritedSoFar' /\ InheritedAfterSuperclass'
    BY <1>1, <1>2, <2>1 DEF InheritInv, InheritedSoFar, InheritedAfterSuperclass, superTypeVars
  <2>9. QED
    BY <2>3, <2>4, <2>6, <2>7, <2>8 DEF InheritInv
<1>5. QED
  BY <1>1, <1>3, <1>4

\* The classes of a package are brought in order.
LEMMA OrderInherits ==
    ASSUME ClassInv, InheritInv, NEW p \in Packages, OrderClasses(p)
    PROVE  InheritInv'
<1>. DEFINE own == classes[p]
            new == SuperclassFirst(own)
<1>1. /\ Loading(p) /\ progress[p] = "supertypes" /\ analyses = <<>> /\ position = Len(own)
      /\ outcome = "running" /\ loading # <<>> /\ Last(loading) = p
      /\ classes' = [classes EXCEPT ![p] = new]
      /\ progress' = [progress EXCEPT ![p] = "inheriting"]
      /\ position' = 0
      /\ UNCHANGED <<loading, imports, exportedTypes, superclass, superTypeVars, inherited>>
  BY DEF OrderClasses, AnalysingSuperTypes, Loading, declarationVars, resultVars
<1>. HIDE DEF new
<1>2. /\ \A x \in Packages : progress'[x] = IF x = p THEN "inheriting" ELSE progress[x]
      /\ \A x \in Packages : classes'[x] = IF x = p THEN new ELSE classes[x]
  <2>1. classes = [x \in Packages |-> classes[x]]
    BY DEF ClassInv, ClassTypes
  <2>2. \A x \in Packages : classes'[x] = IF x = p THEN new ELSE classes[x]
    BY <1>1, <2>1
  <2>3. QED
    BY <1>1, <2>2 DEF ClassInv, ImportInv, PackageTypes
<1>3. /\ Accounted(analyses, started, analysed) /\ started \subseteq analysed
      /\ \A x \in Packages : progress[x] \in {"supertypes", "inheriting"} => x = p
      /\ \A x \in Packages : imports[x] \subseteq Packages
  BY <1>1, NothingCalled DEF InheritInv, OneAnalysed, ClassInv, ImportInv, PackageTypes
<1>4. /\ own \in Seq(exportedTypes[p]) /\ exportedTypes[p] \subseteq ToSet(own)
      /\ exportedTypes[p] \subseteq Classes
  BY DEF InheritInv, ClassesListed, ClassInv, ClassTypes
<1>5. /\ ToSet(own) = exportedTypes[p] /\ own \in Seq(Classes) /\ Len(own) \in Nat
      /\ ToSet(own) = {own[i] : i \in 1..Len(own)}
  BY <1>4, ToSetFacts, SeqWithin
<1>6. \A k \in exportedTypes[p] : superclass[k] # NoClass => k \in analysed
  <2>1. \A i \in 1..Len(own) : superclass[own[i]] = NoClass \/ own[i] \in started
    <3>1. \A i \in 1..Len(own) : i <= position
      BY <1>1, <1>5
    <3>2. QED
      BY <1>1, <3>1 DEF InheritInv, LoopedOver
  <2>2. QED
    BY <1>3, <1>5, <2>1
<1>7. /\ new \in Seq(exportedTypes[p]) /\ exportedTypes[p] \subseteq ToSet(new)
      /\ InSuperclassOrder(exportedTypes[p], new)
  <2>1. analysed \in SUBSET Classes /\ superclass \in [Classes -> NoneOrClass]
    BY DEF ClassInv, ClassTypes, NoneOrClass
  <2>2. ~Cyclic(analysed, Superclasses)
    BY AnalysedPlaced, CyclicNodes DEF ClassInv, PlacedInOrder
  <2>3. \A k \in ToSet(own) : superclass[k] # NoClass => k \in analysed
    BY <1>5, <1>6
  <2>. HIDE DEF own
  <2>4. QED
    BY <1>5, <2>1, <2>2, <2>3, SuperclassesFirst DEF new
<1>. HIDE DEF own
<1>8. Declared' = Declared /\ analysed' = analysed /\ analyses' = analyses
  BY <1>1 DEF Declared, superTypeVars
<1>9. OneAnalysed' /\ ClassesListed' /\ LoopedOver'
  BY <1>1, <1>2, <1>3, <1>7, <1>8 DEF InheritInv, OneAnalysed, ClassesListed, LoopedOver
<1>10. Accounted(analyses, started, analysed)'
  BY <1>1, <1>3, NothingCalledLater
<1>11. BroughtInOrder'
  <2> SUFFICES ASSUME NEW x \in Packages, progress'[x] \in {"inheriting", "analysed"}
               PROVE  /\ InSuperclassOrder(exportedTypes[x], classes[x])'
                      /\ \A c \in exportedTypes'[x] : superclass'[c] # NoClass => c \in analysed'
    BY DEF BroughtInOrder
  <2>1. CASE x = p
    BY <1>1, <1>2, <1>6, <1>7, <1>8, <2>1 DEF InSuperclassOrder
  <2>2. CASE x # p
    BY <1>1, <1>2, <1>8, <2>2 DEF InheritInv, BroughtInOrder, InSuperclassOrder
  <2>3. QED
    BY <2>1, <2>2
<1>12. InheritedSoFar'
  <2>1. \A x \in Packages : \A i \in 1..Len(classes'[x]) : ~(i <= position')
    BY <1>1
  <2>2. QED
    BY <1>1, <1>2, <2>1 DEF InheritInv, InheritedSoFar
<1>13. InheritedAfterSuperclass'
  BY <1>1, <1>8 DEF InheritInv, InheritedAfterSuperclass
<1>14. QED
  BY <1>9, <1>10, <1>11, <1>12, <1>13 DEF InheritInv

\* A class inherits.
LEMMA InheritInherits ==
    ASSUME ClassInv, InheritInv, NEW p \in Packages, Inherit(p)
    PROVE  InheritInv'
<1>. DEFINE k == classes[p][position + 1]
<1>1. /\ Loading(p) /\ progress[p] = "inheriting" /\ position < Len(classes[p])
      /\ position' = position + 1
      /\ inherited' = inherited \cup {k}
      /\ UNCHANGED <<loading, progress, imports, classes, exportedTypes, superclass, superTypeVars>>
  BY DEF Inherit, packageVars, declarationVars
<1>2. /\ analyses = <<>> /\ Accounted(analyses, started, analysed)
      /\ \A x \in Packages : /\ progress[x] # "supertypes" /\ (progress[x] = "inheriting" => x = p)
                             /\ imports[x] \subseteq Packages
  BY <1>1, NotAnalysing
<1>3. classes[p] \in Seq(exportedTypes[p]) /\ position \in Nat /\ Len(classes[p]) \in Nat
  BY LenProperties DEF InheritInv, ClassesListed, ClassInv, ClassTypes
<1>4. position + 1 \in 1..Len(classes[p])
  BY <1>1, <1>3
<1>5. k \in exportedTypes[p]
  BY <1>3, <1>4, ElementOfSeq
<1>. HIDE DEF k
<1>6. ASSUME superclass[k] # NoClass
      PROVE  k \in analysed /\ superclass[k] \in inherited
  <2>1. k \in analysed /\ k \in started
    BY <1>1, <1>5, <1>6 DEF InheritInv, BroughtInOrder, ClassInv, ClassTypes
  <2>2. Visible(p, superclass[k])
    BY <1>2, <1>5, <2>1, NothingCalled
  <2>3. CASE superclass[k] \in exportedTypes[p]
    <3>1. InSuperclassOrder(exportedTypes[p], classes[p])
      BY <1>1 DEF InheritInv, BroughtInOrder
    <3>2. PICK i \in 1..Len(classes[p]) : i = position + 1 /\ classes[p][i] = k
      BY <1>4 DEF k
    <3>3. PICK j \in 1..(i - 1) : classes[p][j] = superclass[k]
      BY <2>3, <3>1, <3>2 DEF InSuperclassOrder
    <3>4. j \in 1..Len(classes[p]) /\ j <= position
      BY <1>1, <1>3, <3>2, <3>3
    <3>5. QED
      BY <1>1, <2>1, <3>3, <3>4 DEF InheritInv, InheritedSoFar
  <2>4. CASE superclass[k] \notin exportedTypes[p]
    <3>1. PICK x : x = superclass[k]
      OBVIOUS
    <3>2. Visible(p, x) /\ x \notin exportedTypes[p] /\ Loading(p)
      BY <1>1, <2>2, <2>4, <3>1
    <3>3. \E q \in Packages : progress[q] = "analysed" /\ x \in exportedTypes[q]
      BY <3>2, OwnOrComplete
    <3>4. QED
      BY <2>1, <3>1, <3>3 DEF InheritInv, InheritedSoFar
  <2>5. QED
    BY <2>1, <2>3, <2>4
<1>7. Declared' = Declared /\ k \in Declared /\ analysed' = analysed
  BY <1>1, <1>5 DEF Declared, superTypeVars
<1>8. OneAnalysed' /\ ClassesListed' /\ LoopedOver'
  BY <1>1, <1>2, <1>7 DEF InheritInv, OneAnalysed, ClassesListed, LoopedOver
<1>9. Accounted(analyses, started, analysed)'
  BY <1>1, <1>2, NothingCalledLater
<1>10. BroughtInOrder'
  BY <1>1, <1>7 DEF InheritInv, BroughtInOrder, InSuperclassOrder
<1>11. InheritedSoFar'
  <2>1. ASSUME NEW i \in 1..Len(classes[p]), i <= position + 1
        PROVE  classes[p][i] \in inherited'
    <3>1. i <= position \/ i = position + 1
      BY <1>3, <2>1
    <3>2. CASE i <= position
      BY <1>1, <3>2 DEF InheritInv, InheritedSoFar
    <3>3. CASE i = position + 1
      BY <1>1, <3>3 DEF k
    <3>4. QED
      BY <3>1, <3>2, <3>3
  <2>2. \A x \in Packages : progress'[x] = "analysed" => exportedTypes'[x] \subseteq inherited'
    BY <1>1 DEF InheritInv, InheritedSoFar
  <2>3. QED
    BY <1>1, <1>2, <2>1, <2>2 DEF InheritedSoFar
<1>12. InheritedAfterSuperclass'
  BY <1>1, <1>6, <1>7 DEF InheritInv, InheritedAfterSuperclass
<1>13. QED
  BY <1>8, <1>9, <1>10, <1>11, <1>12 DEF InheritInv

\* The analysis of a package returns.
LEMMA AnalysedInherits ==
    ASSUME ClassInv, InheritInv, NEW p \in Packages, FinishAnalysis(p)
    PROVE  InheritInv'
<1>1. /\ Loading(p) /\ progress[p] = "inheriting" /\ position = Len(classes[p])
      /\ progress' = [progress EXCEPT ![p] = "analysed"]
      /\ UNCHANGED <<imports, classes, exportedTypes, superclass, position, superTypeVars, inherited>>
  BY DEF FinishAnalysis, declarationVars, resultVars
<1>2. /\ analyses = <<>> /\ Accounted(analyses, started, analysed)
      /\ \A x \in Packages : /\ progress[x] # "supertypes" /\ (progress[x] = "inheriting" => x = p)
                             /\ imports[x] \subseteq Packages
  BY <1>1, NotAnalysing
<1>3. \A x \in Packages : progress'[x] = IF x = p THEN "analysed" ELSE progress[x]
  BY <1>1 DEF ClassInv, ImportInv, PackageTypes
<1>4. Declared' = Declared /\ analysed' = analysed
  BY <1>1 DEF Declared, superTypeVars
<1>5. OneAnalysed' /\ ClassesListed' /\ LoopedOver'
  BY <1>1, <1>2, <1>3, <1>4 DEF InheritInv, OneAnalysed, ClassesListed, LoopedOver
<1>6. Accounted(analyses, started, analysed)'
  BY <1>1, <1>2, NothingCalledLater
<1>7. BroughtInOrder'
  BY <1>1, <1>3, <1>4 DEF InheritInv, BroughtInOrder, InSuperclassOrder
<1>8. InheritedSoFar'
  <2>1. /\ classes[p] \in Seq(exportedTypes[p]) /\ exportedTypes[p] \subseteq ToSet(classes[p])
    BY DEF InheritInv, ClassesListed
  <2>2. Len(classes[p]) \in Nat /\ ToSet(classes[p]) = {classes[p][i] : i \in 1..Len(classes[p])}
    BY <2>1, ToSetFacts
  <2>3. \A i \in 1..Len(classes[p]) : i <= position
    BY <1>1, <2>2
  <2>4. \A i \in 1..Len(classes[p]) : classes[p][i] \in inherited
    BY <1>1, <2>3 DEF InheritInv, InheritedSoFar
  <2>5. exportedTypes[p] \subseteq inherited
    BY <2>1, <2>2, <2>4
  <2>6. QED
    BY <1>1, <1>2, <1>3, <2>5 DEF InheritInv, InheritedSoFar
<1>9. InheritedAfterSuperclass'
  BY <1>1, <1>4 DEF InheritInv, InheritedAfterSuperclass
<1>10. QED
  BY <1>5, <1>6, <1>7, <1>8, <1>9 DEF InheritInv

\* At the beginning there are no classes.
LEMMA InheritInit ==
    ASSUME LoadInit
    PROVE  InheritInv
<1>1. /\ Len(<<>>) = 0 /\ 1..0 = {} /\ \A S : <<>> \in Seq(S)
  OBVIOUS
<1>2. OneAnalysed /\ ClassesListed /\ LoopedOver
  BY <1>1 DEF LoadInit, OneAnalysed, ClassesListed, LoopedOver, Declared
<1>3. Accounted(analyses, started, analysed)
  BY <1>1 DEF LoadInit, Accounted
<1>4. BroughtInOrder /\ InheritedSoFar /\ InheritedAfterSuperclass
  BY <1>1 DEF LoadInit, BroughtInOrder, InheritedSoFar, InheritedAfterSuperclass
<1>5. QED
  BY <1>2, <1>3, <1>4 DEF InheritInv

\* Every step of the compiler keeps the invariant of inheriting.
LEMMA InheritStep ==
    ASSUME ClassInv, InheritInv, [LoadNext]_loadVars
    PROVE  InheritInv'
<1>1. ASSUME \/ \E p \in Packages : ReportError(p) \/ ThrowError(p)
             \/ CreateClass \/ FinishGeneration
             \/ UNCHANGED loadVars
      PROVE  InheritInv'
  <2>1. /\ UNCHANGED <<loading, progress, imports, classes, exportedTypes, superclass, position, superTypeVars, inherited>>
        /\ outcome # "circularInheritance" \/ outcome' = outcome
    BY <1>1 DEF ReportError, ThrowError, Throw, CreateClass, FinishGeneration, Loading, loadVars, packageVars,
                declarationVars, resultVars
  <2>2. QED
    BY <2>1, NothingInherits
<1>2. QED
  BY <1>1, LoadInherits, DeclarationInherits, ParsedInherits, SuperTypesInherit, OrderInherits, InheritInherits,
     AnalysedInherits
     DEF LoadNext, LoadStep, ParseStep

\* Whatever packages declare and import, and in whatever order, a class inherits after its
\* superclass, and the superclass is complete (Package.cpp, orderClassesSuperclassFirst).
THEOREM InheritedInOrder == LoadSpec => []InheritedAfterSuperclass
<1>1. LoadInit => InheritInv
  BY InheritInit
<1>2. ClassInv /\ InheritInv /\ [LoadNext]_loadVars => InheritInv'
  BY InheritStep
<1>3. InheritInv => InheritedAfterSuperclass
  BY DEF InheritInv
<1>4. QED
  BY <1>1, <1>2, <1>3, ClassesInOrder, PTL DEF LoadSpec

=============================================================================
