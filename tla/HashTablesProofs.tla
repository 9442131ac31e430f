-------------------------- MODULE HashTablesProofs --------------------------
(***************************************************************************)
(* Dictionaries are values, for any variables, keys, elements, hashes and  *)
(* capacities, and any tables with room for them.  The inductive invariant *)
(* TablesInv says that the table of each dictionary is laid out in chains, *)
(* one for each remainder of the hash, that hold its value, and that all   *)
(* other tables and entries were released.  A section of lemmas for each   *)
(* change to a table shows which layout it leads to from the one before.   *)
(***************************************************************************)
EXTENDS HashTables, FiniteSetTheorems, SequenceTheorems, WellFoundedInduction, TLAPS

(***************************************************************************)
(* Tables that hold a map                                                  *)
(***************************************************************************)

\* The maps a dictionary can be.
Maps == UNION {[D -> Elements] : D \in SUBSET Keys}
Extended(f, k, x) == [key \in DOMAIN f \cup {k} |-> IF key = k THEN x ELSE f[key]]
Shortened(f, k) == [key \in DOMAIN f \ {k} |-> f[key]]

CellsOf(t) == {t} \X (1..MaxEntries)
Link(s, j) == IF j <= Len(s) THEN s[j] ELSE NoEntry
Bucket(hash, k, n) == (hash[k] % n) + 1

\* The cells s are the chain of bucket i of n, with entries for keys of f that belong there.
Linked(hash, memory, s, f, i, n) ==
    /\ \A j \in 1..Len(s) :
          /\ memory.entries[s[j]] = [key |-> memory.entries[s[j]].key,
                                     element |-> f[memory.entries[s[j]].key],
                                     next |-> Link(s, j + 1)]
          /\ memory.entries[s[j]].key \in DOMAIN f
          /\ Bucket(hash, memory.entries[s[j]].key, n) = i
    /\ \A j, l \in 1..Len(s) : memory.entries[s[j]].key = memory.entries[s[l]].key => j = l

\* Table t holds the map f, in chains of the cells lay.
Laid(hash, memory, t, lay, f) ==
    /\ lay \in Seq(Seq(CellsOf(t))) /\ Len(lay) > 0
    /\ f \in Maps
    /\ Len(memory.buckets[t]) = Len(lay)
    /\ memory.buckets[t] = [i \in 1..Len(lay) |-> Link(lay[i], 1)]
    /\ \A i \in 1..Len(lay) : Linked(hash, memory, lay[i], f, i, Len(lay))
    /\ \A k \in DOMAIN f : LET s == lay[Bucket(hash, k, Len(lay))] IN
          \E j \in 1..Len(s) : memory.entries[s[j]].key = k

\* Only the cells lay of table t are occupied.
Exact(memory, t, lay) ==
    \A c \in CellsOf(t) : memory.entries[c] # NoEntry =>
        \E i \in 1..Len(lay) : \E j \in 1..Len(lay[i]) : c = lay[i][j]

Shaped(memory) ==
    /\ memory = [buckets |-> memory.buckets, entries |-> memory.entries]
    /\ DOMAIN memory.buckets = Tables
    /\ DOMAIN memory.entries = Cells

SameTable(m, n, t) ==
    /\ n.buckets[t] = m.buckets[t]
    /\ \A c \in CellsOf(t) : n.entries[c] = m.entries[c]

(***************************************************************************)
(* Facts about data                                                        *)
(***************************************************************************)

LEMMA LeastNumber ==
    ASSUME NEW S \in SUBSET Nat, S # {}
    PROVE  \E x \in S : \A y \in S : x <= y
<1>1. IsWellFoundedOn(OpToRel(<, Nat), Nat)
  BY NatLessThanWellFounded
<1>2. PICK x \in S : \A y \in S : ~(<<y, x>> \in OpToRel(<, Nat))
  BY <1>1, WFMin
<1>3. \A y \in S : ~(y < x)
  BY <1>2 DEF OpToRel
<1>4. QED
  BY <1>3

LEMMA SetMinFacts ==
    ASSUME NEW S \in SUBSET Nat, S # {}
    PROVE  SetMin(S) \in S /\ \A m \in S : SetMin(S) <= m
BY LeastNumber DEF SetMin

LEMMA SeqFacts ==
    ASSUME NEW C, NEW s \in Seq(C)
    PROVE  Len(s) \in Nat /\ DOMAIN s = 1..Len(s) /\ \A j \in 1..Len(s) : s[j] \in C
BY LenProperties, ElementOfSeq

LEMMA CellFacts ==
    ASSUME NEW t \in Tables, NEW c \in CellsOf(t)
    PROVE  c \in Cells /\ c = <<t, c[2]>> /\ c[1] = t /\ c[2] \in 1..MaxEntries /\ c # NoEntry
<1>1. c \in Cells /\ c = <<t, c[2]>> /\ c[1] = t /\ c[2] \in 1..MaxEntries
  BY DEF CellsOf, Cells
<1>2. QED
  BY <1>1, NoneIsNoEntry

LEMMA LinkFacts ==
    ASSUME NEW t \in Tables, NEW s \in Seq(CellsOf(t)), NEW j \in Nat \ {0}
    PROVE  /\ Link(s, j) \in CellsOf(t) \cup {NoEntry}
           /\ Link(s, j) = NoEntry <=> j > Len(s)
<1>1. Len(s) \in Nat /\ \A m \in 1..Len(s) : s[m] \in CellsOf(t)
  BY SeqFacts
<1>2. CASE j <= Len(s)
  <2>1. s[j] \in CellsOf(t)
    BY <1>1, <1>2
  <2>2. s[j] # NoEntry
    BY <2>1, CellFacts
  <2>3. QED
    BY <1>1, <1>2, <2>1, <2>2 DEF Link
<1>3. CASE ~(j <= Len(s))
  BY <1>1, <1>3 DEF Link
<1>4. QED
  BY <1>2, <1>3

(***************************************************************************)
(* Reading a chain                                                         *)
(***************************************************************************)
AfterEquation(memory, first, f) ==
    f = [n \in 0..MaxEntries |->
            IF n = 0 THEN first
            ELSE IF f[n - 1] = NoEntry THEN NoEntry ELSE memory.entries[f[n - 1]].next]

LinksOf(s) == [n \in 0..MaxEntries |-> Link(s, n + 1)]

LEMMA AfterFacts ==
    ASSUME NEW t \in Tables, NEW s \in Seq(CellsOf(t)), NEW memory, NEW first,
           first = Link(s, 1),
           \A j \in 1..Len(s) : memory.entries[s[j]].next = Link(s, j + 1),
           NEW f
    PROVE  AfterEquation(memory, first, f) <=> f = LinksOf(s)
<1>. DEFINE A == [n \in 0..MaxEntries |-> Link(s, n + 1)]
<1>1. MaxEntries \in Nat /\ Len(s) \in Nat
  BY RoomForEntries, SeqFacts
<1>2. \A n \in 1..MaxEntries :
        Link(s, n + 1) = IF Link(s, n) = NoEntry THEN NoEntry ELSE memory.entries[Link(s, n)].next
  <2>1. SUFFICES ASSUME NEW n \in 1..MaxEntries
                 PROVE  Link(s, n + 1) = IF Link(s, n) = NoEntry THEN NoEntry ELSE memory.entries[Link(s, n)].next
    OBVIOUS
  <2>2. n \in Nat \ {0} /\ n + 1 \in Nat \ {0}
    BY <1>1
  <2>3. CASE n > Len(s)
    <3>1. Link(s, n) = NoEntry
      BY <2>2, <2>3, LinkFacts
    <3>2. n + 1 > Len(s)
      BY <1>1, <2>2, <2>3
    <3>3. Link(s, n + 1) = NoEntry
      BY <2>2, <3>2, LinkFacts
    <3>4. QED
      BY <3>1, <3>3
  <2>4. CASE n <= Len(s)
    <3>1. n \in 1..Len(s) /\ ~(n > Len(s))
      BY <1>1, <2>2, <2>4
    <3>2. Link(s, n) # NoEntry
      BY <2>2, <3>1, LinkFacts
    <3>3. Link(s, n) = s[n]
      BY <2>4 DEF Link
    <3>4. QED
      BY <3>1, <3>2, <3>3
  <2>5. QED
    BY <1>1, <2>2, <2>3, <2>4
<1>3. AfterEquation(memory, first, A)
  <2>. DEFINE B == [n \in 0..MaxEntries |->
                      IF n = 0 THEN first
                      ELSE IF A[n - 1] = NoEntry THEN NoEntry ELSE memory.entries[A[n - 1]].next]
  <2>1. ASSUME NEW n \in 0..MaxEntries
        PROVE  A[n] = B[n]
    <3>1. CASE n = 0
      <4>1. A[0] = Link(s, 1)
        BY <1>1
      <4>2. QED
        BY <3>1, <4>1
    <3>2. CASE n # 0
      <4>1. n \in 1..MaxEntries /\ n - 1 \in 0..MaxEntries /\ n - 1 + 1 = n
        BY <1>1, <3>2
      <4>2. A[n - 1] = Link(s, n) /\ A[n] = Link(s, n + 1)
        BY <4>1
      <4>3. B[n] = IF A[n - 1] = NoEntry THEN NoEntry ELSE memory.entries[A[n - 1]].next
        BY <3>2
      <4>. HIDE DEF A, B
      <4>4. QED
        BY <1>2, <4>1, <4>2, <4>3
    <3>3. QED
      BY <3>1, <3>2
  <2>2. A = B
    BY <2>1
  <2>3. QED
    BY <2>2 DEF AfterEquation
<1>4. ASSUME AfterEquation(memory, first, f)
      PROVE  f = A
  <2>. DEFINE wrong == {n \in 0..MaxEntries : f[n] # A[n]}
  <2>1. DOMAIN f = 0..MaxEntries /\ f = [n \in 0..MaxEntries |-> f[n]]
    BY <1>4 DEF AfterEquation
  <2>2. wrong = {}
    <3>1. SUFFICES ASSUME wrong # {} PROVE FALSE
      OBVIOUS
    <3>2. wrong \in SUBSET Nat
      BY <1>1
    <3>3. PICK n \in wrong : \A m \in wrong : n <= m
      <4>. HIDE DEF wrong
      <4>1. QED
        BY <3>1, <3>2, LeastNumber
    <3>4. n \in 0..MaxEntries /\ f[n] # A[n]
      OBVIOUS
    <3>5. n # 0
      <4>1. f[0] = first
        BY <1>1, <1>4 DEF AfterEquation
      <4>2. A[0] = first
        BY <1>1
      <4>3. QED
        BY <3>4, <4>1, <4>2
    <3>6. n - 1 \in 0..MaxEntries /\ ~(n <= n - 1)
      BY <1>1, <3>4, <3>5
    <3>7. f[n - 1] = A[n - 1]
      BY <3>3, <3>6
    <3>8. f[n] = IF f[n - 1] = NoEntry THEN NoEntry ELSE memory.entries[f[n - 1]].next
      BY <1>4, <3>4, <3>5 DEF AfterEquation
    <3>9. A[n] = IF A[n - 1] = NoEntry THEN NoEntry ELSE memory.entries[A[n - 1]].next
      BY <1>3, <3>4, <3>5 DEF AfterEquation
    <3>10. QED
      BY <3>4, <3>7, <3>8, <3>9
  <2>3. QED
    BY <2>1, <2>2
<1>5. QED
  BY <1>3, <1>4 DEF LinksOf

\* A chain is read to its end, entry by entry.
LEMMA ChainFacts ==
    ASSUME NEW t \in Tables, NEW s \in Seq(CellsOf(t)), Len(s) <= MaxEntries, NEW memory, NEW first,
           first = Link(s, 1),
           \A j \in 1..Len(s) : memory.entries[s[j]].next = Link(s, j + 1)
    PROVE  Chain(memory, first) = s
<1>. DEFINE A == [n \in 0..MaxEntries |-> Link(s, n + 1)]
            after == CHOOSE f : AfterEquation(memory, first, f)
            reached == {m \in DOMAIN after : after[m] # NoEntry}
<1>1. MaxEntries \in Nat /\ Len(s) \in Nat /\ DOMAIN s = 1..Len(s)
  BY RoomForEntries, SeqFacts
<1>2. after = A
  <2>1. \A f : AfterEquation(memory, first, f) <=> f = LinksOf(s)
    BY AfterFacts
  <2>2. after = LinksOf(s)
    BY <2>1
  <2>3. QED
    BY <2>2 DEF LinksOf
<1>3. Chain(memory, first) = [n \in 1..Cardinality(reached) |-> after[n - 1]]
  BY DEF Chain, AfterEquation
<1>. HIDE DEF after
<1>4. reached = 0..(Len(s) - 1)
  <2>1. ASSUME NEW n \in 0..MaxEntries
        PROVE  A[n] # NoEntry <=> n \in 0..(Len(s) - 1)
    <3>1. n + 1 \in Nat \ {0}
      BY <1>1
    <3>2. Link(s, n + 1) = NoEntry <=> n + 1 > Len(s)
      BY <3>1, LinkFacts
    <3>3. QED
      BY <1>1, <3>2
  <2>2. reached = {m \in 0..MaxEntries : A[m] # NoEntry}
    BY <1>2
  <2>3. \A n \in 0..(Len(s) - 1) : n \in 0..MaxEntries
    BY <1>1
  <2>. HIDE DEF A, reached
  <2>4. QED
    BY <2>1, <2>2, <2>3
<1>5. Cardinality(reached) = Len(s)
  <2>1. 0 \in Int /\ Len(s) - 1 \in Int
    BY <1>1
  <2>2. Cardinality(0..(Len(s) - 1)) = IF 0 > Len(s) - 1 THEN 0 ELSE Len(s) - 1 - 0 + 1
    BY <2>1, FS_Interval
  <2>. HIDE DEF reached
  <2>3. Cardinality(reached) = IF 0 > Len(s) - 1 THEN 0 ELSE Len(s) - 1 - 0 + 1
    BY <1>4, <2>2
  <2>4. QED
    BY <1>1, <2>3
<1>6. Chain(memory, first) = [n \in 1..Len(s) |-> A[n - 1]]
  <2>. HIDE DEF A, reached
  <2>1. QED
    BY <1>2, <1>3, <1>5
<1>7. \A n \in 1..Len(s) : A[n - 1] = s[n]
  BY <1>1 DEF Link
<1>8. s = [n \in 1..Len(s) |-> s[n]]
  BY <1>1
<1>9. QED
  <2>. HIDE DEF A
  <2>1. QED
    BY <1>6, <1>7, <1>8

LEMMA Remainder ==
    ASSUME NEW h \in Nat, NEW n \in Nat \ {0}
    PROVE  (h % n) + 1 \in 1..n
OBVIOUS

LEMMA BucketFacts ==
    ASSUME NEW hash \in [Keys -> Nat], NEW k \in Keys, NEW n \in Nat \ {0}
    PROVE  Bucket(hash, k, n) \in 1..n
<1>1. hash[k] \in Nat
  OBVIOUS
<1>2. QED
  BY <1>1, Remainder DEF Bucket

LEMMA MapFacts ==
    ASSUME NEW f \in Maps
    PROVE  /\ DOMAIN f \subseteq Keys /\ f = [k \in DOMAIN f |-> f[k]]
           /\ \A k \in DOMAIN f : f[k] \in Elements
BY DEF Maps

LEMMA LaidFacts ==
    ASSUME NEW hash, NEW memory, NEW t, NEW lay, NEW f, Laid(hash, memory, t, lay, f)
    PROVE  /\ Len(lay) \in Nat \ {0} /\ DOMAIN lay = 1..Len(lay)
           /\ \A i \in 1..Len(lay) : lay[i] \in Seq(CellsOf(t)) /\ Len(lay[i]) \in Nat /\ DOMAIN lay[i] = 1..Len(lay[i])
           /\ \A i \in 1..Len(lay) : \A j \in 1..Len(lay[i]) : lay[i][j] \in CellsOf(t)
           /\ DOMAIN f \subseteq Keys
<1>1. lay \in Seq(Seq(CellsOf(t))) /\ Len(lay) > 0 /\ f \in Maps
  BY DEF Laid
<1>2. Len(lay) \in Nat /\ DOMAIN lay = 1..Len(lay) /\ \A i \in 1..Len(lay) : lay[i] \in Seq(CellsOf(t))
  BY <1>1, SeqFacts
<1>3. Len(lay) \in Nat \ {0}
  BY <1>1, <1>2
<1>4. \A i \in 1..Len(lay) : /\ Len(lay[i]) \in Nat
                             /\ DOMAIN lay[i] = 1..Len(lay[i])
                             /\ \A j \in 1..Len(lay[i]) : lay[i][j] \in CellsOf(t)
  BY <1>2, SeqFacts
<1>5. DOMAIN f \subseteq Keys
  BY <1>1, MapFacts
<1>6. QED
  BY <1>2, <1>3, <1>4, <1>5

\* Each key has one entry.
LEMMA LaidDistinct ==
    ASSUME NEW hash, NEW memory, NEW t, NEW lay, NEW f, Laid(hash, memory, t, lay, f),
           NEW i \in 1..Len(lay), NEW j \in 1..Len(lay[i]),
           NEW p \in 1..Len(lay), NEW q \in 1..Len(lay[p]),
           memory.entries[lay[i][j]].key = memory.entries[lay[p][q]].key
    PROVE  i = p /\ j = q
<1>1. Linked(hash, memory, lay[i], f, i, Len(lay)) /\ Linked(hash, memory, lay[p], f, p, Len(lay))
  BY DEF Laid
<1>2. Bucket(hash, memory.entries[lay[i][j]].key, Len(lay)) = i
  BY <1>1 DEF Linked
<1>3. Bucket(hash, memory.entries[lay[p][q]].key, Len(lay)) = p
  BY <1>1 DEF Linked
<1>4. i = p
  BY <1>2, <1>3
<1>5. j = q
  BY <1>1, <1>4 DEF Linked
<1>6. QED
  BY <1>4, <1>5

LEMMA LaidLength ==
    ASSUME NEW hash, NEW memory, NEW t \in Tables, NEW lay, NEW f, Laid(hash, memory, t, lay, f),
           NEW i \in 1..Len(lay)
    PROVE  Len(lay[i]) <= MaxEntries
<1>. DEFINE n == Len(lay[i])
            place == [j \in 1..n |-> lay[i][j][2]]
<1>1. n \in Nat /\ \A j \in 1..n : lay[i][j] \in CellsOf(t)
  BY LaidFacts
<1>2. \A j \in 1..n : lay[i][j] = <<t, lay[i][j][2]>> /\ lay[i][j][2] \in 1..MaxEntries
  BY <1>1, CellFacts
<1>3. \A j, l \in 1..n : lay[i][j] = lay[i][l] => j = l
  BY LaidDistinct
<1>. HIDE DEF n
<1>4. place \in Injection(1..n, 1..MaxEntries)
  <2>1. place \in [1..n -> 1..MaxEntries]
    BY <1>2
  <2>2. ASSUME NEW j \in 1..n, NEW l \in 1..n, place[j] = place[l]
        PROVE  j = l
    BY <1>2, <1>3, <2>2
  <2>. HIDE DEF place
  <2>3. QED
    BY <2>1, <2>2 DEF Injection, IsInjective
<1>5. MaxEntries \in Nat
  BY RoomForEntries
<1>6. IsFiniteSet(1..MaxEntries) /\ Cardinality(1..MaxEntries) = MaxEntries
  <2>1. 1 \in Int /\ MaxEntries \in Int
    BY <1>5
  <2>2. /\ IsFiniteSet(1..MaxEntries)
        /\ Cardinality(1..MaxEntries) = IF 1 > MaxEntries THEN 0 ELSE MaxEntries - 1 + 1
    BY <2>1, FS_Interval
  <2>3. QED
    BY <1>5, <2>2
<1>7. Cardinality(1..n) = n
  <2>1. 1 \in Int /\ n \in Int
    BY <1>1
  <2>2. Cardinality(1..n) = IF 1 > n THEN 0 ELSE n - 1 + 1
    BY <2>1, FS_Interval
  <2>3. QED
    BY <1>1, <2>2
<1>8. Cardinality(1..n) <= Cardinality(1..MaxEntries)
  <2>. HIDE DEF place
  <2>1. QED
    BY <1>4, <1>6, FS_Injection
<1>9. QED
  BY <1>6, <1>7, <1>8 DEF n

\* The chains of a table are the sequences of its cells.
LEMMA ChainsLaid ==
    ASSUME NEW hash, NEW memory, NEW t \in Tables, NEW lay, NEW f, Laid(hash, memory, t, lay, f),
           NEW i \in 1..Len(lay)
    PROVE  Chain(memory, memory.buckets[t][i]) = lay[i]
<1>1. lay[i] \in Seq(CellsOf(t)) /\ Len(lay[i]) <= MaxEntries
  BY LaidFacts, LaidLength
<1>2. memory.buckets[t][i] = Link(lay[i], 1)
  BY DEF Laid
<1>3. Linked(hash, memory, lay[i], f, i, Len(lay))
  BY DEF Laid
<1>4. ASSUME NEW j \in 1..Len(lay[i])
      PROVE  memory.entries[lay[i][j]].next = Link(lay[i], j + 1)
  <2>1. memory.entries[lay[i][j]] = [key |-> memory.entries[lay[i][j]].key,
                                     element |-> f[memory.entries[lay[i][j]].key],
                                     next |-> Link(lay[i], j + 1)]
    BY <1>3 DEF Linked
  <2>2. QED
    BY <2>1
<1>5. QED
  <2>. DEFINE s == lay[i]
              first == memory.buckets[t][i]
  <2>1. s \in Seq(CellsOf(t)) /\ Len(s) <= MaxEntries /\ first = Link(s, 1)
    BY <1>1, <1>2
  <2>2. \A j \in 1..Len(s) : memory.entries[s[j]].next = Link(s, j + 1)
    BY <1>4
  <2>. HIDE DEF s, first
  <2>3. Chain(memory, first) = s
    BY <2>1, <2>2, ChainFacts
  <2>4. QED
    BY <2>3 DEF s, first

\* The chain in which a key is looked up is the one of its bucket.
LEMMA ChainOfLaid ==
    ASSUME hashOf \in [Keys -> Nat],
           NEW memory, NEW t \in Tables, NEW lay, NEW f, Laid(hashOf, memory, t, lay, f), NEW k \in Keys
    PROVE  /\ Bucket(hashOf, k, Len(lay)) \in 1..Len(lay)
           /\ Index(memory, t, k) = Bucket(hashOf, k, Len(lay))
           /\ ChainOf(memory, t, k) = lay[Bucket(hashOf, k, Len(lay))]
<1>1. Len(lay) \in Nat \ {0}
  BY LaidFacts
<1>2. Bucket(hashOf, k, Len(lay)) \in 1..Len(lay)
  BY <1>1, BucketFacts
<1>3. Index(memory, t, k) = Bucket(hashOf, k, Len(lay))
  BY DEF Laid, Index, Bucket
<1>4. PICK i \in 1..Len(lay) : i = Bucket(hashOf, k, Len(lay))
  BY <1>2
<1>5. ChainOf(memory, t, k) = Chain(memory, memory.buckets[t][i])
  BY <1>3, <1>4 DEF ChainOf
<1>6. Chain(memory, memory.buckets[t][i]) = lay[i]
  BY ChainsLaid
<1>7. QED
  BY <1>2, <1>3, <1>4, <1>5, <1>6

FoundAt(memory, t, k, f, s, j) ==
    /\ FindKey(memory, t, k) = {j} /\ SetMin(FindKey(memory, t, k)) = j
    /\ Found(memory, t, k) = s[j]
    /\ memory.entries[s[j]].key = k
    /\ memory.entries[s[j]].element = f[k]

\* A key of the map is found in one place, with its element, and no other key is.
LEMMA FindLaid ==
    ASSUME hashOf \in [Keys -> Nat],
           NEW memory, NEW t \in Tables, NEW lay, NEW f, Laid(hashOf, memory, t, lay, f), NEW k \in Keys,
           NEW i, i = Bucket(hashOf, k, Len(lay))
    PROVE  /\ k \notin DOMAIN f => FindKey(memory, t, k) = {}
           /\ k \in DOMAIN f =>
                 \E j \in 1..Len(lay[i]) : FoundAt(memory, t, k, f, lay[i], j)
<1>1. i \in 1..Len(lay) /\ ChainOf(memory, t, k) = lay[i]
  BY ChainOfLaid
<1>2. DOMAIN lay[i] = 1..Len(lay[i])
  BY <1>1, LaidFacts
<1>3. FindKey(memory, t, k) = {j \in 1..Len(lay[i]) : memory.entries[lay[i][j]].key = k}
  BY <1>1, <1>2 DEF FindKey
<1>4. Linked(hashOf, memory, lay[i], f, i, Len(lay))
  BY <1>1 DEF Laid
<1>5. ASSUME k \notin DOMAIN f
      PROVE  FindKey(memory, t, k) = {}
  <2>1. \A j \in 1..Len(lay[i]) : memory.entries[lay[i][j]].key \in DOMAIN f
    BY <1>4 DEF Linked
  <2>2. QED
    BY <1>3, <1>5, <2>1
<1>6. ASSUME k \in DOMAIN f
      PROVE  \E j \in 1..Len(lay[i]) : FoundAt(memory, t, k, f, lay[i], j)
  <2>1. PICK j \in 1..Len(lay[i]) : memory.entries[lay[i][j]].key = k
    BY <1>6 DEF Laid
  <2>2. \A l \in 1..Len(lay[i]) : memory.entries[lay[i][l]].key = k => l = j
    BY <1>4, <2>1 DEF Linked
  <2>3. FindKey(memory, t, k) = {j}
    BY <1>3, <2>1, <2>2
  <2>4. j \in Nat
    BY <1>1, <2>1
  <2>5. SetMin({j}) = j
    <3>1. {j} \in SUBSET Nat /\ {j} # {}
      BY <2>4
    <3>2. SetMin({j}) \in {j}
      BY <3>1, SetMinFacts
    <3>3. QED
      BY <3>2
  <2>6. Found(memory, t, k) = lay[i][j]
    BY <1>1, <2>3, <2>5 DEF Found
  <2>7. memory.entries[lay[i][j]].element = f[k]
    <3>1. memory.entries[lay[i][j]] = [key |-> memory.entries[lay[i][j]].key,
                                       element |-> f[memory.entries[lay[i][j]].key],
                                       next |-> Link(lay[i], j + 1)]
      BY <1>4, <2>1 DEF Linked
    <3>2. QED
      BY <2>1, <3>1
  <2>8. QED
    BY <2>1, <2>3, <2>5, <2>6, <2>7 DEF FoundAt
<1>7. QED
  BY <1>5, <1>6

\* A set of numbers up to n is all of them if it has the first one and the next one of each.
LEMMA NumbersUpTo ==
    ASSUME NEW n \in Nat, NEW a \in Nat, NEW T, a <= n => a \in T,
           \A b \in a..n : b \in T /\ b < n => b + 1 \in T
    PROVE  \A b \in a..n : b \in T
<1>. DEFINE wrong == {b \in a..n : b \notin T}
<1>1. SUFFICES ASSUME wrong # {} PROVE FALSE
  OBVIOUS
<1>2. wrong \in SUBSET Nat
  OBVIOUS
<1>3. PICK b \in wrong : \A m \in wrong : b <= m
  <2>. HIDE DEF wrong
  <2>1. QED
    BY <1>1, <1>2, LeastNumber
<1>4. b \in a..n /\ b \notin T
  OBVIOUS
<1>5. b # a
  BY <1>4
<1>6. b - 1 \in a..n /\ b - 1 < n /\ ~(b <= b - 1) /\ b - 1 + 1 = b
  BY <1>4, <1>5
<1>7. b - 1 \in T
  BY <1>3, <1>6
<1>8. QED
  BY <1>4, <1>6, <1>7

(***************************************************************************)
(* All entries of a table                                                  *)
(***************************************************************************)
FlattenEquation(seqs, f) ==
    f = [i \in 1..Len(seqs) |-> IF i = 1 THEN seqs[i] ELSE f[i - 1] \o seqs[i]]

LEMMA FlattenExists ==
    ASSUME NEW C, NEW lay \in Seq(Seq(C)), Len(lay) > 0
    PROVE  \E f \in [1..Len(lay) -> Seq(C)] : FlattenEquation(lay, f)
<1>. DEFINE n == Len(lay)
            Prefix(b, f) == /\ f \in [1..b -> Seq(C)]
                            /\ \A i \in 1..b : f[i] = IF i = 1 THEN lay[i] ELSE f[i - 1] \o lay[i]
            T == {b \in 1..n : \E f : Prefix(b, f)}
<1>1. n \in Nat /\ n > 0 /\ \A i \in 1..n : lay[i] \in Seq(C)
  BY SeqFacts
<1>. HIDE DEF n
<1>2. 1 \in T
  <2>1. [i \in 1..1 |-> lay[1]] \in [1..1 -> Seq(C)]
    BY <1>1
  <2>2. \A i \in 1..1 : i = 1 /\ [j \in 1..1 |-> lay[1]][i] = lay[i]
    OBVIOUS
  <2>3. \E g : Prefix(1, g)
    BY <2>1, <2>2
  <2>. HIDE DEF Prefix
  <2>4. QED
    BY <1>1, <2>3
<1>3. ASSUME NEW b \in 1..n, b \in T, b < n
      PROVE  b + 1 \in T
  <2>1. PICK f : Prefix(b, f)
    BY <1>3
  <2>. DEFINE g == [i \in 1..(b + 1) |-> IF i = b + 1 THEN f[b] \o lay[b + 1] ELSE f[i]]
  <2>2. b \in Nat /\ b > 0 /\ b + 1 \in 1..n /\ b \in 1..b
    BY <1>1, <1>3
  <2>3. f \in [1..b -> Seq(C)] /\ f[b] \in Seq(C)
    BY <2>1, <2>2
  <2>4. f[b] \o lay[b + 1] \in Seq(C)
    <3>1. lay[b + 1] \in Seq(C)
      BY <1>1, <2>2
    <3>2. QED
      BY <2>3, <3>1, ConcatProperties
  <2>5. g \in [1..(b + 1) -> Seq(C)]
    <3>1. ASSUME NEW i \in 1..(b + 1)
          PROVE  (IF i = b + 1 THEN f[b] \o lay[b + 1] ELSE f[i]) \in Seq(C)
      <4>1. CASE i = b + 1
        BY <2>4, <4>1
      <4>2. CASE i # b + 1
        <5>1. i \in 1..b
          BY <2>2, <4>2
        <5>2. QED
          BY <2>3, <4>2, <5>1
      <4>3. QED
        BY <4>1, <4>2
    <3>2. QED
      BY <3>1
  <2>6. ASSUME NEW i \in 1..(b + 1)
        PROVE  g[i] = IF i = 1 THEN lay[i] ELSE g[i - 1] \o lay[i]
    <3>1. CASE i = b + 1
      <4>1. i # 1 /\ i - 1 = b /\ b \in 1..(b + 1) /\ b # b + 1
        BY <2>2, <3>1
      <4>2. g[b] = f[b] /\ g[i] = f[b] \o lay[b + 1]
        BY <3>1, <4>1
      <4>. HIDE DEF g
      <4>3. QED
        BY <3>1, <4>1, <4>2
    <3>2. CASE i # b + 1
      <4>1. i \in 1..b
        BY <2>2, <3>2
      <4>2. i # 1 => i - 1 \in 1..(b + 1) /\ i - 1 # b + 1
        BY <2>2, <3>2
      <4>3. g[i] = f[i] /\ (i # 1 => g[i - 1] = f[i - 1])
        BY <3>2, <4>2
      <4>4. f[i] = IF i = 1 THEN lay[i] ELSE f[i - 1] \o lay[i]
        BY <2>1, <4>1
      <4>. HIDE DEF g
      <4>5. QED
        BY <4>3, <4>4
    <3>3. QED
      BY <3>1, <3>2
  <2>7. Prefix(b + 1, g)
    <3>. HIDE DEF g
    <3>1. QED
      BY <2>5, <2>6
  <2>8. QED
    <3>. HIDE DEF g, Prefix
    <3>1. QED
      BY <2>2, <2>7
<1>4. n \in T
  <2>. HIDE DEF T
  <2>1. 1 \in Nat /\ n \in 1..n
    BY <1>1
  <2>2. \A b \in 1..n : b \in T
    BY <1>1, <1>2, <1>3, <2>1, NumbersUpTo
  <2>3. QED
    BY <2>1, <2>2
<1>5. PICK f : Prefix(n, f)
  BY <1>4
<1>6. f = [i \in 1..n |-> IF i = 1 THEN lay[i] ELSE f[i - 1] \o lay[i]]
  BY <1>5
<1>7. QED
  BY <1>5, <1>6 DEF FlattenEquation, n

\* The sequence s lists the elements of the sequences seqs up to b, each once.
Covers(s, seqs, b) ==
    /\ \A c : (\E m \in 1..Len(s) : c = s[m]) <=> (\E i \in 1..b : \E j \in 1..Len(seqs[i]) : c = seqs[i][j])
    /\ \A m, l \in 1..Len(s) : s[m] = s[l] => m = l

LEMMA ConcatFacts ==
    ASSUME NEW C, NEW s \in Seq(C), NEW u \in Seq(C)
    PROVE  /\ s \o u \in Seq(C) /\ Len(s \o u) = Len(s) + Len(u)
           /\ \A m \in 1..Len(s) : (s \o u)[m] = s[m]
           /\ \A m \in 1..Len(u) : (s \o u)[Len(s) + m] = u[m]
<1>1. Len(s) \in Nat /\ Len(u) \in Nat
  BY SeqFacts
<1>2. s \o u \in Seq(C) /\ Len(s \o u) = Len(s) + Len(u)
  BY ConcatProperties
<1>3. \A m \in 1..(Len(s) + Len(u)) : (s \o u)[m] = IF m <= Len(s) THEN s[m] ELSE u[m - Len(s)]
  BY ConcatProperties
<1>4. ASSUME NEW m \in 1..Len(s)
      PROVE  (s \o u)[m] = s[m]
  <2>1. m \in 1..(Len(s) + Len(u)) /\ m <= Len(s)
    BY <1>1
  <2>2. QED
    BY <1>3, <2>1
<1>5. ASSUME NEW m \in 1..Len(u)
      PROVE  (s \o u)[Len(s) + m] = u[m]
  <2>1. Len(s) + m \in 1..(Len(s) + Len(u)) /\ ~(Len(s) + m <= Len(s)) /\ Len(s) + m - Len(s) = m
    BY <1>1
  <2>2. (s \o u)[Len(s) + m] = u[Len(s) + m - Len(s)]
    BY <1>3, <2>1
  <2>3. QED
    BY <2>1, <2>2
<1>6. QED
  BY <1>2, <1>4, <1>5

LEMMA CoversFirst ==
    ASSUME NEW seqs, \A j, l \in 1..Len(seqs[1]) : seqs[1][j] = seqs[1][l] => j = l
    PROVE  Covers(seqs[1], seqs, 1)
<1>1. 1..1 = {1}
  OBVIOUS
<1>2. QED
  BY <1>1 DEF Covers

LEMMA CoversNext ==
    ASSUME NEW C, NEW seqs, NEW b \in Nat \ {0}, NEW s \in Seq(C), Covers(s, seqs, b), seqs[b + 1] \in Seq(C),
           \A j, l \in 1..Len(seqs[b + 1]) : seqs[b + 1][j] = seqs[b + 1][l] => j = l,
           \A i \in 1..b : \A j \in 1..Len(seqs[i]) : \A l \in 1..Len(seqs[b + 1]) : seqs[i][j] # seqs[b + 1][l]
    PROVE  Covers(s \o seqs[b + 1], seqs, b + 1)
<1>. DEFINE u == seqs[b + 1]
            w == s \o u
<1>1. u \in Seq(C)
  OBVIOUS
<1>2. Len(s) \in Nat /\ Len(u) \in Nat
  BY <1>1, SeqFacts
<1>. HIDE DEF u
<1>3. /\ Len(w) = Len(s) + Len(u)
      /\ \A m \in 1..Len(s) : w[m] = s[m]
      /\ \A m \in 1..Len(u) : w[Len(s) + m] = u[m]
  BY <1>1, ConcatFacts
<1>. HIDE DEF w
<1>4. \A m \in 1..Len(w) : m \in 1..Len(s) \/ (m - Len(s) \in 1..Len(u) /\ m = Len(s) + (m - Len(s)))
  BY <1>2, <1>3
<1>5. \A i : i \in 1..(b + 1) <=> i \in 1..b \/ i = b + 1
  OBVIOUS
<1>6. ASSUME NEW c
      PROVE  (\E m \in 1..Len(w) : c = w[m]) <=> (\E i \in 1..(b + 1) : \E j \in 1..Len(seqs[i]) : c = seqs[i][j])
  <2>1. (\E m \in 1..Len(s) : c = s[m]) <=> (\E i \in 1..b : \E j \in 1..Len(seqs[i]) : c = seqs[i][j])
    BY DEF Covers
  <2>2. ASSUME NEW m \in 1..Len(w), c = w[m]
        PROVE  (\E l \in 1..Len(s) : c = s[l]) \/ (\E l \in 1..Len(u) : c = u[l])
    <3>1. CASE m \in 1..Len(s)
      BY <1>3, <2>2, <3>1
    <3>2. CASE m - Len(s) \in 1..Len(u) /\ m = Len(s) + (m - Len(s))
      <4>1. PICK l \in 1..Len(u) : m = Len(s) + l
        BY <3>2
      <4>2. QED
        BY <1>3, <2>2, <4>1
    <3>3. QED
      BY <1>4, <3>1, <3>2
  <2>3. ASSUME NEW m \in 1..Len(s), c = s[m]
        PROVE  \E l \in 1..Len(w) : c = w[l]
    <3>1. m \in 1..Len(w)
      BY <1>2, <1>3
    <3>2. QED
      BY <1>3, <2>3, <3>1
  <2>4. ASSUME NEW m \in 1..Len(u), c = u[m]
        PROVE  \E l \in 1..Len(w) : c = w[l]
    <3>1. Len(s) + m \in 1..Len(w)
      BY <1>2, <1>3
    <3>2. QED
      BY <1>3, <2>4, <3>1
  <2>5. (\E m \in 1..Len(w) : c = w[m]) <=> (\E l \in 1..Len(s) : c = s[l]) \/ (\E l \in 1..Len(u) : c = u[l])
    BY <2>2, <2>3, <2>4
  <2>6. (\E l \in 1..Len(u) : c = u[l]) <=> \E l \in 1..Len(seqs[b + 1]) : c = seqs[b + 1][l]
    BY DEF u
  <2>7. QED
    BY <1>5, <2>1, <2>5, <2>6
<1>7. ASSUME NEW m \in 1..Len(w), NEW l \in 1..Len(w), w[m] = w[l]
      PROVE  m = l
  <2>1. ASSUME NEW p \in 1..Len(s), NEW q \in 1..Len(u)
        PROVE  s[p] # u[q]
    <3>1. PICK i \in 1..b : \E j \in 1..Len(seqs[i]) : s[p] = seqs[i][j]
      BY DEF Covers
    <3>2. QED
      BY <3>1 DEF u
  <2>2. CASE m \in 1..Len(s) /\ l \in 1..Len(s)
    BY <1>3, <1>7, <2>2 DEF Covers
  <2>3. CASE m \in 1..Len(s) /\ l \notin 1..Len(s)
    <3>1. PICK q \in 1..Len(u) : l = Len(s) + q
      BY <1>4, <2>3
    <3>2. w[m] = s[m] /\ w[l] = u[q]
      BY <1>3, <2>3, <3>1
    <3>3. QED
      BY <1>7, <2>1, <2>3, <3>2
  <2>4. CASE m \notin 1..Len(s) /\ l \in 1..Len(s)
    <3>1. PICK q \in 1..Len(u) : m = Len(s) + q
      BY <1>4, <2>4
    <3>2. w[l] = s[l] /\ w[m] = u[q]
      BY <1>3, <2>4, <3>1
    <3>3. QED
      BY <1>7, <2>1, <2>4, <3>2
  <2>5. CASE m \notin 1..Len(s) /\ l \notin 1..Len(s)
    <3>1. PICK p \in 1..Len(u) : m = Len(s) + p
      BY <1>4, <2>5
    <3>2. PICK q \in 1..Len(u) : l = Len(s) + q
      BY <1>4, <2>5
    <3>3. u[p] = u[q]
      BY <1>3, <1>7, <3>1, <3>2
    <3>4. p = q
      BY <3>3 DEF u
    <3>5. QED
      BY <3>1, <3>2, <3>4
  <2>6. QED
    BY <2>2, <2>3, <2>4, <2>5
<1>8. Covers(w, seqs, b + 1)
  BY <1>6, <1>7 DEF Covers
<1>9. QED
  BY <1>8 DEF w, u

LEMMA Flattened ==
    ASSUME NEW C, NEW lay \in Seq(Seq(C)), Len(lay) > 0,
           \A i, p \in 1..Len(lay) : \A j \in 1..Len(lay[i]), q \in 1..Len(lay[p]) :
                lay[i][j] = lay[p][q] => i = p /\ j = q
    PROVE  FlattenSeq(lay) \in Seq(C) /\ Covers(FlattenSeq(lay), lay, Len(lay))
<1>. DEFINE n == Len(lay)
            f == CHOOSE g : FlattenEquation(lay, g)
<1>1. n \in Nat /\ n > 0 /\ \A i \in 1..n : lay[i] \in Seq(C)
  BY SeqFacts
<1>2. FlattenEquation(lay, f)
  BY FlattenExists
<1>3. FlattenSeq(lay) = f[n]
  <2>1. Len(lay) # 0
    BY <1>1
  <2>2. QED
    BY <2>1 DEF FlattenSeq, FlattenEquation
<1>. HIDE DEF f
<1>4. \A i \in 1..n : f[i] = IF i = 1 THEN lay[i] ELSE f[i - 1] \o lay[i]
  BY <1>2 DEF FlattenEquation
<1>. DEFINE T == {b \in 1..n : f[b] \in Seq(C) /\ Covers(f[b], lay, b)}
<1>5. 1 \in T
  <2>1. 1 \in 1..n /\ f[1] = lay[1]
    BY <1>1, <1>4
  <2>2. Covers(lay[1], lay, 1)
    <3>1. \A j, l \in 1..Len(lay[1]) : lay[1][j] = lay[1][l] => j = l
      BY <2>1
    <3>2. QED
      BY <3>1, CoversFirst
  <2>3. QED
    BY <1>1, <2>1, <2>2
<1>6. ASSUME NEW b \in 1..n, b \in T, b < n
      PROVE  b + 1 \in T
  <2>1. b + 1 \in 1..n /\ b + 1 # 1 /\ b + 1 - 1 = b /\ b \in Nat \ {0}
    BY <1>1, <1>6
  <2>2. f[b + 1] = f[b] \o lay[b + 1]
    <3>1. PICK d \in 1..n : d = b + 1
      BY <2>1
    <3>2. d # 1 /\ d - 1 = b
      BY <2>1, <3>1
    <3>3. f[d] = f[d - 1] \o lay[d]
      BY <1>4, <3>2
    <3>4. QED
      BY <3>1, <3>2, <3>3
  <2>3. f[b] \in Seq(C) /\ Covers(f[b], lay, b) /\ lay[b + 1] \in Seq(C)
    BY <1>1, <1>6, <2>1
  <2>4. \A j, l \in 1..Len(lay[b + 1]) : lay[b + 1][j] = lay[b + 1][l] => j = l
    BY <2>1
  <2>5. \A i \in 1..b : \A j \in 1..Len(lay[i]) : \A l \in 1..Len(lay[b + 1]) : lay[i][j] # lay[b + 1][l]
    <3>1. \A i \in 1..b : i \in 1..n /\ i # b + 1
      BY <1>1, <1>6
    <3>2. QED
      BY <2>1, <3>1
  <2>6. f[b] \o lay[b + 1] \in Seq(C)
    BY <2>3, ConcatFacts
  <2>7. Covers(f[b] \o lay[b + 1], lay, b + 1)
    BY <2>1, <2>3, <2>4, <2>5, CoversNext
  <2>8. QED
    BY <2>1, <2>2, <2>6, <2>7
<1>7. n \in T
  <2>. HIDE DEF T
  <2>1. 1 \in Nat /\ n \in 1..n
    BY <1>1
  <2>2. \A b \in 1..n : b \in T
    BY <1>1, <1>5, <1>6, <2>1, NumbersUpTo
  <2>3. QED
    BY <2>1, <2>2
<1>8. QED
  BY <1>3, <1>7

\* The cells of a table differ from each other.
DistinctCells(lay) ==
    \A i, p \in 1..Len(lay) : \A j \in 1..Len(lay[i]), q \in 1..Len(lay[p]) :
        lay[i][j] = lay[p][q] => i = p /\ j = q

LEMMA LaidCellsDistinct ==
    ASSUME NEW hash, NEW memory, NEW t, NEW lay, NEW f, Laid(hash, memory, t, lay, f)
    PROVE  DistinctCells(lay)
<1>1. SUFFICES ASSUME NEW i \in 1..Len(lay), NEW p \in 1..Len(lay),
                      NEW j \in 1..Len(lay[i]), NEW q \in 1..Len(lay[p]), lay[i][j] = lay[p][q]
               PROVE  i = p /\ j = q
  BY DEF DistinctCells
<1>2. memory.entries[lay[i][j]].key = memory.entries[lay[p][q]].key
  BY <1>1
<1>3. QED
  BY <1>2, LaidDistinct

\* The cells all are those of lay, each once, and have as many entries as the map has keys.
Enumerates(all, memory, t, lay, f) ==
    /\ all \in Seq(CellsOf(t)) /\ Len(all) \in Nat
    /\ Covers(all, lay, Len(lay))
    /\ \A m \in 1..Len(all) : memory.entries[all[m]].key \in DOMAIN f
    /\ \A m, l \in 1..Len(all) : memory.entries[all[m]].key = memory.entries[all[l]].key => m = l
    /\ \A k \in DOMAIN f : \E m \in 1..Len(all) : memory.entries[all[m]].key = k
    /\ Len(all) = Cardinality(DOMAIN f) /\ IsFiniteSet(DOMAIN f)

\* All entries of a table are listed once.
LEMMA AllLaid ==
    ASSUME NEW hash \in [Keys -> Nat],
           NEW memory, NEW t \in Tables, NEW lay, NEW f, Laid(hash, memory, t, lay, f),
           NEW all, all = AllEntries(memory, t)
    PROVE  Enumerates(all, memory, t, lay, f)
<1>1. /\ lay \in Seq(Seq(CellsOf(t))) /\ Len(lay) > 0 /\ Len(memory.buckets[t]) = Len(lay)
      /\ DOMAIN lay = 1..Len(lay) /\ Len(lay) \in Nat
      /\ \A i \in 1..Len(lay) : Linked(hash, memory, lay[i], f, i, Len(lay))
  BY LaidFacts DEF Laid
<1>2. [i \in 1..Len(memory.buckets[t]) |-> Chain(memory, memory.buckets[t][i])] = lay
  <2>1. \A i \in 1..Len(lay) : Chain(memory, memory.buckets[t][i]) = lay[i]
    BY ChainsLaid
  <2>2. lay = [i \in 1..Len(lay) |-> lay[i]]
    BY <1>1
  <2>3. QED
    BY <1>1, <2>1, <2>2
<1>3. all = FlattenSeq(lay)
  BY <1>2 DEF AllEntries
<1>4. all \in Seq(CellsOf(t)) /\ Covers(all, lay, Len(lay))
  <2>. DEFINE C == CellsOf(t)
  <2>1. \A i, p \in 1..Len(lay) : \A j \in 1..Len(lay[i]), q \in 1..Len(lay[p]) :
                lay[i][j] = lay[p][q] => i = p /\ j = q
    BY LaidCellsDistinct DEF DistinctCells
  <2>2. lay \in Seq(Seq(C)) /\ Len(lay) > 0
    BY <1>1
  <2>. HIDE DEF C
  <2>3. FlattenSeq(lay) \in Seq(C) /\ Covers(FlattenSeq(lay), lay, Len(lay))
    BY <2>1, <2>2, Flattened
  <2>4. QED
    BY <1>3, <2>3 DEF C
<1>5. Len(all) \in Nat
  BY <1>4, SeqFacts
<1>6. ASSUME NEW m \in 1..Len(all)
      PROVE  \E i \in 1..Len(lay) : \E j \in 1..Len(lay[i]) : all[m] = lay[i][j]
  BY <1>4 DEF Covers
<1>7. ASSUME NEW i \in 1..Len(lay), NEW j \in 1..Len(lay[i])
      PROVE  \E m \in 1..Len(all) : all[m] = lay[i][j]
  <2>1. PICK c : c = lay[i][j]
    OBVIOUS
  <2>2. (\E m \in 1..Len(all) : c = all[m])
            <=> (\E p \in 1..Len(lay) : \E q \in 1..Len(lay[p]) : c = lay[p][q])
    BY ONLY <1>4 DEF Covers
  <2>3. \E m \in 1..Len(all) : c = all[m]
    BY ONLY <2>1, <2>2, i \in 1..Len(lay), j \in 1..Len(lay[i])
  <2>4. QED
    BY ONLY <2>1, <2>3
<1>8. ASSUME NEW m \in 1..Len(all)
      PROVE  memory.entries[all[m]].key \in DOMAIN f
  <2>1. PICK i \in 1..Len(lay) : \E j \in 1..Len(lay[i]) : all[m] = lay[i][j]
    BY <1>6
  <2>2. PICK j \in 1..Len(lay[i]) : all[m] = lay[i][j]
    BY <2>1
  <2>3. memory.entries[lay[i][j]].key \in DOMAIN f
    BY <1>1 DEF Linked
  <2>4. QED
    BY <2>2, <2>3
<1>9. ASSUME NEW m \in 1..Len(all), NEW l \in 1..Len(all),
             memory.entries[all[m]].key = memory.entries[all[l]].key
      PROVE  m = l
  <2>1. PICK i \in 1..Len(lay) : \E j \in 1..Len(lay[i]) : all[m] = lay[i][j]
    BY <1>6
  <2>2. PICK j \in 1..Len(lay[i]) : all[m] = lay[i][j]
    BY <2>1
  <2>3. PICK p \in 1..Len(lay) : \E q \in 1..Len(lay[p]) : all[l] = lay[p][q]
    BY <1>6
  <2>4. PICK q \in 1..Len(lay[p]) : all[l] = lay[p][q]
    BY <2>3
  <2>5. memory.entries[lay[i][j]].key = memory.entries[lay[p][q]].key
    BY <1>9, <2>2, <2>4
  <2>6. i = p /\ j = q
    BY <2>5, LaidDistinct
  <2>7. all[m] = all[l]
    BY <2>2, <2>4, <2>6
  <2>8. QED
    BY <1>4, <2>7 DEF Covers
<1>10. ASSUME NEW k \in DOMAIN f
       PROVE  \E m \in 1..Len(all) : memory.entries[all[m]].key = k
  <2>1. PICK i : i = Bucket(hash, k, Len(lay))
    OBVIOUS
  <2>2. i \in 1..Len(lay)
    <3>1. k \in Keys /\ Len(lay) \in Nat \ {0}
      BY LaidFacts
    <3>2. QED
      BY <2>1, <3>1, BucketFacts
  <2>3. PICK j \in 1..Len(lay[i]) : memory.entries[lay[i][j]].key = k
    BY <2>1 DEF Laid
  <2>4. QED
    BY <1>7, <2>2, <2>3
<1>11. Len(all) = Cardinality(DOMAIN f) /\ IsFiniteSet(DOMAIN f)
  <2>. DEFINE key == [m \in 1..Len(all) |-> memory.entries[all[m]].key]
  <2>1. key \in [1..Len(all) -> DOMAIN f]
    BY <1>8
  <2>2. \A m, l \in 1..Len(all) : key[m] = key[l] => m = l
    BY <1>9
  <2>3. \A k \in DOMAIN f : \E m \in 1..Len(all) : key[m] = k
    BY <1>10
  <2>. HIDE DEF key
  <2>4. key \in Bijection(1..Len(all), DOMAIN f)
    <3>1. key \in Injection(1..Len(all), DOMAIN f)
      BY <2>1, <2>2 DEF Injection, IsInjective
    <3>2. key \in Surjection(1..Len(all), DOMAIN f)
      BY <2>1, <2>3 DEF Surjection
    <3>3. QED
      BY <3>1, <3>2 DEF Bijection
  <2>5. ExistsBijection(1..Len(all), DOMAIN f)
    BY <2>4 DEF ExistsBijection
  <2>6. Cardinality(DOMAIN f) = Len(all)
    BY <1>5, <2>5, FS_CountingElements
  <2>7. IsFiniteSet(DOMAIN f)
    BY <1>5, <2>5, FS_NatBijection
  <2>8. QED
    BY <2>6, <2>7
<1>12. QED
  BY <1>4, <1>5, <1>8, <1>9, <1>10, <1>11 DEF Enumerates

(***************************************************************************)
(* Memory that changes elsewhere                                           *)
(***************************************************************************)

\* A table holds its map as long as its buckets and the entries of its chains stay.
LEMMA LaidKept ==
    ASSUME NEW hash \in [Keys -> Nat], NEW m, NEW n, NEW t, NEW lay, NEW f, Laid(hash, m, t, lay, f),
           n.buckets[t] = m.buckets[t],
           \A i \in 1..Len(lay) : \A j \in 1..Len(lay[i]) : n.entries[lay[i][j]] = m.entries[lay[i][j]]
    PROVE  Laid(hash, n, t, lay, f)
<1>1. \A i \in 1..Len(lay) : Linked(hash, n, lay[i], f, i, Len(lay))
  <2>1. SUFFICES ASSUME NEW i \in 1..Len(lay)
                 PROVE  Linked(hash, n, lay[i], f, i, Len(lay))
    OBVIOUS
  <2>2. Linked(hash, m, lay[i], f, i, Len(lay))
    BY DEF Laid
  <2>3. \A j \in 1..Len(lay[i]) : n.entries[lay[i][j]] = m.entries[lay[i][j]]
    OBVIOUS
  <2>4. QED
    BY <2>2, <2>3 DEF Linked
<1>2. ASSUME NEW k \in DOMAIN f
      PROVE  LET s == lay[Bucket(hash, k, Len(lay))] IN \E j \in 1..Len(s) : n.entries[s[j]].key = k
  <2>1. PICK i : i = Bucket(hash, k, Len(lay))
    OBVIOUS
  <2>2. PICK j \in 1..Len(lay[i]) : m.entries[lay[i][j]].key = k
    BY <2>1 DEF Laid
  <2>3. i \in 1..Len(lay)
    <3>1. k \in Keys /\ Len(lay) \in Nat \ {0}
      BY LaidFacts
    <3>2. QED
      BY <2>1, <3>1, BucketFacts
  <2>4. QED
    BY <2>1, <2>2, <2>3
<1>3. QED
  BY <1>1, <1>2 DEF Laid

LEMMA FunctionIsSeq ==
    ASSUME NEW n \in Nat, NEW S, NEW s \in [1..n -> S]
    PROVE  s \in Seq(S) /\ Len(s) = n
<1>1. s \in Seq(S)
  BY SeqDef
<1>2. Len(s) \in Nat /\ 1..Len(s) = 1..n
  BY <1>1, SeqFacts
<1>3. Len(s) = n
  <2>1. \A p, q \in Nat : 1..p = 1..q => p = q
    <3>1. SUFFICES ASSUME NEW p \in Nat, NEW q \in Nat, 1..p = 1..q, p # q
                   PROVE  FALSE
      OBVIOUS
    <3>2. CASE p < q
      <4>1. q \in 1..q /\ q \notin 1..p
        BY <3>2
      <4>2. QED
        BY <3>1, <4>1
    <3>3. CASE q < p
      <4>1. p \in 1..p /\ p \notin 1..q
        BY <3>3
      <4>2. QED
        BY <3>1, <4>1
    <3>4. QED
      BY <3>1, <3>2, <3>3
  <2>2. QED
    BY <1>2, <2>1
<1>4. QED
  BY <1>1, <1>3

\* What makes a table of capacity buckets hold a map.
Holds(hash, n, t, capacity, lay, f) ==
    /\ n.buckets[t] = [i \in 1..capacity |-> Link(lay[i], 1)]
    /\ \A i \in 1..capacity : Linked(hash, n, lay[i], f, i, capacity)
    /\ \A k \in DOMAIN f : \E j \in 1..Len(lay[Bucket(hash, k, capacity)]) :
          n.entries[lay[Bucket(hash, k, capacity)][j]].key = k

LEMMA LaidIf ==
    ASSUME NEW hash, NEW n, NEW t \in Tables, NEW capacity \in Nat \ {0}, NEW f \in Maps,
           NEW lay \in [1..capacity -> Seq(CellsOf(t))], Holds(hash, n, t, capacity, lay, f)
    PROVE  Laid(hash, n, t, lay, f) /\ Len(lay) = capacity
<1>0. /\ n.buckets[t] = [i \in 1..capacity |-> Link(lay[i], 1)]
      /\ \A i \in 1..capacity : Linked(hash, n, lay[i], f, i, capacity)
      /\ \A k \in DOMAIN f : \E j \in 1..Len(lay[Bucket(hash, k, capacity)]) :
            n.entries[lay[Bucket(hash, k, capacity)][j]].key = k
  BY DEF Holds
<1>1. lay \in Seq(Seq(CellsOf(t))) /\ Len(lay) = capacity
  BY FunctionIsSeq
<1>2. Len(n.buckets[t]) = capacity
  <2>1. \A i \in 1..capacity : Link(lay[i], 1) \in CellsOf(t) \cup {NoEntry}
    <3>1. \A i \in 1..capacity : lay[i] \in Seq(CellsOf(t))
      OBVIOUS
    <3>2. 1 \in Nat \ {0}
      OBVIOUS
    <3>3. QED
      BY <3>1, <3>2, LinkFacts
  <2>2. n.buckets[t] \in [1..capacity -> CellsOf(t) \cup {NoEntry}]
    BY <1>0, <2>1
  <2>3. QED
    BY <2>2, FunctionIsSeq
<1>3. Len(lay) > 0
  BY <1>1
<1>4. QED
  BY <1>0, <1>1, <1>2, <1>3 DEF Laid

(***************************************************************************)
(* A table that holds nothing                                              *)
(***************************************************************************)
LEMMA NothingIsAMap == <<>> \in Maps /\ DOMAIN <<>> = {}
<1>1. DOMAIN <<>> = {}
  OBVIOUS
<1>2. <<>> \in [{} -> Elements]
  OBVIOUS
<1>3. QED
  BY <1>1, <1>2 DEF Maps

Emptied(hash, m, n, t, capacity) ==
    /\ Shaped(n) /\ n.entries = m.entries
    /\ \A u \in Tables \ {t} : n.buckets[u] = m.buckets[u]
    /\ \E lay : /\ Laid(hash, n, t, lay, <<>>) /\ Len(lay) = capacity
                /\ \A i \in 1..capacity : Len(lay[i]) = 0

LEMMA WithTableLaid ==
    ASSUME NEW hash, NEW m, Shaped(m), NEW t \in Tables, NEW capacity \in Nat \ {0},
           NEW n, n = WithTable(m, t, capacity)
    PROVE  Emptied(hash, m, n, t, capacity)
<1>1. n = [buckets |-> [m.buckets EXCEPT ![t] = [i \in 1..capacity |-> NoEntry]], entries |-> m.entries]
  BY DEF Shaped, WithTable
<1>2. Shaped(n) /\ n.entries = m.entries /\ \A u \in Tables \ {t} : n.buckets[u] = m.buckets[u]
  BY <1>1 DEF Shaped
<1>3. n.buckets[t] = [i \in 1..capacity |-> NoEntry]
  BY <1>1 DEF Shaped
<1>. DEFINE lay == [i \in 1..capacity |-> <<>>]
<1>4. lay \in [1..capacity -> Seq(CellsOf(t))] /\ \A i \in 1..capacity : lay[i] = <<>>
  <2>1. <<>> \in Seq(CellsOf(t))
    OBVIOUS
  <2>2. QED
    BY <2>1
<1>. HIDE DEF lay
<1>5. Len(<<>>) = 0
  OBVIOUS
<1>6. n.buckets[t] = [i \in 1..capacity |-> Link(lay[i], 1)]
  <2>1. Link(<<>>, 1) = NoEntry
    BY <1>5 DEF Link
  <2>2. QED
    BY <1>3, <1>4, <2>1
<1>7. \A i \in 1..capacity : Linked(hash, n, lay[i], <<>>, i, capacity)
  <2>1. 1..Len(<<>>) = {}
    BY <1>5
  <2>2. QED
    BY <1>4, <2>1 DEF Linked
<1>8. \A k \in DOMAIN <<>> : \E j \in 1..Len(lay[Bucket(hash, k, capacity)]) :
                n.entries[lay[Bucket(hash, k, capacity)][j]].key = k
  BY NothingIsAMap
<1>9. Laid(hash, n, t, lay, <<>>) /\ Len(lay) = capacity
  <2>1. PICK e : e = <<>>
    OBVIOUS
  <2>2. e \in Maps
    BY <2>1, NothingIsAMap
  <2>3. /\ \A i \in 1..capacity : Linked(hash, n, lay[i], e, i, capacity)
        /\ \A k \in DOMAIN e : \E j \in 1..Len(lay[Bucket(hash, k, capacity)]) :
                n.entries[lay[Bucket(hash, k, capacity)][j]].key = k
    BY <1>7, <1>8, <2>1
  <2>4. lay \in [1..capacity -> Seq(CellsOf(t))]
    BY <1>4
  <2>5. Laid(hash, n, t, lay, e) /\ Len(lay) = capacity
    <3>1. Holds(hash, n, t, capacity, lay, e)
      BY <1>6, <2>3 DEF Holds
    <3>2. QED
      BY <2>2, <2>4, <3>1, LaidIf
  <2>6. QED
    BY <2>1, <2>5
<1>10. QED
  BY <1>2, <1>4, <1>5, <1>9 DEF Emptied

(***************************************************************************)
(* A key that is added                                                     *)
(***************************************************************************)
Extends(g, f, k, x) ==
    /\ g \in Maps /\ DOMAIN g = DOMAIN f \cup {k}
    /\ g[k] = x /\ \A l \in DOMAIN f \ {k} : g[l] = f[l]

LEMMA ExtendedIsAMap ==
    ASSUME NEW f \in Maps, NEW k \in Keys, NEW x \in Elements
    PROVE  Extends(Extended(f, k, x), f, k, x)
<1>1. DOMAIN f \cup {k} \subseteq Keys /\ \A l \in DOMAIN f : f[l] \in Elements
  BY MapFacts
<1>2. Extended(f, k, x) \in [DOMAIN f \cup {k} -> Elements]
  BY <1>1 DEF Extended
<1>3. Extended(f, k, x) \in Maps
  BY <1>1, <1>2 DEF Maps
<1>4. /\ DOMAIN Extended(f, k, x) = DOMAIN f \cup {k}
      /\ Extended(f, k, x)[k] = x
      /\ \A l \in DOMAIN f \ {k} : Extended(f, k, x)[l] = f[l]
  BY DEF Extended
<1>5. QED
  BY <1>3, <1>4 DEF Extends

\* There is memory for another key.
LEMMA FreeCellFacts ==
    ASSUME NEW hash, NEW m, NEW t \in Tables, NEW lay, NEW f, Laid(hash, m, t, lay, f), Exact(m, t, lay),
           NEW k \in Keys \ DOMAIN f
    PROVE  /\ FreeCell(m, t) \in CellsOf(t) /\ m.entries[FreeCell(m, t)] = NoEntry
<1>. DEFINE free == {i \in 1..MaxEntries : m.entries[<<t, i>>] = NoEntry}
            key == [i \in 1..MaxEntries |-> m.entries[<<t, i>>].key]
<1>1. MaxEntries \in Nat /\ IsFiniteSet(Keys) /\ Cardinality(Keys) <= MaxEntries
  BY RoomForEntries
<1>2. free # {}
  <2>1. SUFFICES ASSUME free = {} PROVE FALSE
    OBVIOUS
  <2>2. ASSUME NEW i \in 1..MaxEntries
        PROVE  \E p \in 1..Len(lay) : \E q \in 1..Len(lay[p]) : <<t, i>> = lay[p][q]
    <3>1. m.entries[<<t, i>>] # NoEntry
      BY <2>1
    <3>2. <<t, i>> \in CellsOf(t)
      BY DEF CellsOf
    <3>3. QED
      BY <3>1, <3>2 DEF Exact
  <2>3. ASSUME NEW i \in 1..MaxEntries
        PROVE  m.entries[<<t, i>>].key \in DOMAIN f
    <3>1. PICK p \in 1..Len(lay) : \E q \in 1..Len(lay[p]) : <<t, i>> = lay[p][q]
      BY <2>2
    <3>2. PICK q \in 1..Len(lay[p]) : <<t, i>> = lay[p][q]
      BY <3>1
    <3>3. Linked(hash, m, lay[p], f, p, Len(lay))
      BY DEF Laid
    <3>4. m.entries[lay[p][q]].key \in DOMAIN f
      BY <3>3 DEF Linked
    <3>5. QED
      BY <3>2, <3>4
  <2>4. ASSUME NEW i \in 1..MaxEntries, NEW j \in 1..MaxEntries,
               m.entries[<<t, i>>].key = m.entries[<<t, j>>].key
        PROVE  i = j
    <3>1. PICK p \in 1..Len(lay) : \E q \in 1..Len(lay[p]) : <<t, i>> = lay[p][q]
      BY <2>2
    <3>2. PICK q \in 1..Len(lay[p]) : <<t, i>> = lay[p][q]
      BY <3>1
    <3>3. PICK r \in 1..Len(lay) : \E u \in 1..Len(lay[r]) : <<t, j>> = lay[r][u]
      BY <2>2
    <3>4. PICK u \in 1..Len(lay[r]) : <<t, j>> = lay[r][u]
      BY <3>3
    <3>5. m.entries[lay[p][q]].key = m.entries[lay[r][u]].key
      BY <2>4, <3>2, <3>4
    <3>6. p = r /\ q = u
      BY <3>5, LaidDistinct
    <3>7. <<t, i>> = <<t, j>>
      BY <3>2, <3>4, <3>6
    <3>8. QED
      BY <3>7
  <2>5. key \in Injection(1..MaxEntries, DOMAIN f)
    <3>1. key \in [1..MaxEntries -> DOMAIN f]
      BY <2>3
    <3>2. \A i, j \in 1..MaxEntries : key[i] = key[j] => i = j
      BY <2>4
    <3>. HIDE DEF key
    <3>3. QED
      BY <3>1, <3>2 DEF Injection, IsInjective
  <2>6. DOMAIN f \in SUBSET (Keys \ {k})
    BY LaidFacts
  <2>7. IsFiniteSet(Keys \ {k}) /\ Cardinality(Keys \ {k}) = Cardinality(Keys) - 1
    <3>1. k \in Keys
      OBVIOUS
    <3>2. IsFiniteSet(Keys \ {k}) /\ Cardinality(Keys \ {k}) = IF k \in Keys THEN Cardinality(Keys) - 1 ELSE Cardinality(Keys)
      BY <1>1, FS_RemoveElement
    <3>3. QED
      BY <3>1, <3>2
  <2>8. IsFiniteSet(DOMAIN f) /\ Cardinality(DOMAIN f) <= Cardinality(Keys) - 1
    <3>1. IsFiniteSet(DOMAIN f) /\ Cardinality(DOMAIN f) <= Cardinality(Keys \ {k})
      BY <2>6, <2>7, FS_Subset
    <3>2. QED
      BY <2>7, <3>1
  <2>9. Cardinality(1..MaxEntries) <= Cardinality(DOMAIN f)
    <3>. HIDE DEF key
    <3>1. QED
      BY <2>5, <2>8, FS_Injection
  <2>10. Cardinality(1..MaxEntries) = MaxEntries
    <3>1. 1 \in Int /\ MaxEntries \in Int
      BY <1>1
    <3>2. Cardinality(1..MaxEntries) = IF 1 > MaxEntries THEN 0 ELSE MaxEntries - 1 + 1
      BY <3>1, FS_Interval
    <3>3. QED
      BY <1>1, <3>2
  <2>11. Cardinality(Keys) \in Nat /\ Cardinality(DOMAIN f) \in Nat
    BY <1>1, <2>8, FS_CardinalityType
  <2>12. QED
    BY <1>1, <2>8, <2>9, <2>10, <2>11
<1>3. free \in SUBSET Nat
  BY <1>1
<1>4. SetMin(free) \in free
  <2>. HIDE DEF free
  <2>1. QED
    BY <1>2, <1>3, SetMinFacts
<1>5. FreeCell(m, t) = <<t, SetMin(free)>>
  BY DEF FreeCell
<1>6. PICK i \in 1..MaxEntries : i = SetMin(free) /\ m.entries[<<t, i>>] = NoEntry
  BY <1>4
<1>7. QED
  BY <1>5, <1>6 DEF CellsOf

LEMMA LinkedKept ==
    ASSUME NEW hash, NEW m, NEW n, NEW s, NEW f, NEW g, NEW i, NEW b, Linked(hash, m, s, f, i, b),
           \A j \in 1..Len(s) : n.entries[s[j]] = m.entries[s[j]],
           \A j \in 1..Len(s) : /\ m.entries[s[j]].key \in DOMAIN g
                                /\ g[m.entries[s[j]].key] = f[m.entries[s[j]].key]
    PROVE  Linked(hash, n, s, g, i, b)
<1>1. ASSUME NEW j \in 1..Len(s)
      PROVE  /\ n.entries[s[j]] = [key |-> n.entries[s[j]].key,
                                   element |-> g[n.entries[s[j]].key],
                                   next |-> Link(s, j + 1)]
             /\ n.entries[s[j]].key \in DOMAIN g
             /\ Bucket(hash, n.entries[s[j]].key, b) = i
  <2>1. /\ m.entries[s[j]] = [key |-> m.entries[s[j]].key,
                              element |-> f[m.entries[s[j]].key],
                              next |-> Link(s, j + 1)]
        /\ Bucket(hash, m.entries[s[j]].key, b) = i
    BY DEF Linked
  <2>2. QED
    BY <2>1
<1>2. \A j, l \in 1..Len(s) : n.entries[s[j]].key = n.entries[s[l]].key => j = l
  BY DEF Linked
<1>3. QED
  BY <1>1, <1>2 DEF Linked

\* An entry is added behind the last one of its bucket.
InsertedAt(m, n, t, lay, b, c, k, x) ==
    /\ b \in 1..Len(lay)
    /\ Shaped(n)
    /\ \A u \in Tables \ {t} : SameTable(m, n, u)
    /\ n.buckets[t] = IF Len(lay[b]) = 0 THEN [m.buckets[t] EXCEPT ![b] = c] ELSE m.buckets[t]
    /\ n.entries[c] = [key |-> k, element |-> x, next |-> NoEntry]
    /\ Len(lay[b]) # 0 =>
          n.entries[lay[b][Len(lay[b])]] = [m.entries[lay[b][Len(lay[b])]] EXCEPT !.next = c]
    /\ \A d \in CellsOf(t) :
          /\ d # c
          /\ Len(lay[b]) # 0 => d # lay[b][Len(lay[b])]
          => n.entries[d] = m.entries[d]
    /\ c \in CellsOf(t) /\ m.entries[c] = NoEntry
    /\ \A i \in 1..Len(lay) : \A j \in 1..Len(lay[i]) : c # lay[i][j]

\* Assignments to a field of an entry, and to a bucket.
LEMMA SetNext ==
    ASSUME NEW memory, NEW bs, NEW es, memory = [buckets |-> bs, entries |-> es], NEW c, NEW d
    PROVE  [memory EXCEPT !.entries[c].next = d]
               = [buckets |-> bs, entries |-> [es EXCEPT ![c] = [es[c] EXCEPT !.next = d]]]
OBVIOUS

LEMMA SetBucket ==
    ASSUME NEW memory, NEW bs, NEW es, memory = [buckets |-> bs, entries |-> es], NEW t, NEW b, NEW d
    PROVE  [memory EXCEPT !.buckets[t][b] = d]
               = [buckets |-> [bs EXCEPT ![t] = [bs[t] EXCEPT ![b] = d]], entries |-> es]
OBVIOUS

LEMMA InsertedEntries ==
    ASSUME hashOf \in [Keys -> Nat], NEW m, Shaped(m), NEW t \in Tables, NEW lay, NEW f,
           Laid(hashOf, m, t, lay, f), Exact(m, t, lay),
           NEW k \in Keys \ DOMAIN f, NEW x, NEW n, n = Inserted(m, t, k, x),
           NEW b, b = Bucket(hashOf, k, Len(lay)), NEW c, c = FreeCell(m, t)
    PROVE  InsertedAt(m, n, t, lay, b, c, k, x)
<1>. USE DEF InsertedAt
<1>1. /\ Bucket(hashOf, k, Len(lay)) \in 1..Len(lay)
      /\ Index(m, t, k) = Bucket(hashOf, k, Len(lay))
      /\ ChainOf(m, t, k) = lay[Bucket(hashOf, k, Len(lay))]
  BY ChainOfLaid
<1>2. b \in 1..Len(lay) /\ Index(m, t, k) = b /\ ChainOf(m, t, k) = lay[b]
  BY <1>1
<1>3. c \in CellsOf(t) /\ m.entries[c] = NoEntry /\ c \in Cells
  <2>1. FreeCell(m, t) \in CellsOf(t) /\ m.entries[FreeCell(m, t)] = NoEntry
    BY FreeCellFacts
  <2>2. QED
    BY <2>1, CellFacts
<1>4. ASSUME NEW i \in 1..Len(lay), NEW j \in 1..Len(lay[i])
      PROVE  c # lay[i][j]
  <2>1. Linked(hashOf, m, lay[i], f, i, Len(lay))
    BY DEF Laid
  <2>2. /\ m.entries[lay[i][j]] = [key |-> m.entries[lay[i][j]].key,
                                   element |-> f[m.entries[lay[i][j]].key],
                                   next |-> Link(lay[i], j + 1)]
        /\ m.entries[lay[i][j]].key \in DOMAIN f
    BY <2>1 DEF Linked
  <2>3. m.entries[lay[i][j]] \in Entries
    <3>1. m.entries[lay[i][j]].key \in Keys /\ f[m.entries[lay[i][j]].key] \in Elements
      <4>1. f \in Maps
        BY DEF Laid
      <4>2. QED
        BY <2>2, <4>1, MapFacts
    <3>2. Link(lay[i], j + 1) \in Cells \cup {NoEntry}
      <4>1. lay[i] \in Seq(CellsOf(t)) /\ j + 1 \in Nat \ {0}
        BY LaidFacts
      <4>2. Link(lay[i], j + 1) \in CellsOf(t) \cup {NoEntry}
        BY <4>1, LinkFacts
      <4>3. QED
        BY <4>2, CellFacts
    <3>3. QED
      BY <2>2, <3>1, <3>2 DEF Entries
  <2>4. QED
    BY <1>3, <2>3, NoneIsNoEntry
<1>5. lay[b] = <<>> <=> Len(lay[b]) = 0
  <2>1. lay[b] \in Seq(CellsOf(t))
    BY <1>2, LaidFacts
  <2>2. QED
    BY <2>1, EmptySeq
<1>. DEFINE added == [m EXCEPT !.entries[c] = [key |-> k, element |-> x, next |-> NoEntry]]
            last == lay[b][Len(lay[b])]
<1>6. added = [buckets |-> m.buckets,
               entries |-> [m.entries EXCEPT ![c] = [key |-> k, element |-> x, next |-> NoEntry]]]
  BY DEF Shaped
<1>7. n = IF lay[b] = <<>> THEN [added EXCEPT !.buckets[t][b] = c]
          ELSE [added EXCEPT !.entries[last].next = c]
  BY <1>2 DEF Inserted, Last
<1>8. /\ added.entries[c] = [key |-> k, element |-> x, next |-> NoEntry]
      /\ \A d \in Cells \ {c} : added.entries[d] = m.entries[d]
      /\ DOMAIN added.entries = Cells /\ added.buckets = m.buckets
  BY <1>3, <1>6 DEF Shaped
<1>9. \A u \in Tables \ {t} : \A d \in CellsOf(u) : d \in Cells /\ d \notin CellsOf(t)
  <2>1. SUFFICES ASSUME NEW u \in Tables \ {t}, NEW d \in CellsOf(u)
                 PROVE  d \in Cells /\ d \notin CellsOf(t)
    OBVIOUS
  <2>2. d \in Cells /\ d[1] = u
    BY CellFacts
  <2>3. QED
    BY <2>2, CellFacts
<1>10. Len(lay[b]) # 0 => last \in CellsOf(t) /\ last \in Cells /\ last # c
  <2>1. SUFFICES ASSUME Len(lay[b]) # 0
                 PROVE  last \in CellsOf(t) /\ last \in Cells /\ last # c
    OBVIOUS
  <2>2. Len(lay[b]) \in 1..Len(lay[b])
    <3>1. Len(lay[b]) \in Nat
      BY <1>2, LaidFacts
    <3>2. QED
      BY <2>1, <3>1
  <2>3. last \in CellsOf(t)
    BY <1>2, <2>2, LaidFacts
  <2>4. QED
    BY <1>2, <1>4, <2>2, <2>3, CellFacts
<1>. HIDE DEF added, last
<1>11. CASE Len(lay[b]) = 0
  <2>1. n = [buckets |-> [m.buckets EXCEPT ![t] = [m.buckets[t] EXCEPT ![b] = c]], entries |-> added.entries]
    <3>1. added = [buckets |-> m.buckets, entries |-> added.entries]
      BY <1>6, <1>8
    <3>2. n = [added EXCEPT !.buckets[t][b] = c]
      BY <1>5, <1>7, <1>11
    <3>3. [added EXCEPT !.buckets[t][b] = c]
              = [buckets |-> [m.buckets EXCEPT ![t] = [m.buckets[t] EXCEPT ![b] = c]], entries |-> added.entries]
      BY ONLY <3>1, SetBucket
    <3>4. QED
      BY ONLY <3>2, <3>3
  <2>2. Shaped(n)
    BY <1>8, <2>1 DEF Shaped
  <2>3. n.entries = added.entries
    BY <2>1
  <2>4. \A u \in Tables \ {t} : SameTable(m, n, u)
    <3>1. \A u \in Tables \ {t} : n.buckets[u] = m.buckets[u]
      BY <2>1 DEF Shaped
    <3>2. QED
      BY <1>3, <1>8, <1>9, <2>3, <3>1 DEF SameTable
  <2>5. n.buckets[t] = [m.buckets[t] EXCEPT ![b] = c]
    BY <2>1 DEF Shaped
  <2>6. \A d \in CellsOf(t) : d # c => n.entries[d] = m.entries[d]
    BY <1>8, <2>3, CellFacts
  <2>7. QED
    BY <1>2, <1>3, <1>4, <1>8, <1>11, <2>2, <2>3, <2>4, <2>5, <2>6
<1>12. CASE Len(lay[b]) # 0
  <2>1. n = [buckets |-> m.buckets, entries |-> [added.entries EXCEPT ![last] = [added.entries[last] EXCEPT !.next = c]]]
    <3>1. added = [buckets |-> m.buckets, entries |-> added.entries]
      BY <1>6, <1>8
    <3>2. n = [added EXCEPT !.entries[last].next = c]
      BY <1>5, <1>7, <1>12
    <3>3. [added EXCEPT !.entries[last].next = c]
              = [buckets |-> m.buckets,
                 entries |-> [added.entries EXCEPT ![last] = [added.entries[last] EXCEPT !.next = c]]]
      BY ONLY <3>1, SetNext
    <3>4. QED
      BY ONLY <3>2, <3>3
  <2>2. Shaped(n)
    BY <1>8, <2>1 DEF Shaped
  <2>3. /\ n.entries[last] = [m.entries[last] EXCEPT !.next = c]
        /\ \A d \in Cells \ {last} : n.entries[d] = added.entries[d]
        /\ n.buckets = m.buckets
    BY <1>8, <1>10, <1>12, <2>1
  <2>4. \A u \in Tables \ {t} : SameTable(m, n, u)
    <3>1. \A u \in Tables \ {t} : \A d \in CellsOf(u) : d \in Cells \ {last} /\ d \in Cells \ {c}
      BY <1>3, <1>9, <1>10, <1>12
    <3>2. QED
      BY <1>8, <2>3, <3>1 DEF SameTable
  <2>5. \A d \in CellsOf(t) : d # c /\ d # last => n.entries[d] = m.entries[d]
    BY <1>8, <2>3, CellFacts
  <2>6. n.entries[c] = [key |-> k, element |-> x, next |-> NoEntry]
    BY <1>3, <1>8, <1>10, <1>12, <2>3
  <2>7. QED
    <3>1. /\ n.entries[lay[b][Len(lay[b])]] = [m.entries[lay[b][Len(lay[b])]] EXCEPT !.next = c]
          /\ \A d \in CellsOf(t) : d # c /\ d # lay[b][Len(lay[b])] => n.entries[d] = m.entries[d]
      BY <2>3, <2>5 DEF last
    <3>2. QED
      BY <1>2, <1>3, <1>4, <1>12, <2>2, <2>3, <2>4, <2>6, <3>1
<1>13. QED
  BY <1>11, <1>12

LEMMA AppendedFacts ==
    ASSUME NEW C, NEW s \in Seq(C), NEW c \in C
    PROVE  /\ Append(s, c) \in Seq(C) /\ Len(Append(s, c)) = Len(s) + 1
           /\ Append(s, c)[Len(s) + 1] = c
           /\ \A j \in 1..Len(s) : Append(s, c)[j] = s[j]
<1>1. Len(s) \in Nat
  BY SeqFacts
<1>2. /\ Append(s, c) \in Seq(C) /\ Len(Append(s, c)) = Len(s) + 1
      /\ Append(s, c)[Len(s) + 1] = c
      /\ \A j \in 1..Len(s) : Append(s, c)[j] = s[j]
  BY AppendProperties
<1>3. QED
  BY <1>2

LEMMA Insertion ==
    ASSUME hashOf \in [Keys -> Nat], NEW m, Shaped(m), NEW t \in Tables, NEW lay, NEW f,
           Laid(hashOf, m, t, lay, f), Exact(m, t, lay),
           NEW k \in Keys \ DOMAIN f, NEW x \in Elements, NEW n, n = Inserted(m, t, k, x)
    PROVE  /\ Shaped(n)
           /\ \A u \in Tables \ {t} : SameTable(m, n, u)
           /\ \E new : /\ Laid(hashOf, n, t, new, Extended(f, k, x)) /\ Exact(n, t, new)
                       /\ Len(new) = Len(lay)
<1>1. PICK b, c : b = Bucket(hashOf, k, Len(lay)) /\ c = FreeCell(m, t)
  OBVIOUS
<1>2. /\ b \in 1..Len(lay)
      /\ Shaped(n)
      /\ \A u \in Tables \ {t} : SameTable(m, n, u)
      /\ n.buckets[t] = IF Len(lay[b]) = 0 THEN [m.buckets[t] EXCEPT ![b] = c] ELSE m.buckets[t]
      /\ n.entries[c] = [key |-> k, element |-> x, next |-> NoEntry]
      /\ Len(lay[b]) # 0 =>
            n.entries[lay[b][Len(lay[b])]] = [m.entries[lay[b][Len(lay[b])]] EXCEPT !.next = c]
      /\ \A d \in CellsOf(t) :
            /\ d # c
            /\ Len(lay[b]) # 0 => d # lay[b][Len(lay[b])]
            => n.entries[d] = m.entries[d]
      /\ c \in CellsOf(t) /\ m.entries[c] = NoEntry
      /\ \A i \in 1..Len(lay) : \A j \in 1..Len(lay[i]) : c # lay[i][j]
  <2>1. InsertedAt(m, n, t, lay, b, c, k, x)
    BY <1>1, InsertedEntries
  <2>2. QED
    BY ONLY <2>1 DEF InsertedAt
<1>. DEFINE s == lay[b]
            N == Len(lay)
            z == Len(s)
            s2 == Append(s, c)
            new == [lay EXCEPT ![b] = s2]
            g == Extended(f, k, x)
<1>3. /\ N \in Nat \ {0} /\ DOMAIN lay = 1..N /\ b \in 1..N
      /\ \A i \in 1..N : lay[i] \in Seq(CellsOf(t)) /\ Len(lay[i]) \in Nat
      /\ \A i \in 1..N : \A j \in 1..Len(lay[i]) : lay[i][j] \in CellsOf(t)
      /\ DOMAIN f \subseteq Keys
  BY <1>2, LaidFacts
<1>4. s \in Seq(CellsOf(t)) /\ z \in Nat /\ \A j \in 1..z : s[j] \in CellsOf(t)
  BY <1>3
<1>5. /\ s2 \in Seq(CellsOf(t)) /\ Len(s2) = z + 1 /\ s2[z + 1] = c
      /\ \A j \in 1..z : s2[j] = s[j]
  <2>. HIDE DEF s
  <2>1. QED
    BY <1>2, <1>4, AppendedFacts
<1>6. /\ new \in [1..N -> Seq(CellsOf(t))]
      /\ new[b] = s2 /\ \A i \in 1..N \ {b} : new[i] = lay[i]
  <2>. HIDE DEF s2
  <2>1. QED
    BY <1>3, <1>5
<1>7. /\ g \in Maps /\ DOMAIN g = DOMAIN f \cup {k} /\ g[k] = x
      /\ \A l \in DOMAIN f \ {k} : g[l] = f[l]
  <2>1. f \in Maps /\ k \in Keys
    BY DEF Laid
  <2>2. Extends(Extended(f, k, x), f, k, x)
    BY ONLY <2>1, x \in Elements, ExtendedIsAMap
  <2>3. QED
    BY ONLY <2>2 DEF Extends
<1>8. \A i \in 1..N : Linked(hashOf, m, lay[i], f, i, N)
  BY DEF Laid
<1>9. \A i, p \in 1..N : \A j \in 1..Len(lay[i]), q \in 1..Len(lay[p]) : lay[i][j] = lay[p][q] => i = p /\ j = q
  <2>1. DistinctCells(lay)
    BY LaidCellsDistinct
  <2>2. QED
    BY ONLY <2>1 DEF DistinctCells
<1>10. z # 0 => z \in 1..z
  BY <1>4
<1>11. ASSUME NEW i \in 1..N, NEW j \in 1..Len(lay[i]), ~(i = b /\ j = z)
       PROVE  n.entries[lay[i][j]] = m.entries[lay[i][j]]
  <2>1. lay[i][j] \in CellsOf(t) /\ lay[i][j] # c
    BY <1>2, <1>3
  <2>2. z # 0 => lay[i][j] # lay[b][z]
    BY <1>3, <1>9, <1>10, <1>11
  <2>3. QED
    BY <1>2, <2>1, <2>2
<1>12. ASSUME z # 0
       PROVE  n.entries[s[z]] = [key |-> m.entries[s[z]].key, element |-> m.entries[s[z]].element, next |-> c]
  <2>1. m.entries[s[z]] = [key |-> m.entries[s[z]].key,
                           element |-> f[m.entries[s[z]].key],
                           next |-> Link(s, z + 1)]
    BY <1>3, <1>8, <1>10, <1>12 DEF Linked
  <2>2. n.entries[s[z]] = [m.entries[s[z]] EXCEPT !.next = c]
    BY <1>2, <1>12
  <2>3. QED
    BY <2>1, <2>2
<1>13. \A i \in 1..N : \A j \in 1..Len(lay[i]) : n.entries[lay[i][j]].key = m.entries[lay[i][j]].key
  <2>1. SUFFICES ASSUME NEW i \in 1..N, NEW j \in 1..Len(lay[i])
                 PROVE  n.entries[lay[i][j]].key = m.entries[lay[i][j]].key
    OBVIOUS
  <2>2. CASE i = b /\ j = z
    <3>1. z # 0
      BY <1>4, <2>2
    <3>2. QED
      BY <1>12, <2>2, <3>1
  <2>3. CASE ~(i = b /\ j = z)
    BY <1>11, <2>3
  <2>4. QED
    BY <2>2, <2>3
<1>14. ASSUME NEW i \in 1..N, NEW j \in 1..Len(lay[i])
       PROVE  /\ m.entries[lay[i][j]].key \in DOMAIN f /\ m.entries[lay[i][j]].key # k
              /\ m.entries[lay[i][j]].key \in DOMAIN g
              /\ g[m.entries[lay[i][j]].key] = f[m.entries[lay[i][j]].key]
  <2>1. m.entries[lay[i][j]].key \in DOMAIN f
    BY <1>8 DEF Linked
  <2>. HIDE DEF g
  <2>2. QED
    BY <1>7, <2>1
<1>. HIDE DEF g, s2, new, N
<1>15. ASSUME NEW i \in 1..N \ {b}
       PROVE  Linked(hashOf, n, new[i], g, i, N)
  <2>1. PICK u : u = lay[i]
    OBVIOUS
  <2>2. Linked(hashOf, m, u, f, i, N)
    BY <1>8, <2>1
  <2>3. \A j \in 1..Len(u) : n.entries[u[j]] = m.entries[u[j]]
    BY <1>11, <2>1
  <2>4. \A j \in 1..Len(u) : m.entries[u[j]].key \in DOMAIN g /\ g[m.entries[u[j]].key] = f[m.entries[u[j]].key]
    BY <1>14, <2>1
  <2>5. Linked(hashOf, n, u, g, i, N)
    BY <2>2, <2>3, <2>4, LinkedKept
  <2>6. QED
    BY <1>6, <2>1, <2>5
<1>16. Linked(hashOf, n, s2, g, b, N)
  <2>1. Linked(hashOf, m, s, f, b, N)
    BY <1>3, <1>8
  <2>2. \A j \in 1..(z + 1) : j \in 1..z \/ j = z + 1
    BY <1>4
  <2>3. \A j \in 1..z : n.entries[s2[j]].key = m.entries[s[j]].key /\ m.entries[s[j]].key # k
    <3>1. SUFFICES ASSUME NEW j \in 1..z
                   PROVE  n.entries[s2[j]].key = m.entries[s[j]].key /\ m.entries[s[j]].key # k
      OBVIOUS
    <3>2. s2[j] = s[j]
      BY <1>5
    <3>3. n.entries[s[j]].key = m.entries[s[j]].key
      BY <1>3, <1>13
    <3>4. m.entries[s[j]].key # k
      BY <1>3, <1>14
    <3>5. QED
      BY <3>2, <3>3, <3>4
  <2>4. n.entries[s2[z + 1]].key = k
    BY <1>2, <1>5
  <2>5. ASSUME NEW j \in 1..(z + 1)
        PROVE  n.entries[s2[j]] = [key |-> n.entries[s2[j]].key,
                                   element |-> g[n.entries[s2[j]].key],
                                   next |-> Link(s2, j + 1)]
    <3>1. CASE j = z + 1
      <4>1. ~(j + 1 <= Len(s2))
        BY <1>4, <1>5, <3>1
      <4>2. Link(s2, j + 1) = NoEntry
        BY <4>1 DEF Link
      <4>3. n.entries[s2[j]] = [key |-> k, element |-> g[k], next |-> Link(s2, j + 1)]
        BY <1>2, <1>5, <1>7, <3>1, <4>2
      <4>4. QED
        BY <4>3
    <3>2. CASE j \in 1..z
      <4>1. m.entries[s[j]] = [key |-> m.entries[s[j]].key,
                               element |-> f[m.entries[s[j]].key],
                               next |-> Link(s, j + 1)]
        BY <2>1, <3>2 DEF Linked
      <4>2. g[m.entries[s[j]].key] = f[m.entries[s[j]].key]
        BY <1>3, <1>14, <3>2
      <4>3. s2[j] = s[j] /\ j + 1 <= Len(s2)
        BY <1>4, <1>5, <3>2
      <4>4. Link(s2, j + 1) = s2[j + 1]
        BY <4>3 DEF Link
      <4>5. CASE j = z
        <5>1. z # 0 /\ s2[j + 1] = c
          BY <1>4, <1>5, <3>2, <4>5
        <5>2. n.entries[s[j]] = [key |-> m.entries[s[j]].key, element |-> m.entries[s[j]].element, next |-> c]
          BY <1>12, <4>5, <5>1
        <5>3. m.entries[s[j]].element = g[m.entries[s[j]].key]
          BY <4>1, <4>2
        <5>4. n.entries[s[j]] = [key |-> m.entries[s[j]].key, element |-> g[m.entries[s[j]].key], next |-> Link(s2, j + 1)]
          BY <4>4, <5>1, <5>2, <5>3
        <5>5. QED
          BY <4>3, <5>4
      <4>6. CASE j # z
        <5>1. j + 1 \in 1..z /\ j + 1 <= z
          BY <1>4, <3>2, <4>6
        <5>2. Link(s, j + 1) = s2[j + 1]
          BY <1>5, <5>1 DEF Link
        <5>3. n.entries[s[j]] = m.entries[s[j]]
          BY <1>3, <1>11, <3>2, <4>6
        <5>4. n.entries[s[j]] = [key |-> m.entries[s[j]].key, element |-> g[m.entries[s[j]].key], next |-> Link(s2, j + 1)]
          BY <4>1, <4>2, <4>4, <5>2, <5>3
        <5>5. QED
          BY <4>3, <5>4
      <4>7. QED
        BY <4>5, <4>6
    <3>3. QED
      BY <2>2, <3>1, <3>2
  <2>6. ASSUME NEW j \in 1..(z + 1)
        PROVE  n.entries[s2[j]].key \in DOMAIN g /\ Bucket(hashOf, n.entries[s2[j]].key, N) = b
    <3>1. CASE j = z + 1
      BY <1>1, <1>7, <2>4, <3>1 DEF N
    <3>2. CASE j \in 1..z
      <4>1. m.entries[s[j]].key \in DOMAIN g
        BY <1>3, <1>14, <3>2
      <4>2. Bucket(hashOf, m.entries[s[j]].key, N) = b
        BY <2>1, <3>2 DEF Linked
      <4>3. QED
        BY <2>3, <3>2, <4>1, <4>2
    <3>3. QED
      BY <2>2, <3>1, <3>2
  <2>7. ASSUME NEW j \in 1..(z + 1), NEW l \in 1..(z + 1), n.entries[s2[j]].key = n.entries[s2[l]].key
        PROVE  j = l
    <3>1. CASE j \in 1..z /\ l \in 1..z
      <4>1. m.entries[s[j]].key = m.entries[s[l]].key
        BY <2>3, <2>7, <3>1
      <4>2. QED
        BY <2>1, <3>1, <4>1 DEF Linked
    <3>2. CASE ~(j \in 1..z /\ l \in 1..z)
      BY <2>2, <2>3, <2>4, <2>7, <3>2
    <3>3. QED
      BY <3>1, <3>2
  <2>8. QED
    BY <1>5, <2>5, <2>6, <2>7 DEF Linked
<1>17. \A i \in 1..N : Linked(hashOf, n, new[i], g, i, N)
  BY <1>6, <1>15, <1>16
<1>18. n.buckets[t] = [i \in 1..N |-> Link(new[i], 1)]
  <2>1. m.buckets[t] = [i \in 1..N |-> Link(lay[i], 1)]
    BY DEF Laid, N
  <2>2. \A i \in 1..N \ {b} : Link(new[i], 1) = Link(lay[i], 1)
    BY <1>6
  <2>3. CASE z = 0
    <3>1. Link(new[b], 1) = c
      <4>1. z + 1 = 1 /\ 1 <= 1
        BY <2>3
      <4>2. Len(s2) = 1 /\ s2[1] = c
        BY <1>5, <4>1
      <4>3. QED
        BY <1>6, <4>1, <4>2 DEF Link
    <3>2. n.buckets[t] = [m.buckets[t] EXCEPT ![b] = c]
      BY <1>2, <2>3
    <3>3. [m.buckets[t] EXCEPT ![b] = c] = [i \in 1..N |-> IF i = b THEN c ELSE Link(lay[i], 1)]
      BY ONLY <2>1
    <3>4. \A i \in 1..N : (IF i = b THEN c ELSE Link(lay[i], 1)) = Link(new[i], 1)
      BY <2>2, <3>1
    <3>5. QED
      BY ONLY <3>2, <3>3, <3>4
  <2>4. CASE z # 0
    <3>1. 1 \in 1..z /\ 1 <= z /\ 1 <= z + 1
      BY <1>4, <2>4
    <3>2. Link(new[b], 1) = Link(lay[b], 1)
      BY <1>5, <1>6, <3>1 DEF Link
    <3>3. n.buckets[t] = m.buckets[t]
      BY <1>2, <2>4
    <3>4. QED
      BY <2>1, <2>2, <3>2, <3>3
  <2>5. QED
    BY <2>3, <2>4
<1>19. ASSUME NEW l \in DOMAIN g
       PROVE  \E j \in 1..Len(new[Bucket(hashOf, l, N)]) : n.entries[new[Bucket(hashOf, l, N)][j]].key = l
  <2>1. PICK i : i = Bucket(hashOf, l, N)
    OBVIOUS
  <2>2. i \in 1..N
    <3>1. l \in Keys
      BY <1>3, <1>7
    <3>2. QED
      BY <1>3, <2>1, <3>1, BucketFacts
  <2>3. CASE l = k
    <3>1. i = b
      BY <1>1, <2>1, <2>3 DEF N
    <3>2. z + 1 \in 1..Len(new[i]) /\ new[i][z + 1] = c
      BY <1>4, <1>5, <1>6, <3>1
    <3>3. n.entries[c].key = l
      BY <1>2, <2>3
    <3>4. QED
      BY <2>1, <3>2, <3>3
  <2>4. CASE l # k
    <3>1. l \in DOMAIN f
      BY <1>7, <2>4
    <3>2. PICK j \in 1..Len(lay[i]) : m.entries[lay[i][j]].key = l
      BY <2>1, <3>1 DEF Laid, N
    <3>3. j \in 1..Len(new[i]) /\ new[i][j] = lay[i][j]
      <4>1. CASE i = b
        BY <1>4, <1>5, <1>6, <4>1
      <4>2. CASE i # b
        BY <1>6, <2>2, <4>2
      <4>3. QED
        BY <4>1, <4>2
    <3>4. n.entries[lay[i][j]].key = l
      BY <1>13, <2>2, <3>2
    <3>5. QED
      BY <2>1, <3>3, <3>4
  <2>5. QED
    BY <2>3, <2>4
<1>20. Laid(hashOf, n, t, new, g) /\ Len(new) = N
  <2>1. Holds(hashOf, n, t, N, new, g)
    BY <1>17, <1>18, <1>19 DEF Holds
  <2>2. QED
    BY <1>3, <1>6, <1>7, <2>1, LaidIf
<1>21. Exact(n, t, new)
  <2>1. SUFFICES ASSUME NEW d \in CellsOf(t), n.entries[d] # NoEntry
                 PROVE  \E i \in 1..N : \E j \in 1..Len(new[i]) : d = new[i][j]
    BY <1>20 DEF Exact
  <2>2. CASE d = c
    <3>1. z + 1 \in 1..Len(new[b]) /\ new[b][z + 1] = c
      BY <1>4, <1>5, <1>6
    <3>2. QED
      BY <1>3, <2>2, <3>1
  <2>3. CASE d # c
    <3>1. \E i \in 1..N : \E j \in 1..Len(lay[i]) : d = lay[i][j]
      <4>1. CASE z # 0 /\ d = lay[b][z]
        BY <1>3, <1>10, <4>1
      <4>2. CASE ~(z # 0 /\ d = lay[b][z])
        <5>1. m.entries[d] # NoEntry
          BY <1>2, <2>1, <2>3, <4>2
        <5>2. QED
          BY <5>1 DEF Exact, N
      <4>3. QED
        BY <4>1, <4>2
    <3>2. PICK i \in 1..N : \E j \in 1..Len(lay[i]) : d = lay[i][j]
      BY <3>1
    <3>3. PICK j \in 1..Len(lay[i]) : d = lay[i][j]
      BY <3>2
    <3>4. j \in 1..Len(new[i]) /\ new[i][j] = lay[i][j]
      <4>1. CASE i = b
        BY <1>4, <1>5, <1>6, <4>1
      <4>2. CASE i # b
        BY <1>6, <4>2
      <4>3. QED
        BY <4>1, <4>2
    <3>5. QED
      BY <3>3, <3>4
  <2>4. QED
    BY <2>2, <2>3
<1>22. QED
  BY <1>2, <1>20, <1>21 DEF g, N

(***************************************************************************)
(* A key that is set again                                                 *)
(***************************************************************************)
WithEntry(m, c, e) == [buckets |-> m.buckets, entries |-> [m.entries EXCEPT ![c] = e]]

LEMMA WithEntryFacts ==
    ASSUME NEW m, Shaped(m), NEW t \in Tables, NEW c \in CellsOf(t), NEW e, NEW n, n = WithEntry(m, c, e)
    PROVE  /\ Shaped(n) /\ n.buckets = m.buckets /\ n.entries[c] = e
           /\ \A u \in Tables : \A d \in CellsOf(u) : d # c => n.entries[d] = m.entries[d]
           /\ \A u \in Tables \ {t} : SameTable(m, n, u)
<1>1. n = [buckets |-> m.buckets, entries |-> [m.entries EXCEPT ![c] = e]]
  BY DEF WithEntry
<1>2. c \in Cells /\ c[1] = t
  BY CellFacts
<1>3. Shaped(n) /\ n.buckets = m.buckets /\ n.entries[c] = e
  BY <1>1, <1>2 DEF Shaped
<1>4. \A d \in Cells \ {c} : n.entries[d] = m.entries[d]
  BY <1>1 DEF Shaped
<1>5. ASSUME NEW u \in Tables, NEW d \in CellsOf(u)
      PROVE  d \in Cells /\ d[1] = u
  BY CellFacts
<1>6. \A u \in Tables : \A d \in CellsOf(u) : d # c => n.entries[d] = m.entries[d]
  BY <1>4, <1>5
<1>7. \A u \in Tables \ {t} : \A d \in CellsOf(u) : d # c
  BY <1>2, <1>5
<1>8. QED
  BY <1>3, <1>6, <1>7 DEF SameTable

LEMMA Replacement ==
    ASSUME hashOf \in [Keys -> Nat], NEW m, Shaped(m), NEW t \in Tables, NEW lay, NEW f,
           Laid(hashOf, m, t, lay, f), NEW k \in Keys, FindKey(m, t, k) # {}, NEW x \in Elements,
           NEW n, n = [m EXCEPT !.entries[Found(m, t, k)].element = x]
    PROVE  /\ k \in DOMAIN f
           /\ Shaped(n)
           /\ \A u \in Tables \ {t} : SameTable(m, n, u)
           /\ Laid(hashOf, n, t, lay, Extended(f, k, x))
<1>. DEFINE N == Len(lay)
            g == Extended(f, k, x)
<1>1. PICK b : b = Bucket(hashOf, k, Len(lay))
  OBVIOUS
<1>2. k \in DOMAIN f
  BY <1>1, FindLaid
<1>3. b \in 1..N
  BY <1>1, ChainOfLaid
<1>4. PICK j \in 1..Len(lay[b]) : Found(m, t, k) = lay[b][j] /\ m.entries[lay[b][j]].key = k
  <2>1. \E j \in 1..Len(lay[b]) : FoundAt(m, t, k, f, lay[b], j)
    BY <1>1, <1>2, FindLaid
  <2>2. QED
    BY <2>1 DEF FoundAt
<1>5. PICK c : c = lay[b][j]
  OBVIOUS
<1>6. c \in CellsOf(t)
  BY <1>3, <1>5, LaidFacts
<1>7. /\ Shaped(n) /\ n.buckets = m.buckets
      /\ n.entries[c] = [m.entries[c] EXCEPT !.element = x]
      /\ \A u \in Tables : \A d \in CellsOf(u) : d # c => n.entries[d] = m.entries[d]
      /\ \A u \in Tables \ {t} : SameTable(m, n, u)
  <2>1. PICK e : e = [m.entries[c] EXCEPT !.element = x]
    OBVIOUS
  <2>2. n = WithEntry(m, c, e)
    <3>1. n = [m EXCEPT !.entries[c].element = x]
      BY <1>4, <1>5
    <3>2. m = [buckets |-> m.buckets, entries |-> m.entries]
      BY DEF Shaped
    <3>3. QED
      BY <2>1, <3>1, <3>2 DEF WithEntry
  <2>3. /\ Shaped(n) /\ n.buckets = m.buckets /\ n.entries[c] = e
        /\ \A u \in Tables : \A d \in CellsOf(u) : d # c => n.entries[d] = m.entries[d]
        /\ \A u \in Tables \ {t} : SameTable(m, n, u)
    BY ONLY Shaped(m), t \in Tables, <1>6, <2>2, WithEntryFacts
  <2>4. QED
    BY <2>1, <2>3
<1>8. g \in Maps
  <2>1. f \in Maps
    BY DEF Laid
  <2>2. Extends(Extended(f, k, x), f, k, x)
    BY ONLY <2>1, k \in Keys, x \in Elements, ExtendedIsAMap
  <2>3. QED
    BY ONLY <2>2 DEF Extends
<1>9. DOMAIN g = DOMAIN f /\ g[k] = x /\ \A l \in DOMAIN f \ {k} : g[l] = f[l]
  BY <1>2 DEF Extended
<1>. HIDE DEF g, N
<1>10. ASSUME NEW i \in 1..N
       PROVE  Linked(hashOf, n, lay[i], g, i, N)
  <2>1. Linked(hashOf, m, lay[i], f, i, N)
    BY <1>10 DEF Laid, N
  <2>2. ASSUME NEW l \in 1..Len(lay[i])
        PROVE  /\ n.entries[lay[i][l]].key = m.entries[lay[i][l]].key
               /\ n.entries[lay[i][l]] = [key |-> m.entries[lay[i][l]].key,
                                          element |-> g[m.entries[lay[i][l]].key],
                                          next |-> Link(lay[i], l + 1)]
               /\ m.entries[lay[i][l]].key \in DOMAIN g
               /\ Bucket(hashOf, m.entries[lay[i][l]].key, N) = i
    <3>1. /\ m.entries[lay[i][l]] = [key |-> m.entries[lay[i][l]].key,
                                     element |-> f[m.entries[lay[i][l]].key],
                                     next |-> Link(lay[i], l + 1)]
          /\ m.entries[lay[i][l]].key \in DOMAIN f
          /\ Bucket(hashOf, m.entries[lay[i][l]].key, N) = i
      BY <2>1 DEF Linked
    <3>2. CASE lay[i][l] = c
      <4>1. m.entries[lay[i][l]].key = k
        BY <1>4, <1>5, <3>2
      <4>2. n.entries[lay[i][l]] = [key |-> k, element |-> x, next |-> Link(lay[i], l + 1)]
        BY <1>7, <3>1, <3>2, <4>1
      <4>3. QED
        BY <1>9, <3>1, <4>1, <4>2
    <3>3. CASE lay[i][l] # c
      <4>1. m.entries[lay[i][l]].key # k
        <5>1. SUFFICES ASSUME m.entries[lay[i][l]].key = k PROVE FALSE
          OBVIOUS
        <5>2. i = b /\ l = j
          <6>1. m.entries[lay[i][l]].key = m.entries[lay[b][j]].key
            BY <1>4, <5>1
          <6>2. i \in 1..Len(lay) /\ b \in 1..Len(lay)
            BY <1>3, <1>10 DEF N
          <6>3. QED
            BY <6>1, <6>2, LaidDistinct
        <5>3. QED
          BY <1>5, <3>3, <5>2
      <4>2. n.entries[lay[i][l]] = m.entries[lay[i][l]]
        <5>1. lay[i][l] \in CellsOf(t)
          BY <1>10, LaidFacts DEF N
        <5>2. QED
          BY <1>7, <3>3, <5>1
      <4>3. g[m.entries[lay[i][l]].key] = f[m.entries[lay[i][l]].key]
        BY <1>9, <3>1, <4>1
      <4>4. n.entries[lay[i][l]] = [key |-> m.entries[lay[i][l]].key,
                                    element |-> g[m.entries[lay[i][l]].key],
                                    next |-> Link(lay[i], l + 1)]
        BY <3>1, <4>2, <4>3
      <4>5. QED
        BY <1>9, <3>1, <4>2, <4>4
    <3>4. QED
      BY <3>2, <3>3
  <2>3. \A p, q \in 1..Len(lay[i]) : m.entries[lay[i][p]].key = m.entries[lay[i][q]].key => p = q
    BY <2>1 DEF Linked
  <2>4. ASSUME NEW l \in 1..Len(lay[i])
        PROVE  /\ n.entries[lay[i][l]] = [key |-> n.entries[lay[i][l]].key,
                                          element |-> g[n.entries[lay[i][l]].key],
                                          next |-> Link(lay[i], l + 1)]
               /\ n.entries[lay[i][l]].key \in DOMAIN g
               /\ Bucket(hashOf, n.entries[lay[i][l]].key, N) = i
    BY <2>2
  <2>5. \A p, q \in 1..Len(lay[i]) : n.entries[lay[i][p]].key = n.entries[lay[i][q]].key => p = q
    BY <2>2, <2>3
  <2>6. QED
    BY <2>4, <2>5 DEF Linked
<1>11. ASSUME NEW l \in DOMAIN g
       PROVE  LET s == lay[Bucket(hashOf, l, N)] IN \E p \in 1..Len(s) : n.entries[s[p]].key = l
  <2>1. PICK i : i = Bucket(hashOf, l, N)
    OBVIOUS
  <2>2. PICK p \in 1..Len(lay[i]) : m.entries[lay[i][p]].key = l
    BY <1>9, <2>1 DEF Laid, N
  <2>3. i \in 1..N
    <3>1. l \in Keys /\ N \in Nat \ {0}
      BY <1>9, LaidFacts DEF N
    <3>2. QED
      BY <2>1, <3>1, BucketFacts
  <2>4. n.entries[lay[i][p]].key = l
    <3>1. Linked(hashOf, m, lay[i], f, i, N)
      BY <2>3 DEF Laid, N
    <3>2. lay[i][p] \in CellsOf(t)
      BY <2>3, LaidFacts DEF N
    <3>3. CASE lay[i][p] = c
      <4>1. m.entries[c] = [key |-> m.entries[c].key, element |-> f[m.entries[c].key], next |-> Link(lay[i], p + 1)]
        BY <3>1, <3>3 DEF Linked
      <4>2. QED
        BY <1>7, <2>2, <3>3, <4>1
    <3>4. CASE lay[i][p] # c
      BY <1>7, <2>2, <3>2, <3>4
    <3>5. QED
      BY <3>3, <3>4
  <2>5. QED
    BY <2>1, <2>4
<1>12. Laid(hashOf, n, t, lay, g)
  <2>1. n.buckets[t] = m.buckets[t]
    BY <1>7
  <2>2. /\ lay \in Seq(Seq(CellsOf(t))) /\ N > 0
        /\ Len(m.buckets[t]) = N
        /\ m.buckets[t] = [i \in 1..N |-> Link(lay[i], 1)]
    BY DEF Laid, N
  <2>3. QED
    BY <1>8, <1>10, <1>11, <2>1, <2>2 DEF Laid, N
<1>13. QED
  BY <1>2, <1>7, <1>12 DEF g

(***************************************************************************)
(* A key that is removed                                                   *)
(***************************************************************************)
LEMMA ShortenedIsAMap ==
    ASSUME NEW f \in Maps, NEW k
    PROVE  /\ Shortened(f, k) \in Maps
           /\ DOMAIN Shortened(f, k) = DOMAIN f \ {k}
           /\ \A l \in DOMAIN f \ {k} : Shortened(f, k)[l] = f[l]
<1>1. DOMAIN f \ {k} \subseteq Keys /\ \A l \in DOMAIN f : f[l] \in Elements
  BY MapFacts
<1>2. Shortened(f, k) \in [DOMAIN f \ {k} -> Elements]
  BY <1>1 DEF Shortened
<1>3. Shortened(f, k) \in Maps
  BY <1>1, <1>2 DEF Maps
<1>4. QED
  BY <1>3 DEF Shortened

UnlinkedAt(m, n, t, k, s, b, j) ==
    /\ m.entries[s[j]].key = k
    /\ n.buckets[t] = IF j = 1 THEN [m.buckets[t] EXCEPT ![b] = Link(s, 2)] ELSE m.buckets[t]
    /\ j # 1 => n.entries[s[j - 1]] = [m.entries[s[j - 1]] EXCEPT !.next = Link(s, j + 1)]
    /\ \A d \in CellsOf(t) : (j # 1 => d # s[j - 1]) => n.entries[d] = m.entries[d]

\* The entry before the one of the key, or the bucket, refers to the next.
LEMMA UnlinkedEntries ==
    ASSUME hashOf \in [Keys -> Nat], NEW m, Shaped(m), NEW t \in Tables, NEW lay, NEW f,
           Laid(hashOf, m, t, lay, f), NEW k \in Keys, FindKey(m, t, k) # {},
           NEW n, n = Unlinked(m, t, k), NEW b, b = Bucket(hashOf, k, Len(lay))
    PROVE  /\ k \in DOMAIN f /\ b \in 1..Len(lay)
           /\ Shaped(n)
           /\ \A u \in Tables \ {t} : SameTable(m, n, u)
           /\ \E j \in 1..Len(lay[b]) : UnlinkedAt(m, n, t, k, lay[b], b, j)
<1>1. k \in DOMAIN f
  BY FindLaid
<1>2. b \in 1..Len(lay) /\ Index(m, t, k) = b /\ ChainOf(m, t, k) = lay[b]
  BY ChainOfLaid
<1>3. PICK j \in 1..Len(lay[b]) : SetMin(FindKey(m, t, k)) = j /\ m.entries[lay[b][j]].key = k
  <2>1. \E j \in 1..Len(lay[b]) : FoundAt(m, t, k, f, lay[b], j)
    BY <1>1, FindLaid
  <2>2. QED
    BY <2>1 DEF FoundAt
<1>4. Linked(hashOf, m, lay[b], f, b, Len(lay))
  BY <1>2 DEF Laid
<1>5. m.entries[lay[b][j]].next = Link(lay[b], j + 1)
  <2>1. m.entries[lay[b][j]] = [key |-> m.entries[lay[b][j]].key,
                                element |-> f[m.entries[lay[b][j]].key],
                                next |-> Link(lay[b], j + 1)]
    BY <1>4 DEF Linked
  <2>2. QED
    BY <2>1
<1>6. PICK next : next = Link(lay[b], j + 1)
  OBVIOUS
<1>7. n = IF j = 1 THEN [m EXCEPT !.buckets[t][b] = next]
          ELSE [m EXCEPT !.entries[lay[b][j - 1]].next = next]
  BY <1>2, <1>3, <1>5, <1>6 DEF Unlinked
<1>8. m = [buckets |-> m.buckets, entries |-> m.entries] /\ DOMAIN m.buckets = Tables /\ DOMAIN m.entries = Cells
  BY DEF Shaped
<1>10. CASE j = 1
  <2>1. n = [buckets |-> [m.buckets EXCEPT ![t] = [m.buckets[t] EXCEPT ![b] = next]], entries |-> m.entries]
    BY <1>7, <1>8, <1>10
  <2>2. Shaped(n) /\ n.entries = m.entries /\ \A u \in Tables \ {t} : n.buckets[u] = m.buckets[u]
    BY <1>8, <2>1 DEF Shaped
  <2>3. n.buckets[t] = [m.buckets[t] EXCEPT ![b] = Link(lay[b], 2)]
    BY <1>6, <1>8, <1>10, <2>1
  <2>4. \A u \in Tables \ {t} : SameTable(m, n, u)
    BY <2>2 DEF SameTable
  <2>5. QED
    <3>1. UnlinkedAt(m, n, t, k, lay[b], b, j)
      BY <1>3, <1>10, <2>2, <2>3 DEF UnlinkedAt
    <3>2. QED
      BY <1>1, <1>2, <2>2, <2>4, <3>1
<1>11. CASE j # 1
  <2>1. PICK c : c = lay[b][j - 1]
    OBVIOUS
  <2>2. j - 1 \in 1..Len(lay[b])
    <3>1. Len(lay[b]) \in Nat
      BY <1>2, LaidFacts
    <3>2. QED
      BY <1>11, <3>1
  <2>3. c \in CellsOf(t) /\ c \in Cells
    <3>1. c \in CellsOf(t)
      BY <1>2, <2>1, <2>2, LaidFacts
    <3>2. QED
      BY <3>1, CellFacts
  <2>4. PICK e : e = [m.entries[c] EXCEPT !.next = next]
    OBVIOUS
  <2>5. n = WithEntry(m, c, e)
    <3>1. n = [m EXCEPT !.entries[c].next = next]
      BY <1>7, <1>11, <2>1
    <3>2. QED
      BY <1>8, <2>4, <3>1 DEF WithEntry
  <2>6. /\ Shaped(n) /\ n.buckets = m.buckets /\ n.entries[c] = e
        /\ \A u \in Tables : \A d \in CellsOf(u) : d # c => n.entries[d] = m.entries[d]
        /\ \A u \in Tables \ {t} : SameTable(m, n, u)
    BY <2>3, <2>5, WithEntryFacts
  <2>7. \A d \in CellsOf(t) : d # c => n.entries[d] = m.entries[d]
    BY <2>6
  <2>8. QED
    <3>1. UnlinkedAt(m, n, t, k, lay[b], b, j)
      BY <1>3, <1>6, <1>11, <2>1, <2>4, <2>6, <2>7 DEF UnlinkedAt
    <3>2. QED
      BY <1>1, <1>2, <2>6, <3>1
<1>12. QED
  BY <1>10, <1>11

LEMMA Unlinking ==
    ASSUME hashOf \in [Keys -> Nat], NEW m, Shaped(m), NEW t \in Tables, NEW lay, NEW f,
           Laid(hashOf, m, t, lay, f), NEW k \in Keys, FindKey(m, t, k) # {},
           NEW n, n = Unlinked(m, t, k)
    PROVE  /\ k \in DOMAIN f
           /\ Shaped(n)
           /\ \A u \in Tables \ {t} : SameTable(m, n, u)
           /\ \E new : Laid(hashOf, n, t, new, Shortened(f, k)) /\ Len(new) = Len(lay)
<1>1. PICK b : b = Bucket(hashOf, k, Len(lay))
  OBVIOUS
<1>2. /\ k \in DOMAIN f /\ b \in 1..Len(lay)
      /\ Shaped(n)
      /\ \A u \in Tables \ {t} : SameTable(m, n, u)
      /\ \E j \in 1..Len(lay[b]) : UnlinkedAt(m, n, t, k, lay[b], b, j)
  BY <1>1, UnlinkedEntries
<1>. DEFINE s == lay[b]
            N == Len(lay)
            z == Len(s)
            g == Shortened(f, k)
<1>3. PICK j \in 1..z :
         /\ m.entries[s[j]].key = k
         /\ n.buckets[t] = IF j = 1 THEN [m.buckets[t] EXCEPT ![b] = Link(s, 2)] ELSE m.buckets[t]
         /\ j # 1 => n.entries[s[j - 1]] = [m.entries[s[j - 1]] EXCEPT !.next = Link(s, j + 1)]
         /\ \A d \in CellsOf(t) : (j # 1 => d # s[j - 1]) => n.entries[d] = m.entries[d]
  BY <1>2 DEF UnlinkedAt
<1>. DEFINE s2 == [l \in 1..(z - 1) |-> IF l < j THEN s[l] ELSE s[l + 1]]
            new == [lay EXCEPT ![b] = s2]
<1>4. /\ N \in Nat \ {0} /\ DOMAIN lay = 1..N /\ b \in 1..N
      /\ \A i \in 1..N : lay[i] \in Seq(CellsOf(t)) /\ Len(lay[i]) \in Nat
      /\ \A i \in 1..N : \A l \in 1..Len(lay[i]) : lay[i][l] \in CellsOf(t)
      /\ DOMAIN f \subseteq Keys
  BY <1>2, LaidFacts
<1>5. z \in Nat /\ z > 0 /\ z - 1 \in Nat /\ \A l \in 1..z : s[l] \in CellsOf(t)
  BY <1>4
<1>6. /\ s2 \in Seq(CellsOf(t)) /\ Len(s2) = z - 1
      /\ \A l \in 1..(z - 1) : s2[l] = IF l < j THEN s[l] ELSE s[l + 1]
  <2>1. ASSUME NEW l \in 1..(z - 1)
        PROVE  l \in 1..z /\ l + 1 \in 1..z
    BY <1>5
  <2>2. s2 \in [1..(z - 1) -> CellsOf(t)]
    BY <1>5, <2>1
  <2>. HIDE DEF s2, z
  <2>3. s2 \in Seq(CellsOf(t)) /\ Len(s2) = z - 1
    BY <1>5, <2>2, FunctionIsSeq
  <2>4. QED
    BY <2>3 DEF s2
<1>. HIDE DEF s2
<1>7. /\ new \in [1..N -> Seq(CellsOf(t))]
      /\ new[b] = s2 /\ \A i \in 1..N \ {b} : new[i] = lay[i]
  BY <1>4, <1>6
<1>8. /\ g \in Maps /\ DOMAIN g = DOMAIN f \ {k}
      /\ \A l \in DOMAIN f \ {k} : g[l] = f[l]
  <2>1. f \in Maps
    BY DEF Laid
  <2>2. QED
    BY <2>1, ShortenedIsAMap
<1>9. \A i \in 1..N : Linked(hashOf, m, lay[i], f, i, N)
  BY DEF Laid
<1>. HIDE DEF g, new
<1>10. \A i, p \in 1..N : \A l \in 1..Len(lay[i]), q \in 1..Len(lay[p]) : lay[i][l] = lay[p][q] => i = p /\ l = q
  <2>1. DistinctCells(lay)
    BY LaidCellsDistinct
  <2>2. QED
    BY ONLY <2>1 DEF DistinctCells
<1>11. j # 1 => j - 1 \in 1..z
  BY <1>5
<1>12. ASSUME NEW i \in 1..N, NEW l \in 1..Len(lay[i]), ~(i = b /\ l = j - 1)
       PROVE  n.entries[lay[i][l]] = m.entries[lay[i][l]]
  <2>1. lay[i][l] \in CellsOf(t)
    BY <1>4
  <2>2. ASSUME j # 1
        PROVE  lay[i][l] # s[j - 1]
    <3>1. PICK q \in 1..z : q = j - 1
      BY <1>11, <2>2
    <3>2. SUFFICES ASSUME lay[i][l] = lay[b][q] PROVE FALSE
      BY <3>1
    <3>3. i = b /\ l = q
      BY <1>4, <1>10, <3>2
    <3>4. QED
      BY <1>12, <3>1, <3>3
  <2>3. QED
    BY <1>3, <2>1, <2>2
<1>13. ASSUME j # 1
       PROVE  n.entries[s[j - 1]] = [key |-> m.entries[s[j - 1]].key,
                                     element |-> f[m.entries[s[j - 1]].key], next |-> Link(s, j + 1)]
  <2>1. PICK l \in 1..z : l = j - 1
    BY <1>11, <1>13
  <2>2. m.entries[s[l]] = [key |-> m.entries[s[l]].key,
                           element |-> f[m.entries[s[l]].key],
                           next |-> Link(s, l + 1)]
    BY <1>4, <1>9 DEF Linked
  <2>3. PICK d : d = s[j - 1]
    OBVIOUS
  <2>4. m.entries[d] = [key |-> m.entries[d].key, element |-> f[m.entries[d].key], next |-> Link(s, l + 1)]
    BY ONLY <2>1, <2>2, <2>3
  <2>5. n.entries[d] = [m.entries[d] EXCEPT !.next = Link(s, j + 1)]
    BY ONLY <1>3, <1>13, <2>3
  <2>6. n.entries[d] = [key |-> m.entries[d].key, element |-> f[m.entries[d].key], next |-> Link(s, j + 1)]
    BY ONLY <2>4, <2>5
  <2>7. QED
    BY ONLY <2>3, <2>6
<1>14. ASSUME NEW i \in 1..N, NEW l \in 1..Len(lay[i])
       PROVE  n.entries[lay[i][l]].key = m.entries[lay[i][l]].key
  <2>1. CASE i = b /\ l = j - 1
    <3>1. j # 1
      BY <2>1
    <3>2. n.entries[s[l]] = [key |-> m.entries[s[l]].key,
                             element |-> f[m.entries[s[l]].key], next |-> Link(s, j + 1)]
      BY <1>13, <2>1, <3>1
    <3>3. QED
      BY <2>1, <3>2
  <2>2. CASE ~(i = b /\ l = j - 1)
    BY <1>12, <2>2
  <2>3. QED
    BY <2>1, <2>2
<1>15. ASSUME NEW i \in 1..N, NEW l \in 1..Len(lay[i]), ~(i = b /\ l = j)
       PROVE  /\ m.entries[lay[i][l]].key \in DOMAIN f /\ m.entries[lay[i][l]].key # k
              /\ m.entries[lay[i][l]].key \in DOMAIN g
              /\ g[m.entries[lay[i][l]].key] = f[m.entries[lay[i][l]].key]
  <2>1. m.entries[lay[i][l]].key \in DOMAIN f
    BY <1>9 DEF Linked
  <2>2. m.entries[lay[i][l]].key # k
    <3>1. SUFFICES ASSUME m.entries[lay[i][l]].key = k PROVE FALSE
      OBVIOUS
    <3>2. m.entries[lay[i][l]].key = m.entries[lay[b][j]].key
      BY <1>3, <3>1
    <3>3. i = b /\ l = j
      <4>1. i \in 1..Len(lay) /\ b \in 1..Len(lay) /\ j \in 1..Len(lay[b])
        BY <1>4
      <4>2. QED
        BY <3>2, <4>1, LaidDistinct
    <3>4. QED
      BY <1>15, <3>3
  <2>3. QED
    BY <1>8, <2>1, <2>2
<1>. HIDE DEF N
<1>16. ASSUME NEW i \in 1..N \ {b}
       PROVE  Linked(hashOf, n, new[i], g, i, N)
  <2>1. PICK u : u = lay[i]
    OBVIOUS
  <2>2. Linked(hashOf, m, u, f, i, N)
    BY <1>9, <2>1
  <2>3. \A l \in 1..Len(u) : n.entries[u[l]] = m.entries[u[l]]
    BY <1>12, <2>1
  <2>4. \A l \in 1..Len(u) : m.entries[u[l]].key \in DOMAIN g /\ g[m.entries[u[l]].key] = f[m.entries[u[l]].key]
    BY <1>15, <2>1
  <2>5. Linked(hashOf, n, u, g, i, N)
    BY <2>2, <2>3, <2>4, LinkedKept
  <2>6. QED
    BY <1>7, <2>1, <2>5
\* Where the entries that are left were.
<1>. DEFINE was(l) == IF l < j THEN l ELSE l + 1
<1>17. ASSUME NEW l \in 1..(z - 1)
       PROVE  was(l) \in 1..z /\ was(l) # j /\ s2[l] = s[was(l)]
  <2>1. l \in 1..z /\ l + 1 \in 1..z
    BY <1>5
  <2>2. CASE l < j
    BY <1>6, <2>1, <2>2
  <2>3. CASE ~(l < j)
    <3>1. l + 1 # j
      BY <1>5, <2>3
    <3>2. QED
      BY <1>6, <2>1, <2>3, <3>1
  <2>4. QED
    BY <2>2, <2>3
<1>18. Linked(hashOf, n, s2, g, b, N)
  <2>1. Linked(hashOf, m, s, f, b, N)
    BY <1>4, <1>9
  <2>2. ASSUME NEW l \in 1..(z - 1)
        PROVE  /\ n.entries[s2[l]].key = m.entries[s2[l]].key
               /\ n.entries[s2[l]].key \in DOMAIN g
               /\ g[n.entries[s2[l]].key] = f[m.entries[s2[l]].key]
               /\ Bucket(hashOf, n.entries[s2[l]].key, N) = b
    <3>1. PICK p \in 1..z : p = was(l) /\ p # j /\ s2[l] = s[p]
      BY <1>17
    <3>2. n.entries[s[p]].key = m.entries[s[p]].key
      BY <1>4, <1>14
    <3>3. m.entries[s[p]].key \in DOMAIN g /\ g[m.entries[s[p]].key] = f[m.entries[s[p]].key]
      BY <1>4, <1>15, <3>1
    <3>4. Bucket(hashOf, m.entries[s[p]].key, N) = b
      BY <2>1 DEF Linked
    <3>5. QED
      BY <3>1, <3>2, <3>3, <3>4
  <2>3. ASSUME NEW l \in 1..(z - 1)
        PROVE  n.entries[s2[l]] = [key |-> m.entries[s2[l]].key,
                                   element |-> f[m.entries[s2[l]].key],
                                   next |-> Link(s2, l + 1)]
    <3>1. CASE l = j - 1
      <4>1. j # 1 /\ l < j
        BY <1>5, <3>1
      <4>2. s2[l] = s[l]
        BY <1>6, <4>1
      <4>3. Link(s2, l + 1) = Link(s, j + 1)
        <5>1. CASE j + 1 <= z
          <6>1. j \in 1..(z - 1) /\ j <= z - 1 /\ ~(j < j)
            BY <1>5, <5>1
          <6>2. s2[j] = s[j + 1]
            BY <1>6, <6>1
          <6>3. l + 1 = j
            BY <1>5, <3>1
          <6>4. QED
            BY <1>6, <5>1, <6>1, <6>2, <6>3 DEF Link
        <5>2. CASE ~(j + 1 <= z)
          <6>1. ~(j <= z - 1) /\ l + 1 = j
            BY <1>5, <3>1, <5>2
          <6>2. QED
            BY <1>6, <5>2, <6>1 DEF Link
        <5>3. QED
          BY <5>1, <5>2
      <4>4. n.entries[s[l]] = [key |-> m.entries[s[l]].key, element |-> f[m.entries[s[l]].key], next |-> Link(s, j + 1)]
        BY <1>13, <3>1, <4>1
      <4>5. QED
        BY <4>2, <4>3, <4>4
    <3>2. CASE l # j - 1
      <4>1. PICK p \in 1..z : p = was(l) /\ p # j /\ s2[l] = s[p]
        BY <1>17
      <4>2. p # j - 1
        BY <1>5, <3>2, <4>1
      <4>3. n.entries[s[p]] = m.entries[s[p]]
        BY <1>4, <1>12, <4>2
      <4>4. m.entries[s[p]] = [key |-> m.entries[s[p]].key,
                               element |-> f[m.entries[s[p]].key],
                               next |-> Link(s, p + 1)]
        BY <2>1 DEF Linked
      <4>5. Link(s2, l + 1) = Link(s, p + 1)
        <5>1. CASE l + 1 <= z - 1
          <6>1. l + 1 \in 1..(z - 1) /\ was(l + 1) = p + 1 /\ p + 1 <= z
            BY <1>5, <3>2, <4>1, <5>1
          <6>2. s2[l + 1] = s[was(l + 1)]
            BY <1>17, <6>1
          <6>3. QED
            BY <1>6, <5>1, <6>1, <6>2 DEF Link
        <5>2. CASE ~(l + 1 <= z - 1)
          <6>1. l = z - 1
            BY <1>5, <5>2
          <6>2. ~(l < j)
            BY <1>5, <3>2, <6>1
          <6>3. p = z
            BY <1>5, <4>1, <6>1, <6>2
          <6>4. ~(p + 1 <= z)
            BY <1>5, <6>3
          <6>5. QED
            BY <1>6, <5>2, <6>4 DEF Link
        <5>3. QED
          BY <5>1, <5>2
      <4>6. QED
        BY <4>1, <4>3, <4>4, <4>5
    <3>3. QED
      BY <3>1, <3>2
  <2>4. ASSUME NEW l \in 1..(z - 1), NEW q \in 1..(z - 1), n.entries[s2[l]].key = n.entries[s2[q]].key
        PROVE  l = q
    <3>1. PICK p \in 1..z : p = was(l) /\ s2[l] = s[p]
      BY <1>17
    <3>2. PICK r \in 1..z : r = was(q) /\ s2[q] = s[r]
      BY <1>17
    <3>6. n.entries[s2[l]].key = m.entries[s2[l]].key
      BY <2>2
    <3>7. n.entries[s2[q]].key = m.entries[s2[q]].key
      BY <2>2
    <3>3. m.entries[s[p]].key = m.entries[s[r]].key
      BY ONLY <2>4, <3>1, <3>2, <3>6, <3>7
    <3>4. p = r
      BY <2>1, <3>3 DEF Linked
    <3>5. QED
      BY <1>5, <3>1, <3>2, <3>4
  <2>5. ASSUME NEW l \in 1..(z - 1)
        PROVE  n.entries[s2[l]] = [key |-> n.entries[s2[l]].key,
                                   element |-> g[n.entries[s2[l]].key],
                                   next |-> Link(s2, l + 1)]
    BY <2>2, <2>3
  <2>. HIDE DEF z
  <2>6. QED
    BY <1>6, <2>2, <2>4, <2>5 DEF Linked
<1>19. \A i \in 1..N : Linked(hashOf, n, new[i], g, i, N)
  BY <1>7, <1>16, <1>18
<1>20. n.buckets[t] = [i \in 1..N |-> Link(new[i], 1)]
  <2>1. m.buckets[t] = [i \in 1..N |-> Link(lay[i], 1)]
    BY DEF Laid, N
  <2>2. \A i \in 1..N \ {b} : Link(new[i], 1) = Link(lay[i], 1)
    BY <1>7
  <2>3. CASE j = 1
    <3>1. Link(s2, 1) = Link(s, 2)
      <4>1. CASE z > 1
        <5>1. 1 \in 1..(z - 1) /\ ~(1 < j) /\ 1 <= z - 1 /\ 2 <= z /\ 1 + 1 = 2
          BY <1>5, <2>3, <4>1
        <5>2. s2[1] = s[1 + 1]
          BY <1>6, <5>1
        <5>3. QED
          BY <1>6, <5>1, <5>2 DEF Link
      <4>2. CASE ~(z > 1)
        <5>1. ~(1 <= z - 1) /\ ~(2 <= z)
          BY <1>5, <4>2
        <5>2. QED
          BY <1>6, <5>1 DEF Link
      <4>3. QED
        BY <4>1, <4>2
    <3>2. n.buckets[t] = [m.buckets[t] EXCEPT ![b] = Link(s, 2)]
      BY <1>3, <2>3
    <3>3. [m.buckets[t] EXCEPT ![b] = Link(s, 2)] = [i \in 1..N |-> IF i = b THEN Link(s, 2) ELSE Link(lay[i], 1)]
      BY ONLY <2>1
    <3>4. \A i \in 1..N : (IF i = b THEN Link(s, 2) ELSE Link(lay[i], 1)) = Link(new[i], 1)
      BY <1>7, <2>2, <3>1
    <3>5. QED
      BY ONLY <3>2, <3>3, <3>4
  <2>4. CASE j # 1
    <3>1. 1 \in 1..(z - 1) /\ 1 < j /\ 1 <= z - 1 /\ 1 <= z
      BY <1>5, <2>4
    <3>2. s2[1] = s[1]
      BY <1>6, <3>1
    <3>3. Link(s2, 1) = Link(s, 1)
      BY <1>6, <3>1, <3>2 DEF Link
    <3>4. n.buckets[t] = m.buckets[t]
      BY <1>3, <2>4
    <3>5. QED
      BY <1>7, <2>1, <2>2, <3>3, <3>4
  <2>5. QED
    BY <2>3, <2>4
<1>21. ASSUME NEW l \in DOMAIN g
       PROVE  \E q \in 1..Len(new[Bucket(hashOf, l, N)]) : n.entries[new[Bucket(hashOf, l, N)][q]].key = l
  <2>1. PICK i : i = Bucket(hashOf, l, N)
    OBVIOUS
  <2>2. i \in 1..N
    <3>1. l \in Keys
      BY <1>4, <1>8
    <3>2. QED
      BY <1>4, <2>1, <3>1, BucketFacts
  <2>3. PICK p \in 1..Len(lay[i]) : m.entries[lay[i][p]].key = l
    <3>1. l \in DOMAIN f
      BY <1>8
    <3>2. QED
      BY <2>1, <3>1 DEF Laid, N
  <2>4. n.entries[lay[i][p]].key = l
    BY <1>14, <2>2, <2>3
  <2>5. CASE i # b
    <3>1. new[i] = lay[i]
      BY <1>7, <2>2, <2>5
    <3>2. QED
      BY <2>1, <2>4, <3>1
  <2>6. CASE i = b
    <3>1. p # j
      BY <1>3, <1>8, <2>3, <2>6
    <3>2. PICK q : q = IF p < j THEN p ELSE p - 1
      OBVIOUS
    <3>3. q \in 1..(z - 1) /\ was(q) = p
      BY <1>5, <2>6, <3>1, <3>2
    <3>4. s2[q] = s[p]
      BY <1>17, <3>3
    <3>5. q \in 1..Len(new[i]) /\ new[i][q] = lay[i][p]
      BY <1>6, <1>7, <2>6, <3>3, <3>4
    <3>6. QED
      BY <2>1, <2>4, <3>5
  <2>7. QED
    BY <2>5, <2>6
<1>22. Laid(hashOf, n, t, new, g) /\ Len(new) = N
  <2>1. Holds(hashOf, n, t, N, new, g)
    BY <1>19, <1>20, <1>21 DEF Holds
  <2>2. QED
    BY <1>4, <1>7, <1>8, <2>1, LaidIf
<1>23. QED
  BY <1>2, <1>22 DEF g, N

(***************************************************************************)
(* A table that is cloned                                                  *)
(***************************************************************************)
CloneOf(all, new, c) == IF c = NoEntry THEN NoEntry ELSE <<new, CHOOSE i \in 1..Len(all) : all[i] = c>>

ClonedAs(m, n, t, u, all) ==
    /\ Shaped(n)
    /\ n.buckets[u] = [i \in DOMAIN m.buckets[t] |-> CloneOf(all, u, m.buckets[t][i])]
    /\ \A p \in 1..Len(all) :
          n.entries[<<u, p>>] = [m.entries[all[p]] EXCEPT !.next = CloneOf(all, u, m.entries[all[p]].next)]
    /\ \A p \in 1..MaxEntries : p > Len(all) => n.entries[<<u, p>>] = m.entries[<<u, p>>]
    /\ \A w \in Tables \ {u} : SameTable(m, n, w)

LEMMA ClonedEntries ==
    ASSUME NEW m, Shaped(m), NEW t \in Tables, NEW u \in Tables, NEW n, n = Cloned(m, t, u),
           NEW all, all = AllEntries(m, t), Len(all) \in Nat, Len(all) <= MaxEntries
    PROVE  ClonedAs(m, n, t, u, all)
<1>1. n = [buckets |-> [m.buckets EXCEPT ![u] = [i \in DOMAIN m.buckets[t] |-> CloneOf(all, u, m.buckets[t][i])]],
           entries |-> [c \in Cells |-> IF c[1] = u /\ c[2] <= Len(all)
                                        THEN [m.entries[all[c[2]]] EXCEPT !.next = CloneOf(all, u, @)]
                                        ELSE m.entries[c]]]
  BY DEF Cloned, CloneOf
<1>2. n.buckets = [m.buckets EXCEPT ![u] = [i \in DOMAIN m.buckets[t] |-> CloneOf(all, u, m.buckets[t][i])]]
  BY <1>1
<1>3. n.entries = [c \in Cells |-> IF c[1] = u /\ c[2] <= Len(all)
                                   THEN [m.entries[all[c[2]]] EXCEPT !.next = CloneOf(all, u, @)]
                                   ELSE m.entries[c]]
  BY <1>1
<1>4. DOMAIN m.buckets = Tables
  BY DEF Shaped
<1>5. Shaped(n)
  <2>1. DOMAIN n.buckets = Tables
    BY <1>2, <1>4
  <2>2. DOMAIN n.entries = Cells
    BY <1>3
  <2>3. n = [buckets |-> n.buckets, entries |-> n.entries]
    BY <1>1
  <2>4. QED
    BY <2>1, <2>2, <2>3 DEF Shaped
<1>6. n.buckets[u] = [i \in DOMAIN m.buckets[t] |-> CloneOf(all, u, m.buckets[t][i])]
  BY <1>2, <1>4
<1>7. \A p \in 1..MaxEntries : /\ <<u, p>> \in Cells /\ <<u, p>>[1] = u /\ <<u, p>>[2] = p
  BY DEF Cells
<1>8. ASSUME NEW p \in 1..Len(all)
      PROVE  n.entries[<<u, p>>] = [m.entries[all[p]] EXCEPT !.next = CloneOf(all, u, m.entries[all[p]].next)]
  <2>1. p \in 1..MaxEntries /\ p <= Len(all)
    BY RoomForEntries
  <2>2. PICK c \in Cells : c = <<u, p>> /\ c[1] = u /\ c[2] = p
    BY <1>7, <2>1
  <2>3. n.entries[c] = [m.entries[all[c[2]]] EXCEPT !.next = CloneOf(all, u, @)]
    BY <1>3, <2>1, <2>2
  <2>4. QED
    BY <2>2, <2>3
<1>9. ASSUME NEW p \in 1..MaxEntries, p > Len(all)
      PROVE  n.entries[<<u, p>>] = m.entries[<<u, p>>]
  <2>1. PICK c \in Cells : c = <<u, p>> /\ c[1] = u /\ c[2] = p
    BY <1>7
  <2>2. ~(p <= Len(all))
    BY <1>9, RoomForEntries
  <2>3. n.entries[c] = m.entries[c]
    BY <1>3, <2>1, <2>2
  <2>4. QED
    BY <2>1, <2>3
<1>10. ASSUME NEW w \in Tables \ {u}
       PROVE  SameTable(m, n, w)
  <2>1. n.buckets[w] = m.buckets[w]
    BY <1>2, <1>4
  <2>2. ASSUME NEW c \in CellsOf(w)
        PROVE  n.entries[c] = m.entries[c]
    <3>1. c \in Cells /\ c[1] = w
      BY CellFacts
    <3>2. c[1] # u
      BY <3>1
    <3>3. QED
      BY <1>3, <3>1, <3>2
  <2>3. QED
    BY <2>1, <2>2 DEF SameTable
<1>11. QED
  BY <1>5, <1>6, <1>8, <1>9, <1>10 DEF ClonedAs

LEMMA Cloning ==
    ASSUME NEW hash \in [Keys -> Nat], NEW m, Shaped(m), NEW t \in Tables, NEW lay, NEW f,
           Laid(hash, m, t, lay, f),
           NEW u \in Tables \ {t}, \A c \in CellsOf(u) : m.entries[c] = NoEntry,
           NEW n, n = Cloned(m, t, u)
    PROVE  /\ Shaped(n)
           /\ \A w \in Tables \ {u} : SameTable(m, n, w)
           /\ \E new : /\ Laid(hash, n, u, new, f) /\ Exact(n, u, new)
                       /\ Len(new) = Len(lay)
<1>1. PICK all : all = AllEntries(m, t)
  OBVIOUS
<1>2. /\ all \in Seq(CellsOf(t)) /\ Len(all) \in Nat
      /\ Covers(all, lay, Len(lay))
      /\ \A p \in 1..Len(all) : m.entries[all[p]].key \in DOMAIN f
      /\ \A p, q \in 1..Len(all) : m.entries[all[p]].key = m.entries[all[q]].key => p = q
      /\ \A k \in DOMAIN f : \E p \in 1..Len(all) : m.entries[all[p]].key = k
      /\ Len(all) = Cardinality(DOMAIN f) /\ IsFiniteSet(DOMAIN f)
  <2>1. Enumerates(all, m, t, lay, f)
    BY <1>1, AllLaid
  <2>2. QED
    BY <2>1 DEF Enumerates
<1>. DEFINE N == Len(lay)
            at(c) == CHOOSE p \in 1..Len(all) : all[p] = c
            chain(i) == [j \in 1..Len(lay[i]) |-> <<u, at(lay[i][j])>>]
            new == [i \in 1..N |-> chain(i)]
<1>3. /\ N \in Nat \ {0}
      /\ \A i \in 1..N : lay[i] \in Seq(CellsOf(t)) /\ Len(lay[i]) \in Nat
      /\ \A i \in 1..N : \A j \in 1..Len(lay[i]) : lay[i][j] \in CellsOf(t)
      /\ DOMAIN f \subseteq Keys
  BY LaidFacts
<1>4. Len(all) <= MaxEntries
  <2>1. DOMAIN f \in SUBSET Keys
    BY <1>3
  <2>2. Cardinality(DOMAIN f) <= Cardinality(Keys)
    BY <2>1, RoomForEntries, FS_Subset
  <2>3. Cardinality(Keys) \in Nat
    BY RoomForEntries, FS_CardinalityType
  <2>4. QED
    BY <1>2, <2>2, <2>3, RoomForEntries
<1>5. /\ Shaped(n)
      /\ n.buckets[u] = [i \in DOMAIN m.buckets[t] |-> CloneOf(all, u, m.buckets[t][i])]
      /\ \A p \in 1..Len(all) :
            n.entries[<<u, p>>] = [m.entries[all[p]] EXCEPT !.next = CloneOf(all, u, m.entries[all[p]].next)]
      /\ \A p \in 1..MaxEntries : p > Len(all) => n.entries[<<u, p>>] = m.entries[<<u, p>>]
      /\ \A w \in Tables \ {u} : SameTable(m, n, w)
  <2>1. ClonedAs(m, n, t, u, all)
    BY <1>1, <1>2, <1>4, ClonedEntries
  <2>2. QED
    BY <2>1 DEF ClonedAs
<1>6. ASSUME NEW i \in 1..N, NEW j \in 1..Len(lay[i])
      PROVE  at(lay[i][j]) \in 1..Len(all) /\ all[at(lay[i][j])] = lay[i][j]
  <2>1. \E p \in 1..Len(all) : all[p] = lay[i][j]
    BY <1>2 DEF Covers
  <2>2. QED
    BY <2>1
<1>7. ASSUME NEW p \in 1..Len(all), NEW q \in 1..Len(all), all[p] = all[q]
      PROVE  p = q
  BY <1>2, <1>7 DEF Covers
<1>. HIDE DEF at
<1>8. ASSUME NEW i \in 1..N
      PROVE  /\ new[i] \in Seq(CellsOf(u)) /\ Len(new[i]) = Len(lay[i])
             /\ \A j \in 1..Len(lay[i]) : new[i][j] = <<u, at(lay[i][j])>>
  <2>1. \A j \in 1..Len(lay[i]) : <<u, at(lay[i][j])>> \in CellsOf(u)
    <3>1. SUFFICES ASSUME NEW j \in 1..Len(lay[i])
                   PROVE  <<u, at(lay[i][j])>> \in CellsOf(u)
      OBVIOUS
    <3>2. at(lay[i][j]) \in 1..MaxEntries
      BY <1>2, <1>4, <1>6, RoomForEntries
    <3>3. QED
      BY <3>2 DEF CellsOf
  <2>2. chain(i) \in [1..Len(lay[i]) -> CellsOf(u)]
    BY <2>1
  <2>3. \A j \in 1..Len(lay[i]) : chain(i)[j] = <<u, at(lay[i][j])>>
    OBVIOUS
  <2>4. new[i] = chain(i) /\ Len(lay[i]) \in Nat
    BY <1>3
  <2>. HIDE DEF chain, new
  <2>5. chain(i) \in Seq(CellsOf(u)) /\ Len(chain(i)) = Len(lay[i])
    BY <2>2, <2>4, FunctionIsSeq
  <2>6. QED
    BY <2>3, <2>4, <2>5
<1>9. new \in [1..N -> Seq(CellsOf(u))]
  <2>1. \A i \in 1..N : new[i] \in Seq(CellsOf(u))
    BY <1>8
  <2>2. new = [i \in 1..N |-> new[i]]
    OBVIOUS
  <2>. HIDE DEF new
  <2>3. QED
    BY <2>1, <2>2
<1>. HIDE DEF new
<1>10. ASSUME NEW i \in 1..N, NEW j \in Nat \ {0}
       PROVE  CloneOf(all, u, Link(lay[i], j)) = Link(new[i], j)
  <2>1. CASE j <= Len(lay[i])
    <3>1. j \in 1..Len(lay[i])
      BY <1>3, <2>1
    <3>2. lay[i][j] # NoEntry
      BY <1>3, <3>1, CellFacts
    <3>3. CloneOf(all, u, lay[i][j]) = <<u, at(lay[i][j])>>
      BY <3>2 DEF CloneOf, at
    <3>4. Link(lay[i], j) = lay[i][j] /\ Link(new[i], j) = new[i][j]
      BY <1>8, <2>1 DEF Link
    <3>5. QED
      BY <1>8, <3>1, <3>3, <3>4
  <2>2. CASE ~(j <= Len(lay[i]))
    <3>1. Link(lay[i], j) = NoEntry /\ Link(new[i], j) = NoEntry
      BY <1>8, <2>2 DEF Link
    <3>2. QED
      BY <3>1 DEF CloneOf
  <2>3. QED
    BY <2>1, <2>2
<1>11. ASSUME NEW i \in 1..N
       PROVE  Linked(hash, m, lay[i], f, i, N)
  BY DEF Laid
<1>12. ASSUME NEW i \in 1..N, NEW j \in 1..Len(lay[i])
       PROVE  /\ n.entries[new[i][j]] = [key |-> m.entries[lay[i][j]].key,
                                         element |-> f[m.entries[lay[i][j]].key],
                                         next |-> Link(new[i], j + 1)]
              /\ n.entries[new[i][j]].key = m.entries[lay[i][j]].key
  <2>1. PICK p \in 1..Len(all) : p = at(lay[i][j]) /\ all[p] = lay[i][j]
    BY <1>6
  <2>2. new[i][j] = <<u, p>>
    BY <1>8, <2>1
  <2>3. n.entries[<<u, p>>] = [m.entries[all[p]] EXCEPT !.next = CloneOf(all, u, m.entries[all[p]].next)]
    BY <1>5
  <2>4. m.entries[lay[i][j]] = [key |-> m.entries[lay[i][j]].key,
                                element |-> f[m.entries[lay[i][j]].key],
                                next |-> Link(lay[i], j + 1)]
    BY <1>11 DEF Linked
  <2>5. m.entries[lay[i][j]].next = Link(lay[i], j + 1)
    BY <2>4
  <2>6. j + 1 \in Nat \ {0}
    BY <1>3
  <2>7. CloneOf(all, u, m.entries[lay[i][j]].next) = Link(new[i], j + 1)
    BY <1>10, <2>5, <2>6
  <2>8. n.entries[new[i][j]] = [m.entries[lay[i][j]] EXCEPT !.next = Link(new[i], j + 1)]
    BY <2>1, <2>2, <2>3, <2>7
  <2>9. n.entries[new[i][j]] = [key |-> m.entries[lay[i][j]].key,
                                element |-> f[m.entries[lay[i][j]].key],
                                next |-> Link(new[i], j + 1)]
    BY <2>4, <2>8
  <2>10. QED
    BY <2>9
<1>13. ASSUME NEW i \in 1..N
       PROVE  Linked(hash, n, new[i], f, i, N)
  <2>1. Linked(hash, m, lay[i], f, i, N)
    BY <1>11
  <2>2. ASSUME NEW j \in 1..Len(lay[i])
        PROVE  /\ n.entries[new[i][j]] = [key |-> n.entries[new[i][j]].key,
                                          element |-> f[n.entries[new[i][j]].key],
                                          next |-> Link(new[i], j + 1)]
               /\ n.entries[new[i][j]].key \in DOMAIN f
               /\ Bucket(hash, n.entries[new[i][j]].key, N) = i
    <3>1. m.entries[lay[i][j]].key \in DOMAIN f /\ Bucket(hash, m.entries[lay[i][j]].key, N) = i
      BY <2>1 DEF Linked
    <3>2. QED
      BY <1>12, <3>1
  <2>3. \A j, l \in 1..Len(lay[i]) : m.entries[lay[i][j]].key = m.entries[lay[i][l]].key => j = l
    BY <2>1 DEF Linked
  <2>4. \A j, l \in 1..Len(lay[i]) : n.entries[new[i][j]].key = n.entries[new[i][l]].key => j = l
    BY <1>12, <2>3
  <2>5. Len(new[i]) = Len(lay[i])
    BY <1>8
  <2>6. QED
    BY <2>2, <2>4, <2>5 DEF Linked
<1>14. n.buckets[u] = [i \in 1..N |-> Link(new[i], 1)]
  <2>1. m.buckets[t] = [i \in 1..N |-> Link(lay[i], 1)]
    BY DEF Laid
  <2>2. DOMAIN m.buckets[t] = 1..N /\ \A i \in 1..N : m.buckets[t][i] = Link(lay[i], 1)
    BY <2>1
  <2>3. \A i \in 1..N : CloneOf(all, u, m.buckets[t][i]) = Link(new[i], 1)
    <3>1. 1 \in Nat \ {0}
      OBVIOUS
    <3>2. QED
      BY <1>10, <2>2, <3>1
  <2>4. QED
    BY <1>5, <2>2, <2>3
<1>15. ASSUME NEW k \in DOMAIN f
       PROVE  \E j \in 1..Len(new[Bucket(hash, k, N)]) : n.entries[new[Bucket(hash, k, N)][j]].key = k
  <2>1. PICK i : i = Bucket(hash, k, N)
    OBVIOUS
  <2>2. i \in 1..N
    <3>1. k \in Keys
      BY <1>3
    <3>2. QED
      BY <1>3, <2>1, <3>1, BucketFacts
  <2>3. PICK j \in 1..Len(lay[i]) : m.entries[lay[i][j]].key = k
    BY <2>1 DEF Laid
  <2>4. n.entries[new[i][j]].key = k /\ j \in 1..Len(new[i])
    BY <1>8, <1>12, <2>2, <2>3
  <2>5. QED
    BY <2>1, <2>4
<1>16. Laid(hash, n, u, new, f) /\ Len(new) = N
  <2>1. Holds(hash, n, u, N, new, f)
    BY <1>13, <1>14, <1>15 DEF Holds
  <2>2. f \in Maps
    BY DEF Laid
  <2>. HIDE DEF N
  <2>3. QED
    BY <1>3, <1>9, <2>1, <2>2, LaidIf
<1>17. Exact(n, u, new)
  <2>1. SUFFICES ASSUME NEW c \in CellsOf(u), n.entries[c] # NoEntry
                 PROVE  \E i \in 1..N : \E j \in 1..Len(new[i]) : c = new[i][j]
    BY <1>16 DEF Exact
  <2>2. PICK p \in 1..MaxEntries : c = <<u, p>>
    BY CellFacts
  <2>3. m.entries[c] = NoEntry
    OBVIOUS
  <2>4. p \in 1..Len(all)
    <3>1. ~(p > Len(all))
      BY <1>5, <2>1, <2>2, <2>3
    <3>2. QED
      BY <1>2, <3>1, RoomForEntries
  <2>5. PICK i \in 1..N : \E j \in 1..Len(lay[i]) : all[p] = lay[i][j]
    BY <1>2, <2>4 DEF Covers
  <2>6. PICK j \in 1..Len(lay[i]) : all[p] = lay[i][j]
    BY <2>5
  <2>7. at(lay[i][j]) = p
    <3>1. PICK q \in 1..Len(all) : q = at(lay[i][j]) /\ all[q] = lay[i][j]
      BY <1>6
    <3>2. q = p
      BY <1>7, <2>4, <2>6, <3>1
    <3>3. QED
      BY <3>1, <3>2
  <2>8. QED
    BY <1>8, <2>2, <2>7
<1>18. QED
  BY <1>5, <1>16, <1>17

(***************************************************************************)
(* A table that is enlarged                                                *)
(***************************************************************************)
LEMMA GrownFacts ==
    ASSUME NEW n \in Nat
    PROVE  Grown(n) \in Nat \ {0} /\ Grown(n) > n
<1>. DEFINE larger == {c \in Capacities : c > n}
<1>1. Capacities \subseteq Nat \ {0} /\ Capacities # {}
  BY CapacitiesAssumption
<1>2. Grown(n) = IF larger = {} THEN 2 * n ELSE SetMin(larger)
  BY DEF Grown
<1>3. CASE larger = {}
  <2>1. PICK c \in Capacities : c \in Nat \ {0}
    BY <1>1
  <2>2. ~(c > n)
    BY <1>3
  <2>3. n # 0
    BY <2>1, <2>2
  <2>4. QED
    BY <1>2, <1>3, <2>3
<1>4. CASE larger # {}
  <2>1. larger \in SUBSET Nat
    BY <1>1
  <2>2. SetMin(larger) \in larger
    <3>. HIDE DEF larger
    <3>1. QED
      BY <1>4, <2>1, SetMinFacts
  <2>3. Grown(n) \in larger
    BY <1>2, <1>4, <2>2
  <2>4. QED
    BY <1>1, <2>3
<1>5. QED
  BY <1>3, <1>4

EnlargedEquation(m, t, u, all, g) ==
    g = [n \in 0..Len(all) |->
            IF n = 0 THEN WithTable(m, u, Grown(Len(m.buckets[t])))
            ELSE Inserted(g[n - 1], u, m.entries[all[n]].key, m.entries[all[n]].element)]

LEMMA EnlargedExists ==
    ASSUME NEW m, NEW t, NEW u, NEW all, Len(all) \in Nat
    PROVE  \E g : EnlargedEquation(m, t, u, all, g)
<1>. DEFINE L == Len(all)
            start == WithTable(m, u, Grown(Len(m.buckets[t])))
            step(n, old) == Inserted(old, u, m.entries[all[n]].key, m.entries[all[n]].element)
            Prefix(b, g) == g = [n \in 0..b |-> IF n = 0 THEN start ELSE step(n, g[n - 1])]
            T == {b \in 0..L : \E g : Prefix(b, g)}
<1>1. L \in Nat
  OBVIOUS
<1>. HIDE DEF start, step
<1>3. 0 \in T
  <2>1. [n \in 0..0 |-> start] = [n \in 0..0 |-> IF n = 0 THEN start ELSE step(n, [p \in 0..0 |-> start][n - 1])]
    OBVIOUS
  <2>2. \E g : Prefix(0, g)
    BY <2>1
  <2>. HIDE DEF Prefix, L
  <2>3. QED
    BY <1>1, <2>2
<1>. HIDE DEF L
<1>4. ASSUME NEW b \in 0..L, b \in T, b < L
      PROVE  b + 1 \in T
  <2>1. PICK g : Prefix(b, g)
    BY <1>4
  <2>. DEFINE h == [n \in 0..(b + 1) |-> IF n = b + 1 THEN step(b + 1, g[b]) ELSE g[n]]
              k == [n \in 0..(b + 1) |-> IF n = 0 THEN start ELSE step(n, h[n - 1])]
  <2>2. b \in Nat /\ b + 1 \in 0..L /\ b \in 0..b
    BY <1>1, <1>4
  <2>3. \A n \in 0..b : g[n] = IF n = 0 THEN start ELSE step(n, g[n - 1])
    BY <2>1
  <2>4. ASSUME NEW n \in 0..(b + 1)
        PROVE  h[n] = k[n]
    <3>1. CASE n = b + 1
      <4>1. n # 0 /\ n - 1 = b /\ b \in 0..(b + 1) /\ b # b + 1
        BY <2>2, <3>1
      <4>2. h[b] = g[b] /\ h[n] = step(b + 1, g[b]) /\ k[n] = step(n, h[n - 1])
        BY <3>1, <4>1
      <4>. HIDE DEF h, k
      <4>3. QED
        BY <3>1, <4>1, <4>2
    <3>2. CASE n # b + 1
      <4>1. n \in 0..b /\ (n # 0 => n - 1 \in 0..(b + 1) /\ n - 1 # b + 1)
        BY <2>2, <3>2
      <4>2. h[n] = g[n] /\ (n # 0 => h[n - 1] = g[n - 1])
        BY <3>2, <4>1
      <4>3. k[n] = IF n = 0 THEN start ELSE step(n, h[n - 1])
        OBVIOUS
      <4>. HIDE DEF h, k
      <4>4. QED
        BY <2>3, <4>1, <4>2, <4>3
    <3>3. QED
      BY <3>1, <3>2
  <2>5. h = k
    <3>1. h = [n \in 0..(b + 1) |-> h[n]] /\ k = [n \in 0..(b + 1) |-> k[n]]
      OBVIOUS
    <3>. HIDE DEF h, k
    <3>2. QED
      BY <2>4, <3>1
  <2>6. Prefix(b + 1, h)
    <3>. HIDE DEF h
    <3>1. QED
      BY <2>5
  <2>7. \E j : Prefix(b + 1, j)
    BY <2>6
  <2>. HIDE DEF Prefix
  <2>8. QED
    BY <2>2, <2>7
<1>5. L \in T
  <2>. HIDE DEF T
  <2>1. 0 \in Nat /\ L \in 0..L
    BY <1>1
  <2>2. \A b \in 0..L : b \in T
    BY <1>1, <1>3, <1>4, <2>1, NumbersUpTo
  <2>3. QED
    BY <2>1, <2>2
<1>6. PICK g : Prefix(L, g)
  BY <1>5
<1>7. EnlargedEquation(m, t, u, all, g)
  BY <1>6 DEF EnlargedEquation, L, start, step
<1>8. QED
  BY <1>7

\* Every key is set again in the larger table.
LEMMA Enlarging ==
    ASSUME hashOf \in [Keys -> Nat], NEW m, Shaped(m), NEW t \in Tables, NEW lay, NEW f,
           Laid(hashOf, m, t, lay, f),
           NEW u \in Tables \ {t}, \A c \in CellsOf(u) : m.entries[c] = NoEntry,
           NEW n, n = Enlarged(m, t, u)
    PROVE  /\ Shaped(n)
           /\ \A w \in Tables \ {u} : SameTable(m, n, w)
           /\ \E new : /\ Laid(hashOf, n, u, new, f) /\ Exact(n, u, new)
                       /\ Len(new) = Grown(Len(lay))
<1>1. PICK all : all = AllEntries(m, t)
  OBVIOUS
<1>2. /\ all \in Seq(CellsOf(t)) /\ Len(all) \in Nat
      /\ Covers(all, lay, Len(lay))
      /\ \A p \in 1..Len(all) : m.entries[all[p]].key \in DOMAIN f
      /\ \A p, q \in 1..Len(all) : m.entries[all[p]].key = m.entries[all[q]].key => p = q
      /\ \A k \in DOMAIN f : \E p \in 1..Len(all) : m.entries[all[p]].key = k
  <2>1. Enumerates(all, m, t, lay, f)
    BY <1>1, AllLaid
  <2>2. QED
    BY <2>1 DEF Enumerates
<1>3. f \in Maps /\ Len(m.buckets[t]) = Len(lay) /\ Len(lay) \in Nat
  BY LaidFacts DEF Laid
<1>4. ASSUME NEW p \in 1..Len(all)
      PROVE  m.entries[all[p]].element = f[m.entries[all[p]].key]
  <2>1. PICK i \in 1..Len(lay) : \E j \in 1..Len(lay[i]) : all[p] = lay[i][j]
    BY <1>2 DEF Covers
  <2>2. PICK j \in 1..Len(lay[i]) : all[p] = lay[i][j]
    BY <2>1
  <2>3. Linked(hashOf, m, lay[i], f, i, Len(lay))
    BY DEF Laid
  <2>4. m.entries[lay[i][j]] = [key |-> m.entries[lay[i][j]].key,
                                element |-> f[m.entries[lay[i][j]].key],
                                next |-> Link(lay[i], j + 1)]
    BY <2>3 DEF Linked
  <2>5. m.entries[lay[i][j]].element = f[m.entries[lay[i][j]].key]
    BY <2>4
  <2>6. QED
    BY <2>2, <2>5
<1>. DEFINE L == Len(all)
            C == Grown(Len(lay))
            key(p) == m.entries[all[p]].key
            part(b) == [k \in {key(p) : p \in 1..b} |-> f[k]]
            set == CHOOSE g : EnlargedEquation(m, t, u, all, g)
<1>5. EnlargedEquation(m, t, u, all, set)
  BY <1>2, EnlargedExists
<1>6. n = set[L]
  BY <1>1 DEF Enlarged, EnlargedEquation
<1>. HIDE DEF set
<1>7. set[0] = WithTable(m, u, C) /\ \A b \in 1..L : set[b] = Inserted(set[b - 1], u, key(b), m.entries[all[b]].element)
  <2>1. 0 \in 0..L /\ \A b \in 1..L : b \in 0..L /\ b # 0
    BY <1>2
  <2>2. QED
    BY <1>3, <1>5, <2>1 DEF EnlargedEquation
<1>. DEFINE Filled(b) ==
                /\ Shaped(set[b])
                /\ \A w \in Tables \ {u} : SameTable(m, set[b], w)
                /\ \E new : Laid(hashOf, set[b], u, new, part(b)) /\ Exact(set[b], u, new) /\ Len(new) = C
            T == {b \in 0..L : Filled(b)}
<1>8. L \in Nat
  BY <1>2
<1>9. 0 \in T
  <2>1. PICK s : s = set[0]
    OBVIOUS
  <2>2. C \in Nat \ {0}
    BY <1>3, GrownFacts
  <2>3. s = WithTable(m, u, C)
    BY <1>7, <2>1
  <2>. HIDE DEF C
  <2>4. Emptied(hashOf, m, s, u, C)
    BY <2>2, <2>3, WithTableLaid, SMTT(30)
  <2>11. /\ Shaped(s) /\ s.entries = m.entries
         /\ \A w \in Tables \ {u} : s.buckets[w] = m.buckets[w]
    BY <2>4 DEF Emptied
  <2>5. PICK new : Laid(hashOf, s, u, new, <<>>) /\ Len(new) = C
    BY <2>4 DEF Emptied
  <2>6. Exact(s, u, new)
    BY <2>11 DEF Exact
  <2>7. \A w \in Tables \ {u} : SameTable(m, s, w)
    BY <2>11 DEF SameTable
  <2>8. part(0) = <<>>
    <3>1. {key(p) : p \in 1..0} = {}
      OBVIOUS
    <3>2. QED
      BY <3>1
  <2>9. Filled(0)
    <3>. HIDE DEF part
    <3>1. QED
      BY <2>1, <2>11, <2>5, <2>6, <2>7, <2>8
  <2>. HIDE DEF Filled, L
  <2>10. QED
    BY <1>8, <2>9
<1>10. ASSUME NEW b \in 0..L, b \in T, b < L
       PROVE  b + 1 \in T
  <2>1. b \in Nat /\ b + 1 \in 0..L /\ b + 1 \in 1..L /\ b + 1 - 1 = b
    BY <1>8, <1>10
  <2>2. PICK k : k = key(b + 1)
    OBVIOUS
  <2>3. PICK s, old, x : s = set[b] /\ old = part(b) /\ x = m.entries[all[b + 1]].element
    OBVIOUS
  <2>4. PICK new : Laid(hashOf, s, u, new, old) /\ Exact(s, u, new) /\ Len(new) = C
    BY <1>10, <2>3
  <2>5. Shaped(s) /\ \A w \in Tables \ {u} : SameTable(m, s, w)
    BY <1>10, <2>3
  <2>6. k \in DOMAIN f /\ k \in Keys /\ x = f[k] /\ x \in Elements
    <3>1. k \in DOMAIN f /\ x = f[k]
      BY <1>2, <1>4, <2>1, <2>2, <2>3
    <3>2. QED
      BY <1>3, <3>1, MapFacts
  <2>7. DOMAIN old = {key(p) : p \in 1..b}
    BY <2>3
  <2>8. k \notin DOMAIN old
    <3>1. SUFFICES ASSUME NEW p \in 1..b, k = key(p) PROVE FALSE
      BY <2>7
    <3>2. PICK d \in 1..L : d = b + 1
      BY <2>1
    <3>3. p \in 1..L /\ p # d
      BY <1>8, <1>10, <2>1, <3>2
    <3>4. key(d) = key(p)
      BY <2>2, <3>1, <3>2
    <3>5. d = p
      BY <1>2, <3>3, <3>4
    <3>6. QED
      BY <3>3, <3>5
  <2>9. PICK s2 : s2 = set[b + 1]
    OBVIOUS
  <2>10. s2 = Inserted(s, u, k, x)
    <3>1. PICK d \in 1..L : d = b + 1
      BY <2>1
    <3>2. set[d] = Inserted(set[d - 1], u, key(d), m.entries[all[d]].element)
      BY <1>7
    <3>3. d - 1 = b
      BY <2>1, <3>1
    <3>4. QED
      BY <2>2, <2>3, <2>9, <3>1, <3>2, <3>3
  <2>11. /\ Shaped(s2)
         /\ \A w \in Tables \ {u} : SameTable(s, s2, w)
         /\ \E new2 : /\ Laid(hashOf, s2, u, new2, Extended(old, k, x)) /\ Exact(s2, u, new2)
                      /\ Len(new2) = Len(new)
    <3>. HIDE DEF C, key
    <3>1. QED
      BY <2>4, <2>5, <2>6, <2>8, <2>10, Insertion
  <2>12. \A w \in Tables \ {u} : SameTable(m, s2, w)
    BY <2>5, <2>11 DEF SameTable
  <2>13. part(b + 1) = Extended(old, k, x)
    <3>1. {key(p) : p \in 1..(b + 1)} = {key(p) : p \in 1..b} \cup {k}
      <4>1. \A p : p \in 1..(b + 1) <=> p \in 1..b \/ p = b + 1
        BY <2>1
      <4>. HIDE DEF key
      <4>2. QED
        BY <2>2, <4>1
    <3>2. \A l \in DOMAIN old : old[l] = f[l]
      BY <2>3
    <3>3. \A l \in DOMAIN old \cup {k} : f[l] = IF l = k THEN x ELSE old[l]
      BY <2>6, <3>2
    <3>4. DOMAIN part(b + 1) = DOMAIN old \cup {k}
      BY <2>7, <3>1
    <3>5. part(b + 1) = [l \in DOMAIN old \cup {k} |-> f[l]]
      BY <2>7, <3>1
    <3>. HIDE DEF part
    <3>6. QED
      BY <3>3, <3>5 DEF Extended
  <2>14. Filled(b + 1)
    <3>. HIDE DEF part
    <3>1. QED
      BY <2>4, <2>9, <2>11, <2>12, <2>13
  <2>. HIDE DEF Filled, L
  <2>15. QED
    BY <2>1, <2>14
<1>11. L \in T
  <2>. HIDE DEF T, L
  <2>1. 0 \in Nat /\ L \in 0..L
    BY <1>8
  <2>2. \A b \in 0..L : b \in T
    BY <1>8, <1>9, <1>10, <2>1, NumbersUpTo
  <2>3. QED
    BY <2>1, <2>2
<1>12. part(L) = f
  <2>1. {key(p) : p \in 1..L} = DOMAIN f
    <3>1. \A p \in 1..L : key(p) \in DOMAIN f
      BY <1>2
    <3>2. \A k \in DOMAIN f : \E p \in 1..L : key(p) = k
      BY <1>2
    <3>. HIDE DEF key, L
    <3>3. QED
      BY <3>1, <3>2
  <2>2. f = [k \in DOMAIN f |-> f[k]]
    BY <1>3, MapFacts
  <2>3. part(L) = [k \in DOMAIN f |-> f[k]]
    BY <2>1
  <2>. HIDE DEF part
  <2>4. QED
    BY <2>2, <2>3
<1>13. QED
  <2>1. Filled(L)
    BY <1>11
  <2>. HIDE DEF part, L
  <2>2. QED
    BY <1>6, <1>12, <2>1

Has(hash, memory, t, f) == \E lay : Laid(hash, memory, t, lay, f)
HasExactly(hash, memory, t, f) == \E lay : Laid(hash, memory, t, lay, f) /\ Exact(memory, t, lay)
Vacant(memory, t) == memory.buckets[t] = <<>> /\ \A c \in CellsOf(t) : memory.entries[c] = NoEntry

TablesTyped ==
    /\ hashOf \in [Keys -> Hashes]
    /\ data \in [Dictionaries -> Tables \cup {NoDictionary}]
    /\ DOMAIN size = Dictionaries /\ DOMAIN value = Dictionaries
    /\ size = [v \in Dictionaries |-> size[v]] /\ value = [v \in Dictionaries |-> value[v]]
    /\ DOMAIN buckets = Tables
    /\ DOMAIN entries = Cells

\* What a variable refers to is its value, and no memory of that table is lost.
Valued(v) ==
    HasDictionary(v) => /\ HasExactly(hashOf, Memory, data[v], value[v])
                        /\ size[v] = Cardinality(DOMAIN value[v])

\* A table no variable refers to was released.
Reusable(t) == (\A v \in Dictionaries : data[v] # t) => Vacant(Memory, t)

TablesInv ==
    /\ TablesTyped
    /\ \A v \in Dictionaries : Valued(v)
    /\ \A t \in Tables : Reusable(t)

(***************************************************************************)
(* What is released                                                        *)
(***************************************************************************)
LEMMA HashesAreNumbers ==
    ASSUME TablesTyped
    PROVE  hashOf \in [Keys -> Nat]
<1>1. Hashes \subseteq Nat
  BY CapacitiesAssumption
<1>2. QED
  BY <1>1 DEF TablesTyped

LEMMA MemoryIsShaped ==
    ASSUME TablesTyped
    PROVE  Shaped(Memory)
BY DEF TablesTyped, Shaped, Memory

LEMMA CellsOfDistinct ==
    ASSUME NEW t \in Tables, NEW u \in Tables, NEW c \in CellsOf(t), c \in CellsOf(u)
    PROVE  t = u
BY CellFacts

LEMMA AllCells ==
    ASSUME NEW hash \in [Keys -> Nat], NEW m, NEW t \in Tables, NEW lay, NEW f, Laid(hash, m, t, lay, f), NEW c
    PROVE  /\ c \in ToSet(AllEntries(m, t)) <=> \E i \in 1..Len(lay) : \E j \in 1..Len(lay[i]) : c = lay[i][j]
           /\ c \in ToSet(AllEntries(m, t)) => c \in CellsOf(t)
<1>1. PICK all : all = AllEntries(m, t)
  OBVIOUS
<1>2. Enumerates(all, m, t, lay, f)
  BY <1>1, AllLaid
<1>3. all \in Seq(CellsOf(t)) /\ Covers(all, lay, Len(lay))
  BY <1>2 DEF Enumerates
<1>4. DOMAIN all = 1..Len(all) /\ \A p \in 1..Len(all) : all[p] \in CellsOf(t)
  BY <1>3, SeqFacts
<1>5. c \in ToSet(all) <=> \E p \in 1..Len(all) : c = all[p]
  BY <1>4 DEF ToSet
<1>6. (\E p \in 1..Len(all) : c = all[p]) <=> \E i \in 1..Len(lay) : \E j \in 1..Len(lay[i]) : c = lay[i][j]
  BY <1>3 DEF Covers
<1>7. c \in ToSet(all) => c \in CellsOf(t)
  BY <1>4, <1>5
<1>8. c \in ToSet(all) <=> \E i \in 1..Len(lay) : \E j \in 1..Len(lay[i]) : c = lay[i][j]
  BY <1>5, <1>6
<1>9. QED
  <2>1. PICK listed : listed = ToSet(all)
    OBVIOUS
  <2>2. QED
    BY <1>1, <1>7, <1>8

LEMMA ReleasedFacts ==
    ASSUME NEW m, NEW used \in SUBSET Tables, NEW n, n = Released(m, used)
    PROVE  /\ Shaped(n)
           /\ \A t \in Tables : n.buckets[t] = IF t \in used THEN m.buckets[t] ELSE <<>>
           /\ \A c \in Cells : n.entries[c] =
                 IF \E t \in used : c \in ToSet(AllEntries(m, t)) THEN m.entries[c] ELSE NoEntry
<1>1. PICK kept : kept = UNION {ToSet(AllEntries(m, t)) : t \in used}
  OBVIOUS
<1>2. n = [buckets |-> [t \in Tables |-> IF t \in used THEN m.buckets[t] ELSE <<>>],
           entries |-> [c \in Cells |-> IF c \in kept THEN m.entries[c] ELSE NoEntry]]
  BY <1>1 DEF Released
<1>3. \A c : c \in kept <=> \E t \in used : c \in ToSet(AllEntries(m, t))
  BY <1>1
<1>4. n.buckets = [t \in Tables |-> IF t \in used THEN m.buckets[t] ELSE <<>>]
  BY <1>2
<1>5. n.entries = [c \in Cells |-> IF c \in kept THEN m.entries[c] ELSE NoEntry]
  BY <1>2
<1>6. Shaped(n)
  BY <1>2, <1>4, <1>5 DEF Shaped
<1>7. QED
  BY <1>3, <1>4, <1>5, <1>6

\* What tables in use hold is kept, and nothing else.
LEMMA Releasing ==
    ASSUME hashOf \in [Keys -> Nat], NEW m, NEW used \in SUBSET Tables, NEW n, n = Released(m, used),
           \A u \in used : \E f : Has(hashOf, m, u, f)
    PROVE  /\ Shaped(n)
           /\ \A t \in used : \A f : Has(hashOf, m, t, f) => HasExactly(hashOf, n, t, f)
           /\ \A t \in Tables \ used : Vacant(n, t)
<1>1. /\ Shaped(n)
      /\ \A t \in Tables : n.buckets[t] = IF t \in used THEN m.buckets[t] ELSE <<>>
      /\ \A c \in Cells : n.entries[c] =
            IF \E t \in used : c \in ToSet(AllEntries(m, t)) THEN m.entries[c] ELSE NoEntry
  BY ReleasedFacts, SMTT(30)
<1>2. ASSUME NEW u \in used, NEW c \in ToSet(AllEntries(m, u))
      PROVE  c \in CellsOf(u)
  <2>1. PICK f, lay : Laid(hashOf, m, u, lay, f)
    BY DEF Has
  <2>2. QED
    BY <2>1, AllCells
<1>3. ASSUME NEW t \in used, NEW f, Has(hashOf, m, t, f)
      PROVE  HasExactly(hashOf, n, t, f)
  <2>1. PICK lay : Laid(hashOf, m, t, lay, f)
    BY <1>3 DEF Has
  <2>2. t \in Tables /\ n.buckets[t] = m.buckets[t]
    BY <1>1
  <2>3. ASSUME NEW i \in 1..Len(lay), NEW j \in 1..Len(lay[i])
        PROVE  n.entries[lay[i][j]] = m.entries[lay[i][j]]
    <3>1. lay[i][j] \in CellsOf(t)
      BY <2>1, LaidFacts
    <3>2. lay[i][j] \in Cells
      BY <2>2, <3>1, CellFacts
    <3>3. lay[i][j] \in ToSet(AllEntries(m, t))
      BY <2>1, <2>2, AllCells
    <3>4. QED
      BY <1>1, <3>2, <3>3
  <2>4. Laid(hashOf, n, t, lay, f)
    BY <2>1, <2>2, <2>3, LaidKept
  <2>5. ASSUME NEW c \in CellsOf(t), n.entries[c] # NoEntry
        PROVE  \E i \in 1..Len(lay) : \E j \in 1..Len(lay[i]) : c = lay[i][j]
    <3>1. c \in Cells
      BY <2>2, CellFacts
    <3>2. PICK u \in used : c \in ToSet(AllEntries(m, u))
      BY <1>1, <2>5, <3>1
    <3>3. u = t
      BY <1>2, <2>2, <3>2, CellsOfDistinct
    <3>4. QED
      BY <2>1, <2>2, <3>2, <3>3, AllCells
  <2>6. Exact(n, t, lay)
    BY <2>5 DEF Exact
  <2>7. QED
    BY <2>4, <2>6 DEF HasExactly
<1>4. ASSUME NEW t \in Tables \ used
      PROVE  Vacant(n, t)
  <2>1. n.buckets[t] = <<>>
    BY <1>1
  <2>2. ASSUME NEW c \in CellsOf(t)
        PROVE  n.entries[c] = NoEntry
    <3>1. c \in Cells
      BY CellFacts
    <3>2. \A u \in used : c \notin ToSet(AllEntries(m, u))
      BY <1>2, CellsOfDistinct
    <3>3. QED
      BY <1>1, <3>1, <3>2
  <2>3. QED
    BY <2>1, <2>2 DEF Vacant
<1>5. QED
  BY <1>1, <1>3, <1>4

(***************************************************************************)
(* An assignment                                                           *)
(***************************************************************************)

\* What a variable is assigned is its value, and others keep theirs.
LEMMA Assigning ==
    ASSUME TablesInv, NEW v \in Dictionaries, NEW m, NEW table, NEW total, NEW new,
           Assign(v, table, total, m, new),
           \/ table = NoDictionary
           \/ table \in Tables /\ Has(hashOf, m, table, new) /\ total = Cardinality(DOMAIN new),
           \A w \in Dictionaries \ {v} : HasDictionary(w) => Has(hashOf, m, data[w], value[w])
    PROVE  TablesInv'
<1>1. PICK used : used = ({data[w] : w \in Dictionaries \ {v}} \cup {table}) \ {NoDictionary}
  OBVIOUS
<1>2. PICK n : n = Released(m, used)
  OBVIOUS
<1>3. /\ data' = [data EXCEPT ![v] = table]
      /\ size' = [size EXCEPT ![v] = total]
      /\ buckets' = n.buckets /\ entries' = n.entries
      /\ value' = [value EXCEPT ![v] = new]
      /\ hashOf' = hashOf
  BY <1>1, <1>2 DEF Assign
<1>4. TablesTyped
  BY DEF TablesInv
<1>5. /\ data'[v] = table /\ size'[v] = total /\ value'[v] = new
      /\ \A w \in Dictionaries \ {v} : data'[w] = data[w] /\ size'[w] = size[w] /\ value'[w] = value[w]
      /\ \A w \in Dictionaries : data[w] \in Tables \cup {NoDictionary}
  BY <1>3, <1>4 DEF TablesTyped
<1>6. used \in SUBSET Tables
  BY <1>1, <1>5
<1>7. hashOf \in [Keys -> Nat]
  BY <1>4, HashesAreNumbers
<1>8. \A u \in used : \E f : Has(hashOf, m, u, f)
  <2>1. SUFFICES ASSUME NEW u \in used PROVE \E f : Has(hashOf, m, u, f)
    OBVIOUS
  <2>2. u # NoDictionary /\ (u = table \/ \E w \in Dictionaries \ {v} : u = data[w])
    BY <1>1
  <2>3. QED
    BY <2>2 DEF HasDictionary
<1>9. /\ Shaped(n)
      /\ \A t \in used : \A f : Has(hashOf, m, t, f) => HasExactly(hashOf, n, t, f)
      /\ \A t \in Tables \ used : Vacant(n, t)
  <2>1. n = Released(m, used)
    BY <1>2
  <2>2. QED
    BY ONLY <1>6, <1>7, <1>8, <2>1, Releasing
<1>10. Memory' = n
  BY <1>3, <1>9 DEF Memory, Shaped
<1>11. TablesTyped'
  BY <1>3, <1>4, <1>5, <1>9 DEF TablesTyped, Shaped
<1>12. ASSUME NEW w \in Dictionaries
       PROVE  Valued(w)'
  <2>1. SUFFICES ASSUME data'[w] # NoDictionary
                 PROVE  HasExactly(hashOf, n, data'[w], value'[w]) /\ size'[w] = Cardinality(DOMAIN value'[w])
    BY <1>3, <1>10 DEF Valued, HasDictionary
  <2>2. CASE w = v
    <3>1. table \in used /\ table \in Tables
      BY <1>1, <1>5, <1>6, <2>1, <2>2
    <3>2. Has(hashOf, m, table, new) /\ total = Cardinality(DOMAIN new)
      BY <1>5, <2>1, <2>2
    <3>3. QED
      BY <1>5, <1>9, <2>2, <3>1, <3>2
  <2>3. CASE w # v
    <3>1. data[w] \in used /\ HasDictionary(w)
      BY <1>1, <1>5, <2>1, <2>3 DEF HasDictionary
    <3>2. Has(hashOf, m, data[w], value[w])
      BY <2>3, <3>1
    <3>3. HasExactly(hashOf, n, data[w], value[w])
      BY <1>9, <3>1, <3>2
    <3>4. size[w] = Cardinality(DOMAIN value[w])
      BY <3>1 DEF TablesInv, Valued
    <3>5. QED
      BY <1>5, <2>3, <3>3, <3>4
  <2>4. QED
    BY <2>2, <2>3
<1>13. ASSUME NEW t \in Tables
       PROVE  Reusable(t)'
  <2>1. SUFFICES ASSUME \A w \in Dictionaries : data'[w] # t
                 PROVE  Vacant(n, t)
    BY <1>10 DEF Reusable
  <2>2. t \notin used
    BY <1>1, <1>5, <2>1
  <2>3. QED
    BY <1>9, <2>2
<1>14. QED
  BY <1>11, <1>12, <1>13 DEF TablesInv

(***************************************************************************)
(* Tables that are free                                                    *)
(***************************************************************************)
LEMMA TableLeft ==
    ASSUME NEW g, DOMAIN g = Dictionaries
    PROVE  \E t \in Tables : \A w \in Dictionaries : g[w] # t
<1>. DEFINE image == {g[w] : w \in Dictionaries}
            h == [w \in Dictionaries |-> g[w]]
<1>1. SUFFICES ASSUME \A t \in Tables : \E w \in Dictionaries : g[w] = t
               PROVE  FALSE
  OBVIOUS
<1>2. h \in Surjection(Dictionaries, image)
  BY DEF Surjection
<1>3. IsFiniteSet(image) /\ Cardinality(image) <= Cardinality(Dictionaries)
  <2>. HIDE DEF image, h
  <2>1. QED
    BY <1>2, RoomForTables, FS_Surjection
<1>4. Tables \in SUBSET image
  BY <1>1
<1>5. Cardinality(Tables) <= Cardinality(image)
  <2>. HIDE DEF image, h
  <2>1. QED
    BY <1>3, <1>4, FS_Subset
<1>6. Cardinality(Tables) \in Nat /\ Cardinality(Dictionaries) \in Nat /\ Cardinality(image) \in Nat
  <2>. HIDE DEF image, h
  <2>1. QED
    BY <1>3, RoomForTables, FS_CardinalityType
<1>7. QED
  <2>. HIDE DEF image, h
  <2>1. QED
    BY <1>3, <1>5, <1>6, RoomForTables

LEMMA FreeTableFacts ==
    ASSUME NEW m, NEW t \in Tables, m.buckets[t] = <<>>
    PROVE  FreeTable(m) \in Tables /\ m.buckets[FreeTable(m)] = <<>>
<1>. DEFINE empty == {u \in Tables : m.buckets[u] = <<>>}
<1>1. empty \in SUBSET Nat /\ empty # {}
  BY TablesAreNumbers
<1>2. SetMin(empty) \in empty
  <2>. HIDE DEF empty
  <2>1. QED
    BY <1>1, SetMinFacts
<1>3. FreeTable(m) \in empty
  BY <1>2 DEF FreeTable
<1>4. QED
  BY <1>3

\* A table in use is not empty: it has buckets.
LEMMA UsedHasBuckets ==
    ASSUME NEW hash, NEW m, NEW t, NEW f, Has(hash, m, t, f)
    PROVE  m.buckets[t] # <<>>
<1>1. PICK lay : Laid(hash, m, t, lay, f)
  BY DEF Has
<1>2. Len(m.buckets[t]) = Len(lay) /\ Len(lay) > 0
  BY <1>1 DEF Laid
<1>3. Len(<<>>) = 0
  OBVIOUS
<1>4. m.buckets[t] # <<>>
  <2>1. SUFFICES ASSUME m.buckets[t] = <<>> PROVE FALSE
    OBVIOUS
  <2>2. Len(lay) = 0
    BY <1>2, <1>3, <2>1
  <2>3. QED
    BY <1>2, <2>2
<1>5. QED
  BY <1>4

LEMMA HasKept ==
    ASSUME NEW hash \in [Keys -> Nat], NEW m, NEW n, NEW t, NEW f, Has(hash, m, t, f), SameTable(m, n, t)
    PROVE  Has(hash, n, t, f)
<1>1. PICK lay : Laid(hash, m, t, lay, f)
  BY DEF Has
<1>2. \A i \in 1..Len(lay) : \A j \in 1..Len(lay[i]) : lay[i][j] \in CellsOf(t)
  BY <1>1, LaidFacts
<1>3. n.buckets[t] = m.buckets[t] /\ \A i \in 1..Len(lay) : \A j \in 1..Len(lay[i]) : n.entries[lay[i][j]] = m.entries[lay[i][j]]
  BY <1>2 DEF SameTable
<1>4. Laid(hash, n, t, lay, f)
  BY <1>1, <1>3, LaidKept
<1>5. QED
  BY <1>4 DEF Has

LEMMA HasExactlyHas ==
    ASSUME NEW hash, NEW m, NEW t, NEW f, HasExactly(hash, m, t, f)
    PROVE  Has(hash, m, t, f)
BY DEF Has, HasExactly

\* What holds of the memory in which a method changes the value of v.
Ready(v, t, m) ==
    /\ t \in Tables /\ Shaped(m)
    /\ HasExactly(hashOf, m, t, value[v])
    /\ \A w \in Dictionaries \ {v} : HasDictionary(w) => data[w] # t /\ Has(hashOf, m, data[w], value[w])
    /\ \E u \in Tables : m.buckets[u] = <<>>
    /\ \A u \in Tables : m.buckets[u] = <<>> =>
          /\ u # t /\ \A w \in Dictionaries : data[w] # u
          /\ \A c \in CellsOf(u) : m.entries[c] = NoEntry

LEMMA Used ==
    ASSUME TablesInv, NEW w \in Dictionaries, HasDictionary(w)
    PROVE  /\ data[w] \in Tables
           /\ HasExactly(hashOf, Memory, data[w], value[w]) /\ Has(hashOf, Memory, data[w], value[w])
           /\ buckets[data[w]] # <<>>
<1>1. HasExactly(hashOf, Memory, data[w], value[w])
  BY DEF TablesInv, Valued
<1>2. Has(hashOf, Memory, data[w], value[w])
  BY <1>1, HasExactlyHas
<1>3. Memory.buckets[data[w]] # <<>>
  BY <1>2, UsedHasBuckets
<1>4. data[w] \in Tables
  BY DEF TablesInv, TablesTyped, HasDictionary
<1>5. QED
  BY <1>1, <1>2, <1>3, <1>4 DEF Memory

LEMMA Unused ==
    ASSUME TablesInv, NEW t \in Tables
    PROVE  /\ buckets[t] = <<>> <=> \A w \in Dictionaries : data[w] # t
           /\ buckets[t] = <<>> => \A c \in CellsOf(t) : entries[c] = NoEntry
<1>1. ASSUME buckets[t] = <<>>, NEW w \in Dictionaries
      PROVE  data[w] # t
  <2>1. SUFFICES ASSUME data[w] = t PROVE FALSE
    OBVIOUS
  <2>2. HasDictionary(w)
    BY <2>1, NoneIsNoTable DEF HasDictionary
  <2>3. QED
    BY <1>1, <2>1, <2>2, Used
<1>2. ASSUME \A w \in Dictionaries : data[w] # t
      PROVE  buckets[t] = <<>> /\ \A c \in CellsOf(t) : entries[c] = NoEntry
  BY <1>2 DEF TablesInv, Reusable, Vacant, Memory
<1>3. QED
  BY <1>1, <1>2

\* There is always a table a dictionary can be created in.
LEMMA CanCreate ==
    ASSUME TablesInv
    PROVE  \E u \in Tables : buckets[u] = <<>>
<1>1. DOMAIN data = Dictionaries
  BY DEF TablesInv, TablesTyped
<1>2. PICK u \in Tables : \A w \in Dictionaries : data[w] # u
  BY <1>1, TableLeft
<1>3. QED
  BY <1>2, Unused

LEMMA ReadyAsItIs ==
    ASSUME TablesInv, NEW v \in Dictionaries, HasDictionary(v), OnlyReference(v)
    PROVE  Ready(v, data[v], Memory)
<1>1. TablesTyped
  BY DEF TablesInv
<1>2. Shaped(Memory)
  BY <1>1, MemoryIsShaped
<1>3. data[v] \in Tables /\ HasExactly(hashOf, Memory, data[v], value[v])
  BY Used
<1>4. \A w \in Dictionaries \ {v} : HasDictionary(w) => data[w] # data[v] /\ Has(hashOf, Memory, data[w], value[w])
  BY Used DEF OnlyReference
<1>5. \E u \in Tables : Memory.buckets[u] = <<>>
  BY CanCreate DEF Memory
<1>6. ASSUME NEW u \in Tables, Memory.buckets[u] = <<>>
      PROVE  /\ u # data[v] /\ \A w \in Dictionaries : data[w] # u
             /\ \A c \in CellsOf(u) : Memory.entries[c] = NoEntry
  BY <1>6, Unused DEF Memory
<1>7. QED
  BY <1>2, <1>3, <1>4, <1>5, <1>6 DEF Ready

LEMMA ReadyCloned ==
    ASSUME TablesInv, NEW v \in Dictionaries, HasDictionary(v), ~OnlyReference(v),
           NEW u, u = FreeTable(Memory), NEW m, m = Cloned(Memory, data[v], u)
    PROVE  Ready(v, u, m)
<1>1. TablesTyped
  BY DEF TablesInv
<1>2. Shaped(Memory) /\ hashOf \in [Keys -> Nat]
  BY <1>1, MemoryIsShaped, HashesAreNumbers
<1>3. u \in Tables /\ buckets[u] = <<>>
  <2>1. PICK t \in Tables : Memory.buckets[t] = <<>>
    BY CanCreate DEF Memory
  <2>2. u \in Tables /\ Memory.buckets[u] = <<>>
    BY <2>1, FreeTableFacts
  <2>3. QED
    BY <2>2 DEF Memory
<1>4. /\ \A w \in Dictionaries : data[w] # u
      /\ \A c \in CellsOf(u) : Memory.entries[c] = NoEntry
  BY <1>3, Unused DEF Memory
<1>5. PICK t \in Tables : t = data[v]
  BY Used
<1>6. PICK lay : Laid(hashOf, Memory, t, lay, value[v])
  BY <1>5, Used DEF Has
<1>7. u \in Tables \ {t} /\ m = Cloned(Memory, t, u)
  BY <1>3, <1>4, <1>5
<1>8. /\ Shaped(m)
      /\ \A w \in Tables \ {u} : SameTable(Memory, m, w)
      /\ \E new : /\ Laid(hashOf, m, u, new, value[v]) /\ Exact(m, u, new)
                  /\ Len(new) = Len(lay)
  <2>1. PICK old, f : old = Memory /\ f = value[v]
    OBVIOUS
  <2>2. /\ Shaped(old) /\ Laid(hashOf, old, t, lay, f) /\ m = Cloned(old, t, u)
        /\ \A c \in CellsOf(u) : old.entries[c] = NoEntry
    BY <1>2, <1>4, <1>6, <1>7, <2>1
  <2>3. /\ Shaped(m)
        /\ \A w \in Tables \ {u} : SameTable(old, m, w)
        /\ \E new : /\ Laid(hashOf, m, u, new, f) /\ Exact(m, u, new)
                    /\ Len(new) = Len(lay)
    BY ONLY <1>2, <1>7, <2>2, Cloning, SMTT(30)
  <2>4. QED
    BY <2>1, <2>3
<1>9. HasExactly(hashOf, m, u, value[v])
  BY <1>8 DEF HasExactly
<1>10. ASSUME NEW w \in Dictionaries \ {v}, HasDictionary(w)
       PROVE  data[w] # u /\ Has(hashOf, m, data[w], value[w])
  <2>1. data[w] \in Tables \ {u} /\ Has(hashOf, Memory, data[w], value[w])
    BY <1>4, <1>10, Used
  <2>2. SameTable(Memory, m, data[w])
    BY <1>8, <2>1
  <2>3. Has(hashOf, m, data[w], value[w])
    BY <1>2, <2>1, <2>2, HasKept
  <2>4. QED
    BY <2>1, <2>3
<1>11. \E r \in Tables : m.buckets[r] = <<>>
  <2>. DEFINE g == [w \in Dictionaries |-> IF w = v THEN u ELSE data[w]]
  <2>1. PICK r \in Tables : \A w \in Dictionaries : g[w] # r
    <3>1. DOMAIN g = Dictionaries
      OBVIOUS
    <3>. HIDE DEF g
    <3>2. QED
      BY <3>1, TableLeft
  <2>2. r # u /\ \A w \in Dictionaries \ {v} : data[w] # r
    BY <2>1
  <2>3. PICK w \in Dictionaries \ {v} : data[w] = data[v]
    BY DEF OnlyReference
  <2>4. \A x \in Dictionaries : data[x] # r
    BY <2>2, <2>3
  <2>5. buckets[r] = <<>>
    BY <2>4, Unused
  <2>6. m.buckets[r] = Memory.buckets[r]
    BY <1>8, <2>2 DEF SameTable
  <2>7. QED
    BY <2>5, <2>6 DEF Memory
<1>12. ASSUME NEW r \in Tables, m.buckets[r] = <<>>
       PROVE  /\ r # u /\ \A w \in Dictionaries : data[w] # r
              /\ \A c \in CellsOf(r) : m.entries[c] = NoEntry
  <2>1. r # u
    <3>1. Has(hashOf, m, u, value[v])
      BY <1>9, HasExactlyHas
    <3>2. m.buckets[u] # <<>>
      BY <3>1, UsedHasBuckets
    <3>3. QED
      BY <1>12, <3>2
  <2>2. SameTable(Memory, m, r)
    BY <1>8, <2>1
  <2>3. buckets[r] = <<>> /\ \A c \in CellsOf(r) : m.entries[c] = entries[c]
    BY <1>12, <2>2 DEF SameTable, Memory
  <2>4. QED
    BY <2>1, <2>3, Unused
<1>13. QED
  BY <1>3, <1>8, <1>9, <1>10, <1>11, <1>12 DEF Ready

\* A method changes a table that only its variable refers to.
LEMMA Preparing ==
    ASSUME TablesInv, NEW v \in Dictionaries, HasDictionary(v), NEW p, p = Prepared(v)
    PROVE  Ready(v, p.table, p.memory)
<1>1. CASE OnlyReference(v)
  <2>1. p.table = data[v] /\ p.memory = Memory
    BY <1>1 DEF Prepared
  <2>2. QED
    BY <1>1, <2>1, ReadyAsItIs
<1>2. CASE ~OnlyReference(v)
  <2>1. p.table = FreeTable(Memory) /\ p.memory = Cloned(Memory, data[v], p.table)
    BY <1>2 DEF Prepared
  <2>2. PICK u, m : u = p.table /\ m = p.memory
    OBVIOUS
  <2>3. Ready(v, u, m)
    BY <1>2, <2>1, <2>2, ReadyCloned
  <2>4. QED
    BY <2>2, <2>3
<1>3. QED
  BY <1>1, <1>2

(***************************************************************************)
(* Methods                                                                 *)
(***************************************************************************)
LEMMA HashesNow ==
    ASSUME TablesInv
    PROVE  hashOf \in [Keys -> Nat]
BY HashesAreNumbers DEF TablesInv

LEMMA NoKeys == Cardinality(DOMAIN <<>>) = 0
BY NothingIsAMap, FS_EmptySet

LEMMA MapIsFinite ==
    ASSUME NEW hash, NEW m, NEW t, NEW f, Has(hash, m, t, f)
    PROVE  f \in Maps /\ IsFiniteSet(DOMAIN f)
<1>1. f \in Maps
  BY DEF Has, Laid
<1>2. DOMAIN f \in SUBSET Keys
  BY <1>1, MapFacts
<1>3. IsFiniteSet(Keys)
  BY RoomForEntries
<1>4. QED
  BY <1>1, <1>2, <1>3, FS_Subset

Changed(m, n, u) == Shaped(n) /\ \A w \in Tables \ {u} : SameTable(m, n, w)

\* A method that changes table u in the memory it prepared, and assigns it.
LEMMA Changing ==
    ASSUME TablesInv, NEW v \in Dictionaries, NEW t, NEW m, Ready(v, t, m),
           NEW u \in Tables, \A w \in Dictionaries \ {v} : HasDictionary(w) => data[w] # u,
           NEW n, Changed(m, n, u), NEW f, Has(hashOf, n, u, f),
           NEW total, total = Cardinality(DOMAIN f), Assign(v, u, total, n, f)
    PROVE  TablesInv'
<1>1. hashOf \in [Keys -> Nat]
  BY HashesNow
<1>2. ASSUME NEW w \in Dictionaries \ {v}, HasDictionary(w)
      PROVE  Has(hashOf, n, data[w], value[w])
  <2>1. data[w] \in Tables \ {u}
    BY <1>2, Used
  <2>2. SameTable(m, n, data[w])
    BY <2>1 DEF Changed
  <2>3. Has(hashOf, m, data[w], value[w])
    BY <1>2 DEF Ready
  <2>4. QED
    BY <1>1, <2>2, <2>3, HasKept
<1>3. QED
  <2>1. u \in Tables /\ Has(hashOf, n, u, f) /\ total = Cardinality(DOMAIN f)
    OBVIOUS
  <2>2. \A w \in Dictionaries \ {v} : HasDictionary(w) => Has(hashOf, n, data[w], value[w])
    BY <1>2
  <2>3. QED
    BY <2>1, <2>2, Assigning, SMTT(30)

LEMMA CreateKeeps ==
    ASSUME TablesInv, NEW v \in Dictionaries, NEW min \in MinCapacities, CreateDictionary(v, min)
    PROVE  TablesInv'
<1>1. PICK t, c, m, n : t = FreeTable(Memory) /\ c = Grown(min) /\ m = Memory /\ n = WithTable(m, t, c)
  OBVIOUS
<1>2. Assign(v, t, 0, n, <<>>)
  BY <1>1 DEF CreateDictionary
<1>3. hashOf \in [Keys -> Nat] /\ Shaped(m)
  BY <1>1, HashesNow, MemoryIsShaped DEF TablesInv
<1>4. t \in Tables /\ m.buckets[t] = <<>>
  <2>1. PICK u \in Tables : m.buckets[u] = <<>>
    BY <1>1, CanCreate DEF Memory
  <2>2. QED
    BY <1>1, <2>1, FreeTableFacts
<1>5. c \in Nat \ {0}
  <2>1. min \in Nat
    BY CapacitiesAssumption
  <2>2. QED
    BY <1>1, <2>1, GrownFacts
<1>6. Emptied(hashOf, m, n, t, c)
  BY <1>1, <1>3, <1>4, <1>5, WithTableLaid
<1>7. Has(hashOf, n, t, <<>>)
  BY <1>6 DEF Emptied, Has
<1>8. ASSUME NEW w \in Dictionaries \ {v}, HasDictionary(w)
      PROVE  Has(hashOf, n, data[w], value[w])
  <2>1. data[w] \in Tables /\ data[w] # t
    BY <1>1, <1>4, <1>8, Used DEF Memory
  <2>2. SameTable(m, n, data[w])
    BY <1>6, <2>1 DEF Emptied, SameTable
  <2>3. Has(hashOf, m, data[w], value[w])
    BY <1>1, <1>8, Used
  <2>4. QED
    BY <1>3, <2>2, <2>3, HasKept
<1>9. QED
  <2>1. \A w \in Dictionaries \ {v} : HasDictionary(w) => Has(hashOf, n, data[w], value[w])
    BY <1>8
  <2>2. PICK f : f = <<>>
    OBVIOUS
  <2>3. Assign(v, t, 0, n, f) /\ Has(hashOf, n, t, f) /\ 0 = Cardinality(DOMAIN f)
    BY <1>2, <1>7, <2>2, NoKeys
  <2>4. QED
    BY <1>4, <2>1, <2>3, Assigning, SMTT(30)

LEMMA CopyKeeps ==
    ASSUME TablesInv, NEW v \in Dictionaries, NEW w \in Dictionaries, CopyDictionary(v, w)
    PROVE  TablesInv'
<1>1. HasDictionary(v) /\ Assign(w, data[v], size[v], Memory, value[v])
  BY DEF CopyDictionary
<1>2. data[v] \in Tables /\ Has(hashOf, Memory, data[v], value[v])
  BY <1>1, Used
<1>3. size[v] = Cardinality(DOMAIN value[v])
  BY <1>1 DEF TablesInv, Valued
<1>4. \A x \in Dictionaries \ {w} : HasDictionary(x) => Has(hashOf, Memory, data[x], value[x])
  BY Used
<1>5. PICK t, total, m, f : t = data[v] /\ total = size[v] /\ m = Memory /\ f = value[v]
  OBVIOUS
<1>6. /\ Assign(w, t, total, m, f) /\ t \in Tables /\ Has(hashOf, m, t, f) /\ total = Cardinality(DOMAIN f)
      /\ \A x \in Dictionaries \ {w} : HasDictionary(x) => Has(hashOf, m, data[x], value[x])
  BY <1>1, <1>2, <1>3, <1>4, <1>5
<1>7. QED
  BY <1>6, Assigning, SMTT(30)

LEMMA DropKeeps ==
    ASSUME TablesInv, NEW v \in Dictionaries, DropDictionary(v)
    PROVE  TablesInv'
<1>1. Assign(v, NoDictionary, 0, Memory, <<>>)
  BY DEF DropDictionary
<1>2. \A x \in Dictionaries \ {v} : HasDictionary(x) => Has(hashOf, Memory, data[x], value[x])
  BY Used
<1>3. PICK m, f : m = Memory /\ f = <<>>
  OBVIOUS
<1>4. /\ Assign(v, NoDictionary, 0, m, f)
      /\ \A x \in Dictionaries \ {v} : HasDictionary(x) => Has(hashOf, m, data[x], value[x])
  BY <1>1, <1>2, <1>3
<1>5. QED
  BY <1>4, Assigning, SMTT(30)

LEMMA ReplaceKeeps ==
    ASSUME TablesInv, NEW v \in Dictionaries, NEW k \in Keys, NEW x \in Elements, ReplaceElement(v, k, x)
    PROVE  TablesInv'
<1>1. PICK p : p = Prepared(v)
  OBVIOUS
<1>2. PICK t, m, f : t = p.table /\ m = p.memory /\ f = value[v]
  OBVIOUS
<1>3. PICK n : n = [m EXCEPT !.entries[Found(m, t, k)].element = x]
  OBVIOUS
<1>4. HasDictionary(v) /\ FindKey(m, t, k) # {} /\ Assign(v, t, size[v], n, Extended(f, k, x))
  BY <1>1, <1>2, <1>3 DEF ReplaceElement, With, Extended
<1>5. Ready(v, t, m)
  BY <1>1, <1>2, <1>4, Preparing
<1>6. PICK lay : Laid(hashOf, m, t, lay, f)
  BY <1>2, <1>5 DEF Ready, HasExactly
<1>7. /\ k \in DOMAIN f
      /\ Shaped(n)
      /\ \A u \in Tables \ {t} : SameTable(m, n, u)
      /\ Laid(hashOf, n, t, lay, Extended(f, k, x))
  <2>1. hashOf \in [Keys -> Nat] /\ Shaped(m) /\ t \in Tables
    BY <1>5, HashesNow DEF Ready
  <2>2. QED
    BY ONLY <1>3, <1>4, <1>6, <2>1, x \in Elements, k \in Keys, Replacement, SMTT(30)
<1>8. PICK g : g = Extended(f, k, x)
  OBVIOUS
<1>9. Has(hashOf, n, t, g) /\ Changed(m, n, t)
  BY <1>7, <1>8 DEF Has, Changed
<1>10. size[v] = Cardinality(DOMAIN g)
  <2>1. DOMAIN g = DOMAIN f \cup {k}
    BY <1>8 DEF Extended
  <2>2. DOMAIN g = DOMAIN f
    BY <1>7, <2>1
  <2>3. size[v] = Cardinality(DOMAIN f)
    BY <1>2, <1>4 DEF TablesInv, Valued
  <2>4. QED
    BY <2>2, <2>3
<1>11. t \in Tables /\ \A w \in Dictionaries \ {v} : HasDictionary(w) => data[w] # t
  BY <1>5 DEF Ready
<1>12. PICK total : total = size[v]
  OBVIOUS
<1>13. Assign(v, t, total, n, g) /\ total = Cardinality(DOMAIN g)
  BY <1>4, <1>8, <1>10, <1>12
<1>14. QED
  BY <1>5, <1>9, <1>11, <1>13, Changing, SMTT(30)

LEMMA AddKeeps ==
    ASSUME TablesInv, NEW v \in Dictionaries, NEW k \in Keys, NEW x \in Elements, AddElement(v, k, x)
    PROVE  TablesInv'
<1>1. PICK p : p = Prepared(v)
  OBVIOUS
<1>2. PICK t, m, f, u : t = p.table /\ m = p.memory /\ f = value[v] /\ u = FreeTable(p.memory)
  OBVIOUS
<1>3. PICK g : g = Extended(f, k, x)
  OBVIOUS
<1>4. /\ HasDictionary(v) /\ FindKey(m, t, k) = {}
      /\ IF TooFull(m, t, size[v])
         THEN Assign(v, u, Len(AllEntries(m, t)) + 1, Inserted(Enlarged(m, t, u), u, k, x), g)
         ELSE Assign(v, t, size[v] + 1, Inserted(m, t, k, x), g)
  BY <1>1, <1>2, <1>3 DEF AddElement, With, Extended
<1>5. Ready(v, t, m)
  BY <1>1, <1>2, <1>4, Preparing
<1>6. PICK lay : Laid(hashOf, m, t, lay, f) /\ Exact(m, t, lay)
  BY <1>2, <1>5 DEF Ready, HasExactly
<1>7. hashOf \in [Keys -> Nat] /\ Shaped(m) /\ t \in Tables
  BY <1>5, HashesNow DEF Ready
<1>8. f \in Maps /\ IsFiniteSet(DOMAIN f)
  <2>1. Has(hashOf, m, t, f)
    BY <1>6 DEF Has
  <2>2. QED
    BY <2>1, MapIsFinite
<1>9. k \notin DOMAIN f
  <2>1. PICK i : i = Bucket(hashOf, k, Len(lay))
    OBVIOUS
  <2>2. k \in DOMAIN f => \E j \in 1..Len(lay[i]) : FoundAt(m, t, k, f, lay[i], j)
    BY <1>6, <1>7, <2>1, FindLaid
  <2>3. QED
    BY <1>4, <2>2 DEF FoundAt
<1>10. Cardinality(DOMAIN g) = Cardinality(DOMAIN f) + 1
  <2>1. DOMAIN g = DOMAIN f \cup {k}
    BY <1>3 DEF Extended
  <2>2. PICK D : D = DOMAIN f
    OBVIOUS
  <2>3. Cardinality(D \cup {k}) = IF k \in D THEN Cardinality(D) ELSE Cardinality(D) + 1
    BY <1>8, <2>2, FS_AddElement
  <2>4. QED
    BY <1>9, <2>1, <2>2, <2>3
<1>11. CASE TooFull(m, t, size[v])
  <2>1. PICK r \in Tables : m.buckets[r] = <<>>
    BY <1>5 DEF Ready
  <2>2. u \in Tables /\ m.buckets[u] = <<>>
    BY <1>2, <2>1, FreeTableFacts
  <2>3. /\ u # t /\ \A w \in Dictionaries : data[w] # u
        /\ \A c \in CellsOf(u) : m.entries[c] = NoEntry
    BY <1>5, <2>2 DEF Ready
  <2>4. PICK larger : larger = Enlarged(m, t, u)
    OBVIOUS
  <2>5. /\ Shaped(larger)
        /\ \A w \in Tables \ {u} : SameTable(m, larger, w)
        /\ \E new : /\ Laid(hashOf, larger, u, new, f) /\ Exact(larger, u, new)
                    /\ Len(new) = Grown(Len(lay))
    <3>1. u \in Tables \ {t}
      BY <2>2, <2>3
    <3>2. QED
      BY ONLY <1>6, <1>7, <2>3, <2>4, <3>1, Enlarging, SMTT(30)
  <2>6. PICK new : Laid(hashOf, larger, u, new, f) /\ Exact(larger, u, new)
    BY <2>5
  <2>7. PICK n : n = Inserted(larger, u, k, x)
    OBVIOUS
  <2>8. /\ Shaped(n)
        /\ \A w \in Tables \ {u} : SameTable(larger, n, w)
        /\ \E last : /\ Laid(hashOf, n, u, last, g) /\ Exact(n, u, last)
                     /\ Len(last) = Len(new)
    <3>1. k \in Keys \ DOMAIN f
      BY <1>9
    <3>2. QED
      BY ONLY <1>3, <1>7, <2>2, <2>5, <2>6, <2>7, <3>1, x \in Elements, Insertion, SMTT(30)
  <2>9. Has(hashOf, n, u, g)
    BY <2>8 DEF Has
  <2>10. Changed(m, n, u)
    BY <2>5, <2>8 DEF Changed, SameTable
  <2>11. PICK total : total = Len(AllEntries(m, t)) + 1
    OBVIOUS
  <2>12. total = Cardinality(DOMAIN g)
    <3>1. PICK all : all = AllEntries(m, t)
      OBVIOUS
    <3>2. Enumerates(all, m, t, lay, f)
      BY <1>6, <1>7, <3>1, AllLaid
    <3>3. Len(all) = Cardinality(DOMAIN f)
      BY <3>2 DEF Enumerates
    <3>4. QED
      BY <1>10, <2>11, <3>1, <3>3
  <2>13. Assign(v, u, total, n, g)
    BY <1>4, <1>11, <2>4, <2>7, <2>11
  <2>14. \A w \in Dictionaries \ {v} : HasDictionary(w) => data[w] # u
    BY <2>3
  <2>15. QED
    BY <1>5, <2>2, <2>9, <2>10, <2>12, <2>13, <2>14, Changing, SMTT(30)
<1>12. CASE ~TooFull(m, t, size[v])
  <2>1. PICK n : n = Inserted(m, t, k, x)
    OBVIOUS
  <2>2. /\ Shaped(n)
        /\ \A w \in Tables \ {t} : SameTable(m, n, w)
        /\ \E new : /\ Laid(hashOf, n, t, new, g) /\ Exact(n, t, new)
                    /\ Len(new) = Len(lay)
    <3>1. k \in Keys \ DOMAIN f
      BY <1>9
    <3>2. QED
      BY ONLY <1>3, <1>6, <1>7, <2>1, <3>1, x \in Elements, Insertion, SMTT(30)
  <2>3. Has(hashOf, n, t, g) /\ Changed(m, n, t)
    BY <2>2 DEF Has, Changed
  <2>4. PICK total : total = size[v] + 1
    OBVIOUS
  <2>5. total = Cardinality(DOMAIN g)
    <3>1. size[v] = Cardinality(DOMAIN f)
      BY <1>2, <1>4 DEF TablesInv, Valued
    <3>2. QED
      BY <1>10, <2>4, <3>1
  <2>6. Assign(v, t, total, n, g)
    BY <1>4, <1>12, <2>1, <2>4
  <2>7. \A w \in Dictionaries \ {v} : HasDictionary(w) => data[w] # t
    BY <1>5 DEF Ready
  <2>8. QED
    BY <1>5, <1>7, <2>3, <2>5, <2>6, <2>7, Changing, SMTT(30)
<1>13. QED
  BY <1>11, <1>12

LEMMA RemoveKeeps ==
    ASSUME TablesInv, NEW v \in Dictionaries, NEW k \in Keys, RemoveKey(v, k)
    PROVE  TablesInv'
<1>1. PICK p : p = Prepared(v)
  OBVIOUS
<1>2. PICK t, m, f : t = p.table /\ m = p.memory /\ f = value[v]
  OBVIOUS
<1>3. PICK g : g = Shortened(f, k)
  OBVIOUS
<1>4. /\ HasDictionary(v)
      /\ IF FindKey(m, t, k) = {} THEN Assign(v, t, size[v], m, f)
         ELSE Assign(v, t, size[v] - 1, Unlinked(m, t, k), g)
  BY <1>1, <1>2, <1>3 DEF RemoveKey, Without, Shortened
<1>5. Ready(v, t, m)
  BY <1>1, <1>2, <1>4, Preparing
<1>6. PICK lay : Laid(hashOf, m, t, lay, f) /\ Exact(m, t, lay)
  BY <1>2, <1>5 DEF Ready, HasExactly
<1>7. hashOf \in [Keys -> Nat] /\ Shaped(m) /\ t \in Tables
  BY <1>5, HashesNow DEF Ready
<1>8. Has(hashOf, m, t, f) /\ f \in Maps /\ IsFiniteSet(DOMAIN f)
  <2>1. Has(hashOf, m, t, f)
    BY <1>6 DEF Has
  <2>2. QED
    BY <2>1, MapIsFinite
<1>9. size[v] = Cardinality(DOMAIN f)
  BY <1>2, <1>4 DEF TablesInv, Valued
<1>10. \A w \in Dictionaries \ {v} : HasDictionary(w) => data[w] # t
  BY <1>5 DEF Ready
<1>11. CASE FindKey(m, t, k) = {}
  <2>1. Changed(m, m, t)
    BY <1>7 DEF Changed, SameTable
  <2>2. PICK total : total = size[v]
    OBVIOUS
  <2>3. Assign(v, t, total, m, f) /\ total = Cardinality(DOMAIN f)
    BY <1>4, <1>9, <1>11, <2>2
  <2>4. QED
    BY <1>5, <1>7, <1>8, <1>10, <2>1, <2>3, Changing, SMTT(30)
<1>12. CASE FindKey(m, t, k) # {}
  <2>1. PICK n : n = Unlinked(m, t, k)
    OBVIOUS
  <2>2. /\ k \in DOMAIN f
        /\ Shaped(n)
        /\ \A u \in Tables \ {t} : SameTable(m, n, u)
        /\ \E new : Laid(hashOf, n, t, new, Shortened(f, k)) /\ Len(new) = Len(lay)
    BY ONLY <1>6, <1>7, <1>12, <2>1, k \in Keys, Unlinking, SMTT(30)
  <2>3. Has(hashOf, n, t, g) /\ Changed(m, n, t)
    BY <1>3, <2>2 DEF Has, Changed
  <2>4. Cardinality(DOMAIN g) = Cardinality(DOMAIN f) - 1
    <3>1. DOMAIN g = DOMAIN f \ {k}
      BY <1>3 DEF Shortened
    <3>2. PICK D : D = DOMAIN f
      OBVIOUS
    <3>3. Cardinality(D \ {k}) = IF k \in D THEN Cardinality(D) - 1 ELSE Cardinality(D)
      BY <1>8, <3>2, FS_RemoveElement
    <3>4. QED
      BY <2>2, <3>1, <3>2, <3>3
  <2>5. PICK total : total = size[v] - 1
    OBVIOUS
  <2>6. Assign(v, t, total, n, g) /\ total = Cardinality(DOMAIN g)
    BY <1>4, <1>9, <1>12, <2>1, <2>4, <2>5
  <2>7. QED
    BY <1>5, <1>7, <1>10, <2>3, <2>6, Changing, SMTT(30)
<1>13. QED
  BY <1>11, <1>12

LEMMA RemoveAllKeeps ==
    ASSUME TablesInv, NEW v \in Dictionaries, RemoveAll(v)
    PROVE  TablesInv'
<1>1. PICK p : p = Prepared(v)
  OBVIOUS
<1>2. PICK t, m, f : t = p.table /\ m = p.memory /\ f = <<>>
  OBVIOUS
<1>3. PICK n, c : n = WithTable(m, t, Len(m.buckets[t])) /\ c = Len(m.buckets[t])
  OBVIOUS
<1>4. HasDictionary(v) /\ Assign(v, t, 0, n, f)
  BY <1>1, <1>2, <1>3 DEF RemoveAll
<1>5. Ready(v, t, m)
  BY <1>1, <1>2, <1>4, Preparing
<1>6. hashOf \in [Keys -> Nat] /\ Shaped(m) /\ t \in Tables
  BY <1>5, HashesNow DEF Ready
<1>7. c \in Nat \ {0}
  <2>1. PICK lay : Laid(hashOf, m, t, lay, value[v])
    BY <1>5 DEF Ready, HasExactly
  <2>2. Len(lay) \in Nat \ {0} /\ Len(m.buckets[t]) = Len(lay)
    BY <2>1, LaidFacts DEF Laid
  <2>3. QED
    BY <1>3, <2>2
<1>8. Emptied(hashOf, m, n, t, c)
  BY <1>3, <1>6, <1>7, WithTableLaid
<1>9. Has(hashOf, n, t, f)
  BY <1>2, <1>8 DEF Emptied, Has
<1>10. Changed(m, n, t)
  BY <1>8 DEF Emptied, Changed, SameTable
<1>11. 0 = Cardinality(DOMAIN f)
  BY <1>2, NoKeys
<1>12. \A w \in Dictionaries \ {v} : HasDictionary(w) => data[w] # t
  BY <1>5 DEF Ready
<1>13. PICK total : total = 0
  OBVIOUS
<1>14. QED
  BY <1>4, <1>5, <1>6, <1>9, <1>10, <1>11, <1>12, <1>13, Changing, SMTT(30)

LEMMA TablesStart == TablesInit => TablesInv
<1>. SUFFICES ASSUME TablesInit PROVE TablesInv
  OBVIOUS
<1>1. TablesTyped
  BY DEF TablesInit, TablesTyped
<1>2. \A v \in Dictionaries : Valued(v)
  BY DEF TablesInit, Valued, HasDictionary
<1>3. ASSUME NEW t \in Tables
      PROVE  Reusable(t)
  <2>1. buckets[t] = <<>>
    BY DEF TablesInit
  <2>2. \A c \in CellsOf(t) : entries[c] = NoEntry
    BY CellFacts DEF TablesInit
  <2>3. QED
    BY <2>1, <2>2 DEF Reusable, Vacant, Memory
<1>4. QED
  BY <1>1, <1>2, <1>3 DEF TablesInv

LEMMA TablesStep == TablesInv /\ [TablesNext]_tableVars => TablesInv'
<1>. SUFFICES ASSUME TablesInv, [TablesNext]_tableVars PROVE TablesInv'
  OBVIOUS
<1>1. ASSUME NEW v \in Dictionaries, NEW min \in MinCapacities, CreateDictionary(v, min)
      PROVE  TablesInv'
  BY <1>1, CreateKeeps
<1>2. ASSUME NEW v \in Dictionaries, NEW w \in Dictionaries, CopyDictionary(v, w)
      PROVE  TablesInv'
  BY <1>2, CopyKeeps
<1>3. ASSUME NEW v \in Dictionaries, DropDictionary(v)
      PROVE  TablesInv'
  BY <1>3, DropKeeps
<1>4. ASSUME NEW v \in Dictionaries, RemoveAll(v)
      PROVE  TablesInv'
  BY <1>4, RemoveAllKeeps
<1>5. ASSUME NEW v \in Dictionaries, NEW k \in Keys, RemoveKey(v, k)
      PROVE  TablesInv'
  BY <1>5, RemoveKeeps
<1>6. ASSUME NEW v \in Dictionaries, NEW k \in Keys, NEW x \in Elements, ReplaceElement(v, k, x)
      PROVE  TablesInv'
  BY <1>6, ReplaceKeeps
<1>7. ASSUME NEW v \in Dictionaries, NEW k \in Keys, NEW x \in Elements, AddElement(v, k, x)
      PROVE  TablesInv'
  BY <1>7, AddKeeps
<1>8. CASE UNCHANGED tableVars
  <2>1. /\ hashOf' = hashOf /\ data' = data /\ size' = size
        /\ buckets' = buckets /\ entries' = entries /\ value' = value
    BY <1>8 DEF tableVars
  <2>2. Memory' = Memory
    BY <2>1 DEF Memory
  <2>3. TablesTyped'
    BY <2>1 DEF TablesInv, TablesTyped
  <2>4. \A v \in Dictionaries : Valued(v)'
    BY <2>1, <2>2 DEF TablesInv, Valued, HasDictionary
  <2>5. \A t \in Tables : Reusable(t)'
    BY <2>1, <2>2 DEF TablesInv, Reusable
  <2>6. QED
    BY <2>3, <2>4, <2>5 DEF TablesInv
<1>9. QED
  BY <1>1, <1>2, <1>3, <1>4, <1>5, <1>6, <1>7, <1>8 DEF TablesNext

\* Each dictionary refers to a table that holds its value, and other tables were released.
THEOREM TablesHoldValues == TablesSpec => []TablesInv
<1>1. TablesInit => TablesInv
  BY TablesStart
<1>2. TablesInv /\ [TablesNext]_tableVars => TablesInv'
  BY TablesStep
<1>3. QED
  BY <1>1, <1>2, PTL DEF TablesSpec

LEMMA MapsRead ==
    ASSUME TablesInv
    PROVE  DictionariesAreMaps
<1>. SUFFICES ASSUME NEW v \in Dictionaries, HasDictionary(v)
              PROVE  LET listed == AllEntries(Memory, data[v])
                     IN  /\ value[v] = [k \in {key \in Keys : FindKey(Memory, data[v], key) # {}} |->
                                            entries[Found(Memory, data[v], k)].element]
                         /\ {entries[c].key : c \in ToSet(listed)} = DOMAIN value[v]
                         /\ Len(listed) = size[v] /\ size[v] = Cardinality(DOMAIN value[v])
  BY DEF DictionariesAreMaps
<1>1. PICK m, t, f : m = Memory /\ t = data[v] /\ f = value[v]
  OBVIOUS
<1>2. hashOf \in [Keys -> Nat] /\ t \in Tables /\ m.entries = entries
  BY <1>1, HashesNow, Used DEF Memory
<1>3. PICK lay : Laid(hashOf, m, t, lay, f)
  BY <1>1, Used DEF Has
<1>4. f \in Maps
  BY <1>3 DEF Laid
<1>5. ASSUME NEW k \in Keys
      PROVE  /\ FindKey(m, t, k) # {} <=> k \in DOMAIN f
             /\ k \in DOMAIN f => m.entries[Found(m, t, k)].element = f[k]
  <2>1. PICK i : i = Bucket(hashOf, k, Len(lay))
    OBVIOUS
  <2>2. /\ k \notin DOMAIN f => FindKey(m, t, k) = {}
        /\ k \in DOMAIN f => \E j \in 1..Len(lay[i]) : FoundAt(m, t, k, f, lay[i], j)
    BY <1>2, <1>3, <2>1, FindLaid
  <2>3. ASSUME k \in DOMAIN f
        PROVE  FindKey(m, t, k) # {} /\ m.entries[Found(m, t, k)].element = f[k]
    <3>1. PICK j \in 1..Len(lay[i]) : FoundAt(m, t, k, f, lay[i], j)
      BY <2>2, <2>3
    <3>2. QED
      BY <3>1 DEF FoundAt
  <2>4. QED
    BY <2>2, <2>3
<1>6. f = [k \in {key \in Keys : FindKey(m, t, key) # {}} |-> m.entries[Found(m, t, k)].element]
  <2>1. DOMAIN f \subseteq Keys /\ f = [k \in DOMAIN f |-> f[k]]
    BY <1>4, MapFacts
  <2>2. {key \in Keys : FindKey(m, t, key) # {}} = DOMAIN f
    BY <1>5, <2>1
  <2>3. \A k \in DOMAIN f : f[k] = m.entries[Found(m, t, k)].element
    BY <1>5, <2>1
  <2>4. QED
    BY <2>1, <2>2, <2>3
<1>7. PICK listed : listed = AllEntries(m, t)
  OBVIOUS
<1>8. Enumerates(listed, m, t, lay, f)
  BY <1>2, <1>3, <1>7, AllLaid
<1>9. {m.entries[c].key : c \in ToSet(listed)} = DOMAIN f
  <2>1. listed \in Seq(CellsOf(t))
    BY <1>8 DEF Enumerates
  <2>2. ToSet(listed) = {listed[p] : p \in 1..Len(listed)}
    BY <2>1, SeqFacts DEF ToSet
  <2>3. \A c \in ToSet(listed) : m.entries[c].key \in DOMAIN f
    BY <1>8, <2>2 DEF Enumerates
  <2>4. ASSUME NEW k \in DOMAIN f
        PROVE  \E c \in ToSet(listed) : m.entries[c].key = k
    <3>1. PICK p \in 1..Len(listed) : m.entries[listed[p]].key = k
      BY <1>8 DEF Enumerates
    <3>2. listed[p] \in ToSet(listed)
      BY <2>2
    <3>3. QED
      BY <3>1, <3>2
  <2>5. QED
    BY <2>3, <2>4
<1>10. Len(listed) = Cardinality(DOMAIN f)
  BY <1>8 DEF Enumerates
<1>11. size[v] = Cardinality(DOMAIN f)
  BY <1>1 DEF TablesInv, Valued
<1>12. QED
  BY <1>1, <1>2, <1>6, <1>7, <1>9, <1>10, <1>11

\* Dictionaries are values: looking keys up, listing and counting them agree with what was
\* set, however keys collide and tables are shared, cloned and enlarged.
THEOREM MapsAlways == TablesSpec => []DictionariesAreMaps
<1>1. TablesInv => DictionariesAreMaps
  BY MapsRead
<1>2. QED
  BY <1>1, TablesHoldValues, PTL
=============================================================================
