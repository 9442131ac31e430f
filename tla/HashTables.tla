----------------------------- MODULE HashTables -----------------------------
(***************************************************************************)
(* Dictionaries (package s, 🍯).  A dictionary is a reference to a table,  *)
(* whose buckets are chains of entries, and a count.  Copies share the     *)
(* table; every mutating method first clones it, with all entries, unless  *)
(* its reference is the only one.  When a key is added to a table that is  *)
(* too full, all entries are first inserted into a larger one.             *)
(*                                                                         *)
(* How methods on different variables that share storage interleave is     *)
(* modelled in CopyOnWrite; here a method is one step.  What it does to    *)
(* the memory is computed as a sequence of changes to [buckets |-> ,       *)
(* entries |-> ].  Memory no dictionary uses is free again.                *)
(***************************************************************************)
EXTENDS Naturals, FiniteSets, SequencesExt

CONSTANTS
    Dictionaries,   \* variables of a dictionary type
    Keys, Elements,
    Tables,         \* memory for tables, a set of numbers
    MaxEntries,     \* bound: the entries that fit the memory of a table
    Hashes,         \* of keys
    Capacities,     \* those 🛷 knows, from 7 to 7159
    MinCapacities,  \* those the program asks for, 0 if it does not
    NoEntry,
    NoDictionary

ASSUME TablesAreNumbers == Tables \subseteq Nat
ASSUME CapacitiesAssumption == /\ Capacities \subseteq Nat \ {0} /\ Capacities # {}
                               /\ MinCapacities \subseteq Nat
                               /\ Hashes \subseteq Nat
\* A dictionary has an entry for each key at most, and their memory does not run out: while
\* one dictionary is cloned or enlarged there is a table more than there are dictionaries.
ASSUME RoomForEntries == IsFiniteSet(Keys) /\ MaxEntries \in Nat /\ Cardinality(Keys) <= MaxEntries
ASSUME RoomForTables == /\ IsFiniteSet(Tables) /\ IsFiniteSet(Dictionaries)
                        /\ Cardinality(Dictionaries) < Cardinality(Tables)
ASSUME NoneIsNoTable == NoDictionary \notin Tables

VARIABLES
    hashOf,         \* the hash of each key, which depends on the seed of the process
    data,           \* the table of each variable, NoDictionary out of scope
    size,           \* count of each
    buckets,        \* of each table: the first entry of each chain
    entries,        \* key, element and next entry of each entry
    value           \* what each dictionary is to the program: its elements by key

tableVars == <<hashOf, data, size, buckets, entries, value>>

\* An entry is in the memory of the table for which it was made.
Cells == Tables \X (1..MaxEntries)
Entries == [key : Keys, element : Elements, next : Cells \cup {NoEntry}]
ASSUME NoneIsNoEntry == NoEntry \notin Cells \cup Entries

Memory == [buckets |-> buckets, entries |-> entries]
HasDictionary(v) == data[v] # NoDictionary

(***************************************************************************)
(* Reading a table                                                         *)
(***************************************************************************)

\* The entries of the chain that begins with first.
Chain(memory, first) ==
    LET after[n \in 0..MaxEntries] ==
            IF n = 0 THEN first
            ELSE IF after[n - 1] = NoEntry THEN NoEntry ELSE memory.entries[after[n - 1]].next
    IN  [n \in 1..Cardinality({m \in DOMAIN after : after[m] # NoEntry}) |-> after[n - 1]]

Index(memory, t, k) == (hashOf[k] % Len(memory.buckets[t])) + 1
ChainOf(memory, t, k) == Chain(memory, memory.buckets[t][Index(memory, t, k)])
AllEntries(memory, t) == FlattenSeq([i \in 1..Len(memory.buckets[t]) |-> Chain(memory, memory.buckets[t][i])])

\* 🔍: the places of entries with key k in their chain, of which the first is taken.
FindKey(memory, t, k) ==
    {j \in DOMAIN ChainOf(memory, t, k) : memory.entries[ChainOf(memory, t, k)[j]].key = k}
SetMin(S) == CHOOSE n \in S : \A m \in S : n <= m
Found(memory, t, k) == ChainOf(memory, t, k)[SetMin(FindKey(memory, t, k))]

(***************************************************************************)
(* Changing a table                                                        *)
(***************************************************************************)
FreeTable(memory) == SetMin({t \in Tables : memory.buckets[t] = <<>>})
FreeCell(memory, t) == <<t, SetMin({i \in 1..MaxEntries : memory.entries[<<t, i>>] = NoEntry})>>

\* 🛷
Grown(n) ==
    LET larger == {c \in Capacities : c > n}
    IN  IF larger = {} THEN 2 * n ELSE SetMin(larger)

WithTable(memory, t, capacity) == [memory EXCEPT !.buckets[t] = [i \in 1..capacity |-> NoEntry]]

\* A new entry is the last one of its chain (🐻).
Inserted(memory, t, k, x) ==
    LET c == FreeCell(memory, t)
        chain == ChainOf(memory, t, k)
        added == [memory EXCEPT !.entries[c] = [key |-> k, element |-> x, next |-> NoEntry]]
    IN  IF chain = <<>> THEN [added EXCEPT !.buckets[t][Index(memory, t, k)] = c]
        ELSE [added EXCEPT !.entries[Last(chain)].next = c]

\* 🦕, for which every entry is set again: the larger table is not too full.
TooFull(memory, t, count) == 4 * count > 3 * Len(memory.buckets[t])
Enlarged(memory, t, new) ==
    LET all == AllEntries(memory, t)
        set[n \in 0..Len(all)] ==
            IF n = 0 THEN WithTable(memory, new, Grown(Len(memory.buckets[t])))
            ELSE Inserted(set[n - 1], new, memory.entries[all[n]].key, memory.entries[all[n]].element)
    IN  set[Len(all)]

\* The entry k is in leaves its chain: the bucket or the entry before refers to the next.
Unlinked(memory, t, k) ==
    LET chain == ChainOf(memory, t, k)
        i == SetMin(FindKey(memory, t, k))
        next == memory.entries[chain[i]].next
    IN  IF i = 1 THEN [memory EXCEPT !.buckets[t][Index(memory, t, k)] = next]
        ELSE [memory EXCEPT !.entries[chain[i - 1]].next = next]

ClonedBuckets(memory, t, new) == [memory EXCEPT !.buckets[new] = memory.buckets[t]]
\* A chain is cloned entry by entry.
Cloned(memory, t, new) ==
    LET all == AllEntries(memory, t)
        clone(c) == IF c = NoEntry THEN NoEntry ELSE <<new, CHOOSE i \in 1..Len(all) : all[i] = c>>
    IN  [buckets |-> [memory.buckets EXCEPT ![new] = [i \in DOMAIN memory.buckets[t] |-> clone(memory.buckets[t][i])]],
         entries |-> [c \in Cells |-> IF c[1] = new /\ c[2] <= Len(all)
                                      THEN [memory.entries[all[c[2]]] EXCEPT !.next = clone(@)]
                                      ELSE memory.entries[c]]]

\* 📝: the table a method of v changes, and the memory.
OnlyReference(v) == \A w \in Dictionaries \ {v} : data[w] # data[v]
Prepared(v) ==
    IF OnlyReference(v) THEN [table |-> data[v], memory |-> Memory]
    ELSE LET new == FreeTable(Memory) IN [table |-> new, memory |-> Cloned(Memory, data[v], new)]

\* What is left when what no dictionary refers to was released.
Released(memory, used) ==
    LET kept == UNION {ToSet(AllEntries(memory, t)) : t \in used}
    IN  [buckets |-> [t \in Tables |-> IF t \in used THEN memory.buckets[t] ELSE <<>>],
         entries |-> [c \in Cells |-> IF c \in kept THEN memory.entries[c] ELSE NoEntry]]

\* v refers to a table from now on, and is a new value to the program.
Assign(v, table, count, memory, new) ==
    LET rest == Released(memory, ({data[w] : w \in Dictionaries \ {v}} \cup {table}) \ {NoDictionary}) IN
    /\ data' = [data EXCEPT ![v] = table]
    /\ size' = [size EXCEPT ![v] = count]
    /\ buckets' = rest.buckets /\ entries' = rest.entries
    /\ value' = [value EXCEPT ![v] = new]
    /\ UNCHANGED hashOf

(***************************************************************************)
(* Methods                                                                 *)
(***************************************************************************)
With(v, k, x) == [key \in DOMAIN value[v] \cup {k} |-> IF key = k THEN x ELSE value[v][key]]
Without(v, k) == [key \in DOMAIN value[v] \ {k} |-> value[v][key]]

CreateDictionary(v, min) ==
    LET t == FreeTable(Memory) IN
    /\ ~HasDictionary(v)
    /\ Assign(v, t, 0, WithTable(Memory, t, Grown(min)), <<>>)

CopyDictionary(v, w) ==
    /\ HasDictionary(v) /\ w # v
    /\ Assign(w, data[v], size[v], Memory, value[v])

DropDictionary(v) ==
    /\ HasDictionary(v)
    /\ Assign(v, NoDictionary, 0, Memory, <<>>)

\* ➡️🐽
ReplaceElement(v, k, x) ==
    /\ HasDictionary(v)
    /\ LET p == Prepared(v)
       IN  /\ FindKey(p.memory, p.table, k) # {}
           /\ Assign(v, p.table, size[v],
                     [p.memory EXCEPT !.entries[Found(p.memory, p.table, k)].element = x], With(v, k, x))

AddElement(v, k, x) ==
    /\ HasDictionary(v)
    /\ LET p == Prepared(v)
           new == FreeTable(p.memory)
       IN  /\ FindKey(p.memory, p.table, k) = {}
           /\ IF TooFull(p.memory, p.table, size[v])
              THEN Assign(v, new, Len(AllEntries(p.memory, p.table)) + 1,
                          Inserted(Enlarged(p.memory, p.table, new), new, k, x), With(v, k, x))
              ELSE Assign(v, p.table, size[v] + 1, Inserted(p.memory, p.table, k, x), With(v, k, x))

\* 🐨
RemoveKey(v, k) ==
    /\ HasDictionary(v)
    /\ LET p == Prepared(v) IN
       IF FindKey(p.memory, p.table, k) = {} THEN Assign(v, p.table, size[v], p.memory, value[v])
       ELSE Assign(v, p.table, size[v] - 1, Unlinked(p.memory, p.table, k), Without(v, k))

\* 🐗
RemoveAll(v) ==
    /\ HasDictionary(v)
    /\ LET p == Prepared(v) IN
       Assign(v, p.table, 0, WithTable(p.memory, p.table, Len(p.memory.buckets[p.table])), <<>>)

TablesInit ==
    /\ hashOf \in [Keys -> Hashes]
    /\ data = [v \in Dictionaries |-> NoDictionary]
    /\ size = [v \in Dictionaries |-> 0]
    /\ buckets = [t \in Tables |-> <<>>]
    /\ entries = [c \in Cells |-> NoEntry]
    /\ value = [v \in Dictionaries |-> <<>>]

TablesNext == \E v \in Dictionaries :
    \/ \E min \in MinCapacities : CreateDictionary(v, min)
    \/ \E w \in Dictionaries : CopyDictionary(v, w)
    \/ DropDictionary(v) \/ RemoveAll(v)
    \/ \E k \in Keys : RemoveKey(v, k) \/ \E x \in Elements : ReplaceElement(v, k, x) \/ AddElement(v, k, x)

TablesSpec == TablesInit /\ [][TablesNext]_tableVars

(***************************************************************************)
(* What must hold                                                          *)
(***************************************************************************)

\* Dictionaries are values, whichever keys share a bucket, in whatever order keys are set
\* and removed, and however often tables are shared, cloned and enlarged: looking keys up,
\* listing them (🐙) and counting them agree with what was set.
DictionariesAreMaps ==
    \A v \in {w \in Dictionaries : HasDictionary(w)} :
        LET listed == AllEntries(Memory, data[v])
        IN  /\ value[v] = [k \in {key \in Keys : FindKey(Memory, data[v], key) # {}} |->
                               entries[Found(Memory, data[v], k)].element]
            /\ {entries[c].key : c \in ToSet(listed)} = DOMAIN value[v]
            /\ Len(listed) = size[v] /\ size[v] = Cardinality(DOMAIN value[v])
=============================================================================
