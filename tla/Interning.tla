----------------------------- MODULE Interning -----------------------------
(***************************************************************************)
(* What the runtime interns: the tables of the conformances a box of a     *)
(* multiprotocol points to (ejcMultiprotocolTable) and class type values   *)
(* (ejcTypeValue).  Each is kept in a map from keys to addresses that a    *)
(* mutex guards and that is never shrunk, so that equal questions get the  *)
(* same address in every thread, valid until the program ends.  Each       *)
(* thread has a cache of tables of its own, without a lock, indexed by a   *)
(* hash of the key.                                                        *)
(***************************************************************************)
EXTENDS TypeDescriptions, FiniteSets

CONSTANTS
    Callers,       \* the threads of the program
    Conformances,  \* the keys of multiprotocol tables
    SlotOf,        \* the cache entry of each, by its hash
    Blocks,        \* memories of descriptions: what they describe, the entries
    None,          \* no question, no thread, no entry
    MaxAnswers     \* bound of the model: questions answered

ASSUME AnswersBounded == MaxAnswers \in Nat
ASSUME NobodyCalls == None \notin Callers

(* The key of the index-th type a block describes: the entries a walk says *)
(* describe it.                                                            *)
TypeKey(block, index) ==
    LET arg == ejcIndexTypeDescription(block.memory, 1, index)
        length == ejcTypeDescriptionLength(block.memory, arg)
    IN  SubSeq(block.memory, arg, arg + length - 1)

(* What the walks are given are descriptions: laid out so that they find   *)
(* the same entries for the same type and no other.                        *)
ASSUME KeysDescribeTypes ==
    \A b, c \in Blocks : \A i \in 0..(Len(b.types) - 1), j \in 0..(Len(c.types) - 1) :
        TypeKey(b, i) = TypeKey(c, j) <=> b.types[i + 1] = c.types[j + 1]

(* The comparison of casts relies on descriptions as the compiler lays     *)
(* them out: one of the whole type, in which the arguments of the          *)
(* superclass follow from the class's own arguments.                       *)
TypeKeys == UNION {{TypeKey(b, i) : i \in 0..(Len(b.types) - 1)} : b \in Blocks}
ASSUME KeysAreDescriptions == \A a \in TypeKeys : IsDescription(a)
ASSUME SuperArgumentsFollow ==
    \A a, b \in TypeKeys : \A p \in DOMAIN a, q \in DOMAIN b :
        a[p].rtti = b[q].rtti /\ OwnArguments(a, p) = OwnArguments(b, q)
            => SuperArguments(a, p) = SuperArguments(b, q)

Slots == {SlotOf[c] : c \in Conformances}
EmptyCache == [s \in Slots |-> None]

VARIABLES
    asked,      \* the question each thread has the runtime look up, or None
    creating,   \* the threads that did not find its key
    mutex,      \* the thread that holds the mutex of each map, or None
    map,        \* "tables" and "values": the entries <<key, address>>
    allocated,  \* the addresses allocated so far, 1..allocated
    cache,      \* the cache of each thread: <<key, address>> or None
    answers     \* what was answered: [map, meaning, key, address]

internVars == <<asked, creating, mutex, map, allocated, cache, answers>>

Question(kind, meaning, key) == [map |-> kind, meaning |-> meaning, key |-> key]

Answered(question, address) ==
    answers' = answers \cup
        {[map |-> question.map, meaning |-> question.meaning,
          key |-> question.key, address |-> address]}

(***************************************************************************)
(* The operations                                                          *)
(***************************************************************************)

(* The entry of the cache is used if it is for these very conformances.    *)
SlotHit(p, c) == cache[p][SlotOf[c]] # None
CacheHit(p, c) == LET entry == cache[p][SlotOf[c]]
                  IN  entry # None /\ entry[1] = c

ejcMultiprotocolTable(p, c) ==
    /\ asked[p] = None /\ Cardinality(answers) < MaxAnswers
    /\ IF CacheHit(p, c)
       THEN /\ Answered(Question("tables", c, c), cache[p][SlotOf[c]][2])
            /\ UNCHANGED asked
       ELSE /\ asked' = [asked EXCEPT ![p] = Question("tables", c, c)]
            /\ UNCHANGED answers
    /\ UNCHANGED <<creating, mutex, map, allocated, cache>>

(* A class type value is created for the index-th description of a block.  *)
ejcTypeValue(p, block, index) ==
    /\ asked[p] = None /\ Cardinality(answers) < MaxAnswers
    /\ asked' = [asked EXCEPT ![p] = Question("values", block.types[index + 1], TypeKey(block, index))]
    /\ UNCHANGED <<creating, mutex, map, allocated, cache, answers>>

Lock(p) ==
    /\ asked[p] # None /\ mutex[asked[p].map] = None
    /\ mutex' = [mutex EXCEPT ![asked[p].map] = p]
    /\ UNCHANGED <<asked, creating, map, allocated, cache, answers>>

Looking(p) == asked[p] # None /\ mutex[asked[p].map] = p

(* Before it unlocks the mutex, a lookup stores what it found in the cache *)
(* of the thread, if it has one.                                           *)
Return(p, address) ==
    LET question == asked[p]
    IN  /\ Answered(question, address)
        /\ cache' = IF question.map = "tables"
                    THEN [cache EXCEPT ![p][SlotOf[question.key]] =
                              <<question.key, address>>]
                    ELSE cache
        /\ mutex' = [mutex EXCEPT ![question.map] = None]
        /\ asked' = [asked EXCEPT ![p] = None]

Find(p) ==
    /\ Looking(p) /\ p \notin creating
    /\ IF \E entry \in map[asked[p].map] : entry[1] = asked[p].key
       THEN /\ \E entry \in map[asked[p].map] :
                   entry[1] = asked[p].key /\ Return(p, entry[2])
            /\ UNCHANGED creating
       ELSE /\ creating' = creating \cup {p}
            /\ UNCHANGED <<asked, mutex, cache, answers>>
    /\ UNCHANGED <<map, allocated>>

Create(p) ==
    /\ Looking(p) /\ p \in creating
    /\ allocated' = allocated + 1
    /\ map' = [map EXCEPT ![asked[p].map] =
                  @ \cup {<<asked[p].key, allocated + 1>>}]
    /\ Return(p, allocated + 1)
    /\ creating' = creating \ {p}

(* A thread's cache goes with the thread, the maps stay.                   *)
ThreadEnds(p) ==
    /\ asked[p] = None
    /\ cache' = [cache EXCEPT ![p] = EmptyCache]
    /\ UNCHANGED <<asked, creating, mutex, map, allocated, answers>>

InternInit ==
    /\ asked = [p \in Callers |-> None]
    /\ creating = {}
    /\ mutex = [m \in {"tables", "values"} |-> None]
    /\ map = [m \in {"tables", "values"} |-> {}]
    /\ allocated = 0
    /\ cache = [p \in Callers |-> EmptyCache]
    /\ answers = {}

Lookup(p) == Lock(p) \/ Find(p) \/ Create(p)

Ask(p) == \/ \E c \in Conformances : ejcMultiprotocolTable(p, c)
          \/ \E block \in Blocks : \E index \in 0..(Len(block.types) - 1) :
                 ejcTypeValue(p, block, index)

InternNext == \E p \in Callers : Ask(p) \/ Lookup(p) \/ ThreadEnds(p)

InternSpec == InternInit /\ [][InternNext]_internVars

(***************************************************************************)
(* What must hold                                                          *)
(***************************************************************************)

(* Equal questions have the same answer and different ones different       *)
(* answers, whichever threads ask them when, and what was answered is      *)
(* still there (the comments at lines 252 and 366): a box finds its        *)
(* methods, class type values can be compared by address.                  *)
SameAnswerToSameQuestion ==
    \A a, b \in answers :
        /\ a.address = b.address <=> a.map = b.map /\ a.meaning = b.meaning
        /\ <<a.key, a.address>> \in map[a.map]

(* A cast, which walks two descriptions and leaves the arguments of        *)
(* superclasses out, agrees with the comparison of type values, which      *)
(* takes every entry into account.                                         *)
CastsAgreeWithTypeValues ==
    \A a, b \in {answer \in answers : answer.map = "values"} :
        ejcCheckGenericArgs(a.key, b.key, 1, 0) <=> a.address = b.address
=============================================================================
