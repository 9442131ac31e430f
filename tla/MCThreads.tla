----------------------------- MODULE MCThreads -----------------------------
(***************************************************************************)
(* A program's threads, what the runtime interns for them and the          *)
(* collections whose storage they share.  A thread that has a question     *)
(* answered does nothing else meanwhile, and its cache ends with it.       *)
(* Small instance for TLC.                                                 *)
(***************************************************************************)
EXTENDS Threads, Interning, CopyOnWrite, HashTables

(* `names' is a list of symbols, without arguments of its own; `pairs of   *)
(* T' a list of lists of T.                                                *)
MCParamCount  == [symbol |-> 0, list |-> 1, names |-> 0, pairs |-> 1]
MCParamOffset == [symbol |-> 0, list |-> 0, names |-> 1, pairs |-> 1]

Type(class, optional, args) ==
    [rtti |-> class, optional |-> optional, args |-> args]
Symbol == Type("symbol", FALSE, <<>>)
OptionalSymbol == Type("symbol", TRUE, <<>>)
List(t) == Type("list", FALSE, <<t>>)
Names == Type("names", FALSE, <<>>)
Pairs(t) == Type("pairs", FALSE, <<t>>)

ToSuperclass(type) == CASE type.rtti = "names" -> <<Symbol>>
                        [] type.rtti = "pairs" -> <<List(type.args[1])>>
                        [] OTHER -> <<>>

RECURSIVE Flat(_)
FlatAll(types) ==
    LET flat[i \in 0..Len(types)] ==
            IF i = 0 THEN <<>> ELSE flat[i - 1] \o Flat(types[i])
    IN  flat[Len(types)]
Flat(type) == <<[rtti |-> type.rtti, optional |-> type.optional]>>
              \o FlatAll(ToSuperclass(type)) \o FlatAll(type.args)

Block(types) == [types |-> types, memory |-> FlatAll(types)]
MCBlocks == {Block(<<Pairs(Symbol), List(Pairs(Symbol))>>),
             Block(<<Names, Pairs(Symbol), Pairs(OptionalSymbol)>>)}

MCConformances == {<<"a">>, <<"a", "b">>}
MCSlotOf == [c \in MCConformances |-> 1]

MCEdits == {[op |-> "append", item |-> "x"],
            [op |-> "set", index |-> 1, item |-> "y"],
            [op |-> "remove last"]}

(* Three keys, two of which share a bucket of a small table; in a larger   *)
(* one all keys do, or none.                                               *)
MCHashes == {[k |-> 0, l |-> 6, m |-> 3], [k |-> 0, l |-> 2, m |-> 1]}

(* Copies c of the dictionary d are made at any time; the element of key k *)
(* in them is replaced by y, that of others, and of keys in d, is x.  Once *)
(* c and d share no table any longer, keys are only removed from d.        *)
DictionariesBounded ==
    /\ \/ value'["c"] \in {<<>>, value["d"]}
       \/ /\ DOMAIN value'["c"] = DOMAIN value["c"]
          /\ \A k \in DOMAIN value["c"] \ {"k"} : value'["c"][k] = "x"
    /\ \A k \in DOMAIN value'["d"] : value'["d"][k] = "x"
    /\ HasDictionary("c") /\ data["c"] # data["d"] =>
           /\ DOMAIN value'["d"] \subseteq DOMAIN value["d"]
           /\ HasDictionary("c")' => data'["d"] = data["d"]

(* What a behaviour exercises: the references to threads shared between    *)
(* them, the mutex, what is interned, the lists or the dictionaries.       *)
VARIABLE focus

MCInit ==
    /\ Init /\ InternInit /\ CowInit /\ TablesInit
    /\ focus \in {"sharing", "mutex", "interning", "lists", "dictionaries"}
    /\ hashOf \in MCHashes
    /\ focus # "dictionaries" => hashOf = [k |-> 0, l |-> 2, m |-> 1]

Bounded(p) ==
    /\ focus # "sharing" => stored' = {} /\ \A t \in Threads : captures'[t] = {}
    /\ focus # "mutex" => owner' = Nobody /\ pc'[p] # "lock"
    /\ focus = "interning" => /\ pc'[p] # "join" /\ stopped' # "terminated"
                              /\ \A q \in Threads :
                                     /\ variables[q] \subseteq variables'[q]
                                     /\ callables[q] \subseteq callables'[q]

(* Lists stay short, and the first free storage is used next.              *)
ListsBounded ==
    \A s \in Storages :
        /\ Len(contents'[s]) <= 2
        /\ (count[s] = 0 /\ count'[s] > 0) => \A z \in 1..(s - 1) : count[z] > 0

MCNext ==
    /\ UNCHANGED focus
    /\ \/ /\ focus \notin {"lists", "dictionaries"} /\ UNCHANGED <<cowVars, tableVars>>
          /\ \E p \in Threads :
                \/ /\ p \in Callers => asked[p] = None
                   /\ ProgramStep(p)
                   /\ Bounded(p) /\ UNCHANGED internVars
                \/ /\ RuntimeStep(p) /\ ~Exit(p)
                   /\ UNCHANGED internVars
                \/ p \in Callers /\ Exit(p) /\ ThreadEnds(p)
                \/ /\ focus = "interning" /\ p \in Callers /\ Running(p)
                   /\ Ask(p) \/ Lookup(p)
                   /\ UNCHANGED vars
       \/ /\ focus = "lists" /\ CowNext /\ ListsBounded
          /\ UNCHANGED <<vars, internVars, tableVars>>
       \/ /\ focus = "dictionaries" /\ TablesNext /\ DictionariesBounded
          /\ UNCHANGED <<vars, internVars, cowVars>>

MCSpec == /\ MCInit /\ [][MCNext]_<<vars, internVars, cowVars, tableVars, focus>>
          /\ \A p \in Threads : WF_vars(RuntimeStep(p) /\ UNCHANGED focus)
=============================================================================
