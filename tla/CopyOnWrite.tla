---------------------------- MODULE CopyOnWrite ----------------------------
(***************************************************************************)
(* How lists share their storage (package s).  A list is a reference to a  *)
(* storage object; copying it retains the storage.  Every mutating method  *)
(* first prepares the list: unless its reference to the storage is  *)
(* the only one (ejcIsOnlyReference), it goes on with a clone.             *)
(*                                                                         *)
(* Variables are used by one thread at a time each; threads share storage  *)
(* by having copied lists, so the steps on different variables interleave. *)
(* A list passed to a mutating method is only borrowed and may be in the   *)
(* storage the method mutates; the caller therefore holds a reference of   *)
(* its own to it during the call (CallCodeGenerator, snapshotArguments).   *)
(* Storage is used again after it was freed.                               *)
(***************************************************************************)
EXTENDS Integers, FiniteSets, SequencesExt

CONSTANTS Lists,      \* variables of a list type
          Storages,   \* memory for storage objects
          Items,      \* of lists
          Edits,      \* operations on one list, with their arguments
          NoValue

ASSUME FiniteLists == IsFiniteSet(Lists)
ASSUME EditsUseItems ==
    \A edit \in Edits :
        edit.op \in {"append", "set", "insert"} => edit.item \in Items
ASSUME NoValueIsNone == NoValue \notin Storages /\ NoValue \notin Seq(Items)

VARIABLES
    storageOf,  \* the storage of each variable's list, NoValue out of scope
    count,      \* the reference count of each storage, 0 if it is free
    contents,   \* the items in each storage
    stage,      \* of the method that runs on a variable: "idle", "call",
                \* "clone", "change", "return"
    operation,  \* the operation, NoValue for the appending of a list
    snapshot,   \* the storage the caller retained for the argument
    listCount,  \* the number of items in it
    appended    \* how many of them have been appended

storageVars == <<storageOf, count, contents>>
methodVars == <<stage, operation, snapshot, listCount, appended>>
cowVars == <<storageVars, methodVars>>

HasList(v) == storageOf[v] # NoValue
Idle(v) == HasList(v) /\ stage[v] = "idle"
Free(s) == count[s] = 0

(* The last release of a storage releases the items in it.                 *)
AfterRelease(s) == IF count[s] = 1 THEN <<>> ELSE contents[s]

ejcIsOnlyReference(s) == count[s] = 1

(* The items of v's list without those that are being appended.            *)
ItemsOf(v) ==
    LET items == contents[storageOf[v]]
    IN  IF HasList(v) THEN SubSeq(items, 1, Len(items) - appended[v])
        ELSE NoValue

ArgumentOf(v) == IF snapshot[v] # NoValue /\ stage[v] # "return"
                 THEN contents[snapshot[v]] ELSE NoValue

Values == INSTANCE ListValues WITH value <- [v \in Lists |-> ItemsOf(v)],
                                   argument <- [v \in Lists |-> ArgumentOf(v)]

Edited(change, items) == Values!Edited(change, items)

(***************************************************************************)
(* Creating, copying and releasing lists                                   *)
(***************************************************************************)

CreateList(v, s) ==
    /\ ~HasList(v) /\ Free(s)
    /\ storageOf' = [storageOf EXCEPT ![v] = s]
    /\ count' = [count EXCEPT ![s] = 1]
    /\ contents' = [contents EXCEPT ![s] = <<>>]
    /\ UNCHANGED methodVars

(* The list that w had is released after the new one was retained.         *)
CopyList(v, w) ==
    /\ Idle(v) /\ w # v /\ stage[w] = "idle"
    /\ storageOf' = [storageOf EXCEPT ![w] = storageOf[v]]
    /\ count' = [s \in Storages |-> count[s]
                     + (IF s = storageOf[v] THEN 1 ELSE 0)
                     - (IF s = storageOf[w] THEN 1 ELSE 0)]
    /\ contents' = [s \in Storages |->
                        IF s = storageOf[w] /\ s # storageOf[v]
                        THEN AfterRelease(s) ELSE contents[s]]
    /\ UNCHANGED methodVars

DropList(v) ==
    /\ Idle(v)
    /\ storageOf' = [storageOf EXCEPT ![v] = NoValue]
    /\ count' = [count EXCEPT ![storageOf[v]] = @ - 1]
    /\ contents' = [contents EXCEPT ![storageOf[v]] =
                        AfterRelease(storageOf[v])]
    /\ UNCHANGED methodVars

(***************************************************************************)
(* Mutating methods                                                        *)
(***************************************************************************)

(* Removing the last item of an empty list returns before anything else.   *)
CallMethod(v, change) ==
    /\ Idle(v)
    /\ ~(change.op = "remove last" /\ contents[storageOf[v]] = <<>>)
    /\ stage' = [stage EXCEPT ![v] = "call"]
    /\ operation' = [operation EXCEPT ![v] = change]
    /\ UNCHANGED <<storageVars, snapshot, listCount, appended>>

(* The list of w, which may be v, is appended to the list of v.            *)
CallBorrowing(v, w) ==
    /\ Idle(v) /\ Idle(w)
    /\ stage' = [stage EXCEPT ![v] = "call"]
    /\ snapshot' = [snapshot EXCEPT ![v] = storageOf[w]]
    /\ UNCHANGED <<storageVars, operation, listCount, appended>>

CallExtend(v, w) ==
    /\ Idle(v) /\ Idle(w)
    /\ stage' = [stage EXCEPT ![v] = "call"]
    /\ snapshot' = [snapshot EXCEPT ![v] = storageOf[w]]
    /\ count' = [count EXCEPT ![storageOf[w]] = @ + 1]
    /\ UNCHANGED <<storageOf, contents, operation, listCount, appended>>

(* The items of an argument are counted before.                            *)
PrepareForMutation(v) ==
    /\ stage[v] = "call"
    /\ stage' = [stage EXCEPT ![v] = IF ejcIsOnlyReference(storageOf[v])
                                     THEN "change" ELSE "clone"]
    /\ listCount' = [listCount EXCEPT ![v] = IF snapshot[v] = NoValue THEN 0
                                             ELSE Len(contents[snapshot[v]])]
    /\ UNCHANGED <<storageVars, operation, snapshot, appended>>

(* The clone replaces the storage, which is released: the other references *)
(* may be gone by now.                                                     *)
CloneStorage(v, s) ==
    /\ stage[v] = "clone" /\ Free(s)
    /\ contents' = [contents EXCEPT
                        ![s] = contents[storageOf[v]],
                        ![storageOf[v]] = AfterRelease(storageOf[v])]
    /\ count' = [count EXCEPT ![s] = 1, ![storageOf[v]] = @ - 1]
    /\ storageOf' = [storageOf EXCEPT ![v] = s]
    /\ stage' = [stage EXCEPT ![v] = "change"]
    /\ UNCHANGED <<operation, snapshot, listCount, appended>>

ChangeItems(v) ==
    /\ stage[v] = "change" /\ snapshot[v] = NoValue
    /\ contents' = [contents EXCEPT ![storageOf[v]] = Edited(operation[v], @)]
    /\ stage' = [stage EXCEPT ![v] = "idle"]
    /\ operation' = [operation EXCEPT ![v] = NoValue]
    /\ UNCHANGED <<storageOf, count, snapshot, listCount, appended>>

(* The items are appended one by one.                                      *)
ItemAt(s, i) == IF i \in DOMAIN contents[s] THEN contents[s][i] ELSE NoValue
AppendItem(v) ==
    /\ stage[v] = "change" /\ snapshot[v] # NoValue
    /\ appended[v] < listCount[v]
    /\ contents' = [contents EXCEPT ![storageOf[v]] =
                        Append(@, ItemAt(snapshot[v], appended[v] + 1))]
    /\ appended' = [appended EXCEPT ![v] = @ + 1]
    /\ UNCHANGED <<storageOf, count, stage, operation, snapshot, listCount>>

EndExtend(v) ==
    /\ stage[v] = "change" /\ snapshot[v] # NoValue
    /\ appended[v] = listCount[v]
    /\ stage' = [stage EXCEPT ![v] = "return"]
    /\ listCount' = [listCount EXCEPT ![v] = 0]
    /\ appended' = [appended EXCEPT ![v] = 0]
    /\ UNCHANGED <<storageVars, operation, snapshot>>

(* releaseSnapshots                                                        *)
ReturnSnapshot(v) ==
    /\ stage[v] = "return"
    /\ stage' = [stage EXCEPT ![v] = "idle"]
    /\ count' = [count EXCEPT ![snapshot[v]] = @ - 1]
    /\ contents' = [contents EXCEPT ![snapshot[v]] = AfterRelease(snapshot[v])]
    /\ snapshot' = [snapshot EXCEPT ![v] = NoValue]
    /\ UNCHANGED <<storageOf, operation, listCount, appended>>

CowInit ==
    /\ storageOf = [v \in Lists |-> NoValue]
    /\ count = [s \in Storages |-> 0]
    /\ contents = [s \in Storages |-> <<>>]
    /\ stage = [v \in Lists |-> "idle"]
    /\ operation = [v \in Lists |-> NoValue]
    /\ snapshot = [v \in Lists |-> NoValue]
    /\ listCount = [v \in Lists |-> 0]
    /\ appended = [v \in Lists |-> 0]

CowNext == \E v \in Lists :
    \/ \E s \in Storages : CreateList(v, s) \/ CloneStorage(v, s)
    \/ \E w \in Lists : CopyList(v, w) \/ CallExtend(v, w)
    \/ \E change \in Edits : CallMethod(v, change)
    \/ DropList(v) \/ PrepareForMutation(v) \/ ChangeItems(v) \/ AppendItem(v)
    \/ EndExtend(v) \/ ReturnSnapshot(v)

CowSpec == CowInit /\ [][CowNext]_cowVars

(***************************************************************************)
(* What must hold                                                          *)
(***************************************************************************)

(* Lists are values, whatever storage they share and however the methods   *)
(* on different variables interleave.                                      *)
ListsAreValues == Values!Spec
=============================================================================
