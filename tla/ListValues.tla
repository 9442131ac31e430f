---------------------------- MODULE ListValues -----------------------------
(***************************************************************************)
(* What the program may rely on: lists are values.  A variable's list      *)
(* changes only by the operations on this variable, and a list passed as   *)
(* an argument is the one there was at the call.                           *)
(***************************************************************************)
EXTENDS SequencesExt

CONSTANTS Lists,     \* variables of a list type
          Edits,     \* operations on one list, with their arguments
          NoValue

(* What an operation does to the items of a list.  An index that is out of *)
(* range changes nothing (or panics, which ends the program).              *)
Edited(edit, items) ==
    CASE edit.op = "append" -> Append(items, edit.item)
      [] edit.op = "set" /\ edit.index \in DOMAIN items ->
             [items EXCEPT ![edit.index] = edit.item]
      [] edit.op = "insert" /\ edit.index \in DOMAIN items ->
             InsertAt(items, edit.index, edit.item)
      [] edit.op = "remove" /\ edit.index \in DOMAIN items ->
             RemoveAt(items, edit.index)
      [] edit.op = "remove last" /\ items # <<>> -> Front(items)
      [] edit.op = "remove all" -> <<>>
      [] edit.op = "reverse" -> Reverse(items)
      [] OTHER -> items

VARIABLES value,     \* of each variable, or NoValue out of its scope
          argument   \* the list being appended to that of each, or NoValue

Init == /\ value = [v \in Lists |-> NoValue]
        /\ argument = [v \in Lists |-> NoValue]

HasList(v) == value[v] # NoValue

Create(v) ==
    /\ ~HasList(v)
    /\ value' = [value EXCEPT ![v] = <<>>]
    /\ UNCHANGED argument

Copy(v, w) ==
    /\ HasList(v)
    /\ value' = [value EXCEPT ![w] = value[v]]
    /\ UNCHANGED argument

Drop(v) ==
    /\ HasList(v)
    /\ value' = [value EXCEPT ![v] = NoValue]
    /\ UNCHANGED argument

Change(v, edit) ==
    /\ HasList(v)
    /\ value' = [value EXCEPT ![v] = Edited(edit, @)]
    /\ UNCHANGED argument

BeginExtend(v, w) ==
    /\ HasList(v) /\ HasList(w) /\ argument[v] = NoValue
    /\ argument' = [argument EXCEPT ![v] = value[w]]
    /\ UNCHANGED value

EndExtend(v) ==
    /\ HasList(v) /\ argument[v] # NoValue
    /\ value' = [value EXCEPT ![v] = @ \o argument[v]]
    /\ argument' = [argument EXCEPT ![v] = NoValue]

Next == \E v \in Lists : \/ Create(v) \/ Drop(v) \/ EndExtend(v)
                         \/ \E w \in Lists : Copy(v, w) \/ BeginExtend(v, w)
                         \/ \E edit \in Edits : Change(v, edit)

Spec == Init /\ [][Next]_<<value, argument>>
=============================================================================
