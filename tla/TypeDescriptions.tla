------------------------- MODULE TypeDescriptions --------------------------
(***************************************************************************)
(* The runtime's type descriptions (runtime/main.cpp).  A description is a *)
(* tree laid out in memory in preorder: an entry is followed by the        *)
(* descriptions of its generic arguments, first those of the superclass    *)
(* (paramOffset of them), then its own (paramCount).  Nothing says where a *)
(* description ends; every operation walks the entries.                    *)
(*                                                                         *)
(* A `memory' is a sequence of entries, a pointer an index of it.  An      *)
(* entry's value witness follows from its type and is left out.  The walks *)
(* are recursive functions, so theorems can be stated about their users.   *)
(***************************************************************************)
EXTENDS Integers, Sequences

CONSTANTS ParamCount,   \* the generic arguments of each class or value type
          ParamOffset   \* and those its superclass takes

ASSUME ArgumentsCounted == /\ ParamCount \in [DOMAIN ParamCount -> Nat]
                           /\ ParamOffset \in [DOMAIN ParamCount -> Nat]

TypeDescription == [rtti : DOMAIN ParamCount, optional : BOOLEAN]

Arguments(entry) == ParamOffset[entry.rtti] + ParamCount[entry.rtti]

(* The loop adds the arguments of each entry it passes to the entries it   *)
(* has to pass, until it has passed them all.                              *)
EntriesToPass(memory, arg) ==
    LET count[i \in 0..Len(memory)] ==
            IF i = 0 THEN 1 ELSE count[i - 1] + Arguments(memory[arg + i - 1])
    IN  count

typeDescriptionLength(memory, arg) ==
    LET count == EntriesToPass(memory, arg)
    IN  CHOOSE n \in 1..Len(memory) : count[n] = n /\ \A i \in 1..(n - 1) : count[i] # i

(* A memory with the description of one type.                              *)
IsDescription(memory) ==
    LET count == EntriesToPass(memory, 1)
    IN  /\ memory \in Seq(TypeDescription)
        /\ count[Len(memory)] = Len(memory)
        /\ \A i \in 1..(Len(memory) - 1) : count[i] # i

ejcTypeDescriptionLength(memory, arg) == typeDescriptionLength(memory, arg)

ejcIndexTypeDescription(memory, arg, index) ==
    LET walk[i \in 0..index] ==
            IF i = 0 THEN arg
            ELSE LET before == walk[i - 1]
                 IN  before + typeDescriptionLength(memory, before)
    IN  walk[index]

(* The entries of the arguments of the entry at arg.                       *)
OwnArgument(memory, arg) ==
    ejcIndexTypeDescription(memory, arg + 1, ParamOffset[memory[arg].rtti])
SuperArguments(memory, arg) == SubSeq(memory, arg + 1, OwnArgument(memory, arg) - 1)
OwnArguments(memory, arg) ==
    SubSeq(memory, OwnArgument(memory, arg), arg + typeDescriptionLength(memory, arg) - 1)

(* checkGenericArgs moves both pointers past argsOffset arguments, which   *)
(* it does not compare, then compares argsCount, calling itself for the    *)
(* arguments of each.  The calls in progress, the innermost one last, have *)
(* count arguments to compare and offset to pass before.                   *)
SameClass(l, r) == l.rtti = r.rtti
SameEntry(l, r) == l.rtti = r.rtti /\ l.optional = r.optional

Call(argsCount, argsOffset) == [count |-> argsCount, offset |-> argsOffset]

CheckStep(left, right, check) ==
    LET n == Len(check.calls)
        call == check.calls[n]
        l == left[check.l]
        r == right[check.r]
    IN  IF call.offset > 0
        THEN [check EXCEPT !.l = @ + typeDescriptionLength(left, @),
                           !.r = @ + typeDescriptionLength(right, @),
                           !.calls = [@ EXCEPT ![n] = Call(call.count, call.offset - 1)]]
        ELSE IF call.count = 0
        THEN [check EXCEPT !.calls = SubSeq(@, 1, n - 1)]
        ELSE IF SameEntry(l, r)
        THEN [check EXCEPT !.l = @ + 1, !.r = @ + 1,
                           !.calls = Append([@ EXCEPT ![n] = Call(call.count - 1, 0)],
                                            Call(ParamCount[l.rtti], ParamOffset[l.rtti]))]
        ELSE [check EXCEPT !.calls = <<>>, !.same = FALSE]

(* Each step passes an entry of left or ends a call.                       *)
checkGenericArgs(left, right, argsCount, argsOffset) ==
    LET check[i \in 0..(2 * Len(left) + 1)] ==
            IF i = 0 THEN [l |-> 1, r |-> 1, calls |-> <<Call(argsCount, argsOffset)>>, same |-> TRUE]
            ELSE LET before == check[i - 1]
                 IN  IF before.calls = <<>> THEN before ELSE CheckStep(left, right, before)
    IN  check[2 * Len(left) + 1]

ejcCheckGenericArgs(left, right, argsCount, argsOffset) ==
    checkGenericArgs(left, right, argsCount, argsOffset).same
=============================================================================
