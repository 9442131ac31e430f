------------------------ MODULE VariableAssignment ------------------------
(***************************************************************************)
(* The assignment to an instance variable, as the code generator emits it  *)
(* (Compiler/AST/ASTVariables_CG.cpp) and the runtime executes it: the new *)
(* value is computed, the old value is released, the new value is stored.  *)
(* The release may run the old value's deinitializer before the variable   *)
(* changes, and the deinitializer may run code that uses the variable.     *)
(*                                                                         *)
(* One thread and one variable, which holds one of the objects Values.     *)
(***************************************************************************)
EXTENDS Naturals, Sequences

CONSTANTS
    Values,      \* objects that are assigned to the variable, each allocated once
    MaxDepth,    \* bound: nested calls
    None

VARIABLES
    variable,  \* Values or None: the pointer stored in the instance variable
    strong,    \* [Values -> Nat]: strong counts
    unused,    \* SUBSET Values: not allocated yet
    runs,      \* [Values -> Nat]: how often the deinitializer was called
    calls      \* Seq of frames, innermost first

vars == <<variable, strong, unused, runs, calls>>

\* A frame: an assignment of a value that has still to release the old value or to
\* store, a read that holds a temporary reference, or a deinitializer.
Frame(kind, v) == [kind |-> kind, value |-> v]

In(kind) == calls # <<>> /\ Head(calls).kind = kind

\* The code of the program runs: in the start flag block or in a deinitializer.
Running == (calls = <<>> \/ In("deinit")) /\ Len(calls) < MaxDepth

Init ==
    /\ variable = None
    /\ strong = [v \in Values |-> 0]
    /\ unused = Values
    /\ runs = [v \in Values |-> 0]
    /\ calls = <<>>

\* The last reference runs the deinitializer; `rest` are the frames below the call.
Release(v, rest) ==
    /\ strong' = [strong EXCEPT ![v] = @ - 1]
    /\ IF strong[v] = 1
       THEN /\ runs' = [runs EXCEPT ![v] = @ + 1]
            /\ calls' = <<Frame("deinit", v)>> \o rest
       ELSE calls' = rest /\ UNCHANGED runs

\* val = expr_->generate(fg): a new object.
Evaluate(v) ==
    /\ Running /\ v \in unused
    /\ unused' = unused \ {v}
    /\ strong' = [strong EXCEPT ![v] = 1]
    /\ calls' = <<Frame(IF variable = None THEN "store" ELSE "release", v)>> \o calls
    /\ UNCHANGED <<variable, runs>>

\* release(fg), of the value the variable holds.
ReleaseOld ==
    /\ In("release")
    /\ Release(variable, <<Frame("store", Head(calls).value)>> \o Tail(calls))
    /\ UNCHANGED <<variable, unused>>

\* CreateStore(val, variablePtr)
StoreNew ==
    /\ In("store")
    /\ variable' = Head(calls).value
    /\ calls' = Tail(calls)
    /\ UNCHANGED <<strong, unused, runs>>

\* ASTGetVariable: the value is loaded and retained for the time of the statement.
Read ==
    /\ Running /\ variable # None
    /\ strong' = [strong EXCEPT ![variable] = @ + 1]
    /\ calls' = <<Frame("read", variable)>> \o calls
    /\ UNCHANGED <<variable, unused, runs>>

EndStatement ==
    /\ In("read")
    /\ Release(Head(calls).value, Tail(calls))
    /\ UNCHANGED <<variable, unused>>

DeinitReturns ==
    /\ In("deinit")
    /\ calls' = Tail(calls)
    /\ UNCHANGED <<variable, strong, unused, runs>>

Next ==
    \/ \E v \in Values : Evaluate(v)
    \/ ReleaseOld \/ StoreNew \/ Read \/ EndStatement \/ DeinitReturns

Spec == Init /\ [][Next]_vars

----------------------------------------------------------------------------
\* The deinitializer of an object is called once.
DeinitializedOnce == \A v \in Values : runs[v] <= 1

============================================================================
