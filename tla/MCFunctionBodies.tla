-------------------------- MODULE MCFunctionBodies --------------------------
(***************************************************************************)
(* The body of an initializer, from its analysis to its execution, and the *)
(* pass over the blocks of the code generated for any body; a behaviour    *)
(* exercises one of them.                                                  *)
(***************************************************************************)
EXTENDS InitializerCompilation, RedundantReferenceCounting

(* Blocks that begin with a retain, as nothing before one is changed, of   *)
(* two values that are the same object or different ones.                  *)
CONSTANTS v1, v2, o1, o2

MCBlock ==
    /\ block \in {<<[op |-> "retain", value |-> v1]>> \o rest : rest \in [1..(MaxBlock - 1) -> Instructions]}
    /\ objectOf \in {objects \in [Registers -> Objects] : objects[v1] = o1}
    /\ owned \in [Objects -> 0..1] /\ elsewhere \in [Objects -> 0..1]
    /\ objectOf[v2] = o1 => owned[o2] = 0 /\ elsewhere[o2] = 0
EmptyBlock ==
    /\ block = <<>> /\ objectOf = [value \in Registers |-> o1]
    /\ owned = [o \in Objects |-> 0] /\ elsewhere = owned

VARIABLE focus

MCInit ==
    /\ focus \in {"initializer", "pass"}
    /\ IF focus = "pass" THEN MCBlock ELSE EmptyBlock
    /\ RedundantInit /\ Init
MCNext ==
    /\ UNCHANGED focus
    /\ \/ focus = "initializer" /\ Next /\ UNCHANGED redundantVars
       \/ focus = "pass" /\ RedundantNext /\ UNCHANGED vars
MCSpec == MCInit /\ [][MCNext]_<<vars, redundantVars, focus>>
=============================================================================
