------------------------ MODULE MCReferenceCounting ------------------------
(***************************************************************************)
(* Two threads, two objects, one object on the stack or block of memory,   *)
(* three strong references and one or two weak references.                 *)
(***************************************************************************)
EXTENDS ReferenceCounting, TLC

Symmetry == Permutations(Threads) \cup Permutations(HeapObjects)
                \cup Permutations(Refs) \cup Permutations(WeakRefs)

============================================================================
