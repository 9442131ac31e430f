-------------------------- MODULE MCLanguageServer --------------------------
(***************************************************************************)
(* Two programs a and b that share the file c.  a may or may not include   *)
(* c, so that c moves between the roots a and b, and c has two texts that  *)
(* include nothing, or one that includes b, which closes a cycle.          *)
(***************************************************************************)
EXTENDS LanguageServer, TLC

CONSTANTS a, b, c, a0, a1, b1, c1, c2, c3

MCFiles == {a, b, c}
MCTextsOf == (a :> {a0, a1}) @@ (b :> {b1}) @@ (c :> {c1, c2})
MCCyclicTextsOf == [MCTextsOf EXCEPT ![c] = {c3}]
MCIncludesOf == (a0 :> {}) @@ (a1 :> {c}) @@ (b1 :> {c}) @@ (c1 :> {}) @@ (c2 :> {}) @@ (c3 :> {b})
Symmetry == Permutations({c1, c2})
MCCandidates == (a :> <<b, c>>) @@ (b :> <<a, c>>) @@ (c :> <<a, b>>)
=============================================================================
