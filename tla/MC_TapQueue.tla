----------------------------- MODULE MC_TapQueue -----------------------------
(* Three frames and two read IRPs; frames and IRPs are model values the   *)
(* driver never tells apart except by their queue positions, so any       *)
(* permutation of either set maps behaviours to behaviours.               *)
EXTENDS TapQueue

CONSTANTS p1, p2, p3, r1, r2

\* Frames and IRPs are interchangeable.
Symmetric == Permutations({p1, p2, p3}) \cup Permutations({r1, r2})
==============================================================================
