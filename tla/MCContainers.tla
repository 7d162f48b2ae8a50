---------------------------- MODULE MCContainers -----------------------------
(* Containers on a few interchangeable addresses. *)
EXTENDS Containers

CONSTANTS s0, a1, a2, a3, a4

mcSymmetry == Permutations({a1, a2, a3, a4})
=============================================================================
