---------------------------- MODULE MCAccountSync ----------------------------
(* Model checking AccountSync: orders are interchangeable. *)
EXTENDS AccountSync, TLC

OrderSymmetry == Permutations(Orders)
=============================================================================
