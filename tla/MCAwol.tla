-------------------------------- MODULE MCAwol --------------------------------
(* Instances of Awol for TLC. *)
EXTENDS Awol

CONSTANTS alice, w1, c1, c2, r1, r2

HireSymmetry == Permutations(Hires)
===============================================================================
