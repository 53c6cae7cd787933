---------------------------- MODULE MCBurnEvents ----------------------------
(***************************************************************************)
(* Instances of BurnEvents for TLC: two validators that both have to sign. *)
(***************************************************************************)
EXTENDS BurnEvents, TLC

CONSTANTS v, w, b

(* A reorganisation moves a burn to a block of another number.             *)
PlacesApart == {[block |-> 1, index |-> 0], [block |-> 2, index |-> 1]}

(* It may also reorder a block, or refill one of the same number.          *)
PlacesInABlock == {[block |-> 1, index |-> 0], [block |-> 1, index |-> 1]}

ASSUME PlacesAreApart == Places = PlacesApart => OneIndexPerBlock

ValidatorSymmetry == Permutations(Validators)
=============================================================================
