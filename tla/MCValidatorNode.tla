-------------------------- MODULE MCValidatorNode --------------------------
(***************************************************************************)
(* Instances of ValidatorNode for TLC.  v is this validator, p and q are   *)
(* its peers, x is a key that no member owns.                              *)
(***************************************************************************)
EXTENDS ValidatorNode, TLC

CONSTANTS v, p, q, x

(* The peers are interchangeable where all of them are configured alike.   *)
PeerSymmetry == Permutations({p, q})
TransferSymmetry == Permutations(Transfers)
=============================================================================
