------------------------- MODULE MCValidatorProcess -------------------------
(* Instances of ValidatorProcess.  A second has four nanoseconds of two    *)
(* binary digits: 0, 1, 2, 3 are written 0, 1, 10, 11.                     *)
EXTENDS ValidatorProcess

CONSTANTS a, b

OneMember  == <<a>>
TwoMembers == <<a, b>>

(* config/application.yml leaves the timestamp of the recovery empty.      *)
Defaults   == [network_type |-> "testnet", block_confirmations |-> 5,
               fee_percentage |-> 10000]
NoSettings == <<>>
=============================================================================
