------------------------- MODULE MCBridgeAccounting -------------------------
(***************************************************************************)
(* Instances of BridgeAccounting for TLC: a small integer width and a      *)
(* small MaxPercentage stand for int64 and 100000.                         *)
(***************************************************************************)
EXTENDS AuthMessage, TLC

(* Amounts whose product with MaxPercentage still is an int.               *)
SafeAmounts == {a \in {1, 7, 9, 12} : a * MaxPercentage <= MaxInt}

(* Amounts that are ints, the product of which is not.                     *)
LargeAmounts == {7, 60}

(* A token the Router contract knows, hbars, and a token it does not know. *)
Wrapping == "token" :> "wrapped token" @@ "hbar" :> "wrapped hbar"
            @@ "other token" :> "nil"
=============================================================================
