-------------------------------- MODULE Fees --------------------------------
(***************************************************************************)
(* The arithmetic of the service fee: services/fee/calculator and          *)
(* services/fee/distributor, and the way transfers and burn events use     *)
(* them.  Amounts are Go int64 values: sums and products wrap around, and  *)
(* division truncates towards zero.                                        *)
(***************************************************************************)
EXTENDS Integers

CONSTANTS
  MaxInt,          \* largest int64
  MaxPercentage    \* calculator.MaxPercentage, 100000

ASSUME ArithmeticAssumption ==
  /\ MaxInt \in Nat \ {0}
  /\ MaxPercentage \in 1..MaxInt

Int64 == (-MaxInt - 1)..MaxInt

Wrap(n) == IF n \in Int64 THEN n
           ELSE ((n + MaxInt + 1) % (2 * MaxInt + 2)) - MaxInt - 1

(* Go's division by a positive number.                                     *)
Quo(a, b) == IF a >= 0 THEN a \div b ELSE -((-a) \div b)

(* Fault: the fee is rounded up.                                           *)
CalculateFeeUp(amount, percentage) ==
  LET fee == Quo(Wrap(amount * percentage) + MaxPercentage - 1, MaxPercentage)
  IN [fee |-> fee, remainder |-> Wrap(amount - fee)]

(* Fee and remainder.                                                      *)
CalculateFee(amount, percentage) ==
  LET fee == Quo(Wrap(amount * percentage), MaxPercentage)
  IN [fee |-> fee, remainder |-> Wrap(amount - fee)]

(* Fault: the fee is not rounded to what the members can share.            *)
AnyAmount(amount, n) == amount

(* The largest part of the fee that n members can share equally.           *)
ValidAmount(amount, n) == Wrap(Quo(amount, n) * n)

Divisible(amount, n) == ValidAmount(amount, n) = amount

(* CalculateMemberDistribution: what each of n members gets.  The code     *)
(* returns an error for an amount that is not Divisible.                   *)
MemberShare(amount, n) == Quo(amount, n)

(* Fault: the indivisible part of the fee is given to nobody.              *)
SplitLosingDust(amount, percentage, n) ==
  LET c == CalculateFee(amount, percentage)
  IN [fee |-> ValidAmount(c.fee, n), remainder |-> c.remainder]

(* The fee that is paid out, and what is left for the receiver, the        *)
(* indivisible part of the fee included.                                   *)
Split(amount, percentage, n) ==
  LET c     == CalculateFee(amount, percentage)
      valid == ValidAmount(c.fee, n)
  IN [fee |-> valid, remainder |-> Wrap(c.remainder + Wrap(c.fee - valid))]
=============================================================================
