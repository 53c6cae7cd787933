-------------------------- MODULE BridgeAccounting --------------------------
(***************************************************************************)
(* The money behind the bridge.  Deposits enter the bridge account and     *)
(* become wrapped tokens less the fee; burnt tokens leave it, the fee to   *)
(* the members and the rest to the receiver.  Mint and the execution of    *)
(* scheduled transactions happen elsewhere and at any later time; the      *)
(* amounts in them are the validator's.                                    *)
(***************************************************************************)
EXTENDS Fees, FiniteSets, FiniteSetsExt

CONSTANTS
  Operations,      \* deposits and burns, by id
  Amounts,         \* amounts a user may move
  FeePercentage,   \* hedera.fee_percentage
  MemberCount      \* entries of hedera.members

ASSUME AccountingAssumption ==
  /\ IsFiniteSet(Operations)
  /\ Amounts \subseteq Nat \ {0}
  /\ FeePercentage \in 0..MaxPercentage
  /\ MemberCount \in Nat \ {0}

VARIABLES
  op,        \* each operation: its kind, amount and what was done of it
  bridge,    \* balance of the bridge account
  supply,    \* wrapped tokens in circulation
  earned     \* what one member has received

accountingVars == <<op, bridge, supply, earned>>

Records == [kind : {"none", "deposit", "burn"}, amount : Nat, fee : Nat,
            remainder : Nat, paid : BOOLEAN, minted : BOOLEAN]

(* Type invariant.  That the bridge account is never overdrawn follows     *)
(* from Backed.                                                            *)
AccountingTypeOK ==
  /\ op \in [Operations -> Records]
  /\ bridge \in Int
  /\ supply \in Nat
  /\ earned \in Nat

NoOperation == [kind |-> "none", amount |-> 0, fee |-> 0, remainder |-> 0,
                paid |-> FALSE, minted |-> FALSE]

Booked(kind, amount) ==
  LET s == Split(amount, FeePercentage, MemberCount)
  IN [kind |-> kind, amount |-> amount, fee |-> s.fee,
      remainder |-> s.remainder, paid |-> FALSE, minted |-> FALSE]

AccountingInit ==
  /\ op = [o \in Operations |-> NoOperation]
  /\ bridge = 0
  /\ supply = 0
  /\ earned = 0

(* A deposit, whose fee and remainder ProcessTransfer computes.            *)
BookDeposit(o, amount) ==
  /\ op[o].kind = "none"
  /\ op' = [op EXCEPT ![o] = Booked("deposit", amount)]
  /\ bridge' = bridge + amount
  /\ UNCHANGED <<supply, earned>>

(* The fee of a deposit: processFeeTransfer schedules nothing when the     *)
(* distribution fails; otherwise the members' shares leave the bridge      *)
(* account, whose entry in the list is minus the fee.                      *)
PayFee(o) ==
  /\ op[o].kind = "deposit"
  /\ ~op[o].paid
  /\ Divisible(op[o].fee, MemberCount)
  /\ MemberShare(op[o].fee, MemberCount) * MemberCount - op[o].fee = 0
  /\ op' = [op EXCEPT ![o].paid = TRUE]
  /\ bridge' = bridge - op[o].fee
  /\ earned' = earned + MemberShare(op[o].fee, MemberCount)
  /\ UNCHANGED supply

(* The receiver claims the remainder the members signed (Router.mint).     *)
Mint(o) ==
  /\ op[o].kind = "deposit"
  /\ ~op[o].minted
  /\ op' = [op EXCEPT ![o].minted = TRUE]
  /\ supply' = supply + op[o].remainder
  /\ UNCHANGED <<bridge, earned>>

(* Fault: an event is booked that burnt nothing, or is booked twice.       *)
BookUnburnt(o, amount) ==
  /\ op[o].kind = "none"
  /\ op' = [op EXCEPT ![o] = Booked("burn", amount)]
  /\ supply' = supply - amount
  /\ UNCHANGED <<bridge, earned>>

(* A user burns wrapped tokens; prepareTransfers splits the amount.        *)
BookBurn(o, amount) ==
  /\ op[o].kind = "none"
  /\ amount <= supply
  /\ op' = [op EXCEPT ![o] = Booked("burn", amount)]
  /\ supply' = supply - amount
  /\ UNCHANGED <<bridge, earned>>

(* The scheduled transfer of prepareTransfers: shares, remainder and minus *)
(* the amount; the network accepts only a list that sums to zero.          *)
PayOut(o) ==
  LET share == MemberShare(op[o].fee, MemberCount)
  IN /\ op[o].kind = "burn"
     /\ ~op[o].paid
     /\ Divisible(op[o].fee, MemberCount)
     /\ share * MemberCount + op[o].remainder - op[o].amount = 0
     /\ op' = [op EXCEPT ![o].paid = TRUE]
     /\ bridge' = bridge - op[o].amount
     /\ earned' = earned + share
     /\ UNCHANGED supply

AccountingNext ==
  \E o \in Operations :
    \/ \E a \in Amounts : BookDeposit(o, a) \/ BookBurn(o, a)
    \/ PayFee(o)
    \/ Mint(o)
    \/ PayOut(o)

AccountingSpec ==
  AccountingInit /\ [][AccountingNext]_accountingVars
  /\ \A o \in Operations : /\ WF_accountingVars(PayFee(o))
                           /\ WF_accountingVars(PayOut(o))

-----------------------------------------------------------------------------
(* What the bridge account still owes for an operation.                    *)
Owed(r) ==
  CASE r.kind = "deposit" -> (IF r.paid THEN 0 ELSE r.fee)
                             + (IF r.minted THEN 0 ELSE r.remainder)
    [] r.kind = "burn"    -> IF r.paid THEN 0 ELSE r.amount
    [] r.kind = "none"    -> 0

TotalOwed(book) == MapThenSumSet(LAMBDA o : Owed(book[o]), Operations)

BookedOperations == {o \in Operations : op[o].kind # "none"}

(* The bridge account holds exactly what backs the wrapped tokens and what *)
(* is still owed: rounding loses nothing and creates nothing.              *)
Backed == bridge = supply + TotalOwed(op)

(* The fee is the percentage of the amount, rounded down to what the       *)
(* members can share: at most the exact fee, and short of it by less than  *)
(* one unit per member (docs/integration.md, Service Fee).                 *)
FeeIsPercentage ==
  \A o \in BookedOperations :
    LET exact == op[o].amount * FeePercentage
    IN /\ op[o].fee * MaxPercentage <= exact
       /\ exact < (op[o].fee + MemberCount) * MaxPercentage

(* Every booked operation is paid in the end: the fee the code computes is *)
(* always divisible and the list of transfers always sums to zero.         *)
AlwaysPaid == \A o \in Operations : op[o].kind # "none" ~> op[o].paid
=============================================================================
