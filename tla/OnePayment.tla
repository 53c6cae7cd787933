----------------------------- MODULE OnePayment -----------------------------
(***************************************************************************)
(* What the validators together promise to somebody who burns a wrapped    *)
(* asset: the native asset is paid out at most once, and only for a burn   *)
(* that the chain will not take back.                                      *)
(***************************************************************************)
EXTENDS Naturals

CONSTANT Burns

VARIABLES
  final,      \* burns the chain will not take back
  payments    \* how often each was paid

TypeOK == final \subseteq Burns /\ payments \in [Burns -> 0..1]

Init ==
  /\ final = {}
  /\ payments = [b \in Burns |-> 0]

Finalise ==
  /\ final' \in SUBSET Burns
  /\ final \subseteq final'
  /\ UNCHANGED payments

Pay(b) ==
  /\ b \in final
  /\ payments[b] = 0
  /\ payments' = [payments EXCEPT ![b] = 1]
  /\ UNCHANGED final

Next == Finalise \/ \E b \in Burns : Pay(b)

Spec == Init /\ [][Next]_<<final, payments>>
=============================================================================
