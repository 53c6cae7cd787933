------------------------------ MODULE EvmChain ------------------------------
(***************************************************************************)
(* The Ethereum chain as one bridge sees it: its height, and the block and *)
(* the log index at which the transaction of each burn is mined.  The last *)
(* blocks may be replaced by a longer branch, in which the same            *)
(* transactions appear at other places or wait for a later block.          *)
(*                                                                         *)
(* Nothing in this module is code of the repository.  It is modelled from  *)
(* what the validator asks of its node: the subscription to the Burn logs  *)
(* of the Router contract, BlockNumber and TransactionReceipt.             *)
(***************************************************************************)
EXTENDS Integers, FiniteSets

CONSTANTS
  Burns,      \* transactions that call burn on the Router contract
  Places,     \* where one may be mined: [block, index], index in the block
  MaxReorg,   \* how many of the last blocks a reorganisation may replace
  MaxHeight   \* bound: length of the chain

Pending == [block |-> 0, index |-> 0]    \* not mined

ASSUME PlacesAssumption ==
  /\ Places \subseteq [block : Nat \ {0}, index : Nat]
  /\ MaxReorg \in Nat
  /\ MaxHeight \in Nat

VARIABLES
  head,       \* number of the last block
  mined       \* place of each burn in the chain of now

chainVars == <<head, mined>>

Indexes == {p.index : p \in Places}

TypeOKChain ==
  /\ head \in Nat
  /\ mined \in [Burns -> Places \cup {Pending}]

InitChain ==
  /\ head = 0
  /\ mined = [b \in Burns |-> Pending]

(* Block n was mined and is at least depth blocks deep.                    *)
Buried(n, depth) == n + depth <= head

(* The next block is mined with one of the burns, or with none.            *)
EmptyBlock ==
  /\ head < MaxHeight
  /\ head' = head + 1
  /\ UNCHANGED mined

Mine(b, p) ==
  /\ head < MaxHeight
  /\ mined[b] = Pending
  /\ p.block = head + 1
  /\ head' = head + 1
  /\ mined' = [mined EXCEPT ![b] = p]

(* The blocks above fork are replaced by a branch that is one block        *)
(* longer; whoever is mined up to fork stays where it is.                  *)
Reorganise(b, fork, p) ==
  /\ head < MaxHeight
  /\ fork \in (head - MaxReorg)..(head - 1)
  /\ mined[b].block > fork
  /\ p = Pending \/ p.block \in (fork + 1)..(head + 1)
  /\ head' = head + 1
  /\ mined' = [c \in Burns |-> IF c = b THEN p
                               ELSE IF mined[c].block > fork THEN Pending
                               ELSE mined[c]]
=============================================================================
