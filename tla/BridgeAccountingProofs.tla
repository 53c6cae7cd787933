----------------------- MODULE BridgeAccountingProofs -----------------------
(***************************************************************************)
(* Theorems about the fee and the bridge account's balance, for every      *)
(* width of the integers, percentage, number of members and set of         *)
(* operations, as long as no amount times the largest percentage leaves    *)
(* the integers.                                                           *)
(***************************************************************************)
EXTENDS BridgeAccounting, FiniteSetTheorems, TLAPS

(* The condition finding_overflow shows to be needed.                      *)
NoOverflow == \A a \in Amounts : a * MaxPercentage <= MaxInt

-----------------------------------------------------------------------------
(* Truncated division of a natural number.                                 *)
LEMMA QuoBounds ==
  ASSUME NEW n \in Nat, NEW d \in Nat \ {0}
  PROVE  /\ Quo(n, d) \in Nat
         /\ Quo(n, d) * d <= n
         /\ n < (Quo(n, d) + 1) * d
<1> DEFINE q == n \div d
<1>1. Quo(n, d) = q
  BY DEF Quo
<1>2. q \in Nat /\ q * d <= n /\ n < (q + 1) * d
  BY SMTT(60)
<1> HIDE DEF q
<1> QED
  BY <1>1, <1>2

(* An integer in range is not wrapped.                                     *)
LEMMA WrapIdentity ==
  ASSUME NEW n \in Nat, n <= MaxInt
  PROVE  Wrap(n) = n
  BY ArithmeticAssumption DEF ArithmeticAssumption, Wrap, Int64

LEMMA ProductGrows ==
  ASSUME NEW a \in Nat, NEW m \in Nat, NEW n \in Nat, m <= n
  PROVE  a * m \in Nat /\ a * m <= a * n
  OBVIOUS

LEMMA FactorsCancel ==
  ASSUME NEW m \in Nat, NEW n \in Nat, NEW d \in Nat \ {0}, m * d < (n + 1) * d
  PROVE  m <= n
<1>1. ASSUME m >= n + 1
      PROVE  (n + 1) * d <= m * d
  BY <1>1
<1> QED
  BY <1>1

(* The largest part of a fee that n members can share is shared by them    *)
(* without a rest, and misses the fee by less than one unit per member.    *)
LEMMA ValidAmountShared ==
  ASSUME NEW fee \in Nat, fee <= MaxInt, NEW n \in Nat \ {0}
  PROVE  /\ ValidAmount(fee, n) \in Nat
         /\ ValidAmount(fee, n) <= fee
         /\ fee < ValidAmount(fee, n) + n
         /\ Divisible(ValidAmount(fee, n), n)
         /\ MemberShare(ValidAmount(fee, n), n) * n = ValidAmount(fee, n)
<1> DEFINE q == Quo(fee, n)
           v == ValidAmount(fee, n)
           w == Quo(v, n)
<1>1. q \in Nat /\ q * n <= fee /\ fee < (q + 1) * n
  BY QuoBounds
<1>2. q * n \in Nat
  BY <1>1
<1>3. v = q * n
  <2> HIDE DEF q
  <2>1. q * n <= MaxInt
    BY <1>1, <1>2, ArithmeticAssumption DEF ArithmeticAssumption
  <2> QED
    BY <1>2, <2>1, WrapIdentity DEF ValidAmount, q
<1>4. w \in Nat /\ w * n <= v /\ v < (w + 1) * n
  BY <1>2, <1>3, QuoBounds
<1> HIDE DEF q, v, w
<1>5. w = q
  <2>1. q <= w
    BY <1>1, <1>3, <1>4, FactorsCancel
  <2>2. w * n < (q + 1) * n
    BY <1>1, <1>3, <1>4
  <2>3. w <= q
    BY <1>1, <1>4, <2>2, FactorsCancel
  <2> QED
    BY <1>1, <1>4, <2>1, <2>3
<1>6. v \in Nat /\ v <= fee /\ fee < v + n
  BY <1>1, <1>2, <1>3
<1>7. Divisible(v, n) /\ MemberShare(v, n) * n = v
  <2>1. w * n = v
    BY <1>3, <1>5
  <2>2. v <= MaxInt
    BY <1>6, ArithmeticAssumption DEF ArithmeticAssumption
  <2> QED
    BY <1>6, <2>1, <2>2, WrapIdentity
    DEF Divisible, ValidAmount, MemberShare, w
<1> QED
  BY <1>6, <1>7 DEF v

(* What ProcessTransfer and prepareTransfers split: nothing is lost, the   *)
(* fee can be distributed, and it is the percentage rounded down.          *)
SplitRight(a, p, n) ==
  LET s == Split(a, p, n)
  IN /\ s.fee \in Nat
     /\ s.remainder \in Nat
     /\ s.fee + s.remainder = a
     /\ Divisible(s.fee, n)
     /\ MemberShare(s.fee, n) * n = s.fee
     /\ s.fee * MaxPercentage <= a * p
     /\ a * p < (s.fee + n) * MaxPercentage

THEOREM SplitIsRight ==
  ASSUME NEW a \in Nat, NEW p \in 0..MaxPercentage, NEW n \in Nat \ {0},
         a * MaxPercentage <= MaxInt
  PROVE  SplitRight(a, p, n)
<1> DEFINE D == MaxPercentage
           P == a * p
           f == Quo(P, D)
           v == ValidAmount(f, n)
<1>1. D \in Nat \ {0} /\ MaxInt \in Nat /\ p \in Nat /\ p <= D
  BY ArithmeticAssumption DEF ArithmeticAssumption
<1>2. P \in Nat /\ P <= a * D /\ P <= MaxInt
  BY <1>1, ProductGrows
<1>3. a <= MaxInt
  BY <1>1
<1>4. f \in Nat /\ f * D <= P /\ P < (f + 1) * D
  BY <1>1, <1>2, QuoBounds
<1> HIDE DEF P, f
<1>5. f <= a
  <2>1. f * D <= a * D
    BY <1>1, <1>2, <1>4
  <2>2. a * D < (a + 1) * D
    BY <1>1
  <2>3. f * D \in Nat /\ a * D \in Nat /\ (a + 1) * D \in Nat
    BY <1>1, <1>4
  <2> QED
    BY <1>1, <1>4, <2>1, <2>2, <2>3, FactorsCancel
<1>6. CalculateFee(a, p) = [fee |-> f, remainder |-> a - f]
  <2>1. Wrap(P) = P
    BY <1>2, WrapIdentity
  <2>2. Wrap(a - f) = a - f
    BY <1>3, <1>4, <1>5, <1>1, WrapIdentity
  <2> QED
    BY <2>1, <2>2 DEF CalculateFee, P, f
<1>7. /\ v \in Nat /\ v <= f /\ f < v + n
      /\ Divisible(v, n) /\ MemberShare(v, n) * n = v
  BY <1>1, <1>3, <1>4, <1>5, ValidAmountShared
<1> HIDE DEF v
<1>8. Split(a, p, n) = [fee |-> v, remainder |-> a - v]
  <2>1. Wrap(f - v) = f - v
    BY <1>1, <1>3, <1>4, <1>5, <1>7, WrapIdentity
  <2>2. Wrap((a - f) + (f - v)) = a - v
    BY <1>1, <1>3, <1>4, <1>5, <1>7, WrapIdentity
  <2> QED
    BY <1>6, <2>1, <2>2 DEF Split, v
<1>9. v * D <= P /\ P < (v + n) * D
  <2>1. v * D <= f * D
    BY <1>1, <1>4, <1>7
  <2>2. (f + 1) * D <= (v + n) * D
    BY <1>1, <1>4, <1>7
  <2>3. v * D \in Nat /\ f * D \in Nat /\ (f + 1) * D \in Nat
        /\ (v + n) * D \in Nat
    BY <1>1, <1>4, <1>7
  <2> QED
    BY <1>2, <1>4, <2>1, <2>2, <2>3
<1> QED
  BY <1>4, <1>5, <1>7, <1>8, <1>9 DEF SplitRight, P

-----------------------------------------------------------------------------
(* Every booked operation carries the split of its amount.                 *)
BookedRight ==
  \A o \in BookedOperations :
    /\ op[o].amount \in Amounts
    /\ op[o].fee = Split(op[o].amount, FeePercentage, MemberCount).fee
    /\ op[o].remainder =
         Split(op[o].amount, FeePercentage, MemberCount).remainder

(* The members' shares and the rest are the amount.                        *)
Payable ==
  \A o \in BookedOperations :
    /\ Divisible(op[o].fee, MemberCount)
    /\ MemberShare(op[o].fee, MemberCount) * MemberCount + op[o].remainder
         = op[o].amount

LEMMA AmountsSplitRight ==
  ASSUME NoOverflow, NEW a \in Amounts
  PROVE  a \in Nat /\ SplitRight(a, FeePercentage, MemberCount)
  BY AccountingAssumption, SplitIsRight
  DEF AccountingAssumption, NoOverflow

LEMMA BookedInit ==
  ASSUME AccountingInit
  PROVE  AccountingTypeOK /\ BookedRight
  BY DEF AccountingInit, AccountingTypeOK, BookedRight, BookedOperations,
         NoOperation, Records

LEMMA BookedStep ==
  ASSUME NoOverflow, AccountingTypeOK, BookedRight,
         [AccountingNext]_accountingVars
  PROVE  AccountingTypeOK' /\ BookedRight'
<1> USE DEF AccountingTypeOK
<1>1. ASSUME NEW o \in Operations, NEW kind \in {"deposit", "burn"},
             NEW a \in Amounts, op' = [op EXCEPT ![o] = Booked(kind, a)]
      PROVE  op' \in [Operations -> Records] /\ BookedRight'
  <2> DEFINE s == Split(a, FeePercentage, MemberCount)
  <2>1. a \in Nat /\ s.fee \in Nat /\ s.remainder \in Nat
    BY AmountsSplitRight DEF SplitRight
  <2> HIDE DEF s
  <2>2. Booked(kind, a) = [kind |-> kind, amount |-> a, fee |-> s.fee,
                           remainder |-> s.remainder, paid |-> FALSE,
                           minted |-> FALSE]
    BY DEF Booked, s
  <2>3. Booked(kind, a) \in Records
    BY <2>1, <2>2 DEF Records
  <2>4. op' \in [Operations -> Records]
    BY <1>1, <2>3
  <2>5. ASSUME NEW u \in Operations, op'[u].kind # "none"
        PROVE  /\ op'[u].amount \in Amounts
               /\ op'[u].fee =
                    Split(op'[u].amount, FeePercentage, MemberCount).fee
               /\ op'[u].remainder =
                    Split(op'[u].amount, FeePercentage, MemberCount).remainder
    <3>1. CASE u = o
      BY <1>1, <2>2, <3>1 DEF s
    <3>2. CASE u # o
      BY <1>1, <2>5, <3>2 DEF BookedRight, BookedOperations
    <3> QED
      BY <3>1, <3>2
  <2> QED
    BY <2>4, <2>5 DEF BookedRight, BookedOperations
<1>2. ASSUME NEW o \in Operations,
             \/ op' = [op EXCEPT ![o].paid = TRUE]
             \/ op' = [op EXCEPT ![o].minted = TRUE]
      PROVE  op' \in [Operations -> Records] /\ BookedRight'
  <2>1. op' \in [Operations -> Records]
    <3>1. op[o] \in Records
      OBVIOUS
    <3>2. /\ [op[o] EXCEPT !.paid = TRUE] \in Records
          /\ [op[o] EXCEPT !.minted = TRUE] \in Records
      BY <3>1 DEF Records
    <3>3. PICK r \in Records : op' = [op EXCEPT ![o] = r]
      BY <1>2, <3>2
    <3> QED
      BY <3>3
  <2>2. ASSUME NEW u \in Operations
        PROVE  /\ op'[u].kind = op[u].kind
               /\ op'[u].amount = op[u].amount
               /\ op'[u].fee = op[u].fee
               /\ op'[u].remainder = op[u].remainder
    BY <1>2 DEF Records
  <2> QED
    BY <2>1, <2>2 DEF BookedRight, BookedOperations
<1>3. ASSUME NEW o \in Operations, NEW a \in Amounts,
             BookDeposit(o, a) \/ BookBurn(o, a)
      PROVE  AccountingTypeOK' /\ BookedRight'
  <2>1. op' \in [Operations -> Records] /\ BookedRight'
    BY <1>1, <1>3 DEF BookDeposit, BookBurn
  <2> QED
    BY <1>3, <2>1, AccountingAssumption
    DEF BookDeposit, BookBurn, AccountingAssumption
<1>4. ASSUME NEW o \in Operations, PayFee(o) \/ Mint(o) \/ PayOut(o)
      PROVE  AccountingTypeOK' /\ BookedRight'
  <2>1. op' \in [Operations -> Records] /\ BookedRight'
    BY <1>2, <1>4 DEF PayFee, Mint, PayOut
  <2>2. /\ op[o].fee \in Nat /\ op[o].amount \in Nat
        /\ op[o].remainder \in Nat
    BY DEF Records
  <2>3. CASE Mint(o)
    BY <2>1, <2>2, <2>3 DEF Mint
  <2>4. CASE PayFee(o) \/ PayOut(o)
    <3>1. o \in BookedOperations
      BY <2>4 DEF PayFee, PayOut, BookedOperations
    <3>2. MemberShare(op[o].fee, MemberCount) \in Nat
      BY <2>2, QuoBounds, AccountingAssumption
      DEF MemberShare, AccountingAssumption
    <3> QED
      BY <2>1, <2>2, <2>4, <3>2 DEF PayFee, PayOut
  <2> QED
    BY <1>4, <2>3, <2>4
<1>5. CASE UNCHANGED accountingVars
  BY <1>5 DEF accountingVars, BookedRight, BookedOperations
<1> QED
  BY <1>3, <1>4, <1>5 DEF AccountingNext

LEMMA BookedHolds ==
  ASSUME NoOverflow
  PROVE  AccountingSpec => [](AccountingTypeOK /\ BookedRight)
<1>1. AccountingTypeOK /\ BookedRight /\ [AccountingNext]_accountingVars
        => (AccountingTypeOK /\ BookedRight)'
  BY BookedStep
<1> QED
  BY <1>1, BookedInit, PTL DEF AccountingSpec

(* Unless the multiplication overflows, the fee is the percentage of the   *)
(* amount rounded down to what the members can share (CalculateFee).       *)
THEOREM FeeIsAlwaysPercentage ==
  ASSUME NoOverflow
  PROVE  AccountingSpec => []FeeIsPercentage
<1>1. BookedRight => FeeIsPercentage
  <2> SUFFICES ASSUME BookedRight, NEW o \in BookedOperations
               PROVE  LET exact == op[o].amount * FeePercentage
                      IN /\ op[o].fee * MaxPercentage <= exact
                         /\ exact < (op[o].fee + MemberCount) * MaxPercentage
    BY DEF FeeIsPercentage
  <2>1. SplitRight(op[o].amount, FeePercentage, MemberCount)
    BY AmountsSplitRight DEF BookedRight
  <2> QED
    BY <2>1 DEF BookedRight, SplitRight
<1> QED
  BY <1>1, BookedHolds, PTL

(* Unless the multiplication overflows, every list of transfers the code   *)
(* builds sums to zero: CalculateMemberDistribution never fails.           *)
THEOREM BookedIsPayable ==
  ASSUME NoOverflow
  PROVE  AccountingSpec => []Payable
<1>1. BookedRight => Payable
  <2> SUFFICES ASSUME BookedRight, NEW o \in BookedOperations
               PROVE  /\ Divisible(op[o].fee, MemberCount)
                      /\ MemberShare(op[o].fee, MemberCount) * MemberCount
                           + op[o].remainder = op[o].amount
    BY DEF Payable
  <2>1. SplitRight(op[o].amount, FeePercentage, MemberCount)
    BY AmountsSplitRight DEF BookedRight
  <2> QED
    BY <2>1 DEF BookedRight, SplitRight
<1> QED
  BY <1>1, BookedHolds, PTL

-----------------------------------------------------------------------------
(* Induction over the subsets of a finite set, with the property given as  *)
(* the set F of the subsets that have it.                                  *)
LEMMA SubsetInduction ==
  ASSUME NEW S, IsFiniteSet(S), NEW F,
         \A s \in SUBSET S : (\A x \in s : s \ {x} \in F) => s \in F
  PROVE  SUBSET S \subseteq F
<1> DEFINE T == {s \in SUBSET S : s \notin F}
<1> SUFFICES ASSUME T # {}
             PROVE  FALSE
  OBVIOUS
<1>1. T \subseteq FiniteSubsetsOf(S)
  BY FS_Subset DEF FiniteSubsetsOf
<1>2. IsWellFoundedOn(StrictSubsetOrdering(S), FiniteSubsetsOf(S))
  BY FS_StrictSubsetOrderingWellFounded
<1> HIDE DEF T
<1>3. PICK m \in T : \A t \in T : <<t, m>> \notin StrictSubsetOrdering(S)
  BY <1>1, <1>2, WFMin
<1>4. ASSUME NEW x \in m
      PROVE  m \ {x} \in F
  <2> SUFFICES ASSUME m \ {x} \notin F
               PROVE  FALSE
    OBVIOUS
  <2>1. m \in SUBSET S /\ m \ {x} \in SUBSET S
    BY <1>3 DEF T
  <2>2. m \ {x} \in T
    BY <2>1 DEF T
  <2>3. <<m \ {x}, m>> \in StrictSubsetOrdering(S)
    <3> DEFINE pair == <<m \ {x}, m>>
    <3>1. pair \in (SUBSET S) \X (SUBSET S)
      BY <2>1
    <3>2. pair[1] \subseteq pair[2] /\ pair[1] # pair[2]
      BY <1>4
    <3> HIDE DEF pair
    <3>3. pair \in StrictSubsetOrdering(S)
      BY <3>1, <3>2 DEF StrictSubsetOrdering
    <3> QED BY <3>3 DEF pair
  <2> QED BY <1>3, <2>2, <2>3
<1> QED BY <1>3, <1>4 DEF T

(* Induction over the naturals, in the same form.                          *)
LEMMA NatSetInduction ==
  ASSUME NEW G, 0 \in G, \A n \in Nat : n \in G => n + 1 \in G
  PROVE  Nat \subseteq G
<1> DEFINE T == {n \in Nat : n \notin G}
<1> SUFFICES ASSUME T # {}
             PROVE  FALSE
  OBVIOUS
<1>1. IsWellFoundedOn(OpToRel(<, Nat), Nat)
  BY NatLessThanWellFounded
<1> HIDE DEF T
<1>2. PICK m \in T : \A n \in T : <<n, m>> \notin OpToRel(<, Nat)
  <2>1. T \subseteq Nat
    BY DEF T
  <2> QED BY <1>1, <2>1, WFMin
<1>3. m \in Nat /\ m # 0
  BY <1>2 DEF T
<1>4. m - 1 \in T
  <2>1. m - 1 \in Nat /\ (m - 1) + 1 = m
    BY <1>3
  <2>2. m \notin G
    BY <1>2 DEF T
  <2>3. m - 1 \notin G
    BY <2>1, <2>2
  <2> QED BY <2>1, <2>3 DEF T
<1>5. <<m - 1, m>> \in OpToRel(<, Nat)
  BY <1>3 DEF OpToRel
<1> QED BY <1>2, <1>4, <1>5

-----------------------------------------------------------------------------
(* MapThenSumSet adds the elements of a set one after the other.           *)
Pick(s) == CHOOSE x \in s : TRUE

(* g adds up F over the subsets in D.                                      *)
AddsUp(g, F, D) ==
  g = [s \in D |-> IF s = {} THEN 0 ELSE F[Pick(s)] + g[s \ {Pick(s)}]]

LEMMA Picked ==
  ASSUME NEW S, NEW s \in SUBSET S, s # {}
  PROVE  Pick(s) \in s /\ s \ {Pick(s)} \in SUBSET S
BY DEF Pick

UpTo(S, n) == {s \in SUBSET S : Cardinality(s) <= n}

(* The sum exists: what a recursive function stands for.                   *)
LEMMA SumExists ==
  ASSUME NEW S, IsFiniteSet(S), NEW F \in [S -> Int]
  PROVE  \E g \in [SUBSET S -> Int] : AddsUp(g, F, SUBSET S)
<1> DEFINE G == {n \in Nat : \E g \in [UpTo(S, n) -> Int] :
                                AddsUp(g, F, UpTo(S, n))}
<1>1. \A s \in SUBSET S : IsFiniteSet(s) /\ Cardinality(s) \in Nat
  BY FS_Subset, FS_CardinalityType
<1>2. 0 \in G
  <2>1. \A s \in UpTo(S, 0) : s = {}
    BY <1>1, FS_EmptySet DEF UpTo
  <2> DEFINE g == [s \in UpTo(S, 0) |-> 0]
  <2>2. g \in [UpTo(S, 0) -> Int]
    OBVIOUS
  <2>3. AddsUp(g, F, UpTo(S, 0))
    BY <2>1 DEF AddsUp
  <2> QED BY <2>2, <2>3
<1>3. ASSUME NEW n \in Nat, n \in G
      PROVE  n + 1 \in G
  <2>1. PICK g \in [UpTo(S, n) -> Int] : AddsUp(g, F, UpTo(S, n))
    BY <1>3
  <2> DEFINE D == UpTo(S, n + 1)
             h == [s \in D |->
                     IF s = {} THEN 0 ELSE F[Pick(s)] + g[s \ {Pick(s)}]]
  <2>2. ASSUME NEW s \in D, s # {}
        PROVE  /\ s \ {Pick(s)} \in UpTo(S, n) /\ s \ {Pick(s)} \in D
               /\ F[Pick(s)] \in Int
    <3>1. s \in SUBSET S /\ Cardinality(s) <= n + 1
      BY DEF UpTo
    <3>2. Pick(s) \in s /\ s \ {Pick(s)} \in SUBSET S
      BY <2>2, <3>1, Picked
    <3>3. Cardinality(s \ {Pick(s)}) = Cardinality(s) - 1
      BY <1>1, <3>1, <3>2, FS_RemoveElement
    <3>4. Cardinality(s \ {Pick(s)}) <= n
          /\ Cardinality(s \ {Pick(s)}) <= n + 1
      BY <1>1, <3>1, <3>3
    <3>5. Pick(s) \in S
      BY <3>1, <3>2
    <3> QED BY <3>2, <3>4, <3>5 DEF UpTo
  <2>3. h \in [D -> Int]
    <3>1. ASSUME NEW s \in D
          PROVE  (IF s = {} THEN 0 ELSE F[Pick(s)] + g[s \ {Pick(s)}]) \in Int
      <4> HIDE DEF D
      <4>1. CASE s # {}
        <5>1. g[s \ {Pick(s)}] \in Int /\ F[Pick(s)] \in Int
          BY <2>1, <2>2, <4>1
        <5> QED BY <4>1, <5>1
      <4> QED BY <4>1
    <3> QED BY <3>1
  <2>4. \A s \in UpTo(S, n) : s \in D /\ g[s] = h[s]
    <3> SUFFICES ASSUME NEW s \in UpTo(S, n)
                 PROVE  s \in D /\ g[s] = h[s]
      OBVIOUS
    <3>1. s \in D
      BY <1>1 DEF UpTo
    <3> HIDE DEF D
    <3> QED BY <2>1, <3>1 DEF AddsUp
  <2>5. AddsUp(h, F, D)
    <3>1. ASSUME NEW s \in D, s # {}
          PROVE  g[s \ {Pick(s)}] = h[s \ {Pick(s)}]
      <4> HIDE DEF D, h
      <4> QED BY <2>2, <2>4, <3>1
    <3>2. h = [s \in D |->
                 IF s = {} THEN 0 ELSE F[Pick(s)] + h[s \ {Pick(s)}]]
      <4> DEFINE k == [s \in D |->
                 IF s = {} THEN 0 ELSE F[Pick(s)] + h[s \ {Pick(s)}]]
      <4>1. \A s \in D : h[s] = k[s]
        BY <3>1
      <4>2. h = [s \in D |-> h[s]] /\ k = [s \in D |-> k[s]]
        OBVIOUS
      <4> HIDE DEF D, h, k
      <4>3. h = k
        BY <4>1, <4>2
      <4> QED BY <4>3 DEF k
    <3> HIDE DEF h, D
    <3> QED BY <3>2 DEF AddsUp
  <2> HIDE DEF h
  <2> QED BY <2>3, <2>5
<1> HIDE DEF G
<1>4. Cardinality(S) \in G
  BY <1>2, <1>3, NatSetInduction, FS_CardinalityType
<1>5. UpTo(S, Cardinality(S)) = SUBSET S
  BY FS_Subset DEF UpTo
<1> QED BY <1>4, <1>5 DEF G


(* It adds up integers.                                                    *)
LEMMA SumType ==
  ASSUME NEW S, IsFiniteSet(S), NEW F \in [S -> Int], NEW g,
         AddsUp(g, F, SUBSET S)
  PROVE  g \in [SUBSET S -> Int]
<1> DEFINE I == {s \in SUBSET S : g[s] \in Int}
<1>1. ASSUME NEW s \in SUBSET S, \A x \in s : s \ {x} \in I
      PROVE  s \in I
  <2>1. CASE s = {}
    BY <2>1 DEF AddsUp
  <2>2. CASE s # {}
    <3>1. Pick(s) \in s /\ Pick(s) \in S
      BY <2>2, Picked
    <3>2. g[s \ {Pick(s)}] \in Int
      BY <1>1, <3>1
    <3>3. g[s] = F[Pick(s)] + g[s \ {Pick(s)}]
      BY <2>2 DEF AddsUp
    <3> QED BY <3>1, <3>2, <3>3
  <2> QED BY <2>1, <2>2
<1> HIDE DEF I
<1>2. SUBSET S \subseteq I
  BY <1>1, SubsetInduction
<1>3. \A s \in SUBSET S : g[s] \in Int
  BY <1>2 DEF I
<1> QED BY <1>3 DEF AddsUp

(* The sums of two functions that differ in one element differ by that     *)
(* much.                                                                   *)
LEMMA SumChanges ==
  ASSUME NEW S, IsFiniteSet(S), NEW F \in [S -> Int], NEW G \in [S -> Int],
         NEW o \in S, \A u \in S : u # o => G[u] = F[u],
         NEW f, AddsUp(f, F, SUBSET S), NEW g, AddsUp(g, G, SUBSET S)
  PROVE  g[S] = f[S] + (G[o] - F[o])
<1> DEFINE I == {s \in SUBSET S :
                   g[s] = f[s] + (IF o \in s THEN G[o] - F[o] ELSE 0)}
<1>1. f \in [SUBSET S -> Int] /\ g \in [SUBSET S -> Int]
  BY SumType
<1>2. ASSUME NEW s \in SUBSET S, \A x \in s : s \ {x} \in I
      PROVE  s \in I
  <2>1. CASE s = {}
    BY <2>1 DEF AddsUp
  <2>2. CASE s # {}
    <3> DEFINE p == Pick(s)
               r == s \ {p}
    <3>1. p \in s /\ p \in S /\ r \in SUBSET S /\ r \in I
      BY <1>2, <2>2, Picked
    <3>2. f[s] = F[p] + f[r] /\ g[s] = G[p] + g[r]
      BY <2>2 DEF AddsUp
    <3>3. g[r] = f[r] + (IF o \in r THEN G[o] - F[o] ELSE 0)
      BY <3>1
    <3>4. o \in s <=> o \in r \/ p = o
      BY <3>1
    <3>5. p = o => o \notin r
      OBVIOUS
    <3>6. p # o => G[p] = F[p]
      BY <3>1
    <3>7. /\ f[r] \in Int /\ g[r] \in Int /\ F[p] \in Int /\ G[p] \in Int
          /\ F[o] \in Int /\ G[o] \in Int
      BY <1>1, <3>1
    <3> HIDE DEF p, r
    <3>8. g[s] = f[s] + (IF o \in s THEN G[o] - F[o] ELSE 0)
      BY <3>2, <3>3, <3>4, <3>5, <3>6, <3>7
    <3> QED BY <3>8
  <2> QED BY <2>1, <2>2
<1> HIDE DEF I
<1>3. SUBSET S \subseteq I
  BY <1>2, SubsetInduction
<1>4. S \in I
  BY <1>3
<1> QED BY <1>4 DEF I

(* A sum of naturals is one.                                               *)
LEMMA SumOfNaturals ==
  ASSUME NEW S, IsFiniteSet(S), NEW F \in [S -> Nat],
         NEW f, AddsUp(f, F, SUBSET S)
  PROVE  f[S] \in Nat
<1> DEFINE I == {s \in SUBSET S : f[s] \in Nat}
<1>1. ASSUME NEW s \in SUBSET S, \A x \in s : s \ {x} \in I
      PROVE  s \in I
  <2>1. CASE s = {}
    BY <2>1 DEF AddsUp
  <2>2. CASE s # {}
    <3>1. Pick(s) \in s /\ Pick(s) \in S
      BY <2>2, Picked
    <3>2. f[s] = F[Pick(s)] + f[s \ {Pick(s)}] /\ f[s \ {Pick(s)}] \in Nat
      BY <1>1, <2>2, <3>1 DEF AddsUp
    <3> QED BY <3>1, <3>2
  <2> QED BY <2>1, <2>2
<1> HIDE DEF I
<1>2. SUBSET S \subseteq I
  BY <1>1, SubsetInduction
<1>3. S \in I
  BY <1>2
<1> QED BY <1>3 DEF I

(* A sum of zeros is zero.                                                *)
LEMMA SumOfZeros ==
  ASSUME NEW S, IsFiniteSet(S), NEW F \in [S -> Int], \A u \in S : F[u] = 0,
         NEW f, AddsUp(f, F, SUBSET S)
  PROVE  f[S] = 0
<1> DEFINE I == {s \in SUBSET S : f[s] = 0}
<1>1. ASSUME NEW s \in SUBSET S, \A x \in s : s \ {x} \in I
      PROVE  s \in I
  <2>1. CASE s = {}
    BY <2>1 DEF AddsUp
  <2>2. CASE s # {}
    <3>1. Pick(s) \in s /\ Pick(s) \in S
      BY <2>2, Picked
    <3>2. f[s] = F[Pick(s)] + f[s \ {Pick(s)}] /\ f[s \ {Pick(s)}] = 0
      BY <1>1, <2>2, <3>1 DEF AddsUp
    <3> QED BY <3>1, <3>2
  <2> QED BY <2>1, <2>2
<1> HIDE DEF I
<1>2. SUBSET S \subseteq I
  BY <1>1, SubsetInduction
<1>3. S \in I
  BY <1>2
<1> QED BY <1>3 DEF I

-----------------------------------------------------------------------------
(* What is owed in all is such a sum.                                      *)
LEMMA OwedIsSum ==
  ASSUME NEW p, \A o \in Operations : Owed(p[o]) \in Int
  PROVE  \E g : /\ AddsUp(g, [o \in Operations |-> Owed(p[o])],
                         SUBSET Operations)
               /\ TotalOwed(p) = g[Operations]
<1> DEFINE F == [o \in Operations |-> Owed(p[o])]
           D == SUBSET Operations
           T(g) == [s \in D |->
                      IF s = {} THEN 0
                      ELSE Owed(p[CHOOSE x \in s : TRUE])
                           + g[s \ {CHOOSE x \in s : TRUE}]]
           h == CHOOSE g : g = T(g)
<1>1. \A g : AddsUp(g, F, D) <=> g = T(g)
  <2> TAKE g
  <2>1. \A s \in D : s # {} => F[Pick(s)] = Owed(p[Pick(s)])
    BY Picked
  <2>2. [s \in D |-> IF s = {} THEN 0 ELSE F[Pick(s)] + g[s \ {Pick(s)}]]
          = T(g)
    <3> HIDE DEF F, D
    <3> QED BY <2>1 DEF Pick
  <2> HIDE DEF F, T, D
  <2> QED BY <2>2 DEF AddsUp
<1>2. \E g : AddsUp(g, F, D)
  BY SumExists, AccountingAssumption
<1>3. AddsUp(h, F, D)
  <2> HIDE DEF F, T, D
  <2> QED BY <1>1, <1>2
<1>4. TotalOwed(p) = h[Operations]
  BY DEF TotalOwed, MapThenSumSet, MapThenFoldSet
<1> QED BY <1>3, <1>4

(* What changes in one operation changes what is owed by as much.          *)
LEMMA OwedChanges ==
  ASSUME NEW p, NEW q, NEW o \in Operations,
         \A u \in Operations : Owed(p[u]) \in Int /\ Owed(q[u]) \in Int,
         \A u \in Operations : u # o => q[u] = p[u]
  PROVE  /\ TotalOwed(p) \in Int
         /\ TotalOwed(q) = TotalOwed(p) + (Owed(q[o]) - Owed(p[o]))
<1> DEFINE F == [u \in Operations |-> Owed(p[u])]
           G == [u \in Operations |-> Owed(q[u])]
<1>1. PICK f : /\ AddsUp(f, F, SUBSET Operations)
               /\ TotalOwed(p) = f[Operations]
  BY OwedIsSum
<1>2. PICK g : /\ AddsUp(g, G, SUBSET Operations)
               /\ TotalOwed(q) = g[Operations]
  BY OwedIsSum
<1>3. /\ F \in [Operations -> Int] /\ G \in [Operations -> Int]
      /\ \A u \in Operations : u # o => G[u] = F[u]
      /\ F[o] = Owed(p[o]) /\ G[o] = Owed(q[o])
  OBVIOUS
<1> HIDE DEF F, G
<1>4. g[Operations] = f[Operations] + (G[o] - F[o])
  BY <1>1, <1>2, <1>3, SumChanges, AccountingAssumption
<1>5. f \in [SUBSET Operations -> Int]
  BY <1>1, <1>3, SumType, AccountingAssumption
<1>6. f[Operations] \in Int
  BY <1>5
<1> QED BY <1>1, <1>2, <1>3, <1>4, <1>6

LEMMA OwedType ==
  ASSUME NEW r \in Records
  PROVE  Owed(r) \in Nat
BY DEF Owed, Records

LEMMA BackedStep ==
  ASSUME NoOverflow, AccountingTypeOK, BookedRight, Backed,
         AccountingTypeOK', BookedRight', [AccountingNext]_accountingVars
  PROVE  Backed'
<1> DEFINE total == TotalOwed(op)
           total2 == TotalOwed(op')
<1>1. CASE UNCHANGED accountingVars
  BY <1>1 DEF accountingVars, Backed
<1>2. \A u \in Operations : Owed(op[u]) \in Nat /\ Owed(op'[u]) \in Nat
  BY OwedType DEF AccountingTypeOK
<1>3. bridge = supply + total
  BY DEF Backed
<1>4. /\ bridge \in Int /\ supply \in Nat /\ bridge' \in Int /\ supply' \in Nat
      /\ op \in [Operations -> Records]
  BY DEF AccountingTypeOK
<1>5. ASSUME NEW o \in Operations, NEW r, op' = [op EXCEPT ![o] = r],
             bridge' - supply' = bridge - supply + (Owed(r) - Owed(op[o]))
      PROVE  Backed'
  <2>1. op'[o] = r /\ \A u \in Operations : u # o => op'[u] = op[u]
    BY <1>4, <1>5
  <2>2. total \in Int /\ total2 = total + (Owed(op'[o]) - Owed(op[o]))
    BY <1>2, <2>1, OwedChanges
  <2>3. Owed(op'[o]) \in Int /\ Owed(op[o]) \in Int
    BY <1>2
  <2> HIDE DEF total, total2
  <2>4. bridge' = supply' + total2
    BY <1>3, <1>4, <1>5, <2>1, <2>2, <2>3
  <2> QED BY <2>4 DEF Backed, total2
<1> HIDE DEF total, total2
<1>6. ASSUME NEW o \in Operations, NEW a \in Amounts,
             BookDeposit(o, a) \/ BookBurn(o, a)
      PROVE  Backed'
  <2> DEFINE s == Split(a, FeePercentage, MemberCount)
  <2>1. s.fee \in Nat /\ s.remainder \in Nat /\ s.fee + s.remainder = a
        /\ a \in Nat
    BY AmountsSplitRight DEF SplitRight
  <2> HIDE DEF s
  <2>2. Owed(op[o]) = 0
    BY <1>6 DEF BookDeposit, BookBurn, Owed
  <2>3. Owed(Booked("deposit", a)) = a /\ Owed(Booked("burn", a)) = a
    BY <2>1 DEF Booked, Owed, s
  <2>4. CASE BookDeposit(o, a)
    <3>1. /\ op' = [op EXCEPT ![o] = Booked("deposit", a)]
          /\ bridge' = bridge + a /\ supply' = supply
      BY <2>4 DEF BookDeposit
    <3>2. bridge' - supply' =
            bridge - supply + (Owed(Booked("deposit", a)) - Owed(op[o]))
      BY <1>4, <2>1, <2>2, <2>3, <3>1
    <3> QED BY <1>5, <3>1, <3>2
  <2>5. CASE BookBurn(o, a)
    <3>1. /\ op' = [op EXCEPT ![o] = Booked("burn", a)]
          /\ bridge' = bridge /\ supply' = supply - a
      BY <2>5 DEF BookBurn
    <3>2. bridge' - supply' =
            bridge - supply + (Owed(Booked("burn", a)) - Owed(op[o]))
      BY <1>4, <2>1, <2>2, <2>3, <3>1
    <3> QED BY <1>5, <3>1, <3>2
  <2> QED BY <1>6, <2>4, <2>5
<1>7. ASSUME NEW o \in Operations, PayFee(o) \/ Mint(o) \/ PayOut(o)
      PROVE  Backed'
  <2>1. op[o] \in Records
    BY <1>4
  <2>2. /\ op[o].fee \in Nat /\ op[o].remainder \in Nat
        /\ op[o].amount \in Nat
    BY <2>1 DEF Records
  <2>3. CASE PayFee(o)
    <3> DEFINE r == [op[o] EXCEPT !.paid = TRUE]
    <3>1. op' = [op EXCEPT ![o] = r] /\ supply' = supply
          /\ bridge' = bridge - op[o].fee
      BY <1>4, <2>3 DEF PayFee
    <3>2. Owed(r) - Owed(op[o]) = -op[o].fee
      BY <2>1, <2>2, <2>3 DEF PayFee, Records, Owed
    <3>3. Owed(r) \in Nat /\ Owed(op[o]) \in Nat
      BY <2>1, OwedType DEF Records
    <3> HIDE DEF r
    <3>4. bridge' - supply' = bridge - supply + (Owed(r) - Owed(op[o]))
      BY <1>4, <2>2, <3>1, <3>2, <3>3
    <3> QED BY <1>5, <3>1, <3>4
  <2>4. CASE Mint(o)
    <3> DEFINE r == [op[o] EXCEPT !.minted = TRUE]
    <3>1. op' = [op EXCEPT ![o] = r] /\ bridge' = bridge
          /\ supply' = supply + op[o].remainder
      BY <1>4, <2>4 DEF Mint
    <3>2. Owed(r) - Owed(op[o]) = -op[o].remainder
      BY <2>1, <2>2, <2>4 DEF Mint, Records, Owed
    <3>3. Owed(r) \in Nat /\ Owed(op[o]) \in Nat
      BY <2>1, OwedType DEF Records
    <3> HIDE DEF r
    <3>4. bridge' - supply' = bridge - supply + (Owed(r) - Owed(op[o]))
      BY <1>4, <2>2, <3>1, <3>2, <3>3
    <3> QED BY <1>5, <3>1, <3>4
  <2>5. CASE PayOut(o)
    <3> DEFINE r == [op[o] EXCEPT !.paid = TRUE]
    <3>1. op' = [op EXCEPT ![o] = r] /\ supply' = supply
          /\ bridge' = bridge - op[o].amount
      BY <1>4, <2>5 DEF PayOut
    <3>2. Owed(r) - Owed(op[o]) = -op[o].amount
      BY <2>1, <2>2, <2>5 DEF PayOut, Records, Owed
    <3>3. Owed(r) \in Nat /\ Owed(op[o]) \in Nat
      BY <2>1, OwedType DEF Records
    <3> HIDE DEF r
    <3>4. bridge' - supply' = bridge - supply + (Owed(r) - Owed(op[o]))
      BY <1>4, <2>2, <3>1, <3>2, <3>3
    <3> QED BY <1>5, <3>1, <3>4
  <2> QED BY <1>7, <2>3, <2>4, <2>5
<1> QED BY <1>1, <1>6, <1>7 DEF AccountingNext

LEMMA BackedInit ==
  ASSUME AccountingInit
  PROVE  Backed
<1> DEFINE F == [o \in Operations |-> Owed(op[o])]
<1>1. \A o \in Operations : Owed(op[o]) = 0
  BY DEF AccountingInit, NoOperation, Owed
<1>2. PICK g : /\ AddsUp(g, F, SUBSET Operations)
               /\ TotalOwed(op) = g[Operations]
  <2>1. \A o \in Operations : Owed(op[o]) \in Int
    BY <1>1
  <2> QED BY <2>1, OwedIsSum
<1>3. F \in [Operations -> Int] /\ \A o \in Operations : F[o] = 0
  BY <1>1
<1> HIDE DEF F
<1>4. g[Operations] = 0
  BY <1>2, <1>3, SumOfZeros, AccountingAssumption
<1> QED BY <1>2, <1>4 DEF Backed, AccountingInit

(* What the bridge account holds for anybody is what the records are typed *)
(* to hold: no amount, fee, remainder or balance leaves its range.         *)
THEOREM AccountingTypeCorrect ==
  ASSUME NoOverflow
  PROVE  AccountingSpec => []AccountingTypeOK
BY BookedHolds, PTL

(* The bridge account always holds exactly the backing of the wrapped      *)
(* tokens and what is still owed, in whatever order and however late the   *)
(* deposits are minted and the scheduled transfers executed.               *)
THEOREM AlwaysBacked ==
  ASSUME NoOverflow
  PROVE  AccountingSpec => []Backed
<1> DEFINE Inv == AccountingTypeOK /\ BookedRight
<1>1. AccountingInit => Inv /\ Backed
  BY BookedInit, BackedInit
<1>2. Inv /\ Inv' /\ Backed /\ [AccountingNext]_accountingVars => Backed'
  BY BackedStep
<1>3. AccountingSpec => []Inv
  BY BookedHolds
<1> HIDE DEF Inv
<1> QED BY <1>1, <1>2, <1>3, PTL DEF AccountingSpec

(* Hence it is never overdrawn, nor ever holds less than is in circulation *)
(* as wrapped tokens.                                                      *)
THEOREM NeverOverdrawn ==
  ASSUME NoOverflow
  PROVE  AccountingSpec => [](bridge >= supply /\ supply >= 0)
<1>1. AccountingTypeOK /\ Backed => bridge >= supply /\ supply >= 0
  <2> SUFFICES ASSUME AccountingTypeOK, Backed
               PROVE  bridge >= supply /\ supply >= 0
    OBVIOUS
  <2> DEFINE F == [o \in Operations |-> Owed(op[o])]
  <2>1. \A o \in Operations : Owed(op[o]) \in Nat
    BY OwedType DEF AccountingTypeOK
  <2>2. PICK g : /\ AddsUp(g, F, SUBSET Operations)
                 /\ TotalOwed(op) = g[Operations]
    <3>1. \A o \in Operations : Owed(op[o]) \in Int
      BY <2>1
    <3> QED BY <3>1, OwedIsSum
  <2>3. F \in [Operations -> Nat]
    BY <2>1
  <2> HIDE DEF F
  <2>4. g[Operations] \in Nat
    BY <2>2, <2>3, SumOfNaturals, AccountingAssumption
  <2> QED BY <2>2, <2>4 DEF Backed, AccountingTypeOK
<1> QED BY <1>1, AlwaysBacked, AccountingTypeCorrect, PTL
=============================================================================
