-------------------------- MODULE AuthMessageProofs --------------------------
(***************************************************************************)
(* Theorems about what the members sign and accept, for every set of keys, *)
(* assets and addresses, every percentage and number of members.           *)
(***************************************************************************)
EXTENDS AuthMessage, BridgeAccountingProofs

(* The two entries of a transfer to the bridge account name it once.       *)
LEMMA FirstOfTwo ==
  ASSUME NEW amount, NEW asset
  PROVE  LET moved == <<Entry(Payer, -amount, asset),
                        Entry(BridgeAccount, amount, asset)>>
         IN Naming(moved) = {2} /\ First(moved) = moved[2]
<1> DEFINE moved == <<Entry(Payer, -amount, asset),
                      Entry(BridgeAccount, amount, asset)>>
<1>1. /\ DOMAIN moved = {1, 2}
      /\ moved[1].account = Payer
      /\ moved[2].account = BridgeAccount
  BY DEF Entry
<1> HIDE DEF moved
<1>2. Naming(moved) = {2}
  BY <1>1, AddressesAssumption DEF Naming, AddressesAssumption
<1>3. (CHOOSE i \in {2} : \A j \in {2} : i <= j) = 2
  <2>1. \E i \in {2} : \A j \in {2} : i <= j
    OBVIOUS
  <2> QED
    BY <2>1
<1>4. First(moved) = moved[2]
  BY <1>2, <1>3 DEF First
<1> QED
  BY <1>2, <1>4 DEF moved

(* GetIncomingTransfer finds what was deposited, tokens or hbars.          *)
LEMMA DepositIsRead ==
  ASSUME NEW o, NEW asset, NEW memo, op[o].amount \in Nat \ {0}
  PROVE  GetIncomingTransfer(DepositRecord(o, asset, memo))
           = [amount |-> op[o].amount, asset |-> asset]
<1> DEFINE tx    == DepositRecord(o, asset, memo)
           moved == <<Entry(Payer, -op[o].amount, asset),
                      Entry(BridgeAccount, op[o].amount, asset)>>
           paid  == <<Entry(Payer, -1, Hbar)>>
<1>1. Naming(moved) = {2} /\ First(moved) = moved[2]
  BY FirstOfTwo
<1>2. /\ First(moved).amount = op[o].amount
      /\ First(moved).token = asset
  BY <1>1 DEF Entry
<1>3. Naming(<<>>) = {}
  BY DEF Naming
<1>4. tx.transfers = (IF asset = Hbar THEN moved ELSE paid)
  BY DEF DepositRecord
<1>5. tx.tokenTransfers = (IF asset = Hbar THEN <<>> ELSE moved)
  BY DEF DepositRecord
<1> HIDE DEF tx, moved, paid
<1>6. CASE asset = Hbar
  <2>1. IncomingTokenAmount(tx) = NoIncoming
    BY <1>3, <1>5, <1>6 DEF IncomingTokenAmount
  <2>2. IncomingAmount(tx) = [amount |-> op[o].amount, asset |-> asset]
    BY <1>1, <1>2, <1>4, <1>6 DEF IncomingAmount
  <2> QED
    BY <2>1, <2>2 DEF GetIncomingTransfer, tx
<1>7. CASE asset # Hbar
  <2>1. IncomingTokenAmount(tx) = [amount |-> op[o].amount, asset |-> asset]
    BY <1>1, <1>2, <1>5, <1>7 DEF IncomingTokenAmount
  <2>2. IncomingTokenAmount(tx).amount # NoIncoming.amount
    BY <2>1 DEF NoIncoming
  <2> QED
    BY <2>1, <2>2 DEF GetIncomingTransfer, tx
<1> QED
  BY <1>6, <1>7

(* The fields of the transfer that is handed over.                         *)
LEMMA TransferRead ==
  ASSUME NEW o, NEW asset, NEW memo, op[o].amount \in Nat \ {0}
  PROVE  Read(o, asset, memo) =
           [transactionID |-> o, receiver |-> memo,
            amount |-> op[o].amount, nativeAsset |-> asset,
            wrappedAsset |-> String(ToWrapped(asset)),
            routerAddress |-> String(Router)]
<1>1. /\ DepositRecord(o, asset, memo).transactionID = o
      /\ DepositRecord(o, asset, memo).memo = memo
  BY DEF DepositRecord
<1> QED
  BY <1>1, DepositIsRead DEF Read, NewTransfer

(* Whichever of the two forms of V a signature comes in, the signer is     *)
(* recovered and the same bytes are stored (Sign, DecodeSignature).        *)
THEOREM SignersAreRecovered ==
  ASSUME NEW hash, NEW key, NEW parity \in {0, 1}
  PROVE  LET own   == Sign(hash, key, parity)
             other == [own EXCEPT !.v = parity]
         IN /\ RecoversTo(hash, DecodeSignature(own).decoded, key)
            /\ DecodeSignature(own) = DecodeSignature(other)
            /\ DecodeSignature(own).eth.v \in {27, 28}
<1> DEFINE own   == Sign(hash, key, parity)
           other == [own EXCEPT !.v = parity]
           bare  == [length |-> 65, key |-> key, hash |-> hash, v |-> parity]
           full  == [length |-> 65, key |-> key, hash |-> hash,
                     v |-> parity + 27]
<1>1. (parity + 27) % 256 = parity + 27
  <2>1. CASE parity = 0
    BY <2>1
  <2>2. CASE parity = 1
    BY <2>2
  <2> QED
    BY <2>1, <2>2
<1>2. own = full
  BY <1>1 DEF Sign
<1>3. other = bare
  BY <1>2
<1>4. [full EXCEPT !.v = @ - 27] = bare
  OBVIOUS
<1>5. [bare EXCEPT !.v = @ + 27] = full
  OBVIOUS
<1>6. /\ full.v \in {27, 28} /\ full.v \notin {0, 1}
      /\ bare.v \in {0, 1} /\ bare.v \notin {27, 28}
  OBVIOUS
<1>7. RecoversTo(hash, bare, key)
  BY DEF RecoversTo
<1> HIDE DEF own, other, bare, full
<1>8. DecodeSignature(full) = [decoded |-> bare, eth |-> full]
  BY <1>4, <1>6 DEF DecodeSignature, SwitchSignatureValueV
<1>9. DecodeSignature(bare) = [decoded |-> bare, eth |-> full]
  BY <1>5, <1>6 DEF DecodeSignature, SwitchSignatureValueV
<1>10. /\ RecoversTo(hash, DecodeSignature(own).decoded, key)
       /\ DecodeSignature(own) = DecodeSignature(other)
       /\ DecodeSignature(own).eth.v \in {27, 28}
  BY <1>2, <1>3, <1>6, <1>7, <1>8, <1>9
<1> QED
  BY <1>10 DEF own, other

(* What the record of a booked deposit says.                               *)
LEMMA BookedDepositSplit ==
  ASSUME NoOverflow, AccountingTypeOK, BookedRight, NEW o \in BookedDeposits
  PROVE  LET s == Split(op[o].amount, FeePercentage, MemberCount)
         IN /\ op[o].amount \in Nat \ {0}
            /\ op[o].fee = s.fee
            /\ op[o].remainder = s.remainder
            /\ Wrap(op[o].amount - op[o].fee) = op[o].remainder
<1> DEFINE s == Split(op[o].amount, FeePercentage, MemberCount)
<1>1. /\ op[o].amount \in Amounts
      /\ op[o].fee = s.fee /\ op[o].remainder = s.remainder
  BY DEF BookedRight, BookedDeposits
<1>2. op[o].amount \in Nat \ {0}
  BY <1>1, AccountingAssumption DEF AccountingAssumption
<1>3. SplitRight(op[o].amount, FeePercentage, MemberCount)
  BY <1>1, AmountsSplitRight
<1>4. /\ s.fee \in Nat /\ s.remainder \in Nat
      /\ s.fee + s.remainder = op[o].amount
  BY <1>3 DEF SplitRight
<1> HIDE DEF s
<1>5. op[o].amount <= MaxInt
  <2>1. op[o].amount * 1 <= op[o].amount * MaxPercentage
    BY <1>2, ProductGrows, ArithmeticAssumption DEF ArithmeticAssumption
  <2>2. op[o].amount * MaxPercentage <= MaxInt
    BY <1>1 DEF NoOverflow
  <2>3. op[o].amount * MaxPercentage \in Nat /\ MaxInt \in Nat
    BY <1>2, ArithmeticAssumption DEF ArithmeticAssumption
  <2> QED
    BY <1>2, <2>1, <2>2, <2>3
<1>6. /\ op[o].amount - op[o].fee = op[o].remainder
      /\ op[o].remainder \in Nat /\ op[o].remainder <= MaxInt
  BY <1>1, <1>2, <1>4, <1>5, ArithmeticAssumption DEF ArithmeticAssumption
<1>7. Wrap(op[o].amount - op[o].fee) = op[o].remainder
  BY <1>6, WrapIdentity
<1> QED
  BY <1>1, <1>2, <1>7 DEF s

(* Unless the multiplication overflows, every member's message about every *)
(* deposit passes the checks of every peer (ProcessTransfer against        *)
(* SanityCheckSignature and ProcessSignature).                             *)
THEOREM MembersAreAccepted ==
  ASSUME NoOverflow
  PROVE  AccountingSpec => []DepositsAreAuthorised
<1>1. ASSUME AccountingTypeOK, BookedRight
      PROVE  DepositsAreAuthorised
  <2> SUFFICES ASSUME NEW o \in BookedDeposits,
                      NEW asset \in DOMAIN NativeToWrapped, NEW memo \in Memos,
                      NEW key \in MemberKeys, NEW parity \in {0, 1}
               PROVE  LET t     == Read(o, asset, memo)
                          m     == NewSignature(t, key, parity)
                          other == [m.signature EXCEPT !.v = parity]
                      IN /\ SanityCheckSignature(m.content, Row(o, t))
                         /\ ProcessSignature(m, key)
                         /\ DecodeSignature(m.signature)
                              = DecodeSignature(other)
                         /\ m.content.amount = op[o].remainder
    BY DEF DepositsAreAuthorised
  <2> DEFINE t    == Read(o, asset, memo)
             c    == Unsigned(t, op[o].remainder)
             sig  == Sign(EncodeBytesFrom(c), key, parity)
             m    == NewSignature(t, key, parity)
  <2>1. /\ op[o].amount \in Nat \ {0}
        /\ op[o].remainder =
             Split(op[o].amount, FeePercentage, MemberCount).remainder
        /\ Wrap(op[o].amount - op[o].fee) = op[o].remainder
    BY <1>1, BookedDepositSplit
  <2>2. t = [transactionID |-> o, receiver |-> memo,
             amount |-> op[o].amount, nativeAsset |-> asset,
             wrappedAsset |-> String(ToWrapped(asset)),
             routerAddress |-> String(Router)]
    BY <2>1, TransferRead
  <2> HIDE DEF t
  <2>3. m = [content |-> c, signature |-> sig]
    BY <2>1, <2>2 DEF NewSignature
  <2>4. /\ c.receiver = memo /\ c.amount = op[o].remainder
        /\ c.routerAddress = String(Router)
        /\ c.wrappedAsset = String(ToWrapped(asset))
    BY <2>2 DEF Unsigned
  <2>5. /\ Row(o, t).receiver = memo /\ Row(o, t).amount = op[o].amount
        /\ Row(o, t).routerAddress = String(Router)
        /\ Row(o, t).nativeAsset = asset /\ Row(o, t).fee = op[o].fee
    BY <2>2 DEF Row
  <2> HIDE DEF c
  <2>6. SanityCheckSignature(c, Row(o, t))
    BY <2>1, <2>4, <2>5 DEF SanityCheckSignature
  <2>7. /\ RecoversTo(EncodeBytesFrom(c), DecodeSignature(sig).decoded, key)
        /\ DecodeSignature(sig) = DecodeSignature([sig EXCEPT !.v = parity])
    BY SignersAreRecovered
  <2> HIDE DEF sig
  <2>8. m.content = c /\ m.signature = sig
    BY <2>3
  <2> HIDE DEF m
  <2>9. ProcessSignature(m, key)
    BY <2>7, <2>8 DEF ProcessSignature, IsMember
  <2>10. /\ SanityCheckSignature(m.content, Row(o, t))
         /\ ProcessSignature(m, key)
         /\ DecodeSignature(m.signature)
              = DecodeSignature([m.signature EXCEPT !.v = parity])
         /\ m.content.amount = op[o].remainder
    BY <2>4, <2>6, <2>7, <2>8, <2>9
  <2> QED
    BY <2>10 DEF m, t
<1> QED
  BY <1>1, BookedHolds, PTL

(* Unless the multiplication overflows, what passes the comparison with    *)
(* the record of a deposit has the one hash the validator signs itself     *)
(* (SanityCheckSignature against EncodeBytesFrom).                         *)
THEOREM OneHashIsAccepted ==
  ASSUME NoOverflow
  PROVE  AccountingSpec => []AcceptedContentIsOne
<1>1. ASSUME AccountingTypeOK, BookedRight
      PROVE  AcceptedContentIsOne
  <2> SUFFICES ASSUME NEW o \in BookedDeposits,
                      NEW asset \in DOMAIN NativeToWrapped, NEW memo \in Memos,
                      NEW c \in Contents(o),
                      SanityCheckSignature(c, Row(o, Read(o, asset, memo)))
               PROVE  EncodeBytesFrom(c) =
                        EncodeBytesFrom(Unsigned(Read(o, asset, memo),
                                                 op[o].remainder))
    BY DEF AcceptedContentIsOne
  <2> DEFINE t == Read(o, asset, memo)
             d == Unsigned(t, op[o].remainder)
  <2>1. /\ op[o].amount \in Nat \ {0}
        /\ Wrap(op[o].amount - op[o].fee) = op[o].remainder
    BY <1>1, BookedDepositSplit
  <2>2. t = [transactionID |-> o, receiver |-> memo,
             amount |-> op[o].amount, nativeAsset |-> asset,
             wrappedAsset |-> String(ToWrapped(asset)),
             routerAddress |-> String(Router)]
    BY <2>1, TransferRead
  <2> HIDE DEF t
  <2>3. /\ d.transferID = o /\ d.receiver = memo
        /\ d.amount = op[o].remainder
        /\ d.routerAddress = String(Router)
        /\ d.wrappedAsset = String(ToWrapped(asset))
    BY <2>2 DEF Unsigned
  <2>4. /\ Row(o, t).receiver = memo /\ Row(o, t).amount = op[o].amount
        /\ Row(o, t).routerAddress = String(Router)
        /\ Row(o, t).nativeAsset = asset /\ Row(o, t).fee = op[o].fee
    BY <2>2 DEF Row
  <2>5. c.transferID = o
    BY DEF Contents
  <2>6. SanityCheckSignature(c, Row(o, t))
    BY DEF t
  <2>7. /\ c.receiver = memo /\ c.amount = op[o].remainder
        /\ c.routerAddress = String(Router)
        /\ c.wrappedAsset = String(ToWrapped(asset))
    BY <2>1, <2>4, <2>6 DEF SanityCheckSignature
  <2> HIDE DEF d
  <2>8. EncodeBytesFrom(c) = EncodeBytesFrom(d)
    BY <2>3, <2>5, <2>7 DEF EncodeBytesFrom
  <2> QED
    BY <2>8 DEF d, t
<1> QED
  BY <1>1, BookedHolds, PTL
=============================================================================
