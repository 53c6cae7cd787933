----------------------------- MODULE AuthMessage -----------------------------
(***************************************************************************)
(* What the members sign for a deposit, from the record of the mirror node *)
(* to the row a peer stores: the reading of the record (mirror-node, memo, *)
(* contracts), the authorisation and its signature (services/transfers,    *)
(* auth-message, signer), the topic message, and the checks of a peer      *)
(* (services/messages, helper/ethereum).  TransferPipeline and             *)
(* SignaturePipeline call the content of such a message "agreed".          *)
(*                                                                         *)
(* keccak is collision free: a hash is the content it was computed from.   *)
(* The text of an address has a spelling; its bytes have none.             *)
(***************************************************************************)
EXTENDS BridgeAccounting, Sequences

CONSTANTS
  BridgeAccount, Payer,   \* accounts of a transaction
  Hbar,                   \* constants.Hbar
  NativeToWrapped,        \* of the Router contract: a function from assets
  NilErc20Address,        \* what it answers for an asset it does not have
  Receivers,              \* addresses a user may name in the memo
  Spellings,              \* of an address, upper and lower case
  Router,                 \* address of the Router contract
  Keys,                   \* Ethereum keys; a key stands for its address
  MemberKeys              \* those on the member list

Checksum == "checksum"    \* the spelling of common.Address.String

ASSUME AddressesAssumption ==
  /\ MemberKeys \subseteq Keys
  /\ Payer # BridgeAccount
  /\ Checksum \in Spellings

Text(address, spelling) == [address |-> address, spelling |-> spelling]
String(address)         == Text(address, Checksum)
HexToAddress(text)      == text.address

-----------------------------------------------------------------------------
(* Transaction: the two lists of entries, the memo, and whether the state  *)
(* proof verifies.                                                         *)
Entry(account, amount, asset) ==
  [account |-> account, amount |-> amount, token |-> asset]

DepositRecord(o, asset, memo) ==
  LET moved == <<Entry(Payer, -op[o].amount, asset),
                 Entry(BridgeAccount, op[o].amount, asset)>>
      paid  == <<Entry(Payer, -1, Hbar)>>
  IN [transactionID  |-> o,
      transfers      |-> IF asset = Hbar THEN moved ELSE paid,
      tokenTransfers |-> IF asset = Hbar THEN <<>> ELSE moved,
      memo           |-> memo,
      proven         |-> TRUE]

Naming(entries) ==
  {i \in DOMAIN entries : entries[i].account = BridgeAccount}

First(entries) ==
  entries[CHOOSE i \in Naming(entries) : \A j \in Naming(entries) : i <= j]

NoIncoming == [amount |-> 0, asset |-> NilErc20Address]

IncomingAmount(tx) ==
  IF Naming(tx.transfers) = {} THEN NoIncoming
  ELSE [amount |-> First(tx.transfers).amount, asset |-> Hbar]

IncomingTokenAmount(tx) ==
  IF Naming(tx.tokenTransfers) = {} THEN NoIncoming
  ELSE [amount |-> First(tx.tokenTransfers).amount,
        asset  |-> First(tx.tokenTransfers).token]

(* A token goes before hbars.                                              *)
GetIncomingTransfer(tx) ==
  IF IncomingTokenAmount(tx) # NoIncoming THEN IncomingTokenAmount(tx)
  ELSE IncomingAmount(tx)

ToWrapped(asset) == NativeToWrapped[asset]

(* memo.Validate: 0x and forty hexadecimal digits, of any spelling.        *)
Validate(memo) == memo.address \in Receivers

SanityCheckTransfer(tx) == Validate(tx.memo) /\ tx.proven

(* What the watcher and the recovery hand over, and what they drop.        *)
IsDeposit(tx) ==
  /\ GetIncomingTransfer(tx) # NoIncoming
  /\ ToWrapped(GetIncomingTransfer(tx).asset) # NilErc20Address
  /\ SanityCheckTransfer(tx)

NewTransfer(tx) ==
  LET incoming == GetIncomingTransfer(tx)
  IN [transactionID |-> tx.transactionID,
      receiver      |-> tx.memo,
      amount        |-> incoming.amount,
      nativeAsset   |-> incoming.asset,
      wrappedAsset  |-> String(ToWrapped(incoming.asset)),
      routerAddress |-> String(Router)]

-----------------------------------------------------------------------------
(* EncodeBytesFrom packs addresses and a number, not their texts.          *)
EncodeBytesFrom(m) ==
  [transferID   |-> m.transferID,
   router       |-> HexToAddress(m.routerAddress),
   wrappedAsset |-> HexToAddress(m.wrappedAsset),
   receiver     |-> HexToAddress(m.receiver),
   amount       |-> m.amount]

(* Sign: the library puts the parity of the curve point, 0 or 1, into the  *)
(* last byte, V; Ethereum expects 27 or 28.                                *)
Sign(hash, key, parity) ==
  [length |-> 65, key |-> key, hash |-> hash, v |-> (parity + 27) % 256]

Unsigned(t, amount) ==
  [transferID    |-> t.transactionID,
   routerAddress |-> t.routerAddress,
   wrappedAsset  |-> t.wrappedAsset,
   receiver      |-> t.receiver,
   amount        |-> amount]

(* ProcessTransfer and NewSignature.                                       *)
NewSignature(t, key, parity) ==
  LET split   == Split(t.amount, FeePercentage, MemberCount)
      content == Unsigned(t, split.remainder)
  IN [content   |-> content,
      signature |-> Sign(EncodeBytesFrom(content), key, parity)]

-----------------------------------------------------------------------------
(* Fault: the signature is handed on with V as it came.                    *)
KeepSignatureValueV(signature) ==
  [decoded |-> signature, eth |-> signature]

(* switchSignatureValueV: the form that is recovered from has V 0 or 1,    *)
(* the form that is stored 27 or 28.                                       *)
SwitchSignatureValueV(signature) ==
  [decoded |-> IF signature.v \in {27, 28}
               THEN [signature EXCEPT !.v = @ - 27] ELSE signature,
   eth     |-> IF signature.v \in {0, 1}
               THEN [signature EXCEPT !.v = @ + 27] ELSE signature]

DecodeSignature(signature) == SwitchSignatureValueV(signature)

(* Ecrecover fails for another V, and finds a stranger's address in a      *)
(* signature of something else.                                            *)
RecoversTo(hash, signature, key) ==
  /\ signature.length = 65
  /\ signature.v \in {0, 1}
  /\ signature.hash = hash
  /\ signature.key = key

IsMember(key) == key \in MemberKeys

(* Transfer record and fee row of a deposit.                               *)
Row(o, t) ==
  [receiver |-> t.receiver, routerAddress |-> t.routerAddress,
   nativeAsset |-> t.nativeAsset, amount |-> t.amount, fee |-> op[o].fee]

(* Fault: only receiver and amount are compared.                           *)
SanityCheckReceiver(content, row) ==
  /\ content.receiver = row.receiver
  /\ content.amount = Wrap(row.amount - row.fee)

SanityCheckSignature(content, row) ==
  /\ content.receiver = row.receiver
  /\ content.routerAddress = row.routerAddress
  /\ content.amount = Wrap(row.amount - row.fee)
  /\ content.wrappedAsset = String(ToWrapped(row.nativeAsset))

(* ProcessSignature stores a signature of a member over the content.       *)
ProcessSignature(m, key) ==
  /\ RecoversTo(EncodeBytesFrom(m.content),
                DecodeSignature(m.signature).decoded, key)
  /\ IsMember(key)

-----------------------------------------------------------------------------
BookedDeposits == {o \in BookedOperations : op[o].kind = "deposit"}

Memos == {Text(a, s) : a \in Receivers, s \in Spellings}

Read(o, asset, memo) == NewTransfer(DepositRecord(o, asset, memo))

(* What a member signs is what its peers accept, for every deposit, asset, *)
(* memo and member: the sender computes the amount from the percentage,    *)
(* the peer from the fee row it wrote; the signer is recovered from the    *)
(* other form of V; and the peer stores the same bytes for both forms, by  *)
(* which it tells a signature it already has.                              *)
DepositsAreAuthorised ==
  \A o \in BookedDeposits, asset \in DOMAIN NativeToWrapped, memo \in Memos :
    IsDeposit(DepositRecord(o, asset, memo)) =>
      \A key \in MemberKeys, parity \in {0, 1} :
        LET t     == Read(o, asset, memo)
            m     == NewSignature(t, key, parity)
            other == [m.signature EXCEPT !.v = parity]
        IN /\ SanityCheckSignature(m.content, Row(o, t))
           /\ ProcessSignature(m, key)
           /\ DecodeSignature(m.signature) = DecodeSignature(other)
           /\ m.content.amount = op[o].remainder

(* Messages a peer could read: texts of addresses, any amount of the       *)
(* deposit's.                                                              *)
Contents(o) ==
  LET texts == {Text(a, s) : a \in Receivers \cup {Router}, s \in Spellings}
               \cup {String(NativeToWrapped[x]) : x \in DOMAIN NativeToWrapped}
  IN [transferID : {o}, routerAddress : texts, wrappedAsset : texts,
      receiver : texts, amount : {op[o].amount, op[o].remainder}]

(* All signatures a validator counts for a deposit are over the same hash: *)
(* the comparison with the record fixes everything the hash covers, so the *)
(* majority it reports can be redeemed in one mint.                        *)
AcceptedContentIsOne ==
  \A o \in BookedDeposits, asset \in DOMAIN NativeToWrapped, memo \in Memos :
    IsDeposit(DepositRecord(o, asset, memo)) =>
      LET t == Read(o, asset, memo)
      IN \A c \in Contents(o) :
           SanityCheckSignature(c, Row(o, t)) =>
             EncodeBytesFrom(c) = EncodeBytesFrom(Unsigned(t, op[o].remainder))
=============================================================================
