------------------------- MODULE SignaturePipeline -------------------------
(***************************************************************************)
(* From a message on the topic to a completed transfer: the topic watcher, *)
(* which hands one message after the other to a goroutine of its own, and  *)
(* the message handler with services/messages behind it, which runs for    *)
(* many messages at once against the same tables.                          *)
(***************************************************************************)
EXTENDS TransferPipeline

VARIABLES
  msgWatch,   \* the topic watcher: "off", "on" or "dead"
  msgSeen,    \* its milestone in memory
  handler     \* handler goroutine of the message at each ledger position

signatureVars == <<msgWatch, msgSeen, handler>>

Positions    == 1..MaxLedger
HandlerSteps == {"idle", "await", "create", "count", "complete"}

TypeOKSignature ==
  /\ msgWatch \in Watches
  /\ msgSeen \in Nat
  /\ handler \in [Positions -> HandlerSteps]

ResetSignature ==
  /\ msgWatch' = "off"
  /\ msgSeen' = 0
  /\ handler' = [i \in Positions |-> "idle"]

InitSignature ==
  /\ msgWatch = "off"
  /\ msgSeen = 0
  /\ handler = [i \in Positions |-> "idle"]

GotoHandler(i, step) == handler' = [handler EXCEPT ![i] = step]

(* Fault: any key that signed the message is accepted.                     *)
IsSigner(s) == s \in Signers

IsMember(s) == s \in Members

-----------------------------------------------------------------------------
(* Watch: as for the account, an unconfirmed topic means no watcher.       *)
StartMessageWatcher ==
  /\ phase = "running"
  /\ msgWatch = "off"
  /\ \/ /\ Ok
        /\ msgWatch' = "on"
        /\ msgMilestone' = startTimestamp
        /\ msgSeen' = startTimestamp
     \/ /\ Fault
        /\ msgWatch' = "dead"
        /\ UNCHANGED <<msgMilestone, msgSeen>>
  /\ UNCHANGED <<ledgerVars, status, signatureMsgStatus, fees, messages,
                 txMilestone, phase, startTimestamp, transferVars, handler>>

(* Fault: of one answer only the last message is processed.                *)
DeliverLastMessage ==
  /\ msgWatch = "on"
  /\ msgSeen = msgMilestone
  /\ \E i \in SignaturesAfter(msgSeen) :
        /\ \A j \in SignaturesAfter(msgSeen) : j <= i
        /\ msgSeen' = i
        /\ GotoHandler(i, "await")
  /\ Ok
  /\ UNCHANGED <<ledgerVars, storeVars, phase, startTimestamp, transferVars,
                 msgWatch>>

(* beginWatching and processMessage: the next message goes to a handler.   *)
DeliverMessage ==
  /\ msgWatch = "on"
  /\ msgSeen = msgMilestone
  /\ \E i \in SignaturesAfter(msgSeen) :
        /\ \A j \in SignaturesAfter(msgSeen) : i <= j
        /\ msgSeen' = i
        /\ GotoHandler(i, "await")
  /\ Ok
  /\ UNCHANGED <<ledgerVars, storeVars, phase, startTimestamp, transferVars,
                 msgWatch>>

(* beginWatching, updateStatusTimestamp after the message was handed over. *)
SaveMessageMilestone ==
  /\ msgWatch = "on"
  /\ msgSeen # msgMilestone
  /\ msgMilestone' = msgSeen
  /\ Ok
  /\ UNCHANGED <<ledgerVars, status, signatureMsgStatus, fees, messages,
                 txMilestone, phase, startTimestamp, transferVars,
                 signatureVars>>

(* Fault: the transfer record alone is awaited.                            *)
RecordKnown(t) == status[t] # NoRow

(* awaitTransfer is over once the transfer has a record and the fee row    *)
(* read with it has a transaction id.                                      *)
TransferKnown(t) == status[t] # NoRow /\ \E f \in FeesOf(t) : f.id # Blank

(* Fault: the content of the message is not compared with the record.      *)
CheckSignerOnly(i) ==
  /\ handler[i] = "await"
  /\ TransferKnown(ledger[i].tx)
  /\ Ok
  /\ GotoHandler(i, IF ledger[i] \in messages THEN "count"
                    ELSE IF IsMember(ledger[i].signer) THEN "create" ELSE "idle")
  /\ UNCHANGED <<ledgerVars, storeVars, phase, startTimestamp, transferVars,
                 msgWatch, msgSeen>>

(* SanityCheckSignature, then ProcessSignature up to the INSERT.  A        *)
(* signature already stored is no error: its handler counts too.           *)
CheckSignature(i) ==
  /\ handler[i] = "await"
  /\ LET m == ledger[i]
     IN /\ TransferKnown(m.tx)
        /\ \/ /\ Ok
              /\ GotoHandler(i,
                   IF m.auth # "agreed" THEN "idle"
                   ELSE IF m \in messages THEN "count"
                   ELSE IF IsMember(m.signer) THEN "create" ELSE "idle")
           \/ Fault /\ GotoHandler(i, "idle")
  /\ UNCHANGED <<ledgerVars, storeVars, phase, startTimestamp, transferVars,
                 msgWatch, msgSeen>>

(* ProcessSignature, the INSERT: when another handler stored the same      *)
(* signature in between, the unique key makes it an error and nobody       *)
(* counts here.                                                            *)
StoreSignature(i) ==
  /\ handler[i] = "create"
  /\ LET m == ledger[i]
     IN \/ /\ Ok
           /\ CreateMessage(m)
           /\ GotoHandler(i, IF CanCreateMessage(m) THEN "count" ELSE "idle")
        \/ Fault /\ UNCHANGED messages /\ GotoHandler(i, "idle")
  /\ UNCHANGED <<ledgerVars, status, signatureMsgStatus, fees, txMilestone,
                 msgMilestone, phase, startTimestamp, transferVars, msgWatch,
                 msgSeen>>

(* Faults: the result of the count is ignored; more than the required      *)
(* number is asked for.                                                    *)
CompleteUncounted(i) ==
  /\ handler[i] = "count"
  /\ Ok
  /\ GotoHandler(i, "complete")
  /\ UNCHANGED <<ledgerVars, storeVars, phase, startTimestamp, transferVars,
                 msgWatch, msgSeen>>
CheckMoreThanMajority(i) ==
  /\ handler[i] = "count"
  /\ Ok
  /\ GotoHandler(i, IF Cardinality(MessagesOf(ledger[i].tx)) > RequiredSigCount
                    THEN "complete" ELSE "idle")
  /\ UNCHANGED <<ledgerVars, storeVars, phase, startTimestamp, transferVars,
                 msgWatch, msgSeen>>

(* checkMajority *)
CheckMajority(i) ==
  /\ handler[i] = "count"
  /\ \/ Ok /\ GotoHandler(i, IF HasMajority(ledger[i].tx) THEN "complete"
                             ELSE "idle")
     \/ Fault /\ GotoHandler(i, "idle")
  /\ UNCHANGED <<ledgerVars, storeVars, phase, startTimestamp, transferVars,
                 msgWatch, msgSeen>>

(* UpdateStatusCompleted, once the majority was seen.                      *)
CompleteTransfer(i) ==
  /\ handler[i] = "complete"
  /\ GotoHandler(i, "idle")
  /\ \/ Ok /\ UpdateStatusCompleted(ledger[i].tx)
     \/ Fault /\ UNCHANGED status
  /\ UNCHANGED <<ledgerVars, signatureMsgStatus, fees, messages, txMilestone,
                 msgMilestone, phase, startTimestamp, transferVars, msgWatch,
                 msgSeen>>

-----------------------------------------------------------------------------
(* The goroutines of this part.                                            *)
MessageWatcher ==
  StartMessageWatcher \/ DeliverMessage \/ SaveMessageMilestone

HandlerRoutine(i) ==
  \/ CheckSignature(i)
  \/ StoreSignature(i)
  \/ CheckMajority(i)
  \/ CompleteTransfer(i)

SignatureStep == MessageWatcher \/ \E i \in Positions : HandlerRoutine(i)
=============================================================================
