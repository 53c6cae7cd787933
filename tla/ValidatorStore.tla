--------------------------- MODULE ValidatorStore ---------------------------
(***************************************************************************)
(* The validator's database (app/persistence): the tables transfers,       *)
(* messages, fees and the two status tables, with the statements the       *)
(* repositories run on them.  Each statement is one atomic step; nothing   *)
(* in the code groups two statements in a transaction.                     *)
(***************************************************************************)
EXTENDS ConsensusLedger

NoRow == "no record"
Blank == ""            \* an empty key

ASSUME BlankAssumption == Blank \notin Transfers

VARIABLES
  status,              \* transfers.status, or NoRow
  signatureMsgStatus,  \* transfers.signature_msg_status, "" until submitted
  fees,                \* rows of the fees table that belong to a transfer
  messages,            \* rows of the messages table
  txMilestone,         \* last fetched timestamp of the bridge account
  msgMilestone         \* last fetched timestamp of the topic

storeVars ==
  <<status, signatureMsgStatus, fees, messages, txMilestone, msgMilestone>>

Absent == -1           \* no timestamp: no status record, or nothing configured

TransferStatuses == {"INITIAL", "IN_PROGRESS", "COMPLETED", "RECOVERED"}
SignatureMsgStatuses == {"", "SIGNATURE_SUBMITTED", "SIGNATURE_MINED"}

(* A fee row's key is the scheduled transaction id of the schedule of one  *)
(* transfer, so the transfer stands for it.                                *)
FeeRows == [id : Transfers \cup {Blank}, tx : Transfers,
            status : {"SUBMITTED", "COMPLETED", "FAILED"}]

TypeOKStore ==
  /\ status \in [Transfers -> TransferStatuses \cup {NoRow}]
  /\ signatureMsgStatus \in [Transfers -> SignatureMsgStatuses]
  /\ fees \in SUBSET FeeRows
  /\ messages \in SUBSET Signatures
  /\ txMilestone \in Nat \cup {Absent}
  /\ msgMilestone \in Nat \cup {Absent}

InitStore ==
  /\ status = [t \in Transfers |-> NoRow]
  /\ signatureMsgStatus = [t \in Transfers |-> ""]
  /\ fees = {}
  /\ messages = {}
  /\ txMilestone = Absent
  /\ msgMilestone = Absent

-----------------------------------------------------------------------------
(* INSERT into transfers; the primary key turns a second insert into an    *)
(* error that changes nothing.                                             *)
CreateTransfer(t, s) ==
  status' = [status EXCEPT ![t] = IF @ = NoRow THEN s ELSE @]

(* Fault: the WHERE clause is forgotten.                                    *)
CompletedEverywhere(t) ==
  status' = [u \in Transfers |->
               IF status[u] = NoRow THEN NoRow ELSE "COMPLETED"]

UpdateStatusCompleted(t) ==
  status' = [status EXCEPT ![t] = IF @ = NoRow THEN @ ELSE "COMPLETED"]

(* Fault: the two columns are exchanged.                                   *)
SubmittedInWrongColumn(t) ==
  /\ status' = [status EXCEPT ![t] = "SIGNATURE_SUBMITTED"]
  /\ signatureMsgStatus' = [signatureMsgStatus EXCEPT ![t] = "IN_PROGRESS"]

(* Overwrites the status whatever it is.                                   *)
UpdateStatusSignatureSubmitted(t) ==
  /\ status' = [status EXCEPT ![t] = IF @ = NoRow THEN @ ELSE "IN_PROGRESS"]
  /\ signatureMsgStatus' = [signatureMsgStatus EXCEPT ![t] =
                              IF status[t] = NoRow THEN @
                              ELSE "SIGNATURE_SUBMITTED"]

UpdateStatusSignatureMined(t) ==
  signatureMsgStatus' = [signatureMsgStatus EXCEPT ![t] =
                           IF status[t] = NoRow THEN @ ELSE "SIGNATURE_MINED"]

(* Faults: what is in progress counts as unprocessed; everything does      *)
(* until its submission is mined; what recovery did not find is forgotten. *)
UnprocessedOrInProgress ==
  {t \in Transfers : status[t] \in {"INITIAL", "RECOVERED", "IN_PROGRESS"}}
UnprocessedUntilMined ==
  {t \in Transfers : status[t] # NoRow
                     /\ signatureMsgStatus[t] # "SIGNATURE_MINED"}
UnprocessedRecovered == {t \in Transfers : status[t] = "RECOVERED"}

GetUnprocessedTransfers ==
  {t \in Transfers : status[t] \in {"INITIAL", "RECOVERED"}}

(* Fault: the INSERT replaces the row with the same key.                   *)
UpsertFee(id, t, s) ==
  fees' = {f \in fees : f.id # id}
            \cup {[id |-> id, tx |-> t, status |-> s]}

(* INSERT into fees: the key must be new.                                  *)
CreateFee(id, t, s) ==
  fees' = IF \E f \in fees : f.id = id THEN fees
          ELSE fees \cup {[id |-> id, tx |-> t, status |-> s]}

UpdateFeeStatus(id, s) ==
  fees' = {IF f.id = id THEN [f EXCEPT !.status = s] ELSE f : f \in fees}

(* Fault: no foreign key.                                                  *)
CanCreateOrphan(m) == m \notin messages

(* INSERT into messages: a signature is unique and its transfer must have  *)
(* a record.  The guard is what makes the INSERT succeed.                  *)
CanCreateMessage(m) == m \notin messages /\ status[m.tx] # NoRow

CreateMessage(m) ==
  messages' = IF CanCreateMessage(m) THEN messages \cup {m} ELSE messages

(* Fault: the WHERE clause is forgotten.                                    *)
MessagesOfAll(t) == messages

MessagesOf(t) == {m \in messages : m.tx = t}
FeesOf(t)     == {f \in fees : f.tx = t}

-----------------------------------------------------------------------------
(* More than half of the members, and what GET /transfers/{id} answers:    *)
(* not found without a transfer record and a fee amount, else whether the  *)
(* stored signatures reach the majority.                                   *)
RequiredSigCount == (Cardinality(Members) \div 2) + 1

(* Fault: half of the members is enough.                                   *)
HasHalf(t) == Cardinality(MessagesOf(t)) + 1 >= RequiredSigCount

HasMajority(t) == Cardinality(MessagesOf(t)) >= RequiredSigCount

TransferDataFound(t) == status[t] # NoRow /\ FeesOf(t) # {}
TransferDataMajority(t) == TransferDataFound(t) /\ HasMajority(t)
=============================================================================
