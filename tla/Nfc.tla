---------------------------------- MODULE Nfc ----------------------------------
(***************************************************************************)
(* The NFC actor (nfc.c, nfc_fsm.c, nfc_prepare_mailbox_fsm.c), from       *)
(* NFC_Initialize on: it reads the UID of the ST25DV tag, sets the tag up  *)
(* for fast transfers, a register at a time with retries, and then reads   *)
(* the tag's interrupt status whenever the tag pulses its GPO line.        *)
(*                                                                         *)
(* Three parties take turns: NFC_Tasks in the super loop, the I2C          *)
(* interrupt that ends a transfer, and the EIC interrupt of the GPO line.  *)
(* The tag and the I2C driver are what this code sees of them: transfers   *)
(* are carried out in turn, each from the memory it was given.             *)
(*                                                                         *)
(* Nobody sends NFC_WRITE_MAILBOX or DEINIT_SIG_NFC, and IDLE has no       *)
(* handler for NFC_READ_MAILBOX: the mailbox is neither written nor read.  *)
(***************************************************************************)
EXTENDS Integers, Sequences

CONSTANTS
    RetriesMax,     \* NFC_TRANSFER_RETRIES_MAX
    QueueMax,       \* NFC_QUEUE_MAX_CAPACITY
    I2CQueueMax,    \* DRV_I2C_QUEUE_SIZE_IDX0
    ByteMod,        \* retriesLeft is a uint8_t: 256
    MaxPulses,      \* bound: pulses waiting in the queue at once
    HooksOnSelf     \* does FSM_TraverseAOToNextState run the hooks of a
                    \* transition from a state to itself?

ASSUME NfcAssumption ==
    /\ ByteMod \in Nat /\ RetriesMax \in 1 .. ByteMod - 1
    /\ QueueMax \in Nat \ 0 .. 2 /\ I2CQueueMax \in Nat \ {0}
    /\ MaxPulses \in Nat
    /\ HooksOnSelf \in BOOLEAN

VARIABLES
    opened,         \* DRV_I2C_Open gave a handle
    st, queue,
    pc,             \* "verify": between a transfer's start and VerifyRetries
    ft,             \* FTModeState
    retriesLeft,
    transferBuf,    \* the register the message in the buffer is for
    i2c,            \* the transfers in the I2C driver, oldest first
    tag,            \* the registers of the tag set so far
    failures,       \* transfers of the preparation that failed, counted up to RetriesMax
    missed          \* "lost": a full queue has dropped an event of the actor's;
                    \* "UID", "ITSTS_DYN": that transfer has failed

vars == <<opened, st, queue, pc, ft, retriesLeft, transferBuf, i2c, tag, failures, missed>>

States  == {"init", "readUID", "prepare", "idle", "readStatus", "error"}
Signals == {"readUID", "success", "fail", "maxRetries", "ready", "pulse", "readMailbox", "error"}

(* NFC_PREPARE_MAILBOX_STATE: what each step of the preparation sends.     *)
Registers == <<"I2C_PWD", "MB_MODE", "MB_CTRL_DYN", "GPO">>
FTModeEnabled == Len(Registers) + 1
Settings  == {Registers[k] : k \in DOMAIN Registers}
Transfers == Settings \cup {"UID", "ITSTS_DYN"}

(* NFC_Initialize, and the first event, which the init actor sends.  The   *)
(* GPO line may pulse in between.                                          *)
Init ==
    /\ opened \in BOOLEAN
    /\ st = "init" /\ pc = "loop"
    /\ queue \in {(IF opened THEN <<>> ELSE <<"error">>) \o p \o <<"readUID">> :
                      p \in {<<>>} \cup IF MaxPulses > 0 THEN {<<"pulse">>} ELSE {}}
    /\ ft = 0 /\ retriesLeft = RetriesMax
    /\ transferBuf = "none"
    /\ i2c = <<>>
    /\ tag = {}
    /\ failures = 0 /\ missed = {}

-----------------------------------------------------------------------------
(* Events, transitions and transfers.                                      *)

On(s, sig) == st = s /\ queue # <<>> /\ Head(queue) = sig

(* ActiveObject_Dispatch of events to a queue: a full one keeps what it    *)
(* has.                                                                    *)
Dispatched(q, sigs) == IF Len(q) + Len(sigs) <= QueueMax THEN q \o sigs ELSE q

Dispatch(sig, alsoMissed) ==
    /\ queue' = Dispatched(queue, <<sig>>)
    /\ missed' = missed \cup alsoMissed \cup (IF Len(queue) = QueueMax THEN {"lost"} ELSE {})

(* FSM_TraverseAOToNextState: leaving PREPARE_MAILBOX refreshes the        *)
(* retries, of which there are `left`.                                     *)
Traverse(s, left) ==
    /\ st' = s
    /\ retriesLeft' = IF st = "prepare" /\ (s # "prepare" \/ HooksOnSelf)
                      THEN RetriesMax ELSE left

(* DRV_I2C_WriteTransferAdd and DRV_I2C_WriteReadTransferAdd.              *)
Refused == ~opened \/ Len(i2c) = I2CQueueMax
TransferAdd(register) == i2c' = IF Refused THEN i2c ELSE Append(i2c, register)

(* NFC_DispatchErrorOnInvalidTransfer, called `times` times.               *)
ErrorOnInvalidTransfer(q, times) ==
    Dispatched(q, [k \in 1 .. IF Refused THEN times ELSE 0 |-> "error"])

(* _readUID *)
ReadUID ==
    /\ On("init", "readUID")
    /\ TransferAdd("UID")
    /\ queue' = ErrorOnInvalidTransfer(Tail(queue), 1)
    /\ Traverse("readUID", retriesLeft)
    /\ UNCHANGED <<opened, pc, ft, transferBuf, tag, failures, missed>>

-----------------------------------------------------------------------------
(* _prepareMailbox with NFC_ProcessPrepareMailboxFSM.                      *)

(* Mutant: the steps go on whatever became of the last. *)
NextStep_Always == ft + 1
(* A transfer that succeeded moves on to the next step.                    *)
NextStep == IF Head(queue) = "success" THEN ft + 1 ELSE ft

PreparesOn == On("readUID", "success") \/ On("prepare", "success") \/ On("prepare", "fail")

(* _presentI2CPwd, _allowMBModeWrite, _enableFTMode, _enableGPOPulseOnRF   *)
(* up to the call of NFC_VerifyRetries.                                    *)
SendRegister ==
    /\ PreparesOn
    /\ ft' = NextStep
    /\ ft' \in 1 .. Len(Registers)
    /\ transferBuf' = Registers[ft']
    /\ TransferAdd(Registers[ft'])
    /\ queue' = ErrorOnInvalidTransfer(Tail(queue), IF Registers[ft'] = "MB_MODE" THEN 2 ELSE 1)
    /\ pc' = "verify"
    /\ UNCHANGED <<opened, st, retriesLeft, tag, failures, missed>>

(* Mutant: the counter does not wrap. *)
OneRetryLess_NoWrap == retriesLeft - 1
OneRetryLess == (retriesLeft - 1) % ByteMod

(* Mutant: looks for the wrong number. *)
NoRetriesLeft_Never(left) == left < 0
NoRetriesLeft(left) == left = 0

(* retriesLeft--, NFC_VerifyRetries, and the end of NFC_Tasks.             *)
VerifyRetries ==
    /\ pc = "verify"
    /\ pc' = "loop"
    /\ IF NoRetriesLeft(OneRetryLess)
       THEN Dispatch("maxRetries", {}) ELSE UNCHANGED <<queue, missed>>
    /\ Traverse("prepare", OneRetryLess)
    /\ UNCHANGED <<opened, ft, transferBuf, i2c, tag, failures>>

(* The last step, or, before the first or after the last, none at all.     *)
NothingToSend ==
    /\ PreparesOn
    /\ ft' = NextStep
    /\ ft' \notin 1 .. Len(Registers)
    /\ queue' = IF ft' = FTModeEnabled THEN Append(Tail(queue), "ready") ELSE Tail(queue)
    /\ Traverse("prepare", retriesLeft)
    /\ UNCHANGED <<opened, pc, transferBuf, i2c, tag, failures, missed>>

-----------------------------------------------------------------------------
(* The other handlers.                                                     *)

(* _idle *)
Idle ==
    /\ On("prepare", "ready")
    /\ queue' = Tail(queue)
    /\ Traverse("idle", retriesLeft)
    /\ UNCHANGED <<opened, pc, ft, transferBuf, i2c, tag, failures, missed>>

(* Mutant: the cell of the table that is commented out. *)
ReadsStatus_Again == On("idle", "pulse") \/ On("readStatus", "pulse")
ReadsStatus == On("idle", "pulse")

(* _readInterruptStatus *)
ReadInterruptStatus ==
    /\ ReadsStatus
    /\ TransferAdd("ITSTS_DYN")
    /\ queue' = ErrorOnInvalidTransfer(Tail(queue), 1)
    /\ Traverse("readStatus", retriesLeft)
    /\ UNCHANGED <<opened, pc, ft, transferBuf, tag, failures, missed>>

(* _handleInterruptStatus: the phone has put a message or not.             *)
HandleInterruptStatus ==
    /\ On("readStatus", "success")
    /\ \/ queue' = Tail(queue)
       \/ queue' = Append(Tail(queue), "readMailbox")
    /\ Traverse("idle", retriesLeft)
    /\ UNCHANGED <<opened, pc, ft, transferBuf, i2c, tag, failures, missed>>

(* Mutant: the preparation gives up at the first failure. *)
GoesToError_AtOnce == \/ queue # <<>> /\ Head(queue) = "error"
                      \/ On("readUID", "fail") \/ On("prepare", "maxRetries")
                      \/ On("prepare", "fail")
GoesToError == \/ queue # <<>> /\ Head(queue) = "error"
               \/ On("readUID", "fail") \/ On("prepare", "maxRetries")

(* _error *)
Error ==
    /\ GoesToError
    /\ queue' = Tail(queue)
    /\ Traverse("error", retriesLeft)
    /\ UNCHANGED <<opened, pc, ft, transferBuf, i2c, tag, failures, missed>>

(* An event the row of the state has no handler for is dropped.            *)
Handled == \/ On("init", "readUID") \/ PreparesOn \/ On("prepare", "ready")
           \/ ReadsStatus \/ On("readStatus", "success") \/ GoesToError

Drop ==
    /\ queue # <<>> /\ ~Handled
    /\ queue' = Tail(queue)
    /\ UNCHANGED <<opened, st, pc, ft, retriesLeft, transferBuf, i2c, tag, failures, missed>>

(* NFC_Tasks *)
Tasks ==
    \/ /\ pc = "loop"
       /\ \/ ReadUID \/ SendRegister \/ NothingToSend \/ Idle
          \/ ReadInterruptStatus \/ HandleInterruptStatus \/ Error \/ Drop
    \/ VerifyRetries

-----------------------------------------------------------------------------
(* The interrupts.                                                         *)

(* What the tag takes in from a message: the driver sends what the buffer  *)
(* holds, and all but the password need the session it opens.              *)
Written(register) ==
    IF register \in Settings /\ transferBuf \in Settings
         /\ (transferBuf = "I2C_PWD" \/ "I2C_PWD" \in tag)
    THEN tag \cup {transferBuf} ELSE tag

(* NFC_TransferEventHandler: the oldest transfer has ended.                *)
TransferEvent(sig) ==
    /\ i2c # <<>>
    /\ i2c' = Tail(i2c)
    /\ Dispatch(sig, IF sig = "fail" THEN {Head(i2c)} \ Settings ELSE {})
    /\ failures' = IF sig = "fail" /\ Head(i2c) \in Settings /\ failures < RetriesMax
                   THEN failures + 1 ELSE failures
    /\ UNCHANGED <<opened, st, pc, ft, retriesLeft, transferBuf>>

TransferComplete ==
    /\ TransferEvent("success")
    /\ Head(i2c) \in Settings => transferBuf \in Written(Head(i2c))
    /\ tag' = Written(Head(i2c))

(* A message that failed may have been taken in.                           *)
TransferFailed ==
    /\ TransferEvent("fail")
    /\ tag' \in {tag, Written(Head(i2c))}

I2C == TransferComplete \/ TransferFailed

(* _onNFCGPOPinChange *)
GPOPulse ==
    /\ Len(SelectSeq(queue, LAMBDA sig : sig = "pulse")) < MaxPulses
    /\ queue' = Dispatched(queue, <<"pulse">>)
    /\ UNCHANGED <<opened, st, pc, ft, retriesLeft, transferBuf, i2c, tag, failures, missed>>

Next == Tasks \/ I2C \/ GPOPulse

(* The mode of the app actor keeps NFC_Tasks called, and the SERCOM ends   *)
(* every transfer.                                                         *)
Spec == Init /\ [][Next]_vars /\ WF_vars(Tasks) /\ WF_vars(I2C)

-----------------------------------------------------------------------------
(* Properties.                                                             *)

(* The actor's variables have their types: the step of the preparation     *)
(* never runs past its last.                                               *)
TypeOK ==
    /\ opened \in BOOLEAN
    /\ st \in States
    /\ queue \in Seq(Signals) /\ Len(queue) <= QueueMax
    /\ pc \in {"loop", "verify"}
    /\ ft \in 0 .. FTModeEnabled
    /\ retriesLeft \in 0 .. ByteMod - 1
    /\ transferBuf \in Settings \cup {"none"}
    /\ i2c \in Seq(Transfers)
    /\ tag \subseteq Settings
    /\ failures \in 0 .. RetriesMax
    /\ missed \subseteq {"lost", "UID", "ITSTS_DYN"}

(* In IDLE, and while it reads the interrupt status, the tag is set up:    *)
(* the session open, the mailbox allowed and enabled, the pulses on.       *)
MailboxReady == st \in {"idle", "readStatus"} => tag = Settings

(* The actor has one transfer at a time in the I2C driver, and does not    *)
(* touch the message in its buffer before the driver has sent it: reports  *)
(* carry no handle, so each must be about the last transfer.               *)
OneTransfer ==
    /\ Len(i2c) <= 1
    /\ \A k \in DOMAIN i2c : i2c[k] \in Settings => transferBuf = i2c[k]

(* The actor gives up only when there was no driver, when the UID could    *)
(* not be read, or when the retries are used up: all but four of the       *)
(* RetriesMax transfers have failed then.                                  *)
GivesUpLate ==
    st = "error" => ~opened \/ "UID" \in missed \/ failures >= RetriesMax - Len(Registers)

(* What waits for a transfer does not wait for ever: it ends with the tag  *)
(* set up or in ERROR, unless a report found the queue full or reading the *)
(* interrupt status failed, for which its row has no handler.              *)
TransfersAnswered ==
    (st \in {"readUID", "prepare", "readStatus"})
        ~> (st \in {"idle", "error"} \/ missed \cap {"lost", "ITSTS_DYN"} # {})
=============================================================================
