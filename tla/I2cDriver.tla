------------------------------ MODULE I2cDriver ------------------------------
(***************************************************************************)
(* The I2C driver (drv_i2c.c) on the SERCOM I2C master                     *)
(* (plib_sercom0_i2c_master.c).  Clients open it and add transfers from    *)
(* the super loop or from their event handler; the driver keeps them in a  *)
(* list and hands the master one at a time; the interrupt moves a byte, or *)
(* ends the transfer, tells the client and starts the next.                *)
(*                                                                         *)
(* The driver's calls disable the I2C interrupt while they touch the list, *)
(* so each is one step, except DRV_I2C_Close, which enables it again       *)
(* before it gives up the client object.  No interrupt is taken for a      *)
(* transfer that was aborted.                                              *)
(***************************************************************************)
EXTENDS Positions

CONSTANTS
    NumClients,     \* DRV_I2C_CLIENTS_NUMBER_IDX0
    PoolSize,       \* DRV_I2C_QUEUE_SIZE_IDX0
    TokenMax,       \* DRV_I2C_TOKEN_MAX
    Shapes          \* the transfers: <<bytes to write, bytes to read>>

ASSUME I2cAssumption ==
    /\ NumClients \in Nat \ {0} /\ PoolSize \in Nat \ {0}
    /\ TokenMax \in Nat /\ TokenMax > 1
    /\ Shapes \subseteq (Nat \X Nat) \ {<<0, 0>>}

Clients == 1 .. NumClients
Objects == 1 .. PoolSize
Tokens  == 1 .. TokenMax - 1

VARIABLES
    client,     \* clientObjPool: the token of the handle (0: not in use),
                \* is a handler set?
    exclusive,  \* isExclusive
    token,      \* i2cTokenCount
    q,          \* the transfer objects, the list, the master
    closing,    \* the client in the middle of DRV_I2C_Close, or 0
    told,       \* what a handler was told in the last step
    last        \* per client: its last transfer, and what became of it

vars == <<client, exclusive, token, q, closing, told, last>>

(* A client handle is <<index, token>>, a transfer handle <<object, token>>. *)
NoHandle == <<0, 0>>
ClientHandle(c) == <<c, client[c].token>>
TransferHandle(s, o) == <<o, s.obj[o].token>>
NotInUse == [token |-> 0, handler |-> FALSE]
InUse(c) == client[c].token # 0

NoBytes == <<0, 0>>
IdleMaster == [state |-> "idle", shape |-> NoBytes, written |-> 0, read |-> 0, error |-> "none"]

Silence == [to |-> NoHandle, id |-> NoHandle, event |-> "none"]
NoTransfer == [id |-> NoHandle, fate |-> "none"]

Init ==
    /\ client = [c \in Clients |-> NotInUse]
    /\ exclusive = FALSE
    /\ token = 1
    /\ q = [obj |-> [o \in Objects |-> [state |-> "free", token |-> 0, owner |-> NoHandle,
                                        shape |-> NoBytes, event |-> "pending"]],
            list |-> <<>>, master |-> IdleMaster, refused |-> FALSE]
    /\ closing = 0
    /\ told = Silence
    /\ last = [c \in Clients |-> NoTransfer]

(* Mutant: the token passes its maximum. *)
NextToken_Late == IF token >= TokenMax THEN 1 ELSE token + 1
(* lDRV_I2C_UPDATE_TOKEN *)
NextToken == IF token + 1 >= TokenMax THEN 1 ELSE token + 1

-----------------------------------------------------------------------------
(* The list and the master, as operators on s = q.                         *)

(* SERCOM0_I2C_XferSetup.                                                  *)
(* It refuses only while a transfer is under way; the driver never asks it *)
(* then (ListMatchesBus), and what it would do is not modelled.            *)
Start(s, o) ==
    IF s.master.state # "idle" THEN [s EXCEPT !.refused = TRUE]
    ELSE [s EXCEPT
            !.obj[o].state = "processing",
            !.master = [state |-> IF s.obj[o].shape[1] = 0 THEN "read" ELSE "write",
                        shape |-> s.obj[o].shape, written |-> 0, read |-> 0,
                        error |-> "none"]]

(* lDRV_I2C_FreeTransferObjGet: the first free object.                     *)
FreeObjects(s) == {o \in Objects : s.obj[o].state = "free"}
FirstFree(s) == CHOOSE o \in FreeObjects(s) : \A p \in FreeObjects(s) : o <= p

(* lDRV_I2C_WriteReadTransferAdd for client c, once it has an object.      *)
Added(s, c, shape) ==
    LET o == FirstFree(s)
        queued == [s EXCEPT
                     !.obj[o] = [state |-> "queued", token |-> token, owner |-> ClientHandle(c),
                                 shape |-> shape, event |-> "pending"],
                     !.list = Append(@, o)]
    IN  IF s.list = <<>> THEN Start(queued, o) ELSE queued

(* What is left of a transfer object in the pool: only its handle and its  *)
(* event are read again.                                                   *)
Freed(object) == [object EXCEPT !.state = "free", !.owner = NoHandle, !.shape = NoBytes]

(* lDRV_I2C_RemoveTransferObjFromList *)
Removed(s) == [s EXCEPT !.obj[Head(s.list)] = Freed(@), !.list = Tail(@)]

(* Mutant: also takes the transfer that is under way. *)
Withdrawn_All(s, o, c) == s.obj[o].owner = ClientHandle(c)
Withdrawn(s, o, c) == s.obj[o].owner = ClientHandle(c) /\ s.obj[o].state = "queued"

(* lDRV_I2C_RemoveClientTransfersFromList                                  *)
RemoveClientTransfers(s, c) ==
    LET out == {k \in DOMAIN s.list : Withdrawn(s, s.list[k], c)}
    IN  [s EXCEPT
           !.list = Without(@, out),
           !.obj = [o \in Objects |->
                      IF \E k \in out : s.list[k] = o
                      THEN [Freed(s.obj[o]) EXCEPT !.event = "complete"]
                      ELSE s.obj[o]]]

(* lDRV_I2C_NextTransferInitiate *)
Initiated(s) ==
    IF s.list # <<>> /\ s.obj[Head(s.list)].state = "queued"
    THEN Start(s, Head(s.list)) ELSE s

-----------------------------------------------------------------------------
(* The calls of the clients, from the super loop.                          *)

Fate(f, id, what) ==
    [c \in Clients |-> IF f[c].id = id THEN [f[c] EXCEPT !.fate = what] ELSE f[c]]

(* While a handle is in use or remembered, fewer than TokenMax others are  *)
(* given out: a token does not come round to the same handle.              *)
FreshClient(c) == \A o \in Objects : q.obj[o].owner # <<c, token>> \/ q.obj[o].state = "free"
FreshTransfer(o) == \A c \in Clients : last[c].id # <<o, token>>

(* DRV_I2C_Open takes the first client object that is free; the client     *)
(* sets its handler at once (DRV_I2C_TransferEventHandlerSet), or never.   *)
Open(c, forItself, listens) ==
    /\ closing = 0
    /\ ~InUse(c) /\ \A d \in Clients : d < c => InUse(d)
    /\ ~exclusive
    /\ forItself => \A d \in Clients : ~InUse(d)
    /\ FreshClient(c)
    /\ client' = [client EXCEPT ![c] = [token |-> token, handler |-> listens]]
    /\ exclusive' = forItself
    /\ token' = NextToken
    /\ told' = Silence
    /\ UNCHANGED <<q, closing, last>>

(* DRV_I2C_Close up to where it enables the interrupt again, and the rest. *)
CloseBegin(c) ==
    /\ closing = 0 /\ InUse(c)
    /\ closing' = c
    /\ q' = RemoveClientTransfers(q, c)
    /\ last' = [last EXCEPT ![c] = NoTransfer]
    /\ told' = Silence
    /\ UNCHANGED <<client, exclusive, token>>

CloseEnd ==
    /\ closing # 0
    /\ client' = [client EXCEPT ![closing] = NotInUse]
    /\ last' = [last EXCEPT ![closing] = NoTransfer]
    /\ exclusive' = FALSE
    /\ closing' = 0
    /\ told' = Silence
    /\ UNCHANGED <<token, q>>

(* DRV_I2C_ReadTransferAdd, DRV_I2C_WriteTransferAdd and                   *)
(* DRV_I2C_WriteReadTransferAdd.  Without a free object they give no       *)
(* handle, and nothing changes.                                            *)
TransferAdd(c, shape) ==
    /\ closing = 0 /\ InUse(c)
    /\ FreeObjects(q) # {} /\ FreshTransfer(FirstFree(q))
    /\ q' = Added(q, c, shape)
    /\ token' = NextToken
    /\ last' = [last EXCEPT ![c] = [id |-> <<FirstFree(q), token>>, fate |-> "pending"]]
    /\ told' = Silence
    /\ UNCHANGED <<client, exclusive, closing>>

(* DRV_I2C_QueuePurge aborts the transfer under way if it is the client's, *)
(* and then starts the next.                                               *)
QueuePurge(c) ==
    /\ closing = 0 /\ InUse(c)
    /\ LET aborts == q.list # <<>> /\ q.obj[Head(q.list)].owner = ClientHandle(c)
                       /\ q.obj[Head(q.list)].state = "processing"
           top == IF aborts
                  THEN Removed([q EXCEPT !.master = IdleMaster])
                  ELSE q
           rest == RemoveClientTransfers(top, c)
       IN  q' = IF aborts THEN Initiated(rest) ELSE rest
    /\ last' = [last EXCEPT ![c].fate = IF @ = "pending" THEN "purged" ELSE @]
    /\ told' = Silence
    /\ UNCHANGED <<client, exclusive, token, closing>>

(* DRV_I2C_TransferStatusGet, which changes nothing.                       *)
(* Mutant: an object that was taken again answers for its old transfer. *)
TransferStatus_Any(id) == q.obj[id[1]].event
TransferStatus(id) ==
    IF id = TransferHandle(q, id[1]) THEN q.obj[id[1]].event ELSE "expired"

Call == \/ \E c \in Clients :
             \/ \E forItself, listens \in BOOLEAN : Open(c, forItself, listens)
             \/ CloseBegin(c) \/ QueuePurge(c)
             \/ \E shape \in Shapes : TransferAdd(c, shape)
        \/ CloseEnd

-----------------------------------------------------------------------------
(* SERCOM0_I2C_InterruptHandler: what the bus has done with the address or *)
(* the last byte.                                                          *)

Outcomes == {"ack", "nak"}

(* Mutant: leaves out the last byte. *)
LastRead_Early(m) == m.shape[2] <= m.read + 2
LastRead(m) == m.shape[2] = m.read + 1

(* Mutant: a transfer that is not acknowledged starts over. *)
Moved_Retries(m, outcome) ==
    CASE outcome # "ack" -> [m EXCEPT !.written = 0, !.read = 0]
      [] outcome = "ack" /\ m.state = "write" ->
           IF m.written < m.shape[1] THEN [m EXCEPT !.written = @ + 1]
           ELSE [m EXCEPT !.state = IF m.shape[2] # 0 THEN "read" ELSE "done"]
      [] outcome = "ack" /\ m.state = "read" ->
           [m EXCEPT !.read = @ + 1, !.state = IF LastRead(m) THEN "done" ELSE @]
(* The master after the interrupt, in state DONE or ERROR at the end.      *)
Moved(m, outcome) ==
    CASE outcome # "ack" -> [m EXCEPT !.state = "error", !.error = outcome]
      [] outcome = "ack" /\ m.state = "write" ->
           IF m.written < m.shape[1] THEN [m EXCEPT !.written = @ + 1]
           ELSE [m EXCEPT !.state = IF m.shape[2] # 0 THEN "read" ELSE "done"]
      [] outcome = "ack" /\ m.state = "read" ->
           [m EXCEPT !.read = @ + 1, !.state = IF LastRead(m) THEN "done" ELSE @]

Byte(outcome) ==
    /\ q.master.state # "idle"
    /\ LET m == Moved(q.master, outcome)
       IN  m.state \in {"read", "write"} /\ q' = [q EXCEPT !.master = m]
    /\ told' = Silence
    /\ UNCHANGED <<client, exclusive, token, closing, last>>

(* Mutant: does not look whether the client has closed meanwhile. *)
Alive_Always(owner) == TRUE
(* The client that submitted the transfer still has the driver open.       *)
Alive(owner) == client[owner[1]].token = owner[2]

(* lDRV_I2C_ClientCallback for object o; the client's handler may add a    *)
(* transfer (of some shape) when it is called.                             *)
Told(o, event, idle, shape) ==
    \E c \in {q.obj[o].owner[1]}, freed \in {Removed([idle EXCEPT !.obj[o].event = event])} :
        /\ told' = IF client[c].handler
                   THEN [to |-> ClientHandle(c), id |-> TransferHandle(q, o), event |-> event]
                   ELSE Silence
        /\ IF shape = NoBytes
           THEN /\ q' = Initiated(freed)
                /\ last' = Fate(last, TransferHandle(q, o), event)
                /\ UNCHANGED token
           ELSE /\ client[c].handler /\ FreshTransfer(FirstFree(freed))
                /\ q' = Initiated(Added(freed, c, shape))
                /\ last' = [Fate(last, TransferHandle(q, o), event) EXCEPT
                             ![c] = [id |-> <<FirstFree(freed), token>>, fate |-> "pending"]]
                /\ token' = NextToken

(* lDRV_I2C_PLibCallbackHandler                                            *)
TransferEnded(o, event, idle, shape) ==
    IF Alive(q.obj[o].owner)
    THEN Told(o, event, idle, shape)
    ELSE /\ shape = NoBytes
         /\ q' = Initiated(Removed(idle))
         /\ told' = Silence
         /\ UNCHANGED <<token, last>>

(* The last interrupt of a transfer.                                       *)
TransferEnd(outcome, shape) ==
    /\ q.master.state # "idle"
    /\ UNCHANGED <<client, exclusive, closing>>
    /\ \E m \in {Moved(q.master, outcome)}, o \in {Head(q.list)} :
         /\ m.state \in {"done", "error"}
         /\ \E event \in {IF m.error = "none" THEN "complete" ELSE "error"},
               idle \in {[q EXCEPT !.master = IdleMaster]} :
              TransferEnded(o, event, idle, shape)

Interrupt == \E outcome \in Outcomes :
                \/ Byte(outcome)
                \/ \E shape \in Shapes \cup {NoBytes} : TransferEnd(outcome, shape)

Next == Call \/ Interrupt

(* The interrupt of the bus comes as long as a transfer is under way.      *)
Spec == Init /\ [][Next]_vars /\ WF_vars(Interrupt)

-----------------------------------------------------------------------------
(* Properties.                                                             *)

(* The variables have their types.                                         *)
ObjType == [state : {"free", "queued", "processing"}, token : 0 .. TokenMax - 1,
            owner : (0 .. NumClients) \X (0 .. TokenMax - 1), shape : Shapes \cup {NoBytes},
            event : {"pending", "complete", "error"}]

TypeOK ==
    /\ client \in [Clients -> [token : 0 .. TokenMax - 1, handler : BOOLEAN]]
    /\ exclusive \in BOOLEAN /\ token \in Tokens
    /\ q.obj \in [Objects -> ObjType]
    /\ q.list \in Seq(Objects)
    /\ q.master \in [state : {"idle", "read", "write"}, shape : Shapes \cup {NoBytes},
                     written : Nat, read : Nat, error : {"none", "nak"}]
    /\ closing \in 0 .. NumClients
    /\ \A c \in Clients : last[c].fate \in {"none", "pending", "complete", "error", "purged"}

(* The list holds each transfer object that is not free, once; the oldest  *)
(* is the one the master is busy with, and the others wait: no transfer    *)
(* object is lost or used twice, and the master is never asked to start    *)
(* while it is busy.  A driver opened for one client has one client.       *)
ListMatchesBus ==
    /\ \A j, k \in DOMAIN q.list : q.list[j] = q.list[k] => j = k
    /\ \A o \in Objects : q.obj[o].state # "free" <=> \E k \in DOMAIN q.list : q.list[k] = o
    /\ \A k \in DOMAIN q.list : q.obj[q.list[k]].state = "processing" <=> k = 1
    /\ q.master.state # "idle" <=> q.list # <<>>
    /\ ~q.refused
    /\ exclusive => \A c, d \in Clients : InUse(c) /\ InUse(d) => c = d

(* DRV_I2C_TransferStatusGet tells a client what became of its last        *)
(* transfer, as long as it has not purged it: PENDING exactly while it is  *)
(* in the driver, and then its outcome, until the object is used again.    *)
StatusTruthful ==
    \A c \in Clients :
        \/ last[c].fate = "pending" /\ TransferStatus(last[c].id) = "pending"
        \/ last[c].fate \in {"complete", "error"}
             /\ TransferStatus(last[c].id) \in {last[c].fate, "expired"}
        \/ last[c].fate \in {"none", "purged"}

(* A transfer ends COMPLETE only when all its bytes were sent and received. *)
CompleteMeansWhole ==
    [][told'.event = "complete" =>
          /\ q.master.written = q.master.shape[1]
          /\ \/ q.master.shape[2] = 0 /\ q.master.state = "write"
             \/ q.master.shape[2] = q.master.read + 1]_vars

(* The driver does what I2cBus promises: first come, first served, and     *)
(* every end is told once, to the client that submitted the transfer, if   *)
(* it has a handler and has not closed; the object's next owner is not.    *)
Waiting(s) ==
    [k \in DOMAIN s.list |-> [by |-> s.obj[s.list[k]].owner, id |-> TransferHandle(s, s.list[k])]]
Listening == {ClientHandle(c) : c \in {d \in Clients : InUse(d) /\ client[d].handler}}

Bus == INSTANCE I2cBus WITH waiting <- Waiting(q), listening <- Listening, told <- told

ImplementsBus == Bus!BusBehaviour

(* Every transfer leaves the driver, withdrawn or ended, also when its     *)
(* client closes meanwhile: its object becomes free, unless the handler    *)
(* that is told of its end takes the object again at once.                 *)
EveryTransferEnds ==
    \A o \in Objects : q.obj[o].state # "free" ~> q.obj[o].state = "free" \/ told.id[1] = o
=============================================================================
