----------------------------- MODULE MemoryDriver -----------------------------
(***************************************************************************)
(* The MEMORY driver (drv_memory.c): clients open it, queue asynchronous   *)
(* read, write, erase and erase-write requests, and a task called from the *)
(* super loop turns each request into a sequence of transfers of the flash *)
(* device and reports its end to the client that made it.                  *)
(*                                                                         *)
(* Configured as in the program: one request object, polling of the device *)
(* (isMemDevInterruptEnabled = false), no RTOS (the mutexes do nothing).   *)
(* Every client opens the driver for reading and writing, not exclusively, *)
(* and sets its transfer handler before anything else.                     *)
(*                                                                         *)
(* The driver's code runs to completion in the super loop; only the SPI    *)
(* interrupt, which ends a transfer of the device, comes between.          *)
(***************************************************************************)
EXTENDS BlockRequests

CONSTANTS
    NumClients,     \* DRV_MEMORY_CLIENTS_NUMBER_IDX0
    TokenMax,       \* DRV_MEMORY_TOKEN_MAX
    WordMax,        \* the largest uint32_t
    Ew,             \* the region name of the driver's erase-write buffer
    Null, Buf,      \* the null pointer, and the one request object
    MaxRequests,    \* bound: requests accepted in a behaviour
    CloseInFlight,  \* may a client close with a request in the driver?
    EarlyRequests   \* may it call while the first open still identifies the flash?

ASSUME ConfigAssumption ==
    /\ NumClients \in Nat \ {0}
    /\ TokenMax \in Nat /\ TokenMax >= 2
    /\ WordMax \in Nat
    /\ MaxRequests \in Nat
    /\ CloseInFlight \in BOOLEAN
    /\ EarlyRequests \in BOOLEAN
    /\ Null # Buf
    /\ Ew \notin Nat

Slots   == 0 .. NumClients - 1      \* a client owns the buffer of its slot
Regions == Slots \cup {Ew}
Tokens  == 1 .. TokenMax - 1

VARIABLES
    ready,                      \* dObj->status = SYS_STATUS_READY
    client,                     \* clientObjPool: inUse and the token of the handle
    clientToken, bufferToken,
    free, head, tail, cur,      \* buffObjFree, queueHead, queueTail, currentBufObj
    buf,                        \* the request object
    state,                      \* "queue" (PROCESS_QUEUE) or "transfer"
    xfer,                       \* the sub state machines and their parameters
    dev, flash, ram,            \* the device, its content, the memory
    issued,                     \* requests accepted so far
    pending,                    \* what the accepted request asked for
    event                       \* the transfer handler's call in the last step

queueVars == <<free, head, tail, cur, buf>>
vars == <<ready, client, clientToken, bufferToken, queueVars, state, xfer,
          dev, flash, ram, issued, pending, event>>

-----------------------------------------------------------------------------
(* Types and the initial state.                                            *)

Pointers == {Null, Buf}

Handle == [slot : Slots, token : Tokens]

(* A request as its client knows it: who made it, the command handle it    *)
(* got, what it asked for, and the flash and the source as they were.      *)
Request ==
    [by : Handle, cmd : Tokens, op : Ops, start : Nat, n : Nat \ {0},
     before : [Cells -> Content], source : [Cells -> Content]]
NoRequest == [op |-> "none"]

(* A call of a transfer handler: COMMAND_COMPLETE or COMMAND_ERROR.        *)
Events  == [kind : {"complete", "error"}, to : Handle, cmd : Nat,
            for : Request \cup {NoRequest}]
NoEvent == [kind |-> "none"]

NoXfer ==
    [read |-> "init", write |-> "init", erase |-> "init", ew |-> "init",
     blockAddress |-> 0, nBlocks |-> 0, writePtr |-> <<Ew, 0>>,
     sector |-> 0, offset |-> 0, toWrite |-> 0]

Init ==
    /\ ready = FALSE
    /\ client = [s \in Slots |-> [inUse |-> FALSE, token |-> 1]]
    /\ clientToken = 1 /\ bufferToken = 1
    /\ free = Buf /\ head = Null /\ tail = Null /\ cur = Null
    /\ buf = [client |-> 0, cmd |-> 0, buffer |-> <<0, 0>>, blockStart |-> 0,
              nBlocks |-> 0, op |-> "read", status |-> "none", next |-> Null]
    /\ state = "queue"
    /\ xfer = NoXfer
    /\ dev = Quiet("completed", <<Ew, 0>>)
    /\ flash = [c \in Cells |-> <<0, c>>]
    /\ ram = [r \in Regions |-> [c \in Cells |-> Junk]]
    /\ issued = 0
    /\ pending = NoRequest
    /\ event = NoEvent

-----------------------------------------------------------------------------
(* Clients: open, close and the four asynchronous requests.                *)

(* Mutant: wraps one too late. *)
NextToken_Late(t) == IF t + 1 > TokenMax THEN 1 ELSE t + 1
(* DRV_MEMORY_UPDATE_TOKEN *)
NextToken(t) == IF t + 1 >= TokenMax THEN 1 ELSE t + 1

(* The client object the search of DRV_MEMORY_Open stops at.               *)
FirstFree(s) == ~client[s].inUse /\ \A t \in Slots : t < s => client[t].inUse

HandleOf(s) == [slot |-> s, token |-> client[s].token]

(* DRV_MEMORY_Open: the first call also opens the device and asks for its  *)
(* geometry; every call takes the first free client object.  Without one   *)
(* it returns DRV_HANDLE_INVALID and changes nothing.                      *)
Open(s) ==
    /\ FirstFree(s)
    /\ client' = [client EXCEPT ![s] = [inUse |-> TRUE, token |-> clientToken]]
    /\ clientToken' = NextToken(clientToken)
    /\ ready' = TRUE
    /\ dev' = IF ready THEN dev ELSE OpenAndIdentify(dev)
    /\ event' = NoEvent
    /\ UNCHANGED <<bufferToken, queueVars, state, xfer, flash, ram, issued, pending>>

(* Mutant: does not ask whose request it is. *)
RemoveClientBufferObjects_Any(s) ==
    /\ head' = Null /\ tail' = Null
    /\ free' = Buf
    /\ UNCHANGED buf

(* DRV_MEMORY_RemoveClientBufferObjects: the request of the client leaves  *)
(* the queue for the free list; the transfer in progress, currentBufObj    *)
(* and the state of the task are left as they are.  The tail becomes NULL  *)
(* when the queue is not empty.  The guards leave out the walks that never *)
(* end, over an object linked to itself.                                   *)
RemoveClientBufferObjects(s) ==
    IF head = Buf /\ buf.client = s
    THEN /\ buf.next = Null \/ free = Null
         /\ head' = buf.next
         /\ tail' = IF buf.next = Null THEN Buf ELSE Null
         /\ free' = Buf
         /\ buf' = [buf EXCEPT !.next = IF @ = Null THEN free ELSE Buf]
    ELSE /\ head = Buf => buf.next = Null
         /\ tail' = Null
         /\ UNCHANGED <<head, free, buf>>

(* The client in slot s has not yet been told about its request.           *)
Waits(s) == pending # NoRequest /\ pending.by = HandleOf(s)

(* DRV_MEMORY_Close *)
Close(s) ==
    /\ client[s].inUse
    /\ Waits(s) => CloseInFlight
    /\ RemoveClientBufferObjects(s)
    /\ client' = [client EXCEPT ![s].inUse = FALSE]
    /\ pending' = IF Waits(s) THEN NoRequest ELSE pending
    /\ event' = NoEvent
    /\ UNCHANGED <<ready, clientToken, bufferToken, cur, state, xfer, dev, flash, ram, issued>>

(* What a client puts in its buffer before it asks for a write.            *)
Source(s, op, w) == IF op \in {"write", "erasewrite"}
                    THEN [c \in Cells |-> <<w, c>>] ELSE ram[s]

(* DRV_MEMORY_AllocateBufferObject, with an object in the free list.  The  *)
(* guard leaves out the write through a NULL tail.                         *)
AllocateBufferObject(s, op, start, n) ==
    /\ free = Buf
    /\ head # Null => tail # Null
    /\ free' = buf.next
    /\ buf' = [client |-> s, cmd |-> bufferToken, buffer |-> <<s, 0>>,
               blockStart |-> start, nBlocks |-> n, op |-> op,
               status |-> "queued", next |-> IF head = Null THEN Null ELSE Buf]
    /\ bufferToken' = NextToken(bufferToken)
    /\ head' = Buf
    /\ tail' = Buf
    /\ UNCHANGED cur

(* DRV_MEMORY_AsyncRead, AsyncWrite, AsyncErase and AsyncEraseWrite, each  *)
(* a call of DRV_MEMORY_SetupXfer.  A call it turns down (an invalid       *)
(* handle, a bad range, no free request object) changes nothing.           *)
Async(s, op, start, n) ==
    /\ client[s].inUse /\ ready
    /\ n # 0 /\ start + n <= NumBlocks(op)
    /\ issued < MaxRequests
    /\ dev.active => EarlyRequests
    /\ AllocateBufferObject(s, op, start, n)
    /\ ram' = [ram EXCEPT ![s] = Source(s, op, issued + 1)]
    /\ issued' = issued + 1
    /\ pending' = [by |-> HandleOf(s), cmd |-> bufferToken, op |-> op, start |-> start,
                   n |-> n, before |-> flash, source |-> Source(s, op, issued + 1)]
    /\ event' = NoEvent
    /\ UNCHANGED <<ready, client, clientToken, state, xfer, dev, flash>>

-----------------------------------------------------------------------------
(* The sub state machines.  Each works on a machine record [x, dev, st]:   *)
(* the driver's parameters, the device, and the status it returns.         *)

Minus(a, b) == (a - b) % (WordMax + 1)      \* uint32_t
Ahead(ptr, k) == <<ptr[1], ptr[2] + k>>

Failed(m, d) == [m EXCEPT !.dev = d, !.st = "error"]

(* DRV_MEMORY_HandleRead.  The address is computed in READ_INIT only.      *)
HandleRead(m, ptr, start, n) ==
    LET address == IF m.x.read = "init" THEN start * BlockSize("read") ELSE 0
        sub == IF m.x.read = "status" THEN [ok |-> TRUE, dev |-> m.dev]
               ELSE Read(m.dev, ptr, n, address)
    IN  IF sub.ok
        THEN [m EXCEPT !.x.read = "status", !.dev = sub.dev, !.st = sub.dev.status]
        ELSE Failed([m EXCEPT !.x.read = "mem"], sub.dev)

(* Mutant: the blocks that are done are not counted. *)
OneBlockLess_Not(m) == m
(* A block of a write or an erase is done: one less to go.                 *)
OneBlockLess(m) == [m EXCEPT !.x.nBlocks = Minus(@, 1)]

(* A page is written: on to the next, if there is one.                     *)
NextPage(m) ==
    LET c == OneBlockLess(m)
    IN  IF c.x.nBlocks = 0 THEN c
        ELSE [c EXCEPT !.x.blockAddress = @ + BlockSize("write"),
                       !.x.writePtr = Ahead(@, BlockSize("write")),
                       !.x.write = "mem", !.st = "busy"]

(* DRV_MEMORY_HandleWrite *)
HandleWrite(m, ptr, start, n) ==
    LET a == IF m.x.write # "init" THEN m
             ELSE [m EXCEPT !.x.blockAddress = start * BlockSize("write"),
                            !.x.nBlocks = n, !.x.writePtr = ptr, !.x.write = "mem"]
        sub == IF a.x.write = "status" THEN [ok |-> TRUE, dev |-> a.dev]
               ELSE PageWrite(a.dev, a.x.writePtr, a.x.blockAddress)
        b == [a EXCEPT !.x.write = "status", !.dev = sub.dev, !.st = sub.dev.status]
    IN  IF ~sub.ok THEN Failed(a, sub.dev)
        ELSE IF b.st = "completed" THEN NextPage(b) ELSE b

(* A sector is erased: on to the next, if there is one.                    *)
NextSector(m) ==
    LET c == OneBlockLess(m)
    IN  IF c.x.nBlocks = 0 THEN c
        ELSE [c EXCEPT !.x.blockAddress = @ + BlockSize("erase"),
                       !.x.erase = "cmd", !.st = "busy"]

(* DRV_MEMORY_HandleErase *)
HandleErase(m, start, n) ==
    LET a == IF m.x.erase # "init" THEN m
             ELSE [m EXCEPT !.x.blockAddress = start * BlockSize("erase"),
                            !.x.nBlocks = n, !.x.erase = "cmd"]
        sub == IF a.x.erase = "status" THEN [ok |-> TRUE, dev |-> a.dev]
               ELSE SectorErase(a.dev, a.x.blockAddress)
        b == [a EXCEPT !.x.erase = "status", !.dev = sub.dev, !.st = sub.dev.status]
    IN  IF ~sub.ok THEN Failed(a, sub.dev)
        ELSE IF b.st = "completed" THEN NextSector(b) ELSE b

-----------------------------------------------------------------------------
(* DRV_MEMORY_HandleEraseWrite, one operator per state of ewState.  It     *)
(* also changes the request object and, in memory, the erase-write buffer, *)
(* so its machine records have the fields buf and ram too.                 *)

(* Mutant: the rest of the sector, however little was asked for. *)
Smaller_Rest(a, b) == b
Smaller(a, b) == IF a < b THEN a ELSE b

(* Mutant: copies the client's pages to the start of the sector. *)
Overlaid_AtStart(m) ==
    [m.ram EXCEPT ![Ew] = [o \in DOMAIN @ |->
        IF o < m.x.toWrite * PageSize THEN MemoryAt(m.ram, m.buf.buffer, o) ELSE @[o]]]

(* memcpy of the client's pages over the sector read into ewBuffer.        *)
Overlaid(m) ==
    [m.ram EXCEPT ![Ew] = [o \in DOMAIN @ |->
        IF o \in m.x.offset .. m.x.offset + m.x.toWrite * PageSize - 1
        THEN MemoryAt(m.ram, m.buf.buffer, o - m.x.offset) ELSE @[o]]]

EwEraseSector(m) ==
    LET e == HandleErase(m, m.x.sector, 1)
    IN  IF e.st = "completed"
        THEN [e EXCEPT !.x.ew = "write", !.st = "busy"]
        ELSE e

EwReadSector(m) ==
    LET r == HandleRead(m, <<Ew, 0>>, m.x.sector * SectorSize, SectorSize)
        o == [r EXCEPT !.x.offset = @ * PageSize, !.x.ew = "erase"]
    IN  IF r.st = "completed"
        THEN EwEraseSector([o EXCEPT !.ram = Overlaid(o)])
        ELSE r

EwInit(m) ==
    LET offset  == m.buf.blockStart % PagesPerSector
        toWrite == Smaller(m.buf.nBlocks, PagesPerSector - offset)
        a == [m EXCEPT !.x = [@ EXCEPT
                 !.read = "init", !.erase = "init", !.write = "init",
                 !.sector = m.buf.blockStart \div PagesPerSector,
                 !.offset = offset, !.toWrite = toWrite]]
    IN  IF toWrite # PagesPerSector
        THEN EwReadSector([a EXCEPT !.x.writePtr = <<Ew, 0>>, !.x.ew = "read"])
        ELSE [a EXCEPT !.x.writePtr = m.buf.buffer, !.x.ew = "erase", !.st = "busy"]

EwWriteSector(m) ==
    LET w == HandleWrite(m, m.x.writePtr, m.x.sector * PagesPerSector, PagesPerSector)
    IN  IF w.st # "completed" \/ w.buf.nBlocks = w.x.toWrite
        THEN w
        ELSE [w EXCEPT !.buf.nBlocks = Minus(@, w.x.toWrite),
                       !.buf.blockStart = @ + w.x.toWrite,
                       !.buf.buffer = Ahead(@, w.x.toWrite * PageSize),
                       !.x.ew = "init", !.st = "busy"]

HandleEraseWrite(m) ==
    CASE m.x.ew = "read"  -> EwReadSector(m)
      [] m.x.ew = "erase" -> EwEraseSector(m)
      [] m.x.ew = "write" -> EwWriteSector(m)
      [] OTHER -> EwInit(m)

(* gMemoryXferFuncPtr *)
Transfer(m) ==
    CASE m.buf.op = "read"  -> HandleRead(m, m.buf.buffer, m.buf.blockStart, m.buf.nBlocks)
      [] m.buf.op = "write" -> HandleWrite(m, m.buf.buffer, m.buf.blockStart, m.buf.nBlocks)
      [] m.buf.op = "erase" -> HandleErase(m, m.buf.blockStart, m.buf.nBlocks)
      [] OTHER -> HandleEraseWrite(m)

-----------------------------------------------------------------------------
(* DRV_MEMORY_Tasks and the interrupt.                                     *)

(* Mutant: the queue head stays. *)
ReturnToFreeList_HeadKept(b, status) ==
    /\ buf' = [b EXCEPT !.status = status, !.next = free]
    /\ free' = Buf
    /\ UNCHANGED head

(* The queue after the processed object went back to the free list.  With  *)
(* an empty queue the code reads the link of a NULL object: address 32, a  *)
(* reserved word of the vector table, which is 0.                          *)
ReturnToFreeList(b, status) ==
    /\ head' = IF head = Null THEN Null ELSE b.next
    /\ buf' = [b EXCEPT !.status = status, !.next = free]
    /\ free' = Buf

(* The client's transfer handler, whoever holds the slot by now.           *)
CallHandler(b, kind) ==
    /\ event' = [kind |-> kind, to |-> HandleOf(b.client), cmd |-> b.cmd, for |-> pending]
    /\ pending' = NoRequest

(* One call of the transfer function, and what Tasks does with its status. *)
Step(x, b) ==
    /\ UNCHANGED <<ready, client, clientToken, bufferToken, tail, flash, issued>>
    /\ \E m \in {Transfer([x |-> x, dev |-> dev, st |-> "error", buf |-> b, ram |-> ram])} :
        /\ xfer' = m.x
        /\ dev' = m.dev
        /\ ram' = m.ram
        /\ IF m.st = "busy"
           THEN /\ state' = "transfer"
                /\ buf' = m.buf
                /\ event' = NoEvent
                /\ UNCHANGED <<head, free, pending>>
           ELSE /\ state' = "queue"
                /\ ReturnToFreeList(m.buf, m.st)
                /\ CallHandler(m.buf, IF m.st = "completed" THEN "complete" ELSE "error")

TasksIdle ==
    /\ ready /\ state = "queue" /\ head = Null
    /\ cur' = Null /\ tail' = Null
    /\ event' = NoEvent
    /\ UNCHANGED <<ready, client, clientToken, bufferToken, free, head, buf, state,
                   xfer, dev, flash, ram, issued, pending>>

TasksStart ==
    /\ ready /\ state = "queue" /\ head = Buf
    /\ cur' = Buf
    /\ Step([xfer EXCEPT !.read = "init", !.write = "init", !.erase = "init", !.ew = "init"],
            [buf EXCEPT !.status = "in_progress"])

TasksTransfer ==
    /\ ready /\ state = "transfer"
    /\ UNCHANGED cur
    /\ Step(xfer, buf)

Tasks == TasksIdle \/ TasksStart \/ TasksTransfer

(* The last SPI interrupt of the running chain.                            *)
DeviceDone ==
    /\ dev.active
    /\ \E o \in Finish(dev, flash, ram) :
           dev' = o.dev /\ flash' = o.flash /\ ram' = o.ram
    /\ event' = NoEvent
    /\ UNCHANGED <<ready, client, clientToken, bufferToken, queueVars, state, xfer,
                   issued, pending>>

Next ==
    \/ \E s \in Slots : Open(s) \/ Close(s)
    \/ \E s \in Slots, op \in Ops : \E start \in 0 .. NumBlocks(op) - 1 :
           \E n \in 1 .. NumBlocks(op) - start : Async(s, op, start, n)
    \/ Tasks
    \/ DeviceDone

(* The super loop never stops calling the task, and a transfer the SPI     *)
(* accepted ends.                                                          *)
Fairness == WF_vars(Tasks) /\ WF_vars(DeviceDone)

Spec == Init /\ [][Next]_vars /\ Fairness

-----------------------------------------------------------------------------
(* Properties.                                                             *)

RamType == [Regions -> [Cells -> Content]]

XferType ==
    [read : {"init", "mem", "status"}, write : {"init", "mem", "status"},
     erase : {"init", "cmd", "status"}, ew : {"init", "read", "erase", "write"},
     blockAddress : Nat, nBlocks : Nat, writePtr : Regions \X Nat,
     sector : Nat, offset : Nat, toWrite : Nat]

BufType ==
    [client : Slots, cmd : Nat, buffer : Regions \X Nat, blockStart : Nat, nBlocks : Nat,
     op : Ops, status : {"none", "queued", "in_progress", "completed", "error"},
     next : Pointers]

(* The variables of the driver, the device and the clients have their      *)
(* types.                                                                  *)
TypeOK ==
    /\ ready \in BOOLEAN
    /\ client \in [Slots -> [inUse : BOOLEAN, token : Tokens]]
    /\ clientToken \in Tokens /\ bufferToken \in Tokens
    /\ free \in Pointers /\ head \in Pointers /\ tail \in Pointers /\ cur \in Pointers
    /\ buf \in BufType
    /\ state \in {"queue", "transfer"}
    /\ xfer \in XferType
    /\ dev \in DevType(Regions)
    /\ flash \in [Cells -> Content]
    /\ ram \in RamType
    /\ issued \in 0 .. MaxRequests
    /\ pending \in Request \cup {NoRequest}
    /\ event \in Events \cup {NoEvent}

(* The request object is where the request is: on the free list, alone,    *)
(* when no client waits for an answer, and otherwise alone in the queue,   *)
(* with the client, the handle and the operation that client asked for,    *)
(* and with a status that lets nobody who polls it (CommandStatusGet)      *)
(* believe that it has ended.                                              *)
BufferAccounted ==
    /\ buf.next = Null
    /\ (free = Buf) <=> (head = Null)
    /\ (pending = NoRequest) <=> (head = Null)
    /\ state = "transfer" => head = Buf /\ cur = Buf
    /\ pending # NoRequest =>
         /\ pending.by.slot = buf.client /\ pending.cmd = buf.cmd /\ pending.op = buf.op
         /\ buf.status = IF state = "transfer" THEN "in_progress" ELSE "queued"

(* A transfer handler is called once for each accepted request, for the    *)
(* client that made it, still open with the handle it then had, and with   *)
(* that request's command handle: never for nothing, never twice, never    *)
(* for a client that took over the slot.                                   *)
ReportsMatch ==
    event # NoEvent =>
        /\ event.for # NoRequest
        /\ event.to = event.for.by /\ client[event.to.slot].inUse
        /\ event.cmd = event.for.cmd

(* drv_memory.h:175: a COMMAND_COMPLETE event means that the operation     *)
(* asked for was carried out: the flash holds what the request makes of    *)
(* what it held when it was accepted, neighbours in the same sectors       *)
(* included, and a read's buffer holds what the flash held.                *)
CompleteMeansDone ==
    event.kind = "complete" /\ event.for # NoRequest =>
        /\ flash = FlashAfter(event.for, event.for.before)
        /\ event.for.op = "read" =>
             ram[event.for.by.slot] = BufferAfter(event.for, event.for.before)

(* At every moment of a request, so also where power may fail or the       *)
(* device report an error, the flash differs from what it was before only  *)
(* in the sectors (for an erase-write), the blocks otherwise, it names.    *)
DamageConfined ==
    pending # NoRequest =>
        \A c \in Cells \ Footprint(pending) : flash[c] = pending.before[c]

(* Every accepted request is eventually reported.                          *)
EveryRequestReported == (pending # NoRequest) ~> (event # NoEvent)

=============================================================================
