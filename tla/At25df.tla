-------------------------------- MODULE At25df --------------------------------
(***************************************************************************)
(* The AT25DF driver (drv_at25df.c) on the SPI master, with the flash part *)
(* at the other end of the wire, byte by byte.  A call selects the chip    *)
(* and starts one SPI transfer; the callback at its end, in the interrupt, *)
(* starts the next of the chain, until the state machine says the request  *)
(* is done.                                                                *)
(*                                                                         *)
(* The callers are those of the MEMORY driver: one DRV_AT25DF_Open, one    *)
(* DRV_AT25DF_GeometryGet, then requests that may come at any time.  A     *)
(* call is one step; between any two steps the wire moves and the          *)
(* interrupt is served.  flashSize is taken to be at most 256, where the   *)
(* driver sends one byte of address.  A page write over a running chain is *)
(* of a whole page (the MEMORY driver writes no other).                    *)
(***************************************************************************)
EXTENDS FlashDevice, SpiMaster

CONSTANTS BufferSize,   \* cells of the client's buffer
          Addresses,    \* bound: the addresses requests are made for
          MaxCalls      \* bound: requests made in a behaviour

ASSUME CallsAssumption ==
    BufferSize \in Nat \ {0} /\ Addresses \subseteq Cells /\ MaxCalls \in Nat

VARIABLES
    pc,         \* "init", "opening" (DRV_AT25DF_Open waits), "open", "ready"
    hw,         \* the driver object, the SPI master, the chip, the memory
    calls,      \* requests made so far
    request,    \* the last request, and what a refused one did to it
    before      \* the flash and the memory when it was made

vars == <<pc, hw, calls, request, before>>

-----------------------------------------------------------------------------
(* The flash part.  It collects the bytes of a command while selected and  *)
(* carries it out when it is deselected.                                   *)

Op(name) == <<"op", name>>
Command(chip) == IF chip.frame = <<>> THEN NoByte ELSE chip.frame[1]

(* A byte read as an address, and as a datum.  Only a chain that was       *)
(* hijacked sends one for the other.                                       *)
AddressOf(chip) == IF chip.frame[2][1] = "addr" THEN chip.frame[2][2] ELSE 0
ContentOf(byte) == IF byte[1] = "data" THEN byte[2] ELSE Junk

(* What the chip has to say to the next byte.                              *)
Answer(h) ==
    LET n == Len(h.chip.frame)
        c == Command(h.chip)
    IN  CASE ~h.chip.selected -> NoByte
          [] c = Op("RDSR") -> <<"status", h.chip.busy>>
          [] c = Op("JEDEC") /\ ~h.chip.busy /\ h.chip.known -> <<"id", n - 1>>
          [] c = Op("READ") /\ ~h.chip.busy /\ n >= 2 ->
                 <<"data", h.flash[(AddressOf(h.chip) + n - 2) % FlashSize]>>
          [] OTHER -> NoByte

(* Programming stays in the page of the address.                           *)
Programs(h) ==
    LET a == AddressOf(h.chip)
        cell(k) == ((a \div PageSize) * PageSize) + ((a + k - 3) % PageSize)
    IN  [c \in Cells |->
           IF \E k \in 3 .. Len(h.chip.frame) : cell(k) = c
           THEN LET k == CHOOSE j \in 3 .. Len(h.chip.frame) : cell(j) = c
                IN  Programmed(h.flash[c], ContentOf(h.chip.frame[k]))
           ELSE h.flash[c]]

(* The commands that write need the latch, take time, and leave the flash  *)
(* as it is while its sectors are protected.                               *)
Writes == {Op("PP"), Op("SE"), Op("WRSR")}

Accepted(h) ==
    LET c == Command(h.chip)
    IN  /\ ~h.spi.shifting
        /\ \/ c = Op("RDSR")
           \/ ~h.chip.busy /\ c \in {Op("WREN"), Op("READ"), Op("JEDEC")}
           \/ /\ ~h.chip.busy /\ h.chip.wel /\ c \in Writes
              /\ Len(h.chip.frame) >= (IF c = Op("PP") THEN 3 ELSE 2)
              /\ h.chip.locked => c = Op("WRSR")

CarriedOut(h) ==
    LET c == Command(h.chip)
    IN  IF ~Accepted(h)
        THEN [h EXCEPT !.chip.ignored = @ \/ c # NoByte,
                       !.chip.wel = @ /\ c \notin Writes]
        ELSE CASE c = Op("WREN") -> [h EXCEPT !.chip.wel = TRUE]
               [] c = Op("WRSR") -> [h EXCEPT !.chip.locked = FALSE, !.chip.wel = FALSE,
                                              !.chip.busy = TRUE]
               [] c = Op("PP")   -> [h EXCEPT !.flash = Programs(h), !.chip.wel = FALSE,
                                              !.chip.busy = TRUE]
               [] c = Op("SE")   -> [h EXCEPT !.flash = WithSectorErased(@, AddressOf(h.chip)),
                                              !.chip.wel = FALSE, !.chip.busy = TRUE]
               [] OTHER -> h

(* SYS_PORT_PinSet and SYS_PORT_PinClear of the chip select pin.           *)
Deselect(h) ==
    IF h.chip.selected
    THEN [CarriedOut(h) EXCEPT !.chip.selected = FALSE, !.chip.frame = <<>>]
    ELSE h
Select(h) == [h EXCEPT !.chip.selected = TRUE]

-----------------------------------------------------------------------------
(* Transfers of the SPI.                                                   *)

Fetch(h, ptr, k) ==
    CASE ptr[1] = "cmd" -> h.cmd[ptr[2] + k]
      [] ptr[1] = "buf" -> <<"data", MemoryAt(h.ram, ptr, k)>>
      [] OTHER -> NoByte

(* Start a transfer; a busy master refuses it, and the chip is deselected. *)
Start(h, tx, n, rx, m) ==
    IF h.spi.busy
    THEN [ok |-> FALSE, h |-> [Deselect(h) EXCEPT !.status = "error"]]
    ELSE [ok |-> TRUE,
          h  |-> [h EXCEPT !.spi = WriteRead(@, tx, n, rx, m, Fetch(h, tx, 0))]]

Cmd == <<"cmd", 0>>

WriteEnable(h) ==
    Start(Select([h EXCEPT !.cmd[0] = Op("WREN")]), Cmd, 1, NoPtr, 0)

WriteMemoryAddress(h, op, addr) ==
    Start(Select([h EXCEPT !.cmd[0] = op, !.cmd[1] = <<"addr", addr>>]), Cmd, 2, NoPtr, 0)

ReadStatus(h) ==
    Start(Select([h EXCEPT !.cmd[0] = Op("RDSR")]), Cmd, 1, <<"cmd", 1>>, 3)

ReadData(h) == Start(Select(h), NoPtr, 0, h.bufferAddr, h.nPending)

(* Mutant: the pages after the first are not written. *)
InThisPage_All(addr, n) == n
(* The cells of a write of n that fit in the page of addr.                 *)
InThisPage(addr, n) ==
    LET room == PageSize - (addr % PageSize) IN IF n >= room THEN room ELSE n

WriteData(h) ==
    LET n == InThisPage(h.memoryAddr, h.nPending)
    IN  Start(Select([h EXCEPT !.memoryAddr = @ + n,
                               !.bufferAddr = <<@[1], @[2] + n>>,
                               !.nPending = @ - n]),
              h.bufferAddr, n, NoPtr, 0)

-----------------------------------------------------------------------------
(* lDRV_AT25DF_Handler, from the interrupt at the end of each transfer.    *)

(* The next transfer has been started, or not.                             *)
Then(started, state) ==
    IF started.ok THEN [started.h EXCEPT !.state = state] ELSE started.h

Done(h, status) == [h EXCEPT !.status = status]

(* Mutant: never sees that the chip is busy. *)
StillBusy_Never(h) == FALSE
StillBusy(h) == h.cmd[3] = <<"status", TRUE>>

CheckJedecId(h) == h.jedecId = [k \in 0 .. 3 |-> <<"id", k>>]

GlobalUnprotect(h) ==
    Start(Select([h EXCEPT !.cmd[0] = Op("WRSR"), !.cmd[1] = NoByte]), Cmd, 2, NoPtr, 0)

Handler(h) ==
    LET up == Deselect(h)
    IN  CASE h.state = "writeCmdAddr" ->
                 Then(WriteMemoryAddress(up, Op("PP"), h.memoryAddr), "writeData")
          [] h.state = "writeData"  -> Then(WriteData(h), "checkWrite")
          [] h.state = "checkWrite" -> Then(ReadStatus(up), "waitWrite")
          [] h.state \in {"waitWrite", "waitErase", "waitUnlock"} /\ StillBusy(h) ->
                 ReadStatus(up).h
          [] h.state = "waitWrite" /\ ~StillBusy(h) /\ h.nPending # 0 ->
                 Then(WriteEnable(up), "writeCmdAddr")
          [] h.state \in {"waitWrite", "waitErase", "waitUnlock"} /\ ~StillBusy(h)
               /\ (h.state = "waitWrite" => h.nPending = 0) -> Done(up, "completed")
          [] h.state = "readData"  -> Then(ReadData(h), "waitRead")
          [] h.state = "waitRead"  -> Done(up, "completed")
          [] h.state = "erase"     ->
                 Then(WriteMemoryAddress(up, up.cmd[1], h.memoryAddr), "checkErase")
          [] h.state = "checkErase" -> Then(ReadStatus(up), "waitErase")
          [] h.state = "unlock"      -> Then(GlobalUnprotect(up), "checkUnlock")
          [] h.state = "checkUnlock" -> Then(ReadStatus(up), "waitUnlock")
          [] h.state = "readJedec" -> Then(Start(h, NoPtr, 0, <<"jedec", 0>>, 4), "waitJedec")
          [] h.state = "waitJedec" -> Done(up, IF CheckJedecId(h) THEN "completed" ELSE "error")

-----------------------------------------------------------------------------
(* The calls.                                                              *)

Busy(h) == [h EXCEPT !.status = "busy"]

UnlockFlash(h) == WriteEnable([Busy(h) EXCEPT !.state = "unlock"])

ReadJedecId(h) ==
    Start(Select([Busy(h) EXCEPT !.cmd[0] = Op("JEDEC"), !.state = "readJedec"]),
          Cmd, 1, NoPtr, 0)

DRV_AT25DF_Read(h, ptr, n, addr) ==
    WriteMemoryAddress([Busy(h) EXCEPT !.nPending = n, !.bufferAddr = ptr,
                                       !.memoryAddr = addr, !.state = "readData"],
                       Op("READ"), addr)

DRV_AT25DF_PageWrite(h, ptr, addr) ==
    WriteEnable([Busy(h) EXCEPT !.memoryAddr = addr, !.bufferAddr = ptr,
                                !.nPending = PageSize, !.state = "writeCmdAddr"])

DRV_AT25DF_SectorErase(h, addr) ==
    WriteEnable([Busy(h) EXCEPT !.cmd[1] = Op("SE"), !.memoryAddr = addr, !.state = "erase"])

(* The request as its caller knows it: a call that was refused while a     *)
(* chain was running has hijacked it.                                      *)
Noted(op, ptr, n, addr) ==
    IF hw.spi.busy
    THEN [op |-> op, ptr |-> ptr, len |-> n, addr |-> addr,
          armed |-> request.armed, hijacked |-> TRUE,
          spoiled |-> request.spoiled \cup Target(request.op, request.ptr, request.len)
                        \cup Target(op, ptr, n)]
    ELSE [op |-> op, ptr |-> ptr, len |-> n, addr |-> addr,
          armed |-> op \in {"write", "erase"}, hijacked |-> FALSE, spoiled |-> {}]

Make(call, op, ptr, n, addr) ==
    /\ pc = "ready" /\ calls < MaxCalls
    /\ request.hijacked => hw.spi.busy      \* bound: one hijacked chain
    /\ hw.spi.busy /\ request.op = "write" => request.addr % PageSize = 0
    /\ calls' = calls + 1
    /\ hw' = call.h
    /\ request' = Noted(op, ptr, n, addr)
    /\ before' = IF hw.spi.busy THEN before ELSE [flash |-> hw.flash, ram |-> hw.ram]
    /\ UNCHANGED pc

(* DRV_AT25DF_Read and DRV_AT25DF_PageWrite refuse while BUSY, and what    *)
(* does not fit in the flash.                                              *)
Read_(n, addr) ==
    /\ hw.status # "busy" /\ addr + n <= FlashSize
    /\ Make(DRV_AT25DF_Read(hw, <<"buf", 0>>, n, addr), "read", <<"buf", 0>>, n, addr)

PageWrite_(addr) ==
    /\ hw.status # "busy" /\ addr + PageSize <= FlashSize
    /\ hw.spi.busy => addr % PageSize = 0
    /\ Make(DRV_AT25DF_PageWrite(hw, <<"buf", 0>>, addr), "write", <<"buf", 0>>, PageSize, addr)

SectorErase_(addr) ==
    Make(DRV_AT25DF_SectorErase(hw, addr), "erase", request.ptr, 0, addr)

(* DRV_AT25DF_Open up to its loop, and the end of the loop.                *)
Open ==
    /\ pc = "init" /\ pc' = "opening"
    /\ hw' = UnlockFlash(hw).h
    /\ UNCHANGED <<calls, request, before>>

Opened ==
    /\ pc = "opening" /\ hw.status = "completed"
    /\ pc' = "open"
    /\ UNCHANGED <<hw, calls, request, before>>

(* DRV_AT25DF_GeometryGet does not wait for the answer.                    *)
GeometryGet ==
    /\ pc = "open" /\ pc' = "ready"
    /\ hw' = ReadJedecId(hw).h
    /\ request' = Noted("jedec", request.ptr, 0, 0)
    /\ before' = [flash |-> hw.flash, ram |-> hw.ram]
    /\ UNCHANGED calls

Call == \/ Open \/ Opened \/ GeometryGet
        \/ \E addr \in Addresses : \/ \E n \in 1 .. BufferSize : Read_(n, addr)
                               \/ PageWrite_(addr)
                               \/ SectorErase_(addr)

-----------------------------------------------------------------------------
(* The wire, the chip and the interrupt.                                   *)

Step(h) == hw' = h /\ UNCHANGED <<pc, calls, request, before>>

ShiftByte ==
    /\ hw.spi.shifting
    /\ Step([hw EXCEPT
               !.spi = Shifted(@, Answer(hw)),
               !.chip.frame = IF hw.chip.selected THEN Append(@, hw.spi.shift) ELSE @])

ChipReady == hw.chip.busy /\ Step([hw EXCEPT !.chip.busy = FALSE])

(* A byte that came in is stored where the transfer says.                  *)
Stored(h) ==
    LET byte == Head(h.spi.fifo)
        at == h.spi.rx[2] + h.spi.rxCount
    IN  IF ~Stores(h.spi) THEN h
        ELSE CASE h.spi.rx[1] = "cmd"   -> [h EXCEPT !.cmd[at] = byte]
               [] h.spi.rx[1] = "jedec" -> [h EXCEPT !.jedecId[at] = byte]
               [] h.spi.rx[1] = "buf"   ->
                      [h EXCEPT !.ram["buf"][at] = ContentOf(byte)]

(* SERCOM1_SPI_InterruptHandler, with lSPIEventHandler when it is the last *)
(* of the transfer.                                                        *)
Interrupt ==
    /\ Raised(hw.spi)
    /\ \E next \in {Fetch(hw, hw.spi.tx, hw.spi.txCount)} :
       \E served \in {[Stored(hw) EXCEPT !.spi = Served(@, next)]} :
         Step(IF hw.spi.busy /\ ~served.spi.busy THEN Handler(served) ELSE served)

-----------------------------------------------------------------------------
(* DRV_AT25DF_Initialize; the chip comes up with its sectors protected.    *)
Init ==
    /\ pc = "init"
    /\ \E known \in BOOLEAN :
       \E flash \in {[c \in Cells |-> Erased], [c \in Cells |-> <<0, c>>]} :
         hw = [status |-> "completed", state |-> "none", memoryAddr |-> 0,
               bufferAddr |-> <<"buf", 0>>, nPending |-> 0,
               cmd |-> [k \in 0 .. 3 |-> NoByte], jedecId |-> [k \in 0 .. 3 |-> NoByte],
               spi |-> SpiReset,
               chip |-> [selected |-> FALSE, frame |-> <<>>, wel |-> FALSE, busy |-> FALSE,
                         locked |-> TRUE, known |-> known, ignored |-> FALSE],
               flash |-> flash,
               ram |-> [r \in {"buf"} |-> [o \in 0 .. BufferSize - 1 |-> <<1, o>>]]]
    /\ calls = 0
    /\ request = [op |-> "none", ptr |-> <<"buf", 0>>, len |-> 0, addr |-> 0,
                  armed |-> FALSE, hijacked |-> FALSE, spoiled |-> {}]
    /\ before = [flash |-> hw.flash, ram |-> hw.ram]

Next == Call \/ ShiftByte \/ ChipReady \/ Interrupt

(* The SPI clocks what it was given, the chip ends what it does, and an    *)
(* interrupt that was raised is served.                                    *)
Spec == /\ Init /\ [][Next]_vars
        /\ WF_vars(ShiftByte \/ Interrupt) /\ WF_vars(ChipReady)

-----------------------------------------------------------------------------
(* The promise of FlashDevice.  Until a chain has ended its request has    *)
(* done nothing; after one that was hijacked, the memory it may have been  *)
(* filling counts as unknown, and so does a page of which a part was       *)
(* programmed.                                                             *)

Running == hw.spi.busy

PagesSpoiled ==
    {p \in 0 .. NumPages - 1 : \E c \in Cells :
        /\ c \div PageSize = p
        /\ hw.flash[c] # before.flash[c] /\ hw.flash[c] # Erased}

DevBar ==
    IF pc \in {"init", "opening", "open"} THEN Quiet("completed", request.ptr)
    ELSE IF ~Running THEN Quiet(hw.status, request.ptr)
    ELSE [status |-> hw.status, active |-> TRUE, hijacked |-> request.hijacked,
          armed |-> request.armed, op |-> request.op, addr |-> request.addr,
          len |-> request.len, ptr |-> request.ptr, spoiled |-> request.spoiled]

FlashBar ==
    IF Running THEN before.flash
    ELSE IF request.hijacked
    THEN [c \in Cells |-> IF c \div PageSize \in PagesSpoiled THEN Junk ELSE hw.flash[c]]
    ELSE hw.flash

RamBar ==
    IF Running THEN before.ram
    ELSE IF request.hijacked THEN WithSpoiled(hw.ram, request.spoiled) ELSE hw.ram

Promise == INSTANCE FlashSpec WITH dev <- DevBar, flash <- FlashBar, ram <- RamBar

(* The driver on its SPI transfers does what FlashDevice says of it in one *)
(* step: the right cells are read into the right memory, programmed or     *)
(* erased, and nothing else, COMPLETED is only reported after that, and    *)
(* what a refused call over a running chain does stays within bounds.      *)
ImplementsFlash == Promise!FlashBehaviour

(* While no call is made over a running chain, the chip never gets a       *)
(* command it does not take: cut short, while it is busy, without the      *)
(* write enable latch, or for a protected sector.                          *)
CommandsTaken == request.hijacked \/ ~hw.chip.ignored

(* A transfer that was accepted ends, also when its chain was hijacked: no *)
(* order of the SPI's flags leaves it waiting for an interrupt for ever.   *)
TransferEnds == hw.spi.busy ~> ~hw.spi.busy /\ hw.status # "busy"
=============================================================================
