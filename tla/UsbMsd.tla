------------------------------- MODULE UsbMsd -------------------------------
(***************************************************************************)
(* The USB mass storage function (usb_device_msd.c, bulk-only transport)   *)
(* between a host and the MEMORY driver: the function's state machine that *)
(* the super loop runs, the two bulk endpoints of drv_usbfsv1_device.c,    *)
(* the control requests and the bus reset the device layer passes to it    *)
(* from the USB interrupt, and a host that sends commands, clears the      *)
(* halts it sees, gives up and resets.  A call of _USB_DEVICE_MSD_Tasks is *)
(* three steps (the test of the IRP, the work, the assignment to           *)
(* msdMainState), and the interrupt may come between any two of them.      *)
(***************************************************************************)
EXTENDS Naturals, Sequences

CONSTANTS Sectors,      \* number of sectors of the medium
          PerErase,     \* sectors that are erased together (8 in this program: 4096 / 512)
          Buffering,    \* _DRV_MSD_NUM_SECTORS_BUFFERING (1 in this program)
          MaxLength,    \* bound: sectors the host asks for in one command
          MaxCommands,  \* bound: commands the host sends
          MaxGiveUps    \* bound: times the host gives a command up

(* a command whose two lengths differ names two sectors: the medium has them *)
ASSUME UsbAssumption == /\ Sectors \in Nat /\ Sectors > 1
                        /\ {PerErase, Buffering} \subseteq Nat \ {0}
                        /\ MaxLength \in 0 .. Sectors
                        /\ {MaxCommands, MaxGiveUps} \subseteq Nat

VARIABLES
  host,       \* the host: what it does, its command, what it was sent, the disk it expects
  rx, tx,     \* the bulk endpoints with the one IRP each of irpRx and irpTx
  msd,        \* gUSBDeviceMSDInstance
  task,       \* the call of _USB_DEVICE_MSD_Tasks under way
  media,      \* the MEMORY driver as this client sees it
  configured, \* usbDeviceState = USB_DEVICE_STATE_CONFIGURED
  overtaken,  \* history: a reset came inside a call or over a request of the medium
  haltKept    \* history: a configuration began with an endpoint marked stalled

vars == <<host, rx, tx, msd, task, media, configured, overtaken, haltKept>>

None == [type |-> "none"]
Data(tag, k) == [type |-> "data", tag |-> tag, k |-> k]
Reply == [type |-> "reply"]
Damaged == [type |-> "damaged"]   \* erased, or half of it written or read
Csw(tag, residue, status) ==
  [type |-> "csw", tag |-> tag, residue |-> residue, status |-> status]

(* The commands: op, first sector, sectors in the command block, sectors   *)
(* in dCBWDataTransferLength, direction.  "capacity" is the kind answered  *)
(* with data, "ready" the kind with none, "garbled" a CBW without its      *)
(* signature; a length that differs from the block's is a mismatch, and a  *)
(* transfer of no sector is one too short to need a medium's work.         *)
Command(op, addr, len, want, dir) ==
  [type |-> "cbw", tag |-> 0, op |-> op, addr |-> addr, len |-> len, want |-> want, dir |-> dir]

Commands ==
     {Command("read", a, n, n, "in") : a \in 0 .. Sectors - 1, n \in 1 .. MaxLength}
  \cup {Command("write", a, n, n, "out") : a \in 0 .. Sectors - 1, n \in 1 .. MaxLength}
  \cup {Command("read", 0, 1, 2, "in"), Command("write", 0, 2, 1, "out"),
        Command("read", 0, 0, 0, "in"), Command("write", 0, 0, 0, "out"),
        Command("capacity", 0, 0, 1, "in"), Command("capacity", 0, 0, 2, "in"),
        Command("ready", 0, 0, 0, "out"), Command("garbled", 0, 0, 1, "in")}

SectorsOf(c) == (c.addr .. c.addr + c.len - 1) \cap (0 .. Sectors - 1)

(* the sectors that share an erase sector with one of S *)
ErasedWith(S) == {s \in 0 .. Sectors - 1 : \E t \in S : s \div PerErase = t \div PerErase}

-----------------------------------------------------------------------------
(* The endpoints of drv_usbfsv1_device.c.  stalled is the flag in          *)
(* endpointState, halt the STALLRQ bit the host meets.                     *)

(* _DRV_USBFSV1_DEVICE_IRPQueueFlush, for every way an IRP is aborted *)
Flushed(ep) == IF ep.irp = "IN_PROGRESS" THEN [ep EXCEPT !.irp = "ABORTED"] ELSE ep

EndpointStall(ep) == [Flushed(ep) EXCEPT !.stalled = TRUE, !.halt = TRUE]
EndpointStallClear(ep) == [Flushed(ep) EXCEPT !.stalled = FALSE, !.halt = FALSE]

IRPSubmit(ep, to, slot) ==
  IF ep.irp = "IN_PROGRESS" \/ ~ep.enabled THEN ep
  ELSE [ep EXCEPT !.irp = "IN_PROGRESS", !.to = to, !.slot = slot]

(* a bus reset clears the STALLRQ bits; EndpointDisable leaves the flag *)
EndpointDisable(ep) == [Flushed(ep) EXCEPT !.enabled = FALSE, !.halt = FALSE]
EndpointEnable(ep) == [ep EXCEPT !.enabled = TRUE, !.irp = "COMPLETED"]

Listening(ep) == ep.irp = "IN_PROGRESS" /\ ep.enabled /\ ~ep.halt
Done(ep) == ep.irp # "IN_PROGRESS"

-----------------------------------------------------------------------------
Outside == [at |-> "NONE", next |-> "NONE", status |-> "PASSED"]
Entered(state) == [Outside EXCEPT !.at = state]

FreshEndpoint == [irp |-> "COMPLETED", stalled |-> FALSE, halt |-> FALSE,
                  enabled |-> TRUE, to |-> "CBW", slot |-> 0]

Init ==
  /\ host = [phase |-> "idle", cmd |-> None, tag |-> 0, sent |-> 0, got |-> <<>>,
             csw |-> None, retried |-> FALSE, giveUps |-> 0,
             disk |-> [s \in 0 .. Sectors - 1 |-> Data(0, s)],
             before |-> [s \in 0 .. Sectors - 1 |-> Data(0, s)]]
  /\ rx = FreshEndpoint
  /\ tx = FreshEndpoint
  /\ msd = [state |-> "WAIT_FOR_CBW", cbw |-> None, csw |-> Csw(0, 0, "PASSED"),
            media |-> "IDLE", handle |-> FALSE, offset |-> 0, pending |-> 0,
            usbSectors |-> 0, toWrite |-> 0, total |-> 0,
            buffer |-> [i \in 0 .. Buffering - 1 |-> None]]
  /\ task = Outside
  /\ media = [store |-> [s \in 0 .. Sectors - 1 |-> Data(0, s)], req |-> None, open |-> FALSE]
  /\ configured = TRUE
  /\ overtaken = FALSE
  /\ haltKept = FALSE

-----------------------------------------------------------------------------
(* The super loop: _USB_DEVICE_MSD_Tasks. *)

(* Mutant: looks at the halt only. *)
ReadyToSend_NotDone == ~tx.stalled

ReadyToSend == Done(tx) /\ ~tx.stalled

(* Mutant: waits for the IRP of a CBW that was aborted. *)
CbwSettled_NotAborted == rx.irp = "COMPLETED" /\ ~rx.stalled

CbwSettled == Done(rx) /\ (rx.irp = "COMPLETED" => ~rx.stalled)

(* the tests before the work, one for each state of the switch *)
MayEnter(state) ==
  \/ state = "STALL_IN_OUT"
  \/ state = "WAIT_FOR_CBW" /\ ~rx.stalled /\ ~tx.stalled
  \/ state = "CBW" /\ CbwSettled
  \/ state = "DATA_OUT" /\ Done(rx) /\ ~rx.stalled
  \/ state = "CSW" /\ Done(tx)
  \/ state \in {"DATA_IN", "SEND_CSW"} /\ ReadyToSend

Enter ==
  /\ configured
  /\ task = Outside
  /\ MayEnter(msd.state)
  /\ task' = Entered(msd.state)
  /\ UNCHANGED <<host, rx, tx, msd, media, configured, overtaken, haltKept>>

Working(state) == task.at = state /\ task.next = "NONE"
Ends(next, status) == task' = [task EXCEPT !.next = next, !.status = status]
KeepsTask == UNCHANGED <<host, configured, overtaken, haltKept>>

StallInOut ==
  /\ Working("STALL_IN_OUT")
  /\ rx' = EndpointStall(rx)
  /\ tx' = EndpointStall(tx)
  /\ task' = Outside
  /\ UNCHANGED <<msd, media>>
  /\ KeepsTask

WaitForCbw ==
  /\ Working("WAIT_FOR_CBW")
  /\ rx' = IRPSubmit(rx, "CBW", 0)
  /\ Ends("CBW", msd.csw.status)
  /\ UNCHANGED <<tx, msd, media>>
  /\ KeepsTask

(* an aborted IRP is scheduled again *)
Reschedule ==
  /\ Working("CBW")
  /\ rx.irp # "COMPLETED"
  /\ Ends("WAIT_FOR_CBW", msd.csw.status)
  /\ UNCHANGED <<rx, tx, msd, media>>
  /\ KeepsTask

(* what _USB_DEVICE_MSD_VerifyCommand answers, with and without a medium; the *)
(* test of write protection is left out: DRV_MEMORY_IsWriteProtected is FALSE *)
Verdict(c, present) ==
  IF c.op \notin {"read", "write"} THEN <<"PROCESS_CBW", "PASSED">>
  ELSE IF ~present \/ c.want # c.len THEN <<"CSW", "FAILED">>
  ELSE IF c.want = 0 THEN <<"CSW", "PASSED">>
  ELSE IF c.op = "read" /\ c.dir = "in" THEN <<"DATA_IN", "PASSED">>
  ELSE IF c.op = "write" /\ c.dir = "out" THEN <<"DATA_OUT", "PASSED">>
  ELSE <<"CSW", "FAILED">>

Reset(m) == [m EXCEPT !.media = "IDLE", !.total = 0, !.offset = 0, !.pending = 0,
                      !.usbSectors = 0, !.toWrite = 0]

(* _USB_DEVICE_MSD_VerifyCommand, with _USB_DEVICE_MSD_CheckAndUpdateMediaState *)
(* opening the medium, which may fail, when this configuration has not yet     *)
VerifyCommand ==
  /\ Working("CBW")
  /\ rx.irp = "COMPLETED"
  /\ IF msd.cbw.type # "cbw" \/ msd.cbw.op = "garbled"
     THEN /\ msd' = Reset(msd)
          /\ Ends("STALL_IN_OUT", "PASSED")
          /\ UNCHANGED media
     ELSE \E opens \in IF msd.handle THEN {TRUE} ELSE BOOLEAN :
            LET verdict == Verdict(msd.cbw, opens) IN
            /\ msd' = [Reset(msd) EXCEPT !.handle = opens]
            /\ media' = IF msd.handle THEN media ELSE [media EXCEPT !.open = opens]
            /\ Ends(verdict[1], verdict[2])
  /\ UNCHANGED <<rx, tx>>
  /\ KeepsTask

(* _USB_DEVICE_MSD_ProcessNonRWCommand *)
ProcessNonRWCommand ==
  /\ Working("PROCESS_CBW")
  /\ IF msd.cbw.op = "capacity" /\ msd.handle /\ msd.cbw.want > 0 /\ msd.cbw.dir = "in"
     THEN /\ msd' = [msd EXCEPT !.total = 1, !.buffer[0] = Reply]
          /\ tx' = IRPSubmit(tx, "BUFFER", 0)
          /\ Ends("CSW", "PASSED")
     ELSE /\ Ends("CSW", IF msd.cbw.op = "ready" /\ msd.handle THEN "PASSED" ELSE "FAILED")
          /\ UNCHANGED <<msd, tx>>
  /\ UNCHANGED <<rx, media>>
  /\ KeepsTask

(* DRV_MEMORY_AsyncRead and DRV_MEMORY_AsyncEraseWrite, the blockRead and      *)
(* blockWrite of usb_device_init_data.c: refused to a closed client, beyond    *)
(* the medium, with a request of this client queued, and when the other client *)
(* holds the last buffer object                                                *)
Refusals(addr, n) ==
  IF media.open /\ media.req = None /\ addr + n <= Sectors THEN BOOLEAN ELSE {TRUE}

Request(op, addr, n) == [type |-> "request", op |-> op, addr |-> addr, n |-> n]

Smaller(a, b) == IF a < b THEN a ELSE b

(* _USB_DEVICE_MSD_SaveBlockAddressAndLength: the command block is the cursor *)
Advanced(c, n) == [c EXCEPT !.addr = c.addr + n, !.len = c.len - n]

(* _USB_DEVICE_MSD_ProcessRead while buffered sectors are left to send *)
ReadSend ==
  /\ Working("DATA_IN")
  /\ msd.media = "COMPLETE"
  /\ msd.pending # msd.offset
  /\ tx' = IRPSubmit(tx, "BUFFER", msd.pending)
  /\ msd' = [msd EXCEPT !.total = @ + 1, !.pending = @ + 1]
  /\ Ends("DATA_IN", "PASSED")
  /\ UNCHANGED <<rx, media>>
  /\ KeepsTask

(* _USB_DEVICE_MSD_ProcessRead when the buffer is sent: done, or the next read *)
ReadMore ==
  /\ Working("DATA_IN")
  /\ \/ msd.media = "IDLE"
     \/ msd.media = "COMPLETE" /\ msd.pending = msd.offset
  /\ IF msd.media = "COMPLETE" /\ msd.cbw.len = 0
     THEN /\ msd' = [msd EXCEPT !.pending = 0, !.offset = 0, !.media = "IDLE"]
          /\ Ends("CSW", "PASSED")
          /\ UNCHANGED media
     ELSE LET n == Smaller(msd.cbw.len, Buffering) IN
          \E refused \in Refusals(msd.cbw.addr, n) :
            /\ msd' = [msd EXCEPT !.media = "PENDING", !.offset = n, !.pending = 0,
                                  !.cbw = IF refused THEN @ ELSE Advanced(@, n)]
            /\ media' = IF refused THEN media
                        ELSE [media EXCEPT !.req = Request("read", msd.cbw.addr, n)]
            /\ IF refused THEN Ends("CSW", "FAILED") ELSE Ends("DATA_IN", "PASSED")
  /\ UNCHANGED <<rx, tx>>
  /\ KeepsTask

(* Mutant: the next part of a transfer goes behind the last. *)
Offset_Kept(fresh) == msd.offset

(* where in the sector buffer the next sector goes *)
Offset(fresh) == IF fresh THEN 0 ELSE msd.offset

(* _USB_DEVICE_MSD_ProcessWrite while a sector is to be received *)
WriteReceive ==
  /\ Working("DATA_OUT")
  /\ LET fresh == msd.toWrite = 0
         n == IF fresh THEN Smaller(msd.cbw.len, Buffering) ELSE msd.usbSectors IN
     /\ \/ msd.media = "IDLE"
        \/ msd.media = "COMPLETE" /\ fresh /\ msd.cbw.len > 0
     /\ n > 0
     /\ rx' = IRPSubmit(rx, "BUFFER", Offset(fresh))
     /\ msd' = [msd EXCEPT !.media = "IDLE", !.usbSectors = n - 1, !.offset = Offset(fresh) + 1,
                           !.toWrite = IF fresh THEN n ELSE @]
  /\ Ends("DATA_OUT", "PASSED")
  /\ UNCHANGED <<tx, media>>
  /\ KeepsTask

(* Mutant: the command is answered while its last sector is being written. *)
AfterWrite_Early(n) == IF msd.cbw.len = n THEN "CSW" ELSE "DATA_OUT"

(* the state a write request leaves the function in *)
AfterWrite(n) == "DATA_OUT"

(* _USB_DEVICE_MSD_ProcessWrite when the buffer is full *)
WriteMedia ==
  /\ Working("DATA_OUT")
  /\ msd.media = "IDLE"
  /\ msd.toWrite > 0
  /\ msd.usbSectors = 0
  /\ LET n == msd.toWrite IN
     \E refused \in Refusals(msd.cbw.addr, n) :
       /\ media' = IF refused THEN media
                   ELSE [media EXCEPT !.req = Request("write", msd.cbw.addr, n)]
       /\ msd' = IF refused THEN [msd EXCEPT !.media = "PENDING"]
                 ELSE [msd EXCEPT !.media = "PENDING", !.total = @ + n, !.toWrite = 0,
                                  !.cbw = Advanced(@, n)]
       /\ IF refused THEN Ends("CSW", "FAILED") ELSE Ends(AfterWrite(n), "PASSED")
  /\ UNCHANGED <<rx, tx>>
  /\ KeepsTask

(* _USB_DEVICE_MSD_ProcessWrite after the last sector; media stays COMPLETE *)
WriteDone ==
  /\ Working("DATA_OUT")
  /\ msd.media = "COMPLETE"
  /\ msd.cbw.len = 0
  /\ Ends("CSW", "PASSED")
  /\ UNCHANGED <<rx, tx, msd, media>>
  /\ KeepsTask

(* _USB_DEVICE_MSD_ProcessRead and ProcessWrite on a request that failed or is open *)
MediaFailed ==
  /\ task.at \in {"DATA_IN", "DATA_OUT"}
  /\ task.next = "NONE"
  /\ \/ msd.media = "ERROR" /\ Ends("CSW", "FAILED")
     \/ msd.media = "PENDING" /\ Ends(task.at, "PASSED")
  /\ UNCHANGED <<rx, tx, msd, media>>
  /\ KeepsTask

(* Mutant: what the host is not sent is not stalled. *)
StallsIn_FailedOnly(residue) ==
  msd.csw.status = "FAILED" /\ msd.cbw.want > 0 /\ msd.cbw.dir = "in"

StallsIn(residue) ==
  \/ msd.csw.status = "PASSED" /\ residue # 0
  \/ msd.csw.status = "FAILED" /\ msd.cbw.want > 0 /\ msd.cbw.dir = "in"

StallsOut == msd.csw.status = "FAILED" /\ msd.cbw.want > 0 /\ msd.cbw.dir = "out"

(* _USB_DEVICE_MSD_PostDataStageRoutine builds the CSW and stalls what is left over *)
PostDataStage ==
  /\ Working("CSW")
  /\ LET residue == msd.cbw.want - msd.total IN
     /\ msd' = [msd EXCEPT !.csw = Csw(msd.cbw.tag, residue, @.status)]
     /\ tx' = IF StallsIn(residue) THEN EndpointStall(tx) ELSE tx
     /\ rx' = IF StallsOut THEN EndpointStall(rx) ELSE rx
  /\ Ends("SEND_CSW", msd.csw.status)
  /\ UNCHANGED media
  /\ KeepsTask

SendCsw ==
  /\ Working("SEND_CSW")
  /\ tx' = IRPSubmit(tx, "CSW", 0)
  /\ Ends("WAIT_FOR_CBW", msd.csw.status)
  /\ UNCHANGED <<rx, msd, media>>
  /\ KeepsTask

(* The assignment to msdMainState; a verified command is worked on, and the    *)
(* CSW case falls through to SEND_CSW, in the same call.                       *)
Continues(at, next) ==
  \/ at = "CBW" /\ next \in {"PROCESS_CBW", "DATA_IN", "DATA_OUT"}
  \/ at = "CSW" /\ Done(tx) /\ ~tx.stalled

Store ==
  /\ task.next # "NONE"
  /\ msd' = [msd EXCEPT !.state = task.next,
                        !.csw.status = IF Continues(task.at, task.next) THEN @ ELSE task.status]
  /\ task' = IF Continues(task.at, task.next) THEN Entered(task.next) ELSE Outside
  /\ UNCHANGED <<host, rx, tx, media, configured, overtaken, haltKept>>

Task ==
  \/ Enter \/ StallInOut \/ WaitForCbw \/ Reschedule \/ VerifyCommand \/ ProcessNonRWCommand
  \/ ReadSend \/ ReadMore \/ WriteReceive \/ WriteMedia \/ WriteDone \/ MediaFailed
  \/ PostDataStage \/ SendCsw \/ Store

-----------------------------------------------------------------------------
(* Mutant: a request that failed is taken for done. *)
BlockEventHandler_AnyEvent(event) == IF media.open THEN "COMPLETE" ELSE msd.media

(* The MEMORY driver ends the request between two calls of the function and *)
(* reports it through _USB_DEVICE_MSD_BlockEventHandler, unless the client  *)
(* was closed in the meantime.                                              *)
BlockEventHandler(event) == IF media.open THEN event ELSE msd.media

MediaEnds(event, store, buffer) ==
  /\ media' = [media EXCEPT !.req = None, !.store = store]
  /\ msd' = [msd EXCEPT !.media = BlockEventHandler(event), !.buffer = buffer]
  /\ UNCHANGED <<host, rx, tx, task, configured, overtaken, haltKept>>

AtWork(op) == task = Outside /\ media.req # None /\ media.req.op = op

SlotsOf(r) == 0 .. r.n - 1
TargetsOf(r) == r.addr .. r.addr + r.n - 1

(* the buffer a read fills, and the medium a write leaves *)
ReadBy(r) == [i \in DOMAIN msd.buffer |-> IF i \in SlotsOf(r) THEN media.store[r.addr + i]
                                          ELSE msd.buffer[i]]
WrittenBy(r) == [s \in DOMAIN media.store |-> IF s \in TargetsOf(r) THEN msd.buffer[s - r.addr]
                                              ELSE media.store[s]]

(* a transfer cut short: new where it is done, neither old nor new where it is lost *)
Torn(old, new, done, lost) ==
  [x \in DOMAIN old |-> IF x \in lost THEN Damaged ELSE IF x \in done THEN new[x] ELSE old[x]]

ReadCompletes ==
  /\ AtWork("read")
  /\ MediaEnds("COMPLETE", media.store, ReadBy(media.req))

WriteCompletes ==
  /\ AtWork("write")
  /\ MediaEnds("COMPLETE", WrittenBy(media.req), msd.buffer)

ReadFails ==
  /\ AtWork("read")
  /\ \E done, lost \in SUBSET SlotsOf(media.req) :
       MediaEnds("ERROR", media.store, Torn(msd.buffer, ReadBy(media.req), done, lost))

(* AsyncEraseWrite erases whole erase sectors and writes them back page by  *)
(* page: what shares one with a sector of the request may be lost with it   *)
WriteFails ==
  /\ AtWork("write")
  /\ \E done, lost \in SUBSET ErasedWith(TargetsOf(media.req)) :
       MediaEnds("ERROR", Torn(media.store, WrittenBy(media.req), done, lost), msd.buffer)

-----------------------------------------------------------------------------
(* The host and the interrupt its transfers raise.  A bulk transfer and the *)
(* interrupt that completes the IRP are one step.                           *)
Keeps == UNCHANGED <<task, media, configured, overtaken, haltKept>>

(* What the host relies on.  A write puts its sectors in doubt and, until   *)
(* its CSW, all that is erased with them: disk is what is beyond doubt, and *)
(* before what is so again when the write has passed.                       *)
Doubting(c, S) == [s \in DOMAIN host.disk |->
                    IF c.op = "write" /\ s \in S THEN None ELSE host.disk[s]]

Received(packet) ==
  /\ Listening(rx)
  /\ rx' = [rx EXCEPT !.irp = "COMPLETED"]
  /\ msd' = IF rx.to = "CBW" THEN [msd EXCEPT !.cbw = packet]
            ELSE [msd EXCEPT !.buffer[rx.slot] = packet]

Sent == IF tx.to = "CSW" THEN msd.csw ELSE msd.buffer[tx.slot]

HostSendsCommand ==
  /\ host.phase = "idle"
  /\ host.tag < MaxCommands
  /\ \E c \in Commands :
       /\ Received([c EXCEPT !.tag = host.tag + 1])
       /\ host' = [host EXCEPT !.cmd = c, !.tag = @ + 1, !.sent = 0, !.got = <<>>,
                               !.csw = None, !.retried = FALSE,
                               !.disk = Doubting(c, ErasedWith(SectorsOf(c))),
                               !.before = Doubting(c, SectorsOf(c)),
                               !.phase = IF c.want = 0 THEN "status" ELSE "data"]
  /\ UNCHANGED tx
  /\ Keeps

HostSendsData ==
  /\ host.phase = "data"
  /\ host.cmd.dir = "out"
  /\ Received(Data(host.tag, host.sent))
  /\ host' = [host EXCEPT !.sent = @ + 1,
                          !.phase = IF host.sent + 1 = host.cmd.want THEN "status" ELSE "data"]
  /\ UNCHANGED tx
  /\ Keeps

HostReceivesData ==
  /\ host.phase = "data"
  /\ host.cmd.dir = "in"
  /\ Listening(tx)
  /\ tx' = [tx EXCEPT !.irp = "COMPLETED"]
  /\ host' = [host EXCEPT !.got = Append(@, Sent),
                          !.phase = IF Len(host.got) + 1 = host.cmd.want THEN "status" ELSE "data"]
  /\ UNCHANGED <<rx, msd>>
  /\ Keeps

Certain(c, csw) ==
  [s \in DOMAIN host.disk |->
    IF c.op # "write" \/ csw.type # "csw" \/ csw.status # "PASSED" THEN host.disk[s]
    ELSE IF s \in SectorsOf(c) THEN Data(host.tag, s - c.addr) ELSE host.before[s]]

HostReceivesStatus ==
  /\ host.phase = "status"
  /\ Listening(tx)
  /\ tx' = [tx EXCEPT !.irp = "COMPLETED"]
  /\ host' = [host EXCEPT !.csw = Sent, !.disk = Certain(host.cmd, Sent), !.phase = "idle"]
  /\ UNCHANGED <<rx, msd>>
  /\ Keeps

(* a STALL ends the data phase, is retried once for the status, and calls   *)
(* for the reset recovery when it meets a command or the second status      *)
HostMeetsHalt ==
  /\ \/ host.phase = "idle" /\ host.tag < MaxCommands /\ rx.halt
        /\ host' = [host EXCEPT !.phase = "reset"]
     \/ host.phase = "data" /\ host.cmd.dir = "in" /\ tx.halt
        /\ host' = [host EXCEPT !.phase = "clearIn"]
     \/ host.phase = "data" /\ host.cmd.dir = "out" /\ rx.halt
        /\ host' = [host EXCEPT !.phase = "clearOut"]
     \/ host.phase = "status" /\ tx.halt
        /\ host' = [host EXCEPT !.phase = IF host.retried THEN "reset" ELSE "clearIn",
                                !.retried = TRUE]
  /\ UNCHANGED <<rx, tx, msd>>
  /\ Keeps

(* CLEAR_FEATURE(ENDPOINT_HALT), in the interrupt *)
HostClearsHalt ==
  /\ \/ host.phase \in {"clearIn", "resetIn"}
        /\ tx' = EndpointStallClear(tx)
        /\ UNCHANGED rx
     \/ host.phase \in {"clearOut", "resetOut"}
        /\ rx' = EndpointStallClear(rx)
        /\ UNCHANGED tx
  /\ host' = [host EXCEPT !.phase = CASE host.phase = "resetIn"  -> "resetOut"
                                      [] host.phase = "resetOut" -> "idle"
                                      [] OTHER                   -> "status"]
  /\ UNCHANGED msd
  /\ Keeps

(* the states whose call a reset can overtake: what the call does next acts  *)
(* on a command that is no longer there                                      *)
Busy == \/ task.at \notin {"NONE", "WAIT_FOR_CBW"}
        \/ task.at = "WAIT_FOR_CBW" /\ task.next = "CBW" /\ Done(rx)
        \/ media.req # None

(* USB_MSD_RESET, in the interrupt *)
BotReset ==
  /\ host.phase = "reset"
  /\ tx' = EndpointStall(tx)
  /\ rx' = EndpointStall(rx)
  /\ msd' = [msd EXCEPT !.state = "WAIT_FOR_CBW"]
  /\ overtaken' = (overtaken \/ Busy)
  /\ host' = [host EXCEPT !.phase = "resetIn", !.csw = None]
  /\ UNCHANGED <<task, media, configured, haltKept>>

HostGivesUp ==
  /\ host.phase \in {"idle", "data", "status"}
  /\ host.giveUps < MaxGiveUps
  /\ host' = [host EXCEPT !.phase = "reset", !.giveUps = @ + 1]
  /\ UNCHANGED <<rx, tx, msd>>
  /\ Keeps

(* DRV_USB_EVENT_RESET_DETECT, in the interrupt: the device layer calls      *)
(* _USB_DEVICE_MSD_Deinitialization, which closes the medium, and disables   *)
(* the endpoints.  msdMainState stays.                                       *)
BusReset ==
  /\ configured
  /\ host.giveUps < MaxGiveUps
  /\ rx' = EndpointDisable(rx)
  /\ tx' = EndpointDisable(tx)
  /\ media' = [media EXCEPT !.open = FALSE]
  /\ configured' = FALSE
  /\ overtaken' = (overtaken \/ Busy)
  /\ host' = [host EXCEPT !.phase = "attach", !.csw = None, !.giveUps = @ + 1]
  /\ UNCHANGED <<msd, task, haltKept>>

(* SET_CONFIGURATION, in the interrupt, a bus enumeration later: no call of  *)
(* the super loop lasts that long                                            *)
Configure ==
  /\ host.phase = "attach"
  /\ task = Outside
  /\ rx' = EndpointEnable(rx)
  /\ tx' = EndpointEnable(tx)
  /\ msd' = [msd EXCEPT !.state = "WAIT_FOR_CBW", !.handle = FALSE]
  /\ configured' = TRUE
  /\ haltKept' = (haltKept \/ rx.stalled \/ tx.stalled)
  /\ host' = [host EXCEPT !.phase = "idle"]
  /\ UNCHANGED <<task, media, overtaken>>

HostStep ==
  \/ HostSendsCommand \/ HostSendsData \/ HostReceivesData \/ HostReceivesStatus
  \/ HostMeetsHalt \/ HostClearsHalt \/ BotReset \/ Configure

MediaStep == ReadCompletes \/ WriteCompletes \/ ReadFails \/ WriteFails

Next == Task \/ MediaStep \/ HostStep \/ HostGivesUp \/ BusReset

(* The super loop never rests and runs DRV_MEMORY_Tasks between two calls of  *)
(* the function, so the medium gets its turns while the function only polls   *)
(* (strong fairness); the host goes on with the protocol it follows.          *)
Spec == Init /\ [][Next]_vars /\ WF_vars(Task) /\ SF_vars(MediaStep) /\ WF_vars(HostStep)

-----------------------------------------------------------------------------
States == {"WAIT_FOR_CBW", "CBW", "PROCESS_CBW", "STALL_IN_OUT",
           "DATA_IN", "DATA_OUT", "CSW", "SEND_CSW"}

(* The state of every part is one its code can have, and the counters stay   *)
(* within the sector buffer (usb_device_msd.c:1042 and 1152).                *)
TypeOK ==
  /\ host.phase \in {"attach", "idle", "data", "status", "clearIn", "clearOut",
                     "reset", "resetIn", "resetOut"}
  /\ host.sent \in 0 .. Sectors /\ Len(host.got) <= Sectors
  /\ \A ep \in {rx, tx} : /\ ep.irp \in {"COMPLETED", "IN_PROGRESS", "ABORTED"}
                         /\ ep.halt => ep.stalled
                         /\ ep.slot \in 0 .. Buffering - 1
  /\ {msd.state, task.at, task.next} \subseteq States \cup {"NONE"}
  /\ msd.media \in {"IDLE", "PENDING", "COMPLETE", "ERROR"}
  /\ {msd.offset, msd.pending, msd.usbSectors, msd.toWrite} \subseteq 0 .. Buffering
  /\ media.req # None => media.req.addr + media.req.n <= Sectors

(* No reset came where it can be overtaken. *)
Undisturbed == ~overtaken

(* The host meets the phases of its own command, in their order: no CSW among *)
(* its data, no data for a CSW, and the CSW is that of its command            *)
(* (usb_device_msd.c:470, :672).                                              *)
InStep ==
  Undisturbed =>
    /\ \A i \in 1 .. Len(host.got) : host.got[i].type # "csw"
    /\ host.csw # None => host.csw.type = "csw" /\ host.csw.tag = host.tag

(* A read that passed sent what the medium holds, and the residue counts      *)
(* what the host did not get, although one sector buffer serves the medium    *)
(* and the endpoint in turn (usb_device_msd.c:1091, :490).                    *)
ReadsTrue ==
  Undisturbed /\ host.csw # None /\ host.cmd.dir = "in" =>
    /\ host.csw.residue = host.cmd.want - Len(host.got)
    /\ host.csw.status = "PASSED" /\ host.cmd.op = "read" =>
         host.got = [i \in 1 .. host.cmd.want |-> media.store[host.cmd.addr + i - 1]]

(* The medium holds what the host was told it holds, although a write erases *)
(* its neighbours too and may fail at any page: every sector of a write that  *)
(* passed, and every sector beside it; what a write that did not pass may     *)
(* have cost lies in its erase sectors (usb_device_msd.c:1397,                *)
(* drv_memory.c:611).                                                         *)
DiskAgrees ==
  Undisturbed => \A s \in DOMAIN media.store : host.disk[s] \in {None, media.store[s]}

(* The medium works for the command the function is in, and for no other:     *)
(* none is left behind when the function answers (usb_device_msd.c:884).      *)
NoWorkLeftBehind ==
  Undisturbed /\ media.req # None =>
    msd.state \in {"CBW", "DATA_IN", "DATA_OUT"} /\ host.phase \notin {"idle", "attach"}

(* Every command is taken and answered, whatever halts, failures and clean    *)
(* resets come between, unless a configuration began with an endpoint that    *)
(* the driver still holds for stalled (drv_usbfsv1_device.c:589).             *)
EveryCommandServed ==
  [](Undisturbed /\ ~haltKept) => <>(host.tag = MaxCommands /\ host.phase = "idle")
=============================================================================
