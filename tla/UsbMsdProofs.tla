---------------------------- MODULE UsbMsdProofs ----------------------------
(***************************************************************************)
(* Theorems about UsbMsd, for every medium, every size of what it erases   *)
(* at once, every sector buffer and every number of commands.              *)
(*                                                                         *)
(* First the types, wherever a reset comes.  TypeOK is not inductive: that *)
(* a sector lies in the buffer rests on the counters of the part under     *)
(* way, that a request lies on the medium on the length of the command,    *)
(* and both on the place the call of _USB_DEVICE_MSD_Tasks has reached.    *)
(* Base adds that.  Every step A has an operator AEffect, what A does to   *)
(* each part of the state, a lemma AIs that A does it, and a lemma ABase   *)
(* that Base survives A.                                                   *)
(*                                                                         *)
(* Then the bulk-only protocol: while no reset overtakes the function, the *)
(* host meets the phases of its own command, a read that passed is what    *)
(* the medium holds, a write that passed is on the medium with all that    *)
(* was erased for it beside it as before, and no request outlives its      *)
(* command.  The invariant follows a command through the      *)
(* function.  Control says which endpoint may be stalled or in transfer in *)
(* which phase; Commanded that the command block is the host's, its        *)
(* address and length being the cursor; Content where each sector of the   *)
(* command is: on the medium, in the sector buffer, in flight or with the  *)
(* host.  None of the four properties is inductive without the three: what *)
(* the host is told at the end rests on every step since it sent the       *)
(* command.                                                                *)
(***************************************************************************)
EXTENDS UsbMsd, Integers, TLAPS

(***************************************************************************)
(* Types.                                                                  *)
(***************************************************************************)

-----------------------------------------------------------------------------
(* The types of the parts.                                                 *)
Ops == {"read", "write", "capacity", "ready", "garbled"}
Statuses == {"PASSED", "FAILED"}
Phases == {"attach", "idle", "data", "status", "clearIn", "clearOut",
           "reset", "resetIn", "resetOut"}
MediaStates == {"IDLE", "PENDING", "COMPLETE", "ERROR"}

CommandBlock == [type : {"cbw"}, tag : Nat, op : Ops, addr : Nat, len : Nat,
                 want : 0 .. Sectors, dir : {"in", "out"}]
DataPacket == [type : {"data"}, tag : Nat, k : Nat]
Payload == DataPacket \cup CommandBlock \cup {None, Reply, Damaged}
Wrapper == [type : {"csw"}, tag : Nat, residue : Int, status : Statuses]
Packet == Payload \cup Wrapper
Requests == [type : {"request"}, op : {"read", "write"}, addr : Nat, n : 0 .. Buffering]
Slots == 0 .. Buffering - 1

HostType == [phase : Phases, cmd : CommandBlock \cup {None}, tag : Nat, sent : 0 .. Sectors,
             got : Seq(Packet), csw : Packet, retried : BOOLEAN, giveUps : Nat,
             disk : [0 .. Sectors - 1 -> Packet], before : [0 .. Sectors - 1 -> Packet]]
EndpointType == [irp : {"COMPLETED", "IN_PROGRESS", "ABORTED"}, stalled : BOOLEAN,
                 halt : BOOLEAN, enabled : BOOLEAN, to : {"CBW", "BUFFER", "CSW"}, slot : Slots]
MsdType == [state : States, cbw : Payload, csw : Wrapper, media : MediaStates,
            handle : BOOLEAN, offset : 0 .. Buffering, pending : 0 .. Buffering,
            usbSectors : 0 .. Buffering, toWrite : 0 .. Buffering, total : Nat,
            buffer : [Slots -> Payload]]
TaskType == [at : States \cup {"NONE"}, next : States \cup {"NONE"}, status : Statuses]
MediaType == [store : [0 .. Sectors - 1 -> Payload], req : Requests \cup {None}, open : BOOLEAN]

Typed == /\ host \in HostType /\ rx \in EndpointType /\ tx \in EndpointType
         /\ msd \in MsdType /\ task \in TaskType /\ media \in MediaType
         /\ {configured, overtaken, haltKept} \subseteq BOOLEAN

-----------------------------------------------------------------------------
(* What Base adds to the types.                                            *)

(* The state of the switch the function is in, as the steps of a call go:  *)
(* the one a call is to store, the one it works in, or the stored one.     *)
Doing == IF task.at = "NONE" THEN msd.state
         ELSE IF task.next # "NONE" THEN task.next ELSE task.at

(* The successor a call may store, for each state it works in.             *)
Legs == {<<"WAIT_FOR_CBW", "CBW">>, <<"CBW", "WAIT_FOR_CBW">>, <<"CBW", "STALL_IN_OUT">>,
         <<"CBW", "PROCESS_CBW">>, <<"CBW", "CSW">>, <<"CBW", "DATA_IN">>, <<"CBW", "DATA_OUT">>,
         <<"PROCESS_CBW", "CSW">>, <<"DATA_IN", "DATA_IN">>, <<"DATA_IN", "CSW">>,
         <<"DATA_OUT", "DATA_OUT">>, <<"DATA_OUT", "CSW">>, <<"CSW", "SEND_CSW">>,
         <<"SEND_CSW", "WAIT_FOR_CBW">>}
Calls == /\ task.at = "NONE" => task = Outside
         /\ task.next # "NONE" => <<task.at, task.next>> \in Legs
         /\ task.at # "NONE" => msd.state \in {task.at, "WAIT_FOR_CBW"}
(* The IRP of the OUT endpoint is the one the function waits for.          *)
Receiving == rx.irp = "IN_PROGRESS" =>
  /\ task.at = "NONE" \/ task.next # "NONE"
  /\ \/ rx.to = "CBW" /\ Doing = "CBW" /\ task.at \in {"NONE", "WAIT_FOR_CBW"}
     \/ rx.to = "BUFFER" /\ Doing = "DATA_OUT" /\ task.at \in {"NONE", "DATA_OUT"}
(* A command that is worked on has been verified.                          *)
Understood == Doing \in {"PROCESS_CBW", "DATA_IN", "DATA_OUT", "CSW"} => msd.cbw \in CommandBlock
(* The counters of a part stay in the order of the buffer.                 *)
Counted == /\ Doing = "DATA_IN" => msd.pending <= msd.offset
           /\ Doing = "DATA_OUT" =>
                /\ msd.toWrite <= msd.cbw.len
                /\ msd.toWrite > 0 => msd.offset + msd.usbSectors = msd.toWrite
(* The host and the medium stay within the command and the sectors.        *)
Limited == /\ host.phase \in {"data", "status", "clearIn", "clearOut"} => host.cmd \in CommandBlock
           /\ host.phase = "data" => /\ host.sent < host.cmd.want /\ Len(host.got) < host.cmd.want
           /\ Len(host.got) <= Sectors
           /\ rx.halt => rx.stalled
           /\ tx.halt => tx.stalled
           /\ media.req # None => media.req.addr + media.req.n <= Sectors
Base == Typed /\ Calls /\ Receiving /\ Understood /\ Counted /\ Limited

-----------------------------------------------------------------------------
(* The fields a step leaves alone.                                         *)
MsdFields == {"state", "cbw", "csw", "media", "handle", "offset", "pending",
              "usbSectors", "toWrite", "total", "buffer"}
HostFields == {"phase", "cmd", "tag", "sent", "got", "csw", "retried", "giveUps", "disk",
               "before"}
(* The records r and s agree on the fields F.                              *)
Agree(r, s, F) == \A f \in F : s[f] = r[f]
SameMsd(changed) == Agree(msd, msd', MsdFields \ changed)
SameHost(changed) == Agree(host, host', HostFields \ changed)

-----------------------------------------------------------------------------
(* What the operations on an endpoint do.                                  *)

Submitted(ep, e, to, slot) ==
  /\ e \in EndpointType /\ e.stalled = ep.stalled /\ e.halt = ep.halt /\ e.enabled = ep.enabled
  /\ IF ep.irp = "IN_PROGRESS" \/ ~ep.enabled
     THEN e.irp = ep.irp /\ e.to = ep.to /\ e.slot = ep.slot
     ELSE e.irp = "IN_PROGRESS" /\ e.to = to /\ e.slot = slot
Aborted(ep, e) == /\ e \in EndpointType /\ e.irp # "IN_PROGRESS"
                  /\ e.irp = "COMPLETED" <=> ep.irp = "COMPLETED"
Stalled(ep, e) == Aborted(ep, e) /\ e.stalled /\ e.halt /\ e.enabled = ep.enabled
Cleared(ep, e) == Aborted(ep, e) /\ ~e.stalled /\ ~e.halt /\ e.enabled = ep.enabled
Disabled(ep, e) == Aborted(ep, e) /\ ~e.halt /\ ~e.enabled /\ e.stalled = ep.stalled
Enabled(ep, e) == /\ e \in EndpointType /\ e.irp = "COMPLETED" /\ e.enabled
                  /\ e.stalled = ep.stalled /\ e.halt = ep.halt
Completed(ep, e) == /\ e \in EndpointType /\ ep.irp = "IN_PROGRESS" /\ ep.enabled /\ ~ep.halt
                    /\ e.irp = "COMPLETED" /\ e.stalled = ep.stalled /\ e.halt = ep.halt
                    /\ e.enabled = ep.enabled /\ e.to = ep.to /\ e.slot = ep.slot

LEMMA Submits ==
    ASSUME NEW ep \in EndpointType, NEW to \in {"CBW", "BUFFER", "CSW"}, NEW slot \in Slots
    PROVE  Submitted(ep, IRPSubmit(ep, to, slot), to, slot)
  BY DEF EndpointType, IRPSubmit, Submitted

LEMMA Aborts ==
    ASSUME NEW ep \in EndpointType
    PROVE  /\ Stalled(ep, EndpointStall(ep)) /\ Cleared(ep, EndpointStallClear(ep))
           /\ Disabled(ep, EndpointDisable(ep)) /\ Enabled(ep, EndpointEnable(ep))
  <1>1. Stalled(ep, EndpointStall(ep))
    BY DEF EndpointType, EndpointStall, Flushed, Stalled, Aborted
  <1>2. Cleared(ep, EndpointStallClear(ep))
    BY DEF EndpointType, EndpointStallClear, Flushed, Cleared, Aborted
  <1>3. Disabled(ep, EndpointDisable(ep))
    BY DEF EndpointType, EndpointDisable, Flushed, Disabled, Aborted
  <1>4. Enabled(ep, EndpointEnable(ep)) BY DEF EndpointType, EndpointEnable, Enabled
  <1> QED BY <1>1, <1>2, <1>3, <1>4

LEMMA Completing ==
    ASSUME NEW ep \in EndpointType, Listening(ep)
    PROVE  Completed(ep, [ep EXCEPT !.irp = "COMPLETED"])
  BY DEF EndpointType, Listening, Completed

-----------------------------------------------------------------------------
(* What each step does, field by field.                                    *)
InTask(at) == task.at = at /\ task.next = "NONE"
TaskEnds(at, next, status) ==
  /\ task' \in TaskType /\ task'.at = at /\ task'.next = next /\ task'.status = status
Frame == UNCHANGED <<host, configured, overtaken, haltKept>>

LEMMA EndsIs ==
    ASSUME Typed, NEW next \in States, NEW status \in Statuses, Ends(next, status)
    PROVE  TaskEnds(task.at, next, status)
  BY DEF Typed, TaskType, Ends, TaskEnds

EnterEffect ==
  /\ task.at = "NONE" /\ configured /\ MayEnter(msd.state)
  /\ UNCHANGED <<rx, tx, msd, media>> /\ Frame
  /\ TaskEnds(msd.state, "NONE", "PASSED")
  /\ msd.state # "NONE"

LEMMA EnterIs ==
    ASSUME Typed, Enter
    PROVE  EnterEffect
  BY DEF EnterEffect, Typed, TaskType, MsdType, Enter, Entered, Outside, TaskEnds, Frame,
     States, Statuses

StallInOutEffect ==
  /\ InTask("STALL_IN_OUT") /\ task' = Outside /\ TaskEnds("NONE", "NONE", "PASSED")
  /\ Stalled(rx, rx') /\ Stalled(tx, tx')
  /\ UNCHANGED <<msd, media>> /\ Frame

LEMMA StallInOutIs ==
    ASSUME Typed, StallInOut
    PROVE  StallInOutEffect
  BY Aborts DEF Typed, StallInOutEffect, StallInOut, Working, InTask, TaskEnds, Outside,
     TaskType, States, Statuses, KeepsTask, Frame

WaitForCbwEffect ==
  /\ InTask("WAIT_FOR_CBW") /\ TaskEnds("WAIT_FOR_CBW", "CBW", msd.csw.status)
  /\ Submitted(rx, rx', "CBW", 0)
  /\ UNCHANGED <<tx, msd, media>> /\ Frame

LEMMA WaitForCbwIs ==
    ASSUME Typed, WaitForCbw
    PROVE  WaitForCbwEffect
  <1> USE DEF WaitForCbwEffect
  <1>1. msd.csw.status \in Statuses BY DEF Typed, MsdType, Wrapper
  <1>2. 0 \in Slots /\ rx \in EndpointType BY UsbAssumption DEF Slots, Typed
  <1>3. Submitted(rx, rx', "CBW", 0) BY <1>2, Submits DEF WaitForCbw
  <1> QED BY <1>1, <1>3, EndsIs DEF WaitForCbw, Working, InTask, KeepsTask, Frame, States

RescheduleEffect ==
  /\ InTask("CBW") /\ TaskEnds("CBW", "WAIT_FOR_CBW", msd.csw.status)
  /\ rx.irp # "COMPLETED"
  /\ UNCHANGED <<rx, tx, msd, media>> /\ Frame

LEMMA RescheduleIs ==
    ASSUME Typed, Reschedule
    PROVE  RescheduleEffect
  <1> USE DEF RescheduleEffect
  <1>1. msd.csw.status \in Statuses BY DEF Typed, MsdType, Wrapper
  <1> QED BY <1>1, EndsIs DEF Reschedule, Working, InTask, KeepsTask, Frame, States

LEMMA VerdictIs ==
    ASSUME NEW c, NEW present
    PROVE  /\ Verdict(c, present)[1] \in {"PROCESS_CBW", "CSW", "DATA_IN", "DATA_OUT"}
           /\ Verdict(c, present)[2] \in Statuses
           /\ Verdict(c, present)[1] = "PROCESS_CBW" => c.op \notin {"read", "write"}
           /\ Verdict(c, present)[1] = "CSW" => c.op \in {"read", "write"}
           /\ Verdict(c, present)[1] = "CSW" /\ Verdict(c, present)[2] = "PASSED" =>
                c.want = 0 /\ c.want = c.len
           /\ Verdict(c, present)[1] = "DATA_IN" => c.op = "read" /\ c.want = c.len
           /\ Verdict(c, present)[1] = "DATA_OUT" => c.op = "write" /\ c.want = c.len
  <1> DEFINE v == Verdict(c, present)
  <1>1. \/ v = <<"PROCESS_CBW", "PASSED">> /\ c.op \notin {"read", "write"}
        \/ v = <<"CSW", "FAILED">> /\ c.op \in {"read", "write"}
        \/ v = <<"CSW", "PASSED">> /\ c.op \in {"read", "write"} /\ c.want = 0 /\ c.want = c.len
        \/ v = <<"DATA_IN", "PASSED">> /\ c.op = "read" /\ c.want = c.len
        \/ v = <<"DATA_OUT", "PASSED">> /\ c.op = "write" /\ c.want = c.len
    BY DEF Verdict
  <1> HIDE DEF v
  <1>2. \/ v[1] = "PROCESS_CBW" /\ v[2] = "PASSED" /\ c.op \notin {"read", "write"}
        \/ v[1] = "CSW" /\ v[2] = "FAILED" /\ c.op \in {"read", "write"}
        \/ /\ v[1] = "CSW" /\ v[2] = "PASSED" /\ c.op \in {"read", "write"}
           /\ c.want = 0 /\ c.want = c.len
        \/ v[1] = "DATA_IN" /\ v[2] = "PASSED" /\ c.op = "read" /\ c.want = c.len
        \/ v[1] = "DATA_OUT" /\ v[2] = "PASSED" /\ c.op = "write" /\ c.want = c.len
    BY <1>1
  <1> QED BY <1>2 DEF Statuses, v

Verified == {"media", "total", "offset", "pending", "usbSectors", "toWrite", "handle"}

VerifyCommandEffect ==
  /\ InTask("CBW") /\ rx.irp = "COMPLETED"
  /\ msd' \in MsdType /\ SameMsd(Verified)
  /\ msd'.media = "IDLE" /\ msd'.total = 0 /\ msd'.offset = 0 /\ msd'.pending = 0
  /\ msd'.usbSectors = 0 /\ msd'.toWrite = 0
  /\ media' \in MediaType /\ media'.store = media.store /\ media'.req = media.req
  /\ task' \in TaskType /\ task'.at = "CBW"
  /\ IF msd.cbw.type # "cbw" \/ msd.cbw.op = "garbled"
     THEN task'.next = "STALL_IN_OUT"
     ELSE /\ msd.cbw.type = "cbw" /\ msd.cbw.op # "garbled"
          /\ task'.next \in {"PROCESS_CBW", "CSW", "DATA_IN", "DATA_OUT"}
          /\ task'.next = "PROCESS_CBW" => msd.cbw.op \notin {"read", "write"}
          /\ task'.next = "CSW" => msd.cbw.op \in {"read", "write"}
          /\ task'.next = "CSW" /\ task'.status = "PASSED" =>
               msd.cbw.want = 0 /\ msd.cbw.want = msd.cbw.len
          /\ task'.next = "DATA_IN" => msd.cbw.op = "read" /\ msd.cbw.want = msd.cbw.len
          /\ task'.next = "DATA_OUT" => msd.cbw.op = "write" /\ msd.cbw.want = msd.cbw.len
  /\ UNCHANGED <<rx, tx>> /\ Frame

LEMMA VerifyCommandIs ==
    ASSUME Typed, VerifyCommand
    PROVE  VerifyCommandEffect
  <1> USE DEF VerifyCommandEffect
  <1>1. InTask("CBW") /\ rx.irp = "COMPLETED" /\ UNCHANGED <<rx, tx>> /\ Frame
    BY DEF VerifyCommand, Working, InTask, KeepsTask, Frame
  <1> DEFINE m == Reset(msd)
  <1>0. 0 \in 0 .. Buffering /\ 0 \in Nat /\ "IDLE" \in MediaStates
    BY UsbAssumption DEF MediaStates
  <1>2. m \in MsdType /\ Agree(msd, m, MsdFields \ (Verified \ {"handle"}))
        /\ m.media = "IDLE" /\ m.total = 0 /\ m.offset = 0
        /\ m.pending = 0 /\ m.usbSectors = 0 /\ m.toWrite = 0
    <2>1. msd \in MsdType BY DEF Typed
    <2>2. m \in MsdType BY <1>0, <2>1 DEF Reset, MsdType
    <2>3. m.media = "IDLE" /\ m.total = 0 /\ m.offset = 0 /\ m.pending = 0
          /\ m.usbSectors = 0 /\ m.toWrite = 0
      BY <2>1 DEF Reset, MsdType
    <2>4. /\ m.state = msd.state /\ m.cbw = msd.cbw /\ m.csw = msd.csw
          /\ m.handle = msd.handle /\ m.buffer = msd.buffer
      BY <2>1 DEF Reset, MsdType
    <2> HIDE DEF m
    <2> QED BY <2>2, <2>3, <2>4 DEF Agree, MsdFields, Verified
  <1>3. CASE msd.cbw.type # "cbw" \/ msd.cbw.op = "garbled"
    <2>1. msd' = m /\ Ends("STALL_IN_OUT", "PASSED") /\ UNCHANGED media
      BY <1>3 DEF VerifyCommand
    <2>2. TaskEnds(task.at, "STALL_IN_OUT", "PASSED") BY <2>1, EndsIs DEF States, Statuses
    <2> QED BY <1>1, <1>2, <1>3, <2>1, <2>2
            DEF TaskEnds, InTask, SameMsd, Agree, MsdFields, Verified, Typed, MediaType
  <1>4. CASE ~(msd.cbw.type # "cbw" \/ msd.cbw.op = "garbled")
    <2>1. PICK opens \in BOOLEAN :
            /\ msd' = [m EXCEPT !.handle = opens]
            /\ media' = IF msd.handle THEN media ELSE [media EXCEPT !.open = opens]
            /\ Ends(Verdict(msd.cbw, opens)[1], Verdict(msd.cbw, opens)[2])
      BY <1>4 DEF VerifyCommand
    <2> DEFINE v == Verdict(msd.cbw, opens)
    <2>2. /\ v[1] \in States /\ v[2] \in Statuses
          /\ v[1] \in {"PROCESS_CBW", "CSW", "DATA_IN", "DATA_OUT"}
      BY VerdictIs DEF States
    <2>3. TaskEnds("CBW", v[1], v[2]) BY <1>1, <2>1, <2>2, EndsIs DEF InTask
    <2>4. /\ msd' \in MsdType /\ Agree(m, msd', MsdFields \ {"handle"})
      BY <1>2, <2>1 DEF MsdType, Agree, MsdFields
    <2>5. media' \in MediaType /\ media'.store = media.store /\ media'.req = media.req
      BY <2>1 DEF Typed, MediaType
    <2>6. SameMsd(Verified)
          /\ msd'.media = "IDLE" /\ msd'.total = 0 /\ msd'.offset = 0 /\ msd'.pending = 0
          /\ msd'.usbSectors = 0 /\ msd'.toWrite = 0
      BY <1>2, <2>4 DEF SameMsd, Agree, MsdFields, Verified
    <2> HIDE DEF v
    <2>7. /\ v[1] = "PROCESS_CBW" => msd.cbw.op \notin {"read", "write"}
          /\ v[1] = "CSW" => msd.cbw.op \in {"read", "write"}
          /\ v[1] = "CSW" /\ v[2] = "PASSED" => msd.cbw.want = 0 /\ msd.cbw.want = msd.cbw.len
          /\ v[1] = "DATA_IN" => msd.cbw.op = "read" /\ msd.cbw.want = msd.cbw.len
          /\ v[1] = "DATA_OUT" => msd.cbw.op = "write" /\ msd.cbw.want = msd.cbw.len
      BY VerdictIs DEF v
    <2> QED BY <1>1, <1>4, <2>2, <2>3, <2>4, <2>5, <2>6, <2>7 DEF TaskEnds
  <1> QED BY <1>3, <1>4

ProcessNonRWCommandEffect ==
  /\ InTask("PROCESS_CBW") /\ task' \in TaskType
  /\ task'.at = "PROCESS_CBW" /\ task'.next = "CSW"
  /\ msd' \in MsdType /\ SameMsd({"total", "buffer"})
  /\ \/ /\ msd.cbw.op = "capacity" /\ msd.cbw.want > 0 /\ msd.cbw.dir = "in"
        /\ msd'.total = 1 /\ msd'.buffer[0] = Reply
        /\ Submitted(tx, tx', "BUFFER", 0) /\ task'.status = "PASSED"
     \/ /\ task'.status = "PASSED" => msd.cbw.op = "ready"
        /\ UNCHANGED <<msd, tx>>
  /\ UNCHANGED <<rx, media>> /\ Frame

LEMMA ProcessNonRWCommandIs ==
    ASSUME Typed, ProcessNonRWCommand
    PROVE  ProcessNonRWCommandEffect
  <1> USE DEF ProcessNonRWCommandEffect
  <1>1. InTask("PROCESS_CBW") /\ UNCHANGED <<rx, media>> /\ Frame
    BY DEF ProcessNonRWCommand, Working, InTask, KeepsTask, Frame
  <1> DEFINE answered == /\ msd.cbw.op = "capacity" /\ msd.handle
                         /\ msd.cbw.want > 0 /\ msd.cbw.dir = "in"
  <1>2. CASE answered
    <2>1. /\ msd' = [msd EXCEPT !.total = 1, !.buffer[0] = Reply]
          /\ tx' = IRPSubmit(tx, "BUFFER", 0) /\ Ends("CSW", "PASSED")
      BY <1>2 DEF ProcessNonRWCommand
    <2>2. TaskEnds("PROCESS_CBW", "CSW", "PASSED")
      BY <1>1, <2>1, EndsIs DEF InTask, States, Statuses
    <2>3. 0 \in Slots /\ Reply \in Payload BY UsbAssumption DEF Slots, Payload
    <2> DEFINE b == [msd.buffer EXCEPT ![0] = Reply]
    <2>4. msd' = [msd EXCEPT !.total = 1, !.buffer = b] BY <2>1
    <2>5. b \in [Slots -> Payload] /\ b[0] = Reply BY <2>3 DEF Typed, MsdType
    <2> HIDE DEF b
    <2>6. msd' \in MsdType /\ SameMsd({"total", "buffer"}) /\ msd'.total = 1 /\ msd'.buffer = b
      BY <2>4, <2>5 DEF Typed, MsdType, SameMsd, Agree, MsdFields
    <2>7. Submitted(tx, tx', "BUFFER", 0) BY <2>1, <2>3, Submits DEF Typed
    <2> QED BY <1>1, <1>2, <2>1, <2>2, <2>5, <2>6, <2>7 DEF TaskEnds
  <1>3. CASE ~answered
    <2>1. /\ Ends("CSW", IF msd.cbw.op = "ready" /\ msd.handle THEN "PASSED" ELSE "FAILED")
          /\ UNCHANGED <<msd, tx>>
      BY <1>3 DEF ProcessNonRWCommand
    <2> DEFINE st == IF msd.cbw.op = "ready" /\ msd.handle THEN "PASSED" ELSE "FAILED"
    <2>2. st \in Statuses /\ "CSW" \in States /\ (st = "PASSED" => msd.cbw.op = "ready")
      BY DEF Statuses, States
    <2> HIDE DEF st
    <2>3. TaskEnds("PROCESS_CBW", "CSW", st)
      <3>1. Ends("CSW", st) BY <2>1 DEF st
      <3> QED BY <1>1, <2>2, <3>1, EndsIs DEF InTask
    <2> QED BY <1>1, <2>1, <2>2, <2>3 DEF TaskEnds, SameMsd, Agree, Typed
  <1> QED BY <1>2, <1>3

ReadSendEffect ==
  /\ InTask("DATA_IN") /\ TaskEnds("DATA_IN", "DATA_IN", "PASSED")
  /\ msd.media = "COMPLETE" /\ msd.pending < msd.offset /\ msd.pending \in Slots
  /\ Submitted(tx, tx', "BUFFER", msd.pending)
  /\ msd' \in MsdType /\ SameMsd({"total", "pending"})
  /\ msd'.total = msd.total + 1 /\ msd'.pending = msd.pending + 1
  /\ UNCHANGED <<rx, media>> /\ Frame

LEMMA ReadSendIs ==
    ASSUME Typed, ReadSend, msd.pending <= msd.offset
    PROVE  ReadSendEffect
  <1> USE DEF ReadSendEffect
  <1>1. /\ InTask("DATA_IN") /\ msd.media = "COMPLETE" /\ msd.pending # msd.offset
        /\ tx' = IRPSubmit(tx, "BUFFER", msd.pending)
        /\ msd' = [msd EXCEPT !.total = @ + 1, !.pending = @ + 1]
        /\ Ends("DATA_IN", "PASSED") /\ UNCHANGED <<rx, media>> /\ Frame
    BY DEF ReadSend, Working, InTask, KeepsTask, Frame
  <1>2. TaskEnds("DATA_IN", "DATA_IN", "PASSED")
    BY <1>1, EndsIs DEF InTask, States, Statuses
  <1>3. msd.pending < msd.offset /\ msd.pending \in Slots /\ msd.pending + 1 \in 0 .. Buffering
        /\ msd.total + 1 \in Nat
    BY <1>1, UsbAssumption DEF Typed, MsdType, Slots
  <1>4. msd' \in MsdType BY <1>1, <1>3 DEF Typed, MsdType
  <1>5. /\ SameMsd({"total", "pending"})
        /\ msd'.total = msd.total + 1 /\ msd'.pending = msd.pending + 1
    BY <1>1 DEF Typed, MsdType, SameMsd, Agree, MsdFields
  <1>6. Submitted(tx, tx', "BUFFER", msd.pending) BY <1>1, <1>3, Submits DEF Typed
  <1> QED BY <1>1, <1>2, <1>3, <1>4, <1>5, <1>6

LEMMA Advances ==
    ASSUME NEW c \in CommandBlock, NEW n \in Nat, n <= c.len
    PROVE  /\ Advanced(c, n) \in CommandBlock
           /\ Advanced(c, n).addr = c.addr + n /\ Advanced(c, n).len = c.len - n
           /\ Agree(c, Advanced(c, n), {"type", "tag", "op", "want", "dir"})
  <1> DEFINE d == Advanced(c, n)
  <1>1. c.addr + n \in Nat /\ c.len - n \in Nat BY DEF CommandBlock
  <1>2. d \in CommandBlock BY <1>1 DEF Advanced, CommandBlock
  <1>3. d.addr = c.addr + n /\ d.len = c.len - n BY DEF Advanced, CommandBlock
  <1>4. d.type = c.type /\ d.tag = c.tag /\ d.op = c.op /\ d.want = c.want /\ d.dir = c.dir
    BY DEF Advanced, CommandBlock
  <1> QED BY <1>2, <1>3, <1>4 DEF Agree

(* A part of the command block: what fits the sector buffer.               *)

LEMMA Parts ==
    ASSUME NEW c \in CommandBlock
    PROVE  /\ Smaller(c.len, Buffering) \in 0 .. Buffering
           /\ Smaller(c.len, Buffering) <= c.len
           /\ c.len > 0 => Smaller(c.len, Buffering) > 0
  BY UsbAssumption DEF CommandBlock, Smaller

(* A request the medium took: its sectors are the medium's.                *)

LEMMA Taken ==
    ASSUME Typed, NEW op \in {"read", "write"}, NEW addr \in Nat, NEW n \in 0 .. Buffering,
           NEW refused \in Refusals(addr, n), ~refused,
           media' = [media EXCEPT !.req = Request(op, addr, n)]
    PROVE  /\ media' \in MediaType /\ media'.store = media.store /\ media'.open = media.open
           /\ media'.req = Request(op, addr, n) /\ media'.req \in Requests
           /\ media.req = None /\ media.open /\ addr + n <= Sectors
  <1>1. media.open /\ media.req = None /\ addr + n <= Sectors BY DEF Refusals
  <1>2. Request(op, addr, n) \in Requests BY DEF Request, Requests
  <1> QED BY <1>1, <1>2 DEF Typed, MediaType

ReadMoreEffect ==
  LET n == Smaller(msd.cbw.len, Buffering) IN
  /\ InTask("DATA_IN") /\ task' \in TaskType /\ task'.at = "DATA_IN"
  /\ msd.media = "IDLE" \/ (msd.media = "COMPLETE" /\ msd.pending = msd.offset)
  /\ msd' \in MsdType /\ media' \in MediaType
  /\ SameMsd({"media", "offset", "pending", "cbw"})
  /\ msd'.pending = 0
  /\ \/ /\ msd.media = "COMPLETE" /\ msd.cbw.len = 0
        /\ msd'.offset = 0 /\ msd'.cbw = msd.cbw /\ UNCHANGED media
        /\ task'.next = "CSW" /\ task'.status = "PASSED"
     \/ /\ msd'.cbw = msd.cbw /\ UNCHANGED media
        /\ task'.next = "CSW" /\ task'.status = "FAILED"
     \/ /\ msd'.media = "PENDING" /\ msd'.offset = n
        /\ msd'.cbw = Advanced(msd.cbw, n)
        /\ media.req = None /\ msd.cbw.addr + n <= Sectors
        /\ media'.req = Request("read", msd.cbw.addr, n) /\ media'.store = media.store
        /\ media'.open
        /\ task'.next = "DATA_IN" /\ task'.status = "PASSED"
  /\ UNCHANGED <<rx, tx>> /\ Frame

LEMMA ReadMoreIs ==
    ASSUME Typed, ReadMore, msd.cbw \in CommandBlock
    PROVE  ReadMoreEffect
  <1> USE DEF ReadMoreEffect
  <1> DEFINE n == Smaller(msd.cbw.len, Buffering)
             a == Advanced(msd.cbw, n)
  <1>1. /\ InTask("DATA_IN") /\ UNCHANGED <<rx, tx>> /\ Frame
        /\ msd.media = "IDLE" \/ (msd.media = "COMPLETE" /\ msd.pending = msd.offset)
    BY DEF ReadMore, Working, InTask, KeepsTask, Frame
  <1>2. n \in 0 .. Buffering /\ n <= msd.cbw.len /\ n \in Nat /\ 0 \in 0 .. Buffering
        /\ msd.cbw.addr \in Nat
    BY Parts, UsbAssumption DEF CommandBlock
  <1>3. a \in Payload /\ msd.cbw \in Payload BY <1>2, Advances DEF Payload
  <1>4. {"DATA_IN", "CSW"} \subseteq States /\ Statuses = {"PASSED", "FAILED"}
        /\ {"IDLE", "PENDING"} \subseteq MediaStates
    BY DEF States, Statuses, MediaStates
  <1>5. CASE msd.media = "COMPLETE" /\ msd.cbw.len = 0
    <2>1. /\ msd' = [msd EXCEPT !.pending = 0, !.offset = 0, !.media = "IDLE"]
          /\ Ends("CSW", "PASSED") /\ UNCHANGED media
      BY <1>5 DEF ReadMore
    <2>2. TaskEnds("DATA_IN", "CSW", "PASSED") BY <1>1, <1>4, <2>1, EndsIs DEF InTask
    <2>3. msd' \in MsdType BY <1>2, <1>4, <2>1 DEF Typed, MsdType
    <2>4. SameMsd({"media", "offset", "pending", "cbw"}) /\ msd'.pending = 0
          /\ msd'.offset = 0 /\ msd'.cbw = msd.cbw
      BY <2>1 DEF Typed, MsdType, SameMsd, Agree, MsdFields
    <2>5. media' \in MediaType BY <2>1 DEF Typed
    <2> QED BY <1>1, <1>5, <2>1, <2>2, <2>3, <2>4, <2>5 DEF TaskEnds
  <1>6. CASE ~(msd.media = "COMPLETE" /\ msd.cbw.len = 0)
    <2>1. PICK refused \in Refusals(msd.cbw.addr, n) :
            /\ msd' = [msd EXCEPT !.media = "PENDING", !.offset = n, !.pending = 0,
                                  !.cbw = IF refused THEN @ ELSE a]
            /\ media' = IF refused THEN media
                        ELSE [media EXCEPT !.req = Request("read", msd.cbw.addr, n)]
            /\ IF refused THEN Ends("CSW", "FAILED") ELSE Ends("DATA_IN", "PASSED")
      BY <1>6 DEF ReadMore
    <2> HIDE DEF n, a
    <2>2. CASE refused
      <3>1. msd' = [msd EXCEPT !.media = "PENDING", !.offset = n, !.pending = 0]
        BY <2>1, <2>2 DEF Typed, MsdType
      <3>2. TaskEnds("DATA_IN", "CSW", "FAILED") BY <1>1, <1>4, <2>1, <2>2, EndsIs DEF InTask
      <3>3. msd' \in MsdType BY <1>2, <1>4, <3>1 DEF Typed, MsdType
      <3>4. SameMsd({"media", "offset", "pending", "cbw"}) /\ msd'.pending = 0
            /\ msd'.cbw = msd.cbw
        BY <3>1 DEF Typed, MsdType, SameMsd, Agree, MsdFields
      <3>5. UNCHANGED media /\ media' \in MediaType BY <2>1, <2>2 DEF Typed
      <3> QED BY <1>1, <3>2, <3>3, <3>4, <3>5 DEF TaskEnds
    <2>3. CASE ~refused
      <3>1. msd' = [msd EXCEPT !.media = "PENDING", !.offset = n, !.pending = 0, !.cbw = a]
        BY <2>1, <2>3 DEF Typed, MsdType
      <3>2. TaskEnds("DATA_IN", "DATA_IN", "PASSED") BY <1>1, <1>4, <2>1, <2>3, EndsIs DEF InTask
      <3>3. msd' \in MsdType BY <1>2, <1>3, <1>4, <3>1 DEF Typed, MsdType
      <3>4. SameMsd({"media", "offset", "pending", "cbw"}) /\ msd'.pending = 0
            /\ msd'.cbw = a /\ msd'.media = "PENDING" /\ msd'.offset = n
        BY <3>1 DEF Typed, MsdType, SameMsd, Agree, MsdFields
      <3>5. media' = [media EXCEPT !.req = Request("read", msd.cbw.addr, n)] BY <2>1, <2>3
      <3>6. /\ media' \in MediaType /\ media'.store = media.store
            /\ media'.req = Request("read", msd.cbw.addr, n)
            /\ media.req = None /\ msd.cbw.addr + n <= Sectors /\ media'.open
        BY <1>2, <2>3, <3>5, Taken
      <3> QED BY <1>1, <3>2, <3>3, <3>4, <3>6 DEF TaskEnds, n, a
    <2> QED BY <2>2, <2>3
  <1> QED BY <1>5, <1>6

Fresh == msd.toWrite = 0

WriteReceiveEffect ==
  LET n == IF Fresh THEN Smaller(msd.cbw.len, Buffering) ELSE msd.usbSectors
      slot == IF Fresh THEN 0 ELSE msd.offset IN
  /\ InTask("DATA_OUT") /\ TaskEnds("DATA_OUT", "DATA_OUT", "PASSED")
  /\ \/ msd.media = "IDLE"
     \/ msd.media = "COMPLETE" /\ Fresh
  /\ n \in 1 .. Buffering /\ slot \in Slots
  /\ Submitted(rx, rx', "BUFFER", slot)
  /\ msd' \in MsdType /\ SameMsd({"media", "usbSectors", "offset", "toWrite"})
  /\ msd'.media = "IDLE" /\ msd'.usbSectors = n - 1 /\ msd'.offset = slot + 1
  /\ msd'.toWrite = (IF Fresh THEN n ELSE msd.toWrite)
  /\ UNCHANGED <<tx, media>> /\ Frame

LEMMA WriteReceiveIs ==
    ASSUME Typed, WriteReceive, msd.cbw \in CommandBlock,
           ~Fresh => msd.offset + msd.usbSectors = msd.toWrite
    PROVE  WriteReceiveEffect
  <1> USE DEF WriteReceiveEffect
  <1> DEFINE n == IF Fresh THEN Smaller(msd.cbw.len, Buffering) ELSE msd.usbSectors
             slot == IF Fresh THEN 0 ELSE msd.offset
             w == IF Fresh THEN n ELSE msd.toWrite
  <1>1. /\ InTask("DATA_OUT") /\ n > 0
        /\ \/ msd.media = "IDLE"
           \/ msd.media = "COMPLETE" /\ Fresh
        /\ rx' = IRPSubmit(rx, "BUFFER", slot)
        /\ msd' = [msd EXCEPT !.media = "IDLE", !.usbSectors = n - 1, !.offset = slot + 1,
                              !.toWrite = w]
        /\ Ends("DATA_OUT", "PASSED") /\ UNCHANGED <<tx, media>> /\ Frame
    BY DEF WriteReceive, Working, InTask, KeepsTask, Frame, Offset, Fresh
  <1>2. n \in 0 .. Buffering /\ msd.offset \in 0 .. Buffering /\ msd.toWrite \in 0 .. Buffering
    BY Parts DEF Typed, MsdType
  <1>3. n \in 1 .. Buffering /\ slot \in Slots /\ w \in 0 .. Buffering
        /\ n - 1 \in 0 .. Buffering /\ slot + 1 \in 0 .. Buffering
    BY <1>1, <1>2, UsbAssumption DEF Slots
  <1>4. TaskEnds("DATA_OUT", "DATA_OUT", "PASSED") BY <1>1, EndsIs DEF InTask, States, Statuses
  <1> HIDE DEF n, slot, w
  <1>5. msd' \in MsdType BY <1>1, <1>3 DEF Typed, MsdType, MediaStates
  <1>6. SameMsd({"media", "usbSectors", "offset", "toWrite"})
        /\ msd'.media = "IDLE" /\ msd'.usbSectors = n - 1 /\ msd'.offset = slot + 1
        /\ msd'.toWrite = w
    BY <1>1 DEF Typed, MsdType, SameMsd, Agree, MsdFields
  <1>7. Submitted(rx, rx', "BUFFER", slot) BY <1>1, <1>3, Submits DEF Typed
  <1> QED BY <1>1, <1>3, <1>4, <1>5, <1>6, <1>7 DEF n, slot, w

WriteMediaEffect ==
  LET n == msd.toWrite IN
  /\ InTask("DATA_OUT") /\ task' \in TaskType /\ task'.at = "DATA_OUT"
  /\ msd.media = "IDLE" /\ n > 0 /\ msd.usbSectors = 0
  /\ msd' \in MsdType /\ media' \in MediaType /\ msd'.media = "PENDING"
  /\ SameMsd({"media", "total", "toWrite", "cbw"})
  /\ \/ /\ msd'.cbw = msd.cbw /\ UNCHANGED media
        /\ task'.next = "CSW" /\ task'.status = "FAILED"
     \/ /\ msd'.cbw = Advanced(msd.cbw, n) /\ msd'.toWrite = 0
        /\ media.req = None /\ msd.cbw.addr + n <= Sectors
        /\ media'.req = Request("write", msd.cbw.addr, n) /\ media'.store = media.store
        /\ media'.open
        /\ task'.next = "DATA_OUT" /\ task'.status = "PASSED"
  /\ UNCHANGED <<rx, tx>> /\ Frame

LEMMA WriteMediaIs ==
    ASSUME Typed, WriteMedia, msd.cbw \in CommandBlock, msd.toWrite <= msd.cbw.len
    PROVE  WriteMediaEffect
  <1> USE DEF WriteMediaEffect
  <1> DEFINE n == msd.toWrite
             a == Advanced(msd.cbw, n)
             t == msd.total + n
  <1>1. /\ InTask("DATA_OUT") /\ UNCHANGED <<rx, tx>> /\ Frame
        /\ msd.media = "IDLE" /\ n > 0 /\ msd.usbSectors = 0
    BY DEF WriteMedia, Working, InTask, KeepsTask, Frame
  <1>2. n \in 0 .. Buffering /\ n \in Nat /\ 0 \in 0 .. Buffering /\ msd.cbw.addr \in Nat
        /\ t \in Nat
    BY UsbAssumption DEF CommandBlock, Typed, MsdType
  <1>3. a \in Payload /\ msd.cbw \in Payload BY <1>2, Advances DEF Payload
  <1>4. {"DATA_OUT", "CSW"} \subseteq States /\ Statuses = {"PASSED", "FAILED"}
        /\ "PENDING" \in MediaStates
    BY DEF States, Statuses, MediaStates
  <1>5. PICK refused \in Refusals(msd.cbw.addr, n) :
          /\ media' = IF refused THEN media
                      ELSE [media EXCEPT !.req = Request("write", msd.cbw.addr, n)]
          /\ msd' = IF refused THEN [msd EXCEPT !.media = "PENDING"]
                    ELSE [msd EXCEPT !.media = "PENDING", !.total = t, !.toWrite = 0, !.cbw = a]
          /\ IF refused THEN Ends("CSW", "FAILED") ELSE Ends("DATA_OUT", "PASSED")
    BY DEF WriteMedia, AfterWrite
  <1> HIDE DEF n, a, t
  <1>6. CASE refused
    <2>1. msd' = [msd EXCEPT !.media = "PENDING"] /\ UNCHANGED media BY <1>5, <1>6
    <2>2. TaskEnds("DATA_OUT", "CSW", "FAILED") BY <1>1, <1>4, <1>5, <1>6, EndsIs DEF InTask
    <2>3. msd' \in MsdType BY <1>4, <2>1 DEF Typed, MsdType
    <2>4. SameMsd({"media", "total", "toWrite", "cbw"}) /\ msd'.cbw = msd.cbw
          /\ msd'.media = "PENDING"
      BY <2>1 DEF Typed, MsdType, SameMsd, Agree, MsdFields
    <2> QED BY <1>1, <2>1, <2>2, <2>3, <2>4 DEF TaskEnds, n, Typed
  <1>7. CASE ~refused
    <2>1. msd' = [msd EXCEPT !.media = "PENDING", !.total = t, !.toWrite = 0, !.cbw = a]
          /\ media' = [media EXCEPT !.req = Request("write", msd.cbw.addr, n)]
      BY <1>5, <1>7
    <2>2. TaskEnds("DATA_OUT", "DATA_OUT", "PASSED") BY <1>1, <1>4, <1>5, <1>7, EndsIs DEF InTask
    <2>3. msd' \in MsdType BY <1>2, <1>3, <1>4, <2>1 DEF Typed, MsdType
    <2>4. SameMsd({"media", "total", "toWrite", "cbw"}) /\ msd'.cbw = a
          /\ msd'.media = "PENDING" /\ msd'.toWrite = 0
      BY <2>1 DEF Typed, MsdType, SameMsd, Agree, MsdFields
    <2>5. /\ media' \in MediaType /\ media'.store = media.store
          /\ media'.req = Request("write", msd.cbw.addr, n)
          /\ media.req = None /\ msd.cbw.addr + n <= Sectors /\ media'.open
      BY <1>2, <1>7, <2>1, Taken
    <2> QED BY <1>1, <2>2, <2>3, <2>4, <2>5 DEF TaskEnds, n, a
  <1> QED BY <1>6, <1>7

WriteDoneEffect ==
  /\ InTask("DATA_OUT") /\ TaskEnds("DATA_OUT", "CSW", "PASSED")
  /\ msd.media = "COMPLETE" /\ msd.cbw.len = 0
  /\ UNCHANGED <<rx, tx, msd, media>> /\ Frame

LEMMA WriteDoneIs ==
    ASSUME Typed, WriteDone
    PROVE  WriteDoneEffect
  <1> USE DEF WriteDoneEffect
  <1>1. "CSW" \in States /\ "PASSED" \in Statuses BY DEF States, Statuses
  <1> QED BY <1>1, EndsIs DEF WriteDone, Working, InTask, KeepsTask, Frame

MediaFailedEffect ==
  /\ task.at \in {"DATA_IN", "DATA_OUT"} /\ task.next = "NONE"
  /\ \/ msd.media = "ERROR" /\ TaskEnds(task.at, "CSW", "FAILED")
     \/ msd.media = "PENDING" /\ TaskEnds(task.at, task.at, "PASSED")
  /\ UNCHANGED <<rx, tx, msd, media>> /\ Frame

LEMMA MediaFailedIs ==
    ASSUME Typed, MediaFailed
    PROVE  MediaFailedEffect
  <1> USE DEF MediaFailedEffect
  <1>1. {"CSW", "DATA_IN", "DATA_OUT"} \subseteq States /\ Statuses = {"PASSED", "FAILED"}
    BY DEF States, Statuses
  <1> QED BY <1>1, EndsIs DEF MediaFailed, KeepsTask, Frame

PostDataStageEffect ==
  LET residue == msd.cbw.want - msd.total IN
  /\ InTask("CSW") /\ TaskEnds("CSW", "SEND_CSW", msd.csw.status)
  /\ msd' \in MsdType /\ SameMsd({"csw"})
  /\ msd'.csw = Csw(msd.cbw.tag, residue, msd.csw.status)
  /\ msd'.csw.type = "csw" /\ msd'.csw.tag = msd.cbw.tag
  /\ msd'.csw.residue = residue /\ msd'.csw.status = msd.csw.status
  /\ IF StallsIn(residue) THEN Stalled(tx, tx') ELSE UNCHANGED tx
  /\ IF StallsOut THEN Stalled(rx, rx') ELSE UNCHANGED rx
  /\ UNCHANGED media /\ Frame

LEMMA PostDataStageIs ==
    ASSUME Typed, PostDataStage, msd.cbw \in CommandBlock
    PROVE  PostDataStageEffect
  <1> USE DEF PostDataStageEffect
  <1> DEFINE residue == msd.cbw.want - msd.total
             w == Csw(msd.cbw.tag, residue, msd.csw.status)
  <1>1. /\ InTask("CSW") /\ UNCHANGED media /\ Frame
        /\ msd' = [msd EXCEPT !.csw = w]
        /\ tx' = (IF StallsIn(residue) THEN EndpointStall(tx) ELSE tx)
        /\ rx' = (IF StallsOut THEN EndpointStall(rx) ELSE rx)
        /\ Ends("SEND_CSW", msd.csw.status)
    BY DEF PostDataStage, Working, InTask, KeepsTask, Frame
  <1>2. msd.csw.status \in Statuses /\ residue \in Int /\ msd.cbw.tag \in Nat
    BY UsbAssumption DEF Typed, MsdType, Wrapper, CommandBlock
  <1>3. TaskEnds("CSW", "SEND_CSW", msd.csw.status) BY <1>1, <1>2, EndsIs DEF InTask, States
  <1>4. w \in Wrapper /\ w.type = "csw" /\ w.tag = msd.cbw.tag /\ w.residue = residue
        /\ w.status = msd.csw.status
    BY <1>2 DEF Csw, Wrapper
  <1> HIDE DEF residue, w
  <1>5. msd' \in MsdType /\ SameMsd({"csw"}) /\ msd'.csw = w
    BY <1>1, <1>4 DEF Typed, MsdType, SameMsd, Agree, MsdFields
  <1>6. /\ IF StallsIn(residue) THEN Stalled(tx, tx') ELSE UNCHANGED tx
        /\ IF StallsOut THEN Stalled(rx, rx') ELSE UNCHANGED rx
    BY <1>1, Aborts DEF Typed
  <1> QED BY <1>1, <1>3, <1>4, <1>5, <1>6 DEF residue, w

SendCswEffect ==
  /\ InTask("SEND_CSW") /\ TaskEnds("SEND_CSW", "WAIT_FOR_CBW", msd.csw.status)
  /\ Submitted(tx, tx', "CSW", 0)
  /\ UNCHANGED <<rx, msd, media>> /\ Frame

LEMMA SendCswIs ==
    ASSUME Typed, SendCsw
    PROVE  SendCswEffect
  <1> USE DEF SendCswEffect
  <1>1. msd.csw.status \in Statuses BY DEF Typed, MsdType, Wrapper
  <1>2. 0 \in Slots /\ tx \in EndpointType BY UsbAssumption DEF Slots, Typed
  <1>3. Submitted(tx, tx', "CSW", 0) BY <1>2, Submits DEF SendCsw
  <1> QED BY <1>1, <1>3, EndsIs DEF SendCsw, Working, InTask, KeepsTask, Frame, States

StoreEffect ==
  LET on == Continues(task.at, task.next) IN
  /\ task.next # "NONE" /\ task' \in TaskType
  /\ task'.next = "NONE" /\ task'.at = (IF on THEN task.next ELSE "NONE")
  /\ ~on => task' = Outside
  /\ msd' \in MsdType /\ SameMsd({"state", "csw"}) /\ msd'.state = task.next
  /\ msd'.csw = [msd.csw EXCEPT !.status = IF on THEN @ ELSE task.status]
  /\ Agree(msd.csw, msd'.csw, {"type", "tag", "residue"})
  /\ msd'.csw.status = (IF on THEN msd.csw.status ELSE task.status)
  /\ UNCHANGED <<rx, tx, media>> /\ Frame

LEMMA StoreIs ==
    ASSUME Typed, Store
    PROVE  StoreEffect
  <1> USE DEF StoreEffect
  <1> DEFINE on == Continues(task.at, task.next)
             st == IF on THEN msd.csw.status ELSE task.status
             w == [msd.csw EXCEPT !.status = st]
  <1>1. task.next # "NONE" /\ UNCHANGED <<rx, tx, media>> /\ Frame
    BY DEF Store, Frame
  <1>2. msd.csw \in Wrapper /\ task.next \in States /\ task.status \in Statuses
        /\ msd.csw.status \in Statuses
    BY <1>1 DEF Typed, MsdType, TaskType, Wrapper
  <1>3. msd' = [msd EXCEPT !.state = task.next, !.csw = w]
        /\ task' = (IF on THEN Entered(task.next) ELSE Outside)
    BY <1>2 DEF Store, Typed, MsdType, Wrapper
  <1>4. st \in Statuses BY <1>2
  <1> HIDE DEF st, on
  <1>5. /\ w \in Wrapper /\ w.status = st /\ Agree(msd.csw, w, {"type", "tag", "residue"})
    BY <1>2, <1>4 DEF Wrapper, Agree
  <1>6. task' \in TaskType /\ task'.next = "NONE" /\ task'.at = (IF on THEN task.next ELSE "NONE")
    BY <1>2, <1>3 DEF Entered, Outside, TaskType, Statuses
  <1>7. msd'.csw = w /\ msd'.state = task.next BY <1>3 DEF Typed, MsdType
  <1>8. msd' \in MsdType
    <2> HIDE DEF w
    <2> QED BY <1>2, <1>3, <1>5 DEF Typed, MsdType
  <1>9. SameMsd({"state", "csw"})
    <2> HIDE DEF w
    <2> QED BY <1>3 DEF Typed, MsdType, SameMsd, Agree, MsdFields
  <1>10. w = [msd.csw EXCEPT !.status = IF on THEN @ ELSE task.status]
    BY <1>2 DEF st, Wrapper
  <1> QED BY <1>1, <1>3, <1>5, <1>6, <1>7, <1>8, <1>9, <1>10 DEF on, st

-----------------------------------------------------------------------------
(* The medium.                                                             *)
MediaEndsEffect(event) ==
  /\ task = Outside /\ media.req # None /\ media.req \in Requests
  /\ media' \in MediaType /\ media'.req = None /\ media'.open = media.open
  /\ msd' \in MsdType /\ SameMsd({"media", "buffer"})
  /\ msd'.media = (IF media.open THEN event ELSE msd.media)
  /\ media.req.op = "read" => media'.store = media.store
  /\ media.req.op = "write" => msd'.buffer = msd.buffer
  /\ event = "COMPLETE" /\ media.req.op = "read" => msd'.buffer = ReadBy(media.req)
  /\ event = "COMPLETE" /\ media.req.op = "write" => media'.store = WrittenBy(media.req)
  /\ \A s \in (0 .. Sectors - 1) \ ErasedWith(TargetsOf(media.req)) :
       media'.store[s] = media.store[s]
  /\ UNCHANGED <<rx, tx, task>> /\ Frame

LEMMA SlotOf ==
    ASSUME NEW B \in Nat, NEW a \in Nat, NEW n \in 0 .. B, NEW s \in a .. a + n - 1
    PROVE  s - a \in 0 .. B - 1
  OBVIOUS

LEMMA SectorOf ==
    ASSUME NEW B \in Nat, NEW n \in 0 .. B, NEW S \in Nat, NEW a \in Nat, a + n <= S,
           NEW i \in 0 .. n - 1
    PROVE  a + i \in 0 .. S - 1
  OBVIOUS

(* Sectors are erased with themselves, and more of them with more.         *)
LEMMA ErasedTogether ==
    ASSUME NEW S, NEW T, S \subseteq T
    PROVE  /\ ErasedWith(S) \subseteq ErasedWith(T)
           /\ S \cap (0 .. Sectors - 1) \subseteq ErasedWith(S)
  <1>1. ErasedWith(S) \subseteq ErasedWith(T) BY Zenon DEF ErasedWith
  <1>2. S \cap (0 .. Sectors - 1) \subseteq ErasedWith(S) BY Zenon DEF ErasedWith
  <1> QED BY <1>1, <1>2

(* What a transfer cut short leaves, place by place.                       *)
LEMMA TornIs ==
    ASSUME NEW D, NEW old \in [D -> Payload], NEW new \in [D -> Payload], NEW done, NEW lost
    PROVE  /\ Torn(old, new, done, lost) \in [D -> Payload]
           /\ \A x \in D : x \notin done \cup lost => Torn(old, new, done, lost)[x] = old[x]
  <1>1. Damaged \in Payload BY DEF Payload
  <1> QED BY <1>1 DEF Torn

(* The buffer a read fills and the medium a write leaves are ones.         *)
LEMMA TransfersIs ==
    ASSUME Typed, media.req \in Requests, media.req.addr + media.req.n <= Sectors
    PROVE  /\ ReadBy(media.req) \in [Slots -> Payload]
           /\ WrittenBy(media.req) \in [0 .. Sectors - 1 -> Payload]
           /\ \A s \in 0 .. Sectors - 1 :
                s \notin TargetsOf(media.req) => WrittenBy(media.req)[s] = media.store[s]
           /\ \A s \in (0 .. Sectors - 1) \cap TargetsOf(media.req) :
                WrittenBy(media.req)[s] = msd.buffer[s - media.req.addr]
           /\ \A i \in Slots \cap SlotsOf(media.req) :
                ReadBy(media.req)[i] = media.store[media.req.addr + i]
  <1> DEFINE r == media.req
  <1>1. /\ media.store \in [0 .. Sectors - 1 -> Payload] /\ msd.buffer \in [Slots -> Payload]
        /\ r.addr + r.n <= Sectors /\ r.addr \in Nat /\ r.n \in 0 .. Buffering
        /\ Sectors \in Nat /\ Buffering \in Nat
    BY UsbAssumption DEF Typed, MediaType, MsdType, Requests
  <1>2. ASSUME NEW i \in SlotsOf(r) PROVE media.store[r.addr + i] \in Payload
    <2>1. r.addr + i \in 0 .. Sectors - 1 BY <1>1, SectorOf DEF SlotsOf
    <2> QED BY <1>1, <2>1
  <1>3. ASSUME NEW s \in TargetsOf(r) PROVE msd.buffer[s - r.addr] \in Payload
    <2>1. s - r.addr \in Slots BY <1>1, SlotOf DEF Slots, TargetsOf
    <2> QED BY <1>1, <2>1
  <1> HIDE DEF r
  <1>4. ReadBy(r) \in [Slots -> Payload]
        /\ \A i \in Slots \cap SlotsOf(r) : ReadBy(r)[i] = media.store[r.addr + i]
    BY <1>1, <1>2 DEF ReadBy
  <1>5. /\ WrittenBy(r) \in [0 .. Sectors - 1 -> Payload]
        /\ \A s \in 0 .. Sectors - 1 : s \notin TargetsOf(r) => WrittenBy(r)[s] = media.store[s]
        /\ \A s \in (0 .. Sectors - 1) \cap TargetsOf(r) :
             WrittenBy(r)[s] = msd.buffer[s - r.addr]
    BY <1>1, <1>3 DEF WrittenBy
  <1> QED BY <1>4, <1>5 DEF r

(* A request that ends leaves the medium and the buffer it is given, and   *)
(* the event only to an open client.                                       *)
LEMMA MediaEndsIs ==
    ASSUME Typed, NEW op \in {"read", "write"}, AtWork(op), NEW event \in {"COMPLETE", "ERROR"},
           NEW store \in [0 .. Sectors - 1 -> Payload], NEW buffer \in [Slots -> Payload],
           MediaEnds(event, store, buffer)
    PROVE  /\ task = Outside /\ media.req # None /\ media.req \in Requests /\ media.req.op = op
           /\ media' \in MediaType /\ media'.req = None /\ media'.open = media.open
           /\ media'.store = store /\ msd'.buffer = buffer
           /\ msd' \in MsdType /\ SameMsd({"media", "buffer"})
           /\ msd'.media = (IF media.open THEN event ELSE msd.media)
           /\ UNCHANGED <<rx, tx, task>> /\ Frame
  <1>1. task = Outside /\ media.req # None /\ media.req.op = op
        /\ UNCHANGED <<rx, tx, task>> /\ Frame
    BY DEF AtWork, MediaEnds, Frame
  <1>2. media.req \in Requests BY <1>1 DEF Typed, MediaType
  <1> DEFINE m == BlockEventHandler(event)
  <1>3. m = (IF media.open THEN event ELSE msd.media) /\ m \in MediaStates
    BY DEF BlockEventHandler, Typed, MsdType, MediaStates
  <1>4. media' = [media EXCEPT !.req = None, !.store = store]
        /\ msd' = [msd EXCEPT !.media = m, !.buffer = buffer]
    BY DEF MediaEnds
  <1> HIDE DEF m
  <1>5. /\ media' \in MediaType /\ media'.req = None /\ media'.open = media.open
        /\ media'.store = store
    BY <1>4 DEF Typed, MediaType
  <1>6. /\ msd' \in MsdType /\ SameMsd({"media", "buffer"}) /\ msd'.media = m
        /\ msd'.buffer = buffer
    BY <1>3, <1>4 DEF Typed, MsdType, SameMsd, Agree, MsdFields
  <1> QED BY <1>1, <1>2, <1>3, <1>5, <1>6

(* However a request ends, what is not erased with its sectors stays; when *)
(* it completes it has moved all of them.                                  *)
LEMMA MediaStepIs ==
    ASSUME Typed, MediaStep, media.req # None => media.req.addr + media.req.n <= Sectors
    PROVE  \E event \in {"COMPLETE", "ERROR"} : MediaEndsEffect(event)
  <1> DEFINE r == media.req
             st == media.store
             b == msd.buffer
             new == WrittenBy(r)
             got == ReadBy(r)
             far == (0 .. Sectors - 1) \ ErasedWith(TargetsOf(r))
  <1>1. media.req # None
    BY DEF MediaStep, ReadCompletes, WriteCompletes, ReadFails, WriteFails, AtWork
  <1>2. /\ st \in [0 .. Sectors - 1 -> Payload] /\ b \in [Slots -> Payload]
        /\ media.req \in Requests
    BY <1>1 DEF Typed, MediaType, MsdType
  <1>3. /\ got \in [Slots -> Payload] /\ new \in [0 .. Sectors - 1 -> Payload]
        /\ \A s \in far : new[s] = st[s]
    <2>1. (0 .. Sectors - 1) \cap TargetsOf(r) \subseteq ErasedWith(TargetsOf(r))
      BY ErasedTogether
    <2> QED BY <1>1, <1>2, <2>1, TransfersIs
  <1>4. CASE ReadCompletes
    <2>1. AtWork("read") /\ MediaEnds("COMPLETE", st, got) BY <1>4 DEF ReadCompletes
    <2> HIDE DEF r, st, b, new, got, far
    <2>2. MediaEndsEffect("COMPLETE")
      BY <1>2, <1>3, <2>1, MediaEndsIs DEF MediaEndsEffect, r, st, b, got, far
    <2> QED BY <2>2
  <1>5. CASE WriteCompletes
    <2>1. AtWork("write") /\ MediaEnds("COMPLETE", new, b) BY <1>5 DEF WriteCompletes
    <2> HIDE DEF r, st, b, new, got, far
    <2>2. MediaEndsEffect("COMPLETE")
      BY <1>2, <1>3, <2>1, MediaEndsIs DEF MediaEndsEffect, r, st, b, new, far
    <2> QED BY <2>2
  <1>6. CASE ReadFails
    <2>1. AtWork("read") BY <1>6 DEF ReadFails
    <2>2. PICK done \in SUBSET SlotsOf(r), lost \in SUBSET SlotsOf(r) :
            MediaEnds("ERROR", st, Torn(b, got, done, lost))
      BY <1>6 DEF ReadFails
    <2> DEFINE left == Torn(b, got, done, lost)
    <2> HIDE DEF r, st, b, new, got, far
    <2>3. left \in [Slots -> Payload] BY <1>2, <1>3, TornIs
    <2> HIDE DEF left
    <2>4. MediaEnds("ERROR", st, left) BY <2>2 DEF left
    <2>5. MediaEndsEffect("ERROR")
      BY <1>2, <2>1, <2>3, <2>4, MediaEndsIs DEF MediaEndsEffect, r, st, b, far
    <2> QED BY <2>5
  <1>7. CASE WriteFails
    <2>1. AtWork("write") BY <1>7 DEF WriteFails
    <2>2. PICK done \in SUBSET ErasedWith(TargetsOf(r)), lost \in SUBSET ErasedWith(TargetsOf(r)) :
            MediaEnds("ERROR", Torn(st, new, done, lost), b)
      BY <1>7 DEF WriteFails
    <2> DEFINE left == Torn(st, new, done, lost)
               all == 0 .. Sectors - 1
    <2>3. st \in [all -> Payload] /\ new \in [all -> Payload] BY <1>2, <1>3
    <2> HIDE DEF r, st, b, new, got, all
    <2>4. /\ left \in [all -> Payload]
          /\ \A s \in all : s \notin done \cup lost => left[s] = st[s]
      BY <2>3, TornIs
    <2> HIDE DEF left
    <2>5. /\ left \in [0 .. Sectors - 1 -> Payload]
          /\ \A s \in 0 .. Sectors - 1 : s \notin done \cup lost => left[s] = st[s]
      BY <2>4 DEF all
    <2>6. MediaEnds("ERROR", left, b) BY <2>2 DEF left
    <2>7. \A s \in far : left[s] = st[s] BY <2>2, <2>5
    <2> HIDE DEF far
    <2>8. /\ task = Outside /\ media.req # None /\ media.req \in Requests
          /\ media.req.op = "write" /\ media' \in MediaType /\ media'.req = None
          /\ media'.open = media.open /\ media'.store = left /\ msd'.buffer = b
          /\ msd' \in MsdType /\ SameMsd({"media", "buffer"})
          /\ msd'.media = (IF media.open THEN "ERROR" ELSE msd.media)
          /\ UNCHANGED <<rx, tx, task>> /\ Frame
      BY <1>2, <2>1, <2>5, <2>6, MediaEndsIs
    <2>9. \A s \in (0 .. Sectors - 1) \ ErasedWith(TargetsOf(media.req)) :
            media'.store[s] = media.store[s]
      BY <2>7, <2>8 DEF far, r, st
    <2>10. MediaEndsEffect("ERROR") BY <2>8, <2>9 DEF MediaEndsEffect, b
    <2> QED BY <2>10
  <1> QED BY <1>4, <1>5, <1>6, <1>7 DEF MediaStep

-----------------------------------------------------------------------------
(* The host.                                                               *)
TaskFrame == UNCHANGED <<task, media, configured, overtaken, haltKept>>

LEMMA CommandTypes ==
    ASSUME NEW c \in Commands, NEW n \in Nat
    PROVE  /\ c \in CommandBlock /\ [c EXCEPT !.tag = n] \in CommandBlock
           /\ [c EXCEPT !.tag = n].tag = n
           /\ Agree(c, [c EXCEPT !.tag = n], {"type", "op", "addr", "len", "want", "dir"})
           /\ c.dir = "in" <=> c.op \in {"read", "capacity", "garbled"}
           /\ c.op \notin {"read", "write"} => (c.want = 0 <=> c.op = "ready")
  <1>1. PICK op \in Ops, addr \in Nat, len \in Nat, want \in 0 .. Sectors, dir \in {"in", "out"} :
          /\ c = Command(op, addr, len, want, dir)
          /\ dir = "in" <=> op \in {"read", "capacity", "garbled"}
          /\ op \notin {"read", "write"} => (want = 0 <=> op = "ready")
    <2>1. \/ c \in {Command("read", a, k, k, "in") : a \in 0 .. Sectors - 1, k \in 1 .. MaxLength}
          \/ c \in {Command("write", a, k, k, "out") : a \in 0 .. Sectors - 1, k \in 1 .. MaxLength}
          \/ c \in {Command("read", 0, 1, 2, "in"), Command("write", 0, 2, 1, "out"),
                    Command("read", 0, 0, 0, "in"), Command("write", 0, 0, 0, "out"),
                    Command("capacity", 0, 0, 1, "in"), Command("capacity", 0, 0, 2, "in"),
                    Command("ready", 0, 0, 0, "out"), Command("garbled", 0, 0, 1, "in")}
      BY DEF Commands
    <2>2. CASE c \in {Command("read", a, k, k, "in") : a \in 0 .. Sectors - 1, k \in 1 .. MaxLength}
      <3>1. PICK a \in 0 .. Sectors - 1, k \in 1 .. MaxLength : c = Command("read", a, k, k, "in")
        BY <2>2
      <3>2. a \in Nat /\ k \in Nat /\ k \in 0 .. Sectors BY UsbAssumption
      <3> QED BY <3>1, <3>2 DEF Ops
    <2>3. CASE c \in {Command("write", a, k, k, "out") :
                      a \in 0 .. Sectors - 1, k \in 1 .. MaxLength}
      <3>1. PICK a \in 0 .. Sectors - 1, k \in 1 .. MaxLength : c = Command("write", a, k, k, "out")
        BY <2>3
      <3>2. a \in Nat /\ k \in Nat /\ k \in 0 .. Sectors BY UsbAssumption
      <3> QED BY <3>1, <3>2 DEF Ops
    <2>4. CASE c \in {Command("read", 0, 1, 2, "in"), Command("write", 0, 2, 1, "out"),
                      Command("read", 0, 0, 0, "in"), Command("write", 0, 0, 0, "out"),
                      Command("capacity", 0, 0, 1, "in"), Command("capacity", 0, 0, 2, "in"),
                      Command("ready", 0, 0, 0, "out"), Command("garbled", 0, 0, 1, "in")}
      <3>1. {0, 1, 2} \subseteq 0 .. Sectors BY UsbAssumption
      <3> QED BY <2>4, <3>1 DEF Ops
    <2> QED BY <2>1, <2>2, <2>3, <2>4
  <1>2. c \in CommandBlock BY <1>1 DEF Command, CommandBlock
  <1>3. c.op = op /\ c.dir = dir /\ c.want = want BY <1>1 DEF Command
  <1>4. [c EXCEPT !.tag = n] \in CommandBlock /\ [c EXCEPT !.tag = n].tag = n
        /\ Agree(c, [c EXCEPT !.tag = n], {"type", "op", "addr", "len", "want", "dir"})
    BY <1>2 DEF CommandBlock, Agree
  <1> QED BY <1>1, <1>2, <1>3, <1>4

(* A packet the device takes goes into the command block or the buffer.    *)

ReceivedEffect(packet) ==
  /\ Completed(rx, rx')
  /\ msd' \in MsdType
  /\ rx.to = "CBW" => SameMsd({"cbw"}) /\ msd'.cbw = packet
  /\ rx.to # "CBW" => /\ SameMsd({"buffer"})
                      /\ msd'.buffer = [msd.buffer EXCEPT ![rx.slot] = packet]

LEMMA ReceivedIs ==
    ASSUME Typed, NEW packet \in CommandBlock \cup DataPacket, Received(packet)
    PROVE  ReceivedEffect(packet)
  <1> USE DEF ReceivedEffect
  <1>1. rx.irp = "IN_PROGRESS" /\ rx.enabled /\ ~rx.halt BY DEF Received, Listening
  <1>2. rx' = [rx EXCEPT !.irp = "COMPLETED"] BY DEF Received
  <1>3. Completed(rx, rx') BY <1>2, Completing DEF Typed, Received
  <1>4. packet \in Payload BY DEF Payload
  <1>5. CASE rx.to = "CBW"
    <2>1. msd' = [msd EXCEPT !.cbw = packet] BY <1>5 DEF Received
    <2> QED BY <1>1, <1>3, <1>4, <1>5, <2>1 DEF Typed, MsdType, SameMsd, Agree, MsdFields
  <1>6. CASE rx.to # "CBW"
    <2> DEFINE b == [msd.buffer EXCEPT ![rx.slot] = packet]
    <2>1. msd' = [msd EXCEPT !.buffer = b] BY <1>6 DEF Received, Typed, MsdType
    <2>2. b \in [Slots -> Payload] BY <1>4 DEF Typed, MsdType, EndpointType
    <2> HIDE DEF b
    <2>3. msd' \in MsdType /\ SameMsd({"buffer"}) /\ msd'.buffer = b
      BY <2>1, <2>2 DEF Typed, MsdType, SameMsd, Agree, MsdFields
    <2> QED BY <1>1, <1>3, <1>6, <2>3 DEF b
  <1> QED BY <1>5, <1>6

HostSendsCommandEffect ==
  /\ host.phase = "idle" /\ host' \in HostType /\ SameHost(HostFields \ {"giveUps"})
  /\ host'.tag = host.tag + 1 /\ host'.sent = 0 /\ host'.got = <<>> /\ host'.csw = None
  /\ host'.cmd \in Commands
  /\ host'.disk = Doubting(host'.cmd, ErasedWith(SectorsOf(host'.cmd)))
  /\ host'.before = Doubting(host'.cmd, SectorsOf(host'.cmd))
  /\ host'.phase = (IF host'.cmd.want = 0 THEN "status" ELSE "data")
  /\ Received([host'.cmd EXCEPT !.tag = host'.tag])
  /\ UNCHANGED tx /\ TaskFrame

LEMMA HostSendsCommandIs ==
    ASSUME Typed, HostSendsCommand
    PROVE  HostSendsCommandEffect
  <1> USE DEF HostSendsCommandEffect
  <1>1. PICK c \in Commands :
          /\ Received([c EXCEPT !.tag = host.tag + 1])
          /\ host' = [host EXCEPT !.cmd = c, !.tag = host.tag + 1, !.sent = 0, !.got = <<>>,
                                  !.csw = None, !.retried = FALSE,
                                  !.disk = Doubting(c, ErasedWith(SectorsOf(c))),
                                  !.before = Doubting(c, SectorsOf(c)),
                                  !.phase = IF c.want = 0 THEN "status" ELSE "data"]
    BY DEF HostSendsCommand, Typed, HostType
  <1> DEFINE d == Doubting(c, ErasedWith(SectorsOf(c)))
             e == Doubting(c, SectorsOf(c))
             ph == IF c.want = 0 THEN "status" ELSE "data"
             tag == host.tag + 1
  <1>2. host.phase = "idle" /\ UNCHANGED tx /\ TaskFrame BY DEF HostSendsCommand, Keeps, TaskFrame
  <1>12. 0 \in Nat /\ <<>> \in Seq(Packet) OBVIOUS
  <1>10. c \in CommandBlock BY <1>12, CommandTypes
  <1>11. tag \in Nat /\ ph \in Phases /\ 0 \in 0 .. Sectors
    BY UsbAssumption DEF Typed, HostType, Phases
  <1>3. c \in CommandBlock /\ tag \in Nat /\ ph \in Phases /\ 0 \in 0 .. Sectors
        /\ <<>> \in Seq(Packet)
    BY <1>10, <1>11, <1>12
  <1>9. None \in Packet BY DEF Packet, Payload
  <1>4. d \in [0 .. Sectors - 1 -> Packet] /\ e \in [0 .. Sectors - 1 -> Packet]
    BY <1>3, <1>9 DEF Doubting, Typed, HostType
  <1>5. host' = [host EXCEPT !.cmd = c, !.tag = tag, !.sent = 0, !.got = <<>>,
                             !.csw = None, !.retried = FALSE, !.disk = d, !.before = e,
                             !.phase = ph]
    BY <1>1
  <1> HIDE DEF d, e, ph, tag
  <1>6. host' \in HostType BY <1>3, <1>4, <1>5, <1>9 DEF Typed, HostType
  <1>7. /\ host'.cmd = c /\ host'.tag = tag /\ host'.sent = 0 /\ host'.got = <<>>
        /\ host'.csw = None /\ host'.disk = d /\ host'.phase = ph /\ host'.giveUps = host.giveUps
        /\ host'.before = e
    BY <1>5 DEF Typed, HostType
  <1>8. SameHost(HostFields \ {"giveUps"}) BY <1>7 DEF SameHost, Agree, HostFields
  <1> QED BY <1>1, <1>2, <1>6, <1>7, <1>8 DEF d, e, ph, tag

HostSendsDataEffect ==
  /\ host.phase = "data" /\ host.cmd.dir = "out" /\ host' \in HostType
  /\ SameHost({"sent", "phase"}) /\ host'.sent = host.sent + 1
  /\ host'.phase = (IF host.sent + 1 = host.cmd.want THEN "status" ELSE "data")
  /\ Received(Data(host.tag, host.sent)) /\ Data(host.tag, host.sent) \in DataPacket
  /\ UNCHANGED tx /\ TaskFrame

LEMMA HostSendsDataIs ==
    ASSUME Typed, HostSendsData, host.cmd \in CommandBlock, host.sent < host.cmd.want
    PROVE  HostSendsDataEffect
  <1> USE DEF HostSendsDataEffect
  <1> DEFINE ph == IF host.sent + 1 = host.cmd.want THEN "status" ELSE "data"
  <1>1. /\ host.phase = "data" /\ host.cmd.dir = "out" /\ Received(Data(host.tag, host.sent))
        /\ UNCHANGED tx /\ TaskFrame
        /\ host' = [host EXCEPT !.sent = host.sent + 1, !.phase = ph]
    BY DEF HostSendsData, Keeps, TaskFrame, Typed, HostType
  <1>2. host.sent + 1 \in 0 .. Sectors /\ ph \in Phases
        /\ Data(host.tag, host.sent) \in DataPacket
    BY UsbAssumption DEF Typed, HostType, CommandBlock, Phases, Data, DataPacket
  <1> HIDE DEF ph
  <1>3. host' \in HostType /\ SameHost({"sent", "phase"}) /\ host'.sent = host.sent + 1
        /\ host'.phase = ph
    BY <1>1, <1>2 DEF Typed, HostType, SameHost, Agree, HostFields
  <1> QED BY <1>1, <1>2, <1>3 DEF ph

LEMMA SentIs ==
    ASSUME Typed
    PROVE  /\ Sent \in Packet
           /\ tx.to = "CSW" => Sent = msd.csw
           /\ tx.to # "CSW" => Sent = msd.buffer[tx.slot] /\ Sent \in Payload
  <1>1. msd.csw \in Packet /\ msd.buffer[tx.slot] \in Payload
    BY DEF Typed, MsdType, EndpointType, Packet
  <1> QED BY <1>1 DEF Sent, Packet

HostReceivesDataEffect ==
  /\ host.phase = "data" /\ host.cmd.dir = "in" /\ host' \in HostType
  /\ Completed(tx, tx')
  /\ SameHost({"got", "phase"}) /\ host'.got = Append(host.got, Sent)
  /\ host'.phase = (IF Len(host.got) + 1 = host.cmd.want THEN "status" ELSE "data")
  /\ UNCHANGED <<rx, msd>> /\ TaskFrame

LEMMA HostReceivesDataIs ==
    ASSUME Typed, HostReceivesData
    PROVE  HostReceivesDataEffect
  <1> USE DEF HostReceivesDataEffect
  <1> DEFINE ph == IF Len(host.got) + 1 = host.cmd.want THEN "status" ELSE "data"
             g == Append(host.got, Sent)
  <1>1. /\ host.phase = "data" /\ host.cmd.dir = "in"
        /\ tx.irp = "IN_PROGRESS" /\ tx.enabled /\ ~tx.halt
        /\ tx' = [tx EXCEPT !.irp = "COMPLETED"]
        /\ UNCHANGED <<rx, msd>> /\ TaskFrame
        /\ host' = [host EXCEPT !.got = g, !.phase = ph]
    BY DEF HostReceivesData, Keeps, TaskFrame, Listening, Typed, HostType
  <1>2. g \in Seq(Packet) /\ ph \in Phases BY SentIs DEF Typed, HostType, Phases
  <1>3. Completed(tx, tx') BY <1>1, Completing DEF Typed, Listening
  <1> HIDE DEF ph, g
  <1>4. host' \in HostType /\ SameHost({"got", "phase"}) /\ host'.got = g /\ host'.phase = ph
    BY <1>1, <1>2 DEF Typed, HostType, SameHost, Agree, HostFields
  <1> QED BY <1>1, <1>3, <1>4 DEF ph, g

HostReceivesStatusEffect ==
  /\ host.phase = "status" /\ host' \in HostType
  /\ Completed(tx, tx')
  /\ SameHost({"csw", "disk", "phase"}) /\ host'.csw = Sent
  /\ host'.disk = Certain(host.cmd, Sent) /\ host'.phase = "idle"
  /\ UNCHANGED <<rx, msd>> /\ TaskFrame

LEMMA HostReceivesStatusIs ==
    ASSUME Typed, HostReceivesStatus, host.cmd \in CommandBlock
    PROVE  HostReceivesStatusEffect
  <1> USE DEF HostReceivesStatusEffect
  <1> DEFINE d == Certain(host.cmd, Sent)
             c == Sent
  <1>1. /\ host.phase = "status" /\ tx.irp = "IN_PROGRESS" /\ tx.enabled /\ ~tx.halt
        /\ tx' = [tx EXCEPT !.irp = "COMPLETED"]
        /\ UNCHANGED <<rx, msd>> /\ TaskFrame
        /\ host' = [host EXCEPT !.csw = c, !.disk = d, !.phase = "idle"]
    BY DEF HostReceivesStatus, Keeps, TaskFrame, Listening
  <1>2. c \in Packet /\ "idle" \in Phases BY SentIs DEF Phases
  <1>3. d \in [0 .. Sectors - 1 -> Packet]
    <2>1. /\ DOMAIN host.disk = 0 .. Sectors - 1
          /\ \A s \in DOMAIN host.disk : host.disk[s] \in Packet /\ host.before[s] \in Packet
      BY DEF Typed, HostType
    <2>2. ASSUME NEW s \in DOMAIN host.disk, host.cmd.op = "write", s \in SectorsOf(host.cmd)
          PROVE  Data(host.tag, s - host.cmd.addr) \in Packet
      <3>2. host.cmd.addr \in Nat /\ s \in host.cmd.addr .. host.cmd.addr + host.cmd.len - 1
            /\ host.cmd.len \in Nat
        BY <2>2 DEF Typed, HostType, CommandBlock, SectorsOf
      <3>3. s - host.cmd.addr \in Nat BY <2>1, <3>2, UsbAssumption
      <3> QED BY <3>3 DEF Typed, HostType, Packet, Payload, DataPacket, Data
    <2> QED BY <2>1, <2>2 DEF Certain
  <1>4. Completed(tx, tx') BY <1>1, Completing DEF Typed, Listening
  <1> HIDE DEF d, c
  <1>5. host' \in HostType /\ SameHost({"csw", "disk", "phase"}) /\ host'.csw = c
        /\ host'.disk = d /\ host'.phase = "idle"
    BY <1>1, <1>2, <1>3 DEF Typed, HostType, SameHost, Agree, HostFields
  <1> QED BY <1>1, <1>4, <1>5 DEF d, c

HostMeetsHaltEffect ==
  /\ host' \in HostType /\ SameHost({"phase", "retried"})
  /\ \/ host.phase = "idle" /\ rx.halt /\ host'.phase = "reset"
     \/ host.phase = "data" /\ host.cmd.dir = "in" /\ tx.halt /\ host'.phase = "clearIn"
     \/ host.phase = "data" /\ host.cmd.dir = "out" /\ rx.halt /\ host'.phase = "clearOut"
     \/ host.phase = "status" /\ tx.halt /\ host'.phase \in {"clearIn", "reset"}
  /\ UNCHANGED <<rx, tx, msd>> /\ TaskFrame

LEMMA HostMeetsHaltIs ==
    ASSUME Typed, HostMeetsHalt
    PROVE  HostMeetsHaltEffect
  <1> USE DEF HostMeetsHaltEffect
  <1>1. UNCHANGED <<rx, tx, msd>> /\ TaskFrame BY DEF HostMeetsHalt, Keeps, TaskFrame
  <1>2. {"reset", "clearIn", "clearOut"} \subseteq Phases BY DEF Phases
  <1>3. CASE host.phase = "status" /\ tx.halt
             /\ host' = [host EXCEPT !.phase = IF host.retried THEN "reset" ELSE "clearIn",
                                     !.retried = TRUE]
    <2> DEFINE ph == IF host.retried THEN "reset" ELSE "clearIn"
    <2>1. host' = [host EXCEPT !.phase = ph, !.retried = TRUE] /\ ph \in Phases
      BY <1>2, <1>3
    <2>2. ph \in {"clearIn", "reset"} OBVIOUS
    <2> HIDE DEF ph
    <2>3. host' \in HostType /\ SameHost({"phase", "retried"}) /\ host'.phase = ph
      BY <2>1 DEF Typed, HostType, SameHost, Agree, HostFields
    <2> QED BY <1>1, <1>3, <2>2, <2>3
  <1>4. ASSUME NEW ph \in {"reset", "clearIn", "clearOut"}, host' = [host EXCEPT !.phase = ph]
        PROVE  host' \in HostType /\ SameHost({"phase", "retried"}) /\ host'.phase = ph
    BY <1>2, <1>4 DEF Typed, HostType, SameHost, Agree, HostFields
  <1> QED BY <1>1, <1>3, <1>4 DEF HostMeetsHalt

HostClearsHaltEffect ==
  /\ host' \in HostType /\ SameHost({"phase"})
  /\ \/ /\ host.phase = "clearIn" /\ host'.phase = "status"
        /\ Cleared(tx, tx') /\ UNCHANGED rx
     \/ /\ host.phase = "resetIn" /\ host'.phase = "resetOut"
        /\ Cleared(tx, tx') /\ UNCHANGED rx
     \/ /\ host.phase = "clearOut" /\ host'.phase = "status"
        /\ Cleared(rx, rx') /\ UNCHANGED tx
     \/ /\ host.phase = "resetOut" /\ host'.phase = "idle"
        /\ Cleared(rx, rx') /\ UNCHANGED tx
  /\ UNCHANGED msd /\ TaskFrame

LEMMA HostClearsHaltIs ==
    ASSUME Typed, HostClearsHalt
    PROVE  HostClearsHaltEffect
  <1> USE DEF HostClearsHaltEffect
  <1> DEFINE ph == CASE host.phase = "resetIn"  -> "resetOut"
                     [] host.phase = "resetOut" -> "idle"
                     [] OTHER                   -> "status"
  <1>1. UNCHANGED msd /\ TaskFrame /\ host' = [host EXCEPT !.phase = ph]
        /\ \/ /\ host.phase \in {"clearIn", "resetIn"}
              /\ tx' = EndpointStallClear(tx) /\ UNCHANGED rx
           \/ /\ host.phase \in {"clearOut", "resetOut"}
              /\ rx' = EndpointStallClear(rx) /\ UNCHANGED tx
    BY DEF HostClearsHalt, Keeps, TaskFrame
  <1>2. /\ host.phase = "resetIn" => ph = "resetOut"
        /\ host.phase = "resetOut" => ph = "idle"
        /\ host.phase \notin {"resetIn", "resetOut"} => ph = "status"
    OBVIOUS
  <1> HIDE DEF ph
  <1>3. ph \in Phases BY <1>2 DEF Phases
  <1>4. host' \in HostType /\ SameHost({"phase"}) /\ host'.phase = ph
    BY <1>1, <1>3 DEF Typed, HostType, SameHost, Agree, HostFields
  <1>5. /\ Cleared(tx, EndpointStallClear(tx)) /\ Cleared(rx, EndpointStallClear(rx))
    BY Aborts DEF Typed
  <1> QED BY <1>1, <1>2, <1>4, <1>5

BotResetEffect ==
  /\ host.phase = "reset" /\ host' \in HostType /\ SameHost({"phase", "csw"})
  /\ host'.phase = "resetIn" /\ host'.csw = None
  /\ Stalled(tx, tx') /\ Stalled(rx, rx')
  /\ msd' \in MsdType /\ SameMsd({"state"}) /\ msd'.state = "WAIT_FOR_CBW"
  /\ overtaken' = (overtaken \/ Busy)
  /\ UNCHANGED <<task, media, configured, haltKept>>

LEMMA BotResetIs ==
    ASSUME Typed, BotReset
    PROVE  BotResetEffect
  <1> USE DEF BotResetEffect
  <1>1. /\ host.phase = "reset" /\ host' = [host EXCEPT !.phase = "resetIn", !.csw = None]
        /\ tx' = EndpointStall(tx) /\ rx' = EndpointStall(rx)
        /\ msd' = [msd EXCEPT !.state = "WAIT_FOR_CBW"]
        /\ overtaken' = (overtaken \/ Busy)
        /\ UNCHANGED <<task, media, configured, haltKept>>
    BY DEF BotReset
  <1>2. None \in Packet /\ "resetIn" \in Phases /\ "WAIT_FOR_CBW" \in States
    BY DEF Packet, Payload, Phases, States
  <1>3. host' \in HostType /\ SameHost({"phase", "csw"}) /\ host'.phase = "resetIn"
        /\ host'.csw = None
    BY <1>1, <1>2 DEF Typed, HostType, SameHost, Agree, HostFields
  <1>4. msd' \in MsdType /\ SameMsd({"state"}) /\ msd'.state = "WAIT_FOR_CBW"
    BY <1>1, <1>2 DEF Typed, MsdType, SameMsd, Agree, MsdFields
  <1>5. Stalled(tx, tx') /\ Stalled(rx, rx') BY <1>1, Aborts DEF Typed
  <1> QED BY <1>1, <1>3, <1>4, <1>5

HostGivesUpEffect ==
  /\ host.phase \in {"idle", "data", "status"} /\ host' \in HostType
  /\ SameHost({"phase", "giveUps"}) /\ host'.phase = "reset"
  /\ UNCHANGED <<rx, tx, msd>> /\ TaskFrame

LEMMA HostGivesUpIs ==
    ASSUME Typed, HostGivesUp
    PROVE  HostGivesUpEffect
  <1> USE DEF HostGivesUpEffect
  <1>1. /\ host.phase \in {"idle", "data", "status"}
        /\ host' = [host EXCEPT !.phase = "reset", !.giveUps = host.giveUps + 1]
        /\ UNCHANGED <<rx, tx, msd>> /\ TaskFrame
    BY DEF HostGivesUp, Keeps, TaskFrame, Typed, HostType
  <1>2. host.giveUps + 1 \in Nat /\ "reset" \in Phases BY DEF Typed, HostType, Phases
  <1> QED BY <1>1, <1>2 DEF Typed, HostType, SameHost, Agree, HostFields

BusResetEffect ==
  /\ configured /\ ~configured' /\ host' \in HostType
  /\ SameHost({"phase", "csw", "giveUps"}) /\ host'.phase = "attach" /\ host'.csw = None
  /\ Disabled(rx, rx') /\ Disabled(tx, tx')
  /\ media' \in MediaType /\ media'.store = media.store /\ media'.req = media.req
  /\ overtaken' = (overtaken \/ Busy)
  /\ UNCHANGED <<msd, task, haltKept>>

LEMMA BusResetIs ==
    ASSUME Typed, BusReset
    PROVE  BusResetEffect
  <1> USE DEF BusResetEffect
  <1>1. /\ configured /\ ~configured'
        /\ host' = [host EXCEPT !.phase = "attach", !.csw = None, !.giveUps = host.giveUps + 1]
        /\ rx' = EndpointDisable(rx) /\ tx' = EndpointDisable(tx)
        /\ media' = [media EXCEPT !.open = FALSE]
        /\ overtaken' = (overtaken \/ Busy)
        /\ UNCHANGED <<msd, task, haltKept>>
    BY DEF BusReset, Typed, HostType
  <1>2. host.giveUps + 1 \in Nat /\ "attach" \in Phases BY DEF Typed, HostType, Phases
  <1>3. None \in Packet BY DEF Packet, Payload
  <1>4. host' \in HostType /\ SameHost({"phase", "csw", "giveUps"}) /\ host'.phase = "attach"
        /\ host'.csw = None
    BY <1>1, <1>2, <1>3 DEF Typed, HostType, SameHost, Agree, HostFields
  <1>5. media' \in MediaType /\ media'.store = media.store /\ media'.req = media.req
    BY <1>1 DEF Typed, MediaType
  <1>6. Disabled(rx, rx') /\ Disabled(tx, tx') BY <1>1, Aborts DEF Typed
  <1> QED BY <1>1, <1>4, <1>5, <1>6

ConfigureEffect ==
  /\ host.phase = "attach" /\ task = Outside /\ configured'
  /\ host' \in HostType /\ SameHost({"phase"}) /\ host'.phase = "idle"
  /\ Enabled(rx, rx') /\ Enabled(tx, tx')
  /\ msd' \in MsdType /\ SameMsd({"state", "handle"}) /\ msd'.state = "WAIT_FOR_CBW"
  /\ haltKept' \in BOOLEAN
  /\ UNCHANGED <<task, media, overtaken>>

LEMMA ConfigureIs ==
    ASSUME Typed, Configure
    PROVE  ConfigureEffect
  <1> USE DEF ConfigureEffect
  <1>1. /\ host.phase = "attach" /\ task = Outside /\ configured'
        /\ host' = [host EXCEPT !.phase = "idle"]
        /\ rx' = EndpointEnable(rx) /\ tx' = EndpointEnable(tx)
        /\ msd' = [msd EXCEPT !.state = "WAIT_FOR_CBW", !.handle = FALSE]
        /\ haltKept' \in BOOLEAN
        /\ UNCHANGED <<task, media, overtaken>>
    BY DEF Configure
  <1>2. "idle" \in Phases /\ "WAIT_FOR_CBW" \in States BY DEF Phases, States
  <1>3. host' \in HostType /\ SameHost({"phase"}) /\ host'.phase = "idle"
    BY <1>1, <1>2 DEF Typed, HostType, SameHost, Agree, HostFields
  <1>4. msd' \in MsdType /\ SameMsd({"state", "handle"}) /\ msd'.state = "WAIT_FOR_CBW"
    BY <1>1, <1>2 DEF Typed, MsdType, SameMsd, Agree, MsdFields
  <1>5. Enabled(rx, rx') /\ Enabled(tx, tx') BY <1>1, Aborts DEF Typed
  <1> QED BY <1>1, <1>3, <1>4, <1>5

-----------------------------------------------------------------------------
(* Base survives every step.                                               *)
LEMMA IsCommand ==
    ASSUME NEW c \in Payload, c.type = "cbw"
    PROVE  c \in CommandBlock
  BY DEF Payload, DataPacket, None, Reply, Damaged

LEMMA EnterBase ==
    ASSUME Base, Enter
    PROVE  Base' /\ EnterEffect
           /\ Doing = msd.state /\ Doing' = msd.state
  <1>1. EnterEffect BY EnterIs DEF Base
  <1>3. Typed' BY <1>1 DEF EnterEffect, Base, Typed, Frame, TaskEnds
  <1>4. Doing = msd.state /\ Doing' = msd.state
    BY <1>1 DEF EnterEffect, Base, Calls, Legs, Doing, InTask, TaskEnds, Outside
  <1>5. Calls' BY <1>1 DEF EnterEffect, Base, Calls, Legs, InTask, TaskEnds, Outside
  <1>6. Receiving'
    BY <1>1, <1>4 DEF EnterEffect, Base, Receiving, TaskEnds, MayEnter, CbwSettled, Done
  <1>7. Understood' BY <1>1, <1>4 DEF EnterEffect, Base, Understood
  <1>8. Counted' BY <1>1, <1>4 DEF EnterEffect, Base, Counted
  <1>9. Limited' BY <1>1 DEF EnterEffect, Base, Limited, Frame
  <1> QED BY <1>1, <1>3, <1>4, <1>5, <1>6, <1>7, <1>8, <1>9 DEF Base

LEMMA StallInOutBase ==
    ASSUME Base, StallInOut
    PROVE  Base' /\ StallInOutEffect
           /\ Doing = "STALL_IN_OUT" /\ Doing' = msd.state
  <1>1. StallInOutEffect BY StallInOutIs DEF Base
  <1>3. Typed' BY <1>1 DEF StallInOutEffect, Base, Typed, Frame, TaskEnds, Stalled, Aborted
  <1>4. Doing = "STALL_IN_OUT" /\ Doing' = msd.state
    BY <1>1 DEF StallInOutEffect, Base, Calls, Legs, Doing, InTask, TaskEnds, Outside
  <1>5. Calls' BY <1>1 DEF StallInOutEffect, Base, Calls, Legs, InTask, TaskEnds, Outside
  <1>6. Receiving'
    BY <1>1, <1>4 DEF StallInOutEffect, Base, Receiving, InTask, TaskEnds, Stalled, Aborted
  <1>10. msd.state \in {"STALL_IN_OUT", "WAIT_FOR_CBW"}
    BY <1>1 DEF StallInOutEffect, InTask, Base, Calls
  <1>7. Understood' BY <1>4, <1>10 DEF Understood
  <1>8. Counted' BY <1>4, <1>10 DEF Counted
  <1>9. Limited' BY <1>1 DEF StallInOutEffect, Base, Limited, Frame, Stalled, Aborted
  <1> QED BY <1>1, <1>3, <1>4, <1>5, <1>6, <1>7, <1>8, <1>9 DEF Base

LEMMA WaitForCbwBase ==
    ASSUME Base, WaitForCbw
    PROVE  Base' /\ WaitForCbwEffect
           /\ Doing = "WAIT_FOR_CBW" /\ Doing' = "CBW"
  <1>1. WaitForCbwEffect BY WaitForCbwIs DEF Base
  <1>3. Typed' BY <1>1 DEF WaitForCbwEffect, Base, Typed, Frame, TaskEnds, Submitted
  <1>4. Doing = "WAIT_FOR_CBW" /\ Doing' = "CBW"
    BY <1>1 DEF WaitForCbwEffect, Base, Calls, Legs, Doing, InTask, TaskEnds, Outside
  <1>5. Calls' BY <1>1 DEF WaitForCbwEffect, Base, Calls, Legs, InTask, TaskEnds, Outside
  <1>6. Receiving'
    BY <1>1, <1>4 DEF WaitForCbwEffect, Base, Receiving, InTask, TaskEnds, Submitted
  <1>7. Understood' BY <1>1, <1>4 DEF WaitForCbwEffect, Base, Understood
  <1>8. Counted' BY <1>1, <1>4 DEF WaitForCbwEffect, Base, Counted
  <1>9. Limited' BY <1>1 DEF WaitForCbwEffect, Base, Limited, Frame, Submitted
  <1> QED BY <1>1, <1>3, <1>4, <1>5, <1>6, <1>7, <1>8, <1>9 DEF Base

LEMMA RescheduleBase ==
    ASSUME Base, Reschedule
    PROVE  Base' /\ RescheduleEffect
           /\ Doing = "CBW" /\ Doing' = "WAIT_FOR_CBW"
  <1>1. RescheduleEffect BY RescheduleIs DEF Base
  <1>3. Typed' BY <1>1 DEF RescheduleEffect, Base, Typed, Frame, TaskEnds
  <1>4. Doing = "CBW" /\ Doing' = "WAIT_FOR_CBW"
    BY <1>1 DEF RescheduleEffect, Base, Calls, Legs, Doing, InTask, TaskEnds, Outside
  <1>5. Calls' BY <1>1 DEF RescheduleEffect, Base, Calls, Legs, InTask, TaskEnds, Outside
  <1>6. Receiving'
    BY <1>1, <1>4 DEF RescheduleEffect, Base, Receiving, InTask, TaskEnds
  <1>7. Understood' BY <1>1, <1>4 DEF RescheduleEffect, Base, Understood
  <1>8. Counted' BY <1>1, <1>4 DEF RescheduleEffect, Base, Counted
  <1>9. Limited' BY <1>1 DEF RescheduleEffect, Base, Limited, Frame
  <1> QED BY <1>1, <1>3, <1>4, <1>5, <1>6, <1>7, <1>8, <1>9 DEF Base

LEMMA VerifyCommandBase ==
    ASSUME Base, VerifyCommand
    PROVE  Base' /\ VerifyCommandEffect
           /\ Doing = "CBW" /\ Doing' = task'.next
  <1>1. VerifyCommandEffect BY VerifyCommandIs DEF Base
  <1>2. msd'.state = msd.state /\ msd'.cbw = msd.cbw
    BY <1>1 DEF VerifyCommandEffect, SameMsd, Agree, MsdFields, Verified
  <1>3. Typed' BY <1>1 DEF VerifyCommandEffect, Base, Typed, Frame, TaskEnds
  <1>4. Doing = "CBW" /\ Doing' = task'.next
    BY <1>1, <1>2 DEF VerifyCommandEffect, Base, Calls, Legs, Doing, InTask, TaskEnds, Outside
  <1>5. Calls' BY <1>1, <1>2 DEF VerifyCommandEffect, Base, Calls, Legs, InTask, TaskEnds, Outside
  <1>6. Receiving'
    BY <1>1, <1>4 DEF VerifyCommandEffect, Base, Receiving, InTask, TaskEnds
  <1>10. msd.cbw.type = "cbw" => msd.cbw \in CommandBlock /\ msd.cbw.len >= 0
    BY IsCommand DEF Base, Typed, MsdType, CommandBlock
  <1>7. Understood' BY <1>1, <1>2, <1>4, <1>10 DEF VerifyCommandEffect, Understood
  <1>8. Counted' BY <1>1, <1>2, <1>4, <1>10 DEF VerifyCommandEffect, Counted
  <1>9. Limited' BY <1>1, <1>2 DEF VerifyCommandEffect, Base, Limited, Frame
  <1> QED BY <1>1, <1>3, <1>4, <1>5, <1>6, <1>7, <1>8, <1>9 DEF Base

LEMMA ProcessNonRWCommandBase ==
    ASSUME Base, ProcessNonRWCommand
    PROVE  Base' /\ ProcessNonRWCommandEffect
           /\ Doing = "PROCESS_CBW" /\ Doing' = "CSW"
  <1>1. ProcessNonRWCommandEffect BY ProcessNonRWCommandIs DEF Base
  <1>2. /\ msd'.state = msd.state /\ msd'.cbw = msd.cbw /\ msd'.offset = msd.offset
        /\ msd'.pending = msd.pending
        /\ msd'.usbSectors = msd.usbSectors
        /\ msd'.toWrite = msd.toWrite
    BY <1>1 DEF ProcessNonRWCommandEffect, SameMsd, Agree, MsdFields
  <1>3. Typed' BY <1>1 DEF ProcessNonRWCommandEffect, Base, Typed, Frame, TaskEnds, Submitted
  <1>4. Doing = "PROCESS_CBW" /\ Doing' = "CSW"
    BY <1>1, <1>2 DEF ProcessNonRWCommandEffect, Base, Calls, Legs, Doing, InTask, TaskEnds,
       Outside
  <1>5. Calls'
    BY <1>1, <1>2 DEF ProcessNonRWCommandEffect, Base, Calls, Legs, InTask, TaskEnds, Outside
  <1>6. Receiving'
    BY <1>1, <1>4 DEF ProcessNonRWCommandEffect, Base, Receiving, InTask, TaskEnds, Submitted
  <1>7. Understood' BY <1>1, <1>2, <1>4 DEF ProcessNonRWCommandEffect, Base, Understood
  <1>8. Counted' BY <1>1, <1>2, <1>4 DEF ProcessNonRWCommandEffect, Base, Counted
  <1>9. Limited' BY <1>1, <1>2 DEF ProcessNonRWCommandEffect, Base, Limited, Frame, Submitted
  <1> QED BY <1>1, <1>3, <1>4, <1>5, <1>6, <1>7, <1>8, <1>9 DEF Base

LEMMA ReadSendBase ==
    ASSUME Base, ReadSend
    PROVE  Base' /\ ReadSendEffect
           /\ Doing = "DATA_IN" /\ Doing' = "DATA_IN"
  <1>0. msd.pending <= msd.offset
    BY UsbAssumption DEF Base, Understood, Counted, Doing, Fresh, ReadSend, Working, Typed,
       MsdType
  <1>1. ReadSendEffect BY <1>0, ReadSendIs DEF Base
  <1>2. /\ msd'.state = msd.state /\ msd'.cbw = msd.cbw /\ msd'.offset = msd.offset
        /\ msd'.usbSectors = msd.usbSectors
        /\ msd'.toWrite = msd.toWrite
    BY <1>1 DEF ReadSendEffect, SameMsd, Agree, MsdFields
  <1>3. Typed' BY <1>1 DEF ReadSendEffect, Base, Typed, Frame, TaskEnds, Submitted
  <1>4. Doing = "DATA_IN" /\ Doing' = "DATA_IN"
    BY <1>1, <1>2 DEF ReadSendEffect, Base, Calls, Legs, Doing, InTask, TaskEnds, Outside
  <1>5. Calls' BY <1>1, <1>2 DEF ReadSendEffect, Base, Calls, Legs, InTask, TaskEnds, Outside
  <1>6. Receiving'
    BY <1>1, <1>4 DEF ReadSendEffect, Base, Receiving, InTask, TaskEnds, Submitted
  <1>7. Understood' BY <1>1, <1>2, <1>0, <1>4 DEF ReadSendEffect, Base, Understood
  <1>8. Counted'
    <2>1. msd.pending \in Nat /\ msd.offset \in Nat BY UsbAssumption DEF Base, Typed, MsdType
    <2> QED BY <1>1, <1>2, <1>4, <2>1 DEF ReadSendEffect, Counted
  <1>9. Limited' BY <1>1, <1>2 DEF ReadSendEffect, Base, Limited, Frame, Submitted
  <1> QED BY <1>1, <1>3, <1>4, <1>5, <1>6, <1>7, <1>8, <1>9 DEF Base

LEMMA ReadMoreBase ==
    ASSUME Base, ReadMore
    PROVE  Base' /\ ReadMoreEffect
           /\ Doing = "DATA_IN" /\ Doing' = task'.next
  <1>0. msd.cbw \in CommandBlock
    BY UsbAssumption DEF Base, Understood, Counted, Doing, Fresh, ReadMore, Working, Typed,
       MsdType
  <1>1. ReadMoreEffect BY <1>0, ReadMoreIs DEF Base
  <1>2. msd'.state = msd.state /\ msd'.usbSectors = msd.usbSectors /\ msd'.toWrite = msd.toWrite
    BY <1>1 DEF ReadMoreEffect, SameMsd, Agree, MsdFields
  <1>3. Typed' BY <1>1 DEF ReadMoreEffect, Base, Typed, Frame, TaskEnds
  <1>4. Doing = "DATA_IN" /\ Doing' = task'.next
    BY <1>1, <1>2 DEF ReadMoreEffect, Base, Calls, Legs, Doing, InTask, TaskEnds, Outside
  <1>5. Calls' BY <1>1, <1>2 DEF ReadMoreEffect, Base, Calls, Legs, InTask, TaskEnds, Outside
  <1>6. Receiving'
    BY <1>1, <1>4 DEF ReadMoreEffect, Base, Receiving, InTask, TaskEnds
  <1> DEFINE n == Smaller(msd.cbw.len, Buffering)
  <1>10. n \in Nat /\ Advanced(msd.cbw, n) \in CommandBlock
    BY <1>0, Parts, Advances, UsbAssumption
  <1>11. msd'.cbw \in CommandBlock BY <1>0, <1>1, <1>10 DEF ReadMoreEffect
  <1>12. media'.req # None => media'.req = media.req \/ media'.req.addr + media'.req.n <= Sectors
    BY <1>1 DEF ReadMoreEffect, Request
  <1>7. Understood' BY <1>11 DEF Understood
  <1>8. Counted'
    <2>1. msd'.pending = 0 /\ msd'.offset >= 0
      BY <1>1, UsbAssumption DEF ReadMoreEffect, MsdType
    <2>2. Doing' # "DATA_OUT" BY <1>1, <1>4 DEF ReadMoreEffect
    <2> QED BY <2>1, <2>2 DEF Counted
  <1>9. Limited' BY <1>1, <1>12 DEF ReadMoreEffect, Base, Limited, Frame
  <1> QED BY <1>1, <1>3, <1>4, <1>5, <1>6, <1>7, <1>8, <1>9 DEF Base

LEMMA WriteReceiveBase ==
    ASSUME Base, WriteReceive
    PROVE  Base' /\ WriteReceiveEffect
           /\ Doing = "DATA_OUT" /\ Doing' = "DATA_OUT"
  <1>0. msd.cbw \in CommandBlock /\ (~Fresh => msd.offset + msd.usbSectors = msd.toWrite)
    BY UsbAssumption DEF Base, Understood, Counted, Doing, Fresh, WriteReceive, Working, Typed,
       MsdType
  <1>1. WriteReceiveEffect BY <1>0, WriteReceiveIs DEF Base
  <1>2. msd'.state = msd.state /\ msd'.cbw = msd.cbw /\ msd'.pending = msd.pending
    BY <1>1 DEF WriteReceiveEffect, SameMsd, Agree, MsdFields
  <1>3. Typed' BY <1>1 DEF WriteReceiveEffect, Base, Typed, Frame, TaskEnds, Submitted
  <1>4. Doing = "DATA_OUT" /\ Doing' = "DATA_OUT"
    BY <1>1, <1>2 DEF WriteReceiveEffect, Base, Calls, Legs, Doing, InTask, TaskEnds, Outside
  <1>5. Calls' BY <1>1, <1>2 DEF WriteReceiveEffect, Base, Calls, Legs, InTask, TaskEnds, Outside
  <1>6. Receiving'
    BY <1>1, <1>4 DEF WriteReceiveEffect, Base, Receiving, InTask, TaskEnds, Submitted
  <1>7. Understood' BY <1>1, <1>2, <1>0, <1>4 DEF WriteReceiveEffect, Base, Understood
  <1>8. Counted'
    <2>1. /\ msd.offset \in Nat /\ msd.usbSectors \in Nat /\ msd.toWrite \in Nat
          /\ Smaller(msd.cbw.len, Buffering) \in Nat
          /\ Smaller(msd.cbw.len, Buffering) <= msd.cbw.len
          /\ msd.toWrite <= msd.cbw.len
      BY <1>0, <1>4, Parts, UsbAssumption DEF Base, Typed, MsdType, Counted
    <2> QED BY <1>0, <1>1, <1>2, <1>4, <2>1 DEF WriteReceiveEffect, Counted, Fresh
  <1>9. Limited' BY <1>1, <1>2 DEF WriteReceiveEffect, Base, Limited, Frame, Submitted
  <1> QED BY <1>1, <1>3, <1>4, <1>5, <1>6, <1>7, <1>8, <1>9 DEF Base

LEMMA WriteMediaBase ==
    ASSUME Base, WriteMedia
    PROVE  Base' /\ WriteMediaEffect
           /\ Doing = "DATA_OUT" /\ Doing' = task'.next
  <1>0. msd.cbw \in CommandBlock /\ msd.toWrite <= msd.cbw.len
    BY UsbAssumption DEF Base, Understood, Counted, Doing, Fresh, WriteMedia, Working, Typed,
       MsdType
  <1>1. WriteMediaEffect BY <1>0, WriteMediaIs DEF Base
  <1>2. /\ msd'.state = msd.state /\ msd'.offset = msd.offset /\ msd'.pending = msd.pending
        /\ msd'.usbSectors = msd.usbSectors
    BY <1>1 DEF WriteMediaEffect, SameMsd, Agree, MsdFields
  <1>3. Typed' BY <1>1 DEF WriteMediaEffect, Base, Typed, Frame, TaskEnds
  <1>4. Doing = "DATA_OUT" /\ Doing' = task'.next
    BY <1>1, <1>2 DEF WriteMediaEffect, Base, Calls, Legs, Doing, InTask, TaskEnds, Outside
  <1>5. Calls' BY <1>1, <1>2 DEF WriteMediaEffect, Base, Calls, Legs, InTask, TaskEnds, Outside
  <1>6. Receiving'
    BY <1>1, <1>4 DEF WriteMediaEffect, Base, Receiving, InTask, TaskEnds
  <1>10. msd.toWrite \in Nat /\ Advanced(msd.cbw, msd.toWrite) \in CommandBlock
    BY <1>0, Advances, UsbAssumption DEF Base, Typed, MsdType
  <1>11. msd'.cbw \in CommandBlock BY <1>0, <1>1, <1>10 DEF WriteMediaEffect
  <1>12. media'.req # None => media'.req = media.req \/ media'.req.addr + media'.req.n <= Sectors
    BY <1>1 DEF WriteMediaEffect, Request
  <1>7. Understood' BY <1>11 DEF Understood
  <1>8. Counted'
    <2>1. msd'.cbw.len >= 0 BY <1>11 DEF CommandBlock
    <2>2. Doing' # "DATA_IN" /\ (Doing' = "DATA_OUT" => msd'.toWrite = 0)
      BY <1>1, <1>4 DEF WriteMediaEffect
    <2> QED BY <2>1, <2>2 DEF Counted
  <1>9. Limited' BY <1>1, <1>12 DEF WriteMediaEffect, Base, Limited, Frame
  <1> QED BY <1>1, <1>3, <1>4, <1>5, <1>6, <1>7, <1>8, <1>9 DEF Base

LEMMA WriteDoneBase ==
    ASSUME Base, WriteDone
    PROVE  Base' /\ WriteDoneEffect
           /\ Doing = "DATA_OUT" /\ Doing' = "CSW"
  <1>1. WriteDoneEffect BY WriteDoneIs DEF Base
  <1>3. Typed' BY <1>1 DEF WriteDoneEffect, Base, Typed, Frame, TaskEnds
  <1>4. Doing = "DATA_OUT" /\ Doing' = "CSW"
    BY <1>1 DEF WriteDoneEffect, Base, Calls, Legs, Doing, InTask, TaskEnds, Outside
  <1>5. Calls' BY <1>1 DEF WriteDoneEffect, Base, Calls, Legs, InTask, TaskEnds, Outside
  <1>6. Receiving'
    BY <1>1, <1>4 DEF WriteDoneEffect, Base, Receiving, InTask, TaskEnds
  <1>7. Understood' BY <1>1, <1>4 DEF WriteDoneEffect, Base, Understood
  <1>8. Counted' BY <1>1, <1>4 DEF WriteDoneEffect, Base, Counted
  <1>9. Limited' BY <1>1 DEF WriteDoneEffect, Base, Limited, Frame
  <1> QED BY <1>1, <1>3, <1>4, <1>5, <1>6, <1>7, <1>8, <1>9 DEF Base

LEMMA MediaFailedBase ==
    ASSUME Base, MediaFailed
    PROVE  Base' /\ MediaFailedEffect
           /\ Doing = task.at /\ Doing' = task'.next
  <1>1. MediaFailedEffect BY MediaFailedIs DEF Base
  <1>3. Typed' BY <1>1 DEF MediaFailedEffect, Base, Typed, Frame, TaskEnds
  <1>4. Doing = task.at /\ Doing' = task'.next
    BY <1>1 DEF MediaFailedEffect, Base, Calls, Legs, Doing, InTask, TaskEnds, Outside
  <1>5. Calls' BY <1>1 DEF MediaFailedEffect, Base, Calls, Legs, InTask, TaskEnds, Outside
  <1>6. Receiving'
    BY <1>1, <1>4 DEF MediaFailedEffect, Base, Receiving, InTask, TaskEnds
  <1>7. Understood' BY <1>1, <1>4 DEF MediaFailedEffect, Base, Understood, TaskEnds
  <1>8. Counted' BY <1>1, <1>4 DEF MediaFailedEffect, Base, Counted, TaskEnds
  <1>9. Limited' BY <1>1 DEF MediaFailedEffect, Base, Limited, Frame
  <1> QED BY <1>1, <1>3, <1>4, <1>5, <1>6, <1>7, <1>8, <1>9 DEF Base

LEMMA PostDataStageBase ==
    ASSUME Base, PostDataStage
    PROVE  Base' /\ PostDataStageEffect
           /\ Doing = "CSW" /\ Doing' = "SEND_CSW"
  <1>0. msd.cbw \in CommandBlock
    BY UsbAssumption DEF Base, Understood, Counted, Doing, Fresh, PostDataStage, Working, Typed,
       MsdType
  <1>1. PostDataStageEffect BY <1>0, PostDataStageIs DEF Base
  <1>2. /\ msd'.state = msd.state /\ msd'.cbw = msd.cbw /\ msd'.offset = msd.offset
        /\ msd'.pending = msd.pending
        /\ msd'.usbSectors = msd.usbSectors
        /\ msd'.toWrite = msd.toWrite
    BY <1>1 DEF PostDataStageEffect, SameMsd, Agree, MsdFields
  <1>3. Typed' BY <1>1 DEF PostDataStageEffect, Base, Typed, Frame, TaskEnds, Stalled, Aborted
  <1>4. Doing = "CSW" /\ Doing' = "SEND_CSW"
    BY <1>1, <1>2 DEF PostDataStageEffect, Base, Calls, Legs, Doing, InTask, TaskEnds, Outside
  <1>5. Calls' BY <1>1, <1>2 DEF PostDataStageEffect, Base, Calls, Legs, InTask, TaskEnds, Outside
  <1>6. Receiving'
    BY <1>1, <1>4 DEF PostDataStageEffect, Base, Receiving, InTask, TaskEnds, Stalled, Aborted
  <1>7. Understood' BY <1>1, <1>2, <1>0, <1>4 DEF PostDataStageEffect, Base, Understood
  <1>8. Counted' BY <1>1, <1>2, <1>0, <1>4 DEF PostDataStageEffect, Base, Counted
  <1>9. Limited' BY <1>1, <1>2 DEF PostDataStageEffect, Base, Limited, Frame, Stalled, Aborted
  <1> QED BY <1>1, <1>3, <1>4, <1>5, <1>6, <1>7, <1>8, <1>9 DEF Base

LEMMA SendCswBase ==
    ASSUME Base, SendCsw
    PROVE  Base' /\ SendCswEffect
           /\ Doing = "SEND_CSW" /\ Doing' = "WAIT_FOR_CBW"
  <1>1. SendCswEffect BY SendCswIs DEF Base
  <1>3. Typed' BY <1>1 DEF SendCswEffect, Base, Typed, Frame, TaskEnds, Submitted
  <1>4. Doing = "SEND_CSW" /\ Doing' = "WAIT_FOR_CBW"
    BY <1>1 DEF SendCswEffect, Base, Calls, Legs, Doing, InTask, TaskEnds, Outside
  <1>5. Calls' BY <1>1 DEF SendCswEffect, Base, Calls, Legs, InTask, TaskEnds, Outside
  <1>6. Receiving'
    BY <1>1, <1>4 DEF SendCswEffect, Base, Receiving, InTask, TaskEnds, Submitted
  <1>7. Understood' BY <1>1, <1>4 DEF SendCswEffect, Base, Understood
  <1>8. Counted' BY <1>1, <1>4 DEF SendCswEffect, Base, Counted
  <1>9. Limited' BY <1>1 DEF SendCswEffect, Base, Limited, Frame, Submitted
  <1> QED BY <1>1, <1>3, <1>4, <1>5, <1>6, <1>7, <1>8, <1>9 DEF Base

LEMMA StoreBase ==
    ASSUME Base, Store
    PROVE  Base' /\ StoreEffect
           /\ Doing = task.next /\ Doing' = task.next
  <1>1. StoreEffect BY StoreIs DEF Base
  <1>2. /\ msd'.cbw = msd.cbw /\ msd'.offset = msd.offset /\ msd'.pending = msd.pending
        /\ msd'.usbSectors = msd.usbSectors
        /\ msd'.toWrite = msd.toWrite
    BY <1>1 DEF StoreEffect, SameMsd, Agree, MsdFields
  <1>3. Typed' BY <1>1 DEF StoreEffect, Base, Typed, Frame, TaskEnds
  <1>4. Doing = task.next /\ Doing' = task.next
    BY <1>1, <1>2 DEF StoreEffect, Base, Calls, Legs, Doing, InTask, TaskEnds, Outside
  <1>5. Calls' BY <1>1, <1>2 DEF StoreEffect, Base, Calls, Legs, InTask, TaskEnds, Outside
  <1>6. Receiving'
    BY <1>1, <1>4 DEF StoreEffect, Base, Receiving, Continues
  <1>7. Understood' BY <1>1, <1>2, <1>4 DEF StoreEffect, Base, Understood
  <1>8. Counted' BY <1>1, <1>2, <1>4 DEF StoreEffect, Base, Counted
  <1>9. Limited' BY <1>1, <1>2 DEF StoreEffect, Base, Limited, Frame
  <1> QED BY <1>1, <1>3, <1>4, <1>5, <1>6, <1>7, <1>8, <1>9 DEF Base

(* What of the device a step of the host or of the medium leaves alone.    *)
Undone == /\ UNCHANGED task
          /\ msd'.state = msd.state /\ msd'.offset = msd.offset /\ msd'.pending = msd.pending
          /\ msd'.usbSectors = msd.usbSectors /\ msd'.toWrite = msd.toWrite

LEMMA UndoneBase ==
    ASSUME Base, Undone, msd'.cbw = msd.cbw \/ Doing = "CBW"
    PROVE  Doing' = Doing /\ Calls' /\ Understood' /\ Counted'
  <1>1. Doing' = Doing BY DEF Undone, Doing
  <1>2. Calls' BY DEF Undone, Base, Calls
  <1>3. Understood' BY <1>1 DEF Base, Understood
  <1>4. Counted' BY <1>1 DEF Base, Counted, Undone
  <1> QED BY <1>1, <1>2, <1>3, <1>4

LEMMA MediaEndsBase ==
    ASSUME Base, NEW event \in {"COMPLETE", "ERROR"}, MediaEndsEffect(event)
    PROVE  Base' /\ Doing' = Doing
  <1>2. Undone /\ msd'.cbw = msd.cbw
    BY DEF MediaEndsEffect, SameMsd, Agree, MsdFields, Undone
  <1>3. Typed' BY DEF MediaEndsEffect, Base, Typed, Frame
  <1>4. Doing' = Doing /\ Calls' /\ Understood' /\ Counted' BY <1>2, UndoneBase
  <1>5. Receiving' BY <1>4 DEF MediaEndsEffect, Base, Receiving
  <1>6. Limited' BY DEF MediaEndsEffect, Base, Limited, Frame
  <1> QED BY <1>3, <1>4, <1>5, <1>6 DEF Base

LEMMA ReceivedBase ==
    ASSUME Base, NEW packet \in CommandBlock \cup DataPacket, Received(packet), UNCHANGED task
    PROVE  /\ ReceivedEffect(packet) /\ msd' \in MsdType /\ rx' \in EndpointType
           /\ Doing' = Doing /\ Calls' /\ Understood' /\ Counted' /\ Receiving'
           /\ rx'.halt = rx.halt /\ rx'.stalled = rx.stalled
  <1>1. ReceivedEffect(packet) BY ReceivedIs DEF Base
  <1>2. Undone /\ (rx.to # "CBW" => msd'.cbw = msd.cbw)
    BY <1>1 DEF ReceivedEffect, SameMsd, Agree, MsdFields, Undone
  <1>3. rx.to = "CBW" => Doing = "CBW" BY <1>1 DEF ReceivedEffect, Completed, Base, Receiving
  <1>4. Doing' = Doing /\ Calls' /\ Understood' /\ Counted' BY <1>2, <1>3, UndoneBase
  <1>5. Receiving' BY <1>1 DEF ReceivedEffect, Completed, Receiving
  <1> QED BY <1>1, <1>4, <1>5 DEF ReceivedEffect, Completed

LEMMA HostSendsCommandBase ==
    ASSUME Base, HostSendsCommand
    PROVE  Base' /\ HostSendsCommandEffect /\ ReceivedEffect([host'.cmd EXCEPT !.tag = host'.tag])
           /\ Doing' = Doing
  <1>1. HostSendsCommandEffect BY HostSendsCommandIs DEF Base
  <1>2. host'.tag \in Nat /\ host'.cmd \in Commands
    BY <1>1 DEF HostSendsCommandEffect, HostType
  <1>3. host'.cmd \in CommandBlock /\ [host'.cmd EXCEPT !.tag = host'.tag] \in CommandBlock
    BY <1>2, CommandTypes
  <1>4. /\ msd' \in MsdType /\ rx' \in EndpointType
        /\ Calls' /\ Understood' /\ Counted' /\ Receiving' /\ Doing' = Doing
        /\ ReceivedEffect([host'.cmd EXCEPT !.tag = host'.tag])
        /\ rx'.halt = rx.halt /\ rx'.stalled = rx.stalled
    BY <1>1, <1>3, ReceivedBase DEF HostSendsCommandEffect, TaskFrame
  <1>5. Typed' BY <1>1, <1>4 DEF HostSendsCommandEffect, Base, Typed, TaskFrame
  <1>6. host'.cmd.want \in Nat /\ Len(host'.got) = 0 /\ host'.sent = 0 /\ Sectors \in Nat
    BY <1>1, <1>3, UsbAssumption DEF HostSendsCommandEffect, CommandBlock
  <1>7. Limited' BY <1>1, <1>3, <1>4, <1>6 DEF HostSendsCommandEffect, Base, Limited, TaskFrame
  <1> QED BY <1>1, <1>4, <1>5, <1>7 DEF Base

LEMMA HostSendsDataBase ==
    ASSUME Base, HostSendsData
    PROVE  Base' /\ HostSendsDataEffect /\ ReceivedEffect(Data(host.tag, host.sent))
           /\ Doing' = Doing
  <1>0. host.cmd \in CommandBlock /\ host.sent < host.cmd.want /\ host.sent \in Nat
        /\ host.cmd.want \in Nat
    BY UsbAssumption DEF HostSendsData, Base, Limited, Typed, HostType, CommandBlock
  <1>1. HostSendsDataEffect BY <1>0, HostSendsDataIs DEF Base
  <1>2. /\ msd' \in MsdType /\ rx' \in EndpointType
        /\ Calls' /\ Understood' /\ Counted' /\ Receiving' /\ Doing' = Doing
        /\ ReceivedEffect(Data(host.tag, host.sent))
        /\ rx'.halt = rx.halt /\ rx'.stalled = rx.stalled
    BY <1>1, ReceivedBase DEF HostSendsDataEffect, TaskFrame
  <1>3. Typed' BY <1>1, <1>2 DEF HostSendsDataEffect, Base, Typed, TaskFrame
  <1>4. host'.cmd = host.cmd /\ host'.got = host.got
    BY <1>1 DEF HostSendsDataEffect, SameHost, Agree, HostFields
  <1>5. Limited'
    BY <1>0, <1>1, <1>2, <1>4 DEF HostSendsDataEffect, Base, Limited, TaskFrame
  <1> QED BY <1>1, <1>2, <1>3, <1>5 DEF Base

LEMMA HostReceivesDataBase ==
    ASSUME Base, HostReceivesData
    PROVE  Base' /\ HostReceivesDataEffect
           /\ Doing' = Doing
  <1>1. HostReceivesDataEffect BY HostReceivesDataIs DEF Base
  <1>2. /\ host.cmd \in CommandBlock /\ Len(host.got) < host.cmd.want /\ host.cmd.want \in Nat
        /\ Len(host.got) \in Nat /\ host.cmd.want <= Sectors /\ Sectors \in Nat
    <2>1. host.cmd \in CommandBlock /\ Len(host.got) < host.cmd.want
      BY <1>1 DEF HostReceivesDataEffect, Base, Limited
    <2>2. host.got \in Seq(Packet) BY DEF Base, Typed, HostType
    <2>3. host.cmd.want \in 0 .. Sectors /\ Sectors \in Nat
      BY <2>1, UsbAssumption DEF CommandBlock
    <2> QED BY <2>1, <2>2, <2>3
  <1>3. Len(host'.got) = Len(host.got) + 1
    BY <1>1, SentIs DEF HostReceivesDataEffect, Base, Typed, HostType
  <1>4. host'.cmd = host.cmd /\ host'.sent = host.sent
    BY <1>1 DEF HostReceivesDataEffect, SameHost, Agree, HostFields
  <1>5. Typed' BY <1>1 DEF HostReceivesDataEffect, Base, Typed, TaskFrame, Completed
  <1>6. Undone BY <1>1 DEF HostReceivesDataEffect, Undone, TaskFrame
  <1>7. Doing' = Doing /\ Calls' /\ Understood' /\ Counted'
    BY <1>1, <1>6, UndoneBase DEF HostReceivesDataEffect
  <1>8. Receiving' BY <1>1, <1>7 DEF HostReceivesDataEffect, TaskFrame, Base, Receiving
  <1>9. Limited'
    <2>1. Len(host'.got) <= Sectors BY <1>2, <1>3
    <2>2. host'.phase = "data" => Len(host'.got) < host'.cmd.want
      BY <1>1, <1>2, <1>3, <1>4 DEF HostReceivesDataEffect
    <2>3. host'.cmd \in CommandBlock /\ (host'.phase = "data" => host'.sent < host'.cmd.want)
      BY <1>1, <1>2, <1>4 DEF HostReceivesDataEffect, Base, Limited
    <2>4. (tx'.halt => tx'.stalled) /\ (rx'.halt => rx'.stalled) /\ UNCHANGED media
      BY <1>1 DEF HostReceivesDataEffect, Base, Limited, Completed, TaskFrame
    <2> QED BY <2>1, <2>2, <2>3, <2>4 DEF Base, Limited
  <1> QED BY <1>1, <1>5, <1>7, <1>8, <1>9 DEF Base

LEMMA HostReceivesStatusBase ==
    ASSUME Base, HostReceivesStatus
    PROVE  Base' /\ HostReceivesStatusEffect
           /\ Doing' = Doing
  <1>0. host.cmd \in CommandBlock BY DEF HostReceivesStatus, Base, Limited
  <1>1. HostReceivesStatusEffect BY <1>0, HostReceivesStatusIs DEF Base
  <1>2. Typed' BY <1>1 DEF HostReceivesStatusEffect, Base, Typed, TaskFrame, Completed
  <1>3. Undone BY <1>1 DEF HostReceivesStatusEffect, Undone, TaskFrame
  <1>4. Doing' = Doing /\ Calls' /\ Understood' /\ Counted'
    BY <1>1, <1>3, UndoneBase DEF HostReceivesStatusEffect
  <1>5. Receiving' BY <1>1, <1>4 DEF HostReceivesStatusEffect, TaskFrame, Base, Receiving
  <1>6. host'.got = host.got
    BY <1>1 DEF HostReceivesStatusEffect, SameHost, Agree, HostFields
  <1>7. Limited' BY <1>1, <1>6 DEF HostReceivesStatusEffect, Base, Limited, Completed, TaskFrame
  <1> QED BY <1>1, <1>2, <1>4, <1>5, <1>7 DEF Base

LEMMA HostMeetsHaltBase ==
    ASSUME Base, HostMeetsHalt
    PROVE  Base' /\ HostMeetsHaltEffect
           /\ Doing' = Doing
  <1>1. HostMeetsHaltEffect BY HostMeetsHaltIs DEF Base
  <1>2. Typed' BY <1>1 DEF HostMeetsHaltEffect, Base, Typed, TaskFrame
  <1>3. Undone BY <1>1 DEF HostMeetsHaltEffect, Undone, TaskFrame
  <1>4. Doing' = Doing /\ Calls' /\ Understood' /\ Counted'
    BY <1>1, <1>3, UndoneBase DEF HostMeetsHaltEffect
  <1>5. Receiving' BY <1>1, <1>4 DEF HostMeetsHaltEffect, TaskFrame, Base, Receiving
  <1>6. host'.got = host.got /\ host'.cmd = host.cmd
    BY <1>1 DEF HostMeetsHaltEffect, SameHost, Agree, HostFields
  <1>7. Limited' BY <1>1, <1>6 DEF HostMeetsHaltEffect, Base, Limited, TaskFrame
  <1> QED BY <1>1, <1>2, <1>4, <1>5, <1>7 DEF Base

LEMMA HostClearsHaltBase ==
    ASSUME Base, HostClearsHalt
    PROVE  Base' /\ HostClearsHaltEffect
           /\ Doing' = Doing
  <1>1. HostClearsHaltEffect BY HostClearsHaltIs DEF Base
  <1>2. Typed' BY <1>1 DEF HostClearsHaltEffect, Base, Typed, TaskFrame, Cleared, Aborted
  <1>3. Undone BY <1>1 DEF HostClearsHaltEffect, Undone, TaskFrame
  <1>4. Doing' = Doing /\ Calls' /\ Understood' /\ Counted'
    BY <1>1, <1>3, UndoneBase DEF HostClearsHaltEffect
  <1>5. Receiving'
    BY <1>1, <1>4 DEF HostClearsHaltEffect, TaskFrame, Base, Receiving, Cleared, Aborted
  <1>6. host'.got = host.got /\ host'.cmd = host.cmd
    BY <1>1 DEF HostClearsHaltEffect, SameHost, Agree, HostFields
  <1>7. Limited' BY <1>1, <1>6 DEF HostClearsHaltEffect, Base, Limited, TaskFrame, Cleared
  <1> QED BY <1>1, <1>2, <1>4, <1>5, <1>7 DEF Base

LEMMA HostGivesUpBase ==
    ASSUME Base, HostGivesUp
    PROVE  Base' /\ HostGivesUpEffect
           /\ Doing' = Doing
  <1>1. HostGivesUpEffect BY HostGivesUpIs DEF Base
  <1>2. Typed' BY <1>1 DEF HostGivesUpEffect, Base, Typed, TaskFrame
  <1>3. Undone BY <1>1 DEF HostGivesUpEffect, Undone, TaskFrame
  <1>4. Doing' = Doing /\ Calls' /\ Understood' /\ Counted'
    BY <1>1, <1>3, UndoneBase DEF HostGivesUpEffect
  <1>5. Receiving' BY <1>1, <1>4 DEF HostGivesUpEffect, TaskFrame, Base, Receiving
  <1>6. host'.got = host.got BY <1>1 DEF HostGivesUpEffect, SameHost, Agree, HostFields
  <1>7. Limited' BY <1>1, <1>6 DEF HostGivesUpEffect, Base, Limited, TaskFrame
  <1> QED BY <1>1, <1>2, <1>4, <1>5, <1>7 DEF Base

(* A function whose state is set to WAIT_FOR_CBW, unless in a call.        *)
LEMMA RestartedBase ==
    ASSUME Base, UNCHANGED task, msd'.state = "WAIT_FOR_CBW",
           SameMsd({"state", "handle"}), rx'.irp # "IN_PROGRESS"
    PROVE  /\ Doing' = (IF task.at = "NONE" THEN "WAIT_FOR_CBW" ELSE Doing)
           /\ Calls' /\ Understood' /\ Counted' /\ Receiving'
  <1>1. /\ msd'.cbw = msd.cbw /\ msd'.offset = msd.offset /\ msd'.pending = msd.pending
        /\ msd'.usbSectors = msd.usbSectors /\ msd'.toWrite = msd.toWrite
    BY DEF SameMsd, Agree, MsdFields
  <1>2. Doing' = (IF task.at = "NONE" THEN "WAIT_FOR_CBW" ELSE Doing) BY DEF Doing
  <1>3. Calls' BY DEF Base, Calls
  <1>4. Understood' BY <1>1, <1>2 DEF Base, Understood
  <1>5. Counted' BY <1>1, <1>2 DEF Base, Counted
  <1>6. Receiving' BY DEF Receiving
  <1> QED BY <1>2, <1>3, <1>4, <1>5, <1>6

LEMMA BotResetBase ==
    ASSUME Base, BotReset
    PROVE  Base' /\ BotResetEffect
           /\ Doing' = (IF task.at = "NONE" THEN "WAIT_FOR_CBW" ELSE Doing)
  <1>1. BotResetEffect BY BotResetIs DEF Base
  <1>2. Typed'
    <2>1. overtaken' \in BOOLEAN BY <1>1 DEF BotResetEffect
    <2> QED BY <1>1, <2>1 DEF BotResetEffect, Base, Typed, Stalled, Aborted
  <1>3. SameMsd({"state", "handle"}) BY <1>1 DEF BotResetEffect, SameMsd, Agree
  <1>4. /\ Doing' = (IF task.at = "NONE" THEN "WAIT_FOR_CBW" ELSE Doing)
        /\ Calls' /\ Understood' /\ Counted' /\ Receiving'
    BY <1>1, <1>3, RestartedBase DEF BotResetEffect, Stalled, Aborted
  <1>5. host'.got = host.got BY <1>1 DEF BotResetEffect, SameHost, Agree, HostFields
  <1>6. Limited' BY <1>1, <1>5 DEF BotResetEffect, Base, Limited, Stalled
  <1> QED BY <1>1, <1>2, <1>4, <1>6 DEF Base

LEMMA BusResetBase ==
    ASSUME Base, BusReset
    PROVE  Base' /\ BusResetEffect
           /\ Doing' = Doing
  <1>1. BusResetEffect BY BusResetIs DEF Base
  <1>2. Typed'
    <2>1. overtaken' \in BOOLEAN /\ configured' \in BOOLEAN BY <1>1 DEF BusResetEffect, BusReset
    <2> QED BY <1>1, <2>1 DEF BusResetEffect, Base, Typed, Disabled, Aborted
  <1>3. Undone BY <1>1 DEF BusResetEffect, Undone
  <1>4. Doing' = Doing /\ Calls' /\ Understood' /\ Counted'
    BY <1>1, <1>3, UndoneBase DEF BusResetEffect
  <1>5. Receiving' BY <1>1 DEF BusResetEffect, Receiving, Disabled, Aborted
  <1>6. host'.got = host.got BY <1>1 DEF BusResetEffect, SameHost, Agree, HostFields
  <1>7. Limited' BY <1>1, <1>6 DEF BusResetEffect, Base, Limited, Disabled
  <1> QED BY <1>1, <1>2, <1>4, <1>5, <1>7 DEF Base

LEMMA ConfigureBase ==
    ASSUME Base, Configure
    PROVE  Base' /\ ConfigureEffect
           /\ Doing' = "WAIT_FOR_CBW"
  <1>1. ConfigureEffect BY ConfigureIs DEF Base
  <1>2. Typed'
    <2>1. configured' \in BOOLEAN BY <1>1 DEF ConfigureEffect, Configure
    <2> QED BY <1>1, <2>1 DEF ConfigureEffect, Base, Typed, Enabled
  <1>3. /\ Doing' = "WAIT_FOR_CBW"
        /\ Calls' /\ Understood' /\ Counted' /\ Receiving'
    BY <1>1, RestartedBase DEF ConfigureEffect, Enabled, Outside
  <1>4. host'.got = host.got BY <1>1 DEF ConfigureEffect, SameHost, Agree, HostFields
  <1>5. Limited' BY <1>1, <1>4 DEF ConfigureEffect, Base, Limited, Enabled
  <1> QED BY <1>1, <1>2, <1>3, <1>5 DEF Base

-----------------------------------------------------------------------------
(* The initial state and every step.                                       *)
LEMMA InitBase ==
    ASSUME Init
    PROVE  Base
  <1>1. 0 \in Slots /\ 0 \in 0 .. Buffering /\ 0 \in 0 .. Sectors /\ 0 \in Nat
    BY UsbAssumption DEF Slots
  <1>2. \A s \in 0 .. Sectors - 1 : Data(0, s) \in Payload
    BY UsbAssumption DEF Data, Payload, DataPacket
  <1>3. host \in HostType
    <2>1. [s \in 0 .. Sectors - 1 |-> Data(0, s)] \in [0 .. Sectors - 1 -> Packet]
      BY <1>2 DEF Packet
    <2>2. None \in Packet /\ <<>> \in Seq(Packet) BY DEF Packet, Payload
    <2> QED BY <1>1, <2>1, <2>2 DEF Init, HostType, Phases
  <1>4. rx \in EndpointType /\ tx \in EndpointType
    BY <1>1 DEF Init, FreshEndpoint, EndpointType
  <1>5. msd \in MsdType
    <2>1. None \in Payload /\ Csw(0, 0, "PASSED") \in Wrapper
      BY DEF Payload, Csw, Wrapper, Statuses
    <2>2. [i \in 0 .. Buffering - 1 |-> None] \in [Slots -> Payload] BY <2>1 DEF Slots
    <2> QED BY <1>1, <2>1, <2>2 DEF Init, MsdType, MediaStates, States
  <1>6. task \in TaskType /\ task = Outside /\ task.at = "NONE" /\ task.next = "NONE"
    BY DEF Init, Outside, TaskType, Statuses
  <1>7. media \in MediaType /\ media.req = None
    <2>1. [s \in 0 .. Sectors - 1 |-> Data(0, s)] \in [0 .. Sectors - 1 -> Payload] BY <1>2
    <2> QED BY <2>1 DEF Init, MediaType
  <1>8. Typed BY <1>3, <1>4, <1>5, <1>6, <1>7 DEF Init, Typed
  <1>9. Doing = "WAIT_FOR_CBW" /\ rx.irp = "COMPLETED" /\ ~rx.halt /\ ~tx.halt
        /\ host.phase = "idle" /\ Len(host.got) = 0
    BY <1>6 DEF Init, Doing, FreshEndpoint
  <1>10. Calls BY <1>6 DEF Calls
  <1>11. Limited BY <1>1, <1>7, <1>9 DEF Limited
  <1> QED BY <1>8, <1>9, <1>10, <1>11 DEF Base, Receiving, Understood, Counted

LEMMA NextBase ==
    ASSUME Base, [Next]_vars
    PROVE  Base'
  <1>1. CASE Task
    BY <1>1, EnterBase, StallInOutBase, WaitForCbwBase, RescheduleBase, VerifyCommandBase,
       ProcessNonRWCommandBase, ReadSendBase, ReadMoreBase, WriteReceiveBase, WriteMediaBase,
       WriteDoneBase, MediaFailedBase, PostDataStageBase, SendCswBase, StoreBase DEF Task
  <1>2. CASE MediaStep
    <2>1. PICK event \in {"COMPLETE", "ERROR"} : MediaEndsEffect(event)
      BY <1>2, MediaStepIs DEF Base, Limited
    <2> QED BY <2>1, MediaEndsBase
  <1>3. CASE HostStep
    BY <1>3, HostSendsCommandBase, HostSendsDataBase, HostReceivesDataBase,
       HostReceivesStatusBase, HostMeetsHaltBase, HostClearsHaltBase, BotResetBase,
       ConfigureBase DEF HostStep
  <1>4. CASE HostGivesUp BY <1>4, HostGivesUpBase
  <1>5. CASE BusReset BY <1>5, BusResetBase
  <1>6. CASE UNCHANGED vars
    BY <1>6 DEF vars, Base, Typed, Calls, Receiving, Understood, Counted, Limited, Doing
  <1> QED BY <1>1, <1>2, <1>3, <1>4, <1>5, <1>6 DEF Next

(* The types and what they rest on hold in every state, whatever resets    *)
(* come between the steps of a call.                                       *)
THEOREM BaseAlways == Spec => []Base
  <1>1. Init => Base BY InitBase
  <1>2. Base /\ [Next]_vars => Base' BY NextBase
  <1> QED BY <1>1, <1>2, PTL DEF Spec

LEMMA BaseTyped ==
    ASSUME Base
    PROVE  TypeOK
  <1>1. host.phase \in Phases /\ host.sent \in 0 .. Sectors /\ Len(host.got) <= Sectors
    BY DEF Base, Typed, HostType, Limited
  <1>2. ASSUME NEW ep \in {rx, tx}
        PROVE  /\ ep.irp \in {"COMPLETED", "IN_PROGRESS", "ABORTED"}
               /\ ep.halt => ep.stalled
               /\ ep.slot \in 0 .. Buffering - 1
    BY <1>2 DEF Base, Typed, EndpointType, Limited, Slots
  <1>3. {msd.state, task.at, task.next} \subseteq States \cup {"NONE"}
    BY DEF Base, Typed, MsdType, TaskType
  <1>4. /\ msd.media \in {"IDLE", "PENDING", "COMPLETE", "ERROR"}
        /\ {msd.offset, msd.pending, msd.usbSectors, msd.toWrite} \subseteq 0 .. Buffering
    BY DEF Base, Typed, MsdType, MediaStates
  <1>5. media.req # None => media.req.addr + media.req.n <= Sectors BY DEF Base, Limited
  <1> QED BY <1>1, <1>2, <1>3, <1>4, <1>5 DEF TypeOK, Phases

(* The state of every part is one its code can have, the counters of the    *)
(* function stay within the sector buffer and no request leaves the medium  *)
(* (usb_device_msd.c:1042, :1152), whatever resets come between the steps.  *)
THEOREM UsbTypeCorrect == Spec => []TypeOK
  <1>1. Base => TypeOK BY BaseTyped
  <1> QED BY <1>1, BaseAlways, PTL

(***************************************************************************)
(* The bulk-only protocol, while no reset overtakes the function.          *)
(***************************************************************************)

(* The function has taken a command that it has not answered.              *)
Engaged == \/ Doing \in {"PROCESS_CBW", "DATA_IN", "DATA_OUT", "CSW", "SEND_CSW", "STALL_IN_OUT"}
           \/ Doing = "CBW" /\ rx.irp = "COMPLETED"
(* Its data is not settled yet.                                            *)
Early == \/ Doing \in {"PROCESS_CBW", "DATA_IN", "DATA_OUT", "CSW"}
         \/ Doing = "CBW" /\ rx.irp = "COMPLETED"
(* A packet is on its way to the host, or one is awaited from it.          *)
Sending == tx.irp = "IN_PROGRESS"
InFlight == IF Sending THEN 1 ELSE 0
Awaited == IF rx.irp = "IN_PROGRESS" THEN 1 ELSE 0
(* The status of the CSW that is due.                                      *)
Outcome == IF task.next = "CSW" THEN task.status ELSE msd.csw.status
(* The sectors of the command the cursor has passed.                       *)
Part == msd.cbw.addr - host.cmd.addr

-----------------------------------------------------------------------------
(* Control.                                                                *)

(* The endpoints work while the device is configured.                      *)
Attached == /\ configured <=> host.phase # "attach"
            /\ (rx.enabled <=> configured) /\ (tx.enabled <=> configured)
            /\ ~configured => Done(tx) /\ Done(rx) /\ task.at \in {"NONE", "WAIT_FOR_CBW"}
(* A call works in the stored state, and what it tested on entry holds.    *)
CallKept == /\ task.at # "NONE" => msd.state = task.at
            /\ task.at \in {"DATA_IN", "SEND_CSW"} /\ task.next = "NONE" => ReadyToSend
            /\ task.at = "CSW" => Done(tx)
            /\ task.at = "CBW" /\ Early => Done(tx)
(* Between two commands nothing is under way.                              *)
AtRest == configured /\ (host.phase \in {"idle", "resetIn", "resetOut"} \/ host.csw # None) =>
            ~Engaged /\ Done(tx)
(* A CSW ends the command.                                                 *)
Held == host.csw # None => host.phase \in {"idle", "reset"}
(* While data is not settled the host is in its phases.                    *)
Going == configured /\ Early =>
  /\ host.phase \in {"data", "status", "reset"}
  /\ host.cmd.dir = "in" /\ host.phase = "status" => Len(host.got) = host.cmd.want
(* The function works on unstalled endpoints.                              *)
Unstalled ==
  /\ host.phase \notin {"resetIn", "resetOut", "attach"}
  /\ Early \/ Doing = "CBW" \/ task.at = "WAIT_FOR_CBW"
  => ~rx.stalled /\ ~tx.stalled
(* What the host clears is stalled, and what is stalled sends nothing.     *)
Stalls == /\ Sending => ~tx.stalled
          /\ host.phase = "resetOut" => ~tx.stalled
          /\ host.phase = "clearIn" => tx.stalled
          /\ host.phase = "clearOut" => rx.stalled /\ host.cmd.dir = "out"
(* A CSW in flight: the function is back at WAIT_FOR_CBW.                  *)
StatusSent == Sending /\ tx.to = "CSW" =>
  /\ Doing = "WAIT_FOR_CBW" \/ (Doing = "CBW" /\ rx.irp # "COMPLETED")
  /\ \/ host.phase \in {"status", "reset"}
     \/ host.phase \in {"data", "clearOut"} /\ host.cmd.dir = "out"
(* A data packet in flight: the host awaits data.                          *)
DataSent == Sending /\ tx.to # "CSW" =>
  /\ Doing = "DATA_IN" \/ (Doing = "CSW" /\ host.cmd.op = "capacity")
  /\ host.phase \in {"data", "reset"} /\ host.cmd.dir = "in"
(* A host in its data phase is served, or meets a halt.                    *)
DataPhase == host.phase = "data" =>
  Engaged \/ (host.cmd.dir = "out" /\ Doing = "WAIT_FOR_CBW" /\ rx.stalled)

Control == /\ Attached /\ CallKept /\ AtRest /\ Held /\ Going /\ Unstalled /\ Stalls
           /\ StatusSent /\ DataSent /\ DataPhase

-----------------------------------------------------------------------------
(* Commanded.                                                              *)

(* What the kinds of command have in common.                               *)
SaneCmd == host.cmd \in CommandBlock =>
  /\ host.cmd.dir = "in" <=> host.cmd.op \in {"read", "capacity", "garbled"}
  /\ host.cmd.op \notin {"read", "write"} => (host.cmd.want = 0 <=> host.cmd.op = "ready")
(* The function serves the host's command; its block is the cursor.        *)
Matches == configured /\ Engaged =>
  /\ host.csw = None /\ host.phase \in {"data", "status", "clearIn", "clearOut", "reset"}
  /\ host.cmd \in CommandBlock /\ msd.cbw \in CommandBlock
  /\ msd.cbw.tag = host.tag /\ Agree(host.cmd, msd.cbw, {"op", "want", "dir"})
  /\ msd.cbw.addr + msd.cbw.len = host.cmd.addr + host.cmd.len
  /\ msd.cbw.addr >= host.cmd.addr
(* The host relies on no sector that is being written, nor on one that is  *)
(* erased with it.                                                         *)
Uncertain == configured /\ Engaged /\ host.cmd.op = "write" =>
  /\ \A s \in SectorsOf(host.cmd) : host.before[s] = None
  /\ \A s \in ErasedWith(SectorsOf(host.cmd)) : host.disk[s] = None
(* The medium holds what the host would rely on if the write passed now.   *)
Spared == \A s \in 0 .. Sectors - 1 : host.before[s] \in {None, media.store[s]}
(* A command that is being verified, and one that moves no sector.         *)
Verifying == configured /\ Doing = "CBW" /\ rx.irp = "COMPLETED" =>
  /\ msd.cbw.addr = host.cmd.addr /\ Len(host.got) = 0 /\ host.sent = 0 /\ Spared
Processing == configured /\ Doing = "PROCESS_CBW" =>
  /\ host.cmd.op \notin {"read", "write"} /\ msd.total = 0 /\ Len(host.got) = 0 /\ Done(tx)

Commanded == SaneCmd /\ Matches /\ Uncertain /\ Verifying /\ Processing

-----------------------------------------------------------------------------
(* Content.                                                                *)

(* No CSW is among the data.                                               *)
GotPayload == \A i \in 1 .. Len(host.got) : host.got[i] \in Payload

(* What the host got is the read's sectors, in order.                      *)
Delivered == \A i \in 1 .. Len(host.got) : host.got[i] = media.store[host.cmd.addr + i - 1]
(* The buffer holds the sectors of the last part of the read.              *)
Loaded == \A i \in 0 .. msd.offset - 1 :
            msd.buffer[i] = media.store[msd.cbw.addr - msd.offset + i]
(* A read: what the host got, what is in flight and what the buffer still  *)
(* holds are the sectors up to the cursor.                                 *)
Reading == configured /\ Doing = "DATA_IN" =>
  /\ host.cmd.op = "read" /\ host.cmd.want = host.cmd.len
  /\ msd.total + (msd.offset - msd.pending) = Part
  /\ Len(host.got) + InFlight = msd.total
  /\ Delivered
  /\ msd.media = "IDLE" => msd.offset = 0
  /\ msd.media = "PENDING" => media.req # None /\ msd.pending = 0
  /\ msd.media = "COMPLETE" => Loaded
  /\ Sending => msd.media = "COMPLETE" /\ msd.pending > 0 /\ tx.slot = msd.pending - 1

(* The first n sectors of the write are on the medium, and all beside it.  *)
Stored(n) == Spared /\ \A k \in 0 .. n - 1 : media.store[host.cmd.addr + k] = Data(host.tag, k)
(* The first n slots of the buffer hold the write's sectors from the k-th. *)
Filled(n, k) == \A i \in 0 .. n - 1 : msd.buffer[i] = Data(host.tag, k + i)
(* A write: what is on the medium, what the buffer holds and what is       *)
(* awaited are the sectors the host has sent.                              *)
Writing == configured /\ Doing = "DATA_OUT" =>
  /\ host.cmd.op = "write" /\ host.cmd.want = host.cmd.len
  /\ rx.irp = "IN_PROGRESS" => msd.toWrite > 0 /\ rx.slot = msd.offset - 1
  /\ msd.toWrite > 0 => /\ msd.media = "IDLE"
                        /\ host.sent + Awaited = Part + msd.offset
                        /\ Filled(msd.offset - Awaited, Part)
  /\ msd.toWrite = 0 => host.sent = Part
  /\ msd.media \in {"IDLE", "COMPLETE"} => Stored(Part)
  /\ msd.media = "PENDING" => media.req # None

(* The request of the medium is that of the part before the cursor.        *)
Requested == media.req # None =>
  /\ Doing \in {"DATA_IN", "DATA_OUT"} /\ configured /\ msd.media = "PENDING" /\ media.open
  /\ media.req.addr + media.req.n = msd.cbw.addr
  /\ Doing = "DATA_IN" => media.req.op = "read" /\ media.req.n = msd.offset
  /\ Doing = "DATA_OUT" =>
       /\ media.req.op = "write" /\ media.req.addr >= host.cmd.addr
       /\ Stored(media.req.addr - host.cmd.addr)
       /\ Filled(media.req.n, media.req.addr - host.cmd.addr)

(* The command is settled: the outcome is true of it.                      *)
FullRead == host.got = [i \in 1 .. host.cmd.want |-> media.store[host.cmd.addr + i - 1]]
Ending == configured /\ Doing = "CSW" =>
  /\ host.cmd.dir = "in" => Len(host.got) + InFlight = msd.total
  /\ Outcome = "PASSED" /\ host.cmd.op = "read" => FullRead
  /\ Outcome = "PASSED" /\ host.cmd.op = "write" => Stored(host.cmd.len)
  /\ host.phase = "data" /\ host.cmd.dir = "out" => Outcome = "FAILED"

(* The CSW c is true of the host's command.                                *)
Tells(c) == /\ c.type = "csw" /\ c.tag = host.tag /\ host.cmd \in CommandBlock
            /\ host.cmd.dir = "in" => c.residue = host.cmd.want - Len(host.got)
            /\ c.status = "PASSED" /\ host.cmd.op = "read" => FullRead
            /\ c.status = "PASSED" /\ host.cmd.op = "write" => Stored(host.cmd.len)
(* The CSW of the function does.                                           *)
Telling == Tells(msd.csw) /\ (task.next # "NONE" => task.status = msd.csw.status)
Answering == configured /\ Doing = "SEND_CSW" =>
  /\ Telling /\ Done(tx)
  /\ host.phase = "data" /\ host.cmd.dir = "in" => tx.stalled
  /\ host.phase = "data" /\ host.cmd.dir = "out" => rx.stalled
Answered == /\ Sending /\ tx.to = "CSW" => Telling
            /\ host.csw # None => Tells(host.csw)
(* The host relies on nothing the medium does not hold.                    *)
Disk == \A s \in 0 .. Sectors - 1 : host.disk[s] \in {None, media.store[s]}

Content == /\ GotPayload /\ Reading /\ Writing /\ Requested /\ Ending
           /\ Answering /\ Answered /\ Disk

Protocol == Control /\ Commanded /\ Content
Inv == Base /\ (~overtaken => Protocol)


-----------------------------------------------------------------------------
(* What the lemmas about the steps keep needing.                           *)
LEMMA Numbers ==
    ASSUME Base
    PROVE  /\ Buffering \in Nat /\ Sectors \in Nat /\ host.sent \in Nat /\ host.tag \in Nat
           /\ Len(host.got) \in Nat /\ msd.total \in Nat /\ msd.offset \in Nat
           /\ msd.pending \in Nat /\ msd.usbSectors \in Nat /\ msd.toWrite \in Nat
  BY UsbAssumption DEF Base, Typed, HostType, MsdType

LEMMA CommandNumbers ==
    ASSUME NEW c \in CommandBlock
    PROVE  /\ c.addr \in Nat /\ c.len \in Nat /\ c.want \in Nat /\ c.tag \in Nat
           /\ c.dir \in {"in", "out"} /\ c.op \in Ops /\ c # None
  BY UsbAssumption DEF CommandBlock, None

(* What holds while the function serves a command.                         *)
Serving ==
  /\ configured /\ Engaged /\ host.csw = None /\ (Sending => tx.to # "CSW")
  /\ host.cmd \in CommandBlock /\ msd.cbw \in CommandBlock /\ host.cmd.dir \in {"in", "out"}
  /\ {host.cmd.addr, host.cmd.len, host.cmd.want} \subseteq Nat
  /\ {msd.cbw.addr, msd.cbw.len} \subseteq Nat
  /\ msd.cbw.op = host.cmd.op /\ msd.cbw.want = host.cmd.want /\ msd.cbw.dir = host.cmd.dir
  /\ msd.cbw.tag = host.tag
  /\ msd.cbw.addr + msd.cbw.len = host.cmd.addr + host.cmd.len
  /\ msd.cbw.addr >= host.cmd.addr

LEMMA Serves ==
    ASSUME Base, Protocol, configured, Engaged
    PROVE  Serving
  <1> USE DEF Protocol, Control, Commanded, Content
  <1>1. /\ host.csw = None /\ host.cmd \in CommandBlock /\ msd.cbw \in CommandBlock
        /\ msd.cbw.op = host.cmd.op /\ msd.cbw.want = host.cmd.want /\ msd.cbw.dir = host.cmd.dir
        /\ msd.cbw.tag = host.tag
        /\ msd.cbw.addr + msd.cbw.len = host.cmd.addr + host.cmd.len
        /\ msd.cbw.addr >= host.cmd.addr
    BY DEF Matches, Agree
  <1>2. Sending => tx.to # "CSW" BY DEF StatusSent, Engaged
  <1> QED BY <1>1, <1>2, CommandNumbers DEF Serving

(* A read of which the host got as many sectors as it wanted.              *)
LEMMA WholeRead ==
    ASSUME Base, Delivered, Len(host.got) = host.cmd.want
    PROVE  FullRead
  <1>1. host.got \in Seq(Packet) BY DEF Base, Typed, HostType
  <1>2. host.got = [i \in 1 .. Len(host.got) |-> host.got[i]] BY <1>1
  <1> QED BY <1>2 DEF Delivered, FullRead

(* The arithmetic of the cursor.                                           *)
LEMMA OneSent ==
    ASSUME NEW t \in Nat, NEW o \in Nat, NEW p \in Nat
    PROVE  (t + 1) + (o - (p + 1)) = t + (o - p)
  OBVIOUS

LEMMA OneReceived ==
    ASSUME NEW p \in Nat, NEW o \in Nat, NEW s \in Nat, s + 1 = p + o
    PROVE  p + (o - 1) = s
  OBVIOUS

LEMMA NextSector ==
    ASSUME NEW a \in Nat, NEW c \in Nat, NEW o \in Nat, NEW p \in Nat, NEW g \in Nat,
           (g + 1) + (o - p) = c - a
    PROVE  c - o + (p - 1) = a + (g + 1) - 1
  OBVIOUS

LEMMA LastOf ==
    ASSUME NEW p \in Nat, NEW o \in Nat, p > 0, p <= o
    PROVE  p - 1 \in 0 .. o - 1
  OBVIOUS

LEMMA Within ==
    ASSUME NEW a \in Nat, NEW n \in Nat, NEW s \in a .. a + n - 1
    PROVE  s - a \in 0 .. n - 1 /\ a + (s - a) = s
  OBVIOUS

(* A part r, n of the command a, l ends at the cursor c.                   *)
LEMMA PartOf ==
    ASSUME NEW a \in Nat, NEW l \in Nat, NEW c \in Nat, NEW b \in Nat, NEW r \in Nat,
           NEW n \in Nat, c + b = a + l, r + n = c, r >= a
    PROVE  r .. r + n - 1 \subseteq a .. a + l - 1
  OBVIOUS

LEMMA Passed ==
    ASSUME NEW a \in Nat, NEW c \in Nat, NEW r \in Nat, NEW n \in Nat, NEW S \in Nat,
           c >= a, r + n = c, c <= S, NEW k \in 0 .. c - a - 1
    PROVE  /\ a + k \in 0 .. S - 1 /\ a + k \in Int /\ a + k - a = k /\ a + k < r + n
  OBVIOUS

-----------------------------------------------------------------------------
(* Protocol survives every step: one lemma for each.  What the step does   *)
(* comes first, then what that means for the command it serves, then one   *)
(* step for each part of the invariant.                                    *)

LEMMA EnterProtocol ==
    ASSUME Base, Protocol, Enter
    PROVE  Protocol'
  <1> USE DEF Protocol, Control, Commanded, Content
  <1>1. /\ Base' /\ EnterEffect
        /\ Doing = msd.state /\ Doing' = msd.state
    BY EnterBase
  <1>2. /\ host' = host /\ configured' = configured /\ rx' = rx /\ tx' = tx /\ msd' = msd
        /\ media' = media /\ configured /\ task.next = "NONE" /\ task'.at = msd.state
        /\ task'.next = "NONE"
    BY <1>1 DEF EnterEffect, Frame, TaskEnds, InTask, Base, Calls, Outside
  <1>3. /\ msd.state \in {"DATA_IN", "SEND_CSW"} => ReadyToSend
        /\ msd.state = "CSW" => Done(tx)
        /\ msd.state = "WAIT_FOR_CBW" => ~rx.stalled /\ ~tx.stalled
    BY <1>1 DEF EnterEffect, MayEnter
  <1>4. Control'
    <2>1. Attached' BY <1>1, <1>2 DEF Attached, Done
    <2>2. CallKept'
      BY <1>1, <1>2, <1>3 DEF CallKept, ReadyToSend, Done, Early, Sending, StatusSent, DataSent
    <2>3. AtRest' BY <1>1, <1>2 DEF AtRest, Engaged, Done
    <2>4. Held' BY <1>1, <1>2 DEF Held
    <2>5. Going' BY <1>1, <1>2 DEF Going, Early
    <2>6. Unstalled' BY <1>1, <1>2, <1>3 DEF Unstalled, Early
    <2>7. Stalls' BY <1>1, <1>2 DEF Stalls, Sending
    <2>8. StatusSent' BY <1>1, <1>2 DEF StatusSent, Sending
    <2>9. DataSent' BY <1>1, <1>2 DEF DataSent, Sending
    <2>10. DataPhase' BY <1>1, <1>2 DEF DataPhase, Engaged
    <2> QED BY <2>1, <2>2, <2>3, <2>4, <2>5, <2>6, <2>7, <2>8, <2>9, <2>10
  <1>5. Commanded'
    <2>1. SaneCmd' BY <1>1, <1>2 DEF SaneCmd
    <2>2. Matches' BY <1>1, <1>2 DEF Matches, Engaged, Agree
    <2>3. Uncertain' BY <1>1, <1>2 DEF Uncertain, Engaged, SectorsOf, ErasedWith
    <2>4. Verifying' BY <1>1, <1>2 DEF Verifying, Spared
    <2>5. Processing' BY <1>1, <1>2 DEF Processing, Done
    <2> QED BY <2>1, <2>2, <2>3, <2>4, <2>5
  <1>6. Content'
    <2>1. GotPayload' BY <1>1, <1>2 DEF GotPayload
    <2>2. Reading' BY <1>1, <1>2 DEF Reading, Delivered, Loaded, Part, InFlight, Sending
    <2>3. Writing' BY <1>1, <1>2 DEF Writing, Stored, Spared, Filled, Part, Awaited
    <2>4. Requested' BY <1>1, <1>2 DEF Requested, Stored, Spared, Filled
    <2>5. Ending' BY <1>1, <1>2 DEF Ending, InFlight, Sending, Outcome, FullRead, Stored, Spared
    <2>6. Answering' BY <1>1, <1>2 DEF Answering, Done, Telling, Tells, FullRead, Stored, Spared
    <2>7. Answered' BY <1>1, <1>2 DEF Answered, Sending, Telling, Tells, FullRead, Stored, Spared
    <2>8. Disk' BY <1>1, <1>2 DEF Disk
    <2> QED BY <2>1, <2>2, <2>3, <2>4, <2>5, <2>6, <2>7, <2>8
  <1> QED BY <1>4, <1>5, <1>6

LEMMA StallInOutProtocol ==
    ASSUME Base, Protocol, StallInOut
    PROVE  Protocol'
  <1> USE DEF Protocol, Control, Commanded, Content
  <1>1. /\ Base' /\ StallInOutEffect
        /\ Doing = "STALL_IN_OUT" /\ Doing' = msd.state
    BY StallInOutBase
  <1>2. /\ host' = host /\ configured' = configured /\ msd' = msd /\ media' = media
        /\ task'.at = "NONE" /\ task'.next = "NONE" /\ msd.state = "STALL_IN_OUT"
        /\ rx'.stalled /\ tx'.stalled
        /\ rx'.irp # "IN_PROGRESS" /\ tx'.irp # "IN_PROGRESS" /\ rx'.enabled = rx.enabled
        /\ tx'.enabled = tx.enabled
    BY <1>1 DEF StallInOutEffect, Frame, TaskEnds, InTask, Stalled, Aborted, CallKept
  <1>3. configured
    BY <1>1 DEF Attached, StallInOutEffect, InTask
  <1>4. Control'
    <2>1. Attached' BY <1>1, <1>2 DEF Attached, Done
    <2>2. CallKept' BY <1>1, <1>2 DEF CallKept, ReadyToSend, Done, Early, Sending
    <2>3. AtRest' BY <1>1, <1>2 DEF AtRest, Engaged, Done
    <2>4. Held' BY <1>1, <1>2 DEF Held
    <2>5. Going' BY <1>1, <1>2 DEF Going, Early
    <2>6. Unstalled' BY <1>1, <1>2 DEF Unstalled, Early
    <2>7. Stalls' BY <1>1, <1>2, <1>3 DEF Stalls, Sending, AtRest, Engaged
    <2>8. StatusSent' BY <1>1, <1>2 DEF StatusSent, Sending
    <2>9. DataSent' BY <1>1, <1>2 DEF DataSent, Sending
    <2>10. DataPhase' BY <1>1, <1>2 DEF DataPhase, Engaged
    <2> QED BY <2>1, <2>2, <2>3, <2>4, <2>5, <2>6, <2>7, <2>8, <2>9, <2>10
  <1>5. Commanded'
    <2>1. SaneCmd' BY <1>1, <1>2 DEF SaneCmd
    <2>2. Matches' BY <1>1, <1>2 DEF Matches, Engaged, Agree
    <2>3. Uncertain' BY <1>1, <1>2 DEF Uncertain, Engaged, SectorsOf, ErasedWith
    <2>4. Verifying' BY <1>1, <1>2 DEF Verifying, Spared
    <2>5. Processing' BY <1>1, <1>2 DEF Processing, Done
    <2> QED BY <2>1, <2>2, <2>3, <2>4, <2>5
  <1>6. Content'
    <2>1. GotPayload' BY <1>1, <1>2 DEF GotPayload
    <2>2. Reading' BY <1>1, <1>2 DEF Reading, Delivered, Loaded, Part, InFlight, Sending
    <2>3. Writing' BY <1>1, <1>2 DEF Writing, Stored, Spared, Filled, Part, Awaited
    <2>4. Requested' BY <1>1, <1>2 DEF Requested, Stored, Spared, Filled
    <2>5. Ending' BY <1>1, <1>2 DEF Ending, InFlight, Sending, Outcome, FullRead, Stored, Spared
    <2>6. Answering' BY <1>1, <1>2 DEF Answering, Done, Telling, Tells, FullRead, Stored, Spared
    <2>7. Answered' BY <1>1, <1>2 DEF Answered, Sending, Telling, Tells, FullRead, Stored, Spared
    <2>8. Disk' BY <1>1, <1>2 DEF Disk
    <2> QED BY <2>1, <2>2, <2>3, <2>4, <2>5, <2>6, <2>7, <2>8
  <1> QED BY <1>4, <1>5, <1>6

LEMMA WaitForCbwProtocol ==
    ASSUME Base, Protocol, WaitForCbw
    PROVE  Protocol'
  <1> USE DEF Protocol, Control, Commanded, Content
  <1>1. /\ Base' /\ WaitForCbwEffect
        /\ Doing = "WAIT_FOR_CBW" /\ Doing' = "CBW"
    BY WaitForCbwBase
  <1>2. /\ host' = host /\ configured' = configured /\ tx' = tx /\ msd' = msd
        /\ media' = media /\ task'.at = "WAIT_FOR_CBW" /\ task'.next = "CBW"
        /\ task.at = "WAIT_FOR_CBW" /\ task.next = "NONE" /\ task'.status = msd.csw.status
        /\ rx'.stalled = rx.stalled /\ rx'.enabled = rx.enabled /\ rx.irp # "IN_PROGRESS"
        /\ rx'.irp = (IF rx.enabled THEN "IN_PROGRESS" ELSE rx.irp)
    BY <1>1 DEF WaitForCbwEffect, Frame, TaskEnds, InTask, Submitted, Base, Receiving
  <1>3. /\ configured => rx'.irp = "IN_PROGRESS"
        /\ Sending => configured
    BY <1>2 DEF Attached, Done, Sending
  <1>4. Control'
    <2>1. Attached' BY <1>1, <1>2 DEF Attached, Done
    <2>2. CallKept' BY <1>1, <1>2 DEF CallKept, ReadyToSend, Done, Early, Sending
    <2>3. AtRest' BY <1>1, <1>2, <1>3 DEF AtRest, Engaged, Done
    <2>4. Held' BY <1>1, <1>2 DEF Held
    <2>5. Going' BY <1>1, <1>2, <1>3 DEF Going, Early
    <2>6. Unstalled' BY <1>1, <1>2 DEF Unstalled, Early
    <2>7. Stalls' BY <1>1, <1>2 DEF Stalls, Sending
    <2>8. StatusSent' BY <1>1, <1>2, <1>3 DEF StatusSent, Sending
    <2>9. DataSent' BY <1>1, <1>2 DEF DataSent, Sending
    <2>10. DataPhase' BY <1>1, <1>2, <1>3 DEF DataPhase, Engaged, Unstalled
    <2> QED BY <2>1, <2>2, <2>3, <2>4, <2>5, <2>6, <2>7, <2>8, <2>9, <2>10
  <1>5. Commanded'
    <2>1. SaneCmd' BY <1>1, <1>2 DEF SaneCmd
    <2>2. Matches' BY <1>1, <1>2, <1>3 DEF Matches, Engaged, Agree
    <2>3. Uncertain' BY <1>1, <1>2, <1>3 DEF Uncertain, Engaged, SectorsOf, ErasedWith
    <2>4. Verifying' BY <1>1, <1>2, <1>3 DEF Verifying, Spared
    <2>5. Processing' BY <1>1, <1>2 DEF Processing, Done
    <2> QED BY <2>1, <2>2, <2>3, <2>4, <2>5
  <1>6. Content'
    <2>1. GotPayload' BY <1>1, <1>2 DEF GotPayload
    <2>2. Reading' BY <1>1, <1>2 DEF Reading, Delivered, Loaded, Part, InFlight, Sending
    <2>3. Writing' BY <1>1, <1>2 DEF Writing, Stored, Spared, Filled, Part, Awaited
    <2>4. Requested' BY <1>1, <1>2 DEF Requested, Stored, Spared, Filled
    <2>5. Ending' BY <1>1, <1>2 DEF Ending, InFlight, Sending, Outcome, FullRead, Stored, Spared
    <2>6. Answering' BY <1>1, <1>2 DEF Answering, Done, Telling, Tells, FullRead, Stored, Spared
    <2>7. Answered' BY <1>1, <1>2 DEF Answered, Sending, Telling, Tells, FullRead, Stored, Spared
    <2>8. Disk' BY <1>1, <1>2 DEF Disk
    <2> QED BY <2>1, <2>2, <2>3, <2>4, <2>5, <2>6, <2>7, <2>8
  <1> QED BY <1>4, <1>5, <1>6

LEMMA RescheduleProtocol ==
    ASSUME Base, Protocol, Reschedule
    PROVE  Protocol'
  <1> USE DEF Protocol, Control, Commanded, Content
  <1>1. /\ Base' /\ RescheduleEffect
        /\ Doing = "CBW" /\ Doing' = "WAIT_FOR_CBW"
    BY RescheduleBase
  <1>2. /\ host' = host /\ configured' = configured /\ rx' = rx /\ tx' = tx /\ msd' = msd
        /\ media' = media /\ task.at = "CBW" /\ task'.at = "CBW"
        /\ task'.next = "WAIT_FOR_CBW" /\ rx.irp # "COMPLETED"
        /\ task'.status = msd.csw.status
    BY <1>1 DEF RescheduleEffect, Frame, TaskEnds, InTask
  <1>3. Control'
    <2>1. Attached' BY <1>1, <1>2 DEF Attached, Done
    <2>2. CallKept' BY <1>1, <1>2 DEF CallKept, ReadyToSend, Done, Early, Sending
    <2>3. AtRest' BY <1>1, <1>2 DEF AtRest, Engaged, Done
    <2>4. Held' BY <1>1, <1>2 DEF Held
    <2>5. Going' BY <1>1, <1>2 DEF Going, Early
    <2>6. Unstalled' BY <1>1, <1>2 DEF Unstalled, Early
    <2>7. Stalls' BY <1>1, <1>2 DEF Stalls, Sending
    <2>8. StatusSent' BY <1>1, <1>2 DEF StatusSent, Sending
    <2>9. DataSent' BY <1>1, <1>2 DEF DataSent, Sending
    <2>10. DataPhase' BY <1>1, <1>2 DEF DataPhase, Engaged
    <2> QED BY <2>1, <2>2, <2>3, <2>4, <2>5, <2>6, <2>7, <2>8, <2>9, <2>10
  <1>4. Commanded'
    <2>1. SaneCmd' BY <1>1, <1>2 DEF SaneCmd
    <2>2. Matches' BY <1>1, <1>2 DEF Matches, Engaged, Agree
    <2>3. Uncertain' BY <1>1, <1>2 DEF Uncertain, Engaged, SectorsOf, ErasedWith
    <2>4. Verifying' BY <1>1, <1>2 DEF Verifying, Spared
    <2>5. Processing' BY <1>1, <1>2 DEF Processing, Done
    <2> QED BY <2>1, <2>2, <2>3, <2>4, <2>5
  <1>5. Content'
    <2>1. GotPayload' BY <1>1, <1>2 DEF GotPayload
    <2>2. Reading' BY <1>1, <1>2 DEF Reading, Delivered, Loaded, Part, InFlight, Sending
    <2>3. Writing' BY <1>1, <1>2 DEF Writing, Stored, Spared, Filled, Part, Awaited
    <2>4. Requested' BY <1>1, <1>2 DEF Requested, Stored, Spared, Filled
    <2>5. Ending' BY <1>1, <1>2 DEF Ending, InFlight, Sending, Outcome, FullRead, Stored, Spared
    <2>6. Answering' BY <1>1, <1>2 DEF Answering, Done, Telling, Tells, FullRead, Stored, Spared
    <2>7. Answered' BY <1>1, <1>2 DEF Answered, Sending, Telling, Tells, FullRead, Stored, Spared
    <2>8. Disk' BY <1>1, <1>2 DEF Disk
    <2> QED BY <2>1, <2>2, <2>3, <2>4, <2>5, <2>6, <2>7, <2>8
  <1> QED BY <1>3, <1>4, <1>5

LEMMA VerifyCommandProtocol ==
    ASSUME Base, Protocol, VerifyCommand
    PROVE  Protocol'
  <1> USE DEF Protocol, Control, Commanded, Content
  <1>1. /\ Base' /\ VerifyCommandEffect
        /\ Doing = "CBW" /\ Doing' = task'.next
    BY VerifyCommandBase
  <1>2. /\ host' = host /\ configured' = configured /\ rx' = rx /\ tx' = tx /\ task.at = "CBW"
        /\ task'.at = "CBW" /\ rx.irp = "COMPLETED" /\ media'.store = media.store
        /\ media'.req = media.req /\ msd'.media = "IDLE" /\ msd'.total = 0 /\ msd'.offset = 0
        /\ msd'.pending = 0 /\ msd'.toWrite = 0 /\ msd'.state = msd.state
        /\ msd'.cbw = msd.cbw /\ msd'.csw = msd.csw /\ msd'.buffer = msd.buffer
        /\ task'.next \in {"STALL_IN_OUT", "PROCESS_CBW", "CSW", "DATA_IN", "DATA_OUT"}
    BY <1>1 DEF VerifyCommandEffect, Frame, TaskEnds, InTask, SameMsd, Agree, MsdFields,
       Verified
  <1>3. configured /\ Engaged
    BY <1>1, <1>2 DEF Attached, Engaged
  <1>4. Serving
    BY <1>3, Serves
  <1>5. Done(tx)
    BY <1>1, <1>2 DEF StatusSent, DataSent, Sending, Done
  <1>6. /\ task'.next = "PROCESS_CBW" => host.cmd.op \notin {"read", "write"}
        /\ task'.next = "CSW" /\ task'.status = "PASSED" =>
             host.cmd.want = 0 /\ msd.cbw.want = msd.cbw.len
        /\ task'.next = "DATA_IN" => host.cmd.op = "read" /\ msd.cbw.want = msd.cbw.len
        /\ task'.next = "DATA_OUT" => host.cmd.op = "write" /\ msd.cbw.want = msd.cbw.len
    BY <1>1, <1>4 DEF VerifyCommandEffect, Serving
  <1>7. /\ msd.cbw.addr = host.cmd.addr /\ msd.cbw.len = host.cmd.len
        /\ Len(host.got) = 0 /\ host.sent = 0 /\ Spared
    BY <1>1, <1>2, <1>4 DEF Verifying, Serving
  <1>8. Control'
    <2>1. Attached' BY <1>1, <1>2 DEF Attached, Done
    <2>2. CallKept' BY <1>1, <1>2 DEF CallKept, ReadyToSend, Done, Early, Sending
    <2>3. AtRest' BY <1>1, <1>2 DEF AtRest, Engaged, Done
    <2>4. Held' BY <1>1, <1>2 DEF Held
    <2>5. Going' BY <1>1, <1>2 DEF Going, Early
    <2>6. Unstalled' BY <1>1, <1>2 DEF Unstalled, Early
    <2>7. Stalls' BY <1>1, <1>2 DEF Stalls, Sending
    <2>8. StatusSent' BY <1>1, <1>2 DEF StatusSent, Sending
    <2>9. DataSent' BY <1>1, <1>2 DEF DataSent, Sending
    <2>10. DataPhase' BY <1>1, <1>2 DEF DataPhase, Engaged
    <2> QED BY <2>1, <2>2, <2>3, <2>4, <2>5, <2>6, <2>7, <2>8, <2>9, <2>10
  <1>9. Commanded'
    <2>1. SaneCmd' BY <1>1, <1>2 DEF SaneCmd
    <2>2. Matches' BY <1>1, <1>2 DEF Matches, Engaged, Agree
    <2>3. Uncertain' BY <1>1, <1>2 DEF Uncertain, Engaged, SectorsOf, ErasedWith
    <2>4. Verifying' BY <1>1, <1>2 DEF Verifying, Spared
    <2>5. Processing'
      BY <1>1, <1>2, <1>4, <1>5, <1>6, <1>7 DEF Processing, Done, Serving, Sending
    <2> QED BY <2>1, <2>2, <2>3, <2>4, <2>5
  <1>10. Content'
    <2>1. GotPayload' BY <1>1, <1>2 DEF GotPayload
    <2>2. Reading'
      BY <1>1, <1>2, <1>4, <1>5, <1>6, <1>7 DEF Reading, Delivered, Loaded, Part, InFlight,
         Sending, Serving, Done
    <2>3. Writing'
      BY <1>1, <1>2, <1>4, <1>5, <1>6, <1>7 DEF Writing, Stored, Spared, Filled, Part, Awaited,
         Serving, Done, Sending
    <2>4. Requested' BY <1>1, <1>2 DEF Requested, Stored, Spared, Filled
    <2>5. ASSUME task'.next = "CSW" PROVE Ending'
      <3>1. host.cmd.dir = "in" => Len(host'.got) + InFlight' = msd'.total
        BY <1>2, <1>5, <1>7 DEF InFlight, Sending, Done
      <3>2. host.phase = "data" => host.cmd.want # 0 BY <1>4, Numbers DEF Base, Limited, Serving
      <3>3. host.phase = "data" => task'.status = "FAILED"
        <4>1. task'.status \in {"PASSED", "FAILED"} BY <1>1 DEF Base, Typed, TaskType, Statuses
        <4> QED BY <1>6, <2>5, <3>2, <4>1
      <3>4. ASSUME task'.status = "PASSED"
            PROVE  FullRead /\ Stored(host.cmd.len) /\ host.cmd.len = 0
        <4>1. host.cmd.want = 0 /\ host.cmd.len = 0 BY <1>4, <1>6, <1>7, <2>5, <3>4 DEF Serving
        <4>2. Delivered BY <1>7 DEF Delivered
        <4>3. FullRead BY <1>7, <4>1, <4>2, WholeRead
        <4>4. Stored(host.cmd.len) BY <1>7, <4>1 DEF Stored
        <4> QED BY <4>1, <4>3, <4>4
      <3>5. task'.status = "PASSED" => FullRead' /\ Stored(host.cmd.len)'
        BY <1>2, <3>4 DEF FullRead, Stored, Spared
      <3> QED BY <1>2, <2>5, <3>1, <3>3, <3>5 DEF Ending, Outcome
    <2>6. Answering' BY <1>1, <1>2 DEF Answering, Done, Telling, Tells, FullRead, Stored, Spared
    <2>7. Answered' BY <1>1, <1>2, <1>4 DEF Answered, Sending, Serving
    <2>8. Disk' BY <1>1, <1>2 DEF Disk
    <2>9. task'.next # "CSW" => Ending' BY <1>1 DEF Ending
    <2> QED BY <2>1, <2>2, <2>3, <2>4, <2>5, <2>6, <2>7, <2>8, <2>9
  <1> QED BY <1>8, <1>9, <1>10

LEMMA ProcessNonRWCommandProtocol ==
    ASSUME Base, Protocol, ProcessNonRWCommand
    PROVE  Protocol'
  <1> USE DEF Protocol, Control, Commanded, Content
  <1>1. /\ Base' /\ ProcessNonRWCommandEffect
        /\ Doing = "PROCESS_CBW" /\ Doing' = "CSW"
    BY ProcessNonRWCommandBase
  <1>2. /\ host' = host /\ configured' = configured /\ rx' = rx /\ media' = media
        /\ task.at = "PROCESS_CBW" /\ task'.at = "PROCESS_CBW" /\ task'.next = "CSW"
        /\ msd'.state = msd.state /\ msd'.cbw = msd.cbw /\ msd'.csw = msd.csw
        /\ msd'.media = msd.media /\ msd'.handle = msd.handle /\ msd'.offset = msd.offset
        /\ msd'.pending = msd.pending /\ msd'.usbSectors = msd.usbSectors
        /\ msd'.toWrite = msd.toWrite /\ tx'.stalled = tx.stalled /\ tx'.enabled = tx.enabled
    BY <1>1 DEF ProcessNonRWCommandEffect, Frame, TaskEnds, InTask, SameMsd, Agree, MsdFields,
       Submitted
  <1>3. configured /\ Engaged
    BY <1>1, <1>2 DEF Attached, Engaged
  <1>4. Serving
    BY <1>3, Serves
  <1>5. host.cmd.op \notin {"read", "write"} /\ msd.total = 0 /\ Len(host.got) = 0 /\ Done(tx)
    BY <1>1, <1>3 DEF Processing
  <1>6. \/ /\ tx'.irp = "IN_PROGRESS" /\ tx'.to = "BUFFER" /\ msd'.total = 1
           /\ host.cmd.op = "capacity" /\ host.cmd.dir = "in" /\ task'.status = "PASSED"
        \/ tx' = tx /\ msd' = msd /\ (task'.status = "PASSED" => host.cmd.op = "ready")
    BY <1>1, <1>4, <1>5 DEF ProcessNonRWCommandEffect, Submitted, Attached, Serving, Done
  <1>7. /\ ~tx.stalled /\ (host.cmd.dir = "in" => host.phase \in {"data", "reset"})
        /\ host.cmd.op = "ready" => host.phase # "data"
    <2>1. Early /\ host.phase \in {"data", "status", "reset"}
      BY <1>1, <1>4 DEF Early, Going, Serving
    <2>2. ~tx.stalled BY <2>1 DEF Unstalled
    <2>3. host.cmd.want = 0 <=> host.cmd.op = "ready" BY <1>4, <1>5 DEF SaneCmd, Serving
    <2>4. host.cmd.dir = "in" => host.cmd.want # 0 BY <1>4, <2>3 DEF SaneCmd, Serving
    <2>5. host.cmd.dir = "in" => host.phase # "status"
      BY <1>4, <1>5, <2>1, <2>4 DEF Going, Serving
    <2>6. host.phase = "data" => host.cmd.want # 0 BY <1>4, Numbers DEF Base, Limited, Serving
    <2> QED BY <2>1, <2>2, <2>3, <2>5, <2>6
  <1>8. Control'
    <2>1. Attached' BY <1>1, <1>2 DEF Attached, Done
    <2>2. CallKept' BY <1>1, <1>2 DEF CallKept, ReadyToSend, Done, Early, Sending
    <2>3. AtRest' BY <1>1, <1>2 DEF AtRest, Engaged, Done
    <2>4. Held' BY <1>1, <1>2 DEF Held
    <2>5. Going' BY <1>1, <1>2 DEF Going, Early
    <2>6. Unstalled' BY <1>1, <1>2 DEF Unstalled, Early
    <2>7. Stalls' BY <1>1, <1>2, <1>5, <1>6, <1>7 DEF Stalls, Sending, Done
    <2>8. StatusSent' BY <1>1, <1>2, <1>5, <1>6, <1>7 DEF StatusSent, Sending, Done
    <2>9. DataSent' BY <1>1, <1>2, <1>5, <1>6, <1>7 DEF DataSent, Sending, Done
    <2>10. DataPhase' BY <1>1, <1>2 DEF DataPhase, Engaged
    <2> QED BY <2>1, <2>2, <2>3, <2>4, <2>5, <2>6, <2>7, <2>8, <2>9, <2>10
  <1>9. Commanded'
    <2>1. SaneCmd' BY <1>1, <1>2 DEF SaneCmd
    <2>2. Matches' BY <1>1, <1>2 DEF Matches, Engaged, Agree
    <2>3. Uncertain' BY <1>1, <1>2 DEF Uncertain, Engaged, SectorsOf, ErasedWith
    <2>4. Verifying' BY <1>1, <1>2 DEF Verifying, Spared
    <2>5. Processing' BY <1>1, <1>2 DEF Processing, Done
    <2> QED BY <2>1, <2>2, <2>3, <2>4, <2>5
  <1>10. Content'
    <2>1. GotPayload' BY <1>1, <1>2 DEF GotPayload
    <2>2. Reading' BY <1>1, <1>2 DEF Reading, Delivered, Loaded, Part, InFlight, Sending
    <2>3. Writing' BY <1>1, <1>2 DEF Writing, Stored, Spared, Filled, Part, Awaited
    <2>4. Requested' BY <1>1, <1>2 DEF Requested, Stored, Spared, Filled
    <2>5. Ending'
      <3>1. host.cmd.dir = "in" => Len(host'.got) + InFlight' = msd'.total
        BY <1>2, <1>5, <1>6 DEF InFlight, Sending, Done
      <3>2. host'.phase = "data" /\ host'.cmd.dir = "out" => task'.status = "FAILED"
        <4>1. task'.status \in {"PASSED", "FAILED"} BY <1>1 DEF Base, Typed, TaskType, Statuses
        <4> QED BY <1>2, <1>6, <1>7, <4>1
      <3> QED BY <1>2, <1>5, <3>1, <3>2 DEF Ending, Outcome
    <2>6. Answering' BY <1>1, <1>2 DEF Answering, Done, Telling, Tells, FullRead, Stored, Spared
    <2>7. Answered' BY <1>1, <1>2, <1>4, <1>5, <1>6 DEF Answered, Sending, Serving, Done
    <2>8. Disk' BY <1>1, <1>2 DEF Disk
    <2> QED BY <2>1, <2>2, <2>3, <2>4, <2>5, <2>6, <2>7, <2>8
  <1> QED BY <1>8, <1>9, <1>10

LEMMA ReadSendProtocol ==
    ASSUME Base, Protocol, ReadSend
    PROVE  Protocol'
  <1> USE DEF Protocol, Control, Commanded, Content
  <1>1. /\ Base' /\ ReadSendEffect
        /\ Doing = "DATA_IN" /\ Doing' = "DATA_IN"
    BY ReadSendBase
  <1>2. /\ host' = host /\ configured' = configured /\ rx' = rx /\ media' = media
        /\ task.at = "DATA_IN" /\ task.next = "NONE" /\ task'.at = "DATA_IN"
        /\ task'.next = "DATA_IN" /\ msd.media = "COMPLETE" /\ msd.pending < msd.offset
        /\ msd'.total = msd.total + 1 /\ msd'.pending = msd.pending + 1
        /\ msd'.state = msd.state /\ msd'.cbw = msd.cbw /\ msd'.csw = msd.csw
        /\ msd'.media = msd.media /\ msd'.handle = msd.handle /\ msd'.offset = msd.offset
        /\ msd'.usbSectors = msd.usbSectors /\ msd'.toWrite = msd.toWrite
        /\ msd'.buffer = msd.buffer /\ tx'.stalled = tx.stalled /\ tx'.enabled = tx.enabled
    BY <1>1 DEF ReadSendEffect, Frame, TaskEnds, InTask, SameMsd, Agree, MsdFields, Submitted
  <1>3. configured /\ Engaged
    BY <1>1, <1>2 DEF Attached, Engaged
  <1>4. Serving
    BY <1>3, Serves
  <1>5. /\ Done(tx) /\ ~tx.stalled /\ tx'.irp = "IN_PROGRESS" /\ tx'.to = "BUFFER"
        /\ tx'.slot = msd.pending
    BY <1>1, <1>2, <1>4 DEF CallKept, ReadyToSend, ReadSendEffect, Submitted, Attached, Serving,
       Done
  <1>6. /\ host.cmd.op = "read" /\ host.cmd.want = host.cmd.len
        /\ msd.total + (msd.offset - msd.pending) = Part /\ Len(host.got) = msd.total
    BY <1>1, <1>3, <1>5, Numbers DEF Reading, InFlight, Sending, Done
  <1>7. Part <= host.cmd.len /\ Part \in Nat /\ Len(host.got) < host.cmd.want
    <2>1. Part \in Nat /\ Part <= host.cmd.len BY <1>4 DEF Serving, Part
    <2>2. msd.total < Part BY <1>2, <1>6, <2>1, Numbers
    <2> QED BY <1>4, <1>6, <2>1, <2>2, Numbers DEF Serving
  <1>8. host.cmd.dir = "in" /\ host.phase \in {"data", "reset"}
    BY <1>1, <1>4, <1>6, <1>7 DEF Going, Early, SaneCmd, Serving
  <1>9. Control'
    <2>1. Attached' BY <1>1, <1>2 DEF Attached, Done
    <2>2. CallKept' BY <1>1, <1>2 DEF CallKept, ReadyToSend, Done, Early, Sending
    <2>3. AtRest' BY <1>1, <1>2 DEF AtRest, Engaged, Done
    <2>4. Held' BY <1>1, <1>2 DEF Held
    <2>5. Going' BY <1>1, <1>2 DEF Going, Early
    <2>6. Unstalled' BY <1>1, <1>2 DEF Unstalled, Early
    <2>7. Stalls' BY <1>1, <1>2, <1>5, <1>8 DEF Stalls, Sending
    <2>8. StatusSent' BY <1>1, <1>2, <1>5, <1>8 DEF StatusSent, Sending
    <2>9. DataSent' BY <1>1, <1>2, <1>5, <1>8 DEF DataSent, Sending
    <2>10. DataPhase' BY <1>1, <1>2 DEF DataPhase, Engaged
    <2> QED BY <2>1, <2>2, <2>3, <2>4, <2>5, <2>6, <2>7, <2>8, <2>9, <2>10
  <1>10. Commanded'
    <2>1. SaneCmd' BY <1>1, <1>2 DEF SaneCmd
    <2>2. Matches' BY <1>1, <1>2 DEF Matches, Engaged, Agree
    <2>3. Uncertain' BY <1>1, <1>2 DEF Uncertain, Engaged, SectorsOf, ErasedWith
    <2>4. Verifying' BY <1>1, <1>2 DEF Verifying, Spared
    <2>5. Processing' BY <1>1, <1>2 DEF Processing, Done
    <2> QED BY <2>1, <2>2, <2>3, <2>4, <2>5
  <1>11. Content'
    <2>1. GotPayload' BY <1>1, <1>2 DEF GotPayload
    <2>2. Reading'
      <3>1. Part' = Part /\ InFlight' = 1 BY <1>2, <1>5 DEF Part, InFlight, Sending
      <3>2. Delivered' /\ Loaded'
        BY <1>1, <1>2, <1>3 DEF Reading, Delivered, Loaded
      <3>3. msd'.total + (msd'.offset - msd'.pending) = Part'
        <4>1. /\ msd'.total = msd.total + 1 /\ msd'.pending = msd.pending + 1
              /\ msd'.offset = msd.offset
          BY <1>2
        <4>2. (msd.total + 1) + (msd.offset - (msd.pending + 1))
                  = msd.total + (msd.offset - msd.pending)
          <5>1. msd.total \in Nat /\ msd.offset \in Nat /\ msd.pending \in Nat BY Numbers
          <5> QED BY <5>1, OneSent
        <4> QED BY <1>6, <3>1, <4>1, <4>2
      <3>4. Len(host'.got) + InFlight' = msd'.total BY <1>2, <1>6, <3>1, Numbers
      <3>5. msd'.pending > 0 /\ tx'.slot = msd'.pending - 1 BY <1>2, <1>5, Numbers
      <3> QED BY <1>2, <1>6, <3>2, <3>3, <3>4, <3>5 DEF Reading
    <2>3. Writing' BY <1>1, <1>2 DEF Writing, Stored, Spared, Filled, Part, Awaited
    <2>4. Requested' BY <1>1, <1>2 DEF Requested, Stored, Spared, Filled
    <2>5. Ending' BY <1>1, <1>2 DEF Ending, InFlight, Sending, Outcome, FullRead, Stored, Spared
    <2>6. Answering' BY <1>1, <1>2 DEF Answering, Done, Telling, Tells, FullRead, Stored, Spared
    <2>7. Answered' BY <1>1, <1>2, <1>4, <1>5 DEF Answered, Sending, Serving
    <2>8. Disk' BY <1>1, <1>2 DEF Disk
    <2> QED BY <2>1, <2>2, <2>3, <2>4, <2>5, <2>6, <2>7, <2>8
  <1> QED BY <1>9, <1>10, <1>11

LEMMA ReadMoreProtocol ==
    ASSUME Base, Protocol, ReadMore
    PROVE  Protocol'
  <1> USE DEF Protocol, Control, Commanded, Content
  <1>1. /\ Base' /\ ReadMoreEffect
        /\ Doing = "DATA_IN" /\ Doing' = task'.next
    BY ReadMoreBase
  <1>2. /\ host' = host /\ configured' = configured /\ rx' = rx /\ tx' = tx
        /\ task.at = "DATA_IN" /\ task.next = "NONE" /\ task'.at = "DATA_IN"
        /\ task'.next \in {"DATA_IN", "CSW"} /\ media'.store = media.store /\ msd'.pending = 0
        /\ msd'.state = msd.state /\ msd'.csw = msd.csw /\ msd'.handle = msd.handle
        /\ msd'.usbSectors = msd.usbSectors /\ msd'.toWrite = msd.toWrite
        /\ msd'.total = msd.total /\ msd'.buffer = msd.buffer
    BY <1>1 DEF ReadMoreEffect, Frame, TaskEnds, InTask, SameMsd, Agree, MsdFields
  <1>3. configured /\ Engaged
    BY <1>1, <1>2 DEF Attached, Engaged
  <1>4. Serving
    BY <1>3, Serves
  <1>5. /\ Done(tx) /\ media.req = None /\ host.cmd.op = "read" /\ host.cmd.want = host.cmd.len
        /\ msd.total = Part /\ Len(host.got) = msd.total /\ Delivered
    <2>1. Done(tx) /\ ~Sending BY <1>2, <1>3 DEF CallKept, ReadyToSend, Done, Sending
    <2>2. msd.media \in {"IDLE", "COMPLETE"} /\ media.req = None
      BY <1>1, <1>2, <1>3 DEF ReadMoreEffect, Requested
    <2>3. /\ host.cmd.op = "read" /\ host.cmd.want = host.cmd.len /\ Delivered
          /\ msd.total + (msd.offset - msd.pending) = Part
          /\ Len(host.got) + InFlight = msd.total
          /\ msd.media = "IDLE" => msd.offset = 0
      BY <1>1, <1>3 DEF Reading
    <2>4. msd.offset = msd.pending
      <3>1. msd.pending <= msd.offset BY <1>1, <1>3 DEF Base, Counted
      <3>2. msd.media = "COMPLETE" => msd.pending = msd.offset BY <1>1 DEF ReadMoreEffect
      <3> QED BY <2>2, <2>3, <3>1, <3>2, Numbers
    <2>5. InFlight = 0 BY <2>1 DEF InFlight
    <2>6. /\ msd.total + 0 = msd.total /\ msd.offset - msd.pending = 0
          /\ Len(host.got) + 0 = Len(host.got)
      BY <2>4, Numbers
    <2> QED BY <2>1, <2>2, <2>3, <2>5, <2>6
  <1> DEFINE n == Smaller(msd.cbw.len, Buffering)
  <1>6. n \in Nat /\ n <= msd.cbw.len
    <2>1. n \in 0 .. Buffering /\ n <= msd.cbw.len BY <1>4, Parts DEF Serving
    <2> QED BY <2>1, Numbers
  <1>7. \/ /\ msd'.cbw = msd.cbw /\ media' = media /\ task'.next = "CSW"
           /\ task'.status = "PASSED" => msd.cbw.len = 0
        \/ /\ msd'.media = "PENDING" /\ msd'.offset = n /\ msd'.pending = 0
           /\ msd'.cbw \in CommandBlock
           /\ msd'.cbw.addr = msd.cbw.addr + n /\ msd'.cbw.len = msd.cbw.len - n
           /\ Agree(msd.cbw, msd'.cbw, {"type", "tag", "op", "want", "dir"})
           /\ media'.req # None /\ media'.open /\ task'.next = "DATA_IN"
           /\ media'.req.op = "read" /\ media'.req.addr = msd.cbw.addr /\ media'.req.n = n
    BY <1>1, <1>4, <1>6, Advances DEF ReadMoreEffect, Serving, Request, None
  <1> HIDE DEF n
  <1>8. host.cmd.dir = "in"
    BY <1>4, <1>5 DEF SaneCmd, Serving
  <1>9. msd.cbw.len = 0 => FullRead
    BY <1>4, <1>5, WholeRead DEF Part, Serving
  <1>10. Control'
    <2>1. Attached' BY <1>1, <1>2 DEF Attached, Done
    <2>2. CallKept' BY <1>1, <1>2 DEF CallKept, ReadyToSend, Done, Early, Sending
    <2>3. AtRest' BY <1>1, <1>2 DEF AtRest, Engaged, Done
    <2>4. Held' BY <1>1, <1>2 DEF Held
    <2>5. Going' BY <1>1, <1>2 DEF Going, Early
    <2>6. Unstalled' BY <1>1, <1>2 DEF Unstalled, Early
    <2>7. Stalls' BY <1>1, <1>2 DEF Stalls, Sending
    <2>8. StatusSent' BY <1>1, <1>2 DEF StatusSent, Sending
    <2>9. DataSent' BY <1>1, <1>2, <1>5 DEF DataSent, Sending, Done
    <2>10. DataPhase' BY <1>1, <1>2 DEF DataPhase, Engaged
    <2> QED BY <2>1, <2>2, <2>3, <2>4, <2>5, <2>6, <2>7, <2>8, <2>9, <2>10
  <1>11. Commanded'
    <2>1. SaneCmd' BY <1>1, <1>2 DEF SaneCmd
    <2>2. Matches' BY <1>1, <1>2, <1>4, <1>6, <1>7 DEF Matches, Engaged, Serving, Agree
    <2>3. Uncertain' BY <1>1, <1>2 DEF Uncertain, Engaged, SectorsOf, ErasedWith
    <2>4. Verifying' BY <1>1, <1>2 DEF Verifying, Spared
    <2>5. Processing' BY <1>1, <1>2 DEF Processing, Done
    <2> QED BY <2>1, <2>2, <2>3, <2>4, <2>5
  <1>12. Content'
    <2>1. GotPayload' BY <1>1, <1>2 DEF GotPayload
    <2>2. Reading'
      <3>1. CASE task'.next = "CSW" BY <1>1, <3>1 DEF Reading
      <3>2. CASE task'.next = "DATA_IN"
        <4>1. /\ msd'.media = "PENDING" /\ media'.req # None /\ msd'.offset = n
              /\ msd'.pending = 0
              /\ msd'.cbw.addr = msd.cbw.addr + n
          BY <1>7, <3>2
        <4>2. Part' = Part + n BY <1>2, <1>4, <1>6, <4>1 DEF Part, Serving
        <4>3. msd'.total + (msd'.offset - msd'.pending) = Part'
          BY <1>2, <1>5, <1>6, <4>1, <4>2, Numbers
        <4>4. InFlight' = 0 /\ ~Sending' BY <1>2, <1>5 DEF InFlight, Sending, Done
        <4>5. Len(host'.got) + InFlight' = msd'.total /\ Delivered'
          BY <1>2, <1>5, <4>4, Numbers DEF Delivered
        <4> QED BY <1>2, <1>5, <4>1, <4>3, <4>4, <4>5 DEF Reading
      <3> QED BY <1>2, <3>1, <3>2
    <2>3. Writing' BY <1>1, <1>2 DEF Writing, Stored, Spared, Filled, Part, Awaited
    <2>4. Requested' BY <1>1, <1>2, <1>4, <1>5, <1>7 DEF Requested, Serving
    <2>5. Ending'
      BY <1>1, <1>2, <1>5, <1>7, <1>8, <1>9 DEF Ending, InFlight, Sending, Outcome, FullRead,
         Stored, Spared, Done
    <2>6. Answering' BY <1>1, <1>2 DEF Answering, Done, Telling, Tells, FullRead, Stored, Spared
    <2>7. Answered' BY <1>1, <1>2, <1>4 DEF Answered, Sending, Serving
    <2>8. Disk' BY <1>1, <1>2 DEF Disk
    <2> QED BY <2>1, <2>2, <2>3, <2>4, <2>5, <2>6, <2>7, <2>8
  <1> QED BY <1>10, <1>11, <1>12

LEMMA WriteReceiveProtocol ==
    ASSUME Base, Protocol, WriteReceive
    PROVE  Protocol'
  <1> USE DEF Protocol, Control, Commanded, Content
  <1>1. /\ Base' /\ WriteReceiveEffect
        /\ Doing = "DATA_OUT" /\ Doing' = "DATA_OUT"
    BY WriteReceiveBase
  <1>2. /\ host' = host /\ configured' = configured /\ tx' = tx /\ media' = media
        /\ task.at = "DATA_OUT" /\ task.next = "NONE" /\ task'.at = "DATA_OUT"
        /\ task'.next = "DATA_OUT" /\ msd.media \in {"IDLE", "COMPLETE"}
        /\ msd'.media = "IDLE" /\ msd'.state = msd.state /\ msd'.cbw = msd.cbw
        /\ msd'.csw = msd.csw /\ msd'.handle = msd.handle /\ msd'.pending = msd.pending
        /\ msd'.total = msd.total /\ msd'.buffer = msd.buffer /\ rx'.stalled = rx.stalled
        /\ rx'.enabled = rx.enabled
    BY <1>1 DEF WriteReceiveEffect, Frame, TaskEnds, InTask, SameMsd, Agree, MsdFields,
       Submitted
  <1>3. configured /\ Engaged
    BY <1>1, <1>2 DEF Attached, Engaged
  <1>4. Serving
    BY <1>3, Serves
  <1> DEFINE n == IF Fresh THEN Smaller(msd.cbw.len, Buffering) ELSE msd.usbSectors
             slot == IF Fresh THEN 0 ELSE msd.offset
  <1>5. rx.irp # "IN_PROGRESS"
    BY <1>2 DEF Base, Receiving
  <1>6. /\ n > 0 /\ n \in Nat /\ slot \in Nat /\ rx'.irp = "IN_PROGRESS" /\ rx'.slot = slot
        /\ msd'.offset = slot + 1 /\ msd'.toWrite = IF Fresh THEN n ELSE msd.toWrite
    BY <1>1, <1>4, <1>5 DEF WriteReceiveEffect, Submitted, Attached, Serving, Slots
  <1> HIDE DEF n
  <1>7. /\ host.cmd.op = "write" /\ host.cmd.want = host.cmd.len /\ Stored(Part)
        /\ host.sent = Part + slot /\ Filled(slot, Part)
    BY <1>1, <1>2, <1>3, <1>5, Numbers DEF Writing, Awaited, Fresh, Filled
  <1>8. Control'
    <2>1. Attached' BY <1>1, <1>2 DEF Attached, Done
    <2>2. CallKept' BY <1>1, <1>2 DEF CallKept, ReadyToSend, Done, Early, Sending
    <2>3. AtRest' BY <1>1, <1>2 DEF AtRest, Engaged, Done
    <2>4. Held' BY <1>1, <1>2 DEF Held
    <2>5. Going' BY <1>1, <1>2 DEF Going, Early
    <2>6. Unstalled' BY <1>1, <1>2 DEF Unstalled, Early
    <2>7. Stalls' BY <1>1, <1>2 DEF Stalls, Sending
    <2>8. StatusSent' BY <1>1, <1>2 DEF StatusSent, Sending
    <2>9. DataSent' BY <1>1, <1>2 DEF DataSent, Sending
    <2>10. DataPhase' BY <1>1, <1>2 DEF DataPhase, Engaged
    <2> QED BY <2>1, <2>2, <2>3, <2>4, <2>5, <2>6, <2>7, <2>8, <2>9, <2>10
  <1>9. Commanded'
    <2>1. SaneCmd' BY <1>1, <1>2 DEF SaneCmd
    <2>2. Matches' BY <1>1, <1>2 DEF Matches, Engaged, Agree
    <2>3. Uncertain' BY <1>1, <1>2 DEF Uncertain, Engaged, SectorsOf, ErasedWith
    <2>4. Verifying' BY <1>1, <1>2 DEF Verifying, Spared
    <2>5. Processing' BY <1>1, <1>2 DEF Processing, Done
    <2> QED BY <2>1, <2>2, <2>3, <2>4, <2>5
  <1>10. Content'
    <2>1. GotPayload' BY <1>1, <1>2 DEF GotPayload
    <2>2. Reading' BY <1>1, <1>2 DEF Reading, Delivered, Loaded, Part, InFlight, Sending
    <2>3. Writing'
      <3>1. msd'.toWrite > 0 BY <1>6, Numbers DEF Fresh
      <3>2. Part' = Part /\ Awaited' = 1 BY <1>2, <1>6 DEF Part, Awaited
      <3>3. Part \in Nat BY <1>4 DEF Part, Serving
      <3>4. Filled(msd.offset - Awaited, Part)'
        BY <1>2, <1>6, <1>7, <3>2 DEF Filled
      <3>5. host'.sent + Awaited' = Part' + msd'.offset BY <1>2, <1>6, <1>7, <3>2, <3>3, Numbers
      <3>6. Stored(Part)' BY <1>2, <1>7, <3>2 DEF Stored, Spared
      <3> QED BY <1>2, <1>6, <1>7, <3>1, <3>4, <3>5, <3>6 DEF Writing
    <2>4. Requested' BY <1>1, <1>2 DEF Requested, Stored, Spared, Filled
    <2>5. Ending' BY <1>1, <1>2 DEF Ending, InFlight, Sending, Outcome, FullRead, Stored, Spared
    <2>6. Answering' BY <1>1, <1>2 DEF Answering, Done, Telling, Tells, FullRead, Stored, Spared
    <2>7. Answered' BY <1>1, <1>2, <1>4 DEF Answered, Sending, Serving
    <2>8. Disk' BY <1>1, <1>2 DEF Disk
    <2> QED BY <2>1, <2>2, <2>3, <2>4, <2>5, <2>6, <2>7, <2>8
  <1> QED BY <1>8, <1>9, <1>10

LEMMA WriteMediaProtocol ==
    ASSUME Base, Protocol, WriteMedia
    PROVE  Protocol'
  <1> USE DEF Protocol, Control, Commanded, Content
  <1>1. /\ Base' /\ WriteMediaEffect
        /\ Doing = "DATA_OUT" /\ Doing' = task'.next
    BY WriteMediaBase
  <1>2. /\ host' = host /\ configured' = configured /\ rx' = rx /\ tx' = tx
        /\ task.at = "DATA_OUT" /\ task.next = "NONE" /\ task'.at = "DATA_OUT"
        /\ task'.next \in {"DATA_OUT", "CSW"} /\ media'.store = media.store
        /\ msd.media = "IDLE" /\ msd'.media = "PENDING" /\ msd'.state = msd.state
        /\ msd'.csw = msd.csw /\ msd'.handle = msd.handle /\ msd'.offset = msd.offset
        /\ msd'.pending = msd.pending /\ msd'.usbSectors = msd.usbSectors
        /\ msd'.buffer = msd.buffer
    BY <1>1 DEF WriteMediaEffect, Frame, TaskEnds, InTask, SameMsd, Agree, MsdFields
  <1>3. configured /\ Engaged
    BY <1>1, <1>2 DEF Attached, Engaged
  <1>4. Serving
    BY <1>3, Serves
  <1> DEFINE n == msd.toWrite
  <1>5. /\ rx.irp # "IN_PROGRESS" /\ n > 0 /\ n \in Nat /\ msd.offset = n /\ n <= msd.cbw.len
        /\ media.req = None
    BY <1>1, <1>2, Numbers DEF WriteMediaEffect, Base, Receiving, Counted, Requested
  <1>6. \/ /\ msd'.cbw = msd.cbw /\ media' = media /\ task'.next = "CSW"
           /\ task'.status = "FAILED"
        \/ /\ msd'.media = "PENDING" /\ msd'.toWrite = 0
           /\ msd'.cbw \in CommandBlock
           /\ msd'.cbw.addr = msd.cbw.addr + n /\ msd'.cbw.len = msd.cbw.len - n
           /\ Agree(msd.cbw, msd'.cbw, {"type", "tag", "op", "want", "dir"})
           /\ media'.req # None /\ media'.open /\ task'.next = "DATA_OUT"
           /\ media'.req.op = "write" /\ media'.req.addr = msd.cbw.addr /\ media'.req.n = n
    BY <1>1, <1>4, <1>5, Advances DEF WriteMediaEffect, Serving, Request, None
  <1>7. /\ host.cmd.op = "write" /\ host.cmd.want = host.cmd.len /\ host.cmd.dir = "out"
        /\ host.sent = Part + n /\ Filled(n, Part) /\ Stored(Part)
    <2>1. /\ host.cmd.op = "write" /\ host.cmd.want = host.cmd.len /\ Stored(Part)
          /\ host.sent + Awaited = Part + msd.offset /\ Filled(msd.offset - Awaited, Part)
      BY <1>1, <1>2, <1>3, <1>5 DEF Writing
    <2>2. host.cmd.dir = "out" BY <1>2, <1>4, <2>1 DEF SaneCmd, Serving
    <2>3. host.sent \in Nat /\ n \in Nat BY <1>5, Numbers
    <2>4. Awaited = 0 BY <1>5 DEF Awaited
    <2>5. host.sent + Awaited = host.sent /\ n - Awaited = n BY <2>3, <2>4
    <2>6. host.sent = Part + n /\ Filled(n, Part) BY <1>5, <2>1, <2>5
    <2> QED BY <2>1, <2>2, <2>6
  <1> HIDE DEF n
  <1>8. Control'
    <2>1. Attached' BY <1>1, <1>2 DEF Attached, Done
    <2>2. CallKept' BY <1>1, <1>2 DEF CallKept, ReadyToSend, Done, Early, Sending
    <2>3. AtRest' BY <1>1, <1>2 DEF AtRest, Engaged, Done
    <2>4. Held' BY <1>1, <1>2 DEF Held
    <2>5. Going' BY <1>1, <1>2 DEF Going, Early
    <2>6. Unstalled' BY <1>1, <1>2 DEF Unstalled, Early
    <2>7. Stalls' BY <1>1, <1>2 DEF Stalls, Sending
    <2>8. StatusSent' BY <1>1, <1>2 DEF StatusSent, Sending
    <2>9. DataSent' BY <1>1, <1>2 DEF DataSent, Sending
    <2>10. DataPhase' BY <1>1, <1>2 DEF DataPhase, Engaged
    <2> QED BY <2>1, <2>2, <2>3, <2>4, <2>5, <2>6, <2>7, <2>8, <2>9, <2>10
  <1>9. Commanded'
    <2>1. SaneCmd' BY <1>1, <1>2 DEF SaneCmd
    <2>2. Matches' BY <1>1, <1>2, <1>4, <1>5, <1>6 DEF Matches, Engaged, Serving, Agree
    <2>3. Uncertain' BY <1>1, <1>2 DEF Uncertain, Engaged, SectorsOf, ErasedWith
    <2>4. Verifying' BY <1>1, <1>2 DEF Verifying, Spared
    <2>5. Processing' BY <1>1, <1>2 DEF Processing, Done
    <2> QED BY <2>1, <2>2, <2>3, <2>4, <2>5
  <1>10. Content'
    <2>1. GotPayload' BY <1>1, <1>2 DEF GotPayload
    <2>2. Reading' BY <1>1, <1>2 DEF Reading, Delivered, Loaded, Part, InFlight, Sending
    <2>3. Writing'
      <3>1. CASE task'.next = "CSW" BY <1>1, <3>1 DEF Writing
      <3>2. CASE task'.next = "DATA_OUT"
        <4>1. /\ msd'.media = "PENDING" /\ media'.req # None /\ msd'.toWrite = 0
              /\ msd'.cbw.addr = msd.cbw.addr + n
          BY <1>6, <3>2
        <4>2. Part' = Part + n BY <1>2, <1>4, <1>5, <4>1 DEF Part, Serving
        <4>3. host'.sent = Part' BY <1>2, <1>7, <4>2
        <4> QED BY <1>2, <1>5, <1>7, <4>1, <4>3 DEF Writing
      <3> QED BY <1>2, <3>1, <3>2
    <2>4. Requested'
      <3>1. CASE task'.next = "CSW" BY <1>5, <1>6, <3>1 DEF Requested
      <3>2. CASE task'.next = "DATA_OUT"
        <4>1. /\ msd'.media = "PENDING" /\ media'.open /\ msd'.cbw.addr = msd.cbw.addr + n
              /\ media'.req.op = "write" /\ media'.req.addr = msd.cbw.addr /\ media'.req.n = n
          BY <1>6, <3>2
        <4>2. media'.req.addr - host'.cmd.addr = Part BY <1>2, <4>1 DEF Part
        <4>3. Stored(media.req.addr - host.cmd.addr)' BY <1>2, <1>7, <4>2 DEF Stored, Spared
        <4>4. Filled(media.req.n, media.req.addr - host.cmd.addr)'
          BY <1>2, <1>7, <4>1, <4>2 DEF Filled
        <4>5. media'.req.addr >= host'.cmd.addr BY <1>2, <1>4, <4>1 DEF Serving
        <4> QED BY <1>1, <1>2, <1>4, <3>2, <4>1, <4>3, <4>4, <4>5 DEF Requested, Serving
      <3> QED BY <1>2, <3>1, <3>2
    <2>5. Ending' BY <1>1, <1>2, <1>4, <1>6, <1>7 DEF Ending, Outcome, Serving
    <2>6. Answering' BY <1>1, <1>2 DEF Answering, Done, Telling, Tells, FullRead, Stored, Spared
    <2>7. Answered' BY <1>1, <1>2, <1>4 DEF Answered, Sending, Serving
    <2>8. Disk' BY <1>1, <1>2 DEF Disk
    <2> QED BY <2>1, <2>2, <2>3, <2>4, <2>5, <2>6, <2>7, <2>8
  <1> QED BY <1>8, <1>9, <1>10

LEMMA WriteDoneProtocol ==
    ASSUME Base, Protocol, WriteDone
    PROVE  Protocol'
  <1> USE DEF Protocol, Control, Commanded, Content
  <1>1. /\ Base' /\ WriteDoneEffect
        /\ Doing = "DATA_OUT" /\ Doing' = "CSW"
    BY WriteDoneBase
  <1>2. /\ host' = host /\ configured' = configured /\ rx' = rx /\ tx' = tx /\ msd' = msd
        /\ media' = media /\ task.at = "DATA_OUT" /\ task.next = "NONE"
        /\ task'.at = "DATA_OUT" /\ task'.next = "CSW" /\ task'.status = "PASSED"
        /\ msd.media = "COMPLETE" /\ msd.cbw.len = 0
    BY <1>1 DEF WriteDoneEffect, Frame, TaskEnds, InTask
  <1>3. configured /\ Engaged
    BY <1>1, <1>2 DEF Attached, Engaged
  <1>4. Serving
    BY <1>3, Serves
  <1>5. /\ host.cmd.op = "write" /\ host.cmd.dir = "out" /\ Stored(Part) /\ Part = host.cmd.len
        /\ host.sent = host.cmd.want /\ host.phase # "data"
    <2>1. msd.toWrite = 0 BY <1>1, <1>2, Numbers DEF Base, Counted
    <2>2. /\ host.cmd.op = "write" /\ host.cmd.want = host.cmd.len /\ Stored(Part)
          /\ host.sent = Part
      BY <1>1, <1>2, <1>3, <2>1 DEF Writing
    <2>3. Part = host.cmd.len BY <1>2, <1>4 DEF Part, Serving
    <2>4. host.cmd.dir = "out" BY <1>4, <2>2 DEF SaneCmd, Serving
    <2>5. host.phase # "data" BY <1>4, <2>2, <2>3 DEF Base, Limited, Serving
    <2> QED BY <2>2, <2>3, <2>4, <2>5
  <1>6. Control'
    <2>1. Attached' BY <1>1, <1>2 DEF Attached, Done
    <2>2. CallKept' BY <1>1, <1>2 DEF CallKept, ReadyToSend, Done, Early, Sending
    <2>3. AtRest' BY <1>1, <1>2 DEF AtRest, Engaged, Done
    <2>4. Held' BY <1>1, <1>2 DEF Held
    <2>5. Going' BY <1>1, <1>2 DEF Going, Early
    <2>6. Unstalled' BY <1>1, <1>2 DEF Unstalled, Early
    <2>7. Stalls' BY <1>1, <1>2 DEF Stalls, Sending
    <2>8. StatusSent' BY <1>1, <1>2 DEF StatusSent, Sending
    <2>9. DataSent' BY <1>1, <1>2 DEF DataSent, Sending
    <2>10. DataPhase' BY <1>1, <1>2 DEF DataPhase, Engaged
    <2> QED BY <2>1, <2>2, <2>3, <2>4, <2>5, <2>6, <2>7, <2>8, <2>9, <2>10
  <1>7. Commanded'
    <2>1. SaneCmd' BY <1>1, <1>2 DEF SaneCmd
    <2>2. Matches' BY <1>1, <1>2 DEF Matches, Engaged, Agree
    <2>3. Uncertain' BY <1>1, <1>2 DEF Uncertain, Engaged, SectorsOf, ErasedWith
    <2>4. Verifying' BY <1>1, <1>2 DEF Verifying, Spared
    <2>5. Processing' BY <1>1, <1>2 DEF Processing, Done
    <2> QED BY <2>1, <2>2, <2>3, <2>4, <2>5
  <1>8. Content'
    <2>1. GotPayload' BY <1>1, <1>2 DEF GotPayload
    <2>2. Reading' BY <1>1, <1>2 DEF Reading, Delivered, Loaded, Part, InFlight, Sending
    <2>3. Writing' BY <1>1, <1>2 DEF Writing, Stored, Spared, Filled, Part, Awaited
    <2>4. Requested' BY <1>1, <1>2 DEF Requested, Stored, Spared, Filled
    <2>5. Ending' BY <1>1, <1>2, <1>5 DEF Ending, Outcome, Stored, Spared
    <2>6. Answering' BY <1>1, <1>2 DEF Answering, Done, Telling, Tells, FullRead, Stored, Spared
    <2>7. Answered' BY <1>1, <1>2, <1>4 DEF Answered, Sending, Serving
    <2>8. Disk' BY <1>1, <1>2 DEF Disk
    <2> QED BY <2>1, <2>2, <2>3, <2>4, <2>5, <2>6, <2>7, <2>8
  <1> QED BY <1>6, <1>7, <1>8

LEMMA MediaFailedProtocol ==
    ASSUME Base, Protocol, MediaFailed
    PROVE  Protocol'
  <1> USE DEF Protocol, Control, Commanded, Content
  <1>1. /\ Base' /\ MediaFailedEffect
        /\ Doing = task.at /\ Doing' = task'.next
    BY MediaFailedBase
  <1>2. /\ host' = host /\ configured' = configured /\ rx' = rx /\ tx' = tx /\ msd' = msd
        /\ media' = media /\ task.at \in {"DATA_IN", "DATA_OUT"} /\ task.next = "NONE"
        /\ task'.at = task.at
        /\ \/ msd.media = "ERROR" /\ task'.next = "CSW" /\ task'.status = "FAILED"
           \/ msd.media = "PENDING" /\ task'.next = task.at
    BY <1>1 DEF MediaFailedEffect, Frame, TaskEnds, InTask
  <1>3. configured /\ Engaged
    BY <1>1, <1>2 DEF Attached, Engaged
  <1>4. Serving
    BY <1>3, Serves
  <1>5. /\ host.cmd.op \in {"read", "write"} /\ (host.cmd.dir = "in" => Doing = "DATA_IN")
        /\ Sending => msd.media = "COMPLETE"
        /\ Doing = "DATA_IN" => Len(host.got) + InFlight = msd.total
    BY <1>1, <1>2, <1>4 DEF Reading, Writing, SaneCmd, Serving, DataSent, Sending
  <1>6. Control'
    <2>1. Attached' BY <1>1, <1>2 DEF Attached, Done
    <2>2. CallKept' BY <1>1, <1>2 DEF CallKept, ReadyToSend, Done, Early, Sending
    <2>3. AtRest' BY <1>1, <1>2 DEF AtRest, Engaged, Done
    <2>4. Held' BY <1>1, <1>2 DEF Held
    <2>5. Going' BY <1>1, <1>2 DEF Going, Early
    <2>6. Unstalled' BY <1>1, <1>2 DEF Unstalled, Early
    <2>7. Stalls' BY <1>1, <1>2 DEF Stalls, Sending
    <2>8. StatusSent' BY <1>1, <1>2 DEF StatusSent, Sending
    <2>9. DataSent' BY <1>1, <1>2, <1>5 DEF DataSent, Sending
    <2>10. DataPhase' BY <1>1, <1>2 DEF DataPhase, Engaged
    <2> QED BY <2>1, <2>2, <2>3, <2>4, <2>5, <2>6, <2>7, <2>8, <2>9, <2>10
  <1>7. Commanded'
    <2>1. SaneCmd' BY <1>1, <1>2 DEF SaneCmd
    <2>2. Matches' BY <1>1, <1>2 DEF Matches, Engaged, Agree
    <2>3. Uncertain' BY <1>1, <1>2 DEF Uncertain, Engaged, SectorsOf, ErasedWith
    <2>4. Verifying' BY <1>1, <1>2 DEF Verifying, Spared
    <2>5. Processing' BY <1>1, <1>2 DEF Processing, Done
    <2> QED BY <2>1, <2>2, <2>3, <2>4, <2>5
  <1>8. Content'
    <2>1. GotPayload' BY <1>1, <1>2 DEF GotPayload
    <2>2. Reading' BY <1>1, <1>2 DEF Reading, Delivered, Loaded, Part, InFlight, Sending
    <2>3. Writing' BY <1>1, <1>2 DEF Writing, Stored, Spared, Filled, Part, Awaited
    <2>4. Requested' BY <1>1, <1>2 DEF Requested, Stored, Spared, Filled
    <2>5. Ending' BY <1>1, <1>2, <1>5 DEF Ending, Outcome, InFlight, Sending
    <2>6. Answering' BY <1>1, <1>2 DEF Answering, Done, Telling, Tells, FullRead, Stored, Spared
    <2>7. Answered' BY <1>1, <1>2, <1>4 DEF Answered, Sending, Serving
    <2>8. Disk' BY <1>1, <1>2 DEF Disk
    <2> QED BY <2>1, <2>2, <2>3, <2>4, <2>5, <2>6, <2>7, <2>8
  <1> QED BY <1>6, <1>7, <1>8

LEMMA PostDataStageProtocol ==
    ASSUME Base, Protocol, PostDataStage
    PROVE  Protocol'
  <1> USE DEF Protocol, Control, Commanded, Content
  <1>1. /\ Base' /\ PostDataStageEffect
        /\ Doing = "CSW" /\ Doing' = "SEND_CSW"
    BY PostDataStageBase
  <1>2. /\ host' = host /\ configured' = configured /\ media' = media /\ task.at = "CSW"
        /\ task.next = "NONE" /\ task'.at = "CSW" /\ task'.next = "SEND_CSW"
        /\ task'.status = msd.csw.status /\ msd'.state = msd.state /\ msd'.cbw = msd.cbw
        /\ msd'.media = msd.media /\ msd'.handle = msd.handle /\ msd'.offset = msd.offset
        /\ msd'.pending = msd.pending /\ msd'.usbSectors = msd.usbSectors
        /\ msd'.toWrite = msd.toWrite /\ msd'.total = msd.total /\ msd'.buffer = msd.buffer
        /\ rx'.enabled = rx.enabled /\ tx'.enabled = tx.enabled
        /\ rx.stalled => rx'.stalled
        /\ tx.stalled => tx'.stalled
    BY <1>1 DEF PostDataStageEffect, Frame, TaskEnds, InTask, SameMsd, Agree, MsdFields, Stalled
  <1>3. configured /\ Engaged
    BY <1>1, <1>2 DEF Attached, Engaged
  <1>4. Serving
    BY <1>3, Serves
  <1>5. Done(tx) /\ Done(tx')
    BY <1>1, <1>2 DEF CallKept, PostDataStageEffect, Stalled, Aborted, Done
  <1>6. /\ msd'.csw.type = "csw" /\ msd'.csw.tag = host.tag /\ msd'.csw.status = msd.csw.status
        /\ msd'.csw.residue = host.cmd.want - msd.total
    BY <1>1, <1>4 DEF PostDataStageEffect, Serving
  <1>7. /\ host.cmd.dir = "in" => Len(host.got) = msd.total
        /\ msd.csw.status = "PASSED" /\ host.cmd.op = "read" => FullRead
        /\ msd.csw.status = "PASSED" /\ host.cmd.op = "write" => Stored(host.cmd.len)
        /\ host.phase = "data" /\ host.cmd.dir = "out" => msd.csw.status = "FAILED"
    BY <1>1, <1>2, <1>3, <1>5, Numbers DEF Ending, Outcome, InFlight, Sending, Done
  <1>8. /\ host.phase = "data" /\ host.cmd.dir = "in" => tx'.stalled
        /\ host.phase = "data" /\ host.cmd.dir = "out" => rx'.stalled
    <2>1. msd.csw.status \in Statuses /\ Len(host.got) \in Nat /\ host.sent \in Nat
      BY Numbers DEF Base, Typed, MsdType, Wrapper
    <2>2. ASSUME host.phase = "data", host.cmd.dir = "in" PROVE tx'.stalled
      <3>1. Len(host.got) < host.cmd.want BY <2>2 DEF Base, Limited
      <3>2. msd.cbw.want - msd.total # 0 /\ msd.cbw.want > 0
        BY <1>4, <1>7, <2>1, <2>2, <3>1 DEF Serving
      <3>3. StallsIn(msd.cbw.want - msd.total)
        BY <1>4, <2>1, <2>2, <3>2 DEF StallsIn, Statuses, Serving
      <3> QED BY <1>1, <3>3 DEF PostDataStageEffect, Stalled
    <2>3. ASSUME host.phase = "data", host.cmd.dir = "out" PROVE rx'.stalled
      <3>1. host.sent < host.cmd.want BY <2>3 DEF Base, Limited
      <3>2. StallsOut BY <1>4, <1>7, <2>1, <2>3, <3>1 DEF StallsOut, Serving
      <3> QED BY <1>1, <3>2 DEF PostDataStageEffect, Stalled
    <2> QED BY <2>2, <2>3
  <1>9. Control'
    <2>1. Attached' BY <1>1, <1>2 DEF Attached, Done
    <2>2. CallKept' BY <1>1, <1>2, <1>5 DEF CallKept, ReadyToSend, Done, Early, Sending
    <2>3. AtRest' BY <1>1, <1>2 DEF AtRest, Engaged, Done
    <2>4. Held' BY <1>1, <1>2 DEF Held
    <2>5. Going' BY <1>1, <1>2 DEF Going, Early
    <2>6. Unstalled' BY <1>1, <1>2 DEF Unstalled, Early
    <2>7. Stalls' BY <1>1, <1>2, <1>4, <1>5 DEF Stalls, Sending, Done, Going, Early, Serving
    <2>8. StatusSent' BY <1>1, <1>2, <1>5 DEF StatusSent, Sending, Done
    <2>9. DataSent' BY <1>1, <1>2, <1>5 DEF DataSent, Sending, Done
    <2>10. DataPhase' BY <1>1, <1>2 DEF DataPhase, Engaged
    <2> QED BY <2>1, <2>2, <2>3, <2>4, <2>5, <2>6, <2>7, <2>8, <2>9, <2>10
  <1>10. Commanded'
    <2>1. SaneCmd' BY <1>1, <1>2 DEF SaneCmd
    <2>2. Matches' BY <1>1, <1>2 DEF Matches, Engaged, Agree
    <2>3. Uncertain' BY <1>1, <1>2 DEF Uncertain, Engaged, SectorsOf, ErasedWith
    <2>4. Verifying' BY <1>1, <1>2 DEF Verifying, Spared
    <2>5. Processing' BY <1>1, <1>2 DEF Processing, Done
    <2> QED BY <2>1, <2>2, <2>3, <2>4, <2>5
  <1>11. Content'
    <2>1. GotPayload' BY <1>1, <1>2 DEF GotPayload
    <2>2. Reading' BY <1>1, <1>2 DEF Reading, Delivered, Loaded, Part, InFlight, Sending
    <2>3. Writing' BY <1>1, <1>2 DEF Writing, Stored, Spared, Filled, Part, Awaited
    <2>4. Requested' BY <1>1, <1>2 DEF Requested, Stored, Spared, Filled
    <2>5. Ending' BY <1>1, <1>2 DEF Ending, InFlight, Sending, Outcome, FullRead, Stored, Spared
    <2>6. Answering'
      <3>1. Tells(msd.csw)' BY <1>2, <1>4, <1>6, <1>7 DEF Tells, FullRead, Stored, Spared, Serving
      <3> QED BY <1>2, <1>5, <1>6, <1>8, <3>1 DEF Answering, Telling, Done
    <2>7. Answered' BY <1>2, <1>4, <1>5 DEF Answered, Sending, Serving, Done
    <2>8. Disk' BY <1>1, <1>2 DEF Disk
    <2> QED BY <2>1, <2>2, <2>3, <2>4, <2>5, <2>6, <2>7, <2>8
  <1> QED BY <1>9, <1>10, <1>11

LEMMA SendCswProtocol ==
    ASSUME Base, Protocol, SendCsw
    PROVE  Protocol'
  <1> USE DEF Protocol, Control, Commanded, Content
  <1>1. /\ Base' /\ SendCswEffect
        /\ Doing = "SEND_CSW" /\ Doing' = "WAIT_FOR_CBW"
    BY SendCswBase
  <1>2. /\ host' = host /\ configured' = configured /\ rx' = rx /\ msd' = msd
        /\ media' = media /\ task.at = "SEND_CSW" /\ task.next = "NONE"
        /\ task'.at = "SEND_CSW" /\ task'.next = "WAIT_FOR_CBW"
        /\ task'.status = msd.csw.status /\ tx'.stalled = tx.stalled
        /\ tx'.enabled = tx.enabled
    BY <1>1 DEF SendCswEffect, Frame, TaskEnds, InTask, Submitted
  <1>3. configured /\ Engaged
    BY <1>1, <1>2 DEF Attached, Engaged
  <1>4. Serving
    BY <1>3, Serves
  <1>5. /\ Done(tx) /\ ~tx.stalled /\ tx'.irp = "IN_PROGRESS" /\ tx'.to = "CSW"
    BY <1>1, <1>2, <1>4 DEF CallKept, ReadyToSend, SendCswEffect, Submitted, Attached, Serving,
       Done
  <1>6. \/ host.phase \in {"status", "reset"}
        \/ host.phase \in {"data", "clearOut"} /\ host.cmd.dir = "out"
    BY <1>1, <1>4, <1>5 DEF Matches, Stalls, Answering, Serving
  <1>7. Tells(msd.csw) /\ (host.phase = "data" => host.cmd.dir = "out" /\ rx.stalled)
    BY <1>1, <1>4, <1>5 DEF Answering, Telling, Serving
  <1>8. Control'
    <2>1. Attached' BY <1>1, <1>2 DEF Attached, Done
    <2>2. CallKept' BY <1>1, <1>2 DEF CallKept, ReadyToSend, Done, Early, Sending
    <2>3. AtRest' BY <1>1, <1>2 DEF AtRest, Engaged, Done
    <2>4. Held' BY <1>1, <1>2 DEF Held
    <2>5. Going' BY <1>1, <1>2 DEF Going, Early
    <2>6. Unstalled' BY <1>1, <1>2 DEF Unstalled, Early
    <2>7. Stalls' BY <1>1, <1>2, <1>5, <1>6 DEF Stalls, Sending
    <2>8. StatusSent' BY <1>1, <1>2, <1>5, <1>6 DEF StatusSent, Sending
    <2>9. DataSent' BY <1>1, <1>2, <1>5, <1>6 DEF DataSent, Sending
    <2>10. DataPhase' BY <1>1, <1>2, <1>7 DEF DataPhase
    <2> QED BY <2>1, <2>2, <2>3, <2>4, <2>5, <2>6, <2>7, <2>8, <2>9, <2>10
  <1>9. Commanded'
    <2>1. SaneCmd' BY <1>1, <1>2 DEF SaneCmd
    <2>2. Matches' BY <1>1, <1>2 DEF Matches, Engaged, Agree
    <2>3. Uncertain' BY <1>1, <1>2 DEF Uncertain, Engaged, SectorsOf, ErasedWith
    <2>4. Verifying' BY <1>1, <1>2 DEF Verifying, Spared
    <2>5. Processing' BY <1>1, <1>2 DEF Processing, Done
    <2> QED BY <2>1, <2>2, <2>3, <2>4, <2>5
  <1>10. Content'
    <2>1. GotPayload' BY <1>1, <1>2 DEF GotPayload
    <2>2. Reading' BY <1>1, <1>2 DEF Reading, Delivered, Loaded, Part, InFlight, Sending
    <2>3. Writing' BY <1>1, <1>2 DEF Writing, Stored, Spared, Filled, Part, Awaited
    <2>4. Requested' BY <1>1, <1>2 DEF Requested, Stored, Spared, Filled
    <2>5. Ending' BY <1>1, <1>2 DEF Ending, InFlight, Sending, Outcome, FullRead, Stored, Spared
    <2>6. Answering' BY <1>1, <1>2 DEF Answering, Done, Telling, Tells, FullRead, Stored, Spared
    <2>7. Answered'
      <3>1. Tells(msd.csw)' BY <1>2, <1>7 DEF Tells, FullRead, Stored, Spared
      <3> QED BY <1>2, <1>4, <3>1 DEF Answered, Telling, Serving
    <2>8. Disk' BY <1>1, <1>2 DEF Disk
    <2> QED BY <2>1, <2>2, <2>3, <2>4, <2>5, <2>6, <2>7, <2>8
  <1> QED BY <1>8, <1>9, <1>10

LEMMA StoreProtocol ==
    ASSUME Base, Protocol, Store
    PROVE  Protocol'
  <1> USE DEF Protocol, Control, Commanded, Content
  <1>1. /\ Base' /\ StoreEffect
        /\ Doing = task.next /\ Doing' = task.next
    BY StoreBase
  <1>2. /\ host' = host /\ configured' = configured /\ rx' = rx /\ tx' = tx /\ media' = media
        /\ task'.next = "NONE" /\ msd'.state = task.next /\ msd'.cbw = msd.cbw
        /\ msd'.media = msd.media /\ msd'.handle = msd.handle /\ msd'.offset = msd.offset
        /\ msd'.pending = msd.pending /\ msd'.usbSectors = msd.usbSectors
        /\ msd'.toWrite = msd.toWrite /\ msd'.total = msd.total /\ msd'.buffer = msd.buffer
        /\ msd'.csw.type = msd.csw.type /\ msd'.csw.tag = msd.csw.tag
        /\ msd'.csw.residue = msd.csw.residue
    BY <1>1 DEF StoreEffect, Frame, TaskEnds, InTask, SameMsd, Agree, MsdFields
  <1>3. \/ task'.at = "NONE"
        \/ /\ task'.at = task.next /\ task.at = "CBW"
           /\ task.next \in {"PROCESS_CBW", "DATA_IN", "DATA_OUT"}
        \/ /\ task'.at = task.next /\ task.at = "CSW"
           /\ task.next = "SEND_CSW" /\ Done(tx) /\ ~tx.stalled
    BY <1>1, <1>2 DEF StoreEffect, Continues, Base, Calls, Legs
  <1>4. /\ task.next # "SEND_CSW" \/ task'.at = "NONE" \/ task.at = "CSW"
        /\ msd'.csw.status = (IF task'.at = "NONE" THEN task.status ELSE msd.csw.status)
        /\ task.next = "CSW" => task'.at = "NONE" /\ task.next # "NONE"
    BY <1>1, <1>2, <1>3 DEF StoreEffect
  <1>5. ASSUME Telling PROVE Telling'
    <2>1. task.status = msd.csw.status BY <1>1, <1>5 DEF StoreEffect, Telling
    <2>2. msd'.csw.status = msd.csw.status BY <1>4, <2>1
    <2>3. Tells(msd.csw)' BY <1>2, <1>5, <2>2 DEF Telling, Tells, FullRead, Stored, Spared
    <2> QED BY <1>2, <2>3 DEF Telling
  <1>6. Control'
    <2>1. Attached' BY <1>1, <1>2, <1>3 DEF Attached, Done
    <2>2. CallKept'
      <3>1. ASSUME task'.at # "NONE" PROVE configured BY <1>2, <1>3, <3>1 DEF Attached
      <3>2. ASSUME task'.at # "NONE", task.at = "CBW" PROVE Done(tx) /\ ~tx.stalled
        <4>1. Early BY <1>1, <1>3, <3>2 DEF Early
        <4> QED BY <3>1, <3>2, <4>1 DEF CallKept, Going, Unstalled
      <3> QED BY <1>2, <1>3, <3>2 DEF CallKept, ReadyToSend, Done, Early
    <2>3. AtRest' BY <1>1, <1>2 DEF AtRest, Engaged, Done
    <2>4. Held' BY <1>1, <1>2 DEF Held
    <2>5. Going' BY <1>1, <1>2 DEF Going, Early
    <2>6. Unstalled' BY <1>1, <1>2, <1>3 DEF Unstalled, Early
    <2>7. Stalls' BY <1>1, <1>2 DEF Stalls, Sending
    <2>8. StatusSent' BY <1>1, <1>2 DEF StatusSent, Sending
    <2>9. DataSent' BY <1>1, <1>2 DEF DataSent, Sending
    <2>10. DataPhase' BY <1>1, <1>2 DEF DataPhase, Engaged
    <2> QED BY <2>1, <2>2, <2>3, <2>4, <2>5, <2>6, <2>7, <2>8, <2>9, <2>10
  <1>7. Commanded'
    <2>1. SaneCmd' BY <1>1, <1>2 DEF SaneCmd
    <2>2. Matches' BY <1>1, <1>2 DEF Matches, Engaged, Agree
    <2>3. Uncertain' BY <1>1, <1>2 DEF Uncertain, Engaged, SectorsOf, ErasedWith
    <2>4. Verifying' BY <1>1, <1>2 DEF Verifying, Spared
    <2>5. Processing' BY <1>1, <1>2 DEF Processing, Done
    <2> QED BY <2>1, <2>2, <2>3, <2>4, <2>5
  <1>8. Content'
    <2>1. GotPayload' BY <1>1, <1>2 DEF GotPayload
    <2>2. Reading' BY <1>1, <1>2 DEF Reading, Delivered, Loaded, Part, InFlight, Sending
    <2>3. Writing' BY <1>1, <1>2 DEF Writing, Stored, Spared, Filled, Part, Awaited
    <2>4. Requested' BY <1>1, <1>2 DEF Requested, Stored, Spared, Filled
    <2>5. Ending'
      BY <1>1, <1>2, <1>4 DEF Ending, Outcome, InFlight, Sending, FullRead, Stored, Spared
    <2>6. Answering' BY <1>1, <1>2, <1>5 DEF Answering, Done
    <2>7. Answered'
      <3>1. host'.csw # None => Tells(host.csw)'
        BY <1>2 DEF Answered, Tells, FullRead, Stored, Spared
      <3> QED BY <1>2, <1>5, <3>1 DEF Answered, Sending
    <2>8. Disk' BY <1>1, <1>2 DEF Disk
    <2> QED BY <2>1, <2>2, <2>3, <2>4, <2>5, <2>6, <2>7, <2>8
  <1> QED BY <1>6, <1>7, <1>8

LEMMA MediaEndsProtocol ==
    ASSUME Base, Protocol, NEW event \in {"COMPLETE", "ERROR"}, MediaEndsEffect(event)
    PROVE  Protocol'
  <1> USE DEF Protocol, Control, Commanded, Content
  <1>1. Base' /\ Doing' = Doing
    BY MediaEndsBase
  <1>2. /\ host' = host /\ configured' = configured /\ rx' = rx /\ tx' = tx /\ task' = task
        /\ task.at = "NONE" /\ task.next = "NONE" /\ media.req # None /\ media'.req = None
        /\ media'.open = media.open /\ msd'.state = msd.state /\ msd'.cbw = msd.cbw
        /\ msd'.csw = msd.csw /\ msd'.handle = msd.handle /\ msd'.offset = msd.offset
        /\ msd'.pending = msd.pending /\ msd'.usbSectors = msd.usbSectors
        /\ msd'.toWrite = msd.toWrite /\ msd'.total = msd.total
    BY DEF MediaEndsEffect, Frame, SameMsd, Agree, MsdFields, Outside
  <1> DEFINE r == media.req
  <1>3. /\ configured /\ Engaged /\ media.open /\ msd.media = "PENDING"
        /\ r.addr + r.n = msd.cbw.addr /\ Doing \in {"DATA_IN", "DATA_OUT"}
    BY <1>2 DEF Requested, Engaged
  <1>4. Serving
    BY <1>3, Serves
  <1>5. /\ msd'.media = event
        /\ r \in Requests /\ r.addr \in Nat /\ r.n \in Nat /\ r.n <= Buffering
        /\ r.addr + r.n <= Sectors
    BY <1>1, <1>2, <1>3, Numbers DEF MediaEndsEffect, Requests, Base, Limited
  <1>6. /\ Doing = "DATA_IN" => r.op = "read" /\ r.n = msd.offset
        /\ Doing = "DATA_OUT" => /\ r.op = "write" /\ r.addr >= host.cmd.addr
                                 /\ Stored(r.addr - host.cmd.addr)
                                 /\ Filled(r.n, r.addr - host.cmd.addr)
    BY <1>2 DEF Requested
  <1>7. r.op = "read" => media'.store = media.store BY DEF MediaEndsEffect
  <1>8. /\ \A s \in (0 .. Sectors - 1) \ ErasedWith(TargetsOf(r)) :
             media'.store[s] = media.store[s]
        /\ event = "COMPLETE" /\ r.op = "read" => msd'.buffer = ReadBy(r)
        /\ event = "COMPLETE" /\ r.op = "write" => media'.store = WrittenBy(r)
    BY DEF MediaEndsEffect
  <1>9. /\ \A s \in 0 .. Sectors - 1 :
             s \notin TargetsOf(r) => WrittenBy(r)[s] = media.store[s]
        /\ \A s \in (0 .. Sectors - 1) \cap TargetsOf(r) :
             WrittenBy(r)[s] = msd.buffer[s - r.addr]
        /\ \A i \in Slots \cap SlotsOf(r) : ReadBy(r)[i] = media.store[r.addr + i]
    BY <1>5, TransfersIs DEF Base
  <1>10. r.addr \in Nat /\ r.n \in Nat /\ Sectors \in Nat /\ r.addr + r.n <= Sectors
    BY <1>5, Numbers
  <1>11. Doing = "DATA_OUT" =>
           TargetsOf(r) \subseteq host.cmd.addr .. host.cmd.addr + host.cmd.len - 1
    BY <1>3, <1>4, <1>5, <1>6, PartOf DEF Serving, TargetsOf
  <1>12. Doing = "DATA_OUT" => host.cmd.op = "write"
    BY <1>3 DEF Writing
  <1> HIDE DEF r
  <1>13. Control'
    <2>1. Attached' BY <1>1, <1>2 DEF Attached, Done
    <2>2. CallKept' BY <1>1, <1>2 DEF CallKept, ReadyToSend, Done, Early, Sending
    <2>3. AtRest' BY <1>1, <1>2 DEF AtRest, Engaged, Done
    <2>4. Held' BY <1>1, <1>2 DEF Held
    <2>5. Going' BY <1>1, <1>2 DEF Going, Early
    <2>6. Unstalled' BY <1>1, <1>2 DEF Unstalled, Early
    <2>7. Stalls' BY <1>1, <1>2 DEF Stalls, Sending
    <2>8. StatusSent' BY <1>1, <1>2 DEF StatusSent, Sending
    <2>9. DataSent' BY <1>1, <1>2 DEF DataSent, Sending
    <2>10. DataPhase' BY <1>1, <1>2 DEF DataPhase, Engaged
    <2> QED BY <2>1, <2>2, <2>3, <2>4, <2>5, <2>6, <2>7, <2>8, <2>9, <2>10
  <1>14. Commanded'
    <2>1. SaneCmd' BY <1>1, <1>2 DEF SaneCmd
    <2>2. Matches' BY <1>1, <1>2 DEF Matches, Engaged, Agree
    <2>3. Uncertain' BY <1>1, <1>2 DEF Uncertain, Engaged, SectorsOf, ErasedWith
    <2>4. Verifying' BY <1>1, <1>3 DEF Verifying
    <2>5. Processing' BY <1>1, <1>2 DEF Processing, Done
    <2> QED BY <2>1, <2>2, <2>3, <2>4, <2>5
  <1>15. Content'
    <2>1. GotPayload' BY <1>1, <1>2 DEF GotPayload
    <2>2. Reading'
      <3>1. CASE Doing # "DATA_IN" BY <1>1, <3>1 DEF Reading
      <3>2. CASE Doing = "DATA_IN"
        <4>1. media'.store = media.store BY <1>6, <1>7, <3>2
        <4>2. /\ host.cmd.op = "read" /\ host.cmd.want = host.cmd.len
              /\ msd.total + (msd.offset - msd.pending) = Part
              /\ Len(host.got) + InFlight = msd.total /\ Delivered /\ ~Sending
          BY <1>3, <3>2 DEF Reading
        <4>3. ASSUME event = "COMPLETE" PROVE Loaded'
          <5>1. msd'.buffer = ReadBy(r) BY <1>6, <1>8, <3>2, <4>3
          <5>2. ASSUME NEW i \in 0 .. msd.offset - 1
                PROVE  msd'.buffer[i] = media.store[msd.cbw.addr - msd.offset + i]
            <6>1. i \in Slots /\ i \in 0 .. r.n - 1 BY <1>5, <1>6, <3>2, Numbers DEF Slots
            <6>2. msd'.buffer[i] = media.store[r.addr + i]
              BY <1>9, <5>1, <6>1 DEF SlotsOf
            <6>3. r.addr = msd.cbw.addr - msd.offset
              BY <1>3, <1>4, <1>5, <1>6, <3>2, Numbers DEF Serving
            <6> QED BY <6>2, <6>3
          <5> QED BY <1>2, <4>1, <5>2 DEF Loaded
        <4>4. Part' = Part /\ InFlight' = InFlight /\ ~Sending' /\ Delivered'
          BY <1>2, <4>1, <4>2 DEF Part, InFlight, Sending, Delivered
        <4> QED BY <1>2, <1>5, <4>2, <4>3, <4>4 DEF Reading
      <3> QED BY <3>1, <3>2
    <2>3. Writing'
      <3>1. CASE Doing # "DATA_OUT" BY <1>1, <3>1 DEF Writing
      <3>2. CASE Doing = "DATA_OUT"
        <4>1. /\ host.cmd.op = "write" /\ host.cmd.want = host.cmd.len /\ rx.irp # "IN_PROGRESS"
              /\ msd.toWrite = 0 /\ host.sent = Part
          BY <1>3, <3>2, Numbers DEF Writing
        <4>2. ASSUME event = "COMPLETE" PROVE Stored(Part)'
          <5>1. media'.store = WrittenBy(r) BY <1>6, <1>8, <3>2, <4>2
          <5>2. ASSUME NEW k \in 0 .. Part - 1
                PROVE  media'.store[host.cmd.addr + k] = Data(host.tag, k)
            <6>0. PICK s \in Int : s = host.cmd.addr + k
              <7>1. host.cmd.addr \in Nat /\ k \in Int BY <1>4 DEF Serving
              <7> QED BY <7>1
            <6>1. /\ s \in 0 .. Sectors - 1 /\ s \in Int /\ s - host.cmd.addr = k
                  /\ s < r.addr + r.n
              <7>1. k \in 0 .. msd.cbw.addr - host.cmd.addr - 1 BY DEF Part
              <7>2. /\ host.cmd.addr \in Nat /\ msd.cbw.addr \in Nat /\ Sectors \in Nat
                    /\ msd.cbw.addr >= host.cmd.addr
                BY <1>4, Numbers DEF Serving
              <7>3. msd.cbw.addr <= Sectors BY <1>3, <1>5
              <7>4. r.addr + r.n = msd.cbw.addr /\ r.addr \in Nat /\ r.n \in Nat BY <1>3, <1>5
              <7> DEFINE a == host.cmd.addr
                         c == msd.cbw.addr
                         ra == r.addr
                         rn == r.n
              <7>6. /\ a \in Nat /\ c \in Nat /\ ra \in Nat /\ rn \in Nat /\ Sectors \in Nat
                    /\ c >= a /\ ra + rn = c /\ c <= Sectors /\ k \in 0 .. c - a - 1
                    /\ s = a + k
                BY <6>0, <7>1, <7>2, <7>3, <7>4
              <7> HIDE DEF a, c, ra, rn
              <7>5. /\ a + k \in 0 .. Sectors - 1 /\ a + k \in Int
                    /\ a + k - a = k /\ a + k < ra + rn
                BY <7>6, Passed
              <7> QED BY <7>5, <7>6 DEF a, ra, rn
            <6>2. ASSUME s < r.addr PROVE media'.store[s] = Data(host.tag, k)
              <7>1. k \in 0 .. r.addr - host.cmd.addr - 1 BY <1>4, <1>5, <6>0, <6>2 DEF Serving
              <7>2. media.store[s] = Data(host.tag, k) BY <1>6, <3>2, <6>0, <7>1 DEF Stored, Spared
              <7>3. media'.store[s] = media.store[s]
                <8>1. s \notin TargetsOf(r) BY <1>10, <6>1, <6>2 DEF TargetsOf
                <8> QED BY <1>9, <5>1, <6>1, <8>1
              <7> QED BY <7>2, <7>3
            <6>3. ASSUME ~(s < r.addr) PROVE media'.store[s] = Data(host.tag, k)
              <7>1. /\ s \in r.addr .. r.addr + r.n - 1 /\ s - r.addr \in 0 .. r.n - 1
                    /\ r.addr - host.cmd.addr + (s - r.addr) = k
                BY <1>4, <1>5, <6>0, <6>1, <6>3 DEF Serving
              <7>2. media'.store[s] = msd.buffer[s - r.addr]
                BY <1>9, <5>1, <6>1, <7>1 DEF TargetsOf
              <7>3. msd.buffer[s - r.addr] = Data(host.tag, k) BY <1>6, <3>2, <7>1 DEF Filled
              <7> QED BY <7>2, <7>3
            <6> QED BY <6>0, <6>2, <6>3
          <5>3. ASSUME NEW s \in 0 .. Sectors - 1
                PROVE  host.before[s] \in {None, media'.store[s]}
            <6>1. CASE s \in TargetsOf(r)
              <7>1. s \in SectorsOf(host.cmd) BY <1>11, <3>2, <6>1 DEF SectorsOf
              <7> QED BY <1>3, <4>1, <7>1 DEF Uncertain
            <6>2. CASE s \notin TargetsOf(r)
              <7>1. media'.store[s] = media.store[s] BY <1>9, <5>1, <6>2
              <7>2. host.before[s] \in {None, media.store[s]}
                BY <1>6, <3>2 DEF Stored, Spared
              <7> QED BY <7>1, <7>2
            <6> QED BY <6>1, <6>2
          <5>4. Spared' BY <1>2, <5>3 DEF Spared
          <5>5. \A k \in 0 .. Part' - 1 : media'.store[host'.cmd.addr + k] = Data(host'.tag, k)
            BY <1>2, <5>2 DEF Part
          <5> QED BY <5>4, <5>5 DEF Stored
        <4>3. Part' = Part BY <1>2 DEF Part
        <4> QED BY <1>2, <1>5, <4>1, <4>2, <4>3, Numbers DEF Writing
      <3> QED BY <3>1, <3>2
    <2>4. Requested' BY <1>1, <1>2 DEF Requested, Stored, Spared, Filled
    <2>5. Ending' BY <1>1, <1>3 DEF Ending
    <2>6. Answering' BY <1>1, <1>3 DEF Answering
    <2>7. Answered' BY <1>2, <1>4 DEF Answered, Sending, Serving
    <2>8. Disk'
      <3>1. ASSUME NEW s \in 0 .. Sectors - 1
            PROVE  host.disk[s] = None \/ media'.store[s] = media.store[s]
        <4>1. CASE r.op = "write" /\ s \in ErasedWith(TargetsOf(r))
          <5>1. Doing = "DATA_OUT" BY <1>3, <1>6, <4>1
          <5>2. s \in ErasedWith(SectorsOf(host.cmd))
            <6>1. TargetsOf(r) \subseteq 0 .. Sectors - 1
              BY <1>10, Within DEF TargetsOf
            <6>2. TargetsOf(r) \subseteq SectorsOf(host.cmd)
              BY <1>11, <5>1, <6>1 DEF SectorsOf
            <6> QED BY <4>1, <6>2, ErasedTogether
          <5> QED BY <1>3, <1>12, <5>1, <5>2 DEF Uncertain
        <4>2. CASE r.op = "write" /\ s \notin ErasedWith(TargetsOf(r))
          BY <1>8, <3>1, <4>2 DEF Disk
        <4>3. CASE r.op # "write"
          BY <1>6, <1>7, <1>3, <3>1, <4>3 DEF Disk
        <4> QED BY <4>1, <4>2, <4>3
      <3> QED BY <1>2, <3>1 DEF Disk
    <2> QED BY <2>1, <2>2, <2>3, <2>4, <2>5, <2>6, <2>7, <2>8
  <1> QED BY <1>13, <1>14, <1>15

LEMMA HostSendsCommandProtocol ==
    ASSUME Base, Protocol, HostSendsCommand
    PROVE  Protocol'
  <1> USE DEF Protocol, Control, Commanded, Content
  <1>1. /\ Base' /\ HostSendsCommandEffect
        /\ ReceivedEffect([host'.cmd EXCEPT !.tag = host'.tag])
        /\ Doing' = Doing
    BY HostSendsCommandBase
  <1>2. /\ task' = task /\ media' = media /\ configured' = configured /\ tx' = tx
        /\ host.phase = "idle" /\ host'.tag = host.tag + 1 /\ host'.sent = 0
        /\ host'.got = <<>> /\ host'.csw = None /\ host'.cmd \in Commands
        /\ host'.disk = Doubting(host'.cmd, ErasedWith(SectorsOf(host'.cmd)))
        /\ host'.before = Doubting(host'.cmd, SectorsOf(host'.cmd))
        /\ host'.phase = (IF host'.cmd.want = 0 THEN "status" ELSE "data")
        /\ rx.irp = "IN_PROGRESS" /\ rx'.irp = "COMPLETED" /\ rx'.stalled = rx.stalled
        /\ rx'.enabled = rx.enabled
    BY <1>1 DEF HostSendsCommandEffect, ReceivedEffect, TaskFrame, SameHost, Agree, HostFields,
       ReceivedEffect, Completed
  <1>3. /\ configured /\ ~Engaged /\ Done(tx) /\ rx.to = "CBW" /\ Doing = "CBW"
        /\ media.req = None
    BY <1>2 DEF AtRest, Attached, Engaged, Base, Receiving, Requested
  <1>4. /\ host'.cmd \in CommandBlock /\ msd'.cbw \in CommandBlock /\ msd'.cbw.tag = host'.tag
        /\ Agree(host'.cmd, msd'.cbw, {"type", "op", "addr", "len", "want", "dir"})
        /\ host'.cmd.dir = "in" <=> host'.cmd.op \in {"read", "capacity", "garbled"}
        /\ host'.cmd.op \notin {"read", "write"} =>
             (host'.cmd.want = 0 <=> host'.cmd.op = "ready")
    <2>1. host'.tag \in Nat BY <1>2, Numbers
    <2>2. msd'.cbw = [host'.cmd EXCEPT !.tag = host'.tag] BY <1>1, <1>3 DEF ReceivedEffect
    <2> QED BY <1>2, <2>1, <2>2, CommandTypes
  <1>5. /\ {host'.cmd.addr, host'.cmd.len, host'.cmd.want} \subseteq Nat
        /\ host'.cmd.dir \in {"in", "out"}
        /\ msd'.cbw.addr = host'.cmd.addr /\ msd'.cbw.len = host'.cmd.len /\ Len(host'.got) = 0
    BY <1>2, <1>4, CommandNumbers DEF Agree
  <1>6. msd'.state = msd.state /\ DOMAIN host.disk = 0 .. Sectors - 1
    BY <1>1, <1>3 DEF ReceivedEffect, SameMsd, Agree, MsdFields, Base, Typed, HostType
  <1>7. /\ Disk' /\ Spared'
        /\ host'.cmd.op = "write" =>
             /\ \A s \in SectorsOf(host'.cmd) : host'.before[s] = None
             /\ \A s \in ErasedWith(SectorsOf(host'.cmd)) : host'.disk[s] = None
    <2> DEFINE S == SectorsOf(host'.cmd)
               E == ErasedWith(S)
    <2>1. S \subseteq 0 .. Sectors - 1 /\ E \subseteq 0 .. Sectors - 1
      BY DEF SectorsOf, ErasedWith
    <2>2. host'.disk = Doubting(host'.cmd, E) /\ host'.before = Doubting(host'.cmd, S) BY <1>2
    <2> HIDE DEF S, E
    <2>3. Disk' BY <1>2, <1>6, <2>2 DEF Disk, Doubting
    <2>4. Spared' BY <1>2, <1>6, <2>2 DEF Disk, Spared, Doubting
    <2>5. host'.cmd.op = "write" => /\ \A s \in S : host'.before[s] = None
                                    /\ \A s \in E : host'.disk[s] = None
      BY <1>6, <2>1, <2>2 DEF Doubting
    <2> QED BY <2>3, <2>4, <2>5 DEF S, E
  <1>8. Control'
    <2>1. Attached' BY <1>1, <1>2 DEF Attached, Done
    <2>2. CallKept' BY <1>2, <1>3, <1>6 DEF CallKept, ReadyToSend, Done
    <2>3. AtRest' BY <1>1, <1>2 DEF AtRest, Engaged, Done
    <2>4. Held' BY <1>1, <1>2 DEF Held
    <2>5. Going' BY <1>1, <1>2, <1>4, <1>5 DEF Going, Early
    <2>6. Unstalled' BY <1>1, <1>2 DEF Unstalled, Early
    <2>7. Stalls' BY <1>1, <1>2 DEF Stalls, Sending
    <2>8. StatusSent' BY <1>1, <1>2 DEF StatusSent, Sending
    <2>9. DataSent' BY <1>1, <1>2 DEF DataSent, Sending
    <2>10. DataPhase' BY <1>1, <1>2, <1>3 DEF DataPhase, Engaged
    <2> QED BY <2>1, <2>2, <2>3, <2>4, <2>5, <2>6, <2>7, <2>8, <2>9, <2>10
  <1>9. Commanded'
    <2>1. SaneCmd' BY <1>4 DEF SaneCmd
    <2>2. Matches' BY <1>1, <1>2, <1>4, <1>5 DEF Matches, Agree
    <2>3. Uncertain' BY <1>7 DEF Uncertain
    <2>4. Verifying' BY <1>2, <1>5, <1>7 DEF Verifying
    <2>5. Processing' BY <1>1, <1>2, <1>3 DEF Processing
    <2> QED BY <2>1, <2>2, <2>3, <2>4, <2>5
  <1>10. Content'
    <2>1. GotPayload' BY <1>1, <1>2 DEF GotPayload
    <2>2. Reading' BY <1>1, <1>2, <1>3 DEF Reading
    <2>3. Writing' BY <1>1, <1>2, <1>3 DEF Writing
    <2>4. Requested' BY <1>1, <1>2, <1>3 DEF Requested
    <2>5. Ending' BY <1>1, <1>2, <1>3 DEF Ending
    <2>6. Answering' BY <1>1, <1>2, <1>3 DEF Answering
    <2>7. Answered' BY <1>1, <1>2, <1>3 DEF Answered, Sending, Done
    <2>8. Disk' BY <1>7
    <2> QED BY <2>1, <2>2, <2>3, <2>4, <2>5, <2>6, <2>7, <2>8
  <1> QED BY <1>8, <1>9, <1>10

LEMMA HostSendsDataProtocol ==
    ASSUME Base, Protocol, HostSendsData
    PROVE  Protocol'
  <1> USE DEF Protocol, Control, Commanded, Content
  <1>1. /\ Base' /\ HostSendsDataEffect /\ ReceivedEffect(Data(host.tag, host.sent))
        /\ Doing' = Doing
    BY HostSendsDataBase
  <1>2. /\ task' = task /\ media' = media /\ configured' = configured /\ tx' = tx
        /\ host.phase = "data" /\ host.cmd.dir = "out" /\ host'.sent = host.sent + 1
        /\ host'.phase \in {"data", "status"} /\ host'.cmd = host.cmd /\ host'.tag = host.tag
        /\ host'.got = host.got /\ host'.csw = host.csw /\ host'.retried = host.retried
        /\ host'.giveUps = host.giveUps /\ host'.disk = host.disk
        /\ host'.before = host.before /\ rx.irp = "IN_PROGRESS"
        /\ rx'.irp = "COMPLETED" /\ rx'.stalled = rx.stalled /\ rx'.enabled = rx.enabled
    BY <1>1 DEF HostSendsDataEffect, ReceivedEffect, TaskFrame, SameHost, Agree, HostFields,
       ReceivedEffect, Completed
  <1>3. /\ configured /\ Engaged /\ rx.to # "CBW" /\ Doing = "DATA_OUT"
    BY <1>2 DEF DataPhase, Attached, Engaged, Base, Receiving
  <1>4. Serving
    BY <1>3, Serves
  <1>5. /\ msd'.state = msd.state /\ msd'.cbw = msd.cbw /\ msd'.csw = msd.csw
        /\ msd'.media = msd.media
        /\ msd'.offset = msd.offset /\ msd'.usbSectors = msd.usbSectors
        /\ msd'.toWrite = msd.toWrite
        /\ msd'.buffer = [msd.buffer EXCEPT ![rx.slot] = Data(host.tag, host.sent)]
    BY <1>1, <1>3 DEF ReceivedEffect, SameMsd, Agree, MsdFields
  <1>6. /\ host.cmd.op = "write" /\ host.cmd.want = host.cmd.len /\ msd.toWrite > 0
        /\ rx.slot = msd.offset - 1
        /\ msd.media = "IDLE" /\ host.sent + 1 = Part + msd.offset /\ Filled(msd.offset - 1, Part)
        /\ Stored(Part) /\ media.req = None
    BY <1>2, <1>3, Numbers DEF Writing, Awaited, Requested
  <1>7. Control'
    <2>1. Attached' BY <1>1, <1>2 DEF Attached, Done
    <2>2. CallKept' BY <1>1, <1>2, <1>3, <1>5 DEF CallKept, ReadyToSend, Done, Early
    <2>3. AtRest' BY <1>2, <1>4 DEF AtRest, Serving
    <2>4. Held' BY <1>1, <1>2 DEF Held
    <2>5. Going' BY <1>1, <1>2 DEF Going, Early
    <2>6. Unstalled' BY <1>1, <1>2 DEF Unstalled, Early
    <2>7. Stalls' BY <1>1, <1>2 DEF Stalls, Sending
    <2>8. StatusSent' BY <1>2, <1>4 DEF StatusSent, Sending, Serving
    <2>9. DataSent' BY <1>1, <1>2 DEF DataSent, Sending
    <2>10. DataPhase' BY <1>1, <1>2 DEF DataPhase, Engaged
    <2> QED BY <2>1, <2>2, <2>3, <2>4, <2>5, <2>6, <2>7, <2>8, <2>9, <2>10
  <1>8. Commanded'
    <2>1. SaneCmd' BY <1>1, <1>2 DEF SaneCmd
    <2>2. Matches' BY <1>2, <1>4, <1>5 DEF Matches, Agree, Serving
    <2>3. Uncertain' BY <1>2, <1>3 DEF Uncertain, SectorsOf
    <2>4. Verifying' BY <1>1, <1>2, <1>3 DEF Verifying, Spared
    <2>5. Processing' BY <1>1, <1>2, <1>3 DEF Processing
    <2> QED BY <2>1, <2>2, <2>3, <2>4, <2>5
  <1>9. Content'
    <2>1. GotPayload' BY <1>1, <1>2 DEF GotPayload
    <2>2. Reading' BY <1>1, <1>2, <1>3 DEF Reading
    <2>3. Writing'
      <3>1. Part' = Part /\ Awaited' = 0 BY <1>2, <1>5 DEF Part, Awaited
      <3>2. Part \in Nat BY <1>4 DEF Part, Serving
      <3>3. Filled(msd.offset, Part)'
        <4>1. ASSUME NEW i \in 0 .. msd.offset - 1 PROVE msd'.buffer[i] = Data(host.tag, Part + i)
          <5>1. msd.buffer \in [Slots -> Payload] /\ rx.slot \in Slots
            BY DEF Base, Typed, MsdType, EndpointType
          <5>2. CASE i = msd.offset - 1
            <6>1. Part + i = host.sent
              <7>1. host.sent + 1 = Part + msd.offset BY <1>6
              <7>2. host.sent \in Nat /\ msd.offset \in Nat BY Numbers
              <7>3. Part + (msd.offset - 1) = host.sent BY <3>2, <7>1, <7>2, OneReceived
              <7> QED BY <5>2, <7>3
            <6>2. i = rx.slot BY <1>6, <5>2
            <6> QED BY <1>5, <5>1, <6>1, <6>2
          <5>3. CASE i # msd.offset - 1
            <6>1. i # rx.slot /\ i \in 0 .. msd.offset - 1 - 1
              <7>1. rx.slot = msd.offset - 1 BY <1>6
              <7>2. msd.offset \in Nat BY Numbers
              <7> QED BY <5>3, <7>1, <7>2
            <6>2. msd.buffer[i] = Data(host.tag, Part + i) BY <1>6, <6>1 DEF Filled
            <6>3. msd'.buffer[i] = msd.buffer[i] BY <1>5, <5>1, <6>1
            <6> QED BY <6>2, <6>3
          <5> QED BY <5>2, <5>3
        <4> QED BY <1>2, <1>5, <3>1, <4>1 DEF Filled
      <3>4. host'.sent + Awaited' = Part' + msd'.offset
        BY <1>2, <1>5, <1>6, <3>1, <3>2, Numbers
      <3>5. Stored(Part)' BY <1>2, <1>6, <3>1 DEF Stored, Spared
      <3>6. Filled(msd.offset - Awaited, Part)' BY <1>5, <3>1, <3>3, Numbers DEF Filled
      <3> QED BY <1>2, <1>5, <1>6, <3>4, <3>5, <3>6 DEF Writing
    <2>4. Requested' BY <1>2, <1>6 DEF Requested
    <2>5. Ending' BY <1>1, <1>2, <1>3 DEF Ending
    <2>6. Answering' BY <1>1, <1>2, <1>3 DEF Answering
    <2>7. Answered' BY <1>2, <1>4 DEF Answered, Sending, Serving
    <2>8. Disk' BY <1>1, <1>2 DEF Disk
    <2> QED BY <2>1, <2>2, <2>3, <2>4, <2>5, <2>6, <2>7, <2>8
  <1> QED BY <1>7, <1>8, <1>9

LEMMA HostReceivesDataProtocol ==
    ASSUME Base, Protocol, HostReceivesData
    PROVE  Protocol'
  <1> USE DEF Protocol, Control, Commanded, Content
  <1>1. /\ Base' /\ HostReceivesDataEffect
        /\ Doing' = Doing
    BY HostReceivesDataBase
  <1>2. /\ task' = task /\ media' = media /\ configured' = configured /\ rx' = rx
        /\ msd' = msd /\ host.phase = "data" /\ host.cmd.dir = "in"
        /\ host'.got = Append(host.got, Sent)
        /\ host'.phase = (IF Len(host.got) + 1 = host.cmd.want THEN "status" ELSE "data")
        /\ host'.cmd = host.cmd /\ host'.tag = host.tag /\ host'.sent = host.sent
        /\ host'.csw = host.csw /\ host'.retried = host.retried
        /\ host'.giveUps = host.giveUps /\ host'.disk = host.disk
        /\ host'.before = host.before /\ tx.irp = "IN_PROGRESS"
        /\ tx'.irp = "COMPLETED" /\ tx'.stalled = tx.stalled /\ tx'.enabled = tx.enabled
        /\ ~tx.halt
    BY <1>1 DEF HostReceivesDataEffect, TaskFrame, SameHost, Agree, HostFields, Completed
  <1>3. /\ configured /\ Sending /\ tx.to # "CSW"
        /\ Doing = "DATA_IN" \/ (Doing = "CSW" /\ host.cmd.op = "capacity")
    BY <1>2 DEF StatusSent, DataSent, Attached, Sending
  <1>4. Serving
    BY <1>3, Serves DEF Engaged
  <1>5. /\ Len(host'.got) = Len(host.got) + 1 /\ Len(host.got) \in Nat
        /\ \A i \in 1 .. Len(host.got) : host'.got[i] = host.got[i]
        /\ host'.got[Len(host.got) + 1] = msd.buffer[tx.slot] /\ msd.buffer[tx.slot] \in Payload
    <2>1. host.got \in Seq(Packet) BY DEF Base, Typed, HostType
    <2>2. Sent \in Packet /\ Sent = msd.buffer[tx.slot] /\ Sent \in Payload
      BY <1>3, SentIs DEF Base
    <2> QED BY <1>2, <2>1, <2>2
  <1>6. Control'
    <2>1. Attached' BY <1>1, <1>2 DEF Attached, Done
    <2>2. CallKept' BY <1>1, <1>2 DEF CallKept, ReadyToSend, Done, Early, Sending
    <2>3. AtRest' BY <1>1, <1>2 DEF AtRest, Engaged, Done
    <2>4. Held' BY <1>1, <1>2 DEF Held
    <2>5. Going' BY <1>1, <1>2, <1>5 DEF Going, Early
    <2>6. Unstalled' BY <1>1, <1>2 DEF Unstalled, Early
    <2>7. Stalls' BY <1>1, <1>2 DEF Stalls, Sending
    <2>8. StatusSent' BY <1>1, <1>2 DEF StatusSent, Sending
    <2>9. DataSent' BY <1>1, <1>2 DEF DataSent, Sending
    <2>10. DataPhase' BY <1>1, <1>2 DEF DataPhase, Engaged
    <2> QED BY <2>1, <2>2, <2>3, <2>4, <2>5, <2>6, <2>7, <2>8, <2>9, <2>10
  <1>7. Commanded'
    <2>1. SaneCmd' BY <1>1, <1>2 DEF SaneCmd
    <2>2. Matches' BY <1>1, <1>2 DEF Matches, Engaged, Agree
    <2>3. Uncertain' BY <1>1, <1>2 DEF Uncertain, Engaged, SectorsOf, ErasedWith
    <2>4. Verifying' BY <1>1, <1>3 DEF Verifying, Spared
    <2>5. Processing' BY <1>1, <1>3 DEF Processing
    <2> QED BY <2>1, <2>2, <2>3, <2>4, <2>5
  <1>8. Content'
    <2>1. GotPayload'
      <3>1. ASSUME NEW i \in 1 .. Len(host'.got) PROVE host'.got[i] \in Payload
        <4>1. i \in 1 .. Len(host.got) \/ i = Len(host.got) + 1 BY <1>5
        <4> QED BY <1>5, <4>1 DEF GotPayload
      <3> QED BY <3>1 DEF GotPayload
    <2>2. Reading'
      <3>1. CASE Doing # "DATA_IN" BY <1>1, <3>1 DEF Reading
      <3>2. CASE Doing = "DATA_IN"
        <4>1. /\ host.cmd.op = "read" /\ host.cmd.want = host.cmd.len
              /\ msd.total + (msd.offset - msd.pending) = Part
              /\ Len(host.got) + 1 = msd.total /\ Delivered /\ Loaded
              /\ msd.media = "COMPLETE" /\ msd.pending > 0 /\ tx.slot = msd.pending - 1
          BY <1>3, <3>2, Numbers DEF Reading, InFlight
        <4>2. Part' = Part /\ InFlight' = 0 /\ ~Sending' /\ Loaded'
          BY <1>2, <4>1 DEF Part, InFlight, Sending, Loaded
        <4>3. Len(host'.got) + InFlight' = msd'.total BY <1>2, <1>5, <4>1, <4>2, Numbers
        <4>4. msd.buffer[tx.slot] = media.store[host.cmd.addr + (Len(host.got) + 1) - 1]
          <5>1. msd.pending <= msd.offset BY <3>2 DEF Base, Counted
          <5>2. tx.slot \in 0 .. msd.offset - 1
            <6>1. msd.pending \in Nat /\ msd.offset \in Nat BY Numbers
            <6>2. msd.pending - 1 \in 0 .. msd.offset - 1 BY <4>1, <5>1, <6>1, LastOf
            <6> QED BY <4>1, <6>2
          <5>3. msd.buffer[tx.slot] = media.store[msd.cbw.addr - msd.offset + tx.slot]
            BY <4>1, <5>2 DEF Loaded
          <5>4. msd.cbw.addr - msd.offset + tx.slot = host.cmd.addr + (Len(host.got) + 1) - 1
            <6> DEFINE a == host.cmd.addr
                       c == msd.cbw.addr
                       o == msd.offset
                       p == msd.pending
                       g == Len(host.got)
            <6>1. a \in Nat /\ c \in Nat BY <1>4 DEF Serving
            <6>2. o \in Nat /\ p \in Nat /\ g \in Nat BY Numbers
            <6>3. (g + 1) + (o - p) = c - a BY <4>1 DEF Part
            <6>4. tx.slot = p - 1 BY <4>1
            <6> HIDE DEF a, c, o, p, g
            <6>5. c - o + (p - 1) = a + (g + 1) - 1 BY <6>1, <6>2, <6>3, NextSector
            <6>6. c - o + tx.slot = a + (g + 1) - 1 BY <6>4, <6>5
            <6> QED BY <6>6, Zenon DEF a, c, o, g
          <5> QED BY <5>3, <5>4
        <4>5. Delivered'
          <5>1. ASSUME NEW i \in 1 .. Len(host.got) + 1
                PROVE  host'.got[i] = media.store[host.cmd.addr + i - 1]
            <6>1. i \in 1 .. Len(host.got) \/ i = Len(host.got) + 1 BY <1>5
            <6> QED BY <1>5, <4>1, <4>4, <6>1 DEF Delivered
          <5> QED BY <1>2, <1>5, <5>1 DEF Delivered
        <4> QED BY <1>2, <4>1, <4>2, <4>3, <4>5 DEF Reading
      <3> QED BY <3>1, <3>2
    <2>3. Writing' BY <1>1, <1>2 DEF Writing, Stored, Spared, Filled, Part, Awaited
    <2>4. Requested' BY <1>1, <1>2 DEF Requested, Stored, Spared, Filled
    <2>5. Ending'
      <3>1. CASE Doing # "CSW" BY <1>1, <3>1 DEF Ending
      <3>2. CASE Doing = "CSW"
        <4>1. host.cmd.op = "capacity" /\ Len(host.got) + 1 = msd.total
          BY <1>2, <1>3, <3>2 DEF Ending, InFlight
        <4>2. InFlight' = 0 BY <1>2 DEF InFlight, Sending
        <4>3. Len(host'.got) + InFlight' = msd'.total BY <1>2, <1>5, <4>1, <4>2
        <4> QED BY <1>2, <4>1, <4>3 DEF Ending
      <3> QED BY <3>1, <3>2
    <2>6. Answering' BY <1>1, <1>2 DEF Answering, Done, Telling, Tells, FullRead, Stored, Spared
    <2>7. Answered' BY <1>2, <1>4 DEF Answered, Sending, Serving
    <2>8. Disk' BY <1>1, <1>2 DEF Disk
    <2> QED BY <2>1, <2>2, <2>3, <2>4, <2>5, <2>6, <2>7, <2>8
  <1> QED BY <1>6, <1>7, <1>8

LEMMA HostReceivesStatusProtocol ==
    ASSUME Base, Protocol, HostReceivesStatus
    PROVE  Protocol'
  <1> USE DEF Protocol, Control, Commanded, Content
  <1>1. /\ Base' /\ HostReceivesStatusEffect
        /\ Doing' = Doing
    BY HostReceivesStatusBase
  <1>2. /\ task' = task /\ media' = media /\ configured' = configured /\ rx' = rx
        /\ msd' = msd /\ host.phase = "status" /\ host'.phase = "idle" /\ host'.csw = Sent
        /\ host'.disk = Certain(host.cmd, Sent) /\ host'.cmd = host.cmd
        /\ host'.tag = host.tag /\ host'.sent = host.sent /\ host'.got = host.got
        /\ host'.retried = host.retried /\ host'.giveUps = host.giveUps
        /\ host'.before = host.before
        /\ tx.irp = "IN_PROGRESS" /\ tx'.irp = "COMPLETED" /\ tx'.stalled = tx.stalled
        /\ tx'.enabled = tx.enabled /\ ~tx.halt
    BY <1>1 DEF HostReceivesStatusEffect, TaskFrame, SameHost, Agree, HostFields, Completed
  <1>3. /\ configured /\ ~Engaged /\ Sent = msd.csw /\ Tells(msd.csw) /\ media.req = None
    <2>1. tx.to = "CSW" /\ configured BY <1>2 DEF DataSent, Attached, Sending
    <2>2. Doing = "WAIT_FOR_CBW" \/ (Doing = "CBW" /\ rx.irp # "COMPLETED")
      BY <1>2, <2>1 DEF StatusSent, Sending
    <2> QED BY <1>2, <2>1, <2>2, SentIs DEF Engaged, Answered, Telling, Sending, Requested, Base
  <1>4. Doing \notin {"PROCESS_CBW", "DATA_IN", "DATA_OUT", "CSW", "SEND_CSW"} /\ ~Early
    BY <1>3 DEF Engaged, Early
  <1>5. DOMAIN host.disk = 0 .. Sectors - 1
    BY DEF Base, Typed, HostType
  <1>6. Control'
    <2>1. Attached' BY <1>1, <1>2 DEF Attached, Done
    <2>2. CallKept' BY <1>1, <1>2 DEF CallKept, ReadyToSend, Done, Early, Sending
    <2>3. AtRest' BY <1>1, <1>2, <1>3, <1>4 DEF AtRest, Engaged, Done
    <2>4. Held' BY <1>1, <1>2 DEF Held
    <2>5. Going' BY <1>1, <1>2, <1>3, <1>4 DEF Going, Early
    <2>6. Unstalled' BY <1>1, <1>2 DEF Unstalled, Early
    <2>7. Stalls' BY <1>1, <1>2 DEF Stalls, Sending
    <2>8. StatusSent' BY <1>1, <1>2 DEF StatusSent, Sending
    <2>9. DataSent' BY <1>1, <1>2 DEF DataSent, Sending
    <2>10. DataPhase' BY <1>1, <1>2 DEF DataPhase, Engaged
    <2> QED BY <2>1, <2>2, <2>3, <2>4, <2>5, <2>6, <2>7, <2>8, <2>9, <2>10
  <1>7. Commanded'
    <2>1. SaneCmd' BY <1>1, <1>2 DEF SaneCmd
    <2>2. Matches' BY <1>1, <1>2, <1>3, <1>4 DEF Matches, Engaged
    <2>3. Uncertain' BY <1>1, <1>2, <1>3, <1>4 DEF Uncertain, Engaged
    <2>4. Verifying' BY <1>1, <1>2 DEF Verifying, Spared
    <2>5. Processing' BY <1>1, <1>2, <1>3, <1>4 DEF Processing
    <2> QED BY <2>1, <2>2, <2>3, <2>4, <2>5
  <1>8. Content'
    <2>1. GotPayload' BY <1>1, <1>2 DEF GotPayload
    <2>2. Reading' BY <1>1, <1>2, <1>3, <1>4 DEF Reading
    <2>3. Writing' BY <1>1, <1>2, <1>3, <1>4 DEF Writing
    <2>4. Requested' BY <1>1, <1>2 DEF Requested, Stored, Spared, Filled
    <2>5. Ending' BY <1>1, <1>2, <1>3, <1>4 DEF Ending
    <2>6. Answering' BY <1>1, <1>2, <1>3, <1>4 DEF Answering
    <2>7. Answered' BY <1>2, <1>3 DEF Answered, Sending, Tells, FullRead, Stored, Spared
    <2>8. Disk'
      <3>1. ASSUME NEW s \in 0 .. Sectors - 1 PROVE host'.disk[s] \in {None, media.store[s]}
        <4>1. CASE host'.disk[s] = host.disk[s] BY <3>1, <4>1 DEF Disk
        <4>2. CASE host'.disk[s] # host.disk[s]
          <5>1. /\ host.cmd.op = "write" /\ msd.csw.status = "PASSED"
                /\ host'.disk[s] = (IF s \in SectorsOf(host.cmd)
                                     THEN Data(host.tag, s - host.cmd.addr) ELSE host.before[s])
            BY <1>2, <1>3, <1>5, <4>2 DEF Certain
          <5>2. Stored(host.cmd.len) /\ host.cmd \in CommandBlock BY <1>3, <5>1 DEF Tells
          <5>3. CASE s \in SectorsOf(host.cmd)
            <6>1. host.cmd.addr \in Nat /\ host.cmd.len \in Nat BY <5>2, CommandNumbers
            <6>2. s - host.cmd.addr \in 0 .. host.cmd.len - 1
              BY <5>3, <6>1, Within DEF SectorsOf
            <6>3. host.cmd.addr + (s - host.cmd.addr) = s BY <5>3, <6>1, Within DEF SectorsOf
            <6> QED BY <5>1, <5>2, <5>3, <6>2, <6>3 DEF Stored
          <5>4. CASE s \notin SectorsOf(host.cmd)
            BY <3>1, <5>1, <5>2, <5>4 DEF Stored, Spared
          <5> QED BY <5>3, <5>4
        <4> QED BY <4>1, <4>2
      <3> QED BY <1>2, <3>1 DEF Disk
    <2> QED BY <2>1, <2>2, <2>3, <2>4, <2>5, <2>6, <2>7, <2>8
  <1> QED BY <1>6, <1>7, <1>8

LEMMA HostMeetsHaltProtocol ==
    ASSUME Base, Protocol, HostMeetsHalt
    PROVE  Protocol'
  <1> USE DEF Protocol, Control, Commanded, Content
  <1>1. /\ Base' /\ HostMeetsHaltEffect
        /\ Doing' = Doing
    BY HostMeetsHaltBase
  <1>2. /\ task' = task /\ media' = media /\ configured' = configured /\ rx' = rx /\ tx' = tx
        /\ msd' = msd
        /\ \/ host.phase = "idle" /\ rx.halt /\ host'.phase = "reset"
           \/ host.phase = "data" /\ host.cmd.dir = "in" /\ tx.halt /\ host'.phase = "clearIn"
           \/ host.phase = "data" /\ host.cmd.dir = "out" /\ rx.halt /\ host'.phase = "clearOut"
           \/ host.phase = "status" /\ tx.halt /\ host'.phase \in {"clearIn", "reset"}
        /\ host'.cmd = host.cmd /\ host'.tag = host.tag /\ host'.sent = host.sent
        /\ host'.got = host.got /\ host'.csw = host.csw /\ host'.giveUps = host.giveUps
        /\ host'.disk = host.disk /\ host'.before = host.before
    BY <1>1 DEF HostMeetsHaltEffect, TaskFrame, SameHost, Agree, HostFields
  <1>3. /\ rx.halt => rx.stalled
        /\ tx.halt => tx.stalled
    BY DEF Base, Limited
  <1>4. host.phase \in {"data", "status"} => ~Early
    BY <1>2, <1>3 DEF Unstalled
  <1>5. tx.halt => ~Sending
    BY <1>3 DEF Stalls
  <1>6. Control'
    <2>1. Attached' BY <1>1, <1>2 DEF Attached, Done
    <2>2. CallKept' BY <1>1, <1>2 DEF CallKept, ReadyToSend, Done, Early, Sending
    <2>3. AtRest' BY <1>1, <1>2 DEF AtRest, Engaged, Done
    <2>4. Held' BY <1>1, <1>2 DEF Held
    <2>5. Going' BY <1>1, <1>2, <1>4 DEF Going, Early, AtRest, Engaged, Attached
    <2>6. Unstalled' BY <1>1, <1>2 DEF Unstalled, Early
    <2>7. Stalls' BY <1>1, <1>2, <1>3 DEF Stalls, Sending
    <2>8. StatusSent' BY <1>1, <1>2, <1>5 DEF StatusSent, Sending
    <2>9. DataSent' BY <1>1, <1>2, <1>4, <1>5 DEF DataSent, Early, Sending
    <2>10. DataPhase' BY <1>1, <1>2 DEF DataPhase, Engaged
    <2> QED BY <2>1, <2>2, <2>3, <2>4, <2>5, <2>6, <2>7, <2>8, <2>9, <2>10
  <1>7. Commanded'
    <2>1. SaneCmd' BY <1>1, <1>2 DEF SaneCmd
    <2>2. Matches' BY <1>1, <1>2 DEF Matches, Engaged, Agree
    <2>3. Uncertain' BY <1>1, <1>2 DEF Uncertain, Engaged, SectorsOf, ErasedWith
    <2>4. Verifying' BY <1>1, <1>2 DEF Verifying, Spared
    <2>5. Processing' BY <1>1, <1>2 DEF Processing, Done
    <2> QED BY <2>1, <2>2, <2>3, <2>4, <2>5
  <1>8. Content'
    <2>1. GotPayload' BY <1>1, <1>2 DEF GotPayload
    <2>2. Reading' BY <1>1, <1>2, <1>4 DEF Reading, Early, AtRest, Engaged, Attached
    <2>3. Writing' BY <1>1, <1>2 DEF Writing, Stored, Spared, Filled, Part, Awaited
    <2>4. Requested' BY <1>1, <1>2 DEF Requested, Stored, Spared, Filled
    <2>5. Ending' BY <1>1, <1>2, <1>4 DEF Ending, Early, AtRest, Engaged, Attached
    <2>6. Answering' BY <1>1, <1>2 DEF Answering, Done, Telling, Tells, FullRead, Stored, Spared
    <2>7. Answered' BY <1>1, <1>2 DEF Answered, Sending, Telling, Tells, FullRead, Stored, Spared
    <2>8. Disk' BY <1>1, <1>2 DEF Disk
    <2> QED BY <2>1, <2>2, <2>3, <2>4, <2>5, <2>6, <2>7, <2>8
  <1> QED BY <1>6, <1>7, <1>8

LEMMA HostClearsHaltProtocol ==
    ASSUME Base, Protocol, HostClearsHalt
    PROVE  Protocol'
  <1> USE DEF Protocol, Control, Commanded, Content
  <1>1. /\ Base' /\ HostClearsHaltEffect
        /\ Doing' = Doing
    BY HostClearsHaltBase
  <1>2. /\ task' = task /\ media' = media /\ configured' = configured /\ msd' = msd
        /\ host'.cmd = host.cmd /\ host'.tag = host.tag /\ host'.sent = host.sent
        /\ host'.got = host.got /\ host'.csw = host.csw /\ host'.retried = host.retried
        /\ host'.giveUps = host.giveUps /\ host'.disk = host.disk /\ host'.before = host.before
    BY <1>1 DEF HostClearsHaltEffect, TaskFrame, SameHost, Agree, HostFields
  <1>3. /\ \/ host.phase = "clearIn" /\ host'.phase = "status" /\ ~tx'.stalled /\ rx' = rx
           \/ host.phase = "resetIn" /\ host'.phase = "resetOut" /\ ~tx'.stalled /\ rx' = rx
           \/ host.phase = "clearOut" /\ host'.phase = "status" /\ ~rx'.stalled /\ tx' = tx
           \/ host.phase = "resetOut" /\ host'.phase = "idle" /\ ~rx'.stalled /\ tx' = tx
        /\ tx' = tx \/ tx'.irp # "IN_PROGRESS"
        /\ rx' = rx \/ rx'.irp # "IN_PROGRESS"
        /\ tx.irp # "IN_PROGRESS" => tx'.irp # "IN_PROGRESS"
        /\ rx'.irp = "COMPLETED" <=> rx.irp = "COMPLETED"
        /\ rx'.enabled = rx.enabled /\ tx'.enabled = tx.enabled
    BY <1>1 DEF HostClearsHaltEffect, Cleared, Aborted
  <1>4. /\ configured /\ ~Early
        /\ Doing \notin {"PROCESS_CBW", "DATA_IN", "DATA_OUT", "CSW"}
    BY <1>3 DEF Attached, Going, Early
  <1>5. host.phase \in {"clearIn", "clearOut"} =>
          Doing # "CBW" /\ task.at # "WAIT_FOR_CBW"
    BY <1>4 DEF Unstalled, Stalls
  <1>6. Control'
    <2>1. Attached' BY <1>1, <1>2, <1>3, <1>4 DEF Attached, Done
    <2>2. CallKept'
      <3>1. tx.irp # "IN_PROGRESS" => tx'.irp # "IN_PROGRESS" BY <1>3
      <3>2. ~tx.stalled => ~tx'.stalled BY <1>3
      <3> QED BY <1>1, <1>2, <1>3, <1>4, <3>1, <3>2 DEF CallKept, ReadyToSend, Done, Early
    <2>3. AtRest' BY <1>1, <1>2, <1>3, <1>4 DEF AtRest, Engaged, Done, Held
    <2>4. Held' BY <1>1, <1>2, <1>3 DEF Held
    <2>5. Going' BY <1>1, <1>2, <1>3, <1>4 DEF Going, Early
    <2>6. Unstalled' BY <1>1, <1>2, <1>3, <1>4, <1>5 DEF Unstalled, Early, Stalls
    <2>7. Stalls' BY <1>1, <1>2, <1>3 DEF Stalls, Sending
    <2>8. StatusSent' BY <1>1, <1>2, <1>3, <1>4 DEF StatusSent, Sending, AtRest, Done
    <2>9. DataSent' BY <1>1, <1>2, <1>3, <1>4 DEF DataSent, Sending
    <2>10. DataPhase' BY <1>1, <1>2, <1>3 DEF DataPhase, Engaged
    <2> QED BY <2>1, <2>2, <2>3, <2>4, <2>5, <2>6, <2>7, <2>8, <2>9, <2>10
  <1>7. Commanded'
    <2>1. SaneCmd' BY <1>1, <1>2 DEF SaneCmd
    <2>2. Matches' BY <1>1, <1>2, <1>3, <1>4 DEF Matches, Engaged, Agree, AtRest
    <2>3. Uncertain' BY <1>1, <1>2, <1>3, <1>4 DEF Uncertain, Engaged, SectorsOf, ErasedWith
    <2>4. Verifying' BY <1>1, <1>2, <1>3, <1>4 DEF Verifying, Spared, Early
    <2>5. Processing' BY <1>1, <1>2, <1>3, <1>4 DEF Processing
    <2> QED BY <2>1, <2>2, <2>3, <2>4, <2>5
  <1>8. Content'
    <2>1. GotPayload' BY <1>1, <1>2 DEF GotPayload
    <2>2. Reading' BY <1>1, <1>2, <1>3, <1>4 DEF Reading
    <2>3. Writing' BY <1>1, <1>2, <1>3, <1>4 DEF Writing
    <2>4. Requested' BY <1>1, <1>2 DEF Requested, Stored, Spared, Filled
    <2>5. Ending' BY <1>1, <1>2, <1>3, <1>4 DEF Ending
    <2>6. Answering'
      BY <1>1, <1>2, <1>3, <1>4 DEF Answering, Done, Telling, Tells, FullRead, Stored, Spared
    <2>7. Answered'
      BY <1>1, <1>2, <1>3 DEF Answered, Sending, Telling, Tells, FullRead, Stored, Spared
    <2>8. Disk' BY <1>1, <1>2 DEF Disk
    <2> QED BY <2>1, <2>2, <2>3, <2>4, <2>5, <2>6, <2>7, <2>8
  <1> QED BY <1>6, <1>7, <1>8

LEMMA HostGivesUpProtocol ==
    ASSUME Base, Protocol, HostGivesUp
    PROVE  Protocol'
  <1> USE DEF Protocol, Control, Commanded, Content
  <1>1. /\ Base' /\ HostGivesUpEffect
        /\ Doing' = Doing
    BY HostGivesUpBase
  <1>2. /\ task' = task /\ media' = media /\ configured' = configured /\ rx' = rx /\ tx' = tx
        /\ msd' = msd /\ host.phase \in {"idle", "data", "status"} /\ host'.phase = "reset"
        /\ host'.cmd = host.cmd /\ host'.tag = host.tag /\ host'.sent = host.sent
        /\ host'.got = host.got /\ host'.csw = host.csw /\ host'.retried = host.retried
        /\ host'.disk = host.disk /\ host'.before = host.before
    BY <1>1 DEF HostGivesUpEffect, TaskFrame, SameHost, Agree, HostFields
  <1>3. Control'
    <2>1. Attached' BY <1>1, <1>2 DEF Attached, Done
    <2>2. CallKept' BY <1>1, <1>2 DEF CallKept, ReadyToSend, Done, Early, Sending
    <2>3. AtRest' BY <1>1, <1>2 DEF AtRest, Engaged, Done
    <2>4. Held' BY <1>1, <1>2 DEF Held
    <2>5. Going' BY <1>1, <1>2 DEF Going, Early
    <2>6. Unstalled' BY <1>1, <1>2 DEF Unstalled, Early
    <2>7. Stalls' BY <1>1, <1>2 DEF Stalls, Sending
    <2>8. StatusSent' BY <1>1, <1>2 DEF StatusSent, Sending
    <2>9. DataSent' BY <1>1, <1>2 DEF DataSent, Sending
    <2>10. DataPhase' BY <1>1, <1>2 DEF DataPhase, Engaged
    <2> QED BY <2>1, <2>2, <2>3, <2>4, <2>5, <2>6, <2>7, <2>8, <2>9, <2>10
  <1>4. Commanded'
    <2>1. SaneCmd' BY <1>1, <1>2 DEF SaneCmd
    <2>2. Matches' BY <1>1, <1>2 DEF Matches, Engaged, Agree
    <2>3. Uncertain' BY <1>1, <1>2 DEF Uncertain, Engaged, SectorsOf, ErasedWith
    <2>4. Verifying' BY <1>1, <1>2 DEF Verifying, Spared
    <2>5. Processing' BY <1>1, <1>2 DEF Processing, Done
    <2> QED BY <2>1, <2>2, <2>3, <2>4, <2>5
  <1>5. Content'
    <2>1. GotPayload' BY <1>1, <1>2 DEF GotPayload
    <2>2. Reading' BY <1>1, <1>2 DEF Reading, Delivered, Loaded, Part, InFlight, Sending
    <2>3. Writing' BY <1>1, <1>2 DEF Writing, Stored, Spared, Filled, Part, Awaited
    <2>4. Requested' BY <1>1, <1>2 DEF Requested, Stored, Spared, Filled
    <2>5. Ending' BY <1>1, <1>2 DEF Ending, InFlight, Sending, Outcome, FullRead, Stored, Spared
    <2>6. Answering' BY <1>1, <1>2 DEF Answering, Done, Telling, Tells, FullRead, Stored, Spared
    <2>7. Answered' BY <1>1, <1>2 DEF Answered, Sending, Telling, Tells, FullRead, Stored, Spared
    <2>8. Disk' BY <1>1, <1>2 DEF Disk
    <2> QED BY <2>1, <2>2, <2>3, <2>4, <2>5, <2>6, <2>7, <2>8
  <1> QED BY <1>3, <1>4, <1>5

LEMMA BotResetProtocol ==
    ASSUME Base, Protocol, BotReset, ~Busy
    PROVE  Protocol'
  <1> USE DEF Protocol, Control, Commanded, Content
  <1>1. /\ Base' /\ BotResetEffect
        /\ Doing' = (IF task.at = "NONE" THEN "WAIT_FOR_CBW" ELSE Doing)
    BY BotResetBase
  <1>2. /\ task' = task /\ media' = media /\ configured' = configured /\ host.phase = "reset"
        /\ host'.phase = "resetIn" /\ host'.csw = None /\ host'.cmd = host.cmd
        /\ host'.tag = host.tag /\ host'.sent = host.sent /\ host'.got = host.got
        /\ host'.retried = host.retried /\ host'.giveUps = host.giveUps
        /\ host'.disk = host.disk /\ host'.before = host.before
        /\ msd'.state = "WAIT_FOR_CBW" /\ msd'.cbw = msd.cbw
        /\ msd'.csw = msd.csw /\ msd'.media = msd.media /\ msd'.handle = msd.handle
        /\ msd'.offset = msd.offset /\ msd'.pending = msd.pending
        /\ msd'.usbSectors = msd.usbSectors /\ msd'.toWrite = msd.toWrite
        /\ msd'.total = msd.total /\ msd'.buffer = msd.buffer
        /\ rx'.stalled /\ tx'.stalled
        /\ rx'.enabled = rx.enabled /\ tx'.enabled = tx.enabled /\ rx'.irp # "IN_PROGRESS"
        /\ tx'.irp # "IN_PROGRESS"
        /\ rx'.irp = "COMPLETED" <=> rx.irp = "COMPLETED"
    BY <1>1 DEF BotResetEffect, SameHost, Agree, HostFields, SameMsd, Agree, MsdFields, Stalled,
       Aborted
  <1>3. /\ configured /\ media.req = None /\ task.at \in {"NONE", "WAIT_FOR_CBW"}
        /\ Doing' = "WAIT_FOR_CBW" \/ (Doing' = "CBW" /\ rx'.irp # "COMPLETED")
    <2>1. /\ task.at \in {"NONE", "WAIT_FOR_CBW"} /\ media.req = None
          /\ task.at = "WAIT_FOR_CBW" /\ task.next = "CBW" => rx.irp = "IN_PROGRESS"
      BY DEF Busy, Done
    <2>2. task.at = "WAIT_FOR_CBW" => Doing = "WAIT_FOR_CBW" \/ (Doing = "CBW" /\ task.next = "CBW")
      BY DEF Base, Calls, Legs, Doing
    <2> QED BY <1>1, <1>2, <2>1, <2>2 DEF Attached
  <1>4. ~Engaged' /\ ~Early'
    BY <1>3 DEF Engaged, Early
  <1>5. Control'
    <2>1. Attached' BY <1>1, <1>2 DEF Attached, Done
    <2>2. CallKept' BY <1>1, <1>2, <1>3, <1>4 DEF CallKept, ReadyToSend, Done
    <2>3. AtRest' BY <1>1, <1>2, <1>3, <1>4 DEF AtRest, Done
    <2>4. Held' BY <1>1, <1>2 DEF Held
    <2>5. Going' BY <1>1, <1>2, <1>3, <1>4 DEF Going
    <2>6. Unstalled' BY <1>1, <1>2 DEF Unstalled, Early
    <2>7. Stalls' BY <1>1, <1>2 DEF Stalls, Sending
    <2>8. StatusSent' BY <1>1, <1>2 DEF StatusSent, Sending
    <2>9. DataSent' BY <1>1, <1>2 DEF DataSent, Sending
    <2>10. DataPhase' BY <1>1, <1>2 DEF DataPhase, Engaged
    <2> QED BY <2>1, <2>2, <2>3, <2>4, <2>5, <2>6, <2>7, <2>8, <2>9, <2>10
  <1>6. Commanded'
    <2>1. SaneCmd' BY <1>1, <1>2 DEF SaneCmd
    <2>2. Matches' BY <1>1, <1>2, <1>3, <1>4 DEF Matches
    <2>3. Uncertain' BY <1>1, <1>2, <1>3, <1>4 DEF Uncertain
    <2>4. Verifying' BY <1>1, <1>2, <1>3, <1>4 DEF Verifying, Spared
    <2>5. Processing' BY <1>1, <1>2, <1>3, <1>4 DEF Processing
    <2> QED BY <2>1, <2>2, <2>3, <2>4, <2>5
  <1>7. Content'
    <2>1. GotPayload' BY <1>1, <1>2 DEF GotPayload
    <2>2. Reading' BY <1>1, <1>2, <1>3, <1>4 DEF Reading
    <2>3. Writing' BY <1>1, <1>2, <1>3, <1>4 DEF Writing
    <2>4. Requested' BY <1>1, <1>2, <1>3, <1>4 DEF Requested
    <2>5. Ending' BY <1>1, <1>2, <1>3, <1>4 DEF Ending
    <2>6. Answering' BY <1>1, <1>2, <1>3, <1>4 DEF Answering
    <2>7. Answered' BY <1>1, <1>2 DEF Answered, Sending, Telling, Tells, FullRead, Stored, Spared
    <2>8. Disk' BY <1>1, <1>2 DEF Disk
    <2> QED BY <2>1, <2>2, <2>3, <2>4, <2>5, <2>6, <2>7, <2>8
  <1> QED BY <1>5, <1>6, <1>7

LEMMA BusResetProtocol ==
    ASSUME Base, Protocol, BusReset, ~Busy
    PROVE  Protocol'
  <1> USE DEF Protocol, Control, Commanded, Content
  <1>1. /\ Base' /\ BusResetEffect
        /\ Doing' = Doing
    BY BusResetBase
  <1>2. /\ task' = task /\ msd' = msd /\ ~configured' /\ host'.phase = "attach"
        /\ host'.csw = None /\ host'.cmd = host.cmd /\ host'.tag = host.tag
        /\ host'.sent = host.sent /\ host'.got = host.got /\ host'.retried = host.retried
        /\ host'.disk = host.disk /\ host'.before = host.before
        /\ media'.store = media.store /\ media'.req = media.req
        /\ ~rx'.enabled /\ ~tx'.enabled /\ rx'.irp # "IN_PROGRESS" /\ tx'.irp # "IN_PROGRESS"
    BY <1>1 DEF BusResetEffect, SameHost, Agree, HostFields, Disabled, Aborted
  <1>3. task.at \in {"NONE", "WAIT_FOR_CBW"} /\ media.req = None
    BY DEF Busy
  <1>4. Control'
    <2>1. Attached' BY <1>1, <1>2, <1>3 DEF Attached, Done
    <2>2. CallKept' BY <1>1, <1>2, <1>3 DEF CallKept, ReadyToSend, Done, Early, Sending
    <2>3. AtRest' BY <1>1, <1>2 DEF AtRest, Engaged, Done
    <2>4. Held' BY <1>1, <1>2 DEF Held
    <2>5. Going' BY <1>1, <1>2 DEF Going, Early
    <2>6. Unstalled' BY <1>1, <1>2 DEF Unstalled, Early
    <2>7. Stalls' BY <1>1, <1>2 DEF Stalls, Sending
    <2>8. StatusSent' BY <1>1, <1>2 DEF StatusSent, Sending
    <2>9. DataSent' BY <1>1, <1>2 DEF DataSent, Sending
    <2>10. DataPhase' BY <1>1, <1>2 DEF DataPhase, Engaged
    <2> QED BY <2>1, <2>2, <2>3, <2>4, <2>5, <2>6, <2>7, <2>8, <2>9, <2>10
  <1>5. Commanded'
    <2>1. SaneCmd' BY <1>1, <1>2 DEF SaneCmd
    <2>2. Matches' BY <1>1, <1>2 DEF Matches, Engaged, Agree
    <2>3. Uncertain' BY <1>1, <1>2 DEF Uncertain, Engaged, SectorsOf, ErasedWith
    <2>4. Verifying' BY <1>1, <1>2 DEF Verifying, Spared
    <2>5. Processing' BY <1>1, <1>2 DEF Processing, Done
    <2> QED BY <2>1, <2>2, <2>3, <2>4, <2>5
  <1>6. Content'
    <2>1. GotPayload' BY <1>1, <1>2 DEF GotPayload
    <2>2. Reading' BY <1>1, <1>2 DEF Reading, Delivered, Loaded, Part, InFlight, Sending
    <2>3. Writing' BY <1>1, <1>2 DEF Writing, Stored, Spared, Filled, Part, Awaited
    <2>4. Requested' BY <1>2, <1>3 DEF Requested
    <2>5. Ending' BY <1>1, <1>2 DEF Ending, InFlight, Sending, Outcome, FullRead, Stored, Spared
    <2>6. Answering' BY <1>1, <1>2 DEF Answering, Done, Telling, Tells, FullRead, Stored, Spared
    <2>7. Answered' BY <1>1, <1>2 DEF Answered, Sending, Telling, Tells, FullRead, Stored, Spared
    <2>8. Disk' BY <1>1, <1>2 DEF Disk
    <2> QED BY <2>1, <2>2, <2>3, <2>4, <2>5, <2>6, <2>7, <2>8
  <1> QED BY <1>4, <1>5, <1>6

LEMMA ConfigureProtocol ==
    ASSUME Base, Protocol, Configure
    PROVE  Protocol'
  <1> USE DEF Protocol, Control, Commanded, Content
  <1>1. /\ Base' /\ ConfigureEffect
        /\ Doing' = "WAIT_FOR_CBW"
    BY ConfigureBase
  <1>2. /\ task' = task /\ task.at = "NONE" /\ media' = media /\ configured'
        /\ host.phase = "attach" /\ host'.phase = "idle" /\ host'.cmd = host.cmd
        /\ host'.tag = host.tag /\ host'.sent = host.sent /\ host'.got = host.got
        /\ host'.csw = host.csw /\ host'.retried = host.retried
        /\ host'.giveUps = host.giveUps /\ host'.disk = host.disk /\ host'.before = host.before
        /\ msd'.state = "WAIT_FOR_CBW" /\ msd'.cbw = msd.cbw /\ msd'.csw = msd.csw
        /\ msd'.media = msd.media /\ msd'.offset = msd.offset /\ msd'.pending = msd.pending
        /\ msd'.usbSectors = msd.usbSectors /\ msd'.toWrite = msd.toWrite
        /\ msd'.total = msd.total /\ msd'.buffer = msd.buffer /\ rx'.enabled /\ tx'.enabled
        /\ rx'.irp = "COMPLETED" /\ tx'.irp = "COMPLETED"
    BY <1>1 DEF ConfigureEffect, SameHost, Agree, HostFields, SameMsd, Agree, MsdFields,
       Enabled, Outside
  <1>3. media.req = None
    BY <1>2 DEF Attached, Requested
  <1>4. Control'
    <2>1. Attached' BY <1>1, <1>2 DEF Attached, Done
    <2>2. CallKept' BY <1>1, <1>2 DEF CallKept, ReadyToSend, Done, Early, Sending
    <2>3. AtRest' BY <1>1, <1>2 DEF AtRest, Engaged, Done
    <2>4. Held' BY <1>1, <1>2 DEF Held
    <2>5. Going' BY <1>1, <1>2 DEF Going, Early
    <2>6. Unstalled' BY <1>1, <1>2 DEF Unstalled, Early
    <2>7. Stalls' BY <1>1, <1>2 DEF Stalls, Sending
    <2>8. StatusSent' BY <1>1, <1>2 DEF StatusSent, Sending
    <2>9. DataSent' BY <1>1, <1>2 DEF DataSent, Sending
    <2>10. DataPhase' BY <1>1, <1>2 DEF DataPhase, Engaged
    <2> QED BY <2>1, <2>2, <2>3, <2>4, <2>5, <2>6, <2>7, <2>8, <2>9, <2>10
  <1>5. Commanded'
    <2>1. SaneCmd' BY <1>1, <1>2 DEF SaneCmd
    <2>2. Matches' BY <1>1, <1>2 DEF Matches, Engaged, Agree
    <2>3. Uncertain' BY <1>1, <1>2 DEF Uncertain, Engaged, SectorsOf, ErasedWith
    <2>4. Verifying' BY <1>1, <1>2 DEF Verifying, Spared
    <2>5. Processing' BY <1>1, <1>2 DEF Processing, Done
    <2> QED BY <2>1, <2>2, <2>3, <2>4, <2>5
  <1>6. Content'
    <2>1. GotPayload' BY <1>1, <1>2 DEF GotPayload
    <2>2. Reading' BY <1>1, <1>2 DEF Reading, Delivered, Loaded, Part, InFlight, Sending
    <2>3. Writing' BY <1>1, <1>2 DEF Writing, Stored, Spared, Filled, Part, Awaited
    <2>4. Requested' BY <1>2, <1>3 DEF Requested
    <2>5. Ending' BY <1>1, <1>2 DEF Ending, InFlight, Sending, Outcome, FullRead, Stored, Spared
    <2>6. Answering' BY <1>1, <1>2 DEF Answering, Done, Telling, Tells, FullRead, Stored, Spared
    <2>7. Answered' BY <1>1, <1>2 DEF Answered, Sending, Telling, Tells, FullRead, Stored, Spared
    <2>8. Disk' BY <1>1, <1>2 DEF Disk
    <2> QED BY <2>1, <2>2, <2>3, <2>4, <2>5, <2>6, <2>7, <2>8
  <1> QED BY <1>4, <1>5, <1>6

-----------------------------------------------------------------------------
(* The protocol holds before the first command, and no step that overtakes *)
(* nothing ends it.                                                        *)
LEMMA InitProtocol ==
    ASSUME Init, Base
    PROVE  Protocol
  <1>1. /\ configured /\ host.phase = "idle" /\ host.cmd = None /\ host.csw = None
        /\ Len(host.got) = 0 /\ media.req = None /\ task.at = "NONE" /\ task.next = "NONE"
        /\ msd.state = "WAIT_FOR_CBW" /\ Doing = "WAIT_FOR_CBW"
        /\ ~rx.stalled /\ ~tx.stalled /\ rx.enabled /\ tx.enabled
        /\ rx.irp = "COMPLETED" /\ tx.irp = "COMPLETED"
    BY DEF Init, Outside, FreshEndpoint, Doing
  <1>2. ~Engaged /\ ~Early /\ ~Sending /\ Done(tx) /\ Done(rx)
    BY <1>1 DEF Engaged, Early, Sending, Done
  <1>3. Control
    BY <1>1, <1>2 DEF Control, Attached, CallKept, AtRest, Held, Going, Unstalled, Stalls,
       StatusSent, DataSent, DataPhase
  <1>4. Commanded
    <2>1. SaneCmd BY <1>1, CommandNumbers DEF SaneCmd
    <2> QED BY <1>1, <1>2, <2>1 DEF Commanded, Matches, Uncertain, Verifying, Spared, Processing
  <1>5. Disk BY DEF Init, Disk
  <1>6. GotPayload BY <1>1 DEF GotPayload
  <1>7. /\ Reading /\ Writing /\ Requested /\ Ending /\ Answering /\ Answered
    BY <1>1, <1>2 DEF Reading, Writing, Requested, Ending, Answering, Answered
  <1> QED BY <1>3, <1>4, <1>5, <1>6, <1>7 DEF Protocol, Content

(* A step of the super loop or the medium forgets no reset.                *)
LEMMA NotOvertaken ==
    ASSUME Base, [Next]_vars, ~overtaken'
    PROVE  /\ ~overtaken
           /\ BotReset \/ BusReset => ~Busy
  <1>1. overtaken => overtaken'
    <2>1. CASE Task
      BY <2>1 DEF Task, Enter, StallInOut, WaitForCbw, Reschedule, VerifyCommand,
         ProcessNonRWCommand, ReadSend, ReadMore, WriteReceive, WriteMedia, WriteDone,
         MediaFailed, PostDataStage, SendCsw, Store, KeepsTask
    <2>2. CASE MediaStep
      BY <2>2 DEF MediaStep, ReadCompletes, WriteCompletes, ReadFails, WriteFails, MediaEnds
    <2>3. CASE HostStep \/ HostGivesUp \/ BusReset
      BY <2>3 DEF HostStep, HostSendsCommand, HostSendsData, HostReceivesData,
         HostReceivesStatus, HostMeetsHalt, HostClearsHalt, BotReset, Configure, HostGivesUp,
         BusReset, Keeps
    <2>4. CASE UNCHANGED vars BY <2>4 DEF vars
    <2> QED BY <2>1, <2>2, <2>3, <2>4 DEF Next
  <1>2. BotReset \/ BusReset => overtaken' = (overtaken \/ Busy) BY DEF BotReset, BusReset
  <1> QED BY <1>1, <1>2

LEMMA UndoneProtocol ==
    ASSUME Base, Protocol, UNCHANGED vars
    PROVE  Protocol'
  <1> USE DEF Doing, Engaged, Early, Sending, InFlight, Awaited, Outcome, Part, Done,
      SectorsOf, Stored, Spared, Filled, Delivered, Loaded, FullRead, Tells, Telling, Agree
  <1>1. Control'
    BY DEF vars, Protocol, Control, Attached, CallKept, AtRest, Held, Going, Unstalled, Stalls,
       StatusSent, DataSent, DataPhase, ReadyToSend
  <1>2. Commanded'
    BY DEF vars, Protocol, Commanded, SaneCmd, Matches, Uncertain, Verifying, Spared, Processing
  <1>3. GotPayload' /\ Disk'
    BY DEF vars, Protocol, Content, GotPayload, Disk
  <1>4. Ending' BY DEF vars, Protocol, Content, Ending
  <1>5. Answering' BY DEF vars, Protocol, Content, Answering
  <1>6. Answered' BY DEF vars, Protocol, Content, Answered
  <1>7. Reading' /\ Writing' /\ Requested'
    BY DEF vars, Protocol, Content, Reading, Writing, Requested
  <1> QED BY <1>1, <1>2, <1>3, <1>4, <1>5, <1>6, <1>7 DEF Protocol, Content

LEMMA NextProtocol ==
    ASSUME Base, Protocol, [Next]_vars, ~overtaken'
    PROVE  Protocol'
  <1>1. CASE Task
    BY <1>1, EnterProtocol, StallInOutProtocol, WaitForCbwProtocol, RescheduleProtocol,
       VerifyCommandProtocol, ProcessNonRWCommandProtocol, ReadSendProtocol, ReadMoreProtocol,
       WriteReceiveProtocol, WriteMediaProtocol, WriteDoneProtocol, MediaFailedProtocol,
       PostDataStageProtocol, SendCswProtocol, StoreProtocol DEF Task
  <1>2. CASE MediaStep
    <2>1. PICK event \in {"COMPLETE", "ERROR"} : MediaEndsEffect(event)
      BY <1>2, MediaStepIs DEF Base, Limited
    <2> QED BY <2>1, MediaEndsProtocol
  <1>3. CASE HostStep \/ HostGivesUp \/ BusReset
    BY <1>3, NotOvertaken, HostSendsCommandProtocol, HostSendsDataProtocol,
       HostReceivesDataProtocol, HostReceivesStatusProtocol, HostMeetsHaltProtocol,
       HostClearsHaltProtocol, BotResetProtocol, ConfigureProtocol, HostGivesUpProtocol,
       BusResetProtocol DEF HostStep
  <1>4. CASE UNCHANGED vars BY <1>4, UndoneProtocol
  <1> QED BY <1>1, <1>2, <1>3, <1>4 DEF Next

(* While no reset has overtaken the function, the endpoints, the command   *)
(* block and the sectors of the command are where the phase of the host    *)
(* and the state of the function say (usb_device_msd.c:402-930).           *)
THEOREM ProtocolAlways == Spec => []Inv
  <1>1. Init => Inv BY InitBase, InitProtocol DEF Inv
  <1>2. Inv /\ [Next]_vars => Inv' BY NextBase, NextProtocol, NotOvertaken DEF Inv
  <1> QED BY <1>1, <1>2, PTL DEF Spec

-----------------------------------------------------------------------------
(* What the invariant says of the properties.                              *)
LEMMA ProtocolInStep ==
    ASSUME Inv
    PROVE  InStep
  <1> SUFFICES ASSUME Undisturbed
               PROVE  /\ \A i \in 1 .. Len(host.got) : host.got[i].type # "csw"
                      /\ host.csw # None => host.csw.type = "csw" /\ host.csw.tag = host.tag
    BY DEF InStep
  <1>1. GotPayload /\ Answered BY DEF Inv, Undisturbed, Protocol, Content
  <1>2. \A p \in Payload : p.type # "csw" BY DEF Payload, DataPacket, CommandBlock, None, Reply,
    Damaged
  <1> QED BY <1>1, <1>2 DEF GotPayload, Answered, Tells

LEMMA ProtocolReadsTrue ==
    ASSUME Inv
    PROVE  ReadsTrue
  <1> SUFFICES ASSUME Undisturbed, host.csw # None, host.cmd.dir = "in"
               PROVE  /\ host.csw.residue = host.cmd.want - Len(host.got)
                      /\ host.csw.status = "PASSED" /\ host.cmd.op = "read" => FullRead
    BY DEF ReadsTrue, FullRead
  <1>1. Answered BY DEF Inv, Undisturbed, Protocol, Content
  <1> QED BY <1>1 DEF Answered, Tells

LEMMA ProtocolDiskAgrees ==
    ASSUME Inv
    PROVE  DiskAgrees
  <1> SUFFICES ASSUME Undisturbed, NEW s \in DOMAIN media.store
               PROVE  host.disk[s] \in {None, media.store[s]}
    BY DEF DiskAgrees
  <1>1. Disk BY DEF Inv, Undisturbed, Protocol, Content
  <1>2. DOMAIN media.store = 0 .. Sectors - 1 BY DEF Inv, Base, Typed, MediaType
  <1> QED BY <1>1, <1>2 DEF Disk

LEMMA ProtocolNoWorkLeftBehind ==
    ASSUME Inv
    PROVE  NoWorkLeftBehind
  <1> SUFFICES ASSUME Undisturbed, media.req # None
               PROVE  /\ msd.state \in {"CBW", "DATA_IN", "DATA_OUT"}
                      /\ host.phase \notin {"idle", "attach"}
    BY DEF NoWorkLeftBehind
  <1>1. Requested /\ CallKept /\ Matches
    BY DEF Inv, Undisturbed, Protocol, Content, Control, Commanded
  <1>2. configured /\ Engaged /\ Doing \in {"DATA_IN", "DATA_OUT"} BY <1>1 DEF Requested, Engaged
  <1>3. host.phase \notin {"idle", "attach"} BY <1>1, <1>2 DEF Matches
  <1>4. msd.state \in {"CBW", "DATA_IN", "DATA_OUT"}
    <2>1. task.at # "NONE" => msd.state = task.at BY <1>1 DEF CallKept
    <2>2. task.next \in {"DATA_IN", "DATA_OUT"} => task.at \in {"CBW", "DATA_IN", "DATA_OUT"}
      BY DEF Inv, Base, Calls, Legs
    <2> QED BY <1>2, <2>1, <2>2 DEF Doing
  <1> QED BY <1>3, <1>4

(* The host meets the phases of its own command, in their order: no CSW    *)
(* among its data, no data for a CSW, and the CSW is that of its command,  *)
(* whatever halts, failures and clean resets come between                  *)
(* (usb_device_msd.c:470, :672).                                           *)
THEOREM HostInStep == Spec => []InStep
  <1>1. Inv => InStep BY ProtocolInStep
  <1> QED BY <1>1, ProtocolAlways, PTL

(* A read that passed sent what the medium holds, and the residue counts   *)
(* what the host did not get, although one sector buffer of any number of  *)
(* sectors serves the medium and the endpoint in turn                      *)
(* (usb_device_msd.c:1091, :490).                                          *)
THEOREM ReadsAreTrue == Spec => []ReadsTrue
  <1>1. Inv => ReadsTrue BY ProtocolReadsTrue
  <1> QED BY <1>1, ProtocolAlways, PTL

(* The medium holds every sector of a write that passed, and every sector  *)
(* beside it that was erased and written back with it; a write that does   *)
(* not pass costs sectors of its erase sectors only, whatever it leaves of *)
(* them (usb_device_msd.c:1397, drv_memory.c:611).                         *)
THEOREM DiskIsAsTold == Spec => []DiskAgrees
  <1>1. Inv => DiskAgrees BY ProtocolDiskAgrees
  <1> QED BY <1>1, ProtocolAlways, PTL

(* The medium works for the command the function is in, and for no other:  *)
(* no request is left behind when the function answers                     *)
(* (usb_device_msd.c:884).                                                 *)
THEOREM NoRequestOutlivesItsCommand == Spec => []NoWorkLeftBehind
  <1>1. Inv => NoWorkLeftBehind BY ProtocolNoWorkLeftBehind
  <1> QED BY <1>1, ProtocolAlways, PTL


=============================================================================
