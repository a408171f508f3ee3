----------------------------- MODULE At25dfProofs -----------------------------
(***************************************************************************)
(* The chip takes every command the AT25DF driver sends it, for every      *)
(* geometry, buffer, set of addresses and number of calls.                 *)
(*                                                                         *)
(* Once a chain was hijacked it stays so, and nothing is claimed.  Until   *)
(* then the hardware is Idle, or it Runs a transfer of the chain: the      *)
(* bytes in the chip, in the SPI's two registers and still to be sent add  *)
(* up to what the state machine's state stands for, the first of them is   *)
(* the command of that state, and the chip is prepared for it.             *)
(***************************************************************************)
EXTENDS At25df, TLAPS

Bit(b) == IF b THEN 1 ELSE 0

IsSeq(s) == \E S : s \in Seq(S)

(* The fields of the records, which Init fixes and no step changes, and    *)
(* the types of those the argument needs.                                  *)
SpiFields  == {"busy", "tx", "txSize", "txCount", "rx", "rxSize", "rxCount", "dummy",
               "last", "int", "full", "data", "shifting", "shift", "fifo", "txc"}
ChipFields == {"selected", "frame", "wel", "busy", "locked", "known", "ignored"}
HwFields   == {"status", "state", "memoryAddr", "bufferAddr", "nPending", "cmd",
               "jedecId", "spi", "chip", "flash", "ram"}

SpiShape(s) ==
    /\ DOMAIN s = SpiFields
    /\ s.busy \in BOOLEAN /\ s.last \in BOOLEAN /\ s.full \in BOOLEAN
    /\ s.shifting \in BOOLEAN /\ s.txc \in BOOLEAN
    /\ s.txSize \in Nat /\ s.txCount \in Nat /\ s.rxSize \in Nat
    /\ s.rxCount \in Nat /\ s.dummy \in Nat
    /\ IsSeq(s.fifo)

ChipShape(c) ==
    /\ DOMAIN c = ChipFields
    /\ c.selected \in BOOLEAN /\ c.wel \in BOOLEAN /\ c.busy \in BOOLEAN
    /\ c.locked \in BOOLEAN /\ c.ignored \in BOOLEAN
    /\ IsSeq(c.frame)

HwShape(h) ==
    /\ DOMAIN h = HwFields
    /\ h.memoryAddr \in Nat /\ h.nPending \in Nat
    /\ h.bufferAddr[1] = "buf"
    /\ DOMAIN h.cmd = 0 .. 3
    /\ SpiShape(h.spi) /\ ChipShape(h.chip)

-----------------------------------------------------------------------------
(* The states of lDRV_AT25DF_Handler while a transfer runs, the command    *)
(* the transfer belongs to, and the bytes of that command sent before it.  *)

Enabling == {"unlock", "writeCmdAddr", "erase"}
Writing  == {"checkUnlock", "writeData", "checkWrite", "checkErase"}
Waiting  == {"waitUnlock", "waitWrite", "waitErase"}
States   == Enabling \cup Writing \cup Waiting
            \cup {"readData", "waitRead", "readJedec", "waitJedec"}

Opcode(state) ==
    CASE state \in Enabling -> "WREN"
      [] state = "checkUnlock" -> "WRSR"
      [] state \in {"writeData", "checkWrite"} -> "PP"
      [] state = "checkErase" -> "SE"
      [] state \in Waiting -> "RDSR"
      [] state \in {"readData", "waitRead"} -> "READ"
      [] OTHER -> "JEDEC"

SentBefore(state) ==
    CASE state \in {"checkWrite", "waitRead"} -> 2
      [] state = "waitJedec" -> 1
      [] OTHER -> 0

(* The sizes of the transfer.                                              *)
Sizes(state, n, m, rx) ==
    /\ state \in Enabling \cup {"readJedec"} => n = 1 /\ m = 0
    /\ state \in {"checkUnlock", "writeData", "checkErase", "readData"} => n = 2 /\ m = 0
    /\ state = "checkWrite" => n >= 1 /\ m = 0
    /\ state \in Waiting    => n = 1 /\ m = 3 /\ rx = <<"cmd", 1>>
    /\ state = "waitRead"   => n = 0 /\ m >= 1 /\ rx[1] = "buf"
    /\ state = "waitJedec"  => n = 0 /\ m = 4 /\ rx[1] = "jedec"

Total(n, m) == IF m > n THEN m ELSE n
Left(s) == (s.txSize - s.txCount) + s.dummy

(* The SPI's flags are consistent.                                         *)
Flags(s) ==
    /\ s.full => s.shifting
    /\ s.txc => ~s.shifting
    /\ s.last => Left(s) = 0
    /\ s.txCount <= s.txSize

Counted(h) ==
    Len(h.chip.frame) + Bit(h.spi.shifting) + Bit(h.spi.full) + Left(h.spi)
        = SentBefore(h.state) + Total(h.spi.txSize, h.spi.rxSize)

Led(h) ==
    IF h.chip.frame = <<>>
    THEN h.spi.shifting /\ h.spi.shift = Op(Opcode(h.state))
    ELSE h.chip.frame[1] = Op(Opcode(h.state))

(* What the chip needs to take the command, and what the next one needs.   *)
Prepared(h, state) ==
    /\ state \in Writing => h.chip.wel
    /\ h.chip.busy => state \in Waiting
    /\ h.chip.locked => state \in {"unlock", "checkUnlock"}
    /\ state \in {"writeCmdAddr", "writeData", "readData"} => h.nPending >= 1
    /\ state = "erase" => h.cmd[1] = Op("SE")

(* A status byte: BUSY, or the chip is ready and no command made it busy.  *)
Fresh(chip, byte) == byte = <<"status", TRUE>> \/ ~chip.busy

(* While the status is polled a byte is sent only after the one before has *)
(* been taken out, so that none is lost and the third is what cmd[3] gets. *)
Polled(h) ==
    /\ h.spi.int \subseteq {"RXC", "TXC"}
    /\ "TXC" \in h.spi.int => h.spi.last
    /\ h.spi.rxCount + Len(h.spi.fifo) = Len(h.chip.frame)
    /\ Len(h.spi.fifo) + Bit(h.spi.shifting) + Bit(h.spi.full) <= 1
    /\ h.spi.rxCount = 2 /\ h.spi.fifo # <<>> => Fresh(h.chip, Head(h.spi.fifo))
    /\ h.spi.rxCount = 3 => Fresh(h.chip, h.cmd[3])

Run(h) ==
    /\ h.spi.busy /\ h.status = "busy" /\ h.chip.selected /\ h.state \in States
    /\ ~h.chip.ignored
    /\ Flags(h.spi)
    /\ Sizes(h.state, h.spi.txSize, h.spi.rxSize, h.spi.rx)
    /\ Counted(h) /\ Led(h) /\ Prepared(h, h.state)
    /\ h.state \in Waiting => Polled(h)

Idle(h) ==
    /\ ~h.spi.busy /\ h.status # "busy" /\ ~h.chip.selected /\ h.chip.frame = <<>>
    /\ ~h.chip.ignored /\ ~h.chip.busy
    /\ ~h.spi.shifting /\ ~h.spi.full /\ h.spi.int = {} /\ ~h.spi.last

(* The inductive invariant.  The sectors are unprotected by DRV_AT25DF_Open*)
(* before any other request can be made.                                   *)
CommandInv ==
    /\ request.hijacked \in BOOLEAN
    /\ request.hijacked => pc = "ready"
    /\ ~request.hijacked =>
         /\ HwShape(hw)
         /\ Idle(hw) \/ Run(hw)
         /\ pc \in {"init", "open"} => Idle(hw)
         /\ hw.chip.locked => pc \in {"init", "opening"}
         /\ hw.chip.locked /\ pc = "opening" => Run(hw)

-----------------------------------------------------------------------------
(* Sequences of anything.                                                  *)

(* The empty sequence is one.                                              *)
LEMMA EmptyIsSeq == IsSeq(<<>>) /\ Len(<<>>) = 0
<1>1. <<>> \in Seq({})
  OBVIOUS
<1> QED
  BY <1>1 DEF IsSeq

(* What appending does to a sequence, whatever is in it.                   *)
LEMMA AppendIsSeq ==
    ASSUME NEW s, IsSeq(s), NEW e
    PROVE  /\ IsSeq(Append(s, e)) /\ Append(s, e) # <<>>
           /\ Len(s) \in Nat /\ Len(Append(s, e)) = Len(s) + 1
           /\ Append(s, e)[1] = IF s = <<>> THEN e ELSE s[1]
           /\ s = <<>> <=> Len(s) = 0
<1>1. PICK S : s \in Seq(S)
  BY DEF IsSeq
<1> DEFINE T == S \cup {e}
<1>2. s \in Seq(T) /\ e \in T
  BY <1>1
<1> HIDE DEF T
<1>3. Append(s, e) \in Seq(T)
  BY <1>2
<1>4. IsSeq(Append(s, e))
  BY <1>3 DEF IsSeq
<1>5. Len(s) \in Nat /\ Len(Append(s, e)) = Len(s) + 1
  BY <1>2
<1>6. s = <<>> <=> Len(s) = 0
  BY <1>2
<1>7. Append(s, e) # <<>>
  BY <1>3, <1>5
<1>8. Append(s, e)[1] = IF s = <<>> THEN e ELSE s[1]
  BY <1>2, <1>5, <1>6
<1> QED
  BY <1>4, <1>5, <1>6, <1>7, <1>8

(* What taking the first off does to one that is not empty.                *)
LEMMA TailIsSeq ==
    ASSUME NEW s, IsSeq(s)
    PROVE  /\ Len(s) \in Nat /\ (s = <<>> <=> Len(s) = 0)
           /\ s # <<>> => IsSeq(Tail(s)) /\ Len(Tail(s)) = Len(s) - 1
<1>1. PICK S : s \in Seq(S)
  BY DEF IsSeq
<1>2. s # <<>> => Tail(s) \in Seq(S)
  BY <1>1
<1> QED
  BY <1>1, <1>2 DEF IsSeq

-----------------------------------------------------------------------------
(* The wire and the chip.                                                  *)

(* A byte of a running transfer that is shifted leaves it running: what    *)
(* left the shift register is in the chip, and an answer to a poll says    *)
(* what the chip is doing.                                                 *)
LEMMA ShiftKeepsRunning ==
    ASSUME NEW h, HwShape(h), Run(h), h.spi.shifting
    PROVE  LET k == [h EXCEPT
                       !.spi = Shifted(@, Answer(h)),
                       !.chip.frame = IF h.chip.selected THEN Append(@, h.spi.shift) ELSE @]
           IN  HwShape(k) /\ Run(k) /\ k.chip.locked = h.chip.locked
<1> DEFINE s == Shifted(h.spi, Answer(h))
           f == Append(h.chip.frame, h.spi.shift)
           c == [h.chip EXCEPT !.frame = f]
           k == [h EXCEPT !.spi = s, !.chip = c]
<1>1. h.chip.selected /\ SpiShape(h.spi) /\ ChipShape(h.chip) /\ IsSeq(h.chip.frame)
      /\ IsSeq(h.spi.fifo)
  BY DEF Run, HwShape, SpiShape, ChipShape
<1>2. k = [h EXCEPT
             !.spi = Shifted(@, Answer(h)),
             !.chip.frame = IF h.chip.selected THEN Append(@, h.spi.shift) ELSE @]
  BY <1>1 DEF HwShape
<1>3. /\ IsSeq(f) /\ f # <<>> /\ Len(f) = Len(h.chip.frame) + 1 /\ Len(h.chip.frame) \in Nat
      /\ f[1] = IF h.chip.frame = <<>> THEN h.spi.shift ELSE h.chip.frame[1]
  BY <1>1, AppendIsSeq
<1>4. /\ s.busy = h.spi.busy /\ s.txSize = h.spi.txSize /\ s.txCount = h.spi.txCount
      /\ s.rx = h.spi.rx /\ s.rxSize = h.spi.rxSize /\ s.rxCount = h.spi.rxCount
      /\ s.dummy = h.spi.dummy /\ s.last = h.spi.last /\ s.int = h.spi.int
      /\ s.full = FALSE /\ s.shifting = h.spi.full /\ s.txc = ~h.spi.full
      /\ s.fifo = IF Len(h.spi.fifo) < 2 THEN Append(h.spi.fifo, Answer(h)) ELSE h.spi.fifo
  BY <1>1 DEF SpiShape, SpiFields, Shifted
<1>5. SpiShape(s)
  <2>1. IsSeq(s.fifo)
    BY <1>1, <1>4, AppendIsSeq
  <2>2. DOMAIN s = SpiFields
    BY <1>1 DEF SpiShape, SpiFields, Shifted
  <2> HIDE DEF s
  <2> QED
    BY <1>1, <1>4, <2>1, <2>2 DEF SpiShape
<1>6. /\ c.selected = h.chip.selected /\ c.wel = h.chip.wel /\ c.busy = h.chip.busy
      /\ c.locked = h.chip.locked /\ c.ignored = h.chip.ignored /\ c.frame = f
      /\ ChipShape(c)
  <2> HIDE DEF f
  <2> QED
    BY <1>1, <1>3 DEF ChipShape, ChipFields
<1> HIDE DEF s, f, c
<1>7. /\ k.status = h.status /\ k.state = h.state /\ k.nPending = h.nPending
      /\ k.memoryAddr = h.memoryAddr /\ k.bufferAddr = h.bufferAddr
      /\ k.cmd = h.cmd /\ k.spi = s /\ k.chip = c
      /\ HwShape(k)
  BY <1>5, <1>6 DEF HwShape, HwFields
<1> HIDE DEF k
<1>8. Flags(k.spi)
  BY <1>1, <1>4, <1>7 DEF Run, Flags, Left, SpiShape
<1>9. Counted(k)
  <2> DEFINE n == Len(h.chip.frame)
             e == Left(h.spi)
             m == SentBefore(h.state) + Total(h.spi.txSize, h.spi.rxSize)
  <2>1. n + 1 + Bit(h.spi.full) + e = m
    BY DEF Run, Counted, Bit
  <2>2. Left(s) = e /\ SentBefore(k.state) + Total(s.txSize, s.rxSize) = m
    BY <1>4, <1>7 DEF Left
  <2>3. n \in Nat /\ e \in Int /\ h.spi.full \in BOOLEAN
    BY <1>1, <1>3 DEF Left, SpiShape
  <2>4. Len(k.chip.frame) = n + 1 /\ k.spi = s
    BY <1>3, <1>6, <1>7
  <2> HIDE DEF n, e, m
  <2>5. Bit(s.shifting) = Bit(h.spi.full) /\ Bit(s.full) = 0 /\ Bit(h.spi.full) \in Nat
    BY <1>4 DEF Bit
  <2>6. (n + 1) + Bit(s.shifting) + Bit(s.full) + Left(s) = m
    BY <2>1, <2>2, <2>3, <2>5
  <2> QED
    BY <2>2, <2>4, <2>6 DEF Counted
<1>10. Led(k)
  BY <1>3, <1>6, <1>7 DEF Run, Led
<1>11. Prepared(k, k.state)
  BY <1>6, <1>7 DEF Run, Prepared
<1>12. ASSUME k.state \in Waiting PROVE Polled(k)
  <2>1. Polled(h) /\ h.chip.selected
    BY <1>7, <1>12 DEF Run
  <2>2. Len(h.spi.fifo) \in Nat /\ (h.spi.fifo = <<>> <=> Len(h.spi.fifo) = 0)
    BY <1>1, TailIsSeq
  <2>3. h.spi.fifo = <<>> /\ Len(h.spi.fifo) = 0 /\ ~h.spi.full
    <3>1. Len(h.spi.fifo) + 1 + Bit(h.spi.full) <= 1
      BY <2>1 DEF Polled, Bit
    <3> DEFINE l == Len(h.spi.fifo)
               b == Bit(h.spi.full)
    <3>3. l \in Nat /\ b \in {0, 1} /\ (b = 0 => ~h.spi.full)
      BY <2>2 DEF Bit
    <3> HIDE DEF l, b
    <3>4. l = 0 /\ b = 0
      BY <3>1, <3>3 DEF l, b
    <3>2. Len(h.spi.fifo) = 0 /\ ~h.spi.full
      BY <3>3, <3>4 DEF l
    <3> QED
      BY <2>2, <3>2
  <2>4. s.fifo = Append(<<>>, Answer(h)) /\ Len(s.fifo) = 1 /\ Head(s.fifo) = Answer(h)
    BY <1>4, <2>3
  <2>5. h.spi.rxCount = Len(h.chip.frame) /\ h.spi.rxCount \in Nat
    BY <1>1, <2>1, <2>3 DEF Polled, SpiShape
  <2>6. k.spi.rxCount + Len(k.spi.fifo) = Len(k.chip.frame)
    BY <1>3, <1>4, <1>6, <1>7, <2>4, <2>5
  <2>7. ASSUME h.spi.rxCount = 2 PROVE Fresh(h.chip, Answer(h))
    <3>1. h.chip.frame # <<>>
      <4>1. h.chip.frame = <<>> <=> Len(h.chip.frame) = 0
        BY <1>1, TailIsSeq
      <4> QED
        BY <2>5, <2>7, <4>1
    <3>2. Command(h.chip) = Op("RDSR")
      BY <1>7, <1>12, <3>1
         DEF Run, Led, Command, Opcode, Waiting, Enabling
    <3>3. Answer(h) = <<"status", h.chip.busy>>
      BY <1>1, <3>2 DEF Answer, Op
    <3>4. h.chip.busy => h.chip.busy = TRUE
      BY <1>1 DEF ChipShape
    <3> QED
      BY <3>3, <3>4 DEF Fresh
  <2>8. Len(k.spi.fifo) + Bit(k.spi.shifting) + Bit(k.spi.full) <= 1
    <3>1. Len(k.spi.fifo) = 1 /\ Bit(k.spi.shifting) = 0 /\ Bit(k.spi.full) = 0
      BY <1>4, <1>7, <2>3, <2>4 DEF Bit
    <3> QED
      BY <3>1
  <2>9. /\ k.spi.int = h.spi.int /\ k.spi.last = h.spi.last /\ k.spi.rxCount = h.spi.rxCount
        /\ k.cmd = h.cmd /\ k.chip.busy = h.chip.busy
    BY <1>4, <1>6, <1>7
  <2>10. k.spi.rxCount = 2 => Fresh(k.chip, Head(k.spi.fifo))
    BY <1>7, <2>4, <2>7, <2>9 DEF Fresh
  <2> QED
    BY <2>1, <2>6, <2>8, <2>9, <2>10 DEF Polled, Fresh
<1>13. Run(k)
  BY <1>4, <1>6, <1>7, <1>8, <1>9, <1>10, <1>11, <1>12 DEF Run
<1> QED
  BY <1>2, <1>6, <1>7, <1>13

(* The end of what the chip was busy with disturbs nothing.                *)
LEMMA ReadyKeeps ==
    ASSUME NEW h, HwShape(h), Idle(h) \/ Run(h)
    PROVE  LET k == [h EXCEPT !.chip.busy = FALSE]
           IN  /\ HwShape(k) /\ k.chip.locked = h.chip.locked
               /\ Idle(h) => Idle(k)
               /\ Run(h) => Run(k)
<1> DEFINE c == [h.chip EXCEPT !.busy = FALSE]
           k == [h EXCEPT !.chip = c]
<1>1. k = [h EXCEPT !.chip.busy = FALSE]
  BY DEF HwShape
<1>2. /\ c.selected = h.chip.selected /\ c.wel = h.chip.wel /\ ~c.busy
      /\ c.locked = h.chip.locked /\ c.ignored = h.chip.ignored /\ c.frame = h.chip.frame
      /\ ChipShape(c)
  BY DEF HwShape, ChipShape, ChipFields
<1> HIDE DEF c
<1>3. /\ k.status = h.status /\ k.state = h.state /\ k.nPending = h.nPending
      /\ k.memoryAddr = h.memoryAddr /\ k.bufferAddr = h.bufferAddr
      /\ k.cmd = h.cmd /\ k.spi = h.spi /\ k.chip = c
      /\ HwShape(k)
  BY <1>2 DEF HwShape, HwFields
<1> HIDE DEF k
<1>4. Idle(h) => Idle(k)
  BY <1>2, <1>3 DEF Idle
<1>5. Run(h) => Counted(k) /\ Led(k) /\ Prepared(k, k.state)
  BY <1>2, <1>3 DEF Run, Counted, Led, Prepared
<1>6. Polled(h) => Polled(k)
  BY <1>2, <1>3 DEF Polled, Fresh
<1>7. Run(h) => Run(k)
  BY <1>2, <1>3, <1>5, <1>6 DEF Run
<1> QED
  BY <1>1, <1>2, <1>3, <1>4, <1>7

-----------------------------------------------------------------------------
(* SERCOM1_SPI_InterruptHandler, step by step.                             *)

(* The byte it takes in leaves the transfer running; the third answer to a *)
(* poll is in cmd[3], and no byte is under way that is not accounted for.  *)
LEMMA ReceiveKeepsRunning ==
    ASSUME NEW h, HwShape(h), Run(h), Raised(h.spi)
    PROVE  LET k == [Stored(h) EXCEPT !.spi = Received(@)]
           IN  /\ HwShape(k) /\ Run(k) /\ k.chip.locked = h.chip.locked
               /\ k.state \in Waiting =>
                    k.spi.fifo = <<>> /\ (Left(k.spi) = 0 \/ ~k.spi.shifting)
               /\ Stored(h).spi = h.spi /\ DOMAIN Stored(h) = HwFields
<1> DEFINE s == Received(h.spi)
           w == Stored(h)
           k == [w EXCEPT !.spi = s]
<1>1. SpiShape(h.spi) /\ ChipShape(h.chip) /\ IsSeq(h.spi.fifo) /\ Flags(h.spi)
  BY DEF Run, HwShape, SpiShape
<1>2. /\ s.busy = h.spi.busy /\ s.txSize = h.spi.txSize /\ s.txCount = h.spi.txCount
      /\ s.rx = h.spi.rx /\ s.rxSize = h.spi.rxSize
      /\ s.rxCount = IF Stores(h.spi) THEN h.spi.rxCount + 1 ELSE h.spi.rxCount
      /\ s.dummy = h.spi.dummy /\ s.last = h.spi.last /\ s.int = h.spi.int
      /\ s.full = h.spi.full /\ s.shifting = h.spi.shifting /\ s.txc = h.spi.txc
      /\ s.shift = h.spi.shift
      /\ s.fifo = IF RXC(h.spi) THEN Tail(h.spi.fifo) ELSE h.spi.fifo
      /\ DOMAIN s = SpiFields
  BY <1>1 DEF SpiShape, SpiFields, Received, Stores, RXC
<1>3. IsSeq(s.fifo)
  BY <1>1, <1>2, TailIsSeq DEF RXC
<1> HIDE DEF s
<1>4. SpiShape(s)
  BY <1>1, <1>2, <1>3 DEF SpiShape
<1>5. Stores(h.spi) => h.spi.rx[1] \in {"cmd", "jedec", "buf"}
                       /\ (h.state \in Waiting => h.spi.rx = <<"cmd", 1>> /\ h.spi.rxSize = 3)
                       /\ (h.state \notin Waiting => h.spi.rx[1] \in {"jedec", "buf"})
  <2>1. Stores(h.spi) => h.spi.rxSize # 0
    BY <1>1 DEF Stores, SpiShape
  <2> QED
    BY <2>1 DEF Run, Sizes, States, Enabling, Writing, Waiting
<1> DEFINE at == h.spi.rx[2] + h.spi.rxCount
           byte == Head(h.spi.fifo)
<1>6. /\ w.status = h.status /\ w.state = h.state /\ w.nPending = h.nPending
      /\ w.memoryAddr = h.memoryAddr /\ w.bufferAddr = h.bufferAddr
      /\ w.spi = h.spi /\ w.chip = h.chip
      /\ w.cmd = IF Stores(h.spi) /\ h.state \in Waiting THEN [h.cmd EXCEPT ![at] = byte]
                 ELSE h.cmd
      /\ DOMAIN w = HwFields
  <2> HIDE DEF at, byte
  <2>1. CASE ~Stores(h.spi)
    BY <2>1 DEF Stored, HwShape, HwFields
  <2>2. CASE Stores(h.spi) /\ h.state \in Waiting
    <3>1. w = [h EXCEPT !.cmd[at] = byte]
      BY <1>5, <2>2 DEF Stored, at, byte
    <3> HIDE DEF w
    <3> QED
      BY <2>2, <3>1 DEF HwShape, HwFields
  <2>3. CASE Stores(h.spi) /\ h.spi.rx[1] = "jedec" /\ h.state \notin Waiting
    <3>1. w = [h EXCEPT !.jedecId[at] = byte]
      BY <2>3 DEF Stored, at, byte
    <3> HIDE DEF w
    <3> QED
      BY <2>3, <3>1 DEF HwShape, HwFields
  <2>4. CASE Stores(h.spi) /\ h.spi.rx[1] = "buf" /\ h.state \notin Waiting
    <3>1. w = [h EXCEPT !.ram["buf"][at] = ContentOf(byte)]
      BY <2>4 DEF Stored, at, byte
    <3> HIDE DEF w
    <3> QED
      BY <2>4, <3>1 DEF HwShape, HwFields
  <2> QED
    BY <1>5, <2>1, <2>2, <2>3, <2>4
<1>7. DOMAIN w.cmd = 0 .. 3
  BY <1>6 DEF HwShape
<1> HIDE DEF w
<1>8. /\ k.status = h.status /\ k.state = h.state /\ k.nPending = h.nPending
      /\ k.cmd = w.cmd /\ k.spi = s /\ k.chip = h.chip
      /\ HwShape(k)
  BY <1>1, <1>4, <1>6, <1>7 DEF HwShape, HwFields
<1> HIDE DEF k
<1>9. Flags(k.spi) /\ Counted(k) /\ Led(k)
  BY <1>2, <1>8 DEF Run, Flags, Left, Counted, Led
<1>10. Prepared(k, k.state)
  BY <1>6, <1>8 DEF Run, Prepared, Waiting
<1>11. ASSUME h.state \in Waiting
       PROVE  Polled(k) /\ k.spi.fifo = <<>> /\ (Left(k.spi) = 0 \/ ~k.spi.shifting)
  <2>1. /\ Polled(h) /\ h.spi.rxSize = 3 /\ h.spi.txSize = 1 /\ h.spi.rx = <<"cmd", 1>>
        /\ SentBefore(h.state) = 0
    BY <1>11 DEF Run, Sizes, SentBefore, Waiting
  <2> DEFINE n == Len(h.chip.frame)
             l == Len(h.spi.fifo)
             r == h.spi.rxCount
             e == Left(h.spi)
             b == Bit(h.spi.shifting)
             d == Bit(h.spi.full)
  <2>2. l \in Nat /\ (h.spi.fifo = <<>> <=> l = 0)
        /\ (h.spi.fifo # <<>> => Len(Tail(h.spi.fifo)) = l - 1 /\ IsSeq(Tail(h.spi.fifo)))
    BY <1>1, TailIsSeq
  <2>3. r \in Nat /\ e \in Nat /\ b \in {0, 1} /\ d \in {0, 1} /\ (b = 0 <=> ~h.spi.shifting)
    BY <1>1 DEF SpiShape, Left, Flags, Bit
  <2>4. r + l = n /\ l + b + d <= 1 /\ n + b + d + e = 3
    BY <2>1 DEF Polled, Run, Counted, Total
  <2> HIDE DEF n, l, e, b, d
  <2>5. k.spi.fifo # <<>> => FALSE
    <3>1. CASE l = 0
      BY <1>2, <1>8, <2>2, <3>1 DEF RXC
    <3>2. CASE l = 1
      <4>1. Len(Tail(h.spi.fifo)) = 0 /\ IsSeq(Tail(h.spi.fifo))
        BY <2>2, <3>2
      <4>2. Tail(h.spi.fifo) = <<>>
        BY <4>1, TailIsSeq
      <4> QED
        BY <1>2, <1>8, <2>2, <3>2, <4>2 DEF RXC
    <3> QED
      BY <2>2, <2>3, <2>4, <3>1, <3>2
  <2>6. RXC(h.spi) => Stores(h.spi) /\ l = 1 /\ b = 0 /\ d = 0
    <3>1. RXC(h.spi) => l # 0
      BY <2>2 DEF RXC
    <3>2. l # 0 => l = 1 /\ b = 0 /\ d = 0 /\ r < 3
      BY <2>2, <2>3, <2>4
    <3> QED
      BY <2>1, <3>1, <3>2 DEF Stores
  <2>7. ~RXC(h.spi) => ~Stores(h.spi) /\ l = 0
    BY <2>2 DEF Stores, RXC
  <2>8. k.spi.rxCount = n /\ k.spi.rxSize = 3
    BY <1>2, <1>8, <2>1, <2>3, <2>4, <2>6, <2>7
  <2>9. k.spi.rxCount = 3 => Fresh(k.chip, k.cmd[3])
    <3>1. CASE ~RXC(h.spi)
      BY <1>2, <1>6, <1>8, <2>1, <2>7, <3>1 DEF Polled
    <3>2. CASE RXC(h.spi)
      <4>1. Stores(h.spi) /\ h.spi.fifo # <<>> /\ k.spi.rxCount = r + 1
        BY <1>2, <1>8, <2>6, <3>2 DEF RXC
      <4>2. SUFFICES ASSUME r = 2 PROVE Fresh(k.chip, k.cmd[3])
        BY <2>3, <4>1
      <4>3. at = 3 /\ k.cmd = [h.cmd EXCEPT ![3] = byte]
        BY <1>6, <1>8, <1>11, <2>1, <4>1, <4>2
      <4>4. k.cmd[3] = byte
        BY <4>3 DEF HwShape
      <4> QED
        BY <1>8, <2>1, <4>1, <4>2, <4>4 DEF Polled
    <3> QED
      BY <3>1, <3>2
  <2>10. Len(k.spi.fifo) = 0 /\ k.spi.fifo = <<>>
    BY <2>5, EmptyIsSeq
  <2>11. Len(k.spi.fifo) + Bit(k.spi.shifting) + Bit(k.spi.full) <= 1
    <3>1. Bit(k.spi.shifting) = b /\ Bit(k.spi.full) = d
      BY <1>2, <1>8 DEF b, d
    <3> QED
      BY <2>2, <2>3, <2>4, <2>10, <3>1
  <2>12. k.spi.rxCount + Len(k.spi.fifo) = Len(k.chip.frame)
    BY <1>1, <1>8, <2>3, <2>4, <2>2, <2>8, <2>10 DEF n
  <2>13. Left(k.spi) = 0 \/ ~k.spi.shifting
    <3>1. CASE RXC(h.spi)
      BY <1>2, <1>8, <2>3, <2>6, <3>1
    <3>2. CASE ~RXC(h.spi)
      <4>1. "TXC" \in h.spi.int /\ h.spi.last
        BY <2>1, <3>2 DEF Raised, Polled
      <4> QED
        BY <1>1, <1>2, <1>8, <4>1 DEF Flags, Left
    <3> QED
      BY <3>1, <3>2
  <2> QED
    BY <1>2, <1>8, <2>1, <2>9, <2>10, <2>11, <2>12, <2>13 DEF Polled
<1>12. Run(k)
  BY <1>2, <1>8, <1>9, <1>10, <1>11 DEF Run
<1> QED
  <2>1. k = [Stored(h) EXCEPT !.spi = Received(@)]
    BY <1>6 DEF k, w, s, HwFields
  <2> QED
    BY <1>6, <1>8, <1>11, <1>12, <2>1 DEF w

(* The byte it sends, if any, leaves the transfer running: it goes where   *)
(* the count and the order of the bytes want it.                           *)
LEMMA SendKeepsRunning ==
    ASSUME NEW h, HwShape(h), Run(h), NEW byte,
           h.state \in Waiting => h.spi.fifo = <<>> /\ (Left(h.spi) = 0 \/ ~h.spi.shifting)
    PROVE  LET k == [h EXCEPT !.spi = Sent(@, byte)]
           IN  HwShape(k) /\ Run(k) /\ k.chip.locked = h.chip.locked
<1>1. SpiShape(h.spi) /\ ChipShape(h.chip) /\ IsSeq(h.spi.fifo) /\ Flags(h.spi)
  BY DEF Run, HwShape, SpiShape
<1> DEFINE off == [h.spi EXCEPT !.int = @ \ {"DRE"}]
           out == IF h.spi.txCount < h.spi.txSize
                  THEN PutData([off EXCEPT !.txCount = @ + 1], byte)
                  ELSE IF h.spi.dummy > 0
                  THEN PutData([off EXCEPT !.dummy = @ - 1], NoByte)
                  ELSE off
           s == Sent(h.spi, byte)
           k == [h EXCEPT !.spi = s]
<1>2. CASE h.spi.full
  <2>1. s = h.spi
    BY <1>2 DEF Sent, DRE
  <2> HIDE DEF s
  <2>2. /\ k.status = h.status /\ k.state = h.state /\ k.nPending = h.nPending
        /\ k.cmd = h.cmd /\ k.spi = h.spi /\ k.chip = h.chip
        /\ HwShape(k)
    BY <2>1 DEF HwShape, HwFields
  <2> HIDE DEF k
  <2>3. Run(k)
    BY <2>2 DEF Run, Counted, Led, Prepared, Polled
  <2> QED
    BY <2>2, <2>3 DEF k, s
<1>3. CASE ~h.spi.full
  <2>1. /\ off.busy = h.spi.busy /\ off.txSize = h.spi.txSize /\ off.txCount = h.spi.txCount
        /\ off.rx = h.spi.rx /\ off.rxSize = h.spi.rxSize /\ off.rxCount = h.spi.rxCount
        /\ off.dummy = h.spi.dummy /\ off.last = h.spi.last
        /\ off.int = h.spi.int \ {"DRE"} /\ off.full = FALSE
        /\ off.shifting = h.spi.shifting /\ off.txc = h.spi.txc
        /\ off.shift = h.spi.shift /\ off.fifo = h.spi.fifo
        /\ DOMAIN off = SpiFields
    BY <1>1, <1>3 DEF SpiShape, SpiFields
  <2> HIDE DEF off
  <2> DEFINE puts == h.spi.txCount < h.spi.txSize \/ h.spi.dummy > 0
  <2>2. /\ out.busy = h.spi.busy /\ out.txSize = h.spi.txSize
        /\ out.rx = h.spi.rx /\ out.rxSize = h.spi.rxSize /\ out.rxCount = h.spi.rxCount
        /\ out.last = h.spi.last /\ out.int = h.spi.int \ {"DRE"} /\ out.fifo = h.spi.fifo
        /\ DOMAIN out = SpiFields
    BY <2>1 DEF PutData, SpiFields
  <2>3. ASSUME puts
        PROVE  /\ out.full = h.spi.shifting /\ out.shifting = TRUE /\ out.txc = FALSE
               /\ h.spi.shifting => out.shift = h.spi.shift
    BY <1>1, <2>1, <2>3 DEF PutData, SpiFields, SpiShape
  <2>4. ASSUME puts
        PROVE  /\ out.txCount \in Nat /\ out.dummy \in Nat /\ out.txCount <= out.txSize
               /\ Left(out) = Left(h.spi) - 1 /\ Left(h.spi) > 0
    <3> DEFINE a == h.spi.txSize
               c == h.spi.txCount
               d == h.spi.dummy
    <3>1. a \in Nat /\ c \in Nat /\ d \in Nat /\ c <= a /\ Left(h.spi) = (a - c) + d
      BY <1>1 DEF SpiShape, Flags, Left
    <3>2. CASE c < a
      <4>1. out.txCount = c + 1 /\ out.dummy = d /\ out.txSize = a
        BY <2>1, <3>2 DEF PutData, SpiFields
      <4> HIDE DEF out, a, c, d
      <4>2. Left(out) = (a - (c + 1)) + d
        BY <4>1 DEF Left
      <4> QED
        BY <3>1, <3>2, <4>1, <4>2
    <3>3. CASE ~(c < a) /\ d > 0
      <4>1. out.txCount = c /\ out.dummy = d - 1 /\ out.txSize = a
        BY <2>1, <3>3 DEF PutData, SpiFields
      <4> HIDE DEF out, a, c, d
      <4>2. Left(out) = (a - c) + (d - 1)
        BY <4>1 DEF Left
      <4> QED
        BY <3>1, <3>3, <4>1, <4>2
    <3> QED
      BY <2>4, <3>2, <3>3
  <2>5. ASSUME ~puts
        PROVE  /\ out.full = FALSE /\ out.shifting = h.spi.shifting /\ out.txc = h.spi.txc
               /\ out.shift = h.spi.shift /\ out.txCount = h.spi.txCount
               /\ out.dummy = h.spi.dummy /\ Left(h.spi) = 0
    <3>1. h.spi.txCount = h.spi.txSize /\ h.spi.dummy = 0
      BY <1>1, <2>5 DEF SpiShape, Flags
    <3>2. Left(h.spi) = 0
      BY <1>1, <3>1 DEF Left, SpiShape
    <3> QED
      BY <2>1, <2>5, <3>2
  <2>6. s = IF out.dummy = 0 /\ h.spi.txSize = out.txCount
            THEN [out EXCEPT !.last = TRUE]
            ELSE IF out.rxCount = out.rxSize
            THEN [out EXCEPT !.int = (@ \cup {"DRE"}) \ {"RXC"}]
            ELSE out
    BY <1>3 DEF Sent, DRE, off
  <2> HIDE DEF out, puts
  <2>7. out.txCount \in Nat /\ out.dummy \in Nat /\ out.txCount <= out.txSize
    BY <1>1, <2>2, <2>4, <2>5 DEF SpiShape, Flags
  <2>8. out.dummy = 0 /\ h.spi.txSize = out.txCount <=> Left(out) = 0
    BY <1>1, <2>2, <2>7 DEF Left, SpiShape
  <2>9. /\ s.busy = h.spi.busy /\ s.txSize = h.spi.txSize /\ s.txCount = out.txCount
        /\ s.rx = h.spi.rx /\ s.rxSize = h.spi.rxSize /\ s.rxCount = h.spi.rxCount
        /\ s.dummy = out.dummy /\ s.fifo = h.spi.fifo
        /\ s.full = out.full /\ s.shifting = out.shifting /\ s.txc = out.txc
        /\ s.shift = out.shift
        /\ s.last = IF Left(out) = 0 THEN TRUE ELSE h.spi.last
        /\ DOMAIN s = SpiFields
    BY <2>2, <2>6, <2>8 DEF SpiFields
  <2>10. Left(out) = 0 \/ out.rxCount # out.rxSize => s.int = h.spi.int \ {"DRE"}
    BY <2>2, <2>6, <2>8 DEF SpiFields
  <2> HIDE DEF s
  <2>11. SpiShape(s)
    BY <1>1, <2>3, <2>5, <2>7, <2>9 DEF SpiShape
  <2>12. /\ k.status = h.status /\ k.state = h.state /\ k.nPending = h.nPending
         /\ k.cmd = h.cmd /\ k.spi = s /\ k.chip = h.chip
         /\ HwShape(k)
    BY <1>1, <2>11 DEF HwShape, HwFields
  <2> HIDE DEF k
  <2>13. Left(s) = Left(out)
    BY <2>2, <2>9 DEF Left
  <2>14. Left(h.spi) \in Int /\ Left(out) \in Int
    <3>1. Left(h.spi) \in Int
      BY <1>1 DEF Left, SpiShape
    <3>2. out.txSize \in Nat
      BY <1>1, <2>2 DEF SpiShape
    <3>3. Left(out) \in Int
      BY <2>7, <3>2 DEF Left
    <3> QED
      BY <3>1, <3>3
  <2>15. Flags(s)
    <3>1. CASE puts
      <4>1. ~h.spi.last
        BY <1>1, <2>4, <3>1 DEF Flags
      <4> QED
        BY <2>2, <2>3, <2>7, <2>9, <2>13, <3>1, <4>1 DEF Flags
    <3>2. CASE ~puts
      <4>1. Left(s) = 0
        BY <2>2, <2>5, <2>13, <3>2 DEF Left
      <4> QED
        BY <1>1, <2>2, <2>5, <2>7, <2>9, <3>2, <4>1 DEF Flags
    <3> QED
      BY <3>1, <3>2
  <2>16. Counted(k)
    <3> DEFINE n == Len(h.chip.frame)
               m == SentBefore(h.state) + Total(h.spi.txSize, h.spi.rxSize)
               e == Left(h.spi)
               b == Bit(h.spi.shifting)
    <3>1. n + b + 0 + e = m
      BY <1>3 DEF Run, Counted, Bit
    <3>2. n \in Nat
      BY <1>1, TailIsSeq DEF ChipShape
    <3>3. b \in {0, 1}
      BY DEF Bit
    <3>4. Len(k.chip.frame) = n /\ SentBefore(k.state) + Total(k.spi.txSize, k.spi.rxSize) = m
          /\ k.spi = s
      BY <2>9, <2>12
    <3> HIDE DEF n, m, e, b
    <3>5. CASE puts
      <4>1. Bit(s.shifting) = 1 /\ Bit(s.full) = b /\ Left(s) = e - 1
        BY <2>3, <2>4, <2>9, <2>13, <3>5 DEF Bit, b, e
      <4>2. n + 1 + b + (e - 1) = m
        BY <2>14, <3>1, <3>2, <3>3 DEF e
      <4> QED
        BY <3>4, <4>1, <4>2 DEF Counted
    <3>6. CASE ~puts
      <4>1. Bit(s.shifting) = b /\ Bit(s.full) = 0 /\ Left(s) = e
        BY <2>2, <2>5, <2>9, <2>13, <3>6 DEF Bit, b, e, Left
      <4> QED
        BY <3>1, <3>4, <4>1 DEF Counted
    <3> QED
      BY <3>5, <3>6
  <2>17. Led(k)
    BY <2>3, <2>5, <2>9, <2>12 DEF Run, Led
  <2>18. Prepared(k, k.state)
    BY <2>12 DEF Run, Prepared
  <2>19. ASSUME h.state \in Waiting PROVE Polled(k)
    <3>1. Polled(h) /\ h.spi.rxSize = 3 /\ h.spi.txSize = 1 /\ SentBefore(h.state) = 0
      BY <2>19 DEF Run, Sizes, SentBefore, Waiting
    <3>2. Len(h.spi.fifo) = 0 /\ h.spi.rxCount = Len(h.chip.frame)
      BY <1>1, <2>19, <3>1, EmptyIsSeq DEF Polled, SpiShape
    <3>3. Left(out) = 0 \/ out.rxCount # out.rxSize
      <4> DEFINE r == h.spi.rxCount
                 e == Left(h.spi)
                 b == Bit(h.spi.shifting)
      <4>1. r + b + 0 + e = 3
        <5>1. SentBefore(h.state) + Total(h.spi.txSize, h.spi.rxSize) = 3
          BY <3>1 DEF Total
        <5>2. r + b + 0 + e = SentBefore(h.state) + Total(h.spi.txSize, h.spi.rxSize)
          <6>1. Bit(h.spi.full) = 0
            BY <1>3 DEF Bit
          <6>2. Len(h.chip.frame) + b + Bit(h.spi.full) + e
                   = SentBefore(h.state) + Total(h.spi.txSize, h.spi.rxSize)
            BY DEF Run, Counted
          <6> QED
            BY <3>2, <6>1, <6>2
        <5> QED
          BY <5>1, <5>2
      <4>2. r \in Nat /\ b \in {0, 1} /\ e \in Nat
        BY <1>1 DEF SpiShape, Bit, Left, Flags
      <4> HIDE DEF r, b, e
      <4>3. r = 3 => e = 0
        BY <4>1, <4>2
      <4>4. e = 0 => Left(out) = 0
        <5>1. e = 0 => ~puts
          BY <2>4 DEF e
        <5>2. ~puts => Left(out) = e
          BY <2>2, <2>5 DEF e, Left
        <5> QED
          BY <5>1, <5>2
      <4> QED
        BY <2>2, <3>1, <4>3, <4>4 DEF r
    <3>4. /\ s.int \subseteq {"RXC", "TXC"}
          /\ "TXC" \in s.int => s.last
      BY <2>9, <2>10, <3>1, <3>3 DEF Polled
    <3>5. Len(s.fifo) = 0 /\ s.fifo = <<>> /\ Bit(s.shifting) + Bit(s.full) <= 1
      <4>1. s.fifo = <<>> /\ Len(s.fifo) = 0
        BY <2>9, <2>19, EmptyIsSeq
      <4>2. CASE puts
        <5>1. Bit(s.shifting) = 1 /\ Bit(s.full) = 0
          <6>1. ~h.spi.shifting
            BY <2>4, <2>19, <4>2
          <6> QED
            BY <2>3, <2>9, <4>2, <6>1 DEF Bit
        <5> QED
          BY <4>1, <5>1
      <4>3. CASE ~puts
        <5>1. Bit(s.full) = 0 /\ Bit(s.shifting) \in {0, 1}
          BY <2>5, <2>9, <4>3 DEF Bit
        <5> QED
          BY <4>1, <5>1
      <4> QED
        BY <4>2, <4>3
    <3>6. Len(k.spi.fifo) + Bit(k.spi.shifting) + Bit(k.spi.full) <= 1
      <4>1. Bit(s.shifting) \in Nat /\ Bit(s.full) \in Nat
        BY DEF Bit
      <4> QED
        BY <2>12, <3>5, <4>1
    <3>7. k.spi.rxCount + Len(k.spi.fifo) = Len(k.chip.frame)
      BY <1>1, <2>9, <2>12, <3>2, <3>5 DEF SpiShape
    <3> QED
      BY <2>9, <2>12, <3>1, <3>4, <3>5, <3>6, <3>7 DEF Polled
  <2>20. Run(k)
    BY <2>9, <2>12, <2>15, <2>16, <2>17, <2>18, <2>19 DEF Run
  <2> QED
    BY <2>12, <2>20 DEF k, s
<1> QED
  BY <1>2, <1>3

(* The end of the handler, while the transfer goes on.                     *)
LEMMA AwaitKeepsRunning ==
    ASSUME NEW h, HwShape(h), Run(h)
    PROVE  LET k == [h EXCEPT !.spi = Awaiting(@)]
           IN  HwShape(k) /\ Run(k) /\ k.chip.locked = h.chip.locked
<1> DEFINE s == Awaiting(h.spi)
           k == [h EXCEPT !.spi = s]
<1>1. SpiShape(h.spi)
  BY DEF HwShape
<1>2. /\ s.busy = h.spi.busy /\ s.txSize = h.spi.txSize /\ s.txCount = h.spi.txCount
      /\ s.rx = h.spi.rx /\ s.rxSize = h.spi.rxSize /\ s.rxCount = h.spi.rxCount
      /\ s.dummy = h.spi.dummy /\ s.last = h.spi.last
      /\ s.full = h.spi.full /\ s.shifting = h.spi.shifting /\ s.txc = h.spi.txc
      /\ s.shift = h.spi.shift /\ s.fifo = h.spi.fifo
      /\ s.int = IF h.spi.last THEN h.spi.int \cup {"TXC"} ELSE h.spi.int
      /\ DOMAIN s = SpiFields
  BY <1>1 DEF SpiShape, SpiFields, Awaiting
<1> HIDE DEF s
<1>3. SpiShape(s)
  BY <1>1, <1>2 DEF SpiShape
<1>4. /\ k.status = h.status /\ k.state = h.state /\ k.nPending = h.nPending
      /\ k.cmd = h.cmd /\ k.spi = s /\ k.chip = h.chip
      /\ HwShape(k)
  BY <1>3 DEF HwShape, HwFields
<1> HIDE DEF k
<1>5. Flags(k.spi) /\ Counted(k) /\ Led(k) /\ Prepared(k, k.state)
  BY <1>2, <1>4 DEF Run, Flags, Left, Counted, Led, Prepared
<1>6. Polled(h) => Polled(k)
  BY <1>2, <1>4 DEF Polled
<1>7. Run(k)
  BY <1>2, <1>4, <1>5, <1>6 DEF Run
<1> QED
  BY <1>4, <1>7 DEF k, s

(* The master between two transfers.                                       *)
Still(s) == ~s.busy /\ ~s.last /\ s.int = {} /\ ~s.shifting /\ ~s.full

(* A transfer of the chain has ended: its bytes are all in the chip.       *)
Ended(h) ==
    /\ h.status = "busy" /\ h.state \in States /\ Still(h.spi)
    /\ h.chip.selected /\ ~h.chip.ignored
    /\ h.chip.frame # <<>> /\ h.chip.frame[1] = Op(Opcode(h.state))
    /\ Sizes(h.state, h.spi.txSize, h.spi.rxSize, h.spi.rx)
    /\ Len(h.chip.frame) = SentBefore(h.state) + Total(h.spi.txSize, h.spi.rxSize)
    /\ Prepared(h, h.state)
    /\ h.state \in Waiting => Fresh(h.chip, h.cmd[3])

(* When the handler reports the end of the transfer, it has ended.         *)
LEMMA CompleteMeansEnded ==
    ASSUME NEW h, HwShape(h), Run(h), Complete(h.spi)
    PROVE  LET k == [h EXCEPT !.spi = [@ EXCEPT !.busy = FALSE, !.last = FALSE, !.int = {}]]
           IN  HwShape(k) /\ Ended(k) /\ k.chip = h.chip
<1> DEFINE s == [h.spi EXCEPT !.busy = FALSE, !.last = FALSE, !.int = {}]
           k == [h EXCEPT !.spi = s]
<1>1. SpiShape(h.spi) /\ ChipShape(h.chip) /\ Flags(h.spi)
  BY DEF HwShape, Run
<1>2. /\ s.busy = FALSE /\ s.last = FALSE /\ s.int = {}
      /\ s.txSize = h.spi.txSize /\ s.txCount = h.spi.txCount /\ s.rx = h.spi.rx
      /\ s.rxSize = h.spi.rxSize /\ s.rxCount = h.spi.rxCount /\ s.dummy = h.spi.dummy
      /\ s.full = h.spi.full /\ s.shifting = h.spi.shifting /\ s.txc = h.spi.txc
      /\ s.shift = h.spi.shift /\ s.fifo = h.spi.fifo
      /\ DOMAIN s = SpiFields
  BY <1>1 DEF SpiShape, SpiFields
<1> HIDE DEF s
<1>3. SpiShape(s)
  BY <1>1, <1>2 DEF SpiShape
<1>4. /\ k.status = h.status /\ k.state = h.state /\ k.nPending = h.nPending
      /\ k.cmd = h.cmd /\ k.spi = s /\ k.chip = h.chip
      /\ HwShape(k)
  BY <1>3 DEF HwShape, HwFields
<1> HIDE DEF k
<1>5. ~h.spi.shifting /\ ~h.spi.full /\ Left(h.spi) = 0 /\ h.spi.rxCount = h.spi.rxSize
  BY <1>1 DEF Complete, Flags
<1>6. h.chip.frame # <<>> /\ h.chip.frame[1] = Op(Opcode(h.state))
  BY <1>5 DEF Run, Led
<1>7. Len(h.chip.frame) = SentBefore(h.state) + Total(h.spi.txSize, h.spi.rxSize)
  <2>1. Bit(h.spi.shifting) = 0 /\ Bit(h.spi.full) = 0
    BY <1>5 DEF Bit
  <2>2. Len(h.chip.frame) \in Nat
    BY <1>1, TailIsSeq DEF ChipShape
  <2>3. Len(h.chip.frame) + Bit(h.spi.shifting) + Bit(h.spi.full) + Left(h.spi)
           = SentBefore(h.state) + Total(h.spi.txSize, h.spi.rxSize)
    BY DEF Run, Counted
  <2> QED
    BY <1>5, <2>1, <2>2, <2>3
<1>8. h.state \in Waiting => Fresh(h.chip, h.cmd[3])
  BY <1>5 DEF Run, Sizes, Polled
<1>9. Prepared(k, k.state)
  BY <1>4 DEF Run, Prepared
<1>10. Ended(k)
  BY <1>2, <1>4, <1>5, <1>6, <1>7, <1>8, <1>9 DEF Ended, Run, Still
<1> QED
  BY <1>4, <1>10 DEF k, s

(* SERCOM1_SPI_WriteRead on a master that is not busy.                     *)
LEMMA WriteReadBegins ==
    ASSUME NEW p, SpiShape(p), Still(p), NEW tx, NEW rx, NEW first,
           NEW n \in Nat, NEW m \in Nat, n > 0 \/ m > 0
    PROVE  LET s == WriteRead(p, tx, n, rx, m, first)
           IN  /\ SpiShape(s) /\ s.busy /\ Flags(s)
               /\ s.txSize = n /\ s.rxSize = m /\ s.rx = rx /\ s.rxCount = 0
               /\ s.shifting /\ ~s.full /\ (n > 0 => s.shift = first)
               /\ s.fifo = <<>> /\ (m > 0 => s.int = {"RXC"})
               /\ Left(s) = Total(n, m) - 1
<1> DEFINE c == IF n > 0 THEN 1 ELSE 0
           d == IF m > n THEN m - n ELSE 0
           e == IF n = 0 THEN d - 1 ELSE d
           s == WriteRead(p, tx, n, rx, m, first)
<1>1. /\ s.busy = TRUE /\ s.txSize = n /\ s.txCount = c /\ s.rx = rx /\ s.rxSize = m
      /\ s.rxCount = 0 /\ s.dummy = e /\ s.last = p.last
      /\ s.int = p.int \cup {IF m > 0 THEN "RXC" ELSE "DRE"}
      /\ s.full = p.full /\ s.shifting = TRUE /\ s.txc = FALSE
      /\ s.shift = IF n > 0 THEN first ELSE NoByte
      /\ s.fifo = <<>> /\ DOMAIN s = SpiFields
  BY DEF WriteRead, PutData, Flushed, SpiShape, SpiFields, Still
<1>2. c \in Nat /\ c <= n /\ e \in Nat /\ (n - c) + e = Total(n, m) - 1
  BY DEF Total
<1> HIDE DEF s, c, d, e
<1>3. Left(s) = Total(n, m) - 1
  BY <1>1, <1>2 DEF Left
<1>4. SpiShape(s)
  <2>1. s.last \in BOOLEAN /\ s.full \in BOOLEAN
    BY <1>1 DEF SpiShape
  <2>2. IsSeq(s.fifo)
    BY <1>1, EmptyIsSeq
  <2>3. s.busy \in BOOLEAN /\ s.shifting \in BOOLEAN /\ s.txc \in BOOLEAN
    BY <1>1
  <2>4. /\ s.txSize \in Nat /\ s.txCount \in Nat /\ s.rxSize \in Nat
        /\ s.rxCount \in Nat /\ s.dummy \in Nat
    BY <1>1, <1>2
  <2>5. DOMAIN s = SpiFields
    BY <1>1
  <2> QED
    BY <2>1, <2>2, <2>3, <2>4, <2>5 DEF SpiShape
<1>5. Flags(s)
  BY <1>1, <1>2 DEF Flags, Still
<1> QED
  BY <1>1, <1>3, <1>4, <1>5 DEF s, Still

(* A transfer that was just begun for a state runs, if the chip is         *)
(* prepared for it and its first byte, when no byte of the command was     *)
(* sent yet, is the command.                                               *)
LEMMA BegunRuns ==
    ASSUME NEW r, HwShape(r), r.status = "busy", r.state \in States,
           r.chip.selected, ~r.chip.ignored, Prepared(r, r.state),
           r.spi.busy, Flags(r.spi), r.spi.rxCount = 0, r.spi.shifting, ~r.spi.full,
           r.spi.fifo = <<>>,
           r.spi.rxSize > 0 => r.spi.int = {"RXC"},
           Left(r.spi) = Total(r.spi.txSize, r.spi.rxSize) - 1,
           Sizes(r.state, r.spi.txSize, r.spi.rxSize, r.spi.rx),
           Len(r.chip.frame) = SentBefore(r.state),
           IF r.chip.frame = <<>> THEN r.spi.shift = Op(Opcode(r.state))
           ELSE r.chip.frame[1] = Op(Opcode(r.state))
    PROVE  Run(r)
<1>1. Counted(r)
  <2> DEFINE t == Total(r.spi.txSize, r.spi.rxSize)
             b == SentBefore(r.state)
  <2>1. t \in Int /\ b \in Int
    BY DEF HwShape, SpiShape, Total, SentBefore
  <2>2. Bit(r.spi.shifting) = 1 /\ Bit(r.spi.full) = 0
    BY DEF Bit
  <2>3. Left(r.spi) = t - 1 /\ Len(r.chip.frame) = b
    OBVIOUS
  <2> DEFINE l == Len(r.chip.frame)
             x == Bit(r.spi.shifting)
             y == Bit(r.spi.full)
             e == Left(r.spi)
  <2>4. x = 1 /\ y = 0 /\ e = t - 1 /\ l = b
    BY <2>2, <2>3
  <2> HIDE DEF t, b, l, x, y, e
  <2>5. l + x + y + e = b + t
    BY <2>1, <2>4
  <2> QED
    BY <2>5 DEF Counted, b, t, l, x, y, e
<1>2. Led(r)
  BY DEF Led
<1>3. r.state \in Waiting => Polled(r)
  <2>1. SUFFICES ASSUME r.state \in Waiting PROVE Polled(r)
    OBVIOUS
  <2>2. Len(r.chip.frame) = 0 /\ r.spi.rxSize = 3 /\ Len(r.spi.fifo) = 0
    BY <2>1, EmptyIsSeq DEF SentBefore, Waiting, Sizes
  <2>3. r.spi.int = {"RXC"}
    BY <2>2
  <2>4. Bit(r.spi.shifting) = 1 /\ Bit(r.spi.full) = 0
    BY DEF Bit
  <2>5. Len(r.spi.fifo) + Bit(r.spi.shifting) + Bit(r.spi.full) <= 1
    <3> DEFINE l == Len(r.spi.fifo)
               x == Bit(r.spi.shifting)
               y == Bit(r.spi.full)
    <3>1. l = 0 /\ x = 1 /\ y = 0
      BY <2>2, <2>4
    <3> HIDE DEF l, x, y
    <3>2. l + x + y <= 1
      BY <3>1
    <3> QED
      BY <3>2 DEF l, x, y
  <2>6. r.spi.rxCount + Len(r.spi.fifo) = Len(r.chip.frame)
    BY <2>2
  <2>7. r.spi.rxCount # 2 /\ r.spi.rxCount # 3
    OBVIOUS
  <2>8. r.spi.int \subseteq {"RXC", "TXC"} /\ "TXC" \notin r.spi.int
    BY <2>3
  <2> QED
    BY <2>5, <2>6, <2>7, <2>8 DEF Polled
<1> QED
  BY <1>1, <1>2, <1>3 DEF Run

(* Start, for a state that follows or for the state the driver is in.      *)
LEMMA StartRuns ==
    ASSUME NEW h, HwShape(h), Still(h.spi), h.status = "busy",
           h.chip.selected, ~h.chip.ignored,
           NEW state, state \in States, Prepared(h, state),
           NEW tx, NEW rx, NEW n \in Nat, NEW m \in Nat, n > 0 \/ m > 0,
           Sizes(state, n, m, rx),
           Len(h.chip.frame) = SentBefore(state),
           h.chip.frame = <<>> => n > 0 /\ Fetch(h, tx, 0) = Op(Opcode(state)),
           h.chip.frame # <<>> => h.chip.frame[1] = Op(Opcode(state))
    PROVE  LET t == Start(h, tx, n, rx, m)
               k == Then(t, state)
           IN  /\ HwShape(k) /\ Run(k) /\ k.chip = h.chip
               /\ h.state = state => HwShape(t.h) /\ Run(t.h) /\ t.h.chip = h.chip
<1> DEFINE first == Fetch(h, tx, 0)
           s == WriteRead(h.spi, tx, n, rx, m, first)
           g == [h EXCEPT !.spi = s]
           k == [g EXCEPT !.state = state]
<1>1. SpiShape(h.spi)
  BY DEF HwShape
<1>2. Start(h, tx, n, rx, m) = [ok |-> TRUE, h |-> g]
  BY DEF Start, Still, HwShape
<1>3. Then([ok |-> TRUE, h |-> g], state) = k
  BY DEF Then
<1>4. /\ SpiShape(s) /\ s.busy /\ Flags(s)
      /\ s.txSize = n /\ s.rxSize = m /\ s.rx = rx /\ s.rxCount = 0
      /\ s.shifting /\ ~s.full /\ (n > 0 => s.shift = first)
      /\ s.fifo = <<>> /\ (m > 0 => s.int = {"RXC"})
      /\ Left(s) = Total(n, m) - 1
  <2> DEFINE p == h.spi
  <2>1. SpiShape(p) /\ Still(p)
    BY <1>1
  <2> HIDE DEF first, p
  <2> DEFINE w == WriteRead(p, tx, n, rx, m, first)
  <2>2. /\ SpiShape(w) /\ w.busy /\ Flags(w)
        /\ w.txSize = n /\ w.rxSize = m /\ w.rx = rx /\ w.rxCount = 0
        /\ w.shifting /\ ~w.full /\ (n > 0 => w.shift = first)
        /\ w.fifo = <<>> /\ (m > 0 => w.int = {"RXC"})
        /\ Left(w) = Total(n, m) - 1
    BY <2>1, WriteReadBegins
  <2> QED
    BY <2>2 DEF p
<1> HIDE DEF s
<1>5. /\ g.status = h.status /\ g.state = h.state /\ g.nPending = h.nPending
      /\ g.cmd = h.cmd /\ g.spi = s /\ g.chip = h.chip
      /\ HwShape(g)
  BY <1>4 DEF HwShape, HwFields
<1> HIDE DEF g
<1>6. /\ k.status = h.status /\ k.state = state /\ k.nPending = h.nPending
      /\ k.cmd = h.cmd /\ k.spi = s /\ k.chip = h.chip
      /\ HwShape(k)
  BY <1>5 DEF HwShape, HwFields
<1> HIDE DEF k
<1>7. IF h.chip.frame = <<>> THEN s.shift = Op(Opcode(state))
      ELSE h.chip.frame[1] = Op(Opcode(state))
  BY <1>4 DEF first
<1>8. Run(k)
  <2>1. Prepared(k, k.state)
    BY <1>6 DEF Prepared
  <2> QED
    BY <1>4, <1>6, <1>7, <2>1, BegunRuns
<1>9. h.state = state => Run(g)
  <2>1. h.state = state => Prepared(g, g.state)
    BY <1>5 DEF Prepared
  <2> QED
    BY <1>4, <1>5, <1>7, <2>1, BegunRuns
<1> QED
  BY <1>2, <1>3, <1>5, <1>6, <1>8, <1>9

-----------------------------------------------------------------------------
(* The chip select.                                                        *)

(* When the chip is deselected after a transfer that ends a command, it    *)
(* takes the command, and is left as the next one needs it.                *)
LEMMA DeselectTakesCommand ==
    ASSUME NEW h, HwShape(h), Ended(h),
           h.state \notin {"writeData", "readData", "readJedec"}
    PROVE  LET up == Deselect(h)
           IN  /\ HwShape(up)
               /\ up.status = h.status /\ up.state = h.state /\ up.nPending = h.nPending
               /\ up.memoryAddr = h.memoryAddr /\ up.bufferAddr = h.bufferAddr
               /\ up.cmd = h.cmd /\ up.spi = h.spi
               /\ ~up.chip.selected /\ up.chip.frame = <<>> /\ ~up.chip.ignored
               /\ h.state \in Enabling => up.chip.wel
               /\ up.chip.busy => h.chip.busy \/ h.state \in Writing
               /\ up.chip.locked => h.chip.locked /\ h.state # "checkUnlock"
<1> DEFINE g == CarriedOut(h)
           c == Command(h.chip)
<1>1. ChipShape(h.chip) /\ h.chip.selected /\ h.state \in States
  BY DEF HwShape, Ended
<1>2. c = Op(Opcode(h.state)) /\ c # NoByte
  BY DEF Command, Ended, Op, NoByte
<1>3. Len(h.chip.frame) = SentBefore(h.state) + Total(h.spi.txSize, h.spi.rxSize)
  BY DEF Ended
<1>4. Accepted(h)
  <2>1. ~h.spi.shifting /\ Prepared(h, h.state)
        /\ Sizes(h.state, h.spi.txSize, h.spi.rxSize, h.spi.rx)
        /\ h.spi.txSize \in Nat
    BY DEF Ended, Still, HwShape, SpiShape
  <2>2. CASE h.state \in Enabling
    <3>1. c = Op("WREN") /\ ~h.chip.busy
      BY <1>2, <2>1, <2>2 DEF Opcode, Prepared, Enabling, Waiting
    <3> QED
      BY <2>1, <3>1 DEF Accepted
  <2>3. CASE h.state \in Waiting
    <3>1. c = Op("RDSR")
      BY <1>2, <2>3 DEF Opcode, Enabling, Waiting
    <3> QED
      BY <2>1, <3>1 DEF Accepted
  <2>4. CASE h.state \in {"waitRead", "waitJedec"}
    <3>1. c \in {Op("READ"), Op("JEDEC")} /\ ~h.chip.busy
      BY <1>2, <2>1, <2>4 DEF Opcode, Prepared, Enabling, Waiting
    <3> QED
      BY <2>1, <3>1 DEF Accepted
  <2>5. CASE h.state = "checkUnlock"
    <3>1. c = Op("WRSR") /\ ~h.chip.busy /\ h.chip.wel
      BY <1>2, <2>1, <2>5 DEF Opcode, Prepared, Enabling, Waiting, Writing
    <3>2. Len(h.chip.frame) = 2
      BY <1>3, <2>1, <2>5 DEF SentBefore, Sizes, Total
    <3>3. c # Op("PP")
      BY <3>1 DEF Op
    <3> QED
      BY <2>1, <3>1, <3>2, <3>3 DEF Accepted, Writes
  <2>6. CASE h.state = "checkErase"
    <3>1. c = Op("SE") /\ ~h.chip.busy /\ h.chip.wel /\ ~h.chip.locked
      BY <1>2, <2>1, <2>6 DEF Opcode, Prepared, Enabling, Waiting, Writing
    <3>2. Len(h.chip.frame) = 2
      BY <1>3, <2>1, <2>6 DEF SentBefore, Sizes, Total
    <3>3. c # Op("PP")
      BY <3>1 DEF Op
    <3> QED
      BY <2>1, <3>1, <3>2, <3>3 DEF Accepted, Writes
  <2>7. CASE h.state = "checkWrite"
    <3>1. c = Op("PP") /\ ~h.chip.busy /\ h.chip.wel /\ ~h.chip.locked
      BY <1>2, <2>1, <2>7 DEF Opcode, Prepared, Enabling, Waiting, Writing
    <3>2. SentBefore(h.state) = 2 /\ Total(h.spi.txSize, h.spi.rxSize) >= 1
          /\ Total(h.spi.txSize, h.spi.rxSize) \in Nat
      BY <2>1, <2>7 DEF SentBefore, Sizes, Total
    <3>3. Len(h.chip.frame) >= 3
      BY <1>3, <3>2
    <3> QED
      BY <2>1, <3>1, <3>3 DEF Accepted, Writes
  <2> QED
    BY <1>1, <2>2, <2>3, <2>4, <2>5, <2>6, <2>7 DEF States, Writing
<1>5. /\ HwShape(g)
      /\ g.status = h.status /\ g.state = h.state /\ g.nPending = h.nPending
      /\ g.memoryAddr = h.memoryAddr /\ g.bufferAddr = h.bufferAddr
      /\ g.cmd = h.cmd /\ g.spi = h.spi
      /\ g.chip.ignored = h.chip.ignored
      /\ h.state \in Enabling => g.chip.wel
      /\ g.chip.busy => h.chip.busy \/ h.state \in Writing
      /\ g.chip.locked => h.chip.locked /\ h.state # "checkUnlock"
  <2>1. CASE h.state \in Enabling
    <3>1. c = Op("WREN")
      BY <1>2, <2>1 DEF Opcode, Enabling, Waiting
    <3>2. g = [h EXCEPT !.chip.wel = TRUE]
      BY <1>4, <3>1 DEF CarriedOut, Op
    <3> HIDE DEF g
    <3> QED
      BY <2>1, <3>2 DEF HwShape, HwFields, ChipShape, ChipFields, Enabling
  <2>2. CASE h.state = "checkUnlock"
    <3>1. c = Op("WRSR")
      BY <1>2, <2>2 DEF Opcode, Enabling, Waiting
    <3>2. g = [h EXCEPT !.chip.locked = FALSE, !.chip.wel = FALSE, !.chip.busy = TRUE]
      BY <1>4, <3>1 DEF CarriedOut, Op
    <3> HIDE DEF g
    <3> QED
      BY <2>2, <3>2 DEF HwShape, HwFields, ChipShape, ChipFields, Enabling, Writing
  <2>3. CASE h.state = "checkWrite"
    <3>1. c = Op("PP")
      BY <1>2, <2>3 DEF Opcode, Enabling, Waiting
    <3>2. g = [h EXCEPT !.flash = Programs(h), !.chip.wel = FALSE, !.chip.busy = TRUE]
      BY <1>4, <3>1 DEF CarriedOut, Op
    <3> HIDE DEF g
    <3> QED
      BY <2>3, <3>2 DEF HwShape, HwFields, ChipShape, ChipFields, Enabling, Writing
  <2>4. CASE h.state = "checkErase"
    <3>1. c = Op("SE")
      BY <1>2, <2>4 DEF Opcode, Enabling, Waiting
    <3>2. g = [h EXCEPT !.flash = WithSectorErased(@, AddressOf(h.chip)),
                        !.chip.wel = FALSE, !.chip.busy = TRUE]
      BY <1>4, <3>1 DEF CarriedOut, Op
    <3> HIDE DEF g
    <3> QED
      BY <2>4, <3>2 DEF HwShape, HwFields, ChipShape, ChipFields, Enabling, Writing
  <2>5. CASE h.state \in Waiting \cup {"waitRead", "waitJedec"}
    <3>1. c \in {Op("RDSR"), Op("READ"), Op("JEDEC")}
      BY <1>2, <2>5 DEF Opcode, Enabling, Waiting
    <3>2. g = h
      BY <1>4, <3>1 DEF CarriedOut, Op
    <3> HIDE DEF g
    <3> QED
      BY <2>5, <3>2 DEF Enabling, Waiting
  <2> QED
    BY <1>1, <2>1, <2>2, <2>3, <2>4, <2>5 DEF States, Writing
<1> HIDE DEF g
<1> DEFINE up == [g EXCEPT !.chip.selected = FALSE, !.chip.frame = <<>>]
<1>6. Deselect(h) = up
  BY <1>1 DEF Deselect, g
<1>7. /\ HwShape(up)
      /\ up.status = g.status /\ up.state = g.state /\ up.nPending = g.nPending
      /\ up.memoryAddr = g.memoryAddr /\ up.bufferAddr = g.bufferAddr
      /\ up.cmd = g.cmd /\ up.spi = g.spi
      /\ up.chip.selected = FALSE /\ up.chip.frame = <<>>
      /\ up.chip.ignored = g.chip.ignored /\ up.chip.wel = g.chip.wel
      /\ up.chip.busy = g.chip.busy /\ up.chip.locked = g.chip.locked
  BY <1>5, EmptyIsSeq DEF HwShape, HwFields, ChipShape, ChipFields
<1> HIDE DEF up
<1>8. ~h.chip.ignored
  BY DEF Ended
<1> QED
  BY <1>5, <1>6, <1>7, <1>8

-----------------------------------------------------------------------------
(* The transfers that begin a command.                                     *)

(* The chip is selected, with a command in the driver's buffer.            *)
LEMMA SelectWithCommand ==
    ASSUME NEW u, HwShape(u), NEW op
    PROVE  LET g == Select([u EXCEPT !.cmd[0] = op])
           IN  /\ HwShape(g) /\ Fetch(g, Cmd, 0) = op /\ g.cmd[1] = u.cmd[1]
               /\ g.status = u.status /\ g.state = u.state /\ g.nPending = u.nPending
               /\ g.spi = u.spi /\ g.chip.selected /\ g.chip.frame = u.chip.frame
               /\ g.chip.wel = u.chip.wel /\ g.chip.busy = u.chip.busy
               /\ g.chip.locked = u.chip.locked /\ g.chip.ignored = u.chip.ignored
<1> DEFINE c == [u.cmd EXCEPT ![0] = op]
           p == [u.chip EXCEPT !.selected = TRUE]
           g == [u EXCEPT !.cmd = c, !.chip = p]
<1>1. Select([u EXCEPT !.cmd[0] = op]) = g
  BY DEF Select, HwShape, HwFields
<1>2. DOMAIN c = 0 .. 3 /\ c[0] = op /\ c[1] = u.cmd[1]
  BY DEF HwShape
<1>3. /\ ChipShape(p) /\ p.selected = TRUE /\ p.frame = u.chip.frame
      /\ p.wel = u.chip.wel /\ p.busy = u.chip.busy
      /\ p.locked = u.chip.locked /\ p.ignored = u.chip.ignored
  BY DEF HwShape, ChipShape, ChipFields
<1> HIDE DEF c, p
<1>4. /\ HwShape(g) /\ g.cmd = c /\ g.chip = p
      /\ g.status = u.status /\ g.state = u.state /\ g.nPending = u.nPending
      /\ g.spi = u.spi
  BY <1>2, <1>3 DEF HwShape, HwFields
<1> HIDE DEF g
<1>5. Fetch(g, Cmd, 0) = op
  BY <1>2, <1>4 DEF Fetch, Cmd
<1> QED
  BY <1>1, <1>2, <1>3, <1>4, <1>5

(* The same, with its argument behind it.                                  *)
WithArgument(u, op, arg) == Select([u EXCEPT !.cmd[0] = op, !.cmd[1] = arg])

(* What it leaves as it was.                                               *)
LEMMA SelectWithArgument ==
    ASSUME NEW u, HwShape(u), NEW op, NEW arg
    PROVE  LET g == WithArgument(u, op, arg)
           IN  /\ HwShape(g) /\ Fetch(g, Cmd, 0) = op
               /\ g.status = u.status /\ g.state = u.state /\ g.nPending = u.nPending
               /\ g.spi = u.spi /\ g.chip.selected /\ g.chip.frame = u.chip.frame
               /\ g.chip.wel = u.chip.wel /\ g.chip.busy = u.chip.busy
               /\ g.chip.locked = u.chip.locked /\ g.chip.ignored = u.chip.ignored
<1> DEFINE c == [[u.cmd EXCEPT ![0] = op] EXCEPT ![1] = arg]
           p == [u.chip EXCEPT !.selected = TRUE]
           g == [u EXCEPT !.cmd = c, !.chip = p]
<1>1. WithArgument(u, op, arg) = g
  BY DEF WithArgument, Select, HwShape, HwFields
<1>2. DOMAIN c = 0 .. 3 /\ c[0] = op
  BY DEF HwShape
<1>3. /\ ChipShape(p) /\ p.selected = TRUE /\ p.frame = u.chip.frame
      /\ p.wel = u.chip.wel /\ p.busy = u.chip.busy
      /\ p.locked = u.chip.locked /\ p.ignored = u.chip.ignored
  BY DEF HwShape, ChipShape, ChipFields
<1> HIDE DEF c, p
<1>4. /\ HwShape(g) /\ g.cmd = c /\ g.chip = p
      /\ g.status = u.status /\ g.state = u.state /\ g.nPending = u.nPending
      /\ g.spi = u.spi
  BY <1>2, <1>3 DEF HwShape, HwFields
<1> HIDE DEF g
<1>5. Fetch(g, Cmd, 0) = op
  BY <1>2, <1>4 DEF Fetch, Cmd
<1> QED
  BY <1>1, <1>2, <1>3, <1>4, <1>5

(* The driver is between two commands of a chain, or about to begin one.   *)
Between(u) ==
    /\ HwShape(u) /\ Still(u.spi) /\ u.status = "busy"
    /\ u.chip.frame = <<>> /\ ~u.chip.ignored

(* Write Enable, before each command that writes.                          *)
LEMMA WriteEnableRuns ==
    ASSUME NEW u, Between(u), NEW state, state \in Enabling, Prepared(u, state)
    PROVE  LET t == WriteEnable(u)
               k == Then(t, state)
           IN  /\ HwShape(k) /\ Run(k) /\ k.chip.locked = u.chip.locked
               /\ u.state = state =>
                    HwShape(t.h) /\ Run(t.h) /\ t.h.chip.locked = u.chip.locked
<1> DEFINE g == Select([u EXCEPT !.cmd[0] = Op("WREN")])
<1>1. /\ HwShape(g) /\ Fetch(g, Cmd, 0) = Op("WREN") /\ g.cmd[1] = u.cmd[1]
      /\ g.status = u.status /\ g.state = u.state /\ g.nPending = u.nPending
      /\ g.spi = u.spi /\ g.chip.selected /\ g.chip.frame = u.chip.frame
      /\ g.chip.wel = u.chip.wel /\ g.chip.busy = u.chip.busy
      /\ g.chip.locked = u.chip.locked /\ g.chip.ignored = u.chip.ignored
  BY SelectWithCommand DEF Between
<1>2. WriteEnable(u) = Start(g, Cmd, 1, NoPtr, 0)
  BY DEF WriteEnable
<1> HIDE DEF g
<1>3. Prepared(g, state)
  BY <1>1 DEF Prepared
<1>4. /\ state \in States /\ Opcode(state) = "WREN" /\ SentBefore(state) = 0
      /\ Sizes(state, 1, 0, NoPtr)
  BY DEF States, Opcode, SentBefore, Sizes, Enabling, Waiting
<1>5. Len(g.chip.frame) = 0 /\ g.chip.frame = <<>> /\ g.status = "busy"
      /\ Still(g.spi) /\ ~g.chip.ignored
  BY <1>1, EmptyIsSeq DEF Between
<1> DEFINE t == Start(g, Cmd, 1, NoPtr, 0)
           k == Then(t, state)
<1>6. /\ HwShape(k) /\ Run(k) /\ k.chip = g.chip
      /\ g.state = state => HwShape(t.h) /\ Run(t.h) /\ t.h.chip = g.chip
  BY <1>1, <1>3, <1>4, <1>5, StartRuns
<1> HIDE DEF t, k
<1> QED
  BY <1>1, <1>2, <1>6 DEF t, k

(* Read Status, until the chip is no longer busy.                          *)
LEMMA ReadStatusRuns ==
    ASSUME NEW u, Between(u), NEW state, state \in Waiting, Prepared(u, state)
    PROVE  LET t == ReadStatus(u)
               k == Then(t, state)
           IN  /\ HwShape(k) /\ Run(k) /\ k.chip.locked = u.chip.locked
               /\ u.state = state =>
                    HwShape(t.h) /\ Run(t.h) /\ t.h.chip.locked = u.chip.locked
<1> DEFINE g == Select([u EXCEPT !.cmd[0] = Op("RDSR")])
<1>1. /\ HwShape(g) /\ Fetch(g, Cmd, 0) = Op("RDSR") /\ g.cmd[1] = u.cmd[1]
      /\ g.status = u.status /\ g.state = u.state /\ g.nPending = u.nPending
      /\ g.spi = u.spi /\ g.chip.selected /\ g.chip.frame = u.chip.frame
      /\ g.chip.wel = u.chip.wel /\ g.chip.busy = u.chip.busy
      /\ g.chip.locked = u.chip.locked /\ g.chip.ignored = u.chip.ignored
  BY SelectWithCommand DEF Between
<1>2. ReadStatus(u) = Start(g, Cmd, 1, <<"cmd", 1>>, 3)
  BY DEF ReadStatus
<1> HIDE DEF g
<1>3. Prepared(g, state)
  BY <1>1 DEF Prepared
<1>4. /\ state \in States /\ Opcode(state) = "RDSR" /\ SentBefore(state) = 0
      /\ Sizes(state, 1, 3, <<"cmd", 1>>)
  BY DEF States, Opcode, SentBefore, Sizes, Enabling, Waiting
<1>5. Len(g.chip.frame) = 0 /\ g.chip.frame = <<>> /\ g.status = "busy"
      /\ Still(g.spi) /\ ~g.chip.ignored
  BY <1>1, EmptyIsSeq DEF Between
<1> DEFINE t == Start(g, Cmd, 1, <<"cmd", 1>>, 3)
           k == Then(t, state)
<1>6. /\ HwShape(k) /\ Run(k) /\ k.chip = g.chip
      /\ g.state = state => HwShape(t.h) /\ Run(t.h) /\ t.h.chip = g.chip
  BY <1>1, <1>3, <1>4, <1>5, StartRuns
<1> HIDE DEF t, k
<1> QED
  BY <1>1, <1>2, <1>6 DEF t, k

(* A command and its address, or its argument: two bytes.                  *)
LEMMA ArgumentRuns ==
    ASSUME NEW u, Between(u), NEW op, NEW arg,
           NEW state, state \in {"writeData", "checkErase", "readData", "checkUnlock"},
           op = Op(Opcode(state)), Prepared(u, state)
    PROVE  LET t == Start(WithArgument(u, op, arg), Cmd, 2, NoPtr, 0)
               k == Then(t, state)
           IN  /\ HwShape(k) /\ Run(k) /\ k.chip.locked = u.chip.locked
               /\ u.state = state =>
                    HwShape(t.h) /\ Run(t.h) /\ t.h.chip.locked = u.chip.locked
<1> DEFINE g == WithArgument(u, op, arg)
<1>1. /\ HwShape(g) /\ Fetch(g, Cmd, 0) = op
      /\ g.status = u.status /\ g.state = u.state /\ g.nPending = u.nPending
      /\ g.spi = u.spi /\ g.chip.selected /\ g.chip.frame = u.chip.frame
      /\ g.chip.wel = u.chip.wel /\ g.chip.busy = u.chip.busy
      /\ g.chip.locked = u.chip.locked /\ g.chip.ignored = u.chip.ignored
  <2>1. HwShape(u)
    BY DEF Between
  <2> QED
    BY <2>1, SelectWithArgument
<1> HIDE DEF g
<1>3. Prepared(g, state)
  BY <1>1 DEF Prepared
<1>4. state \in States /\ SentBefore(state) = 0 /\ Sizes(state, 2, 0, NoPtr)
  BY DEF States, SentBefore, Sizes, Enabling, Waiting, Writing
<1>5. Len(g.chip.frame) = 0 /\ g.chip.frame = <<>> /\ g.status = "busy"
      /\ Still(g.spi) /\ ~g.chip.ignored
  BY <1>1, EmptyIsSeq DEF Between
<1> DEFINE t == Start(g, Cmd, 2, NoPtr, 0)
           k == Then(t, state)
<1>6. /\ HwShape(k) /\ Run(k) /\ k.chip = g.chip
      /\ g.state = state => HwShape(t.h) /\ Run(t.h) /\ t.h.chip = g.chip
  BY <1>1, <1>3, <1>4, <1>5, StartRuns
<1> HIDE DEF t, k
<1> QED
  BY <1>1, <1>6 DEF t, k, g

-----------------------------------------------------------------------------
(* lDRV_AT25DF_Handler.                                                    *)

(* A write of what is left of a request writes some of it.                 *)
LEMMA InThisPageFits ==
    ASSUME NEW a \in Nat, NEW n \in Nat, n >= 1
    PROVE  InThisPage(a, n) \in Nat /\ InThisPage(a, n) >= 1 /\ InThisPage(a, n) <= n
<1>1. PageSize \in Nat /\ PageSize > 0
  BY GeometryAssumption
<1>2. a % PageSize \in Nat /\ a % PageSize < PageSize
  BY <1>1
<1> DEFINE r == a % PageSize
<1> HIDE DEF r
<1>3. r \in Nat /\ r < PageSize
  BY <1>2 DEF r
<1>4. InThisPage(a, n) = IF n >= PageSize - r THEN PageSize - r ELSE n
  BY DEF InThisPage, r
<1> QED
  BY <1>1, <1>3, <1>4

(* The page data behind PP and its address, up to the end of the page.     *)
LEMMA WriteDataRuns ==
    ASSUME NEW h, HwShape(h), Ended(h), h.state = "writeData"
    PROVE  LET k == Then(WriteData(h), "checkWrite")
           IN  HwShape(k) /\ Run(k) /\ k.chip.locked = h.chip.locked
<1> DEFINE n == InThisPage(h.memoryAddr, h.nPending)
           a == h.memoryAddr + n
           b == <<h.bufferAddr[1], h.bufferAddr[2] + n>>
           c == h.nPending - n
           p == [h.chip EXCEPT !.selected = TRUE]
           g == [h EXCEPT !.memoryAddr = a, !.bufferAddr = b, !.nPending = c, !.chip = p]
<1>1. Prepared(h, "writeData") /\ h.nPending >= 1
  BY DEF Ended, Prepared
<1>2. n \in Nat /\ n >= 1 /\ n <= h.nPending
  BY <1>1, InThisPageFits DEF HwShape
<1>3. WriteData(h) = Start(g, h.bufferAddr, n, NoPtr, 0)
  BY DEF WriteData, Select, HwShape, HwFields
<1> HIDE DEF n
<1>4. a \in Nat /\ c \in Nat /\ b[1] = "buf"
  BY <1>2 DEF HwShape
<1>5. /\ ChipShape(p) /\ p.selected = TRUE /\ p.frame = h.chip.frame
      /\ p.wel = h.chip.wel /\ p.busy = h.chip.busy
      /\ p.locked = h.chip.locked /\ p.ignored = h.chip.ignored
  BY DEF HwShape, ChipShape, ChipFields
<1> HIDE DEF a, b, c, p
<1>6. /\ HwShape(g) /\ g.chip = p /\ g.status = h.status /\ g.state = h.state
      /\ g.spi = h.spi /\ g.cmd = h.cmd
  BY <1>4, <1>5 DEF HwShape, HwFields
<1> HIDE DEF g
<1>7. Prepared(g, "checkWrite")
  BY <1>1, <1>5, <1>6 DEF Prepared, Writing, Waiting
<1>8. /\ "checkWrite" \in States /\ SentBefore("checkWrite") = 2
      /\ Opcode("checkWrite") = "PP" /\ Sizes("checkWrite", n, 0, NoPtr)
  BY <1>2 DEF States, Writing, SentBefore, Opcode, Sizes, Enabling, Waiting
<1>9. Len(h.chip.frame) = 2
  BY DEF Ended, SentBefore, Sizes, Total
<1>10. /\ g.chip.frame # <<>> /\ g.chip.frame[1] = Op("PP") /\ Len(g.chip.frame) = 2
       /\ g.status = "busy" /\ Still(g.spi) /\ g.chip.selected /\ ~g.chip.ignored
  BY <1>5, <1>6, <1>9 DEF Ended, Opcode, Enabling, Waiting
<1> DEFINE t == Start(g, h.bufferAddr, n, NoPtr, 0)
           k == Then(t, "checkWrite")
<1>11. HwShape(k) /\ Run(k) /\ k.chip = g.chip
  <2>1. (n > 0 \/ 0 > 0) /\ Len(g.chip.frame) = SentBefore("checkWrite")
    BY <1>2, <1>8, <1>10
  <2> QED
    BY <1>2, <1>6, <1>7, <1>8, <1>10, <2>1, StartRuns
<1> HIDE DEF t, k
<1> QED
  BY <1>3, <1>5, <1>6, <1>11 DEF t, k

(* The data of a read, behind READ and its address.                        *)
LEMMA ReadDataRuns ==
    ASSUME NEW h, HwShape(h), Ended(h), h.state = "readData"
    PROVE  LET k == Then(ReadData(h), "waitRead")
           IN  HwShape(k) /\ Run(k) /\ k.chip.locked = h.chip.locked
<1> DEFINE p == [h.chip EXCEPT !.selected = TRUE]
           g == [h EXCEPT !.chip = p]
<1>1. Prepared(h, "readData") /\ h.nPending >= 1 /\ h.nPending \in Nat
      /\ h.bufferAddr[1] = "buf"
  BY DEF Ended, Prepared, HwShape
<1>2. ReadData(h) = Start(g, NoPtr, 0, h.bufferAddr, h.nPending)
  BY DEF ReadData, Select, HwShape
<1>3. /\ ChipShape(p) /\ p.selected = TRUE /\ p.frame = h.chip.frame
      /\ p.wel = h.chip.wel /\ p.busy = h.chip.busy
      /\ p.locked = h.chip.locked /\ p.ignored = h.chip.ignored
  BY DEF HwShape, ChipShape, ChipFields
<1> HIDE DEF p
<1>4. /\ HwShape(g) /\ g.chip = p /\ g.status = h.status /\ g.state = h.state
      /\ g.spi = h.spi /\ g.cmd = h.cmd
  BY <1>3 DEF HwShape, HwFields
<1> HIDE DEF g
<1>5. Prepared(g, "waitRead")
  BY <1>1, <1>3, <1>4 DEF Prepared, Writing, Waiting
<1>6. /\ "waitRead" \in States /\ SentBefore("waitRead") = 2
      /\ Opcode("waitRead") = "READ" /\ Sizes("waitRead", 0, h.nPending, h.bufferAddr)
  BY <1>1 DEF States, Writing, SentBefore, Opcode, Sizes, Enabling, Waiting
<1>7. Len(h.chip.frame) = 2
  BY DEF Ended, SentBefore, Sizes, Total
<1>8. /\ g.chip.frame # <<>> /\ g.chip.frame[1] = Op("READ") /\ Len(g.chip.frame) = 2
      /\ g.status = "busy" /\ Still(g.spi) /\ g.chip.selected /\ ~g.chip.ignored
  BY <1>3, <1>4, <1>7 DEF Ended, Opcode, Enabling, Waiting
<1> DEFINE t == Start(g, NoPtr, 0, h.bufferAddr, h.nPending)
           k == Then(t, "waitRead")
<1>9. HwShape(k) /\ Run(k) /\ k.chip = g.chip
  <2>1. (0 > 0 \/ h.nPending > 0) /\ Len(g.chip.frame) = SentBefore("waitRead")
    BY <1>1, <1>6, <1>8
  <2> QED
    BY <1>1, <1>4, <1>5, <1>6, <1>8, <2>1, StartRuns
<1> HIDE DEF t, k
<1> QED
  BY <1>2, <1>3, <1>4, <1>9 DEF t, k

(* The four bytes of the identification, behind its command.               *)
LEMMA ReadJedecRuns ==
    ASSUME NEW h, HwShape(h), Ended(h), h.state = "readJedec"
    PROVE  LET k == Then(Start(h, NoPtr, 0, <<"jedec", 0>>, 4), "waitJedec")
           IN  HwShape(k) /\ Run(k) /\ k.chip.locked = h.chip.locked
<1>1. Prepared(h, "waitJedec")
  BY DEF Ended, Prepared, Writing, Waiting
<1>2. /\ "waitJedec" \in States /\ SentBefore("waitJedec") = 1
      /\ Opcode("waitJedec") = "JEDEC" /\ Sizes("waitJedec", 0, 4, <<"jedec", 0>>)
  BY DEF States, Writing, SentBefore, Opcode, Sizes, Enabling, Waiting
<1>3. Len(h.chip.frame) = 1
  BY DEF Ended, SentBefore, Sizes, Total
<1>4. /\ h.chip.frame # <<>> /\ h.chip.frame[1] = Op("JEDEC")
      /\ h.status = "busy" /\ Still(h.spi) /\ h.chip.selected /\ ~h.chip.ignored
  BY DEF Ended, Opcode, Enabling, Waiting
<1>6. Len(h.chip.frame) = SentBefore("waitJedec")
  BY <1>2, <1>3
<1> DEFINE t == Start(h, NoPtr, 0, <<"jedec", 0>>, 4)
           k == Then(t, "waitJedec")
<1>5. HwShape(k) /\ Run(k) /\ k.chip = h.chip
  BY <1>1, <1>2, <1>4, <1>6, StartRuns
<1> HIDE DEF t, k
<1> QED
  BY <1>5 DEF t, k

(* The end of a chain leaves the driver, the SPI and the chip idle.        *)
LEMMA DoneIsIdle ==
    ASSUME NEW u, Between(u), ~u.chip.selected, ~u.chip.busy,
           NEW status, status \in {"completed", "error"}
    PROVE  LET k == Done(u, status)
           IN  HwShape(k) /\ Idle(k) /\ k.chip.locked = u.chip.locked
<1> DEFINE k == Done(u, status)
<1>1. /\ HwShape(k) /\ k.status = status /\ k.spi = u.spi /\ k.chip = u.chip
  BY DEF Done, Between, HwShape, HwFields
<1> HIDE DEF k
<1>2. Idle(k)
  BY <1>1 DEF Idle, Between, Still
<1> QED
  BY <1>1, <1>2 DEF k

(* Whatever state the chain is in when its transfer ends, the next one     *)
(* begins with the chip prepared for it, or the chain is done.             *)
LEMMA HandlerKeeps ==
    ASSUME NEW h, HwShape(h), Ended(h)
    PROVE  LET k == Handler(h)
           IN  /\ HwShape(k) /\ (Idle(k) \/ Run(k))
               /\ k.chip.locked => h.chip.locked /\ Run(k)
<1> DEFINE up == Deselect(h)
           k == Handler(h)
<1>1. h.state \in States /\ h.status = "busy" /\ Still(h.spi) /\ ~h.chip.ignored
      /\ Prepared(h, h.state)
  BY DEF Ended
<1>2. h.state \notin {"writeData", "readData", "readJedec"} =>
        /\ Between(up) /\ ~up.chip.selected
        /\ up.state = h.state /\ up.nPending = h.nPending /\ up.cmd = h.cmd
        /\ h.state \in Enabling => up.chip.wel
        /\ up.chip.busy => h.chip.busy \/ h.state \in Writing
        /\ up.chip.locked => h.chip.locked /\ h.state # "checkUnlock"
  BY <1>1, DeselectTakesCommand DEF Between
<1> HIDE DEF up
<1>3. CASE h.state = "writeCmdAddr"
  <2> DEFINE w == Then(Start(WithArgument(up, Op("PP"), <<"addr", h.memoryAddr>>),
                             Cmd, 2, NoPtr, 0), "writeData")
  <2>1. k = w
    BY <1>3 DEF Handler, WriteMemoryAddress, WithArgument, up
  <2>2. Between(up) /\ Opcode("writeData") = "PP" /\ Prepared(up, "writeData")
        /\ (up.chip.locked => h.chip.locked)
    BY <1>1, <1>2, <1>3 DEF Prepared, Opcode, Enabling, Waiting, Writing
  <2>3. HwShape(w) /\ Run(w) /\ w.chip.locked = up.chip.locked
    BY <2>2, ArgumentRuns
  <2> HIDE DEF w
  <2> QED
    BY <2>1, <2>2, <2>3
<1>4. CASE h.state = "writeData"
  <2>1. k = Then(WriteData(h), "checkWrite")
    BY <1>4 DEF Handler
  <2> QED
    BY <1>4, <2>1, WriteDataRuns
<1>5. CASE h.state = "checkWrite"
  <2>1. k = Then(ReadStatus(up), "waitWrite")
    BY <1>5 DEF Handler, up
  <2>2. Between(up) /\ Prepared(up, "waitWrite") /\ (up.chip.locked => h.chip.locked)
    BY <1>1, <1>2, <1>5 DEF Prepared, Waiting, Writing
  <2> QED
    BY <2>1, <2>2, ReadStatusRuns DEF Waiting
<1>6. CASE h.state \in Waiting /\ StillBusy(h)
  <2>1. k = ReadStatus(up).h
    BY <1>6 DEF Handler, up, Waiting
  <2>2. Between(up) /\ Prepared(up, h.state) /\ (up.chip.locked => h.chip.locked)
        /\ up.state = h.state
    BY <1>1, <1>2, <1>6 DEF Prepared, Waiting, Writing
  <2> QED
    BY <1>6, <2>1, <2>2, ReadStatusRuns
<1>7. h.state \in Waiting /\ ~StillBusy(h) => ~up.chip.busy
  BY <1>2 DEF Ended, Fresh, StillBusy, Waiting, Writing
<1>8. CASE h.state = "waitWrite" /\ ~StillBusy(h) /\ h.nPending # 0
  <2>1. k = Then(WriteEnable(up), "writeCmdAddr")
    BY <1>8 DEF Handler, up
  <2>2. up.nPending >= 1
    BY <1>2, <1>8 DEF HwShape
  <2>3. Between(up) /\ Prepared(up, "writeCmdAddr") /\ (up.chip.locked => h.chip.locked)
    BY <1>1, <1>2, <1>7, <1>8, <2>2 DEF Prepared, Waiting, Writing
  <2> QED
    BY <2>1, <2>3, WriteEnableRuns DEF Enabling
<1>9. CASE h.state \in Waiting /\ ~StillBusy(h) /\ (h.state = "waitWrite" => h.nPending = 0)
  <2>1. k = Done(up, "completed")
    BY <1>9 DEF Handler, up, Waiting
  <2>2. Between(up) /\ ~up.chip.selected /\ ~up.chip.busy /\ ~up.chip.locked
    BY <1>1, <1>2, <1>7, <1>9 DEF Prepared, Waiting, Writing
  <2> QED
    BY <2>1, <2>2, DoneIsIdle
<1>10. CASE h.state = "readData"
  <2>1. k = Then(ReadData(h), "waitRead")
    BY <1>10 DEF Handler
  <2> QED
    BY <1>10, <2>1, ReadDataRuns
<1>11. CASE h.state = "waitRead"
  <2>1. k = Done(up, "completed")
    BY <1>11 DEF Handler, up
  <2>2. Between(up) /\ ~up.chip.selected /\ ~up.chip.busy /\ ~up.chip.locked
    BY <1>1, <1>2, <1>11 DEF Prepared, Waiting, Writing
  <2> QED
    BY <2>1, <2>2, DoneIsIdle
<1>12. CASE h.state = "erase"
  <2> DEFINE w == Then(Start(WithArgument(up, up.cmd[1], <<"addr", h.memoryAddr>>),
                             Cmd, 2, NoPtr, 0), "checkErase")
  <2>1. k = w
    BY <1>12 DEF Handler, WriteMemoryAddress, WithArgument, up
  <2>2. Between(up) /\ Opcode("checkErase") = "SE" /\ Prepared(up, "checkErase")
        /\ (up.chip.locked => h.chip.locked)
    BY <1>1, <1>2, <1>12 DEF Prepared, Opcode, Enabling, Waiting, Writing
  <2>3. up.cmd[1] = Op("SE")
    BY <1>1, <1>2, <1>12 DEF Prepared
  <2>4. HwShape(w) /\ Run(w) /\ w.chip.locked = up.chip.locked
    BY <2>2, <2>3, ArgumentRuns
  <2> HIDE DEF w
  <2> QED
    BY <2>1, <2>2, <2>4
<1>13. CASE h.state = "checkErase"
  <2>1. k = Then(ReadStatus(up), "waitErase")
    BY <1>13 DEF Handler, up
  <2>2. Between(up) /\ Prepared(up, "waitErase") /\ (up.chip.locked => h.chip.locked)
    BY <1>1, <1>2, <1>13 DEF Prepared, Waiting, Writing
  <2> QED
    BY <2>1, <2>2, ReadStatusRuns DEF Waiting
<1>14. CASE h.state = "unlock"
  <2> DEFINE w == Then(Start(WithArgument(up, Op("WRSR"), NoByte), Cmd, 2, NoPtr, 0),
                       "checkUnlock")
  <2>1. k = w
    BY <1>14 DEF Handler, GlobalUnprotect, WithArgument, up
  <2>2. Between(up) /\ Opcode("checkUnlock") = "WRSR" /\ Prepared(up, "checkUnlock")
        /\ (up.chip.locked => h.chip.locked)
    BY <1>1, <1>2, <1>14 DEF Prepared, Opcode, Enabling, Waiting, Writing
  <2>3. HwShape(w) /\ Run(w) /\ w.chip.locked = up.chip.locked
    BY <2>2, ArgumentRuns
  <2> HIDE DEF w
  <2> QED
    BY <2>1, <2>2, <2>3
<1>15. CASE h.state = "checkUnlock"
  <2>1. k = Then(ReadStatus(up), "waitUnlock")
    BY <1>15 DEF Handler, up
  <2>2. Between(up) /\ Prepared(up, "waitUnlock") /\ (up.chip.locked => h.chip.locked)
    BY <1>1, <1>2, <1>15 DEF Prepared, Waiting, Writing
  <2> QED
    BY <2>1, <2>2, ReadStatusRuns DEF Waiting
<1>16. CASE h.state = "readJedec"
  <2>1. k = Then(Start(h, NoPtr, 0, <<"jedec", 0>>, 4), "waitJedec")
    BY <1>16 DEF Handler
  <2> QED
    BY <1>16, <2>1, ReadJedecRuns
<1>17. CASE h.state = "waitJedec"
  <2> DEFINE status == IF CheckJedecId(h) THEN "completed" ELSE "error"
  <2>1. k = Done(up, status)
    BY <1>17 DEF Handler, up
  <2>2. Between(up) /\ ~up.chip.selected /\ ~up.chip.busy /\ ~up.chip.locked
    BY <1>1, <1>2, <1>17 DEF Prepared, Waiting, Writing
  <2>3. status \in {"completed", "error"}
    OBVIOUS
  <2> HIDE DEF status
  <2> QED
    BY <2>1, <2>2, <2>3, DoneIsIdle
<1> HIDE DEF k
<1> QED
  BY <1>1, <1>3, <1>4, <1>5, <1>6, <1>8, <1>9, <1>10, <1>11, <1>12, <1>13, <1>14, <1>15,
     <1>16, <1>17 DEF States, Enabling, Writing, Waiting, k

-----------------------------------------------------------------------------
(* The steps.                                                              *)

(* The interrupt leaves the transfer running, or begins the next of the    *)
(* chain, or ends the chain.                                               *)
LEMMA InterruptKeeps ==
    ASSUME NEW h, HwShape(h), Run(h), Raised(h.spi), NEW next
    PROVE  LET served == [Stored(h) EXCEPT !.spi = Served(@, next)]
               k == IF h.spi.busy /\ ~served.spi.busy THEN Handler(served) ELSE served
           IN  /\ HwShape(k) /\ (Idle(k) \/ Run(k))
               /\ k.chip.locked => h.chip.locked /\ Run(k)
<1> DEFINE w == Stored(h)
           in == Received(h.spi)
           out == Sent(in, next)
           a == [w EXCEPT !.spi = in]
           b == [a EXCEPT !.spi = out]
           end == [out EXCEPT !.busy = FALSE, !.last = FALSE, !.int = {}]
           served == [w EXCEPT !.spi = Served(@, next)]
<1>1. w.spi = h.spi /\ DOMAIN w = HwFields
  BY ReceiveKeepsRunning
<1>2. /\ HwShape(a) /\ Run(a) /\ a.chip.locked = h.chip.locked
      /\ a.state \in Waiting => a.spi.fifo = <<>> /\ (Left(a.spi) = 0 \/ ~a.spi.shifting)
      /\ a.spi = in
  <2>1. a = [Stored(h) EXCEPT !.spi = Received(@)]
    BY <1>1 DEF HwFields
  <2>2. a.spi = in
    BY <1>1 DEF HwFields
  <2> HIDE DEF a
  <2> QED
    BY <2>1, <2>2, ReceiveKeepsRunning
<1>3. h.spi.busy
  BY DEF Run
<1>4. Served(w.spi, next) = IF Complete(out) THEN end ELSE Awaiting(out)
  BY <1>1 DEF Served
<1> HIDE DEF w, in
<1>5. /\ HwShape(b) /\ Run(b) /\ b.chip.locked = h.chip.locked /\ b.spi = out
  <2>1. b = [a EXCEPT !.spi = Sent(@, next)]
    BY <1>2
  <2>2. b.spi = out
    BY <1>1 DEF HwFields
  <2> HIDE DEF a, b, out
  <2> QED
    BY <1>2, <2>1, <2>2, SendKeepsRunning
<1> HIDE DEF out
<1>6. CASE Complete(out)
  <2> DEFINE c == [b EXCEPT !.spi = end]
  <2>1. served = c
    BY <1>1, <1>4, <1>6 DEF HwFields
  <2>2. c = [b EXCEPT !.spi = [@ EXCEPT !.busy = FALSE, !.last = FALSE, !.int = {}]]
    BY <1>5
  <2>3. c.spi.busy = FALSE
    BY <1>5 DEF HwShape, HwFields, SpiShape, SpiFields
  <2> HIDE DEF c, b
  <2>4. HwShape(c) /\ Ended(c) /\ c.chip = b.chip
    BY <1>5, <1>6, <2>2, CompleteMeansEnded
  <2>5. /\ HwShape(Handler(c)) /\ (Idle(Handler(c)) \/ Run(Handler(c)))
        /\ Handler(c).chip.locked => c.chip.locked /\ Run(Handler(c))
    BY <2>4, HandlerKeeps
  <2> HIDE DEF served
  <2>6. (IF h.spi.busy /\ ~served.spi.busy THEN Handler(served) ELSE served) = Handler(c)
    BY <1>3, <2>1, <2>3
  <2> QED
    BY <1>5, <2>4, <2>5, <2>6 DEF served, w
<1>7. CASE ~Complete(out)
  <2> DEFINE c == [b EXCEPT !.spi = Awaiting(out)]
  <2>1. served = c
    BY <1>1, <1>4, <1>7 DEF HwFields
  <2>2. c = [b EXCEPT !.spi = Awaiting(@)]
    BY <1>5
  <2> HIDE DEF c, b
  <2>3. HwShape(c) /\ Run(c) /\ c.chip.locked = b.chip.locked
    BY <1>5, <2>2, AwaitKeepsRunning
  <2>4. c.spi.busy
    BY <2>3 DEF Run
  <2> HIDE DEF served
  <2>5. (IF h.spi.busy /\ ~served.spi.busy THEN Handler(served) ELSE served) = c
    BY <2>1, <2>4
  <2> QED
    BY <1>5, <2>3, <2>5 DEF served, w
<1> QED
  BY <1>6, <1>7

(* A driver that is idle, with the sectors unprotected unless this is what *)
(* it is about to do, is ready to begin any chain.                         *)
LEMMA ReadyToBegin ==
    ASSUME NEW h, HwShape(h), Idle(h), NEW u, HwShape(u),
           u.status = "busy", u.spi = h.spi, u.chip = h.chip,
           u.state \in Enabling \cup {"readData", "readJedec"},
           h.chip.locked => u.state = "unlock",
           u.state \in {"writeCmdAddr", "readData"} => u.nPending >= 1,
           u.state = "erase" => u.cmd[1] = Op("SE")
    PROVE  Between(u) /\ Prepared(u, u.state)
<1>1. Between(u)
  BY DEF Between, Idle, Still
<1>2. Prepared(u, u.state)
  BY DEF Prepared, Idle, Enabling, Writing
<1> QED
  BY <1>1, <1>2

(* The calls, on a driver that is idle.                                    *)
LEMMA UnlockFlashRuns ==
    ASSUME NEW h, HwShape(h), Idle(h)
    PROVE  HwShape(UnlockFlash(h).h) /\ Run(UnlockFlash(h).h)
<1> DEFINE u == [Busy(h) EXCEPT !.state = "unlock"]
<1>1. HwShape(u) /\ u.status = "busy" /\ u.spi = h.spi /\ u.chip = h.chip
      /\ u.state = "unlock"
  BY DEF Busy, HwShape, HwFields
<1>2. UnlockFlash(h) = WriteEnable(u)
  BY DEF UnlockFlash
<1> HIDE DEF u
<1>3. Between(u) /\ Prepared(u, u.state)
  BY <1>1, ReadyToBegin DEF Enabling
<1> QED
  BY <1>1, <1>2, <1>3, WriteEnableRuns DEF Enabling

(* DRV_AT25DF_GeometryGet: the identification.                             *)
LEMMA ReadJedecIdRuns ==
    ASSUME NEW h, HwShape(h), Idle(h), ~h.chip.locked
    PROVE  LET k == ReadJedecId(h).h IN HwShape(k) /\ Run(k) /\ ~k.chip.locked
<1> DEFINE u == [Busy(h) EXCEPT !.state = "readJedec"]
           g == Select([u EXCEPT !.cmd[0] = Op("JEDEC")])
<1>1. HwShape(u) /\ u.status = "busy" /\ u.spi = h.spi /\ u.chip = h.chip
      /\ u.state = "readJedec"
  BY DEF Busy, HwShape, HwFields
<1>2. [Busy(h) EXCEPT !.cmd[0] = Op("JEDEC"), !.state = "readJedec"]
        = [u EXCEPT !.cmd[0] = Op("JEDEC")]
  BY DEF Busy, HwShape, HwFields
<1>3. ReadJedecId(h) = Start(g, Cmd, 1, NoPtr, 0)
  BY <1>2 DEF ReadJedecId
<1> HIDE DEF u
<1>4. Between(u) /\ Prepared(u, u.state)
  BY <1>1, ReadyToBegin
<1>5. /\ HwShape(g) /\ Fetch(g, Cmd, 0) = Op("JEDEC") /\ g.cmd[1] = u.cmd[1]
      /\ g.status = u.status /\ g.state = u.state /\ g.nPending = u.nPending
      /\ g.spi = u.spi /\ g.chip.selected /\ g.chip.frame = u.chip.frame
      /\ g.chip.wel = u.chip.wel /\ g.chip.busy = u.chip.busy
      /\ g.chip.locked = u.chip.locked /\ g.chip.ignored = u.chip.ignored
  BY <1>1, SelectWithCommand
<1> HIDE DEF g
<1> DEFINE state == g.state
<1>6. state = "readJedec" /\ Prepared(g, state)
  BY <1>1, <1>4, <1>5 DEF Prepared
<1>7. /\ state \in States /\ Opcode(state) = "JEDEC" /\ SentBefore(state) = 0
      /\ Sizes(state, 1, 0, NoPtr)
  BY <1>6 DEF States, Opcode, SentBefore, Sizes, Enabling, Waiting
<1>8. Len(g.chip.frame) = SentBefore(state) /\ g.chip.frame = <<>> /\ g.status = "busy"
      /\ Still(g.spi) /\ ~g.chip.ignored
  BY <1>1, <1>4, <1>5, <1>7, EmptyIsSeq DEF Between
<1> DEFINE t == Start(g, Cmd, 1, NoPtr, 0)
<1>9. HwShape(t.h) /\ Run(t.h) /\ t.h.chip = g.chip
  <2> HIDE DEF state
  <2>1. g.state = state
    BY DEF state
  <2> QED
    BY <1>5, <1>6, <1>7, <1>8, <2>1, StartRuns
<1> HIDE DEF t
<1> QED
  BY <1>1, <1>3, <1>5, <1>9 DEF t

(* DRV_AT25DF_Read *)
LEMMA ReadRuns ==
    ASSUME NEW h, HwShape(h), Idle(h), ~h.chip.locked,
           NEW ptr, ptr[1] = "buf", NEW n \in Nat, n >= 1, NEW addr \in Nat
    PROVE  LET k == DRV_AT25DF_Read(h, ptr, n, addr).h
           IN  HwShape(k) /\ Run(k) /\ ~k.chip.locked
<1> DEFINE u == [Busy(h) EXCEPT !.nPending = n, !.bufferAddr = ptr,
                                !.memoryAddr = addr, !.state = "readData"]
           arg == <<"addr", addr>>
           t == Start(WithArgument(u, Op("READ"), arg), Cmd, 2, NoPtr, 0)
<1>1. HwShape(u) /\ u.status = "busy" /\ u.spi = h.spi /\ u.chip = h.chip
      /\ u.state = "readData" /\ u.nPending = n
  BY DEF Busy, HwShape, HwFields
<1>2. DRV_AT25DF_Read(h, ptr, n, addr) = t
  BY DEF DRV_AT25DF_Read, WriteMemoryAddress, WithArgument
<1> HIDE DEF u, arg
<1>3. Between(u) /\ Prepared(u, u.state)
  BY <1>1, ReadyToBegin
<1>4. Op("READ") = Op(Opcode("readData"))
  BY DEF Opcode, Enabling, Waiting
<1>5. HwShape(t.h) /\ Run(t.h) /\ t.h.chip.locked = u.chip.locked
  BY <1>1, <1>3, <1>4, ArgumentRuns
<1> HIDE DEF t
<1> QED
  BY <1>1, <1>2, <1>5

(* DRV_AT25DF_PageWrite *)
LEMMA PageWriteRuns ==
    ASSUME NEW h, HwShape(h), Idle(h), ~h.chip.locked,
           NEW ptr, ptr[1] = "buf", NEW addr \in Nat
    PROVE  LET k == DRV_AT25DF_PageWrite(h, ptr, addr).h
           IN  HwShape(k) /\ Run(k) /\ ~k.chip.locked
<1> DEFINE u == [Busy(h) EXCEPT !.memoryAddr = addr, !.bufferAddr = ptr,
                                !.nPending = PageSize, !.state = "writeCmdAddr"]
           t == WriteEnable(u)
<1>1. PageSize \in Nat /\ PageSize >= 1
  BY GeometryAssumption
<1>2. HwShape(u) /\ u.status = "busy" /\ u.spi = h.spi /\ u.chip = h.chip
      /\ u.state = "writeCmdAddr" /\ u.nPending = PageSize
  BY <1>1 DEF Busy, HwShape, HwFields
<1>3. DRV_AT25DF_PageWrite(h, ptr, addr) = t
  BY DEF DRV_AT25DF_PageWrite
<1> HIDE DEF u
<1>4. Between(u) /\ Prepared(u, u.state)
  BY <1>1, <1>2, ReadyToBegin DEF Enabling
<1>5. HwShape(t.h) /\ Run(t.h) /\ t.h.chip.locked = u.chip.locked
  BY <1>2, <1>4, WriteEnableRuns DEF Enabling
<1> HIDE DEF t
<1> QED
  BY <1>2, <1>3, <1>5

(* DRV_AT25DF_SectorErase *)
LEMMA SectorEraseRuns ==
    ASSUME NEW h, HwShape(h), Idle(h), ~h.chip.locked, NEW addr \in Nat
    PROVE  LET k == DRV_AT25DF_SectorErase(h, addr).h
           IN  HwShape(k) /\ Run(k) /\ ~k.chip.locked
<1> DEFINE c == [h.cmd EXCEPT ![1] = Op("SE")]
           u == [Busy(h) EXCEPT !.cmd[1] = Op("SE"), !.memoryAddr = addr, !.state = "erase"]
           t == WriteEnable(u)
<1>1. DOMAIN c = 0 .. 3 /\ c[1] = Op("SE")
  BY DEF HwShape
<1>2. HwShape(u) /\ u.status = "busy" /\ u.spi = h.spi /\ u.chip = h.chip
      /\ u.state = "erase" /\ u.cmd = c
  BY <1>1 DEF Busy, HwShape, HwFields
<1>3. DRV_AT25DF_SectorErase(h, addr) = t
  BY DEF DRV_AT25DF_SectorErase
<1> HIDE DEF u, c
<1>4. Between(u) /\ Prepared(u, u.state)
  BY <1>1, <1>2, ReadyToBegin DEF Enabling
<1>5. HwShape(t.h) /\ Run(t.h) /\ t.h.chip.locked = u.chip.locked
  BY <1>2, <1>4, WriteEnableRuns DEF Enabling
<1> HIDE DEF t
<1> QED
  BY <1>2, <1>3, <1>5

-----------------------------------------------------------------------------
(* The invariant.                                                          *)

(* DRV_AT25DF_Initialize leaves the driver idle and the sectors protected. *)
LEMMA CommandInvInit == Init => CommandInv
<1> SUFFICES ASSUME Init PROVE CommandInv
  OBVIOUS
<1> USE DEF Init
<1>1. PICK known \in BOOLEAN,
           flash \in {[c \in Cells |-> Erased], [c \in Cells |-> <<0, c>>]} :
         hw = [status |-> "completed", state |-> "none", memoryAddr |-> 0,
               bufferAddr |-> <<"buf", 0>>, nPending |-> 0,
               cmd |-> [k \in 0 .. 3 |-> NoByte], jedecId |-> [k \in 0 .. 3 |-> NoByte],
               spi |-> SpiReset,
               chip |-> [selected |-> FALSE, frame |-> <<>>, wel |-> FALSE, busy |-> FALSE,
                         locked |-> TRUE, known |-> known, ignored |-> FALSE],
               flash |-> flash,
               ram |-> [r \in {"buf"} |-> [o \in 0 .. BufferSize - 1 |-> <<1, o>>]]]
  OBVIOUS
<1> DEFINE cmd == [k \in 0 .. 3 |-> NoByte]
           chip == [selected |-> FALSE, frame |-> <<>>, wel |-> FALSE, busy |-> FALSE,
                    locked |-> TRUE, known |-> known, ignored |-> FALSE]
<1>2. SpiShape(SpiReset) /\ Still(SpiReset)
  BY EmptyIsSeq DEF SpiShape, SpiReset, SpiFields, Still
<1>3. ChipShape(chip) /\ chip.frame = <<>> /\ ~chip.selected /\ ~chip.busy /\ ~chip.ignored
  BY EmptyIsSeq DEF ChipShape, ChipFields
<1>4. DOMAIN cmd = 0 .. 3
  OBVIOUS
<1> HIDE DEF cmd, chip
<1>5. /\ hw.status = "completed" /\ hw.memoryAddr = 0 /\ hw.nPending = 0
      /\ hw.bufferAddr = <<"buf", 0>> /\ hw.cmd = cmd /\ hw.spi = SpiReset /\ hw.chip = chip
      /\ DOMAIN hw = HwFields
  BY <1>1 DEF HwFields, cmd, chip
<1>6. HwShape(hw)
  <2>1. hw.bufferAddr[1] = "buf" /\ hw.memoryAddr \in Nat /\ hw.nPending \in Nat
    BY <1>5
  <2>2. DOMAIN hw.cmd = 0 .. 3 /\ SpiShape(hw.spi) /\ ChipShape(hw.chip)
    BY <1>2, <1>3, <1>4, <1>5
  <2> QED
    BY <1>5, <2>1, <2>2 DEF HwShape
<1>7. Idle(hw)
  BY <1>2, <1>3, <1>5 DEF Idle, Still
<1>8. pc = "init" /\ request.hijacked = FALSE
  OBVIOUS
<1> QED
  BY <1>6, <1>7, <1>8 DEF CommandInv

(* Once a chain was hijacked no claim is made about the chip any more, and *)
(* only requests can be made.                                              *)
LEMMA HijackedStays ==
    ASSUME CommandInv, [Next]_vars, request.hijacked
    PROVE  CommandInv'
<1>1. pc = "ready" /\ request.hijacked = TRUE
  BY DEF CommandInv
<1>2. CASE UNCHANGED <<pc, request>>
  BY <1>1, <1>2 DEF CommandInv
<1>3. ASSUME NEW call, NEW op, NEW ptr, NEW n, NEW addr, Make(call, op, ptr, n, addr)
      PROVE  CommandInv'
  <2>1. pc' = "ready" /\ request'.hijacked = TRUE
    BY <1>1, <1>3 DEF Make, Noted
  <2> QED
    BY <2>1 DEF CommandInv
<1>4. CASE Call
  BY <1>1, <1>3, <1>4 DEF Call, Open, Opened, GeometryGet, Read_, PageWrite_, SectorErase_
<1>5. CASE ShiftByte \/ ChipReady \/ Interrupt \/ UNCHANGED vars
  BY <1>2, <1>5 DEF ShiftByte, ChipReady, Interrupt, Step, vars
<1> QED
  BY <1>4, <1>5 DEF Next

(* A request that is made while the driver is idle begins a chain; one     *)
(* made over a running chain hijacks it.                                   *)
LEMMA MakeKeeps ==
    ASSUME CommandInv, ~request.hijacked,
           NEW call, NEW op, NEW ptr, NEW n, NEW addr, Make(call, op, ptr, n, addr),
           Idle(hw) /\ ~hw.chip.locked => HwShape(call.h) /\ Run(call.h) /\ ~call.h.chip.locked
    PROVE  CommandInv'
<1>1. pc = "ready" /\ pc' = "ready" /\ hw' = call.h
  BY DEF Make
<1>2. HwShape(hw) /\ (Idle(hw) \/ Run(hw)) /\ ~hw.chip.locked
  BY <1>1 DEF CommandInv
<1>3. CASE hw.spi.busy
  <2>1. request'.hijacked = TRUE
    BY <1>3 DEF Make, Noted
  <2> QED
    BY <1>1, <2>1 DEF CommandInv
<1>4. CASE ~hw.spi.busy
  <2>1. request'.hijacked = FALSE
    BY <1>4 DEF Make, Noted
  <2>2. Idle(hw)
    BY <1>2, <1>4 DEF Run
  <2>3. HwShape(hw') /\ Run(hw') /\ ~hw'.chip.locked
    BY <1>1, <1>2, <2>2
  <2> QED
    BY <1>1, <2>1, <2>3 DEF CommandInv
<1> QED
  BY <1>3, <1>4

(* Every step keeps it.                                                    *)
LEMMA CommandInvNext == CommandInv /\ [Next]_vars => CommandInv'
<1> SUFFICES ASSUME CommandInv, [Next]_vars, ~request.hijacked PROVE CommandInv'
  BY HijackedStays
<1>1. /\ request.hijacked \in BOOLEAN /\ HwShape(hw) /\ (Idle(hw) \/ Run(hw))
      /\ pc \in {"init", "open"} => Idle(hw)
      /\ hw.chip.locked => pc \in {"init", "opening"}
      /\ hw.chip.locked /\ pc = "opening" => Run(hw)
  BY DEF CommandInv
<1>2. ASSUME NEW k, hw' = k, UNCHANGED <<pc, request>>,
             HwShape(k), Idle(k) \/ Run(k), Idle(hw) => Idle(k),
             k.chip.locked => hw.chip.locked, k.chip.locked /\ Run(hw) => Run(k)
      PROVE  CommandInv'
  BY <1>1, <1>2 DEF CommandInv
<1>3. CASE Open
  <2>1. pc = "init" /\ pc' = "opening" /\ hw' = UnlockFlash(hw).h /\ UNCHANGED request
    BY <1>3 DEF Open
  <2>2. HwShape(hw') /\ Run(hw')
    BY <1>1, <2>1, UnlockFlashRuns
  <2> QED
    BY <1>1, <2>1, <2>2 DEF CommandInv
<1>4. CASE Opened
  <2>1. pc = "opening" /\ pc' = "open" /\ hw' = hw /\ UNCHANGED request
        /\ hw.status = "completed"
    BY <1>4 DEF Opened
  <2>2. Idle(hw) /\ ~hw.chip.locked
    BY <1>1, <2>1 DEF Run
  <2> QED
    BY <1>1, <2>1, <2>2 DEF CommandInv
<1>5. CASE GeometryGet
  <2>1. pc = "open" /\ pc' = "ready" /\ hw' = ReadJedecId(hw).h
        /\ request' = Noted("jedec", request.ptr, 0, 0)
    BY <1>5 DEF GeometryGet
  <2>2. Idle(hw) /\ ~hw.chip.locked
    BY <1>1, <2>1
  <2>3. request'.hijacked = FALSE
    BY <2>1, <2>2 DEF Noted, Idle
  <2>4. HwShape(hw') /\ Run(hw') /\ ~hw'.chip.locked
    BY <1>1, <2>1, <2>2, ReadJedecIdRuns
  <2> QED
    BY <2>1, <2>3, <2>4 DEF CommandInv
<1>6. ASSUME NEW addr \in Addresses, NEW n \in 1 .. BufferSize, Read_(n, addr)
      PROVE  CommandInv'
  <2> DEFINE ptr == <<"buf", 0>>
             call == DRV_AT25DF_Read(hw, ptr, n, addr)
  <2>1. Make(call, "read", ptr, n, addr)
    BY <1>6 DEF Read_
  <2>2. addr \in Nat /\ n \in Nat /\ n >= 1 /\ ptr[1] = "buf"
    BY CallsAssumption DEF Cells
  <2> HIDE DEF ptr
  <2>3. Idle(hw) /\ ~hw.chip.locked => HwShape(call.h) /\ Run(call.h) /\ ~call.h.chip.locked
    BY <1>1, <2>2, ReadRuns
  <2> HIDE DEF call
  <2> QED
    BY <2>1, <2>3, MakeKeeps
<1>7. ASSUME NEW addr \in Addresses, PageWrite_(addr) PROVE CommandInv'
  <2> DEFINE ptr == <<"buf", 0>>
             call == DRV_AT25DF_PageWrite(hw, ptr, addr)
  <2>1. Make(call, "write", ptr, PageSize, addr)
    BY <1>7 DEF PageWrite_
  <2>2. addr \in Nat /\ ptr[1] = "buf"
    BY CallsAssumption DEF Cells
  <2> HIDE DEF ptr
  <2>3. Idle(hw) /\ ~hw.chip.locked => HwShape(call.h) /\ Run(call.h) /\ ~call.h.chip.locked
    BY <1>1, <2>2, PageWriteRuns
  <2> HIDE DEF call
  <2> QED
    BY <2>1, <2>3, MakeKeeps
<1>8. ASSUME NEW addr \in Addresses, SectorErase_(addr) PROVE CommandInv'
  <2> DEFINE call == DRV_AT25DF_SectorErase(hw, addr)
  <2>1. Make(call, "erase", request.ptr, 0, addr)
    BY <1>8 DEF SectorErase_
  <2>2. addr \in Nat
    BY CallsAssumption DEF Cells
  <2>3. Idle(hw) /\ ~hw.chip.locked => HwShape(call.h) /\ Run(call.h) /\ ~call.h.chip.locked
    BY <1>1, <2>2, SectorEraseRuns
  <2> HIDE DEF call
  <2> QED
    BY <2>1, <2>3, MakeKeeps
<1>9. CASE ShiftByte
  <2> DEFINE k == [hw EXCEPT
                     !.spi = Shifted(@, Answer(hw)),
                     !.chip.frame = IF hw.chip.selected THEN Append(@, hw.spi.shift) ELSE @]
  <2>1. hw.spi.shifting /\ hw' = k /\ UNCHANGED <<pc, request>>
    BY <1>9 DEF ShiftByte, Step
  <2>2. Run(hw) /\ ~Idle(hw)
    BY <1>1, <2>1 DEF Idle
  <2>3. HwShape(k) /\ Run(k) /\ k.chip.locked = hw.chip.locked
    BY <1>1, <2>1, <2>2, ShiftKeepsRunning
  <2> HIDE DEF k
  <2> QED
    BY <1>2, <2>1, <2>2, <2>3
<1>10. CASE ChipReady
  <2> DEFINE k == [hw EXCEPT !.chip.busy = FALSE]
  <2>1. hw' = k /\ UNCHANGED <<pc, request>>
    BY <1>10 DEF ChipReady, Step
  <2>2. HwShape(k) /\ k.chip.locked = hw.chip.locked
        /\ (Idle(hw) => Idle(k)) /\ (Run(hw) => Run(k))
    BY <1>1, ReadyKeeps
  <2> HIDE DEF k
  <2> QED
    BY <1>1, <1>2, <2>1, <2>2
<1>11. CASE Interrupt
  <2> DEFINE next == Fetch(hw, hw.spi.tx, hw.spi.txCount)
             served == [Stored(hw) EXCEPT !.spi = Served(@, next)]
             k == IF hw.spi.busy /\ ~served.spi.busy THEN Handler(served) ELSE served
  <2>1. Raised(hw.spi) /\ hw' = k /\ UNCHANGED <<pc, request>>
    BY <1>11 DEF Interrupt, Step
  <2>2. Run(hw) /\ ~Idle(hw)
    BY <1>1, <2>1 DEF Idle, Raised
  <2> HIDE DEF next
  <2>3. HwShape(k) /\ (Idle(k) \/ Run(k)) /\ (k.chip.locked => hw.chip.locked /\ Run(k))
    BY <1>1, <2>1, <2>2, InterruptKeeps
  <2> HIDE DEF k
  <2> QED
    BY <1>2, <2>1, <2>2, <2>3
<1>12. CASE UNCHANGED vars
  BY <1>1, <1>12 DEF CommandInv, vars
<1> QED
  BY <1>3, <1>4, <1>5, <1>6, <1>7, <1>8, <1>9, <1>10, <1>11, <1>12 DEF Next, Call

(* While no request is made over a running chain, the chip takes every     *)
(* command the driver sends it: none is cut short, comes while it is busy, *)
(* lacks the write enable latch or is for a protected sector, in whatever  *)
(* order the wire and the interrupt move.                                  *)
THEOREM CommandsAreTaken == Spec => []CommandsTaken
<1>1. CommandInv => CommandsTaken
  BY DEF CommandInv, CommandsTaken, Idle, Run
<1>2. Init /\ [][Next]_vars => []CommandInv
  BY CommandInvInit, CommandInvNext, PTL
<1> QED
  BY <1>1, <1>2, PTL DEF Spec
===============================================================================
