--------------------------- MODULE MemoryStoreProofs ---------------------------
(***************************************************************************)
(* The MEMORY driver implements BlockStore: for every geometry of the      *)
(* flash and every number of clients, provided that its clients wait for   *)
(* their requests before they close, and for the identification of the     *)
(* flash before they ask.                                                  *)
(*                                                                         *)
(* The store changes in one step; the driver carries a request out in as   *)
(* many chains of the device as it has pages and sectors, and an           *)
(* erase-write reads, overlays, erases and writes each sector it meets.    *)
(* The invariant says at every moment how far that is: the flash is what   *)
(* it was when the request was accepted, with the blocks done so far       *)
(* (WrittenUpTo, ErasedUpTo, RewrittenUpTo), and the machines, the chain   *)
(* that runs and the buffers are those of the next block (Underway).  Each *)
(* call of the task and each end of a chain moves it on by one block; when *)
(* none is left, the flash is what BlockStore promises.                    *)
(***************************************************************************)
EXTENDS MemoryStore, MemoryDriverProofs

(***************************************************************************)
(* How far a request is.                                                   *)
(***************************************************************************)

(* Between two calls of the driver the device is busy as long as a chain   *)
(* runs, and no chain was ever hijacked.                                   *)
Sound(d) == ~d.hijacked /\ (d.active <=> d.status = "busy")

(* The read has been asked for and its chain has ended.                    *)
ReadOver(x, d) == x.read = "status" /\ ~d.active

(* The n cells from address a are read into ptr: not yet asked for, asked  *)
(* for, or over.                                                           *)
Reading(x, d, ptr, n, a) ==
    /\ x.read \in {"init", "status"}
    /\ x.read = "init" => ~d.active
    /\ d.active => d.op = "read" /\ d.ptr = ptr /\ d.len = n /\ d.addr = a
    /\ ReadOver(x, d) => d.status = "completed"

(* The driver is at page q of pages lo to hi - 1, written from src.        *)
AtPage(x, src, lo, hi, q) ==
    /\ lo <= q /\ q < hi
    /\ x.blockAddress = q * PageSize
    /\ x.nBlocks = hi - q
    /\ x.writePtr = Ahead(src, (q - lo) * PageSize)

(* Pages lo to hi - 1 are written from src, and those before page e are    *)
(* done: asked for next, in the running chain, or in the one that just     *)
(* ended and is not yet counted.                                           *)
Writing(x, d, src, lo, hi, e) ==
    /\ x.write = "init" => ~d.active /\ e = lo
    /\ x.write = "mem" => ~d.active /\ AtPage(x, src, lo, hi, e)
    /\ x.write = "status" /\ d.active =>
         AtPage(x, src, lo, hi, e) /\ d.op = "write" /\ d.addr = x.blockAddress
         /\ d.ptr = x.writePtr
    /\ x.write = "status" /\ ~d.active =>
         AtPage(x, src, lo, hi, e - 1) /\ d.status = "completed"

(* The driver is at sector q of sectors lo to hi - 1.                      *)
AtSector(x, lo, hi, q) ==
    /\ lo <= q /\ q < hi
    /\ x.blockAddress = q * SectorSize
    /\ x.nBlocks = hi - q

(* Sectors lo to hi - 1 are erased, and those before sector e are done.    *)
Erasing(x, d, lo, hi, e) ==
    /\ x.erase = "init" => ~d.active /\ e = lo
    /\ x.erase = "cmd" => ~d.active /\ AtSector(x, lo, hi, e)
    /\ x.erase = "status" /\ d.active =>
         AtSector(x, lo, hi, e) /\ d.op = "erase" /\ d.addr = x.blockAddress
    /\ x.erase = "status" /\ ~d.active =>
         AtSector(x, lo, hi, e - 1) /\ d.status = "completed"

(* Cell c lies in one of the blocks lo to hi - 1.                          *)
Between(c, lo, hi, size) == lo * size <= c /\ c < hi * size

(* The flash f0 with pages lo to e - 1 programmed with what the memory     *)
(* holds from src.                                                         *)
WrittenUpTo(f0, m, src, lo, e) ==
    [c \in Cells |-> IF Between(c, lo, e, PageSize)
                     THEN Programmed(f0[c], MemoryAt(m, src, c - lo * PageSize))
                     ELSE f0[c]]

(* The flash f0 with sectors lo to e - 1 erased.                           *)
ErasedUpTo(f0, lo, e) ==
    [c \in Cells |-> IF Between(c, lo, e, SectorSize) THEN Erased ELSE f0[c]]

(* The flash when an erase-write p has done the pages before page e.       *)
RewrittenUpTo(p, e) ==
    [c \in Cells |-> IF Between(c, p.start, e, PageSize)
                     THEN p.source[c - p.start * PageSize] ELSE p.before[c]]

(* From src the memory holds sector s as it is to be when the pages before *)
(* page e are done.                                                        *)
Holds(m, src, p, s, e) ==
    \A c \in Cells : Between(c, s, s + 1, SectorSize) =>
        MemoryAt(m, src, c - s * SectorSize) = RewrittenUpTo(p, e)[c]

(* The memory of the client that asked.                                    *)
Home(p) == p.by.slot

(* The request object holds what is left of an erase-write: its last       *)
(* pages, and the part of the client's data for them.                      *)
Rest(b, p) ==
    /\ p.start <= b.blockStart /\ b.nBlocks >= 1
    /\ b.blockStart + b.nBlocks = p.start + p.n
    /\ b.buffer = <<Home(p), (b.blockStart - p.start) * PageSize>>

(* Where the pages of the present sector are written from: the driver's    *)
(* buffer, or the client's when the whole sector is new.                   *)
Pages(x, b) == IF x.toWrite # PagesPerSector THEN <<Ew, 0>> ELSE b.buffer

(* The present sector, and how many of its pages are asked for.            *)
Chunk(x, b) ==
    /\ x.sector = b.blockStart \div PagesPerSector
    /\ x.toWrite = Smaller(b.nBlocks, PagesPerSector - (b.blockStart % PagesPerSector))

(* An erase-write reads the sector whose pages it will only partly change. *)
RewriteReads(x, d, b, p, f, m) ==
    /\ Chunk(x, b) /\ x.toWrite # PagesPerSector
    /\ x.offset = b.blockStart % PagesPerSector
    /\ x.erase = "init" /\ x.write = "init" /\ x.writePtr = <<Ew, 0>>
    /\ Reading(x, d, <<Ew, 0>>, SectorSize, x.sector * SectorSize)
    /\ f = RewrittenUpTo(p, b.blockStart)
    /\ ReadOver(x, d) => \A o \in 0 .. SectorSize - 1 : m[Ew][o] = f[x.sector * SectorSize + o]

(* It erases the sector: memory holds what the sector is to be.            *)
RewriteErases(x, d, b, p, f, m) ==
    /\ Chunk(x, b)
    /\ x.write = "init" /\ x.writePtr = Pages(x, b)
    /\ Holds(m, Pages(x, b), p, x.sector, b.blockStart + x.toWrite)
    /\ \E e \in x.sector .. x.sector + 1 :
         /\ Erasing(x, d, x.sector, x.sector + 1, e)
         /\ f = ErasedUpTo(RewrittenUpTo(p, b.blockStart), x.sector, e)

(* It writes the sector, and the flash is as asked for up to the page that *)
(* is done.                                                                *)
RewriteWrites(x, d, b, p, f, m) ==
    LET lo == x.sector * PagesPerSector
        hi == lo + PagesPerSector
    IN  /\ Chunk(x, b)
        /\ x.write = "init" => x.writePtr = Pages(x, b)
        /\ Holds(m, Pages(x, b), p, x.sector, b.blockStart + x.toWrite)
        /\ \E e \in lo .. hi :
             /\ Writing(x, d, Pages(x, b), lo, hi, e)
             /\ f = WrittenUpTo(ErasedUpTo(RewrittenUpTo(p, b.blockStart),
                                           x.sector, x.sector + 1),
                                m, Pages(x, b), lo, e)

(* An erase-write under way: between two sectors the flash is as asked for *)
(* up to the first page that is left.                                      *)
Rewrites(x, d, b, p, f, m) ==
    /\ Rest(b, p)
    /\ m[Home(p)] = p.source
    /\ x.ew = "init" => ~d.active /\ f = RewrittenUpTo(p, b.blockStart)
    /\ x.ew = "read" => RewriteReads(x, d, b, p, f, m)
    /\ x.ew = "erase" => RewriteErases(x, d, b, p, f, m)
    /\ x.ew = "write" => RewriteWrites(x, d, b, p, f, m)

(* A read under way: the buffer changes when its chain has ended.          *)
Reads(x, d, b, p, f, m) ==
    /\ Reading(x, d, <<Home(p), 0>>, p.n, p.start)
    /\ f = p.before
    /\ m[Home(p)] = IF ReadOver(x, d) THEN BufferAfter(p, p.before) ELSE p.source

(* A write under way.                                                      *)
Writes(x, d, b, p, f, m) ==
    LET src == <<Home(p), 0>>
    IN  /\ m[Home(p)] = p.source
        /\ \E e \in p.start .. p.start + p.n :
             /\ Writing(x, d, src, p.start, p.start + p.n, e)
             /\ f = WrittenUpTo(p.before, m, src, p.start, e)

(* An erase under way.                                                     *)
Erases(x, d, b, p, f, m) ==
    /\ m[Home(p)] = p.source
    /\ \E e \in p.start .. p.start + p.n :
         /\ Erasing(x, d, p.start, p.start + p.n, e)
         /\ f = ErasedUpTo(p.before, p.start, e)

(* The request object holds the request as it was asked for.               *)
AsAsked(b, p) == b.blockStart = p.start /\ b.nBlocks = p.n /\ b.buffer = <<Home(p), 0>>

(* The request p is under way with machines x, device d, request object b, *)
(* flash f and memory m.                                                   *)
Underway(x, d, b, p, f, m) ==
    CASE p.op = "read" -> AsAsked(b, p) /\ Reads(x, d, b, p, f, m)
      [] p.op = "write" -> AsAsked(b, p) /\ Writes(x, d, b, p, f, m)
      [] p.op = "erase" -> AsAsked(b, p) /\ Erases(x, d, b, p, f, m)
      [] OTHER -> Rewrites(x, d, b, p, f, m)

(* What is known between any two steps: the device is idle when the driver *)
(* is, and otherwise works for the request.                                *)
StoreKnown ==
    /\ Sound(dev)
    /\ ~ready => ~dev.active
    /\ pending = NoRequest => (dev.active => dev.op = "jedec")
    /\ pending # NoRequest =>
        /\ ready
        /\ pending.start + pending.n <= NumBlocks(pending.op)
        /\ state = "queue" => /\ ~dev.active /\ flash = pending.before
                              /\ ram[Home(pending)] = pending.source
                              /\ AsAsked(buf, pending)
        /\ state = "transfer" => Underway(xfer, dev, buf, pending, flash, ram)

(***************************************************************************)
(* The sub state machines, block by block.                                 *)
(***************************************************************************)

(* A chain the idle device accepts runs for the call that asked for it.    *)
Started(e, d, op, ptr, n, a) ==
    e.status = "busy" /\ e.active /\ e.hijacked = d.hijacked
    /\ e.op = op /\ e.ptr = ptr /\ e.len = n /\ e.addr = a

(* An idle device accepts.                                                 *)
LEMMA SubmitStarts ==
    ASSUME NEW d \in DevType(Regions), ~d.active, NEW op, NEW ptr, NEW n, NEW a,
           NEW r, r = Submit(d, op, ptr, n, a)
    PROVE  r.ok /\ Started(r.dev, d, op, ptr, n, a)
<1> DEFINE w == op \in {"write", "erase"}
           e == [d EXCEPT !.op = op, !.ptr = ptr, !.len = n, !.addr = a,
                          !.status = "busy", !.active = TRUE, !.armed = w]
<1>1. r = [ok |-> TRUE, dev |-> e]
  BY DEF Submit, DevType
<1>2. Started(e, d, op, ptr, n, a)
  <2> HIDE DEF w
  <2> QED
    BY DEF DevType, Started
<1> QED
  BY <1>1, <1>2

(* DRV_MEMORY_HandleRead asks once for the cells of the request, and       *)
(* reports when they were read.                                            *)
LEMMA HandleReadDoes ==
    ASSUME NEW m, MachineOK(m), Sound(m.dev),
           NEW ptr \in Where, NEW start \in Nat, NEW n \in Nat, start + n <= FlashSize,
           Reading(m.x, m.dev, ptr, n, start),
           NEW k, k = HandleRead(m, ptr, start, n)
    PROVE  /\ k.x = [m.x EXCEPT !.read = "status"]
           /\ Sound(k.dev)
           /\ k.st = "busy" => /\ Reading(k.x, k.dev, ptr, n, start)
                               /\ ~ReadOver(m.x, m.dev) /\ ~ReadOver(k.x, k.dev)
           /\ k.st # "busy" => k.st = "completed" /\ ReadOver(m.x, m.dev) /\ ~k.dev.active
<1> DEFINE address == IF m.x.read = "init" THEN start * BlockSize("read") ELSE 0
           sub == IF m.x.read = "status" THEN [ok |-> TRUE, dev |-> m.dev]
                  ELSE Read(m.dev, ptr, n, address)
           good == [m EXCEPT !.x.read = "status", !.dev = sub.dev, !.st = sub.dev.status]
           bad == [m EXCEPT !.x.read = "mem", !.dev = sub.dev, !.st = "error"]
<1>1. k = IF sub.ok THEN good ELSE bad
  BY DEF HandleRead, Failed, MachineOK, Machine
<1>2. m.dev \in DevType(Regions) /\ m.x \in XferType /\ m.dev.active \in BOOLEAN
  BY DEF MachineOK, Machine, DevType
<1>3. good.dev = sub.dev /\ good.x = [m.x EXCEPT !.read = "status"]
      /\ good.st = sub.dev.status
  <2> HIDE DEF sub
  <2> QED
    BY DEF MachineOK, Machine
<1> HIDE DEF good, bad
<1> DEFINE y == [m.x EXCEPT !.read = "status"]
<1>4. y.read = "status"
  BY <1>2 DEF XferType
<1> HIDE DEF y
<1>5. CASE m.x.read = "status"
  <2>1. sub.ok /\ sub.dev = m.dev
    BY <1>5
  <2> HIDE DEF sub
  <2> QED
    BY <1>1, <1>2, <1>3, <1>4, <1>5, <2>1 DEF Reading, ReadOver, Sound, y
<1>6. CASE m.x.read = "init"
  <2>1. address = start
    BY <1>6 DEF BlockSize
  <2> HIDE DEF address
  <2>2. ~m.dev.active /\ m.dev.status # "busy"
    BY <1>6 DEF Reading, Sound
  <2>3. sub = Submit(m.dev, "read", ptr, n, start)
    BY <1>6, <2>1, <2>2, Sizes DEF Read
  <2> HIDE DEF sub
  <2>4. sub.ok /\ Started(sub.dev, m.dev, "read", ptr, n, start)
    BY <1>2, <2>2, <2>3, SubmitStarts
  <2>5. k.x = y /\ k.dev = sub.dev /\ k.st = "busy"
    BY <1>1, <1>3, <2>4 DEF Started, y
  <2>6. Sound(k.dev)
    BY <2>4, <2>5 DEF Started, Sound
  <2>7. Reading(k.x, k.dev, ptr, n, start) /\ ~ReadOver(k.x, k.dev)
    BY <1>4, <2>4, <2>5 DEF Started, Reading, ReadOver
  <2>8. ~ReadOver(m.x, m.dev)
    BY <1>6 DEF ReadOver
  <2> QED
    BY <2>5, <2>6, <2>7, <2>8 DEF y
<1> QED
  BY <1>5, <1>6 DEF Reading

(* The flash in pages and in sectors; its blocks are fewer than its cells. *)
LEMMA FlashMeasures ==
    /\ FlashSize = NumPages * PageSize /\ FlashSize = NumSectors * SectorSize
    /\ NumPages <= FlashSize /\ NumSectors <= FlashSize
<1>1. /\ PageSize \in Nat \ {0} /\ PagesPerSector \in Nat \ {0} /\ NumSectors \in Nat \ {0}
      /\ SectorSize \in Nat \ {0} /\ NumPages \in Nat \ {0} /\ FlashSize \in Nat \ {0}
  BY Sizes
<1>2. FlashSize = NumSectors * SectorSize
  BY <1>1 DEF FlashSize
<1>3. FlashSize = NumPages * PageSize
  BY <1>1 DEF FlashSize, NumPages, SectorSize
<1>4. ASSUME NEW a \in Nat, NEW b \in Nat \ {0} PROVE a <= a * b
  BY <1>4
<1> QED
  BY <1>1, <1>2, <1>3, <1>4

(* A page of the flash lies in it, and so does a sector.                   *)
LEMMA BlockInFlash ==
    ASSUME NEW q \in Nat, NEW n \in Nat, NEW size \in Nat, q < n, n * size = FlashSize
    PROVE  q * size \in Nat /\ q * size + size <= FlashSize
<1>1. 0 * size <= q * size /\ q * size + size <= n * size
  BY BlockBetween
<1> QED
  BY <1>1, Product

(* Counting one block down, without a wrap.                                *)
LEMMA OneLess ==
    ASSUME FlashSize <= WordMax, NEW a \in Nat, a >= 1, a <= FlashSize
    PROVE  Minus(a, 1) = a - 1
<1>1. /\ a - 1 \in Nat /\ WordMax + 1 \in Nat \ {0} /\ a - 1 < WordMax + 1
  BY Sizes, ConfigAssumption
<1>2. (a - 1) % (WordMax + 1) = a - 1
  BY <1>1, ModBound
<1> QED
  BY <1>2 DEF Minus

(* Pointers moved by whole pages add up.                                   *)
LEMMA AheadTwice ==
    ASSUME NEW src \in Where, NEW a \in Nat, NEW b \in Nat
    PROVE  Ahead(Ahead(src, a), b) = Ahead(src, a + b)
<1>1. src = <<src[1], src[2]>> /\ src[2] \in Nat
  BY DEF Where
<1> DEFINE s == src[2]
<1>2. (s + a) + b = s + (a + b)
  BY <1>1
<1> QED
  BY <1>2 DEF Ahead

(* On to the next page.                                                    *)
LEMMA PageAfter ==
    ASSUME FlashSize <= WordMax, NEW src \in Where, NEW lo \in Nat, NEW hi \in Nat,
           hi <= NumPages, NEW e \in Nat, NEW x \in XferType, AtPage(x, src, lo, hi, e - 1)
    PROVE  /\ Minus(x.nBlocks, 1) = hi - e
           /\ e <= hi
           /\ x.blockAddress + PageSize = e * PageSize
           /\ Ahead(x.writePtr, PageSize) = Ahead(src, (e - lo) * PageSize)
           /\ lo <= e
<1> DEFINE q == e - 1
<1>1. /\ lo <= q /\ q < hi /\ x.nBlocks = hi - q /\ x.blockAddress = q * PageSize
      /\ x.writePtr = Ahead(src, (q - lo) * PageSize)
  BY DEF AtPage
<1>2. q \in Nat /\ q - lo \in Nat /\ e = q + 1 /\ e - lo = (q - lo) + 1
  BY <1>1
<1>3. PageSize \in Nat /\ FlashSize \in Nat /\ NumPages \in Nat /\ NumPages <= FlashSize
  BY Sizes, FlashMeasures
<1>4. Minus(x.nBlocks, 1) = hi - e
  <2>1. hi - q \in Nat /\ hi - q >= 1 /\ hi - q <= FlashSize
    BY <1>1, <1>2, <1>3
  <2>2. Minus(hi - q, 1) = (hi - q) - 1
    BY <2>1, OneLess
  <2> QED
    BY <1>1, <1>2, <2>2
<1>5. /\ (q + 1) * PageSize = q * PageSize + PageSize
      /\ ((q - lo) + 1) * PageSize = (q - lo) * PageSize + PageSize
  BY <1>2, <1>3, MulSucc
<1>6. (q - lo) * PageSize \in Nat
  BY <1>2, <1>3, Product
<1>7. Ahead(x.writePtr, PageSize) = Ahead(src, (q - lo) * PageSize + PageSize)
  <2> DEFINE off == (q - lo) * PageSize
  <2>1. off \in Nat /\ x.writePtr = Ahead(src, off)
    BY <1>1, <1>6
  <2> HIDE DEF off
  <2>2. Ahead(x.writePtr, PageSize) = Ahead(src, off + PageSize)
    BY <1>3, <2>1, AheadTwice
  <2> QED
    BY <2>2 DEF off
<1> QED
  BY <1>1, <1>2, <1>4, <1>5, <1>7

(* DRV_MEMORY_HandleWrite asks for one page after the other, and reports   *)
(* when the last was programmed.                                           *)
LEMMA HandleWriteDoes ==
    ASSUME FlashSize <= WordMax, NEW m, MachineOK(m), Sound(m.dev),
           NEW ptr \in Where, NEW start \in Nat, NEW n \in Nat, n >= 1,
           NEW src \in Where, NEW lo \in Nat, NEW hi \in Nat, hi <= NumPages, NEW e \in Nat,
           Writing(m.x, m.dev, src, lo, hi, e),
           m.x.write = "init" => ptr = src /\ start = lo /\ start + n = hi,
           NEW k, k = HandleWrite(m, ptr, start, n)
    PROVE  /\ Sound(k.dev)
           /\ KeepsRewrite(m.x, k.x)
           /\ k.st = "busy" => k.x.write # "init" /\ Writing(k.x, k.dev, src, lo, hi, e)
           /\ k.st # "busy" => k.st = "completed" /\ e = hi /\ ~k.dev.active
<1> DEFINE a == IF m.x.write # "init" THEN m
                ELSE [m EXCEPT !.x.blockAddress = start * BlockSize("write"),
                               !.x.nBlocks = n, !.x.writePtr = ptr, !.x.write = "mem"]
           sub == IF a.x.write = "status" THEN [ok |-> TRUE, dev |-> a.dev]
                  ELSE PageWrite(a.dev, a.x.writePtr, a.x.blockAddress)
           b == [a EXCEPT !.x.write = "status", !.dev = sub.dev, !.st = sub.dev.status]
           c == OneBlockLess(b)
           more == [c EXCEPT !.x.blockAddress = @ + BlockSize("write"),
                             !.x.writePtr = Ahead(@, BlockSize("write")),
                             !.x.write = "mem", !.st = "busy"]
           bad == Failed(a, sub.dev)
<1>0. HandleWrite(m, ptr, start, n) =
            IF ~sub.ok THEN bad ELSE IF b.st = "completed" THEN NextPage(b) ELSE b
  BY DEF HandleWrite
<1>1. k = IF ~sub.ok THEN bad
          ELSE IF b.st # "completed" THEN b
          ELSE IF c.x.nBlocks = 0 THEN c
          ELSE more
  <2>1. NextPage(b) = IF c.x.nBlocks = 0 THEN c ELSE more
    <3> HIDE DEF b
    <3> QED
      BY DEF NextPage
  <2> HIDE DEF a, sub, b, c, more, bad
  <2> QED
    BY <1>0, <2>1
<1>2. /\ BlockSize("write") = PageSize /\ PageSize \in Nat
      /\ start * BlockSize("write") \in Nat
  BY BlockSizes, Sizes, Product DEF Ops, BlockSize
<1>3. /\ MachineOK(a) /\ a.dev = m.dev /\ KeepsRewrite(m.x, a.x)
      /\ a.x.write # "init" /\ Writing(a.x, a.dev, src, lo, hi, e)
  <2>1. CASE m.x.write # "init"
    BY <2>1 DEF KeepsRewrite
  <2>2. CASE m.x.write = "init"
    <3>1. /\ MachineOK(a) /\ a.dev = m.dev /\ a.x.write = "mem"
          /\ KeepsRewrite(m.x, a.x)
      BY <1>2, <2>2 DEF MachineOK, Machine, XferType, Where, KeepsRewrite
    <3>2. a.x.nBlocks = n /\ a.x.blockAddress = start * PageSize /\ a.x.writePtr = ptr
      BY <1>2, <2>2 DEF MachineOK, Machine, XferType
    <3> HIDE DEF a
    <3>3. ~a.dev.active /\ e = lo
      BY <2>2, <3>1 DEF Writing
    <3>4. Ahead(src, (lo - lo) * PageSize) = src
      <4>1. (lo - lo) * PageSize = 0
        BY <1>2
      <4>2. src = <<src[1], src[2]>> /\ src[2] + 0 = src[2]
        BY DEF Where
      <4> QED
        BY <4>1, <4>2 DEF Ahead
    <3>5. AtPage(a.x, src, lo, hi, e)
      <4>1. n = hi - lo /\ lo < hi
        BY <2>2
      <4> QED
        BY <2>2, <3>2, <3>3, <3>4, <4>1 DEF AtPage
    <3> QED
      BY <3>1, <3>3, <3>5 DEF Writing
  <2> QED
    BY <2>1, <2>2
<1> HIDE DEF a
<1>4. a.dev \in DevType(Regions) /\ Sound(a.dev) /\ a.x \in XferType /\ a.dev.active \in BOOLEAN
  BY <1>3 DEF MachineOK, Machine, DevType
<1>5. /\ sub.ok /\ Sound(sub.dev)
      /\ a.x.write = "status" => sub.dev = a.dev
      /\ a.x.write # "status" =>
           /\ AtPage(a.x, src, lo, hi, e)
           /\ Started(sub.dev, a.dev, "write", a.x.writePtr, PageSize, a.x.blockAddress)
  <2>1. CASE a.x.write = "status"
    BY <1>4, <2>1
  <2>2. CASE a.x.write # "status"
    <3>1. a.x.write = "mem"
      BY <1>3, <1>4, <2>2 DEF XferType
    <3>2. ~a.dev.active /\ AtPage(a.x, src, lo, hi, e) /\ a.dev.status # "busy"
      BY <1>3, <1>4, <3>1 DEF Writing, Sound
    <3>3. a.x.blockAddress + PageSize <= FlashSize
      <4>1. e < NumPages /\ NumPages \in Nat /\ a.x.blockAddress = e * PageSize
        BY <3>2, Sizes DEF AtPage
      <4> QED
        BY <1>2, <4>1, BlockInFlash, FlashMeasures
    <3>4. sub = Submit(a.dev, "write", a.x.writePtr, PageSize, a.x.blockAddress)
      <4>1. a.x.blockAddress \in Nat /\ FlashSize \in Nat
        BY <1>4, Sizes DEF XferType
      <4> QED
        BY <1>2, <2>2, <3>2, <3>3, <4>1 DEF PageWrite
    <3> HIDE DEF sub
    <3>5. sub.ok /\ Started(sub.dev, a.dev, "write", a.x.writePtr, PageSize, a.x.blockAddress)
      BY <1>4, <3>2, <3>4, SubmitStarts
    <3> QED
      BY <1>4, <2>2, <3>2, <3>5 DEF Started, Sound
  <2> QED
    BY <2>1, <2>2
<1> HIDE DEF sub
<1>7. b.dev = sub.dev /\ b.x = [a.x EXCEPT !.write = "status"] /\ b.st = sub.dev.status
  BY <1>3 DEF MachineOK, Machine
<1> DEFINE bx == [a.x EXCEPT !.write = "status"]
           cx == [bx EXCEPT !.nBlocks = Minus(bx.nBlocks, 1)]
           mx == [cx EXCEPT !.blockAddress = @ + BlockSize("write"),
                            !.writePtr = Ahead(@, BlockSize("write")), !.write = "mem"]
<1>8. c.dev = sub.dev /\ c.x = cx /\ c.st = b.st
  BY <1>3, <1>7 DEF OneBlockLess, MachineOK, Machine
<1>9. more.dev = sub.dev /\ more.x = mx /\ more.st = "busy"
  BY <1>3, <1>8 DEF OneBlockLess, MachineOK, Machine
<1> HIDE DEF bad, b, c, more
<1>10. /\ bx.write = "status" /\ bx.nBlocks = a.x.nBlocks /\ bx.blockAddress = a.x.blockAddress
       /\ bx.writePtr = a.x.writePtr
       /\ KeepsRewrite(a.x, bx) /\ KeepsRewrite(a.x, cx) /\ KeepsRewrite(a.x, mx)
       /\ cx.nBlocks = Minus(a.x.nBlocks, 1)
       /\ mx.nBlocks = Minus(a.x.nBlocks, 1) /\ mx.write = "mem"
       /\ mx.blockAddress = a.x.blockAddress + PageSize
       /\ mx.writePtr = Ahead(a.x.writePtr, PageSize)
  BY <1>2, <1>4 DEF XferType, KeepsRewrite
<1> HIDE DEF bx, cx, mx
<1>11. CASE b.st # "completed"
  <2>1. k.dev = sub.dev /\ k.x = bx /\ k.st = sub.dev.status
    BY <1>1, <1>5, <1>7, <1>11 DEF bx
  <2>2. CASE a.x.write # "status"
    <3>1. AtPage(bx, src, lo, hi, e)
      BY <1>5, <1>10, <2>2 DEF AtPage
    <3>2. Writing(k.x, k.dev, src, lo, hi, e)
      BY <1>5, <1>10, <2>1, <2>2, <3>1 DEF Writing, Started
    <3> QED
      BY <1>3, <1>5, <1>10, <2>1, <2>2, <3>2 DEF KeepsRewrite, Started
  <2>3. CASE a.x.write = "status"
    <3>1. a.dev.active /\ a.dev.status = "busy"
      BY <1>3, <1>4, <1>5, <1>7, <1>11, <2>3 DEF Writing, Sound
    <3>2. AtPage(bx, src, lo, hi, e) /\ a.dev.op = "write" /\ a.dev.addr = bx.blockAddress
          /\ a.dev.ptr = bx.writePtr
      BY <1>3, <1>10, <2>3, <3>1 DEF AtPage, Writing
    <3>3. Writing(k.x, k.dev, src, lo, hi, e)
      BY <1>5, <1>10, <2>1, <2>3, <3>1, <3>2 DEF Writing
    <3> QED
      BY <1>3, <1>5, <1>10, <2>1, <2>3, <3>1, <3>3 DEF KeepsRewrite
  <2> QED
    BY <2>2, <2>3
<1>12. CASE b.st = "completed"
  <2>1. a.x.write = "status" /\ sub.dev = a.dev /\ a.dev.status = "completed" /\ ~a.dev.active
    BY <1>4, <1>5, <1>7, <1>12 DEF Started, Sound
  <2>2. AtPage(a.x, src, lo, hi, e - 1)
    BY <1>3, <2>1 DEF Writing
  <2>3. /\ Minus(a.x.nBlocks, 1) = hi - e /\ lo <= e /\ e <= hi
        /\ a.x.blockAddress + PageSize = e * PageSize
        /\ Ahead(a.x.writePtr, PageSize) = Ahead(src, (e - lo) * PageSize)
    BY <1>4, <2>2, PageAfter
  <2>4. CASE c.x.nBlocks = 0
    <3>1. k.dev = sub.dev /\ k.x = cx /\ k.st = "completed"
      BY <1>1, <1>5, <1>8, <1>12, <2>4
    <3>2. hi = e
      BY <1>8, <1>10, <2>3, <2>4
    <3> QED
      BY <1>3, <1>5, <1>10, <2>1, <3>1, <3>2 DEF KeepsRewrite
  <2>5. CASE c.x.nBlocks # 0
    <3>1. k.dev = sub.dev /\ k.x = mx /\ k.st = "busy"
      BY <1>1, <1>5, <1>9, <1>12, <2>5
    <3>2. e < hi
      BY <1>8, <1>10, <2>3, <2>5
    <3>3. AtPage(mx, src, lo, hi, e)
      BY <1>10, <2>3, <3>2 DEF AtPage
    <3> QED
      BY <1>3, <1>5, <1>10, <2>1, <3>1, <3>3 DEF KeepsRewrite, Writing
  <2> QED
    BY <2>4, <2>5
<1> QED
  BY <1>11, <1>12

(* On to the next sector.                                                  *)
LEMMA SectorAfter ==
    ASSUME FlashSize <= WordMax, NEW lo \in Nat, NEW hi \in Nat, hi <= NumSectors,
           NEW e \in Nat, NEW x \in XferType, AtSector(x, lo, hi, e - 1)
    PROVE  /\ Minus(x.nBlocks, 1) = hi - e
           /\ e <= hi
           /\ x.blockAddress + SectorSize = e * SectorSize
           /\ lo <= e
<1> DEFINE q == e - 1
<1>1. lo <= q /\ q < hi /\ x.nBlocks = hi - q /\ x.blockAddress = q * SectorSize
  BY DEF AtSector
<1>2. q \in Nat /\ e = q + 1
  BY <1>1
<1>3. SectorSize \in Nat /\ FlashSize \in Nat /\ NumSectors \in Nat /\ NumSectors <= FlashSize
  BY Sizes, FlashMeasures
<1>4. Minus(x.nBlocks, 1) = hi - e
  <2>1. hi - q \in Nat /\ hi - q >= 1 /\ hi - q <= FlashSize
    BY <1>1, <1>2, <1>3
  <2>2. Minus(hi - q, 1) = (hi - q) - 1
    BY <2>1, OneLess
  <2> QED
    BY <1>1, <1>2, <2>2
<1>5. (q + 1) * SectorSize = q * SectorSize + SectorSize
  BY <1>2, <1>3, MulSucc
<1> QED
  BY <1>1, <1>2, <1>4, <1>5

(* DRV_MEMORY_HandleErase asks for one sector after the other, and reports *)
(* when the last was erased.                                               *)
LEMMA HandleEraseDoes ==
    ASSUME FlashSize <= WordMax, NEW m, MachineOK(m), Sound(m.dev),
           NEW start \in Nat, NEW n \in Nat, n >= 1,
           NEW lo \in Nat, NEW hi \in Nat, hi <= NumSectors, NEW e \in Nat,
           Erasing(m.x, m.dev, lo, hi, e),
           m.x.erase = "init" => start = lo /\ start + n = hi,
           NEW k, k = HandleErase(m, start, n)
    PROVE  /\ Sound(k.dev)
           /\ KeepsErase(m.x, k.x) /\ k.x.writePtr = m.x.writePtr
           /\ k.st = "busy" => k.x.erase # "init" /\ Erasing(k.x, k.dev, lo, hi, e)
           /\ k.st # "busy" => k.st = "completed" /\ e = hi /\ ~k.dev.active
<1> DEFINE a == IF m.x.erase # "init" THEN m
                ELSE [m EXCEPT !.x.blockAddress = start * BlockSize("erase"),
                               !.x.nBlocks = n, !.x.erase = "cmd"]
           sub == IF a.x.erase = "status" THEN [ok |-> TRUE, dev |-> a.dev]
                  ELSE SectorErase(a.dev, a.x.blockAddress)
           b == [a EXCEPT !.x.erase = "status", !.dev = sub.dev, !.st = sub.dev.status]
           c == OneBlockLess(b)
           more == [c EXCEPT !.x.blockAddress = @ + BlockSize("erase"),
                             !.x.erase = "cmd", !.st = "busy"]
           bad == Failed(a, sub.dev)
<1>0. HandleErase(m, start, n) =
            IF ~sub.ok THEN bad ELSE IF b.st = "completed" THEN NextSector(b) ELSE b
  BY DEF HandleErase
<1>1. k = IF ~sub.ok THEN bad
          ELSE IF b.st # "completed" THEN b
          ELSE IF c.x.nBlocks = 0 THEN c
          ELSE more
  <2>1. NextSector(b) = IF c.x.nBlocks = 0 THEN c ELSE more
    <3> HIDE DEF b
    <3> QED
      BY DEF NextSector
  <2> HIDE DEF a, sub, b, c, more, bad
  <2> QED
    BY <1>0, <2>1
<1>2. /\ BlockSize("erase") = SectorSize /\ SectorSize \in Nat
      /\ start * BlockSize("erase") \in Nat
  BY BlockSizes, Sizes, Product DEF Ops, BlockSize
<1>3. /\ MachineOK(a) /\ a.dev = m.dev /\ KeepsErase(m.x, a.x)
      /\ a.x.writePtr = m.x.writePtr
      /\ a.x.erase # "init" /\ Erasing(a.x, a.dev, lo, hi, e)
  <2>1. CASE m.x.erase # "init"
    BY <2>1 DEF KeepsErase, KeepsRewrite
  <2>2. CASE m.x.erase = "init"
    <3>1. /\ MachineOK(a) /\ a.dev = m.dev /\ a.x.erase = "cmd"
          /\ KeepsErase(m.x, a.x) /\ a.x.writePtr = m.x.writePtr
      BY <1>2, <2>2 DEF MachineOK, Machine, XferType, Where, KeepsErase, KeepsRewrite
    <3>2. a.x.nBlocks = n /\ a.x.blockAddress = start * SectorSize
      BY <1>2, <2>2 DEF MachineOK, Machine, XferType
    <3> HIDE DEF a
    <3>3. ~a.dev.active /\ e = lo
      BY <2>2, <3>1 DEF Erasing
    <3>4. AtSector(a.x, lo, hi, e)
      <4>1. n = hi - lo /\ lo < hi
        BY <2>2
      <4> QED
        BY <2>2, <3>2, <3>3, <4>1 DEF AtSector
    <3> QED
      BY <3>1, <3>3, <3>4 DEF Erasing
  <2> QED
    BY <2>1, <2>2
<1> HIDE DEF a
<1>4. a.dev \in DevType(Regions) /\ Sound(a.dev) /\ a.x \in XferType /\ a.dev.active \in BOOLEAN
  BY <1>3 DEF MachineOK, Machine, DevType
<1>5. /\ sub.ok /\ Sound(sub.dev)
      /\ a.x.erase = "status" => sub.dev = a.dev
      /\ a.x.erase # "status" =>
           /\ AtSector(a.x, lo, hi, e)
           /\ Started(sub.dev, a.dev, "erase", a.dev.ptr, 0, a.x.blockAddress)
  <2>1. CASE a.x.erase = "status"
    BY <1>4, <2>1
  <2>2. CASE a.x.erase # "status"
    <3>1. a.x.erase = "cmd"
      BY <1>3, <1>4, <2>2 DEF XferType
    <3>2. ~a.dev.active /\ AtSector(a.x, lo, hi, e)
      BY <1>3, <1>4, <3>1 DEF Erasing
    <3>4. sub = Submit(a.dev, "erase", a.dev.ptr, 0, a.x.blockAddress)
      BY <2>2 DEF SectorErase
    <3> HIDE DEF sub
    <3>5. sub.ok /\ Started(sub.dev, a.dev, "erase", a.dev.ptr, 0, a.x.blockAddress)
      BY <1>4, <3>2, <3>4, SubmitStarts
    <3> QED
      BY <1>4, <2>2, <3>2, <3>5 DEF Started, Sound
  <2> QED
    BY <2>1, <2>2
<1> HIDE DEF sub
<1>7. b.dev = sub.dev /\ b.x = [a.x EXCEPT !.erase = "status"] /\ b.st = sub.dev.status
  BY <1>3 DEF MachineOK, Machine
<1> DEFINE bx == [a.x EXCEPT !.erase = "status"]
           cx == [bx EXCEPT !.nBlocks = Minus(bx.nBlocks, 1)]
           mx == [cx EXCEPT !.blockAddress = @ + BlockSize("erase"), !.erase = "cmd"]
<1>8. c.dev = sub.dev /\ c.x = cx /\ c.st = b.st
  BY <1>3, <1>7 DEF OneBlockLess, MachineOK, Machine
<1>9. more.dev = sub.dev /\ more.x = mx /\ more.st = "busy"
  BY <1>3, <1>8 DEF OneBlockLess, MachineOK, Machine
<1> HIDE DEF bad, b, c, more
<1>10. /\ bx.erase = "status" /\ bx.nBlocks = a.x.nBlocks /\ bx.blockAddress = a.x.blockAddress
       /\ bx.writePtr = a.x.writePtr /\ cx.writePtr = a.x.writePtr /\ mx.writePtr = a.x.writePtr
       /\ KeepsErase(a.x, bx) /\ KeepsErase(a.x, cx) /\ KeepsErase(a.x, mx)
       /\ cx.nBlocks = Minus(a.x.nBlocks, 1)
       /\ mx.nBlocks = Minus(a.x.nBlocks, 1) /\ mx.erase = "cmd"
       /\ mx.blockAddress = a.x.blockAddress + SectorSize
  BY <1>2, <1>4 DEF XferType, KeepsErase, KeepsRewrite
<1> HIDE DEF bx, cx, mx
<1>11. CASE b.st # "completed"
  <2>1. k.dev = sub.dev /\ k.x = bx /\ k.st = sub.dev.status
    BY <1>1, <1>5, <1>7, <1>11 DEF bx
  <2>2. CASE a.x.erase # "status"
    <3>1. AtSector(bx, lo, hi, e)
      BY <1>5, <1>10, <2>2 DEF AtSector
    <3>2. Erasing(k.x, k.dev, lo, hi, e)
      BY <1>5, <1>10, <2>1, <2>2, <3>1 DEF Erasing, Started
    <3> QED
      BY <1>3, <1>5, <1>10, <2>1, <2>2, <3>2 DEF KeepsErase, KeepsRewrite, Started
  <2>3. CASE a.x.erase = "status"
    <3>1. a.dev.active /\ a.dev.status = "busy"
      BY <1>3, <1>4, <1>5, <1>7, <1>11, <2>3 DEF Erasing, Sound
    <3>2. AtSector(bx, lo, hi, e) /\ a.dev.op = "erase" /\ a.dev.addr = bx.blockAddress
      BY <1>3, <1>10, <2>3, <3>1 DEF AtSector, Erasing
    <3>3. Erasing(k.x, k.dev, lo, hi, e)
      BY <1>5, <1>10, <2>1, <2>3, <3>1, <3>2 DEF Erasing
    <3> QED
      BY <1>3, <1>5, <1>10, <2>1, <2>3, <3>1, <3>3 DEF KeepsErase, KeepsRewrite
  <2> QED
    BY <2>2, <2>3
<1>12. CASE b.st = "completed"
  <2>1. a.x.erase = "status" /\ sub.dev = a.dev /\ a.dev.status = "completed" /\ ~a.dev.active
    BY <1>4, <1>5, <1>7, <1>12 DEF Started, Sound
  <2>2. AtSector(a.x, lo, hi, e - 1)
    BY <1>3, <2>1 DEF Erasing
  <2>3. /\ Minus(a.x.nBlocks, 1) = hi - e /\ lo <= e /\ e <= hi
        /\ a.x.blockAddress + SectorSize = e * SectorSize
    BY <1>4, <2>2, SectorAfter
  <2>4. CASE c.x.nBlocks = 0
    <3>1. k.dev = sub.dev /\ k.x = cx /\ k.st = "completed"
      BY <1>1, <1>5, <1>8, <1>12, <2>4
    <3>2. hi = e
      BY <1>8, <1>10, <2>3, <2>4
    <3> QED
      BY <1>3, <1>5, <1>10, <2>1, <3>1, <3>2 DEF KeepsErase, KeepsRewrite
  <2>5. CASE c.x.nBlocks # 0
    <3>1. k.dev = sub.dev /\ k.x = mx /\ k.st = "busy"
      BY <1>1, <1>5, <1>9, <1>12, <2>5
    <3>2. e < hi
      BY <1>8, <1>10, <2>3, <2>5
    <3>3. AtSector(mx, lo, hi, e)
      BY <1>10, <2>3, <3>2 DEF AtSector
    <3> QED
      BY <1>3, <1>5, <1>10, <2>1, <3>1, <3>3 DEF KeepsErase, KeepsRewrite, Erasing
  <2> QED
    BY <2>4, <2>5
<1> QED
  BY <1>11, <1>12

(***************************************************************************)
(* What blocks done one after the other add up to.                         *)
(***************************************************************************)

(* No cell lies between a block and itself.                                *)
LEMMA BetweenNone ==
    ASSUME NEW lo \in Nat, NEW size \in Nat
    PROVE  \A c \in Cells : ~Between(c, lo, lo, size)
<1>1. lo * size \in Nat /\ Cells \subseteq Nat
  BY Product, Sizes
<1> QED
  BY <1>1 DEF Between

(* The cells of one block more.                                            *)
LEMMA BetweenOneMore ==
    ASSUME NEW lo \in Nat, NEW e \in Nat, NEW size \in Nat, lo <= e, NEW c \in Cells
    PROVE  /\ Between(c, lo, e + 1, size) <=>
                  Between(c, lo, e, size) \/ (e * size <= c /\ c < e * size + size)
           /\ ~(Between(c, lo, e, size) /\ e * size <= c)
<1>1. lo * size \in Nat /\ e * size \in Nat /\ c \in Nat
  BY Product, Sizes
<1>2. (e + 1) * size = e * size + size /\ lo * size <= e * size
  BY MulSucc, MulMono
<1> DEFINE ls == lo * size
           es == e * size
           ns == (e + 1) * size
<1>3. /\ Between(c, lo, e + 1, size) <=> ls <= c /\ c < ns
      /\ Between(c, lo, e, size) <=> ls <= c /\ c < es
  BY DEF Between
<1>4. ls \in Nat /\ es \in Nat /\ c \in Nat /\ ns = es + size /\ ls <= es
  BY <1>1, <1>2
<1> HIDE DEF ls, es, ns
<1>5. /\ Between(c, lo, e + 1, size) <=>
             Between(c, lo, e, size) \/ (es <= c /\ c < es + size)
      /\ ~(Between(c, lo, e, size) /\ es <= c)
  BY <1>3, <1>4
<1> QED
  BY <1>5 DEF es

(* Before the first block nothing is changed.                              *)
LEMMA NothingDone ==
    ASSUME NEW f \in [Cells -> Content], NEW lo \in Nat
    PROVE  /\ \A m, src : WrittenUpTo(f, m, src, lo, lo) = f
           /\ ErasedUpTo(f, lo, lo) = f
<1>1. PageSize \in Nat /\ SectorSize \in Nat
  BY Sizes
<1>2. \A c \in Cells : ~Between(c, lo, lo, PageSize) /\ ~Between(c, lo, lo, SectorSize)
  BY <1>1, BetweenNone
<1> QED
  BY <1>2 DEF WrittenUpTo, ErasedUpTo

(* The end of a page write does one page more.                             *)
LEMMA PageDone ==
    ASSUME NEW f0, NEW m, NEW src \in Where, NEW lo \in Nat, NEW e \in Nat, lo <= e
    PROVE  WithPage(WrittenUpTo(f0, m, src, lo, e), m, Ahead(src, (e - lo) * PageSize),
                    e * PageSize)
             = WrittenUpTo(f0, m, src, lo, e + 1)
<1> DEFINE ptr == Ahead(src, (e - lo) * PageSize)
           a == e * PageSize
           ls == lo * PageSize
           off == (e - lo) * PageSize
<1>1. PageSize \in Nat
  BY Sizes
<1>2. a \in Nat /\ ls \in Nat /\ off \in Nat /\ off = a - ls
  <2>1. e - lo \in Nat /\ a \in Nat /\ ls \in Nat
    BY <1>1, Product
  <2>2. off \in Nat
    BY <1>1, <2>1, Product
  <2>3. e * PageSize = lo * PageSize + (e - lo) * PageSize
    BY <1>1
  <2>4. off = a - ls
    <3>1. a = ls + off
      BY <2>3
    <3> HIDE DEF a, ls, off
    <3> QED
      BY <2>1, <2>2, <3>1
  <2> QED
    BY <2>1, <2>2, <2>4
<1>3. src[2] \in Nat
  BY DEF Where
<1>4. ptr[1] = src[1] /\ ptr[2] = src[2] + off
  BY DEF Ahead
<1> HIDE DEF ptr, off
<1>5. ASSUME NEW c \in Cells
      PROVE  MemoryAt(m, ptr, c - a) = MemoryAt(m, src, c - ls)
  <2>1. c \in Nat
    BY Sizes
  <2>2. ptr[2] + (c - a) = src[2] + (c - ls)
    <3> DEFINE s2 == src[2]
    <3>1. ptr[2] = s2 + (a - ls) /\ s2 \in Nat
      BY <1>2, <1>3, <1>4
    <3> HIDE DEF s2, a, ls
    <3>2. ptr[2] + (c - a) = s2 + (c - ls)
      BY <1>2, <2>1, <3>1
    <3> QED
      BY <3>2 DEF s2
  <2> HIDE DEF a, ls
  <2> QED
    BY <1>4, <2>2 DEF MemoryAt
<1> DEFINE f == WrittenUpTo(f0, m, src, lo, e)
<1>6. ASSUME NEW c \in Cells
      PROVE  (IF c \in a .. a + PageSize - 1 THEN Programmed(f[c], MemoryAt(m, ptr, c - a))
              ELSE f[c])
               = IF Between(c, lo, e + 1, PageSize)
                 THEN Programmed(f0[c], MemoryAt(m, src, c - ls)) ELSE f0[c]
  <2>1. f[c] = IF Between(c, lo, e, PageSize)
               THEN Programmed(f0[c], MemoryAt(m, src, c - ls)) ELSE f0[c]
    BY DEF WrittenUpTo
  <2>2. /\ Between(c, lo, e + 1, PageSize) <=>
               Between(c, lo, e, PageSize) \/ (a <= c /\ c < a + PageSize)
        /\ ~(Between(c, lo, e, PageSize) /\ a <= c)
    BY <1>1, BetweenOneMore
  <2>3. c \in a .. a + PageSize - 1 <=> a <= c /\ c < a + PageSize
    <3>1. c \in Nat
      BY Sizes
    <3> HIDE DEF a
    <3> QED
      BY <1>1, <1>2, <3>1
  <2>4. MemoryAt(m, ptr, c - a) = MemoryAt(m, src, c - ls)
    BY <1>5
  <2> HIDE DEF f, a, ls
  <2>5. CASE c \in a .. a + PageSize - 1
    BY <2>1, <2>2, <2>3, <2>4, <2>5
  <2>6. CASE c \notin a .. a + PageSize - 1
    BY <2>1, <2>2, <2>3, <2>6
  <2> QED
    BY <2>5, <2>6
<1>7. WithPage(f, m, ptr, a)
        = [c \in Cells |-> IF c \in a .. a + PageSize - 1
                           THEN Programmed(f[c], MemoryAt(m, ptr, c - a)) ELSE f[c]]
  BY DEF WithPage
<1>8. WrittenUpTo(f0, m, src, lo, e + 1)
        = [c \in Cells |-> IF Between(c, lo, e + 1, PageSize)
                           THEN Programmed(f0[c], MemoryAt(m, src, c - ls)) ELSE f0[c]]
  BY DEF WrittenUpTo
<1> HIDE DEF f, a, ls
<1>9. WithPage(f, m, ptr, a) = WrittenUpTo(f0, m, src, lo, e + 1)
  BY <1>6, <1>7, <1>8
<1> QED
  BY <1>9 DEF f, a, ptr, off

(* The end of a sector erase does one sector more.                         *)
LEMMA SectorDone ==
    ASSUME NEW f0, NEW lo \in Nat, NEW e \in Nat, lo <= e, e < NumSectors
    PROVE  WithSectorErased(ErasedUpTo(f0, lo, e), e * SectorSize) = ErasedUpTo(f0, lo, e + 1)
<1> DEFINE f == ErasedUpTo(f0, lo, e)
           a == e * SectorSize
<1>1. SectorSize \in Nat \ {0}
  BY Sizes
<1>2. ASSUME NEW c \in Cells
      PROVE  SectorOf(c) = SectorOf(a % FlashSize) <=> a <= c /\ c < a + SectorSize
  <2>1. ASSUME a <= c, c < a + SectorSize PROVE SectorOf(c) = SectorOf(a % FlashSize)
    <3>1. c \in Nat
      BY Sizes
    <3>2. SectorOf(c) = e
      BY <1>1, <2>1, <3>1, DivOf DEF SectorOf
    <3>3. a \in Nat /\ a % FlashSize = a
      <4>1. FlashSize \in Nat \ {0} /\ NumSectors \in Nat
        BY Sizes
      <4>2. a \in Nat /\ a + SectorSize <= FlashSize
        BY <1>1, <4>1, BlockInFlash, FlashMeasures
      <4> HIDE DEF a
      <4>3. a < FlashSize
        BY <1>1, <4>1, <4>2
      <4> QED
        BY <4>1, <4>2, <4>3, ModBound
    <3>4. SectorOf(a) = e
      <4>1. e * SectorSize <= a /\ a < e * SectorSize + SectorSize
        BY <1>1, <3>3
      <4> HIDE DEF a
      <4> QED
        BY <1>1, <3>3, <4>1, DivOf DEF SectorOf
    <3> QED
      BY <3>2, <3>3, <3>4
  <2>2. ASSUME SectorOf(c) = SectorOf(a % FlashSize) PROVE a <= c /\ c < a + SectorSize
    BY <2>2, SectorTouched
  <2> QED
    BY <2>1, <2>2
<1>3. ASSUME NEW c \in Cells
      PROVE  (IF SectorOf(c) = SectorOf(a % FlashSize) THEN Erased ELSE f[c])
               = IF Between(c, lo, e + 1, SectorSize) THEN Erased ELSE f0[c]
  <2>1. f[c] = IF Between(c, lo, e, SectorSize) THEN Erased ELSE f0[c]
    BY DEF ErasedUpTo
  <2>2. Between(c, lo, e + 1, SectorSize) <=>
            Between(c, lo, e, SectorSize) \/ (a <= c /\ c < a + SectorSize)
    BY <1>1, BetweenOneMore
  <2>3. SectorOf(c) = SectorOf(a % FlashSize) <=> a <= c /\ c < a + SectorSize
    BY <1>2
  <2> HIDE DEF f, a
  <2> QED
    BY <2>1, <2>2, <2>3
<1>4. WithSectorErased(f, a)
        = [c \in Cells |-> IF SectorOf(c) = SectorOf(a % FlashSize) THEN Erased ELSE f[c]]
  BY DEF WithSectorErased
<1>5. ErasedUpTo(f0, lo, e + 1)
        = [c \in Cells |-> IF Between(c, lo, e + 1, SectorSize) THEN Erased ELSE f0[c]]
  BY DEF ErasedUpTo
<1> HIDE DEF f, a
<1>6. WithSectorErased(f, a) = ErasedUpTo(f0, lo, e + 1)
  BY <1>3, <1>4, <1>5
<1> QED
  BY <1>6 DEF f, a

(***************************************************************************)
(* An erase-write: the pages that are rewritten in one sector.             *)
(***************************************************************************)

(* A chunk begins somewhere in its sector and does not leave it.           *)
LEMMA ChunkPages ==
    ASSUME NEW first \in Nat, NEW n \in Nat, n >= 1,
           NEW s, s = first \div PagesPerSector,
           NEW off, off = first % PagesPerSector,
           NEW w, w = Smaller(n, PagesPerSector - off)
    PROVE  /\ s \in Nat /\ off \in Nat /\ w \in Nat
           /\ w >= 1 /\ w <= n /\ off + w <= PagesPerSector
           /\ first = s * PagesPerSector + off
<1>1. PagesPerSector \in Nat \ {0}
  BY Sizes
<1>2. s \in Nat /\ off \in Nat /\ off < PagesPerSector
  BY <1>1, Quotient
<1>3. first = s * PagesPerSector + off
  <2>1. ASSUME NEW a \in Nat, NEW b \in Nat \ {0} PROVE a = b * (a \div b) + (a % b)
    OBVIOUS
  <2> QED
    BY <1>1, <2>1
<1>4. w \in Nat /\ w >= 1 /\ w <= n /\ off + w <= PagesPerSector
  BY <1>1, <1>2 DEF Smaller
<1> QED
  BY <1>2, <1>3, <1>4

(* The same in cells.                                                      *)
LEMMA ChunkCells ==
    ASSUME NEW first \in Nat, NEW s \in Nat, NEW off \in Nat, NEW w \in Nat,
           first = s * PagesPerSector + off, off + w <= PagesPerSector
    PROVE  /\ s * SectorSize \in Nat /\ off * PageSize \in Nat /\ w * PageSize \in Nat
           /\ first * PageSize \in Nat
           /\ first * PageSize = s * SectorSize + off * PageSize
           /\ (first + w) * PageSize = first * PageSize + w * PageSize
           /\ off * PageSize + w * PageSize <= SectorSize
           /\ (s + 1) * SectorSize = s * SectorSize + SectorSize
<1>1. PageSize \in Nat /\ PagesPerSector \in Nat /\ SectorSize \in Nat
      /\ SectorSize = PageSize * PagesPerSector
  BY Sizes DEF SectorSize
<1>2. /\ s * SectorSize \in Nat /\ off * PageSize \in Nat /\ w * PageSize \in Nat
      /\ first * PageSize \in Nat
  BY <1>1, Product
<1>3. ASSUME NEW a \in Nat, NEW b \in Nat, NEW k \in Nat
      PROVE  (a + b) * k = a * k + b * k
  BY SMT
<1>4. (first + w) * PageSize = first * PageSize + w * PageSize
  BY <1>1, <1>3
<1>5. off * PageSize + w * PageSize <= SectorSize
  <2>1. (off + w) * PageSize <= PagesPerSector * PageSize
    BY <1>1, MulMono
  <2>2. (off + w) * PageSize = off * PageSize + w * PageSize
    BY <1>1, <1>3
  <2>3. PagesPerSector * PageSize = SectorSize
    BY <1>1
  <2> QED
    BY <2>1, <2>2, <2>3
<1>6. first * PageSize = s * SectorSize + off * PageSize
  <2> DEFINE sp == s * PagesPerSector
  <2>1. sp \in Nat
    BY <1>1, Product
  <2>2. sp * PageSize = s * SectorSize
    BY <1>1, SMT
  <2> HIDE DEF sp
  <2>3. (sp + off) * PageSize = sp * PageSize + off * PageSize
    BY <1>1, <1>3, <2>1
  <2> QED
    BY <2>2, <2>3 DEF sp
<1>7. (s + 1) * SectorSize = s * SectorSize + SectorSize
  BY <1>1, MulSucc
<1> QED
  BY <1>2, <1>4, <1>5, <1>6, <1>7

(* A request as BlockStore knows it, in the fields the proofs use.         *)
LEMMA RequestFields ==
    ASSUME NEW p \in Request
    PROVE  /\ p.start \in Nat /\ p.n \in Nat /\ p.n >= 1 /\ p.op \in Ops
           /\ Home(p) \in Slots /\ p.before \in [Cells -> Content]
           /\ p.source \in [Cells -> Content]
  BY DEF Request, Handle, Home

(* What is left of a request is still as its client asked for it: the      *)
(* memory from its pointer on is the data for the cells from its first     *)
(* page on.                                                                *)
LEMMA SourceAt ==
    ASSUME NEW p \in Request, NEW m \in RamType, m[Home(p)] = p.source,
           NEW first \in Nat, p.start <= first,
           NEW c \in Cells, first * PageSize <= c
    PROVE  MemoryAt(m, <<Home(p), (first - p.start) * PageSize>>, c - first * PageSize)
             = p.source[c - p.start * PageSize]
<1> DEFINE fp == first * PageSize
           sp == p.start * PageSize
           dp == (first - p.start) * PageSize
           ptr == <<Home(p), dp>>
<1>1. /\ PageSize \in Nat /\ p.start \in Nat /\ c \in Nat
      /\ p.source \in [Cells -> Content]
  BY Sizes, RequestFields
<1>2. /\ fp \in Nat /\ sp \in Nat /\ dp \in Nat /\ fp = sp + dp
  <2>1. first - p.start \in Nat
    BY <1>1
  <2>2. fp \in Nat /\ sp \in Nat /\ dp \in Nat
    BY <1>1, <2>1, Product
  <2>3. ASSUME NEW a \in Nat, NEW b \in Nat, NEW k \in Nat, b <= a
        PROVE  a * k = b * k + (a - b) * k
    BY <2>3, SMT
  <2>4. first * PageSize = p.start * PageSize + (first - p.start) * PageSize
    BY <1>1, <2>3
  <2> QED
    BY <2>2, <2>4
<1>3. ptr[1] = Home(p) /\ ptr[2] = dp
  OBVIOUS
<1>4. fp <= c
  OBVIOUS
<1> HIDE DEF ptr, fp, sp, dp
<1>5. ptr[2] + (c - fp) = c - sp /\ c - sp \in Nat /\ c - sp <= c
  BY <1>1, <1>2, <1>3, <1>4
<1>6. c - sp \in Cells
  <2>1. FlashSize \in Nat /\ c <= FlashSize - 1
    BY Sizes DEF Cells
  <2> QED
    BY <1>1, <1>2, <1>5, <2>1 DEF Cells
<1>7. MemoryAt(m, ptr, c - fp) = p.source[c - sp]
  BY <1>1, <1>3, <1>5, <1>6 DEF MemoryAt
<1> QED
  BY <1>7 DEF ptr, fp, sp, dp

(* The pages of a chunk, added to those that were done.                    *)
LEMMA ChunkAdds ==
    ASSUME NEW p \in Request, NEW first \in Nat, p.start <= first, NEW w \in Nat, NEW c \in Cells
    PROVE  /\ Between(c, first, first + w, PageSize) =>
                  RewrittenUpTo(p, first + w)[c] = p.source[c - p.start * PageSize]
           /\ ~Between(c, first, first + w, PageSize) =>
                  RewrittenUpTo(p, first + w)[c] = RewrittenUpTo(p, first)[c]
<1> DEFINE sp == p.start * PageSize
           fp == first * PageSize
           wp == (first + w) * PageSize
<1>1. PageSize \in Nat /\ p.start \in Nat /\ c \in Nat
  BY Sizes, RequestFields
<1>2. first + w \in Nat /\ first <= first + w
  OBVIOUS
<1>3. sp \in Nat /\ fp \in Nat /\ wp \in Nat /\ sp <= fp /\ fp <= wp
  BY <1>1, <1>2, Product, MulMono
<1>4. /\ Between(c, first, first + w, PageSize) <=> fp <= c /\ c < wp
      /\ Between(c, p.start, first + w, PageSize) <=> sp <= c /\ c < wp
      /\ Between(c, p.start, first, PageSize) <=> sp <= c /\ c < fp
  BY DEF Between
<1> HIDE DEF sp, fp, wp
<1>5. /\ Between(c, first, first + w, PageSize) => Between(c, p.start, first + w, PageSize)
      /\ ~Between(c, first, first + w, PageSize) =>
             (Between(c, p.start, first + w, PageSize) <=> Between(c, p.start, first, PageSize))
  BY <1>1, <1>3, <1>4
<1> QED
  BY <1>5 DEF RewrittenUpTo

(* The sector read into the driver's buffer, with the client's pages       *)
(* copied over it, is the sector as it is to be.                           *)
LEMMA OverlaidHolds ==
    ASSUME NEW m, MachineOK(m), NEW p \in Request, m.ram[Home(p)] = p.source,
           NEW first \in Nat, p.start <= first,
           m.buf.buffer = <<Home(p), (first - p.start) * PageSize>>,
           NEW s \in Nat, NEW off \in Nat, NEW w \in Nat,
           first = s * PagesPerSector + off, off + w <= PagesPerSector, s < NumSectors,
           m.x.offset = off * PageSize, m.x.toWrite = w,
           \A o \in 0 .. SectorSize - 1 :
               m.ram[Ew][o] = RewrittenUpTo(p, first)[s * SectorSize + o]
    PROVE  Holds(Overlaid(m), <<Ew, 0>>, p, s, first + w)
<1>0. /\ s * SectorSize \in Nat /\ off * PageSize \in Nat /\ w * PageSize \in Nat
      /\ first * PageSize \in Nat
      /\ first * PageSize = s * SectorSize + off * PageSize
      /\ (first + w) * PageSize = first * PageSize + w * PageSize
      /\ off * PageSize + w * PageSize <= SectorSize
      /\ (s + 1) * SectorSize = s * SectorSize + SectorSize
  <2> HIDE DEF MachineOK
  <2>1. first = s * PagesPerSector + off /\ off + w <= PagesPerSector
    OBVIOUS
  <2> QED
    BY ONLY <2>1, ChunkCells, first \in Nat, s \in Nat, off \in Nat, w \in Nat
<1> DEFINE ss == s * SectorSize
           op == off * PageSize
           wp == w * PageSize
           fp == first * PageSize
           fwp == (first + w) * PageSize
           sss == (s + 1) * SectorSize
           v == Overlaid(m)
<1>1. /\ ss \in Nat /\ op \in Nat /\ wp \in Nat /\ fp \in Nat
      /\ fp = ss + op /\ fwp = fp + wp /\ op + wp <= SectorSize /\ sss = ss + SectorSize
  BY <1>0
<1>2. SectorSize \in Nat \ {0} /\ FlashSize \in Nat /\ ss + SectorSize <= FlashSize
  <2>1. SectorSize \in Nat \ {0} /\ FlashSize \in Nat /\ NumSectors \in Nat
    BY Sizes
  <2> QED
    BY <2>1, BlockInFlash, FlashMeasures
<1>3. m.ram \in RamType /\ Ew \in Regions
  BY SlotFacts DEF MachineOK, Machine
<1>4. v[Ew] = [o \in Cells |->
                 IF o \in op .. op + wp - 1 THEN MemoryAt(m.ram, m.buf.buffer, o - op)
                 ELSE m.ram[Ew][o]]
  BY <1>3 DEF Overlaid, RamType
<1> SUFFICES ASSUME NEW c \in Cells, Between(c, s, s + 1, SectorSize)
             PROVE  MemoryAt(v, <<Ew, 0>>, c - ss) = RewrittenUpTo(p, first + w)[c]
  BY DEF Holds
<1>5. c \in Nat /\ ss <= c /\ c < sss
  BY Sizes DEF Between
<1>6. /\ Between(c, first, first + w, PageSize) <=> fp <= c /\ c < fwp
  BY DEF Between
<1>7. fp <= c => MemoryAt(m.ram, m.buf.buffer, c - fp) = p.source[c - p.start * PageSize]
  <2> SUFFICES ASSUME fp <= c
               PROVE  MemoryAt(m.ram, m.buf.buffer, c - fp) = p.source[c - p.start * PageSize]
    OBVIOUS
  <2> DEFINE ram1 == m.ram
  <2>1. ram1 \in RamType /\ ram1[Home(p)] = p.source
    BY <1>3
  <2> HIDE DEF ram1
  <2>2. MemoryAt(ram1, <<Home(p), (first - p.start) * PageSize>>, c - fp)
          = p.source[c - p.start * PageSize]
    BY <2>1, SourceAt
  <2> QED
    BY <2>2 DEF ram1
<1>8. /\ Between(c, first, first + w, PageSize) =>
             RewrittenUpTo(p, first + w)[c] = p.source[c - p.start * PageSize]
      /\ ~Between(c, first, first + w, PageSize) =>
             RewrittenUpTo(p, first + w)[c] = RewrittenUpTo(p, first)[c]
  BY ChunkAdds
<1>9. \A o \in 0 .. SectorSize - 1 : m.ram[Ew][o] = RewrittenUpTo(p, first)[ss + o]
  OBVIOUS
<1> HIDE DEF ss, op, wp, fp, fwp, sss, v
<1> DEFINE o == c - ss
<1>10. /\ o \in 0 .. SectorSize - 1 /\ o \in Nat /\ ss + o = c /\ o - op = c - fp
       /\ o \in op .. op + wp - 1 <=> fp <= c /\ c < fwp
  BY <1>1, <1>2, <1>5
<1>11. o \in Cells
  BY <1>1, <1>2, <1>10 DEF Cells
<1>12. MemoryAt(v, <<Ew, 0>>, o) = v[Ew][o]
  <2>1. 0 + o = o /\ o \in DOMAIN v[Ew]
    BY <1>4, <1>10, <1>11
  <2> HIDE DEF o
  <2>2. <<Ew, 0>>[1] = Ew /\ <<Ew, 0>>[2] = 0
    OBVIOUS
  <2> QED
    BY <2>1, <2>2 DEF MemoryAt
<1>13. CASE fp <= c /\ c < fwp
  <2>1. v[Ew][o] = MemoryAt(m.ram, m.buf.buffer, c - fp)
    BY <1>4, <1>10, <1>11, <1>13
  <2> QED
    BY <1>6, <1>7, <1>8, <1>12, <1>13, <2>1
<1>14. CASE ~(fp <= c /\ c < fwp)
  <2>1. v[Ew][o] = m.ram[Ew][o]
    BY <1>4, <1>10, <1>11, <1>14
  <2>2. m.ram[Ew][o] = RewrittenUpTo(p, first)[c]
    BY <1>9, <1>10
  <2> QED
    BY <1>6, <1>8, <1>12, <1>14, <2>1, <2>2
<1> QED
  BY <1>13, <1>14

(* A chunk that fills its sector needs no copy: the client's memory holds  *)
(* the sector as it is to be.                                              *)
LEMMA ClientHolds ==
    ASSUME NEW p \in Request, NEW m \in RamType, m[Home(p)] = p.source,
           NEW first \in Nat, p.start <= first, NEW s \in Nat,
           first = s * PagesPerSector
    PROVE  Holds(m, <<Home(p), (first - p.start) * PageSize>>, p, s, first + PagesPerSector)
<1> DEFINE ptr == <<Home(p), (first - p.start) * PageSize>>
           ss == s * SectorSize
           fp == first * PageSize
           fwp == (first + PagesPerSector) * PageSize
<1>1. PagesPerSector \in Nat /\ PageSize \in Nat /\ 0 \in Nat
      /\ first = s * PagesPerSector + 0 /\ 0 + PagesPerSector <= PagesPerSector
      /\ PagesPerSector * PageSize = SectorSize
  BY Sizes, SMT DEF SectorSize
<1>2. fp = ss + 0 * PageSize /\ fwp = fp + SectorSize /\ fp \in Nat /\ ss \in Nat
      /\ (s + 1) * SectorSize = ss + SectorSize
  BY <1>1, ChunkCells
<1>3. fp = ss
  BY <1>1, <1>2
<1> SUFFICES ASSUME NEW c \in Cells, Between(c, s, s + 1, SectorSize)
             PROVE  MemoryAt(m, ptr, c - ss) = RewrittenUpTo(p, first + PagesPerSector)[c]
  BY DEF Holds
<1>4. fp <= c /\ c < fwp
  BY <1>2, <1>3 DEF Between
<1>5. MemoryAt(m, ptr, c - fp) = p.source[c - p.start * PageSize]
  BY <1>4, SourceAt
<1>6. RewrittenUpTo(p, first + PagesPerSector)[c] = p.source[c - p.start * PageSize]
  BY <1>1, <1>4, ChunkAdds DEF Between
<1> QED
  BY <1>3, <1>5, <1>6

(* A sector that was erased, and written from where the memory holds it as *)
(* it is to be, is as it is to be.                                         *)
LEMMA SectorRewritten ==
    ASSUME NEW p \in Request, NEW m, NEW src, NEW first \in Nat, p.start <= first,
           NEW s \in Nat, NEW off \in Nat, NEW w \in Nat,
           first = s * PagesPerSector + off, off + w <= PagesPerSector,
           Holds(m, src, p, s, first + w)
    PROVE  WrittenUpTo(ErasedUpTo(RewrittenUpTo(p, first), s, s + 1), m, src,
                       s * PagesPerSector, s * PagesPerSector + PagesPerSector)
             = RewrittenUpTo(p, first + w)
<1> DEFINE f == ErasedUpTo(RewrittenUpTo(p, first), s, s + 1)
           lo == s * PagesPerSector
           hi == s * PagesPerSector + PagesPerSector
           ss == s * SectorSize
           sss == (s + 1) * SectorSize
           fp == first * PageSize
           fwp == (first + w) * PageSize
           op == off * PageSize
           wp == w * PageSize
<1>1. /\ ss \in Nat /\ op \in Nat /\ wp \in Nat /\ fp \in Nat
      /\ fp = ss + op /\ fwp = fp + wp /\ op + wp <= SectorSize /\ sss = ss + SectorSize
  BY ChunkCells
<1>2. lo * PageSize = ss /\ hi * PageSize = sss
  <2>1. PagesPerSector \in Nat /\ PageSize \in Nat /\ 0 \in Nat /\ lo \in Nat
        /\ SectorSize = PageSize * PagesPerSector
    BY Sizes, Product DEF SectorSize
  <2>2. lo * PageSize = s * SectorSize + 0 * PageSize
        /\ (lo + PagesPerSector) * PageSize = lo * PageSize + PagesPerSector * PageSize
    <3>1. lo = s * PagesPerSector + 0 /\ 0 + PagesPerSector <= PagesPerSector
      BY <2>1
    <3> HIDE DEF lo
    <3> QED
      BY <2>1, <3>1, ChunkCells
  <2>3. 0 * PageSize = 0 /\ PagesPerSector * PageSize = SectorSize
    BY <2>1
  <2> QED
    BY <1>1, <2>2, <2>3
<1>3. ASSUME NEW c \in Cells
      PROVE  (IF Between(c, lo, hi, PageSize)
              THEN Programmed(f[c], MemoryAt(m, src, c - lo * PageSize)) ELSE f[c])
               = RewrittenUpTo(p, first + w)[c]
  <2>1. /\ Between(c, lo, hi, PageSize) <=> ss <= c /\ c < sss
        /\ Between(c, s, s + 1, SectorSize) <=> ss <= c /\ c < sss
        /\ Between(c, first, first + w, PageSize) <=> fp <= c /\ c < fwp
    BY <1>2 DEF Between
  <2>2. CASE ss <= c /\ c < sss
    <3>1. f[c] = Erased
      BY <2>1, <2>2 DEF ErasedUpTo
    <3>2. MemoryAt(m, src, c - lo * PageSize) = RewrittenUpTo(p, first + w)[c]
      BY <1>2, <2>1, <2>2 DEF Holds
    <3> QED
      BY <2>1, <2>2, <3>1, <3>2 DEF Programmed
  <2>3. CASE ~(ss <= c /\ c < sss)
    <3>1. f[c] = RewrittenUpTo(p, first)[c]
      BY <2>1, <2>3 DEF ErasedUpTo
    <3>2. ~(fp <= c /\ c < fwp)
      <4>1. c \in Nat /\ SectorSize \in Nat
        BY Sizes
      <4> HIDE DEF ss, sss, fp, fwp, op, wp
      <4> QED
        BY <1>1, <2>3, <4>1
    <3>3. RewrittenUpTo(p, first + w)[c] = RewrittenUpTo(p, first)[c]
      BY <2>1, <3>2, ChunkAdds
    <3> QED
      BY <2>1, <2>3, <3>1, <3>3
  <2> QED
    BY <2>2, <2>3
<1>4. WrittenUpTo(f, m, src, lo, hi)
        = [c \in Cells |-> IF Between(c, lo, hi, PageSize)
                           THEN Programmed(f[c], MemoryAt(m, src, c - lo * PageSize))
                           ELSE f[c]]
  BY DEF WrittenUpTo
<1>5. RewrittenUpTo(p, first + w) = [c \in Cells |-> RewrittenUpTo(p, first + w)[c]]
  BY DEF RewrittenUpTo
<1> HIDE DEF f, lo, hi
<1>6. WrittenUpTo(f, m, src, lo, hi) = RewrittenUpTo(p, first + w)
  BY <1>3, <1>4, <1>5
<1> QED
  BY <1>6 DEF f, lo, hi

(***************************************************************************)
(* The calls of DRV_MEMORY_HandleEraseWrite.                               *)
(***************************************************************************)

(* The request p is an erase-write within the flash.                       *)
Rewrite(p) == p \in Request /\ p.op = "erasewrite" /\ p.start + p.n <= NumBlocks(p.op)

(* The first page of what is left of an erase-write lies in a sector of    *)
(* the flash, and the chunk that begins there ends in it.                  *)
LEMMA ChunkFacts ==
    ASSUME NEW p, Rewrite(p), NEW b \in BufType, Rest(b, p), NEW x, Chunk(x, b)
    PROVE  /\ b.blockStart \in Nat /\ b.nBlocks \in Nat /\ p.start <= b.blockStart
           /\ x.sector \in Nat /\ x.sector < NumSectors
           /\ b.blockStart % PagesPerSector \in Nat
           /\ x.toWrite \in Nat /\ x.toWrite >= 1 /\ x.toWrite <= b.nBlocks
           /\ (b.blockStart % PagesPerSector) + x.toWrite <= PagesPerSector
           /\ b.blockStart = x.sector * PagesPerSector + (b.blockStart % PagesPerSector)
           /\ x.sector * PagesPerSector \in Nat
           /\ x.sector * PagesPerSector + PagesPerSector <= NumPages
           /\ x.sector * SectorSize \in Nat
           /\ x.sector * SectorSize + SectorSize <= FlashSize
<1> DEFINE first == b.blockStart
           off == b.blockStart % PagesPerSector
           s == x.sector
<1>1. first \in Nat /\ b.nBlocks \in Nat /\ b.nBlocks >= 1 /\ p.start <= first
      /\ p \in Request /\ p.op = "erasewrite"
  BY DEF BufType, Rest, Rewrite
<1>2. /\ s \in Nat /\ off \in Nat /\ x.toWrite \in Nat
      /\ x.toWrite >= 1 /\ x.toWrite <= b.nBlocks /\ off + x.toWrite <= PagesPerSector
      /\ first = s * PagesPerSector + off
  <2> DEFINE w == x.toWrite
             nb == b.nBlocks
  <2>1. /\ s = first \div PagesPerSector /\ off = first % PagesPerSector
        /\ w = Smaller(nb, PagesPerSector - off)
    BY DEF Chunk
  <2>2. first \in Nat /\ nb \in Nat /\ nb >= 1
    BY <1>1
  <2> HIDE DEF first, off, s, w, nb
  <2>3. /\ s \in Nat /\ off \in Nat /\ w \in Nat
        /\ w >= 1 /\ w <= nb /\ off + w <= PagesPerSector
        /\ first = s * PagesPerSector + off
    BY <2>1, <2>2, ChunkPages
  <2> QED
    BY <2>3 DEF w, nb
<1>3. s < NumSectors
  <2>1. first < p.start + p.n
    <3>1. p.start \in Nat /\ p.n \in Nat /\ first + b.nBlocks = p.start + p.n
      BY <1>1, RequestFields DEF Rest
    <3> QED
      BY <1>1, <3>1
  <2>2. first \div PagesPerSector < NumSectors
    BY <1>1, <2>1, SectorInFootprint DEF Rewrite
  <2> QED
    BY <2>2 DEF Chunk
<1>4. /\ PagesPerSector \in Nat /\ NumSectors \in Nat /\ SectorSize \in Nat
      /\ FlashSize = NumSectors * SectorSize
  BY Sizes, FlashMeasures
<1>5. s * PagesPerSector \in Nat /\ s * PagesPerSector + PagesPerSector <= NumPages
  <2>1. s * PagesPerSector \in Nat
    BY <1>2, <1>4, Product
  <2>2. s * PagesPerSector + PagesPerSector <= NumSectors * PagesPerSector
    BY <1>2, <1>3, <1>4, BlockBetween, 0 \in Nat, 0 <= s
  <2>3. NumPages = NumSectors * PagesPerSector
    BY <1>4 DEF NumPages
  <2> QED
    BY <2>1, <2>2, <2>3
<1>6. s * SectorSize \in Nat /\ s * SectorSize + SectorSize <= FlashSize
  BY <1>2, <1>3, <1>4, BlockInFlash
<1> QED
  BY <1>1, <1>2, <1>3, <1>5, <1>6

(* A call goes on with the erase-write, or reports that it is done; the    *)
(* clients' memory it leaves alone.                                        *)
RewriteDoes(k, m, p, f) ==
    /\ Sound(k.dev)
    /\ \A s \in Slots : k.ram[s] = m.ram[s]
    /\ k.st = "busy" => Rewrites(k.x, k.dev, k.buf, p, f, k.ram)
    /\ k.st # "busy" => /\ k.st = "completed" /\ ~k.dev.active
                        /\ f = RewrittenUpTo(p, p.start + p.n)

(* EW_ERASE_SECTOR erases the sector, then turns to its pages.             *)
LEMMA EwEraseDoes ==
    ASSUME FlashSize <= WordMax, NEW m, MachineOK(m), Sound(m.dev), NEW p, Rewrite(p), NEW f,
           Rest(m.buf, p), m.ram[Home(p)] = p.source, m.x.ew = "erase",
           RewriteErases(m.x, m.dev, m.buf, p, f, m.ram)
    PROVE  RewriteDoes(EwEraseSector(m), m, p, f)
<1> DEFINE s == m.x.sector
           h == HandleErase(m, s, 1)
           w == [h EXCEPT !.x.ew = "write", !.st = "busy"]
           F == RewrittenUpTo(p, m.buf.blockStart)
<1>1. EwEraseSector(m) = IF h.st = "completed" THEN w ELSE h
  BY DEF EwEraseSector
<1>2. m.buf \in BufType /\ m.ram \in RamType /\ m.x \in XferType
  BY DEF MachineOK, Machine
<1>3. Chunk(m.x, m.buf) /\ m.x.write = "init" /\ m.x.writePtr = Pages(m.x, m.buf)
      /\ Holds(m.ram, Pages(m.x, m.buf), p, s, m.buf.blockStart + m.x.toWrite)
  BY DEF RewriteErases
<1>4. PICK e \in s .. s + 1 : Erasing(m.x, m.dev, s, s + 1, e) /\ f = ErasedUpTo(F, s, e)
  BY DEF RewriteErases
<1>5. s \in Nat /\ s + 1 <= NumSectors /\ s + 1 \in Nat /\ NumSectors \in Nat
  BY <1>2, <1>3, ChunkFacts, Sizes
<1>6. e \in Nat /\ 1 \in Nat /\ 1 >= 1
  BY <1>5
<1>7. MachineOK(h) /\ h.buf = m.buf /\ h.ram = m.ram
  BY <1>5, <1>6, HandleEraseOK
<1>8. /\ Sound(h.dev) /\ KeepsErase(m.x, h.x) /\ h.x.writePtr = m.x.writePtr
      /\ h.st = "busy" => Erasing(h.x, h.dev, s, s + 1, e)
      /\ h.st # "busy" => h.st = "completed" /\ e = s + 1 /\ ~h.dev.active
  <2> DEFINE t == s + 1
  <2>1. t \in Nat /\ t <= NumSectors /\ s + 1 = t /\ Erasing(m.x, m.dev, s, t, e)
        /\ s \in Nat
    BY <1>4, <1>5
  <2> HIDE DEF s, t
  <2>2. h = HandleErase(m, s, 1)
    OBVIOUS
  <2> HIDE DEF h
  <2>3. /\ Sound(h.dev) /\ KeepsErase(m.x, h.x) /\ h.x.writePtr = m.x.writePtr
        /\ h.st = "busy" => Erasing(h.x, h.dev, s, t, e)
        /\ h.st # "busy" => h.st = "completed" /\ e = t /\ ~h.dev.active
    BY <1>6, <2>1, <2>2, HandleEraseDoes
  <2> QED
    BY <2>3 DEF t
<1> HIDE DEF h, F
<1>9. h.x.ew = "erase" /\ h.x.sector = s /\ h.x.toWrite = m.x.toWrite /\ h.x.write = "init"
      /\ h.x \in XferType
  BY <1>3, <1>7, <1>8 DEF KeepsErase, KeepsRewrite, MachineOK, Machine
<1>10. CASE h.st = "busy"
  <2>1. Chunk(h.x, h.buf) /\ Pages(h.x, h.buf) = Pages(m.x, m.buf)
    BY <1>3, <1>7, <1>9 DEF Chunk, Pages
  <2>2. RewriteErases(h.x, h.dev, h.buf, p, f, h.ram)
    BY <1>3, <1>4, <1>7, <1>8, <1>9, <1>10, <2>1 DEF RewriteErases, F
  <2>3. Rewrites(h.x, h.dev, h.buf, p, f, h.ram)
    BY <1>7, <1>9, <2>2 DEF Rewrites
  <2> QED
    BY <1>1, <1>7, <1>8, <1>10, <2>3 DEF RewriteDoes
<1>11. CASE h.st # "busy"
  <2>1. h.st = "completed" /\ ~h.dev.active /\ f = ErasedUpTo(F, s, s + 1)
    BY <1>4, <1>8, <1>11
  <2>2. w.dev = h.dev /\ w.buf = m.buf /\ w.ram = m.ram /\ w.st = "busy"
        /\ w.x = [h.x EXCEPT !.ew = "write"]
    BY <1>7 DEF MachineOK, Machine
  <2> DEFINE y == [h.x EXCEPT !.ew = "write"]
  <2>3. /\ y.ew = "write" /\ y.sector = s /\ y.toWrite = m.x.toWrite /\ y.write = "init"
        /\ y.writePtr = m.x.writePtr
    BY <1>8, <1>9 DEF XferType
  <2> HIDE DEF w, y
  <2>4. w.x = y
    BY <2>2 DEF y
  <2>5. Chunk(w.x, w.buf) /\ Pages(w.x, w.buf) = Pages(m.x, m.buf)
    BY <1>3, <2>2, <2>3, <2>4 DEF Chunk, Pages
  <2> DEFINE src == Pages(m.x, m.buf)
             lo == s * PagesPerSector
             E == ErasedUpTo(F, s, s + 1)
  <2>6. lo \in Nat /\ PagesPerSector \in Nat
    BY <1>2, <1>3, ChunkFacts, Sizes
  <2>7. WrittenUpTo(E, m.ram, src, lo, lo) = E
    <3>1. \A c \in Cells : ~Between(c, lo, lo, PageSize)
      BY <2>6, BetweenNone, Sizes
    <3>2. E = [c \in Cells |-> E[c]]
      BY DEF ErasedUpTo
    <3> HIDE DEF E, lo, src
    <3> QED
      BY <3>1, <3>2 DEF WrittenUpTo
  <2>8. Writing(w.x, w.dev, src, lo, lo + PagesPerSector, lo)
    BY <2>1, <2>2, <2>3, <2>4 DEF Writing
  <2>9. lo \in lo .. lo + PagesPerSector
    <3> HIDE DEF lo
    <3> QED
      BY <2>6
  <2>10. RewriteWrites(w.x, w.dev, w.buf, p, f, w.ram)
    <3>1. w.x.sector = s /\ w.x.toWrite = m.x.toWrite /\ w.x.writePtr = src
      BY <1>3, <2>3, <2>4
    <3>2. f = WrittenUpTo(E, w.ram, src, lo, lo)
      BY <2>1, <2>2, <2>7
    <3>3. Holds(w.ram, src, p, s, w.buf.blockStart + w.x.toWrite)
      BY <1>3, <2>2, <3>1
    <3>4. Pages(w.x, w.buf) = src /\ F = RewrittenUpTo(p, w.buf.blockStart)
      BY <2>2, <2>5 DEF F
    <3> HIDE DEF src, s
    <3> QED
      BY <2>5, <2>8, <2>9, <3>1, <3>2, <3>3, <3>4 DEF RewriteWrites
  <2>11. Rewrites(w.x, w.dev, w.buf, p, f, w.ram)
    BY <2>2, <2>3, <2>4, <2>10 DEF Rewrites
  <2> QED
    BY <1>1, <1>8, <2>1, <2>2, <2>11 DEF RewriteDoes
<1> QED
  BY <1>10, <1>11

(* EW_READ_SECTOR reads the sector, copies the client's pages over it and  *)
(* turns to the erase.                                                     *)
LEMMA EwReadDoes ==
    ASSUME FlashSize <= WordMax, NEW m, MachineOK(m), Sound(m.dev), NEW p, Rewrite(p), NEW f,
           Rest(m.buf, p), m.ram[Home(p)] = p.source, m.x.ew = "read",
           RewriteReads(m.x, m.dev, m.buf, p, f, m.ram)
    PROVE  RewriteDoes(EwReadSector(m), m, p, f)
<1> DEFINE s == m.x.sector
           a == m.x.sector * SectorSize
           r == HandleRead(m, <<Ew, 0>>, a, SectorSize)
           o == [r EXCEPT !.x.offset = @ * PageSize, !.x.ew = "erase"]
           w == [o EXCEPT !.ram = Overlaid(o)]
           first == m.buf.blockStart
           F == RewrittenUpTo(p, m.buf.blockStart)
<1>1. EwReadSector(m) = IF r.st = "completed" THEN EwEraseSector(w) ELSE r
  BY DEF EwReadSector
<1>2. m.buf \in BufType /\ m.ram \in RamType /\ m.x \in XferType
  BY DEF MachineOK, Machine
<1>3. Chunk(m.x, m.buf) /\ m.x.toWrite # PagesPerSector
      /\ m.x.offset = first % PagesPerSector
      /\ m.x.erase = "init" /\ m.x.write = "init" /\ m.x.writePtr = <<Ew, 0>>
  BY DEF RewriteReads
<1>3a. Reading(m.x, m.dev, <<Ew, 0>>, SectorSize, a)
  BY DEF RewriteReads
<1>3b. f = F
  BY DEF RewriteReads
<1>3c. ReadOver(m.x, m.dev) => \A i \in 0 .. SectorSize - 1 : m.ram[Ew][i] = f[a + i]
  BY DEF RewriteReads
<1>3d. Chunk(m.x, m.buf)
  BY <1>3
<1>4. <<Ew, 0>> \in Where /\ a \in Nat /\ SectorSize \in Nat /\ a + SectorSize <= FlashSize
  <2>1. <<Ew, 0>> \in Where /\ SectorSize \in Nat
    BY SlotFacts, Sizes DEF Where
  <2>2. a \in Nat /\ a + SectorSize <= FlashSize
    BY <1>2, <1>3d, ChunkFacts
  <2> QED
    BY <2>1, <2>2
<1>5. MachineOK(r) /\ r.buf = m.buf /\ r.ram = m.ram
  BY <1>4, HandleReadOK
<1>6. /\ r.x = [m.x EXCEPT !.read = "status"] /\ Sound(r.dev)
      /\ r.st = "busy" => /\ Reading(r.x, r.dev, <<Ew, 0>>, SectorSize, a)
                          /\ ~ReadOver(r.x, r.dev)
      /\ r.st # "busy" => r.st = "completed" /\ ReadOver(m.x, m.dev) /\ ~r.dev.active
  <2> HIDE DEF a
  <2>1. r = HandleRead(m, <<Ew, 0>>, a, SectorSize)
    OBVIOUS
  <2> HIDE DEF r
  <2> QED
    BY <1>3a, <1>4, <2>1, HandleReadDoes
<1> HIDE DEF r, a
<1>7. /\ r.x.ew = "read" /\ r.x.sector = s /\ r.x.toWrite = m.x.toWrite
      /\ r.x.offset = m.x.offset /\ r.x.erase = "init" /\ r.x.write = "init"
      /\ r.x.writePtr = <<Ew, 0>> /\ r.x \in XferType
  <2>1. r.x = [m.x EXCEPT !.read = "status"]
    BY <1>6
  <2> QED
    BY <1>2, <1>3, <2>1 DEF XferType
<1>8. CASE r.st = "busy"
  <2>1. Chunk(r.x, r.buf)
    BY <1>3d, <1>5, <1>7 DEF Chunk
  <2>2. RewriteReads(r.x, r.dev, r.buf, p, f, r.ram)
    BY <1>3, <1>3a, <1>3b, <1>5, <1>6, <1>7, <1>8, <2>1 DEF RewriteReads, a
  <2>3. Rewrites(r.x, r.dev, r.buf, p, f, r.ram)
    BY <1>5, <1>7, <2>2 DEF Rewrites
  <2> QED
    BY <1>1, <1>5, <1>6, <1>8, <2>3 DEF RewriteDoes
<1>9. CASE r.st # "busy"
  <2>1. r.st = "completed" /\ ~r.dev.active
        /\ \A i \in 0 .. SectorSize - 1 : m.ram[Ew][i] = F[a + i]
    BY <1>3b, <1>3c, <1>6, <1>9
  <2> DEFINE off == first % PagesPerSector
             op == off * PageSize
             y == [r.x EXCEPT !.offset = op, !.ew = "erase"]
  <2>2. /\ first \in Nat /\ p.start <= first /\ s \in Nat /\ s < NumSectors /\ off \in Nat
        /\ m.x.toWrite \in Nat /\ off + m.x.toWrite <= PagesPerSector
        /\ first = s * PagesPerSector + off
    BY <1>2, <1>3d, ChunkFacts
  <2>3. op \in Nat
    BY <2>2, Sizes, Product
  <2>4. o = [r EXCEPT !.x = y]
    <3>1. r.x.offset = off
      BY <1>3, <1>7
    <3> HIDE DEF off
    <3> QED
      BY <1>5, <1>7, <3>1 DEF MachineOK, Machine, XferType
  <2> HIDE DEF o, op
  <2>5. /\ y.ew = "erase" /\ y.sector = s /\ y.toWrite = m.x.toWrite /\ y.offset = op
        /\ y.erase = "init" /\ y.write = "init" /\ y.writePtr = <<Ew, 0>> /\ y \in XferType
    BY <1>7, <2>3 DEF XferType
  <2> HIDE DEF y
  <2>6. MachineOK(o) /\ o.buf = m.buf /\ o.dev = r.dev /\ o.x = y /\ o.ram = m.ram
    BY <1>5, <2>4, <2>5 DEF MachineOK, Machine
  <2>7. Overlaid(o) \in RamType
    BY <2>6, OverlaidType
  <2>8. \A t \in Slots : Overlaid(o)[t] = m.ram[t]
    <3>1. \A t \in Slots : t # Ew
      BY ConfigAssumption DEF Slots
    <3>2. o.ram \in RamType
      BY <1>2, <2>6
    <3> QED
      BY <2>6, <3>1, <3>2, SlotFacts DEF Overlaid, RamType
  <2>9. Holds(Overlaid(o), <<Ew, 0>>, p, s, first + m.x.toWrite)
    <3>1. o.ram[Home(p)] = p.source /\ p \in Request
      BY <2>6 DEF Rewrite
    <3>2. o.buf.buffer = <<Home(p), (first - p.start) * PageSize>>
      BY <2>6 DEF Rest
    <3>3. o.x.offset = off * PageSize /\ o.x.toWrite = m.x.toWrite
      BY <2>5, <2>6 DEF op
    <3>4. \A i \in 0 .. SectorSize - 1 : o.ram[Ew][i] = F[s * SectorSize + i]
      BY <2>1, <2>6 DEF a
    <3> DEFINE tw == m.x.toWrite
    <3>5. o.x.toWrite = tw /\ tw \in Nat /\ off + tw <= PagesPerSector
      BY <2>2, <3>3
    <3> HIDE DEF first, s, off, tw
    <3>6. \A i \in 0 .. SectorSize - 1 : o.ram[Ew][i] = RewrittenUpTo(p, first)[s * SectorSize + i]
      BY <3>4 DEF first
    <3>7. Holds(Overlaid(o), <<Ew, 0>>, p, s, first + tw)
      BY <2>2, <2>6, <3>1, <3>2, <3>3, <3>5, <3>6, OverlaidHolds
    <3> QED
      BY <3>7 DEF tw
  <2>10. w.x = y /\ w.dev = r.dev /\ w.buf = m.buf /\ w.ram = Overlaid(o) /\ MachineOK(w)
    BY <2>5, <2>6, <2>7 DEF MachineOK, Machine
  <2> HIDE DEF w
  <2>11. Home(p) \in Slots /\ p \in Request
    BY RequestFields DEF Rewrite
  <2>12. Chunk(w.x, w.buf) /\ Pages(w.x, w.buf) = <<Ew, 0>>
    BY <1>3, <1>3d, <2>5, <2>10 DEF Chunk, Pages
  <2>13. s \in s .. s + 1 /\ ErasedUpTo(F, s, s) = F
    <3>1. \A c \in Cells : ~Between(c, s, s, SectorSize)
      BY <1>4, <2>2, BetweenNone
    <3>2. F = [c \in Cells |-> F[c]]
      BY DEF RewrittenUpTo
    <3> HIDE DEF F, s
    <3> QED
      BY <2>2, <3>1, <3>2 DEF ErasedUpTo
  <2>14. Erasing(w.x, w.dev, s, s + 1, s)
    BY <2>1, <2>5, <2>10 DEF Erasing
  <2>15. RewriteErases(w.x, w.dev, w.buf, p, f, w.ram)
    <3>1. w.x.sector = s /\ w.x.toWrite = m.x.toWrite /\ w.x.write = "init"
          /\ w.x.writePtr = <<Ew, 0>> /\ w.buf.blockStart = first
          /\ F = RewrittenUpTo(p, w.buf.blockStart)
      BY <2>5, <2>10
    <3>2. f = ErasedUpTo(F, s, s)
      BY <1>3b, <2>13
    <3>3. Holds(w.ram, <<Ew, 0>>, p, s, w.buf.blockStart + w.x.toWrite)
      BY <2>9, <2>10, <3>1
    <3> HIDE DEF s, first, F
    <3> QED
      BY <2>12, <2>13, <2>14, <3>1, <3>2, <3>3 DEF RewriteErases
  <2>16. Sound(w.dev) /\ Rest(w.buf, p) /\ w.ram[Home(p)] = p.source /\ w.x.ew = "erase"
    BY <1>6, <2>5, <2>8, <2>10, <2>11
  <2>17. RewriteDoes(EwEraseSector(w), w, p, f)
    BY <2>10, <2>15, <2>16, EwEraseDoes
  <2>18. \A t \in Slots : w.ram[t] = m.ram[t]
    BY <2>8, <2>10
  <2> QED
    BY <1>1, <2>1, <2>17, <2>18 DEF RewriteDoes
<1> QED
  BY <1>8, <1>9

(* EW_INIT takes the next chunk: it reads the sector first unless the      *)
(* chunk fills it.                                                         *)
LEMMA EwInitDoes ==
    ASSUME FlashSize <= WordMax, NEW m, MachineOK(m), Sound(m.dev), NEW p, Rewrite(p), NEW f,
           Rest(m.buf, p), m.ram[Home(p)] = p.source, ~m.dev.active,
           f = RewrittenUpTo(p, m.buf.blockStart)
    PROVE  RewriteDoes(EwInit(m), m, p, f)
<1> DEFINE first == m.buf.blockStart
           off == m.buf.blockStart % PagesPerSector
           s == m.buf.blockStart \div PagesPerSector
           n == Smaller(m.buf.nBlocks, PagesPerSector - off)
           ax == [m.x EXCEPT
                   !.read = "init", !.erase = "init", !.write = "init",
                   !.sector = s, !.offset = off, !.toWrite = n]
           a == [m EXCEPT !.x = ax]
           r == [a EXCEPT !.x.writePtr = <<Ew, 0>>, !.x.ew = "read"]
           w == [a EXCEPT !.x.writePtr = m.buf.buffer, !.x.ew = "erase", !.st = "busy"]
<1>1. EwInit(m) = IF n # PagesPerSector THEN EwReadSector(r) ELSE w
  BY DEF EwInit
<1>2. m.buf \in BufType /\ m.ram \in RamType /\ m.x \in XferType /\ m.buf.buffer \in Where
  BY DEF MachineOK, Machine, BufType, Where
<1>3. /\ s \in Nat /\ off \in Nat /\ n \in Nat
      /\ n >= 1 /\ n <= m.buf.nBlocks /\ off + n <= PagesPerSector
      /\ first = s * PagesPerSector + off
      /\ first \in Nat /\ p.start <= first
  <2>1. first \in Nat /\ m.buf.nBlocks \in Nat /\ m.buf.nBlocks >= 1 /\ p.start <= first
    BY <1>2 DEF BufType, Rest
  <2> DEFINE nb == m.buf.nBlocks
  <2>2. nb \in Nat /\ nb >= 1 /\ s = first \div PagesPerSector /\ off = first % PagesPerSector
        /\ n = Smaller(nb, PagesPerSector - off)
    BY <2>1
  <2> HIDE DEF s, off, n, first, nb
  <2>3. /\ s \in Nat /\ off \in Nat /\ n \in Nat
        /\ n >= 1 /\ n <= nb /\ off + n <= PagesPerSector
        /\ first = s * PagesPerSector + off
    BY <2>1, <2>2, ChunkPages
  <2> QED
    BY <2>1, <2>3 DEF nb
<1>4. s = first \div PagesPerSector
      /\ n = Smaller(m.buf.nBlocks, PagesPerSector - (first % PagesPerSector))
      /\ off = first % PagesPerSector /\ first = m.buf.blockStart
  OBVIOUS
<1> HIDE DEF s, off, n, first
<1>5. /\ ax \in XferType /\ ax.sector = s /\ ax.toWrite = n /\ ax.offset = off
      /\ ax.read = "init" /\ ax.erase = "init" /\ ax.write = "init"
  BY <1>2, <1>3 DEF XferType
<1> HIDE DEF ax
<1> DEFINE rx == [ax EXCEPT !.writePtr = <<Ew, 0>>, !.ew = "read"]
           wx == [ax EXCEPT !.writePtr = m.buf.buffer, !.ew = "erase"]
<1>6. r = [m EXCEPT !.x = rx] /\ w = [m EXCEPT !.x = wx, !.st = "busy"]
  BY <1>5 DEF MachineOK, Machine
<1>7. <<Ew, 0>> \in Where
  BY SlotFacts DEF Where
<1>8. /\ rx \in XferType /\ rx.sector = s /\ rx.toWrite = n /\ rx.offset = off
      /\ rx.read = "init" /\ rx.erase = "init" /\ rx.write = "init"
      /\ rx.writePtr = <<Ew, 0>> /\ rx.ew = "read"
  BY <1>5, <1>7 DEF XferType, Where
<1>9. /\ wx.sector = s /\ wx.toWrite = n
      /\ wx.erase = "init" /\ wx.write = "init"
      /\ wx.writePtr = m.buf.buffer /\ wx.ew = "erase"
  BY <1>5 DEF XferType
<1> HIDE DEF a, r, w, rx, wx
<1>10. CASE n # PagesPerSector
  <2>1. MachineOK(r) /\ r.buf = m.buf /\ r.dev = m.dev /\ r.x = rx /\ r.ram = m.ram
    BY <1>6, <1>8 DEF MachineOK, Machine
  <2>2. Chunk(r.x, r.buf)
    BY <1>4, <1>8, <2>1 DEF Chunk
  <2>3. Reading(r.x, r.dev, <<Ew, 0>>, SectorSize, r.x.sector * SectorSize)
        /\ ~ReadOver(r.x, r.dev)
    BY <1>8, <2>1 DEF Reading, ReadOver
  <2>4. RewriteReads(r.x, r.dev, r.buf, p, f, r.ram)
    BY <1>4, <1>8, <1>10, <2>1, <2>2, <2>3 DEF RewriteReads
  <2>5. RewriteDoes(EwReadSector(r), r, p, f)
    BY <1>8, <2>1, <2>4, EwReadDoes
  <2> QED
    BY <1>1, <1>10, <2>1, <2>5 DEF RewriteDoes
<1>11. CASE n = PagesPerSector
  <2>1. w.buf = m.buf /\ w.dev = m.dev /\ w.x = wx /\ w.st = "busy" /\ w.ram = m.ram
    BY <1>6 DEF MachineOK, Machine
  <2>2. off = 0 /\ first = s * PagesPerSector /\ PagesPerSector \in Nat
    BY <1>3, <1>11, Sizes
  <2>3. Chunk(w.x, w.buf) /\ Pages(w.x, w.buf) = m.buf.buffer
    BY <1>4, <1>9, <1>11, <2>1 DEF Chunk, Pages
  <2>4. m.buf.buffer = <<Home(p), (first - p.start) * PageSize>>
    BY <1>4 DEF Rest
  <2>5. Holds(w.ram, m.buf.buffer, p, w.x.sector, w.buf.blockStart + w.x.toWrite)
    <3> DEFINE ram1 == m.ram
    <3>1. ram1 \in RamType /\ ram1[Home(p)] = p.source /\ p \in Request
      BY <1>2 DEF Rewrite
    <3> HIDE DEF ram1
    <3>2. Holds(ram1, <<Home(p), (first - p.start) * PageSize>>, p, s, first + PagesPerSector)
      BY <1>3, <2>2, <3>1, ClientHolds
    <3>3. w.x.sector = s /\ w.buf.blockStart + w.x.toWrite = first + PagesPerSector
      BY <1>4, <1>9, <1>11, <2>1
    <3> QED
      BY <2>1, <2>4, <3>2, <3>3 DEF ram1
  <2> DEFINE F == RewrittenUpTo(p, first)
  <2>6. ErasedUpTo(F, s, s) = F
    <3>1. \A c \in Cells : ~Between(c, s, s, SectorSize)
      BY <1>3, BetweenNone, Sizes
    <3>2. F = [c \in Cells |-> F[c]]
      BY DEF RewrittenUpTo
    <3> HIDE DEF F
    <3> QED
      BY <3>1, <3>2 DEF ErasedUpTo
  <2>7. Erasing(w.x, w.dev, s, s + 1, s)
    BY <1>9, <2>1 DEF Erasing
  <2>8. s \in s .. s + 1
    BY <1>3
  <2>9. RewriteErases(w.x, w.dev, w.buf, p, f, w.ram)
    <3>1. w.x.sector = s /\ w.x.write = "init" /\ w.x.writePtr = m.buf.buffer
          /\ F = RewrittenUpTo(p, w.buf.blockStart) /\ f = F
      BY <1>4, <1>9, <2>1
    <3> HIDE DEF F
    <3> QED
      BY <2>3, <2>5, <2>6, <2>7, <2>8, <3>1 DEF RewriteErases
  <2>10. Rewrites(w.x, w.dev, w.buf, p, f, w.ram)
    BY <1>9, <2>1, <2>9 DEF Rewrites
  <2> QED
    BY <1>1, <1>11, <2>1, <2>10 DEF RewriteDoes
<1> QED
  BY <1>10, <1>11

(* EW_WRITE_SECTOR writes the sector back, then goes on with the next      *)
(* chunk, if there is one.                                                 *)
LEMMA EwWriteDoes ==
    ASSUME FlashSize <= WordMax, NEW m, MachineOK(m), Sound(m.dev), NEW p, Rewrite(p), NEW f,
           Rest(m.buf, p), m.ram[Home(p)] = p.source, m.x.ew = "write",
           RewriteWrites(m.x, m.dev, m.buf, p, f, m.ram)
    PROVE  RewriteDoes(EwWriteSector(m), m, p, f)
<1> DEFINE s == m.x.sector
           lo == s * PagesPerSector
           hi == lo + PagesPerSector
           src == Pages(m.x, m.buf)
           first == m.buf.blockStart
           n == m.buf.nBlocks
           c == m.x.toWrite
           E == ErasedUpTo(RewrittenUpTo(p, first), s, s + 1)
           w == HandleWrite(m, m.x.writePtr, lo, PagesPerSector)
           k == [w EXCEPT !.buf.nBlocks = Minus(w.buf.nBlocks, w.x.toWrite),
                          !.buf.blockStart = w.buf.blockStart + w.x.toWrite,
                          !.buf.buffer = Ahead(w.buf.buffer, w.x.toWrite * PageSize),
                          !.x.ew = "init", !.st = "busy"]
<1>1. EwWriteSector(m) = IF w.st # "completed" \/ w.buf.nBlocks = w.x.toWrite
                         THEN w ELSE k
  BY DEF EwWriteSector
<1>2. /\ m.buf \in BufType /\ m.ram \in RamType /\ m.x \in XferType
      /\ m.buf.buffer \in Where /\ m.x.writePtr \in Where
  BY DEF MachineOK, Machine, BufType, XferType, Where
<1>3. Chunk(m.x, m.buf)
  BY DEF RewriteWrites
<1>4. (m.x.write = "init" => m.x.writePtr = src) /\ Holds(m.ram, src, p, s, first + c)
  BY DEF RewriteWrites
<1>5. PICK e \in lo .. hi : /\ Writing(m.x, m.dev, src, lo, hi, e)
                            /\ f = WrittenUpTo(E, m.ram, src, lo, e)
  BY DEF RewriteWrites
<1>6. /\ first \in Nat /\ n \in Nat /\ p.start <= first /\ s \in Nat
      /\ first % PagesPerSector \in Nat
      /\ c \in Nat /\ c >= 1 /\ c <= n
      /\ (first % PagesPerSector) + c <= PagesPerSector
      /\ first = s * PagesPerSector + (first % PagesPerSector)
      /\ lo \in Nat /\ hi <= NumPages
  BY <1>2, <1>3, ChunkFacts
<1>7. PagesPerSector \in Nat /\ PagesPerSector >= 1 /\ hi \in Nat /\ e \in Nat
  <2>1. PagesPerSector \in Nat /\ PagesPerSector >= 1 /\ lo \in Nat
    BY <1>6, Sizes
  <2> HIDE DEF lo
  <2> QED
    BY <2>1
<1>8. src \in Where
  BY <1>2, SlotFacts DEF Pages, Where
<1>9. MachineOK(w) /\ w.buf = m.buf /\ w.ram = m.ram
  <2>1. ASSUME NEW v \in Where, NEW q \in Nat, NEW t \in Nat
        PROVE  /\ MachineOK(HandleWrite(m, v, q, t))
               /\ HandleWrite(m, v, q, t).buf = m.buf /\ HandleWrite(m, v, q, t).ram = m.ram
    BY HandleWriteOK
  <2> HIDE DEF lo
  <2> QED
    BY <1>2, <1>6, <1>7, <2>1
<1>10. /\ Sound(w.dev) /\ KeepsRewrite(m.x, w.x)
       /\ w.st = "busy" => w.x.write # "init" /\ Writing(w.x, w.dev, src, lo, hi, e)
       /\ w.st # "busy" => w.st = "completed" /\ e = hi /\ ~w.dev.active
  <2> DEFINE ptr == m.x.writePtr
  <2>1. /\ ptr \in Where /\ lo \in Nat /\ hi \in Nat /\ hi <= NumPages
        /\ m.x.write = "init" => ptr = src
        /\ lo + PagesPerSector = hi
        /\ w = HandleWrite(m, ptr, lo, PagesPerSector)
        /\ Writing(m.x, m.dev, src, lo, hi, e)
    BY <1>2, <1>4, <1>5, <1>6, <1>7
  <2> HIDE DEF w, hi, lo, src, ptr
  <2> QED
    BY <1>7, <1>8, <2>1, HandleWriteDoes
<1> HIDE DEF w
<1>11. w.x.ew = "write" /\ w.x.sector = s /\ w.x.toWrite = c /\ w.x \in XferType
  BY <1>9, <1>10 DEF KeepsRewrite, MachineOK, Machine
<1>12. Chunk(w.x, w.buf) /\ Pages(w.x, w.buf) = src
  BY <1>3, <1>9, <1>11 DEF Chunk, Pages
<1>13. CASE w.st = "busy"
  <2>1. RewriteWrites(w.x, w.dev, w.buf, p, f, w.ram)
    <3>1. w.x.sector = s /\ w.x.toWrite = c /\ w.ram = m.ram /\ w.buf.blockStart = first
      BY <1>9, <1>11
    <3>2. w.x.write # "init" /\ Writing(w.x, w.dev, src, lo, hi, e)
      BY <1>10, <1>13
    <3>3. e \in lo .. hi /\ f = WrittenUpTo(E, m.ram, src, lo, e)
      BY <1>5
    <3>4. Holds(w.ram, src, p, s, w.buf.blockStart + w.x.toWrite)
      BY <1>4, <3>1
    <3> HIDE DEF src, s, first, c
    <3> QED
      BY <1>12, <3>1, <3>2, <3>3, <3>4 DEF RewriteWrites
  <2>2. Rewrites(w.x, w.dev, w.buf, p, f, w.ram)
    BY <1>9, <1>11, <2>1 DEF Rewrites
  <2> QED
    BY <1>1, <1>9, <1>10, <1>13, <2>2 DEF RewriteDoes
<1>14. CASE w.st # "busy"
  <2>1. w.st = "completed" /\ e = hi /\ ~w.dev.active
    BY <1>10, <1>14
  <2>2. f = RewrittenUpTo(p, first + c)
    <3>1. f = WrittenUpTo(E, m.ram, src, lo, hi) /\ p \in Request
      BY <1>5, <2>1 DEF Rewrite
    <3> DEFINE off == first % PagesPerSector
               ram1 == m.ram
    <3>2. Holds(ram1, src, p, s, first + c) /\ f = WrittenUpTo(E, ram1, src, lo, hi)
          /\ off \in Nat /\ off + c <= PagesPerSector
          /\ first = s * PagesPerSector + off /\ lo = s * PagesPerSector
      BY <1>4, <1>6, <3>1
    <3> HIDE DEF first, s, c, src, off, ram1, lo
    <3>3. WrittenUpTo(E, ram1, src, s * PagesPerSector, s * PagesPerSector + PagesPerSector)
            = RewrittenUpTo(p, first + c)
      BY <1>6, <3>1, <3>2, SectorRewritten
    <3> QED
      BY <3>2, <3>3
  <2>3. CASE n = c
    <3>1. first + c = p.start + p.n
      BY <2>3 DEF Rest
    <3> QED
      BY <1>1, <1>9, <1>10, <1>11, <2>1, <2>2, <2>3, <3>1 DEF RewriteDoes
  <2>4. CASE n # c
    <3> DEFINE nn == Minus(w.buf.nBlocks, w.x.toWrite)
               nf == w.buf.blockStart + w.x.toWrite
               np == Ahead(w.buf.buffer, w.x.toWrite * PageSize)
    <3>1. nf = first + c /\ nn = Minus(n, c) /\ np = Ahead(m.buf.buffer, c * PageSize)
      BY <1>9, <1>11
    <3>2. nn = n - c
      <4>1. n <= WordMax
        <5>1. first + n <= NumPages
          <6>1. p.start + p.n <= NumPages /\ first + n = p.start + p.n
            BY DEF Rewrite, NumBlocks, Rest
          <6> QED
            BY <6>1
        <5>2. NumPages <= FlashSize /\ NumPages \in Nat /\ FlashSize \in Nat
          BY Sizes, FlashMeasures
        <5> HIDE DEF n, first
        <5> QED
          BY <1>6, <5>1, <5>2, ConfigAssumption
      <4> HIDE DEF n, c
      <4>2. n - c \in Nat /\ n - c < WordMax + 1 /\ WordMax + 1 \in Nat \ {0}
        BY <1>6, <4>1, ConfigAssumption
      <4>3. (n - c) % (WordMax + 1) = n - c
        BY <4>2, ModBound
      <4> QED
        BY <3>1, <4>3 DEF Minus
    <3>3. np = <<Home(p), (nf - p.start) * PageSize>>
      <4>1. m.buf.buffer = <<Home(p), (first - p.start) * PageSize>>
        BY DEF Rest
      <4>2. p.start \in Nat /\ PageSize \in Nat /\ first - p.start \in Nat
        BY <1>6, RequestFields, Sizes DEF Rewrite
      <4> DEFINE d == first - p.start
                 dp == d * PageSize
                 cp == c * PageSize
      <4>3. (d + c) * PageSize = d * PageSize + c * PageSize
        <5>1. ASSUME NEW i \in Nat, NEW j \in Nat, NEW l \in Nat
              PROVE  (i + j) * l = i * l + j * l
          BY SMT
        <5>2. d \in Nat /\ c \in Nat
          BY <1>6, <4>2
        <5> HIDE DEF d, c
        <5> QED
          BY <4>2, <5>1, <5>2
      <4>4. nf - p.start = d + c
        <5> DEFINE ps == p.start
        <5>1. ps \in Nat /\ d = first - ps /\ nf = first + c
          BY <3>1, <4>2
        <5> HIDE DEF ps, d, nf, first, c
        <5>2. nf - ps = d + c
          BY <1>6, <5>1
        <5> QED
          BY <5>2 DEF ps
      <4>5. np = <<Home(p), dp + cp>>
        BY <3>1, <4>1 DEF Ahead
      <4> QED
        BY <4>3, <4>4, <4>5
    <3> HIDE DEF nn, nf, np
    <3>4. /\ k.dev = w.dev /\ k.ram = m.ram /\ k.st = "busy" /\ k.x.ew = "init"
          /\ k.buf.nBlocks = nn /\ k.buf.blockStart = nf /\ k.buf.buffer = np
      BY <1>9 DEF MachineOK, Machine, BufType, XferType, nn, nf, np
    <3> HIDE DEF k
    <3>5. Rest(k.buf, p)
      <4>1. p.start <= nf /\ nn >= 1 /\ nf + nn = p.start + p.n
        <5>1. first + n = p.start + p.n /\ p.start \in Nat
          BY RequestFields DEF Rest, Rewrite
        <5> DEFINE ps == p.start
                   pe == p.start + p.n
        <5>2. ps \in Nat /\ first + n = pe /\ ps <= first
          BY <1>6, <5>1
        <5> HIDE DEF ps, pe, first, n, c
        <5>3. ps <= nf /\ nn >= 1 /\ nf + nn = pe
          BY <1>6, <2>4, <3>1, <3>2, <5>2
        <5> QED
          BY <5>3 DEF ps, pe
      <4> QED
        BY <3>3, <3>4, <4>1 DEF Rest
    <3>6. f = RewrittenUpTo(p, k.buf.blockStart) /\ ~k.dev.active
      BY <2>1, <2>2, <3>1, <3>4
    <3>7. Rewrites(k.x, k.dev, k.buf, p, f, k.ram)
      BY <3>4, <3>5, <3>6 DEF Rewrites
    <3> QED
      BY <1>1, <1>9, <1>10, <1>11, <2>1, <2>4, <3>4, <3>7 DEF RewriteDoes
  <2> QED
    BY <2>3, <2>4
<1> QED
  BY <1>13, <1>14

(***************************************************************************)
(* A call of the transfer function.                                        *)
(***************************************************************************)

(* The request p lies in the flash.                                        *)
Fits(p) == p \in Request /\ p.start + p.n <= NumBlocks(p.op)

(* All its blocks done, a request has had its effect.                      *)
LEMMA AllDone ==
    ASSUME NEW p \in Request
    PROVE  /\ p.op = "read" => FlashAfter(p, p.before) = p.before
           /\ p.op # "read" => BufferAfter(p, p.before) = p.source
           /\ p.op = "erase" =>
                ErasedUpTo(p.before, p.start, p.start + p.n) = FlashAfter(p, p.before)
           /\ p.op = "erasewrite" =>
                RewrittenUpTo(p, p.start + p.n) = FlashAfter(p, p.before)
           /\ p.op = "write" =>
                \A m \in RamType : m[Home(p)] = p.source =>
                    WrittenUpTo(p.before, m, <<Home(p), 0>>, p.start, p.start + p.n)
                      = FlashAfter(p, p.before)
<1>1. /\ p.start \in Nat /\ p.n \in Nat /\ p.n >= 1 /\ p.op \in Ops
      /\ Home(p) \in Slots /\ p.before \in [Cells -> Content]
      /\ p.source \in [Cells -> Content]
  BY RequestFields
<1> DEFINE size == BlockSize(p.op)
           lo == p.start
           hi == p.start + p.n
           at == lo * size
<1>2. size \in Nat /\ lo \in Nat /\ hi \in Nat
  BY <1>1, BlockSizes
<1>3. at \in Nat /\ hi * size \in Nat
  <2> HIDE DEF size, lo, hi
  <2> QED
    BY <1>2, Product
<1>4. FirstCell(p) = at /\ Asked(p) = at .. hi * size - 1
  BY DEF FirstCell, Asked
<1>5. ASSUME NEW c \in Cells
      PROVE  c \in Asked(p) <=> Between(c, lo, hi, size)
  <2>1. c \in Nat
    BY Sizes
  <2> HIDE DEF lo, hi, size
  <2> DEFINE top == hi * size
  <2>2. Asked(p) = at .. top - 1 /\ top \in Nat /\ at \in Nat
        /\ (Between(c, lo, hi, size) <=> at <= c /\ c < top)
    BY <1>3, <1>4 DEF Between
  <2> HIDE DEF top, at
  <2> QED
    BY <2>1, <2>2
<1> DEFINE After(c) == IF p.op = "read" \/ c \notin Asked(p) THEN p.before[c]
                       ELSE CASE p.op = "erase" -> Erased
                              [] p.op = "write" -> Programmed(p.before[c], p.source[c - at])
                              [] OTHER -> p.source[c - at]
<1>6. FlashAfter(p, p.before) = [c \in Cells |-> After(c)]
  BY <1>4 DEF FlashAfter
<1>7. p.op = "read" => FlashAfter(p, p.before) = p.before
  BY <1>1, <1>6
<1>8. p.op # "read" => BufferAfter(p, p.before) = p.source
  BY <1>1 DEF BufferAfter
<1>9. ASSUME p.op = "erase"
      PROVE  ErasedUpTo(p.before, lo, hi) = FlashAfter(p, p.before)
  <2>1. size = SectorSize
    BY <1>9 DEF BlockSize
  <2>2. \A c \in Cells : After(c) = IF Between(c, lo, hi, SectorSize) THEN Erased ELSE p.before[c]
    <3> HIDE DEF lo, hi, size, at
    <3> QED
      BY <1>5, <1>9, <2>1
  <2> HIDE DEF After, lo, hi
  <2> QED
    BY <1>6, <2>2 DEF ErasedUpTo
<1>10. ASSUME p.op = "erasewrite"
       PROVE  RewrittenUpTo(p, hi) = FlashAfter(p, p.before)
  <2>1. size = PageSize /\ at = p.start * PageSize /\ lo = p.start
    BY <1>10 DEF BlockSize
  <2>2. \A c \in Cells : After(c) = IF Between(c, lo, hi, PageSize)
                                    THEN p.source[c - at] ELSE p.before[c]
    <3> HIDE DEF lo, hi, size, at
    <3> QED
      BY <1>5, <1>10, <2>1
  <2> HIDE DEF After, lo, hi, at
  <2> QED
    BY <1>6, <2>1, <2>2 DEF RewrittenUpTo
<1>11. ASSUME p.op = "write", NEW m \in RamType, m[Home(p)] = p.source
       PROVE  WrittenUpTo(p.before, m, <<Home(p), 0>>, lo, hi) = FlashAfter(p, p.before)
  <2> DEFINE src == <<Home(p), 0>>
  <2>1. size = PageSize /\ at = lo * PageSize
    BY <1>11 DEF BlockSize
  <2>2. ASSUME NEW c \in Cells, Between(c, lo, hi, PageSize)
        PROVE  MemoryAt(m, src, c - at) = p.source[c - at]
    <3>1. c \in Nat /\ FlashSize \in Nat /\ c <= FlashSize - 1 /\ at <= c
      BY <2>1, <2>2, Sizes DEF Between, Cells
    <3>2. c - at \in Cells /\ 0 + (c - at) = c - at
      <4> HIDE DEF at
      <4> QED
        BY <1>3, <3>1 DEF Cells
    <3>3. src[1] = Home(p) /\ src[2] = 0 /\ DOMAIN m[Home(p)] = Cells
      BY <1>1, <1>11
    <3> HIDE DEF src, at
    <3> QED
      BY <1>11, <3>2, <3>3 DEF MemoryAt
  <2>3. \A c \in Cells : After(c) = IF Between(c, lo, hi, PageSize)
                                    THEN Programmed(p.before[c], p.source[c - at])
                                    ELSE p.before[c]
    <3> HIDE DEF lo, hi, size, at
    <3> QED
      BY <1>5, <1>11, <2>1
  <2>4. WrittenUpTo(p.before, m, src, lo, hi)
          = [c \in Cells |-> IF Between(c, lo, hi, PageSize)
                             THEN Programmed(p.before[c], MemoryAt(m, src, c - at))
                             ELSE p.before[c]]
    BY <2>1 DEF WrittenUpTo
  <2> HIDE DEF After, lo, hi, src, at
  <2>5. WrittenUpTo(p.before, m, src, lo, hi) = [c \in Cells |-> After(c)]
    BY <2>2, <2>3, <2>4
  <2> QED
    BY <1>6, <2>5 DEF src
<1> QED
  BY <1>7, <1>8, <1>9, <1>10, <1>11

(* gMemoryXferFuncPtr: a call goes on with the request, or reports it as   *)
(* completed, and then it has had its effect on the flash and on the       *)
(* client's memory.  It never reports an error.                            *)
LEMMA TransferDoes ==
    ASSUME FlashSize <= WordMax, NEW m, MachineOK(m), Sound(m.dev), NEW p, Fits(p),
           m.buf.op = p.op, NEW f, Underway(m.x, m.dev, m.buf, p, f, m.ram),
           NEW k, k = Transfer(m)
    PROVE  /\ Sound(k.dev)
           /\ \A s \in Slots : k.ram[s] = m.ram[s]
           /\ k.st = "busy" => Underway(k.x, k.dev, k.buf, p, f, k.ram)
           /\ k.st # "busy" => /\ k.st = "completed" /\ ~k.dev.active
                               /\ f = FlashAfter(p, p.before)
                               /\ m.ram[Home(p)] = BufferAfter(p, p.before)
<1> DEFINE ptr == m.buf.buffer
           start == m.buf.blockStart
           n == m.buf.nBlocks
           lo == p.start
           hi == p.start + p.n
           src == <<Home(p), 0>>
<1>1. ptr \in Where /\ start \in Nat /\ n \in Nat /\ m.ram \in RamType /\ m.x \in XferType
  BY DEF MachineOK, Machine, BufType, Where
<1>2. /\ lo \in Nat /\ p.n \in Nat /\ p.n >= 1 /\ hi \in Nat /\ p.op \in Ops
      /\ Home(p) \in Slots /\ src \in Where /\ p \in Request
  BY RequestFields, SlotFacts DEF Fits, Where
<1>3. CASE p.op = "read"
  <2>1. k = HandleRead(m, ptr, start, n)
    BY <1>3 DEF Transfer
  <2>2. AsAsked(m.buf, p) /\ Reads(m.x, m.dev, m.buf, p, f, m.ram)
    BY <1>3 DEF Underway
  <2>3. Reading(m.x, m.dev, src, p.n, lo) /\ f = p.before
        /\ m.ram[Home(p)] = IF ReadOver(m.x, m.dev) THEN BufferAfter(p, p.before) ELSE p.source
    BY <2>2 DEF Reads
  <2>4. ptr = src /\ start = lo /\ n = p.n
    BY <2>2 DEF AsAsked
  <2>5. lo + p.n <= FlashSize
    BY <1>3 DEF Fits, NumBlocks
  <2>6. k.buf = m.buf /\ k.ram = m.ram
    <3>1. /\ HandleRead(m, ptr, start, n).buf = m.buf
          /\ HandleRead(m, ptr, start, n).ram = m.ram
      BY <1>1, HandleReadOK
    <3> QED
      BY <2>1, <3>1
  <2>7. /\ Sound(k.dev)
        /\ k.st = "busy" => /\ Reading(k.x, k.dev, src, p.n, lo)
                            /\ ~ReadOver(m.x, m.dev) /\ ~ReadOver(k.x, k.dev)
        /\ k.st # "busy" => k.st = "completed" /\ ReadOver(m.x, m.dev) /\ ~k.dev.active
    <3> DEFINE pn == p.n
    <3>1. k = HandleRead(m, src, lo, pn)
      BY <2>1, <2>4
    <3>2. /\ src \in Where /\ lo \in Nat /\ pn \in Nat /\ lo + pn <= FlashSize
          /\ Reading(m.x, m.dev, src, pn, lo)
      BY <1>2, <2>3, <2>5
    <3> HIDE DEF src, lo, pn
    <3>3. /\ k.x = [m.x EXCEPT !.read = "status"]
          /\ Sound(k.dev)
          /\ k.st = "busy" => /\ Reading(k.x, k.dev, src, pn, lo)
                              /\ ~ReadOver(m.x, m.dev) /\ ~ReadOver(k.x, k.dev)
          /\ k.st # "busy" => k.st = "completed" /\ ReadOver(m.x, m.dev) /\ ~k.dev.active
      BY <3>1, <3>2, HandleReadDoes
    <3> QED
      BY <3>3 DEF pn
  <2>8. CASE k.st = "busy"
    <3>1. Reads(k.x, k.dev, k.buf, p, f, k.ram)
      BY <2>3, <2>6, <2>7, <2>8 DEF Reads
    <3> QED
      BY <1>3, <2>2, <2>6, <2>7, <2>8, <3>1 DEF Underway
  <2>9. CASE k.st # "busy"
    BY <1>2, <1>3, <2>3, <2>6, <2>7, <2>9, AllDone
  <2> QED
    BY <2>8, <2>9
<1>4. CASE p.op = "write"
  <2>1. k = HandleWrite(m, ptr, start, n)
    BY <1>4 DEF Transfer
  <2>2. AsAsked(m.buf, p) /\ Writes(m.x, m.dev, m.buf, p, f, m.ram)
    BY <1>4 DEF Underway
  <2>3. PICK e \in lo .. hi : /\ Writing(m.x, m.dev, src, lo, hi, e)
                              /\ f = WrittenUpTo(p.before, m.ram, src, lo, e)
    BY <2>2 DEF Writes
  <2>4. m.ram[Home(p)] = p.source
    BY <2>2 DEF Writes
  <2>5. ptr = src /\ start = lo /\ n = p.n
    BY <2>2 DEF AsAsked
  <2>6. hi <= NumPages /\ e \in Nat
    BY <1>2, <1>4 DEF Fits, NumBlocks
  <2>7. k.buf = m.buf /\ k.ram = m.ram
    <3>1. /\ HandleWrite(m, ptr, start, n).buf = m.buf
          /\ HandleWrite(m, ptr, start, n).ram = m.ram
      BY <1>1, HandleWriteOK
    <3> QED
      BY <2>1, <3>1
  <2>8. /\ Sound(k.dev)
        /\ k.st = "busy" => Writing(k.x, k.dev, src, lo, hi, e)
        /\ k.st # "busy" => k.st = "completed" /\ e = hi /\ ~k.dev.active
    <3> DEFINE pn == p.n
    <3>1. pn \in Nat /\ pn >= 1 /\ k = HandleWrite(m, src, lo, pn) /\ lo + pn = hi
          /\ lo \in Nat /\ hi \in Nat /\ src \in Where
      BY <1>2, <2>1, <2>5
    <3> HIDE DEF src, lo, hi, pn
    <3> QED
      BY <2>3, <2>6, <3>1, HandleWriteDoes
  <2>9. CASE k.st = "busy"
    <3>1. Writes(k.x, k.dev, k.buf, p, f, k.ram)
      BY <2>3, <2>4, <2>7, <2>8, <2>9 DEF Writes
    <3> QED
      BY <1>4, <2>2, <2>7, <2>8, <2>9, <3>1 DEF Underway
  <2>10. CASE k.st # "busy"
    <3>1. f = FlashAfter(p, p.before)
      BY <1>1, <1>2, <1>4, <2>3, <2>4, <2>8, <2>10, AllDone
    <3>2. BufferAfter(p, p.before) = p.source
      BY <1>2, <1>4, AllDone
    <3> QED
      BY <2>4, <2>7, <2>8, <2>10, <3>1, <3>2
  <2> QED
    BY <2>9, <2>10
<1>5. CASE p.op = "erase"
  <2>1. k = HandleErase(m, start, n)
    BY <1>5 DEF Transfer
  <2>2. AsAsked(m.buf, p) /\ Erases(m.x, m.dev, m.buf, p, f, m.ram)
    BY <1>5 DEF Underway
  <2>3. PICK e \in lo .. hi : /\ Erasing(m.x, m.dev, lo, hi, e)
                              /\ f = ErasedUpTo(p.before, lo, e)
    BY <2>2 DEF Erases
  <2>4. m.ram[Home(p)] = p.source
    BY <2>2 DEF Erases
  <2>5. start = lo /\ n = p.n
    BY <2>2 DEF AsAsked
  <2>6. hi <= NumSectors /\ e \in Nat
    BY <1>2, <1>5 DEF Fits, NumBlocks
  <2>7. k.buf = m.buf /\ k.ram = m.ram
    BY <1>1, <2>1, HandleEraseOK
  <2>8. /\ Sound(k.dev)
        /\ k.st = "busy" => Erasing(k.x, k.dev, lo, hi, e)
        /\ k.st # "busy" => k.st = "completed" /\ e = hi /\ ~k.dev.active
    <3> DEFINE pn == p.n
    <3>1. pn \in Nat /\ pn >= 1 /\ k = HandleErase(m, lo, pn) /\ lo + pn = hi
          /\ lo \in Nat /\ hi \in Nat
      BY <1>2, <2>1, <2>5
    <3> HIDE DEF lo, hi, pn
    <3> QED
      BY <2>3, <2>6, <3>1, HandleEraseDoes
  <2>9. CASE k.st = "busy"
    <3>1. Erases(k.x, k.dev, k.buf, p, f, k.ram)
      BY <2>3, <2>4, <2>7, <2>8, <2>9 DEF Erases
    <3> QED
      BY <1>5, <2>2, <2>7, <2>8, <2>9, <3>1 DEF Underway
  <2>10. CASE k.st # "busy"
    <3>1. f = FlashAfter(p, p.before)
      BY <1>2, <1>5, <2>3, <2>8, <2>10, AllDone
    <3>2. BufferAfter(p, p.before) = p.source
      BY <1>2, <1>5, AllDone
    <3> QED
      BY <2>4, <2>7, <2>8, <2>10, <3>1, <3>2
  <2> QED
    BY <2>9, <2>10
<1>6. CASE p.op = "erasewrite"
  <2>1. k = HandleEraseWrite(m)
    BY <1>6 DEF Transfer
  <2>2. Rewrites(m.x, m.dev, m.buf, p, f, m.ram)
    BY <1>6 DEF Underway
  <2>3. Rewrite(p) /\ Rest(m.buf, p) /\ m.ram[Home(p)] = p.source
    BY <1>6, <2>2 DEF Rewrite, Fits, Rewrites
  <2>4. m.x.ew \in {"init", "read", "erase", "write"}
    BY <1>1 DEF XferType
  <2>5. RewriteDoes(k, m, p, f)
    <3>1. CASE m.x.ew = "read"
      <4>1. RewriteReads(m.x, m.dev, m.buf, p, f, m.ram) /\ k = EwReadSector(m)
        BY <2>1, <2>2, <3>1 DEF Rewrites, HandleEraseWrite
      <4> QED
        BY <2>3, <3>1, <4>1, EwReadDoes
    <3>2. CASE m.x.ew = "erase"
      <4>1. RewriteErases(m.x, m.dev, m.buf, p, f, m.ram) /\ k = EwEraseSector(m)
        BY <2>1, <2>2, <3>2 DEF Rewrites, HandleEraseWrite
      <4> QED
        BY <2>3, <3>2, <4>1, EwEraseDoes
    <3>3. CASE m.x.ew = "write"
      <4>1. RewriteWrites(m.x, m.dev, m.buf, p, f, m.ram) /\ k = EwWriteSector(m)
        BY <2>1, <2>2, <3>3 DEF Rewrites, HandleEraseWrite
      <4> QED
        BY <2>3, <3>3, <4>1, EwWriteDoes
    <3>4. CASE m.x.ew = "init"
      <4>1. ~m.dev.active /\ f = RewrittenUpTo(p, m.buf.blockStart) /\ k = EwInit(m)
        BY <2>1, <2>2, <3>4 DEF Rewrites, HandleEraseWrite
      <4> QED
        BY <2>3, <4>1, EwInitDoes
    <3> QED
      BY <2>4, <3>1, <3>2, <3>3, <3>4
  <2>6. FlashAfter(p, p.before) = RewrittenUpTo(p, p.start + p.n)
        /\ BufferAfter(p, p.before) = p.source
    BY <1>2, <1>6, AllDone
  <2> QED
    BY <1>6, <2>3, <2>5, <2>6 DEF RewriteDoes, Underway
<1> QED
  BY <1>2, <1>3, <1>4, <1>5, <1>6 DEF Ops

(***************************************************************************)
(* The end of a chain.                                                     *)
(***************************************************************************)

(* The device after its chain ended well.                                  *)
Over(e) == Sound(e) /\ ~e.active /\ e.status = "completed"

(* A device between two transfers is over with the last one.               *)
LEMMA QuietOver == \A ptr : Over(Quiet("completed", ptr))
  BY DEF Over, Sound, Quiet

(* A read that ends has filled the memory it was for.                      *)
LEMMA ReadEnds ==
    ASSUME NEW x, NEW d, NEW ptr, NEW n, NEW a, Reading(x, d, ptr, n, a),
           d.active, Sound(d), NEW f, NEW m, NEW o \in Finish(d, f, m)
    PROVE  /\ Over(o.dev) /\ Reading(x, o.dev, ptr, n, a) /\ ReadOver(x, o.dev)
           /\ o.flash = f /\ o.ram = WithRead(m, f, ptr, n, a)
<1>1. x.read = "status" /\ d.op = "read" /\ d.ptr = ptr /\ d.len = n /\ d.addr = a
  BY DEF Reading
<1>2. o = [dev |-> Quiet("completed", d.ptr), flash |-> f,
           ram |-> WithRead(m, f, d.ptr, d.len, d.addr)]
  BY <1>1 DEF Finish, Sound
<1>3. Over(o.dev)
  BY <1>2, QuietOver
<1> QED
  BY <1>1, <1>2, <1>3 DEF Reading, ReadOver, Over

(* A page write that ends leaves one page more done.                       *)
LEMMA WriteEnds ==
    ASSUME NEW x \in XferType, NEW d, NEW src \in Where, NEW lo \in Nat, NEW hi \in Nat,
           NEW e \in Nat, Writing(x, d, src, lo, hi, e), d.active, Sound(d),
           NEW f0, NEW m, NEW f, f = WrittenUpTo(f0, m, src, lo, e),
           NEW o \in Finish(d, f, m)
    PROVE  /\ Over(o.dev) /\ Writing(x, o.dev, src, lo, hi, e + 1) /\ e + 1 \in lo .. hi
           /\ o.flash = WrittenUpTo(f0, m, src, lo, e + 1) /\ o.ram = m
<1>1. x.write = "status"
  BY DEF Writing, XferType
<1>2. /\ AtPage(x, src, lo, hi, e) /\ d.op = "write" /\ d.addr = x.blockAddress
      /\ d.ptr = x.writePtr
  BY <1>1 DEF Writing
<1>3. o = [dev |-> Quiet("completed", d.ptr), flash |-> WithPage(f, m, d.ptr, d.addr),
           ram |-> m]
  BY <1>2 DEF Finish, Sound
<1>4. Over(o.dev)
  BY <1>3, QuietOver
<1>5. lo <= e /\ e < hi /\ d.addr = e * PageSize /\ d.ptr = Ahead(src, (e - lo) * PageSize)
  BY <1>2 DEF AtPage
<1>6. WithPage(f, m, d.ptr, d.addr) = WrittenUpTo(f0, m, src, lo, e + 1)
  BY <1>5, PageDone
<1>7. (e + 1) - 1 = e /\ e + 1 \in lo .. hi
  BY <1>5
<1>8. Writing(x, o.dev, src, lo, hi, e + 1)
  <2> DEFINE g == e + 1
  <2>1. AtPage(x, src, lo, hi, g - 1)
    BY <1>2, <1>7
  <2> HIDE DEF g
  <2>2. Writing(x, o.dev, src, lo, hi, g)
    BY <1>1, <1>4, <2>1 DEF Writing, Over
  <2> QED
    BY <2>2 DEF g
<1> QED
  BY <1>3, <1>4, <1>6, <1>7, <1>8

(* A sector erase that ends leaves one sector more done.                   *)
LEMMA EraseEnds ==
    ASSUME NEW x \in XferType, NEW d, NEW lo \in Nat, NEW hi \in Nat, hi <= NumSectors,
           NEW e \in Nat, Erasing(x, d, lo, hi, e), d.active, Sound(d),
           NEW f0, NEW m, NEW f, f = ErasedUpTo(f0, lo, e), NEW o \in Finish(d, f, m)
    PROVE  /\ Over(o.dev) /\ Erasing(x, o.dev, lo, hi, e + 1) /\ e + 1 \in lo .. hi
           /\ o.flash = ErasedUpTo(f0, lo, e + 1) /\ o.ram = m
<1>1. x.erase = "status"
  BY DEF Erasing, XferType
<1>2. AtSector(x, lo, hi, e) /\ d.op = "erase" /\ d.addr = x.blockAddress
  BY <1>1 DEF Erasing
<1>3. o = [dev |-> Quiet("completed", d.ptr), flash |-> WithSectorErased(f, d.addr),
           ram |-> m]
  BY <1>2 DEF Finish, Sound
<1>4. Over(o.dev)
  BY <1>3, QuietOver
<1>5. lo <= e /\ e < hi /\ d.addr = e * SectorSize
  BY <1>2 DEF AtSector
<1>6. e < NumSectors /\ (e + 1) - 1 = e /\ e + 1 \in lo .. hi
  BY <1>5, Sizes
<1>7. WithSectorErased(f, d.addr) = ErasedUpTo(f0, lo, e + 1)
  BY <1>5, <1>6, SectorDone
<1>8. Erasing(x, o.dev, lo, hi, e + 1)
  <2> DEFINE g == e + 1
  <2>1. AtSector(x, lo, hi, g - 1)
    BY <1>2, <1>6
  <2> HIDE DEF g
  <2>2. Erasing(x, o.dev, lo, hi, g)
    BY <1>1, <1>4, <2>1 DEF Erasing, Over
  <2> QED
    BY <2>2 DEF g
<1> QED
  BY <1>3, <1>4, <1>6, <1>7, <1>8

(* The first n cells filled with what f holds from address a on.           *)
Filled(f, n, a, old) == [k \in Cells |-> IF k < n THEN f[a + k] ELSE old[k]]

(* The memory w is m but for one region.                                   *)
SameBut(w, m, r) == \A t \in Regions : t # r => w[t] = m[t]

(* A read fills the cells it names, in its own region only.                *)
LEMMA ReadFills ==
    ASSUME NEW m \in RamType, NEW r \in Regions, NEW f, NEW n \in Nat, NEW a \in Nat,
           NEW w, w = WithRead(m, f, <<r, 0>>, n, a)
    PROVE  SameBut(w, m, r) /\ w[r] = Filled(f, n, a, m[r])
<1> DEFINE g == [k \in Cells |-> IF k \in 0 .. 0 + n - 1 THEN f[a + k - 0] ELSE m[r][k]]
<1>1. DOMAIN m[r] = Cells /\ DOMAIN m = Regions
  BY DEF RamType
<1>2. w = [m EXCEPT ![r] = g]
  BY <1>1 DEF WithRead
<1>3. g = Filled(f, n, a, m[r])
  <2>1. ASSUME NEW k \in Cells
        PROVE  (k \in 0 .. 0 + n - 1 <=> k < n) /\ a + k - 0 = a + k
    <3>1. k \in Nat
      BY Sizes
    <3> QED
      BY <3>1
  <2> QED
    BY <2>1 DEF Filled
<1> HIDE DEF g
<1> QED
  BY <1>1, <1>2, <1>3 DEF SameBut

(* The end of a chain brings the request one block further, and changes no *)
(* client's memory but that of a client that reads.                        *)
LEMMA FinishDoes ==
    ASSUME NEW x \in XferType, NEW d, NEW b \in BufType, NEW p, Fits(p),
           NEW f, NEW m \in RamType, Underway(x, d, b, p, f, m), d.active, Sound(d),
           NEW o \in Finish(d, f, m)
    PROVE  /\ Sound(o.dev) /\ ~o.dev.active
           /\ Underway(x, o.dev, b, p, o.flash, o.ram)
           /\ \A s \in Slots : s # Home(p) => o.ram[s] = m[s]
<1> DEFINE lo == p.start
           hi == p.start + p.n
           src == <<Home(p), 0>>
           e1 == o.dev
<1>1. /\ lo \in Nat /\ p.n \in Nat /\ p.n >= 1 /\ hi \in Nat /\ p.op \in Ops
      /\ Home(p) \in Slots /\ Home(p) \in Regions /\ src \in Where /\ p \in Request
      /\ p.before \in [Cells -> Content] /\ p.source \in [Cells -> Content]
  BY RequestFields, SlotFacts DEF Fits, Where
<1>2. Slots \subseteq Regions /\ Ew \in Regions /\ \A s \in Slots : s # Ew
  BY SlotFacts, ConfigAssumption DEF Slots
<1>3. CASE p.op = "read"
  <2>1. AsAsked(b, p) /\ Reads(x, d, b, p, f, m)
    BY <1>3 DEF Underway
  <2>2. Reading(x, d, src, p.n, lo) /\ f = p.before
    BY <2>1 DEF Reads
  <2>3. m[Home(p)] = p.source
    BY <2>1 DEF Reads, ReadOver
  <2>4. /\ Over(e1) /\ Reading(x, e1, src, p.n, lo) /\ ReadOver(x, e1)
        /\ o.flash = f /\ o.ram = WithRead(m, f, src, p.n, lo)
    <3> HIDE DEF lo, src
    <3> QED
      BY <2>2, ReadEnds
  <2>5. SameBut(o.ram, m, Home(p)) /\ o.ram[Home(p)] = Filled(f, p.n, lo, m[Home(p)])
    <3> DEFINE h == Home(p)
               pn == p.n
               w == o.ram
    <3>1. h \in Regions /\ pn \in Nat /\ lo \in Nat /\ w = WithRead(m, f, <<h, 0>>, pn, lo)
      BY <1>1, <2>4
    <3> HIDE DEF h, pn, lo, w
    <3>2. SameBut(w, m, h) /\ w[h] = Filled(f, pn, lo, m[h])
      BY <3>1, ReadFills
    <3> QED
      BY <3>2 DEF h, pn, w
  <2>6. o.ram[Home(p)] = BufferAfter(p, p.before)
    BY <1>3, <2>2, <2>3, <2>5 DEF BufferAfter, Filled
  <2>7. Reads(x, e1, b, p, o.flash, o.ram)
    BY <2>2, <2>4, <2>6 DEF Reads
  <2> QED
    BY <1>2, <1>3, <2>1, <2>4, <2>5, <2>7 DEF Underway, Over, SameBut
<1>4. CASE p.op = "write"
  <2>1. AsAsked(b, p) /\ Writes(x, d, b, p, f, m)
    BY <1>4 DEF Underway
  <2>2. PICK e \in lo .. hi : /\ Writing(x, d, src, lo, hi, e)
                              /\ f = WrittenUpTo(p.before, m, src, lo, e)
    BY <2>1 DEF Writes
  <2>3. m[Home(p)] = p.source
    BY <2>1 DEF Writes
  <2>4. /\ Over(e1) /\ Writing(x, e1, src, lo, hi, e + 1) /\ e + 1 \in lo .. hi
        /\ o.flash = WrittenUpTo(p.before, m, src, lo, e + 1) /\ o.ram = m
    <3> DEFINE f0 == p.before
    <3>1. /\ lo \in Nat /\ hi \in Nat /\ src \in Where /\ e \in Nat
          /\ f = WrittenUpTo(f0, m, src, lo, e)
      BY <1>1, <2>2
    <3> HIDE DEF lo, hi, src, f0
    <3>2. /\ Over(e1) /\ Writing(x, e1, src, lo, hi, e + 1) /\ e + 1 \in lo .. hi
          /\ o.flash = WrittenUpTo(f0, m, src, lo, e + 1) /\ o.ram = m
      BY <2>2, <3>1, WriteEnds
    <3> QED
      BY <3>2 DEF f0
  <2>5. Writes(x, e1, b, p, o.flash, o.ram)
    BY <2>3, <2>4 DEF Writes
  <2> QED
    BY <1>4, <2>1, <2>4, <2>5 DEF Underway, Over
<1>5. CASE p.op = "erase"
  <2>1. AsAsked(b, p) /\ Erases(x, d, b, p, f, m)
    BY <1>5 DEF Underway
  <2>2. PICK e \in lo .. hi : Erasing(x, d, lo, hi, e) /\ f = ErasedUpTo(p.before, lo, e)
    BY <2>1 DEF Erases
  <2>3. m[Home(p)] = p.source
    BY <2>1 DEF Erases
  <2>4. /\ Over(e1) /\ Erasing(x, e1, lo, hi, e + 1) /\ e + 1 \in lo .. hi
        /\ o.flash = ErasedUpTo(p.before, lo, e + 1) /\ o.ram = m
    <3> DEFINE f0 == p.before
    <3>1. /\ lo \in Nat /\ hi \in Nat /\ e \in Nat /\ hi <= NumSectors
          /\ f = ErasedUpTo(f0, lo, e) /\ Erasing(x, d, lo, hi, e)
      BY <1>1, <1>5, <2>2 DEF Fits, NumBlocks
    <3> HIDE DEF lo, hi, f0
    <3>2. /\ Over(e1) /\ Erasing(x, e1, lo, hi, e + 1) /\ e + 1 \in lo .. hi
          /\ o.flash = ErasedUpTo(f0, lo, e + 1) /\ o.ram = m
      BY <3>1, EraseEnds
    <3> QED
      BY <3>2 DEF f0
  <2>5. Erases(x, e1, b, p, o.flash, o.ram)
    BY <2>3, <2>4 DEF Erases
  <2> QED
    BY <1>5, <2>1, <2>4, <2>5 DEF Underway, Over
<1>6. CASE p.op = "erasewrite"
  <2> DEFINE first == b.blockStart
             s == x.sector
             pages == Pages(x, b)
             F == RewrittenUpTo(p, first)
             E == ErasedUpTo(F, s, s + 1)
  <2>1. Rewrites(x, d, b, p, f, m)
    BY <1>6 DEF Underway
  <2>2. Rest(b, p) /\ m[Home(p)] = p.source /\ Rewrite(p) /\ b.buffer \in Where
    BY <1>6, <2>1 DEF Rewrites, Rewrite, Fits, BufType, Where
  <2>3. x.ew \in {"read", "erase", "write"}
    BY <2>1 DEF Rewrites, XferType
  <2>4. pages \in Where
    BY <1>2, <2>2 DEF Pages, Where
  <2>5. CASE x.ew = "read"
    <3>1. RewriteReads(x, d, b, p, f, m)
      BY <2>1, <2>5 DEF Rewrites
    <3> DEFINE a == s * SectorSize
               n == SectorSize
    <3>2. Chunk(x, b) /\ Reading(x, d, <<Ew, 0>>, n, a) /\ f = F
      BY <3>1 DEF RewriteReads
    <3>3. a \in Nat /\ n \in Nat /\ n <= FlashSize /\ FlashSize \in Nat
      <4>1. a \in Nat /\ n \in Nat /\ FlashSize \in Nat /\ a + n <= FlashSize
        BY <2>2, <3>2, ChunkFacts, Sizes
      <4> HIDE DEF a, n
      <4> QED
        BY <4>1
    <3>4. /\ Over(e1) /\ Reading(x, e1, <<Ew, 0>>, n, a) /\ ReadOver(x, e1)
          /\ o.flash = f /\ o.ram = WithRead(m, f, <<Ew, 0>>, n, a)
      <4> HIDE DEF a, n
      <4> QED
        BY <3>2, ReadEnds
    <3>5. SameBut(o.ram, m, Ew) /\ o.ram[Ew] = Filled(f, n, a, m[Ew])
      <4> DEFINE w == o.ram
      <4>1. w = WithRead(m, f, <<Ew, 0>>, n, a) /\ n \in Nat /\ a \in Nat
        BY <3>3, <3>4
      <4> HIDE DEF a, n, w
      <4>2. SameBut(w, m, Ew) /\ w[Ew] = Filled(f, n, a, m[Ew])
        BY <1>2, <4>1, ReadFills
      <4> QED
        BY <4>2 DEF w
    <3>6. \A i \in 0 .. n - 1 : o.ram[Ew][i] = o.flash[a + i]
      <4>1. ASSUME NEW i \in 0 .. n - 1 PROVE i \in Cells /\ i < n
        <5> HIDE DEF n
        <5> QED
          BY <3>3 DEF Cells
      <4> HIDE DEF a, n
      <4> QED
        BY <3>4, <3>5, <4>1 DEF Filled
    <3>7. RewriteReads(x, e1, b, p, o.flash, o.ram)
      BY <3>1, <3>4, <3>6 DEF RewriteReads
    <3>8. \A t \in Slots : o.ram[t] = m[t]
      BY <1>2, <3>5 DEF SameBut
    <3>9. Rewrites(x, e1, b, p, o.flash, o.ram)
      BY <1>1, <2>2, <2>5, <3>7, <3>8 DEF Rewrites
    <3> QED
      BY <1>6, <3>4, <3>8, <3>9 DEF Underway, Over
  <2>6. CASE x.ew = "erase"
    <3>1. RewriteErases(x, d, b, p, f, m)
      BY <2>1, <2>6 DEF Rewrites
    <3>2. Chunk(x, b)
      BY <3>1 DEF RewriteErases
    <3>3. PICK e \in s .. s + 1 : Erasing(x, d, s, s + 1, e) /\ f = ErasedUpTo(F, s, e)
      BY <3>1 DEF RewriteErases
    <3>4. s \in Nat /\ s < NumSectors
      BY <2>2, <3>2, ChunkFacts
    <3>5. /\ Over(e1) /\ Erasing(x, e1, s, s + 1, e + 1) /\ e + 1 \in s .. s + 1
          /\ o.flash = ErasedUpTo(F, s, e + 1) /\ o.ram = m
      <4> DEFINE t == s + 1
      <4>1. s \in Nat /\ t \in Nat /\ e \in Nat /\ t <= NumSectors
        BY <3>3, <3>4, Sizes
      <4>2. Erasing(x, d, s, t, e) /\ f = ErasedUpTo(F, s, e)
        BY <3>3
      <4> HIDE DEF s, t, F
      <4>3. /\ Over(e1) /\ Erasing(x, e1, s, t, e + 1) /\ e + 1 \in s .. t
            /\ o.flash = ErasedUpTo(F, s, e + 1) /\ o.ram = m
        BY <4>1, <4>2, EraseEnds
      <4> QED
        BY <4>3 DEF t
    <3>6. RewriteErases(x, e1, b, p, o.flash, o.ram)
      BY <3>1, <3>5 DEF RewriteErases
    <3>7. Rewrites(x, e1, b, p, o.flash, o.ram)
      BY <2>2, <2>6, <3>5, <3>6 DEF Rewrites
    <3> QED
      BY <1>6, <3>5, <3>7 DEF Underway, Over
  <2>7. CASE x.ew = "write"
    <3> DEFINE top == s * PagesPerSector
               end == top + PagesPerSector
    <3>1. RewriteWrites(x, d, b, p, f, m)
      BY <2>1, <2>7 DEF Rewrites
    <3>2. Chunk(x, b) /\ (x.write = "init" => x.writePtr = pages)
          /\ Holds(m, pages, p, s, first + x.toWrite)
      BY <3>1 DEF RewriteWrites
    <3>3. PICK e \in top .. end : /\ Writing(x, d, pages, top, end, e)
                                  /\ f = WrittenUpTo(E, m, pages, top, e)
      BY <3>1 DEF RewriteWrites
    <3>4. top \in Nat /\ PagesPerSector \in Nat
      BY <2>2, <3>2, ChunkFacts, Sizes
    <3>5. end \in Nat /\ e \in Nat
      <4> HIDE DEF top
      <4> QED
        BY <3>3, <3>4
    <3>6. /\ Over(e1) /\ Writing(x, e1, pages, top, end, e + 1) /\ e + 1 \in top .. end
          /\ o.flash = WrittenUpTo(E, m, pages, top, e + 1) /\ o.ram = m
      <4> HIDE DEF top, end, pages, E
      <4> QED
        BY <2>4, <3>3, <3>4, <3>5, WriteEnds
    <3>7. RewriteWrites(x, e1, b, p, o.flash, o.ram)
      <4>1. Holds(o.ram, pages, p, s, first + x.toWrite)
            /\ o.flash = WrittenUpTo(E, o.ram, pages, top, e + 1)
        BY <3>2, <3>6
      <4> QED
        BY <3>2, <3>6, <4>1 DEF RewriteWrites
    <3>8. Rewrites(x, e1, b, p, o.flash, o.ram)
      BY <2>2, <2>7, <3>6, <3>7 DEF Rewrites
    <3> QED
      BY <1>6, <3>6, <3>8 DEF Underway, Over
  <2> QED
    BY <2>3, <2>5, <2>6, <2>7
<1> QED
  BY <1>1, <1>3, <1>4, <1>5, <1>6 DEF Ops

(***************************************************************************)
(* The inductive invariant, and what a step does to the store.             *)
(***************************************************************************)

(* The inductive invariant.                                                *)
StoreInv == Inv /\ StoreKnown

(* Nothing has happened in the initial state.                              *)
LEMMA InitStore == Init => StoreInv
<1> SUFFICES ASSUME Init PROVE StoreInv
  OBVIOUS
<1>1. Inv
  BY InitInv
<1>2. Sound(dev) /\ ~dev.active
  BY DEF Init, Quiet, Sound
<1> QED
  BY <1>1, <1>2 DEF Init, StoreInv, StoreKnown

(* With its machines reset a request is under way, none of it done.        *)
LEMMA FreshUnderway ==
    ASSUME NEW x \in XferType,
           x.read = "init", x.write = "init", x.erase = "init", x.ew = "init",
           NEW d, ~d.active, NEW b \in BufType, NEW p, Fits(p), AsAsked(b, p),
           NEW m, m[Home(p)] = p.source
    PROVE  Underway(x, d, b, p, p.before, m)
<1> DEFINE lo == p.start
           hi == p.start + p.n
           src == <<Home(p), 0>>
           f == p.before
<1>1. /\ lo \in Nat /\ p.n \in Nat /\ p.n >= 1 /\ hi \in Nat /\ p.op \in Ops
      /\ f \in [Cells -> Content]
  BY RequestFields DEF Fits
<1>2. lo \in lo .. hi
  BY <1>1
<1>3. CASE p.op = "read"
  <2>1. Reads(x, d, b, p, f, m)
    BY DEF Reads, Reading, ReadOver
  <2> QED
    BY <1>3, <2>1 DEF Underway
<1>4. CASE p.op = "write"
  <2>1. f = WrittenUpTo(f, m, src, lo, lo)
    <3> HIDE DEF f, lo, src
    <3> QED
      BY <1>1, NothingDone
  <2>2. Writing(x, d, src, lo, hi, lo)
    BY DEF Writing
  <2>3. Writes(x, d, b, p, f, m)
    BY <1>2, <2>1, <2>2 DEF Writes
  <2> QED
    BY <1>4, <2>3 DEF Underway
<1>5. CASE p.op = "erase"
  <2>1. f = ErasedUpTo(f, lo, lo)
    <3> HIDE DEF f, lo
    <3> QED
      BY <1>1, NothingDone
  <2>2. Erasing(x, d, lo, hi, lo)
    BY DEF Erasing
  <2>3. Erases(x, d, b, p, f, m)
    BY <1>2, <2>1, <2>2 DEF Erases
  <2> QED
    BY <1>5, <2>3 DEF Underway
<1>6. CASE p.op = "erasewrite"
  <2>1. b.blockStart = lo /\ b.nBlocks = p.n /\ b.buffer = src
    BY DEF AsAsked
  <2>2. (lo - lo) * PageSize = 0
    BY <1>1, Sizes
  <2>3. Rest(b, p)
    BY <1>1, <2>1, <2>2 DEF Rest
  <2>4. \A c \in Cells : ~Between(c, lo, lo, PageSize)
    BY <1>1, Sizes, BetweenNone
  <2>5. f = RewrittenUpTo(p, b.blockStart)
    BY <1>1, <2>1, <2>4 DEF RewrittenUpTo
  <2>6. Rewrites(x, d, b, p, f, m)
    BY <2>3, <2>5 DEF Rewrites
  <2> QED
    BY <1>6, <2>6 DEF Underway
<1> QED
  BY <1>1, <1>3, <1>4, <1>5, <1>6 DEF Ops

(* Nothing a client may rely on changes.                                   *)
SameForClients ==
    /\ pending' = pending
    /\ pending = NoRequest => flash' = flash
    /\ \A s \in Slots : ram'[s] = ram[s] \/ (pending # NoRequest /\ s = Home(pending))

(* A request is accepted, with the flash and the buffer as they are.       *)
Accepted ==
    /\ pending = NoRequest /\ Fits(pending')
    /\ pending'.before = flash /\ flash' = flash
    /\ ram' = [ram EXCEPT ![Home(pending')] = pending'.source]

(* The request is carried out as a whole, and reported.                    *)
CarriedOut ==
    /\ pending # NoRequest /\ pending' = NoRequest
    /\ flash' = FlashAfter(pending, pending.before)
    /\ ram'[Home(pending)] = BufferAfter(pending, pending.before)
    /\ \A s \in Slots : s # Home(pending) => ram'[s] = ram[s]
    /\ event'.for = pending

(* No client is told anything.                                             *)
Untold == (SameForClients \/ Accepted) /\ event' = NoEvent

(* A call of the task carries the request out, or changes nothing its      *)
(* client may rely on.                                                     *)
LEMMA StepStore ==
    ASSUME FlashSize <= WordMax, StoreInv, ready, pending # NoRequest,
           NEW x \in XferType, NEW b \in BufType, b.op = buf.op,
           Underway(x, dev, b, pending, flash, ram), Step(x, b)
    PROVE  StoreKnown' /\ (Untold \/ CarriedOut)
<1> DEFINE m0 == [x |-> x, dev |-> dev, st |-> "error", buf |-> b, ram |-> ram]
           m == Transfer(m0)
<1>1. MachineOK(m0) /\ m0.x = x /\ m0.dev = dev /\ m0.buf = b /\ m0.ram = ram
  BY DEF MachineOK, Machine, StoreInv, Inv, TypeInv, TypeOK, DevStatus
<1>2. Fits(pending) /\ b.op = pending.op /\ Sound(dev)
  BY DEF StoreInv, StoreKnown, Inv, TypeInv, TypeOK, BufferAccounted, Fits
<1>3. /\ Sound(m.dev)
      /\ \A s \in Slots : m.ram[s] = ram[s]
      /\ m.st = "busy" => Underway(m.x, m.dev, m.buf, pending, flash, m.ram)
      /\ m.st # "busy" => /\ m.st = "completed" /\ ~m.dev.active
                          /\ flash = FlashAfter(pending, pending.before)
                          /\ ram[Home(pending)] = BufferAfter(pending, pending.before)
  <2> HIDE DEF m0
  <2> QED
    BY <1>1, <1>2, TransferDoes
<1>4. /\ xfer' = m.x /\ dev' = m.dev /\ ram' = m.ram /\ ready' = ready /\ flash' = flash
      /\ IF m.st = "busy"
         THEN state' = "transfer" /\ buf' = m.buf /\ pending' = pending /\ event' = NoEvent
         ELSE state' = "queue" /\ pending' = NoRequest /\ event'.for = pending
  BY DEF Step, CallHandler
<1> HIDE DEF m
<1>5. CASE m.st = "busy"
  <2>1. StoreKnown'
    BY <1>3, <1>4, <1>5 DEF StoreInv, StoreKnown
  <2>2. Untold
    BY <1>3, <1>4, <1>5 DEF Untold, SameForClients
  <2> QED
    BY <2>1, <2>2
<1>6. CASE m.st # "busy"
  <2>1. StoreKnown'
    BY <1>3, <1>4, <1>6 DEF StoreKnown
  <2>2. Home(pending) \in Slots
    BY <1>2, RequestFields DEF Fits
  <2>3. CarriedOut
    BY <1>3, <1>4, <1>6, <2>2 DEF CarriedOut
  <2> QED
    BY <2>1, <2>3
<1> QED
  BY <1>5, <1>6

(* The end of a chain changes nothing a client may rely on.                *)
LEMMA DoneStore ==
    ASSUME StoreInv, DeviceDone
    PROVE  StoreKnown' /\ Untold
<1>1. PICK o \in Finish(dev, flash, ram) : dev' = o.dev /\ flash' = o.flash /\ ram' = o.ram
  BY DEF DeviceDone
<1>2. /\ dev.active /\ ready' = ready /\ state' = state /\ xfer' = xfer /\ buf' = buf
      /\ pending' = pending /\ event' = NoEvent
  BY DEF DeviceDone, queueVars
<1>3. /\ Sound(dev) /\ ready /\ buf \in BufType /\ xfer \in XferType /\ ram \in RamType
      /\ state \in {"queue", "transfer"}
  BY <1>2 DEF StoreInv, StoreKnown, Inv, TypeInv, TypeOK
<1>4. CASE pending = NoRequest
  <2>1. dev.op = "jedec"
    BY <1>2, <1>4 DEF StoreInv, StoreKnown
  <2>2. flash' = flash /\ ram' = ram /\ \E st \in {"completed", "error"} :
                                           dev' = Quiet(st, dev.ptr)
    BY <1>1, <1>3, <2>1 DEF Finish, Sound
  <2>3. Sound(dev') /\ ~dev'.active
    BY <2>2 DEF Sound, Quiet
  <2> QED
    BY <1>2, <1>3, <1>4, <2>2, <2>3 DEF StoreKnown, Untold, SameForClients
<1>5. CASE pending # NoRequest
  <2>1. state = "transfer" /\ Underway(xfer, dev, buf, pending, flash, ram)
    BY <1>2, <1>3, <1>5 DEF StoreInv, StoreKnown
  <2>2. Fits(pending)
    BY <1>5 DEF StoreInv, StoreKnown, Inv, TypeInv, TypeOK, Fits
  <2>3. /\ Sound(o.dev)
        /\ Underway(xfer, o.dev, buf, pending, o.flash, o.ram)
        /\ \A s \in Slots : s # Home(pending) => o.ram[s] = ram[s]
    BY <1>2, <1>3, <2>1, <2>2, FinishDoes
  <2>4. StoreKnown'
    BY <1>1, <1>2, <1>3, <1>5, <2>1, <2>3 DEF StoreInv, StoreKnown
  <2>5. Untold
    BY <1>1, <1>2, <1>5, <2>3 DEF Untold, SameForClients
  <2> QED
    BY <2>4, <2>5
<1> QED
  BY <1>4, <1>5

(* Each step keeps the invariant and is one of those.                      *)
LEMMA NextStore ==
    ASSUME CloseInFlight = FALSE, EarlyRequests = FALSE, FlashSize <= WordMax,
           StoreInv, Next
    PROVE  StoreKnown' /\ (Untold \/ CarriedOut)
<1>1. Inv
  BY DEF StoreInv
<1>2. ASSUME NEW s \in Slots, Open(s) PROVE StoreKnown' /\ Untold
  <2>1. /\ state' = state /\ xfer' = xfer /\ buf' = buf /\ pending' = pending
        /\ flash' = flash /\ ram' = ram /\ ready' = TRUE /\ event' = NoEvent
    BY <1>2 DEF Open, queueVars
  <2>2. Untold
    BY <2>1 DEF Untold, SameForClients
  <2>3. CASE ready
    <3>1. dev' = dev
      BY <1>2, <2>3 DEF Open
    <3> QED
      BY <2>1, <2>2, <2>3, <3>1 DEF StoreInv, StoreKnown
  <2>4. CASE ~ready
    <3>1. pending = NoRequest /\ ~dev.active /\ Sound(dev) /\ dev \in DevType(Regions)
      BY <1>1, <2>4 DEF StoreInv, StoreKnown, Inv, TypeInv, TypeOK
    <3> DEFINE r == Submit(dev, "jedec", dev.ptr, 0, 0)
    <3>2. dev' = r.dev
      BY <1>2, <2>4 DEF Open, OpenAndIdentify
    <3>3. Started(r.dev, dev, "jedec", dev.ptr, 0, 0)
      BY <3>1, SubmitStarts
    <3>4. Sound(dev') /\ dev'.op = "jedec"
      BY <3>1, <3>2, <3>3 DEF Started, Sound
    <3> QED
      BY <2>1, <2>2, <3>1, <3>4 DEF StoreKnown
  <2> QED
    BY <2>3, <2>4
<1>3. ASSUME NEW s \in Slots, Close(s) PROVE StoreKnown' /\ Untold
  <2>1. ~Waits(s)
    BY <1>3 DEF Close
  <2>2. ~(head = Buf /\ buf.client = s)
    BY <1>1, <2>1, WaitingHandle, ConfigAssumption DEF Inv, BufferAccounted
  <2>3. /\ state' = state /\ xfer' = xfer /\ buf' = buf /\ pending' = pending
        /\ flash' = flash /\ ram' = ram /\ ready' = ready /\ dev' = dev /\ event' = NoEvent
    BY <1>3, <2>1, <2>2 DEF Close, RemoveClientBufferObjects
  <2> QED
    BY <2>3 DEF StoreInv, StoreKnown, Untold, SameForClients
<1>4. ASSUME NEW s \in Slots, NEW op \in Ops, NEW start \in Nat, NEW n \in Nat \ {0},
             Async(s, op, start, n)
      PROVE  StoreKnown' /\ Untold
  <2> DEFINE data == Source(s, op, issued + 1)
  <2>1. free = Buf /\ head = Null /\ state = "queue" /\ pending = NoRequest
    BY <1>1, <1>4, ConfigAssumption
       DEF Async, AllocateBufferObject, Inv, BufferAccounted, TypeInv, TypeOK
  <2>2. /\ ready /\ ready' = ready /\ state' = state /\ dev' = dev /\ flash' = flash
        /\ start + n <= NumBlocks(op) /\ event' = NoEvent /\ ~dev.active
    BY <1>4 DEF Async
  <2>3. pending' = [by |-> HandleOf(s), cmd |-> bufferToken, op |-> op, start |-> start,
                    n |-> n, before |-> flash, source |-> data]
    BY <1>4 DEF Async
  <2>4. buf'.buffer = <<s, 0>> /\ buf'.blockStart = start /\ buf'.nBlocks = n
    BY <1>4 DEF Async, AllocateBufferObject
  <2>5. ram' = [ram EXCEPT ![s] = data]
    BY <1>4 DEF Async
  <2>6. TypeInv'
    BY <1>1, <1>4, NextTypeInv DEF Inv, Next
  <2> HIDE DEF data
  <2>7. /\ pending'.by = HandleOf(s) /\ pending'.op = op /\ pending'.start = start
        /\ pending'.n = n /\ pending'.before = flash /\ pending'.source = data
        /\ pending' # NoRequest
    BY <2>3 DEF Ops, NoRequest
  <2>8. Home(pending') = s
    BY <2>7 DEF Home, HandleOf
  <2>9. Fits(pending')
    BY <2>2, <2>6, <2>7 DEF Fits, TypeInv, TypeOK
  <2>10. ram'[s] = data
    BY <1>1, <2>5, SlotFacts DEF Inv, TypeInv, TypeOK, RamType
  <2>11. AsAsked(buf', pending')
    BY <2>4, <2>7, <2>8 DEF AsAsked
  <2>12. StoreKnown'
    BY <2>1, <2>2, <2>7, <2>8, <2>10, <2>11 DEF StoreInv, StoreKnown
  <2>13. Untold
    BY <2>1, <2>2, <2>5, <2>7, <2>8, <2>9 DEF Untold, Accepted
  <2> QED
    BY <2>12, <2>13
<1>5. CASE TasksIdle
  BY <1>5 DEF TasksIdle, StoreInv, StoreKnown, Untold, SameForClients
<1>6. CASE TasksStart
  <2> DEFINE x == [xfer EXCEPT !.read = "init", !.write = "init", !.erase = "init",
                               !.ew = "init"]
             b == [buf EXCEPT !.status = "in_progress"]
  <2>1. pending # NoRequest
    BY <1>1, <1>6, ConfigAssumption DEF TasksStart, Inv, BufferAccounted
  <2>2. x \in XferType /\ x.read = "init" /\ x.write = "init" /\ x.erase = "init"
        /\ x.ew = "init"
    BY <1>1 DEF Inv, TypeInv, TypeOK, XferType
  <2>3. /\ ready /\ ~dev.active /\ flash = pending.before
        /\ ram[Home(pending)] = pending.source /\ AsAsked(buf, pending) /\ Step(x, b)
    BY <1>6, <2>1 DEF TasksStart, StoreInv, StoreKnown
  <2>4. b \in BufType /\ b.op = buf.op /\ AsAsked(b, pending)
    BY <1>1, <2>3 DEF Inv, TypeInv, TypeOK, BufType, AsAsked
  <2>5. Fits(pending)
    BY <2>1 DEF StoreInv, StoreKnown, Inv, TypeInv, TypeOK, Fits
  <2> HIDE DEF x, b
  <2>6. Underway(x, dev, b, pending, flash, ram)
    BY <2>2, <2>3, <2>4, <2>5, FreshUnderway
  <2> QED
    BY <2>1, <2>2, <2>3, <2>4, <2>6, StepStore
<1>7. CASE TasksTransfer
  <2>1. head = Buf /\ pending # NoRequest /\ ready /\ Step(xfer, buf) /\ state = "transfer"
    BY <1>1, <1>7, ConfigAssumption DEF TasksTransfer, Inv, BufferAccounted
  <2>2. xfer \in XferType /\ buf \in BufType
    BY <1>1 DEF Inv, TypeInv, TypeOK
  <2>3. Underway(xfer, dev, buf, pending, flash, ram)
    BY <2>1 DEF StoreInv, StoreKnown
  <2> QED
    BY <2>1, <2>2, <2>3, StepStore
<1>8. CASE DeviceDone
  BY <1>8, DoneStore
<1>9. \A op \in Ops : NumBlocks(op) \in Nat
  BY Sizes DEF NumBlocks, Ops
<1> QED
  BY <1>2, <1>3, <1>4, <1>5, <1>6, <1>7, <1>8, <1>9 DEF Next, Tasks

(* The invariant is inductive.                                             *)
LEMMA NextStoreInv ==
    ASSUME CloseInFlight = FALSE, EarlyRequests = FALSE, FlashSize <= WordMax
    PROVE  StoreInv /\ [Next]_vars => StoreInv'
<1> SUFFICES ASSUME StoreInv, [Next]_vars PROVE StoreInv'
  OBVIOUS
<1>1. Inv'
  BY NextInv DEF StoreInv
<1>2. CASE Next
  BY <1>1, <1>2, NextStore DEF StoreInv
<1>3. CASE UNCHANGED vars
  BY <1>1, <1>3 DEF vars, queueVars, StoreInv, StoreKnown
<1> QED
  BY <1>2, <1>3

(***************************************************************************)
(* What a report means, and the refinement.                                *)
(***************************************************************************)

(* With clients that wait before they close, and that wait for the         *)
(* identification of the flash before they ask, a COMMAND_COMPLETE event   *)
(* means that the operation was carried out.                               *)
THEOREM CompletionIsTrue ==
    ASSUME CloseInFlight = FALSE, EarlyRequests = FALSE, FlashSize <= WordMax
    PROVE  Spec => []CompleteMeansDone
<1>1. Init => CompleteMeansDone
  BY DEF Init, CompleteMeansDone, NoEvent
<1>2. StoreInv /\ CompleteMeansDone /\ [Next]_vars => CompleteMeansDone'
  <2> SUFFICES ASSUME StoreInv, CompleteMeansDone, [Next]_vars PROVE CompleteMeansDone'
    OBVIOUS
  <2>1. CASE UNCHANGED vars
    BY <2>1 DEF vars, CompleteMeansDone
  <2>2. CASE event' = NoEvent
    BY <2>2 DEF CompleteMeansDone, NoEvent
  <2>3. CASE CarriedOut
    <3>1. /\ event'.for = pending /\ flash' = FlashAfter(pending, pending.before)
          /\ ram'[pending.by.slot] = BufferAfter(pending, pending.before)
      BY <2>3 DEF CarriedOut, Home
    <3> QED
      BY <3>1 DEF CompleteMeansDone
  <2>4. CASE Next
    BY <2>2, <2>3, <2>4, NextStore DEF Untold
  <2> QED
    BY <2>1, <2>4
<1> QED
  BY <1>1, <1>2, InitStore, NextStoreInv, PTL DEF Spec

(* The store's operators on a request are the driver's.                    *)
LEMMA SameEffects ==
    ASSUME NEW p, NEW r, r.op = p.op, r.start = p.start, r.n = p.n, r.source = p.source,
           NEW f
    PROVE  /\ Store!FlashAfter(r, f) = FlashAfter(p, f)
           /\ Store!BufferAfter(r, f) = BufferAfter(p, f)
<1>1. Store!Cells = Cells
  BY DEF Store!Cells, Cells, Store!FlashSize, FlashSize, Store!SectorSize, SectorSize
<1>2. Store!Asked(r) = Asked(p) /\ Store!FirstCell(r) = FirstCell(p)
  BY DEF Store!Asked, Asked, Store!FirstCell, FirstCell, Store!BlockSize, BlockSize,
         Store!SectorSize, SectorSize
<1>3. \A old, new : Store!Programmed(old, new) = Programmed(old, new)
  BY DEF Store!Programmed, Programmed
<1>4. Store!FlashAfter(r, f) = FlashAfter(p, f)
  BY <1>1, <1>2, <1>3 DEF Store!FlashAfter, FlashAfter
<1>5. Store!BufferAfter(r, f) = BufferAfter(p, f)
  BY <1>1 DEF Store!BufferAfter, BufferAfter
<1> QED
  BY <1>4, <1>5

(* The store, the request and the buffers as BlockStore sees them.         *)
SeenStore == IF pending = NoRequest THEN flash ELSE pending.before
(* The request under way, without what the store does not need to know.    *)
SeenRequest ==
    IF pending = NoRequest THEN NoRequest
    ELSE [by |-> pending.by.slot, op |-> pending.op, start |-> pending.start,
          n |-> pending.n, source |-> pending.source]
(* The buffers: that of the waiting client as it was when it asked.        *)
SeenBuffer == [s \in Slots |-> IF pending # NoRequest /\ pending.by.slot = s
                               THEN pending.source ELSE ram[s]]

(* Before the first request the store holds something.                     *)
LEMMA InitIsStoreInit == Init => Store!Init
<1> SUFFICES ASSUME Init PROVE Store!Init
  OBVIOUS
<1>1. pending = NoRequest /\ flash \in [Cells -> Content] /\ ram \in RamType
  BY InitTypeInv DEF Init, TypeInv, TypeOK
<1>2. Store!Cells = Cells /\ Store!Content = Content /\ Store!NoRequest = NoRequest
  BY DEF Store!Cells, Cells, Store!FlashSize, FlashSize, Store!SectorSize, SectorSize,
         Store!Content, Content, Store!NoRequest, NoRequest
<1>3. SeenStore = flash /\ SeenRequest = NoRequest
  BY <1>1 DEF SeenStore, SeenRequest
<1>4. SeenBuffer \in [Slots -> [Cells -> Content]]
  BY <1>1, SlotFacts DEF SeenBuffer, RamType
<1> QED
  BY <1>1, <1>2, <1>3, <1>4 DEF Store!Init, SeenStore, SeenRequest, SeenBuffer

(* What its clients cannot tell apart is no step of the store.             *)
LEMMA SameIsNoStep ==
    ASSUME SameForClients
    PROVE  SeenStore' = SeenStore /\ SeenRequest' = SeenRequest /\ SeenBuffer' = SeenBuffer
<1>1. pending' = pending /\ (pending = NoRequest => flash' = flash)
  BY DEF SameForClients
<1>2. ASSUME NEW s \in Slots
      PROVE  (IF pending # NoRequest /\ pending.by.slot = s THEN pending.source ELSE ram'[s])
             = (IF pending # NoRequest /\ pending.by.slot = s THEN pending.source ELSE ram[s])
  BY DEF SameForClients, Home
<1>3. SeenBuffer' = SeenBuffer
  BY <1>1, <1>2 DEF SeenBuffer
<1> QED
  BY <1>1, <1>3 DEF SeenStore, SeenRequest

(* A request that is accepted.                                             *)
LEMMA AcceptedIsAccept ==
    ASSUME TypeInv, Accepted
    PROVE  Store!Accept
<1> DEFINE p == pending'
           q == [by |-> Home(p), op |-> p.op, start |-> p.start, n |-> p.n,
                 source |-> p.source]
<1>1. /\ pending = NoRequest /\ p \in Request /\ p.start + p.n <= NumBlocks(p.op)
      /\ p.before = flash /\ ram' = [ram EXCEPT ![Home(p)] = p.source]
  BY DEF Accepted, Fits
<1>2. /\ p.start \in Nat /\ p.n \in Nat \ {0} /\ p.op \in Ops /\ Home(p) \in Slots
      /\ p.source \in [Cells -> Content] /\ p # NoRequest
  BY <1>1, Somebody DEF Request, Handle, Home
<1>3. SeenStore = flash /\ SeenRequest = NoRequest /\ SeenBuffer = [s \in Slots |-> ram[s]]
  BY <1>1 DEF SeenStore, SeenRequest, SeenBuffer
<1>4. SeenStore' = flash /\ SeenRequest' = q
  BY <1>1, <1>2 DEF SeenStore, SeenRequest, Home
<1>5. SeenBuffer' = [SeenBuffer EXCEPT ![Home(p)] = p.source]
  <2>1. ram \in RamType /\ \A s \in Slots : s \in Regions
    BY SlotFacts DEF TypeInv, TypeOK
  <2>2. ASSUME NEW s \in Slots
        PROVE  (IF p # NoRequest /\ p.by.slot = s THEN p.source ELSE ram'[s])
               = (IF s = Home(p) THEN p.source ELSE ram[s])
    BY <1>1, <1>2, <2>1 DEF Home, RamType
  <2>3. SeenBuffer' = [s \in Slots |-> IF s = Home(p) THEN p.source ELSE ram[s]]
    BY <2>2 DEF SeenBuffer
  <2> QED
    BY <1>3, <2>3
<1>6. /\ Store!Cells = Cells /\ Store!Content = Content /\ Store!NoRequest = NoRequest
      /\ Store!Ops = Ops /\ Store!NumBlocks(p.op) = NumBlocks(p.op)
  BY DEF Store!Cells, Cells, Store!FlashSize, FlashSize, Store!SectorSize, SectorSize,
         Store!Content, Content, Store!NoRequest, NoRequest, Store!Ops, Ops,
         Store!NumBlocks, NumBlocks, Store!NumPages, NumPages
<1> HIDE DEF p
<1>7. q \in Store!Request /\ q.by = Home(p) /\ q.source = p.source
      /\ q.start + q.n <= Store!NumBlocks(q.op)
  BY <1>1, <1>2, <1>6 DEF Store!Request
<1> HIDE DEF q
<1>8. /\ SeenRequest = Store!NoRequest /\ SeenRequest' \in Store!Request
      /\ SeenRequest'.start + SeenRequest'.n <= Store!NumBlocks(SeenRequest'.op)
      /\ SeenBuffer' = [SeenBuffer EXCEPT ![SeenRequest'.by] = SeenRequest'.source]
      /\ SeenStore' = SeenStore
  BY <1>3, <1>4, <1>5, <1>6, <1>7
<1> QED
  BY <1>8 DEF Store!Accept, SeenStore, SeenRequest, SeenBuffer

(* A request that is carried out.                                          *)
LEMMA CarriedOutIsComplete ==
    ASSUME TypeInv, CarriedOut
    PROVE  Store!Complete
<1> DEFINE p == pending
           q == [by |-> Home(p), op |-> p.op, start |-> p.start, n |-> p.n,
                 source |-> p.source]
<1>1. /\ p # NoRequest /\ pending' = NoRequest /\ flash' = FlashAfter(p, p.before)
      /\ ram'[Home(p)] = BufferAfter(p, p.before)
      /\ \A s \in Slots : s # Home(p) => ram'[s] = ram[s]
  BY DEF CarriedOut
<1>2. p \in Request
  BY <1>1 DEF TypeInv, TypeOK
<1>3. Home(p) \in Slots /\ p.op \in Ops
  BY <1>2, RequestFields
<1>4. SeenStore = p.before /\ SeenRequest = q
  BY <1>1 DEF SeenStore, SeenRequest, Home
<1>5. SeenStore' = FlashAfter(p, p.before) /\ SeenRequest' = NoRequest
  BY <1>1 DEF SeenStore, SeenRequest
<1>6. SeenBuffer' = [SeenBuffer EXCEPT ![Home(p)] = BufferAfter(p, p.before)]
  <2>1. SeenBuffer' = [s \in Slots |-> ram'[s]]
    BY <1>1 DEF SeenBuffer
  <2>2. SeenBuffer = [s \in Slots |-> IF Home(p) = s THEN p.source ELSE ram[s]]
    BY <1>1 DEF SeenBuffer, Home
  <2>3. ASSUME NEW s \in Slots
        PROVE  ram'[s] = IF s = Home(p) THEN BufferAfter(p, p.before) ELSE SeenBuffer[s]
    BY <1>1, <2>2
  <2> QED
    BY <2>1, <2>2, <2>3
<1>7. /\ Store!FlashAfter(q, p.before) = FlashAfter(p, p.before)
      /\ Store!BufferAfter(q, p.before) = BufferAfter(p, p.before)
  <2>1. q.op = p.op /\ q.start = p.start /\ q.n = p.n /\ q.source = p.source
    OBVIOUS
  <2> HIDE DEF p, q
  <2> QED
    BY <2>1, SameEffects
<1>8. Store!NoRequest = NoRequest /\ q # NoRequest /\ q.by = Home(p)
  BY <1>3 DEF Store!NoRequest, NoRequest, Ops
<1> HIDE DEF p, q
<1>9. /\ SeenRequest # Store!NoRequest
      /\ SeenStore' = Store!FlashAfter(SeenRequest, SeenStore)
      /\ SeenBuffer' = [SeenBuffer EXCEPT
                           ![SeenRequest.by] = Store!BufferAfter(SeenRequest, SeenStore)]
      /\ SeenRequest' = Store!NoRequest
  BY <1>4, <1>5, <1>6, <1>7, <1>8
<1> QED
  BY <1>9 DEF Store!Complete, SeenStore, SeenRequest, SeenBuffer

(* Each step of the driver is a step of the store, or none.                *)
LEMMA EveryStepIsStoreStep ==
    ASSUME CloseInFlight = FALSE, EarlyRequests = FALSE, FlashSize <= WordMax
    PROVE  StoreInv /\ [Next]_vars => [Store!Next]_(Store!vars)
<1> SUFFICES ASSUME StoreInv, [Next]_vars PROVE [Store!Next]_(Store!vars)
  OBVIOUS
<1>1. TypeInv
  BY DEF StoreInv, Inv
<1>2. CASE SameForClients
  <2>1. SeenStore' = SeenStore /\ SeenRequest' = SeenRequest /\ SeenBuffer' = SeenBuffer
    BY <1>2, SameIsNoStep
  <2>2. UNCHANGED Store!vars
    BY <2>1 DEF Store!vars, SeenStore, SeenRequest, SeenBuffer
  <2> QED
    BY <2>2
<1>3. CASE Accepted
  BY <1>1, <1>3, AcceptedIsAccept DEF Store!Next
<1>4. CASE CarriedOut
  BY <1>1, <1>4, CarriedOutIsComplete DEF Store!Next
<1>5. CASE UNCHANGED vars
  <2>1. SameForClients
    BY <1>5 DEF vars, SameForClients
  <2> QED
    BY <1>2, <2>1
<1>6. CASE Next
  BY <1>2, <1>3, <1>4, <1>6, NextStore DEF Untold
<1> QED
  BY <1>5, <1>6

(* With clients that wait before they close, and that wait for the         *)
(* identification of the flash before they ask, the driver is the store of *)
(* blocks drv_memory.h promises: it carries out each accepted request as a *)
(* whole, whatever its pages and sectors, and changes nothing else.  The   *)
(* flash has fewer cells than a uint32_t counts.                           *)
THEOREM DriverImplementsStore ==
    ASSUME CloseInFlight = FALSE, EarlyRequests = FALSE, FlashSize <= WordMax
    PROVE  Spec => ImplementsStore
<1>1. StoreInv /\ [Next]_vars => [Store!Next]_(Store!vars)
  BY EveryStepIsStoreStep
<1> QED
  BY <1>1, InitIsStoreInit, InitStore, NextStoreInv, PTL DEF Spec, ImplementsStore
================================================================================
