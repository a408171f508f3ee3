-------------------------- MODULE MemoryDriverProofs --------------------------
(***************************************************************************)
(* Theorems about the MEMORY driver, for every geometry of the flash and   *)
(* every number of clients: types, where the request object is, that each  *)
(* report goes to the client whose request it answers, and that a request  *)
(* touches no cell but those it names.                                     *)
(***************************************************************************)
EXTENDS MemoryDriver, TLAPS

(***************************************************************************)
(* Arithmetic of the geometry.                                             *)
(***************************************************************************)

(* A product of naturals is a natural: block numbers become addresses.     *)
LEMMA Product == ASSUME NEW a \in Nat, NEW b \in Nat PROVE a * b \in Nat
  OBVIOUS

(* The sizes of the flash are positive.                                    *)
LEMMA Sizes ==
    /\ PageSize \in Nat \ {0} /\ PagesPerSector \in Nat \ {0} /\ NumSectors \in Nat \ {0}
    /\ SectorSize \in Nat \ {0} /\ FlashSize \in Nat \ {0} /\ NumPages \in Nat \ {0}
    /\ Cells \subseteq Nat
<1>1. /\ PageSize \in Nat \ {0} /\ PagesPerSector \in Nat \ {0}
      /\ NumSectors \in Nat \ {0}
  BY GeometryAssumption
<1>2. SectorSize \in Nat \ {0}
  BY <1>1, SMT DEF SectorSize
<1>3. FlashSize \in Nat \ {0}
  BY <1>1, <1>2, SMT DEF FlashSize
<1>4. NumPages \in Nat \ {0}
  BY <1>1, SMT DEF NumPages
<1>5. Cells \subseteq Nat
  BY <1>3 DEF Cells
<1> QED
  BY <1>1, <1>2, <1>3, <1>4, <1>5

(* The first block of a sector, and the place of a block in it.            *)
LEMMA Quotient ==
    ASSUME NEW a \in Int, NEW b \in Nat \ {0}
    PROVE  /\ a % b \in Nat /\ a % b < b
           /\ a >= 0 => a \div b \in Nat
  BY SMT

(* A handle has its slot; blocks have a size.                              *)
LEMMA BlockSizes == \A op \in Ops : BlockSize(op) \in Nat \ {0}
  BY Sizes DEF BlockSize, Ops

(***************************************************************************)
(* The device.                                                             *)
(***************************************************************************)

Where == Regions \X Nat

SubType == [ok : BOOLEAN, dev : DevType(Regions)]

(* A read the device has accepted stays within the flash.                  *)
ReadInFlash(d) == d.op = "read" /\ ~d.hijacked => d.addr + d.len <= FlashSize

(* What a read fills are cells of memory.                                  *)
LEMMA TargetType ==
    ASSUME NEW op \in DevOps, NEW ptr \in Where, NEW n \in Nat
    PROVE  Target(op, ptr, n) \subseteq Where
  BY DEF Target, Where

(* A submission keeps the type of the device's state.                      *)
LEMMA SubmitType ==
    ASSUME NEW d \in DevType(Regions), NEW op \in DevOps, NEW ptr \in Where,
           NEW n \in Nat, NEW a \in Nat, ReadInFlash(d),
           op = "read" => a + n <= FlashSize
    PROVE  /\ Submit(d, op, ptr, n, a) \in SubType
           /\ ReadInFlash(Submit(d, op, ptr, n, a).dev)
<1>1. /\ Target(d.op, d.ptr, d.len) \subseteq Where
      /\ Target(op, ptr, n) \subseteq Where
  BY TargetType DEF DevType, Where
<1>2. CASE d.active
  BY <1>1, <1>2 DEF Submit, SubType, DevType, DevStatus, ReadInFlash, Where
<1>3. CASE ~d.active
  <2> DEFINE e == [d EXCEPT !.op = op, !.ptr = ptr, !.len = n, !.addr = a,
                            !.status = "busy", !.active = TRUE,
                            !.armed = op \in {"write", "erase"}]
  <2>1. Submit(d, op, ptr, n, a) = [ok |-> TRUE, dev |-> e]
    BY <1>3 DEF Submit, DevType
  <2>2. e \in DevType(Regions)
    <3>1. (op \in {"write", "erase"}) \in BOOLEAN
      OBVIOUS
    <3> QED
      BY <3>1 DEF DevType, DevStatus, Where
  <2>3. ReadInFlash(e)
    BY DEF ReadInFlash, DevType
  <2> QED
    BY <2>1, <2>2, <2>3 DEF SubType
<1> QED
  BY <1>2, <1>3

(* What the device's operations return to the MEMORY driver.               *)
DevOK(d) == d \in DevType(Regions) /\ ReadInFlash(d)
SubOK(r) == r \in SubType /\ ReadInFlash(r.dev)

(* DRV_AT25DF_Read, PageWrite and SectorErase keep the device's state well *)
(* formed, whether they accept or refuse.                                  *)
LEMMA ReadOK ==
    ASSUME NEW d, DevOK(d), NEW ptr \in Where, NEW n \in Nat, NEW a \in Nat
    PROVE  SubOK(Read(d, ptr, n, a))
<1>1. CASE d.status = "busy" \/ a + n > FlashSize
  BY <1>1 DEF Read, Refused, SubOK, DevOK, SubType
<1>2. CASE ~(d.status = "busy" \/ a + n > FlashSize)
  <2>1. a + n <= FlashSize
    BY <1>2, Sizes
  <2>2. /\ Submit(d, "read", ptr, n, a) \in SubType
        /\ ReadInFlash(Submit(d, "read", ptr, n, a).dev)
    BY <2>1, SubmitType DEF DevOps, DevOK
  <2> QED
    BY <1>2, <2>2 DEF Read, SubOK
<1> QED
  BY <1>1, <1>2

(* The same of a page write.                                               *)
LEMMA PageWriteOK ==
    ASSUME NEW d, DevOK(d), NEW ptr \in Where, NEW a \in Nat
    PROVE  SubOK(PageWrite(d, ptr, a))
<1>1. CASE d.status = "busy" \/ a + PageSize > FlashSize
  BY <1>1 DEF PageWrite, Refused, SubOK, DevOK, SubType
<1>2. CASE ~(d.status = "busy" \/ a + PageSize > FlashSize)
  <2>1. /\ Submit(d, "write", ptr, PageSize, a) \in SubType
        /\ ReadInFlash(Submit(d, "write", ptr, PageSize, a).dev)
    BY Sizes, SubmitType DEF DevOps, DevOK
  <2> QED
    BY <1>2, <2>1 DEF PageWrite, SubOK
<1> QED
  BY <1>1, <1>2

(* The same of a sector erase, which is never turned down by the driver.   *)
LEMMA EraseOK ==
    ASSUME NEW d, DevOK(d), NEW a \in Nat
    PROVE  SubOK(SectorErase(d, a))
<1>1. d.ptr \in Where
  BY DEF DevOK, DevType, Where
<1>2. /\ Submit(d, "erase", d.ptr, 0, a) \in SubType
      /\ ReadInFlash(Submit(d, "erase", d.ptr, 0, a).dev)
  BY <1>1, SubmitType DEF DevOps, DevOK
<1> QED
  BY <1>2 DEF SectorErase, SubOK

(* Opening the device leaves its state well formed.                        *)
LEMMA IdentifyOK ==
    ASSUME NEW d, DevOK(d)
    PROVE  DevOK(OpenAndIdentify(d))
<1>1. d.ptr \in Where
  BY DEF DevOK, DevType, Where
<1>2. /\ Submit(d, "jedec", d.ptr, 0, 0) \in SubType
      /\ ReadInFlash(Submit(d, "jedec", d.ptr, 0, 0).dev)
  BY <1>1, SubmitType DEF DevOps, DevOK
<1> QED
  BY <1>2 DEF OpenAndIdentify, DevOK, SubType

(* The end of a chain leaves contents in the flash and in the memory.      *)
FlashType == [Cells -> Content]

(* Erased and unknown cells are contents.                                  *)
LEMMA ContentFacts == Erased \in Content /\ Junk \in Content
  BY DEF Content

(* Programming a cell leaves a content.                                    *)
LEMMA ProgrammedType ==
    ASSUME NEW old \in Content, NEW new \in Content
    PROVE  Programmed(old, new) \in Content
  BY ContentFacts DEF Programmed

(* A place of the memory, inside a region or not, reads as a content.      *)
LEMMA MemoryAtType ==
    ASSUME NEW m \in RamType, NEW ptr \in Where, NEW k \in Int
    PROVE  MemoryAt(m, ptr, k) \in Content
<1>1. m[ptr[1]] \in [Cells -> Content]
  BY DEF RamType, Where
<1> QED
  BY <1>1, ContentFacts DEF MemoryAt

(* A programmed page leaves contents in the flash.                         *)
LEMMA WithPageType ==
    ASSUME NEW f \in FlashType, NEW m \in RamType, NEW ptr \in Where, NEW a \in Nat
    PROVE  WithPage(f, m, ptr, a) \in FlashType
<1>1. ASSUME NEW c \in Cells
      PROVE  Programmed(f[c], MemoryAt(m, ptr, c - a)) \in Content
  <2>1. c - a \in Int
    BY Sizes
  <2> QED
    BY <2>1, MemoryAtType, ProgrammedType DEF FlashType
<1> QED
  BY <1>1 DEF WithPage, FlashType

(* An erased sector leaves contents in the flash.                          *)
LEMMA WithSectorErasedType ==
    ASSUME NEW f \in FlashType, NEW a
    PROVE  WithSectorErased(f, a) \in FlashType
  BY ContentFacts DEF WithSectorErased, FlashType

(* A read leaves contents in the memory.                                   *)
LEMMA WithReadType ==
    ASSUME NEW f \in FlashType, NEW m \in RamType, NEW ptr \in Where, NEW n \in Nat,
           NEW a \in Nat, a + n <= FlashSize
    PROVE  WithRead(m, f, ptr, n, a) \in RamType
<1> DEFINE g == [o \in DOMAIN m[ptr[1]] |-> IF o \in ptr[2] .. ptr[2] + n - 1
                     THEN f[a + o - ptr[2]] ELSE m[ptr[1]][o]]
<1>1. ptr[1] \in Regions /\ ptr[2] \in Nat /\ m[ptr[1]] \in [Cells -> Content]
  BY DEF RamType, Where
<1>2. ASSUME NEW o \in Cells, o \in ptr[2] .. ptr[2] + n - 1
      PROVE  f[a + o - ptr[2]] \in Content
  <2>1. /\ o \in Nat /\ ptr[2] \in Nat /\ FlashSize \in Nat
        /\ ptr[2] <= o /\ o <= ptr[2] + n - 1
    BY <1>1, <1>2, Sizes
  <2>2. a + o - ptr[2] \in 0 .. FlashSize - 1
    BY <2>1
  <2>3. a + o - ptr[2] \in Cells
    BY <2>2 DEF Cells
  <2> QED
    BY <2>3 DEF FlashType
<1>3. g \in [Cells -> Content]
  BY <1>1, <1>2
<1>4. WithRead(m, f, ptr, n, a) = [m EXCEPT ![ptr[1]] = g]
  BY DEF WithRead
<1> QED
  BY <1>1, <1>3, <1>4 DEF RamType

(* A stray read leaves contents in the memory.                             *)
LEMMA WithSpoiledType ==
    ASSUME NEW m \in RamType, NEW cells
    PROVE  WithSpoiled(m, cells) \in RamType
  BY ContentFacts DEF WithSpoiled, RamType

(* A hijacked chain leaves contents in the flash.                          *)
LEMMA HijackedFlashType ==
    ASSUME NEW d, NEW f \in FlashType, NEW g \in HijackedFlash(d, f)
    PROVE  g \in FlashType
<1>1. ASSUME NEW p PROVE [c \in Cells |-> IF c \div PageSize = p THEN Junk ELSE f[c]]
                              \in FlashType
  BY ContentFacts DEF FlashType
<1> QED
  BY <1>1, WithSectorErasedType DEF HijackedFlash

(* A device between two transfers is well formed.                          *)
LEMMA QuietOK ==
    ASSUME NEW st \in DevStatus, NEW ptr \in Where
    PROVE  DevOK(Quiet(st, ptr))
  BY DEF Quiet, DevOK, DevType, DevOps, ReadInFlash, Where

(* Whatever way a chain ends, the device, the flash and the memory keep their types. *)
LEMMA FinishType ==
    ASSUME NEW d, DevOK(d), NEW f \in FlashType, NEW m \in RamType,
           NEW o \in Finish(d, f, m)
    PROVE  DevOK(o.dev) /\ o.flash \in FlashType /\ o.ram \in RamType
<1>1. d.ptr \in Where /\ d.addr \in Nat /\ d.len \in Nat
  BY DEF DevOK, DevType, Where
<1>2. DevOK(Quiet("completed", d.ptr)) /\ DevOK(Quiet("error", d.ptr))
  BY <1>1, QuietOK DEF DevStatus
<1>3. CASE d.hijacked
  <2>1. PICK g \in HijackedFlash(d, f) :
            o = [dev |-> Quiet("completed", d.ptr), flash |-> g,
                 ram |-> WithSpoiled(m, d.spoiled)]
    BY <1>3 DEF Finish
  <2> QED
    BY <1>2, <2>1, HijackedFlashType, WithSpoiledType
<1>4. CASE ~d.hijacked /\ d.op = "read"
  <2>1. o = [dev |-> Quiet("completed", d.ptr), flash |-> f,
             ram |-> WithRead(m, f, d.ptr, d.len, d.addr)]
    BY <1>4 DEF Finish
  <2>2. d.addr + d.len <= FlashSize
    BY <1>4 DEF DevOK, ReadInFlash
  <2> QED
    BY <1>1, <1>2, <2>1, <2>2, WithReadType
<1>5. CASE ~d.hijacked /\ d.op = "write"
  <2>1. o = [dev |-> Quiet("completed", d.ptr), flash |-> WithPage(f, m, d.ptr, d.addr),
             ram |-> m]
    BY <1>5 DEF Finish
  <2> QED
    BY <1>1, <1>2, <2>1, WithPageType
<1>6. CASE ~d.hijacked /\ d.op = "erase"
  <2>1. o = [dev |-> Quiet("completed", d.ptr),
             flash |-> WithSectorErased(f, d.addr), ram |-> m]
    BY <1>6 DEF Finish
  <2> QED
    BY <1>2, <2>1, WithSectorErasedType
<1>7. CASE ~d.hijacked /\ d.op \notin {"read", "write", "erase"}
  <2>1. \/ o = [dev |-> Quiet("completed", d.ptr), flash |-> f, ram |-> m]
        \/ o = [dev |-> Quiet("error", d.ptr), flash |-> f, ram |-> m]
    BY <1>7 DEF Finish
  <2> QED
    BY <1>2, <2>1
<1> QED
  BY <1>3, <1>4, <1>5, <1>6, <1>7

(***************************************************************************)
(* The sub state machines.                                                 *)
(***************************************************************************)

Machine == [x : XferType, dev : DevType(Regions), st : DevStatus, buf : BufType, ram : RamType]
MachineOK(m) == m \in Machine /\ ReadInFlash(m.dev)

(* uint32_t arithmetic stays in the naturals.                              *)
LEMMA MinusType == ASSUME NEW a \in Nat, NEW b \in Nat
                   PROVE  Minus(a, b) \in Nat
<1>1. a - b \in Int /\ WordMax + 1 \in Nat \ {0}
  BY ConfigAssumption
<1> QED
  BY <1>1, Quotient DEF Minus

(* A pointer moved forward is a pointer.                                   *)
LEMMA AheadType == ASSUME NEW ptr \in Where, NEW k \in Nat
                   PROVE  Ahead(ptr, k) \in Where
  BY DEF Ahead, Where

(* HandleRead keeps the machine well formed and changes neither the        *)
(* request nor the memory.                                                 *)
LEMMA HandleReadOK ==
    ASSUME NEW m, MachineOK(m), NEW ptr \in Where, NEW start \in Nat, NEW n \in Nat
    PROVE  /\ MachineOK(HandleRead(m, ptr, start, n))
           /\ HandleRead(m, ptr, start, n).buf = m.buf
           /\ HandleRead(m, ptr, start, n).ram = m.ram
<1> DEFINE address == IF m.x.read = "init" THEN start * BlockSize("read") ELSE 0
           sub == IF m.x.read = "status" THEN [ok |-> TRUE, dev |-> m.dev]
                  ELSE Read(m.dev, ptr, n, address)
           good == [m EXCEPT !.x.read = "status", !.dev = sub.dev, !.st = sub.dev.status]
           bad == [m EXCEPT !.x.read = "mem", !.dev = sub.dev, !.st = "error"]
<1>1. address \in Nat
  BY BlockSizes, Product DEF Ops
<1>2. DevOK(m.dev)
  BY DEF MachineOK, Machine, DevOK
<1>3. SubOK(sub)
  <2>1. SubOK([ok |-> TRUE, dev |-> m.dev])
    BY <1>2 DEF SubOK, SubType, DevOK
  <2>2. SubOK(Read(m.dev, ptr, n, address))
    BY <1>1, <1>2, ReadOK
  <2> QED
    BY <2>1, <2>2
<1>4. HandleRead(m, ptr, start, n) = IF sub.ok THEN good ELSE bad
  BY DEF HandleRead, Failed, MachineOK, Machine
<1> HIDE DEF sub, address
<1>5. /\ sub.dev \in DevType(Regions) /\ ReadInFlash(sub.dev)
      /\ sub.dev.status \in DevStatus
  BY <1>3 DEF SubOK, SubType, DevType
<1>6. MachineOK(good) /\ good.buf = m.buf /\ good.ram = m.ram
  BY <1>5 DEF MachineOK, Machine, XferType
<1>7. MachineOK(bad) /\ bad.buf = m.buf /\ bad.ram = m.ram
  BY <1>5 DEF MachineOK, Machine, XferType, DevStatus
<1> QED
  BY <1>4, <1>6, <1>7

(* HandleWrite and HandleErase likewise.                                   *)
LEMMA HandleWriteOK ==
    ASSUME NEW m, MachineOK(m), NEW ptr \in Where, NEW start \in Nat, NEW n \in Nat
    PROVE  /\ MachineOK(HandleWrite(m, ptr, start, n))
           /\ HandleWrite(m, ptr, start, n).buf = m.buf
           /\ HandleWrite(m, ptr, start, n).ram = m.ram
<1> DEFINE a == IF m.x.write # "init" THEN m
                ELSE [m EXCEPT !.x.blockAddress = start * BlockSize("write"),
                               !.x.nBlocks = n, !.x.writePtr = ptr, !.x.write = "mem"]
           sub == IF a.x.write = "status" THEN [ok |-> TRUE, dev |-> a.dev]
                  ELSE PageWrite(a.dev, a.x.writePtr, a.x.blockAddress)
           b == [a EXCEPT !.x.write = "status", !.dev = sub.dev, !.st = sub.dev.status]
           c == OneBlockLess(b)
           more == [c EXCEPT !.x.blockAddress = @ + BlockSize("write"),
                             !.x.writePtr = Ahead(@, BlockSize("write")),
                             !.x.write = "mem", !.st = "busy"]
           bad == Failed(a, sub.dev)
<1>1. BlockSize("write") \in Nat /\ start * BlockSize("write") \in Nat
  BY BlockSizes, Product DEF Ops
<1>2. MachineOK(a) /\ a.buf = m.buf /\ a.ram = m.ram
  BY <1>1 DEF MachineOK, Machine, XferType, Where
<1>3. HandleWrite(m, ptr, start, n) =
            IF ~sub.ok THEN bad ELSE IF b.st = "completed" THEN NextPage(b) ELSE b
  BY DEF HandleWrite
<1> HIDE DEF a
<1>4. DevOK(a.dev) /\ a.x.blockAddress \in Nat /\ a.x.writePtr \in Where
  BY <1>2 DEF MachineOK, Machine, DevOK, XferType, Where
<1>5. SubOK(sub)
  <2>1. SubOK([ok |-> TRUE, dev |-> a.dev])
    BY <1>4 DEF SubOK, SubType, DevOK
  <2>2. SubOK(PageWrite(a.dev, a.x.writePtr, a.x.blockAddress))
    BY <1>4, PageWriteOK
  <2> QED
    BY <2>1, <2>2
<1> HIDE DEF sub
<1>6. /\ sub.dev \in DevType(Regions) /\ ReadInFlash(sub.dev)
      /\ sub.dev.status \in DevStatus
  BY <1>5 DEF SubOK, SubType, DevType
<1>7. MachineOK(b) /\ b.buf = m.buf /\ b.ram = m.ram
  BY <1>2, <1>6 DEF MachineOK, Machine, XferType
<1>8. MachineOK(bad) /\ bad.buf = m.buf /\ bad.ram = m.ram
  BY <1>2, <1>6 DEF Failed, MachineOK, Machine, DevStatus
<1> HIDE DEF b
<1>9. MachineOK(c) /\ c.buf = m.buf /\ c.ram = m.ram
  <2>1. Minus(b.x.nBlocks, 1) \in Nat
    BY <1>7, MinusType, ConfigAssumption DEF MachineOK, Machine, XferType
  <2> QED
    BY <1>7, <2>1 DEF OneBlockLess, MachineOK, Machine, XferType
<1>11. NextPage(b) = IF c.x.nBlocks = 0 THEN c ELSE more
  BY DEF NextPage
<1> HIDE DEF c
<1>10. MachineOK(more) /\ more.buf = m.buf /\ more.ram = m.ram
  <2>1. c.x.blockAddress + BlockSize("write") \in Nat
    BY <1>1, <1>9 DEF MachineOK, Machine, XferType
  <2>2. Ahead(c.x.writePtr, BlockSize("write")) \in Where
    BY <1>1, <1>9, AheadType DEF MachineOK, Machine, XferType, Where
  <2> QED
    BY <1>9, <2>1, <2>2 DEF MachineOK, Machine, XferType, DevStatus, Where
<1> QED
  BY <1>3, <1>7, <1>8, <1>9, <1>10, <1>11

(* HandleErase keeps the machine well formed.                              *)
LEMMA HandleEraseOK ==
    ASSUME NEW m, MachineOK(m), NEW start \in Nat, NEW n \in Nat
    PROVE  /\ MachineOK(HandleErase(m, start, n))
           /\ HandleErase(m, start, n).buf = m.buf
           /\ HandleErase(m, start, n).ram = m.ram
<1> DEFINE a == IF m.x.erase # "init" THEN m
                ELSE [m EXCEPT !.x.blockAddress = start * BlockSize("erase"),
                               !.x.nBlocks = n, !.x.erase = "cmd"]
           sub == IF a.x.erase = "status" THEN [ok |-> TRUE, dev |-> a.dev]
                  ELSE SectorErase(a.dev, a.x.blockAddress)
           b == [a EXCEPT !.x.erase = "status", !.dev = sub.dev, !.st = sub.dev.status]
           c == OneBlockLess(b)
           more == [c EXCEPT !.x.blockAddress = @ + BlockSize("erase"),
                             !.x.erase = "cmd", !.st = "busy"]
           bad == Failed(a, sub.dev)
<1>1. BlockSize("erase") \in Nat /\ start * BlockSize("erase") \in Nat
  BY BlockSizes, Product DEF Ops
<1>2. MachineOK(a) /\ a.buf = m.buf /\ a.ram = m.ram
  BY <1>1 DEF MachineOK, Machine, XferType, Where
<1>3. HandleErase(m, start, n) =
            IF ~sub.ok THEN bad ELSE IF b.st = "completed" THEN NextSector(b) ELSE b
  BY DEF HandleErase
<1> HIDE DEF a
<1>4. DevOK(a.dev) /\ a.x.blockAddress \in Nat /\ a.x.writePtr \in Where
  BY <1>2 DEF MachineOK, Machine, DevOK, XferType, Where
<1>5. SubOK(sub)
  <2>1. SubOK([ok |-> TRUE, dev |-> a.dev])
    BY <1>4 DEF SubOK, SubType, DevOK
  <2>2. SubOK(SectorErase(a.dev, a.x.blockAddress))
    BY <1>4, EraseOK
  <2> QED
    BY <2>1, <2>2
<1> HIDE DEF sub
<1>6. /\ sub.dev \in DevType(Regions) /\ ReadInFlash(sub.dev)
      /\ sub.dev.status \in DevStatus
  BY <1>5 DEF SubOK, SubType, DevType
<1>7. MachineOK(b) /\ b.buf = m.buf /\ b.ram = m.ram
  BY <1>2, <1>6 DEF MachineOK, Machine, XferType
<1>8. MachineOK(bad) /\ bad.buf = m.buf /\ bad.ram = m.ram
  BY <1>2, <1>6 DEF Failed, MachineOK, Machine, DevStatus
<1> HIDE DEF b
<1>9. MachineOK(c) /\ c.buf = m.buf /\ c.ram = m.ram
  <2>1. Minus(b.x.nBlocks, 1) \in Nat
    BY <1>7, MinusType, ConfigAssumption DEF MachineOK, Machine, XferType
  <2> QED
    BY <1>7, <2>1 DEF OneBlockLess, MachineOK, Machine, XferType
<1>11. NextSector(b) = IF c.x.nBlocks = 0 THEN c ELSE more
  BY DEF NextSector
<1> HIDE DEF c
<1>10. MachineOK(more) /\ more.buf = m.buf /\ more.ram = m.ram
  <2>1. c.x.blockAddress + BlockSize("erase") \in Nat
    BY <1>1, <1>9 DEF MachineOK, Machine, XferType
  <2> QED
    BY <1>9, <2>1 DEF MachineOK, Machine, XferType, DevStatus, Where
<1> QED
  BY <1>3, <1>7, <1>8, <1>9, <1>10, <1>11

(* The fields of the request object that say whose request it is.          *)
SameRequest(b1, b2) ==
    /\ b1.client = b2.client /\ b1.cmd = b2.cmd /\ b1.op = b2.op
    /\ b1.status = b2.status /\ b1.next = b2.next

StepOK(m, k) == MachineOK(k) /\ SameRequest(k.buf, m.buf)

(* The overlay of the client's pages leaves contents in the memory.        *)
LEMMA OverlaidType ==
    ASSUME NEW m, MachineOK(m)
    PROVE  Overlaid(m) \in RamType
<1>1. m.ram \in RamType /\ m.buf.buffer \in Where /\ m.x.offset \in Nat
  BY DEF MachineOK, Machine, BufType, XferType, Where
<1>2. ASSUME NEW o \in Cells
      PROVE  MemoryAt(m.ram, m.buf.buffer, o - m.x.offset) \in Content
  <2>1. o - m.x.offset \in Int
    BY <1>1, Sizes
  <2> QED
    BY <1>1, <2>1, MemoryAtType
<1>3. Ew \in Regions /\ m.ram[Ew] \in [Cells -> Content]
  BY <1>1 DEF RamType, Regions
<1> DEFINE covered(o) == o \in m.x.offset .. m.x.offset + m.x.toWrite * PageSize - 1
           g == [o \in DOMAIN m.ram[Ew] |->
                   IF covered(o) THEN MemoryAt(m.ram, m.buf.buffer, o - m.x.offset)
                   ELSE m.ram[Ew][o]]
<1>4. Overlaid(m) = [m.ram EXCEPT ![Ew] = g]
  BY DEF Overlaid
<1> HIDE DEF covered
<1>5. g \in [Cells -> Content]
  BY <1>2, <1>3
<1> HIDE DEF g
<1> QED
  BY <1>1, <1>4, <1>5 DEF RamType

(* EW_ERASE_SECTOR *)
LEMMA EwEraseSectorOK ==
    ASSUME NEW m, MachineOK(m)
    PROVE  StepOK(m, EwEraseSector(m))
<1> DEFINE e == HandleErase(m, m.x.sector, 1)
           w == [e EXCEPT !.x.ew = "write", !.st = "busy"]
<1>1. MachineOK(e) /\ e.buf = m.buf
  <2>1. m.x.sector \in Nat /\ 1 \in Nat
    BY DEF MachineOK, Machine, XferType
  <2> QED
    BY <2>1, HandleEraseOK
<1>2. EwEraseSector(m) = IF e.st = "completed" THEN w ELSE e
  BY DEF EwEraseSector
<1> HIDE DEF e
<1>3. MachineOK(w) /\ w.buf = e.buf
  BY <1>1 DEF MachineOK, Machine, XferType, DevStatus
<1> QED
  BY <1>1, <1>2, <1>3 DEF StepOK, SameRequest

(* EW_READ_SECTOR *)
LEMMA EwReadSectorOK ==
    ASSUME NEW m, MachineOK(m)
    PROVE  StepOK(m, EwReadSector(m))
<1> DEFINE r == HandleRead(m, <<Ew, 0>>, m.x.sector * SectorSize, SectorSize)
           o == [r EXCEPT !.x.offset = @ * PageSize, !.x.ew = "erase"]
           w == [o EXCEPT !.ram = Overlaid(o)]
<1>1. MachineOK(r) /\ r.buf = m.buf
  <2>1. <<Ew, 0>> \in Where /\ m.x.sector * SectorSize \in Nat /\ SectorSize \in Nat
    BY Sizes, Product DEF Where, Regions, MachineOK, Machine, XferType
  <2> QED
    BY <2>1, HandleReadOK
<1>2. EwReadSector(m) = IF r.st = "completed" THEN EwEraseSector(w) ELSE r
  BY DEF EwReadSector
<1> HIDE DEF r
<1>3. MachineOK(o) /\ o.buf = m.buf
  <2>1. r.x.offset * PageSize \in Nat
    BY <1>1, Sizes, Product DEF MachineOK, Machine, XferType
  <2> QED
    BY <1>1, <2>1 DEF MachineOK, Machine, XferType
<1> HIDE DEF o
<1>4. MachineOK(w) /\ w.buf = m.buf
  <2>1. Overlaid(o) \in RamType
    BY <1>3, OverlaidType
  <2> QED
    BY <1>3, <2>1 DEF MachineOK, Machine
<1> HIDE DEF w
<1>5. StepOK(w, EwEraseSector(w))
  BY <1>4, EwEraseSectorOK
<1> QED
  BY <1>1, <1>2, <1>4, <1>5 DEF StepOK, SameRequest

(* EW_INIT *)
LEMMA EwInitOK ==
    ASSUME NEW m, MachineOK(m)
    PROVE  StepOK(m, EwInit(m))
<1> DEFINE offset  == m.buf.blockStart % PagesPerSector
           sector  == m.buf.blockStart \div PagesPerSector
           toWrite == Smaller(m.buf.nBlocks, PagesPerSector - offset)
           a == [m EXCEPT !.x = [@ EXCEPT
                   !.read = "init", !.erase = "init", !.write = "init",
                   !.sector = sector, !.offset = offset, !.toWrite = toWrite]]
           p == [a EXCEPT !.x.writePtr = <<Ew, 0>>, !.x.ew = "read"]
           f == [a EXCEPT !.x.writePtr = m.buf.buffer, !.x.ew = "erase", !.st = "busy"]
<1>1. EwInit(m) = IF toWrite # PagesPerSector THEN EwReadSector(p) ELSE f
  BY DEF EwInit
<1>2. m.buf.blockStart \in Nat /\ m.buf.nBlocks \in Nat /\ m.buf.buffer \in Where
  BY DEF MachineOK, Machine, BufType, Where
<1>3. offset \in Nat /\ sector \in Nat /\ PagesPerSector - offset \in Nat
  BY <1>2, Sizes, Quotient
<1> HIDE DEF offset, sector
<1>4. toWrite \in Nat
  BY <1>2, <1>3 DEF Smaller
<1> HIDE DEF toWrite
<1>5. MachineOK(a) /\ a.buf = m.buf
  BY <1>3, <1>4 DEF MachineOK, Machine, XferType
<1> HIDE DEF a
<1>6. MachineOK(p) /\ p.buf = m.buf
  BY <1>5 DEF MachineOK, Machine, XferType, Where, Regions
<1>7. MachineOK(f) /\ f.buf = m.buf
  BY <1>2, <1>5 DEF MachineOK, Machine, XferType, DevStatus, Where
<1> HIDE DEF p, f
<1>8. StepOK(p, EwReadSector(p))
  BY <1>6, EwReadSectorOK
<1> QED
  BY <1>1, <1>6, <1>7, <1>8 DEF StepOK, SameRequest

(* EW_WRITE_SECTOR *)
LEMMA EwWriteSectorOK ==
    ASSUME NEW m, MachineOK(m)
    PROVE  StepOK(m, EwWriteSector(m))
<1> DEFINE w == HandleWrite(m, m.x.writePtr, m.x.sector * PagesPerSector, PagesPerSector)
           n == Minus(w.buf.nBlocks, w.x.toWrite)
           start == w.buf.blockStart + w.x.toWrite
           ptr == Ahead(w.buf.buffer, w.x.toWrite * PageSize)
           k == [w EXCEPT !.buf.nBlocks = n, !.buf.blockStart = start,
                          !.buf.buffer = ptr, !.x.ew = "init", !.st = "busy"]
<1>1. MachineOK(w) /\ w.buf = m.buf
  <2>1. m.x.writePtr \in Where /\ m.x.sector \in Nat /\ PagesPerSector \in Nat
    BY Sizes DEF Where, MachineOK, Machine, XferType
  <2>2. m.x.sector * PagesPerSector \in Nat
    BY <2>1, Product
  <2> QED
    BY <2>1, <2>2, HandleWriteOK
<1>2. EwWriteSector(m) = IF w.st # "completed" \/ w.buf.nBlocks = w.x.toWrite
                         THEN w ELSE k
  BY DEF EwWriteSector
<1> HIDE DEF w
<1>3. /\ w.buf.nBlocks \in Nat /\ w.buf.blockStart \in Nat /\ w.buf.buffer \in Where
      /\ w.x.toWrite \in Nat
  BY <1>1 DEF MachineOK, Machine, BufType, XferType, Where
<1>4. n \in Nat /\ start \in Nat /\ ptr \in Where
  <2>1. w.x.toWrite * PageSize \in Nat
    BY <1>3, Sizes, Product
  <2>2. n \in Nat
    BY <1>3, MinusType
  <2>3. start \in Nat
    BY <1>3
  <2>4. ptr \in Where
    BY <1>3, <2>1, AheadType
  <2> QED
    BY <2>2, <2>3, <2>4
<1> HIDE DEF n, start, ptr
<1>5. StepOK(m, k)
  <2>1. k.buf \in BufType /\ SameRequest(k.buf, m.buf)
    BY <1>1, <1>4 DEF MachineOK, Machine, BufType, Where, SameRequest
  <2>2. k.x \in XferType /\ k.st \in DevStatus /\ k.dev = w.dev /\ k.ram = w.ram
    BY <1>1 DEF MachineOK, Machine, XferType, DevStatus
  <2>3. k \in Machine
    BY <1>1, <2>1, <2>2 DEF MachineOK, Machine
  <2> QED
    BY <1>1, <2>1, <2>2, <2>3 DEF StepOK, MachineOK
<1> QED
  BY <1>1, <1>2, <1>5 DEF StepOK, SameRequest

(* gMemoryXferFuncPtr: whatever the request, one call of its function      *)
(* keeps everything well formed and does not change whose request it is.   *)
LEMMA TransferOK ==
    ASSUME NEW m, MachineOK(m)
    PROVE  StepOK(m, Transfer(m))
<1>1. m.buf.buffer \in Where /\ m.buf.blockStart \in Nat /\ m.buf.nBlocks \in Nat
  BY DEF MachineOK, Machine, BufType, Where
<1>2. StepOK(m, HandleRead(m, m.buf.buffer, m.buf.blockStart, m.buf.nBlocks))
  BY <1>1, HandleReadOK DEF StepOK, SameRequest
<1>3. StepOK(m, HandleWrite(m, m.buf.buffer, m.buf.blockStart, m.buf.nBlocks))
  BY <1>1, HandleWriteOK DEF StepOK, SameRequest
<1>4. StepOK(m, HandleErase(m, m.buf.blockStart, m.buf.nBlocks))
  BY <1>1, HandleEraseOK DEF StepOK, SameRequest
<1>5. StepOK(m, HandleEraseWrite(m))
  BY EwReadSectorOK, EwEraseSectorOK, EwWriteSectorOK, EwInitOK DEF HandleEraseWrite
<1> QED
  BY <1>2, <1>3, <1>4, <1>5 DEF Transfer

(***************************************************************************)
(* Types, with no assumption on the clients.                               *)
(***************************************************************************)

TypeInv == TypeOK /\ ReadInFlash(dev)

(* Tokens start at 1 and NextToken stays among them.                       *)
LEMMA TokenFacts ==
    /\ 1 \in Tokens
    /\ \A t \in Tokens : NextToken(t) \in Tokens
  BY ConfigAssumption DEF Tokens, NextToken

(* The first slot exists; slots and the erase-write buffer are regions.    *)
LEMMA SlotFacts == 0 \in Slots /\ Slots \subseteq Regions /\ Ew \in Regions
  BY ConfigAssumption DEF Slots, Regions

(* The initial state has its types.                                        *)
LEMMA InitTypeInv == Init => TypeInv
<1> SUFFICES ASSUME Init PROVE TypeInv
  OBVIOUS
<1>1. dev \in DevType(Regions) /\ ReadInFlash(dev)
  BY QuietOK, SlotFacts DEF Init, DevStatus, Where, DevOK
<1>2. flash \in FlashType
  BY Sizes DEF Init, FlashType, Content
<1>3. ram \in RamType
  BY ContentFacts DEF Init, RamType
<1>4. xfer \in XferType
  BY SlotFacts DEF Init, NoXfer, XferType
<1>5. buf \in BufType
  BY SlotFacts DEF Init, BufType, Pointers, Ops
<1>6. client \in [Slots -> [inUse : BOOLEAN, token : Tokens]]
  BY TokenFacts DEF Init
<1>7. /\ ready \in BOOLEAN /\ clientToken \in Tokens /\ bufferToken \in Tokens
      /\ free \in Pointers /\ head \in Pointers /\ tail \in Pointers /\ cur \in Pointers
      /\ state \in {"queue", "transfer"}
  BY TokenFacts DEF Init, Pointers
<1>9. issued \in 0 .. MaxRequests
  BY ConfigAssumption DEF Init
<1>8. pending \in Request \cup {NoRequest} /\ event \in Events \cup {NoEvent}
  BY DEF Init
<1> QED
  BY <1>1, <1>2, <1>3, <1>4, <1>5, <1>6, <1>7, <1>8, <1>9
     DEF TypeInv, TypeOK, FlashType

(* One call of the transfer function from Tasks, on a well-formed request. *)
LEMMA StepType ==
    ASSUME TypeInv, NEW x \in XferType, NEW b \in BufType, Step(x, b)
    PROVE  /\ xfer' \in XferType /\ dev' \in DevType(Regions) /\ ReadInFlash(dev')
           /\ ram' \in RamType /\ buf' \in BufType /\ state' \in {"queue", "transfer"}
           /\ free' \in Pointers /\ head' \in Pointers
           /\ pending' \in Request \cup {NoRequest} /\ event' \in Events \cup {NoEvent}
<1> DEFINE m0 == [x |-> x, dev |-> dev, st |-> "error", buf |-> b, ram |-> ram]
           m == Transfer(m0)
<1>1. MachineOK(m0)
  BY DEF MachineOK, Machine, TypeInv, TypeOK, DevStatus
<1>2. MachineOK(m)
  BY <1>1, TransferOK DEF StepOK
<1>3. /\ xfer' = m.x /\ dev' = m.dev /\ ram' = m.ram
      /\ IF m.st = "busy"
         THEN /\ state' = "transfer" /\ buf' = m.buf /\ event' = NoEvent
              /\ UNCHANGED <<head, free, pending>>
         ELSE /\ state' = "queue"
              /\ ReturnToFreeList(m.buf, m.st)
              /\ CallHandler(m.buf, IF m.st = "completed" THEN "complete" ELSE "error")
  BY DEF Step
<1> HIDE DEF m
<1>4. /\ m.x \in XferType /\ m.dev \in DevType(Regions) /\ ReadInFlash(m.dev)
      /\ m.ram \in RamType /\ m.buf \in BufType /\ m.st \in DevStatus
  BY <1>2 DEF MachineOK, Machine
<1>5. CASE m.st = "busy"
  BY <1>3, <1>4, <1>5 DEF TypeInv, TypeOK
<1>6. CASE m.st # "busy"
  <2>1. /\ head' = IF head = Null THEN Null ELSE m.buf.next
        /\ buf' = [m.buf EXCEPT !.status = m.st, !.next = free]
        /\ free' = Buf
    BY <1>3, <1>6 DEF ReturnToFreeList
  <2>4. free' \in Pointers /\ head' \in Pointers
    BY <1>4, <2>1 DEF Pointers, BufType
  <2>5. free \in Pointers /\ m.st \in {"completed", "error"}
    BY <1>4, <1>6 DEF TypeInv, TypeOK, DevStatus
  <2>2. buf' \in BufType
    BY <1>4, <2>1, <2>5 DEF BufType
  <2>3. pending' \in Request \cup {NoRequest} /\ event' \in Events \cup {NoEvent}
    <3>1. HandleOf(m.buf.client) \in Handle /\ m.buf.cmd \in Nat
      BY <1>4 DEF HandleOf, Handle, BufType, TypeInv, TypeOK
    <3>2. CallHandler(m.buf, "complete") \/ CallHandler(m.buf, "error")
      BY <1>3, <1>6
    <3> QED
      BY <3>1, <3>2 DEF CallHandler, Events, TypeInv, TypeOK
  <2> QED
    BY <1>3, <1>4, <1>6, <2>2, <2>3, <2>4
<1> QED
  BY <1>3, <1>4, <1>5, <1>6

(* What a client puts in its buffer.                                       *)
LEMMA SourceType ==
    ASSUME TypeOK, NEW s \in Slots, NEW op \in Ops, NEW w \in Nat
    PROVE  Source(s, op, w) \in [Cells -> Content]
<1>1. ram[s] \in [Cells -> Content]
  BY SlotFacts DEF TypeOK, RamType
<1>2. [c \in Cells |-> <<w, c>>] \in [Cells -> Content]
  BY Sizes DEF Content
<1> QED
  BY <1>1, <1>2 DEF Source

(* Every action keeps the types.                                           *)
LEMMA NextTypeInv == TypeInv /\ [Next]_vars => TypeInv'
<1> SUFFICES ASSUME TypeInv, [Next]_vars PROVE TypeInv'
  OBVIOUS
<1> USE DEF TypeInv
<1>1. ASSUME NEW s \in Slots, Open(s) PROVE TypeInv'
  <2>1. DevOK(dev')
    BY <1>1, IdentifyOK DEF Open, DevOK, TypeOK
  <2>2. client' \in [Slots -> [inUse : BOOLEAN, token : Tokens]] /\ clientToken' \in Tokens
    BY <1>1, TokenFacts DEF Open, TypeOK
  <2> QED
    BY <1>1, <2>1, <2>2 DEF Open, TypeOK, DevOK, queueVars
<1>2. ASSUME NEW s \in Slots, Close(s) PROVE TypeInv'
  <2>1. client' \in [Slots -> [inUse : BOOLEAN, token : Tokens]]
    BY <1>2 DEF Close, TypeOK
  <2>2. /\ head' \in Pointers /\ tail' \in Pointers /\ free' \in Pointers
        /\ buf' \in BufType
    BY <1>2 DEF Close, RemoveClientBufferObjects, TypeOK, Pointers, BufType
  <2> QED
    BY <1>2, <2>1, <2>2 DEF Close, TypeOK, ReadInFlash
<1>3. ASSUME NEW s \in Slots, NEW op \in Ops, NEW start \in Nat, NEW n \in Nat \ {0},
             Async(s, op, start, n)
      PROVE  TypeInv'
  <2>1. issued' \in 0 .. MaxRequests /\ issued + 1 \in Nat
    BY <1>3, ConfigAssumption DEF Async, TypeOK
  <2>2. Source(s, op, issued + 1) \in [Cells -> Content]
    BY <2>1, SourceType
  <2>3. ram' \in RamType
    BY <1>3, <2>2, SlotFacts DEF Async, TypeOK, RamType
  <2>4. pending' \in Request
    <3>1. HandleOf(s) \in Handle
      BY DEF HandleOf, Handle, TypeOK
    <3> QED
      BY <1>3, <2>2, <3>1 DEF Async, Request, TypeOK
  <2>5. /\ free' \in Pointers /\ head' \in Pointers /\ tail' \in Pointers /\ cur' \in Pointers
        /\ bufferToken' \in Tokens
    BY <1>3, TokenFacts DEF Async, AllocateBufferObject, TypeOK, Pointers, BufType
  <2>6. buf' \in BufType
    <3>1. bufferToken \in Nat
      BY DEF TypeOK, Tokens
    <3> QED
      BY <1>3, <3>1, SlotFacts DEF Async, AllocateBufferObject, BufType, Pointers
  <2> QED
    BY <1>3, <2>1, <2>3, <2>4, <2>5, <2>6 DEF Async, TypeOK, ReadInFlash
<1>4. CASE TasksIdle
  BY <1>4 DEF TasksIdle, TypeOK, Pointers, ReadInFlash
<1>5. CASE TasksStart
  <2> DEFINE x == [xfer EXCEPT !.read = "init", !.write = "init", !.erase = "init", !.ew = "init"]
             b == [buf EXCEPT !.status = "in_progress"]
  <2>1. x \in XferType /\ b \in BufType
    BY DEF TypeOK, XferType, BufType
  <2>2. Step(x, b) /\ cur' = Buf
    BY <1>5 DEF TasksStart
  <2> HIDE DEF x, b
  <2> QED
    BY <2>1, <2>2, StepType DEF Step, TypeOK, Pointers
<1>6. CASE TasksTransfer
  <2>1. xfer \in XferType /\ buf \in BufType
    BY DEF TypeOK
  <2>2. Step(xfer, buf) /\ cur' = cur
    BY <1>6 DEF TasksTransfer
  <2> QED
    BY <2>1, <2>2, StepType DEF Step, TypeOK
<1>7. CASE DeviceDone
  <2>1. PICK o \in Finish(dev, flash, ram) : dev' = o.dev /\ flash' = o.flash /\ ram' = o.ram
    BY <1>7 DEF DeviceDone
  <2>2. DevOK(dev') /\ flash' \in FlashType /\ ram' \in RamType
    BY <2>1, FinishType DEF DevOK, TypeOK, FlashType
  <2> QED
    BY <1>7, <2>2 DEF DeviceDone, TypeOK, DevOK, FlashType, queueVars
<1>8. CASE UNCHANGED vars
  BY <1>8 DEF vars, queueVars, TypeOK, ReadInFlash
<1>9. \A op \in Ops : NumBlocks(op) \in Nat
  BY Sizes DEF NumBlocks, Ops
<1> QED
  BY <1>1, <1>2, <1>3, <1>4, <1>5, <1>6, <1>7, <1>8, <1>9 DEF Next, Tasks

(* The state of the driver, the device and the clients always has its      *)
(* types, whatever the clients do.                                         *)
THEOREM TypeCorrect == Spec => []TypeOK
<1>1. TypeInv => TypeOK
  BY DEF TypeInv
<1> QED
  BY <1>1, InitTypeInv, NextTypeInv, PTL DEF Spec

(***************************************************************************)
(* Where the request object is, and who is told: for clients that do not   *)
(* close while they wait.                                                  *)
(*                                                                         *)
(* BufferAccounted is not inductive alone: that a close does not take the  *)
(* request of another client, and that the report finds the client that    *)
(* asked, needs the session of the waiting client to be open.              *)
(***************************************************************************)

SessionOpen ==
    pending # NoRequest =>
        /\ client[pending.by.slot].inUse
        /\ client[pending.by.slot].token = pending.by.token

Inv == TypeInv /\ BufferAccounted /\ SessionOpen /\ ReportsMatch

(* A request is told from the absence of one, an event likewise.           *)
LEMMA Somebody ==
    /\ \A r \in Request : r # NoRequest
    /\ \A e \in Events : e # NoEvent
<1>1. ASSUME NEW r \in Request PROVE r # NoRequest
  <2>1. r.op \in Ops /\ NoRequest.op = "none"
    BY DEF Request, NoRequest
  <2> QED
    BY <2>1 DEF Ops
<1>2. ASSUME NEW e \in Events PROVE e # NoEvent
  <2>1. e.kind \in {"complete", "error"} /\ NoEvent.kind = "none"
    BY DEF Events, NoEvent
  <2> QED
    BY <2>1
<1> QED
  BY <1>1, <1>2

(* The waiting client's handle is the one of its slot.                     *)
LEMMA WaitingHandle ==
    ASSUME Inv, pending # NoRequest
    PROVE  /\ pending.by = HandleOf(buf.client) /\ client[buf.client].inUse
           /\ Waits(buf.client)
<1>1. pending \in Request /\ buf.client = pending.by.slot
  BY DEF Inv, TypeInv, TypeOK, BufferAccounted
<1>2. pending.by \in Handle
  BY <1>1 DEF Request
<1>3. pending.by = [slot |-> pending.by.slot, token |-> pending.by.token]
  BY <1>2 DEF Handle
<1> QED
  BY <1>1, <1>3 DEF Inv, SessionOpen, HandleOf, Waits

(* Nothing is asked for or reported in the initial state.                  *)
LEMMA InitInv == Init => Inv
<1> SUFFICES ASSUME Init PROVE Inv
  OBVIOUS
<1>1. TypeInv
  BY InitTypeInv
<1>2. BufferAccounted
  BY ConfigAssumption DEF Init, BufferAccounted
<1> QED
  BY <1>1, <1>2 DEF Init, Inv, SessionOpen, ReportsMatch

(* What one call of the transfer function does to the request.             *)
LEMMA StepReport ==
    ASSUME Inv, NEW x \in XferType, Step(x, [buf EXCEPT !.status = "in_progress"]),
           pending # NoRequest, cur' = Buf
    PROVE  BufferAccounted' /\ SessionOpen' /\ ReportsMatch'
<1> DEFINE b == [buf EXCEPT !.status = "in_progress"]
           m0 == [x |-> x, dev |-> dev, st |-> "error", buf |-> b, ram |-> ram]
           m == Transfer(m0)
<1>1. b \in BufType
  BY DEF Inv, TypeInv, TypeOK, BufType
<1>2. MachineOK(m0)
  BY <1>1 DEF MachineOK, Machine, Inv, TypeInv, TypeOK, DevStatus
<1>3. MachineOK(m) /\ SameRequest(m.buf, b)
  BY <1>2, TransferOK DEF StepOK
<1>4. /\ IF m.st = "busy"
         THEN /\ state' = "transfer" /\ buf' = m.buf /\ event' = NoEvent
              /\ UNCHANGED <<head, free, pending>>
         ELSE /\ state' = "queue"
              /\ ReturnToFreeList(m.buf, m.st)
              /\ CallHandler(m.buf, IF m.st = "completed" THEN "complete" ELSE "error")
      /\ UNCHANGED client
  BY DEF Step
<1> HIDE DEF m
<1>5. /\ m.buf.client = buf.client /\ m.buf.cmd = buf.cmd /\ m.buf.op = buf.op
      /\ m.buf.next = Null /\ m.buf.status = "in_progress" /\ m.buf \in BufType
  BY <1>3 DEF SameRequest, Inv, TypeInv, TypeOK, BufType, BufferAccounted, MachineOK, Machine
<1>6. free = Null /\ head = Buf
  BY DEF Inv, TypeInv, TypeOK, BufferAccounted, Pointers
<1>7. CASE m.st = "busy"
  <2>1. BufferAccounted'
    BY <1>4, <1>5, <1>6, <1>7, ConfigAssumption DEF BufferAccounted, Inv
  <2>2. SessionOpen' /\ ReportsMatch'
    BY <1>4, <1>7 DEF SessionOpen, ReportsMatch, Inv
  <2> QED
    BY <2>1, <2>2
<1>8. CASE m.st # "busy"
  <2>1. /\ head' = Null /\ free' = Buf /\ buf' = [m.buf EXCEPT !.status = m.st, !.next = Null]
        /\ state' = "queue" /\ pending' = NoRequest
    BY <1>4, <1>5, <1>6, <1>8, ConfigAssumption DEF ReturnToFreeList, CallHandler
  <2>2. buf'.next = Null
    BY <1>5, <2>1 DEF BufType
  <2>3. BufferAccounted' /\ SessionOpen'
    BY <2>1, <2>2, ConfigAssumption DEF BufferAccounted, SessionOpen
  <2>4. event'.for = pending /\ event'.to = HandleOf(buf.client) /\ event'.cmd = buf.cmd
    <3>1. CallHandler(m.buf, "complete") \/ CallHandler(m.buf, "error")
      BY <1>4, <1>8
    <3> QED
      BY <1>5, <3>1 DEF CallHandler
  <2>5. ReportsMatch'
    <3>1. pending.by = HandleOf(buf.client) /\ client[buf.client].inUse
      BY WaitingHandle
    <3>2. HandleOf(buf.client).slot = buf.client /\ pending.cmd = buf.cmd
      BY DEF HandleOf, Inv, BufferAccounted
    <3> QED
      BY <1>4, <2>4, <3>1, <3>2 DEF ReportsMatch
  <2> QED
    BY <2>3, <2>5
<1> QED
  BY <1>7, <1>8

(* Every action of clients that wait keeps the invariant.                  *)
LEMMA NextInv ==
    ASSUME CloseInFlight = FALSE
    PROVE  Inv /\ [Next]_vars => Inv'
<1> SUFFICES ASSUME Inv, [Next]_vars PROVE Inv'
  OBVIOUS
<1>1. TypeInv'
  BY NextTypeInv DEF Inv
<1>2. ASSUME NEW s \in Slots, Open(s) PROVE Inv'
  <2>1. BufferAccounted' /\ ReportsMatch'
    BY <1>2 DEF Open, queueVars, Inv, BufferAccounted, ReportsMatch
  <2>2. SessionOpen'
    <3>1. pending # NoRequest => pending.by.slot # s /\ pending.by.slot \in Slots
      BY <1>2 DEF Open, FirstFree, Inv, SessionOpen, TypeInv, TypeOK, Request, Handle
    <3> QED
      BY <1>2, <3>1 DEF Open, Inv, SessionOpen, TypeInv, TypeOK
  <2> QED
    BY <1>1, <2>1, <2>2 DEF Inv
<1>3. ASSUME NEW s \in Slots, Close(s) PROVE Inv'
  <2>1. ~Waits(s)
    BY <1>3 DEF Close
  <2>2. pending' = pending /\ event' = NoEvent /\ state' = state /\ cur' = cur
    BY <1>3, <2>1 DEF Close
  <2>3. ~(head = Buf /\ buf.client = s)
    BY <2>1, WaitingHandle, ConfigAssumption DEF Inv, BufferAccounted
  <2>4. head' = head /\ free' = free /\ buf' = buf
    BY <1>3, <2>3 DEF Close, RemoveClientBufferObjects
  <2>5. SessionOpen'
    <3>1. pending # NoRequest => pending.by.slot # s /\ pending.by.slot \in Slots
      BY <2>1, WaitingHandle DEF Inv, BufferAccounted, TypeInv, TypeOK, BufType
    <3> QED
      BY <1>3, <2>2, <3>1 DEF Close, Inv, SessionOpen, TypeInv, TypeOK
  <2> QED
    BY <1>1, <2>2, <2>4, <2>5 DEF Inv, BufferAccounted, ReportsMatch
<1>4. ASSUME NEW s \in Slots, NEW op \in Ops, NEW start \in Nat, NEW n \in Nat \ {0},
             Async(s, op, start, n)
      PROVE  Inv'
  <2>1. free = Buf /\ head = Null /\ state = "queue" /\ buf.next = Null
    BY <1>4, ConfigAssumption
       DEF Async, AllocateBufferObject, Inv, BufferAccounted, TypeInv, TypeOK
  <2>2. /\ free' = Null /\ head' = Buf /\ state' = "queue"
        /\ buf'.next = Null /\ buf'.client = s /\ buf'.cmd = bufferToken /\ buf'.op = op
        /\ buf'.status = "queued"
    BY <1>4, <2>1 DEF Async, AllocateBufferObject
  <2>3. /\ pending'.by = HandleOf(s) /\ pending'.cmd = bufferToken /\ pending'.op = op
        /\ client' = client /\ event' = NoEvent
    BY <1>4 DEF Async
  <2>4. pending' # NoRequest
    BY <2>3 DEF Ops, NoRequest
  <2>5. HandleOf(s).slot = s /\ HandleOf(s).token = client[s].token /\ client[s].inUse
    BY <1>4 DEF HandleOf, Async
  <2>6. BufferAccounted'
    BY <2>2, <2>3, <2>4, <2>5, ConfigAssumption DEF BufferAccounted
  <2>7. SessionOpen' /\ ReportsMatch'
    BY <2>3, <2>5 DEF SessionOpen, ReportsMatch
  <2> QED
    BY <1>1, <2>6, <2>7 DEF Inv
<1>5. CASE TasksIdle
  BY <1>1, <1>5 DEF TasksIdle, Inv, BufferAccounted, SessionOpen, ReportsMatch
<1>6. CASE TasksStart
  <2> DEFINE x == [xfer EXCEPT !.read = "init", !.write = "init", !.erase = "init", !.ew = "init"]
  <2>1. x \in XferType
    BY DEF Inv, TypeInv, TypeOK, XferType
  <2>2. pending # NoRequest
    BY <1>6, ConfigAssumption DEF TasksStart, Inv, BufferAccounted
  <2>3. Step(x, [buf EXCEPT !.status = "in_progress"]) /\ cur' = Buf
    BY <1>6 DEF TasksStart
  <2> HIDE DEF x
  <2> QED
    BY <1>1, <2>1, <2>2, <2>3, StepReport DEF Inv
<1>7. CASE TasksTransfer
  <2>1. head = Buf /\ cur = Buf
    BY <1>7 DEF TasksTransfer, Inv, BufferAccounted
  <2>2. pending # NoRequest
    BY <2>1, ConfigAssumption DEF Inv, BufferAccounted
  <2>3. buf = [buf EXCEPT !.status = "in_progress"]
    BY <1>7, <2>2 DEF TasksTransfer, Inv, BufferAccounted, TypeInv, TypeOK, BufType
  <2>4. Step(xfer, buf) /\ cur' = cur
    BY <1>7 DEF TasksTransfer
  <2>5. Step(xfer, [buf EXCEPT !.status = "in_progress"]) /\ cur' = Buf
    BY <2>1, <2>3, <2>4
  <2>6. xfer \in XferType
    BY DEF Inv, TypeInv, TypeOK
  <2> QED
    BY <1>1, <2>2, <2>5, <2>6, StepReport DEF Inv
<1>8. CASE DeviceDone
  BY <1>1, <1>8 DEF DeviceDone, queueVars, Inv, BufferAccounted, SessionOpen, ReportsMatch
<1>9. CASE UNCHANGED vars
  BY <1>1, <1>9 DEF vars, queueVars, Inv, BufferAccounted, SessionOpen, ReportsMatch
<1>10. \A op \in Ops : NumBlocks(op) \in Nat
  BY Sizes DEF NumBlocks, Ops
<1> QED
  BY <1>2, <1>3, <1>4, <1>5, <1>6, <1>7, <1>8, <1>9, <1>10 DEF Next, Tasks

(* With clients that wait before they close, the one request object is     *)
(* never lost, shared or linked to itself, and its status is the one of    *)
(* the request its client waits for.                                       *)
THEOREM RequestAccounted ==
    ASSUME CloseInFlight = FALSE
    PROVE  Spec => []BufferAccounted
<1>1. Inv => BufferAccounted
  BY DEF Inv
<1> QED
  BY <1>1, InitInv, NextInv, PTL DEF Spec

(* With clients that wait before they close, each accepted request is      *)
(* reported at most once, to the client that made it and with its handle.  *)
THEOREM ReportsReachTheirClient ==
    ASSUME CloseInFlight = FALSE
    PROVE  Spec => []ReportsMatch
<1>1. Inv => ReportsMatch
  BY DEF Inv
<1> QED
  BY <1>1, InitInv, NextInv, PTL DEF Spec

(***************************************************************************)
(* Which cells an unfinished request may have changed: for clients that do *)
(* not close while they wait.                                              *)
(*                                                                         *)
(* DamageConfined is not inductive alone.  The flash changes when a chain  *)
(* of the device ends, so at every moment the chain that runs has to be    *)
(* known: what it may change, that the driver still waits for it, and that *)
(* the address the driver holds, with the blocks it has to go, lies in the *)
(* request; for an erase-write, that what is left of it does.              *)
(***************************************************************************)

(* Multiplication is monotonic: a later block is at a higher address.      *)
LEMMA MulMono ==
    ASSUME NEW a \in Nat, NEW b \in Nat, NEW k \in Nat, a <= b
    PROVE  a * k <= b * k
  BY SMT

(* The address of the next block.                                          *)
LEMMA MulSucc == ASSUME NEW a \in Nat, NEW k \in Nat
                 PROVE  (a + 1) * k = a * k + k
  BY SMT

(* A cell lies in the block that division by the size of blocks names.     *)
LEMMA DivBounds ==
    ASSUME NEW c \in Nat, NEW k \in Nat \ {0}
    PROVE  (c \div k) * k <= c /\ c < (c \div k) * k + k
  BY SMT

(* And in no other.                                                        *)
LEMMA DivOf ==
    ASSUME NEW a \in Nat, NEW c \in Nat, NEW k \in Nat \ {0}, a * k <= c, c < a * k + k
    PROVE  c \div k = a
  BY SMT

(* The sector of a page, and of its first cell.                            *)
LEMMA DivProduct ==
    ASSUME NEW a \in Nat, NEW k \in Nat \ {0}, NEW l \in Nat \ {0}
    PROVE  (a * k) \div (k * l) = a \div l
  BY SMT

(* A remainder is no more than what was divided.                           *)
LEMMA ModBound ==
    ASSUME NEW a \in Nat, NEW k \in Nat \ {0}
    PROVE  a % k <= a /\ (a < k => a % k = a)
  BY SMT

(* uint32_t subtraction of no more than there is never yields more, so a   *)
(* count that does not fit in a word ends a request early but not late.    *)
LEMMA MinusBound ==
    ASSUME NEW a \in Nat, NEW b \in Nat, b <= a
    PROVE  Minus(a, b) <= a - b
<1>1. a - b \in Nat /\ WordMax + 1 \in Nat \ {0}
  BY ConfigAssumption
<1> QED
  BY <1>1, ModBound DEF Minus

(***************************************************************************)
(* The chain of the device.                                                *)
(***************************************************************************)

(* The running chain may change the flash.                                 *)
Alters(d) == d.active /\ d.armed

(* A chain that may change the flash was not hijacked and is a page write  *)
(* or a sector erase that the driver still waits for.                      *)
DevFine(d) ==
    /\ d.hijacked => d.active
    /\ Alters(d) => ~d.hijacked /\ d.status = "busy" /\ d.op \in {"write", "erase"}
    /\ d.active /\ ~d.armed /\ ~d.hijacked => d.op \notin {"write", "erase"}

(* The cells such a chain changes.                                         *)
Touches(d) ==
    IF d.op = "write" THEN d.addr .. d.addr + PageSize - 1
    ELSE {c \in Cells : SectorOf(c) = SectorOf(d.addr % FlashSize)}

(* The end of a chain changes no cell but those: none, for a chain that    *)
(* was hijacked before it set the write enable latch.                      *)
LEMMA FinishStays ==
    ASSUME NEW d, DevFine(d), d.active, d.armed \in BOOLEAN, NEW f \in FlashType, NEW m,
           NEW o \in Finish(d, f, m), NEW c \in Cells, ~(Alters(d) /\ c \in Touches(d))
    PROVE  o.flash[c] = f[c]
<1>1. CASE d.hijacked
  <2>1. PICK g \in HijackedFlash(d, f) :
            o = [dev |-> Quiet("completed", d.ptr), flash |-> g,
                 ram |-> WithSpoiled(m, d.spoiled)]
    BY <1>1 DEF Finish
  <2>2. g = f
    BY <1>1 DEF HijackedFlash, DevFine, Alters
  <2> QED
    BY <2>1, <2>2
<1>2. CASE ~d.hijacked /\ d.op = "read"
  BY <1>2 DEF Finish
<1>3. CASE ~d.hijacked /\ d.op = "write"
  <2>1. o.flash = WithPage(f, m, d.ptr, d.addr)
    BY <1>3 DEF Finish
  <2>2. c \notin d.addr .. d.addr + PageSize - 1
    BY <1>3 DEF DevFine, Alters, Touches
  <2> QED
    BY <2>1, <2>2 DEF WithPage
<1>4. CASE ~d.hijacked /\ d.op = "erase"
  <2>1. o.flash = WithSectorErased(f, d.addr)
    BY <1>4 DEF Finish
  <2>2. SectorOf(c) # SectorOf(d.addr % FlashSize)
    BY <1>4 DEF DevFine, Alters, Touches
  <2> QED
    BY <2>1, <2>2 DEF WithSectorErased
<1>5. CASE ~d.hijacked /\ d.op \notin {"read", "write", "erase"}
  <2>1. \/ o = [dev |-> Quiet("completed", d.ptr), flash |-> f, ram |-> m]
        \/ o = [dev |-> Quiet("error", d.ptr), flash |-> f, ram |-> m]
    BY <1>5 DEF Finish
  <2> QED
    BY <2>1
<1> QED
  BY <1>1, <1>2, <1>3, <1>4, <1>5

(* A device between two transfers changes nothing.                         *)
LEMMA QuietFine == \A st, ptr : DevFine(Quiet(st, ptr)) /\ ~Alters(Quiet(st, ptr))
  BY DEF Quiet, DevFine, Alters

(* A submission that is not made over a chain that may change the flash    *)
(* starts one only if it is accepted, for the address it names.            *)
LEMMA SubmitFine ==
    ASSUME NEW d \in DevType(Regions), DevFine(d), ~Alters(d),
           NEW op \in DevOps, NEW ptr, NEW n, NEW a,
           NEW r, r = Submit(d, op, ptr, n, a)
    PROVE  /\ DevFine(r.dev)
           /\ Alters(r.dev) => /\ r.ok /\ r.dev.op = op /\ r.dev.addr = a
                               /\ op \in {"write", "erase"}
<1>1. CASE d.active
  <2> DEFINE sp == d.spoiled \cup Target(d.op, d.ptr, d.len) \cup Target(op, ptr, n)
             e == [d EXCEPT !.op = op, !.ptr = ptr, !.len = n, !.addr = a,
                            !.status = "error", !.hijacked = TRUE, !.spoiled = sp]
  <2>1. r = [ok |-> FALSE, dev |-> e]
    BY <1>1 DEF Submit, DevType
  <2> HIDE DEF sp
  <2>2. ~d.armed
    BY <1>1 DEF Alters
  <2>3. e.hijacked /\ e.active /\ ~e.armed
    BY <1>1, <2>2 DEF DevType
  <2> HIDE DEF e
  <2> QED
    BY <2>1, <2>3 DEF DevFine, Alters
<1>2. CASE ~d.active
  <2> DEFINE w == op \in {"write", "erase"}
             e == [d EXCEPT !.op = op, !.ptr = ptr, !.len = n, !.addr = a,
                            !.status = "busy", !.active = TRUE, !.armed = w]
  <2>1. r = [ok |-> TRUE, dev |-> e]
    BY <1>2 DEF Submit, DevType
  <2>2. e.op = op /\ e.addr = a /\ e.status = "busy" /\ (e.armed <=> w)
    BY DEF DevType
  <2>3. ~e.hijacked
    BY <1>2 DEF DevType, DevFine
  <2> HIDE DEF e
  <2> QED
    BY <1>2, <2>1, <2>2, <2>3 DEF DevFine, Alters
<1> QED
  BY <1>1, <1>2

(* DRV_AT25DF_Read starts no chain that could change the flash.            *)
LEMMA ReadFine ==
    ASSUME NEW d \in DevType(Regions), DevFine(d), ~Alters(d), NEW ptr, NEW n, NEW a,
           NEW r, r = Read(d, ptr, n, a)
    PROVE  DevFine(r.dev) /\ ~Alters(r.dev)
<1>1. "read" \in DevOps
  BY DEF DevOps
<1>2. CASE r = Refused(d)
  BY <1>2 DEF Refused
<1>3. CASE r = Submit(d, "read", ptr, n, a)
  BY <1>1, <1>3, SubmitFine
<1> QED
  BY <1>2, <1>3 DEF Read

(* A page write is accepted for the address it names, or changes nothing.  *)
LEMMA PageWriteFine ==
    ASSUME NEW d \in DevType(Regions), DevFine(d), ~Alters(d), NEW ptr, NEW a,
           NEW r, r = PageWrite(d, ptr, a)
    PROVE  /\ DevFine(r.dev)
           /\ Alters(r.dev) => r.ok /\ r.dev.op = "write" /\ r.dev.addr = a
<1>1. "write" \in DevOps
  BY DEF DevOps
<1>2. CASE r = Refused(d)
  BY <1>2 DEF Refused
<1>3. CASE r = Submit(d, "write", ptr, PageSize, a)
  BY <1>1, <1>3, SubmitFine
<1> QED
  BY <1>2, <1>3 DEF PageWrite

(* And so is a sector erase.                                               *)
LEMMA EraseFine ==
    ASSUME NEW d \in DevType(Regions), DevFine(d), ~Alters(d), NEW a,
           NEW r, r = SectorErase(d, a)
    PROVE  /\ DevFine(r.dev)
           /\ Alters(r.dev) => r.ok /\ r.dev.op = "erase" /\ r.dev.addr = a
<1>1. "erase" \in DevOps /\ r = Submit(d, "erase", d.ptr, 0, a)
  BY DEF DevOps, SectorErase
<1> QED
  BY <1>1, SubmitFine

(***************************************************************************)
(* The sub state machines stay where the request is.                       *)
(***************************************************************************)

(* The machine is at a page, or a sector, of those from lo to hi - 1, and  *)
(* has at least that one to do and none after hi - 1.                      *)
At(x, size, lo, hi) ==
    x.nBlocks >= 1 /\ \E p \in Nat : /\ lo <= p /\ p + x.nBlocks <= hi
                                     /\ x.blockAddress = p * size

WritesAt(x, d, lo, hi) ==
    /\ x.write # "init" => At(x, PageSize, lo, hi)
    /\ Alters(d) => x.write = "status" /\ d.op = "write" /\ d.addr = x.blockAddress

ErasesAt(x, d, lo, hi) ==
    /\ x.erase # "init" => At(x, SectorSize, lo, hi)
    /\ Alters(d) => x.erase = "status" /\ d.op = "erase" /\ d.addr = x.blockAddress

(* The parameters of an erase-write and of the other two sub machines.     *)
KeepsRewrite(x, y) == y.ew = x.ew /\ y.sector = x.sector /\ y.toWrite = x.toWrite
KeepsErase(x, y) == KeepsRewrite(x, y) /\ y.write = x.write

(* One block less to go, or none: the machine moves to the next block.     *)
LEMMA NextBlock ==
    ASSUME NEW x \in XferType, NEW size \in Nat, NEW lo \in Nat, NEW hi \in Nat,
           At(x, size, lo, hi), NEW n, n = Minus(x.nBlocks, 1), n # 0,
           NEW y, y.blockAddress = x.blockAddress + size, y.nBlocks = n
    PROVE  At(y, size, lo, hi)
<1>1. x.nBlocks \in Nat /\ x.nBlocks >= 1
  BY DEF XferType, At
<1>2. n \in Nat /\ n <= x.nBlocks - 1
  BY <1>1, MinusBound, MinusType
<1>3. PICK p \in Nat : lo <= p /\ p + x.nBlocks <= hi /\ x.blockAddress = p * size
  BY DEF At
<1>4. p + 1 \in Nat /\ lo <= p + 1 /\ (p + 1) + n <= hi
  BY <1>1, <1>2, <1>3
<1>5. y.blockAddress = (p + 1) * size
  BY <1>3, MulSucc
<1> QED
  BY <1>2, <1>4, <1>5 DEF At

(* DRV_MEMORY_HandleRead starts no chain that could change the flash.      *)
LEMMA HandleReadStays ==
    ASSUME NEW m, MachineOK(m), DevFine(m.dev), ~Alters(m.dev),
           NEW ptr \in Where, NEW start \in Nat, NEW n \in Nat,
           NEW k, k = HandleRead(m, ptr, start, n)
    PROVE  /\ DevFine(k.dev) /\ ~Alters(k.dev)
           /\ KeepsRewrite(m.x, k.x)
           /\ k.x.erase = m.x.erase /\ k.x.write = m.x.write
<1> DEFINE address == IF m.x.read = "init" THEN start * BlockSize("read") ELSE 0
           sub == IF m.x.read = "status" THEN [ok |-> TRUE, dev |-> m.dev]
                  ELSE Read(m.dev, ptr, n, address)
           good == [m EXCEPT !.x.read = "status", !.dev = sub.dev, !.st = sub.dev.status]
           bad == [m EXCEPT !.x.read = "mem", !.dev = sub.dev, !.st = "error"]
<1>1. k = IF sub.ok THEN good ELSE bad
  BY DEF HandleRead, Failed, MachineOK, Machine
<1>2. m.dev \in DevType(Regions)
  BY DEF MachineOK, Machine
<1> HIDE DEF address
<1>3. DevFine(sub.dev) /\ ~Alters(sub.dev)
  BY <1>2, ReadFine
<1> HIDE DEF sub
<1>4. /\ good.dev = sub.dev /\ good.x = [m.x EXCEPT !.read = "status"]
      /\ bad.dev = sub.dev /\ bad.x = [m.x EXCEPT !.read = "mem"]
  BY DEF MachineOK, Machine
<1> HIDE DEF good, bad
<1> QED
  BY <1>1, <1>3, <1>4 DEF KeepsRewrite, MachineOK, Machine, XferType

(* DRV_MEMORY_HandleWrite programs one page after the other of those it    *)
(* was given, and reports only when none is being programmed.              *)
LEMMA HandleWriteStays ==
    ASSUME NEW m, MachineOK(m), DevFine(m.dev),
           NEW ptr \in Where, NEW start \in Nat, NEW n \in Nat,
           NEW lo \in Nat, NEW hi \in Nat, WritesAt(m.x, m.dev, lo, hi),
           m.x.write = "init" => n >= 1 /\ lo <= start /\ start + n <= hi,
           NEW k, k = HandleWrite(m, ptr, start, n)
    PROVE  /\ DevFine(k.dev)
           /\ KeepsRewrite(m.x, k.x)
           /\ k.st = "busy" => WritesAt(k.x, k.dev, lo, hi)
           /\ k.st # "busy" => ~Alters(k.dev)
<1> DEFINE a == IF m.x.write # "init" THEN m
                ELSE [m EXCEPT !.x.blockAddress = start * BlockSize("write"),
                               !.x.nBlocks = n, !.x.writePtr = ptr, !.x.write = "mem"]
           sub == IF a.x.write = "status" THEN [ok |-> TRUE, dev |-> a.dev]
                  ELSE PageWrite(a.dev, a.x.writePtr, a.x.blockAddress)
           b == [a EXCEPT !.x.write = "status", !.dev = sub.dev, !.st = sub.dev.status]
           c == OneBlockLess(b)
           more == [c EXCEPT !.x.blockAddress = @ + BlockSize("write"),
                             !.x.writePtr = Ahead(@, BlockSize("write")),
                             !.x.write = "mem", !.st = "busy"]
           bad == Failed(a, sub.dev)
<1>0. HandleWrite(m, ptr, start, n) =
            IF ~sub.ok THEN bad ELSE IF b.st = "completed" THEN NextPage(b) ELSE b
  BY DEF HandleWrite
<1>1. k = IF ~sub.ok THEN bad
          ELSE IF b.st # "completed" THEN b
          ELSE IF c.x.nBlocks = 0 THEN c
          ELSE more
  <2>1. NextPage(b) = IF c.x.nBlocks = 0 THEN c ELSE more
    <3> HIDE DEF b
    <3> QED
      BY DEF NextPage
  <2> HIDE DEF a, sub, b, c, more, bad
  <2> QED
    BY <1>0, <2>1
<1>2. BlockSize("write") = PageSize /\ PageSize \in Nat /\ start * BlockSize("write") \in Nat
  BY BlockSizes, Sizes, Product DEF Ops, BlockSize
<1>3. /\ MachineOK(a) /\ a.dev = m.dev /\ KeepsRewrite(m.x, a.x)
      /\ a.x.write # "init" /\ At(a.x, PageSize, lo, hi)
      /\ Alters(a.dev) => /\ a.x.write = "status" /\ a.dev.op = "write"
                          /\ a.dev.addr = a.x.blockAddress
  <2>1. CASE m.x.write # "init"
    BY <2>1 DEF WritesAt, KeepsRewrite
  <2>2. CASE m.x.write = "init"
    <3>1. ~Alters(a.dev)
      BY <2>2 DEF WritesAt, MachineOK, Machine
    <3>2. /\ MachineOK(a) /\ a.dev = m.dev /\ a.x.write = "mem"
          /\ KeepsRewrite(m.x, a.x)
      BY <1>2, <2>2 DEF MachineOK, Machine, XferType, Where, KeepsRewrite
    <3>3. a.x.nBlocks = n /\ a.x.blockAddress = start * PageSize
      BY <1>2, <2>2 DEF MachineOK, Machine, XferType
    <3>4. At(a.x, PageSize, lo, hi)
      BY <2>2, <3>3 DEF At
    <3> QED
      BY <3>1, <3>2, <3>4
  <2> QED
    BY <2>1, <2>2
<1> HIDE DEF a
<1>4. a.dev \in DevType(Regions) /\ DevFine(a.dev) /\ a.x \in XferType
  BY <1>3 DEF MachineOK, Machine
<1>5. /\ DevFine(sub.dev)
      /\ Alters(sub.dev) => sub.ok /\ sub.dev.op = "write" /\ sub.dev.addr = a.x.blockAddress
  <2>1. CASE a.x.write = "status"
    BY <1>3, <1>4, <2>1
  <2>2. CASE a.x.write # "status"
    <3>1. ~Alters(a.dev)
      BY <1>3, <2>2
    <3> QED
      BY <1>4, <2>2, <3>1, PageWriteFine
  <2> QED
    BY <2>1, <2>2
<1> HIDE DEF sub
<1>6. bad.dev = sub.dev /\ bad.x = a.x /\ bad.st = "error"
  BY <1>3 DEF Failed, MachineOK, Machine
<1>7. b.dev = sub.dev /\ b.x = [a.x EXCEPT !.write = "status"] /\ b.st = sub.dev.status
  BY <1>3 DEF MachineOK, Machine
<1> DEFINE bx == [a.x EXCEPT !.write = "status"]
           cx == [bx EXCEPT !.nBlocks = Minus(bx.nBlocks, 1)]
           mx == [cx EXCEPT !.blockAddress = @ + BlockSize("write"),
                            !.writePtr = Ahead(@, BlockSize("write")), !.write = "mem"]
<1>8. c.dev = sub.dev /\ c.x = cx /\ c.st = b.st
  BY <1>3, <1>7 DEF OneBlockLess, MachineOK, Machine
<1>9. more.dev = sub.dev /\ more.x = mx /\ more.st = "busy"
  BY <1>3, <1>8 DEF OneBlockLess, MachineOK, Machine
<1> HIDE DEF bad, b, c, more
<1>10. /\ bx.write = "status" /\ bx.nBlocks = a.x.nBlocks /\ bx.blockAddress = a.x.blockAddress
       /\ KeepsRewrite(a.x, bx) /\ KeepsRewrite(a.x, cx) /\ KeepsRewrite(a.x, mx)
       /\ cx.nBlocks = Minus(a.x.nBlocks, 1)
       /\ mx.nBlocks = Minus(a.x.nBlocks, 1)
       /\ mx.blockAddress = a.x.blockAddress + PageSize
  BY <1>2, <1>4 DEF XferType, KeepsRewrite
<1> HIDE DEF bx, cx, mx
<1>11. CASE ~sub.ok
  BY <1>1, <1>3, <1>5, <1>6, <1>11
<1>12. CASE sub.ok /\ b.st # "completed"
  <2>1. k.dev = sub.dev /\ k.x = bx /\ k.st = sub.dev.status
    BY <1>1, <1>7, <1>12 DEF bx
  <2>2. At(bx, PageSize, lo, hi)
    BY <1>3, <1>10 DEF At
  <2>3. WritesAt(k.x, k.dev, lo, hi)
    BY <1>5, <1>10, <2>1, <2>2 DEF WritesAt
  <2>4. k.st # "busy" => ~Alters(k.dev)
    BY <1>5, <2>1 DEF DevFine
  <2> QED
    BY <1>3, <1>5, <1>10, <2>1, <2>3, <2>4 DEF KeepsRewrite
<1>13. CASE sub.ok /\ b.st = "completed"
  <2>1. ~Alters(sub.dev)
    BY <1>5, <1>7, <1>13 DEF DevFine
  <2>2. CASE c.x.nBlocks = 0
    <3>1. k.dev = sub.dev /\ k.x = cx /\ k.st = "completed"
      BY <1>1, <1>8, <1>13, <2>2
    <3> QED
      BY <1>3, <1>5, <1>10, <2>1, <3>1 DEF KeepsRewrite
  <2>3. CASE c.x.nBlocks # 0
    <3>1. k.dev = sub.dev /\ k.x = mx /\ k.st = "busy"
      BY <1>1, <1>9, <1>13, <2>3
    <3>2. Minus(a.x.nBlocks, 1) # 0
      BY <1>8, <1>10, <2>3
    <3>3. At(mx, PageSize, lo, hi)
      BY <1>2, <1>3, <1>4, <1>10, <3>2, NextBlock
    <3> QED
      BY <1>3, <1>5, <1>10, <2>1, <3>1, <3>3 DEF KeepsRewrite, WritesAt
  <2> QED
    BY <2>2, <2>3
<1> QED
  BY <1>11, <1>12, <1>13

(* DRV_MEMORY_HandleErase likewise erases one sector after the other.      *)
LEMMA HandleEraseStays ==
    ASSUME NEW m, MachineOK(m), DevFine(m.dev),
           NEW start \in Nat, NEW n \in Nat,
           NEW lo \in Nat, NEW hi \in Nat, ErasesAt(m.x, m.dev, lo, hi),
           m.x.erase = "init" => n >= 1 /\ lo <= start /\ start + n <= hi,
           NEW k, k = HandleErase(m, start, n)
    PROVE  /\ DevFine(k.dev)
           /\ KeepsErase(m.x, k.x)
           /\ k.st = "busy" => ErasesAt(k.x, k.dev, lo, hi)
           /\ k.st # "busy" => ~Alters(k.dev)
<1> DEFINE a == IF m.x.erase # "init" THEN m
                ELSE [m EXCEPT !.x.blockAddress = start * BlockSize("erase"),
                               !.x.nBlocks = n, !.x.erase = "cmd"]
           sub == IF a.x.erase = "status" THEN [ok |-> TRUE, dev |-> a.dev]
                  ELSE SectorErase(a.dev, a.x.blockAddress)
           b == [a EXCEPT !.x.erase = "status", !.dev = sub.dev, !.st = sub.dev.status]
           c == OneBlockLess(b)
           more == [c EXCEPT !.x.blockAddress = @ + BlockSize("erase"),
                             !.x.erase = "cmd", !.st = "busy"]
           bad == Failed(a, sub.dev)
<1>0. HandleErase(m, start, n) =
            IF ~sub.ok THEN bad ELSE IF b.st = "completed" THEN NextSector(b) ELSE b
  BY DEF HandleErase
<1>1. k = IF ~sub.ok THEN bad
          ELSE IF b.st # "completed" THEN b
          ELSE IF c.x.nBlocks = 0 THEN c
          ELSE more
  <2>1. NextSector(b) = IF c.x.nBlocks = 0 THEN c ELSE more
    <3> HIDE DEF b
    <3> QED
      BY DEF NextSector
  <2> HIDE DEF a, sub, b, c, more, bad
  <2> QED
    BY <1>0, <2>1
<1>2. BlockSize("erase") = SectorSize /\ SectorSize \in Nat /\ start * BlockSize("erase") \in Nat
  BY BlockSizes, Sizes, Product DEF Ops, BlockSize
<1>3. /\ MachineOK(a) /\ a.dev = m.dev /\ KeepsErase(m.x, a.x)
      /\ a.x.erase # "init" /\ At(a.x, SectorSize, lo, hi)
      /\ Alters(a.dev) => /\ a.x.erase = "status" /\ a.dev.op = "erase"
                          /\ a.dev.addr = a.x.blockAddress
  <2>1. CASE m.x.erase # "init"
    BY <2>1 DEF ErasesAt, KeepsErase, KeepsRewrite
  <2>2. CASE m.x.erase = "init"
    <3>1. ~Alters(a.dev)
      BY <2>2 DEF ErasesAt, MachineOK, Machine
    <3>2. /\ MachineOK(a) /\ a.dev = m.dev /\ a.x.erase = "cmd"
          /\ KeepsErase(m.x, a.x)
      BY <1>2, <2>2 DEF MachineOK, Machine, XferType, Where, KeepsErase, KeepsRewrite
    <3>3. a.x.nBlocks = n /\ a.x.blockAddress = start * SectorSize
      BY <1>2, <2>2 DEF MachineOK, Machine, XferType
    <3>4. At(a.x, SectorSize, lo, hi)
      BY <2>2, <3>3 DEF At
    <3> QED
      BY <3>1, <3>2, <3>4
  <2> QED
    BY <2>1, <2>2
<1> HIDE DEF a
<1>4. a.dev \in DevType(Regions) /\ DevFine(a.dev) /\ a.x \in XferType
  BY <1>3 DEF MachineOK, Machine
<1>5. /\ DevFine(sub.dev)
      /\ Alters(sub.dev) => sub.ok /\ sub.dev.op = "erase" /\ sub.dev.addr = a.x.blockAddress
  <2>1. CASE a.x.erase = "status"
    BY <1>3, <1>4, <2>1
  <2>2. CASE a.x.erase # "status"
    <3>1. ~Alters(a.dev)
      BY <1>3, <2>2
    <3> QED
      BY <1>4, <2>2, <3>1, EraseFine
  <2> QED
    BY <2>1, <2>2
<1> HIDE DEF sub
<1>6. bad.dev = sub.dev /\ bad.x = a.x /\ bad.st = "error"
  BY <1>3 DEF Failed, MachineOK, Machine
<1>7. b.dev = sub.dev /\ b.x = [a.x EXCEPT !.erase = "status"] /\ b.st = sub.dev.status
  BY <1>3 DEF MachineOK, Machine
<1> DEFINE bx == [a.x EXCEPT !.erase = "status"]
           cx == [bx EXCEPT !.nBlocks = Minus(bx.nBlocks, 1)]
           mx == [cx EXCEPT !.blockAddress = @ + BlockSize("erase"),
                            !.erase = "cmd"]
<1>8. c.dev = sub.dev /\ c.x = cx /\ c.st = b.st
  BY <1>3, <1>7 DEF OneBlockLess, MachineOK, Machine
<1>9. more.dev = sub.dev /\ more.x = mx /\ more.st = "busy"
  BY <1>3, <1>8 DEF OneBlockLess, MachineOK, Machine
<1> HIDE DEF bad, b, c, more
<1>10. /\ bx.erase = "status" /\ bx.nBlocks = a.x.nBlocks /\ bx.blockAddress = a.x.blockAddress
       /\ KeepsErase(a.x, bx) /\ KeepsErase(a.x, cx) /\ KeepsErase(a.x, mx)
       /\ cx.nBlocks = Minus(a.x.nBlocks, 1)
       /\ mx.nBlocks = Minus(a.x.nBlocks, 1)
       /\ mx.blockAddress = a.x.blockAddress + SectorSize
  BY <1>2, <1>4 DEF XferType, KeepsErase, KeepsRewrite
<1> HIDE DEF bx, cx, mx
<1>11. CASE ~sub.ok
  BY <1>1, <1>3, <1>5, <1>6, <1>11
<1>12. CASE sub.ok /\ b.st # "completed"
  <2>1. k.dev = sub.dev /\ k.x = bx /\ k.st = sub.dev.status
    BY <1>1, <1>7, <1>12 DEF bx
  <2>2. At(bx, SectorSize, lo, hi)
    BY <1>3, <1>10 DEF At
  <2>3. ErasesAt(k.x, k.dev, lo, hi)
    BY <1>5, <1>10, <2>1, <2>2 DEF ErasesAt
  <2>4. k.st # "busy" => ~Alters(k.dev)
    BY <1>5, <2>1 DEF DevFine
  <2> QED
    BY <1>3, <1>5, <1>10, <2>1, <2>3, <2>4 DEF KeepsErase, KeepsRewrite
<1>13. CASE sub.ok /\ b.st = "completed"
  <2>1. ~Alters(sub.dev)
    BY <1>5, <1>7, <1>13 DEF DevFine
  <2>2. CASE c.x.nBlocks = 0
    <3>1. k.dev = sub.dev /\ k.x = cx /\ k.st = "completed"
      BY <1>1, <1>8, <1>13, <2>2
    <3> QED
      BY <1>3, <1>5, <1>10, <2>1, <3>1 DEF KeepsErase, KeepsRewrite
  <2>3. CASE c.x.nBlocks # 0
    <3>1. k.dev = sub.dev /\ k.x = mx /\ k.st = "busy"
      BY <1>1, <1>9, <1>13, <2>3
    <3>2. Minus(a.x.nBlocks, 1) # 0
      BY <1>8, <1>10, <2>3
    <3>3. At(mx, SectorSize, lo, hi)
      BY <1>2, <1>3, <1>4, <1>10, <3>2, NextBlock
    <3> QED
      BY <1>3, <1>5, <1>10, <2>1, <3>1, <3>3 DEF KeepsErase, KeepsRewrite, ErasesAt
  <2> QED
    BY <2>2, <2>3
<1> QED
  BY <1>11, <1>12, <1>13

(* What is left of an erase-write is a part of the request p, and each     *)
(* state of ewState works in the sector where that part begins.            *)
RewritesAt(x, d, b, p) ==
    /\ p.start <= b.blockStart /\ b.blockStart < p.start + p.n
    /\ b.blockStart + b.nBlocks <= p.start + p.n
    /\ x.ew # "init" => /\ x.sector = b.blockStart \div PagesPerSector
                        /\ x.toWrite <= b.nBlocks
    /\ x.ew \in {"init", "read"} => ~Alters(d)
    /\ x.ew = "read" => x.erase = "init" /\ x.write = "init"
    /\ x.ew = "erase" => x.write = "init" /\ ErasesAt(x, d, x.sector, x.sector + 1)
    /\ x.ew = "write" => WritesAt(x, d, x.sector * PagesPerSector,
                                  x.sector * PagesPerSector + PagesPerSector)

(* A call of the machine goes on with the request, or reports and leaves   *)
(* nothing running that could change the flash.                            *)
RewriteStays(k, p) ==
    /\ DevFine(k.dev)
    /\ k.st = "busy" => RewritesAt(k.x, k.dev, k.buf, p)
    /\ k.st # "busy" => ~Alters(k.dev)

(* EW_ERASE_SECTOR erases the sector, then turns to the writing.           *)
LEMMA EwEraseStays ==
    ASSUME NEW m, MachineOK(m), DevFine(m.dev), NEW p,
           RewritesAt(m.x, m.dev, m.buf, p), m.x.ew = "erase"
    PROVE  RewriteStays(EwEraseSector(m), p)
<1> DEFINE e == HandleErase(m, m.x.sector, 1)
           w == [e EXCEPT !.x.ew = "write", !.st = "busy"]
<1>1. m.x.sector \in Nat /\ m.x.sector + 1 \in Nat /\ 1 \in Nat
  BY DEF MachineOK, Machine, XferType
<1>2. MachineOK(e) /\ e.buf = m.buf
  BY <1>1, HandleEraseOK
<1>3. /\ DevFine(e.dev) /\ KeepsErase(m.x, e.x)
      /\ e.st = "busy" => ErasesAt(e.x, e.dev, m.x.sector, m.x.sector + 1)
      /\ e.st # "busy" => ~Alters(e.dev)
  BY <1>1, HandleEraseStays DEF RewritesAt
<1>4. EwEraseSector(m) = IF e.st = "completed" THEN w ELSE e
  BY DEF EwEraseSector
<1> HIDE DEF e
<1>5. CASE e.st = "completed"
  <2>1. w.dev = e.dev /\ w.buf = m.buf /\ w.st = "busy" /\ w.x = [e.x EXCEPT !.ew = "write"]
    BY <1>2 DEF MachineOK, Machine
  <2>2. /\ w.x.ew = "write" /\ w.x.sector = m.x.sector /\ w.x.toWrite = m.x.toWrite
        /\ w.x.write = "init"
    BY <1>2, <1>3, <2>1
       DEF KeepsErase, KeepsRewrite, MachineOK, Machine, XferType, RewritesAt
  <2> HIDE DEF w
  <2>3. ~Alters(w.dev)
    BY <1>3, <1>5, <2>1
  <2>4. RewritesAt(w.x, w.dev, w.buf, p)
    BY <2>1, <2>2, <2>3 DEF RewritesAt, WritesAt
  <2> QED
    BY <1>3, <1>4, <1>5, <2>1, <2>4 DEF RewriteStays
<1>6. CASE e.st # "completed"
  <2>1. RewritesAt(e.x, e.dev, e.buf, p) \/ e.st # "busy"
    BY <1>2, <1>3 DEF KeepsErase, KeepsRewrite, RewritesAt
  <2> QED
    BY <1>3, <1>4, <1>6, <2>1 DEF RewriteStays
<1> QED
  BY <1>5, <1>6

(* EW_READ_SECTOR changes nothing; when the sector was read it is erased.  *)
LEMMA EwReadStays ==
    ASSUME NEW m, MachineOK(m), DevFine(m.dev), NEW p,
           RewritesAt(m.x, m.dev, m.buf, p), m.x.ew = "read"
    PROVE  RewriteStays(EwReadSector(m), p)
<1> DEFINE r == HandleRead(m, <<Ew, 0>>, m.x.sector * SectorSize, SectorSize)
           o == [r EXCEPT !.x.offset = @ * PageSize, !.x.ew = "erase"]
           w == [o EXCEPT !.ram = Overlaid(o)]
<1>1. <<Ew, 0>> \in Where /\ m.x.sector * SectorSize \in Nat /\ SectorSize \in Nat
  BY Sizes, Product DEF Where, Regions, MachineOK, Machine, XferType
<1>2. MachineOK(r) /\ r.buf = m.buf
  BY <1>1, HandleReadOK
<1>3. ~Alters(m.dev)
  BY DEF RewritesAt
<1>4. /\ DevFine(r.dev) /\ ~Alters(r.dev) /\ KeepsRewrite(m.x, r.x)
      /\ r.x.erase = m.x.erase /\ r.x.write = m.x.write
  BY <1>1, <1>3, HandleReadStays
<1>5. EwReadSector(m) = IF r.st = "completed" THEN EwEraseSector(w) ELSE r
  BY DEF EwReadSector
<1> HIDE DEF r
<1>6. RewritesAt(r.x, r.dev, r.buf, p)
  BY <1>2, <1>4 DEF KeepsRewrite, RewritesAt
<1>7. CASE r.st = "completed"
  <2> DEFINE off == r.x.offset * PageSize
             ox == [r.x EXCEPT !.offset = off, !.ew = "erase"]
  <2>1. off \in Nat
    BY <1>2, Sizes, Product DEF MachineOK, Machine, XferType
  <2>2. o = [r EXCEPT !.x = ox]
    BY <1>2 DEF MachineOK, Machine, XferType
  <2> HIDE DEF o
  <2>3. MachineOK(o) /\ o.buf = m.buf /\ o.dev = r.dev /\ o.x = ox
    BY <1>2, <2>1, <2>2 DEF MachineOK, Machine, XferType
  <2>4. /\ ox.ew = "erase" /\ ox.sector = r.x.sector /\ ox.toWrite = r.x.toWrite
        /\ ox.erase = r.x.erase /\ ox.write = r.x.write
    BY <1>2 DEF MachineOK, Machine, XferType
  <2> HIDE DEF ox
  <2>5. MachineOK(w) /\ w.buf = m.buf /\ w.dev = r.dev /\ w.x = ox
    BY <2>3, OverlaidType DEF MachineOK, Machine
  <2> HIDE DEF w
  <2>6. RewritesAt(w.x, w.dev, w.buf, p) /\ w.x.ew = "erase"
    BY <1>2, <1>4, <1>6, <2>4, <2>5 DEF KeepsRewrite, RewritesAt, ErasesAt
  <2> QED
    BY <1>4, <1>5, <1>7, <2>5, <2>6, EwEraseStays
<1>8. CASE r.st # "completed"
  BY <1>4, <1>5, <1>6, <1>8 DEF RewriteStays
<1> QED
  BY <1>7, <1>8

(* EW_INIT takes the sector where what is left begins.                     *)
LEMMA EwInitStays ==
    ASSUME NEW m, MachineOK(m), DevFine(m.dev), NEW p,
           RewritesAt(m.x, m.dev, m.buf, p), ~Alters(m.dev)
    PROVE  RewriteStays(EwInit(m), p)
<1> DEFINE offset  == m.buf.blockStart % PagesPerSector
           sector  == m.buf.blockStart \div PagesPerSector
           toWrite == Smaller(m.buf.nBlocks, PagesPerSector - offset)
           ax == [m.x EXCEPT
                   !.read = "init", !.erase = "init", !.write = "init",
                   !.sector = sector, !.offset = offset, !.toWrite = toWrite]
           a == [m EXCEPT !.x = ax]
           r == [a EXCEPT !.x.writePtr = <<Ew, 0>>, !.x.ew = "read"]
           f == [a EXCEPT !.x.writePtr = m.buf.buffer, !.x.ew = "erase", !.st = "busy"]
<1>1. EwInit(m) = IF toWrite # PagesPerSector THEN EwReadSector(r) ELSE f
  BY DEF EwInit
<1>2. m.buf.blockStart \in Nat /\ m.buf.nBlocks \in Nat /\ m.buf.buffer \in Where
  BY DEF MachineOK, Machine, BufType, Where
<1>3. offset \in Nat /\ sector \in Nat /\ PagesPerSector - offset \in Nat
  BY <1>2, Sizes, Quotient
<1>4. toWrite \in Nat /\ toWrite <= m.buf.nBlocks
  <2> HIDE DEF offset
  <2> QED
    BY <1>2, <1>3 DEF Smaller
<1> HIDE DEF offset, toWrite
<1>5. /\ ax \in XferType /\ ax.sector = sector /\ ax.toWrite = toWrite
      /\ ax.erase = "init" /\ ax.write = "init"
  <2> HIDE DEF sector
  <2> QED
    BY <1>3, <1>4 DEF MachineOK, Machine, XferType
<1> HIDE DEF ax
<1> DEFINE rx == [ax EXCEPT !.writePtr = <<Ew, 0>>, !.ew = "read"]
           fx == [ax EXCEPT !.writePtr = m.buf.buffer, !.ew = "erase"]
<1>6. /\ r = [m EXCEPT !.x = rx]
      /\ f = [m EXCEPT !.x = fx, !.st = "busy"]
  BY <1>5 DEF MachineOK, Machine
<1>7. /\ rx \in XferType /\ rx.sector = sector /\ rx.toWrite = toWrite
      /\ rx.erase = "init" /\ rx.write = "init" /\ rx.ew = "read"
  <2> HIDE DEF sector
  <2> QED
    BY <1>5 DEF XferType, Regions
<1>8. /\ fx.sector = sector /\ fx.toWrite = toWrite
      /\ fx.erase = "init" /\ fx.write = "init" /\ fx.ew = "erase"
  <2> HIDE DEF sector
  <2> QED
    BY <1>5 DEF XferType
<1> HIDE DEF a, r, f, rx, fx
<1>9. CASE toWrite # PagesPerSector
  <2>1. MachineOK(r) /\ r.buf = m.buf /\ r.dev = m.dev /\ r.x = rx
    BY <1>6, <1>7 DEF MachineOK, Machine
  <2>2. RewritesAt(r.x, r.dev, r.buf, p)
    BY <1>4, <1>7, <2>1 DEF RewritesAt
  <2> QED
    BY <1>1, <1>7, <1>9, <2>1, <2>2, EwReadStays
<1>10. CASE toWrite = PagesPerSector
  <2>1. f.buf = m.buf /\ f.dev = m.dev /\ f.x = fx /\ f.st = "busy"
    BY <1>6 DEF MachineOK, Machine
  <2>2. RewritesAt(f.x, f.dev, f.buf, p)
    BY <1>4, <1>8, <2>1 DEF RewritesAt, ErasesAt
  <2> QED
    BY <1>1, <1>10, <2>1, <2>2 DEF RewriteStays
<1> QED
  BY <1>9, <1>10

(* EW_WRITE_SECTOR writes the pages of the sector; what is left then       *)
(* begins further on, and is less.                                         *)
LEMMA EwWriteStays ==
    ASSUME NEW m, MachineOK(m), DevFine(m.dev), NEW p, p.start \in Nat, p.n \in Nat,
           RewritesAt(m.x, m.dev, m.buf, p), m.x.ew = "write"
    PROVE  RewriteStays(EwWriteSector(m), p)
<1> DEFINE lo == m.x.sector * PagesPerSector
           w == HandleWrite(m, m.x.writePtr, lo, PagesPerSector)
           n == Minus(w.buf.nBlocks, w.x.toWrite)
           start == w.buf.blockStart + w.x.toWrite
           ptr == Ahead(w.buf.buffer, w.x.toWrite * PageSize)
           k == [w EXCEPT !.buf.nBlocks = n, !.buf.blockStart = start,
                          !.buf.buffer = ptr, !.x.ew = "init", !.st = "busy"]
<1>1. /\ m.x.writePtr \in Where /\ m.x.sector \in Nat
      /\ PagesPerSector \in Nat /\ PagesPerSector >= 1
  BY Sizes DEF Where, MachineOK, Machine, XferType
<1>2. lo \in Nat /\ lo + PagesPerSector \in Nat
  <2>1. lo \in Nat
    BY <1>1, Product
  <2> QED
    BY <1>1, <2>1
<1>3. WritesAt(m.x, m.dev, lo, lo + PagesPerSector)
  BY DEF RewritesAt
<1>4. EwWriteSector(m) = IF w.st # "completed" \/ w.buf.nBlocks = w.x.toWrite
                         THEN w ELSE k
  BY DEF EwWriteSector
<1> HIDE DEF lo
<1>5. MachineOK(w) /\ w.buf = m.buf
  <2>1. ASSUME NEW v \in Where, NEW s \in Nat, NEW q \in Nat
        PROVE  MachineOK(HandleWrite(m, v, s, q)) /\ HandleWrite(m, v, s, q).buf = m.buf
    BY HandleWriteOK
  <2> QED
    BY <1>1, <1>2, <2>1
<1>6. /\ DevFine(w.dev) /\ KeepsRewrite(m.x, w.x)
      /\ w.st = "busy" => WritesAt(w.x, w.dev, lo, lo + PagesPerSector)
      /\ w.st # "busy" => ~Alters(w.dev)
  BY <1>1, <1>2, <1>3, <1>5, HandleWriteStays
<1> HIDE DEF w
<1>7. /\ w.buf.nBlocks \in Nat /\ w.buf.blockStart \in Nat
      /\ w.x.toWrite \in Nat /\ w.x.toWrite <= w.buf.nBlocks
      /\ p.start <= w.buf.blockStart /\ w.buf.blockStart + w.buf.nBlocks <= p.start + p.n
  BY <1>5, <1>6 DEF MachineOK, Machine, BufType, XferType, RewritesAt, KeepsRewrite
<1>8. CASE w.st # "completed" \/ w.buf.nBlocks = w.x.toWrite
  <2>1. w.st = "busy" => RewritesAt(w.x, w.dev, w.buf, p)
    BY <1>5, <1>6 DEF RewritesAt, KeepsRewrite, lo
  <2> QED
    BY <1>4, <1>6, <1>8, <2>1 DEF RewriteStays
<1>9. CASE ~(w.st # "completed" \/ w.buf.nBlocks = w.x.toWrite)
  <2>1. n \in Nat /\ n <= w.buf.nBlocks - w.x.toWrite
    BY <1>7, MinusBound, MinusType
  <2>2. /\ p.start <= start /\ start < p.start + p.n
        /\ start + n <= p.start + p.n
    <3> DEFINE bs == w.buf.blockStart
               nb == w.buf.nBlocks
               tw == w.x.toWrite
               ps == p.start
               pn == p.n
    <3>1. /\ n \in Nat /\ bs \in Nat /\ nb \in Nat /\ tw \in Nat /\ ps \in Nat /\ pn \in Nat
          /\ tw <= nb /\ tw # nb /\ ps <= bs /\ bs + nb <= ps + pn /\ n <= nb - tw
      BY <1>7, <1>9, <2>1
    <3>2. start = bs + tw
      OBVIOUS
    <3> HIDE DEF n, bs, nb, tw, ps, pn, start
    <3>3. ps <= start /\ start < ps + pn /\ start + n <= ps + pn
      BY <3>1, <3>2
    <3> QED
      BY <3>3 DEF ps, pn
  <2> HIDE DEF n, start, ptr
  <2>3. /\ k.dev = w.dev /\ k.st = "busy" /\ k.x.ew = "init"
        /\ k.buf.blockStart = start /\ k.buf.nBlocks = n
    BY <1>5 DEF MachineOK, Machine, BufType, XferType
  <2> HIDE DEF k
  <2>4. RewritesAt(k.x, k.dev, k.buf, p)
    BY <1>6, <1>9, <2>2, <2>3 DEF RewritesAt
  <2> QED
    BY <1>4, <1>6, <1>9, <2>3, <2>4 DEF RewriteStays
<1> QED
  BY <1>8, <1>9

(* The whole request is in front of the machine.                           *)
Whole(b, p) == b.blockStart = p.start /\ b.nBlocks = p.n

(* The machine with parameters x, device d and request object b works for  *)
(* the request p, and only where p asks for it.                            *)
WorksFor(x, d, b, p) ==
    CASE p.op = "read"  -> ~Alters(d)
      [] p.op = "write" -> Whole(b, p) /\ WritesAt(x, d, p.start, p.start + p.n)
      [] p.op = "erase" -> Whole(b, p) /\ ErasesAt(x, d, p.start, p.start + p.n)
      [] OTHER -> RewritesAt(x, d, b, p)

(* gMemoryXferFuncPtr: one call goes on with the request where it asks for *)
(* it, or reports with nothing running that could change the flash.        *)
LEMMA TransferStays ==
    ASSUME NEW m, MachineOK(m), DevFine(m.dev), NEW p \in Request, m.buf.op = p.op,
           WorksFor(m.x, m.dev, m.buf, p), NEW k, k = Transfer(m)
    PROVE  /\ DevFine(k.dev)
           /\ k.st = "busy" => WorksFor(k.x, k.dev, k.buf, p)
           /\ k.st # "busy" => ~Alters(k.dev)
<1>1. m.buf.buffer \in Where /\ m.buf.blockStart \in Nat /\ m.buf.nBlocks \in Nat
  BY DEF MachineOK, Machine, BufType, Where
<1>2. /\ p.op \in {"read", "write", "erase", "erasewrite"}
      /\ p.start \in Nat /\ p.n \in Nat /\ p.n >= 1 /\ p.start + p.n \in Nat
  BY DEF Request, Ops
<1>3. CASE p.op = "read"
  <2>1. k = HandleRead(m, m.buf.buffer, m.buf.blockStart, m.buf.nBlocks)
    BY <1>3 DEF Transfer
  <2>2. ~Alters(m.dev)
    BY <1>3 DEF WorksFor
  <2>3. DevFine(k.dev) /\ ~Alters(k.dev)
    BY <1>1, <2>1, <2>2, HandleReadStays
  <2> QED
    BY <1>3, <2>3 DEF WorksFor
<1>4. CASE p.op = "write"
  <2>1. k = HandleWrite(m, m.buf.buffer, m.buf.blockStart, m.buf.nBlocks)
    BY <1>4 DEF Transfer
  <2>2. Whole(m.buf, p) /\ WritesAt(m.x, m.dev, p.start, p.start + p.n)
    BY <1>4 DEF WorksFor
  <2>3. k.buf = m.buf
    <3>1. HandleWrite(m, m.buf.buffer, m.buf.blockStart, m.buf.nBlocks).buf = m.buf
      BY <1>1, HandleWriteOK
    <3> QED
      BY <2>1, <3>1
  <2>4. /\ DevFine(k.dev) /\ (k.st # "busy" => ~Alters(k.dev))
        /\ k.st = "busy" => WritesAt(k.x, k.dev, p.start, p.start + p.n)
    BY <1>1, <1>2, <2>1, <2>2, HandleWriteStays DEF Whole
  <2> QED
    BY <1>4, <2>2, <2>3, <2>4 DEF WorksFor
<1>5. CASE p.op = "erase"
  <2>1. k = HandleErase(m, m.buf.blockStart, m.buf.nBlocks)
    BY <1>5 DEF Transfer
  <2>2. Whole(m.buf, p) /\ ErasesAt(m.x, m.dev, p.start, p.start + p.n)
    BY <1>5 DEF WorksFor
  <2>3. k.buf = m.buf
    BY <1>1, <2>1, HandleEraseOK
  <2>4. /\ DevFine(k.dev) /\ (k.st # "busy" => ~Alters(k.dev))
        /\ k.st = "busy" => ErasesAt(k.x, k.dev, p.start, p.start + p.n)
    BY <1>1, <1>2, <2>1, <2>2, HandleEraseStays DEF Whole
  <2> QED
    BY <1>5, <2>2, <2>3, <2>4 DEF WorksFor
<1>6. CASE p.op = "erasewrite"
  <2>1. k = HandleEraseWrite(m)
    BY <1>6 DEF Transfer
  <2>2. RewritesAt(m.x, m.dev, m.buf, p)
    BY <1>6 DEF WorksFor
  <2>3. m.x.ew \in {"init", "read", "erase", "write"}
    BY DEF MachineOK, Machine, XferType
  <2>4. RewriteStays(k, p)
    <3>1. CASE m.x.ew = "read"
      BY <2>1, <2>2, <3>1, EwReadStays DEF HandleEraseWrite
    <3>2. CASE m.x.ew = "erase"
      BY <2>1, <2>2, <3>2, EwEraseStays DEF HandleEraseWrite
    <3>3. CASE m.x.ew = "write"
      BY <1>2, <2>1, <2>2, <3>3, EwWriteStays DEF HandleEraseWrite
    <3>4. CASE m.x.ew = "init"
      <4>1. ~Alters(m.dev)
        BY <2>2, <3>4 DEF RewritesAt
      <4> QED
        BY <2>1, <2>2, <3>4, <4>1, EwInitStays DEF HandleEraseWrite
    <3> QED
      BY <2>3, <3>1, <3>2, <3>3, <3>4
  <2> QED
    BY <1>6, <2>4 DEF RewriteStays, WorksFor
<1> QED
  BY <1>2, <1>3, <1>4, <1>5, <1>6

(***************************************************************************)
(* What the running chain touches, the request asks for.                   *)
(***************************************************************************)

(* The cells of a block between lo and hi - 1 lie between those blocks.    *)
LEMMA BlockBetween ==
    ASSUME NEW q \in Nat, NEW lo \in Nat, NEW hi \in Nat, NEW k \in Nat, lo <= q, q < hi
    PROVE  lo * k <= q * k /\ q * k + k <= hi * k
<1>1. lo * k <= q * k /\ (q + 1) * k <= hi * k
  BY MulMono
<1> QED
  BY <1>1, MulSucc

(* The block a machine is at is one of those it was given.                 *)
LEMMA AtBlock ==
    ASSUME NEW x \in XferType, NEW size, NEW lo, NEW hi \in Nat, At(x, size, lo, hi)
    PROVE  \E q \in Nat : lo <= q /\ q < hi /\ x.blockAddress = q * size
<1>1. x.nBlocks \in Nat /\ x.nBlocks >= 1
  BY DEF XferType, At
<1>2. PICK q \in Nat : lo <= q /\ q + x.nBlocks <= hi /\ x.blockAddress = q * size
  BY DEF At
<1> QED
  BY <1>1, <1>2

(* The erase of sector q changes the cells of sector q, and no other.      *)
LEMMA SectorTouched ==
    ASSUME NEW q \in Nat, q < NumSectors, NEW c \in Cells,
           SectorOf(c) = SectorOf((q * SectorSize) % FlashSize)
    PROVE  SectorOf(c) = q /\ q * SectorSize <= c /\ c < q * SectorSize + SectorSize
<1>1. /\ SectorSize \in Nat \ {0} /\ NumSectors \in Nat /\ 0 \in Nat
      /\ FlashSize \in Nat \ {0} /\ c \in Nat
  BY Sizes
<1>2. FlashSize = NumSectors * SectorSize
  BY <1>1 DEF FlashSize
<1>3. q * SectorSize + SectorSize <= NumSectors * SectorSize
  BY <1>1, BlockBetween
<1>4. q * SectorSize \in Nat
  BY <1>1, Product
<1>5. q * SectorSize < FlashSize
  <2> DEFINE qs == q * SectorSize
             ns == NumSectors * SectorSize
  <2>1. qs + SectorSize <= ns /\ qs \in Nat /\ FlashSize = ns
    BY <1>2, <1>3, <1>4
  <2> HIDE DEF qs, ns
  <2>2. qs < FlashSize
    BY <1>1, <2>1
  <2> QED
    BY <2>2 DEF qs
<1>6. (q * SectorSize) % FlashSize = q * SectorSize
  BY <1>1, <1>4, <1>5, ModBound
<1>7. SectorOf(q * SectorSize) = q
  <2>1. q * SectorSize < q * SectorSize + SectorSize
    BY <1>1, <1>4
  <2> QED
    BY <1>1, <1>4, <2>1, DivOf DEF SectorOf
<1>8. SectorOf(c) = q
  BY <1>6, <1>7
<1> QED
  BY <1>1, <1>8, DivBounds DEF SectorOf

(* A page between the first and the last of a sector is in that sector.    *)
LEMMA PageInSector ==
    ASSUME NEW s \in Nat, NEW q \in Nat, NEW c \in Nat,
           s * PagesPerSector <= q, q < s * PagesPerSector + PagesPerSector,
           q * PageSize <= c, c < q * PageSize + PageSize
    PROVE  SectorOf(c) = s
<1>1. PageSize \in Nat \ {0} /\ PagesPerSector \in Nat \ {0}
  BY Sizes
<1>2. q \div PagesPerSector = s
  BY <1>1, DivOf
<1>3. c \div PageSize = q
  BY <1>1, DivOf
<1>4. c \div (PageSize * PagesPerSector) = (c \div PageSize) \div PagesPerSector
  BY <1>1, SMT
<1> QED
  BY <1>2, <1>3, <1>4 DEF SectorOf, SectorSize

(* The cells of the blocks of a request are asked for.                     *)
LEMMA InAsked ==
    ASSUME NEW p \in Request, NEW q \in Nat, NEW c \in Nat,
           p.start <= q, q < p.start + p.n,
           q * BlockSize(p.op) <= c, c < q * BlockSize(p.op) + BlockSize(p.op)
    PROVE  c \in Asked(p)
<1> DEFINE k == BlockSize(p.op)
           lo == p.start
           hi == p.start + p.n
<1>1. k \in Nat /\ lo \in Nat /\ hi \in Nat
  BY BlockSizes DEF Request
<1>2. lo * k <= q * k /\ q * k + k <= hi * k
  <2> HIDE DEF k, lo, hi
  <2>1. lo <= q /\ q < hi
    BY DEF lo, hi
  <2> QED
    BY <1>1, <2>1, BlockBetween
<1>3. lo * k \in Nat /\ q * k \in Nat /\ hi * k \in Nat
  <2> HIDE DEF k, lo, hi
  <2> QED
    BY <1>1, Product
<1> DEFINE lok == lo * k
           qk == q * k
           hik == hi * k
<1>4. Asked(p) = lok .. hik - 1
  BY DEF Asked, FirstCell
<1>5. qk <= c /\ c < qk + k
  OBVIOUS
<1>6. lok <= qk /\ qk + k <= hik /\ lok \in Nat /\ qk \in Nat /\ hik \in Nat
  BY <1>2, <1>3
<1> HIDE DEF lok, qk, hik, k
<1>7. c \in lok .. hik - 1
  BY <1>1, <1>5, <1>6
<1> QED
  BY <1>4, <1>7

(* The whole sector in which what is left of an erase-write begins belongs *)
(* to its footprint.                                                       *)
LEMMA SectorInFootprint ==
    ASSUME NEW p \in Request, p.op = "erasewrite", p.start + p.n <= NumBlocks(p.op),
           NEW first \in Nat, p.start <= first, first < p.start + p.n
    PROVE  /\ first \div PagesPerSector \in Nat
           /\ first \div PagesPerSector < NumSectors
           /\ \A c \in Cells : SectorOf(c) = first \div PagesPerSector => c \in Footprint(p)
<1> DEFINE s == first \div PagesPerSector
           d == first * PageSize
<1>1. /\ PageSize \in Nat \ {0} /\ PagesPerSector \in Nat \ {0} /\ NumSectors \in Nat \ {0}
      /\ p.start \in Nat /\ p.n \in Nat
  BY Sizes DEF Request
<1>2. s \in Nat /\ s * PagesPerSector <= first
  BY <1>1, Quotient, DivBounds
<1>3. first < NumSectors * PagesPerSector
  <2>1. NumBlocks(p.op) = NumPages
    BY DEF NumBlocks
  <2>2. NumPages \in Nat /\ NumPages = NumSectors * PagesPerSector
    BY <1>1, Sizes DEF NumPages
  <2> QED
    BY <1>1, <2>1, <2>2
<1>4. s < NumSectors
  <2> SUFFICES ASSUME NumSectors <= s PROVE FALSE
    BY <1>1, <1>2
  <2>1. NumSectors * PagesPerSector <= s * PagesPerSector
    BY <1>1, <1>2, MulMono
  <2>2. s * PagesPerSector \in Nat /\ NumSectors * PagesPerSector \in Nat
    BY <1>1, <1>2, Product
  <2> DEFINE sp == s * PagesPerSector
             np == NumSectors * PagesPerSector
  <2>3. sp <= first /\ first < np /\ np <= sp /\ sp \in Nat /\ np \in Nat
    BY <1>2, <1>3, <2>1, <2>2
  <2> HIDE DEF sp, np
  <2> QED
    BY <2>3
<1>5. d \in Nat
  BY <1>1, Product
<1>6. d \in Asked(p)
  <2>1. BlockSize(p.op) = PageSize
    BY DEF BlockSize
  <2>2. first * PageSize <= d /\ d < first * PageSize + PageSize
    BY <1>1, <1>5
  <2> HIDE DEF d
  <2> QED
    BY <1>5, <2>1, <2>2, InAsked
<1>7. SectorOf(d) = s
  BY <1>1, DivProduct DEF SectorOf, SectorSize
<1>8. Footprint(p) = {c \in Cells : \E e \in Asked(p) : SectorOf(c) = SectorOf(e)}
  BY DEF Footprint
<1> HIDE DEF s, d
<1>9. \A c \in Cells : SectorOf(c) = s => c \in Footprint(p)
  BY <1>6, <1>7, <1>8
<1> QED
  BY <1>2, <1>4, <1>9 DEF s

(* A chain that may change the flash, in the service of a request, touches *)
(* no cell outside its footprint.                                          *)
LEMMA TouchesFootprint ==
    ASSUME NEW x \in XferType, NEW d, DevFine(d), Alters(d), NEW b \in BufType,
           NEW p \in Request, p.start + p.n <= NumBlocks(p.op), WorksFor(x, d, b, p),
           NEW c \in Cells, c \in Touches(d)
    PROVE  c \in Footprint(p)
<1>1. /\ p.op \in {"read", "write", "erase", "erasewrite"}
      /\ p.start \in Nat /\ p.n \in Nat /\ p.start + p.n \in Nat /\ c \in Nat
  BY Sizes DEF Request, Ops
<1>2. PageSize \in Nat /\ SectorSize \in Nat /\ PagesPerSector \in Nat
  BY Sizes
<1>3. ASSUME NEW q \in Nat, d.op = "write", d.addr = q * PageSize
      PROVE  q * PageSize <= c /\ c < q * PageSize + PageSize
  <2> DEFINE qp == q * PageSize
  <2>1. c \in qp .. qp + PageSize - 1 /\ qp \in Nat
    BY <1>2, <1>3, Product DEF Touches
  <2> HIDE DEF qp
  <2>2. qp <= c /\ c < qp + PageSize
    BY <1>1, <1>2, <2>1
  <2> QED
    BY <2>2 DEF qp
<1>4. ASSUME NEW q \in Nat, d.op = "erase", d.addr = q * SectorSize, q < NumSectors
      PROVE  SectorOf(c) = q /\ q * SectorSize <= c /\ c < q * SectorSize + SectorSize
  <2>1. SectorOf(c) = SectorOf((q * SectorSize) % FlashSize)
    BY <1>4 DEF Touches
  <2> QED
    BY <1>4, <2>1, SectorTouched
<1>5. CASE p.op = "read"
  BY <1>5 DEF WorksFor
<1>6. CASE p.op = "write"
  <2>1. /\ WritesAt(x, d, p.start, p.start + p.n) /\ Footprint(p) = Asked(p)
        /\ BlockSize(p.op) = PageSize
    BY <1>6 DEF WorksFor, Footprint, BlockSize
  <2>2. d.op = "write" /\ d.addr = x.blockAddress /\ At(x, PageSize, p.start, p.start + p.n)
    BY <2>1 DEF WritesAt
  <2>3. PICK q \in Nat : p.start <= q /\ q < p.start + p.n /\ x.blockAddress = q * PageSize
    BY <1>1, <2>2, AtBlock
  <2>4. q * PageSize <= c /\ c < q * PageSize + PageSize
    BY <1>3, <2>2, <2>3
  <2> QED
    BY <1>1, <2>1, <2>3, <2>4, InAsked
<1>7. CASE p.op = "erase"
  <2>1. /\ ErasesAt(x, d, p.start, p.start + p.n) /\ Footprint(p) = Asked(p)
        /\ BlockSize(p.op) = SectorSize /\ NumBlocks(p.op) = NumSectors
    BY <1>7 DEF WorksFor, Footprint, BlockSize, NumBlocks
  <2>2. d.op = "erase" /\ d.addr = x.blockAddress /\ At(x, SectorSize, p.start, p.start + p.n)
    BY <2>1 DEF ErasesAt
  <2>3. PICK q \in Nat : p.start <= q /\ q < p.start + p.n /\ x.blockAddress = q * SectorSize
    BY <1>1, <2>2, AtBlock
  <2>4. q < NumSectors
    BY <1>1, <2>1, <2>3, Sizes
  <2>5. q * SectorSize <= c /\ c < q * SectorSize + SectorSize
    BY <1>4, <2>2, <2>3, <2>4
  <2> QED
    BY <1>1, <2>1, <2>3, <2>5, InAsked
<1>8. CASE p.op = "erasewrite"
  <2> DEFINE s == b.blockStart \div PagesPerSector
  <2>1. RewritesAt(x, d, b, p) /\ b.blockStart \in Nat
    BY <1>8 DEF WorksFor, BufType
  <2>2. x.ew \in {"erase", "write"} /\ x.sector = s
    BY <2>1 DEF RewritesAt, XferType
  <2>3. /\ s \in Nat /\ s < NumSectors
        /\ \A e \in Cells : SectorOf(e) = s => e \in Footprint(p)
    BY <1>8, <2>1, SectorInFootprint DEF RewritesAt
  <2> HIDE DEF s
  <2>4. CASE x.ew = "erase"
    <3>1. ErasesAt(x, d, s, s + 1)
      BY <2>1, <2>2, <2>4 DEF RewritesAt
    <3>2. d.op = "erase" /\ d.addr = x.blockAddress /\ At(x, SectorSize, s, s + 1)
      BY <3>1 DEF ErasesAt
    <3>3. PICK q \in Nat : s <= q /\ q < s + 1 /\ x.blockAddress = q * SectorSize
      BY <2>3, <3>2, AtBlock
    <3>4. q = s
      BY <2>3, <3>3
    <3> QED
      BY <1>4, <2>3, <3>2, <3>3, <3>4
  <2>5. CASE x.ew = "write"
    <3> DEFINE sp == s * PagesPerSector
    <3>1. WritesAt(x, d, sp, sp + PagesPerSector) /\ sp \in Nat /\ sp + PagesPerSector \in Nat
      <4>1. sp \in Nat
        BY <1>2, <2>3, Product
      <4> QED
        BY <1>2, <2>1, <2>2, <2>5, <4>1 DEF RewritesAt
    <3> HIDE DEF sp
    <3>2. d.op = "write" /\ d.addr = x.blockAddress /\ At(x, PageSize, sp, sp + PagesPerSector)
      BY <3>1 DEF WritesAt
    <3>3. PICK q \in Nat : /\ sp <= q /\ q < sp + PagesPerSector
                           /\ x.blockAddress = q * PageSize
      BY <3>1, <3>2, AtBlock
    <3>4. q * PageSize <= c /\ c < q * PageSize + PageSize
      BY <1>3, <3>2, <3>3
    <3>5. SectorOf(c) = s
      BY <1>1, <2>3, <3>3, <3>4, PageInSector DEF sp
    <3> QED
      BY <2>3, <3>5
  <2> QED
    BY <2>2, <2>4, <2>5
<1> QED
  BY <1>1, <1>5, <1>6, <1>7, <1>8

(***************************************************************************)
(* The inductive invariant, and its theorem.                               *)
(***************************************************************************)

(* Nothing that could change the flash runs between two requests, and in a *)
(* request only what works for it.                                         *)
ChainKnown ==
    /\ DevFine(dev)
    /\ ~ready => ~dev.active /\ state = "queue"
    /\ state = "queue" => ~Alters(dev)
    /\ pending # NoRequest =>
         /\ pending.start + pending.n <= NumBlocks(pending.op)
         /\ state = "queue" => Whole(buf, pending)
         /\ state = "transfer" => WorksFor(xfer, dev, buf, pending)

DamageInv == Inv /\ ChainKnown /\ DamageConfined

(* The device is closed in the initial state.                              *)
LEMMA InitDamage == Init => DamageInv
<1> SUFFICES ASSUME Init PROVE DamageInv
  OBVIOUS
<1>1. Inv
  BY InitInv
<1>2. DevFine(dev) /\ ~Alters(dev) /\ ~dev.active
  BY QuietFine DEF Init, Quiet
<1> QED
  BY <1>1, <1>2 DEF Init, DamageInv, ChainKnown, DamageConfined

(* The machines, reset for a new request, are about to work for it.        *)
LEMMA FreshWorks ==
    ASSUME NEW x \in XferType, x.write = "init", x.erase = "init", x.ew = "init",
           NEW d, ~Alters(d), NEW b \in BufType, NEW p \in Request, Whole(b, p)
    PROVE  WorksFor(x, d, b, p)
<1>1. p.start \in Nat /\ p.n \in Nat /\ p.n >= 1
  BY DEF Request
<1>2. b.blockStart = p.start /\ b.nBlocks = p.n
  BY DEF Whole
<1>3. WritesAt(x, d, p.start, p.start + p.n) /\ ErasesAt(x, d, p.start, p.start + p.n)
  BY DEF WritesAt, ErasesAt
<1>4. RewritesAt(x, d, b, p)
  BY <1>1, <1>2 DEF RewritesAt
<1> QED
  BY <1>3, <1>4 DEF WorksFor

(* One call of the transfer function from Tasks, on a request that waits.  *)
LEMMA StepChain ==
    ASSUME DamageInv, ready, pending # NoRequest, NEW x \in XferType,
           NEW b \in BufType, b.op = buf.op, WorksFor(x, dev, b, pending), Step(x, b)
    PROVE  ChainKnown' /\ DamageConfined'
<1> DEFINE m0 == [x |-> x, dev |-> dev, st |-> "error", buf |-> b, ram |-> ram]
           m == Transfer(m0)
<1>1. MachineOK(m0) /\ m0.x = x /\ m0.dev = dev /\ m0.buf = b
  BY DEF MachineOK, Machine, DamageInv, Inv, TypeInv, TypeOK, DevStatus
<1>2. pending \in Request /\ b.op = pending.op /\ DevFine(dev)
  BY DEF DamageInv, ChainKnown, Inv, TypeInv, TypeOK, BufferAccounted
<1>3. /\ DevFine(m.dev)
      /\ m.st = "busy" => WorksFor(m.x, m.dev, m.buf, pending)
      /\ m.st # "busy" => ~Alters(m.dev)
  <2> HIDE DEF m0
  <2> QED
    BY <1>1, <1>2, TransferStays
<1>4. /\ xfer' = m.x /\ dev' = m.dev /\ ready' = ready /\ flash' = flash
      /\ IF m.st = "busy"
         THEN state' = "transfer" /\ buf' = m.buf /\ pending' = pending
         ELSE state' = "queue" /\ pending' = NoRequest
  BY DEF Step, CallHandler
<1> HIDE DEF m
<1>5. CASE m.st = "busy"
  BY <1>3, <1>4, <1>5 DEF DamageInv, ChainKnown, DamageConfined
<1>6. CASE m.st # "busy"
  BY <1>3, <1>4, <1>6 DEF DamageInv, ChainKnown, DamageConfined
<1> QED
  BY <1>5, <1>6

(* Every action of clients that wait keeps the invariant.                  *)
LEMMA NextDamage ==
    ASSUME CloseInFlight = FALSE
    PROVE  DamageInv /\ [Next]_vars => DamageInv'
<1> SUFFICES ASSUME DamageInv, [Next]_vars PROVE DamageInv'
  OBVIOUS
<1>1. Inv'
  BY NextInv DEF DamageInv
<1>2. Inv
  BY DEF DamageInv
<1>3. ASSUME NEW s \in Slots, Open(s) PROVE DamageInv'
  <2>1. /\ state' = state /\ xfer' = xfer /\ buf' = buf /\ pending' = pending /\ flash' = flash
        /\ ready' = TRUE
    BY <1>3 DEF Open, queueVars
  <2>2. CASE ready
    BY <1>1, <1>3, <2>1, <2>2 DEF Open, DamageInv, ChainKnown, DamageConfined
  <2>3. CASE ~ready
    <3>1. ~Alters(dev) /\ state = "queue" /\ DevFine(dev) /\ dev \in DevType(Regions)
      BY <2>3 DEF DamageInv, ChainKnown, Alters, Inv, TypeInv, TypeOK
    <3>2. dev' = Submit(dev, "jedec", dev.ptr, 0, 0).dev /\ "jedec" \in DevOps
      BY <1>3, <2>3 DEF Open, OpenAndIdentify, DevOps
    <3>3. DevFine(dev') /\ ~Alters(dev')
      BY <3>1, <3>2, SubmitFine
    <3> QED
      BY <1>1, <2>1, <3>1, <3>3 DEF DamageInv, ChainKnown, DamageConfined
  <2> QED
    BY <2>2, <2>3
<1>4. ASSUME NEW s \in Slots, Close(s) PROVE DamageInv'
  <2>1. ~Waits(s)
    BY <1>4 DEF Close
  <2>2. ~(head = Buf /\ buf.client = s)
    BY <1>2, <2>1, WaitingHandle, ConfigAssumption DEF Inv, BufferAccounted
  <2>3. /\ state' = state /\ xfer' = xfer /\ buf' = buf /\ pending' = pending /\ flash' = flash
        /\ ready' = ready /\ dev' = dev
    BY <1>4, <2>1, <2>2 DEF Close, RemoveClientBufferObjects
  <2> QED
    BY <1>1, <2>3 DEF DamageInv, ChainKnown, DamageConfined
<1>5. ASSUME NEW s \in Slots, NEW op \in Ops, NEW start \in Nat, NEW n \in Nat \ {0},
             Async(s, op, start, n)
      PROVE  DamageInv'
  <2>1. free = Buf /\ head = Null /\ state = "queue"
    BY <1>2, <1>5, ConfigAssumption
       DEF Async, AllocateBufferObject, Inv, BufferAccounted, TypeInv, TypeOK
  <2>2. /\ ready' = ready /\ state' = state /\ dev' = dev /\ flash' = flash
        /\ pending'.op = op /\ pending'.start = start /\ pending'.n = n
        /\ pending'.before = flash
        /\ buf'.blockStart = start /\ buf'.nBlocks = n
        /\ start + n <= NumBlocks(op)
    BY <1>5 DEF Async, AllocateBufferObject
  <2>3. ChainKnown'
    BY <2>1, <2>2 DEF DamageInv, ChainKnown, Whole
  <2>4. DamageConfined'
    BY <2>2 DEF DamageConfined
  <2> QED
    BY <1>1, <2>3, <2>4 DEF DamageInv
<1>6. CASE TasksIdle
  BY <1>1, <1>6 DEF TasksIdle, DamageInv, ChainKnown, DamageConfined
<1>7. CASE TasksStart
  <2> DEFINE x == [xfer EXCEPT !.read = "init", !.write = "init", !.erase = "init",
                               !.ew = "init"]
             b == [buf EXCEPT !.status = "in_progress"]
  <2>1. pending # NoRequest /\ pending \in Request
    BY <1>2, <1>7, ConfigAssumption DEF TasksStart, Inv, BufferAccounted, TypeInv, TypeOK
  <2>2. x \in XferType /\ x.write = "init" /\ x.erase = "init" /\ x.ew = "init"
    BY <1>2 DEF Inv, TypeInv, TypeOK, XferType
  <2>3. b \in BufType /\ b.op = buf.op /\ Whole(b, pending)
    BY <1>2, <1>7, <2>1
       DEF TasksStart, DamageInv, ChainKnown, Inv, TypeInv, TypeOK, BufType, Whole
  <2>4. ready /\ ~Alters(dev) /\ Step(x, b)
    BY <1>7 DEF TasksStart, DamageInv, ChainKnown
  <2> HIDE DEF x, b
  <2>5. WorksFor(x, dev, b, pending)
    BY <2>1, <2>2, <2>3, <2>4, FreshWorks
  <2> QED
    BY <1>1, <2>1, <2>2, <2>3, <2>4, <2>5, StepChain DEF DamageInv
<1>8. CASE TasksTransfer
  <2>1. head = Buf /\ pending # NoRequest /\ ready /\ Step(xfer, buf)
    BY <1>2, <1>8, ConfigAssumption DEF TasksTransfer, Inv, BufferAccounted
  <2>2. xfer \in XferType /\ buf \in BufType
    BY <1>2 DEF Inv, TypeInv, TypeOK
  <2>3. WorksFor(xfer, dev, buf, pending)
    BY <1>8, <2>1 DEF TasksTransfer, DamageInv, ChainKnown
  <2> QED
    BY <1>1, <2>1, <2>2, <2>3, StepChain DEF DamageInv
<1>9. CASE DeviceDone
  <2>1. PICK o \in Finish(dev, flash, ram) : dev' = o.dev /\ flash' = o.flash
    BY <1>9 DEF DeviceDone
  <2>2. /\ dev.active /\ ready' = ready /\ state' = state /\ xfer' = xfer /\ buf' = buf
        /\ pending' = pending
    BY <1>9 DEF DeviceDone, queueVars
  <2>3. DevFine(dev) /\ dev.armed \in BOOLEAN /\ flash \in FlashType
    BY <1>2 DEF DamageInv, ChainKnown, Inv, TypeInv, TypeOK, DevType, FlashType
  <2>4. \A c \in Cells : ~(Alters(dev) /\ c \in Touches(dev)) => flash'[c] = flash[c]
    BY <2>1, <2>2, <2>3, FinishStays
  <2>5. \E st, ptr : dev' = Quiet(st, ptr)
    BY <2>1 DEF Finish
  <2>6. DevFine(dev') /\ ~Alters(dev') /\ ~dev'.active
    BY <2>5, QuietFine DEF Quiet
  <2>7. ASSUME pending # NoRequest, NEW c \in Cells, c \notin Footprint(pending)
        PROVE  flash'[c] = pending.before[c]
    <3>1. ~(Alters(dev) /\ c \in Touches(dev))
      <4> SUFFICES ASSUME Alters(dev), c \in Touches(dev) PROVE FALSE
        OBVIOUS
      <4>1. state = "transfer"
        BY <1>2 DEF DamageInv, ChainKnown, Inv, TypeInv, TypeOK
      <4>2. /\ WorksFor(xfer, dev, buf, pending)
            /\ pending.start + pending.n <= NumBlocks(pending.op)
        BY <2>7, <4>1 DEF DamageInv, ChainKnown
      <4>3. xfer \in XferType /\ buf \in BufType /\ pending \in Request
        BY <1>2, <2>7 DEF Inv, TypeInv, TypeOK
      <4> QED
        BY <2>3, <2>7, <4>2, <4>3, TouchesFootprint
    <3> QED
      BY <2>4, <2>7, <3>1 DEF DamageInv, DamageConfined
  <2>8. DamageConfined'
    BY <2>2, <2>7 DEF DamageConfined
  <2>9. ASSUME pending # NoRequest, WorksFor(xfer, dev, buf, pending)
        PROVE  WorksFor(xfer, dev', buf, pending)
    BY <2>6, <2>9 DEF WorksFor, WritesAt, ErasesAt, RewritesAt
  <2>10. ChainKnown'
    BY <2>2, <2>6, <2>9 DEF DamageInv, ChainKnown
  <2> QED
    BY <1>1, <2>8, <2>10 DEF DamageInv
<1>10. CASE UNCHANGED vars
  BY <1>1, <1>10 DEF vars, queueVars, DamageInv, ChainKnown, DamageConfined
<1>11. \A op \in Ops : NumBlocks(op) \in Nat
  BY Sizes DEF NumBlocks, Ops
<1> QED
  BY <1>3, <1>4, <1>5, <1>6, <1>7, <1>8, <1>9, <1>10, <1>11 DEF Next, Tasks

(* With clients that wait before they close, at every moment of a request, *)
(* so also where power fails or the device reports an error, the flash     *)
(* differs from what it was when the request was accepted only in the      *)
(* blocks the request names or, for an erase-write, in their sectors.      *)
THEOREM DamageStaysInside ==
    ASSUME CloseInFlight = FALSE
    PROVE  Spec => []DamageConfined
<1>1. DamageInv => DamageConfined
  BY DEF DamageInv
<1> QED
  BY <1>1, InitDamage, NextDamage, PTL DEF Spec
=============================================================================
