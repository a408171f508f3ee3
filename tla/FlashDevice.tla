----------------------------- MODULE FlashDevice -----------------------------
(***************************************************************************)
(* What the AT25DF serial flash and its driver promise to the MEMORY       *)
(* driver above them (drv_at25df.c), as operators on a record `dev`.       *)
(*                                                                         *)
(* A transfer is a chain of SPI transfers, each started from the interrupt *)
(* of the one before.  The chain is one step here: the request is          *)
(* submitted, and some time later the last interrupt of the chain reports  *)
(* it (Finish).  What matters to the caller stays visible:                 *)
(*   - reads and page writes are refused while a transfer is BUSY, sector  *)
(*     erases are not;                                                     *)
(*   - a submission while the SPI is busy is refused by the SPI, but only  *)
(*     after the driver has overwritten the state of the running chain and *)
(*     released its chip select: the chain is then `hijacked`, and what it *)
(*     does to the flash and to the memory is not known.                   *)
(*                                                                         *)
(* Addresses count cells.  A page is PageSize cells (256 bytes in the      *)
(* program), a sector PagesPerSector pages (16).  A cell's content is what *)
(* the properties must tell apart: erased, a known datum, or unknown.      *)
(***************************************************************************)
EXTENDS Integers

CONSTANTS PageSize, PagesPerSector, NumSectors, Erased, Junk

ASSUME GeometryAssumption ==
    /\ PageSize \in Nat \ {0}
    /\ PagesPerSector \in Nat \ {0}
    /\ NumSectors \in Nat \ {0}

SectorSize == PageSize * PagesPerSector
FlashSize  == SectorSize * NumSectors
NumPages   == PagesPerSector * NumSectors
Cells      == 0 .. FlashSize - 1

(* A datum <<w, k>> is cell k of what writer w put in its buffer.          *)
Content == {Erased, Junk} \cup (Nat \X Nat)

SectorOf(c) == c \div SectorSize

-----------------------------------------------------------------------------
(* The state of the driver.  `ptr` is the memory the transfer uses, a      *)
(* region and an offset in it; `armed` says that the chain may have set    *)
(* the write enable latch; `spoiled` are the memory cells a hijacked chain *)
(* may have been receiving into.                                           *)

DevStatus == {"busy", "completed", "error"}
DevOps    == {"none", "jedec", "read", "write", "erase"}

DevType(Regions) ==
    [status : DevStatus, active : BOOLEAN, hijacked : BOOLEAN, armed : BOOLEAN,
     op : DevOps, addr : Nat, len : Nat, ptr : Regions \X Nat,
     spoiled : SUBSET (Regions \X Nat)]

(* Mutant: the last interrupt forgets to set the status. *)
Quiet_StillBusy(status, ptr) ==
    [status |-> "busy", active |-> FALSE, hijacked |-> FALSE, armed |-> FALSE,
     op |-> "none", addr |-> 0, len |-> 0, ptr |-> ptr, spoiled |-> {}]

(* The driver between two transfers.                                       *)
Quiet(status, ptr) ==
    [status |-> status, active |-> FALSE, hijacked |-> FALSE, armed |-> FALSE,
     op |-> "none", addr |-> 0, len |-> 0, ptr |-> ptr, spoiled |-> {}]

(* The memory cells a read of n cells into ptr fills.                      *)
Target(op, ptr, n) ==
    IF op = "read" THEN {ptr[1]} \X (ptr[2] .. ptr[2] + n - 1) ELSE {}

(* Save the request, mark the driver BUSY and start the first SPI          *)
(* transfer.  If the SPI is still busy it refuses: the status becomes      *)
(* ERROR and the running chain goes on with the state just overwritten.    *)
Submit(dev, op, ptr, n, addr) ==
    LET started == [dev EXCEPT !.op = op, !.ptr = ptr, !.len = n, !.addr = addr]
    IN  IF dev.active
        THEN [ok  |-> FALSE,
              dev |-> [started EXCEPT
                         !.status   = "error",
                         !.hijacked = TRUE,
                         !.spoiled  = @ \cup Target(dev.op, dev.ptr, dev.len)
                                        \cup Target(op, ptr, n)]]
        ELSE [ok  |-> TRUE,
              dev |-> [started EXCEPT !.status = "busy", !.active = TRUE,
                                      !.armed = op \in {"write", "erase"}]]

Refused(dev) == [ok |-> FALSE, dev |-> dev]

(* DRV_AT25DF_Read *)
Read(dev, ptr, n, addr) ==
    IF dev.status = "busy" \/ addr + n > FlashSize
    THEN Refused(dev)
    ELSE Submit(dev, "read", ptr, n, addr)

(* DRV_AT25DF_PageWrite *)
PageWrite(dev, ptr, addr) ==
    IF dev.status = "busy" \/ addr + PageSize > FlashSize
    THEN Refused(dev)
    ELSE Submit(dev, "write", ptr, PageSize, addr)

(* DRV_AT25DF_SectorErase: neither the status nor the address is checked.  *)
SectorErase(dev, addr) == Submit(dev, "erase", dev.ptr, 0, addr)

(* DRV_AT25DF_Open waits for the unlock to end; DRV_AT25DF_GeometryGet     *)
(* starts the identification read and does not wait for it.                *)
OpenAndIdentify(dev) == Submit(dev, "jedec", dev.ptr, 0, 0).dev

-----------------------------------------------------------------------------
(* Programming a page can only clear bits: it stores the datum in a cell   *)
(* that is erased, keeps the cell where the datum has no zero bit, and     *)
(* otherwise leaves a mix.                                                 *)
Programmed(old, new) ==
    IF old = Erased THEN new
    ELSE IF new = Erased \/ new = old THEN old
    ELSE Junk

MemoryAt(ram, ptr, k) ==
    LET o == ptr[2] + k
    IN  IF o \in DOMAIN ram[ptr[1]] THEN ram[ptr[1]][o] ELSE Junk

WithPage(flash, ram, ptr, addr) ==
    [c \in Cells |-> IF c \in addr .. addr + PageSize - 1
                     THEN Programmed(flash[c], MemoryAt(ram, ptr, c - addr))
                     ELSE flash[c]]

WithSectorErased(flash, addr) ==
    [c \in Cells |-> IF SectorOf(c) = SectorOf(addr % FlashSize)
                     THEN Erased ELSE flash[c]]

WithRead(ram, flash, ptr, n, addr) ==
    [ram EXCEPT ![ptr[1]] =
        [o \in DOMAIN @ |-> IF o \in ptr[2] .. ptr[2] + n - 1
                            THEN flash[addr + o - ptr[2]] ELSE @[o]]]

WithSpoiled(ram, cells) ==
    [r \in DOMAIN ram |-> [o \in DOMAIN ram[r] |->
        IF <<r, o>> \in cells THEN Junk ELSE ram[r][o]]]

(* The flash after a hijacked chain: unchanged, or, if the latch was set,  *)
(* one page with unknown content or one sector erased.                     *)
HijackedFlash(dev, flash) ==
    {flash} \cup
    IF ~dev.armed THEN {}
    ELSE {[c \in Cells |-> IF c \div PageSize = p THEN Junk ELSE flash[c]] :
              p \in 0 .. NumPages - 1}
         \cup {WithSectorErased(flash, s * SectorSize) : s \in 0 .. NumSectors - 1}

(* All that the end of the running chain may leave behind.  The            *)
(* identification fails when another part is fitted.                       *)
Finish(dev, flash, ram) ==
    LET done(status, f, m) == [dev |-> Quiet(status, dev.ptr), flash |-> f, ram |-> m]
    IN  IF dev.hijacked
        THEN {done("completed", f, WithSpoiled(ram, dev.spoiled)) :
                  f \in HijackedFlash(dev, flash)}
        ELSE CASE dev.op = "read"  -> {done("completed", flash,
                                            WithRead(ram, flash, dev.ptr, dev.len, dev.addr))}
               [] dev.op = "write" -> {done("completed",
                                            WithPage(flash, ram, dev.ptr, dev.addr), ram)}
               [] dev.op = "erase" -> {done("completed",
                                            WithSectorErased(flash, dev.addr), ram)}
               [] OTHER -> {done("completed", flash, ram), done("error", flash, ram)}
=============================================================================
