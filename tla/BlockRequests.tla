----------------------------- MODULE BlockRequests -----------------------------
(***************************************************************************)
(* Requests on the blocks of a flash memory: what each kind counts its     *)
(* blocks in, which cells it may touch and what it leaves when it          *)
(* succeeds.  A request r asks for r.n blocks from block r.start; a client *)
(* that writes has put its data in a buffer, r.source.                     *)
(***************************************************************************)
EXTENDS FlashDevice

Ops == {"read", "write", "erase", "erasewrite"}

(* mediaGeometryTable: the number of blocks and the cells in a block.      *)
NumBlocks(op) == CASE op = "read" -> FlashSize
                   [] op = "erase" -> NumSectors
                   [] OTHER -> NumPages
BlockSize(op) == CASE op = "read" -> 1
                   [] op = "erase" -> SectorSize
                   [] OTHER -> PageSize

FirstCell(r) == r.start * BlockSize(r.op)

Asked(r) == FirstCell(r) .. (r.start + r.n) * BlockSize(r.op) - 1

Footprint(r) ==
    CASE r.op = "read" -> {}
      [] r.op = "erasewrite" -> {c \in Cells : \E d \in Asked(r) : SectorOf(c) = SectorOf(d)}
      [] OTHER -> Asked(r)

FlashAfter(r, before) ==
    [c \in Cells |->
        IF r.op = "read" \/ c \notin Asked(r) THEN before[c]
        ELSE CASE r.op = "erase" -> Erased
               [] r.op = "write" -> Programmed(before[c], r.source[c - FirstCell(r)])
               [] OTHER -> r.source[c - FirstCell(r)]]

BufferAfter(r, before) ==
    [k \in Cells |-> IF r.op = "read" /\ k < r.n THEN before[r.start + k] ELSE r.source[k]]
=============================================================================
