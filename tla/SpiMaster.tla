------------------------------ MODULE SpiMaster ------------------------------
(***************************************************************************)
(* The interrupt-driven SPI master (plib_sercom1_spi_master.c) on the      *)
(* SERCOM, byte by byte, as operators on a record `spi`: the fields of     *)
(* sercom1SPIObj, the flag isLastByteTransferInProgress, and the           *)
(* peripheral (data register, shift register, receive FIFO of two bytes,   *)
(* enabled interrupts, transmit-complete flag).                            *)
(*                                                                         *)
(* The peripheral shifts a byte at any time (Shifted) and the interrupt is *)
(* served at any time after it was raised (Served), so every order of the  *)
(* flags RXC, DRE and TXC is met.  Characters have eight bits.             *)
(***************************************************************************)
EXTENDS Integers, Sequences

NoByte == <<"none", 0>>     \* an empty register; on the line it reads 0xFF
NoPtr  == <<"null", 0>>

SpiReset ==
    [busy |-> FALSE, tx |-> NoPtr, txSize |-> 0, txCount |-> 0,
     rx |-> NoPtr, rxSize |-> 0, rxCount |-> 0, dummy |-> 0, last |-> FALSE,
     int |-> {}, full |-> FALSE, data |-> NoByte, shifting |-> FALSE,
     shift |-> NoByte, fifo |-> <<>>, txc |-> FALSE]

-----------------------------------------------------------------------------
(* The peripheral.                                                         *)

(* A write of the data register goes to the shift register when that is    *)
(* empty, and clears the flag TXC.                                         *)
PutData(spi, byte) ==
    IF spi.shifting
    THEN [spi EXCEPT !.full = TRUE, !.data = byte, !.txc = FALSE]
    ELSE [spi EXCEPT !.shifting = TRUE, !.shift = byte, !.txc = FALSE]

RXC(spi) == spi.fifo # <<>>
DRE(spi) == ~spi.full

(* The byte in the shift register is out and the slave's answer is in.     *)
Shifted(spi, answer) ==
    [spi EXCEPT
        !.fifo = IF Len(@) < 2 THEN Append(@, answer) ELSE @,
        !.shifting = spi.full, !.shift = spi.data,
        !.full = FALSE, !.data = NoByte,
        !.txc = ~spi.full]

Raised(spi) == \/ "RXC" \in spi.int /\ RXC(spi)
               \/ "DRE" \in spi.int /\ DRE(spi)
               \/ "TXC" \in spi.int /\ spi.txc

-----------------------------------------------------------------------------
(* SERCOM1_SPI_WriteRead: start a transfer of n bytes from tx and m bytes  *)
(* to rx.  `first` is the byte at tx.  A busy master refuses.              *)

Flushed(spi) == [spi EXCEPT !.fifo = <<>>]

WriteRead(spi, tx, n, rx, m, first) ==
    LET dummies == IF m > n THEN m - n ELSE 0
        begun == [Flushed(spi) EXCEPT
                    !.busy = TRUE, !.tx = tx, !.txSize = n, !.txCount = IF n > 0 THEN 1 ELSE 0,
                    !.rx = rx, !.rxSize = m, !.rxCount = 0,
                    !.dummy = IF n = 0 THEN dummies - 1 ELSE dummies,
                    !.int = @ \cup {IF m > 0 THEN "RXC" ELSE "DRE"}]
    IN  PutData(begun, IF n > 0 THEN first ELSE NoByte)

-----------------------------------------------------------------------------
(* SERCOM1_SPI_InterruptHandler, in the order of its statements.           *)

(* A byte that was received goes to memory if the caller wants it.         *)
Stores(spi) == RXC(spi) /\ spi.rxCount < spi.rxSize

Received(spi) ==
    IF ~RXC(spi) THEN spi
    ELSE [spi EXCEPT !.fifo = Tail(@), !.rxCount = IF Stores(spi) THEN @ + 1 ELSE @]

(* The next byte, if any, goes out.                                        *)
Sent(spi, next) ==
    IF ~DRE(spi) THEN spi
    ELSE LET off == [spi EXCEPT !.int = @ \ {"DRE"}]
             out == IF spi.txCount < spi.txSize
                    THEN PutData([off EXCEPT !.txCount = @ + 1], next)
                    ELSE IF spi.dummy > 0
                    THEN PutData([off EXCEPT !.dummy = @ - 1], NoByte)
                    ELSE off
         IN  IF out.dummy = 0 /\ spi.txSize = out.txCount
             THEN [out EXCEPT !.last = TRUE]
             ELSE IF out.rxCount = out.rxSize
             THEN [out EXCEPT !.int = (@ \cup {"DRE"}) \ {"RXC"}]
             ELSE out

Complete(spi) == spi.txc /\ spi.last /\ spi.rxCount = spi.rxSize

(* Mutant: the handler does not wait for the last byte. *)
Awaiting_Not(spi) == spi
(* The last byte is under way: the interrupt comes again when it is out.   *)
Awaiting(spi) == IF spi.last THEN [spi EXCEPT !.int = @ \cup {"TXC"}] ELSE spi

(* The state when the callback is called, if the transfer is complete, or  *)
(* at the end of the handler.                                              *)
Served(spi, next) ==
    LET out == Sent(Received(spi), next)
    IN  IF Complete(out)
        THEN [out EXCEPT !.busy = FALSE, !.last = FALSE, !.int = {}]
        ELSE Awaiting(out)
=============================================================================
