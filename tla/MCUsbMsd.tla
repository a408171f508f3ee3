------------------------------ MODULE MCUsbMsd ------------------------------
(* Three sectors, the first two erased together: a write of sector 0 or 1    *)
(* erases a neighbour, one of sector 2 none, both leave a sector outside,    *)
(* and a write from 1 on takes two erase sectors.  With the one-sector       *)
(* buffer of this program a command of two sectors uses the buffer twice.    *)
(* Two commands let the second find what the first left; the host gives up,  *)
(* or resets the bus, once, at any moment.                                   *)
EXTENDS UsbMsd
=============================================================================
