------------------------------- MODULE MCMemory -------------------------------
(* The MEMORY driver for TLC.  The configurations give it small flashes:   *)
(*   MemoryDriver.cfg    two clients, tokens that wrap, requests on a      *)
(*                       flash being identified;                           *)
(*   MemoryStore.cfg     two sectors of three pages of two cells;          *)
(*   MemoryClose.cfg     a client that closes with a request in flight.    *)
EXTENDS MemoryStore
=============================================================================
