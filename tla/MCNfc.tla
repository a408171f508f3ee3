--------------------------------- MODULE MCNfc ---------------------------------
(* The NFC actor for TLC, with six transfers before it gives up and a      *)
(* queue that pulses can fill.                                             *)
EXTENDS Nfc
=============================================================================
