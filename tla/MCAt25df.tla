------------------------------- MODULE MCAt25df -------------------------------
(* The AT25DF driver for TLC: two sectors of two pages of two cells, and   *)
(* two requests after the identification.                                  *)
EXTENDS At25df
=============================================================================
