------------------------------- MODULE Positions -------------------------------
(***************************************************************************)
(* Taking elements out of a sequence by their positions.  It is what       *)
(* SelectSeq does for a test on the position, said without recursion so    *)
(* that it can be reasoned about.                                          *)
(***************************************************************************)
EXTENDS Integers, Sequences, FiniteSets

(* How many of a set of positions are not behind k.                        *)
Rank(kept, k) == Cardinality({j \in kept : j <= k})

(* s without the elements at the positions in out; the others keep their   *)
(* order.                                                                  *)
Without(s, out) ==
    LET kept == DOMAIN s \ out
    IN  [n \in 1 .. Cardinality(kept) |-> s[CHOOSE k \in kept : Rank(kept, k) = n]]
=============================================================================
