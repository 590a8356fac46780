----------------------------- MODULE MCIvyFifo -----------------------------
(* IvyFifoSystem with granule 2 and maximum 6: writes of 0 to 7 bytes wrap, *)
(* reallocate once or twice, are refused near the maximum and beyond it.    *)
EXTENDS IvyFifoSystem

CONSTANTS b1, b2

MCByte == {b1, b2}

(* Alternating bytes, so that a shift by one cell shows. *)
Pattern(n) == [i \in 1 .. n |-> IF i % 2 = 1 THEN b1 ELSE b2]

MCWrites == {Pattern(n) : n \in 0 .. 7}
=============================================================================
