------------------------------ MODULE MCBuffer ------------------------------
(* Four bytes of memory;  every sequence of up to two of two byte values,  *)
(* one that is too long, and counts that are zero, exact and past the end. *)
EXTENDS Buffer

MCByte   == {0, 1}
MCInputs == {<< >>, <<0>>, <<1>>, <<1, 0>>, <<1, 1>>, <<0, 1, 1, 0, 1>>}
MCCounts == 0..5
=============================================================================
