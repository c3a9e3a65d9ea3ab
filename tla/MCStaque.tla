------------------------------ MODULE MCStaque ------------------------------
(* Memory for four nodes: a chain with inner nodes, refilled after Clear.  *)
EXTENDS Staque, TLC

MCIndices == 0..3

(* Nodes differ only in identity, and no property here is a liveness one.  *)
MCSymmetry == Permutations(Nodes) \cup Permutations(Values)
=============================================================================
