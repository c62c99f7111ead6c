------------------------- MODULE MC_CircuitBuilder -------------------------
(***************************************************************************)
(* All circuits of at most four gates, enough for two multiplicative       *)
(* levels with a linear gate between them.  Dot products are given the     *)
(* empty vectors and every pair of wires against itself, the shape that    *)
(* generateEDSCircuit uses; <<2, 1>> against <<1>> is refused.             *)
(***************************************************************************)
EXTENDS CircuitBuilder

MCOwner == {<<1, 2>>}
MCDotVectors == {<<<<>>, <<>>>>, <<<<2, 1>>, <<1>>>>}
                \cup {<<<<a, b>>, <<a, b>>>> : a, b \in 1 .. MaxGates}
=============================================================================
