------------------------------ MODULE MCPxzcat ------------------------------
(* Instances of Pxzcat for TLC.  Block 2 is empty, so that the iterator    *)
(* has something to skip, and block 1 takes two buffers, the second one    *)
(* partial.                                                                *)
EXTENDS PxzcatInvariant

MCOffset == <<0, 3, 3>>
MCSize == <<3, 0, 1>>
MCByte == {0, 1}
=============================================================================
