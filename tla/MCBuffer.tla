------------------------------ MODULE MCBuffer ------------------------------
(* Three packets of lengths 1, 2 and 2 on a buffer of 3 flits: two of them *)
(* fit together only if one is the short one.                              *)
EXTENDS BufferProps

CONSTANTS p1, p2, p3

MCPackets == {p1, p2, p3}
MCLength == [p \in MCPackets |-> IF p = p1 THEN 1 ELSE 2]
=============================================================================
