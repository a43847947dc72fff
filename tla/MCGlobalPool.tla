---------------------------- MODULE MCGlobalPool ----------------------------
(* Two threads, and a device of two buffers of one byte and one of two: an  *)
(* array made by from_host(), which takes two of a size, beside an acquired *)
(* one.                                                                     *)
EXTENDS GlobalPool, TLC

CONSTANTS t1, t2, b1, b2, b3

MCThreads == {t1, t2}
MCBuffers == {b1, b2, b3}
MCSizeOf == [b \in MCBuffers |-> IF b = b3 THEN 2 ELSE 1]
=============================================================================
