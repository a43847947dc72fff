---------------------------- MODULE MCHostBarrier ---------------------------
(* The host barrier with three threads and an epoch of two bits' worth of  *)
(* values, so that it wraps.                                               *)
EXTENDS HostBarrier

CONSTANTS u0, u1, u2

MCUnits == {u0, u1, u2}
=============================================================================
