---------------------------- MODULE MCWorkerPool ----------------------------
(* A pool of four units whose owner calls run() up to three times. *)
EXTENDS WorkerPool

CONSTANTS w1, w2, w3

MCWorkers == {w1, w2, w3}
=============================================================================
