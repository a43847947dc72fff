---------------------------- MODULE SpinBarrier -----------------------------
(***************************************************************************)
(* The barrier of the parallel Prim: SpinBarrier of                        *)
(* crates/mlrs-algos/src/cluster/hdbscan/mst.rs.  Unlike the one of the    *)
(* worker pools it neither parks nor can be poisoned: it implements a      *)
(* Rendezvous nobody ever poisons.                                         *)
(***************************************************************************)
EXTENDS Integers, FiniteSets

CONSTANTS
  Parties,              \* the threads that meet, at least one
  Wrap                  \* bound: the width of the generation counter, at least 2

VARIABLES
  pc,                   \* where each thread is in wait()
  seen,                 \* the generation each has loaded, its local gen
  count, generation     \* the two atomics

vars == <<pc, seen, count, generation>>

Init ==
  /\ pc = [u \in Parties |-> "out"]
  /\ seen = [u \in Parties |-> 0]
  /\ count = 0
  /\ generation = 0

Goto(u, from, to) == pc[u] = from /\ pc' = [pc EXCEPT ![u] = to]

Load(u) ==
  /\ Goto(u, "out", "add")
  /\ seen' = [seen EXCEPT ![u] = generation]
  /\ UNCHANGED <<count, generation>>

(* Mutant of Add: the last but one opens the barrier. *)
AddEarly(u) ==
  /\ Goto(u, "add", IF count = Cardinality(Parties) - 2 THEN "reset" ELSE "spin")
  /\ count' = count + 1
  /\ UNCHANGED <<seen, generation>>

(* fetch_add: the last to arrive opens the barrier. *)
Add(u) ==
  /\ Goto(u, "add", IF count = Cardinality(Parties) - 1 THEN "reset" ELSE "spin")
  /\ count' = count + 1
  /\ UNCHANGED <<seen, generation>>

Reset(u) ==
  /\ Goto(u, "reset", "bump")
  /\ count' = 0
  /\ UNCHANGED <<seen, generation>>

Bump(u) ==
  /\ Goto(u, "bump", "return")
  /\ generation' = (generation + 1) % Wrap
  /\ UNCHANGED <<seen, count>>

Return(u) ==
  /\ Goto(u, "return", "out")
  /\ UNCHANGED <<seen, count, generation>>

(* A turn of the spin loop that finds the generation changed. *)
StopSpinning(u) ==
  /\ Goto(u, "spin", "out")
  /\ generation # seen[u]
  /\ UNCHANGED <<seen, count, generation>>

Step(u) ==
  Load(u) \/ Add(u) \/ Reset(u) \/ Bump(u) \/ Return(u) \/ StopSpinning(u)

Next == \E u \in Parties : Step(u)

Spec == Init /\ [][Next]_vars

----------------------------------------------------------------------------
(* Properties *)

(* What a thread's place means to the callers of wait(). *)
at == [u \in Parties |->
         CASE pc[u] \in {"out", "add"} -> "out"
           [] pc[u] \in {"reset", "bump"} -> "in"
           [] pc[u] = "return" -> "freed"
           [] pc[u] = "spin" -> IF generation = seen[u] THEN "in" ELSE "freed"]

Abstract == INSTANCE Rendezvous WITH Units <- Parties, poisoned <- FALSE

(* Nobody leaves before everybody has arrived, in every round, however fast *)
(* the released threads come back to the next one.                          *)
ImplementsRendezvous == Abstract!Spec
=============================================================================
