----------------------------- MODULE Rendezvous -----------------------------
(***************************************************************************)
(* What one reusable, poisonable barrier of the host worker pools promises *)
(* to the threads that meet at it, whatever its implementation does with   *)
(* counters, epochs, spinning and parking.  HostBarrier implements this    *)
(* specification and WorkerPool is built from two instances of it.         *)
(*                                                                         *)
(* A call of Barrier::wait is Arrive (the caller is counted), Open (the    *)
(* last caller lets everybody go) and Leave (the call returns).  A         *)
(* poisoned barrier never opens again: it frees whoever is at it.          *)
(***************************************************************************)
CONSTANT Units          \* the participants, the "workers" of Barrier::new

VARIABLES
  at,                   \* at[u]: "out" of wait(), "in" it, or "freed" to return
  poisoned              \* has poison() been called?

vars == <<at, poisoned>>

TypeOK ==
  /\ at \in [Units -> {"out", "in", "freed"}]
  /\ poisoned \in BOOLEAN

Init ==
  /\ at = [u \in Units |-> "out"]
  /\ poisoned = FALSE

(* u calls wait() and is counted; a poisoned barrier does not hold it. *)
Arrive(u) ==
  /\ at[u] = "out"
  /\ at' = [at EXCEPT ![u] = IF poisoned THEN "freed" ELSE "in"]
  /\ UNCHANGED poisoned

(* Everybody has arrived: all of them may return, in any order. *)
Open ==
  /\ ~poisoned
  /\ \A u \in Units : at[u] = "in"
  /\ at' = [u \in Units |-> "freed"]
  /\ UNCHANGED poisoned

(* wait() returns to u; its result is ~poisoned, read in this step. *)
Leave(u) ==
  /\ at[u] = "freed"
  /\ at' = [at EXCEPT ![u] = "out"]
  /\ UNCHANGED poisoned

(* A participant that will not arrive any more frees those that wait. *)
Poison ==
  /\ poisoned' = TRUE
  /\ at' = [u \in Units |-> IF at[u] = "in" THEN "freed" ELSE at[u]]

Next ==
  \/ \E u \in Units : Arrive(u) \/ Leave(u)
  \/ Open
  \/ Poison

Spec == Init /\ [][Next]_vars

(***************************************************************************)
(* Every caller that may return does return, and a barrier at which all    *)
(* have met does open.                                                     *)
(***************************************************************************)
Progress ==
  /\ \A u \in Units : at[u] = "freed" ~> at[u] = "out"
  /\ (\A u \in Units : at[u] = "in") ~> (\E u \in Units : at[u] = "out")
=============================================================================
