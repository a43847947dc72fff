---------------------------- MODULE PrimParallel ----------------------------
(***************************************************************************)
(* The parallel Prim of mst.rs (prim_specialized_parallel): each worker    *)
(* owns a contiguous range of nodes and scans it once per step, publishes  *)
(* the best node it found in its own slot, and, after a barrier that all   *)
(* cross, reads every slot and derives the next node for itself.  Worker 0 *)
(* records the edges.  The slots of odd and of even steps are distinct, so *)
(* that one barrier per step is enough.                                    *)
(*                                                                         *)
(* The barrier is SpinBarrier's, atomic by atomic.  The three atomics of a *)
(* slot are written, and read, in one step; that SlotsAreQuiet holds is    *)
(* what makes this sound.                                                  *)
(***************************************************************************)
EXTENDS PrimSteps

CONSTANTS
  Graphs,               \* the graphs a run may be given
  Units,                \* the target number of workers
  Wrap                  \* bound: the width of the barrier's generation

ASSUME UnitsAssumption == Units \in Nat \ {0}
ASSUME GenerationAssumption == Wrap \in Nat /\ Wrap > 1
ASSUME GraphsAssumption ==
  \A g \in Graphs : g.core \in [Nodes -> Nat] /\ g.dist \in [Nodes \X Nodes -> Nat]

DivCeil(a, b) == (a + b - 1) \div b

(* n.div_ceil(units) nodes each, and as many workers as that makes chunks.  *)
Chunk == DivCeil(N, Units)
Count == DivCeil(N, Chunk)
Workers == 0 .. Count - 1
Owned(w) == {j \in Nodes : j \div Chunk = w}

(* Mutant of Parties: the barrier waits for the target number of workers. *)
TargetParties == 0 .. Units - 1

(* The barrier is made for the workers there are. *)
Parties == Workers

Nothing(node) == [reach |-> Inf, source |-> node, node |-> node]

VARIABLES
  graph,                \* the input
  tree, reach, source,  \* per node, written only by the worker that owns it
  pc, step, cur,        \* each worker's place, loop index and current_node
  best,                 \* what it has found: in its scan, then in the slots
  next,                 \* the next slot it reads
  slots,                \* the slots: buffer -> worker -> what it published
  edges,                \* the edges of worker 0
  inWait, seen,         \* each worker's place in wait(), and its local gen
  count, generation     \* the barrier's atomics

data == <<tree, reach, source>>
barrier == <<inWait, seen, count, generation>>
vars == <<graph, data, pc, step, cur, best, next, slots, edges, barrier>>

Barrier == INSTANCE SpinBarrier WITH pc <- inWait

Init ==
  /\ graph \in Graphs
  /\ tree = [j \in Nodes |-> FALSE]
  /\ reach = [j \in Nodes |-> Inf]
  /\ source = [j \in Nodes |-> 0]
  /\ pc = [w \in Workers |-> IF N = 1 THEN "done" ELSE "scan"]
  /\ step = [w \in Workers |-> 0]
  /\ cur = [w \in Workers |-> 0]
  /\ best = [w \in Workers |-> Nothing(0)]
  /\ next = [w \in Workers |-> 0]
  /\ slots = [buf \in {0, 1} |-> [w \in Workers |-> Nothing(0)]]
  /\ edges = <<>>
  /\ Barrier!Init

Goto(w, from, to) == pc[w] = from /\ pc' = [pc EXCEPT ![w] = to]
(* Mutant of Buffer: one buffer for all steps. *)
SingleBuffer(w) == 0

Buffer(w) == step[w] % 2

----------------------------------------------------------------------------
(* A worker's step *)

(* Does the pair's mutual reachability beat j's minimum?  If a core         *)
(* distance already reaches the minimum no distance is computed; a distance *)
(* given up as too large counts as infinite.                                *)
Base(w, j) == Larger(graph.core[cur[w]], graph.core[j])
Screened(w, j) ==
  LET d == graph.dist[<<cur[w], j>>] IN IF d > reach[j] THEN Inf ELSE d
(* Mutant of Improves: an equal distance counts as an improvement. *)
ImprovesOrTies(w, j) == Base(w, j) < reach[j] /\ Larger(Screened(w, j), Base(w, j)) <= reach[j]

Improves(w, j) == Base(w, j) < reach[j] /\ Larger(Screened(w, j), Base(w, j)) < reach[j]

Scan(w) ==
  /\ Goto(w, "scan", "store")
  /\ tree' = [j \in Nodes |-> tree[j] \/ (j \in Owned(w) /\ j = cur[w])]
  /\ LET open == {j \in Owned(w) : ~tree'[j]}
         better == {j \in open : Improves(w, j)}
     IN  /\ reach' = [j \in Nodes |-> IF j \in better THEN Larger(Screened(w, j), Base(w, j))
                                                      ELSE reach[j]]
         /\ source' = [j \in Nodes |-> IF j \in better THEN cur[w] ELSE source[j]]
         /\ LET finite == {j \in open : reach'[j] < Inf}
                j == FirstMin(finite, reach')
            IN  best' = [best EXCEPT ![w] =
                  IF finite = {} THEN Nothing(cur[w])
                  ELSE [reach |-> reach'[j], source |-> source'[j], node |-> j]]
  /\ UNCHANGED <<graph, step, cur, next, slots, edges, barrier>>

Store(w) ==
  /\ Goto(w, "store", "arrive")
  /\ slots' = [slots EXCEPT ![Buffer(w)][w] = best[w]]
  /\ UNCHANGED <<graph, data, step, cur, best, next, edges, barrier>>

(* wait() is called: the generation is loaded first. *)
Arrive(w) ==
  /\ Goto(w, "arrive", "wait")
  /\ Barrier!Load(w)
  /\ UNCHANGED <<graph, data, step, cur, best, next, slots, edges>>

Wait(w) ==
  /\ pc[w] = "wait"
  /\ Barrier!Add(w) \/ Barrier!Reset(w) \/ Barrier!Bump(w)
  /\ UNCHANGED <<graph, data, pc, step, cur, best, next, slots, edges>>

Leave(w) ==
  /\ Goto(w, "wait", "reduce")
  /\ Barrier!Return(w) \/ Barrier!StopSpinning(w)
  /\ best' = [best EXCEPT ![w] = Nothing(cur[w])]
  /\ next' = [next EXCEPT ![w] = 0]
  /\ UNCHANGED <<graph, data, step, cur, slots, edges>>

(* Mutant of ReadSlot: the last minimum wins instead of the first. *)
ReadSlotLast(w) ==
  /\ pc[w] = "reduce"
  /\ next[w] < Count
  /\ LET slot == slots[Buffer(w)][next[w]]
     IN  best' = [best EXCEPT ![w] = IF slot.reach <= @.reach THEN slot ELSE @]
  /\ next' = [next EXCEPT ![w] = @ + 1]
  /\ UNCHANGED <<graph, data, pc, step, cur, slots, edges, barrier>>

ReadSlot(w) ==
  /\ pc[w] = "reduce"
  /\ next[w] < Count
  /\ LET slot == slots[Buffer(w)][next[w]]
     IN  best' = [best EXCEPT ![w] = IF slot.reach < @.reach THEN slot ELSE @]
  /\ next' = [next EXCEPT ![w] = @ + 1]
  /\ UNCHANGED <<graph, data, pc, step, cur, slots, edges, barrier>>

NextStep(w) ==
  /\ next[w] = Count
  /\ Goto(w, "reduce", IF step[w] = N - 2 THEN "done" ELSE "scan")
  /\ edges' = IF w = 0
              THEN Append(edges, <<best[w].source, best[w].node, best[w].reach>>)
              ELSE edges
  /\ cur' = [cur EXCEPT ![w] = best[w].node]
  /\ step' = [step EXCEPT ![w] = @ + 1]
  /\ UNCHANGED <<graph, data, best, next, slots, barrier>>

WorkerStep(w) ==
  \/ Scan(w) \/ Store(w) \/ Arrive(w) \/ Wait(w) \/ Leave(w)
  \/ ReadSlot(w) \/ NextStep(w)

(* The caller has joined every worker. *)
Joins == \A w \in Workers : pc[w] = "done"

Next ==
  \/ \E w \in Workers : WorkerStep(w)
  \/ Joins /\ UNCHANGED vars

(* The operating system runs every thread, and spinning threads yield. *)
Fairness == \A w \in Workers : WF_vars(WorkerStep(w))

Spec == Init /\ [][Next]_vars /\ Fairness

----------------------------------------------------------------------------
(* Properties *)

(* The serial run on the same graph: its state after k steps. *)
Serial ==
  LET after[k \in 0 .. N - 1] ==
        IF k = 0 THEN Start ELSE TrackingStep(graph, after[k - 1])
  IN  after

(* Edge for edge, ties and infinite distances included, the parallel Prim   *)
(* returns what the serial one does.                                        *)
EdgesAreSerial ==
  /\ edges = SubSeq(Serial[N - 1].edges, 1, Len(edges))
  /\ Joins => Len(edges) = N - 1

(* Once a worker has scanned its range, the range is as after the serial    *)
(* scan, though the other ranges may be a step behind or ahead.             *)
PartsAreSerial ==
  \A w \in Workers :
    LET s == Serial[IF pc[w] \in {"scan", "done"} THEN step[w] ELSE step[w] + 1]
    IN  \A j \in Owned(w) : /\ reach[j] = s.reach[j]
                             /\ source[j] = s.source[j]
                             /\ tree[j] <=> j \in s.tree

(* No worker writes a slot that another may still read: the one that is     *)
(* ahead writes the other buffer.                                           *)
SlotsAreQuiet ==
  \A w, u \in Workers :
    pc[w] = "store" /\ pc[u] = "reduce" => Buffer(w) # Buffer(u) \/ next[u] > w

(* Of what the two Prims compute, nothing tells them apart.                *)
SameAsSerial == EdgesAreSerial /\ PartsAreSerial

(* Nobody leaves a step's barrier before everybody has arrived, however     *)
(* fast the released workers come back to the next one.                     *)
ImplementsRendezvous == Barrier!ImplementsRendezvous

(* Every worker returns: as many arrive at the barrier as it waits for.     *)
Terminates == <>Joins
=============================================================================
