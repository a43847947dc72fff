----------------------------- MODULE PrimSteps ------------------------------
(***************************************************************************)
(* One step of each serial Prim of                                         *)
(* crates/mlrs-algos/src/cluster/hdbscan/mst.rs, on a graph whose weights  *)
(* are mutual reachabilities.  Distances are naturals up to Inf, which     *)
(* stands for f64::INFINITY; only their order matters.                     *)
(*                                                                         *)
(* A graph g has g.core, the core distances, and g.dist, the pair          *)
(* distances already divided by alpha.  The state of a run is the node     *)
(* last added, the nodes in the tree, the running minimum of each other    *)
(* node and the tree node it comes from, and the edges so far.             *)
(***************************************************************************)
EXTENDS Naturals, Sequences

CONSTANTS
  N,                    \* number of points
  Inf                   \* more than any distance between points

ASSUME NAssumption == N \in Nat \ {0}
ASSUME InfAssumption == Inf \in Nat \ {0}

Nodes == 0 .. N - 1

Larger(x, y) == IF x > y THEN x ELSE y

(* max(core_i, core_j, d_ij / alpha) *)
MutualReach(g, i, j) == Larger(Larger(g.core[i], g.core[j]), g.dist[<<i, j>>])

(* The first argmin of f over a set of indices. *)
FirstMin(S, f) ==
  CHOOSE j \in S : \A k \in S : f[j] < f[k] \/ (f[j] = f[k] /\ j <= k)

Start ==
  [cur    |-> 0,
   tree   |-> {},
   reach  |-> [j \in Nodes |-> Inf],
   source |-> [j \in Nodes |-> 0],
   edges  |-> <<>>]

(* The running minima after the node s.cur has joined the tree. *)
Joined(s) == s.tree \cup {s.cur}
Closer(g, s, j) == j \notin Joined(s) /\ MutualReach(g, s.cur, j) < s.reach[j]
Reached(g, s) ==
  [j \in Nodes |-> IF Closer(g, s, j) THEN MutualReach(g, s.cur, j) ELSE s.reach[j]]
Sources(g, s) ==
  [j \in Nodes |-> IF Closer(g, s, j) THEN s.cur ELSE s.source[j]]

After(g, s, from, to, weight) ==
  [cur    |-> to,
   tree   |-> Joined(s),
   reach  |-> Reached(g, s),
   source |-> Sources(g, s),
   edges  |-> Append(s.edges, <<from, to, weight>>)]

(* Variant A: the next node is the first argmin of what is left, and the   *)
(* edge starts at the node added last, whatever the minimum comes from.    *)
DenseStep(g, s) ==
  LET to == FirstMin(Nodes \ Joined(s), Reached(g, s))
  IN  After(g, s, s.cur, to, Reached(g, s)[to])

(* Variant B: strict comparisons throughout, so a node at infinity is never *)
(* chosen; with nothing to choose the edge is a loop at the current node.   *)
TrackingStep(g, s) ==
  LET finite == {j \in Nodes \ Joined(s) : Reached(g, s)[j] < Inf}
      to == FirstMin(finite, Reached(g, s))
  IN  IF finite = {}
      THEN After(g, s, s.cur, s.cur, Inf)
      ELSE After(g, s, Sources(g, s)[to], to, Reached(g, s)[to])

(* The linkage core of GLOSH: as variant B, and with nothing to choose the *)
(* edge is a loop at node 0.                                               *)
LinkageCoreStep(g, s) ==
  LET finite == {j \in Nodes \ Joined(s) : Reached(g, s)[j] < Inf}
  IN  IF finite = {} THEN After(g, s, 0, 0, Inf) ELSE TrackingStep(g, s)
=============================================================================
