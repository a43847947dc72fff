--------------------------- MODULE SingleLinkage ----------------------------
(***************************************************************************)
(* The single-linkage hierarchy of hdbscan/single_linkage.rs: the edges of *)
(* a spanning tree, in the order of their weights, folded through a union- *)
(* find that gives every merged cluster a fresh label.  Points are         *)
(* 0 .. N - 1, the cluster of the i-th merge is N + i - 1, and its row is  *)
(* the i-th of the hierarchy.                                              *)
(***************************************************************************)
EXTENDS PrimSteps, SequencesExt

Ids == 0 .. 2 * N - 2
NoParent == 2 * N - 1

(* Mutant of argsort_by_weight: the edges stay in the order of the Prim. *)
LeftUnsorted(edges) == edges

(* A stable sort, so edges of the same weight keep the order of the Prim.  *)
argsort_by_weight(edges) ==
  LET Before(i, j) == edges[i][3] < edges[j][3] \/ (edges[i][3] = edges[j][3] /\ i < j)
      order == SortSeq([k \in DOMAIN edges |-> k], Before)
  IN  [k \in DOMAIN edges |-> edges[order[k]]]

(* The nodes from x up to its root. *)
Upwards(parent, x) ==
  LET up[k \in Ids] == IF parent[k] = NoParent THEN <<k>> ELSE <<k>> \o up[parent[k]]
  IN  up[x]

fast_find(parent, x) == Last(Upwards(parent, x))

Compressed(parent, x) ==
  [k \in Ids |-> IF k \in ToSet(Upwards(parent, x)) \ {fast_find(parent, x)}
                 THEN fast_find(parent, x)
                 ELSE parent[k]]

(* The row of a merge and the union it records. *)
union(uf, m, n, distance) ==
  LET new == N + Len(uf.rows)
      both == uf.size[m] + uf.size[n]
  IN  [parent |-> [uf.parent EXCEPT ![m] = new, ![n] = new],
       size   |-> [uf.size EXCEPT ![new] = both],
       rows   |-> Append(uf.rows, [left |-> m, right |-> n, distance |-> distance, size |-> both])]

MergeEdge(uf, edge) ==
  LET once == Compressed(uf.parent, edge[1])
      twice == Compressed(once, edge[2])
  IN  union([uf EXCEPT !.parent = twice],
            fast_find(uf.parent, edge[1]), fast_find(once, edge[2]), edge[3])

NewUnionFind ==
  [parent |-> [k \in Ids |-> NoParent],
   size   |-> [k \in Ids |-> IF k < N THEN 1 ELSE 0],
   rows   |-> <<>>]

make_single_linkage(mst) == FoldLeft(MergeEdge, NewUnionFind, mst).rows

----------------------------------------------------------------------------
(* Reading a hierarchy *)

RowOf(h, x) == h[x - N + 1]
SizeOf(h, x) == IF x < N THEN 1 ELSE RowOf(h, x).size

ChildrenOf(h, queue) ==
  FlattenSeq([i \in DOMAIN queue |-> IF queue[i] < N
                                     THEN <<>>
                                     ELSE <<RowOf(h, queue[i]).left, RowOf(h, queue[i]).right>>])

(* Level by level from a node down to its points. *)
bfs_from_hierarchy(h, root) ==
  LET levels[queue \in Seq(Ids)] ==
        IF queue = <<>> THEN <<>> ELSE queue \o levels[ChildrenOf(h, queue)]
  IN  levels[<<root>>]

PointsUnder(h, x) == ToSet(bfs_from_hierarchy(h, x)) \cap Nodes
=============================================================================
