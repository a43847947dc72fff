-------------------------- MODULE ClusterSelection --------------------------
(***************************************************************************)
(* Selecting clusters in a condensed tree, labelling the points and their  *)
(* probabilities: hdbscan/select.rs.  A configuration o has o.method, "eom" *)
(* or "leaf", o.single, o.epsilon (0 for none) and o.max_size (0 for none). *)
(***************************************************************************)
EXTENDS CondensedTree

NOISE == -1
Failed == -2            \* the label of a point whose expect() fails

(* The rows of clusters. *)
Edge(r) == r.size > 1
HasClusters(tree) == \E r \in Rows(tree) : Edge(r)
ChildClusters(tree, c) == {r.child : r \in {q \in Rows(tree) : Edge(q) /\ q.parent = c}}
ParentOf(tree, c) == RowWith(tree, c).parent

bfs_from_cluster_tree(tree, c) ==
  LET under[x \in Clusters(tree)] == {x} \cup UNION {under[y] : y \in ChildClusters(tree, x)}
  IN  under[c]

get_cluster_tree_leaves(tree) ==
  IF HasClusters(tree) THEN {c \in Clusters(tree) : ChildClusters(tree, c) = {}} ELSE {}

(* 1 / lambda < epsilon, and 1 / lambda > epsilon. *)
EpsBelow(lambda, epsilon) == ~Finite(lambda) \/ Scale < epsilon * lambda
EpsAbove(lambda, epsilon) == Finite(lambda) /\ Scale > epsilon * lambda

traverse_upwards(tree, epsilon, leaf, single) ==
  LET climb[c \in Clusters(tree)] ==
        LET parent == ParentOf(tree, c)
        IN  IF parent = RootOf(tree) THEN IF single THEN parent ELSE c
            ELSE IF EpsAbove(RowWith(tree, parent).lambda, epsilon) THEN parent
            ELSE climb[parent]
  IN  climb[leaf]

Ascending(S) ==
  [k \in 1 .. Cardinality(S) |-> CHOOSE x \in S : Cardinality({y \in S : y < x}) = k - 1]

epsilon_search(leaves, tree, epsilon, single) ==
  LET Search(s, leaf) ==
        LET top == traverse_upwards(tree, epsilon, leaf, single)
        IN  IF ~EpsBelow(RowWith(tree, leaf).lambda, epsilon)
            THEN [s EXCEPT !.selected = @ \cup {leaf}]
            ELSE IF leaf \in s.processed THEN s
            ELSE [selected  |-> s.selected \cup {top},
                  processed |-> s.processed \cup (bfs_from_cluster_tree(tree, top) \ {top})]
  IN  FoldLeft(Search, [selected |-> {}, processed |-> {}], Ascending(leaves)).selected

----------------------------------------------------------------------------
(* The excess of mass *)

(* The root is a candidate only if a single cluster is allowed. *)
NodeList(tree, o) ==
  LET nodes == IF o.single THEN Clusters(tree) ELSE Clusters(tree) \ {RootOf(tree)}
  IN  Reverse(Ascending(nodes))

(* The root counts the clusters under it, not its own points. *)
ClusterSize(tree, c) ==
  IF c = RootOf(tree)
  THEN MapThenSumSet(LAMBDA y : RowWith(tree, y).size, ChildClusters(tree, c))
  ELSE RowWith(tree, c).size

TooLarge(tree, o, c) == o.max_size # 0 /\ ClusterSize(tree, c) > o.max_size

(* Mutant of Deselected: only the clusters directly under c. *)
DeselectedChildren(tree, c) == ChildClusters(tree, c)

Deselected(tree, c) == bfs_from_cluster_tree(tree, c) \ {c}

(* Mutant of PushUp: the sum is not handed up. *)
PushNothing(stability, c, below) == stability

PushUp(stability, c, below) == [stability EXCEPT ![c] = below]

(* From the leaves up: a cluster gives way to the clusters under it when   *)
(* their stabilities sum to more, or when it is too large.                 *)
ExcessOfMass(tree, stability, o) ==
  LET Visit(s, c) ==
        LET below == FoldLeft(LAMBDA sum, r : IF Edge(r) /\ r.parent = c
                                              THEN Plus(sum, s.stability[r.child])
                                              ELSE sum,
                              0, tree)
        IN  IF Exceeds(below, s.stability[c]) \/ TooLarge(tree, o, c)
            THEN [selected |-> s.selected \ {c}, stability |-> PushUp(s.stability, c, below)]
            ELSE [s EXCEPT !.selected = @ \ Deselected(tree, c)]
      nodes == NodeList(tree, o)
  IN  FoldLeft(Visit, [selected |-> ToSet(nodes), stability |-> stability], nodes).selected

SelectedByMass(tree, stability, o) ==
  LET best == ExcessOfMass(tree, stability, o)
  IN  IF o.epsilon = 0 \/ ~HasClusters(tree) \/ best = {RootOf(tree)}
      THEN best
      ELSE epsilon_search(best, tree, o.epsilon, o.single) \cap ToSet(NodeList(tree, o))

(* Without clusters nothing is selected: the code marks the root, then     *)
(* clears every mark that is not a leaf.                                   *)
SelectedLeaves(tree, o) ==
  LET leaves == get_cluster_tree_leaves(tree)
  IN  (IF o.epsilon = 0 THEN leaves ELSE epsilon_search(leaves, tree, o.epsilon, o.single))
        \cap ToSet(NodeList(tree, o))

Selected(tree, stability, o) ==
  IF o.method = "eom" THEN SelectedByMass(tree, stability, o) ELSE SelectedLeaves(tree, o)

----------------------------------------------------------------------------
(* Labels and probabilities *)

(* Union by rank; find moves nodes closer to their root, which changes no  *)
(* root and no rank and is left out.                                       *)
find(parent, x) ==
  LET up[k \in DOMAIN parent] == IF parent[k] = k THEN k ELSE up[parent[k]]
  IN  up[x]

Unite(u, x, y) ==
  LET xr == find(u.parent, x)
      yr == find(u.parent, y)
  IN  IF xr = yr THEN u
      ELSE IF u.rank[xr] < u.rank[yr] THEN [u EXCEPT !.parent[xr] = yr]
      ELSE IF u.rank[xr] > u.rank[yr] THEN [u EXCEPT !.parent[yr] = xr]
      ELSE [u EXCEPT !.parent[yr] = xr, !.rank[xr] = @ + 1]

(* Mutant of UnionRow: the child takes its parent in. *)
UnionRowSwapped(u, r) == Unite(u, r.child, r.parent)

UnionRow(u, r) == Unite(u, r.parent, r.child)

(* The forest over the rows of what is not selected. *)
Forest(tree, selected) ==
  LET ids == 0 .. Max(Parents(tree))
  IN  FoldLeft(LAMBDA u, r : IF r.child \in selected THEN u ELSE UnionRow(u, r),
               [parent |-> [k \in ids |-> k], rank |-> [k \in ids |-> 0]], tree).parent

(* Labels number the selected clusters in the order of their ids. *)
LabelOf(selected, c) == IF c \in selected THEN Cardinality({d \in selected : d < c}) ELSE Failed

(* What a point of the root must reach to be in the one cluster there is:  *)
(* 1 / epsilon, or the largest lambda of the rows of the root.             *)
ReachesThreshold(tree, o, lambda) ==
  IF o.epsilon # 0
  THEN ~Finite(lambda) \/ lambda * o.epsilon >= Scale
  ELSE \A r \in Rows(tree) : r.parent = RootOf(tree) => lambda >= r.lambda

do_labelling(tree, selected, o) ==
  LET forest == Forest(tree, selected)
      Top(p) == find(forest, p)
      OfRoot(p) == IF /\ Cardinality(selected) = 1 /\ o.single
                      /\ ReachesThreshold(tree, o, RowWith(tree, p).lambda)
                   THEN LabelOf(selected, RootOf(tree))
                   ELSE NOISE
  IN  [p \in Nodes |-> IF Top(p) = RootOf(tree) THEN OfRoot(p) ELSE LabelOf(selected, Top(p))]

(* A fraction of a death; a finite lambda over an infinite death is 0.    *)
Share(lambda, death) ==
  IF death = 0 \/ ~Finite(lambda) THEN <<1, 1>>
  ELSE IF ~Finite(death) THEN <<0, 1>>
  ELSE <<IF lambda < death THEN lambda ELSE death, death>>

(* Mutant of get_probabilities: the death of the cluster the point leaves. *)
ProbabilitiesByParent(tree, selected, labels) ==
  [p \in Nodes |->
     IF labels[p] = NOISE THEN <<0, 1>>
     ELSE Share(RowWith(tree, p).lambda, max_lambdas(tree)[ParentOf(tree, p)])]

get_probabilities(tree, selected, labels) ==
  LET deaths == max_lambdas(tree)
      ClusterOf(label) == CHOOSE c \in selected : LabelOf(selected, c) = label
  IN  [p \in Nodes |->
         IF labels[p] = NOISE THEN <<0, 1>>
         ELSE Share(RowWith(tree, p).lambda, deaths[ClusterOf(labels[p])])]
=============================================================================
