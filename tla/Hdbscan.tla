------------------------------ MODULE Hdbscan -------------------------------
(***************************************************************************)
(* The host back-end of an HDBSCAN fit, from the graph of mutual           *)
(* reachabilities to labels and probabilities, or to the GLOSH scores the  *)
(* estimator computes on first access.  A pipeline grows a spanning tree   *)
(* with one of three Prims, folds its sorted edges into a hierarchy,       *)
(* condenses it and reads its results off the condensed tree.              *)
(***************************************************************************)
EXTENDS ClusterSelection

CONSTANTS
  Graphs,               \* the graphs a run may be given
  MinSizes,             \* values of min_cluster_size
  Options               \* configurations of the selection

VARIABLES
  graph, prim,          \* the input, and which Prim: "dense", "tracking" or "linkage_core"
  state,                \* the state of the Prim
  hierarchy,            \* the single-linkage hierarchy, or <<>>
  min_size, condensed,  \* min_cluster_size, and the condensed tree or <<>>
  fit                   \* the results, or NoFit

vars == <<graph, prim, state, hierarchy, min_size, condensed, fit>>

Edges == state.edges
Done == Len(Edges) = N - 1
Glosh == prim = "linkage_core"
NoFit == [by |-> "nothing"]

Init ==
  /\ graph \in Graphs
  /\ prim \in {"dense", "tracking", "linkage_core"}
  /\ state = Start
  /\ hierarchy = <<>>
  /\ min_size \in MinSizes
  /\ condensed = <<>>
  /\ fit = NoFit

PrimStep ==
  CASE prim = "dense"        -> DenseStep(graph, state)
    [] prim = "tracking"     -> TrackingStep(graph, state)
    [] prim = "linkage_core" -> LinkageCoreStep(graph, state)

AddNode ==
  /\ ~Done
  /\ state' = PrimStep
  /\ UNCHANGED <<graph, prim, hierarchy, min_size, condensed, fit>>

Link ==
  /\ Done
  /\ hierarchy = <<>>
  /\ hierarchy' = make_single_linkage(argsort_by_weight(Edges))
  /\ UNCHANGED <<graph, prim, state, min_size, condensed, fit>>

Condense ==
  /\ hierarchy # <<>>
  /\ condensed = <<>>
  /\ condensed' = condense_tree(hierarchy, min_size)
  /\ UNCHANGED <<graph, prim, state, hierarchy, min_size, fit>>

(* tree_to_labels after condense_tree.  An expect() that fails ends the    *)
(* fit.                                                                    *)
TreeToLabels(o) ==
  LET stability == compute_stability(condensed)
      selected == Selected(condensed, stability, o)
      labels == do_labelling(condensed, selected, o)
      failed == \E p \in Nodes : labels[p] = Failed
  IN  /\ condensed # <<>>
      /\ ~Glosh
      /\ fit = NoFit
      /\ fit' = [by            |-> IF failed THEN "panic" ELSE "selection",
                 options       |-> o,
                 selected      |-> selected,
                 labels        |-> labels,
                 probabilities |-> IF failed
                                   THEN <<>>
                                   ELSE get_probabilities(condensed, selected, labels)]
      /\ UNCHANGED <<graph, prim, state, hierarchy, min_size, condensed>>

OutlierScores ==
  /\ condensed # <<>>
  /\ Glosh
  /\ fit = NoFit
  /\ fit' = [by |-> "glosh", scores |-> outlier_scores(condensed)]
  /\ UNCHANGED <<graph, prim, state, hierarchy, min_size, condensed>>

Next ==
  \/ AddNode
  \/ Link
  \/ Condense
  \/ \E o \in Options : TreeToLabels(o)
  \/ OutlierScores

Spec == Init /\ [][Next]_vars

----------------------------------------------------------------------------
(* The spanning tree and the hierarchy *)

(* Singletons, after the members of every group have been joined. *)
JoinedUp(groups) ==
  LET Join(group, parts) ==
        LET touched == {B \in parts : B \cap group # {}}
        IN  (parts \ touched) \cup {UNION touched}
  IN  FoldSet(Join, {{x} : x \in Nodes}, groups)

NearIn(g, t) == {{p[1], p[2]} : p \in {q \in Nodes \X Nodes : q[1] < q[2] /\ MutualReach(g, q[1], q[2]) <= t}}
MergedWithin(t) ==
  {PointsUnder(hierarchy, N + i - 1) : i \in {k \in DOMAIN hierarchy : hierarchy[k].distance <= t}}

(* The hierarchy is the single linkage of the graph, whichever Prim it     *)
(* comes from: at every distance t its clusters are what steps of the      *)
(* graph no longer than t join, and every row joins two clusters without a *)
(* point in common and counts their points.  The dense Prim's edges need   *)
(* not be a minimum spanning tree of the graph for that: each starts at    *)
(* the node added last.                                                    *)
HierarchyIsSingleLinkage ==
  hierarchy # <<>> /\ condensed = <<>> =>
    /\ \A t \in 0 .. Inf - 1 : JoinedUp(MergedWithin(t)) = JoinedUp(NearIn(graph, t))
    /\ \A i \in DOMAIN hierarchy :
         LET row == hierarchy[i]
         IN  /\ PointsUnder(hierarchy, row.left) \cap PointsUnder(hierarchy, row.right) = {}
             /\ row.size = Cardinality(PointsUnder(hierarchy, N + i - 1))

----------------------------------------------------------------------------
(* The condensed tree *)

Condensed == condensed # <<>> /\ fit = NoFit

(* Does c hold x, directly or through the clusters under it? *)
Under(tree, c) ==
  LET under[x \in Clusters(tree)] ==
        UNION {IF r.child \in Clusters(tree) THEN under[r.child] ELSE {r.child} :
                 r \in {q \in Rows(tree) : q.parent = x}}
  IN  under[c]

(* The largest cluster of the hierarchy within a distance that holds p. *)
CrowdAround(p, distance) ==
  Max({1} \cup {hierarchy[i].size : i \in {k \in DOMAIN hierarchy :
        hierarchy[k].distance <= distance /\ p \in PointsUnder(hierarchy, N + k - 1)}})

(* Every point leaves the condensed tree once, at the least distance at    *)
(* which it has min_cluster_size points around it (at the root's if it     *)
(* never has); a cluster's row counts the points that leave under it, and  *)
(* nothing leaves a cluster before the cluster is born.                    *)
PointsLeaveOnce ==
  Condensed =>
    /\ \A p \in Nodes :
         LET own == SelectSeq(condensed, LAMBDA r : r.child = p)
             distances == {hierarchy[i].distance : i \in DOMAIN hierarchy}
             crowded == {d \in distances : CrowdAround(p, d) >= min_size}
         IN  /\ Len(own) = 1
             /\ own[1].lambda = Lambda(IF crowded = {} THEN Max(distances) ELSE Min(crowded))
    /\ \A r \in Rows(condensed) :
         /\ r.lambda >= Birth(condensed, r.parent)
         /\ r.child \notin Nodes => r.size = Cardinality(Under(condensed, r.child)) /\ r.size >= min_size

(* max_lambdas gives every cluster the largest lambda at which anything    *)
(* leaves it.  The sweep takes the rows of a parent to be grouped; they    *)
(* are not when two clusters shed points side by side, and it is the       *)
(* growing lambdas along a cluster that save the last flush.               *)
DeathsAreLast ==
  Condensed =>
    \A c \in Clusters(condensed) :
      max_lambdas(condensed)[c] = Max({r.lambda : r \in {q \in Rows(condensed) : q.parent = c}})

----------------------------------------------------------------------------
(* Selection and labels *)

Fitted == fit.by = "selection"
Chosen == fit.by \in {"selection", "panic"}

AreApart(S) == \A c, d \in S : c # d => d \notin bfs_from_cluster_tree(condensed, c)

(* No selected cluster lies inside another, unless it was born at epsilon  *)
(* exactly: epsilon_search keeps such a cluster and still climbs past it   *)
(* from its sibling.                                                       *)
SelectedAreApart ==
  Chosen =>
    AreApart({c \in fit.selected : \/ fit.options.epsilon = 0
                                   \/ c = RootOf(condensed)
                                   \/ Birth(condensed, c) # Lambda(fit.options.epsilon)})

Total(stability, S) == FoldSet(LAMBDA c, sum : Plus(sum, stability[c]), 0, S)

(* The excess-of-mass selection is the best there is: no other choice of   *)
(* candidates that lie apart and are within max_cluster_size has a larger  *)
(* total stability.                                                        *)
SelectionIsBest ==
  Chosen /\ fit.options.method = "eom" /\ fit.options.epsilon = 0 =>
    LET stability == compute_stability(condensed)
        allowed == {c \in ToSet(NodeList(condensed, fit.options)) :
                      ~TooLarge(condensed, fit.options, c)}
    IN  /\ fit.selected \subseteq allowed
        /\ \A S \in SUBSET allowed :
             AreApart(S) => ~Exceeds(Total(stability, S), Total(stability, fit.selected))

(* A point has the label of the innermost selected cluster around it, the  *)
(* root aside, and is noise without one; the root labels points only when  *)
(* it is the only cluster.  So the union-find's representative of a point  *)
(* is always the top of what was united, whatever the ranks.  The expects  *)
(* of the labelling hold unless max_cluster_size is set.                   *)
LabelsFollowTheTree ==
  Chosen =>
    /\ fit.by = "panic" => fit.options.single /\ fit.options.max_size # 0
    /\ Fitted =>
         \A p \in Nodes :
           LET around == {c \in fit.selected \ {RootOf(condensed)} : p \in Under(condensed, c)}
           IN  IF around # {}
               THEN fit.labels[p] = LabelOf(fit.selected, Max(around))
               ELSE fit.labels[p] # NOISE => fit.selected = {RootOf(condensed)}

(* Every expect() of the labelling says what holds: "a non-root union root *)
(* must be a selected cluster", "the single allowed cluster must be in the *)
(* map".                                                                   *)
ExpectsHold == fit.by # "panic"

(* A probability is a share of 1, noise has none of it, and a member of a  *)
(* cluster has all of it just when it leaves the tree, from this cluster   *)
(* or one under it, no earlier than anything leaves the cluster.           *)
ProbabilitiesAreShares ==
  Fitted =>
    \A p \in Nodes :
      LET share == fit.probabilities[p]
          cluster == CHOOSE c \in fit.selected : LabelOf(fit.selected, c) = fit.labels[p]
      IN  /\ share[1] <= share[2]
          /\ IF fit.labels[p] = NOISE
             THEN share[1] = 0
             ELSE share[1] = share[2] <=>
                    \A r \in Rows(condensed) :
                      r.parent = cluster => RowWith(condensed, p).lambda >= r.lambda

----------------------------------------------------------------------------
(* GLOSH *)

(* A point's score is how much earlier it leaves than the last point under *)
(* its cluster, as a share of that point's lambda: the deaths have reached *)
(* every ancestor in one pass over the rows in reverse.                    *)
ScoresAreRelative ==
  fit.by = "glosh" =>
    \A p \in Nodes :
      LET row == RowWith(condensed, p)
          last == Max({RowWith(condensed, q).lambda : q \in Under(condensed, row.parent)})
      IN  Finite(last) => fit.scores[p] = <<last - row.lambda, last>>
=============================================================================
