----------------------------- MODULE MCHdbscan ------------------------------
(* Seven points, so that two clusters of three can shed points side by side *)
(* and a root that has shed a point can split, and its child split again.   *)
EXTENDS Hdbscan

(* The k-th smallest distance from i, its own 0 included. *)
CoreDistance(dist, i, k) ==
  CHOOSE c \in 0 .. Inf - 1 :
    /\ Cardinality({j \in Nodes : dist[<<i, j>>] <= c}) >= k
    /\ Cardinality({j \in Nodes : dist[<<i, j>>] < c}) < k

Graph(dist, k) == [core |-> [i \in Nodes |-> CoreDistance(dist, i, k)], dist |-> dist]

(* Points on a line, by the gaps between neighbours: every shape of         *)
(* hierarchy, mirror images aside.  Node i is at place Place[i], so a Prim  *)
(* starts in the middle.  Distances beyond the largest weight are cut.      *)
Place == [i \in Nodes |-> <<2, 0, 5, 3, 1, 4, 6>>[i + 1]]
Smaller(x, y) == IF x < y THEN x ELSE y
Along(gaps, i, j) == FoldLeft(+, 0, SubSeq(gaps, Smaller(i, j) + 1, Larger(i, j)))
Line(gaps) == [p \in Nodes \X Nodes |-> Smaller(Along(gaps, Place[p[1]], Place[p[2]]), Inf - 1)]
Weight(gaps) == FoldLeft(LAMBDA w, gap : Inf * w + gap, 0, gaps)
Gaps(lengths) == {gaps \in [1 .. N - 1 -> lengths] : Weight(gaps) <= Weight(Reverse(gaps))}

(* Irregular graphs, metric or not. *)
Scrambled(a, b) ==
  [p \in Nodes \X Nodes |->
     IF p[1] = p[2] THEN 0
     ELSE LET i == Smaller(p[1], p[2])
              j == Larger(p[1], p[2])
          IN  1 + ((a * i + b * j + i * j) % 4)]

MCGraphs ==
  {Graph(Line(gaps), 1) : gaps \in Gaps(1 .. 3) \cup Gaps({0, 2})} \cup
  {Graph(Line(gaps), 2) : gaps \in Gaps({0, 2}) \cup Gaps({1, 3})} \cup
  {Graph(Scrambled(a, b), k) : a \in 0 .. 3, b \in 1 .. 3, k \in 2 .. 4}

MCOptions ==
  [method : {"eom"}, single : BOOLEAN, epsilon : {0, 2}, max_size : {0, 3}] \cup
  [method : {"leaf"}, single : BOOLEAN, epsilon : {0, 2}, max_size : {0}]
=============================================================================
