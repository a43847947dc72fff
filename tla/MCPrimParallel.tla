--------------------------- MODULE MCPrimParallel ---------------------------
(* Five points and a target of four workers, which makes three of them: two *)
(* nodes, two nodes and one.                                                *)
EXTENDS PrimParallel

Symmetric(d(_, _)) ==
  [p \in Nodes \X Nodes |->
     IF p[1] = p[2] THEN 0 ELSE IF p[1] < p[2] THEN d(p[1], p[2]) ELSE d(p[2], p[1])]

(* Points on a circle, far ones at infinity: ties, loops at the current node *)
(* when nothing is left at a finite distance, places for the smallest core   *)
(* distance in each worker's range.                                          *)
Around(i, j) == IF 2 * (j - i) > N THEN N - (j - i) ELSE j - i
Rings ==
  {[core |-> [i \in Nodes |-> IF i = low THEN 1 ELSE c],
    dist |-> Symmetric(LAMBDA i, j : IF Around(i, j) > far THEN Inf ELSE Around(i, j))] :
     low \in {0, 1, 4}, c \in {1, 2}, far \in {0, 1, 2}}

(* Irregular graphs: distances 1 to 3 and infinity, unequal core distances. *)
Scrambled ==
  {[core |-> [i \in Nodes |-> 1 + ((i + a) % 2)],
    dist |-> Symmetric(LAMBDA i, j : 1 + ((a * i + b * j + i * j) % 4))] :
     a \in 0 .. 3, b \in 1 .. 2}

MCGraphs == Rings \cup Scrambled
=============================================================================
