--------------------------- MODULE CondensedTree ----------------------------
(***************************************************************************)
(* The condensed tree of hdbscan/condense.rs, the two sweeps over it of    *)
(* stability.rs, and GLOSH of glosh.rs.  A tree is the sequence of its     *)
(* rows, each a parent cluster, a child (a point or a cluster), the lambda *)
(* at which the child leaves and the child's size.                         *)
(*                                                                         *)
(* Lambda is 1 / distance, f64::INFINITY at distance 0.  Here it counts    *)
(* units of 1 / Scale, which every distance divides: exact, where the code *)
(* rounds.  Infinity and NaN behave as in IEEE arithmetic.                 *)
(***************************************************************************)
EXTENDS SingleLinkage

CONSTANT Scale          \* a multiple of every distance

ASSUME ScaleAssumption == Scale \in Nat /\ \A d \in 1 .. Inf - 1 : Scale % d = 0

Infinity == 1000 * Scale * N
NaN == Infinity + 1

Lambda(distance) == IF distance = 0 THEN Infinity ELSE Scale \div distance
Finite(x) == x < Infinity

Minus(x, y) ==
  IF x = NaN \/ y = NaN \/ (x = Infinity /\ y = Infinity) THEN NaN
  ELSE IF x = Infinity THEN Infinity ELSE x - y
Plus(x, y) ==
  IF x = NaN \/ y = NaN THEN NaN ELSE IF Infinity \in {x, y} THEN Infinity ELSE x + y
Times(x, size) == IF Finite(x) THEN x * size ELSE x
Exceeds(x, y) == NaN \notin {x, y} /\ x > y

----------------------------------------------------------------------------
(* condense.rs *)

CondensedNode(parent, child, lambda, size) ==
  [parent |-> parent, child |-> child, lambda |-> lambda, size |-> size]

(* The points under a node, each leaving its cluster. *)
FallOut(h, x, parent, lambda) ==
  LET points == SelectSeq(bfs_from_hierarchy(h, x), LAMBDA y : y \in Nodes)
  IN  [i \in DOMAIN points |-> CondensedNode(parent, points[i], lambda, 1)]

GenuineSplit(h, t, x) ==
  LET row == RowOf(h, x)
      Child(y, label) == CondensedNode(t.relabel[x], label, Lambda(row.distance), SizeOf(h, y))
  IN  [t EXCEPT !.relabel = [@ EXCEPT ![row.left] = t.next_label,
                                      ![row.right] = t.next_label + 1],
                !.next_label = @ + 2,
                !.rows = @ \o <<Child(row.left, t.next_label), Child(row.right, t.next_label + 1)>>]

(* At most one child is kept: it inherits the label; the points of the     *)
(* others fall out, and no node under them is visited again.               *)
Runts(h, t, x, mcs) ==
  LET row == RowOf(h, x)
      Falls(y) == IF SizeOf(h, y) < mcs
                  THEN FallOut(h, y, t.relabel[x], Lambda(row.distance))
                  ELSE <<>>
      runts == {y \in {row.left, row.right} : SizeOf(h, y) < mcs}
  IN  [t EXCEPT !.relabel = [y \in {row.left, row.right} \ runts |-> t.relabel[x]] @@ @,
                !.ignore = @ \cup UNION {ToSet(bfs_from_hierarchy(h, y)) : y \in runts},
                !.rows = @ \o Falls(row.left) \o Falls(row.right)]

(* Mutant of VisitNode: nodes under a runt are visited too. *)
VisitIgnored(h, mcs, t, x) ==
  IF x < N THEN t
  ELSE IF SizeOf(h, RowOf(h, x).left) >= mcs /\ SizeOf(h, RowOf(h, x).right) >= mcs
       THEN GenuineSplit(h, t, x)
       ELSE Runts(h, t, x, mcs)

VisitNode(h, mcs, t, x) ==
  IF x \in t.ignore \/ x < N THEN t
  ELSE IF SizeOf(h, RowOf(h, x).left) >= mcs /\ SizeOf(h, RowOf(h, x).right) >= mcs
       THEN GenuineSplit(h, t, x)
       ELSE Runts(h, t, x, mcs)

condense_tree(h, mcs) ==
  LET root == 2 * Len(h)
      empty == [relabel    |-> [y \in Ids |-> IF y = root THEN N ELSE 0],
                ignore     |-> {},
                next_label |-> N + 1,
                rows       |-> <<>>]
  IN  FoldLeft(LAMBDA t, x : VisitNode(h, mcs, t, x), empty, bfs_from_hierarchy(h, root)).rows

----------------------------------------------------------------------------
(* stability.rs *)

Rows(tree) == ToSet(tree)
Parents(tree) == {r.parent : r \in Rows(tree)}
RootOf(tree) == Min(Parents(tree))
Clusters(tree) == RootOf(tree) .. Max(Parents(tree))
RowWith(tree, child) == CHOOSE r \in Rows(tree) : r.child = child
Birth(tree, c) == IF c = RootOf(tree) THEN 0 ELSE RowWith(tree, c).lambda

compute_stability(tree) ==
  [c \in Clusters(tree) |->
     FoldLeft(LAMBDA sum, r : IF r.parent = c
                              THEN Plus(sum, Times(Minus(r.lambda, Birth(tree, c)), r.size))
                              ELSE sum,
              0, tree)]

(* Mutant of Flush: only the first group of a parent's rows counts. *)
FlushFirst(deaths, c, lambda) == IF deaths[c] = 0 THEN [deaths EXCEPT ![c] = lambda] ELSE deaths

Flush(deaths, c, lambda) == [deaths EXCEPT ![c] = lambda]

(* One sweep: the running maximum of a parent is flushed when the next row *)
(* has another parent, and a later group of the same parent flushes again. *)
(* Points have no death.                                                   *)
max_lambdas(tree) ==
  LET Sweep(s, r) ==
        IF r.parent = s.current
        THEN [s EXCEPT !.max = Larger(@, r.lambda)]
        ELSE [deaths |-> Flush(s.deaths, s.current, s.max), current |-> r.parent, max |-> r.lambda]
      none == [deaths  |-> [c \in 0 .. Max(Parents(tree)) |-> 0],
               current |-> tree[1].parent,
               max     |-> tree[1].lambda]
      end == FoldLeft(Sweep, none, Tail(tree))
  IN  Flush(end.deaths, end.current, end.max)

----------------------------------------------------------------------------
(* glosh.rs *)

Flood(deaths, r) ==
  IF r.child \in DOMAIN deaths /\ deaths[r.child] > deaths[r.parent]
  THEN [deaths EXCEPT ![r.parent] = deaths[r.child]]
  ELSE deaths

(* Mutant of Flooded: from the root to the leaves. *)
FloodedForward(tree) == FoldLeft(Flood, max_lambdas(tree), tree)

(* From the leaves to the root, a child's death floods its parent's. *)
Flooded(tree) == FoldLeft(Flood, max_lambdas(tree), Reverse(tree))

(* The scores as fractions.  An infinite death leaves a finite lambda with *)
(* NaN, infinity over infinity.                                            *)
outlier_scores(tree) ==
  LET deaths == Flooded(tree)
      Score(r) ==
        IF deaths[r.parent] = 0 \/ ~Finite(r.lambda) THEN <<0, 1>>
        ELSE IF ~Finite(deaths[r.parent]) THEN <<NaN, NaN>>
        ELSE <<deaths[r.parent] - r.lambda, deaths[r.parent]>>
  IN  [p \in Nodes |-> Score(RowWith(tree, p))]
=============================================================================
