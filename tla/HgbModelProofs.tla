--------------------------- MODULE HgbModelProofs ---------------------------
(***************************************************************************)
(* The model that the host fit of histogram gradient boosting returns is   *)
(* the serial one, whatever the number of workers, rows, features, trees,  *)
(* iterations, levels, chunks and blocks.                                  *)
(*                                                                         *)
(* The argument rests on the invariants of HgbFitProofs, above all on the  *)
(* rows that each node of a level lists.  The invariant (MInv) says, as    *)
(* far as the workers have arrived:                                        *)
(*                                                                         *)
(*  - what a task of the gather sums is what the rows of its stripe add up *)
(*    to, what a column of the reduction holds is what all rows of its     *)
(*    node do, and the histogram of a level's parents is theirs;           *)
(*  - every node before the frontier of the iteration, in the order of     *)
(*    iterations and levels, is valued by the rows that reach it;          *)
(*  - raw predictions and gradients count the iterations behind a row.     *)
(*                                                                         *)
(* The stripes of a node partition its rows, and a subtracted sibling is   *)
(* the rest of its parent: the facts about sums of marks come first.       *)
(***************************************************************************)
EXTENDS HgbFitProofs

----------------------------------------------------------------------------
(* The values                                                               *)

(* What the rows of S add up to in an iteration, and so the histogram and   *)
(* the value of the node they reach.                                        *)
Mark(iter, S) == [i \in Rows |-> IF i \in S THEN 2 ^ iter ELSE 0]

(* The node whose rows a column of a gather holds, a column of the level,   *)
(* and the rows in the stripe of a task.                                    *)
GatherColumn(m, col) ==
  (col \div gather_nc(m)) * plan(m).nodes + m.node_base +
  (col % gather_nc(m)) * (IF plan(m).subtract THEN 2 ELSE 1)
StripeRows(m, t) ==
  {i \in Rows : \E r \in Stripe(m, t) : mem[order(m)][GatherTree(m, t) * job.n + r] = i}

ColumnRows(m, c) == Reaching(m.iter, c \div nc(m), m.level, m.node_base + (c % nc(m)))

(* The rows that reach a node of the level above.                           *)
ParentRows(m, tn) ==
  Reaching(m.iter, tn \div 2 ^ (m.level - 1), m.level - 1, tn % 2 ^ (m.level - 1))

IsGathered(m, t) ==
  \A a \in {IF blocks(m) = 1 THEN gathered(m) ELSE "partials"} :
    t \in DOMAIN mem[a] /\ mem[a][t] = Mark(m.iter, StripeRows(m, t))

IsReduced(m, c) ==
  /\ c \in DOMAIN mem[hist_cur(m)]
  /\ mem[hist_cur(m)][c] = Mark(m.iter, ColumnRows(m, c))
  /\ mem["leaf_value"][ColumnSlot(m, c)] = Mark(m.iter, ColumnRows(m, c))

(* The histograms: those gathered, those reduced, and the parents'.         *)
IsSummed(m) ==
  /\ m.phase = "gather" =>
       \A u \in Workers : Arrived(u) => \A t \in GatherTasks(m, u) : IsGathered(m, t)
  /\ m.phase = "reduce" =>
       /\ \A t \in Upto(job.k * gather_nc(m) * blocks(m)) : IsGathered(m, t)
       /\ \A u \in Workers : Arrived(u) => \A c \in Columns(m, u) : IsReduced(m, c)
  /\ m.phase \in {"gather", "reduce"} /\ plan(m).subtract =>
       \A tn \in Upto(job.k * 2 ^ (m.level - 1)) :
         mem[hist_par(m)][tn] = Mark(m.iter, ParentRows(m, tn))
  /\ m.phase \in {"count", "prefix", "scatter", "fused"} /\ plan(m).retain =>
       \A tn \in Upto(Units(m)) : mem[hist_par(m)][tn] = Mark(m.iter, Reached(m, tn))

(* The nodes of the iteration already valued: how many, level by level.     *)
Frontier(m) ==
  IF m.phase \in {"gather", "reduce"} THEN 2 ^ m.level - 1 + m.node_base
  ELSE 2 ^ (m.level + 1) - 1

IsBefore(m, iter, a) ==
  \/ iter < m.iter
  \/ iter = m.iter /\ m.phase \in LevelPhases \cup {"update"} /\ a < Frontier(m)

ValuedAt(iter, tt, level, node) ==
  mem["leaf_value"][TreeBase(iter, tt) + (2 ^ level - 1 + node)]
    = Mark(iter, Reaching(iter, tt, level, node))

IsValued(m) ==
  \A iter \in Upto(job.iters), tt \in Upto(job.k), level \in Levels :
    \A node \in Upto(2 ^ level) :
      IsBefore(m, iter, 2 ^ level - 1 + node) => ValuedAt(iter, tt, level, node)

(* A row's raw prediction and its gradient.                                 *)
Moved(x, e) == mem["raw"][x] = 2 ^ e
Graded(x, e) == mem["gh"][x] = 2 ^ e

IsGraded(m) ==
  /\ m.phase = "init" =>
       m.iter = 0 /\ \A u \in Workers : Arrived(u) => \A x \in Share(u) : Moved(x, 0)
  /\ m.phase \in LevelPhases \cup {"grad", "reset", "done"} =>
       \A x \in Upto(job.n * job.k) : Moved(x, m.iter)
  /\ m.phase = "grad" =>
       \A u \in Workers : Arrived(u) => \A x \in Share(u) : Graded(x, m.iter)
  /\ m.phase \in LevelPhases \cup {"reset"} =>
       \A x \in Upto(job.n * job.k) : Graded(x, m.iter)
  /\ m.phase = "update" =>
       /\ m.level = job.depth
       /\ \A u \in Workers : \A x \in Share(u) :
            Moved(x, IF Arrived(u) THEN m.iter + 1 ELSE m.iter)

IsModelled(m) == IsGraded(m) /\ IsValued(m) /\ IsSummed(m)

MInv ==
  ~poisoned =>
    /\ DOMAIN mem["raw"] = Upto(job.n * job.k)
    /\ \A u \in Workers : \A m \in {Pending(u)} : IsModelled(m)

----------------------------------------------------------------------------
(* Sums over the blocks of a column                                         *)

LEMMA PartsBelowIsRun ==
  ASSUME NEW m, NEW col \in Nat, NEW i, blocks(m) \in Nat
  PROVE  \A b \in 0 .. blocks(m) :
           PartsBelow(m, col, i)[b] =
             IF b = 0 THEN 0
             ELSE PartsBelow(m, col, i)[b - 1] + mem.partials[col * blocks(m) + b - 1][i]
<1> DEFINE count == blocks(m)
           IsRun(f) == f = [b \in 0 .. count |->
                              IF b = 0 THEN 0 ELSE f[b - 1] + mem.partials[col * count + b - 1][i]]
           c == [b \in 0 .. count - 1 |-> mem.partials[col * count + b][i]]
<1>1. PICK f : f = [b \in 0 .. count |-> IF b = 0 THEN 0 ELSE f[b - 1] + c[b - 1]]
  <2> HIDE DEF c, count
  <2> QED
    BY RunExists DEF count
<1>2. \A b \in 0 .. count : b # 0 => c[b - 1] = mem.partials[col * count + b - 1][i]
  <2>1. ASSUME NEW b \in 0 .. count, b # 0
        PROVE  c[b - 1] = mem.partials[col * count + b - 1][i]
    <3>1. b - 1 \in 0 .. count - 1 /\ col * count \in Int
      BY <2>1
    <3>2. PICK x : x = col * count
      OBVIOUS
    <3>3. x + (b - 1) = x + b - 1
      BY <3>1, <3>2
    <3> QED
      BY <3>1, <3>2, <3>3
  <2> QED
    BY <2>1
<1>3. IsRun(f)
  <2> HIDE DEF c, count
  <2>1. \A b \in 0 .. count :
          (IF b = 0 THEN 0 ELSE f[b - 1] + c[b - 1])
            = IF b = 0 THEN 0 ELSE f[b - 1] + mem.partials[col * count + b - 1][i]
    BY <1>2
  <2> QED
    BY <1>1, <2>1
<1>4. PartsBelow(m, col, i) = CHOOSE g : IsRun(g)
  BY DEF PartsBelow
<1> HIDE DEF IsRun
<1>5. IsRun(PartsBelow(m, col, i))
  BY <1>3, <1>4
<1> QED
  BY <1>5 DEF IsRun

(* Row i is listed at a position from lo on and below hi.                   *)
Holds(row, lo, hi, i) == \E r \in lo .. hi - 1 : row[r] = i

(* A row that is listed once adds its part once, in whichever stripe it is. *)
Stripes(n, edge, row, i) ==
  /\ \A b \in 0 .. n : edge[b] \in Int
  /\ \A b \in 0 .. n : \A c \in 0 .. n : b <= c => edge[b] <= edge[c]
  /\ \A r, q \in edge[0] .. edge[n] - 1 : row[r] = i /\ row[q] = i => r = q

Summed(n, f, part) == \A b \in 0 .. n : f[b] = IF b = 0 THEN 0 ELSE f[b - 1] + part[b - 1]

LEMMA PartsAddUp ==
  ASSUME NEW n \in Nat, NEW edge, NEW row, NEW i, Stripes(n, edge, row, i),
         NEW g \in Nat, NEW part,
         \A b \in 0 .. n - 1 : part[b] = IF Holds(row, edge[b], edge[b + 1], i) THEN g ELSE 0,
         NEW f, Summed(n, f, part)
  PROVE  f[n] = IF Holds(row, edge[0], edge[n], i) THEN g ELSE 0
<1> USE DEF Stripes, Summed
<1> DEFINE Good == {b \in Nat : b <= n => f[b] = IF Holds(row, edge[0], edge[b], i) THEN g ELSE 0}
<1>1. 0 \in Good
  <2>1. ~Holds(row, edge[0], edge[0], i)
    BY DEF Holds
  <2>2. f[0] = 0
    OBVIOUS
  <2> QED
    BY <2>1, <2>2
<1>2. ASSUME NEW b \in Nat, b \in Good PROVE b + 1 \in Good
  <2> SUFFICES ASSUME b + 1 <= n
               PROVE  f[b + 1] = IF Holds(row, edge[0], edge[b + 1], i) THEN g ELSE 0
    OBVIOUS
  <2>1. b \in 0 .. n - 1 /\ b \in 0 .. n /\ b + 1 \in 0 .. n /\ b <= n /\ b + 1 # 0
        /\ (b + 1) - 1 = b /\ 0 \in 0 .. n /\ n \in 0 .. n
    OBVIOUS
  <2>2. f[b] = IF Holds(row, edge[0], edge[b], i) THEN g ELSE 0
    BY <1>2, <2>1
  <2>3. f[b + 1] = f[b] + part[b]
    BY <2>1
  <2>4. part[b] = IF Holds(row, edge[b], edge[b + 1], i) THEN g ELSE 0
    BY <2>1
  <2>5. PICK o, lo, hi, z : o = edge[0] /\ lo = edge[b] /\ hi = edge[b + 1] /\ z = edge[n]
    OBVIOUS
  <2>6. o \in Int /\ lo \in Int /\ hi \in Int /\ z \in Int /\ o <= lo /\ lo <= hi /\ hi <= z
    BY <2>1, <2>5
  <2>7. Holds(row, o, hi, i) <=> Holds(row, o, lo, i) \/ Holds(row, lo, hi, i)
    BY <2>6 DEF Holds
  <2>8. ~ (Holds(row, o, lo, i) /\ Holds(row, lo, hi, i))
    <3> SUFFICES ASSUME Holds(row, o, lo, i), Holds(row, lo, hi, i) PROVE FALSE
      OBVIOUS
    <3>1. PICK r \in o .. lo - 1 : row[r] = i
      BY DEF Holds
    <3>2. PICK q \in lo .. hi - 1 : row[q] = i
      BY DEF Holds
    <3>3. r \in o .. z - 1 /\ q \in o .. z - 1 /\ r # q
      BY <2>6
    <3> QED
      BY <2>5, <3>1, <3>2, <3>3
  <2>9. f[b + 1] = IF Holds(row, o, hi, i) THEN g ELSE 0
    BY <2>2, <2>3, <2>4, <2>5, <2>7, <2>8
  <2> QED
    BY <2>5, <2>9
<1> HIDE DEF Good
<1>3. n \in Good
  BY <1>1, <1>2, NatSetInd
<1> QED
  BY <1>3 DEF Good

(* What a stripe's task counts for a row.                                   *)
LEMMA CountedOnce ==
  ASSUME NEW S, NEW row, DOMAIN row = S, NEW i,
         \A r, q \in S : row[r] = i /\ row[q] = i => r = q, NEW g \in Nat
  PROVE  g * Cardinality({r \in DOMAIN row : row[r] = i})
           = IF \E r \in S : row[r] = i THEN g ELSE 0
<1>1. CASE \E r \in S : row[r] = i
  <2>1. PICK r \in S : row[r] = i
    BY <1>1
  <2>2. {q \in DOMAIN row : row[q] = i} = {r}
    BY <2>1
  <2>3. Cardinality({r}) = 1
    BY FS_Singleton
  <2> QED
    BY <1>1, <2>2, <2>3
<1>2. CASE ~ \E r \in S : row[r] = i
  <2>1. {q \in DOMAIN row : row[q] = i} = {}
    BY <1>2
  <2>2. Cardinality({}) = 0
    BY FS_EmptySet
  <2> QED
    BY <1>2, <2>1, <2>2
<1> QED
  BY <1>1, <1>2

LEMMA DivDiv ==
  ASSUME NEW t \in Nat, NEW a \in Nat \ {0}, NEW b \in Nat \ {0}
  PROVE  t \div (a * b) = (t \div a) \div b
<1>1. PICK q, r : q = t \div a /\ r = t % a
  OBVIOUS
<1>2. q \in Nat /\ r \in 0 .. a - 1 /\ t = a * q + r
  <2>1. q \in Nat
    BY <1>1, TaskOf
  <2>2. t \in Int
    OBVIOUS
  <2>3. r \in 0 .. a - 1 /\ r = t - a * q
    BY <1>1, <2>2, DivMod
  <2>4. PICK p : p = a * q
    OBVIOUS
  <2>5. p \in Int
    BY <2>1, <2>4
  <2> QED
    BY <2>1, <2>3, <2>4, <2>5
<1>3. PICK x, y : x = q \div b /\ y = q % b
  OBVIOUS
<1>4. x \in Int /\ y \in 0 .. b - 1 /\ q = b * x + y
  <2>1. q \in Int
    BY <1>2
  <2>2. x \in Int /\ y \in 0 .. b - 1 /\ y = q - b * x
    BY <1>3, <2>1, DivMod
  <2>3. PICK p : p = b * x
    OBVIOUS
  <2>4. p \in Int
    BY <2>2, <2>3
  <2> QED
    BY <2>1, <2>2, <2>3, <2>4
<1>5. PICK c, z : c = a * b /\ z = a * y + r
  OBVIOUS
<1>6. c \in Nat \ {0}
  BY <1>5
<1>7. z \in 0 .. c - 1
  <2>1. a \in Nat /\ y \in Int /\ b - 1 \in Int /\ y <= b - 1
    BY <1>4
  <2>2. a * y <= a * (b - 1)
    BY <2>1, TimesMonotone
  <2>3. a * (b - 1) = c - a
    BY <1>5
  <2>4. a * y \in Nat
    BY <1>4
  <2>5. PICK p : p = a * y
    OBVIOUS
  <2>6. p \in Nat /\ p <= c - a /\ z = p + r
    BY <1>5, <2>2, <2>3, <2>4, <2>5
  <2> QED
    BY <1>2, <1>6, <2>6
<1>8. t = c * x + z
  <2>1. a * (b * x + y) = (a * b) * x + a * y
    BY <1>4
  <2>2. t = (a * b) * x + a * y + r
    BY <1>2, <1>4, <2>1
  <2> QED
    BY <1>2, <1>4, <1>5, <2>2
<1>9. t \div c = x
  BY <1>4, <1>6, <1>7, <1>8, DivModUnique
<1> QED
  BY <1>1, <1>3, <1>5, <1>9

----------------------------------------------------------------------------
(* Columns, stripes and nodes                                               *)

(* A gathered column is that of one node of the level.                      *)
LEMMA GatherPlace ==
  ASSUME IsFit(job), NEW m, IsLocals(m), m.phase \in {"gather", "reduce"},
         NEW col \in Upto(job.k * gather_nc(m)),
         NEW y, y = m.node_base + (col % gather_nc(m)) * (IF plan(m).subtract THEN 2 ELSE 1)
  PROVE  /\ col \in Nat /\ col \div gather_nc(m) \in Upto(job.k)
         /\ y \in Nat /\ y < 2 ^ m.level
         /\ GatherColumn(m, col) = (col \div gather_nc(m)) * plan(m).nodes + y
         /\ GatherColumn(m, col) \in Upto(Units(m))
         /\ GatherColumn(m, col) \div plan(m).nodes = col \div gather_nc(m)
         /\ GatherColumn(m, col) % plan(m).nodes = y
<1>1. /\ nc(m) \in Nat \ {0} /\ gather_nc(m) \in Nat \ {0} /\ m.node_base \in Nat
      /\ m.node_base + nc(m) <= plan(m).nodes
      /\ ~plan(m).subtract => gather_nc(m) = nc(m)
      /\ plan(m).subtract => nc(m) = 2 * gather_nc(m)
      /\ plan(m).nodes = 2 ^ m.level /\ plan(m).nodes \in Nat \ {0} /\ job.k \in Nat \ {0}
      /\ Units(m) = job.k * plan(m).nodes
  BY GatherShape, ShapeFacts
<1>2. PICK q, r : q = col \div gather_nc(m) /\ r = col % gather_nc(m)
  OBVIOUS
<1>3. q \in 0 .. job.k - 1 /\ r \in 0 .. gather_nc(m) - 1 /\ col \in Nat
  <2>1. job.k \in Nat /\ gather_nc(m) \in Nat \ {0} /\ col \in 0 .. job.k * gather_nc(m) - 1
    BY <1>1 DEF Upto
  <2>2. q \in 0 .. job.k - 1 /\ r \in 0 .. gather_nc(m) - 1
    BY <1>2, <2>1, DivBelow
  <2>3. PICK p : p = job.k * gather_nc(m)
    OBVIOUS
  <2>4. p \in Nat
    BY <1>1, <2>3
  <2>5. col \in Nat
    BY <2>1, <2>3, <2>4
  <2> QED
    BY <2>2, <2>5
<1>4. y \in Nat /\ y \in 0 .. plan(m).nodes - 1
  <2>1. CASE plan(m).subtract
    <3>1. y = m.node_base + r * 2
      BY <1>2, <2>1
    <3> QED
      BY <1>1, <1>3, <2>1, <3>1
  <2>2. CASE ~plan(m).subtract
    <3>1. y = m.node_base + r * 1
      BY <1>2, <2>2
    <3> QED
      BY <1>1, <1>3, <2>2, <3>1
  <2> QED
    BY <2>1, <2>2
<1>5. GatherColumn(m, col) = q * plan(m).nodes + y
  <2>1. PICK s : s = (col % gather_nc(m)) * (IF plan(m).subtract THEN 2 ELSE 1)
    OBVIOUS
  <2>2. s \in Int
    <3>1. r \in Int
      BY <1>1, <1>3
    <3>2. s = r * 2 \/ s = r * 1
      BY <1>2, <2>1
    <3> QED
      BY <3>1, <3>2
  <2>3. PICK x : x = q * plan(m).nodes
    OBVIOUS
  <2>4. x \in Int
    BY <1>1, <1>3, <2>3
  <2>5. GatherColumn(m, col) = x + m.node_base + s
    BY <1>2, <2>1, <2>3 DEF GatherColumn
  <2>6. y = m.node_base + s
    BY <2>1
  <2>7. x + m.node_base + s = x + (m.node_base + s)
    BY <1>1, <2>2, <2>4
  <2> QED
    BY <2>3, <2>5, <2>6, <2>7
<1>6. PICK z : z = q * plan(m).nodes + y
  OBVIOUS
<1>7. /\ z \in q * plan(m).nodes .. (q + 1) * plan(m).nodes - 1
      /\ z \div plan(m).nodes = q /\ z % plan(m).nodes = y
  <2>1. PICK n : n = plan(m).nodes
    OBVIOUS
  <2>2. q \in Nat /\ n \in Nat \ {0} /\ y \in 0 .. n - 1
    BY <1>1, <1>3, <1>4, <2>1
  <2>3. /\ q * n + y \in q * n .. (q + 1) * n - 1
        /\ (q * n + y) \div n = q /\ (q * n + y) % n = y
    BY <2>2, BlockOf
  <2> QED
    BY <1>6, <2>1, <2>3
<1>8. z \in Upto(job.k * plan(m).nodes)
  <2>1. job.k \in Nat /\ q \in Upto(job.k)
    BY <1>1, <1>3 DEF Upto
  <2> QED
    BY <1>1, <1>7, <2>1, BlocksAreTasks
<1>9. y < 2 ^ m.level
  BY <1>1, <1>4
<1>10. q \in Upto(job.k)
  BY <1>3 DEF Upto
<1> QED
  BY <1>1, <1>2, <1>3, <1>4, <1>5, <1>6, <1>7, <1>8, <1>9, <1>10

(* The stripes of a column cut the range of its node.                       *)
Edge(m, col, b) ==
  LET range == mem[ranges(m)][GatherColumn(m, col)]
  IN  range[1] + (b * (range[2] - range[1])) \div blocks(m)

LEMMA StripeIs ==
  ASSUME IsFit(job), NEW m, IsLocals(m), m.phase \in {"gather", "reduce"},
         NEW col \in Nat, IsRange(mem[ranges(m)][GatherColumn(m, col)]),
         NEW b \in 0 .. blocks(m) - 1, NEW t, t = col * blocks(m) + b
  PROVE  /\ GatherTree(m, t) = col \div gather_nc(m)
         /\ GatherNode(m, t) = GatherColumn(m, col)
         /\ Stripe(m, t) = Edge(m, col, b) .. Edge(m, col, b + 1) - 1
<1>1. blocks(m) \in Nat \ {0} /\ gather_nc(m) \in Nat \ {0}
  BY GatherShape
<1>2. t \div blocks(m) = col /\ t % blocks(m) = b /\ t \in Nat
  <2>1. t \div blocks(m) = col /\ t % blocks(m) = b
        /\ t \in col * blocks(m) .. (col + 1) * blocks(m) - 1
    BY <1>1, BlockOf
  <2>2. t \in Nat
    BY <1>1, <2>1, BlocksOf
  <2> QED
    BY <2>1, <2>2
<1>3. GatherTree(m, t) = col \div gather_nc(m)
  <2>1. t \div (blocks(m) * gather_nc(m)) = (t \div blocks(m)) \div gather_nc(m)
    BY <1>1, <1>2, DivDiv
  <2> QED
    BY <1>2, <2>1 DEF GatherTree
<1>4. GatherNode(m, t) = GatherColumn(m, col)
  BY Zenon, <1>2, <1>3 DEF GatherNode, GatherColumn
<1>5. Stripe(m, t) = Edge(m, col, b) .. Edge(m, col, b + 1) - 1
  <2>1. PICK range : range = mem[ranges(m)][GatherColumn(m, col)]
    OBVIOUS
  <2>2. PICK len : len = range[2] - range[1]
    OBVIOUS
  <2>3. Stripe(m, t) = range[1] + (b * len) \div blocks(m)
                         .. range[1] + ((b + 1) * len) \div blocks(m) - 1
    BY <1>2, <1>4, <2>1, <2>2 DEF Stripe
  <2>4. \A x : Edge(m, col, x) = range[1] + (x * len) \div blocks(m)
    BY <2>1, <2>2 DEF Edge
  <2>5. /\ Edge(m, col, b) = range[1] + (b * len) \div blocks(m)
        /\ Edge(m, col, b + 1) = range[1] + ((b + 1) * len) \div blocks(m)
    BY <2>4
  <2>6. range[1] \in Int /\ ((b + 1) * len) \div blocks(m) \in Int
    <3>1. range[1] \in Int /\ len \in Int /\ b + 1 \in Int
      BY <1>1, <2>1, <2>2 DEF IsRange
    <3>2. (b + 1) * len \in Int
      BY <3>1
    <3> QED
      BY <1>1, <3>1, <3>2, DivMod
  <2>7. PICK x, y : x = (b * len) \div blocks(m) /\ y = ((b + 1) * len) \div blocks(m)
    OBVIOUS
  <2>8. range[1] + y - 1 = (range[1] + y) - 1
    BY <2>6, <2>7
  <2>9. Stripe(m, t) = range[1] + x .. range[1] + y - 1
    BY <2>3, <2>7
  <2> QED
    BY <2>5, <2>7, <2>8, <2>9
<1> QED
  BY <1>3, <1>4, <1>5

LEMMA EdgesRise ==
  ASSUME IsFit(job), NEW m, IsLocals(m), m.phase \in {"gather", "reduce"},
         NEW col, IsRange(mem[ranges(m)][GatherColumn(m, col)])
  PROVE  /\ Edge(m, col, 0) = mem[ranges(m)][GatherColumn(m, col)][1]
         /\ Edge(m, col, blocks(m)) = mem[ranges(m)][GatherColumn(m, col)][2]
         /\ \A b \in Nat : Edge(m, col, b) \in Int
         /\ \A b \in Nat, c \in Nat : b <= c => Edge(m, col, b) <= Edge(m, col, c)
<1>1. blocks(m) \in Nat \ {0}
  BY GatherShape
<1>2. PICK lo, hi, len : /\ lo = mem[ranges(m)][GatherColumn(m, col)][1]
                         /\ hi = mem[ranges(m)][GatherColumn(m, col)][2] /\ len = hi - lo
  OBVIOUS
<1>3. lo \in Int /\ hi \in Int /\ lo <= hi /\ len \in Nat /\ lo + len = hi
  <2>1. lo \in 0 .. job.n /\ hi \in 0 .. job.n /\ lo <= hi /\ job.n \in Nat
    BY <1>2 DEF IsRange, IsFit
  <2> QED
    BY <1>2, <2>1
<1>4. \A b : Edge(m, col, b) = lo + (b * len) \div blocks(m)
  BY <1>2 DEF Edge
<1>5. PICK n : n = blocks(m)
  OBVIOUS
<1>6. \A b \in Nat : b * len \in Int /\ (b * len) \div n \in Int
  <2> SUFFICES ASSUME NEW b \in Nat PROVE b * len \in Int /\ (b * len) \div n \in Int
    OBVIOUS
  <2>1. b * len \in Int
    BY <1>3
  <2> QED
    BY <1>1, <1>5, <2>1, DivMod
<1>7. (0 * len) \div n = 0 /\ (n * len) \div n = len
  <2>1. 0 * len = n * 0 + 0 /\ n * len = n * len + 0
    BY <1>1, <1>3, <1>5
  <2>2. 0 \in 0 .. n - 1 /\ 0 \in Int /\ len \in Int /\ n \in Nat \ {0}
    BY <1>1, <1>3, <1>5
  <2>3. (n * 0 + 0) \div n = 0
    BY <2>2, DivModUnique
  <2>4. (n * len + 0) \div n = len
    BY <2>2, DivModUnique
  <2> QED
    BY <2>1, <2>3, <2>4
<1>8. \A b \in Nat, c \in Nat : b <= c => (b * len) \div n <= (c * len) \div n
  <2> SUFFICES ASSUME NEW b \in Nat, NEW c \in Nat, b <= c
               PROVE  (b * len) \div n <= (c * len) \div n
    OBVIOUS
  <2>1. b * len <= c * len /\ b * len \in Int /\ c * len \in Int
    <3>1. len <= len /\ len \in Nat
      BY <1>3
    <3>2. b * len \in Nat /\ c * len \in Nat /\ b * len <= c * len
      BY <3>1, ProductsGrow
    <3> QED
      BY <3>2
  <2>2. n \in Nat \ {0}
    BY <1>1, <1>5
  <2> QED
    BY <2>1, <2>2, DivMonotone
<1>9. Edge(m, col, 0) = lo /\ Edge(m, col, n) = hi
  BY <1>3, <1>4, <1>5, <1>7
<1>10. \A b \in Nat : Edge(m, col, b) \in Int
  BY <1>3, <1>4, <1>5, <1>6
<1>11. \A b \in Nat, c \in Nat : b <= c => Edge(m, col, b) <= Edge(m, col, c)
  <2> SUFFICES ASSUME NEW b \in Nat, NEW c \in Nat, b <= c
               PROVE  Edge(m, col, b) <= Edge(m, col, c)
    OBVIOUS
  <2>1. PICK x, y : x = (b * len) \div n /\ y = (c * len) \div n
    OBVIOUS
  <2>2. x \in Int /\ y \in Int /\ x <= y
    BY <1>6, <1>8, <2>1
  <2>3. Edge(m, col, b) = lo + x /\ Edge(m, col, c) = lo + y
    BY <1>4, <1>5, <2>1
  <2> QED
    BY <1>3, <2>2, <2>3
<1> QED
  BY <1>2, <1>5, <1>9, <1>10, <1>11

(* The nodes of the level list the rows that reach them.                    *)
Sorted(m) ==
  /\ IsFit(job) /\ IsLocals(m) /\ m.phase \in {"gather", "reduce"}
  /\ AreRanges(mem[ranges(m)], plan(m).nodes)
  /\ \A tn \in Upto(Units(m)) : NodeLists(m, tn)

LEMMA ColumnLists ==
  ASSUME NEW m, Sorted(m), NEW col \in Upto(job.k * gather_nc(m)),
         NEW tn, tn = GatherColumn(m, col), NEW row, row = Node(m, tn).row
  PROVE  /\ IsRange(mem[ranges(m)][tn]) /\ Reached(m, tn) \subseteq Rows
         /\ ListsRows(row, Edge(m, col, 0), Edge(m, col, blocks(m)), Reached(m, tn))
         /\ \A r \in Edge(m, col, 0) .. Edge(m, col, blocks(m)) - 1 :
              row[r] = mem[order(m)][(col \div gather_nc(m)) * job.n + r]
<1>1. IsFit(job) /\ IsLocals(m) /\ m.phase \in {"gather", "reduce"}
  BY DEF Sorted
<1>2. tn \in Upto(Units(m)) /\ tn \div plan(m).nodes = col \div gather_nc(m)
  BY <1>1, GatherPlace
<1>3. IsRange(mem[ranges(m)][tn])
  BY <1>1, <1>2, ShapeFacts DEF Sorted, AreRanges
<1>4. AtNode(m, tn)
  BY <1>1, <1>2, <1>3 DEF AtNode
<1>5. /\ Edge(m, col, 0) = Node(m, tn).s
      /\ Edge(m, col, blocks(m)) = Node(m, tn).e
  BY <1>1, <1>3, <1>4, EdgesRise, NodeFacts
<1>6. ListsRows(row, Node(m, tn).s, Node(m, tn).e, Reached(m, tn))
  BY <1>2 DEF Sorted, NodeLists
<1>7. Reached(m, tn) \subseteq Rows
  BY DEF Reached, Reaching
<1>8. \A r \in Node(m, tn).s .. Node(m, tn).e - 1 :
        row[r] = mem[order(m)][(col \div gather_nc(m)) * job.n + r]
  BY <1>2 DEF Node
<1> QED
  BY <1>3, <1>5, <1>6, <1>7, <1>8

LEMMA StripeHolds ==
  ASSUME NEW m, Sorted(m), NEW col \in Upto(job.k * gather_nc(m)),
         NEW tn, tn = GatherColumn(m, col), NEW row, row = Node(m, tn).row,
         NEW b \in 0 .. blocks(m) - 1, NEW t, t = col * blocks(m) + b
  PROVE  /\ \A r \in Stripe(m, t) :
              /\ r \in Edge(m, col, 0) .. Edge(m, col, blocks(m)) - 1
              /\ mem[order(m)][GatherTree(m, t) * job.n + r] = row[r]
         /\ \A i \in Rows :
              i \in StripeRows(m, t) <=> Holds(row, Edge(m, col, b), Edge(m, col, b + 1), i)
<1>1. IsFit(job) /\ IsLocals(m) /\ m.phase \in {"gather", "reduce"} /\ blocks(m) \in Nat \ {0}
  BY GatherShape DEF Sorted
<1>2. IsRange(mem[ranges(m)][GatherColumn(m, col)]) /\ col \in Nat
  BY <1>1, ColumnLists, GatherPlace
<1>3. /\ GatherTree(m, t) = col \div gather_nc(m)
      /\ Stripe(m, t) = Edge(m, col, b) .. Edge(m, col, b + 1) - 1
  BY <1>1, <1>2, StripeIs
<1>4. PICK o, lo, hi, z : /\ o = Edge(m, col, 0) /\ lo = Edge(m, col, b)
                          /\ hi = Edge(m, col, b + 1) /\ z = Edge(m, col, blocks(m))
  OBVIOUS
<1>5. o \in Int /\ lo \in Int /\ hi \in Int /\ z \in Int /\ o <= lo /\ hi <= z
  <2>1. 0 \in Nat /\ b \in Nat /\ b + 1 \in Nat /\ blocks(m) \in Nat
        /\ 0 <= b /\ b + 1 <= blocks(m)
    BY <1>1
  <2> QED
    BY <1>1, <1>2, <1>4, <2>1, EdgesRise
<1>6. \A r \in o .. z - 1 : row[r] = mem[order(m)][(col \div gather_nc(m)) * job.n + r]
  BY <1>4, ColumnLists
<1>7. \A r \in lo .. hi - 1 : r \in o .. z - 1
  BY <1>5
<1>8. \A r \in lo .. hi - 1 : mem[order(m)][GatherTree(m, t) * job.n + r] = row[r]
  BY <1>3, <1>6, <1>7
<1>9. Stripe(m, t) = lo .. hi - 1
  BY <1>3, <1>4
<1>10. \A i \in Rows : i \in StripeRows(m, t) <=> Holds(row, lo, hi, i)
  BY <1>8, <1>9 DEF StripeRows, Holds
<1> QED
  BY <1>4, <1>7, <1>8, <1>9, <1>10

(* A gathered column, once its blocks are added up, is the histogram of the *)
(* rows that reach its node.                                                *)
LEMMA ReducedColumn ==
  ASSUME NEW m, Sorted(m), NEW col \in Upto(job.k * gather_nc(m)),
         \A t \in Upto(job.k * gather_nc(m) * blocks(m)) : IsGathered(m, t)
  PROVE  reduce_cum_one(m, col) = Mark(m.iter, Reached(m, GatherColumn(m, col)))
<1>1. /\ IsFit(job) /\ IsLocals(m) /\ m.phase \in {"gather", "reduce"}
      /\ blocks(m) \in Nat \ {0} /\ gather_nc(m) \in Nat \ {0} /\ job.k \in Nat \ {0}
      /\ m.iter \in Nat
  BY GatherShape, ShapeFacts DEF Sorted
<1>2. PICK tn, row : tn = GatherColumn(m, col) /\ row = Node(m, tn).row
  OBVIOUS
<1>3. col \in Nat /\ IsRange(mem[ranges(m)][GatherColumn(m, col)])
  BY <1>1, ColumnLists, GatherPlace
<1>4. PICK n, o, z, g : /\ n = blocks(m) /\ o = Edge(m, col, 0) /\ z = Edge(m, col, blocks(m))
                        /\ g = 2 ^ m.iter
  OBVIOUS
<1>5. g \in Nat /\ n \in Nat \ {0}
  BY <1>1, <1>4, PowerDoubles
<1>6. ListsRows(row, o, z, Reached(m, tn)) /\ Reached(m, tn) \subseteq Rows
  BY <1>2, <1>4, ColumnLists
<1>7. o \in Int /\ z \in Int
  BY <1>1, <1>3, <1>4, EdgesRise
<1>8. \A i \in Rows : i \in Reached(m, tn) <=> Holds(row, o, z, i)
  BY <1>6 DEF ListsRows, Holds
<1>9. ASSUME NEW b \in 0 .. n - 1
      PROVE  /\ IsGathered(m, col * n + b)
             /\ \A i \in Rows :
                  i \in StripeRows(m, col * n + b)
                    <=> Holds(row, Edge(m, col, b), Edge(m, col, b + 1), i)
  <2>1. col * n + b \in Upto(job.k * gather_nc(m) * blocks(m))
    <3>1. PICK units : units = job.k * gather_nc(m)
      OBVIOUS
    <3>2. units \in Nat /\ col \in Upto(units)
      BY <1>1, <3>1, ProductsGrow
    <3>3. col * n + b \in col * n .. (col + 1) * n - 1
      BY <1>3, <1>5, BlockOf
    <3>4. col * n + b \in Upto(units * n)
      BY <1>5, <3>2, <3>3, BlocksAreTasks
    <3> QED
      BY <1>4, <3>1, <3>4
  <2> QED
    BY <1>2, <1>4, <2>1, StripeHolds
<1>10. CASE n = 1
  <2>1. col * n + 0 = col /\ 0 \in 0 .. n - 1 /\ 0 + 1 = n
    BY <1>3, <1>10
  <2>2. mem[gathered(m)][col] = Mark(m.iter, StripeRows(m, col))
    BY <1>4, <1>9, <1>10, <2>1 DEF IsGathered
  <2>3. \A i \in Rows : i \in StripeRows(m, col) <=> Holds(row, o, z, i)
    BY <1>4, <1>9, <2>1
  <2>4. reduce_cum_one(m, col) = mem[gathered(m)][col]
    BY <1>4, <1>10 DEF reduce_cum_one
  <2>5. \A i \in Rows : i \in StripeRows(m, col) <=> i \in Reached(m, tn)
    BY <1>8, <2>3
  <2> QED
    BY <1>2, <2>2, <2>4, <2>5 DEF Mark
<1>11. CASE n # 1
  <2>1. ASSUME NEW i \in Rows
        PROVE  PartsBelow(m, col, i)[n] = IF i \in Reached(m, tn) THEN g ELSE 0
    <3> DEFINE edge == [b \in 0 .. n |-> Edge(m, col, b)]
               part == [b \in 0 .. n - 1 |->
                          IF Holds(row, edge[b], edge[b + 1], i) THEN g ELSE 0]
               f == PartsBelow(m, col, i)
    <3>1. \A b \in 0 .. n : edge[b] = Edge(m, col, b) /\ edge[b] \in Int
      BY <1>1, <1>3, <1>5, EdgesRise
    <3>2. \A b \in 0 .. n : \A c \in 0 .. n : b <= c => edge[b] <= edge[c]
      <4>1. \A b \in Nat, c \in Nat : b <= c => Edge(m, col, b) <= Edge(m, col, c)
        BY <1>1, <1>3, EdgesRise
      <4> QED
        BY <1>5, <4>1
    <3>3. edge[0] = o /\ edge[n] = z
      BY <1>4, <1>5
    <3>4. \A r, q \in o .. z - 1 : row[r] = i /\ row[q] = i => r = q
      BY <1>6, <1>7 DEF ListsRows, Rows
    <3>5. \A b \in 0 .. n - 1 : part[b] = mem["partials"][col * n + b][i]
      <4> SUFFICES ASSUME NEW b \in 0 .. n - 1
                   PROVE  part[b] = mem["partials"][col * n + b][i]
        OBVIOUS
      <4>1. mem["partials"][col * n + b] = Mark(m.iter, StripeRows(m, col * n + b))
        BY <1>4, <1>9, <1>11 DEF IsGathered
      <4>2. edge[b] = Edge(m, col, b) /\ edge[b + 1] = Edge(m, col, b + 1)
        BY <1>5
      <4>3. mem["partials"][col * n + b][i] =
              IF i \in StripeRows(m, col * n + b) THEN g ELSE 0
        BY <1>4, <4>1 DEF Mark
      <4> QED
        BY <1>9, <4>2, <4>3
    <3>6. \A b \in 0 .. n - 1 : part[b] = IF Holds(row, edge[b], edge[b + 1], i) THEN g ELSE 0
      OBVIOUS
    <3>7. \A b \in 0 .. n :
            f[b] = IF b = 0 THEN 0 ELSE f[b - 1] + mem["partials"][col * n + b - 1][i]
      BY <1>3, <1>4, <1>5, PartsBelowIsRun
    <3>8. \A b \in 0 .. n : f[b] = IF b = 0 THEN 0 ELSE f[b - 1] + part[b - 1]
      <4> SUFFICES ASSUME NEW b \in 0 .. n, b # 0
                   PROVE  mem["partials"][col * n + b - 1][i] = part[b - 1]
        BY <3>7
      <4>1. PICK x : x = col * n
        OBVIOUS
      <4>2. x \in Int /\ b - 1 \in 0 .. n - 1 /\ x + b - 1 = x + (b - 1)
        BY <1>3, <1>5, <4>1
      <4> QED
        BY <3>5, <4>1, <4>2
    <3> HIDE DEF edge, part, f
    <3>9. f[n] = IF Holds(row, edge[0], edge[n], i) THEN g ELSE 0
      <4>1. n \in Nat /\ \A b \in 0 .. n : edge[b] \in Int
        BY <1>5, <3>1
      <4>2. \A r, q \in edge[0] .. edge[n] - 1 : row[r] = i /\ row[q] = i => r = q
        BY <3>3, <3>4
      <4> QED
        <5>1. Stripes(n, edge, row, i)
          BY <3>2, <4>1, <4>2 DEF Stripes
        <5>2. Summed(n, f, part)
          BY <3>8 DEF Summed
        <5>3. n \in Nat /\ g \in Nat
          BY <1>5
        <5> QED
          BY ONLY <3>6, <5>1, <5>2, <5>3, PartsAddUp
    <3> QED
      BY <1>8, <3>3, <3>9 DEF f
  <2>2. reduce_cum_one(m, col) = [i \in Rows |-> PartsBelow(m, col, i)[n]]
    BY <1>4, <1>11 DEF reduce_cum_one
  <2> QED
    BY <1>2, <1>4, <2>1, <2>2 DEF Mark
<1> QED
  BY <1>10, <1>11

(* What the task of a stripe writes.                                        *)
RowsAt(m, t) == [r \in Stripe(m, t) |-> mem[order(m)][GatherTree(m, t) * job.n + r]]
Cell(m, t) ==
  [i \in Rows |-> mem.gh[i * job.k + GatherTree(m, t)] *
                  Cardinality({r \in DOMAIN RowsAt(m, t) : RowsAt(m, t)[r] = i})]

GatherArray(m) == IF blocks(m) = 1 THEN gathered(m) ELSE "partials"

LEMMA GatherWritesCells ==
  ASSUME NEW u, NEW m, NEW d, me[u] = m, m.phase = "gather"
  PROVE  /\ DOMAIN Writes(u, d) = {GatherArray(m)}
         /\ Writes(u, d)[GatherArray(m)] = [t \in GatherTasks(m, u) |-> Cell(m, t)]
<1>1. Writes(u, d) = gather(m, u)
  BY DEF Writes
<1>2. gather(m, u) = Store(GatherArray(m), [t \in GatherTasks(m, u) |-> Cell(m, t)])
  BY DEF gather, GatherArray, Cell, RowsAt
<1> QED
  BY <1>1, <1>2 DEF Store

LEMMA CellIs ==
  ASSUME NEW m, Sorted(m), \A x \in Upto(job.n * job.k) : Graded(x, m.iter),
         NEW t \in Upto(job.k * gather_nc(m) * blocks(m))
  PROVE  Cell(m, t) = Mark(m.iter, StripeRows(m, t))
<1>1. /\ IsFit(job) /\ IsLocals(m) /\ m.phase \in {"gather", "reduce"}
      /\ blocks(m) \in Nat \ {0} /\ gather_nc(m) \in Nat \ {0}
      /\ job.k \in Nat \ {0} /\ job.n \in Nat \ {0} /\ m.iter \in Nat
  BY GatherShape, ShapeFacts DEF Sorted
<1>2. PICK g : g = 2 ^ m.iter
  OBVIOUS
<1>3. g \in Nat
  BY <1>1, <1>2, PowerDoubles
<1>4. PICK units, n : units = job.k * gather_nc(m) /\ n = blocks(m)
  OBVIOUS
<1>5. units \in Nat /\ n \in Nat \ {0}
  BY <1>1, <1>4, ProductsGrow
<1>6. PICK col, b : col = t \div n /\ b = t % n
  OBVIOUS
<1>7. col \in 0 .. units - 1 /\ b \in 0 .. n - 1 /\ t = col * n + b
  <2>1. t \in 0 .. units * n - 1
    BY <1>4 DEF Upto
  <2>2. col \in 0 .. units - 1 /\ b \in 0 .. n - 1 /\ b = t - n * col
    BY <1>5, <1>6, <2>1, DivBelow
  <2>3. PICK p : p = n * col
    OBVIOUS
  <2>4. p \in Int /\ p = col * n /\ t \in Int
    BY <1>5, <2>1, <2>2, <2>3
  <2>5. b = t - p
    BY <2>2, <2>3
  <2>6. t = p + b
    BY <2>4, <2>5
  <2> QED
    BY <2>2, <2>3, <2>4, <2>6
<1>8. col \in Upto(job.k * gather_nc(m)) /\ b \in 0 .. blocks(m) - 1 /\ t = col * blocks(m) + b
  BY <1>4, <1>7 DEF Upto
<1>9. PICK tn, listed : tn = GatherColumn(m, col) /\ listed = Node(m, tn).row
  OBVIOUS
<1>10. PICK o, z : o = Edge(m, col, 0) /\ z = Edge(m, col, blocks(m))
  OBVIOUS
<1>11. o \in Int /\ z \in Int /\ ListsRows(listed, o, z, Reached(m, tn))
       /\ Reached(m, tn) \subseteq Rows
  <2>1. IsRange(mem[ranges(m)][GatherColumn(m, col)])
    BY <1>8, ColumnLists
  <2>2. o \in Int /\ z \in Int
    <3>1. 0 \in Nat /\ blocks(m) \in Nat
      BY <1>1
    <3> QED
      BY <1>1, <1>10, <2>1, <3>1, EdgesRise
  <2> QED
    BY <1>8, <1>9, <1>10, <2>2, ColumnLists
<1>12. \A r \in Stripe(m, t) :
         r \in o .. z - 1 /\ mem[order(m)][GatherTree(m, t) * job.n + r] = listed[r]
  BY <1>8, <1>9, <1>10, StripeHolds
<1>13. PICK row : row = RowsAt(m, t)
  OBVIOUS
<1>14. DOMAIN row = Stripe(m, t) /\ \A r \in Stripe(m, t) : row[r] = listed[r]
  BY <1>12, <1>13 DEF RowsAt
<1>15. PICK tt : tt = GatherTree(m, t)
  OBVIOUS
<1>16. tt \in 0 .. job.k - 1
  <2>1. IsRange(mem[ranges(m)][GatherColumn(m, col)]) /\ col \in Nat
        /\ col \div gather_nc(m) \in Upto(job.k)
    BY <1>1, <1>8, ColumnLists, GatherPlace
  <2>2. tt = col \div gather_nc(m)
    BY <1>1, <1>8, <1>15, <2>1, StripeIs
  <2> QED
    BY <2>1, <2>2 DEF Upto
<1>17. ASSUME NEW i \in Rows
       PROVE  mem["gh"][i * job.k + tt] * Cardinality({r \in DOMAIN row : row[r] = i})
                = IF i \in StripeRows(m, t) THEN g ELSE 0
  <2>1. \A r, q \in Stripe(m, t) : row[r] = i /\ row[q] = i => r = q
    BY <1>11, <1>12, <1>14 DEF ListsRows, Rows
  <2>2. g * Cardinality({r \in DOMAIN row : row[r] = i})
          = IF \E r \in Stripe(m, t) : row[r] = i THEN g ELSE 0
    BY <1>3, <1>14, <2>1, CountedOnce
  <2>3. mem["gh"][i * job.k + tt] = g
    <3>1. i \in Upto(job.n) /\ i \in Nat
      BY <1>1 DEF Rows, Upto
    <3>2. i * job.k + tt \in i * job.k .. (i + 1) * job.k - 1
      BY <1>1, <1>16, <3>1, BlockOf
    <3>3. job.n \in Nat
      BY <1>1
    <3>4. i * job.k + tt \in Upto(job.n * job.k)
      BY <1>1, <3>1, <3>2, <3>3, BlocksAreTasks
    <3> QED
      BY <1>2, <3>4 DEF Graded
  <2>4. i \in StripeRows(m, t) <=> \E r \in Stripe(m, t) : row[r] = i
    BY <1>12, <1>14 DEF StripeRows
  <2> QED
    BY <2>2, <2>3, <2>4
<1>18. Cell(m, t) =
         [i \in Rows |-> mem["gh"][i * job.k + tt] * Cardinality({r \in DOMAIN row : row[r] = i})]
  BY <1>13, <1>15 DEF Cell
<1> QED
  BY <1>2, <1>17, <1>18 DEF Mark

LEMMA SlotIs ==
  ASSUME IsFit(job), NEW m, m.iter \in Nat, NEW tt \in Nat, NEW l \in Nat, NEW node \in Nat
  PROVE  /\ Slot(m, tt, l, node) = TreeBase(m.iter, tt) + (2 ^ l - 1 + node)
         /\ TreeBase(m.iter, tt) \in Int /\ 2 ^ l - 1 + node \in Nat
<1>1. job.k \in Nat /\ job.depth + 1 \in Nat /\ 2 ^ l \in Nat \ {0}
  BY PowerDoubles DEF IsFit
<1>2. 2 ^ (job.depth + 1) \in Nat
  BY <1>1, PowerDoubles
<1>3. PICK total, t : total = total_nodes /\ t = m.iter * job.k + tt
  OBVIOUS
<1>4. total \in Int /\ t \in Int
  BY <1>1, <1>2, <1>3 DEF total_nodes
<1>5. PICK x, p : x = t * total /\ p = 2 ^ l
  OBVIOUS
<1>6. x \in Int /\ p \in Nat \ {0}
  BY <1>1, <1>4, <1>5
<1>7. TreeBase(m.iter, tt) = x
  BY <1>3, <1>5 DEF TreeBase
<1>8. Slot(m, tt, l, node) = x + p - 1 + node
  BY <1>3, <1>5 DEF Slot
<1> QED
  BY <1>5, <1>6, <1>7, <1>8

(* The histograms of the parents, which a subtraction reads.                *)
HasParents(m) ==
  plan(m).subtract =>
    \A tn \in Upto(job.k * 2 ^ (m.level - 1)) :
      mem[hist_par(m)][tn] = Mark(m.iter, ParentRows(m, tn))

(* Gathered or subtracted, a column is the histogram of the rows that reach *)
(* its node.                                                                *)
LEMMA HistogramIs ==
  ASSUME NEW m, Sorted(m), m.phase = "reduce", HasParents(m),
         \A t \in Upto(job.k * gather_nc(m) * blocks(m)) : IsGathered(m, t),
         NEW c \in Upto(job.k * nc(m))
  PROVE  Histogram(m, c) = Mark(m.iter, ColumnRows(m, c))
<1>1. /\ IsFit(job) /\ IsLocals(m) /\ m.phase \in {"gather", "reduce"}
      /\ gather_nc(m) \in Nat \ {0} /\ nc(m) \in Nat \ {0} /\ job.k \in Nat \ {0}
      /\ m.iter \in Nat /\ m.level \in 0 .. job.depth /\ m.level \in Nat /\ m.node_base \in Nat
      /\ job.depth \in Nat /\ plan(m).nodes \in Nat \ {0}
      /\ ~plan(m).subtract => gather_nc(m) = nc(m)
      /\ plan(m).subtract => /\ nc(m) = 2 * gather_nc(m) /\ m.level # 0
                             /\ gather_nc(m) = 2 ^ (m.level - 1)
  BY GatherShape, ShapeFacts DEF Sorted
<1>2. CASE ~plan(m).subtract
  <2>1. c \in Upto(job.k * gather_nc(m))
    BY <1>1, <1>2
  <2>2. PICK y : y = m.node_base + (c % gather_nc(m)) * (IF plan(m).subtract THEN 2 ELSE 1)
    OBVIOUS
  <2>3. /\ GatherColumn(m, c) \div plan(m).nodes = c \div gather_nc(m)
        /\ GatherColumn(m, c) % plan(m).nodes = y /\ c \in Nat
    BY <1>1, <2>1, <2>2, GatherPlace
  <2>4. y = m.node_base + (c % nc(m))
    <3>1. PICK r : r = c % nc(m)
      OBVIOUS
    <3>2. r \in Int
      <4>1. c \in Int
        BY <2>3
      <4>2. r \in 0 .. nc(m) - 1
        BY <1>1, <3>1, <4>1, DivMod
      <4> QED
        BY <1>1, <4>2
    <3>3. y = m.node_base + r * 1
      BY <1>1, <1>2, <2>2, <3>1
    <3> QED
      BY <1>1, <3>1, <3>2, <3>3
  <2>5. Reached(m, GatherColumn(m, c)) = ColumnRows(m, c)
    BY <1>1, <1>2, <2>3, <2>4 DEF Reached, ColumnRows
  <2>6. Histogram(m, c) = reduce_cum_one(m, c)
    BY <1>2 DEF Histogram
  <2> QED
    BY <2>1, <2>5, <2>6, ReducedColumn
<1>3. CASE plan(m).subtract
  <2>1. PICK g, l : g = gather_nc(m) /\ l = m.level - 1
    OBVIOUS
  <2>2. /\ g \in Nat \ {0} /\ l \in Nat /\ l < job.depth /\ l + 1 = m.level
        /\ g = 2 ^ l /\ nc(m) = 2 * g
    BY <1>1, <1>3, <2>1
  <2>3. m.node_base = 0
    <3>1. plan(m).node_chunk = 2 ^ m.level
      BY <1>1, <1>3, PlanFacts DEF plan
    <3> QED
      BY <1>1, <3>1 DEF IsLocals
  <2>4. PICK p, e, q, r : p = c \div 2 /\ e = c % 2 /\ q = p \div g /\ r = p % g
    OBVIOUS
  <2>5. /\ c \in Nat /\ p \in Upto(job.k * g) /\ e \in {0, 1}
        /\ c \div nc(m) = q /\ c % nc(m) = 2 * r + e
    <3>1. c \in Upto(job.k * (2 * g))
      BY <2>2
    <3> QED
      BY <1>1, <2>2, <2>4, <3>1, ChildOf
  <2>6. PICK y : y = m.node_base + (p % gather_nc(m)) * (IF plan(m).subtract THEN 2 ELSE 1)
    OBVIOUS
  <2>7. /\ GatherColumn(m, p) \div plan(m).nodes = q
        /\ GatherColumn(m, p) % plan(m).nodes = y /\ p \in Nat /\ q \in Upto(job.k)
    BY <1>1, <2>1, <2>4, <2>5, <2>6, GatherPlace
  <2>8. r \in 0 .. g - 1 /\ r \in Nat /\ r < 2 ^ l
    <3>1. p \in Int
      BY <2>7
    <3>2. r \in 0 .. g - 1
      BY <2>2, <2>4, <3>1, DivMod
    <3> QED
      BY <2>2, <3>2
  <2>9. y = 2 * r
    <3>1. y = 0 + r * 2
      BY <1>3, <2>1, <2>3, <2>4, <2>6
    <3> QED
      BY <2>8, <3>1
  <2>10. reduce_cum_one(m, p) = Mark(m.iter, Reaching(m.iter, q, l + 1, 2 * r))
    <3>1. Reached(m, GatherColumn(m, p)) = Reaching(m.iter, q, l + 1, 2 * r)
      BY <2>2, <2>7, <2>9 DEF Reached
    <3> QED
      BY <2>1, <2>5, <3>1, ReducedColumn
  <2>11. ColumnRows(m, c) = Reaching(m.iter, q, l + 1, 2 * r + e)
    <3>1. m.node_base + (c % nc(m)) = 2 * r + e
      BY <2>3, <2>5, <2>8
    <3> QED
      BY <2>2, <2>5, <3>1 DEF ColumnRows
  <2>12. CASE e = 0
    <3>1. Histogram(m, c) = reduce_cum_one(m, p)
      BY <1>3, <2>4, <2>12 DEF Histogram
    <3>2. 2 * r + e = 2 * r
      BY <2>8, <2>12
    <3> QED
      BY <2>10, <2>11, <3>1, <3>2
  <2>13. CASE e = 1
    <3>1. Histogram(m, c) = subtract_one(m, p)
      BY <1>3, <2>4, <2>13 DEF Histogram
    <3>2. PICK split : split = mem["split"][TreeBase(m.iter, q) + (2 ^ l - 1 + r)]
      OBVIOUS
    <3>3. mem["split"][Parent(m, p)] = split
      <4>1. Parent(m, p) = Slot(m, q, l, r)
        BY <2>1, <2>4 DEF Parent
      <4>2. q \in Nat
        BY <1>1, <2>7 DEF Upto
      <4>3. Slot(m, q, l, r) = TreeBase(m.iter, q) + (2 ^ l - 1 + r)
        BY <1>1, <2>2, <2>8, <4>2, SlotIs
      <4> QED
        BY <3>2, <4>1, <4>3
    <3>4. PICK up, left, right : /\ up = Reaching(m.iter, q, l, r)
                                 /\ left = Reaching(m.iter, q, l + 1, 2 * r)
                                 /\ right = Reaching(m.iter, q, l + 1, 2 * r + 1)
      OBVIOUS
    <3>5. /\ \A i : i \in left <=> i \in up /\ ~split.is_leaf /\ i \in split.left
          /\ \A i : i \in right <=> i \in up /\ ~split.is_leaf /\ i \notin split.left
      <4>1. /\ left = {i \in up : ~split.is_leaf /\ i \in split.left}
            /\ right = {i \in up : ~split.is_leaf /\ i \notin split.left}
        <5>1. IsFit(job) /\ l \in Nat /\ l < job.depth /\ r \in Nat /\ r < 2 ^ l
          BY <1>1, <2>2, <2>8
        <5>2. PICK G, H : /\ G = {i \in up : ~split.is_leaf /\ i \in split.left}
                          /\ H = {i \in up : ~split.is_leaf /\ i \notin split.left}
          OBVIOUS
        <5>3. /\ Reaching(m.iter, q, l + 1, 2 * r) = G
              /\ Reaching(m.iter, q, l + 1, 2 * r + 1) = H
          BY <3>2, <3>4, <5>1, <5>2, ReachingChild
        <5> QED
          BY <3>4, <5>2, <5>3
      <4> QED
        BY <4>1
    <3>6. mem[hist_par(m)][p] = Mark(m.iter, up)
      <4>1. p \in Upto(job.k * 2 ^ (m.level - 1))
        BY <1>1, <1>3, <2>1, <2>5
      <4>2. ParentRows(m, p) = up
        BY <2>1, <2>2, <2>4, <3>4 DEF ParentRows
      <4> QED
        BY <1>3, <4>1, <4>2 DEF HasParents
    <3>7. PICK z : z = 2 ^ m.iter
      OBVIOUS
    <3>8. z \in Nat
      BY <1>1, <3>7, PowerDoubles
    <3>9. CASE split.is_leaf
      <4>1. subtract_one(m, p) = Zero
        BY <3>3, <3>9 DEF subtract_one
      <4>2. \A i \in Rows : i \notin right
        BY <3>5, <3>9
      <4>3. Mark(m.iter, right) = Zero
        BY <4>2 DEF Mark, Zero
      <4> QED
        BY <2>11, <2>13, <3>1, <3>4, <4>1, <4>3
    <3>10. CASE ~split.is_leaf
      <4>1. subtract_one(m, p) = [i \in Rows |-> mem[hist_par(m)][p][i] - reduce_cum_one(m, p)[i]]
        BY <3>3, <3>10 DEF subtract_one
      <4>2. \A i \in Rows : mem[hist_par(m)][p][i] - reduce_cum_one(m, p)[i]
                              = IF i \in right THEN z ELSE 0
        <5> SUFFICES ASSUME NEW i \in Rows
                     PROVE  mem[hist_par(m)][p][i] - reduce_cum_one(m, p)[i]
                              = IF i \in right THEN z ELSE 0
          OBVIOUS
        <5>1. mem[hist_par(m)][p][i] = IF i \in up THEN z ELSE 0
          BY <3>6, <3>7 DEF Mark
        <5>2. reduce_cum_one(m, p)[i] = IF i \in left THEN z ELSE 0
          BY <2>10, <3>4, <3>7 DEF Mark
        <5>3. i \in up <=> i \in left \/ i \in right
          BY <3>5, <3>10
        <5>4. ~ (i \in left /\ i \in right)
          BY <3>5
        <5> QED
          BY <3>8, <5>1, <5>2, <5>3, <5>4
      <4>3. Mark(m.iter, right) = [i \in Rows |-> IF i \in right THEN z ELSE 0]
        BY <3>7 DEF Mark
      <4>4. subtract_one(m, p) = Mark(m.iter, right)
        BY <4>1, <4>2, <4>3
      <4> QED
        BY <2>11, <2>13, <3>1, <3>4, <4>4
    <3> QED
      BY <3>9, <3>10
  <2> QED
    BY <2>5, <2>12, <2>13
<1> QED
  BY <1>2, <1>3

----------------------------------------------------------------------------
(* The slots of the model                                                   *)

LEMMA TreeSlotsApart ==
  ASSUME IsFit(job), NEW iter \in Nat, NEW other \in Nat,
         NEW tt \in Upto(job.k), NEW to \in Upto(job.k),
         NEW a \in Nat, a < total_nodes, NEW b \in Nat, b < total_nodes,
         TreeBase(iter, tt) + a = TreeBase(other, to) + b
  PROVE  iter = other /\ tt = to /\ a = b
<1>1. job.k \in Nat \ {0} /\ job.depth + 1 \in Nat
  BY DEF IsFit
<1>2. PICK total, t, s : /\ total = total_nodes
                         /\ t = iter * job.k + tt /\ s = other * job.k + to
  OBVIOUS
<1>3. total \in Nat \ {0} /\ a \in 0 .. total - 1 /\ b \in 0 .. total - 1
  <2>1. 2 ^ (job.depth + 1) \in Nat
    BY <1>1, PowerDoubles
  <2>2. total \in Int
    BY <1>2, <2>1 DEF total_nodes
  <2> QED
    BY <1>2, <2>2
<1>4. tt \in 0 .. job.k - 1 /\ to \in 0 .. job.k - 1
  BY DEF Upto
<1>5. /\ t \in Nat /\ t \div job.k = iter /\ t % job.k = tt
      /\ s \in Nat /\ s \div job.k = other /\ s % job.k = to
  <2>1. /\ t \in iter * job.k .. (iter + 1) * job.k - 1
        /\ t \div job.k = iter /\ t % job.k = tt
    BY <1>1, <1>2, <1>4, BlockOf
  <2>2. /\ s \in other * job.k .. (other + 1) * job.k - 1
        /\ s \div job.k = other /\ s % job.k = to
    BY <1>1, <1>2, <1>4, BlockOf
  <2>3. t \in Nat /\ s \in Nat
    BY <1>1, <2>1, <2>2, BlocksOf
  <2> QED
    BY <2>1, <2>2, <2>3
<1>6. TreeBase(iter, tt) + a = t * total + a /\ TreeBase(other, to) + b = s * total + b
  BY <1>2 DEF TreeBase
<1>7. /\ (t * total + a) \div total = t /\ (t * total + a) % total = a
      /\ (s * total + b) \div total = s /\ (s * total + b) % total = b
  BY <1>3, <1>5, BlockOf
<1>8. t = s /\ a = b
  BY <1>6, <1>7
<1> QED
  BY <1>5, <1>8

(* The place of a node among the nodes of its tree.                         *)
LEMMA NodeIndex ==
  ASSUME IsFit(job), NEW level \in Levels, NEW node \in Upto(2 ^ level),
         NEW a, a = 2 ^ level - 1 + node
  PROVE  /\ level \in Nat /\ node \in Nat /\ node < 2 ^ level /\ 2 ^ level \in Nat \ {0}
         /\ a \in Nat /\ a < total_nodes /\ 2 ^ level - 1 <= a /\ a < 2 ^ (level + 1) - 1
         /\ total_nodes \in Nat
<1>1. level \in Nat /\ level + 1 \in Nat /\ job.depth + 1 \in Nat /\ level + 1 <= job.depth + 1
  BY DEF IsFit, Levels
<1>2. PICK p, q, z : p = 2 ^ level /\ q = 2 ^ (level + 1) /\ z = 2 ^ (job.depth + 1)
  OBVIOUS
<1>3. p \in Nat \ {0} /\ q = 2 * p /\ q \in Nat /\ z \in Nat /\ q <= z
  BY <1>1, <1>2, PowerDoubles, PowersGrow
<1>4. node \in 0 .. p - 1
  BY <1>2 DEF Upto
<1>5. total_nodes = z - 1
  BY <1>2 DEF total_nodes
<1> QED
  BY <1>1, <1>2, <1>3, <1>4, <1>5

(* The slot of a column of a reduce is not of a node valued before.         *)
LEMMA ColumnPlace ==
  ASSUME IsFit(job), NEW m, IsLocals(m), m.phase = "reduce", NEW c \in Upto(job.k * nc(m)),
         NEW node, node = m.node_base + (c % nc(m))
  PROVE  /\ c \div nc(m) \in Upto(job.k) /\ node \in Upto(2 ^ m.level)
         /\ m.node_base <= node /\ node < m.node_base + nc(m) /\ c \in Nat
         /\ ColumnSlot(m, c) = TreeBase(m.iter, c \div nc(m)) + (2 ^ m.level - 1 + node)
<1>1. /\ nc(m) \in Nat \ {0} /\ job.k \in Nat \ {0} /\ m.node_base \in Nat
      /\ m.level \in Nat /\ m.iter \in Nat
      /\ plan(m).nodes = 2 ^ m.level /\ m.node_base + nc(m) <= plan(m).nodes
      /\ plan(m).nodes \in Nat
  BY ShapeFacts, GatherShape
<1>2. c \div nc(m) \in 0 .. job.k - 1 /\ c % nc(m) \in 0 .. nc(m) - 1 /\ c \in Nat
  <2>1. job.k \in Nat /\ nc(m) \in Nat \ {0} /\ c \in 0 .. job.k * nc(m) - 1
    BY <1>1 DEF Upto
  <2>2. PICK p : p = job.k * nc(m)
    OBVIOUS
  <2>3. c \in Nat
    BY <1>1, <2>1, <2>2
  <2> QED
    BY <2>1, <2>3, DivBelow
<1>3. PICK q, r : q = c \div nc(m) /\ r = c % nc(m)
  OBVIOUS
<1>4. /\ q \in Upto(job.k) /\ q \in Nat /\ node \in Nat /\ node < plan(m).nodes
      /\ m.node_base <= node /\ node < m.node_base + nc(m)
  BY <1>1, <1>2, <1>3 DEF Upto
<1>5. ColumnSlot(m, c) = Slot(m, q, m.level, node)
  BY <1>3 DEF ColumnSlot
<1>6. Slot(m, q, m.level, node) = TreeBase(m.iter, q) + (2 ^ m.level - 1 + node)
  <2>1. PICK l, y : l = m.level /\ y = node
    OBVIOUS
  <2>2. m.iter \in Nat /\ q \in Nat /\ l \in Nat /\ y \in Nat
    BY <1>1, <1>4, <2>1
  <2>3. Slot(m, q, l, y) = TreeBase(m.iter, q) + (2 ^ l - 1 + y)
    BY ONLY IsFit(job), <2>2, SlotIs
  <2> QED
    BY <2>1, <2>3
<1>7. node \in Upto(2 ^ m.level)
  <2>1. node \in 0 .. plan(m).nodes - 1
    BY <1>1, <1>4
  <2> QED
    BY <1>1, <2>1 DEF Upto
<1> QED
  BY <1>2, <1>3, <1>4, <1>5, <1>6, <1>7

LEMMA ColumnNotBefore ==
  ASSUME IsFit(job), NEW m, IsLocals(m), m.phase = "reduce", NEW u \in Workers,
         NEW iter \in Upto(job.iters), NEW tt \in Upto(job.k), NEW a \in Nat, a < total_nodes,
         IsBefore(m, iter, a)
  PROVE  TreeBase(iter, tt) + a \notin SlotsOf(m, u)
<1> SUFFICES ASSUME TreeBase(iter, tt) + a \in SlotsOf(m, u) PROVE FALSE
  OBVIOUS
<1>1. PICK c \in Columns(m, u) : TreeBase(iter, tt) + a = ColumnSlot(m, c)
  BY DEF SlotsOf
<1>2. c \in Upto(job.k * nc(m))
  BY ColumnsAre DEF Upto
<1>3. PICK node : node = m.node_base + (c % nc(m))
  OBVIOUS
<1>4. PICK q, b : q = c \div nc(m) /\ b = 2 ^ m.level - 1 + node
  OBVIOUS
<1>5. /\ q \in Upto(job.k) /\ node \in Upto(2 ^ m.level) /\ m.node_base <= node
      /\ ColumnSlot(m, c) = TreeBase(m.iter, q) + b
  BY <1>2, <1>3, <1>4, ColumnPlace
<1>6. m.level \in Levels /\ m.iter \in Nat /\ m.node_base \in Nat
  BY ShapeFacts DEF Levels
<1>7. b \in Nat /\ b < total_nodes /\ node \in Nat /\ 2 ^ m.level \in Nat
  BY <1>4, <1>5, <1>6, NodeIndex
<1>8. iter \in Nat /\ iter < job.iters
  BY DEF Upto, IsFit
<1>9. iter = m.iter /\ a = b
  BY <1>1, <1>5, <1>6, <1>7, <1>8, TreeSlotsApart
<1>10. a < 2 ^ m.level - 1 + m.node_base
  <2>1. ~ (iter < m.iter)
    BY <1>6, <1>9
  <2> QED
    BY <2>1 DEF IsBefore, Frontier
<1>11. PICK p : p = 2 ^ m.level
  OBVIOUS
<1>12. p \in Nat /\ a < p - 1 + m.node_base /\ a = p - 1 + node
  BY <1>4, <1>7, <1>9, <1>10, <1>11
<1> QED
  BY <1>5, <1>6, <1>7, <1>12

(* Which arrays a phase leaves alone.                                       *)
LEMMA LeftAlone ==
  ASSUME NEW u, NEW m, NEW d, me[u] = m, m.phase \in Phases
  PROVE  /\ m.phase # "reduce" =>
              "split" \notin DOMAIN Writes(u, d) /\ "leaf_value" \notin DOMAIN Writes(u, d)
         /\ m.phase \notin {"init", "update"} => "raw" \notin DOMAIN Writes(u, d)
         /\ m.phase # "grad" => "gh" \notin DOMAIN Writes(u, d)
         /\ m.phase \notin {"gather", "reduce"} \/ plan(m).subtract =>
              hist_par(m) \notin DOMAIN Writes(u, d)
<1>1. /\ {order(m), order_next(m)} = {"order_a", "order_b"}
      /\ {ranges(m), ranges_next(m)} = {"ranges_a", "ranges_b"}
      /\ {hist_cur(m), hist_par(m)} = {"hist", "hist_parent"} /\ hist_cur(m) # hist_par(m)
  BY HandlesApart
<1>2. gathered(m) = IF plan(m).subtract THEN "hist_left" ELSE hist_cur(m)
  BY DEF gathered
<1>3. CASE m.phase \in {"init", "update"}
  <2>1. DOMAIN Writes(u, d) = {"raw"}
    BY <1>3 DEF Writes, init_raw, update_raw, Store
  <2> QED
    BY <1>1, <1>3, <2>1
<1>4. CASE m.phase = "grad"
  <2>1. DOMAIN Writes(u, d) = {"gh"}
    BY <1>4 DEF Writes, gradients, Store
  <2> QED
    BY <1>1, <1>4, <2>1
<1>5. CASE m.phase = "reset"
  <2>1. DOMAIN Writes(u, d) = {order(m), ranges(m)}
    BY <1>5, ResetNames
  <2> QED
    BY <1>1, <1>5, <2>1
<1>6. CASE m.phase = "gather"
  <2>1. DOMAIN Writes(u, d) = {GatherArray(m)}
    BY <1>6, GatherWritesCells
  <2> QED
    BY <1>1, <1>2, <1>6, <2>1 DEF GatherArray
<1>7. CASE m.phase = "reduce"
  <2>1. DOMAIN Writes(u, d) = {hist_cur(m), gathered(m), "split", "leaf_value"}
    BY <1>7, ReduceNames
  <2> QED
    BY <1>1, <1>2, <1>7, <2>1
<1>8. CASE m.phase = "count"
  <2>1. DOMAIN Writes(u, d) = {"blk_cnt"}
    BY <1>8, CountWrites
  <2> QED
    BY <1>1, <1>8, <2>1
<1>9. CASE m.phase = "prefix"
  <2>1. DOMAIN Writes(u, d) = {ranges_next(m), "blk_cnt"}
    BY <1>9, PrefixNames
  <2> QED
    BY <1>1, <1>9, <2>1
<1>10. CASE m.phase = "scatter"
  <2>1. DOMAIN Writes(u, d) = {order_next(m)}
    BY <1>10, ScatterWrites
  <2> QED
    BY <1>1, <1>10, <2>1
<1>11. CASE m.phase = "fused"
  <2>1. DOMAIN Writes(u, d) = {ranges_next(m), order_next(m)}
    BY <1>11, FusedNames
  <2> QED
    BY <1>1, <1>11, <2>1
<1> QED
  BY <1>3, <1>4, <1>5, <1>6, <1>7, <1>8, <1>9, <1>10, <1>11 DEF Phases

HasValues == Upto(job.iters * job.k * total_nodes) \subseteq DOMAIN mem["leaf_value"]

(* What is valued before stays as it is.                                    *)
LEMMA BeforeStays ==
  ASSUME NEW u, NEW m, NEW d, WorksAt(u, m, d), HasTrees, HasValues,
         NEW iter \in Upto(job.iters), NEW tt \in Upto(job.k), NEW a \in Nat, a < total_nodes,
         IsBefore(m, iter, a), NEW x, x = TreeBase(iter, tt) + a
  PROVE  mem'["split"][x] = mem["split"][x] /\ mem'["leaf_value"][x] = mem["leaf_value"][x]
<1>1. /\ u \in Workers /\ me[u] = m /\ IsFit(job) /\ IsLocals(m) /\ m.phase \in Phases
      /\ DOMAIN mem = Names /\ mem' = Updated(Writes(u, d))
  BY DEF WorksAt
<1>2. "split" \in DOMAIN mem /\ "leaf_value" \in DOMAIN mem
  BY <1>1 DEF Names
<1>3. CASE m.phase # "reduce"
  <2>1. "split" \notin DOMAIN Writes(u, d) /\ "leaf_value" \notin DOMAIN Writes(u, d)
    BY <1>1, <1>3, LeftAlone
  <2>2. mem'["split"] = mem["split"] /\ mem'["leaf_value"] = mem["leaf_value"]
    BY <1>1, <1>2, <2>1, UpdatedArray
  <2> QED
    BY <2>2
<1>4. CASE m.phase = "reduce"
  <2>1. x \notin SlotsOf(m, u)
    BY <1>1, <1>4, ColumnNotBefore
  <2>2. x \in DOMAIN mem["split"] /\ x \in DOMAIN mem["leaf_value"]
    <3>1. iter \in Nat /\ iter < job.iters
      BY <1>1 DEF Upto, IsFit
    <3>2. x \in Upto(job.iters * job.k * total_nodes)
      BY <1>1, <3>1, TreeSlots
    <3> QED
      BY <3>2 DEF HasTrees, HasValues
  <2>3. /\ "split" \in DOMAIN Writes(u, d) /\ "leaf_value" \in DOMAIN Writes(u, d)
        /\ DOMAIN Writes(u, d)["split"] = SlotsOf(m, u)
        /\ DOMAIN Writes(u, d)["leaf_value"] = SlotsOf(m, u)
    <3>1. DOMAIN Writes(u, d) = {hist_cur(m), gathered(m), "split", "leaf_value"}
      BY <1>1, <1>4, ReduceNames
    <3> QED
      BY <1>1, <1>4, <3>1, ReduceWrites
  <2>4. mem'["split"][x] = mem["split"][x]
    BY <1>1, <1>2, <2>1, <2>2, <2>3, UpdatedArray
  <2>5. mem'["leaf_value"][x] = mem["leaf_value"][x]
    BY <1>1, <1>2, <2>1, <2>2, <2>3, UpdatedArray
  <2> QED
    BY <2>4, <2>5
<1> QED
  BY <1>3, <1>4

LEMMA MarkSame ==
  ASSUME job' = job, NEW iter, NEW S
  PROVE  Mark(iter, S)' = Mark(iter, S)
BY DEF Mark, Rows

LEMMA ReachingBeforeStays ==
  ASSUME NEW u, NEW m, NEW d, WorksAt(u, m, d), HasTrees, HasValues,
         NEW iter \in Upto(job.iters), NEW tt \in Upto(job.k), NEW level \in Levels,
         \A a \in Nat : a + 1 < 2 ^ level => IsBefore(m, iter, a), NEW node
  PROVE  Reaching(iter, tt, level, node)' = Reaching(iter, tt, level, node)
<1>1. IsFit(job) /\ job' = job
  BY DEF WorksAt
<1>2. ASSUME NEW a \in Nat, a + 1 < 2 ^ level
      PROVE  mem'["split"][TreeBase(iter, tt) + a] = mem["split"][TreeBase(iter, tt) + a]
  <2>1. a < total_nodes
    <3>1. level \in Nat /\ job.depth + 1 \in Nat /\ level <= job.depth + 1
      BY <1>1 DEF IsFit, Levels
    <3>2. PICK p, z : p = 2 ^ level /\ z = 2 ^ (job.depth + 1)
      OBVIOUS
    <3>3. p \in Nat /\ z \in Nat /\ p <= z
      BY <3>1, <3>2, PowerDoubles, PowersGrow
    <3>4. total_nodes = z - 1
      BY <3>2 DEF total_nodes
    <3> QED
      BY <1>2, <3>2, <3>3, <3>4
  <2>2. IsBefore(m, iter, a)
    BY <1>2
  <2> QED
    BY <2>1, <2>2, BeforeStays
<1>3. level \in 0 .. job.depth
  BY DEF Levels
<1> QED
  BY <1>1, <1>2, <1>3, ReachingStays

LEMMA BelowBefore ==
  ASSUME NEW m, NEW iter, NEW a, a \in Nat, NEW b \in Nat, b <= a, IsBefore(m, iter, a),
         Frontier(m) \in Int
  PROVE  IsBefore(m, iter, b)
<1>1. CASE iter < m.iter
  BY <1>1 DEF IsBefore
<1>2. CASE iter = m.iter /\ m.phase \in LevelPhases \cup {"update"} /\ a < Frontier(m)
  <2>1. b < Frontier(m)
    BY <1>2
  <2> QED
    BY <1>2, <2>1 DEF IsBefore
<1> QED
  BY <1>1, <1>2 DEF IsBefore

LEMMA FrontierNumber ==
  ASSUME IsFit(job), NEW m, IsLocals(m)
  PROVE  Frontier(m) \in Int
<1>1. m.level \in Nat /\ m.node_base \in Nat
  BY ShapeFacts
<1>2. m.level + 1 \in Nat
  BY <1>1
<1>3. 2 ^ m.level \in Nat /\ 2 ^ (m.level + 1) \in Nat
  BY <1>1, <1>2, PowerDoubles
<1>4. PICK p, q : p = 2 ^ m.level /\ q = 2 ^ (m.level + 1)
  OBVIOUS
<1>5. Frontier(m) = IF m.phase \in {"gather", "reduce"} THEN p - 1 + m.node_base ELSE q - 1
  BY <1>4 DEF Frontier
<1> QED
  BY <1>1, <1>3, <1>4, <1>5

LEMMA WorkValued ==
  ASSUME NEW u, NEW m, NEW d, WorksAt(u, m, d), HasTrees, HasValues, IsValued(m)
  PROVE  IsValued(m)'
<1>1. IsFit(job) /\ IsLocals(m) /\ job' = job
  BY DEF WorksAt
<1>2. ASSUME NEW iter \in Upto(job.iters), NEW tt \in Upto(job.k), NEW level \in Levels,
             NEW node \in Upto(2 ^ level), IsBefore(m, iter, 2 ^ level - 1 + node)
      PROVE  ValuedAt(iter, tt, level, node)'
  <2>1. PICK a : a = 2 ^ level - 1 + node
    OBVIOUS
  <2>2. /\ a \in Nat /\ a < total_nodes /\ 2 ^ level - 1 <= a /\ 2 ^ level \in Nat
        /\ node \in Nat
    BY <1>1, <2>1, NodeIndex
  <2>3. IsBefore(m, iter, a)
    BY <1>2, <2>1
  <2>4. PICK x : x = TreeBase(iter, tt) + a
    OBVIOUS
  <2>5. mem'["leaf_value"][x] = mem["leaf_value"][x]
    BY <2>2, <2>3, <2>4, BeforeStays
  <2>6. \A b \in Nat : b + 1 < 2 ^ level => IsBefore(m, iter, b)
    <3> SUFFICES ASSUME NEW b \in Nat, b + 1 < 2 ^ level PROVE IsBefore(m, iter, b)
      OBVIOUS
    <3>1. PICK p : p = 2 ^ level
      OBVIOUS
    <3>2. b <= a
      BY <2>2, <3>1
    <3>3. Frontier(m) \in Int
      BY <1>1, FrontierNumber
    <3> QED
      BY <2>2, <2>3, <3>2, <3>3, BelowBefore
  <2>7. Reaching(iter, tt, level, node)' = Reaching(iter, tt, level, node)
    BY <2>6, ReachingBeforeStays
  <2>8. ValuedAt(iter, tt, level, node)
    BY <1>2 DEF IsValued
  <2>9. Mark(iter, Reaching(iter, tt, level, node))' = Mark(iter, Reaching(iter, tt, level, node))
    BY <1>1, <2>7 DEF Mark, Rows
  <2>10. (TreeBase(iter, tt) + (2 ^ level - 1 + node))' = x
    BY <1>1, <2>1, <2>4 DEF TreeBase, total_nodes
  <2>11. TreeBase(iter, tt) + (2 ^ level - 1 + node) = x
    BY <2>1, <2>4
  <2> QED
    BY <2>5, <2>8, <2>9, <2>10, <2>11 DEF ValuedAt
<1>3. /\ Upto(job.iters)' = Upto(job.iters) /\ Upto(job.k)' = Upto(job.k) /\ Levels' = Levels
  BY <1>1 DEF Upto, Levels
<1> QED
  BY <1>2, <1>3 DEF IsValued, IsBefore, Frontier, Upto

----------------------------------------------------------------------------
(* The gradients                                                            *)

(* A row ends in a node it reaches, so that it is moved by the leaf it was  *)
(* trained in.                                                              *)
LEMMA DescentEnds ==
  ASSUME IsFit(job), NEW iter, NEW tt, NEW i, NEW f, f = Descend(iter, tt, i)
  PROVE  \E l \in Levels : \E node \in Upto(2 ^ l) :
           f[job.depth] = 2 ^ l - 1 + node /\ f[l] = 2 ^ l - 1 + node
<1>1. job.depth \in Nat
  BY DEF IsFit
<1>2. PICK splits, base, depth :
        splits = mem["split"] /\ base = TreeBase(iter, tt) /\ depth = job.depth
  OBVIOUS
<1>3. f = Descent(splits, base, depth, i) /\ depth \in Nat
  BY <1>1, <1>2, DescendIs
<1>4. f[0] = 0 /\ \A s \in 0 .. depth : s # 0 => f[s] = Down(splits, base, i, f[s - 1])
  BY <1>3, DescentChosen
<1>5. \A s \in 0 .. depth : /\ f[s] \in Nat /\ f[s] + 2 <= 2 ^ (s + 1)
                            /\ f[s] + 1 < 2 ^ s => splits[base + f[s]].is_leaf
  BY <1>3, DescentBounds
<1> DEFINE Good == {s \in Nat : s <= depth => \E l \in 0 .. s : f[l] = f[s] /\ 2 ^ l <= f[s] + 1}
<1>6. 0 \in Good
  <2>1. f[0] = f[0] /\ 2 ^ 0 <= f[0] + 1 /\ 0 \in 0 .. 0
    BY <1>4, PowerOfZero
  <2>2. \E l \in 0 .. 0 : f[l] = f[0] /\ 2 ^ l <= f[0] + 1
    BY <2>1
  <2> QED
    BY <2>2
<1>7. ASSUME NEW s \in Nat, s \in Good PROVE s + 1 \in Good
  <2> SUFFICES ASSUME s + 1 <= depth
               PROVE  \E l \in 0 .. s + 1 : f[l] = f[s + 1] /\ 2 ^ l <= f[s + 1] + 1
    OBVIOUS
  <2>1. s \in 0 .. depth /\ s + 1 \in 0 .. depth /\ s + 1 # 0 /\ (s + 1) - 1 = s
    BY <1>3
  <2>2. PICK a : a = f[s]
    OBVIOUS
  <2>3. a \in Nat /\ (a + 1 < 2 ^ s => splits[base + a].is_leaf)
    BY <1>5, <2>1, <2>2
  <2>4. f[s + 1] = Down(splits, base, i, a)
    BY <1>4, <2>1, <2>2
  <2>5. CASE splits[base + a].is_leaf
    <3>1. f[s + 1] = a
      BY <2>4, <2>5 DEF Down
    <3>2. PICK l \in 0 .. s : f[l] = a /\ 2 ^ l <= a + 1
      BY <1>3, <1>7, <2>1, <2>2
    <3>3. l \in 0 .. s + 1
      OBVIOUS
    <3> QED
      BY <3>1, <3>2, <3>3
  <2>6. CASE ~splits[base + a].is_leaf
    <3>1. f[s + 1] = 2 * a + 1 \/ f[s + 1] = 2 * a + 2
      BY <2>4, <2>6 DEF Down
    <3>2. 2 ^ s \in Nat /\ 2 ^ (s + 1) = 2 * 2 ^ s
      BY PowerDoubles
    <3>3. PICK p, q : p = 2 ^ s /\ q = 2 ^ (s + 1)
      OBVIOUS
    <3>4. q <= f[s + 1] + 1
      BY <2>3, <2>6, <3>1, <3>2, <3>3
    <3>5. s + 1 \in 0 .. s + 1 /\ 2 ^ (s + 1) <= f[s + 1] + 1
      BY <3>3, <3>4
    <3> QED
      BY <3>5
  <2> QED
    BY <2>5, <2>6
<1> HIDE DEF Good
<1>8. depth \in Good
  BY <1>3, <1>6, <1>7, NatSetInd
<1>9. PICK l \in 0 .. depth : f[l] = f[depth] /\ 2 ^ l <= f[depth] + 1
  BY <1>3, <1>8 DEF Good
<1>10. l \in Nat /\ f[l] \in Nat /\ f[l] + 2 <= 2 ^ (l + 1)
  BY <1>3, <1>5, <1>9
<1>11. 2 ^ l \in Nat /\ 2 ^ (l + 1) = 2 * 2 ^ l
  BY <1>10, PowerDoubles
<1>12. PICK p, q : p = 2 ^ l /\ q = 2 ^ (l + 1)
  OBVIOUS
<1>13. PICK node : node = f[l] - (p - 1)
  OBVIOUS
<1>14. node \in 0 .. p - 1 /\ f[l] = p - 1 + node
  BY <1>9, <1>10, <1>11, <1>12, <1>13
<1>15. l \in Levels
  BY <1>2, <1>9 DEF Levels
<1>16. node \in Upto(2 ^ l) /\ f[job.depth] = 2 ^ l - 1 + node /\ f[l] = 2 ^ l - 1 + node
  BY <1>2, <1>9, <1>12, <1>14 DEF Upto
<1> QED
  BY <1>15, <1>16

LEMMA RowValued ==
  ASSUME IsFit(job), NEW iter, NEW tt, NEW i \in Rows,
         \A level \in Levels : \A node \in Upto(2 ^ level) : ValuedAt(iter, tt, level, node)
  PROVE  mem["leaf_value"][TreeBase(iter, tt) + Descend(iter, tt, i)[job.depth]][i] = 2 ^ iter
<1>1. PICK f : f = Descend(iter, tt, i)
  OBVIOUS
<1>2. \E l \in Levels : \E node \in Upto(2 ^ l) :
        f[job.depth] = 2 ^ l - 1 + node /\ f[l] = 2 ^ l - 1 + node
  BY <1>1, DescentEnds
<1>3. PICK l \in Levels : \E node \in Upto(2 ^ l) :
        f[job.depth] = 2 ^ l - 1 + node /\ f[l] = 2 ^ l - 1 + node
  BY <1>2
<1>7. PICK node \in Upto(2 ^ l) : f[job.depth] = 2 ^ l - 1 + node /\ f[l] = 2 ^ l - 1 + node
  BY <1>3
<1>4. i \in Reaching(iter, tt, l, node)
  BY <1>1, <1>7 DEF Reaching
<1>5. mem["leaf_value"][TreeBase(iter, tt) + f[job.depth]]
        = Mark(iter, Reaching(iter, tt, l, node))
  BY <1>7 DEF ValuedAt
<1>6. Mark(iter, Reaching(iter, tt, l, node))[i] = 2 ^ iter
  BY <1>4 DEF Mark
<1> QED
  BY <1>1, <1>5, <1>6

----------------------------------------------------------------------------
(* Raw predictions and gradients                                            *)

HasRaw ==
  DOMAIN mem["raw"] = Upto(job.n * job.k) /\ Upto(job.n * job.k) \subseteq DOMAIN mem["gh"]

LeafOf(iter, x) ==
  mem["leaf_value"][TreeBase(iter, x % job.k) + Descend(iter, x % job.k, x \div job.k)[job.depth]]
    [x \div job.k]

LEMMA RawThen ==
  ASSUME NEW u, NEW m, NEW d, WorksAt(u, m, d), HasRaw
  PROVE  /\ DOMAIN mem'["raw"] = Upto(job.n * job.k)
         /\ m.phase \notin {"init", "update"} => mem'["raw"] = mem["raw"]
         /\ \A x \in Upto(job.n * job.k) : x \notin Share(u) => mem'["raw"][x] = mem["raw"][x]
         /\ m.phase = "init" => \A x \in Share(u) : mem'["raw"][x] = 1
         /\ m.phase = "update" =>
              \A x \in Share(u) : mem'["raw"][x] = mem["raw"][x] + LeafOf(m.iter, x)
<1>1. /\ me[u] = m /\ m.phase \in Phases /\ IsFit(job) /\ u \in Workers
      /\ mem' = Updated(Writes(u, d)) /\ DOMAIN mem = Names
  BY DEF WorksAt
<1>2. "raw" \in DOMAIN mem /\ DOMAIN mem["raw"] = Upto(job.n * job.k)
  BY <1>1 DEF Names, HasRaw
<1>3. Share(u) \subseteq Upto(job.n * job.k)
  BY <1>1, ShareFits
<1>4. CASE m.phase \notin {"init", "update"}
  <2>1. "raw" \notin DOMAIN Writes(u, d)
    BY <1>1, <1>4, LeftAlone
  <2>2. mem'["raw"] = mem["raw"]
    BY <1>1, <1>2, <2>1, UpdatedArray
  <2> QED
    BY <1>2, <1>4, <2>2
<1>5. ASSUME "raw" \in DOMAIN Writes(u, d), DOMAIN Writes(u, d)["raw"] = Share(u)
      PROVE  /\ DOMAIN mem'["raw"] = Upto(job.n * job.k)
             /\ \A x \in Share(u) : mem'["raw"][x] = Writes(u, d)["raw"][x]
             /\ \A x \in Upto(job.n * job.k) : x \notin Share(u) => mem'["raw"][x] = mem["raw"][x]
  <2>1. mem'["raw"] = Over(Writes(u, d)["raw"], mem["raw"])
    BY <1>1, <1>2, <1>5 DEF Updated
  <2>2. DOMAIN mem'["raw"] = Share(u) \cup Upto(job.n * job.k)
    <3>1. PICK f, g : f = Writes(u, d)["raw"] /\ g = mem["raw"]
      OBVIOUS
    <3>2. DOMAIN Over(f, g) = DOMAIN f \cup DOMAIN g
      BY OverNames
    <3>3. mem'["raw"] = Over(f, g) /\ DOMAIN f = Share(u) /\ DOMAIN g = Upto(job.n * job.k)
      BY <1>2, <1>5, <2>1, <3>1
    <3> QED
      BY <3>2, <3>3
  <2> QED
    BY <1>1, <1>2, <1>3, <1>5, <2>2, UpdatedArray
<1>6. CASE m.phase = "init"
  <2>1. Writes(u, d) = Store("raw", [x \in Share(u) |-> 1])
    BY <1>1, <1>6 DEF Writes, init_raw
  <2>2. "raw" \in DOMAIN Writes(u, d) /\ Writes(u, d)["raw"] = [x \in Share(u) |-> 1]
    BY <2>1 DEF Store
  <2> QED
    BY <1>5, <1>6, <2>2
<1>7. CASE m.phase = "update"
  <2>1. Writes(u, d) = update_raw(m, u)
    BY <1>1, <1>7 DEF Writes
  <2>2. "raw" \in DOMAIN Writes(u, d)
        /\ Writes(u, d)["raw"] = [x \in Share(u) |-> mem["raw"][x] + LeafOf(m.iter, x)]
    BY <2>1 DEF update_raw, Store, LeafOf, TreeBase
  <2> QED
    BY <1>5, <1>7, <2>2
<1> QED
  BY <1>4, <1>6, <1>7

LEMMA GradientsThen ==
  ASSUME NEW u, NEW m, NEW d, WorksAt(u, m, d), HasRaw
  PROVE  /\ m.phase # "grad" => mem'["gh"] = mem["gh"]
         /\ m.phase = "grad" =>
              /\ \A x \in Share(u) : mem'["gh"][x] = mem["raw"][x]
              /\ \A x \in Upto(job.n * job.k) : x \notin Share(u) => mem'["gh"][x] = mem["gh"][x]
<1>1. /\ me[u] = m /\ m.phase \in Phases /\ IsFit(job) /\ u \in Workers
      /\ mem' = Updated(Writes(u, d)) /\ DOMAIN mem = Names
  BY DEF WorksAt
<1>2. "gh" \in DOMAIN mem /\ Upto(job.n * job.k) \subseteq DOMAIN mem["gh"]
  BY <1>1 DEF Names, HasRaw
<1>3. CASE m.phase # "grad"
  <2>1. "gh" \notin DOMAIN Writes(u, d)
    BY <1>1, <1>3, LeftAlone
  <2> QED
    BY <1>1, <1>2, <1>3, <2>1, UpdatedArray
<1>4. CASE m.phase = "grad"
  <2>1. Writes(u, d) = gradients(u)
    BY <1>1, <1>4 DEF Writes
  <2>2. "gh" \in DOMAIN Writes(u, d) /\ Writes(u, d)["gh"] = [x \in Share(u) |-> mem["raw"][x]]
    BY <2>1 DEF gradients, Store
  <2> QED
    BY <1>1, <1>2, <1>4, <2>2, UpdatedArray
<1> QED
  BY <1>3, <1>4

(* A row is moved by the part it has in the leaf it reaches.                *)
LEMMA RowMoves ==
  ASSUME IsFit(job), NEW m, IsLocals(m), IsValued(m), m.phase = "update", m.level = job.depth,
         NEW x \in Upto(job.n * job.k)
  PROVE  LeafOf(m.iter, x) = 2 ^ m.iter
<1>1. /\ job.k \in Nat \ {0} /\ job.n \in Nat \ {0} /\ m.iter \in Upto(job.iters)
      /\ job.depth \in Nat
  BY DEF IsLocals, Upto, IsFit, Phases
<1>2. x \div job.k \in 0 .. job.n - 1 /\ x % job.k \in 0 .. job.k - 1
  BY <1>1, DivBelow DEF Upto
<1>3. PICK tt, i : tt = x % job.k /\ i = x \div job.k
  OBVIOUS
<1>4. tt \in Upto(job.k) /\ i \in Rows
  BY <1>2, <1>3 DEF Upto, Rows
<1>5. ASSUME NEW level \in Levels, NEW node \in Upto(2 ^ level)
      PROVE  ValuedAt(m.iter, tt, level, node)
  <2>1. PICK a : a = 2 ^ level - 1 + node
    OBVIOUS
  <2>2. a \in Nat /\ a < total_nodes
    BY <2>1, NodeIndex
  <2>3. Frontier(m) = total_nodes
    BY DEF Frontier, total_nodes
  <2>4. IsBefore(m, m.iter, a)
    BY <2>2, <2>3 DEF IsBefore
  <2> QED
    BY <1>1, <1>4, <2>1, <2>4 DEF IsValued
<1>6. mem["leaf_value"][TreeBase(m.iter, tt) + Descend(m.iter, tt, i)[job.depth]][i] = 2 ^ m.iter
  BY <1>4, <1>5, RowValued
<1> QED
  BY <1>3, <1>6 DEF LeafOf

LEMMA WorkGraded ==
  ASSUME NEW u, NEW m, NEW d, WorksAt(u, m, d), HasRaw, IsGraded(m), IsValued(m)
  PROVE  IsGraded(m)'
<1>1. /\ job' = job /\ IsFit(job) /\ IsLocals(m) /\ u \in Workers /\ ~Arrived(u)
      /\ m.phase \in Phases /\ m.iter \in Nat
  BY DEF WorksAt, Arrived, IsLocals
<1>2. \A v \in Workers : Arrived(v)' <=> v = u \/ Arrived(v)
  BY ArrivedThen
<1>3. \A v \in Workers : Share(v) \subseteq Upto(job.n * job.k)
  BY <1>1, ShareFits
<1>4. \A v \in Workers : \A x \in Share(v) : v # u => x \notin Share(u)
  <2>1. job.n \in Nat /\ job.k \in Nat \ {0}
    BY <1>1 DEF IsFit
  <2> QED
    BY <1>1, <2>1, ShareApart
<1>5. \A v : Share(v)' = Share(v)
  BY <1>1 DEF Share, span, Upto
<1>6. CASE m.phase = "init"
  <2>1. \A x \in Share(u) : mem'["raw"][x] = 1
    BY <1>6, RawThen
  <2>2. 2 ^ 0 = 1
    BY PowerOfZero
  <2>3. ASSUME NEW v \in Workers, Arrived(v)', NEW x \in Share(v)
        PROVE  mem'["raw"][x] = 2 ^ 0
    <3>1. CASE v = u
      BY <2>1, <2>2, <2>3, <3>1
    <3>2. CASE v # u
      <4>1. mem["raw"][x] = 2 ^ 0
        BY <1>2, <1>6, <2>3, <3>2 DEF IsGraded, Moved
      <4>2. x \in Upto(job.n * job.k) /\ x \notin Share(u)
        BY <1>3, <1>4, <2>3, <3>2
      <4> QED
        BY <4>1, <4>2, RawThen
    <3> QED
      BY <3>1, <3>2
  <2>4. m.iter = 0
    BY <1>6 DEF IsGraded
  <2> QED
    BY <1>5, <1>6, <2>3, <2>4 DEF IsGraded, Moved, LevelPhases
<1>7. CASE m.phase = "grad"
  <2>1. mem'["raw"] = mem["raw"]
    BY <1>7, RawThen
  <2>2. \A x \in Upto(job.n * job.k) : mem["raw"][x] = 2 ^ m.iter
    BY <1>7 DEF IsGraded, Moved
  <2>3. ASSUME NEW v \in Workers, Arrived(v)', NEW x \in Share(v)
        PROVE  mem'["gh"][x] = 2 ^ m.iter
    <3>1. x \in Upto(job.n * job.k)
      BY <1>3
    <3>2. CASE v = u
      BY <1>7, <2>2, <3>1, <3>2, GradientsThen
    <3>3. CASE v # u
      <4>1. mem["gh"][x] = 2 ^ m.iter
        BY <1>2, <1>7, <2>3, <3>3 DEF IsGraded, Graded
      <4>2. x \notin Share(u)
        BY <1>4, <3>3
      <4> QED
        BY <1>7, <3>1, <4>1, <4>2, GradientsThen
    <3> QED
      BY <3>2, <3>3
  <2> QED
    BY <1>1, <1>5, <1>7, <2>1, <2>2, <2>3 DEF IsGraded, Moved, Graded, LevelPhases
<1>8. CASE m.phase \in LevelPhases \cup {"reset"}
  <2>1. mem'["raw"] = mem["raw"] /\ mem'["gh"] = mem["gh"]
    BY <1>8, RawThen, GradientsThen DEF LevelPhases
  <2>2. m.phase \notin {"init", "grad", "update"}
    BY <1>8 DEF LevelPhases
  <2> QED
    BY <1>1, <1>8, <2>1, <2>2 DEF IsGraded, Moved, Graded
<1>9. CASE m.phase = "update"
  <2>1. m.level = job.depth
    BY <1>9 DEF IsGraded
  <2>2. ASSUME NEW v \in Workers, NEW x \in Share(v)
        PROVE  mem'["raw"][x] = 2 ^ (IF Arrived(v)' THEN m.iter + 1 ELSE m.iter)
    <3>1. x \in Upto(job.n * job.k)
      BY <1>3
    <3>2. mem["raw"][x] = 2 ^ (IF Arrived(v) THEN m.iter + 1 ELSE m.iter)
      BY <1>9 DEF IsGraded, Moved
    <3>3. CASE v = u
      <4>1. mem'["raw"][x] = mem["raw"][x] + LeafOf(m.iter, x)
        BY <1>9, <3>3, RawThen
      <4>2. LeafOf(m.iter, x) = 2 ^ m.iter
        BY <1>1, <1>9, <2>1, <3>1, RowMoves
      <4>3. mem["raw"][x] = 2 ^ m.iter
        BY <1>1, <3>2, <3>3
      <4>4. mem'["raw"][x] = 2 ^ m.iter + 2 ^ m.iter
        BY <4>1, <4>2, <4>3
      <4>5. 2 ^ m.iter \in Nat /\ 2 ^ (m.iter + 1) = 2 * 2 ^ m.iter
        BY <1>1, PowerDoubles
      <4>6. mem'["raw"][x] = 2 ^ (m.iter + 1)
        BY <4>4, <4>5
      <4>7. Arrived(v)'
        BY <1>2, <3>3
      <4> QED
        BY <4>6, <4>7
    <3>4. CASE v # u
      <4>1. Arrived(v)' <=> Arrived(v)
        BY <1>2, <3>4
      <4>2. x \notin Share(u)
        BY <1>4, <3>4
      <4>3. mem'["raw"][x] = mem["raw"][x]
        BY <3>1, <4>2, RawThen
      <4> QED
        BY <3>2, <4>1, <4>3
    <3> QED
      BY <3>3, <3>4
  <2> QED
    BY <1>1, <1>5, <1>9, <2>1, <2>2 DEF IsGraded, Moved, LevelPhases
<1> QED
  BY <1>1, <1>6, <1>7, <1>8, <1>9 DEF Phases, LevelPhases

(* What holds of the rows when a phase begins.                              *)
LEMMA AllGraded ==
  ASSUME NEW m, EndsAt(m), IsGraded(m), NEW x, x = After(m),
         \A a \in {"init", "grad", "update"} : m.phase = a =>
           \A r \in Upto(job.n * job.k) : \E u \in Workers : r \in Share(u)
  PROVE  /\ \A r \in Upto(job.n * job.k) : Moved(r, x.iter)
         /\ x.phase \in LevelPhases \cup {"reset"} =>
              \A r \in Upto(job.n * job.k) : Graded(r, x.iter)
<1>1. m.phase \in Phases /\ IsLocals(m) /\ (\A u \in Workers : Arrived(u)) /\ m.iter \in Nat
  BY DEF EndsAt, IsLocals
<1>2. CASE m.phase = "init"
  <2>1. x.phase = "grad" /\ x.iter = 0
    BY <1>1, <1>2 DEF After, AfterPartition, IsGraded, IsLocals
  <2>2. \A r \in Upto(job.n * job.k) : Moved(r, 0)
    BY <1>1, <1>2 DEF IsGraded
  <2> QED
    BY <2>1, <2>2 DEF LevelPhases
<1>3. CASE m.phase = "grad"
  <2>1. x.phase = "reset" /\ x.iter = m.iter
    BY <1>1, <1>3 DEF After, AfterPartition, IsLocals
  <2>2. \A r \in Upto(job.n * job.k) : Moved(r, m.iter) /\ Graded(r, m.iter)
    BY <1>1, <1>3 DEF IsGraded
  <2> QED
    BY <2>1, <2>2
<1>4. CASE m.phase \in LevelPhases \cup {"reset"}
  <2>1. x.iter = m.iter
    BY <1>1, <1>4 DEF After, AfterPartition, AfterReduce, IsLocals, LevelPhases
  <2> QED
    BY <1>4, <2>1 DEF IsGraded
<1>5. CASE m.phase = "update"
  <2>1. x.phase \in {"grad", "done"} /\ x.iter = m.iter + 1
    BY <1>1, <1>5 DEF After, AfterPartition, IsLocals
  <2>2. \A r \in Upto(job.n * job.k) : Moved(r, m.iter + 1)
    BY <1>1, <1>5 DEF IsGraded
  <2> QED
    BY <2>1, <2>2 DEF LevelPhases
<1> QED
  BY <1>1, <1>2, <1>3, <1>4, <1>5 DEF Phases, LevelPhases

LEMMA SharesCover ==
  ASSUME IsFit(job), NEW r \in Upto(job.n * job.k)
  PROVE  \E u \in Workers : r \in Share(u)
<1>1. job.k \in Nat \ {0} /\ job.n \in Nat \ {0}
  BY DEF IsFit
<1>2. r \div job.k \in 0 .. job.n - 1 /\ r % job.k \in 0 .. job.k - 1
      /\ r % job.k = r - job.k * (r \div job.k)
  BY <1>1, DivBelow DEF Upto
<1>3. PICK i, c : i = r \div job.k /\ c = r % job.k
  OBVIOUS
<1>4. i \in 0 .. job.n - 1 /\ c \in Upto(job.k)
  BY <1>2, <1>3 DEF Upto
<1>5. r = i * job.k + c
  <2>1. PICK p : p = i * job.k
    OBVIOUS
  <2>2. p \in Int /\ p = job.k * i
    BY <1>1, <1>4, <2>1
  <2>3. r \in Int /\ c = r - p
    BY <1>2, <1>3, <2>2 DEF Upto
  <2> QED
    BY <2>1, <2>2, <2>3
<1>6. PICK u \in Workers : i \in span(job.n, u)
  BY <1>1, <1>4, SpansCover
<1> QED
  BY <1>4, <1>5, <1>6 DEF Share

----------------------------------------------------------------------------
(* The histograms                                                           *)

LEMMA GatheringStays ==
  ASSUME NEW u, NEW m, NEW d, WorksAt(u, m, d), m.phase \in {"gather", "reduce"}
  PROVE  /\ GatherArray(m)' = GatherArray(m) /\ blocks(m)' = blocks(m)
         /\ gather_nc(m)' = gather_nc(m) /\ plan(m)' = plan(m) /\ nc(m)' = nc(m)
         /\ hist_cur(m)' = hist_cur(m) /\ hist_par(m)' = hist_par(m)
         /\ \A v : GatherTasks(m, v)' = GatherTasks(m, v) /\ Columns(m, v)' = Columns(m, v)
         /\ \A t : StripeRows(m, t)' = StripeRows(m, t)
         /\ \A c : ColumnSlot(m, c)' = ColumnSlot(m, c)
<1>1. job' = job /\ mem'[ranges(m)] = mem[ranges(m)] /\ mem'[order(m)] = mem[order(m)]
  BY OrderStays DEF WorksAt, LevelPhases
<1>2. plan(m)' = plan(m) /\ nc(m)' = nc(m) /\ gather_nc(m)' = gather_nc(m) /\ blocks(m)' = blocks(m)
  BY <1>1 DEF plan, nc, gather_nc, blocks
<1>3. /\ hist_cur(m)' = hist_cur(m) /\ hist_par(m)' = hist_par(m)
      /\ GatherArray(m)' = GatherArray(m)
  BY <1>2 DEF hist_cur, hist_par, GatherArray, gathered
<1>4. ranges(m)' = ranges(m) /\ order(m)' = order(m)
  BY HandlesStay
<1>5. \A v : /\ GatherTasks(m, v)' = GatherTasks(m, v) /\ ReduceTasks(m, v)' = ReduceTasks(m, v)
             /\ Columns(m, v)' = Columns(m, v)
  BY <1>1, <1>2 DEF GatherTasks, ReduceTasks, span, Columns
<1>6. \A t : GatherTree(m, t)' = GatherTree(m, t) /\ GatherNode(m, t)' = GatherNode(m, t)
  BY <1>2 DEF GatherTree, GatherNode
<1>7. \A t : Stripe(m, t)' = Stripe(m, t)
  BY <1>1, <1>2, <1>4, <1>6 DEF Stripe
<1>8. \A t : StripeRows(m, t)' = StripeRows(m, t)
  BY <1>1, <1>4, <1>6, <1>7 DEF StripeRows, Rows
<1>9. \A c : ColumnSlot(m, c)' = ColumnSlot(m, c)
  BY <1>1, <1>2 DEF ColumnSlot, Slot, total_nodes
<1> QED
  BY <1>2, <1>3, <1>5, <1>8, <1>9

LEMMA WorkSorted ==
  ASSUME NEW u, NEW m, NEW d, WorksAt(u, m, d), IsListed(m), m.phase \in {"gather", "reduce"}
  PROVE  Sorted(m)
<1>1. IsFit(job) /\ IsLocals(m) /\ m.phase \in LevelPhases
  BY DEF WorksAt, LevelPhases
<1> QED
  BY <1>1, LevelStays DEF Sorted, IsListed

LEMMA GatherArrayName ==
  ASSUME NEW m
  PROVE  /\ GatherArray(m) \in Names /\ hist_cur(m) \in Names /\ gathered(m) \in Names
         /\ blocks(m) # 1 => GatherArray(m) \notin {hist_cur(m), gathered(m), "split", "leaf_value"}
         /\ blocks(m) = 1 => GatherArray(m) = gathered(m)
         /\ GatherArray(m) \notin {"split", "leaf_value"}
         /\ gathered(m) # hist_cur(m) => plan(m).subtract
         /\ gathered(m) = hist_cur(m) => ~plan(m).subtract
  BY DEF GatherArray, hist_cur, gathered, Names

LEMMA GatherSummed ==
  ASSUME NEW u, NEW m, NEW d, WorksAt(u, m, d), IsListed(m), IsGraded(m), m.phase = "gather",
         \A v \in Workers : Arrived(v) => \A t \in GatherTasks(m, v) : IsGathered(m, t),
         NEW v \in Workers, Arrived(v)', NEW t \in GatherTasks(m, v)
  PROVE  IsGathered(m, t)'
<1>1. /\ u \in Workers /\ me[u] = m /\ IsFit(job) /\ IsLocals(m) /\ DOMAIN mem = Names
      /\ job' = job /\ mem' = Updated(Writes(u, d))
  BY DEF WorksAt
<1>2. PICK a : a = GatherArray(m)
  OBVIOUS
<1>3. a \in DOMAIN mem
  BY <1>1, <1>2, GatherArrayName
<1>4. a \in DOMAIN Writes(u, d) /\ Writes(u, d)[a] = [r \in GatherTasks(m, u) |-> Cell(m, r)]
  <2>1. /\ DOMAIN Writes(u, d) = {GatherArray(m)}
        /\ Writes(u, d)[GatherArray(m)] = [r \in GatherTasks(m, u) |-> Cell(m, r)]
    BY <1>1, GatherWritesCells
  <2> QED
    BY <1>2, <2>1, Zenon
<1>5. PICK total : total = job.k * gather_nc(m) * blocks(m)
  OBVIOUS
<1>6. total \in Nat
  <2>1. job.k \in Nat /\ gather_nc(m) \in Nat /\ blocks(m) \in Nat
    BY <1>1, GatherShape DEF IsFit
  <2> QED
    BY <1>5, <2>1, ProductsGrow
<1>7. \A w : GatherTasks(m, w) = span(total, w)
  BY <1>5 DEF GatherTasks
<1>8. t \in DOMAIN mem'[a] /\ mem'[a][t] = Mark(m.iter, StripeRows(m, t))
  <2>1. CASE v = u
    <3>1. Sorted(m)
      BY WorkSorted
    <3>2. t \in Upto(total)
      BY <1>6, <1>7, SpanBounds DEF Upto
    <3>3. \A x \in Upto(job.n * job.k) : Graded(x, m.iter)
      BY DEF IsGraded, LevelPhases
    <3>4. Cell(m, t) = Mark(m.iter, StripeRows(m, t))
      BY <1>5, <3>1, <3>2, <3>3, CellIs
    <3> QED
      BY <1>1, <1>3, <1>4, <2>1, <3>4, UpdatedArray
  <2>2. CASE v # u
    <3>1. Arrived(v)
      BY <2>2, ArrivedThen
    <3>2. t \in DOMAIN mem[a] /\ mem[a][t] = Mark(m.iter, StripeRows(m, t))
      BY <1>2, <3>1 DEF IsGathered, GatherArray
    <3>3. t \notin GatherTasks(m, u)
      BY <1>1, <1>6, <1>7, <2>2, SpansApart
    <3> QED
      BY <1>1, <1>3, <1>4, <3>2, <3>3, UpdatedArray
  <2> QED
    BY <2>1, <2>2
<1>9. Mark(m.iter, StripeRows(m, t))' = Mark(m.iter, StripeRows(m, t)) /\ GatherArray(m)' = a
  BY <1>1, <1>2, GatheringStays DEF Mark, Rows
<1> QED
  BY <1>8, <1>9 DEF IsGathered, GatherArray

(* What a worker puts at an index of an array in its reduce.                *)
LEMMA ReduceArrays ==
  ASSUME NEW u, NEW m, NEW d, me[u] = m, m.phase = "reduce"
  PROVE  /\ \A c \in Columns(m, u) : Writes(u, d)[hist_cur(m)][c] = Histogram(m, c)
         /\ \A c \in DOMAIN Writes(u, d)[gathered(m)] :
              Writes(u, d)[gathered(m)][c] = reduce_cum_one(m, c)
<1>1. Writes(u, d) = reduce_split(m, u, d)
  BY DEF Writes
<1>2. hist_cur(m) \notin {"split", "leaf_value"} /\ gathered(m) \notin {"split", "leaf_value"}
  BY DEF hist_cur, gathered
<1>3. Writes(u, d)[hist_cur(m)] = [c \in Columns(m, u) |-> Histogram(m, c)]
  BY <1>1, <1>2 DEF reduce_split, Over, Store
<1>4. CASE gathered(m) = hist_cur(m)
  <2>1. \A c : Histogram(m, c) = reduce_cum_one(m, c)
    BY <1>4, GatherArrayName DEF Histogram
  <2> QED
    BY <1>3, <1>4, <2>1
<1>5. CASE gathered(m) # hist_cur(m)
  <2>1. Writes(u, d)[gathered(m)] = [c \in ReduceTasks(m, u) |-> reduce_cum_one(m, c)]
    BY <1>1, <1>2, <1>5 DEF reduce_split, Over, Store
  <2> QED
    BY <1>3, <2>1
<1> QED
  BY <1>4, <1>5

LEMMA ReduceValues ==
  ASSUME NEW u \in Workers, NEW m, NEW d, me[u] = m, m.phase = "reduce",
         IsFit(job), IsLocals(m), NEW c \in Columns(m, u)
  PROVE  Writes(u, d)["leaf_value"][ColumnSlot(m, c)] = Histogram(m, c)
<1>1. Writes(u, d) = reduce_split(m, u, d)
  BY DEF Writes
<1>2. hist_cur(m) \notin {"split", "leaf_value"} /\ gathered(m) \notin {"split", "leaf_value"}
  BY DEF hist_cur, gathered
<1> DEFINE histogram == [b \in Columns(m, u) |-> Histogram(m, b)]
           column == [x \in {ColumnSlot(m, b) : b \in Columns(m, u)} |->
                        CHOOSE b \in Columns(m, u) : ColumnSlot(m, b) = x]
<1>3. Writes(u, d)["leaf_value"] = [x \in DOMAIN column |-> histogram[column[x]]]
  BY <1>1, <1>2 DEF reduce_split, Over, Store
<1>4. PICK s : s = ColumnSlot(m, c)
  OBVIOUS
<1>5. s \in DOMAIN column /\ column[s] = CHOOSE b \in Columns(m, u) : ColumnSlot(m, b) = s
  BY <1>4
<1>6. column[s] \in Columns(m, u) /\ ColumnSlot(m, column[s]) = s
  BY <1>4, <1>5
<1> HIDE DEF column
<1>7. column[s] = c
  <2>1. column[s] \in 0 .. job.k * nc(m) - 1 /\ c \in 0 .. job.k * nc(m) - 1
    BY <1>6, ColumnsAre
  <2> QED
    BY <1>4, <1>6, <2>1, ColumnSlotsApart
<1> QED
  BY <1>3, <1>4, <1>5, <1>7

LEMMA GatheredStays ==
  ASSUME NEW u, NEW m, NEW d, WorksAt(u, m, d), m.phase = "reduce",
         NEW t, IsGathered(m, t)
  PROVE  IsGathered(m, t)'
<1>1. /\ u \in Workers /\ me[u] = m /\ IsFit(job) /\ IsLocals(m) /\ DOMAIN mem = Names
      /\ job' = job /\ mem' = Updated(Writes(u, d))
  BY DEF WorksAt
<1>2. PICK a : a = GatherArray(m)
  OBVIOUS
<1>3. a \in DOMAIN mem
  BY <1>1, <1>2, GatherArrayName
<1>4. t \in DOMAIN mem[a] /\ mem[a][t] = Mark(m.iter, StripeRows(m, t))
  BY <1>2 DEF IsGathered, GatherArray
<1>5. DOMAIN Writes(u, d) = {hist_cur(m), gathered(m), "split", "leaf_value"}
  BY <1>1, ReduceNames
<1>6. t \in DOMAIN mem'[a] /\ mem'[a][t] = mem[a][t]
  <2>1. CASE blocks(m) # 1
    <3>1. a \notin DOMAIN Writes(u, d)
      BY <1>2, <1>5, <2>1, GatherArrayName
    <3> QED
      BY <1>1, <1>3, <1>4, <3>1, UpdatedArray
  <2>2. CASE blocks(m) = 1
    <3>1. a = gathered(m) /\ a \in DOMAIN Writes(u, d)
      BY <1>2, <1>5, <2>2, GatherArrayName
    <3>2. t \in DOMAIN Writes(u, d)[a] => Writes(u, d)[a][t] = reduce_cum_one(m, t)
      BY <1>1, <3>1, ReduceArrays
    <3>3. reduce_cum_one(m, t) = mem[a][t]
      BY <2>2, <3>1 DEF reduce_cum_one
    <3>4. CASE t \in DOMAIN Writes(u, d)[a]
      BY <1>1, <1>3, <3>1, <3>2, <3>3, <3>4, UpdatedArray
    <3>5. CASE t \notin DOMAIN Writes(u, d)[a]
      BY <1>1, <1>3, <1>4, <3>1, <3>5, UpdatedArray
    <3> QED
      BY <3>4, <3>5
  <2> QED
    BY <2>1, <2>2
<1>7. Mark(m.iter, StripeRows(m, t))' = Mark(m.iter, StripeRows(m, t)) /\ GatherArray(m)' = a
  BY <1>1, <1>2, GatheringStays DEF Mark, Rows
<1> QED
  BY <1>4, <1>6, <1>7 DEF IsGathered, GatherArray

LEMMA ColumnRowsStay ==
  ASSUME NEW u, NEW m, NEW d, WorksAt(u, m, d), m.phase = "reduce", HasTrees,
         NEW c \in Upto(job.k * nc(m))
  PROVE  Mark(m.iter, ColumnRows(m, c))' = Mark(m.iter, ColumnRows(m, c))
<1>1. IsFit(job) /\ IsLocals(m) /\ m.phase \in LevelPhases /\ job' = job
  BY DEF WorksAt, LevelPhases
<1>2. PICK tt, node : tt = c \div nc(m) /\ node = m.node_base + (c % nc(m))
  OBVIOUS
<1>3. tt \in Upto(job.k) /\ m.level \in 0 .. job.depth
  BY <1>1, <1>2, ColumnPlace DEF IsLocals
<1>4. Reaching(m.iter, tt, m.level, node)' = Reaching(m.iter, tt, m.level, node)
  <2>1. \A a \in Nat : a + 1 < 2 ^ m.level =>
          mem'["split"][TreeBase(m.iter, tt) + a] = mem["split"][TreeBase(m.iter, tt) + a]
    BY <1>1, <1>3, SplitsAboveStay
  <2> QED
    BY <1>1, <1>3, <2>1, ReachingStays
<1>5. nc(m)' = nc(m)
  BY GatheringStays
<1>6. ColumnRows(m, c) = Reaching(m.iter, tt, m.level, node)
  BY <1>2 DEF ColumnRows
<1>7. ColumnRows(m, c)' = Reaching(m.iter, tt, m.level, node)'
  BY <1>2, <1>5 DEF ColumnRows
<1> QED
  BY <1>1, <1>4, <1>6, <1>7 DEF Mark, Rows

LEMMA ReducedThen ==
  ASSUME NEW u, NEW m, NEW d, WorksAt(u, m, d), IsListed(m), m.phase = "reduce",
         HasTrees, HasValues, HasParents(m),
         \A t \in Upto(job.k * gather_nc(m) * blocks(m)) : IsGathered(m, t),
         NEW v \in Workers, Arrived(v) => \A c \in Columns(m, v) : IsReduced(m, c),
         Arrived(v)', NEW c \in Columns(m, v)
  PROVE  IsReduced(m, c)'
<1>1. /\ u \in Workers /\ me[u] = m /\ IsFit(job) /\ IsLocals(m) /\ DOMAIN mem = Names
      /\ job' = job /\ mem' = Updated(Writes(u, d))
  BY DEF WorksAt
<1>2. c \in 0 .. job.k * nc(m) - 1
  BY <1>1, ColumnsAre
<1>3. PICK h, s, M : h = hist_cur(m) /\ s = ColumnSlot(m, c) /\ M = Mark(m.iter, ColumnRows(m, c))
  OBVIOUS
<1>4. h \in DOMAIN mem /\ "leaf_value" \in DOMAIN mem
  BY <1>1, <1>3, GatherArrayName DEF Names
<1>5. DOMAIN Writes(u, d) = {h, gathered(m), "split", "leaf_value"}
  BY <1>1, <1>3, ReduceNames
<1>6. /\ DOMAIN Writes(u, d)["leaf_value"] = SlotsOf(m, u)
      /\ DOMAIN Writes(u, d)[h] = Columns(m, u)
  BY <1>1, <1>3, ReduceWrites
<1>7. c \in DOMAIN mem'[h] /\ mem'[h][c] = M /\ mem'["leaf_value"][s] = M
  <2>1. CASE v = u
    <3>1. Sorted(m)
      BY WorkSorted
    <3>2. Histogram(m, c) = M
      BY <1>2, <1>3, <3>1, HistogramIs DEF Upto
    <3>3. Writes(u, d)[h][c] = Histogram(m, c)
      BY <1>1, <1>3, <2>1, ReduceArrays
    <3>4. Writes(u, d)["leaf_value"][s] = Histogram(m, c)
      BY <1>1, <1>3, <2>1, ReduceValues
    <3>5. s \in SlotsOf(m, u) /\ c \in DOMAIN Writes(u, d)[h]
      BY <1>3, <1>6, <2>1 DEF SlotsOf
    <3>6. c \in DOMAIN mem'[h] /\ mem'[h][c] = M
      BY <1>1, <1>4, <1>5, <3>2, <3>3, <3>5, UpdatedArray
    <3>7. mem'["leaf_value"][s] = M
      BY <1>1, <1>4, <1>5, <1>6, <3>2, <3>4, <3>5, UpdatedArray
    <3> QED
      BY <3>6, <3>7
  <2>2. CASE v # u
    <3>1. Arrived(v)
      BY <2>2, ArrivedThen
    <3>2. c \in DOMAIN mem[h] /\ mem[h][c] = M /\ mem["leaf_value"][s] = M
      BY <1>3, <3>1 DEF IsReduced
    <3>3. c \notin Columns(m, u)
      BY <1>1, <2>2, ReduceTasksApart
    <3>4. s \notin SlotsOf(m, u)
      <4> SUFFICES ASSUME NEW b \in Columns(m, u), ColumnSlot(m, b) = s PROVE FALSE
        BY DEF SlotsOf
      <4>1. b \in 0 .. job.k * nc(m) - 1
        BY <1>1, ColumnsAre
      <4>2. b = c
        BY <1>1, <1>2, <1>3, <4>1, ColumnSlotsApart
      <4> QED
        BY <3>3, <4>2
    <3>5. s \in DOMAIN mem["leaf_value"]
      <4>1. PICK tt, a : /\ tt = c \div nc(m)
                         /\ a = 2 ^ m.level - 1 + (m.node_base + (c % nc(m)))
        OBVIOUS
      <4>2. PICK node : node = m.node_base + (c % nc(m))
        OBVIOUS
      <4>3. tt \in Upto(job.k) /\ node \in Upto(2 ^ m.level) /\ s = TreeBase(m.iter, tt) + a
        BY <1>1, <1>2, <1>3, <4>1, <4>2, ColumnPlace DEF Upto
      <4>4. m.level \in Levels
        BY <1>1 DEF IsLocals, Levels
      <4>5. a \in Nat /\ a < total_nodes
        BY <1>1, <4>1, <4>2, <4>3, <4>4, NodeIndex
      <4>6. m.iter \in Nat /\ m.iter < job.iters
        BY <1>1 DEF IsLocals, Phases, WorksAt
      <4> QED
        BY <1>1, <4>3, <4>5, <4>6, TreeSlots DEF HasValues
    <3>6. c \in DOMAIN mem'[h] /\ mem'[h][c] = mem[h][c]
      BY <1>1, <1>4, <1>5, <1>6, <3>2, <3>3, UpdatedArray
    <3>7. mem'["leaf_value"][s] = mem["leaf_value"][s]
      BY <1>1, <1>4, <1>5, <1>6, <3>4, <3>5, UpdatedArray
    <3> QED
      BY <3>2, <3>6, <3>7
  <2> QED
    BY <2>1, <2>2
<1>8. hist_cur(m)' = h /\ ColumnSlot(m, c)' = s
  BY <1>3, GatheringStays
<1>9. Mark(m.iter, ColumnRows(m, c))' = M
  BY <1>2, <1>3, ColumnRowsStay DEF Upto
<1> QED
  BY <1>7, <1>8, <1>9 DEF IsReduced

LEMMA ParentsStay ==
  ASSUME NEW u, NEW m, NEW d, WorksAt(u, m, d), m.phase \in {"gather", "reduce"},
         HasTrees, HasParents(m)
  PROVE  HasParents(m)'
<1>1. /\ u \in Workers /\ me[u] = m /\ IsFit(job) /\ IsLocals(m) /\ DOMAIN mem = Names
      /\ job' = job /\ mem' = Updated(Writes(u, d)) /\ m.phase \in Phases
  BY DEF WorksAt
<1>2. m.level \in 0 .. job.depth /\ job.k \in Nat \ {0}
  BY <1>1 DEF IsLocals, IsFit
<1> SUFFICES ASSUME plan(m).subtract, NEW tn \in Upto(job.k * 2 ^ (m.level - 1))
             PROVE  mem[hist_par(m)]'[tn] = Mark(m.iter, ParentRows(m, tn))'
  <2>1. plan(m)' = plan(m)
    BY GatheringStays
  <2>2. Upto(job.k * 2 ^ (m.level - 1))' = Upto(job.k * 2 ^ (m.level - 1))
    BY <1>1 DEF Upto
  <2> QED
    BY <2>1, <2>2 DEF HasParents
<1>3. m.level - 1 \in Nat
  BY <1>1, <1>2, GatherShape
<1>4. PICK l : l = m.level - 1
  OBVIOUS
<1>5. l \in 0 .. job.depth /\ l \in Nat /\ l <= m.level /\ m.level \in Nat
  BY <1>1, <1>2, <1>3, <1>4 DEF IsFit
<1>6. 2 ^ l <= 2 ^ m.level /\ 2 ^ l \in Nat \ {0} /\ 2 ^ m.level \in Nat
  BY <1>5, PowersGrow, PowerDoubles
<1>7. PICK tt, node : tt = tn \div 2 ^ l /\ node = tn % 2 ^ l
  OBVIOUS
<1>8. tt \in Upto(job.k)
  BY <1>2, <1>4, <1>6, <1>7, DivBelow DEF Upto
<1>9. Reaching(m.iter, tt, l, node)' = Reaching(m.iter, tt, l, node)
  <2>1. ASSUME NEW a \in Nat, a + 1 < 2 ^ l
        PROVE  mem'["split"][TreeBase(m.iter, tt) + a] = mem["split"][TreeBase(m.iter, tt) + a]
    <3>1. a + 1 < 2 ^ m.level
      BY <1>6, <2>1
    <3> QED
      BY <1>8, <3>1, SplitsAboveStay DEF LevelPhases
  <2> QED
    BY <1>1, <1>5, <2>1, ReachingStays
<1>10. ParentRows(m, tn) = Reaching(m.iter, tt, l, node)
  BY <1>4, <1>7 DEF ParentRows
<1>11. ParentRows(m, tn)' = Reaching(m.iter, tt, l, node)'
  BY <1>4, <1>7 DEF ParentRows
<1>12. mem'[hist_par(m)] = mem[hist_par(m)]
  <2>1. hist_par(m) \notin DOMAIN Writes(u, d)
    BY <1>1, LeftAlone
  <2>2. hist_par(m) \in DOMAIN mem
    BY <1>1 DEF hist_par, Names
  <2> QED
    BY <1>1, <2>1, <2>2, UpdatedArray
<1>13. mem[hist_par(m)][tn] = Mark(m.iter, ParentRows(m, tn))
  BY DEF HasParents
<1>14. Mark(m.iter, ParentRows(m, tn))' = Mark(m.iter, ParentRows(m, tn))
  BY <1>1, <1>9, <1>10, <1>11 DEF Mark, Rows
<1>15. mem[hist_par(m)]' = mem'[hist_par(m)]
  <2>1. hist_par(m)' = hist_par(m)
    BY GatheringStays
  <2> QED
    BY <2>1
<1> QED
  BY <1>12, <1>13, <1>14, <1>15

LEMMA RetainedStays ==
  ASSUME NEW u, NEW m, NEW d, WorksAt(u, m, d),
         m.phase \in {"count", "prefix", "scatter", "fused"}, NEW tn \in Upto(Units(m)),
         mem[hist_par(m)][tn] = Mark(m.iter, Reached(m, tn))
  PROVE  mem[hist_par(m)]'[tn] = Mark(m.iter, Reached(m, tn))'
<1>1. /\ u \in Workers /\ me[u] = m /\ IsFit(job) /\ IsLocals(m) /\ DOMAIN mem = Names
      /\ job' = job /\ mem' = Updated(Writes(u, d)) /\ m.phase \in Phases
  BY DEF WorksAt
<1>2. mem'["split"] = mem["split"]
  BY OrderStays DEF LevelPhases
<1>3. Reached(m, tn)' = Reached(m, tn)
  BY <1>1, <1>2, ReachedStays
<1>4. mem'[hist_par(m)] = mem[hist_par(m)]
  <2>1. hist_par(m) \notin DOMAIN Writes(u, d)
    BY <1>1, LeftAlone
  <2>2. hist_par(m) \in DOMAIN mem
    BY <1>1 DEF hist_par, Names
  <2> QED
    BY <1>1, <2>1, <2>2, UpdatedArray
<1>5. hist_par(m)' = hist_par(m)
  BY DEF hist_par
<1> QED
  BY <1>1, <1>3, <1>4, <1>5 DEF Mark, Rows

LEMMA WorkSummed ==
  ASSUME NEW u, NEW m, NEW d, WorksAt(u, m, d), IsListed(m), IsGraded(m),
         HasTrees, HasValues, IsSummed(m)
  PROVE  IsSummed(m)'
<1>1. job' = job
  BY DEF WorksAt
<1>2. CASE m.phase \in {"gather", "reduce"}
  <2>1. HasParents(m)
    BY <1>2 DEF IsSummed, HasParents
  <2>2. HasParents(m)'
    BY <1>2, <2>1, ParentsStay
  <2>3. ASSUME m.phase = "gather", NEW v \in Workers, Arrived(v)', NEW t \in GatherTasks(m, v)'
        PROVE  IsGathered(m, t)'
    <3>1. t \in GatherTasks(m, v)
      BY <1>2, <2>3, GatheringStays
    <3>2. \A w \in Workers : Arrived(w) => \A r \in GatherTasks(m, w) : IsGathered(m, r)
      BY <2>3 DEF IsSummed
    <3> QED
      BY <2>3, <3>1, <3>2, GatherSummed
  <2>4. ASSUME m.phase = "reduce", NEW t \in Upto(job.k * gather_nc(m) * blocks(m))'
        PROVE  IsGathered(m, t)'
    <3>1. t \in Upto(job.k * gather_nc(m) * blocks(m))
      BY <1>1, <1>2, <2>4, GatheringStays DEF Upto
    <3>2. IsGathered(m, t)
      BY <2>4, <3>1 DEF IsSummed
    <3> QED
      BY <2>4, <3>2, GatheredStays
  <2>5. ASSUME m.phase = "reduce", NEW v \in Workers, Arrived(v)', NEW c \in Columns(m, v)'
        PROVE  IsReduced(m, c)'
    <3>1. c \in Columns(m, v)
      BY <1>2, <2>5, GatheringStays
    <3>2. /\ \A t \in Upto(job.k * gather_nc(m) * blocks(m)) : IsGathered(m, t)
          /\ Arrived(v) => \A b \in Columns(m, v) : IsReduced(m, b)
      BY <2>5 DEF IsSummed
    <3> QED
      BY <2>1, <2>5, <3>1, <3>2, ReducedThen
  <2> QED
    BY <1>2, <2>2, <2>3, <2>4, <2>5 DEF IsSummed, HasParents
<1>3. CASE m.phase \in {"count", "prefix", "scatter", "fused"}
  <2>1. plan(m)' = plan(m) /\ Upto(Units(m))' = Upto(Units(m))
    BY <1>1 DEF plan, Units, Upto
  <2>2. ASSUME plan(m).retain, NEW tn \in Upto(Units(m))
        PROVE  mem[hist_par(m)]'[tn] = Mark(m.iter, Reached(m, tn))'
    <3>1. mem[hist_par(m)][tn] = Mark(m.iter, Reached(m, tn))
      BY <1>3, <2>2 DEF IsSummed
    <3> QED
      BY <1>3, <3>1, RetainedStays
  <2> QED
    BY <1>3, <2>1, <2>2 DEF IsSummed
<1>4. CASE m.phase \notin LevelPhases
  BY <1>4 DEF IsSummed, LevelPhases
<1> QED
  BY <1>2, <1>3, <1>4 DEF LevelPhases

----------------------------------------------------------------------------
(* What holds when a phase begins                                           *)

(* Every column of the chunk is some worker's.                              *)
LEMMA ColumnsCover ==
  ASSUME IsFit(job), NEW m, IsLocals(m), m.phase = "reduce", NEW c \in Upto(job.k * nc(m))
  PROVE  \E u \in Workers : c \in Columns(m, u)
<1>1. /\ job.k \in Nat \ {0} /\ nc(m) \in Nat \ {0} /\ gather_nc(m) \in Nat \ {0}
      /\ ~plan(m).subtract => gather_nc(m) = nc(m)
      /\ plan(m).subtract => nc(m) = 2 * gather_nc(m)
  BY GatherShape DEF IsFit
<1>2. PICK total : total = job.k * gather_nc(m)
  OBVIOUS
<1>3. total \in Nat
  BY <1>1, <1>2, ProductsGrow
<1>4. \A u : ReduceTasks(m, u) = span(total, u)
  BY <1>2 DEF ReduceTasks
<1>5. CASE ~plan(m).subtract
  <2>1. c \in 0 .. total - 1
    BY <1>1, <1>2, <1>5 DEF Upto
  <2>2. PICK u \in Workers : c \in span(total, u)
    BY <1>3, <2>1, SpansCover
  <2> QED
    BY <1>4, <1>5, <2>2 DEF Columns
<1>6. CASE plan(m).subtract
  <2>1. job.k * nc(m) = 2 * total
    <3>1. PICK k, g : k = job.k /\ g = gather_nc(m)
      OBVIOUS
    <3>2. k * (2 * g) = 2 * (k * g)
      BY <1>1, <3>1
    <3> QED
      BY <1>1, <1>2, <1>6, <3>1, <3>2
  <2>2. c \in 0 .. 2 * total - 1
    BY <2>1 DEF Upto
  <2>3. PICK q : q = c \div 2
    OBVIOUS
  <2>4. q \in 0 .. total - 1 /\ c \in {2 * q, 2 * q + 1}
    BY <1>3, <2>2, <2>3
  <2>5. PICK u \in Workers : q \in span(total, u)
    BY <1>3, <2>4, SpansCover
  <2> QED
    BY <1>4, <1>6, <2>4, <2>5 DEF Columns
<1> QED
  BY <1>5, <1>6

(* A node below the frontier of a chunk and not below it before is one of   *)
(* the chunk's.                                                             *)
LEMMA InChunk ==
  ASSUME IsFit(job), NEW l \in Levels, NEW base \in Nat, NEW count \in Nat, base + count <= 2 ^ l,
         NEW level \in Levels, NEW node \in Upto(2 ^ level), NEW a, a = 2 ^ level - 1 + node,
         2 ^ l - 1 + base <= a, a < 2 ^ l - 1 + base + count
  PROVE  level = l /\ base <= node /\ node < base + count
<1>1. /\ level \in Nat /\ node \in Nat /\ a \in Nat /\ 2 ^ level \in Nat
      /\ 2 ^ level - 1 <= a /\ a < 2 ^ (level + 1) - 1
  BY NodeIndex
<1>2. l \in Nat
  BY DEF Levels
<1>3. 2 ^ l \in Nat \ {0} /\ 2 ^ (l + 1) = 2 * 2 ^ l /\ 2 ^ (level + 1) \in Nat
  BY <1>1, <1>2, PowerDoubles
<1>4. PICK p, q, r, s : p = 2 ^ l /\ q = 2 ^ level /\ r = 2 ^ (l + 1) /\ s = 2 ^ (level + 1)
  OBVIOUS
<1>5. /\ p \in Nat \ {0} /\ q \in Nat /\ r = 2 * p /\ s \in Nat /\ q - 1 <= a /\ a < s - 1
      /\ p - 1 + base <= a /\ a < p - 1 + base + count /\ base + count <= p /\ a = q - 1 + node
  BY <1>1, <1>3, <1>4
<1>6. p - 1 <= a /\ a < r - 1
  BY <1>1, <1>5
<1>7. ~(level < l)
  <2> SUFFICES ASSUME level < l PROVE FALSE
    OBVIOUS
  <2>1. s <= p
    BY <1>1, <1>2, <1>4, PowersGrow
  <2> QED
    BY <1>1, <1>5, <1>6, <2>1
<1>8. ~(l < level)
  <2> SUFFICES ASSUME l < level PROVE FALSE
    OBVIOUS
  <2>1. r <= q
    BY <1>1, <1>2, <1>4, PowersGrow
  <2> QED
    BY <1>1, <1>5, <1>6, <2>1
<1>9. level = l
  BY <1>1, <1>2, <1>7, <1>8
<1>10. p = q
  BY <1>4, <1>9
<1> QED
  BY <1>1, <1>5, <1>9, <1>10

LEMMA ChunkValued ==
  ASSUME NEW m, EndsAt(m), m.phase = "reduce", IsSummed(m),
         NEW tt \in Upto(job.k), NEW level \in Levels, NEW node \in Upto(2 ^ level),
         NEW a, a = 2 ^ level - 1 + node, ~(a < 2 ^ m.level - 1 + m.node_base),
         a < 2 ^ m.level - 1 + m.node_base + nc(m)
  PROVE  ValuedAt(m.iter, tt, level, node)
<1>1. IsFit(job) /\ IsLocals(m) /\ \A u \in Workers : Arrived(u)
  BY DEF EndsAt
<1>2. /\ nc(m) \in Nat \ {0} /\ m.node_base \in Nat /\ m.node_base + nc(m) <= plan(m).nodes
      /\ job.k \in Nat \ {0} /\ plan(m).nodes = 2 ^ m.level /\ m.level \in Levels
      /\ plan(m).nodes \in Nat
  BY <1>1, GatherShape, ShapeFacts DEF Levels
<1>3. PICK l, count, base : l = m.level /\ count = nc(m) /\ base = m.node_base
  OBVIOUS
<1>4. /\ l \in Levels /\ base \in Nat /\ count \in Nat \ {0} /\ base + count <= 2 ^ l
      /\ a < 2 ^ l - 1 + base + count /\ 2 ^ l \in Nat
  BY <1>2, <1>3
<1>5. a \in Nat
  BY <1>1, NodeIndex
<1>6. 2 ^ l - 1 + base <= a
  BY <1>3, <1>4, <1>5
<1>7. level = l /\ base <= node /\ node < base + count
  BY <1>1, <1>4, <1>6, InChunk
<1>8. node \in Nat /\ tt \in Nat
  BY <1>1, <1>2, NodeIndex DEF Upto
<1>9. PICK b : b = node - base
  OBVIOUS
<1>10. b \in 0 .. count - 1 /\ node = base + b
  BY <1>4, <1>7, <1>8, <1>9
<1>11. PICK c : c = tt * count + b
  OBVIOUS
<1>12. c \div count = tt /\ c % count = b /\ c \in tt * count .. (tt + 1) * count - 1
  BY <1>4, <1>8, <1>10, <1>11, BlockOf
<1>13. c \in Upto(job.k * count)
  BY <1>2, <1>4, <1>12, BlocksAreTasks
<1>14. PICK u \in Workers : c \in Columns(m, u)
  BY <1>1, <1>3, <1>13, ColumnsCover
<1>15. mem["leaf_value"][ColumnSlot(m, c)] = Mark(m.iter, ColumnRows(m, c))
  BY <1>1, <1>14 DEF IsSummed, IsReduced
<1>16. ColumnSlot(m, c) = TreeBase(m.iter, tt) + (2 ^ m.level - 1 + node)
  <2>1. node = m.node_base + (c % nc(m)) /\ c \div nc(m) = tt /\ c \in Upto(job.k * nc(m))
    BY <1>3, <1>10, <1>12, <1>13
  <2> QED
    BY <1>1, <2>1, ColumnPlace
<1>17. ColumnRows(m, c) = Reaching(m.iter, tt, m.level, node)
  BY <1>3, <1>10, <1>12 DEF ColumnRows
<1> QED
  BY <1>3, <1>7, <1>15, <1>16, <1>17 DEF ValuedAt

(* What the next phase takes for valued was valued before, or is of the     *)
(* chunk just reduced.                                                      *)
LEMMA FrontierGoesOn ==
  ASSUME NEW m, EndsAt(m), NEW x, x = After(m), m.phase = "update" => m.level = job.depth,
         NEW iter \in Upto(job.iters), NEW a \in Nat, a < total_nodes, IsBefore(x, iter, a)
  PROVE  \/ IsBefore(m, iter, a)
         \/ /\ m.phase = "reduce" /\ iter = m.iter /\ ~(a < 2 ^ m.level - 1 + m.node_base)
            /\ a < 2 ^ m.level - 1 + m.node_base + nc(m)
<1>1. /\ IsFit(job) /\ IsLocals(m) /\ m.phase \in Phases /\ m.iter \in Nat /\ iter \in Nat
      /\ m.level \in Nat /\ m.node_base \in Nat
  BY DEF EndsAt, IsLocals, Upto, IsFit
<1>2. 2 ^ m.level \in Nat /\ 2 ^ (m.level + 1) = 2 * 2 ^ m.level
  BY <1>1, PowerDoubles
<1>3. CASE m.phase \in {"init", "grad"}
  <2>1. x.phase \in {"grad", "reset"} /\ x.iter = m.iter
    BY <1>1, <1>3 DEF After, AfterPartition, IsLocals
  <2> QED
    BY <2>1 DEF IsBefore, LevelPhases
<1>4. CASE m.phase = "reset"
  <2>1. x.phase = "gather" /\ x.iter = m.iter /\ x.level = 0 /\ x.node_base = 0
    BY <1>1, <1>4 DEF After, AfterPartition, IsLocals
  <2>2. 2 ^ 0 = 1
    BY PowerOfZero
  <2>3. Frontier(x) = 0
    BY <2>1, <2>2 DEF Frontier
  <2> QED
    BY <2>1, <2>3 DEF IsBefore
<1>5. CASE m.phase = "gather"
  <2>1. /\ x.phase = "reduce" /\ x.iter = m.iter /\ x.level = m.level
        /\ x.node_base = m.node_base
    BY <1>1, <1>5 DEF After, AfterPartition, IsLocals
  <2> QED
    BY <1>5, <2>1 DEF IsBefore, Frontier, LevelPhases
<1>6. CASE m.phase \in {"count", "prefix"}
  <2>1. x.phase \in {"prefix", "scatter"} /\ x.iter = m.iter /\ x.level = m.level
    BY <1>1, <1>6 DEF After, AfterPartition, IsLocals
  <2> QED
    BY <1>6, <2>1 DEF IsBefore, Frontier, LevelPhases
<1>7. CASE m.phase \in {"scatter", "fused"}
  <2>1. x.phase = "gather" /\ x.iter = m.iter /\ x.level = m.level + 1 /\ x.node_base = 0
    BY <1>1, <1>7 DEF After, AfterPartition, IsLocals
  <2>2. Frontier(m) = 2 ^ (m.level + 1) - 1
    BY <1>7 DEF Frontier
  <2>3. Frontier(x) = 2 ^ (m.level + 1) - 1
    <3>1. Frontier(x) = 2 ^ (m.level + 1) - 1 + 0
      BY <2>1 DEF Frontier
    <3> QED
      BY <1>2, <3>1
  <2> QED
    BY <1>7, <2>1, <2>2, <2>3 DEF IsBefore, LevelPhases
<1>8. CASE m.phase = "update"
  <2>1. x.phase \in {"grad", "done"} /\ x.iter = m.iter + 1
    BY <1>1, <1>8 DEF After, AfterPartition, IsLocals
  <2>2. iter < m.iter + 1
    BY <2>1 DEF IsBefore, LevelPhases
  <2>3. Frontier(m) = total_nodes
    BY <1>8 DEF Frontier, total_nodes
  <2> QED
    BY <1>1, <1>8, <2>2, <2>3 DEF IsBefore
<1>9. CASE m.phase = "reduce"
  <2>1. /\ nc(m) \in Nat \ {0} /\ m.node_base + nc(m) <= plan(m).nodes
        /\ plan(m).nodes = 2 ^ m.level
    BY <1>1, <1>9, GatherShape, ShapeFacts
  <2>2. x.iter = m.iter /\ x.level = m.level
    BY <1>1, <1>9 DEF After, AfterPartition, AfterReduce, IsLocals
  <2>3. PICK p, count, base : p = 2 ^ m.level /\ count = nc(m) /\ base = m.node_base
    OBVIOUS
  <2>4. p \in Nat /\ count \in Nat /\ base \in Nat /\ base + count <= p
    BY <1>1, <1>2, <2>1, <2>3
  <2>5. Frontier(x) = p - 1 + base + count
    <3>1. CASE m.node_base + nc(m) < plan(m).nodes
      <4>1. x.phase = "gather" /\ x.node_base = m.node_base + nc(m)
        BY <1>1, <1>9, <3>1 DEF After, AfterPartition, AfterReduce, IsLocals
      <4>2. Frontier(x) = p - 1 + (base + count)
        BY <2>2, <2>3, <4>1 DEF Frontier
      <4> QED
        BY <2>4, <4>2
    <3>2. CASE ~(m.node_base + nc(m) < plan(m).nodes)
      <4>1. x.phase \notin {"gather", "reduce"}
        BY <1>1, <1>9, <3>2 DEF After, AfterPartition, AfterReduce, IsLocals
      <4>2. Frontier(x) = 2 * p - 1
        BY <1>2, <2>2, <2>3, <4>1 DEF Frontier
      <4>3. base + count = p
        BY <2>1, <2>3, <2>4, <3>2
      <4> QED
        BY <2>4, <4>2, <4>3
    <3> QED
      BY <3>1, <3>2
  <2>6. Frontier(m) = p - 1 + base
    BY <1>9, <2>3 DEF Frontier
  <2>7. \/ iter < m.iter
        \/ iter = m.iter /\ a < Frontier(x)
    BY <2>2 DEF IsBefore
  <2>8. iter < m.iter => IsBefore(m, iter, a)
    BY DEF IsBefore
  <2>9. iter = m.iter /\ a < p - 1 + base => IsBefore(m, iter, a)
    BY <1>9, <2>6 DEF IsBefore, LevelPhases
  <2> QED
    BY <1>9, <2>3, <2>5, <2>7, <2>8, <2>9
<1> QED
  BY <1>1, <1>3, <1>4, <1>5, <1>6, <1>7, <1>8, <1>9 DEF Phases

LEMMA AllValued ==
  ASSUME NEW m, EndsAt(m), IsModelled(m), NEW x, x = After(m)
  PROVE  IsValued(x)
<1>1. IsFit(job) /\ IsValued(m) /\ IsSummed(m)
  BY DEF EndsAt, IsModelled
<1>2. m.phase = "update" => m.level = job.depth
  BY DEF IsModelled, IsGraded
<1> SUFFICES ASSUME NEW iter \in Upto(job.iters), NEW tt \in Upto(job.k), NEW level \in Levels,
                    NEW node \in Upto(2 ^ level), IsBefore(x, iter, 2 ^ level - 1 + node)
             PROVE  ValuedAt(iter, tt, level, node)
  BY DEF IsValued
<1>3. PICK a : a = 2 ^ level - 1 + node
  OBVIOUS
<1>4. a \in Nat /\ a < total_nodes
  BY <1>1, <1>3, NodeIndex
<1>5. IsBefore(x, iter, a)
  BY <1>3
<1>6. CASE IsBefore(m, iter, a)
  BY <1>1, <1>3, <1>6 DEF IsValued
<1>7. CASE m.phase = "reduce" /\ iter = m.iter /\ ~(a < 2 ^ m.level - 1 + m.node_base)
           /\ a < 2 ^ m.level - 1 + m.node_base + nc(m)
  BY <1>1, <1>3, <1>7, ChunkValued
<1> QED
  BY <1>2, <1>4, <1>5, <1>6, <1>7, FrontierGoesOn

HasRetained(m) ==
  plan(m).retain =>
    \A tn \in Upto(Units(m)) : mem[hist_par(m)][tn] = Mark(m.iter, Reached(m, tn))

HasAllGathered(m) == \A t \in Upto(job.k * gather_nc(m) * blocks(m)) : IsGathered(m, t)

LEMMA GatherEnds ==
  ASSUME NEW m, EndsAt(m), IsSummed(m), m.phase = "gather", NEW x, x = After(m)
  PROVE  x.phase = "reduce" /\ HasAllGathered(x) /\ HasParents(x)
<1>1. IsFit(job) /\ IsLocals(m) /\ \A u \in Workers : Arrived(u)
  BY DEF EndsAt
<1>2. /\ x.phase = "reduce" /\ x.iter = m.iter /\ x.level = m.level
      /\ x.node_base = m.node_base /\ x.flipped = m.flipped /\ x.swapped = m.swapped
  BY <1>1 DEF After, AfterPartition, IsLocals
<1>3. /\ plan(x) = plan(m) /\ nc(x) = nc(m) /\ gather_nc(x) = gather_nc(m)
      /\ blocks(x) = blocks(m) /\ hist_cur(x) = hist_cur(m) /\ hist_par(x) = hist_par(m)
      /\ gathered(x) = gathered(m) /\ ranges(x) = ranges(m) /\ order(x) = order(m)
  BY <1>2 DEF plan, nc, gather_nc, blocks, hist_cur, hist_par, gathered, ranges, order
<1>4. \A t : StripeRows(x, t) = StripeRows(m, t)
  <2>1. \A t : GatherTree(x, t) = GatherTree(m, t) /\ GatherNode(x, t) = GatherNode(m, t)
    BY <1>2, <1>3 DEF GatherTree, GatherNode
  <2>2. \A t : Stripe(x, t) = Stripe(m, t)
    BY <1>3, <2>1 DEF Stripe
  <2> QED
    BY <1>3, <2>1, <2>2 DEF StripeRows
<1>5. \A t : IsGathered(m, t) => IsGathered(x, t)
  BY <1>2, <1>3, <1>4 DEF IsGathered
<1>6. PICK total : total = job.k * gather_nc(m) * blocks(m)
  OBVIOUS
<1>7. total \in Nat
  <2>1. job.k \in Nat /\ gather_nc(m) \in Nat /\ blocks(m) \in Nat
    BY <1>1, GatherShape DEF IsFit
  <2> QED
    BY <1>6, <2>1, ProductsGrow
<1>8. ASSUME NEW t \in Upto(total) PROVE IsGathered(x, t)
  <2>1. PICK u \in Workers : t \in span(total, u)
    BY <1>7, SpansCover DEF Upto
  <2>2. IsGathered(m, t)
    BY <1>1, <1>6, <2>1 DEF IsSummed, GatherTasks
  <2> QED
    BY <1>5, <2>2
<1>9. HasAllGathered(x)
  BY <1>3, <1>6, <1>8 DEF HasAllGathered
<1>10. HasParents(m)
  BY DEF IsSummed, HasParents
<1>11. HasParents(x)
  BY <1>2, <1>3, <1>10 DEF HasParents, ParentRows
<1> QED
  BY <1>2, <1>9, <1>11

(* A level that retains its histograms, or subtracts, has one chunk.        *)
LEMMA OneChunk ==
  ASSUME IsFit(job), NEW m, IsLocals(m), m.phase \in {"gather", "reduce"},
         plan(m).retain \/ plan(m).subtract
  PROVE  m.node_base = 0 /\ nc(m) = plan(m).nodes
<1>1. /\ m.level \in 0 .. job.depth /\ m.level \in Nat /\ plan(m).nodes = 2 ^ m.level
      /\ plan(m).nodes \in Nat
  BY ShapeFacts
<1>2. plan(m) = LevelPlan(job, m.level)
  BY <1>1 DEF plan, IsFit
<1>3. plan(m).node_chunk = 2 ^ m.level
  <2>1. CASE plan(m).subtract
    BY <1>1, <2>1, PlanFacts DEF plan
  <2>2. CASE plan(m).retain
    <3>1. retain(job, m.level)
      BY <1>2, <2>2 DEF LevelPlan
    <3>2. PICK p : p = 2 ^ m.level
      OBVIOUS
    <3>3. 2 * p <= job.cap /\ p \in Nat /\ job.cap \in Nat
      BY <1>1, <3>1, <3>2, PowerDoubles DEF retain, IsFit
    <3>4. p <= job.cap
      BY <3>3
    <3> QED
      BY <1>2, <3>2, <3>4 DEF LevelPlan
  <2> QED
    BY <2>1, <2>2
<1>4. m.node_base = 0
  BY <1>3 DEF IsLocals
<1>5. nc(m) = plan(m).nodes
  <2>1. nc(m) = Smaller(plan(m).nodes, plan(m).nodes - 0)
    BY <1>1, <1>3, <1>4 DEF nc
  <2> QED
    BY <1>1, <2>1 DEF Smaller
<1> QED
  BY <1>4, <1>5

LEMMA ReduceEnds ==
  ASSUME NEW m, EndsAt(m), IsSummed(m), m.phase = "reduce", NEW x, x = After(m)
  PROVE  /\ x.phase # "reduce"
         /\ x.phase = "gather" => HasParents(x)
         /\ x.phase \in {"count", "prefix", "scatter", "fused"} => HasRetained(x)
<1>1. IsFit(job) /\ IsLocals(m) /\ \A u \in Workers : Arrived(u)
  BY DEF EndsAt
<1>2. x.iter = m.iter /\ x.level = m.level /\ x.phase # "reduce" /\ plan(x) = plan(m)
  BY <1>1 DEF After, AfterPartition, AfterReduce, IsLocals, plan
<1>3. CASE m.node_base + nc(m) < plan(m).nodes
  <2>1. x.phase = "gather"
    BY <1>1, <1>3 DEF After, AfterPartition, AfterReduce, IsLocals
  <2>2. ~plan(m).subtract
    <3> SUFFICES ASSUME plan(m).subtract PROVE FALSE
      OBVIOUS
    <3>1. m.node_base = 0 /\ nc(m) = plan(m).nodes /\ plan(m).nodes \in Nat
      BY <1>1, OneChunk, ShapeFacts
    <3> QED
      BY <1>3, <3>1
  <2> QED
    BY <1>2, <2>1, <2>2 DEF HasParents
<1>4. CASE ~(m.node_base + nc(m) < plan(m).nodes)
  <2>1. x.phase \notin {"gather", "reduce"}
    BY <1>1, <1>4 DEF After, AfterPartition, AfterReduce, IsLocals
  <2>2. ASSUME plan(m).retain, NEW tn \in Upto(Units(m))
        PROVE  mem[hist_par(x)][tn] = Mark(x.iter, Reached(x, tn))
    <3>1. x.swapped = ~m.swapped /\ m.swapped \in BOOLEAN
      BY <1>1, <1>4, <2>2 DEF After, AfterPartition, AfterReduce, IsLocals
    <3>2. hist_par(x) = hist_cur(m)
      BY <3>1 DEF hist_par, hist_cur
    <3>3. m.node_base = 0 /\ nc(m) = plan(m).nodes
      BY <1>1, <2>2, OneChunk
    <3>4. tn \in Upto(job.k * nc(m))
      BY <3>3 DEF Units
    <3>5. PICK u \in Workers : tn \in Columns(m, u)
      BY <1>1, <3>4, ColumnsCover
    <3>6. mem[hist_cur(m)][tn] = Mark(m.iter, ColumnRows(m, tn))
      BY <1>1, <3>5 DEF IsSummed, IsReduced
    <3>7. tn % plan(m).nodes \in Nat
      BY <1>1, NodePlace
    <3>8. ColumnRows(m, tn) = Reached(m, tn)
      <4>1. m.node_base + (tn % nc(m)) = tn % plan(m).nodes
        BY <3>3, <3>7
      <4> QED
        BY <3>3, <4>1 DEF ColumnRows, Reached
    <3>9. Reached(x, tn) = Reached(m, tn)
      BY <1>2 DEF Reached
    <3> QED
      BY <1>2, <3>2, <3>6, <3>8, <3>9
  <2>3. HasRetained(x)
    BY <1>2, <2>2 DEF HasRetained, Units
  <2> QED
    BY <1>2, <2>1, <2>3
<1> QED
  BY <1>3, <1>4

LEMMA PartitionEnds ==
  ASSUME NEW m, EndsAt(m), IsSummed(m), m.phase \in {"scatter", "fused"}, NEW x, x = After(m)
  PROVE  x.phase = "gather" /\ HasParents(x)
<1>1. IsFit(job) /\ IsLocals(m) /\ m.level \in Nat /\ m.level < job.depth
      /\ plan(m).nodes = 2 ^ m.level /\ job.depth \in Nat
  BY ShapeFacts DEF EndsAt, IsLocals, IsFit
<1>2. /\ x.phase = "gather" /\ x.level = m.level + 1 /\ x.iter = m.iter
      /\ x.swapped = m.swapped
  BY <1>1 DEF After, AfterPartition, IsLocals
<1>3. ASSUME plan(x).subtract PROVE plan(m).retain
  <2>1. m.level + 1 \in 0 .. job.depth /\ m.level \in 0 .. job.depth
    BY <1>1
  <2>2. plan(x) = LevelPlan(job, m.level + 1) /\ plan(m) = LevelPlan(job, m.level)
    <3>1. PICK l : l = m.level + 1
      OBVIOUS
    <3>2. plan(x) = job.plans[l] /\ plan(m) = job.plans[m.level]
      BY <1>2, <3>1 DEF plan
    <3>3. l \in 0 .. job.depth /\ m.level \in 0 .. job.depth
      BY <2>1, <3>1
    <3>4. \A k \in 0 .. job.depth : job.plans[k] = LevelPlan(job, k)
      BY <1>1 DEF IsFit
    <3> QED
      BY <3>1, <3>2, <3>3, <3>4
  <2>3. subtract(job, m.level + 1)
    BY <1>3, <2>2 DEF LevelPlan
  <2>4. (m.level + 1) - 1 = m.level
    BY <1>1
  <2>5. retain(job, m.level)
    BY <2>3, <2>4 DEF subtract
  <2> QED
    BY <2>2, <2>5 DEF LevelPlan
<1>4. ASSUME plan(x).subtract, NEW tn \in Upto(job.k * 2 ^ (x.level - 1))
      PROVE  mem[hist_par(x)][tn] = Mark(x.iter, ParentRows(x, tn))
  <2>1. x.level - 1 = m.level
    BY <1>1, <1>2
  <2>2. tn \in Upto(Units(m))
    BY <1>1, <1>4, <2>1 DEF Units
  <2>3. mem[hist_par(m)][tn] = Mark(m.iter, Reached(m, tn))
    BY <1>3, <1>4, <2>2 DEF IsSummed
  <2>4. ParentRows(x, tn) = Reached(m, tn)
    BY <1>1, <1>2, <2>1 DEF ParentRows, Reached
  <2>5. hist_par(x) = hist_par(m)
    BY <1>2 DEF hist_par
  <2> QED
    BY <1>2, <2>3, <2>4, <2>5
<1> QED
  BY <1>2, <1>4 DEF HasParents

LEMMA AllSummed ==
  ASSUME NEW m, EndsAt(m), IsSummed(m), NEW x, x = After(m)
  PROVE  /\ x.phase = "reduce" => HasAllGathered(x)
         /\ x.phase \in {"gather", "reduce"} => HasParents(x)
         /\ x.phase \in {"count", "prefix", "scatter", "fused"} => HasRetained(x)
<1>1. IsFit(job) /\ IsLocals(m) /\ m.phase \in Phases
  BY DEF EndsAt
<1>2. CASE m.phase \in {"init", "grad", "update"}
  BY <1>1, <1>2 DEF After, AfterPartition, IsLocals
<1>3. CASE m.phase = "reset"
  <2>1. x.phase = "gather" /\ x.level = 0
    BY <1>1, <1>3 DEF After, AfterPartition, IsLocals
  <2>2. ~plan(x).subtract
    <3>1. 0 \in 0 .. job.depth
      BY <1>1 DEF IsFit
    <3> QED
      BY <1>1, <2>1, <3>1, PlanFacts DEF plan
  <2> QED
    BY <2>1, <2>2 DEF HasParents
<1>4. CASE m.phase \in {"count", "prefix"}
  <2>1. /\ x.phase \in {"prefix", "scatter"} /\ x.iter = m.iter /\ x.level = m.level
        /\ x.swapped = m.swapped
    BY <1>1, <1>4 DEF After, AfterPartition, IsLocals
  <2>2. HasRetained(m)
    BY <1>4 DEF IsSummed, HasRetained
  <2>3. plan(x) = plan(m) /\ hist_par(x) = hist_par(m) /\ Units(x) = Units(m)
    BY <2>1 DEF plan, hist_par, Units
  <2>4. \A tn : Reached(x, tn) = Reached(m, tn)
    BY <2>1, <2>3 DEF Reached
  <2> QED
    BY <2>1, <2>2, <2>3, <2>4 DEF HasRetained
<1>5. CASE m.phase = "gather"
  BY <1>5, GatherEnds
<1>6. CASE m.phase = "reduce"
  BY <1>6, ReduceEnds
<1>7. CASE m.phase \in {"scatter", "fused"}
  BY <1>7, PartitionEnds
<1> QED
  BY <1>1, <1>2, <1>3, <1>4, <1>5, <1>6, <1>7 DEF Phases

----------------------------------------------------------------------------
(* The model holds                                                          *)

(* What the phase of x begins with.                                         *)
BeginsModelled(x) ==
  /\ x.phase # "init" /\ (x.phase = "update" => x.level = job.depth)
  /\ \A r \in Upto(job.n * job.k) : Moved(r, x.iter)
  /\ x.phase \in LevelPhases \cup {"reset"} =>
       \A r \in Upto(job.n * job.k) : Graded(r, x.iter)
  /\ IsValued(x)
  /\ x.phase = "reduce" => HasAllGathered(x)
  /\ x.phase \in {"gather", "reduce"} => HasParents(x)
  /\ x.phase \in {"count", "prefix", "scatter", "fused"} => HasRetained(x)

LEMMA AllModelled ==
  ASSUME NEW m, EndsAt(m), IsModelled(m), NEW x, x = After(m)
  PROVE  BeginsModelled(x)
<1>1. IsFit(job) /\ IsLocals(m) /\ m.phase \in Phases /\ IsGraded(m) /\ IsSummed(m)
  BY DEF EndsAt, IsModelled
<1>2. /\ \A r \in Upto(job.n * job.k) : Moved(r, x.iter)
      /\ x.phase \in LevelPhases \cup {"reset"} =>
           \A r \in Upto(job.n * job.k) : Graded(r, x.iter)
  <2>1. \A r \in Upto(job.n * job.k) : \E u \in Workers : r \in Share(u)
    BY <1>1, SharesCover
  <2> QED
    BY <1>1, <2>1, AllGraded
<1>3. x.phase # "init"
  BY <1>1 DEF After, AfterPartition, AfterReduce, IsLocals, Phases
<1>4. x.phase = "update" => x.level = job.depth
  BY <1>1 DEF After, AfterPartition, AfterReduce, IsLocals, Phases
<1>5. IsValued(x)
  BY AllValued
<1>6. /\ x.phase = "reduce" => HasAllGathered(x)
      /\ x.phase \in {"gather", "reduce"} => HasParents(x)
      /\ x.phase \in {"count", "prefix", "scatter", "fused"} => HasRetained(x)
  BY <1>1, AllSummed
<1> QED
  BY <1>2, <1>3, <1>4, <1>5, <1>6 DEF BeginsModelled

LEMMA ModelSame ==
  ASSUME NEW m, UNCHANGED <<job, mem>>
  PROVE  /\ \A t : IsGathered(m, t)' <=> IsGathered(m, t)
         /\ \A c : IsReduced(m, c)' <=> IsReduced(m, c)
         /\ HasParents(m)' <=> HasParents(m)
         /\ HasRetained(m)' <=> HasRetained(m)
         /\ HasAllGathered(m)' <=> HasAllGathered(m)
         /\ IsValued(m)' <=> IsValued(m)
         /\ \A r, e : (Moved(r, e)' <=> Moved(r, e)) /\ (Graded(r, e)' <=> Graded(r, e))
         /\ \A v : /\ Share(v)' = Share(v) /\ GatherTasks(m, v)' = GatherTasks(m, v)
                   /\ Columns(m, v)' = Columns(m, v)
         /\ Upto(job.n * job.k)' = Upto(job.n * job.k) /\ (job.depth)' = job.depth
<1>1. job' = job /\ mem' = mem
  OBVIOUS
<1>2. plan(m)' = plan(m) /\ nc(m)' = nc(m) /\ gather_nc(m)' = gather_nc(m) /\ blocks(m)' = blocks(m)
  BY <1>1 DEF plan, nc, gather_nc, blocks
<1>3. /\ hist_cur(m)' = hist_cur(m) /\ hist_par(m)' = hist_par(m) /\ gathered(m)' = gathered(m)
      /\ ranges(m)' = ranges(m) /\ order(m)' = order(m)
  BY <1>2, HandlesStay DEF hist_cur, hist_par, gathered
<1>4. \A iter, S : Mark(iter, S)' = Mark(iter, S)
  BY <1>1 DEF Mark, Rows
<1>5. \A iter, tt, level, node : Reaching(iter, tt, level, node)' = Reaching(iter, tt, level, node)
  BY <1>1, DescendSame DEF Reaching, Rows
<1>6. \A t : StripeRows(m, t)' = StripeRows(m, t)
  <2>1. \A t : GatherTree(m, t)' = GatherTree(m, t) /\ GatherNode(m, t)' = GatherNode(m, t)
    BY <1>2 DEF GatherTree, GatherNode
  <2>2. \A t : Stripe(m, t)' = Stripe(m, t)
    BY <1>1, <1>2, <1>3, <2>1 DEF Stripe
  <2> QED
    BY <1>1, <1>3, <2>1, <2>2 DEF StripeRows, Rows
<1>7. \A t : IsGathered(m, t)' <=> IsGathered(m, t)
  BY <1>1, <1>2, <1>3, <1>4, <1>6 DEF IsGathered
<1>8. \A c : IsReduced(m, c)' <=> IsReduced(m, c)
  <2>1. \A c : ColumnRows(m, c)' = ColumnRows(m, c)
    BY <1>2, <1>5 DEF ColumnRows
  <2>2. \A c : ColumnSlot(m, c)' = ColumnSlot(m, c)
    BY <1>1, <1>2 DEF ColumnSlot, Slot, total_nodes
  <2> QED
    BY <1>1, <1>3, <1>4, <2>1, <2>2 DEF IsReduced
<1>9. HasParents(m)' <=> HasParents(m)
  <2>1. \A tn : ParentRows(m, tn)' = ParentRows(m, tn)
    BY <1>5 DEF ParentRows
  <2> QED
    BY <1>1, <1>2, <1>3, <1>4, <2>1 DEF HasParents, Upto
<1>10. HasRetained(m)' <=> HasRetained(m)
  <2>1. \A tn : Reached(m, tn)' = Reached(m, tn)
    BY <1>2, <1>5 DEF Reached
  <2> QED
    BY <1>1, <1>2, <1>3, <1>4, <2>1 DEF HasRetained, Upto, Units
<1>11. HasAllGathered(m)' <=> HasAllGathered(m)
  BY <1>1, <1>2, <1>7 DEF HasAllGathered, Upto
<1>12. IsValued(m)' <=> IsValued(m)
  <2>1. \A iter, tt, level, node : ValuedAt(iter, tt, level, node)' <=> ValuedAt(iter, tt, level, node)
    BY <1>1, <1>4, <1>5 DEF ValuedAt, TreeBase, total_nodes
  <2> QED
    BY <1>1, <2>1 DEF IsValued, IsBefore, Frontier, Upto, Levels
<1>13. \A r, e : (Moved(r, e)' <=> Moved(r, e)) /\ (Graded(r, e)' <=> Graded(r, e))
  BY <1>1 DEF Moved, Graded
<1>14. \A v : /\ Share(v)' = Share(v) /\ GatherTasks(m, v)' = GatherTasks(m, v)
              /\ Columns(m, v)' = Columns(m, v)
  BY <1>1, <1>2 DEF Share, GatherTasks, Columns, ReduceTasks, span, Upto
<1>15. Upto(job.n * job.k)' = Upto(job.n * job.k) /\ (job.depth)' = job.depth
  BY <1>1 DEF Upto
<1> QED
  BY <1>7, <1>8, <1>9, <1>10, <1>11, <1>12, <1>13, <1>14, <1>15

LEMMA BeginModelled ==
  ASSUME IsFit(job), NEW x, BeginsModelled(x), UNCHANGED <<job, mem>>,
         \A v \in Workers : ~Arrived(v)'
  PROVE  IsModelled(x)'
<1>1. IsGraded(x)'
  <2>1. /\ \A v \in Workers : Share(v) \subseteq Upto(job.n * job.k)
        /\ \A v : Share(v)' = Share(v)
    <3>1. \A v \in Workers : Share(v) \subseteq Upto(job.n * job.k)
      BY ShareFits DEF BeginsModelled
    <3> QED
      BY <3>1, ModelSame
  <2> QED
    BY <2>1, ModelSame DEF BeginsModelled, IsGraded
<1>2. IsValued(x)'
  BY ModelSame DEF BeginsModelled
<1>3. IsSummed(x)'
  <2>1. /\ x.phase = "reduce" => HasAllGathered(x)'
        /\ x.phase \in {"gather", "reduce"} => HasParents(x)'
        /\ x.phase \in {"count", "prefix", "scatter", "fused"} => HasRetained(x)'
    BY ModelSame DEF BeginsModelled
  <2> QED
    BY <2>1 DEF IsSummed, HasAllGathered, HasParents, HasRetained
<1> QED
  BY <1>1, <1>2, <1>3 DEF IsModelled

LEMMA QuietModelled ==
  ASSUME NEW m, Quiet, IsModelled(m)
  PROVE  IsModelled(m)'
<1>1. UNCHANGED <<job, mem>> /\ \A v \in Workers : Arrived(v)' <=> Arrived(v)
  BY DEF Quiet
<1>2. IsGraded(m)'
  BY <1>1, ModelSame DEF IsModelled, IsGraded
<1>3. IsValued(m)'
  BY <1>1, ModelSame DEF IsModelled
<1>4. IsSummed(m)'
  <2>1. IsSummed(m)
    BY DEF IsModelled
  <2>2. /\ m.phase = "reduce" => HasAllGathered(m)'
        /\ m.phase \in {"gather", "reduce"} => HasParents(m)'
        /\ m.phase \in {"count", "prefix", "scatter", "fused"} => HasRetained(m)'
    BY <1>1, <2>1, ModelSame DEF IsSummed, HasAllGathered, HasParents, HasRetained
  <2>3. m.phase = "gather" =>
          \A u \in Workers : Arrived(u)' => \A t \in GatherTasks(m, u)' : IsGathered(m, t)'
    BY <1>1, <2>1, ModelSame DEF IsSummed
  <2>4. m.phase = "reduce" =>
          \A u \in Workers : Arrived(u)' => \A c \in Columns(m, u)' : IsReduced(m, c)'
    BY <1>1, <2>1, ModelSame DEF IsSummed
  <2> QED
    BY <2>2, <2>3, <2>4 DEF IsSummed, HasAllGathered, HasParents, HasRetained
<1> QED
  BY <1>2, <1>3, <1>4 DEF IsModelled

LEMMA InitModelled == Init => MInv
<1> SUFFICES ASSUME Init PROVE MInv
  OBVIOUS
<1>1. /\ \A u \in Workers : Pending(u) = me[u] /\ me[u].phase = "init" /\ me[u].iter = 0
      /\ \A u \in Workers : ~Arrived(u)
      /\ mem = Allocated
  BY DEF Init, Bar!Init, Pending, Arrived
<1>2. DOMAIN mem["raw"] = Upto(job.n * job.k)
  BY <1>1, AllocatedDomains
<1>3. ASSUME NEW m, m.phase = "init", m.iter = 0 PROVE IsModelled(m)
  <2>1. IsGraded(m)
    BY <1>1, <1>3 DEF IsGraded, LevelPhases
  <2>2. \A iter \in Upto(job.iters) : \A a : ~IsBefore(m, iter, a)
    <3>1. job.iters \in Nat
      BY InitControl DEF CInv, Typed, IsFit
    <3> QED
      BY <1>3, <3>1 DEF IsBefore, LevelPhases, Upto
  <2>3. IsValued(m)
    BY <2>2 DEF IsValued
  <2>4. IsSummed(m)
    BY <1>3 DEF IsSummed
  <2> QED
    BY <2>1, <2>3, <2>4 DEF IsModelled
<1> QED
  BY <1>1, <1>2, <1>3 DEF MInv

LEMMA WorkKeepsModelled ==
  ASSUME CInv, DInv, AInv, RInv, MInv, NEW u \in Workers, Work(u)
  PROVE  MInv'
<1>1. PICK d : mem' = Updated(Writes(u, d))
  BY WorkWrites
<1>2. Goes(u)
  BY WorkWrites
<1>3. /\ at[u] = "out" /\ me[u].phase \notin Ended
      /\ at' = [at EXCEPT ![u] = IF poisoned THEN "freed" ELSE "in"]
      /\ UNCHANGED <<job, me, poisoned>>
  BY <1>2 DEF Goes, Running, Bar!Arrive
<1>4. /\ at \in [Workers -> {"out", "in", "freed"}] /\ IsFit(job) /\ IsLocals(me[u])
  BY DEF CInv, Typed
<1> SUFFICES ASSUME ~poisoned, NEW v \in Workers, NEW m, m = Pending(v)'
             PROVE  IsModelled(m)' /\ DOMAIN mem'["raw"] = Upto(job.n * job.k)
  <2>1. Upto(job.n * job.k)' = Upto(job.n * job.k)
    BY <1>3 DEF Upto
  <2>2. u \in Workers
    OBVIOUS
  <2> QED
    BY <1>3, <2>1, <2>2 DEF MInv
<1>5. \A w \in Workers : at'[w] = IF w = u THEN "in" ELSE at[w]
  BY <1>3, <1>4
<1>6. Pending(v)' = Pending(v)
  BY <1>3, <1>5, PendingStays
<1>7. m = me[u]
  <2>1. Pending(v) = Pending(u)
    BY DEF CInv, LockStep
  <2>2. Pending(u) = me[u]
    BY <1>3 DEF Pending
  <2> QED
    BY <1>6, <2>1, <2>2
<1>8. IsData(m) /\ IsListed(m) /\ IsModelled(m) /\ DOMAIN mem["raw"] = Upto(job.n * job.k)
  BY <1>6 DEF DInv, RInv, MInv
<1>9. m.phase \in Phases
  BY <1>3, <1>4, <1>7 DEF IsLocals
<1>10. WorksAt(u, m, d)
  BY <1>1, <1>3, <1>4, <1>5, <1>7, <1>8, <1>9 DEF WorksAt, DInv
<1>11. HasTrees /\ HasValues /\ HasRaw
  BY <1>8, AllocatedDomains DEF AInv, HasTrees, HasValues, HasRaw, Names
<1>12. IsGraded(m) /\ IsValued(m) /\ IsSummed(m)
  BY <1>8 DEF IsModelled
<1>13. IsGraded(m)'
  BY <1>10, <1>11, <1>12, WorkGraded
<1>14. IsValued(m)'
  BY <1>10, <1>11, <1>12, WorkValued
<1>15. IsSummed(m)'
  BY <1>8, <1>10, <1>11, <1>12, WorkSummed
<1>16. DOMAIN mem'["raw"] = Upto(job.n * job.k)
  BY <1>10, <1>11, RawThen
<1> QED
  BY <1>13, <1>14, <1>15, <1>16 DEF IsModelled

LEMMA OpenKeepsModelled ==
  ASSUME CInv, DInv, MInv, Open
  PROVE  MInv'
<1>1. /\ ~poisoned /\ \A u \in Workers : at[u] = "in"
      /\ at' = [u \in Workers |-> "freed"]
      /\ UNCHANGED <<job, me, mem, poisoned>>
  BY DEF Open, Bar!Open
<1>2. DOMAIN mem'["raw"] = Upto(job.n * job.k)'
  BY <1>1 DEF MInv, Upto
<1> SUFFICES ASSUME NEW v \in Workers, NEW x, x = Pending(v)' PROVE IsModelled(x)'
  BY <1>1, <1>2 DEF MInv
<1>3. PICK m : m = me[v]
  OBVIOUS
<1>4. Pending(v) = m
  BY <1>1, <1>3 DEF Pending
<1>5. x = After(m)
  <2>1. Pending(v)' = After(me[v])'
    BY <1>1 DEF Pending
  <2>2. After(me[v])' = After(me[v])
    BY <1>1, Zenon DEF After, AfterPartition, AfterReduce, nc, plan
  <2> QED
    BY <1>3, <2>1, <2>2
<1>6. EndsAt(m) /\ IsModelled(m)
  <2>1. IsFit(job) /\ IsLocals(m) /\ m.phase \in Phases
    BY <1>1, <1>3 DEF CInv, Typed, AtTheCall
  <2>2. IsData(m) /\ IsModelled(m)
    BY <1>1, <1>4 DEF DInv, MInv
  <2>3. \A u \in Workers : Arrived(u)
    BY <1>1 DEF Arrived
  <2> QED
    BY <2>1, <2>2, <2>3 DEF EndsAt
<1>7. BeginsModelled(x)
  BY <1>5, <1>6, AllModelled
<1>8. \A u \in Workers : ~Arrived(u)'
  BY <1>1 DEF Arrived
<1>9. IsFit(job)
  BY DEF CInv, Typed
<1> QED
  BY <1>1, <1>7, <1>8, <1>9, BeginModelled

LEMMA PassKeepsModelled ==
  ASSUME CInv, MInv, NEW u \in Workers, Pass(u)
  PROVE  MInv'
<1>1. /\ at[u] = "freed" /\ at' = [at EXCEPT ![u] = "out"]
      /\ me' = [me EXCEPT ![u] = IF poisoned THEN Abandon(@) ELSE After(@)]
      /\ UNCHANGED <<job, mem, poisoned>>
  BY DEF Pass, Bar!Leave
<1>2. at \in [Workers -> {"out", "in", "freed"}] /\ DOMAIN me = Workers
  BY DEF CInv, Typed
<1>3. ~poisoned => DOMAIN mem'["raw"] = Upto(job.n * job.k)'
  BY <1>1 DEF MInv, Upto
<1> SUFFICES ASSUME ~poisoned, NEW v \in Workers, NEW m, m = Pending(v)'
             PROVE  IsModelled(m)'
  BY <1>1, <1>3 DEF MInv
<1>4. m = Pending(v)
  BY PassPending
<1>5. IsModelled(m)
  BY <1>4 DEF MInv
<1>6. Quiet
  BY <1>1, <1>2 DEF Quiet, Arrived
<1> QED
  BY <1>5, <1>6, QuietModelled

LEMMA NextModelled == CInv /\ DInv /\ AInv /\ RInv /\ MInv /\ [Next]_vars => MInv'
<1> SUFFICES ASSUME CInv, DInv, AInv, RInv, MInv, [Next]_vars PROVE MInv'
  OBVIOUS
<1>1. ASSUME NEW u \in Workers, Work(u) PROVE MInv'
  BY <1>1, WorkKeepsModelled
<1>2. ASSUME NEW u \in Workers, Pass(u) PROVE MInv'
  BY <1>2, PassKeepsModelled
<1>3. ASSUME NEW u \in Workers, Fail(u) PROVE MInv'
  BY <1>3 DEF Fail, Bar!Poison, MInv
<1>4. CASE Open
  BY <1>4, OpenKeepsModelled
<1>5. ASSUME UNCHANGED <<job, me, mem, at, poisoned>> PROVE MInv'
  <2>1. ~poisoned => DOMAIN mem'["raw"] = Upto(job.n * job.k)'
    BY <1>5 DEF MInv, Upto
  <2> SUFFICES ASSUME ~poisoned, NEW v \in Workers, NEW m, m = Pending(v)'
               PROVE  IsModelled(m)'
    BY <1>5, <2>1 DEF MInv
  <2>2. Pending(v)' = Pending(v)
    BY <1>5, PendingStays
  <2>3. Quiet
    BY <1>5 DEF Quiet, Arrived
  <2> QED
    BY <2>2, <2>3, QuietModelled DEF MInv
<1>6. CASE Join
  BY <1>5, <1>6 DEF Join
<1>7. CASE UNCHANGED vars
  BY <1>5, <1>7 DEF vars
<1> QED
  BY <1>1, <1>2, <1>3, <1>4, <1>6, <1>7 DEF Next

(* A returned model is the serial one: every node of every tree was valued  *)
(* by exactly the rows that reach it, each with the gradient of its own     *)
(* iteration, whether its histogram was gathered in one block or several or *)
(* subtracted, and every row has been moved once per iteration by the leaf  *)
(* it was trained in.                                                       *)
THEOREM ModelIsSerialCorrect == Spec => []ModelIsSerial
<1>1. Init => AInv /\ RInv /\ MInv
  BY InitAllocation, InitListed, InitModelled
<1>2. CInv /\ DInv /\ AInv /\ RInv /\ MInv /\ [Next]_vars => AInv' /\ RInv' /\ MInv'
  BY NextAllocation, NextListed, NextModelled
<1>3. CInv /\ MInv => ModelIsSerial
  <2> SUFFICES ASSUME CInv, MInv, outcome = "model"
               PROVE  /\ \A x \in DOMAIN mem.raw : mem.raw[x] = 2 ^ job.iters
                      /\ \A iter \in Upto(job.iters), tt \in Upto(job.k), level \in Levels :
                           \A node \in Upto(2 ^ level) :
                             mem.leaf_value[Slot([iter |-> iter], tt, level, node)]
                               = Mark(iter, Reaching(iter, tt, level, node))
    BY DEF ModelIsSerial, Mark
  <2>1. 0 \in Workers
    BY WAssumption DEF Workers
  <2>2. PICK m : m = me[0]
    OBVIOUS
  <2>3. at[0] = "out" /\ m.phase \in Ended /\ m.phase # "failed" /\ ~poisoned /\ IsFit(job)
    BY <2>1, <2>2 DEF CInv, Joined, PoisonedByFailure, Typed
  <2>4. m.phase = "done" /\ m.iter = job.iters
    BY <2>1, <2>2, <2>3 DEF CInv, DoneInTime
  <2>5. Pending(0) = m
    BY <2>2, <2>3 DEF Pending
  <2>6. IsModelled(m) /\ DOMAIN mem["raw"] = Upto(job.n * job.k)
    BY <2>1, <2>3, <2>5 DEF MInv
  <2>7. \A x \in DOMAIN mem.raw : mem.raw[x] = 2 ^ job.iters
    BY <2>4, <2>6 DEF IsModelled, IsGraded, Moved
  <2>8. ASSUME NEW iter \in Upto(job.iters), NEW tt \in Upto(job.k), NEW level \in Levels,
               NEW node \in Upto(2 ^ level)
        PROVE  mem.leaf_value[Slot([iter |-> iter], tt, level, node)]
                 = Mark(iter, Reaching(iter, tt, level, node))
    <3>1. iter \in Nat /\ iter < m.iter /\ tt \in Nat
      BY <2>3, <2>4 DEF Upto, IsFit
    <3>2. ValuedAt(iter, tt, level, node)
      BY <2>6, <3>1 DEF IsModelled, IsValued, IsBefore
    <3>3. level \in Nat /\ node \in Nat
      BY <2>3, NodeIndex
    <3>4. PICK r : r = [iter |-> iter]
      OBVIOUS
    <3>5. r.iter = iter
      BY <3>4
    <3>6. Slot(r, tt, level, node) = TreeBase(iter, tt) + (2 ^ level - 1 + node)
      <4>1. r.iter \in Nat /\ IsFit(job)
        BY <2>3, <3>1, <3>5
      <4>2. Slot(r, tt, level, node) = TreeBase(r.iter, tt) + (2 ^ level - 1 + node)
        BY ONLY <3>1, <3>3, <4>1, SlotIs
      <4> QED
        BY <3>5, <4>2
    <3> QED
      BY <3>2, <3>4, <3>6 DEF ValuedAt
  <2> QED
    BY <2>7, <2>8
<1> QED
  BY <1>1, <1>2, <1>3, ControlInvariance, DataInvariance, PTL DEF Spec
=============================================================================
