------------------------------- MODULE HgbFit -------------------------------
(***************************************************************************)
(* The host arm of histogram gradient boosting, boost() and fit_typed() of *)
(* crates/mlrs-backend/src/prims/hgb_host.rs: W workers run one body in    *)
(* lock step over shared arrays, in phases separated by a Rendezvous.  In  *)
(* each phase a worker writes what its share of the tasks owns.            *)
(*                                                                         *)
(* A gradient, and what is summed from gradients, is kept as the part each *)
(* row has in it: a histogram is a function of the rows.  The k values of  *)
(* a bin and the axes of features and bins are left out; a split, which in *)
(* the code is a feature and a bin, is the set of rows it sends left.      *)
(***************************************************************************)
EXTENDS Integers, FiniteSets, FiniteSetsExt

CONSTANTS
  W,                    \* the workers
  Jobs,                 \* the fits: [n, k, iters, depth, cap], cap = subtract_cap
  HistTarget, MaxBlocks, HistBudget,    \* HGB_HIST_TARGET_UNITS and so on
  MIN_ROWS_PER_BLOCK,
  Cuts                  \* the splits there are: sets of rows

Workers == 0 .. W - 1

ASSUME WAssumption == W \in Nat \ {0}
ASSUME JobsAssumption ==
  \A j \in Jobs : /\ {j.n, j.k, j.iters} \subseteq Nat \ {0}
                  /\ {j.depth, j.cap} \subseteq Nat
ASSUME HostAssumption ==
  {HistTarget, MaxBlocks, HistBudget} \subseteq Nat /\ MIN_ROWS_PER_BLOCK \in Nat \ {0}

VARIABLES
  job,                  \* the fit, with its plans
  me,                   \* me[u]: the locals of worker u: phase, iter, level,
                        \* node_base, and which of two arrays its handles name
  mem,                  \* the shared arrays by name
  outcome,              \* of fit_typed: "none", "model" or "panic"
  at, poisoned          \* the barrier

vars == <<job, me, mem, outcome, at, poisoned>>

Bar == INSTANCE Rendezvous WITH Units <- Workers

Rows == 0 .. job.n - 1
Zero == [i \in Rows |-> 0]
total_nodes == 2 ^ (job.depth + 1) - 1

----------------------------------------------------------------------------
(* Who does what: the decomposition every worker computes for itself. *)

Smaller(a, b) == IF a < b THEN a ELSE b
Larger(a, b)  == IF a < b THEN b ELSE a
CeilDiv(a, b) == (a + b - 1) \div b
Upto(count)   == 0 .. count - 1

(* Mutant of span: both ends rounded up, neighbours share a task. *)
WideSpan(total, u) == (total * u) \div W .. CeilDiv(total * (u + 1), W) - 1

span(total, u) == (total * u) \div W .. (total * (u + 1)) \div W - 1

(* Row blocks of a gather: the target, halved until the partials fit. *)
hist_blocks(k, nc) ==
  LET wanted == Smaller(Larger(HistTarget \div (k * nc), 1), MaxBlocks)
      halved == {wanted \div (2 ^ h) : h \in 0 .. wanted}
  IN  Max({1} \cup {b \in halved : k * nc * b <= HistBudget})

retain(j, level) == level < j.depth /\ 2 * 2 ^ level <= j.cap

subtract(j, level) == level > 0 /\ 2 ^ level <= j.cap /\ retain(j, level - 1)

partition_blocks_host(j, level) ==
  Smaller(CeilDiv(4 * W, j.k * 2 ^ level),
          Larger(j.n \div (2 ^ level * MIN_ROWS_PER_BLOCK), 1))

LevelPlan(j, level) ==
  LET nodes == 2 ^ level
  IN  [nodes      |-> nodes,
       subtract   |-> subtract(j, level),
       node_chunk |-> IF nodes <= j.cap THEN nodes ELSE Larger(j.cap, 1),
       retain     |-> retain(j, level),
       blocks     |-> [nc \in 1 .. nodes |-> hist_blocks(j.k, nc)],
       bcount     |-> partition_blocks_host(j, level)]

(* A fit with the plans of its levels, which it makes before it starts. *)
Planned(j) ==
  [n |-> j.n, k |-> j.k, iters |-> j.iters, depth |-> j.depth, cap |-> j.cap,
   plans |-> [level \in 0 .. j.depth |-> LevelPlan(j, level)]]

plan(m) == job.plans[m.level]

(* The handles of a worker. *)
order(m)       == IF m.flipped THEN "order_b" ELSE "order_a"
order_next(m)  == IF m.flipped THEN "order_a" ELSE "order_b"
ranges(m)      == IF m.flipped THEN "ranges_b" ELSE "ranges_a"
ranges_next(m) == IF m.flipped THEN "ranges_a" ELSE "ranges_b"
hist_cur(m)    == IF m.swapped THEN "hist_parent" ELSE "hist"
hist_par(m)    == IF m.swapped THEN "hist" ELSE "hist_parent"
gathered(m)    == IF plan(m).subtract THEN "hist_left" ELSE hist_cur(m)

(* The nodes of this chunk, and how many of them are gathered. *)
nc(m) == Smaller(plan(m).node_chunk, plan(m).nodes - m.node_base)
gather_nc(m) == IF plan(m).subtract THEN nc(m) \div 2 ELSE nc(m)
blocks(m) == plan(m).blocks[gather_nc(m)]

(* The model's slot of a node of a level. *)
Slot(m, tt, level, node) ==
  (m.iter * job.k + tt) * total_nodes + 2 ^ level - 1 + node

----------------------------------------------------------------------------
(* The phases: what worker u writes, as the array and the values by index. *)

Store(array, values) == [a \in {array} |-> values]

(* What f says, and where f says nothing what g does. *)
Over(f, g) ==
  [x \in DOMAIN f \cup DOMAIN g |-> IF x \in DOMAIN f THEN f[x] ELSE g[x]]

Share(u) == {i * job.k + cc : i \in span(job.n, u), cc \in Upto(job.k)}

init_raw(u) == Store("raw", [x \in Share(u) |-> 1])

gradients(u) == Store("gh", [x \in Share(u) |-> mem.raw[x]])

ResetPartition(m, u) ==
  LET slots == span(job.k * job.n, u)
  IN  Over(Store(order(m), [t \in slots |-> t % job.n]),
           Store(ranges(m), [tt \in {tt \in Upto(job.k) : tt * job.n \in slots} |-> <<0, job.n>>]))

(* Task t of a gather: a stripe of the rows of one node of one tree. *)
GatherTasks(m, u) == span(job.k * gather_nc(m) * blocks(m), u)
GatherTree(m, t) == t \div (blocks(m) * gather_nc(m))
GatherNode(m, t) ==
  LET stride == IF plan(m).subtract THEN 2 ELSE 1
  IN  GatherTree(m, t) * plan(m).nodes + m.node_base +
      ((t \div blocks(m)) % gather_nc(m)) * stride
Stripe(m, t) ==
  LET range == mem[ranges(m)][GatherNode(m, t)]
      len == range[2] - range[1]
      count == blocks(m)
      blk == t % count
  IN  range[1] + (blk * len) \div count .. range[1] + ((blk + 1) * len) \div count - 1

gather(m, u) ==
  Store(IF blocks(m) = 1 THEN gathered(m) ELSE "partials",
    [t \in GatherTasks(m, u) |->
       LET tt == GatherTree(m, t)
           row == [r \in Stripe(m, t) |-> mem[order(m)][tt * job.n + r]]
       IN  [i \in Rows |-> mem.gh[i * job.k + tt] *
                           Cardinality({r \in DOMAIN row : row[r] = i})]])

(* Task col of a reduce sums one gathered column; subtracting, it derives   *)
(* the right sibling's from the parent's, which is nothing if the parent is *)
(* a leaf.                                                                  *)
ReduceTasks(m, u) == span(job.k * gather_nc(m), u)

(* What row i has in the blocks below each block of a column. *)
PartsBelow(m, col, i) ==
  LET acc[b \in 0 .. blocks(m)] ==
        IF b = 0 THEN 0 ELSE acc[b - 1] + mem.partials[col * blocks(m) + b - 1][i]
  IN  acc

reduce_cum_one(m, col) ==
  IF blocks(m) = 1 THEN mem[gathered(m)][col]
  ELSE [i \in Rows |-> PartsBelow(m, col, i)[blocks(m)]]

Parent(m, col) == Slot(m, col \div gather_nc(m), m.level - 1, col % gather_nc(m))

(* Mutant of subtract_one: a leaf's children get its histogram. *)
SubtractFromLeaf(m, col) ==
  LET left == reduce_cum_one(m, col)
  IN  [i \in Rows |-> mem[hist_par(m)][col][i] - left[i]]

subtract_one(m, col) ==
  LET left == reduce_cum_one(m, col)
  IN  IF mem.split[Parent(m, col)].is_leaf THEN Zero
      ELSE [i \in Rows |-> mem[hist_par(m)][col][i] - left[i]]

(* The columns of the level a worker fills, and each one's slot of the model. *)
Columns(m, u) ==
  IF plan(m).subtract THEN UNION {{2 * col, 2 * col + 1} : col \in ReduceTasks(m, u)}
  ELSE ReduceTasks(m, u)
Histogram(m, c) ==
  IF ~plan(m).subtract THEN reduce_cum_one(m, c)
  ELSE IF c % 2 = 0 THEN reduce_cum_one(m, c \div 2) ELSE subtract_one(m, c \div 2)
ColumnSlot(m, c) == Slot(m, c \div nc(m), m.level, m.node_base + (c % nc(m)))

Leaf == [is_leaf |-> TRUE, left |-> {}]

(* What split_one may decide: a leaf at the last level and where there is   *)
(* nothing to gain, as in an empty node.                                    *)
split_one(m, histogram) ==
  IF m.level = job.depth \/ histogram = Zero THEN {Leaf}
  ELSE {Leaf} \cup {[is_leaf |-> FALSE, left |-> cut] : cut \in Cuts}

Decisions(m, u) ==
  LET may == [c \in Columns(m, u) |-> split_one(m, Histogram(m, c))]
  IN  {d \in [Columns(m, u) -> UNION {may[c] : c \in Columns(m, u)}] :
         \A c \in Columns(m, u) : d[c] \in may[c]}

reduce_split(m, u, d) ==
  LET histogram == [c \in Columns(m, u) |-> Histogram(m, c)]
      column == [x \in {ColumnSlot(m, c) : c \in Columns(m, u)} |->
                   CHOOSE c \in Columns(m, u) : ColumnSlot(m, c) = x]
  IN  Over(Over(Store(hist_cur(m), histogram),
                Store(gathered(m), [col \in ReduceTasks(m, u) |-> reduce_cum_one(m, col)])),
           Over(Store("split", [x \in DOMAIN column |-> d[column[x]]]),
                Store("leaf_value", [x \in DOMAIN column |-> histogram[column[x]]])))

(* The partition of the rows of node tn among its children 2tn and 2tn+1:   *)
(* here its range, its split, and what it lists at each position.           *)
Node(m, tn) ==
  LET tt == tn \div plan(m).nodes
      range == mem[ranges(m)][tn]
  IN  [base |-> tt * job.n, s |-> range[1], e |-> range[2],
       split |-> mem.split[Slot(m, tt, m.level, tn % plan(m).nodes)],
       row |-> [r \in range[1] .. range[2] - 1 |-> mem[order(m)][tt * job.n + r]]]

Lefts(node, S) == {r \in S : node.row[r] \in node.split.left}

(* The positions of the blk-th of bcount blocks. *)
Per(m, node) == CeilDiv(node.e - node.s, plan(m).bcount)
block_span(m, node, blk) ==
  node.s + blk * Per(m, node) .. Smaller(node.s + (blk + 1) * Per(m, node), node.e) - 1

NodeTasks(m, u)  == span(job.k * plan(m).nodes, u)
BlockTasks(m, u) == span(job.k * plan(m).nodes * plan(m).bcount, u)

count_left(m, u) ==
  LET bcount == plan(m).bcount
  IN  Store("blk_cnt", [t \in BlockTasks(m, u) |->
        LET node == Node(m, t \div bcount)
        IN  IF node.split.is_leaf THEN 0
            ELSE Cardinality(Lefts(node, block_span(m, node, t % bcount)))])

(* The ranges of the children of some nodes, given how many rows of each   *)
(* go left.                                                                *)
ChildRanges(m, tns, lefts) ==
  Store(ranges_next(m), [c \in UNION {{2 * tn, 2 * tn + 1} : tn \in tns} |->
    LET node == Node(m, c \div 2)
        mid == node.s + lefts[c \div 2]
    IN  IF node.split.is_leaf THEN <<0, 0>>
        ELSE IF c % 2 = 0 THEN <<node.s, mid>> ELSE <<mid, node.e>>])

(* The rows that go left in the blocks below each block of a node. *)
CountsBelow(m, tn) ==
  LET run[b \in 0 .. plan(m).bcount] ==
        IF b = 0 THEN 0 ELSE run[b - 1] + mem.blk_cnt[tn * plan(m).bcount + b - 1]
  IN  run

child_ranges(m, u) ==
  LET bcount == plan(m).bcount
      lefts == [tn \in NodeTasks(m, u) |-> CountsBelow(m, tn)[bcount]]
      blocksOf == UNION {tn * bcount .. (tn + 1) * bcount - 1 : tn \in NodeTasks(m, u)}
  IN  Over(ChildRanges(m, NodeTasks(m, u), lefts),
           Store("blk_cnt", [t \in blocksOf |-> CountsBelow(m, t \div bcount)[t % bcount]]))

(* Moves the rows at positions S, those that go left from li on, the others *)
(* from ri on, each kind in its order.                                      *)
Moves(node, S, li, ri) ==
  LET below(T, r) == Cardinality({q \in T : q < r})
      lefts == Lefts(node, S)
      to(r) == IF r \in lefts THEN li + below(lefts, r) ELSE ri + below(S \ lefts, r)
  IN  IF node.split.is_leaf THEN {}
      ELSE {<<node.base + to(r), node.row[r]>> : r \in S}

Scattered(m, moves) ==
  Store(order_next(m), [p \in {v[1] : v \in moves} |-> (CHOOSE v \in moves : v[1] = p)[2]])

(* Mutant of BlockMoves: the rows to the right start at the block's place. *)
BlockMovesUnshifted(m, t) ==
  LET bcount == plan(m).bcount
      tn == t \div bcount
      node == Node(m, tn)
      mid == mem[ranges_next(m)][2 * tn][2]
  IN  Moves(node, block_span(m, node, t % bcount), node.s + mem.blk_cnt[t],
            mid + (t % bcount) * Per(m, node))

BlockMoves(m, t) ==
  LET bcount == plan(m).bcount
      tn == t \div bcount
      node == Node(m, tn)
      mid == mem[ranges_next(m)][2 * tn][2]
      pfx == mem.blk_cnt[t]
  IN  Moves(node, block_span(m, node, t % bcount), node.s + pfx,
            mid + ((t % bcount) * Per(m, node) - pfx))

scatter(m, u) == Scattered(m, UNION {BlockMoves(m, t) : t \in BlockTasks(m, u)})

(* One block per node: count, ranges and scatter in one phase. *)
fused(m, u) ==
  LET cnt == [tn \in NodeTasks(m, u) |-> Cardinality(Lefts(Node(m, tn), DOMAIN Node(m, tn).row))]
      moves(tn) == LET node == Node(m, tn)
                   IN  Moves(node, DOMAIN node.row, node.s, node.s + cnt[tn])
  IN  Over(ChildRanges(m, NodeTasks(m, u), cnt),
           Scattered(m, UNION {moves(tn) : tn \in NodeTasks(m, u)}))

(* The node a row has reached after each number of steps down a tree. *)
Descend(iter, tt, i) ==
  LET base == (iter * job.k + tt) * total_nodes
      cur[s \in 0 .. job.depth] ==
        IF s = 0 THEN 0
        ELSE LET above == cur[s - 1]
                 split == mem.split[base + above]
             IN  IF split.is_leaf THEN above
                 ELSE 2 * above + (IF i \in split.left THEN 1 ELSE 2)
  IN  cur

update_raw(m, u) ==
  LET value(tt, i) ==
        mem.leaf_value[(m.iter * job.k + tt) * total_nodes + Descend(m.iter, tt, i)[job.depth]][i]
  IN  Store("raw", [x \in Share(u) |-> mem.raw[x] + value(x % job.k, x \div job.k)])

----------------------------------------------------------------------------
(* The body every worker runs. *)

Ended == {"done", "failed"}

Writes(u, d) ==
  LET m == me[u]
  IN  CASE m.phase = "init"    -> init_raw(u)
        [] m.phase = "grad"    -> gradients(u)
        [] m.phase = "reset"   -> ResetPartition(m, u)
        [] m.phase = "gather"  -> gather(m, u)
        [] m.phase = "reduce"  -> reduce_split(m, u, d)
        [] m.phase = "count"   -> count_left(m, u)
        [] m.phase = "prefix"  -> child_ranges(m, u)
        [] m.phase = "scatter" -> scatter(m, u)
        [] m.phase = "fused"   -> fused(m, u)
        [] m.phase = "update"  -> update_raw(m, u)

(* The next chunk of the level, or else its partition, or else the last     *)
(* phase of the iteration; a retained histogram becomes the parent.         *)
AfterReduce(m) ==
  LET kept == [m EXCEPT !.swapped = IF plan(m).retain THEN ~@ ELSE @]
  IN  IF m.node_base + nc(m) < plan(m).nodes
      THEN [m EXCEPT !.phase = "gather", !.node_base = @ + nc(m)]
      ELSE [kept EXCEPT !.phase = IF m.level = job.depth THEN "update"
                                  ELSE IF plan(m).bcount = 1 THEN "fused" ELSE "count"]

(* The phases of partition_level, after which every worker swaps its handles *)
(* and goes on with the next level.                                         *)
Partitioning == {"count", "prefix", "scatter", "fused"}

AfterPartition(m) ==
  [m EXCEPT !.phase = "gather", !.level = @ + 1, !.node_base = 0, !.flipped = ~@]

After(m) ==
  CASE m.phase = "init"    -> [m EXCEPT !.phase = "grad"]
    [] m.phase = "grad"    -> [m EXCEPT !.phase = "reset"]
    [] m.phase = "reset"   -> [m EXCEPT !.phase = "gather", !.level = 0, !.node_base = 0]
    [] m.phase = "gather"  -> [m EXCEPT !.phase = "reduce"]
    [] m.phase = "reduce"  -> AfterReduce(m)
    [] m.phase = "count"   -> [m EXCEPT !.phase = "prefix"]
    [] m.phase = "prefix"  -> [m EXCEPT !.phase = "scatter"]
    [] m.phase \in {"scatter", "fused"} -> AfterPartition(m)
    [] m.phase = "update"  ->
         [m EXCEPT !.phase = IF m.iter + 1 < job.iters THEN "grad" ELSE "done",
                   !.iter = @ + 1]

(* The sizes of the arrays, from the level plans. *)
Levels == 0 .. job.depth
Chunks(p) == {Smaller(p.node_chunk, p.nodes - base) :
                base \in {b \in Upto(p.nodes) : b % p.node_chunk = 0}}
Gathered(p, count) == IF p.subtract THEN count \div 2 ELSE count

(* Mutant of MaxHist: sized by what is gathered, without the siblings. *)
HistOfGathered ==
  Max(UNION {LET p == job.plans[l] IN {job.k * Gathered(p, c) : c \in Chunks(p)} : l \in Levels})

MaxHist == Max({job.k * count : count \in UNION {Chunks(job.plans[l]) : l \in Levels}})
MaxPartials ==
  Max(UNION {LET p == job.plans[l]
             IN  {job.k * Gathered(p, count) * p.blocks[Gathered(p, count)] :
                    count \in Chunks(p)} : l \in Levels})
MaxParent == IF \E l \in Levels : job.plans[l].retain THEN MaxHist ELSE 0

Allocated ==
  LET trees == job.iters * job.k
      leaves == 2 ^ job.depth
  IN  [raw |-> [x \in Upto(job.n * job.k) |-> 0],
       gh |-> [x \in Upto(job.n * job.k) |-> 0],
       order_a |-> [x \in Upto(job.k * job.n) |-> 0],
       order_b |-> [x \in Upto(job.k * job.n) |-> 0],
       ranges_a |-> [x \in Upto(job.k * leaves) |-> <<0, 0>>],
       ranges_b |-> [x \in Upto(job.k * leaves) |-> <<0, 0>>],
       blk_cnt |-> [x \in Upto(job.k * leaves * 4 * W) |-> 0],
       partials |-> [x \in Upto(MaxPartials) |-> Zero],
       hist |-> [x \in Upto(MaxHist) |-> Zero],
       hist_parent |-> [x \in Upto(MaxParent) |-> Zero],
       hist_left |-> [x \in Upto(MaxParent) |-> Zero],
       split |-> [x \in Upto(trees * total_nodes) |-> [is_leaf |-> FALSE, left |-> {}]],
       leaf_value |-> [x \in Upto(trees * total_nodes) |-> Zero]]

Init ==
  /\ job \in {Planned(j) : j \in Jobs}
  /\ me = [u \in Workers |-> [phase |-> "init", iter |-> 0, level |-> 0, node_base |-> 0,
                              flipped |-> FALSE, swapped |-> FALSE]]
  /\ mem = Allocated
  /\ outcome = "none"
  /\ Bar!Init

Running(u) == at[u] = "out" /\ me[u].phase \notin Ended

(* Worker u does its share of its phase and calls bar.wait(). *)
Goes(u) ==
  /\ Running(u)
  /\ Bar!Arrive(u)
  /\ UNCHANGED <<job, me, outcome>>

Work(u) ==
  /\ Goes(u)
  /\ \E d \in IF me[u].phase = "reduce" THEN Decisions(me[u], u) ELSE {<<>>} :
       LET writes == Writes(u, d)
       IN  mem' = [a \in DOMAIN mem |->
                     IF a \in DOMAIN writes THEN Over(writes[a], mem[a]) ELSE mem[a]]

Open == Bar!Open /\ UNCHANGED <<job, me, mem, outcome>>

(* A poisoned barrier ends boost(), except that in partition_level it ends   *)
(* only the partition: the worker gathers the next level by whatever ranges *)
(* are there, and ends at that gather's wait.                               *)
Abandon(m) ==
  IF m.phase \in Partitioning THEN AfterPartition(m) ELSE [m EXCEPT !.phase = "done"]

(* bar.wait() returns. *)
Pass(u) ==
  /\ Bar!Leave(u)
  /\ me' = [me EXCEPT ![u] = IF poisoned THEN Abandon(@) ELSE After(@)]
  /\ UNCHANGED <<job, mem, outcome>>

(* Mutant of Fail: the barrier is not poisoned. *)
FailSilently(u) ==
  /\ Running(u)
  /\ me' = [me EXCEPT ![u].phase = "failed"]
  /\ UNCHANGED <<job, mem, outcome, at, poisoned>>

(* A panic in boost(), caught by run_worker.  What the share has written by *)
(* then is left out: nothing is read from a fit that failed but by workers  *)
(* whose results are dropped as well.                                       *)
Fail(u) ==
  /\ Running(u)
  /\ Bar!Poison
  /\ me' = [me EXCEPT ![u].phase = "failed"]
  /\ UNCHANGED <<job, mem, outcome>>

(* Mutant of Join: the caller looks at its own result alone. *)
JoinUnasked ==
  /\ outcome = "none"
  /\ \A u \in Workers : me[u].phase \in Ended /\ at[u] = "out"
  /\ outcome' = IF me[0].phase = "failed" THEN "panic" ELSE "model"
  /\ UNCHANGED <<job, me, mem, at, poisoned>>

(* The caller, worker 0, has run its body and joined the others. *)
Join ==
  /\ outcome = "none"
  /\ \A u \in Workers : me[u].phase \in Ended /\ at[u] = "out"
  /\ outcome' = IF \E u \in Workers : me[u].phase = "failed" THEN "panic" ELSE "model"
  /\ UNCHANGED <<job, me, mem, at, poisoned>>

Next ==
  \/ \E u \in Workers : Work(u) \/ Pass(u) \/ Fail(u)
  \/ Open
  \/ Join

(* Some worker that can go on does, whatever it writes, unless it panics. *)
Progress ==
  \/ \E u \in Workers : Goes(u) \/ Pass(u)
  \/ Open
  \/ Join

Fairness == WF_<<me, at, poisoned, outcome>>(Progress)

Spec == Init /\ [][Next]_vars /\ Fairness

----------------------------------------------------------------------------
(* Properties *)

Cells(array, indices) == {array} \X indices

(* The cells of the shared arrays a worker writes in its phase. *)
Written(u) ==
  LET m == me[u]
      writes == Writes(u, IF m.phase = "reduce" THEN [c \in Columns(m, u) |-> Leaf] ELSE <<>>)
  IN  UNION {Cells(a, DOMAIN writes[a]) : a \in DOMAIN writes}

(* Those it reads of a node: its split, its range, its rows at S. *)
ReadsOf(m, tn, S) ==
  LET tt == tn \div plan(m).nodes
  IN  Cells("split", {Slot(m, tt, m.level, tn % plan(m).nodes)}) \cup
      Cells(ranges(m), {tn}) \cup Cells(order(m), {tt * job.n + r : r \in S})

Reads(u) ==
  LET m == me[u]
      cols == ReduceTasks(m, u)
      bcount == plan(m).bcount
      reads(t) == LET node == Node(m, t \div bcount)
                  IN  ReadsOf(m, t \div bcount, block_span(m, node, t % bcount))
  IN  CASE m.phase \in {"init", "reset"} -> {}
        [] m.phase = "grad" -> Cells("raw", Share(u))
        [] m.phase = "gather" ->
             UNION {LET tt == GatherTree(m, t)
                        rows == {tt * job.n + r : r \in Stripe(m, t)}
                    IN  Cells(ranges(m), {GatherNode(m, t)}) \cup Cells(order(m), rows) \cup
                        Cells("gh", {mem[order(m)][r] * job.k + tt : r \in rows}) :
                      t \in GatherTasks(m, u)}
        [] m.phase = "reduce" ->
             (IF blocks(m) = 1 THEN Cells(gathered(m), cols)
              ELSE Cells("partials", {col * blocks(m) + b : col \in cols, b \in Upto(blocks(m))}))
             \cup (IF plan(m).subtract
                   THEN Cells(hist_par(m), cols) \cup
                        Cells("split", {Parent(m, col) : col \in cols})
                   ELSE {})
        [] m.phase = "count" -> UNION {reads(t) : t \in BlockTasks(m, u)}
        [] m.phase = "prefix" ->
             UNION {ReadsOf(m, tn, {}) \cup Cells("blk_cnt", tn * bcount .. (tn + 1) * bcount - 1) :
                      tn \in NodeTasks(m, u)}
        [] m.phase = "scatter" ->
             UNION {reads(t) \cup Cells(ranges_next(m), {2 * (t \div bcount)}) \cup
                    Cells("blk_cnt", {t}) : t \in BlockTasks(m, u)}
        [] m.phase = "fused" ->
             UNION {ReadsOf(m, tn, DOMAIN Node(m, tn).row) : tn \in NodeTasks(m, u)}
        [] m.phase = "update" ->
             Cells("raw", Share(u)) \cup
             Cells("split", DOMAIN mem.split) \cup Cells("leaf_value", DOMAIN mem.leaf_value)

(* The contract of Shared (host_pool.rs): what a worker writes between two  *)
(* barriers no other worker reads or writes between the same two.           *)
SharedContract ==
  LET running == {u \in Workers : Running(u)}
      written == [u \in running |-> Written(u)]
      touched == [u \in running |-> Reads(u) \cup written[u]]
  IN  \A u, v \in running : u # v => written[u] \cap touched[v] = {}

(* It is kept by every fit in which no worker panics. *)
PhasesAreApart == ~poisoned => SharedContract

(* The rows that reach a node of a level of a tree. *)
Reaching(iter, tt, level, node) ==
  {i \in Rows : Descend(iter, tt, i)[level] = 2 ^ level - 1 + node}

(* The blocked parallel partition is the serial stable one: when a level    *)
(* begins, each node's range lists in ascending order the rows that the     *)
(* splits above send to it, no matter how many blocks scattered them.       *)
RowsAreSerial ==
  \A u \in Workers :
    Running(u) /\ ~poisoned /\ me[u].phase = "gather" /\ me[u].node_base = 0 =>
      \A tt \in Upto(job.k), node \in Upto(plan(me[u]).nodes) :
        LET m == me[u]
            range == mem[ranges(m)][tt * plan(m).nodes + node]
            reached == Reaching(m.iter, tt, m.level, node)
        IN  /\ range[2] - range[1] = Cardinality(reached)
            /\ \A i \in reached :
                 mem[order(m)][tt * job.n + range[1] + Cardinality({j \in reached : j < i})] = i

(* A returned model is the serial one: every node was valued by the rows    *)
(* that reach it, each with the gradient of its own iteration, whether its  *)
(* histogram was gathered or subtracted; every row has been moved by the    *)
(* leaf it was trained in, once per iteration (a row's part doubles).       *)
ModelIsSerial ==
  outcome = "model" =>
    /\ \A x \in DOMAIN mem.raw : mem.raw[x] = 2 ^ job.iters
    /\ \A iter \in Upto(job.iters), tt \in Upto(job.k), level \in Levels :
         \A node \in Upto(2 ^ level) :
           LET reached == Reaching(iter, tt, level, node)
           IN  mem.leaf_value[Slot([iter |-> iter], tt, level, node)] =
                 [i \in Rows |-> IF i \in reached THEN 2 ^ iter ELSE 0]

(* No worker writes past the end of an array sized by the level plans. *)
WithinAllocation ==
  \A u \in Workers :
    Running(u) /\ ~poisoned => \A c \in Written(u) : c[2] \in DOMAIN mem[c[1]]

(* A fit in which a worker panicked returns no model, although the others   *)
(* return normally and may have gone on after the poison.                   *)
PoisonedFitFails ==
  outcome = "model" => ~poisoned /\ \A u \in Workers : me[u].iter = job.iters

(* Every fit ends, in a model or in a panic of the caller. *)
FitEnds == <>(outcome # "none")
=============================================================================
