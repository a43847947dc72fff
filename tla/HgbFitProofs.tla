---------------------------- MODULE HgbFitProofs ----------------------------
(***************************************************************************)
(* What the host fit of histogram gradient boosting promises, whatever the *)
(* number of workers, rows, features, classes, iterations and leaves.      *)
(*                                                                         *)
(* The arguments, in the order they are laid out below:                    *)
(*                                                                         *)
(*  - numbers: powers of two, products and quotients, the facts about the  *)
(*    chunk arithmetic that no back end finds by itself;                   *)
(*  - lock step (CInv): how far the workers' programs may be from one      *)
(*    another, and who the barrier holds meanwhile. A panic is kept,       *)
(*    which is PoisonedFitFails;                                           *)
(*  - the data (DInv): the ranges of the nodes, the counts of their blocks *)
(*    and the sums of these, as far as the workers have arrived. The       *)
(*    stable partition, whose landing places are distinct and in range,    *)
(*    is the hard case;                                                    *)
(*  - apartness: the cells the workers of one phase read and write, one    *)
(*    lemma for each phase, which is PhasesAreApart;                       *)
(*  - allocation (AInv): nothing shrinks below what was allocated before   *)
(*    the workers started, and every cell a phase writes lies inside,      *)
(*    which is WithinAllocation;                                           *)
(*  - the rows (RInv): each node of a level lists, in ascending order, the *)
(*    rows that the splits above send to it; while it is partitioned, the  *)
(*    rows of whoever has arrived are where a serial stable partition puts *)
(*    them, which is RowsAreSerial.                                        *)
(*                                                                         *)
(* HgbModelProofs goes on from here to the model that is returned.         *)
(***************************************************************************)
EXTENDS HgbFit, FiniteSetTheorems, WellFoundedInduction, TLAPS

----------------------------------------------------------------------------
(* Numbers *)

(* A non-empty set of naturals has a least member. *)
LEMMA LeastNumber ==
  ASSUME NEW T, T \subseteq Nat, T # {}
  PROVE  \E x \in T : \A y \in T : x <= y
<1>1. \E x \in T : \A y \in T : ~ (<<y, x>> \in OpToRel(<, Nat))
  BY NatLessThanWellFounded, WFMin
<1>2. PICK x \in T : \A y \in T : ~ (<<y, x>> \in OpToRel(<, Nat))
  BY <1>1
<1>3. \A y \in T : ~ (y < x)
  BY <1>2 DEF OpToRel
<1>4. ASSUME NEW u \in Nat, NEW v \in Nat, ~ (v < u) PROVE u <= v
  BY <1>4
<1>5. \A y \in T : x <= y
  BY <1>3, <1>4
<1> QED
  BY <1>5

(* Induction, over the set of numbers a claim holds of. *)
LEMMA NatSetInd ==
  ASSUME NEW S, 0 \in S, \A n \in Nat : n \in S => n + 1 \in S
  PROVE  Nat \subseteq S
<1> SUFFICES ASSUME Nat \ S # {} PROVE FALSE
  OBVIOUS
<1>1. PICK m \in Nat \ S : \A y \in Nat \ S : m <= y
  <2>1. Nat \ S \subseteq Nat
    OBVIOUS
  <2> QED
    BY <2>1, LeastNumber
<1>2. m # 0 /\ m \in Nat
  BY <1>1
<1>3. m - 1 \in Nat /\ m - 1 < m /\ (m - 1) + 1 = m
  BY <1>2
<1>4. m - 1 \in S
  BY <1>1, <1>3
<1> QED
  BY <1>1, <1>3, <1>4

(* The powers of two, as the numbers of subsets of finite sets. *)
LEMMA PowerDoubles ==
  ASSUME NEW n \in Nat
  PROVE  2 ^ n \in Nat \ {0} /\ 2 ^ (n + 1) = 2 * 2 ^ n
<1> DEFINE A == 1 .. n
           B == 1 .. (n + 1)
           With == {X \cup {n + 1} : X \in SUBSET A}
<1>1. /\ IsFiniteSet(A) /\ Cardinality(A) = n
      /\ IsFiniteSet(B) /\ Cardinality(B) = n + 1
  BY FS_Interval
<1>2. /\ IsFiniteSet(SUBSET A) /\ Cardinality(SUBSET A) = 2 ^ n
      /\ IsFiniteSet(SUBSET B) /\ Cardinality(SUBSET B) = 2 ^ (n + 1)
  BY <1>1, FS_SUBSET
<1>3. n + 1 \notin A
  OBVIOUS
<1>4. SUBSET B = (SUBSET A) \cup With
  <2>1. B = A \cup {n + 1}
    OBVIOUS
  <2>2. ASSUME NEW Y \in SUBSET B PROVE Y \in (SUBSET A) \cup With
    <3>1. CASE n + 1 \in Y
      <4>1. Y \ {n + 1} \in SUBSET A /\ Y = (Y \ {n + 1}) \cup {n + 1}
        BY <2>1, <3>1
      <4> QED
        BY <4>1
    <3>2. CASE n + 1 \notin Y
      BY <2>1, <3>2
    <3> QED
      BY <3>1, <3>2
  <2>3. (SUBSET A) \cup With \subseteq SUBSET B
    BY <2>1
  <2> QED
    BY <2>2, <2>3
<1>5. (SUBSET A) \cap With = {}
  BY <1>3
<1>6. IsFiniteSet(With) /\ Cardinality(With) = Cardinality(SUBSET A)
  <2> DEFINE f == [X \in SUBSET A |-> X \cup {n + 1}]
  <2>1. f \in Bijection(SUBSET A, With)
    <3>1. \A X, Y \in SUBSET A : f[X] = f[Y] => X = Y
      <4>1. \A X \in SUBSET A : X = f[X] \ {n + 1}
        BY <1>3
      <4> QED
        BY <4>1
    <3>2. f \in [SUBSET A -> With] /\ \A Y \in With : \E X \in SUBSET A : f[X] = Y
      OBVIOUS
    <3> QED
      BY <3>1, <3>2 DEF Bijection, Injection, Surjection, IsInjective
  <2>2. ExistsBijection(SUBSET A, With)
    BY <2>1 DEF ExistsBijection
  <2> QED
    BY <2>2, <1>2, FS_Bijection
<1>7. Cardinality(SUBSET B) = Cardinality(SUBSET A) + Cardinality(With)
  <2> HIDE DEF A, B, With
  <2> QED
    BY <1>2, <1>4, <1>5, <1>6, FS_Union, FS_EmptySet
<1>8. Cardinality(SUBSET A) \in Nat /\ Cardinality(SUBSET A) # 0
  BY <1>2, FS_CardinalityType, FS_EmptySet
<1> QED
  BY <1>2, <1>6, <1>7, <1>8

LEMMA PowerOfZero == 2 ^ 0 = 1
<1>1. IsFiniteSet({}) /\ Cardinality({}) = 0
  BY FS_EmptySet
<1>2. Cardinality(SUBSET {}) = 2 ^ 0
  BY <1>1, FS_SUBSET
<1>3. SUBSET {} = {{}} /\ Cardinality({{}}) = 1
  BY FS_Singleton
<1> QED
  BY <1>2, <1>3

----------------------------------------------------------------------------
(* The fits and their plans *)

Phases == {"init", "grad", "reset", "gather", "reduce",
           "count", "prefix", "scatter", "fused", "update"}

(* What a fit is, its plans being those of its levels. *)
IsFit(j) ==
  /\ j.n \in Nat \ {0} /\ j.k \in Nat \ {0} /\ j.iters \in Nat \ {0}
  /\ j.depth \in Nat /\ j.cap \in Nat
  /\ \A l \in 0 .. j.depth : j.plans[l] = LevelPlan(j, l)

LEMMA PlannedIsFit ==
  ASSUME NEW j \in Jobs
  PROVE  IsFit(Planned(j))
<1> DEFINE p == Planned(j)
<1>1. /\ p.n = j.n /\ p.k = j.k /\ p.iters = j.iters /\ p.depth = j.depth /\ p.cap = j.cap
      /\ p.plans = [l \in 0 .. j.depth |-> LevelPlan(j, l)]
  BY DEF Planned
<1>2. {j.n, j.k, j.iters} \subseteq Nat \ {0} /\ {j.depth, j.cap} \subseteq Nat
  BY JobsAssumption
<1>3. \A l : LevelPlan(p, l) = LevelPlan(j, l)
  <2> HIDE DEF p
  <2> QED
    BY <1>1 DEF LevelPlan, subtract, retain, partition_blocks_host
<1>4. IsFit(p)
  <2> HIDE DEF p
  <2> QED
    BY <1>1, <1>2, <1>3 DEF IsFit
<1> QED
  BY <1>4

LEMMA CeilDivPositive ==
  ASSUME NEW a \in Nat \ {0}, NEW b \in Nat \ {0}
  PROVE  CeilDiv(a, b) \in Nat \ {0}
<1> DEFINE q == (a + b - 1) \div b
<1>1. q \in Int /\ b * q <= a + b - 1 /\ a + b - 1 < b * q + b
  BY SMT
<1>2. ASSUME q <= 0 PROVE FALSE
  <2>1. b * q <= 0
    BY <1>1, <1>2, SMT
  <2> QED
    BY <1>1, <2>1, SMT
<1> QED
  BY <1>1, <1>2 DEF CeilDiv

(* What the plans of a level hold. *)
LEMMA PlanFacts ==
  ASSUME NEW j, IsFit(j), NEW l \in 0 .. j.depth
  PROVE  /\ j.plans[l].nodes = 2 ^ l /\ 2 ^ l \in Nat \ {0}
         /\ j.plans[l].node_chunk \in Nat \ {0}
         /\ j.plans[l].bcount \in Nat \ {0}
         /\ j.plans[l].subtract \in BOOLEAN /\ j.plans[l].retain \in BOOLEAN
         /\ j.plans[l].subtract => l > 0 /\ j.plans[l].node_chunk = 2 ^ l
<1> DEFINE p == j.plans[l]
<1>1. /\ j.n \in Nat \ {0} /\ j.k \in Nat \ {0} /\ j.cap \in Nat /\ j.depth \in Nat
      /\ p = LevelPlan(j, l) /\ l \in Nat
  BY DEF IsFit
<1>2. 2 ^ l \in Nat \ {0}
  BY <1>1, PowerDoubles
<1>3. /\ p.nodes = 2 ^ l
      /\ p.node_chunk = IF 2 ^ l <= j.cap THEN 2 ^ l ELSE Larger(j.cap, 1)
      /\ p.bcount = partition_blocks_host(j, l)
      /\ p.subtract = subtract(j, l) /\ p.retain = retain(j, l)
  <2> HIDE DEF p
  <2> QED
    BY <1>1 DEF LevelPlan
<1>4. p.node_chunk \in Nat \ {0}
  <2>1. Larger(j.cap, 1) \in Nat \ {0}
    BY <1>1 DEF Larger
  <2> QED
    BY <1>2, <1>3, <2>1
<1>5. p.bcount \in Nat \ {0}
  <2> DEFINE x == CeilDiv(4 * W, j.k * 2 ^ l)
             y == Larger(j.n \div (2 ^ l * MIN_ROWS_PER_BLOCK), 1)
  <2>1. j.k * 2 ^ l \in Nat \ {0} /\ 2 ^ l * MIN_ROWS_PER_BLOCK \in Nat \ {0}
        /\ 4 * W \in Nat \ {0}
    <3>1. \A a, b \in Nat \ {0} : a * b \in Nat \ {0}
      BY SMT
    <3> QED
      BY <1>1, <1>2, <3>1, HostAssumption, WAssumption
  <2>2. x \in Nat \ {0}
    BY <2>1, CeilDivPositive
  <2>3. y \in Nat \ {0}
    <3>1. PICK z : z = j.n \div (2 ^ l * MIN_ROWS_PER_BLOCK)
      OBVIOUS
    <3>2. z \in Int
      BY <3>1, <2>1, <1>1
    <3>3. Larger(z, 1) \in Nat \ {0}
      BY <3>2 DEF Larger
    <3> QED
      BY <3>1, <3>3
  <2>4. p.bcount = Smaller(x, y)
    BY <1>3 DEF partition_blocks_host
  <2> HIDE DEF x, y, p
  <2> QED
    BY <2>2, <2>3, <2>4 DEF Smaller
<1>6. p.subtract \in BOOLEAN /\ p.retain \in BOOLEAN
  <2> HIDE DEF p
  <2> QED
    BY <1>3 DEF subtract, retain
<1>7. p.subtract => l > 0 /\ p.node_chunk = 2 ^ l
  <2> HIDE DEF p
  <2> QED
    BY <1>3 DEF subtract
<1> QED
  BY <1>2, <1>3, <1>4, <1>5, <1>6, <1>7

----------------------------------------------------------------------------
(* Lock step.  A barrier that opens frees every worker for the same phase;  *)
(* a worker it has freed is taken to be in that phase before its call       *)
(* returns.  So nobody has passed a barrier that another has yet to reach,  *)
(* as long as none has panicked.                                            *)

LevelPhases == {"gather", "reduce", "count", "prefix", "scatter", "fused"}

(* The locals of a worker. *)
IsLocals(m) ==
  /\ m \in [phase : Phases \cup Ended, iter : Nat, level : 0 .. job.depth, node_base : Nat,
            flipped : BOOLEAN, swapped : BOOLEAN]
  /\ m.phase \in Phases => m.iter < job.iters
  /\ m.phase \in {"gather", "reduce"} =>
       /\ m.node_base < 2 ^ m.level
       /\ plan(m).node_chunk = 2 ^ m.level => m.node_base = 0
  /\ m.phase \in {"count", "prefix", "scatter", "fused"} => m.level < job.depth
  /\ m.phase = "fused" => plan(m).bcount = 1

Pending(u) == IF at[u] = "freed" /\ ~poisoned THEN After(me[u]) ELSE me[u]

Typed ==
  /\ IsFit(job)
  /\ at \in [Workers -> {"out", "in", "freed"}]
  /\ poisoned \in BOOLEAN
  /\ outcome \in {"none", "model", "panic"}
  /\ DOMAIN me = Workers /\ me = [u \in Workers |-> me[u]]
  /\ \A u \in Workers : IsLocals(me[u])

AtTheCall == \A u \in Workers : at[u] # "out" => me[u].phase \in Phases

LockStep == ~poisoned => \A u, v \in Workers : Pending(u) = Pending(v)

DoneInTime ==
  ~poisoned => \A u \in Workers : me[u].phase \in Ended => me[u].phase = "done" /\ me[u].iter = job.iters

PoisonedByFailure == poisoned => \E u \in Workers : me[u].phase = "failed"

Joined ==
  /\ outcome # "none" => \A u \in Workers : at[u] = "out" /\ me[u].phase \in Ended
  /\ outcome = "model" => \A u \in Workers : me[u].phase # "failed"

CInv == Typed /\ AtTheCall /\ LockStep /\ DoneInTime /\ PoisonedByFailure /\ Joined

(* Who goes on behind a partition is at the first gather of the next level. *)
LEMMA AfterPartitionIsLocals ==
  ASSUME IsFit(job), NEW m, IsLocals(m), m.phase \in Partitioning
  PROVE  IsLocals(AfterPartition(m)) /\ AfterPartition(m).phase = "gather"
<1> DEFINE LocalsSet == [phase : Phases \cup Ended, iter : Nat, level : 0 .. job.depth,
                         node_base : Nat, flipped : BOOLEAN, swapped : BOOLEAN]
           x == AfterPartition(m)
<1>1. /\ m \in LocalsSet /\ job.depth \in Nat /\ m.level < job.depth
      /\ m.iter < job.iters
  BY DEF IsLocals, IsFit, Partitioning, Phases
<1>2. x = [m EXCEPT !.phase = "gather", !.level = m.level + 1, !.node_base = 0,
                    !.flipped = ~m.flipped]
  BY DEF AfterPartition
<1>3. m.level + 1 \in 0 .. job.depth /\ 2 ^ (m.level + 1) \in Nat \ {0}
  BY <1>1, PowerDoubles
<1>4. 0 < 2 ^ (m.level + 1)
  BY <1>3
<1>5. PICK l : l = m.level + 1
  OBVIOUS
<1> HIDE DEF x
<1>6. /\ x.phase = "gather" /\ x.iter = m.iter /\ x.level = l /\ x.node_base = 0
      /\ x \in LocalsSet
  BY <1>1, <1>2, <1>3, <1>5 DEF Phases
<1>7. IsLocals(x)
  BY <1>1, <1>4, <1>5, <1>6 DEF IsLocals
<1> QED
  BY <1>6, <1>7 DEF x

LEMMA AbandonIsLocals ==
  ASSUME IsFit(job), NEW m, IsLocals(m), m.phase \in Phases
  PROVE  IsLocals(Abandon(m)) /\ Abandon(m).phase # "failed"
<1>1. CASE m.phase \in Partitioning
  BY <1>1, AfterPartitionIsLocals DEF Abandon
<1>2. CASE m.phase \notin Partitioning
  <2>1. ASSUME NEW y, y = [m EXCEPT !.phase = "done"] PROVE IsLocals(y) /\ y.phase # "failed"
    BY <2>1 DEF IsLocals, Phases, Ended
  <2> QED
    BY <1>2, <2>1 DEF Abandon
<1> QED
  BY <1>1, <1>2

(* The next phase of a worker is one of the body's. *)
LEMMA AfterIsLocals ==
  ASSUME IsFit(job), NEW m, IsLocals(m), m.phase \in Phases
  PROVE  /\ IsLocals(After(m)) /\ After(m).phase # "failed"
         /\ After(m).phase = "done" => After(m).iter = job.iters
<1> DEFINE x == After(m)
           LocalsSet == [phase : Phases \cup Ended, iter : Nat, level : 0 .. job.depth,
                         node_base : Nat, flipped : BOOLEAN, swapped : BOOLEAN]
<1>0. /\ m \in [phase : Phases \cup Ended, iter : Nat, level : 0 .. job.depth, node_base : Nat,
                flipped : BOOLEAN, swapped : BOOLEAN]
      /\ m.iter < job.iters /\ job.iters \in Nat /\ job.depth \in Nat
  BY DEF IsLocals, IsFit
<1>1. CASE m.phase = "init"
  BY <1>0, <1>1 DEF After, AfterPartition, IsLocals, Phases, Ended
<1>2. CASE m.phase = "grad"
  BY <1>0, <1>2 DEF After, AfterPartition, IsLocals, Phases, Ended
<1>3. CASE m.phase = "reset"
  <2>1. x = [m EXCEPT !.phase = "gather", !.level = 0, !.node_base = 0]
    BY <1>3 DEF After, AfterPartition
  <2>2. 0 \in 0 .. job.depth /\ 0 < 2 ^ 0
    BY <1>0, PowerOfZero
  <2> HIDE DEF x
  <2>3. /\ x.phase = "gather" /\ x.iter = m.iter /\ x.level = 0 /\ x.node_base = 0
        /\ x \in LocalsSet
    BY <1>0, <2>1, <2>2 DEF Phases
  <2>4. IsLocals(x)
    BY <1>0, <2>2, <2>3 DEF IsLocals
  <2> QED
    BY <2>3, <2>4 DEF x
<1>4. CASE m.phase = "gather"
  BY <1>0, <1>4 DEF After, AfterPartition, IsLocals, Phases, Ended, plan
<1>5. CASE m.phase = "reduce"
  <2>0. m.node_base < 2 ^ m.level /\ 2 ^ m.level \in Nat /\ plan(m).nodes = 2 ^ m.level
        /\ plan(m).node_chunk \in Nat /\ plan(m).retain \in BOOLEAN
    BY <1>0, <1>5, PlanFacts DEF IsLocals, plan
  <2>1. nc(m) \in Int /\ m.node_base + nc(m) \in Nat
    BY <1>0, <2>0 DEF nc, Smaller
  <2>2. CASE m.node_base + nc(m) < plan(m).nodes
    <3>1. x = [m EXCEPT !.phase = "gather", !.node_base = m.node_base + nc(m)]
      BY <1>5, <2>2 DEF After, AfterPartition, AfterReduce
    <3> HIDE DEF x
    <3>2. PICK b : b = m.node_base + nc(m)
      OBVIOUS
    <3>3. /\ x.phase = "gather" /\ x.iter = m.iter /\ x.level = m.level /\ x.node_base = b
          /\ x \in LocalsSet
      BY <1>0, <2>1, <3>1, <3>2 DEF Phases
    <3>4. b < 2 ^ m.level
      BY <2>0, <2>2, <3>2
    <3>5. plan(x) = plan(m) /\ plan(m).node_chunk # 2 ^ m.level
      <4>1. ASSUME plan(m).node_chunk = 2 ^ m.level PROVE FALSE
        <5>1. m.node_base = 0
          BY <1>5, <4>1 DEF IsLocals
        <5>2. nc(m) = 2 ^ m.level
          BY <2>0, <4>1, <5>1 DEF nc, Smaller
        <5> QED
          BY <2>0, <2>2, <5>1, <5>2
      <4> QED
        BY <3>3, <4>1 DEF plan
    <3>6. IsLocals(x)
      BY <1>0, <3>3, <3>4, <3>5 DEF IsLocals
    <3> QED
      BY <3>3, <3>6 DEF x
  <2>3. CASE ~ (m.node_base + nc(m) < plan(m).nodes)
    <3> DEFINE s == IF plan(m).retain THEN ~m.swapped ELSE m.swapped
               ph == IF m.level = job.depth THEN "update"
                     ELSE IF plan(m).bcount = 1 THEN "fused" ELSE "count"
    <3>1. x = [m EXCEPT !.swapped = s, !.phase = ph]
      BY <1>5, <2>3 DEF After, AfterPartition, AfterReduce
    <3>2. s \in BOOLEAN
      BY <1>0
    <3>3. /\ ph \in {"update", "fused", "count"}
          /\ ph # "update" => m.level < job.depth
          /\ ph = "fused" => plan(m).bcount = 1
      BY <1>0
    <3>4. plan(x) = plan(m)
      <4> HIDE DEF s, ph
      <4>1. x.level = m.level
        BY <1>0, <3>1
      <4> QED
        BY <4>1 DEF plan
    <3> HIDE DEF s, ph, x
    <3>5. /\ x.phase = ph /\ x.iter = m.iter /\ x.level = m.level
          /\ x \in LocalsSet
      BY <1>0, <3>1, <3>2, <3>3 DEF Phases
    <3>6. ph = "fused" => plan(x).bcount = 1
      BY <3>3, <3>4
    <3>7. IsLocals(x)
      BY <1>0, <3>3, <3>5, <3>6 DEF IsLocals
    <3> QED
      BY <3>3, <3>5, <3>7 DEF x
  <2> QED
    BY <2>2, <2>3
<1>6. CASE m.phase = "count"
  BY <1>0, <1>6 DEF After, AfterPartition, IsLocals, Phases, Ended
<1>7. CASE m.phase = "prefix"
  BY <1>0, <1>7 DEF After, AfterPartition, IsLocals, Phases, Ended
<1>8. CASE m.phase \in {"scatter", "fused"}
  <2>1. x = [m EXCEPT !.phase = "gather", !.level = m.level + 1, !.node_base = 0,
                      !.flipped = ~m.flipped]
    BY <1>8 DEF After, AfterPartition
  <2>2. m.level + 1 \in 0 .. job.depth /\ 2 ^ (m.level + 1) \in Nat \ {0}
    BY <1>0, <1>8, PowerDoubles DEF IsLocals
  <2>3. 0 < 2 ^ (m.level + 1)
    BY <2>2
  <2>4. PICK l : l = m.level + 1
    OBVIOUS
  <2> HIDE DEF x
  <2>5. /\ x.phase = "gather" /\ x.iter = m.iter /\ x.level = l /\ x.node_base = 0
        /\ x \in LocalsSet
    BY <1>0, <2>1, <2>2, <2>4 DEF Phases
  <2>6. IsLocals(x)
    BY <1>0, <2>3, <2>4, <2>5 DEF IsLocals
  <2> QED
    BY <2>5, <2>6 DEF x
<1>9. CASE m.phase = "update"
  <2>0. PICK ph, i : ph = (IF m.iter + 1 < job.iters THEN "grad" ELSE "done") /\ i = m.iter + 1
    OBVIOUS
  <2>1. x = [m EXCEPT !.phase = ph, !.iter = i] /\ i \in Nat
    BY <1>0, <1>9, <2>0 DEF After, AfterPartition
  <2> HIDE DEF x
  <2>2. ph \in Phases \cup Ended
    BY <2>0 DEF Phases, Ended
  <2>5. x.phase = ph /\ x.iter = i /\ x \in LocalsSet
    BY <1>0, <2>1, <2>2
  <2>3. x.phase = "done" => x.iter = job.iters
    BY <1>0, <2>0, <2>5
  <2>4. IsLocals(x)
    BY <1>0, <2>0, <2>5 DEF IsLocals, Phases
  <2> QED
    BY <2>0, <2>3, <2>4, <2>5 DEF x
<1> QED
  BY <1>1, <1>2, <1>3, <1>4, <1>5, <1>6, <1>7, <1>8, <1>9 DEF Phases

LEMMA InitControl == Init => CInv
<1> SUFFICES ASSUME Init PROVE CInv
  OBVIOUS
<1> DEFINE m0 == [phase |-> "init", iter |-> 0, level |-> 0, node_base |-> 0,
                  flipped |-> FALSE, swapped |-> FALSE]
<1>1. IsFit(job)
  BY PlannedIsFit DEF Init
<1>2. /\ me = [u \in Workers |-> m0] /\ outcome = "none"
      /\ at = [u \in Workers |-> "out"] /\ poisoned = FALSE
  BY DEF Init, Bar!Init
<1>3. IsLocals(m0)
  BY <1>1 DEF IsLocals, IsFit, Phases
<1> HIDE DEF m0
<1>4. \A u \in Workers : me[u] = m0 /\ at[u] = "out"
  BY <1>2
<1>5. m0.phase \in Phases /\ m0.phase \notin Ended
  BY DEF m0, Phases, Ended
<1>6. Typed
  BY <1>1, <1>2, <1>3, <1>4 DEF Typed
<1>7. LockStep
  BY <1>4 DEF LockStep, Pending
<1>8. AtTheCall /\ DoneInTime /\ PoisonedByFailure /\ Joined
  BY <1>2, <1>4, <1>5 DEF AtTheCall, DoneInTime, PoisonedByFailure, Joined
<1> QED
  BY <1>6, <1>7, <1>8 DEF CInv

(* What decides the phase a worker is in. *)
LEMMA PendingStays ==
  ASSUME NEW v, UNCHANGED <<job, poisoned>>, me'[v] = me[v],
         ~poisoned => (at'[v] = "freed" <=> at[v] = "freed")
  PROVE  Pending(v)' = Pending(v)
<1>1. CASE at[v] = "freed" /\ ~poisoned
  <2>1. Pending(v) = After(me[v]) /\ Pending(v)' = After(me[v])'
    BY <1>1 DEF Pending
  <2>2. After(me[v])' = After(me[v])
    BY Zenon DEF After, AfterPartition, AfterReduce, nc, plan
  <2> QED
    BY <2>1, <2>2
<1>2. CASE ~ (at[v] = "freed" /\ ~poisoned)
  BY <1>2 DEF Pending
<1> QED
  BY <1>1, <1>2

LEMMA PhasesGoOn == Phases \cap Ended = {}
BY DEF Phases, Ended

(* A worker arrives. *)
LEMMA GoesControl ==
  ASSUME CInv, NEW u \in Workers, Goes(u)
  PROVE  CInv'
<1>1. /\ at[u] = "out" /\ me[u].phase \in Phases
      /\ at' = [at EXCEPT ![u] = IF poisoned THEN "freed" ELSE "in"]
      /\ UNCHANGED <<job, me, outcome, poisoned>>
  <2>1. IsLocals(me[u])
    BY DEF CInv, Typed
  <2>2. me[u].phase \in Phases \cup Ended
    BY <2>1 DEF IsLocals
  <2> QED
    BY <2>2 DEF Goes, Running, Bar!Arrive
<1>2. at \in [Workers -> {"out", "in", "freed"}] /\ poisoned \in BOOLEAN
  BY DEF CInv, Typed
<1>3. at' \in [Workers -> {"out", "in", "freed"}]
  BY <1>1, <1>2
<1>4. \A v \in Workers : v # u => at'[v] = at[v]
  BY <1>1, <1>2
<1>5. at'[u] = (IF poisoned THEN "freed" ELSE "in")
  BY <1>1, <1>2
<1>6. Typed'
  BY <1>1, <1>3 DEF CInv, Typed, IsLocals, plan
<1>7. AtTheCall'
  BY <1>1, <1>4 DEF CInv, AtTheCall
<1>8. LockStep'
  <2> SUFFICES ASSUME ~poisoned PROVE LockStep'
    BY <1>1 DEF LockStep
  <2>1. \A v \in Workers : Pending(v)' = Pending(v)
    BY <1>1, <1>4, <1>5, PendingStays
  <2> QED
    BY <2>1 DEF CInv, LockStep
<1>9. DoneInTime' /\ PoisonedByFailure'
  BY <1>1 DEF CInv, DoneInTime, PoisonedByFailure
<1>10. Joined'
  BY <1>1, PhasesGoOn DEF CInv, Joined
<1> QED
  BY <1>6, <1>7, <1>8, <1>9, <1>10 DEF CInv

LEMMA OpenControl == CInv /\ Open => CInv'
<1> SUFFICES ASSUME CInv, Open PROVE CInv'
  OBVIOUS
<1>1. /\ ~poisoned /\ \A u \in Workers : at[u] = "in"
      /\ at' = [u \in Workers |-> "freed"]
      /\ UNCHANGED <<job, me, outcome, poisoned>>
  BY DEF Open, Bar!Open
<1>2. \A u \in Workers : me[u].phase \in Phases
  BY <1>1 DEF CInv, AtTheCall
<1>3. Typed'
  BY <1>1 DEF CInv, Typed, IsLocals, plan
<1>4. AtTheCall'
  BY <1>1, <1>2 DEF AtTheCall
<1>5. LockStep'
  <2>1. \A u, v \in Workers : me[u] = me[v]
    BY <1>1 DEF CInv, LockStep, Pending
  <2>2. \A u \in Workers : Pending(u)' = After(me[u])
    <3>1. \A u \in Workers : Pending(u)' = After(me[u])'
      BY <1>1 DEF Pending
    <3>2. job' = job /\ me' = me
      BY <1>1
    <3>3. \A u \in Workers : After(me[u])' = After(me[u])
      BY <3>2, ZenonT(30) DEF After, AfterPartition, AfterReduce, nc, plan
    <3> QED
      BY <3>1, <3>3
  <2> QED
    BY <2>1, <2>2 DEF LockStep
<1>6. DoneInTime' /\ PoisonedByFailure'
  BY <1>1 DEF CInv, DoneInTime, PoisonedByFailure
<1>7. Joined'
  <2>1. 0 \in Workers
    BY WAssumption DEF Workers
  <2>2. outcome = "none"
    BY <1>1, <2>1 DEF CInv, Joined
  <2> QED
    BY <1>1, <2>2 DEF Joined
<1> QED
  BY <1>3, <1>4, <1>5, <1>6, <1>7 DEF CInv

LEMMA PassControl ==
  ASSUME CInv, NEW u \in Workers, Pass(u)
  PROVE  CInv'
<1> DEFINE m == me[u]
           x == IF poisoned THEN Abandon(m) ELSE After(m)
<1>1. /\ at[u] = "freed" /\ at' = [at EXCEPT ![u] = "out"]
      /\ me' = [me EXCEPT ![u] = x]
      /\ UNCHANGED <<job, outcome, poisoned>>
  BY DEF Pass, Bar!Leave
<1>2. /\ at \in [Workers -> {"out", "in", "freed"}] /\ poisoned \in BOOLEAN
      /\ me = [v \in Workers |-> me[v]] /\ IsFit(job) /\ IsLocals(m)
      /\ m.phase \in Phases
  BY <1>1 DEF CInv, Typed, AtTheCall
<1>3. /\ IsLocals(After(m)) /\ After(m).phase # "failed"
      /\ After(m).phase = "done" => After(m).iter = job.iters
  BY <1>2, AfterIsLocals
<1>4. /\ IsLocals(x) /\ x.phase # "failed"
      /\ ~poisoned => x = After(m)
  <2>1. IsLocals(Abandon(m)) /\ Abandon(m).phase # "failed"
    BY <1>2, AbandonIsLocals
  <2> HIDE DEF m
  <2> QED
    BY <1>3, <2>1
<1> HIDE DEF x
<1>5. /\ me'[u] = x /\ at'[u] = "out"
      /\ \A v \in Workers : v # u => me'[v] = me[v] /\ at'[v] = at[v]
      /\ me' = [v \in Workers |-> me'[v]] /\ DOMAIN me' = Workers
      /\ at' \in [Workers -> {"out", "in", "freed"}]
  BY <1>1, <1>2
<1>6. \A v \in Workers : IsLocals(me[v])' <=> IsLocals(me'[v])
  BY <1>1 DEF IsLocals, plan
<1>7. Typed'
  <2>1. \A v \in Workers : IsLocals(me'[v])
    BY <1>4, <1>5 DEF CInv, Typed
  <2>2. IsFit(job)' /\ poisoned' \in BOOLEAN /\ outcome' \in {"none", "model", "panic"}
    BY <1>1 DEF CInv, Typed
  <2> QED
    BY <1>5, <1>6, <2>1, <2>2 DEF Typed
<1>8. AtTheCall'
  BY <1>5 DEF CInv, AtTheCall
<1>9. LockStep'
  <2> SUFFICES ASSUME ~poisoned PROVE LockStep'
    BY <1>1 DEF LockStep
  <2>1. \A v \in Workers : Pending(v)' = Pending(v)
    <3>1. Pending(u)' = x /\ Pending(u) = x
      BY <1>1, <1>4, <1>5 DEF Pending
    <3>2. ASSUME NEW v \in Workers, v # u PROVE Pending(v)' = Pending(v)
      <4>1. me'[v] = me[v] /\ at'[v] = at[v]
        BY <1>5, <3>2
      <4> QED
        BY <1>1, <4>1, PendingStays
    <3> QED
      BY <3>1, <3>2
  <2> QED
    BY <2>1 DEF CInv, LockStep
<1>10. DoneInTime'
  <2> SUFFICES ASSUME ~poisoned PROVE DoneInTime'
    BY <1>1 DEF DoneInTime
  <2>1. x.phase \in Ended => x.phase = "done" /\ x.iter = job.iters
    BY <1>3, <1>4 DEF Ended
  <2> QED
    BY <1>1, <1>5, <2>1 DEF CInv, DoneInTime
<1>11. PoisonedByFailure'
  <2>1. m.phase # "failed"
    BY <1>2 DEF Phases
  <2>2. \A v \in Workers : me[v].phase = "failed" => me'[v].phase = "failed"
    BY <1>5, <2>1
  <2> QED
    BY <1>1, <2>2 DEF CInv, PoisonedByFailure
<1>12. Joined'
  <2>1. outcome = "none"
    BY <1>1 DEF CInv, Joined
  <2> QED
    BY <1>1, <2>1 DEF Joined
<1> QED
  BY <1>7, <1>8, <1>9, <1>10, <1>11, <1>12 DEF CInv

LEMMA FailControl ==
  ASSUME CInv, NEW u \in Workers, Fail(u)
  PROVE  CInv'
<1> DEFINE x == [me[u] EXCEPT !.phase = "failed"]
<1>1. /\ at[u] = "out" /\ me[u].phase \notin Ended
      /\ poisoned' = TRUE
      /\ at' = [v \in Workers |-> IF at[v] = "in" THEN "freed" ELSE at[v]]
      /\ me' = [me EXCEPT ![u] = x]
      /\ UNCHANGED <<job, outcome>>
  BY DEF Fail, Running, Bar!Poison
<1>2. /\ at \in [Workers -> {"out", "in", "freed"}]
      /\ me = [v \in Workers |-> me[v]] /\ IsLocals(me[u])
  BY DEF CInv, Typed
<1>3. IsLocals(x) /\ x.phase = "failed"
  BY <1>2 DEF IsLocals, Phases, Ended
<1> HIDE DEF x
<1>4. /\ me'[u] = x /\ \A v \in Workers : v # u => me'[v] = me[v]
      /\ me' = [v \in Workers |-> me'[v]] /\ DOMAIN me' = Workers
  BY <1>1, <1>2
<1>5. \A v \in Workers : at'[v] # "out" => at[v] # "out"
  BY <1>1
<1>6. \A v \in Workers : IsLocals(me[v])' <=> IsLocals(me'[v])
  BY <1>1 DEF IsLocals, plan
<1>7. Typed'
  <2>1. \A v \in Workers : IsLocals(me'[v])
    BY <1>3, <1>4 DEF CInv, Typed
  <2>2. IsFit(job)' /\ poisoned' \in BOOLEAN /\ outcome' \in {"none", "model", "panic"}
    BY <1>1 DEF CInv, Typed
  <2>3. at' \in [Workers -> {"out", "in", "freed"}]
    BY <1>1, <1>2
  <2> QED
    BY <1>4, <1>6, <2>1, <2>2, <2>3 DEF Typed
<1>8. AtTheCall'
  BY <1>1, <1>4, <1>5 DEF CInv, AtTheCall
<1>9. LockStep' /\ DoneInTime' /\ PoisonedByFailure'
  BY <1>1, <1>3, <1>4 DEF LockStep, DoneInTime, PoisonedByFailure
<1>10. Joined'
  <2>1. outcome = "none"
    BY <1>1 DEF CInv, Joined
  <2> QED
    BY <1>1, <2>1 DEF Joined
<1> QED
  BY <1>7, <1>8, <1>9, <1>10 DEF CInv

LEMMA JoinControl == CInv /\ Join => CInv'
<1> SUFFICES ASSUME CInv, Join PROVE CInv'
  OBVIOUS
<1>1. /\ \A u \in Workers : me[u].phase \in Ended /\ at[u] = "out"
      /\ outcome' = IF \E u \in Workers : me[u].phase = "failed" THEN "panic" ELSE "model"
      /\ UNCHANGED <<job, me, at, poisoned>>
  BY DEF Join
<1>2. Typed'
  BY <1>1 DEF CInv, Typed, IsLocals, plan
<1>3. LockStep'
  <2>1. \A u \in Workers : Pending(u)' = Pending(u)
    BY <1>1 DEF Pending, After, AfterPartition, AfterReduce, nc, plan
  <2> QED
    BY <1>1, <2>1 DEF CInv, LockStep
<1>4. AtTheCall' /\ DoneInTime' /\ PoisonedByFailure'
  BY <1>1 DEF CInv, AtTheCall, DoneInTime, PoisonedByFailure
<1>5. Joined'
  BY <1>1 DEF Joined
<1> QED
  BY <1>2, <1>3, <1>4, <1>5 DEF CInv

LEMMA NextControl == CInv /\ [Next]_vars => CInv'
<1> SUFFICES ASSUME CInv, [Next]_vars PROVE CInv'
  OBVIOUS
<1>1. ASSUME NEW u \in Workers, Work(u) PROVE CInv'
  BY <1>1, GoesControl DEF Work
<1>2. ASSUME NEW u \in Workers, Pass(u) PROVE CInv'
  BY <1>2, PassControl
<1>3. ASSUME NEW u \in Workers, Fail(u) PROVE CInv'
  BY <1>3, FailControl
<1>4. CASE Open
  BY <1>4, OpenControl
<1>5. CASE Join
  BY <1>5, JoinControl
<1>6. CASE UNCHANGED vars
  <2>1. UNCHANGED <<job, me, outcome, at, poisoned>>
    BY <1>6 DEF vars
  <2>2. \A u \in Workers : Pending(u)' = Pending(u)
    BY <2>1 DEF Pending, After, AfterPartition, AfterReduce, nc, plan
  <2>3. LockStep'
    BY <2>1, <2>2 DEF CInv, LockStep
  <2> QED
    BY <2>1, <2>3 DEF CInv, Typed, IsLocals, plan, AtTheCall, DoneInTime, PoisonedByFailure, Joined
<1> QED
  BY <1>1, <1>2, <1>3, <1>4, <1>5, <1>6 DEF Next

LEMMA ControlInvariance == Spec => []CInv
<1>1. Init => CInv
  BY InitControl
<1>2. CInv /\ [Next]_vars => CInv'
  BY NextControl
<1> QED
  BY <1>1, <1>2, PTL DEF Spec

(* A returned model is one no worker panicked in, and every worker has run  *)
(* all its iterations: a worker that the poison has let go early has left   *)
(* the panic of another behind, which the caller finds when it joins.       *)
THEOREM PoisonedFitFailsCorrect == Spec => []PoisonedFitFails
<1>1. CInv => PoisonedFitFails
  BY DEF CInv, Joined, DoneInTime, PoisonedByFailure, PoisonedFitFails
<1> QED
  BY <1>1, ControlInvariance, PTL

----------------------------------------------------------------------------
(* Who owns which task *)

LEMMA TimesMonotone ==
  ASSUME NEW a \in Nat, NEW b \in Int, NEW c \in Int, b <= c
  PROVE  a * b <= a * c
<1>1. PICK d \in Nat : c = b + d
  <2>1. c - b \in Nat /\ c = b + (c - b)
    OBVIOUS
  <2> QED
    BY <2>1
<1>2. a * d \in Nat /\ a * b \in Int
  BY SMT
<1>3. a * (b + d) = a * b + a * d
  BY SMT
<1> QED
  BY <1>1, <1>2, <1>3

LEMMA ProductsGrow ==
  ASSUME NEW a \in Nat, NEW b \in Nat, NEW c \in Nat, NEW d \in Nat, a <= b, c <= d
  PROVE  a * c \in Nat /\ b * d \in Nat /\ a * c <= b * d
<1>1. a * c <= a * d /\ d * a <= d * b
  BY TimesMonotone
<1>2. PICK w, x, y : w = a * c /\ x = a * d /\ y = b * d
  OBVIOUS
<1>3. d * a = x /\ d * b = y /\ w \in Nat /\ x \in Nat /\ y \in Nat
  BY <1>2, SMT
<1>4. w <= y
  BY <1>1, <1>2, <1>3
<1> QED
  BY <1>2, <1>3, <1>4

LEMMA DivMod ==
  ASSUME NEW a \in Int, NEW b \in Nat \ {0}
  PROVE  /\ a \div b \in Int /\ a % b \in 0 .. b - 1
         /\ a % b = a - b * (a \div b)
BY SMT

LEMMA DivModUnique ==
  ASSUME NEW b \in Nat \ {0}, NEW q \in Int, NEW r \in 0 .. b - 1
  PROVE  (b * q + r) \div b = q /\ (b * q + r) % b = r
<1> DEFINE a == b * q + r
           x == a \div b
           y == a % b
<1>1. a \in Int /\ x \in Int /\ y \in 0 .. b - 1 /\ y = a - b * x
  <2>1. a \in Int
    BY SMT
  <2> HIDE DEF a
  <2> QED
    BY <2>1, DivMod
<1>2. ASSUME x < q PROVE FALSE
  <2>1. b * (x + 1) <= b * q
    <3>1. x + 1 <= q /\ x + 1 \in Int /\ b \in Nat
      BY <1>1, <1>2
    <3> QED
      BY <3>1, TimesMonotone
  <2>2. b * (x + 1) = b * x + b
    BY <1>1, SMT
  <2> HIDE DEF x, y
  <2> QED
    BY <1>1, <2>1, <2>2
<1>3. ASSUME q < x PROVE FALSE
  <2>1. b * (q + 1) <= b * x
    <3>1. q + 1 <= x /\ q + 1 \in Int /\ b \in Nat
      BY <1>1, <1>3
    <3> QED
      BY <1>1, <3>1, TimesMonotone
  <2>2. b * (q + 1) = b * q + b
    BY <1>1, SMT
  <2> HIDE DEF x, y
  <2> QED
    BY <1>1, <2>1, <2>2
<1>4. x = q
  BY <1>1, <1>2, <1>3
<1>5. y = r
  <2> HIDE DEF x, y
  <2> QED
    BY <1>1, <1>4
<1> QED
  BY <1>4, <1>5

LEMMA DivMonotone ==
  ASSUME NEW a \in Int, NEW b \in Int, a <= b, NEW w \in Nat \ {0}
  PROVE  a \div w <= b \div w
<1> DEFINE x == a \div w
           y == b \div w
<1>1. x \in Int /\ a % w \in 0 .. w - 1 /\ a % w = a - w * x
  BY DivMod
<1>2. y \in Int /\ b % w \in 0 .. w - 1 /\ b % w = b - w * y
  BY DivMod
<1>3. ASSUME y < x PROVE FALSE
  <2>1. w * (y + 1) <= w * x
    <3>1. y + 1 <= x /\ y + 1 \in Int /\ w \in Nat
      BY <1>2, <1>3, <1>1
    <3> QED
      BY <1>1, <3>1, TimesMonotone
  <2>2. w * (y + 1) = w * y + w
    BY <1>2, SMT
  <2>3. PICK wx, wy : wx = w * x /\ wy = w * y
    OBVIOUS
  <2>4. wx \in Int /\ wy \in Int
    BY <2>3, <1>1, <1>2
  <2>5. wy + w <= wx
    BY <2>1, <2>2, <2>3
  <2>6. a < wy + w
    <3>1. PICK r \in 0 .. w - 1 : r = b - wy
      BY <1>2, <2>3
    <3> QED
      BY <3>1, <2>4
  <2>7. wx <= a
    <3>1. PICK r \in 0 .. w - 1 : r = a - wx
      BY <1>1, <2>3
    <3> QED
      BY <3>1, <2>4
  <2> QED
    BY <2>4, <2>5, <2>6, <2>7
<1> QED
  BY <1>1, <1>2, <1>3

(* The quotient of an index of a table of a rows of b. *)
LEMMA DivBelow ==
  ASSUME NEW a \in Nat, NEW b \in Nat \ {0}, NEW t \in 0 .. a * b - 1
  PROVE  t \div b \in 0 .. a - 1 /\ t % b \in 0 .. b - 1 /\ t % b = t - b * (t \div b)
<1>1. a * b \in Nat
  BY SMT
<1>2. t \in Nat /\ t < a * b
  BY <1>1
<1> DEFINE q == t \div b
<1>3. q \in Int /\ t % b \in 0 .. b - 1 /\ t % b = t - b * q
  <2>1. t \in Int
    BY <1>2
  <2> QED
    BY <2>1, DivMod
<1>4. ASSUME q < 0 PROVE FALSE
  <2>1. b * (q + 1) <= b * 0
    BY <1>3, <1>4, TimesMonotone
  <2>2. b * (q + 1) = b * q + b /\ b * 0 = 0
    BY <1>3, SMT
  <2>3. PICK bq : bq = b * q
    OBVIOUS
  <2>4. bq \in Int /\ bq + b <= 0
    BY <1>3, <2>1, <2>2, <2>3
  <2>5. t < bq + b
    <3>1. PICK r \in 0 .. b - 1 : r = t - bq
      BY <1>3, <2>3
    <3> QED
      BY <3>1, <2>4
  <2> QED
    BY <1>2, <2>4, <2>5
<1>5. ASSUME a <= q PROVE FALSE
  <2>1. b * a <= b * q
    BY <1>3, <1>5, TimesMonotone
  <2>2. PICK bq, ab : bq = b * q /\ ab = a * b
    OBVIOUS
  <2>3. bq \in Int /\ ab \in Int /\ ab <= bq
    BY <1>1, <1>3, <2>1, <2>2
  <2>4. bq <= t
    <3>1. PICK r \in 0 .. b - 1 : r = t - bq
      BY <1>3, <2>2
    <3> QED
      BY <3>1, <2>3
  <2> QED
    BY <1>2, <2>2, <2>3, <2>4
<1> QED
  BY <1>3, <1>4, <1>5

(* A task belongs to one worker ... *)
LEMMA SpansApart ==
  ASSUME NEW total \in Nat, NEW u \in Workers, NEW v \in Workers, NEW t,
         t \in span(total, u), t \in span(total, v)
  PROVE  u = v
<1>1. ASSUME NEW x \in Workers, NEW y \in Workers, x < y,
             t \in span(total, x), t \in span(total, y)
      PROVE  FALSE
  <2>1. x \in Nat /\ y \in Nat /\ x + 1 <= y /\ W \in Nat \ {0}
    BY <1>1, WAssumption DEF Workers
  <2>2. total * (x + 1) <= total * y /\ total * (x + 1) \in Int /\ total * y \in Int
    BY <2>1, TimesMonotone
  <2>3. (total * (x + 1)) \div W <= (total * y) \div W
    BY <2>1, <2>2, DivMonotone
  <2>4. /\ (total * (x + 1)) \div W \in Int /\ (total * y) \div W \in Int
        /\ (total * x) \div W \in Int /\ (total * (y + 1)) \div W \in Int
    <3>1. total * x \in Int /\ total * (y + 1) \in Int
      BY <2>1
    <3> QED
      BY <2>1, <2>2, <3>1, DivMod
  <2>5. t <= (total * (x + 1)) \div W - 1 /\ (total * y) \div W <= t /\ t \in Int
    BY <1>1, <2>4 DEF span
  <2> QED
    BY <2>3, <2>4, <2>5
<1>2. u \in Int /\ v \in Int
  BY WAssumption DEF Workers
<1> QED
  BY <1>1, <1>2

LEMMA SpanBounds ==
  ASSUME NEW total \in Nat, NEW u \in Workers, NEW t \in span(total, u)
  PROVE  t \in 0 .. total - 1
<1>1. u \in Nat /\ u + 1 <= W /\ W \in Nat \ {0}
  BY WAssumption DEF Workers
<1>2. total * u \in Nat /\ total * (u + 1) \in Nat /\ total * W \in Nat
      /\ total * (u + 1) <= total * W
  BY <1>1, TimesMonotone
<1>3. (total * (u + 1)) \div W <= (total * W) \div W
  BY <1>1, <1>2, DivMonotone
<1>4. 0 \div W <= (total * u) \div W
  BY <1>1, <1>2, DivMonotone
<1>5. (total * W) \div W = total
  <2>1. (W * total + 0) \div W = total
    BY <1>1, DivModUnique
  <2> QED
    BY <1>1, <2>1
<1>6. 0 \div W = 0
  <2>1. (W * 0 + 0) \div W = 0
    BY <1>1, DivModUnique
  <2> QED
    BY <1>1, <2>1
<1>7. (total * u) \div W \in Int /\ (total * (u + 1)) \div W \in Int
  BY <1>1, <1>2, DivMod
<1> QED
  BY <1>3, <1>4, <1>5, <1>6, <1>7 DEF span

(* ... and none is left out. *)
LEMMA SpansCover ==
  ASSUME NEW total \in Nat, NEW t \in 0 .. total - 1
  PROVE  \E u \in Workers : t \in span(total, u)
<1> DEFINE end(x) == (total * x) \div W
           T == {x \in Nat : t < end(x)}
<1>0. W \in Nat \ {0} /\ t \in Nat /\ t < total
  BY WAssumption
<1>1. \A x \in Nat : end(x) \in Int
  <2>1. \A x \in Nat : total * x \in Int
    BY SMT
  <2> QED
    BY <1>0, <2>1, DivMod
<1>2. end(W) = total
  <2>1. (W * total + 0) \div W = total
    BY <1>0, DivModUnique
  <2>2. total * W = W * total + 0
    BY <1>0, SMT
  <2> QED
    BY <2>1, <2>2
<1>3. end(0) = 0
  <2>1. (W * 0 + 0) \div W = 0
    BY <1>0, DivModUnique
  <2>2. total * 0 = W * 0 + 0
    BY <1>0, SMT
  <2> QED
    BY <2>1, <2>2
<1>4. W \in T
  BY <1>0, <1>2
<1>5. PICK x \in T : \A y \in T : x <= y
  <2>1. T \subseteq Nat /\ T # {}
    BY <1>4
  <2> HIDE DEF T
  <2> QED
    BY <2>1, LeastNumber
<1>6. x \in Nat /\ x # 0 /\ x <= W
  BY <1>0, <1>3, <1>4, <1>5
<1>7. x - 1 \in Nat /\ x - 1 \in Workers /\ (x - 1) + 1 = x
  BY <1>0, <1>6 DEF Workers
<1>8. x - 1 \notin T
  BY <1>5, <1>6, <1>7
<1>9. end(x - 1) <= t /\ t < end(x)
  BY <1>0, <1>1, <1>5, <1>7, <1>8
<1>10. t \in span(total, x - 1)
  <2>1. span(total, x - 1) = end(x - 1) .. end(x) - 1
    BY <1>7 DEF span
  <2> HIDE DEF end
  <2> QED
    BY <1>0, <1>1, <1>6, <1>7, <1>9, <2>1
<1> QED
  BY <1>7, <1>10

----------------------------------------------------------------------------
(* A stable partition of the positions s .. e - 1: those of L come first,   *)
(* in their order, then the others in theirs.                               *)

Positions(s, e, L) == s \in Nat /\ e \in Nat /\ s <= e /\ L \subseteq s .. e - 1
Below(T, x) == {q \in T : q < x}
Rest(s, e, L) == (s .. e - 1) \ L
Dest(s, e, L, r) ==
  IF r \in L THEN s + Cardinality(Below(L, r))
  ELSE s + Cardinality(L) + Cardinality(Below(Rest(s, e, L), r))

LEMMA SubsetOfPositions ==
  ASSUME NEW s, NEW e, NEW L, Positions(s, e, L), NEW T \in SUBSET (s .. e - 1)
  PROVE  IsFiniteSet(T) /\ Cardinality(T) \in Nat
<1>1. IsFiniteSet(s .. e - 1)
  BY FS_Interval DEF Positions
<1>2. IsFiniteSet(T)
  BY <1>1, FS_Subset
<1> QED
  BY <1>2, FS_CardinalityType

(* One more below a later position. *)
LEMMA BelowGrows ==
  ASSUME NEW s, NEW e, NEW L, Positions(s, e, L), NEW T \in SUBSET (s .. e - 1),
         NEW r \in T
  PROVE  /\ Cardinality(Below(T, r)) \in Nat /\ Cardinality(T) \in Nat
         /\ Cardinality(Below(T, r)) < Cardinality(T)
         /\ \A x \in Int : r < x => /\ Cardinality(Below(T, x)) \in Nat
                                    /\ Cardinality(Below(T, r)) < Cardinality(Below(T, x))
<1>0. r \in Nat /\ \A q \in T : q \in Nat
  BY DEF Positions
<1>1. ASSUME NEW S \in SUBSET T, r \in S, Below(T, r) \subseteq S
      PROVE  Cardinality(Below(T, r)) < Cardinality(S)
  <2>0. r \notin Below(T, r) /\ Below(T, r) \subseteq T
    BY <1>0 DEF Below
  <2>1. Below(T, r) \cup {r} \subseteq S /\ r \notin Below(T, r) /\ Below(T, r) \subseteq s .. e - 1
        /\ S \subseteq s .. e - 1
    BY <1>1, <2>0
  <2>2. IsFiniteSet(S) /\ IsFiniteSet(Below(T, r)) /\ Cardinality(Below(T, r)) \in Nat
        /\ Cardinality(S) \in Nat
    BY <1>1, <2>1, SubsetOfPositions
  <2>3. IsFiniteSet(Below(T, r) \cup {r})
        /\ Cardinality(Below(T, r) \cup {r}) = Cardinality(Below(T, r)) + 1
    BY <2>1, <2>2, FS_AddElement
  <2>4. Cardinality(Below(T, r) \cup {r}) <= Cardinality(S)
    BY <2>1, <2>2, FS_Subset
  <2> QED
    BY <2>2, <2>3, <2>4
<1>2. /\ Cardinality(Below(T, r)) \in Nat /\ Cardinality(T) \in Nat
      /\ \A x \in Int : Cardinality(Below(T, x)) \in Nat
  <2>1. Below(T, r) \in SUBSET (s .. e - 1) /\ \A x \in Int : Below(T, x) \in SUBSET (s .. e - 1)
    BY DEF Below
  <2> QED
    BY <2>1, SubsetOfPositions
<1>3. Cardinality(Below(T, r)) < Cardinality(T)
  <2>1. Below(T, r) \subseteq T
    BY DEF Below
  <2> QED
    BY <2>1, <1>1
<1>4. ASSUME NEW x \in Int, r < x PROVE Cardinality(Below(T, r)) < Cardinality(Below(T, x))
  <2>1. r \in Below(T, x) /\ Below(T, x) \in SUBSET T
    BY <1>4 DEF Below
  <2>2. ASSUME NEW q \in T, q < r PROVE q < x
    BY <1>0, <1>4, <2>2
  <2>3. Below(T, r) \subseteq Below(T, x)
    BY <2>2 DEF Below
  <2> QED
    BY <2>1, <2>3, <1>1
<1> QED
  BY <1>2, <1>3, <1>4

LEMMA RestComplements ==
  ASSUME NEW s, NEW e, NEW L, Positions(s, e, L)
  PROVE  /\ Rest(s, e, L) \in SUBSET (s .. e - 1)
         /\ Cardinality(L) \in Nat /\ Cardinality(Rest(s, e, L)) \in Nat
         /\ Cardinality(L) + Cardinality(Rest(s, e, L)) = e - s
<1> DEFINE R == Rest(s, e, L)
<1>1. R \in SUBSET (s .. e - 1) /\ L \in SUBSET (s .. e - 1)
      /\ R \cup L = s .. e - 1 /\ R \cap L = {}
  BY DEF Rest, Positions
<1>2. /\ IsFiniteSet(R) /\ Cardinality(R) \in Nat
      /\ IsFiniteSet(L) /\ Cardinality(L) \in Nat
  BY <1>1, SubsetOfPositions
<1>3. Cardinality(R \cup L) = Cardinality(R) + Cardinality(L)
  <2> HIDE DEF R
  <2>1. Cardinality(R \cup L) = Cardinality(R) + Cardinality(L) - Cardinality(R \cap L)
    BY <1>2, FS_Union
  <2>2. Cardinality(R \cap L) = 0
    BY <1>1, FS_EmptySet
  <2> QED
    BY <1>2, <2>1, <2>2
<1>4. Cardinality(s .. e - 1) = e - s
  <2>1. s \in Int /\ e - 1 \in Int
    BY DEF Positions
  <2>2. Cardinality(s .. e - 1) = IF s > e - 1 THEN 0 ELSE e - 1 - s + 1
    BY <2>1, FS_Interval
  <2> QED
    BY <2>2 DEF Positions
<1>5. Cardinality(L) + Cardinality(R) = e - s
  <2> HIDE DEF R
  <2>1. Cardinality(R) + Cardinality(L) = e - s
    BY <1>1, <1>3, <1>4
  <2> QED
    BY <1>2, <2>1
<1> QED
  BY <1>1, <1>2, <1>5

(* Every position goes to a position of the same range ... *)
LEMMA DestInRange ==
  ASSUME NEW s, NEW e, NEW L, Positions(s, e, L), NEW r \in s .. e - 1
  PROVE  /\ Dest(s, e, L, r) \in s .. e - 1
         /\ r \in L => Dest(s, e, L, r) < s + Cardinality(L)
         /\ r \notin L => s + Cardinality(L) <= Dest(s, e, L, r)
<1>1. /\ Rest(s, e, L) \in SUBSET (s .. e - 1)
      /\ Cardinality(L) \in Nat /\ Cardinality(Rest(s, e, L)) \in Nat
      /\ Cardinality(L) + Cardinality(Rest(s, e, L)) = e - s
  BY RestComplements
<1>2. s \in Nat /\ e \in Nat /\ L \in SUBSET (s .. e - 1)
  BY DEF Positions
<1>3. CASE r \in L
  <2>1. Cardinality(Below(L, r)) \in Nat /\ Cardinality(Below(L, r)) < Cardinality(L)
    BY <1>2, <1>3, BelowGrows
  <2> QED
    BY <1>1, <1>2, <1>3, <2>1 DEF Dest
<1>4. CASE r \notin L
  <2>1. r \in Rest(s, e, L)
    BY <1>4 DEF Rest
  <2>2. /\ Cardinality(Below(Rest(s, e, L), r)) \in Nat
        /\ Cardinality(Below(Rest(s, e, L), r)) < Cardinality(Rest(s, e, L))
    BY <1>1, <2>1, BelowGrows
  <2> QED
    BY <1>1, <1>2, <1>4, <2>2 DEF Dest
<1> QED
  BY <1>3, <1>4

(* ... no two of them to the same. *)
LEMMA DestInjective ==
  ASSUME NEW s, NEW e, NEW L, Positions(s, e, L),
         NEW r \in s .. e - 1, NEW q \in s .. e - 1,
         Dest(s, e, L, r) = Dest(s, e, L, q)
  PROVE  r = q
<1>0. /\ s \in Nat /\ e \in Nat /\ L \in SUBSET (s .. e - 1)
      /\ Rest(s, e, L) \in SUBSET (s .. e - 1) /\ Cardinality(L) \in Nat
  BY RestComplements DEF Positions
<1>1. ASSUME NEW x \in s .. e - 1, NEW y \in s .. e - 1, x < y,
             Dest(s, e, L, x) = Dest(s, e, L, y)
      PROVE  FALSE
  <2>0. x \in Int /\ y \in Int
    BY <1>0
  <2>1. CASE x \in L /\ y \in L
    <3>1. /\ Cardinality(Below(L, x)) \in Nat /\ Cardinality(Below(L, y)) \in Nat
          /\ Cardinality(Below(L, x)) < Cardinality(Below(L, y))
      BY <1>0, <1>1, <2>0, <2>1, BelowGrows
    <3> QED
      BY <1>0, <1>1, <2>1, <3>1 DEF Dest
  <2>2. CASE x \notin L /\ y \notin L
    <3>1. x \in Rest(s, e, L)
      BY <2>2 DEF Rest
    <3>2. /\ Cardinality(Below(Rest(s, e, L), x)) \in Nat
          /\ Cardinality(Below(Rest(s, e, L), y)) \in Nat
          /\ Cardinality(Below(Rest(s, e, L), x)) < Cardinality(Below(Rest(s, e, L), y))
      BY <1>0, <1>1, <2>0, <3>1, BelowGrows
    <3> QED
      BY <1>0, <1>1, <2>2, <3>2 DEF Dest
  <2>3. CASE x \in L /\ y \notin L
    <3>1. /\ Dest(s, e, L, x) \in Int
          /\ Dest(s, e, L, x) < s + Cardinality(L) /\ s + Cardinality(L) <= Dest(s, e, L, y)
      BY <1>0, <2>3, DestInRange
    <3> QED
      BY <1>0, <1>1, <3>1
  <2>4. CASE x \notin L /\ y \in L
    <3>1. /\ Dest(s, e, L, y) \in Int
          /\ Dest(s, e, L, y) < s + Cardinality(L) /\ s + Cardinality(L) <= Dest(s, e, L, x)
      BY <1>0, <2>4, DestInRange
    <3> QED
      BY <1>0, <1>1, <3>1
  <2> QED
    BY <2>1, <2>2, <2>3, <2>4
<1>2. r \in Int /\ q \in Int
  BY <1>0
<1> QED
  BY <1>1, <1>2

(* A block from lo on counts what is before it and, inside, what is before  *)
(* a position.                                                              *)
LEMMA BelowInBlocks ==
  ASSUME NEW s, NEW e, NEW L, Positions(s, e, L), NEW T \in SUBSET (s .. e - 1),
         NEW lo \in Int, NEW hi \in Int, lo <= hi
  PROVE  Cardinality(Below(T, hi)) = Cardinality(Below(T, lo)) + Cardinality({q \in T : lo <= q /\ q < hi})
<1> DEFINE A == Below(T, lo)
           B == {q \in T : lo <= q /\ q < hi}
<1>0. \A q \in T : q \in Int
  BY DEF Positions
<1>1. A \in SUBSET (s .. e - 1) /\ B \in SUBSET (s .. e - 1)
  BY DEF Below
<1>2. Below(T, hi) = A \cup B /\ A \cap B = {}
  <2>1. ASSUME NEW q \in T
        PROVE  (q < hi <=> q < lo \/ (lo <= q /\ q < hi)) /\ ~ (q < lo /\ lo <= q)
    BY <1>0
  <2> QED
    BY <2>1 DEF Below
<1>3. IsFiniteSet(A) /\ IsFiniteSet(B) /\ Cardinality(A) \in Nat /\ Cardinality(B) \in Nat
  BY <1>1, SubsetOfPositions
<1> HIDE DEF A, B
<1>4. Cardinality(A \cup B) = Cardinality(A) + Cardinality(B) - Cardinality(A \cap B)
  BY <1>3, FS_Union
<1>5. Cardinality(A \cap B) = 0
  BY <1>2, FS_EmptySet
<1>6. Cardinality(Below(T, hi)) = Cardinality(A) + Cardinality(B)
  BY <1>2, <1>3, <1>4, <1>5
<1> QED
  BY <1>6 DEF A, B

(* Before a position of the range, what is not in L is the rest. *)
LEMMA RestBelow ==
  ASSUME NEW s, NEW e, NEW L, Positions(s, e, L), NEW x \in s .. e
  PROVE  /\ Cardinality(Below(L, x)) \in Nat
         /\ Cardinality(Below(Rest(s, e, L), x)) = x - s - Cardinality(Below(L, x))
<1>1. /\ s \in Nat /\ x \in Nat /\ e \in Nat /\ s <= x /\ x <= e
      /\ L \subseteq s .. e - 1
  BY DEF Positions
<1>2. Positions(s, x, Below(L, x))
  <2>1. ASSUME NEW q \in L, q < x PROVE q \in s .. x - 1
    <3>1. q \in s .. e - 1
      BY <1>1
    <3> QED
      BY <1>1, <2>1, <3>1
  <2>2. Below(L, x) \subseteq s .. x - 1
    BY <2>1 DEF Below
  <2> QED
    BY <1>1, <2>2 DEF Positions
<1>3. Rest(s, x, Below(L, x)) = Below(Rest(s, e, L), x)
  BY <1>1 DEF Rest, Below
<1>4. /\ Cardinality(Below(L, x)) \in Nat /\ Cardinality(Rest(s, x, Below(L, x))) \in Nat
      /\ Cardinality(Below(L, x)) + Cardinality(Rest(s, x, Below(L, x))) = x - s
  BY <1>2, RestComplements
<1> QED
  BY <1>1, <1>3, <1>4

----------------------------------------------------------------------------
(* What the shared arrays hold.  In the phases of a level the ranges of the *)
(* nodes of a tree do not overlap; the counts of the blocks of a node, then *)
(* their prefix sums, and the ranges of its children are what the stable    *)
(* partition of its rows asks for, as far as the workers that own the tasks *)
(* of the phase have arrived.                                               *)

Names == {"raw", "gh", "order_a", "order_b", "ranges_a", "ranges_b", "blk_cnt",
          "partials", "hist", "hist_parent", "hist_left", "split", "leaf_value"}

Units(m) == job.k * plan(m).nodes
Blocks(m, tn) == tn * plan(m).bcount .. (tn + 1) * plan(m).bcount - 1

IsRange(range) ==
  range[1] \in 0 .. job.n /\ range[2] \in 0 .. job.n /\ range[1] <= range[2]

Within(range, r) == range[1] <= r /\ r < range[2]

AreRanges(f, nodes) ==
  /\ \A tn \in Upto(job.k * nodes) : tn \in DOMAIN f /\ IsRange(f[tn])
  /\ \A tn, to \in Upto(job.k * nodes) :
       tn # to /\ tn \div nodes = to \div nodes
       => \A r \in Nat : ~ (Within(f[tn], r) /\ Within(f[to], r))

(* The positions of a node whose rows go left. *)
Leftward(m, tn) == Lefts(Node(m, tn), Node(m, tn).s .. Node(m, tn).e - 1)

(* The ranges of the children of a node with count rows to the left. *)
Children(rn, node, tn, count) ==
  /\ 2 * tn \in DOMAIN rn /\ 2 * tn + 1 \in DOMAIN rn
  /\ node.split.is_leaf => rn[2 * tn] = <<0, 0>> /\ rn[2 * tn + 1] = <<0, 0>>
  /\ ~node.split.is_leaf =>
       /\ rn[2 * tn] = <<node.s, node.s + count>>
       /\ rn[2 * tn + 1] = <<node.s + count, node.e>>

HasChildren(m, tn) ==
  Children(mem[ranges_next(m)], Node(m, tn), tn, Cardinality(Leftward(m, tn)))

IsCounted(m, t) ==
  LET node == Node(m, t \div plan(m).bcount)
  IN  /\ t \in DOMAIN mem.blk_cnt
      /\ ~node.split.is_leaf =>
           mem.blk_cnt[t] = Cardinality(Lefts(node, block_span(m, node, t % plan(m).bcount)))

IsPrefixed(m, t) ==
  LET tn == t \div plan(m).bcount
      node == Node(m, tn)
  IN  /\ t \in DOMAIN mem.blk_cnt
      /\ ~node.split.is_leaf =>
           mem.blk_cnt[t] =
             Cardinality(Below(Leftward(m, tn), node.s + (t % plan(m).bcount) * Per(m, node)))

Arrived(u) == at[u] = "in"

IsData(m) ==
  /\ m.phase \in LevelPhases => AreRanges(mem[ranges(m)], plan(m).nodes)
  /\ m.phase = "reset" =>
       \A u \in Workers : Arrived(u) =>
         \A tt \in Upto(job.k) : tt * job.n \in span(job.k * job.n, u) =>
           tt \in DOMAIN mem[ranges(m)] /\ mem[ranges(m)][tt] = <<0, job.n>>
  /\ m.phase = "count" =>
       \A u \in Workers : Arrived(u) => \A t \in BlockTasks(m, u) : IsCounted(m, t)
  /\ m.phase = "prefix" =>
       \A u \in Workers, tn \in Upto(Units(m)) : tn \in NodeTasks(m, u) =>
         IF Arrived(u) THEN HasChildren(m, tn) /\ \A t \in Blocks(m, tn) : IsPrefixed(m, t)
         ELSE \A t \in Blocks(m, tn) : IsCounted(m, t)
  /\ m.phase = "scatter" =>
       \A tn \in Upto(Units(m)) :
         HasChildren(m, tn) /\ \A t \in Blocks(m, tn) : IsPrefixed(m, t)
  /\ m.phase = "fused" =>
       \A u \in Workers : Arrived(u) => \A tn \in NodeTasks(m, u) : HasChildren(m, tn)

DInv ==
  /\ DOMAIN mem = Names
  /\ ~poisoned => \A u \in Workers : \A m \in {Pending(u)} : IsData(m)

----------------------------------------------------------------------------
(* What each phase writes *)

LEMMA ShapeFacts ==
  ASSUME IsFit(job), NEW m, IsLocals(m)
  PROVE  /\ job.n \in Nat \ {0} /\ job.k \in Nat \ {0} /\ job.depth \in Nat
         /\ m.level \in 0 .. job.depth /\ m.iter \in Nat /\ m.node_base \in Nat
         /\ m.phase \in Phases \cup Ended
         /\ plan(m).nodes = 2 ^ m.level /\ plan(m).nodes \in Nat \ {0}
         /\ plan(m).bcount \in Nat \ {0} /\ plan(m).node_chunk \in Nat \ {0}
         /\ Units(m) \in Nat \ {0} /\ Units(m) * plan(m).bcount \in Nat \ {0}
         /\ Units(m) = job.k * plan(m).nodes
<1>1. /\ job.n \in Nat \ {0} /\ job.k \in Nat \ {0} /\ job.depth \in Nat
      /\ m.level \in 0 .. job.depth /\ m.iter \in Nat /\ m.node_base \in Nat
      /\ m.phase \in Phases \cup Ended
  BY DEF IsFit, IsLocals
<1>2. /\ plan(m).nodes = 2 ^ m.level /\ plan(m).nodes \in Nat \ {0}
      /\ plan(m).bcount \in Nat \ {0} /\ plan(m).node_chunk \in Nat \ {0}
  BY <1>1, PlanFacts DEF plan
<1>3. \A a, b \in Nat \ {0} : a * b \in Nat \ {0}
  BY SMT
<1>4. Units(m) \in Nat \ {0}
  BY <1>1, <1>2, <1>3 DEF Units
<1> QED
  BY <1>1, <1>2, <1>3, <1>4 DEF Units

Updated(writes) ==
  [a \in DOMAIN mem |-> IF a \in DOMAIN writes THEN Over(writes[a], mem[a]) ELSE mem[a]]

LEMMA WorkWrites ==
  ASSUME NEW u \in Workers, Work(u)
  PROVE  Goes(u) /\ \E d : mem' = Updated(Writes(u, d))
BY DEF Work, Updated

LEMMA UpdatedArray ==
  ASSUME NEW writes, mem' = Updated(writes), NEW a \in DOMAIN mem
  PROVE  /\ DOMAIN mem' = DOMAIN mem
         /\ a \notin DOMAIN writes => mem'[a] = mem[a]
         /\ a \in DOMAIN writes =>
              /\ \A x \in DOMAIN writes[a] :
                   x \in DOMAIN mem'[a] /\ mem'[a][x] = writes[a][x]
              /\ \A x \in DOMAIN mem[a] :
                   /\ x \in DOMAIN mem'[a]
                   /\ x \notin DOMAIN writes[a] => mem'[a][x] = mem[a][x]
<1>1. DOMAIN mem' = DOMAIN mem
      /\ mem'[a] = IF a \in DOMAIN writes THEN Over(writes[a], mem[a]) ELSE mem[a]
  BY DEF Updated
<1>2. ASSUME NEW f, NEW g
      PROVE  /\ \A x \in DOMAIN f : x \in DOMAIN Over(f, g) /\ Over(f, g)[x] = f[x]
             /\ \A x \in DOMAIN g : /\ x \in DOMAIN Over(f, g)
                                    /\ x \notin DOMAIN f => Over(f, g)[x] = g[x]
  BY DEF Over
<1> QED
  BY <1>1, <1>2

LEMMA OverNames ==
  ASSUME NEW f, NEW g
  PROVE  DOMAIN Over(f, g) = DOMAIN f \cup DOMAIN g
BY DEF Over

LEMMA HandlesApart ==
  ASSUME NEW m
  PROVE  /\ {order(m), order_next(m)} = {"order_a", "order_b"} /\ order(m) # order_next(m)
         /\ {ranges(m), ranges_next(m)} = {"ranges_a", "ranges_b"} /\ ranges(m) # ranges_next(m)
         /\ {hist_cur(m), hist_par(m)} = {"hist", "hist_parent"} /\ hist_cur(m) # hist_par(m)
BY DEF order, order_next, ranges, ranges_next, hist_cur, hist_par

(* The trees whose first slot is a worker's, whose range it sets. *)
Trees(u) == {tt \in Upto(job.k) : tt * job.n \in span(job.k * job.n, u)}

LEMMA ResetNames ==
  ASSUME NEW u, NEW m, NEW d, me[u] = m, m.phase = "reset"
  PROVE  DOMAIN Writes(u, d) = {order(m), ranges(m)}
<1>1. Writes(u, d) = ResetPartition(m, u)
  BY DEF Writes
<1> QED
  BY <1>1 DEF ResetPartition, Over, Store

LEMMA ResetWrites ==
  ASSUME NEW u, NEW m, NEW d, me[u] = m, m.phase = "reset"
  PROVE  /\ DOMAIN Writes(u, d) = {order(m), ranges(m)}
         /\ DOMAIN Writes(u, d)[order(m)] = span(job.k * job.n, u)
         /\ Writes(u, d)[ranges(m)] = [tt \in Trees(u) |-> <<0, job.n>>]
<1>1. Writes(u, d) = ResetPartition(m, u)
  BY DEF Writes
<1>2. order(m) # ranges(m)
  BY DEF order, ranges
<1>3. ResetPartition(m, u) =
        Over(Store(order(m), [t \in span(job.k * job.n, u) |-> t % job.n]),
             Store(ranges(m), [tt \in Trees(u) |-> <<0, job.n>>]))
  BY DEF ResetPartition, Trees
<1> QED
  BY <1>1, <1>2, <1>3 DEF Over, Store

LEMMA GatherWrites ==
  ASSUME NEW u, NEW m, NEW d, me[u] = m, m.phase = "gather"
  PROVE  LET w == Writes(u, d)
             a == IF blocks(m) = 1 THEN gathered(m) ELSE "partials"
         IN  DOMAIN w = {a} /\ DOMAIN w[a] = GatherTasks(m, u)
<1>1. Writes(u, d) = gather(m, u)
  BY DEF Writes
<1> QED
  BY <1>1 DEF gather, Store

LEMMA ReduceNames ==
  ASSUME NEW u, NEW m, NEW d, me[u] = m, m.phase = "reduce"
  PROVE  DOMAIN Writes(u, d) = {hist_cur(m), gathered(m), "split", "leaf_value"}
<1>1. Writes(u, d) = reduce_split(m, u, d)
  BY DEF Writes
<1> QED
  BY <1>1 DEF reduce_split, Over, Store

SlotsOf(m, u) == {ColumnSlot(m, c) : c \in Columns(m, u)}

LEMMA ReduceWrites ==
  ASSUME NEW u, NEW m, NEW d, me[u] = m, m.phase = "reduce"
  PROVE  /\ DOMAIN Writes(u, d)["split"] = SlotsOf(m, u)
         /\ DOMAIN Writes(u, d)["leaf_value"] = SlotsOf(m, u)
         /\ DOMAIN Writes(u, d)[hist_cur(m)] = Columns(m, u)
         /\ gathered(m) # hist_cur(m) =>
              DOMAIN Writes(u, d)[gathered(m)] = ReduceTasks(m, u)
<1>1. Writes(u, d) = reduce_split(m, u, d)
  BY DEF Writes
<1>2. hist_cur(m) \notin {"split", "leaf_value"} /\ gathered(m) \notin {"split", "leaf_value"}
  BY DEF hist_cur, gathered
<1> QED
  BY <1>1, <1>2 DEF reduce_split, Over, Store, SlotsOf

LEMMA CountWrites ==
  ASSUME NEW u, NEW m, NEW d, me[u] = m, m.phase = "count"
  PROVE  LET w == Writes(u, d)
         IN  /\ DOMAIN w = {"blk_cnt"} /\ DOMAIN w["blk_cnt"] = BlockTasks(m, u)
             /\ \A t \in BlockTasks(m, u) :
                  LET node == Node(m, t \div plan(m).bcount)
                  IN  ~node.split.is_leaf =>
                        w["blk_cnt"][t] =
                          Cardinality(Lefts(node, block_span(m, node, t % plan(m).bcount)))
<1>1. Writes(u, d) = count_left(m, u)
  BY DEF Writes
<1> QED
  BY <1>1 DEF count_left, Store

LEMMA PrefixNames ==
  ASSUME NEW u, NEW m, NEW d, me[u] = m, m.phase = "prefix"
  PROVE  DOMAIN Writes(u, d) = {ranges_next(m), "blk_cnt"}
<1>1. Writes(u, d) = child_ranges(m, u)
  BY DEF Writes
<1> QED
  BY <1>1 DEF child_ranges, Over, Store, ChildRanges

TasksOf(m, u) == UNION {Blocks(m, tn) : tn \in NodeTasks(m, u)}
Counts(m, u) == [tn \in NodeTasks(m, u) |-> CountsBelow(m, tn)[plan(m).bcount]]

LEMMA PrefixWrites ==
  ASSUME NEW u, NEW m, NEW d, me[u] = m, m.phase = "prefix"
  PROVE  /\ Writes(u, d)["blk_cnt"] =
              [t \in TasksOf(m, u) |->
                 CountsBelow(m, t \div plan(m).bcount)[t % plan(m).bcount]]
         /\ Writes(u, d)[ranges_next(m)] =
              ChildRanges(m, NodeTasks(m, u), Counts(m, u))[ranges_next(m)]
<1> DEFINE b == [t \in TasksOf(m, u) |->
                   CountsBelow(m, t \div plan(m).bcount)[t % plan(m).bcount]]
           c == ChildRanges(m, NodeTasks(m, u), Counts(m, u))
<1>1. Writes(u, d) = child_ranges(m, u)
  BY DEF Writes
<1>2. ranges_next(m) # "blk_cnt"
  BY DEF ranges_next
<1>3. child_ranges(m, u) = Over(c, Store("blk_cnt", b))
  BY DEF child_ranges, TasksOf, Counts, Blocks
<1>4. DOMAIN c = {ranges_next(m)}
  BY DEF ChildRanges, Store
<1>5. Store("blk_cnt", b) = [a \in {"blk_cnt"} |-> b]
  BY DEF Store
<1> HIDE DEF b, c
<1>6. /\ Over(c, Store("blk_cnt", b))["blk_cnt"] = b
      /\ Over(c, Store("blk_cnt", b))[ranges_next(m)] = c[ranges_next(m)]
  BY <1>2, <1>4, <1>5 DEF Over
<1> QED
  BY <1>1, <1>3, <1>6 DEF b, c

Targets(moves) == {v[1] : v \in moves}
ScatterTargets(m, u) == Targets(UNION {BlockMoves(m, t) : t \in BlockTasks(m, u)})

LEMMA ScatterWrites ==
  ASSUME NEW u, NEW m, NEW d, me[u] = m, m.phase = "scatter"
  PROVE  /\ DOMAIN Writes(u, d) = {order_next(m)}
         /\ DOMAIN Writes(u, d)[order_next(m)] = ScatterTargets(m, u)
<1>1. Writes(u, d) = scatter(m, u)
  BY DEF Writes
<1> QED
  BY <1>1 DEF scatter, Scattered, Store, Targets, ScatterTargets

LEMMA Halves ==
  ASSUME NEW tn \in Int
  PROVE  /\ (2 * tn) \div 2 = tn /\ (2 * tn) % 2 = 0
         /\ (2 * tn + 1) \div 2 = tn /\ (2 * tn + 1) % 2 = 1
OBVIOUS

ChildrenOf(tns) == UNION {{2 * tn, 2 * tn + 1} : tn \in tns}

LEMMA ChildRangesWritten ==
  ASSUME NEW m, NEW tns, NEW lefts, tns \subseteq Nat,
         NEW rn, rn = ChildRanges(m, tns, lefts)[ranges_next(m)]
  PROVE  /\ DOMAIN rn = ChildrenOf(tns)
         /\ \A tn \in tns : Children(rn, Node(m, tn), tn, lefts[tn])
<1> DEFINE value(c) ==
             LET node == Node(m, c \div 2)
                 mid == node.s + lefts[c \div 2]
             IN  IF node.split.is_leaf THEN <<0, 0>>
                 ELSE IF c % 2 = 0 THEN <<node.s, mid>> ELSE <<mid, node.e>>
           children == ChildrenOf(tns)
           w == ChildRanges(m, tns, lefts)[ranges_next(m)]
<1>1. w = [c \in children |-> value(c)]
  BY DEF ChildRanges, Store, ChildrenOf
<1>2. ASSUME NEW tn \in tns
      PROVE  /\ 2 * tn \in children /\ 2 * tn + 1 \in children
             /\ Node(m, tn).split.is_leaf => value(2 * tn) = <<0, 0>> /\ value(2 * tn + 1) = <<0, 0>>
             /\ ~Node(m, tn).split.is_leaf =>
                  /\ value(2 * tn) = <<Node(m, tn).s, Node(m, tn).s + lefts[tn]>>
                  /\ value(2 * tn + 1) = <<Node(m, tn).s + lefts[tn], Node(m, tn).e>>
  <2>1. /\ (2 * tn) \div 2 = tn /\ (2 * tn) % 2 = 0
        /\ (2 * tn + 1) \div 2 = tn /\ (2 * tn + 1) % 2 # 0
    BY Halves
  <2>2. PICK c0, c1 : c0 = 2 * tn /\ c1 = 2 * tn + 1
    OBVIOUS
  <2>3. c0 \div 2 = tn /\ c0 % 2 = 0 /\ c1 \div 2 = tn /\ c1 % 2 # 0
        /\ c0 \in children /\ c1 \in children
    BY <2>1, <2>2 DEF ChildrenOf
  <2> HIDE DEF children
  <2>4. /\ Node(m, tn).split.is_leaf => value(c0) = <<0, 0>> /\ value(c1) = <<0, 0>>
        /\ ~Node(m, tn).split.is_leaf =>
                  /\ value(c0) = <<Node(m, tn).s, Node(m, tn).s + lefts[tn]>>
                  /\ value(c1) = <<Node(m, tn).s + lefts[tn], Node(m, tn).e>>
    BY <2>3
  <2> HIDE DEF value
  <2> QED
    BY <2>2, <2>3, <2>4
<1> HIDE DEF value
<1>3. DOMAIN w = children /\ \A c \in children : w[c] = value(c)
  BY <1>1
<1> HIDE DEF w
<1>4. ASSUME NEW tn \in tns
      PROVE  /\ 2 * tn \in DOMAIN w /\ 2 * tn + 1 \in DOMAIN w
             /\ Node(m, tn).split.is_leaf => w[2 * tn] = <<0, 0>> /\ w[2 * tn + 1] = <<0, 0>>
             /\ ~Node(m, tn).split.is_leaf =>
                  /\ w[2 * tn] = <<Node(m, tn).s, Node(m, tn).s + lefts[tn]>>
                  /\ w[2 * tn + 1] = <<Node(m, tn).s + lefts[tn], Node(m, tn).e>>
  <2> HIDE DEF children
  <2> QED
    BY <1>2, <1>3
<1>5. w = rn
  BY DEF w
<1> QED
  BY <1>3, <1>4, <1>5 DEF Children

LeftCount(m, tn) == Cardinality(Lefts(Node(m, tn), DOMAIN Node(m, tn).row))
LeftCounts(m, u) == [tn \in NodeTasks(m, u) |-> LeftCount(m, tn)]
NodeMoves(m, tn) ==
  Moves(Node(m, tn), DOMAIN Node(m, tn).row, Node(m, tn).s, Node(m, tn).s + LeftCount(m, tn))

FusedTargets(m, u) == Targets(UNION {NodeMoves(m, tn) : tn \in NodeTasks(m, u)})

LEMMA FusedNames ==
  ASSUME NEW u, NEW m, NEW d, me[u] = m, m.phase = "fused"
  PROVE  DOMAIN Writes(u, d) = {ranges_next(m), order_next(m)}
<1>1. Writes(u, d) = fused(m, u)
  BY DEF Writes
<1> QED
  BY <1>1 DEF fused, Over, ChildRanges, Scattered, Store

LEMMA FusedWrites ==
  ASSUME NEW u, NEW m, NEW d, me[u] = m, m.phase = "fused"
  PROVE  /\ DOMAIN Writes(u, d) = {ranges_next(m), order_next(m)}
         /\ Writes(u, d)[ranges_next(m)] =
              ChildRanges(m, NodeTasks(m, u), LeftCounts(m, u))[ranges_next(m)]
         /\ DOMAIN Writes(u, d)[order_next(m)] = FusedTargets(m, u)
<1> DEFINE cnt == LeftCounts(m, u)
           c == ChildRanges(m, NodeTasks(m, u), cnt)
           moves == UNION {NodeMoves(m, tn) : tn \in NodeTasks(m, u)}
           o == Scattered(m, moves)
<1>1. Writes(u, d) = fused(m, u)
  BY DEF Writes
<1>2. ranges_next(m) # order_next(m)
  BY DEF ranges_next, order_next
<1>3. fused(m, u) = Over(c, o)
  <2> DEFINE move(tn) == LET node == Node(m, tn)
                         IN  Moves(node, DOMAIN node.row, node.s, node.s + cnt[tn])
  <2>1. fused(m, u) = Over(c, Scattered(m, UNION {move(tn) : tn \in NodeTasks(m, u)}))
    BY DEF fused, LeftCounts, LeftCount
  <2>2. \A tn \in NodeTasks(m, u) : move(tn) = NodeMoves(m, tn)
    BY DEF NodeMoves, LeftCounts
  <2> HIDE DEF move
  <2>3. UNION {move(tn) : tn \in NodeTasks(m, u)} = moves
    BY <2>2
  <2> HIDE DEF moves, c
  <2> QED
    BY <2>1, <2>3
<1>4. DOMAIN c = {ranges_next(m)}
  BY DEF ChildRanges, Store
<1>5. DOMAIN o = {order_next(m)} /\ DOMAIN o[order_next(m)] = Targets(moves)
  BY DEF Scattered, Store, Targets
<1> HIDE DEF c, o, moves
<1>6. /\ DOMAIN Over(c, o) = {ranges_next(m), order_next(m)}
      /\ Over(c, o)[ranges_next(m)] = c[ranges_next(m)]
      /\ Over(c, o)[order_next(m)] = o[order_next(m)]
  BY <1>2, <1>4, <1>5 DEF Over
<1> QED
  BY <1>1, <1>3, <1>5, <1>6 DEF c, moves, FusedTargets

----------------------------------------------------------------------------
(* The blocks of a node *)

LEMMA CeilDivCovers ==
  ASSUME NEW a \in Nat, NEW b \in Nat \ {0}
  PROVE  CeilDiv(a, b) \in Nat /\ a <= b * CeilDiv(a, b)
<1> DEFINE q == (a + b - 1) \div b
<1>1. q \in Int /\ b * q <= a + b - 1 /\ a + b - 1 < b * q + b
  BY SMT
<1>2. ASSUME q < 0 PROVE FALSE
  <2>1. b * (q + 1) <= b * 0
    BY <1>1, <1>2, TimesMonotone
  <2>2. b * (q + 1) = b * q + b /\ b * 0 = 0
    BY <1>1, SMT
  <2>3. PICK bq : bq = b * q
    OBVIOUS
  <2>4. bq \in Int /\ bq + b <= 0 /\ a + b - 1 < bq + b
    BY <1>1, <2>1, <2>2, <2>3
  <2> QED
    BY <2>4
<1>3. a <= b * q
  <2>1. PICK bq : bq = b * q
    OBVIOUS
  <2>2. bq \in Int /\ a + b - 1 < bq + b
    BY <1>1, <2>1
  <2>3. a <= bq
    BY <2>2
  <2> QED
    BY <2>1, <2>3
<1> QED
  BY <1>1, <1>2, <1>3 DEF CeilDiv

(* A fit, the locals of a worker and a node whose range is one. *)
AtNode(m, tn) ==
  /\ IsFit(job) /\ IsLocals(m)
  /\ tn \in Upto(Units(m)) /\ IsRange(mem[ranges(m)][tn])

Pos(m, tn) == Node(m, tn).s .. Node(m, tn).e - 1

LEMMA NodeFacts ==
  ASSUME NEW m, NEW tn, AtNode(m, tn)
  PROVE  /\ Node(m, tn).s \in Nat /\ Node(m, tn).e \in Nat
         /\ Node(m, tn).s = mem[ranges(m)][tn][1] /\ Node(m, tn).e = mem[ranges(m)][tn][2]
         /\ Node(m, tn).s <= Node(m, tn).e /\ Node(m, tn).e <= job.n /\ job.n \in Nat
         /\ Positions(Node(m, tn).s, Node(m, tn).e, Leftward(m, tn))
         /\ \A S \in SUBSET Pos(m, tn) : Lefts(Node(m, tn), S) = Leftward(m, tn) \cap S
         /\ DOMAIN Node(m, tn).row = Pos(m, tn)
         /\ Per(m, Node(m, tn)) \in Nat
         /\ Node(m, tn).e - Node(m, tn).s <= plan(m).bcount * Per(m, Node(m, tn))
<1> DEFINE node == Node(m, tn)
           range == mem[ranges(m)][tn]
<1>1. job.n \in Nat /\ plan(m).bcount \in Nat \ {0}
  BY ShapeFacts DEF AtNode
<1>2. node.s = range[1] /\ node.e = range[2] /\ DOMAIN node.row = node.s .. node.e - 1
  BY DEF Node
<1>3. node.s \in Nat /\ node.e \in Nat /\ node.s <= node.e /\ node.e <= job.n
  BY <1>1, <1>2 DEF AtNode, IsRange
<1>4. \A S \in SUBSET Pos(m, tn) : Lefts(node, S) = Leftward(m, tn) \cap S
  BY DEF Leftward, Lefts, Pos
<1>5. Positions(node.s, node.e, Leftward(m, tn))
  BY <1>3 DEF Positions, Leftward, Lefts
<1> HIDE DEF node
<1>6. Per(m, node) \in Nat /\ node.e - node.s <= plan(m).bcount * Per(m, node)
  <2>1. node.e - node.s \in Nat
    BY <1>3
  <2> QED
    BY <1>1, <2>1, CeilDivCovers DEF Per
<1> QED
  BY <1>1, <1>2, <1>3, <1>4, <1>5, <1>6 DEF node, Pos

LEMMA BlockFacts ==
  ASSUME NEW m, NEW tn, AtNode(m, tn), NEW b \in Nat
  PROVE  LET node == Node(m, tn)
             lo == node.s + b * Per(m, node)
             hi == node.s + (b + 1) * Per(m, node)
         IN  /\ lo \in Nat /\ hi \in Nat /\ lo <= hi /\ Node(m, tn).s <= lo
             /\ block_span(m, node, b) = {q \in Pos(m, tn) : lo <= q /\ q < hi}
             /\ Lefts(node, block_span(m, node, b)) = {q \in Leftward(m, tn) : lo <= q /\ q < hi}
<1> DEFINE node == Node(m, tn)
           per == Per(m, node)
           lo == node.s + b * per
           hi == node.s + (b + 1) * per
<1>1. node.s \in Nat /\ node.e \in Nat /\ per \in Nat /\ node.s <= node.e
  BY NodeFacts
<1>2. b * per \in Nat /\ (b + 1) * per \in Nat /\ (b + 1) * per = b * per + per
  <2> HIDE DEF per
  <2> QED
    BY <1>1, SMT
<1>3. lo \in Nat /\ hi \in Nat /\ lo <= hi /\ node.s <= lo
  <2> HIDE DEF node, per
  <2>1. PICK x, y : x = b * per /\ y = (b + 1) * per
    OBVIOUS
  <2>2. x \in Nat /\ y \in Nat /\ y = x + per
    BY <1>2, <2>1
  <2>3. lo = node.s + x /\ hi = node.s + y
    BY <2>1
  <2> HIDE DEF lo, hi
  <2> QED
    BY <1>1, <2>2, <2>3
<1>4. block_span(m, node, b) = lo .. Smaller(hi, node.e) - 1
  BY DEF block_span
<1>5. Pos(m, tn) = node.s .. node.e - 1
  BY DEF Pos
<1> HIDE DEF node, per, lo, hi
<1>6. block_span(m, node, b) = {q \in Pos(m, tn) : lo <= q /\ q < hi}
  BY <1>1, <1>3, <1>4, <1>5 DEF Smaller
<1>7. /\ Lefts(node, block_span(m, node, b)) = Leftward(m, tn) \cap block_span(m, node, b)
      /\ Leftward(m, tn) \subseteq Pos(m, tn)
  <2>1. block_span(m, node, b) \in SUBSET Pos(m, tn)
    BY <1>6
  <2> QED
    BY <2>1, <1>5, NodeFacts DEF node, Positions
<1>8. Lefts(node, block_span(m, node, b)) = {q \in Leftward(m, tn) : lo <= q /\ q < hi}
  BY <1>6, <1>7
<1> QED
  BY <1>3, <1>6, <1>8 DEF node, per, lo, hi

(* A node's blocks, as tasks. *)
LEMMA BlocksOf ==
  ASSUME NEW bcount \in Nat \ {0}, NEW tn \in Nat, NEW t \in tn * bcount .. (tn + 1) * bcount - 1
  PROVE  t \in Nat /\ t \div bcount = tn /\ t % bcount \in 0 .. bcount - 1
<1>1. tn * bcount \in Nat /\ (tn + 1) * bcount = tn * bcount + bcount /\ tn * bcount = bcount * tn
  BY SMT
<1>2. PICK r \in 0 .. bcount - 1 : t = tn * bcount + r
  <2>1. PICK x : x = tn * bcount
    OBVIOUS
  <2>2. t \in x .. x + bcount - 1 /\ x \in Nat
    BY <1>1, <2>1
  <2>3. t - x \in 0 .. bcount - 1 /\ t = x + (t - x)
    BY <2>2
  <2> QED
    BY <2>1, <2>3
<1>3. (bcount * tn + r) \div bcount = tn /\ (bcount * tn + r) % bcount = r
  BY DivModUnique
<1>4. t = bcount * tn + r
  BY <1>1, <1>2
<1>5. t \in Nat
  BY <1>1, <1>2
<1>6. t \div bcount = tn /\ t % bcount = r
  BY <1>3, <1>4
<1> QED
  BY <1>2, <1>5, <1>6

LEMMA BlockOf ==
  ASSUME NEW bcount \in Nat \ {0}, NEW tn \in Nat, NEW b \in 0 .. bcount - 1
  PROVE  /\ tn * bcount + b \in tn * bcount .. (tn + 1) * bcount - 1
         /\ (tn * bcount + b) \div bcount = tn /\ (tn * bcount + b) % bcount = b
<1>1. tn * bcount \in Nat /\ (tn + 1) * bcount = tn * bcount + bcount /\ tn * bcount = bcount * tn
  BY SMT
<1>2. PICK x : x = tn * bcount
  OBVIOUS
<1>3. x + b \in x .. x + bcount - 1
  BY <1>1, <1>2
<1>4. (bcount * tn + b) \div bcount = tn /\ (bcount * tn + b) % bcount = b
  BY DivModUnique
<1> QED
  BY <1>1, <1>2, <1>3, <1>4

----------------------------------------------------------------------------
(* The prefix sums *)

(* A running sum is defined for any values. *)
LEMMA RunExists ==
  ASSUME NEW c, NEW n \in Nat
  PROVE  \E f : f = [b \in 0 .. n |-> IF b = 0 THEN 0 ELSE f[b - 1] + c[b - 1]]
<1> DEFINE IsRun(f, x) == f = [b \in 0 .. x |-> IF b = 0 THEN 0 ELSE f[b - 1] + c[b - 1]]
           Good == {x \in Nat : \E f : IsRun(f, x)}
<1>1. 0 \in Good
  <2>1. IsRun([b \in 0 .. 0 |-> 0], 0)
    OBVIOUS
  <2> QED
    BY <2>1
<1>2. ASSUME NEW x \in Nat, x \in Good PROVE x + 1 \in Good
  <2>1. PICK f : IsRun(f, x)
    BY <1>2
  <2> DEFINE g == [b \in 0 .. x + 1 |-> IF b = 0 THEN 0 ELSE f[b - 1] + c[b - 1]]
  <2>2. \A b \in 0 .. x : g[b] = f[b]
    <3>1. \A b \in 0 .. x : f[b] = IF b = 0 THEN 0 ELSE f[b - 1] + c[b - 1]
      BY <2>1
    <3> QED
      BY <3>1
  <2>3. \A b \in 0 .. x + 1 : g[b] = IF b = 0 THEN 0 ELSE g[b - 1] + c[b - 1]
    <3>1. \A b \in 0 .. x + 1 : b # 0 => b - 1 \in 0 .. x
      OBVIOUS
    <3>2. \A b \in 0 .. x + 1 : g[b] = IF b = 0 THEN 0 ELSE f[b - 1] + c[b - 1]
      OBVIOUS
    <3> HIDE DEF g
    <3> QED
      BY <2>2, <3>1, <3>2
  <2>4. g = [b \in 0 .. x + 1 |-> g[b]]
    OBVIOUS
  <2>5. IsRun(g, x + 1)
    <3> HIDE DEF g
    <3> QED
      BY <2>3, <2>4
  <2> HIDE DEF g, IsRun
  <2>6. \E h : IsRun(h, x + 1)
    BY <2>5
  <2> QED
    BY <1>2, <2>6
<1> HIDE DEF Good
<1>3. n \in Good
  BY <1>1, <1>2, NatSetInd
<1> QED
  BY <1>3 DEF Good

LEMMA CountsBelowIsRun ==
  ASSUME NEW m, NEW tn \in Nat, plan(m).bcount \in Nat
  PROVE  \A b \in 0 .. plan(m).bcount :
           CountsBelow(m, tn)[b] =
             IF b = 0 THEN 0
             ELSE CountsBelow(m, tn)[b - 1] + mem.blk_cnt[tn * plan(m).bcount + b - 1]
<1> DEFINE bcount == plan(m).bcount
           IsRun(f) == f = [b \in 0 .. bcount |->
                              IF b = 0 THEN 0 ELSE f[b - 1] + mem.blk_cnt[tn * bcount + b - 1]]
           c == [b \in 0 .. bcount - 1 |-> mem.blk_cnt[tn * bcount + b]]
<1>1. PICK f : f = [b \in 0 .. bcount |-> IF b = 0 THEN 0 ELSE f[b - 1] + c[b - 1]]
  <2> HIDE DEF c, bcount
  <2> QED
    BY RunExists DEF bcount
<1>2. \A b \in 0 .. bcount : b # 0 => c[b - 1] = mem.blk_cnt[tn * bcount + b - 1]
  <2>1. ASSUME NEW b \in 0 .. bcount, b # 0 PROVE c[b - 1] = mem.blk_cnt[tn * bcount + b - 1]
    <3>1. b - 1 \in 0 .. bcount - 1 /\ tn * bcount \in Int
      BY <2>1
    <3>2. PICK x : x = tn * bcount
      OBVIOUS
    <3>3. x + (b - 1) = x + b - 1
      BY <3>1, <3>2
    <3> QED
      BY <3>1, <3>2, <3>3
  <2> QED
    BY <2>1
<1>3. IsRun(f)
  <2> HIDE DEF c, bcount
  <2>1. \A b \in 0 .. bcount :
          (IF b = 0 THEN 0 ELSE f[b - 1] + c[b - 1])
            = IF b = 0 THEN 0 ELSE f[b - 1] + mem.blk_cnt[tn * bcount + b - 1]
    BY <1>2
  <2> QED
    BY <1>1, <2>1
<1>4. CountsBelow(m, tn) = CHOOSE g : IsRun(g)
  BY DEF CountsBelow
<1> HIDE DEF IsRun
<1>5. IsRun(CountsBelow(m, tn))
  BY <1>3, <1>4
<1> QED
  BY <1>5 DEF IsRun

(* The sums of the counts of a node's blocks are what is before them. *)
LEMMA SumsOfCounts ==
  ASSUME NEW m, NEW tn, AtNode(m, tn), ~Node(m, tn).split.is_leaf,
         \A t \in Blocks(m, tn) : IsCounted(m, t)
  PROVE  /\ \A b \in 0 .. plan(m).bcount :
              CountsBelow(m, tn)[b] =
                Cardinality(Below(Leftward(m, tn), Node(m, tn).s + b * Per(m, Node(m, tn))))
         /\ CountsBelow(m, tn)[plan(m).bcount] = Cardinality(Leftward(m, tn))
<1> DEFINE node == Node(m, tn)
           s == node.s
           e == node.e
           L == Leftward(m, tn)
           per == Per(m, node)
           bcount == plan(m).bcount
           before(b) == Cardinality(Below(L, s + b * per))
           Good == {b \in Nat : b <= bcount => CountsBelow(m, tn)[b] = before(b)}
<1>1. bcount \in Nat \ {0} /\ tn \in Nat
  BY ShapeFacts DEF AtNode, Upto
<1>2. /\ s \in Nat /\ e \in Nat /\ s <= e /\ per \in Nat /\ e - s <= bcount * per
      /\ Positions(s, e, L) /\ L \in SUBSET (s .. e - 1)
  BY NodeFacts DEF Positions
<1>3. \A b \in 0 .. bcount :
        CountsBelow(m, tn)[b] =
          IF b = 0 THEN 0 ELSE CountsBelow(m, tn)[b - 1] + mem.blk_cnt[tn * bcount + b - 1]
  BY <1>1, CountsBelowIsRun
<1>4. 0 \in Good
  <2>1. CountsBelow(m, tn)[0] = 0
    BY <1>1, <1>3
  <2>2. s + 0 * per = s
    BY <1>2
  <2>3. Below(L, s) = {}
    BY <1>2 DEF Below
  <2>4. before(0) = 0
    BY <2>2, <2>3, FS_EmptySet
  <2> HIDE DEF before
  <2> QED
    BY <2>1, <2>4
<1>5. ASSUME NEW b \in Nat, b \in Good PROVE b + 1 \in Good
  <2> SUFFICES ASSUME b + 1 <= bcount PROVE CountsBelow(m, tn)[b + 1] = before(b + 1)
    OBVIOUS
  <2>0. b \in 0 .. bcount - 1 /\ b + 1 \in 0 .. bcount /\ (b + 1) - 1 = b
    BY <1>1
  <2>1. CountsBelow(m, tn)[b] = before(b)
    <3>1. b <= bcount
      BY <1>1, <2>0
    <3> HIDE DEF before, bcount
    <3> QED
      BY <1>5, <3>1
  <2>2. CountsBelow(m, tn)[b + 1] = CountsBelow(m, tn)[b] + mem.blk_cnt[tn * bcount + b]
    <3>1. PICK x : x = tn * bcount
      OBVIOUS
    <3>2. x \in Nat
      BY <1>1, <3>1
    <3>3. x + (b + 1) - 1 = x + b
      BY <2>0, <3>2
    <3>4. CountsBelow(m, tn)[b + 1] = CountsBelow(m, tn)[(b + 1) - 1] + mem.blk_cnt[x + (b + 1) - 1]
      <4>1. b + 1 # 0
        OBVIOUS
      <4> QED
        BY <1>3, <2>0, <3>1, <4>1
    <3> QED
      BY <2>0, <3>1, <3>3, <3>4
  <2>3. mem.blk_cnt[tn * bcount + b] = Cardinality(Lefts(node, block_span(m, node, b)))
    <3>1. PICK t : t = tn * bcount + b
      OBVIOUS
    <3>2. t \in Blocks(m, tn) /\ t \div bcount = tn /\ t % bcount = b
      BY <1>1, <2>0, <3>1, BlockOf DEF Blocks
    <3>3. IsCounted(m, t)
      BY <3>2
    <3>4. mem.blk_cnt[t] = Cardinality(Lefts(node, block_span(m, node, b)))
      BY <3>2, <3>3 DEF IsCounted
    <3> QED
      BY <3>1, <3>4
  <2> DEFINE lo == s + b * per
             hi == s + (b + 1) * per
  <2>4. /\ lo \in Nat /\ hi \in Nat /\ lo <= hi
        /\ Lefts(node, block_span(m, node, b)) = {q \in L : lo <= q /\ q < hi}
    BY BlockFacts
  <2>5. before(b + 1) = before(b) + Cardinality({q \in L : lo <= q /\ q < hi})
    <3> HIDE DEF s, e, L, per
    <3>1. before(b + 1) = Cardinality(Below(L, hi)) /\ before(b) = Cardinality(Below(L, lo))
      OBVIOUS
    <3> HIDE DEF lo, hi, before
    <3>2. Cardinality(Below(L, hi)) = Cardinality(Below(L, lo)) + Cardinality({q \in L : lo <= q /\ q < hi})
      <4>1. lo \in Int /\ hi \in Int /\ lo <= hi
        BY <2>4
      <4> QED
        BY <1>2, <4>1, BelowInBlocks
    <3> QED
      BY <3>1, <3>2
  <2> HIDE DEF before, lo, hi, node, s, e, L, per
  <2> QED
    BY <2>1, <2>2, <2>3, <2>4, <2>5
<1> HIDE DEF Good
<1>6. Nat \subseteq Good
  BY <1>4, <1>5, NatSetInd
<1>7. \A b \in 0 .. bcount : CountsBelow(m, tn)[b] = before(b)
  <2>1. \A b \in 0 .. bcount : b \in Nat /\ b <= bcount
    OBVIOUS
  <2> HIDE DEF before
  <2> QED
    BY <1>6, <2>1 DEF Good
<1>8. Below(L, s + bcount * per) = L
  <2>1. PICK x : x = bcount * per
    OBVIOUS
  <2>2. x \in Nat /\ e - s <= x
    BY <1>1, <1>2, <2>1
  <2>3. ASSUME NEW q \in L PROVE q < s + x
    <3>1. q \in s .. e - 1
      BY <1>2
    <3> HIDE DEF s, e
    <3> QED
      BY <1>2, <2>2, <3>1
  <2> QED
    BY <2>1, <2>3 DEF Below
<1>9. CountsBelow(m, tn)[bcount] = Cardinality(L)
  <2>1. bcount \in 0 .. bcount
    BY <1>1
  <2>2. before(bcount) = Cardinality(L)
    BY <1>8
  <2> HIDE DEF before
  <2> QED
    BY <1>7, <2>1, <2>2
<1> QED
  BY <1>7, <1>9

----------------------------------------------------------------------------
(* What a worker's share of a phase does to the arrays *)

(* The partition of a level reads what no phase of it writes. *)
NodesStay(m) ==
  /\ job' = job
  /\ mem'[ranges(m)] = mem[ranges(m)]
  /\ mem'[order(m)] = mem[order(m)]
  /\ mem'["split"] = mem["split"]

LEMMA NodeStays ==
  ASSUME NEW m, NEW tn, NodesStay(m)
  PROVE  /\ Node(m, tn)' = Node(m, tn) /\ Leftward(m, tn)' = Leftward(m, tn)
         /\ plan(m)' = plan(m)
         /\ Per(m, Node(m, tn))' = Per(m, Node(m, tn))
         /\ \A b : Lefts(Node(m, tn), block_span(m, Node(m, tn), b))'
                     = Lefts(Node(m, tn), block_span(m, Node(m, tn), b))
<1>1. plan(m)' = plan(m)
  BY DEF plan, NodesStay
<1>2. ranges(m)' = ranges(m) /\ order(m)' = order(m)
  BY DEF ranges, order
<1>3. \A tt, node : Slot(m, tt, m.level, node)' = Slot(m, tt, m.level, node)
  BY DEF NodesStay, Slot, total_nodes
<1>4. mem.split' = mem.split
  BY DEF NodesStay
<1>5. Node(m, tn)' = Node(m, tn)
  BY <1>1, <1>2, <1>3, <1>4 DEF Node, NodesStay
<1>6. Leftward(m, tn)' = Leftward(m, tn)
  BY <1>5 DEF Leftward, Lefts
<1>7. Per(m, Node(m, tn))' = Per(m, Node(m, tn))
  BY <1>1, <1>5 DEF Per
<1>8. ASSUME NEW b
      PROVE  Lefts(Node(m, tn), block_span(m, Node(m, tn), b))'
               = Lefts(Node(m, tn), block_span(m, Node(m, tn), b))
  <2>1. block_span(m, Node(m, tn), b)' = block_span(m, Node(m, tn), b)
    BY <1>5, <1>7 DEF block_span, Smaller
  <2> QED
    BY <1>5, <2>1 DEF Lefts
<1> QED
  BY <1>1, <1>5, <1>6, <1>7, <1>8

LEMMA ChildrenStay ==
  ASSUME NEW m, NEW tn, NodesStay(m), HasChildren(m, tn),
         \A c \in {2 * tn, 2 * tn + 1} :
           /\ c \in DOMAIN mem'[ranges_next(m)]
           /\ mem'[ranges_next(m)][c] = mem[ranges_next(m)][c]
  PROVE  HasChildren(m, tn)'
<1>1. ranges_next(m)' = ranges_next(m)
  BY DEF ranges_next
<1> QED
  BY <1>1, NodeStays DEF HasChildren, Children

(* The children of a node are what has been written for it. *)
LEMMA ChildrenThen ==
  ASSUME NEW m, NEW tn, NodesStay(m), NEW rn,
         Children(rn, Node(m, tn), tn, Cardinality(Leftward(m, tn))),
         \A c \in DOMAIN rn :
           c \in DOMAIN mem'[ranges_next(m)] /\ mem'[ranges_next(m)][c] = rn[c]
  PROVE  HasChildren(m, tn)'
<1>1. ranges_next(m)' = ranges_next(m)
  BY DEF ranges_next
<1>2. Node(m, tn)' = Node(m, tn) /\ Leftward(m, tn)' = Leftward(m, tn)
  BY NodeStays
<1>3. Children(mem'[ranges_next(m)], Node(m, tn), tn, Cardinality(Leftward(m, tn)))
  BY DEF Children
<1> QED
  BY <1>1, <1>2, <1>3 DEF HasChildren, Children

LEMMA PrefixedStays ==
  ASSUME NEW m, NEW t, NodesStay(m), IsPrefixed(m, t),
         t \in DOMAIN mem'["blk_cnt"] /\ mem'["blk_cnt"][t] = mem["blk_cnt"][t]
  PROVE  IsPrefixed(m, t)'
BY NodeStays DEF IsPrefixed, Below

LEMMA CountedStays ==
  ASSUME NEW m, NEW t, NodesStay(m), IsCounted(m, t),
         t \in DOMAIN mem'["blk_cnt"] /\ mem'["blk_cnt"][t] = mem["blk_cnt"][t]
  PROVE  IsCounted(m, t)'
<1>1. plan(m)' = plan(m)
  BY NodeStays
<1>2. PICK tn, b : tn = t \div plan(m).bcount /\ b = t % plan(m).bcount
  OBVIOUS
<1>3. /\ t \in DOMAIN mem.blk_cnt
      /\ ~Node(m, tn).split.is_leaf =>
           mem.blk_cnt[t] = Cardinality(Lefts(Node(m, tn), block_span(m, Node(m, tn), b)))
  BY <1>2 DEF IsCounted
<1>4. /\ t \in DOMAIN mem.blk_cnt'
      /\ ~Node(m, tn)'.split.is_leaf =>
           mem.blk_cnt[t]' = Cardinality(Lefts(Node(m, tn), block_span(m, Node(m, tn), b)))'
  BY <1>3, NodeStays
<1>5. tn = t \div plan(m)'.bcount /\ b = t % plan(m)'.bcount
  BY <1>1, <1>2
<1> QED
  BY <1>4, <1>5 DEF IsCounted

(* Worker u, in the phase of m, does its share of it and arrives. *)
WorksAt(u, m, d) ==
  /\ u \in Workers /\ me[u] = m
  /\ IsFit(job) /\ IsLocals(m) /\ m.phase \in Phases
  /\ DOMAIN mem = Names /\ IsData(m)
  /\ at[u] = "out" /\ \A v \in Workers : at'[v] = IF v = u THEN "in" ELSE at[v]
  /\ mem' = Updated(Writes(u, d)) /\ job' = job

LEMMA ArrivedThen ==
  ASSUME NEW u, NEW m, NEW d, WorksAt(u, m, d), NEW v \in Workers
  PROVE  Arrived(v)' <=> v = u \/ Arrived(v)
BY DEF WorksAt, Arrived

LEMMA HandlesStay ==
  ASSUME NEW m
  PROVE  /\ ranges(m)' = ranges(m) /\ ranges_next(m)' = ranges_next(m)
         /\ order(m)' = order(m) /\ order_next(m)' = order_next(m)
BY DEF ranges, ranges_next, order, order_next

(* Which arrays a phase of a level leaves alone. *)
LEMMA LevelWrites ==
  ASSUME NEW u, NEW m, NEW d, WorksAt(u, m, d), m.phase \in LevelPhases
  PROVE  /\ ranges(m) \notin DOMAIN Writes(u, d)
         /\ m.phase \notin {"gather", "reduce"} =>
              order(m) \notin DOMAIN Writes(u, d) /\ "split" \notin DOMAIN Writes(u, d)
<1>0. me[u] = m
  BY DEF WorksAt
<1>1. /\ ranges(m) \in {"ranges_a", "ranges_b"} /\ ranges(m) # ranges_next(m)
      /\ order(m) \in {"order_a", "order_b"} /\ order(m) # order_next(m)
      /\ ranges_next(m) \in {"ranges_a", "ranges_b"} /\ order_next(m) \in {"order_a", "order_b"}
      /\ hist_cur(m) \in {"hist", "hist_parent"}
      /\ gathered(m) \in {"hist", "hist_parent", "hist_left"}
  BY HandlesApart DEF gathered, hist_cur
<1>2. CASE m.phase = "gather"
  <2>1. DOMAIN Writes(u, d) = {IF blocks(m) = 1 THEN gathered(m) ELSE "partials"}
    BY <1>0, <1>2, GatherWrites
  <2> QED
    BY <1>1, <1>2, <2>1
<1>3. CASE m.phase = "reduce"
  <2>1. DOMAIN Writes(u, d) = {hist_cur(m), gathered(m), "split", "leaf_value"}
    BY <1>0, <1>3, ReduceNames
  <2> QED
    BY <1>1, <1>3, <2>1
<1>4. CASE m.phase = "count"
  BY <1>0, <1>1, <1>4, CountWrites
<1>5. CASE m.phase = "prefix"
  <2>1. DOMAIN Writes(u, d) = {ranges_next(m), "blk_cnt"}
    BY <1>0, <1>5, PrefixNames
  <2> QED
    BY <1>1, <2>1
<1>6. CASE m.phase = "scatter"
  <2>1. DOMAIN Writes(u, d) = {order_next(m)}
    BY <1>0, <1>6, ScatterWrites
  <2> QED
    BY <1>1, <2>1
<1>7. CASE m.phase = "fused"
  <2>1. DOMAIN Writes(u, d) = {ranges_next(m), order_next(m)}
    BY <1>0, <1>7, FusedWrites
  <2> QED
    BY <1>1, <2>1
<1> QED
  BY <1>2, <1>3, <1>4, <1>5, <1>6, <1>7 DEF LevelPhases

LEMMA LevelStays ==
  ASSUME NEW u, NEW m, NEW d, WorksAt(u, m, d), m.phase \in LevelPhases
  PROVE  /\ AreRanges(mem[ranges(m)], plan(m).nodes) /\ AreRanges(mem[ranges(m)], plan(m).nodes)'
         /\ m.phase \notin {"gather", "reduce"} => NodesStay(m)
<1>1. mem' = Updated(Writes(u, d)) /\ DOMAIN mem = Names /\ job' = job
      /\ AreRanges(mem[ranges(m)], plan(m).nodes)
  BY DEF WorksAt, IsData
<1>2. ranges(m) \in DOMAIN mem /\ order(m) \in DOMAIN mem /\ "split" \in DOMAIN mem
  BY <1>1, HandlesApart DEF Names
<1>3. mem'[ranges(m)] = mem[ranges(m)]
  BY <1>1, <1>2, LevelWrites, UpdatedArray
<1>4. m.phase \notin {"gather", "reduce"} =>
        mem'[order(m)] = mem[order(m)] /\ mem'["split"] = mem["split"]
  BY <1>1, <1>2, LevelWrites, UpdatedArray
<1>5. plan(m)' = plan(m)
  BY <1>1 DEF plan
<1>6. AreRanges(mem[ranges(m)], plan(m).nodes)'
  BY <1>1, <1>3, <1>5, HandlesStay DEF AreRanges, IsRange, Within
<1> QED
  BY <1>1, <1>3, <1>4, <1>6 DEF NodesStay

LEMMA ResetData ==
  ASSUME NEW u, NEW m, NEW d, WorksAt(u, m, d), m.phase = "reset"
  PROVE  IsData(m)'
<1> DEFINE slots(v) == span(job.k * job.n, v)
           a == ranges(m)
<1>1. /\ u \in Workers /\ me[u] = m /\ DOMAIN mem = Names /\ mem' = Updated(Writes(u, d))
      /\ job' = job
      /\ \A v \in Workers : Arrived(v) =>
           \A tt \in Upto(job.k) : tt * job.n \in slots(v) =>
             tt \in DOMAIN mem[a] /\ mem[a][tt] = <<0, job.n>>
  BY DEF WorksAt, IsData
<1>2. /\ a \in DOMAIN Writes(u, d)
      /\ DOMAIN Writes(u, d)[a] = Trees(u)
      /\ \A tt \in Trees(u) : Writes(u, d)[a][tt] = <<0, job.n>>
  <2>1. me[u] = m
    BY <1>1
  <2>2. DOMAIN Writes(u, d) = {order(m), ranges(m)}
    BY <2>1, ResetNames
  <2>3. Writes(u, d)[a] = [tt \in Trees(u) |-> <<0, job.n>>]
    BY <2>1, ResetWrites
  <2> QED
    BY <2>2, <2>3
<1>3. a \in DOMAIN mem
  BY <1>1, HandlesApart DEF Names
<1>4. /\ \A x \in DOMAIN Writes(u, d)[a] : x \in DOMAIN mem'[a] /\ mem'[a][x] = Writes(u, d)[a][x]
      /\ \A x \in DOMAIN mem[a] :
           /\ x \in DOMAIN mem'[a]
           /\ x \notin DOMAIN Writes(u, d)[a] => mem'[a][x] = mem[a][x]
  BY <1>1, <1>2, <1>3, UpdatedArray
<1>5. ASSUME NEW v \in Workers, v = u \/ Arrived(v), NEW tt \in Upto(job.k),
             tt * job.n \in slots(v)
      PROVE  tt \in DOMAIN mem'[a] /\ mem'[a][tt] = <<0, job.n>>
  <2>0. tt \in Trees(u) <=> tt * job.n \in slots(u)
    BY DEF Trees
  <2> HIDE DEF slots, a
  <2>1. CASE tt \in DOMAIN Writes(u, d)[a]
    BY <1>2, <1>4, <2>1
  <2>2. CASE tt \notin DOMAIN Writes(u, d)[a]
    <3>1. v # u
      BY <1>2, <1>5, <2>0, <2>2
    <3>2. tt \in DOMAIN mem[a] /\ mem[a][tt] = <<0, job.n>>
      BY <1>1, <1>5, <3>1
    <3> QED
      BY <1>4, <2>2, <3>2
  <2> QED
    BY <2>1, <2>2
<1>6. \A v : slots(v)' = slots(v)
  BY <1>1 DEF span
<1>7. \A v \in Workers : Arrived(v)' => v = u \/ Arrived(v)
  BY ArrivedThen
<1>8. \A v \in Workers : Arrived(v)' =>
        \A tt \in Upto(job.k) : tt * job.n \in slots(v)' =>
          tt \in DOMAIN mem'[a] /\ mem'[a][tt] = <<0, job.n>>
  <2> HIDE DEF slots, a
  <2> QED
    BY <1>5, <1>6, <1>7
<1>9. Upto(job.k)' = Upto(job.k) /\ ranges(m)' = ranges(m)
  BY <1>1, HandlesStay DEF Upto
<1> QED
  BY <1>1, <1>8, <1>9 DEF IsData, LevelPhases

LEMMA CountData ==
  ASSUME NEW u, NEW m, NEW d, WorksAt(u, m, d), m.phase = "count"
  PROVE  IsData(m)'
<1> DEFINE w == Writes(u, d)["blk_cnt"]
<1>1. /\ u \in Workers /\ me[u] = m /\ DOMAIN mem = Names /\ mem' = Updated(Writes(u, d))
      /\ job' = job
      /\ \A v \in Workers : Arrived(v) => \A t \in BlockTasks(m, v) : IsCounted(m, t)
  BY DEF WorksAt, IsData
<1>2. NodesStay(m) /\ AreRanges(mem[ranges(m)], plan(m).nodes)'
  BY LevelStays DEF LevelPhases
<1>3. /\ DOMAIN Writes(u, d) = {"blk_cnt"} /\ DOMAIN w = BlockTasks(m, u)
      /\ \A t \in BlockTasks(m, u) :
           ~Node(m, t \div plan(m).bcount).split.is_leaf =>
             w[t] = Cardinality(Lefts(Node(m, t \div plan(m).bcount),
                      block_span(m, Node(m, t \div plan(m).bcount), t % plan(m).bcount)))
  BY <1>1, CountWrites
<1>4. "blk_cnt" \in DOMAIN mem
  BY <1>1 DEF Names
<1>5. /\ \A t \in DOMAIN w : t \in DOMAIN mem'["blk_cnt"] /\ mem'["blk_cnt"][t] = w[t]
      /\ \A t \in DOMAIN mem["blk_cnt"] :
           /\ t \in DOMAIN mem'["blk_cnt"]
           /\ t \notin DOMAIN w => mem'["blk_cnt"][t] = mem["blk_cnt"][t]
  BY <1>1, <1>3, <1>4, UpdatedArray
<1> HIDE DEF w
<1>6. ASSUME NEW t \in BlockTasks(m, u) PROVE IsCounted(m, t)'
  <2>1. PICK tn, b : tn = t \div plan(m).bcount /\ b = t % plan(m).bcount
    OBVIOUS
  <2>2. /\ t \in DOMAIN mem.blk_cnt'
        /\ ~Node(m, tn).split.is_leaf =>
             mem.blk_cnt[t]' = Cardinality(Lefts(Node(m, tn), block_span(m, Node(m, tn), b)))
    BY <1>3, <1>5, <2>1
  <2>3. /\ ~Node(m, tn)'.split.is_leaf =>
             mem.blk_cnt[t]' = Cardinality(Lefts(Node(m, tn), block_span(m, Node(m, tn), b)))'
    BY <1>2, <2>2, NodeStays
  <2>4. tn = t \div plan(m)'.bcount /\ b = t % plan(m)'.bcount
    BY <1>2, <2>1, NodeStays
  <2> QED
    BY <2>2, <2>3, <2>4 DEF IsCounted
<1>7. ASSUME NEW v \in Workers, Arrived(v), NEW t \in BlockTasks(m, v), t \notin BlockTasks(m, u)
      PROVE  IsCounted(m, t)'
  <2>1. IsCounted(m, t) /\ t \in DOMAIN mem["blk_cnt"]
    BY <1>1, <1>7 DEF IsCounted
  <2> QED
    BY <1>2, <1>3, <1>5, <1>7, <2>1, CountedStays
<1>8. \A v : BlockTasks(m, v)' = BlockTasks(m, v)
  BY <1>1 DEF BlockTasks, span, plan
<1>9. \A v \in Workers : Arrived(v)' => v = u \/ Arrived(v)
  BY ArrivedThen
<1>10. \A v \in Workers : Arrived(v)' => \A t \in BlockTasks(m, v) : IsCounted(m, t)'
  BY <1>6, <1>7, <1>9
<1> QED
  BY <1>2, <1>8, <1>10 DEF IsData, LevelPhases

(* The children of a node are not written by the owner of another. *)
LEMMA ChildrenOfOthers ==
  ASSUME NEW tns, tns \subseteq Nat, NEW tn \in Nat, tn \notin tns
  PROVE  2 * tn \notin ChildrenOf(tns) /\ 2 * tn + 1 \notin ChildrenOf(tns)
<1>1. \A x \in tns : 2 * tn # 2 * x /\ 2 * tn # 2 * x + 1
                     /\ 2 * tn + 1 # 2 * x /\ 2 * tn + 1 # 2 * x + 1
  OBVIOUS
<1> QED
  BY <1>1 DEF ChildrenOf

LEMMA TasksAreNumbers ==
  ASSUME IsFit(job), NEW m, IsLocals(m), NEW u \in Workers
  PROVE  /\ NodeTasks(m, u) \subseteq Upto(Units(m)) /\ Upto(Units(m)) \subseteq Nat
         /\ BlockTasks(m, u) \subseteq Upto(Units(m) * plan(m).bcount)
         /\ Upto(Units(m) * plan(m).bcount) \subseteq Nat
<1>1. /\ Units(m) \in Nat /\ Units(m) * plan(m).bcount \in Nat
      /\ Units(m) = job.k * plan(m).nodes
  BY ShapeFacts
<1>2. NodeTasks(m, u) = span(Units(m), u) /\ BlockTasks(m, u) = span(Units(m) * plan(m).bcount, u)
  BY <1>1 DEF NodeTasks, BlockTasks
<1>3. NodeTasks(m, u) \subseteq Upto(Units(m))
  BY <1>1, <1>2, SpanBounds DEF Upto
<1>4. BlockTasks(m, u) \subseteq Upto(Units(m) * plan(m).bcount)
  BY <1>1, <1>2, SpanBounds DEF Upto
<1> QED
  BY <1>1, <1>3, <1>4 DEF Upto

LEMMA NodeAt ==
  ASSUME NEW u, NEW m, NEW d, WorksAt(u, m, d), m.phase \in LevelPhases,
         NEW tn \in Upto(Units(m))
  PROVE  AtNode(m, tn)
<1>1. AreRanges(mem[ranges(m)], plan(m).nodes)
  BY LevelStays
<1>2. IsFit(job) /\ IsLocals(m)
  BY DEF WorksAt
<1>3. IsRange(mem[ranges(m)][tn])
  BY <1>1 DEF AreRanges, Units
<1> QED
  BY <1>2, <1>3 DEF AtNode

LEMMA PrefixData ==
  ASSUME NEW u, NEW m, NEW d, WorksAt(u, m, d), m.phase = "prefix"
  PROVE  IsData(m)'
<1> DEFINE w == Writes(u, d)["blk_cnt"]
           rn == Writes(u, d)[ranges_next(m)]
           tns == NodeTasks(m, u)
           bcount == plan(m).bcount
           lefts == Counts(m, u)
<1>1. /\ u \in Workers /\ me[u] = m /\ DOMAIN mem = Names /\ mem' = Updated(Writes(u, d))
      /\ job' = job /\ IsFit(job) /\ IsLocals(m) /\ ~Arrived(u)
      /\ \A v \in Workers, tn \in Upto(Units(m)) : tn \in NodeTasks(m, v) =>
           IF Arrived(v) THEN HasChildren(m, tn) /\ \A t \in Blocks(m, tn) : IsPrefixed(m, t)
           ELSE \A t \in Blocks(m, tn) : IsCounted(m, t)
  BY DEF WorksAt, IsData, Arrived
<1>2. NodesStay(m) /\ AreRanges(mem[ranges(m)], plan(m).nodes)'
  BY LevelStays DEF LevelPhases
<1>3. tns \subseteq Upto(Units(m)) /\ Upto(Units(m)) \subseteq Nat /\ bcount \in Nat \ {0}
      /\ Units(m) \in Nat
  BY <1>1, TasksAreNumbers, ShapeFacts
<1>4. DOMAIN Writes(u, d) = {ranges_next(m), "blk_cnt"}
  BY <1>1, PrefixNames
<1>5. /\ DOMAIN w = UNION {Blocks(m, tn) : tn \in tns}
      /\ \A t \in DOMAIN w : w[t] = CountsBelow(m, t \div bcount)[t % bcount]
      /\ rn = ChildRanges(m, tns, lefts)[ranges_next(m)]
  <2>1. /\ w = [t \in TasksOf(m, u) |-> CountsBelow(m, t \div bcount)[t % bcount]]
        /\ rn = ChildRanges(m, tns, lefts)[ranges_next(m)]
    BY <1>1, PrefixWrites
  <2> HIDE DEF w, rn, lefts, bcount
  <2> QED
    BY <2>1 DEF TasksOf
<1>6. "blk_cnt" \in DOMAIN mem /\ ranges_next(m) \in DOMAIN mem
  BY <1>1, HandlesApart DEF Names
<1>7. /\ \A t \in DOMAIN w : t \in DOMAIN mem'["blk_cnt"] /\ mem'["blk_cnt"][t] = w[t]
      /\ \A t \in DOMAIN mem["blk_cnt"] :
           /\ t \in DOMAIN mem'["blk_cnt"]
           /\ t \notin DOMAIN w => mem'["blk_cnt"][t] = mem["blk_cnt"][t]
  BY <1>1, <1>4, <1>6, UpdatedArray
<1>8. /\ \A c \in DOMAIN rn : c \in DOMAIN mem'[ranges_next(m)] /\ mem'[ranges_next(m)][c] = rn[c]
      /\ \A c \in DOMAIN mem[ranges_next(m)] :
           /\ c \in DOMAIN mem'[ranges_next(m)]
           /\ c \notin DOMAIN rn => mem'[ranges_next(m)][c] = mem[ranges_next(m)][c]
  BY <1>1, <1>4, <1>6, UpdatedArray
<1>9. /\ DOMAIN rn = ChildrenOf(tns)
      /\ \A tn \in tns : Children(rn, Node(m, tn), tn, lefts[tn])
  <2>1. tns \subseteq Nat
    BY <1>3
  <2> HIDE DEF tns, lefts, rn
  <2> QED
    BY <1>5, <2>1, ChildRangesWritten
<1>10. plan(m)' = plan(m) /\ ranges_next(m)' = ranges_next(m)
  BY <1>2, NodeStays, HandlesStay
<1> HIDE DEF w, rn
<1>11. ASSUME NEW tn \in tns PROVE HasChildren(m, tn)' /\ \A t \in Blocks(m, tn) : IsPrefixed(m, t)'
  <2>1. AtNode(m, tn) /\ tn \in Nat
    BY <1>3, NodeAt DEF LevelPhases
  <2>2. \A t \in Blocks(m, tn) : IsCounted(m, t)
    BY <1>1, <1>3
  <2>3. ~Node(m, tn).split.is_leaf =>
          /\ \A b \in 0 .. bcount :
               CountsBelow(m, tn)[b] =
                 Cardinality(Below(Leftward(m, tn), Node(m, tn).s + b * Per(m, Node(m, tn))))
          /\ lefts[tn] = Cardinality(Leftward(m, tn))
    BY <2>1, <2>2, SumsOfCounts DEF Counts
  <2>4. HasChildren(m, tn)'
    <3>1. Children(rn, Node(m, tn), tn, Cardinality(Leftward(m, tn)))
      <4>1. Children(rn, Node(m, tn), tn, lefts[tn])
        BY <1>9
      <4> QED
        BY <2>3, <4>1 DEF Children
    <3> QED
      BY <1>2, <1>8, <3>1, ChildrenThen
  <2>5. ASSUME NEW t \in Blocks(m, tn) PROVE IsPrefixed(m, t)'
    <3>1. t \div bcount = tn /\ t % bcount \in 0 .. bcount - 1
      BY <1>3, <2>1, BlocksOf DEF Blocks
    <3>2. PICK b : b = t % bcount
      OBVIOUS
    <3>3. t \in DOMAIN w /\ w[t] = CountsBelow(m, tn)[b] /\ b \in 0 .. bcount
      <4>1. t \in DOMAIN w
        BY <1>5
      <4> QED
        BY <1>3, <1>5, <3>1, <3>2, <4>1
    <3>4. /\ t \in DOMAIN mem'["blk_cnt"]
          /\ ~Node(m, tn).split.is_leaf =>
               mem'["blk_cnt"][t] =
                 Cardinality(Below(Leftward(m, tn), Node(m, tn).s + b * Per(m, Node(m, tn))))
      BY <1>7, <2>3, <3>3
    <3>5. /\ Node(m, tn)' = Node(m, tn) /\ Leftward(m, tn)' = Leftward(m, tn)
          /\ Per(m, Node(m, tn))' = Per(m, Node(m, tn))
      BY <1>2, NodeStays
    <3>6. t \div plan(m)'.bcount = tn /\ b = t % plan(m)'.bcount
      BY <1>10, <3>1, <3>2
    <3> QED
      BY <3>4, <3>5, <3>6 DEF IsPrefixed, Below
  <2> QED
    BY <2>4, <2>5
<1>12. ASSUME NEW tn \in Upto(Units(m)), tn \notin tns
       PROVE  /\ HasChildren(m, tn) => HasChildren(m, tn)'
              /\ \A t \in Blocks(m, tn) : IsPrefixed(m, t) => IsPrefixed(m, t)'
              /\ \A t \in Blocks(m, tn) : IsCounted(m, t) => IsCounted(m, t)'
  <2>1. tns \subseteq Nat /\ tn \in Nat
    BY <1>3
  <2>2. 2 * tn \notin DOMAIN rn /\ 2 * tn + 1 \notin DOMAIN rn
    <3> HIDE DEF tns
    <3> QED
      BY <1>9, <1>12, <2>1, ChildrenOfOthers
  <2>3. HasChildren(m, tn) => HasChildren(m, tn)'
    <3> SUFFICES ASSUME HasChildren(m, tn) PROVE HasChildren(m, tn)'
      OBVIOUS
    <3>1. 2 * tn \in DOMAIN mem[ranges_next(m)] /\ 2 * tn + 1 \in DOMAIN mem[ranges_next(m)]
      BY DEF HasChildren, Children
    <3> QED
      BY <1>2, <1>8, <2>2, <3>1, ChildrenStay
  <2>4. ASSUME NEW t \in Blocks(m, tn) PROVE t \notin DOMAIN w
    <3>1. t \div bcount = tn
      BY <1>3, <2>1, BlocksOf DEF Blocks
    <3>2. \A x \in tns : t \in Blocks(m, x) => t \div bcount = x
      BY <1>3, <2>1, BlocksOf DEF Blocks
    <3> HIDE DEF tns, bcount
    <3> QED
      BY <1>5, <1>12, <3>1, <3>2
  <2>5. ASSUME NEW t \in Blocks(m, tn), IsPrefixed(m, t) PROVE IsPrefixed(m, t)'
    <3>1. t \in DOMAIN mem["blk_cnt"]
      BY <2>5 DEF IsPrefixed
    <3> QED
      BY <1>2, <1>7, <2>4, <2>5, <3>1, PrefixedStays
  <2>6. ASSUME NEW t \in Blocks(m, tn), IsCounted(m, t) PROVE IsCounted(m, t)'
    <3>1. t \in DOMAIN mem["blk_cnt"]
      BY <2>6 DEF IsCounted
    <3> QED
      BY <1>2, <1>7, <2>4, <2>6, <3>1, CountedStays
  <2> QED
    BY <2>3, <2>5, <2>6
<1>13. /\ \A v : NodeTasks(m, v)' = NodeTasks(m, v)
       /\ \A tn : Blocks(m, tn)' = Blocks(m, tn)
       /\ Upto(Units(m))' = Upto(Units(m))
  BY <1>1 DEF NodeTasks, span, plan, Blocks, Upto, Units
<1>14. \A v \in Workers : Arrived(v)' <=> v = u \/ Arrived(v)
  BY ArrivedThen
<1>15. ASSUME NEW v \in Workers, NEW tn \in Upto(Units(m)), tn \in NodeTasks(m, v)
       PROVE  IF Arrived(v)' THEN HasChildren(m, tn)' /\ \A t \in Blocks(m, tn) : IsPrefixed(m, t)'
              ELSE \A t \in Blocks(m, tn) : IsCounted(m, t)'
  <2>1. CASE v = u
    BY <1>11, <1>14, <1>15, <2>1
  <2>2. CASE v # u
    <3>1. tn \notin tns
      <4>1. NodeTasks(m, u) = span(Units(m), u) /\ NodeTasks(m, v) = span(Units(m), v)
        BY DEF NodeTasks, Units
      <4> QED
        BY <1>1, <1>3, <1>15, <2>2, <4>1, SpansApart
    <3>2. IF Arrived(v) THEN HasChildren(m, tn) /\ \A t \in Blocks(m, tn) : IsPrefixed(m, t)
          ELSE \A t \in Blocks(m, tn) : IsCounted(m, t)
      BY <1>1, <1>15
    <3> HIDE DEF tns
    <3> QED
      BY <1>12, <1>14, <2>2, <3>1, <3>2
  <2> QED
    BY <2>1, <2>2
<1>16. \A v \in Workers, tn \in Upto(Units(m)) : tn \in NodeTasks(m, v) =>
         IF Arrived(v)' THEN HasChildren(m, tn)' /\ \A t \in Blocks(m, tn) : IsPrefixed(m, t)'
         ELSE \A t \in Blocks(m, tn) : IsCounted(m, t)'
  BY <1>15
<1> QED
  BY <1>2, <1>13, <1>16 DEF IsData, LevelPhases

LEMMA LeftwardCounted ==
  ASSUME NEW m, NEW tn
  PROVE  LeftCount(m, tn) = Cardinality(Leftward(m, tn))
<1>1. DOMAIN Node(m, tn).row = Node(m, tn).s .. Node(m, tn).e - 1
  BY DEF Node
<1> QED
  BY <1>1 DEF LeftCount, Leftward

LEMMA FusedData ==
  ASSUME NEW u, NEW m, NEW d, WorksAt(u, m, d), m.phase = "fused"
  PROVE  IsData(m)'
<1> DEFINE rn == Writes(u, d)[ranges_next(m)]
           tns == NodeTasks(m, u)
           lefts == LeftCounts(m, u)
<1>1. /\ u \in Workers /\ me[u] = m /\ DOMAIN mem = Names /\ mem' = Updated(Writes(u, d))
      /\ job' = job /\ IsFit(job) /\ IsLocals(m)
      /\ \A v \in Workers : Arrived(v) => \A tn \in NodeTasks(m, v) : HasChildren(m, tn)
  BY DEF WorksAt, IsData
<1>2. NodesStay(m) /\ AreRanges(mem[ranges(m)], plan(m).nodes)'
  BY LevelStays DEF LevelPhases
<1>3. tns \subseteq Nat /\ \A v \in Workers : NodeTasks(m, v) \subseteq Nat
  BY <1>1, TasksAreNumbers
<1>4. DOMAIN Writes(u, d) = {ranges_next(m), order_next(m)} /\ rn = ChildRanges(m, tns, lefts)[ranges_next(m)]
  <2>1. me[u] = m
    BY <1>1
  <2>2. DOMAIN Writes(u, d) = {ranges_next(m), order_next(m)}
    BY <2>1, FusedWrites
  <2>3. rn = ChildRanges(m, tns, lefts)[ranges_next(m)]
    BY <2>1, FusedWrites
  <2> QED
    BY <2>2, <2>3
<1>5. ranges_next(m) \in DOMAIN mem
  BY <1>1, HandlesApart DEF Names
<1>6. /\ \A c \in DOMAIN rn : c \in DOMAIN mem'[ranges_next(m)] /\ mem'[ranges_next(m)][c] = rn[c]
      /\ \A c \in DOMAIN mem[ranges_next(m)] :
           /\ c \in DOMAIN mem'[ranges_next(m)]
           /\ c \notin DOMAIN rn => mem'[ranges_next(m)][c] = mem[ranges_next(m)][c]
  BY <1>1, <1>4, <1>5, UpdatedArray
<1>7. DOMAIN rn = ChildrenOf(tns) /\ \A tn \in tns : Children(rn, Node(m, tn), tn, lefts[tn])
  <2> HIDE DEF tns, lefts, rn
  <2> QED
    BY <1>3, <1>4, ChildRangesWritten
<1>8. \A tn \in tns : lefts[tn] = Cardinality(Leftward(m, tn))
  BY LeftwardCounted DEF LeftCounts
<1> HIDE DEF rn, lefts
<1>9. ASSUME NEW tn \in tns PROVE HasChildren(m, tn)'
  <2>1. Children(rn, Node(m, tn), tn, Cardinality(Leftward(m, tn)))
    <3>1. Children(rn, Node(m, tn), tn, lefts[tn]) /\ lefts[tn] = Cardinality(Leftward(m, tn))
      BY <1>7, <1>8
    <3> QED
      BY <3>1
  <2> QED
    BY <1>2, <1>6, <2>1, ChildrenThen
<1>10. ASSUME NEW tn \in Nat, tn \notin tns, HasChildren(m, tn) PROVE HasChildren(m, tn)'
  <2>1. 2 * tn \notin DOMAIN rn /\ 2 * tn + 1 \notin DOMAIN rn
    <3> HIDE DEF tns
    <3> QED
      BY <1>3, <1>7, <1>10, ChildrenOfOthers
  <2>2. 2 * tn \in DOMAIN mem[ranges_next(m)] /\ 2 * tn + 1 \in DOMAIN mem[ranges_next(m)]
    BY <1>10 DEF HasChildren, Children
  <2> QED
    BY <1>2, <1>6, <1>10, <2>1, <2>2, ChildrenStay
<1>11. \A v : NodeTasks(m, v)' = NodeTasks(m, v)
  BY <1>1 DEF NodeTasks, span, plan
<1>12. \A v \in Workers : Arrived(v)' => v = u \/ Arrived(v)
  BY ArrivedThen
<1>13. \A v \in Workers : Arrived(v)' => \A tn \in NodeTasks(m, v) : HasChildren(m, tn)'
  <2>1. ASSUME NEW v \in Workers, v = u \/ Arrived(v), NEW tn \in NodeTasks(m, v)
        PROVE  HasChildren(m, tn)'
    <3>1. CASE tn \in tns
      BY <1>9, <3>1
    <3>2. CASE tn \notin tns
      <4>1. tn \in Nat /\ HasChildren(m, tn)
        BY <1>1, <1>3, <2>1, <3>2
      <4> QED
        BY <1>10, <3>2, <4>1
    <3> QED
      BY <3>1, <3>2
  <2> QED
    BY <1>12, <2>1
<1> QED
  BY <1>2, <1>11, <1>13 DEF IsData, LevelPhases

LEMMA ScatterData ==
  ASSUME NEW u, NEW m, NEW d, WorksAt(u, m, d), m.phase = "scatter"
  PROVE  IsData(m)'
<1>1. /\ me[u] = m /\ DOMAIN mem = Names /\ mem' = Updated(Writes(u, d)) /\ job' = job
      /\ \A tn \in Upto(Units(m)) : HasChildren(m, tn) /\ \A t \in Blocks(m, tn) : IsPrefixed(m, t)
  BY DEF WorksAt, IsData
<1>2. NodesStay(m) /\ AreRanges(mem[ranges(m)], plan(m).nodes)'
  BY LevelStays DEF LevelPhases
<1>3. DOMAIN Writes(u, d) = {order_next(m)}
  BY <1>1, ScatterWrites
<1>4. /\ order_next(m) \in {"order_a", "order_b"} /\ ranges_next(m) \in {"ranges_a", "ranges_b"}
      /\ "blk_cnt" \in DOMAIN mem /\ ranges_next(m) \in DOMAIN mem
  BY <1>1, HandlesApart DEF Names
<1>5. mem'["blk_cnt"] = mem["blk_cnt"] /\ mem'[ranges_next(m)] = mem[ranges_next(m)]
  BY <1>1, <1>3, <1>4, UpdatedArray
<1>6. ASSUME NEW tn \in Upto(Units(m))
      PROVE  HasChildren(m, tn)' /\ \A t \in Blocks(m, tn) : IsPrefixed(m, t)'
  <2>1. HasChildren(m, tn) /\ \A t \in Blocks(m, tn) : IsPrefixed(m, t)
    BY <1>1
  <2>2. HasChildren(m, tn)'
    <3>1. 2 * tn \in DOMAIN mem[ranges_next(m)] /\ 2 * tn + 1 \in DOMAIN mem[ranges_next(m)]
      BY <2>1 DEF HasChildren, Children
    <3> QED
      BY <1>2, <1>5, <2>1, <3>1, ChildrenStay
  <2>3. ASSUME NEW t \in Blocks(m, tn) PROVE IsPrefixed(m, t)'
    <3>1. IsPrefixed(m, t) /\ t \in DOMAIN mem["blk_cnt"]
      BY <2>1 DEF IsPrefixed
    <3> QED
      BY <1>2, <1>5, <3>1, PrefixedStays
  <2> QED
    BY <2>2, <2>3
<1>7. (\A tn : Blocks(m, tn)' = Blocks(m, tn)) /\ Upto(Units(m))' = Upto(Units(m))
  BY <1>1 DEF plan, Blocks, Upto, Units
<1> QED
  BY <1>2, <1>6, <1>7 DEF IsData, LevelPhases

(* The share of a worker leaves the arrays as the phase wants them. *)
LEMMA WorkData ==
  ASSUME NEW u, NEW m, NEW d, WorksAt(u, m, d)
  PROVE  IsData(m)'
<1>1. CASE m.phase \in {"init", "grad", "update"}
  BY <1>1 DEF IsData, LevelPhases
<1>2. CASE m.phase \in {"gather", "reduce"}
  <2>1. AreRanges(mem[ranges(m)], plan(m).nodes)'
    BY <1>2, LevelStays DEF LevelPhases
  <2> QED
    BY <1>2, <2>1 DEF IsData, LevelPhases
<1>3. m.phase \in Phases
  BY DEF WorksAt
<1> QED
  BY <1>1, <1>2, <1>3, ResetData, CountData, PrefixData, ScatterData, FusedData DEF Phases

----------------------------------------------------------------------------
(* The barrier opens: what all have done is what the next phase begins with. *)

Begins(m) ==
  /\ m.phase \in LevelPhases => AreRanges(mem[ranges(m)], plan(m).nodes)
  /\ m.phase = "prefix" =>
       \A tn \in Upto(Units(m)) : \A t \in Blocks(m, tn) : IsCounted(m, t)
  /\ m.phase = "scatter" =>
       \A tn \in Upto(Units(m)) : HasChildren(m, tn) /\ \A t \in Blocks(m, tn) : IsPrefixed(m, t)

(* The worker of m, at a barrier that everybody has arrived at. *)
EndsAt(m) ==
  /\ IsFit(job) /\ IsLocals(m) /\ m.phase \in Phases
  /\ \A u \in Workers : Arrived(u)
  /\ IsData(m)

(* Two moments of a level. *)
SameLevel(x, m) == x.iter = m.iter /\ x.level = m.level /\ x.flipped = m.flipped

LEMMA SameLevelSame ==
  ASSUME NEW m, NEW x, SameLevel(x, m)
  PROVE  /\ plan(x) = plan(m) /\ Units(x) = Units(m)
         /\ ranges(x) = ranges(m)
         /\ \A tn : Blocks(x, tn) = Blocks(m, tn)
         /\ \A tn : HasChildren(x, tn) <=> HasChildren(m, tn)
         /\ \A t : (IsCounted(x, t) <=> IsCounted(m, t)) /\ (IsPrefixed(x, t) <=> IsPrefixed(m, t))
<1>1. plan(x) = plan(m)
  BY DEF SameLevel, plan
<1>2. ranges(x) = ranges(m) /\ ranges_next(x) = ranges_next(m) /\ order(x) = order(m)
  BY DEF SameLevel, ranges, ranges_next, order
<1>3. \A tt, node : Slot(x, tt, x.level, node) = Slot(m, tt, m.level, node)
  BY DEF SameLevel, Slot
<1>4. \A tn : Node(x, tn) = Node(m, tn)
  BY <1>1, <1>2, <1>3 DEF Node
<1>5. \A tn : Leftward(x, tn) = Leftward(m, tn)
  BY <1>4 DEF Leftward
<1>6. \A node : Per(x, node) = Per(m, node)
  BY <1>1 DEF Per
<1>7. \A node, b : block_span(x, node, b) = block_span(m, node, b)
  BY <1>6 DEF block_span
<1>8. Units(x) = Units(m) /\ \A tn : Blocks(x, tn) = Blocks(m, tn)
  BY <1>1 DEF Units, Blocks
<1>9. \A tn : HasChildren(x, tn) <=> HasChildren(m, tn)
  BY <1>2, <1>4, <1>5 DEF HasChildren
<1>10. ASSUME NEW t PROVE IsCounted(x, t) <=> IsCounted(m, t)
  BY <1>1, <1>4, <1>7 DEF IsCounted
<1>11. ASSUME NEW t PROVE IsPrefixed(x, t) <=> IsPrefixed(m, t)
  BY <1>1, <1>4, <1>5, <1>6 DEF IsPrefixed
<1> QED
  BY <1>1, <1>2, <1>8, <1>9, <1>10, <1>11

LEMMA ResetBegins ==
  ASSUME NEW m, EndsAt(m), m.phase = "reset", NEW x, x = After(m)
  PROVE  Begins(x)
<1>1. /\ IsFit(job) /\ IsLocals(m) /\ job.n \in Nat \ {0} /\ job.k \in Nat \ {0}
      /\ \A v \in Workers, tt \in Upto(job.k) : tt * job.n \in span(job.k * job.n, v) =>
           tt \in DOMAIN mem[ranges(m)] /\ mem[ranges(m)][tt] = <<0, job.n>>
  <2>1. IsFit(job) /\ IsLocals(m) /\ IsData(m) /\ \A v \in Workers : Arrived(v)
    BY DEF EndsAt
  <2> QED
    BY <2>1, ShapeFacts DEF IsData
<1>2. x.phase = "gather" /\ x.level = 0 /\ x.flipped = m.flipped
  BY <1>1 DEF After, AfterPartition, IsLocals
<1>3. ranges(x) = ranges(m) /\ plan(x).nodes = 1
  <2>1. job.plans[0].nodes = 2 ^ 0
    <3>1. 0 \in 0 .. job.depth
      BY <1>1, ShapeFacts
    <3> QED
      BY <1>1, <3>1, PlanFacts
  <2> QED
    BY <1>2, <2>1, PowerOfZero DEF ranges, plan
<1>4. ASSUME NEW tt \in Upto(job.k)
      PROVE  tt \in DOMAIN mem[ranges(m)] /\ mem[ranges(m)][tt] = <<0, job.n>>
  <2>1. tt \in Nat /\ tt + 1 <= job.k
    BY <1>1 DEF Upto
  <2>2. job.n * (tt + 1) <= job.n * job.k
    BY <1>1, <2>1, TimesMonotone
  <2>3. PICK p, q : p = tt * job.n /\ q = job.k * job.n
    OBVIOUS
  <2>4. p \in Nat /\ q \in Nat /\ job.n * (tt + 1) = p + job.n /\ job.n * job.k = q
    <3>1. \A a, b \in Nat : a * b \in Nat /\ a * b = b * a /\ a * (b + 1) = b * a + a
      BY SMT
    <3>2. job.n \in Nat /\ job.k \in Nat
      BY <1>1
    <3>3. tt * job.n \in Nat /\ job.n * (tt + 1) = tt * job.n + job.n
      BY <2>1, <3>1, <3>2
    <3>4. job.k * job.n \in Nat /\ job.n * job.k = job.k * job.n
      BY <3>1, <3>2
    <3> QED
      BY <2>3, <3>3, <3>4
  <2>5. p \in 0 .. q - 1
    BY <1>1, <2>2, <2>4
  <2>6. PICK v \in Workers : p \in span(q, v)
    BY <2>4, <2>5, SpansCover
  <2> QED
    BY <1>1, <2>3, <2>6
<1>5. IsRange(<<0, job.n>>)
  BY <1>1 DEF IsRange
<1>6. job.k * 1 = job.k
  BY <1>1
<1>7. \A tn \in Upto(job.k) : tn \div 1 = tn
  BY <1>1 DEF Upto
<1>8. AreRanges(mem[ranges(m)], 1)
  BY <1>4, <1>5, <1>6, <1>7 DEF AreRanges
<1> QED
  BY <1>2, <1>3, <1>8 DEF Begins

LEMMA BlocksAreTasks ==
  ASSUME NEW units \in Nat, NEW bcount \in Nat \ {0}, NEW tn \in Upto(units),
         NEW t \in tn * bcount .. (tn + 1) * bcount - 1
  PROVE  t \in Upto(units * bcount)
<1>1. tn \in Nat /\ tn + 1 <= units
  BY DEF Upto
<1>2. bcount * (tn + 1) <= bcount * units
  BY <1>1, TimesMonotone
<1>3. PICK p, q, r : p = tn * bcount /\ q = (tn + 1) * bcount /\ r = units * bcount
  OBVIOUS
<1>4. p \in Nat /\ q \in Nat /\ r \in Nat /\ bcount * (tn + 1) = q /\ bcount * units = r
  BY <1>1, <1>3, SMT
<1>5. q <= r /\ t \in p .. q - 1
  BY <1>2, <1>3, <1>4
<1> QED
  BY <1>3, <1>4, <1>5 DEF Upto

LEMMA CountBegins ==
  ASSUME NEW m, EndsAt(m), m.phase = "count", NEW x, x = After(m)
  PROVE  Begins(x)
<1>1. /\ IsFit(job) /\ IsLocals(m) /\ AreRanges(mem[ranges(m)], plan(m).nodes)
      /\ \A v \in Workers : \A t \in BlockTasks(m, v) : IsCounted(m, t)
  BY DEF EndsAt, IsData, LevelPhases
<1>2. x.phase = "prefix" /\ SameLevel(x, m)
  BY <1>1 DEF After, AfterPartition, IsLocals, SameLevel
<1>3. Units(m) \in Nat /\ plan(m).bcount \in Nat \ {0} /\ Units(m) * plan(m).bcount \in Nat
  BY <1>1, ShapeFacts
<1>4. ASSUME NEW tn \in Upto(Units(m)), NEW t \in Blocks(m, tn) PROVE IsCounted(m, t)
  <2>1. t \in Upto(Units(m) * plan(m).bcount)
    BY <1>3, BlocksAreTasks DEF Blocks
  <2>2. PICK v \in Workers : t \in span(Units(m) * plan(m).bcount, v)
    BY <1>3, <2>1, SpansCover DEF Upto
  <2> QED
    BY <1>1, <2>2 DEF BlockTasks, Units
<1> QED
  BY <1>1, <1>2, <1>4, SameLevelSame DEF Begins

LEMMA PrefixBegins ==
  ASSUME NEW m, EndsAt(m), m.phase = "prefix", NEW x, x = After(m)
  PROVE  Begins(x)
<1>1. /\ IsFit(job) /\ IsLocals(m) /\ AreRanges(mem[ranges(m)], plan(m).nodes)
      /\ \A v \in Workers, tn \in Upto(Units(m)) : tn \in NodeTasks(m, v) =>
           HasChildren(m, tn) /\ \A t \in Blocks(m, tn) : IsPrefixed(m, t)
  BY DEF EndsAt, IsData, LevelPhases
<1>2. x.phase = "scatter" /\ SameLevel(x, m)
  BY <1>1 DEF After, AfterPartition, IsLocals, SameLevel
<1>3. Units(m) \in Nat
  BY <1>1, ShapeFacts
<1>4. ASSUME NEW tn \in Upto(Units(m))
      PROVE  HasChildren(m, tn) /\ \A t \in Blocks(m, tn) : IsPrefixed(m, t)
  <2>1. PICK v \in Workers : tn \in span(Units(m), v)
    BY <1>3, SpansCover DEF Upto
  <2> QED
    BY <1>1, <2>1 DEF NodeTasks, Units
<1> QED
  BY <1>1, <1>2, <1>4, SameLevelSame DEF Begins

LEMMA SameRangesBegin ==
  ASSUME NEW m, EndsAt(m), m.phase \in {"gather", "reduce"}, NEW x, x = After(m)
  PROVE  Begins(x)
<1>1. IsLocals(m) /\ AreRanges(mem[ranges(m)], plan(m).nodes)
  BY DEF EndsAt, IsData, LevelPhases
<1>2. SameLevel(x, m) /\ x.phase \notin {"prefix", "scatter"}
  BY <1>1 DEF After, AfterPartition, AfterReduce, IsLocals, SameLevel
<1> QED
  BY <1>1, <1>2, SameLevelSame DEF Begins

LEMMA TaskOf ==
  ASSUME NEW bcount \in Nat \ {0}, NEW t \in Nat
  PROVE  /\ t \div bcount \in Nat /\ t % bcount \in 0 .. bcount - 1
         /\ t \in (t \div bcount) * bcount .. ((t \div bcount) + 1) * bcount - 1
<1>1. PICK q, r : q = t \div bcount /\ r = t % bcount
  OBVIOUS
<1>2. q \in Int /\ r \in 0 .. bcount - 1 /\ r = t - bcount * q
  <2>1. /\ t \div bcount \in Int /\ t % bcount \in 0 .. bcount - 1
        /\ t % bcount = t - bcount * (t \div bcount)
    BY DivMod
  <2> QED
    BY <1>1, <2>1, Zenon
<1>3. q \in Nat
  <2>1. 0 \div bcount <= t \div bcount
    BY DivMonotone
  <2>2. (bcount * 0 + 0) \div bcount = 0
    BY DivModUnique
  <2> QED
    BY <1>1, <1>2, <2>1, <2>2
<1>4. q * bcount = bcount * q /\ (q + 1) * bcount = q * bcount + bcount /\ q * bcount \in Nat
  BY <1>3, SMT
<1>5. PICK x : x = q * bcount
  OBVIOUS
<1>6. x \in Nat /\ t = x + r /\ t \in x .. x + bcount - 1
  BY <1>2, <1>4, <1>5
<1>7. t = q * bcount + r /\ t \in q * bcount .. (q + 1) * bcount - 1
  BY <1>4, <1>5, <1>6
<1>8. q \in Nat /\ r \in 0 .. bcount - 1
  BY <1>2, <1>3
<1>9. t \div bcount = q /\ t % bcount = r
  BY <1>1
<1>10. /\ t \div bcount \in Nat /\ t % bcount \in 0 .. bcount - 1
       /\ t \in (t \div bcount) * bcount .. ((t \div bcount) + 1) * bcount - 1
  BY <1>7, <1>8, <1>9, Zenon
<1> QED
  BY <1>10

(* The range of a child of a node. *)
LEMMA ChildRange ==
  ASSUME NEW m, NEW tn, AtNode(m, tn), HasChildren(m, tn),
         NEW rn, rn = mem[ranges_next(m)]
  PROVE  /\ \A c \in {2 * tn, 2 * tn + 1} :
              /\ c \in DOMAIN rn /\ IsRange(rn[c])
              /\ \A r \in Nat : Within(rn[c], r) => Within(mem[ranges(m)][tn], r)
         /\ \A r \in Nat : ~ (Within(rn[2 * tn], r) /\ Within(rn[2 * tn + 1], r))
<1> DEFINE node == Node(m, tn)
           s == node.s
           e == node.e
           cnt == Cardinality(Leftward(m, tn))
<1>1. /\ s \in Nat /\ e \in Nat /\ s <= e /\ e <= job.n /\ job.n \in Nat
      /\ s = mem[ranges(m)][tn][1] /\ e = mem[ranges(m)][tn][2]
  BY NodeFacts
<1>2. cnt \in Nat /\ s + cnt <= e
  <2>1. Positions(s, e, Leftward(m, tn))
    BY NodeFacts
  <2> HIDE DEF node, s, e
  <2>2. /\ cnt \in Nat /\ Cardinality(Rest(s, e, Leftward(m, tn))) \in Nat
        /\ cnt + Cardinality(Rest(s, e, Leftward(m, tn))) = e - s
    BY <2>1, RestComplements
  <2> HIDE DEF cnt
  <2> QED
    BY <1>1, <2>2
<1>3. /\ 2 * tn \in DOMAIN rn /\ 2 * tn + 1 \in DOMAIN rn
      /\ node.split.is_leaf => rn[2 * tn] = <<0, 0>> /\ rn[2 * tn + 1] = <<0, 0>>
      /\ ~node.split.is_leaf =>
           /\ rn[2 * tn] = <<s, s + cnt>> /\ rn[2 * tn + 1] = <<s + cnt, e>>
  BY DEF HasChildren, Children
<1>4. PICK a, b : a = rn[2 * tn] /\ b = rn[2 * tn + 1]
  OBVIOUS
<1> HIDE DEF node, s, e, cnt
<1>5. /\ IsRange(a) /\ IsRange(b)
      /\ \A r \in Nat : Within(a, r) \/ Within(b, r) => s <= r /\ r < e
      /\ \A r \in Nat : ~ (Within(a, r) /\ Within(b, r))
  <2>1. CASE node.split.is_leaf
    <3>1. a = <<0, 0>> /\ b = <<0, 0>>
      BY <1>3, <1>4, <2>1
    <3> QED
      BY <1>1, <3>1 DEF IsRange, Within
  <2>2. CASE ~node.split.is_leaf
    <3>1. a = <<s, s + cnt>> /\ b = <<s + cnt, e>>
      BY <1>3, <1>4, <2>2
    <3> QED
      BY <1>1, <1>2, <3>1 DEF IsRange, Within
  <2> QED
    BY <2>1, <2>2
<1>6. \A r \in Nat : s <= r /\ r < e => Within(mem[ranges(m)][tn], r)
  BY <1>1 DEF Within
<1> QED
  BY <1>3, <1>4, <1>5, <1>6

(* Where a partition leads: the next level, whose nodes are the children. *)
LEMMA NextLevel ==
  ASSUME NEW m, EndsAt(m), m.phase \in {"scatter", "fused"}, NEW x, x = After(m)
  PROVE  /\ x.phase = "gather" /\ x.level = m.level + 1 /\ x.iter = m.iter
         /\ ranges(x) = ranges_next(m) /\ order(x) = order_next(m)
         /\ plan(x).nodes = 2 * plan(m).nodes
         /\ \A tn \in Upto(Units(m)) : AtNode(m, tn) /\ HasChildren(m, tn)
<1>1. /\ IsFit(job) /\ IsLocals(m) /\ AreRanges(mem[ranges(m)], plan(m).nodes) /\ IsData(m)
      /\ \A u \in Workers : Arrived(u)
  BY DEF EndsAt, IsData, LevelPhases
<1>2. Units(m) \in Nat /\ Units(m) = job.k * plan(m).nodes /\ plan(m).nodes = 2 ^ m.level
      /\ m.level \in 0 .. job.depth - 1 /\ job.depth \in Nat
  BY <1>1, ShapeFacts DEF EndsAt, IsLocals
<1>3. ASSUME NEW tn \in Upto(Units(m)) PROVE AtNode(m, tn) /\ HasChildren(m, tn)
  <2>1. AtNode(m, tn)
    BY <1>1, <1>2 DEF AreRanges, AtNode
  <2>2. CASE m.phase = "scatter"
    BY <1>1, <2>1, <2>2 DEF IsData
  <2>3. CASE m.phase = "fused"
    <3>1. PICK v \in Workers : tn \in span(Units(m), v)
      BY <1>2, SpansCover DEF Upto
    <3>2. tn \in NodeTasks(m, v)
      BY <3>1 DEF NodeTasks, Units
    <3> QED
      BY <1>1, <2>1, <2>3, <3>2 DEF IsData
  <2> QED
    BY <2>2, <2>3
<1>4. x.phase = "gather" /\ x.level = m.level + 1 /\ x.flipped = ~m.flipped /\ x.iter = m.iter
  BY <1>1 DEF After, AfterPartition, IsLocals
<1>5. ranges(x) = ranges_next(m) /\ order(x) = order_next(m)
  BY <1>1, <1>4 DEF ranges, ranges_next, order, order_next, IsLocals
<1>6. plan(x).nodes = 2 * plan(m).nodes
  <2>1. x.level \in 0 .. job.depth
    BY <1>2, <1>4
  <2>2. plan(x).nodes = 2 ^ x.level
    BY <1>1, <2>1, PlanFacts DEF plan
  <2>3. 2 ^ (m.level + 1) = 2 * 2 ^ m.level
    BY <1>2, PowerDoubles
  <2> QED
    BY <1>2, <1>4, <2>2, <2>3
<1> QED
  BY <1>3, <1>4, <1>5, <1>6

(* A node of the next level is a child. *)
LEMMA ChildOf ==
  ASSUME NEW k \in Nat \ {0}, NEW nodes \in Nat \ {0}, NEW c \in Upto(k * (2 * nodes))
  PROVE  /\ c \in Nat /\ c \div 2 \in Upto(k * nodes)
         /\ c = 2 * (c \div 2) + (c % 2) /\ c % 2 \in {0, 1}
         /\ c \div (2 * nodes) = (c \div 2) \div nodes
         /\ c % (2 * nodes) = 2 * ((c \div 2) % nodes) + (c % 2)
<1>1. PICK kn : kn = k * nodes
  OBVIOUS
<1>2. kn \in Nat /\ k * (2 * nodes) = 2 * kn
  <2>1. \A a, b \in Nat : a * b \in Nat /\ a * (2 * b) = 2 * (a * b)
    BY SMT
  <2> QED
    BY <1>1, <2>1
<1>3. c \in Nat /\ c < 2 * kn
  BY <1>2 DEF Upto
<1>4. c \div 2 \in 0 .. kn - 1 /\ c = 2 * (c \div 2) + (c % 2) /\ c % 2 \in {0, 1}
  BY <1>2, <1>3
<1>5. PICK h, b : h = c \div 2 /\ b = c % 2
  OBVIOUS
<1>6. h \in Nat /\ b \in {0, 1} /\ c = 2 * h + b
  BY <1>2, <1>4, <1>5
<1>7. /\ h \div nodes \in Nat /\ h % nodes \in 0 .. nodes - 1
      /\ h \in (h \div nodes) * nodes .. ((h \div nodes) + 1) * nodes - 1
  BY <1>6, TaskOf
<1>8. h % nodes = h - nodes * (h \div nodes)
  BY <1>6, DivMod
<1>9. PICK q, r, p : q = h \div nodes /\ r = h % nodes /\ p = nodes * q
  OBVIOUS
<1>10. q \in Nat /\ r \in 0 .. nodes - 1 /\ p \in Nat /\ r = h - p
  <2>1. q \in Nat /\ r \in 0 .. nodes - 1
    BY <1>7, <1>9
  <2> QED
    BY <1>8, <1>9, <2>1, ProductsGrow
<1>11. PICK d, y : d = 2 * nodes /\ y = 2 * r + b
  OBVIOUS
<1>12. d \in Nat \ {0} /\ y \in 0 .. d - 1
  BY <1>6, <1>10, <1>11
<1>13. (d * q + y) \div d = q /\ (d * q + y) % d = y
  <2>1. q \in Int
    BY <1>10
  <2> QED
    BY <1>12, <2>1, DivModUnique
<1>14. c = d * q + y
  <2>1. d * q = 2 * p
    <3>1. \A u, v \in Nat : (2 * u) * v = 2 * (u * v)
      BY SMT
    <3> QED
      BY <1>9, <1>10, <1>11, <3>1
  <2>2. c = 2 * p + y
    BY <1>6, <1>10, <1>11
  <2> QED
    BY <2>1, <2>2
<1>15. c \div d = q /\ c % d = y
  BY <1>13, <1>14
<1> QED
  BY <1>1, <1>2, <1>3, <1>4, <1>5, <1>9, <1>11, <1>15 DEF Upto

(* The children of the nodes of a level are the nodes of the next. *)
LEMMA PartitionBegins ==
  ASSUME NEW m, EndsAt(m), m.phase \in {"scatter", "fused"}, NEW x, x = After(m)
  PROVE  Begins(x)
<1> DEFINE f == mem[ranges(m)]
           rn == mem[ranges_next(m)]
           nodes == plan(m).nodes
<1>1. IsFit(job) /\ IsLocals(m) /\ AreRanges(f, nodes)
  BY DEF EndsAt, IsData, LevelPhases
<1>2. /\ job.k \in Nat \ {0} /\ nodes \in Nat \ {0} /\ Units(m) \in Nat
      /\ Units(m) = job.k * nodes
  BY <1>1, ShapeFacts
<1>3. /\ x.phase = "gather" /\ ranges(x) = ranges_next(m) /\ plan(x).nodes = 2 * nodes
      /\ \A tn \in Upto(Units(m)) : AtNode(m, tn) /\ HasChildren(m, tn)
  BY NextLevel
<1> HIDE DEF f, rn, nodes
<1>4. ASSUME NEW c \in Upto(job.k * (2 * nodes))
      PROVE  /\ c \in Nat /\ c \div 2 \in Upto(Units(m)) /\ c \in {2 * (c \div 2), 2 * (c \div 2) + 1}
             /\ c \div (2 * nodes) = (c \div 2) \div nodes
  <2>1. PICK h, b : h = c \div 2 /\ b = c % 2
    OBVIOUS
  <2>2. /\ c \in Nat /\ h \in Upto(job.k * nodes) /\ c = 2 * h + b /\ b \in {0, 1}
        /\ c \div (2 * nodes) = h \div nodes
    <3>1. nodes \in Nat \ {0} /\ job.k \in Nat \ {0} /\ c \in Upto(job.k * (2 * nodes))
      BY <1>2
    <3> QED
      BY <2>1, <3>1, ChildOf
  <2>3. h \in Nat
    BY <2>2 DEF Upto
  <2> QED
    BY <1>2, <2>1, <2>2, <2>3
<1>5. ASSUME NEW tn \in Upto(Units(m))
      PROVE  /\ AtNode(m, tn) /\ HasChildren(m, tn) /\ IsRange(f[tn])
             /\ \A c \in {2 * tn, 2 * tn + 1} :
                  /\ c \in DOMAIN rn /\ IsRange(rn[c])
                  /\ \A r \in Nat : Within(rn[c], r) => Within(f[tn], r)
             /\ \A r \in Nat : ~ (Within(rn[2 * tn], r) /\ Within(rn[2 * tn + 1], r))
  <2>1. AtNode(m, tn) /\ IsRange(f[tn])
    BY <1>1, <1>2 DEF AreRanges, AtNode, f
  <2>2. HasChildren(m, tn)
    BY <1>3
  <2> QED
    BY <2>1, <2>2, ChildRange DEF f, rn
<1>6. ASSUME NEW c \in Upto(job.k * (2 * nodes)), NEW b \in Upto(job.k * (2 * nodes)),
             c # b, c \div (2 * nodes) = b \div (2 * nodes), NEW r \in Nat,
             Within(rn[c], r), Within(rn[b], r)
      PROVE  FALSE
  <2>1. PICK tc, tb : tc = c \div 2 /\ tb = b \div 2
    OBVIOUS
  <2>2. /\ tc \in Upto(Units(m)) /\ c \in {2 * tc, 2 * tc + 1}
        /\ tb \in Upto(Units(m)) /\ b \in {2 * tb, 2 * tb + 1}
        /\ tc \div nodes = tb \div nodes
    BY <1>4, <1>6, <2>1
  <2>3. CASE tc = tb
    BY <1>5, <1>6, <2>2, <2>3
  <2>4. CASE tc # tb
    <3>1. Within(f[tc], r) /\ Within(f[tb], r)
      BY <1>5, <1>6, <2>2
    <3>2. ~ (Within(f[tc], r) /\ Within(f[tb], r))
      BY <1>1, <1>2, <2>2, <2>4 DEF AreRanges
    <3> QED
      BY <3>1, <3>2
  <2> QED
    BY <2>3, <2>4
<1>7. \A c \in Upto(job.k * (2 * nodes)) : c \in DOMAIN rn /\ IsRange(rn[c])
  BY <1>4, <1>5
<1>8. AreRanges(rn, 2 * nodes)
  BY <1>6, <1>7 DEF AreRanges
<1> QED
  BY <1>3, <1>8 DEF Begins, rn

LEMMA AllBegin ==
  ASSUME NEW m, EndsAt(m), NEW x, x = After(m)
  PROVE  Begins(x)
<1>1. CASE m.phase \in {"init", "grad", "update"}
  <2>1. IsLocals(m)
    BY DEF EndsAt
  <2>2. x.phase \in {"grad", "reset", "done"}
    BY <1>1, <2>1 DEF After, AfterPartition, IsLocals
  <2> QED
    BY <2>2 DEF Begins, LevelPhases
<1>2. m.phase \in Phases
  BY DEF EndsAt
<1> QED
  BY <1>1, <1>2, ResetBegins, CountBegins, PrefixBegins, SameRangesBegin, PartitionBegins DEF Phases

----------------------------------------------------------------------------
(* The data invariant holds *)

(* A step that neither writes nor moves a worker to or from a barrier that  *)
(* has not opened.                                                          *)
Quiet == UNCHANGED <<job, mem>> /\ \A v \in Workers : Arrived(v)' <=> Arrived(v)

LEMMA QuietStays ==
  ASSUME NEW m, UNCHANGED <<job, mem>>
  PROVE  /\ \A tn : HasChildren(m, tn)' <=> HasChildren(m, tn)
         /\ \A t : IsCounted(m, t)' <=> IsCounted(m, t)
         /\ \A t : IsPrefixed(m, t)' <=> IsPrefixed(m, t)
         /\ \A tn : Blocks(m, tn)' = Blocks(m, tn)
         /\ \A v : NodeTasks(m, v)' = NodeTasks(m, v) /\ BlockTasks(m, v)' = BlockTasks(m, v)
         /\ Upto(Units(m))' = Upto(Units(m))
         /\ AreRanges(mem[ranges(m)], plan(m).nodes)' <=> AreRanges(mem[ranges(m)], plan(m).nodes)
<1>1. NodesStay(m) /\ ranges_next(m)' = ranges_next(m) /\ ranges(m)' = ranges(m)
  BY HandlesStay DEF NodesStay
<1>2. plan(m)' = plan(m)
  BY DEF plan
<1>3. \A tn : Node(m, tn)' = Node(m, tn) /\ Leftward(m, tn)' = Leftward(m, tn)
  BY <1>1, NodeStays
<1>4. \A tn : HasChildren(m, tn)' <=> HasChildren(m, tn)
  BY <1>1, <1>3 DEF HasChildren, Children
<1>5. ASSUME NEW t PROVE IsCounted(m, t)' <=> IsCounted(m, t)
  <2>1. PICK tn, b : tn = t \div plan(m).bcount /\ b = t % plan(m).bcount
    OBVIOUS
  <2>2. Lefts(Node(m, tn), block_span(m, Node(m, tn), b))'
          = Lefts(Node(m, tn), block_span(m, Node(m, tn), b))
    BY <1>1, NodeStays
  <2>3. tn = t \div plan(m)'.bcount /\ b = t % plan(m)'.bcount
    BY <1>2, <2>1
  <2>4. Node(m, tn)' = Node(m, tn)
    BY <1>3
  <2> QED
    BY <2>1, <2>2, <2>3, <2>4 DEF IsCounted
<1>6. ASSUME NEW t PROVE IsPrefixed(m, t)' <=> IsPrefixed(m, t)
  <2>1. PICK tn, b : tn = t \div plan(m).bcount /\ b = t % plan(m).bcount
    OBVIOUS
  <2>2. Per(m, Node(m, tn))' = Per(m, Node(m, tn))
    BY <1>1, NodeStays
  <2>3. tn = t \div plan(m)'.bcount /\ b = t % plan(m)'.bcount
    BY <1>2, <2>1
  <2>4. Node(m, tn)' = Node(m, tn) /\ Leftward(m, tn)' = Leftward(m, tn)
    BY <1>3
  <2> QED
    BY <2>1, <2>2, <2>3, <2>4 DEF IsPrefixed, Below
<1>7. /\ \A tn : Blocks(m, tn)' = Blocks(m, tn)
      /\ \A v : NodeTasks(m, v)' = NodeTasks(m, v) /\ BlockTasks(m, v)' = BlockTasks(m, v)
      /\ Upto(Units(m))' = Upto(Units(m))
  BY <1>2 DEF Blocks, NodeTasks, BlockTasks, span, Upto, Units
<1>8. AreRanges(mem[ranges(m)], plan(m).nodes)' <=> AreRanges(mem[ranges(m)], plan(m).nodes)
  BY <1>1, <1>2 DEF AreRanges, IsRange, Within, Upto
<1> QED
  BY <1>4, <1>5, <1>6, <1>7, <1>8

LEMMA QuietData ==
  ASSUME NEW m, Quiet, IsData(m)
  PROVE  IsData(m)'
<1>0. UNCHANGED <<job, mem>> /\ \A v \in Workers : Arrived(v)' <=> Arrived(v)
  BY DEF Quiet
<1>1. m.phase \in LevelPhases => AreRanges(mem[ranges(m)], plan(m).nodes)'
  BY <1>0, QuietStays DEF IsData
<1>2. m.phase = "reset" =>
       \A u \in Workers : Arrived(u)' =>
         \A tt \in Upto(job.k) : tt * job.n \in span(job.k * job.n, u) =>
           tt \in DOMAIN mem[ranges(m)]' /\ mem[ranges(m)][tt]' = <<0, job.n>>
  BY <1>0, HandlesStay DEF IsData
<1>3. m.phase = "count" =>
        \A u \in Workers : Arrived(u)' => \A t \in BlockTasks(m, u)' : IsCounted(m, t)'
  BY <1>0, QuietStays DEF IsData
<1>4. m.phase = "prefix" =>
       \A u \in Workers, tn \in Upto(Units(m))' : tn \in NodeTasks(m, u)' =>
         IF Arrived(u)' THEN HasChildren(m, tn)' /\ \A t \in Blocks(m, tn)' : IsPrefixed(m, t)'
         ELSE \A t \in Blocks(m, tn)' : IsCounted(m, t)'
  BY <1>0, QuietStays DEF IsData
<1>5. m.phase = "scatter" =>
       \A tn \in Upto(Units(m))' :
         HasChildren(m, tn)' /\ \A t \in Blocks(m, tn)' : IsPrefixed(m, t)'
  BY <1>0, QuietStays DEF IsData
<1>6. m.phase = "fused" =>
       \A u \in Workers : Arrived(u)' => \A tn \in NodeTasks(m, u)' : HasChildren(m, tn)'
  BY <1>0, QuietStays DEF IsData
<1>7. /\ \A u : span(job.k * job.n, u)' = span(job.k * job.n, u)
      /\ Upto(job.k)' = Upto(job.k)
  BY <1>0 DEF span, Upto
<1> QED
  BY <1>0, <1>1, <1>2, <1>3, <1>4, <1>5, <1>6, <1>7 DEF IsData

LEMMA BeginsData ==
  ASSUME NEW m, Begins(m), UNCHANGED <<job, mem>>, \A v \in Workers : ~Arrived(v)'
  PROVE  IsData(m)'
<1>1. m.phase \in LevelPhases => AreRanges(mem[ranges(m)], plan(m).nodes)'
  BY QuietStays DEF Begins
<1>2. m.phase = "prefix" =>
       \A tn \in Upto(Units(m))' : \A t \in Blocks(m, tn)' : IsCounted(m, t)'
  BY QuietStays DEF Begins
<1>3. m.phase = "scatter" =>
       \A tn \in Upto(Units(m))' :
         HasChildren(m, tn)' /\ \A t \in Blocks(m, tn)' : IsPrefixed(m, t)'
  BY QuietStays DEF Begins
<1> QED
  BY <1>1, <1>2, <1>3 DEF IsData

LEMMA InitData == Init => DInv
<1> SUFFICES ASSUME Init PROVE DInv
  OBVIOUS
<1>1. DOMAIN mem = Names
  BY DEF Init, Allocated, Names
<1>2. \A u \in Workers : Pending(u) = me[u] /\ me[u].phase = "init"
  BY DEF Init, Bar!Init, Pending
<1>3. \A m : m.phase = "init" => IsData(m)
  BY DEF IsData, LevelPhases
<1> QED
  BY <1>1, <1>2, <1>3 DEF DInv

LEMMA UpdatedNames ==
  ASSUME NEW writes, mem' = Updated(writes)
  PROVE  DOMAIN mem' = DOMAIN mem
BY DEF Updated

LEMMA WorkKeepsData ==
  ASSUME CInv, DInv, NEW u \in Workers, Work(u)
  PROVE  DInv'
<1>1. PICK d : mem' = Updated(Writes(u, d))
  BY WorkWrites
<1>2. DOMAIN mem' = Names
  BY <1>1, UpdatedNames DEF DInv
<1>3. Goes(u)
  BY WorkWrites
<1>4. /\ at[u] = "out" /\ me[u].phase \notin Ended
      /\ at' = [at EXCEPT ![u] = IF poisoned THEN "freed" ELSE "in"]
      /\ UNCHANGED <<job, me, poisoned>>
  BY <1>3 DEF Goes, Running, Bar!Arrive
<1>5. /\ at \in [Workers -> {"out", "in", "freed"}] /\ IsFit(job) /\ IsLocals(me[u])
  BY DEF CInv, Typed
<1> SUFFICES ASSUME ~poisoned, NEW v \in Workers, NEW m, m = Pending(v)'
             PROVE  IsData(m)'
  BY <1>2, <1>4 DEF DInv
<1>6. \A w \in Workers : at'[w] = IF w = u THEN "in" ELSE at[w]
  BY <1>4, <1>5
<1>7. Pending(v)' = Pending(v)
  BY <1>4, <1>6, PendingStays
<1>8. m = me[u]
  <2>1. Pending(v) = Pending(u)
    BY DEF CInv, LockStep
  <2>2. Pending(u) = me[u]
    BY <1>4 DEF Pending
  <2> QED
    BY <1>7, <2>1, <2>2
<1>9. IsData(m)
  BY <1>7 DEF DInv
<1>10. m.phase \in Phases
  BY <1>4, <1>5, <1>8 DEF IsLocals
<1>11. WorksAt(u, m, d)
  BY <1>1, <1>4, <1>5, <1>6, <1>8, <1>9, <1>10 DEF WorksAt, DInv
<1> QED
  BY <1>11, WorkData

LEMMA OpenKeepsData ==
  ASSUME CInv, DInv, Open
  PROVE  DInv'
<1>1. /\ ~poisoned /\ \A u \in Workers : at[u] = "in"
      /\ at' = [u \in Workers |-> "freed"]
      /\ UNCHANGED <<job, me, mem, poisoned>>
  BY DEF Open, Bar!Open
<1> SUFFICES ASSUME NEW v \in Workers, NEW x, x = Pending(v)' PROVE IsData(x)'
  BY <1>1 DEF DInv
<1>2. PICK m : m = me[v]
  OBVIOUS
<1>3. Pending(v) = m
  BY <1>1, <1>2 DEF Pending
<1>4. x = After(m)
  <2>1. Pending(v)' = After(me[v])'
    BY <1>1 DEF Pending
  <2>2. After(me[v])' = After(me[v])
    BY <1>1, Zenon DEF After, AfterPartition, AfterReduce, nc, plan
  <2> QED
    BY <1>2, <2>1, <2>2
<1>5. EndsAt(m)
  <2>1. IsFit(job) /\ IsLocals(m) /\ m.phase \in Phases
    BY <1>1, <1>2 DEF CInv, Typed, AtTheCall
  <2>2. IsData(m)
    BY <1>1, <1>3 DEF DInv
  <2>3. \A u \in Workers : Arrived(u)
    BY <1>1 DEF Arrived
  <2> QED
    BY <2>1, <2>2, <2>3 DEF EndsAt
<1>6. Begins(x)
  BY <1>4, <1>5, AllBegin
<1>7. \A u \in Workers : ~Arrived(u)'
  BY <1>1 DEF Arrived
<1> QED
  BY <1>1, <1>6, <1>7, BeginsData

(* What a worker is to do next it knows before it leaves the barrier. *)
LEMMA PassPending ==
  ASSUME CInv, ~poisoned, NEW u \in Workers, Pass(u), NEW v \in Workers
  PROVE  Pending(v)' = Pending(v)
<1>1. /\ at[u] = "freed" /\ at' = [at EXCEPT ![u] = "out"]
      /\ me' = [me EXCEPT ![u] = After(@)]
      /\ UNCHANGED <<job, mem, poisoned>>
  BY DEF Pass, Bar!Leave
<1>2. at \in [Workers -> {"out", "in", "freed"}] /\ DOMAIN me = Workers
  BY DEF CInv, Typed
<1>3. CASE v = u
  <2>1. Pending(u) = After(me[u])
    BY <1>1 DEF Pending
  <2>2. me'[u] = After(me[u]) /\ at'[u] = "out"
    BY <1>1, <1>2
  <2>3. Pending(u)' = me'[u]
    BY <2>2 DEF Pending
  <2> QED
    BY <1>3, <2>1, <2>2, <2>3
<1>4. CASE v # u
  <2>1. me'[v] = me[v] /\ at'[v] = at[v]
    BY <1>1, <1>2, <1>4
  <2> QED
    BY <1>1, <2>1, PendingStays
<1> QED
  BY <1>3, <1>4

LEMMA PassKeepsData ==
  ASSUME CInv, DInv, NEW u \in Workers, Pass(u)
  PROVE  DInv'
<1>1. /\ at[u] = "freed" /\ at' = [at EXCEPT ![u] = "out"]
      /\ me' = [me EXCEPT ![u] = IF poisoned THEN Abandon(@) ELSE After(@)]
      /\ UNCHANGED <<job, mem, poisoned>>
  BY DEF Pass, Bar!Leave
<1>2. at \in [Workers -> {"out", "in", "freed"}] /\ DOMAIN me = Workers
  BY DEF CInv, Typed
<1> SUFFICES ASSUME ~poisoned, NEW v \in Workers, NEW m, m = Pending(v)'
             PROVE  IsData(m)'
  BY <1>1 DEF DInv
<1>3. m = Pending(v)
  BY PassPending
<1>4. IsData(m)
  BY <1>3 DEF DInv
<1>5. Quiet
  BY <1>1, <1>2 DEF Quiet, Arrived
<1> QED
  BY <1>4, <1>5, QuietData

LEMMA DataInvariance == Spec => [](CInv /\ DInv)
<1>1. Init => DInv
  BY InitData
<1>2. CInv /\ DInv /\ [Next]_vars => DInv'
  <2> SUFFICES ASSUME CInv, DInv, [Next]_vars PROVE DInv'
    OBVIOUS
  <2>1. ASSUME NEW u \in Workers, Work(u) PROVE DInv'
    BY <2>1, WorkKeepsData
  <2>2. ASSUME NEW u \in Workers, Pass(u) PROVE DInv'
    BY <2>2, PassKeepsData
  <2>3. ASSUME NEW u \in Workers, Fail(u) PROVE DInv'
    BY <2>3 DEF Fail, Bar!Poison, DInv
  <2>4. CASE Open
    BY <2>4, OpenKeepsData
  <2>5. ASSUME UNCHANGED <<job, me, mem, at, poisoned>> PROVE DInv'
    <3> SUFFICES ASSUME ~poisoned, NEW v \in Workers, NEW m, m = Pending(v)'
                 PROVE  IsData(m)'
      BY <2>5 DEF DInv
    <3>1. Pending(v)' = Pending(v)
      BY <2>5, PendingStays
    <3>2. Quiet
      BY <2>5 DEF Quiet, Arrived
    <3> QED
      BY <3>1, <3>2, QuietData DEF DInv
  <2>6. CASE Join
    BY <2>5, <2>6 DEF Join
  <2>7. CASE UNCHANGED vars
    BY <2>5, <2>7 DEF vars
  <2> QED
    BY <2>1, <2>2, <2>3, <2>4, <2>6, <2>7 DEF Next
<1> QED
  BY <1>1, <1>2, InitControl, NextControl, PTL DEF Spec

----------------------------------------------------------------------------
(* What a worker writes in a phase, another neither reads nor writes *)

(* Two workers in the same phase, before either has arrived. *)
Together(u, v, m) ==
  /\ u \in Workers /\ v \in Workers /\ u # v /\ me[u] = m /\ me[v] = m
  /\ IsFit(job) /\ IsLocals(m) /\ m.phase \in Phases /\ IsData(m)
  /\ ~Arrived(u) /\ ~Arrived(v)

(* Worker v leaves alone what u writes. *)
LeavesAlone(u, v, d, e) ==
  \A a \in DOMAIN Writes(u, d) : \A x \in DOMAIN Writes(u, d)[a] :
    /\ <<a, x>> \notin Reads(v)
    /\ a \in DOMAIN Writes(v, e) => x \notin DOMAIN Writes(v, e)[a]

LEMMA CellIn ==
  ASSUME NEW a, NEW x, NEW b, NEW S
  PROVE  <<a, x>> \in Cells(b, S) <=> a = b /\ x \in S
BY DEF Cells

LEMMA ShareApart ==
  ASSUME NEW u \in Workers, NEW v \in Workers, u # v, job.n \in Nat, job.k \in Nat \ {0}
  PROVE  Share(u) \cap Share(v) = {}
<1> SUFFICES ASSUME NEW x, x \in Share(u), x \in Share(v) PROVE FALSE
  OBVIOUS
<1>1. ASSUME NEW w \in Workers, x \in Share(w) PROVE x \div job.k \in span(job.n, w)
  <2>1. PICK i \in span(job.n, w), cc \in Upto(job.k) : x = i * job.k + cc
    BY <1>1 DEF Share
  <2>2. i \in Nat /\ cc \in 0 .. job.k - 1
    BY <2>1, SpanBounds DEF Upto
  <2>3. (job.k * i + cc) \div job.k = i
    BY <2>2, DivModUnique
  <2>4. i * job.k = job.k * i
    BY <2>2, SMT
  <2> QED
    BY <2>1, <2>3, <2>4
<1>2. x \div job.k \in span(job.n, u) /\ x \div job.k \in span(job.n, v)
  BY <1>1
<1> QED
  BY <1>2, SpansApart

LEMMA InitApart ==
  ASSUME NEW u, NEW v, NEW m, Together(u, v, m), m.phase = "init", NEW d, NEW e
  PROVE  LeavesAlone(u, v, d, e)
<1>1. me[u] = m /\ me[v] = m
  BY DEF Together
<1>2. Reads(v) = {}
  BY <1>1 DEF Reads
<1>3. Writes(u, d) = init_raw(u) /\ Writes(v, e) = init_raw(v)
  BY <1>1 DEF Writes
<1>4. \A w : DOMAIN init_raw(w) = {"raw"} /\ DOMAIN init_raw(w)["raw"] = Share(w)
  BY DEF init_raw, Store
<1>5. Share(u) \cap Share(v) = {}
  BY ShapeFacts, ShareApart DEF Together
<1> QED
  BY <1>2, <1>3, <1>4, <1>5 DEF LeavesAlone

LEMMA GradApart ==
  ASSUME NEW u, NEW v, NEW m, Together(u, v, m), m.phase = "grad", NEW d, NEW e
  PROVE  LeavesAlone(u, v, d, e)
<1>1. me[u] = m /\ me[v] = m
  BY DEF Together
<1>2. Reads(v) = Cells("raw", Share(v))
  BY <1>1 DEF Reads
<1>3. Writes(u, d) = gradients(u) /\ Writes(v, e) = gradients(v)
  BY <1>1 DEF Writes
<1>4. \A w : DOMAIN gradients(w) = {"gh"} /\ DOMAIN gradients(w)["gh"] = Share(w)
  BY DEF gradients, Store
<1>5. Share(u) \cap Share(v) = {}
  BY ShapeFacts, ShareApart DEF Together
<1> QED
  BY <1>2, <1>3, <1>4, <1>5, CellIn DEF LeavesAlone

LEMMA UpdateApart ==
  ASSUME NEW u, NEW v, NEW m, Together(u, v, m), m.phase = "update", NEW d, NEW e
  PROVE  LeavesAlone(u, v, d, e)
<1>1. me[u] = m /\ me[v] = m
  BY DEF Together
<1>2. Reads(v) = Cells("raw", Share(v)) \cup
                 Cells("split", DOMAIN mem.split) \cup Cells("leaf_value", DOMAIN mem.leaf_value)
  BY <1>1 DEF Reads
<1>3. Writes(u, d) = update_raw(m, u) /\ Writes(v, e) = update_raw(m, v)
  BY <1>1 DEF Writes
<1>4. \A w : DOMAIN update_raw(m, w) = {"raw"} /\ DOMAIN update_raw(m, w)["raw"] = Share(w)
  BY DEF update_raw, Store
<1>5. Share(u) \cap Share(v) = {}
  BY ShapeFacts, ShareApart DEF Together
<1> QED
  BY <1>2, <1>3, <1>4, <1>5, CellIn DEF LeavesAlone

LEMMA ResetApart ==
  ASSUME NEW u, NEW v, NEW m, Together(u, v, m), m.phase = "reset", NEW d, NEW e
  PROVE  LeavesAlone(u, v, d, e)
<1>1. me[u] = m /\ me[v] = m /\ u \in Workers /\ v \in Workers /\ u # v
  BY DEF Together
<1>2. Reads(v) = {}
  BY <1>1 DEF Reads
<1>3. ASSUME NEW w \in {u, v}, NEW f, me[w] = m
      PROVE  /\ DOMAIN Writes(w, f) = {order(m), ranges(m)}
             /\ DOMAIN Writes(w, f)[order(m)] = span(job.k * job.n, w)
             /\ DOMAIN Writes(w, f)[ranges(m)] = Trees(w)
  <2>1. DOMAIN Writes(w, f) = {order(m), ranges(m)}
    BY <1>3, ResetNames
  <2>2. DOMAIN Writes(w, f)[order(m)] = span(job.k * job.n, w)
    BY <1>3, ResetWrites
  <2>3. Writes(w, f)[ranges(m)] = [tt \in Trees(w) |-> <<0, job.n>>]
    BY <1>3, ResetWrites
  <2> QED
    BY <2>1, <2>2, <2>3
<1>4. job.k * job.n \in Nat
  <2>1. \A a, b \in Nat : a * b \in Nat
    BY SMT
  <2> QED
    BY <2>1, ShapeFacts DEF Together
<1>5. \A t : ~ (t \in span(job.k * job.n, u) /\ t \in span(job.k * job.n, v))
  BY <1>1, <1>4, SpansApart
<1>6. \A tt : ~ (tt \in Trees(u) /\ tt \in Trees(v))
  BY <1>5 DEF Trees
<1> QED
  BY <1>1, <1>2, <1>3, <1>5, <1>6 DEF LeavesAlone

LEMMA ReadsOfNode ==
  ASSUME NEW m, NEW tn, NEW S, NEW a, NEW x, <<a, x>> \in ReadsOf(m, tn, S)
  PROVE  a \in {"split", ranges(m), order(m)}
<1>1. PICK s, o : ReadsOf(m, tn, S) = Cells("split", s) \cup Cells(ranges(m), {tn}) \cup Cells(order(m), o)
  BY DEF ReadsOf
<1> QED
  BY <1>1, CellIn

LEMMA CountApart ==
  ASSUME NEW u, NEW v, NEW m, Together(u, v, m), m.phase = "count", NEW d, NEW e
  PROVE  LeavesAlone(u, v, d, e)
<1>1. me[u] = m /\ me[v] = m /\ u \in Workers /\ v \in Workers /\ u # v
  BY DEF Together
<1>2. ASSUME NEW a, NEW x, <<a, x>> \in Reads(v) PROVE a # "blk_cnt"
  <2>1. Reads(v) = UNION {ReadsOf(m, t \div plan(m).bcount,
                            block_span(m, Node(m, t \div plan(m).bcount), t % plan(m).bcount)) :
                            t \in BlockTasks(m, v)}
    BY <1>1 DEF Reads
  <2>2. a \in {"split", ranges(m), order(m)}
    BY <1>2, <2>1, ReadsOfNode
  <2> QED
    BY <2>2 DEF ranges, order
<1>3. ASSUME NEW w \in {u, v}, NEW f, me[w] = m
      PROVE  DOMAIN Writes(w, f) = {"blk_cnt"} /\ DOMAIN Writes(w, f)["blk_cnt"] = BlockTasks(m, w)
  BY <1>3, CountWrites
<1>4. \A t : ~ (t \in BlockTasks(m, u) /\ t \in BlockTasks(m, v))
  <2>1. Units(m) * plan(m).bcount \in Nat
    BY ShapeFacts DEF Together
  <2> QED
    BY <1>1, <2>1, SpansApart DEF BlockTasks, Units
<1> QED
  BY <1>1, <1>2, <1>3, <1>4 DEF LeavesAlone

LEMMA PrefixApart ==
  ASSUME NEW u, NEW v, NEW m, Together(u, v, m), m.phase = "prefix", NEW d, NEW e
  PROVE  LeavesAlone(u, v, d, e)
<1> DEFINE bcount == plan(m).bcount
<1>1. me[u] = m /\ me[v] = m /\ u \in Workers /\ v \in Workers /\ u # v
      /\ IsFit(job) /\ IsLocals(m)
  BY DEF Together
<1>2. \A w \in Workers : NodeTasks(m, w) \subseteq Nat
  BY <1>1, TasksAreNumbers
<1>3. \A tn : ~ (tn \in NodeTasks(m, u) /\ tn \in NodeTasks(m, v))
  <2>1. Units(m) \in Nat
    BY <1>1, ShapeFacts
  <2> QED
    BY <1>1, <2>1, SpansApart DEF NodeTasks, Units
<1>4. TasksOf(m, u) \cap TasksOf(m, v) = {}
  <2>1. ASSUME NEW w \in Workers, NEW t \in TasksOf(m, w) PROVE t \div bcount \in NodeTasks(m, w)
    <3>1. PICK tn \in NodeTasks(m, w) : t \in Blocks(m, tn)
      BY DEF TasksOf
    <3>2. tn \in Nat /\ bcount \in Nat \ {0}
      BY <1>1, <1>2, ShapeFacts
    <3>3. t \div bcount = tn
      BY <3>1, <3>2, BlocksOf DEF Blocks
    <3> QED
      BY <3>3
  <2> HIDE DEF bcount
  <2> QED
    BY <1>1, <1>3, <2>1
<1>5. ChildrenOf(NodeTasks(m, u)) \cap ChildrenOf(NodeTasks(m, v)) = {}
  <2>1. ASSUME NEW c \in ChildrenOf(NodeTasks(m, u)), c \in ChildrenOf(NodeTasks(m, v)) PROVE FALSE
    <3>1. PICK tn \in NodeTasks(m, u) : c \in {2 * tn, 2 * tn + 1}
      BY DEF ChildrenOf
    <3>2. tn \in Nat /\ tn \notin NodeTasks(m, v) /\ NodeTasks(m, v) \subseteq Nat
      BY <1>1, <1>2, <1>3, <3>1
    <3> QED
      BY <2>1, <3>1, <3>2, ChildrenOfOthers
  <2> QED
    BY <2>1
<1>6. ASSUME NEW a, NEW x, <<a, x>> \in Reads(v)
      PROVE  a \in {"split", ranges(m), order(m)} \/ (a = "blk_cnt" /\ x \in TasksOf(m, v))
  <2>1. Reads(v) = UNION {ReadsOf(m, tn, {}) \cup Cells("blk_cnt", Blocks(m, tn)) :
                            tn \in NodeTasks(m, v)}
    BY <1>1 DEF Reads, Blocks
  <2>2. PICK tn \in NodeTasks(m, v) :
          <<a, x>> \in ReadsOf(m, tn, {}) \/ <<a, x>> \in Cells("blk_cnt", Blocks(m, tn))
    BY <1>6, <2>1
  <2> QED
    BY <2>2, ReadsOfNode, CellIn DEF TasksOf
<1>7. ASSUME NEW w \in {u, v}, NEW f, me[w] = m
      PROVE  /\ DOMAIN Writes(w, f) = {ranges_next(m), "blk_cnt"}
             /\ DOMAIN Writes(w, f)["blk_cnt"] = TasksOf(m, w)
             /\ DOMAIN Writes(w, f)[ranges_next(m)] = ChildrenOf(NodeTasks(m, w))
  <2>1. DOMAIN Writes(w, f) = {ranges_next(m), "blk_cnt"}
    BY <1>7, PrefixNames
  <2>2. /\ Writes(w, f)["blk_cnt"] =
             [t \in TasksOf(m, w) |-> CountsBelow(m, t \div plan(m).bcount)[t % plan(m).bcount]]
        /\ Writes(w, f)[ranges_next(m)] =
             ChildRanges(m, NodeTasks(m, w), Counts(m, w))[ranges_next(m)]
    BY <1>7, PrefixWrites
  <2>4. w \in Workers /\ NodeTasks(m, w) \subseteq Nat
    BY <1>1, <1>2
  <2> QED
    BY <2>1, <2>2, <2>4, ChildRangesWritten
<1>8. ranges_next(m) \notin {"split", ranges(m), order(m), "blk_cnt"}
      /\ "blk_cnt" \notin {"split", ranges(m), order(m)}
  BY DEF ranges_next, ranges, order
<1> QED
  BY <1>1, <1>4, <1>5, <1>6, <1>7, <1>8 DEF LeavesAlone

(* Where the row at position r of a node goes. *)
Landing(m, tn, r) ==
  Node(m, tn).base + Dest(Node(m, tn).s, Node(m, tn).e, Leftward(m, tn), r)

LEMMA LandingsApart ==
  ASSUME NEW m, NEW tn, NEW to, AtNode(m, tn), AtNode(m, to),
         AreRanges(mem[ranges(m)], plan(m).nodes),
         NEW r \in Pos(m, tn), NEW q \in Pos(m, to), Landing(m, tn, r) = Landing(m, to, q)
  PROVE  tn = to /\ r = q
<1>1. /\ job.n \in Nat \ {0} /\ plan(m).nodes \in Nat \ {0} /\ Units(m) = job.k * plan(m).nodes
      /\ tn \in Upto(Units(m)) /\ to \in Upto(Units(m)) /\ job.k \in Nat
  BY ShapeFacts DEF AtNode
<1>2. PICK x, y : /\ x = Dest(Node(m, tn).s, Node(m, tn).e, Leftward(m, tn), r)
                  /\ y = Dest(Node(m, to).s, Node(m, to).e, Leftward(m, to), q)
  OBVIOUS
<1>3. ASSUME NEW c \in {tn, to}, NEW z \in Pos(m, c)
      PROVE  /\ Dest(Node(m, c).s, Node(m, c).e, Leftward(m, c), z)
                  \in Node(m, c).s .. Node(m, c).e - 1
             /\ Positions(Node(m, c).s, Node(m, c).e, Leftward(m, c))
             /\ Node(m, c).base = (c \div plan(m).nodes) * job.n
             /\ Node(m, c).s \in Nat /\ Node(m, c).e \in Nat /\ Node(m, c).e <= job.n
             /\ mem[ranges(m)][c][1] = Node(m, c).s /\ mem[ranges(m)][c][2] = Node(m, c).e
  <2>1. AtNode(m, c)
    OBVIOUS
  <2>2. /\ Positions(Node(m, c).s, Node(m, c).e, Leftward(m, c))
        /\ Node(m, c).s \in Nat /\ Node(m, c).e \in Nat /\ Node(m, c).e <= job.n
        /\ mem[ranges(m)][c][1] = Node(m, c).s /\ mem[ranges(m)][c][2] = Node(m, c).e
    BY <2>1, NodeFacts
  <2>3. Node(m, c).base = (c \div plan(m).nodes) * job.n
    BY DEF Node
  <2>4. z \in Node(m, c).s .. Node(m, c).e - 1
    BY <1>3 DEF Pos
  <2>5. Dest(Node(m, c).s, Node(m, c).e, Leftward(m, c), z) \in Node(m, c).s .. Node(m, c).e - 1
    BY <2>2, <2>4, DestInRange
  <2> QED
    BY <2>2, <2>3, <2>5
<1>4. /\ x \in Node(m, tn).s .. Node(m, tn).e - 1 /\ y \in Node(m, to).s .. Node(m, to).e - 1
      /\ x \in 0 .. job.n - 1 /\ y \in 0 .. job.n - 1
  <2>1. x \in Node(m, tn).s .. Node(m, tn).e - 1 /\ y \in Node(m, to).s .. Node(m, to).e - 1
    BY <1>2, <1>3
  <2>2. /\ Node(m, tn).s \in Nat /\ Node(m, tn).e \in Nat /\ Node(m, tn).e <= job.n
        /\ Node(m, to).s \in Nat /\ Node(m, to).e \in Nat /\ Node(m, to).e <= job.n
    BY <1>3
  <2> QED
    BY <1>1, <2>1, <2>2
<1>5. PICK tt, to2 : tt = tn \div plan(m).nodes /\ to2 = to \div plan(m).nodes
  OBVIOUS
<1>6. tt \in Int /\ to2 \in Int
  BY <1>1, <1>5 DEF Upto
<1>7. tt * job.n + x = to2 * job.n + y
  BY <1>2, <1>3, <1>5 DEF Landing
<1>8. tt = to2 /\ x = y
  <2>1. /\ (job.n * tt + x) \div job.n = tt /\ (job.n * tt + x) % job.n = x
        /\ (job.n * to2 + y) \div job.n = to2 /\ (job.n * to2 + y) % job.n = y
    BY <1>1, <1>4, <1>6, DivModUnique
  <2>2. tt * job.n = job.n * tt /\ to2 * job.n = job.n * to2
    <3>1. \A a, b \in Int : a * b = b * a
      BY SMT
    <3> QED
      BY <1>1, <1>6, <3>1
  <2> QED
    BY <1>7, <2>1, <2>2
<1>9. tn = to
  <2>1. Within(mem[ranges(m)][tn], x) /\ Within(mem[ranges(m)][to], x) /\ x \in Nat
    BY <1>1, <1>3, <1>4, <1>8 DEF Within
  <2> QED
    BY <1>1, <1>5, <1>8, <2>1 DEF AreRanges
<1>10. r = q
  <2>1. r \in Node(m, tn).s .. Node(m, tn).e - 1 /\ q \in Node(m, tn).s .. Node(m, tn).e - 1
    BY <1>9 DEF Pos
  <2>2. Positions(Node(m, tn).s, Node(m, tn).e, Leftward(m, tn))
    BY <1>3
  <2>3. Dest(Node(m, tn).s, Node(m, tn).e, Leftward(m, tn), r)
          = Dest(Node(m, tn).s, Node(m, tn).e, Leftward(m, tn), q)
    BY <1>2, <1>8, <1>9
  <2> QED
    BY <2>1, <2>2, <2>3, DestInjective
<1> QED
  BY <1>9, <1>10

MoveTo(node, S, li, ri, r) ==
  IF r \in Lefts(node, S) THEN li + Cardinality({q \in Lefts(node, S) : q < r})
  ELSE ri + Cardinality({q \in S \ Lefts(node, S) : q < r})

LEMMA NodeMovesAre ==
  ASSUME NEW m, NEW tn, AtNode(m, tn)
  PROVE  NodeMoves(m, tn) =
           IF Node(m, tn).split.is_leaf THEN {}
           ELSE {<<Landing(m, tn, r), Node(m, tn).row[r]>> : r \in Pos(m, tn)}
<1> DEFINE node == Node(m, tn)
           L == Leftward(m, tn)
<1>1. DOMAIN node.row = Pos(m, tn) /\ Pos(m, tn) = node.s .. node.e - 1
      /\ Lefts(node, DOMAIN node.row) = L /\ LeftCount(m, tn) = Cardinality(L)
  BY LeftwardCounted, NodeFacts DEF Pos, Leftward
<1>2. PICK S, li, ri : S = Pos(m, tn) /\ li = node.s /\ ri = node.s + Cardinality(L)
  OBVIOUS
<1>3. NodeMoves(m, tn) = Moves(node, S, li, ri)
  BY <1>1, <1>2 DEF NodeMoves
<1>4. Moves(node, S, li, ri) =
        IF node.split.is_leaf THEN {}
        ELSE {<<node.base + MoveTo(node, S, li, ri, r), node.row[r]>> : r \in S}
  BY DEF Moves, MoveTo
<1> HIDE DEF node, L
<1>5. ASSUME NEW r \in S PROVE node.base + MoveTo(node, S, li, ri, r) = Landing(m, tn, r)
  <2>1. MoveTo(node, S, li, ri, r) = Dest(node.s, node.e, L, r)
    BY <1>1, <1>2 DEF MoveTo, Dest, Below, Rest
  <2> QED
    BY <2>1 DEF Landing, node, L
<1>6. {<<node.base + MoveTo(node, S, li, ri, r), node.row[r]>> : r \in S}
        = {<<Landing(m, tn, r), node.row[r]>> : r \in S}
  BY <1>5
<1> QED
  BY <1>2, <1>3, <1>4, <1>6 DEF node

LEMMA NodeMovesLand ==
  ASSUME NEW m, NEW tn, AtNode(m, tn), NEW p \in Targets(NodeMoves(m, tn))
  PROVE  \E r \in Pos(m, tn) : p = Landing(m, tn, r)
<1>1. NodeMoves(m, tn) =
        IF Node(m, tn).split.is_leaf THEN {}
        ELSE {<<Landing(m, tn, r), Node(m, tn).row[r]>> : r \in Pos(m, tn)}
  BY NodeMovesAre
<1> QED
  BY <1>1 DEF Targets

LEMMA FusedApart ==
  ASSUME NEW u, NEW v, NEW m, Together(u, v, m), m.phase = "fused", NEW d, NEW e
  PROVE  LeavesAlone(u, v, d, e)
<1>1. /\ me[u] = m /\ me[v] = m /\ u \in Workers /\ v \in Workers /\ u # v
      /\ IsFit(job) /\ IsLocals(m) /\ AreRanges(mem[ranges(m)], plan(m).nodes)
  BY DEF Together, IsData, LevelPhases
<1>2. \A w \in Workers : NodeTasks(m, w) \subseteq Nat /\ NodeTasks(m, w) \subseteq Upto(Units(m))
  BY <1>1, TasksAreNumbers
<1>3. \A tn : ~ (tn \in NodeTasks(m, u) /\ tn \in NodeTasks(m, v))
  <2>1. Units(m) \in Nat
    BY <1>1, ShapeFacts
  <2> QED
    BY <1>1, <2>1, SpansApart DEF NodeTasks, Units
<1>4. \A tn \in Upto(Units(m)) : AtNode(m, tn)
  BY <1>1 DEF AtNode, AreRanges, Units
<1>5. ChildrenOf(NodeTasks(m, u)) \cap ChildrenOf(NodeTasks(m, v)) = {}
  <2>1. ASSUME NEW c \in ChildrenOf(NodeTasks(m, u)), c \in ChildrenOf(NodeTasks(m, v)) PROVE FALSE
    <3>1. PICK tn \in NodeTasks(m, u) : c \in {2 * tn, 2 * tn + 1}
      BY DEF ChildrenOf
    <3>2. tn \in Nat /\ tn \notin NodeTasks(m, v) /\ NodeTasks(m, v) \subseteq Nat
      BY <1>1, <1>2, <1>3, <3>1
    <3> QED
      BY <2>1, <3>1, <3>2, ChildrenOfOthers
  <2> QED
    BY <2>1
<1>6. ASSUME NEW a, NEW x, <<a, x>> \in Reads(v) PROVE a \in {"split", ranges(m), order(m)}
  <2>1. Reads(v) = UNION {ReadsOf(m, tn, DOMAIN Node(m, tn).row) : tn \in NodeTasks(m, v)}
    BY <1>1 DEF Reads
  <2> QED
    BY <1>6, <2>1, ReadsOfNode
<1> DEFINE land(w) == Targets(UNION {NodeMoves(m, tn) : tn \in NodeTasks(m, w)})
<1>7. ASSUME NEW w \in {u, v}, NEW f, me[w] = m
      PROVE  /\ DOMAIN Writes(w, f) = {ranges_next(m), order_next(m)}
             /\ DOMAIN Writes(w, f)[order_next(m)] = land(w)
             /\ DOMAIN Writes(w, f)[ranges_next(m)] = ChildrenOf(NodeTasks(m, w))
  <2>1. DOMAIN Writes(w, f) = {ranges_next(m), order_next(m)}
    BY <1>7, FusedNames
  <2>2. Writes(w, f)[ranges_next(m)] =
             ChildRanges(m, NodeTasks(m, w), LeftCounts(m, w))[ranges_next(m)]
    BY <1>7, FusedWrites
  <2>4. DOMAIN Writes(w, f)[order_next(m)] = FusedTargets(m, w)
    BY <1>7, FusedWrites
  <2>3. w \in Workers /\ NodeTasks(m, w) \subseteq Nat
    BY <1>1, <1>2
  <2>5. DOMAIN Writes(w, f)[order_next(m)] = land(w)
    BY <2>4 DEF FusedTargets
  <2> HIDE DEF land
  <2> QED
    BY <2>1, <2>2, <2>3, <2>5, ChildRangesWritten
<1>8. ASSUME NEW p, p \in land(u), p \in land(v) PROVE FALSE
  <2>1. PICK tn \in NodeTasks(m, u) : p \in Targets(NodeMoves(m, tn))
    BY <1>8 DEF Targets
  <2>2. PICK to \in NodeTasks(m, v) : p \in Targets(NodeMoves(m, to))
    BY <1>8 DEF Targets
  <2>3. AtNode(m, tn) /\ AtNode(m, to)
    BY <1>1, <1>2, <1>4
  <2>4. /\ \E r \in Pos(m, tn) : p = Landing(m, tn, r)
        /\ \E q \in Pos(m, to) : p = Landing(m, to, q)
    BY <2>1, <2>2, <2>3, NodeMovesLand
  <2>5. tn = to
    BY <1>1, <2>3, <2>4, LandingsApart
  <2> QED
    BY <1>3, <2>5
<1>9. /\ ranges_next(m) \notin {"split", ranges(m), order(m), order_next(m)}
      /\ order_next(m) \notin {"split", ranges(m), order(m)}
  BY DEF ranges_next, ranges, order, order_next
<1> HIDE DEF land
<1> QED
  BY <1>1, <1>5, <1>6, <1>7, <1>8, <1>9 DEF LeavesAlone

(* The rows of a block of a node go where its prefix sum and the range of   *)
(* the node's left child say they do.                                       *)
LEMMA BlockMoveTo ==
  ASSUME NEW m, NEW tn, AtNode(m, tn), HasChildren(m, tn), ~Node(m, tn).split.is_leaf,
         NEW t \in Blocks(m, tn), IsPrefixed(m, t),
         NEW r \in block_span(m, Node(m, tn), t % plan(m).bcount)
  PROVE  /\ t \div plan(m).bcount = tn /\ r \in Pos(m, tn)
         /\ Node(m, tn).base +
              MoveTo(Node(m, tn), block_span(m, Node(m, tn), t % plan(m).bcount),
                     Node(m, tn).s + mem.blk_cnt[t],
                     mem[ranges_next(m)][2 * tn][2]
                       + ((t % plan(m).bcount) * Per(m, Node(m, tn)) - mem.blk_cnt[t]), r)
              = Landing(m, tn, r)
<1> DEFINE bcount == plan(m).bcount
           node == Node(m, tn)
           L == Leftward(m, tn)
           per == Per(m, node)
           s == node.s
           e == node.e
<1>1. /\ bcount \in Nat \ {0} /\ tn \in Nat
      /\ t \div bcount = tn /\ t % bcount \in 0 .. bcount - 1
  <2>1. bcount \in Nat \ {0} /\ tn \in Nat
    BY ShapeFacts DEF AtNode, Upto
  <2> QED
    BY <2>1, BlocksOf DEF Blocks
<1>2. PICK b : b = t % bcount
  OBVIOUS
<1>3. b \in Nat
  BY <1>1, <1>2
<1>4. PICK pfx, mid : pfx = mem.blk_cnt[t] /\ mid = mem[ranges_next(m)][2 * tn][2]
  OBVIOUS
<1>5. PICK bp, S : bp = b * per /\ S = block_span(m, node, b)
  OBVIOUS
<1>6. /\ s \in Nat /\ e \in Nat /\ s <= e /\ Positions(s, e, L) /\ L \in SUBSET (s .. e - 1)
      /\ Rest(s, e, L) \in SUBSET (s .. e - 1)
      /\ Pos(m, tn) = s .. e - 1
  BY NodeFacts, RestComplements DEF Positions, Pos, Rest
<1>7. /\ s + bp \in Nat /\ s <= s + bp
      /\ S \subseteq Pos(m, tn) /\ \A q \in S : s + bp <= q
      /\ \A q \in Pos(m, tn), z \in S : s + bp <= q /\ q < z => q \in S
      /\ Lefts(node, S) = L \cap S
  <2>1. LET lo == s + b * per
            hi == s + (b + 1) * per
        IN  /\ lo \in Nat /\ hi \in Nat /\ s <= lo
            /\ S = {q \in Pos(m, tn) : lo <= q /\ q < hi}
    BY <1>3, <1>5, BlockFacts
  <2>2. PICK lo, hi : /\ lo = s + bp /\ hi \in Nat /\ lo \in Nat /\ s <= lo
                      /\ S = {q \in Pos(m, tn) : lo <= q /\ q < hi}
    BY <1>5, <2>1
  <2>3. Lefts(node, S) = L \cap S
    <3>1. S \in SUBSET Pos(m, tn)
      BY <2>2
    <3> QED
      BY <3>1, NodeFacts
  <2>4. \A q \in Pos(m, tn) : q \in Nat
    BY <1>6
  <2> HIDE DEF s, e, node, L, per
  <2> QED
    BY <2>2, <2>3, <2>4
<1>8. PICK p : p = node.base + MoveTo(node, S, s + pfx, mid + (bp - pfx), r)
  OBVIOUS
<1>9. /\ pfx = Cardinality(Below(L, s + bp)) /\ mid = s + Cardinality(L)
  <2>1. pfx = Cardinality(Below(L, s + bp))
    BY <1>1, <1>2, <1>4, <1>5 DEF IsPrefixed
  <2>2. mem[ranges_next(m)][2 * tn] = <<s, s + Cardinality(L)>>
    BY DEF HasChildren, Children
  <2> HIDE DEF node, s, e, L, per
  <2> QED
    BY <1>4, <2>1, <2>2
<1>10. /\ r \in S
       /\ p = node.base + (IF r \in L \cap S
            THEN (s + pfx) + Cardinality({q \in L \cap S : q < r})
            ELSE (mid + (bp - pfx)) + Cardinality({q \in S \ (L \cap S) : q < r}))
  <2>1. r \in S
    BY <1>2, <1>5
  <2> HIDE DEF node, s, e, L, per
  <2> QED
    BY <1>7, <1>8, <2>1 DEF MoveTo
<1> HIDE DEF node, s, e, L, per, bcount
<1>11. r \in S /\ r \in Pos(m, tn) /\ r \in s .. e - 1 /\ s + bp <= r
       /\ s + bp \in s .. e
  BY <1>6, <1>7, <1>10
<1>12. ASSUME r \in L PROVE p = Landing(m, tn, r)
  <2>1. {q \in L \cap S : q < r} = {q \in L : s + bp <= q /\ q < r}
    BY <1>6, <1>7, <1>11
  <2>2. Cardinality(Below(L, r))
          = Cardinality(Below(L, s + bp)) + Cardinality({q \in L : s + bp <= q /\ q < r})
    <3>1. s + bp \in Int /\ r \in Int /\ s + bp <= r
      BY <1>6, <1>11
    <3> QED
      BY <1>6, <3>1, BelowInBlocks
  <2>3. /\ Cardinality(Below(L, s + bp)) \in Nat
        /\ Cardinality({q \in L : s + bp <= q /\ q < r}) \in Nat
    <3>1. /\ Below(L, s + bp) \in SUBSET (s .. e - 1)
          /\ {q \in L : s + bp <= q /\ q < r} \in SUBSET (s .. e - 1)
      BY <1>6 DEF Below
    <3> QED
      BY <1>6, <3>1, SubsetOfPositions
  <2>4. (s + pfx) + Cardinality({q \in L \cap S : q < r}) = s + Cardinality(Below(L, r))
    <3>1. PICK bl, x, y :
            /\ bl = Cardinality(Below(L, s + bp)) /\ y = Cardinality(Below(L, r))
            /\ x = Cardinality({q \in L : s + bp <= q /\ q < r})
      OBVIOUS
    <3>2. bl \in Nat /\ x \in Nat /\ s \in Nat /\ y = bl + x /\ pfx = bl
      BY <1>6, <1>9, <2>2, <2>3, <3>1
    <3>3. (s + pfx) + x = s + y
      BY <3>2
    <3> QED
      BY <2>1, <3>1, <3>3
  <2>5. p = node.base + Dest(s, e, L, r)
    BY <1>10, <1>12, <2>4 DEF Dest
  <2> QED
    BY <2>5 DEF Landing, node, s, e, L
<1>13. ASSUME r \notin L PROVE p = Landing(m, tn, r)
  <2> DEFINE R == Rest(s, e, L)
  <2>1. {q \in S \ (L \cap S) : q < r} = {q \in R : s + bp <= q /\ q < r}
    BY <1>6, <1>7, <1>11 DEF Rest
  <2>2. Cardinality(Below(R, r))
          = Cardinality(Below(R, s + bp)) + Cardinality({q \in R : s + bp <= q /\ q < r})
    <3>1. s + bp \in Int /\ r \in Int /\ s + bp <= r
      BY <1>6, <1>11
    <3> QED
      BY <1>6, <3>1, BelowInBlocks
  <2>3. /\ Cardinality(Below(L, s + bp)) \in Nat
        /\ Cardinality(Below(R, s + bp)) = (s + bp) - s - Cardinality(Below(L, s + bp))
    <3>1. PICK x : x = s + bp
      OBVIOUS
    <3>2. x \in s .. e
      BY <1>11, <3>1
    <3>3. Positions(s, e, L)
      BY <1>6
    <3>4. /\ Cardinality(Below(L, x)) \in Nat
          /\ Cardinality(Below(Rest(s, e, L), x)) = x - s - Cardinality(Below(L, x))
      BY <3>2, <3>3, RestBelow
    <3>5. R = Rest(s, e, L)
      OBVIOUS
    <3> HIDE DEF R
    <3>6. /\ Cardinality(Below(L, s + bp)) \in Nat
          /\ Cardinality(Below(R, s + bp)) = x - s - Cardinality(Below(L, s + bp))
      BY <3>1, <3>4, <3>5, Zenon
    <3> QED
      BY <3>1, <3>6
  <2>4. Cardinality({q \in R : s + bp <= q /\ q < r}) \in Nat /\ Cardinality(L) \in Nat
    <3>1. {q \in R : s + bp <= q /\ q < r} \in SUBSET (s .. e - 1)
      BY <1>6
    <3> QED
      BY <1>6, <3>1, SubsetOfPositions
  <2>5. bp \in Int
    <3>1. per \in Nat
      BY NodeFacts DEF per, node
    <3> QED
      BY <1>3, <1>5, <3>1, SMT
  <2>6. (mid + (bp - pfx)) + Cardinality({q \in S \ (L \cap S) : q < r})
          = s + Cardinality(L) + Cardinality(Below(R, r))
    <3>1. PICK bl, cl, br, x, y :
            /\ bl = Cardinality(Below(L, s + bp)) /\ cl = Cardinality(L)
            /\ br = Cardinality(Below(R, s + bp)) /\ y = Cardinality(Below(R, r))
            /\ x = Cardinality({q \in R : s + bp <= q /\ q < r})
      OBVIOUS
    <3>2. /\ bl \in Nat /\ cl \in Nat /\ x \in Nat /\ bp \in Int /\ s \in Nat
          /\ br = (s + bp) - s - bl /\ y = br + x
          /\ pfx = bl /\ mid = s + cl
      BY <1>6, <1>9, <2>2, <2>3, <2>4, <2>5, <3>1
    <3>3. (mid + (bp - pfx)) + x = s + cl + y
      BY <3>2
    <3> QED
      BY <2>1, <3>1, <3>3
  <2>7. p = node.base + Dest(s, e, L, r)
    BY <1>10, <1>13, <2>6 DEF Dest
  <2> QED
    BY <2>7 DEF Landing, node, s, e, L
<1>14. p = Landing(m, tn, r)
  BY <1>12, <1>13
<1>15. p = node.base + MoveTo(node, S, s + mem.blk_cnt[t],
                             mem[ranges_next(m)][2 * tn][2] + (bp - mem.blk_cnt[t]), r)
  BY <1>4, <1>8
<1> QED
  BY <1>1, <1>2, <1>5, <1>11, <1>14, <1>15 DEF node, s, per, bcount

LEMMA BlockMovesAre ==
  ASSUME NEW m, NEW tn, AtNode(m, tn), HasChildren(m, tn),
         NEW t \in Blocks(m, tn), IsPrefixed(m, t)
  PROVE  /\ block_span(m, Node(m, tn), t % plan(m).bcount) \subseteq Pos(m, tn)
         /\ BlockMoves(m, t) =
              IF Node(m, tn).split.is_leaf THEN {}
              ELSE {<<Landing(m, tn, r), Node(m, tn).row[r]>> :
                      r \in block_span(m, Node(m, tn), t % plan(m).bcount)}
<1> DEFINE node == Node(m, tn)
<1>1. PICK b, S : b = t % plan(m).bcount /\ S = block_span(m, node, b)
  OBVIOUS
<1>2. plan(m).bcount \in Nat \ {0} /\ tn \in Nat
  BY ShapeFacts DEF AtNode, Upto
<1>3. t \div plan(m).bcount = tn /\ b \in Nat
  <2>1. t \div plan(m).bcount = tn /\ t % plan(m).bcount \in 0 .. plan(m).bcount - 1
    BY <1>2, BlocksOf DEF Blocks
  <2> QED
    BY <1>1, <1>2, <2>1
<1>4. S \subseteq Pos(m, tn)
  <2>1. block_span(m, node, b) =
          {q \in Pos(m, tn) : node.s + b * Per(m, node) <= q /\ q < node.s + (b + 1) * Per(m, node)}
    BY <1>3, BlockFacts
  <2> QED
    BY <1>1, <2>1
<1>5. PICK li, ri : /\ li = node.s + mem.blk_cnt[t]
                    /\ ri = mem[ranges_next(m)][2 * tn][2] + (b * Per(m, node) - mem.blk_cnt[t])
  OBVIOUS
<1>6. BlockMoves(m, t) = Moves(node, S, li, ri)
  BY <1>1, <1>3, <1>5 DEF BlockMoves
<1>7. Moves(node, S, li, ri) =
        IF node.split.is_leaf THEN {}
        ELSE {<<node.base + MoveTo(node, S, li, ri, r), node.row[r]>> : r \in S}
  BY DEF Moves, MoveTo
<1>8. ASSUME ~node.split.is_leaf, NEW r \in S
      PROVE  node.base + MoveTo(node, S, li, ri, r) = Landing(m, tn, r)
  BY <1>1, <1>5, <1>8, BlockMoveTo
<1> HIDE DEF node
<1>9. CASE node.split.is_leaf
  BY <1>1, <1>4, <1>6, <1>7, <1>9 DEF node
<1>10. CASE ~node.split.is_leaf
  <2>1. {<<node.base + MoveTo(node, S, li, ri, r), node.row[r]>> : r \in S}
          = {<<Landing(m, tn, r), node.row[r]>> : r \in S}
    BY <1>8, <1>10
  <2> QED
    BY <1>1, <1>4, <1>6, <1>7, <1>10, <2>1 DEF node
<1> QED
  BY <1>9, <1>10

LEMMA BlockMovesLand ==
  ASSUME NEW m, NEW tn, AtNode(m, tn), HasChildren(m, tn),
         NEW t \in Blocks(m, tn), IsPrefixed(m, t), NEW p \in Targets(BlockMoves(m, t))
  PROVE  \E r \in block_span(m, Node(m, tn), t % plan(m).bcount) :
           r \in Pos(m, tn) /\ p = Landing(m, tn, r)
<1>1. PICK S, B : S = block_span(m, Node(m, tn), t % plan(m).bcount) /\ B = BlockMoves(m, t)
  OBVIOUS
<1>2. /\ S \subseteq Pos(m, tn)
      /\ B = IF Node(m, tn).split.is_leaf THEN {}
             ELSE {<<Landing(m, tn, r), Node(m, tn).row[r]>> : r \in S}
  BY <1>1, BlockMovesAre
<1>3. \E r \in S : p = Landing(m, tn, r)
  BY <1>1, <1>2 DEF Targets
<1> QED
  BY <1>1, <1>2, <1>3

(* A position of a node is in one of its blocks. *)
LEMMA PositionInOneBlock ==
  ASSUME NEW m, NEW tn, AtNode(m, tn), NEW b \in Nat, NEW c \in Nat,
         NEW r \in block_span(m, Node(m, tn), b), r \in block_span(m, Node(m, tn), c)
  PROVE  b = c
<1> DEFINE s == Node(m, tn).s
           per == Per(m, Node(m, tn))
<1>0. s \in Nat /\ per \in Nat /\ Pos(m, tn) \subseteq Nat
  BY NodeFacts DEF Pos
<1>1. ASSUME NEW x \in Nat, r \in block_span(m, Node(m, tn), x)
      PROVE  r \in Nat /\ s + x * per <= r /\ r < s + (x + 1) * per
  <2>1. block_span(m, Node(m, tn), x) =
          {q \in Pos(m, tn) : s + x * per <= q /\ q < s + (x + 1) * per}
    BY BlockFacts
  <2> QED
    BY <1>0, <1>1, <2>1
<1> HIDE DEF s, per
<1>2. ASSUME NEW x \in Nat, NEW y \in Nat, x < y,
             r \in block_span(m, Node(m, tn), x), r \in block_span(m, Node(m, tn), y)
      PROVE  FALSE
  <2>1. per * (x + 1) <= per * y
    BY <1>0, <1>2, TimesMonotone
  <2>2. r \in Nat /\ r < s + (x + 1) * per /\ s + y * per <= r
    BY <1>1, <1>2
  <2>3. (x + 1) * per = per * (x + 1) /\ y * per = per * y
        /\ per * (x + 1) \in Nat /\ per * y \in Nat
    <3>1. \A a, d \in Nat : a * d = d * a /\ a * d \in Nat
      BY SMT
    <3> QED
      BY <1>0, <3>1
  <2>4. PICK g, h : g = per * (x + 1) /\ h = per * y
    OBVIOUS
  <2>5. g \in Nat /\ h \in Nat /\ g <= h /\ r < s + g /\ s + h <= r
    BY <2>1, <2>2, <2>3, <2>4
  <2> QED
    BY <1>0, <2>2, <2>5
<1>3. b < c \/ b = c \/ c < b
  OBVIOUS
<1> QED
  BY <1>2, <1>3

ScatterReads(m, t) ==
  ReadsOf(m, t \div plan(m).bcount,
          block_span(m, Node(m, t \div plan(m).bcount), t % plan(m).bcount))
    \cup Cells(ranges_next(m), {2 * (t \div plan(m).bcount)}) \cup Cells("blk_cnt", {t})

LEMMA ScatterReadsAre ==
  ASSUME NEW v, me[v].phase = "scatter"
  PROVE  Reads(v) = UNION {ScatterReads(me[v], t) : t \in BlockTasks(me[v], v)}
BY DEF Reads, ScatterReads

LEMMA ScatterLands ==
  ASSUME NEW m, IsFit(job), IsLocals(m), m.phase = "scatter", IsData(m),
         NEW w \in Workers, NEW p \in ScatterTargets(m, w)
  PROVE  \E t \in BlockTasks(m, w) : \E r \in Pos(m, t \div plan(m).bcount) :
           /\ t \in Nat /\ t \div plan(m).bcount \in Upto(Units(m))
           /\ AtNode(m, t \div plan(m).bcount)
           /\ r \in block_span(m, Node(m, t \div plan(m).bcount), t % plan(m).bcount)
           /\ p = Landing(m, t \div plan(m).bcount, r)
<1>1. /\ AreRanges(mem[ranges(m)], plan(m).nodes)
      /\ \A tn \in Upto(Units(m)) :
           HasChildren(m, tn) /\ \A t \in Blocks(m, tn) : IsPrefixed(m, t)
  BY DEF IsData, LevelPhases
<1>2. plan(m).bcount \in Nat \ {0} /\ Units(m) \in Nat /\ Units(m) * plan(m).bcount \in Nat
  BY ShapeFacts
<1>3. \A tn \in Upto(Units(m)) : AtNode(m, tn)
  BY <1>1 DEF AtNode, AreRanges, Units
<1>4. PICK t \in BlockTasks(m, w) : p \in Targets(BlockMoves(m, t))
  BY DEF ScatterTargets, Targets
<1>5. t \in Upto(Units(m) * plan(m).bcount) /\ t \in Nat
  BY TasksAreNumbers
<1>6. t \div plan(m).bcount \in Upto(Units(m)) /\ t \in Blocks(m, t \div plan(m).bcount)
  BY <1>2, <1>5, DivBelow, TaskOf DEF Upto, Blocks
<1>7. PICK tn : tn = t \div plan(m).bcount
  OBVIOUS
<1>8. AtNode(m, tn) /\ HasChildren(m, tn) /\ t \in Blocks(m, tn) /\ IsPrefixed(m, t)
  BY <1>1, <1>3, <1>6, <1>7
<1>9. \E r \in block_span(m, Node(m, tn), t % plan(m).bcount) :
        r \in Pos(m, tn) /\ p = Landing(m, tn, r)
  BY <1>4, <1>8, BlockMovesLand
<1> QED
  BY <1>5, <1>6, <1>7, <1>8, <1>9

LEMMA ScatterApart ==
  ASSUME NEW u, NEW v, NEW m, Together(u, v, m), m.phase = "scatter", NEW d, NEW e
  PROVE  LeavesAlone(u, v, d, e)
<1> DEFINE bcount == plan(m).bcount
<1>1. /\ me[u] = m /\ me[v] = m /\ u \in Workers /\ v \in Workers /\ u # v
      /\ IsFit(job) /\ IsLocals(m) /\ AreRanges(mem[ranges(m)], plan(m).nodes)
      /\ \A tn \in Upto(Units(m)) :
           HasChildren(m, tn) /\ \A t \in Blocks(m, tn) : IsPrefixed(m, t)
  BY DEF Together, IsData, LevelPhases
<1>2. bcount \in Nat \ {0} /\ Units(m) \in Nat /\ Units(m) * bcount \in Nat
  BY <1>1, ShapeFacts
<1>3. \A tn \in Upto(Units(m)) : AtNode(m, tn)
  BY <1>1 DEF AtNode, AreRanges, Units
<1>4. ASSUME NEW a, NEW x, <<a, x>> \in Reads(v)
      PROVE  a \in {"split", ranges(m), order(m), ranges_next(m), "blk_cnt"}
  <2>1. PICK t : <<a, x>> \in ScatterReads(m, t)
    BY <1>1, <1>4, ScatterReadsAre
  <2> QED
    BY <2>1, ReadsOfNode, CellIn DEF ScatterReads
<1> DEFINE land(w) == Targets(UNION {BlockMoves(m, t) : t \in BlockTasks(m, w)})
<1>5. ASSUME NEW w \in {u, v}, NEW f, me[w] = m
      PROVE  DOMAIN Writes(w, f) = {order_next(m)} /\ DOMAIN Writes(w, f)[order_next(m)] = land(w)
  <2>1. DOMAIN Writes(w, f) = {order_next(m)} /\ DOMAIN Writes(w, f)[order_next(m)] = ScatterTargets(m, w)
    BY <1>5, ScatterWrites
  <2>2. ScatterTargets(m, w) = land(w)
    BY DEF ScatterTargets
  <2> HIDE DEF land
  <2> QED
    BY <2>1, <2>2
<1>6. ASSUME NEW w \in Workers, NEW p \in land(w)
      PROVE  \E t \in BlockTasks(m, w) : \E r \in Pos(m, t \div bcount) :
               /\ t \in Nat /\ t \div bcount \in Upto(Units(m))
               /\ r \in block_span(m, Node(m, t \div bcount), t % bcount)
               /\ p = Landing(m, t \div bcount, r)
  <2>1. p \in ScatterTargets(m, w)
    BY DEF ScatterTargets
  <2>2. IsData(m)
    BY DEF Together
  <2> HIDE DEF land
  <2> QED
    BY <1>1, <2>1, <2>2, ScatterLands
<1>7. ASSUME NEW p, p \in land(u), p \in land(v) PROVE FALSE
  <2> HIDE DEF land, bcount
  <2>1. PICK t \in BlockTasks(m, u) : \E r \in Pos(m, t \div bcount) :
               /\ t \in Nat /\ t \div bcount \in Upto(Units(m))
               /\ r \in block_span(m, Node(m, t \div bcount), t % bcount)
               /\ p = Landing(m, t \div bcount, r)
    BY <1>1, <1>6, <1>7
  <2>2. PICK z \in BlockTasks(m, v) : \E r \in Pos(m, z \div bcount) :
               /\ z \in Nat /\ z \div bcount \in Upto(Units(m))
               /\ r \in block_span(m, Node(m, z \div bcount), z % bcount)
               /\ p = Landing(m, z \div bcount, r)
    BY <1>1, <1>6, <1>7
  <2>3. PICK tn, b, zn, c : tn = t \div bcount /\ b = t % bcount /\ zn = z \div bcount /\ c = z % bcount
    OBVIOUS
  <2>4. PICK r \in Pos(m, tn) : r \in block_span(m, Node(m, tn), b) /\ p = Landing(m, tn, r)
    BY <2>1, <2>3
  <2>5. PICK q \in Pos(m, zn) : q \in block_span(m, Node(m, zn), c) /\ p = Landing(m, zn, q)
    BY <2>2, <2>3
  <2>6. AtNode(m, tn) /\ AtNode(m, zn) /\ t \in Nat /\ z \in Nat
    BY <1>3, <2>1, <2>2, <2>3
  <2>7. tn = zn /\ r = q
    <3>1. Landing(m, tn, r) = Landing(m, zn, q)
      BY <2>4, <2>5
    <3> QED
      BY <1>1, <2>6, <3>1, LandingsApart
  <2>8. b \in Nat /\ c \in Nat /\ tn \in Nat /\ b = t - bcount * tn /\ c = z - bcount * zn
    <3>1. /\ t \div bcount \in Nat /\ t % bcount \in Nat /\ z % bcount \in Nat
          /\ t % bcount = t - bcount * (t \div bcount) /\ z % bcount = z - bcount * (z \div bcount)
      <4>1. ASSUME NEW i \in Nat
            PROVE  /\ i \div bcount \in Nat /\ i % bcount \in Nat
                   /\ i % bcount = i - bcount * (i \div bcount)
        <5>1. i \div bcount \in Nat /\ i % bcount \in 0 .. bcount - 1
          BY <1>2, TaskOf
        <5>2. i % bcount = i - bcount * (i \div bcount)
          <6>1. i \in Int
            OBVIOUS
          <6> HIDE DEF bcount
          <6> QED
            BY <1>2, <6>1, DivMod, Zenon
        <5>3. i % bcount \in Nat
          BY <5>1
        <5> QED
          BY <5>1, <5>2, <5>3
      <4> QED
        BY <2>6, <4>1
    <3> QED
      BY <2>3, <3>1
  <2>9. b = c
    BY <2>4, <2>5, <2>6, <2>7, <2>8, PositionInOneBlock
  <2>10. t = z
    <3>1. PICK y : y = bcount * tn
      OBVIOUS
    <3>2. y \in Int
      BY <1>2, <2>8, <3>1, SMT
    <3>3. b = t - y /\ b = z - y
      BY <2>7, <2>8, <2>9, <3>1
    <3> QED
      BY <2>6, <3>2, <3>3
  <2> QED
    BY <1>1, <1>2, <2>10, SpansApart DEF BlockTasks, Units, bcount
<1>8. order_next(m) \notin {"split", ranges(m), order(m), ranges_next(m), "blk_cnt"}
  BY DEF order_next, order, ranges, ranges_next
<1> HIDE DEF land
<1> QED
  BY <1>1, <1>4, <1>5, <1>7, <1>8 DEF LeavesAlone

----------------------------------------------------------------------------
(* The shape of a gather *)

LEMMA MaxOf ==
  ASSUME NEW n \in Nat, NEW T \in SUBSET (0 .. n), T # {}
  PROVE  Max(T) \in T /\ \A y \in T : y <= Max(T)
<1> DEFINE D == {n - x : x \in T}
<1>1. D \subseteq Nat /\ D # {}
  <2>1. \A x \in T : n - x \in Nat
    OBVIOUS
  <2>2. PICK x : x \in T
    OBVIOUS
  <2>3. n - x \in D
    BY <2>2
  <2>4. D \subseteq Nat
    BY <2>1
  <2> HIDE DEF D
  <2> QED
    BY <2>3, <2>4
<1>2. PICK z \in D : \A y \in D : z <= y
  BY <1>1, LeastNumber
<1>3. PICK x \in T : z = n - x
  BY <1>2
<1>4. \A y \in T : x >= y
  <2>1. ASSUME NEW y \in T PROVE x >= y
    <3>1. n - x <= n - y
      BY <1>2, <1>3
    <3>2. x \in 0 .. n /\ y \in 0 .. n
      OBVIOUS
    <3> QED
      BY <3>1, <3>2
  <2> QED
    BY <2>1
<1>5. Max(T) \in T /\ \A y \in T : Max(T) >= y
  BY <1>4 DEF Max
<1>6. \A y \in T : y \in Int
  OBVIOUS
<1> QED
  BY <1>5, <1>6

LEMMA DivShrinks ==
  ASSUME NEW a \in Nat, NEW p \in Nat \ {0}
  PROVE  a \div p \in 0 .. a
<1>1. PICK x : x = (a + 1) * p
  OBVIOUS
<1>2. p * (a + 1) >= p * a /\ p * (a + 1) = x /\ p * (a + 1) = p * a + p /\ p * a \in Nat
  BY <1>1, SMT
<1>3. 1 * a <= p * a
  <2>1. a * 1 <= a * p
    BY TimesMonotone
  <2>2. a * 1 = 1 * a /\ a * p = p * a
    BY SMT
  <2> QED
    BY <2>1, <2>2
<1>4. PICK y : y = p * a
  OBVIOUS
<1>5. y \in Nat /\ a <= y /\ x = y + p
  BY <1>2, <1>3, <1>4
<1>6. a \in 0 .. x - 1
  BY <1>5
<1>7. a \in 0 .. (a + 1) * p - 1
  BY <1>1, <1>6
<1> QED
  BY <1>7, DivBelow

LEMMA HistBlocksPositive ==
  ASSUME NEW k \in Nat \ {0}, NEW c \in Nat \ {0}
  PROVE  hist_blocks(k, c) \in Nat \ {0} /\ hist_blocks(k, c) <= MaxBlocks + 1
<1> DEFINE wanted == Smaller(Larger(HistTarget \div (k * c), 1), MaxBlocks)
           halved == {wanted \div (2 ^ h) : h \in 0 .. wanted}
           T == {1} \cup {b \in halved : k * c * b <= HistBudget}
<1>1. k * c \in Nat \ {0}
  <2>1. \A a, b \in Nat \ {0} : a * b \in Nat \ {0}
    BY SMT
  <2> QED
    BY <2>1
<1>2. wanted \in Nat /\ wanted <= MaxBlocks /\ MaxBlocks \in Nat
  <2>1. PICK z : z = HistTarget \div (k * c)
    OBVIOUS
  <2>2. z \in Nat
    BY <1>1, <2>1, DivShrinks, HostAssumption
  <2>3. /\ Smaller(Larger(z, 1), MaxBlocks) \in Nat /\ MaxBlocks \in Nat
        /\ Smaller(Larger(z, 1), MaxBlocks) <= MaxBlocks
    BY <2>2, HostAssumption DEF Smaller, Larger
  <2> QED
    BY <2>1, <2>3
<1> HIDE DEF wanted
<1>3. \A h \in 0 .. wanted : wanted \div (2 ^ h) \in 0 .. wanted
  BY <1>2, DivShrinks, PowerDoubles
<1>4. wanted + 1 \in Nat /\ T \in SUBSET (0 .. wanted + 1) /\ T # {} /\ 1 \in T
  <2>1. halved \subseteq 0 .. wanted
    BY <1>3
  <2> HIDE DEF halved
  <2>2. wanted + 1 \in Nat /\ 1 \in 0 .. wanted + 1 /\ 0 .. wanted \subseteq 0 .. wanted + 1
    BY <1>2
  <2>3. {b \in halved : k * c * b <= HistBudget} \subseteq halved
    OBVIOUS
  <2>4. 1 \in T
    OBVIOUS
  <2>5. T \subseteq 0 .. wanted + 1
    BY <2>1, <2>2, <2>3, Zenon
  <2> HIDE DEF T
  <2> QED
    BY <2>2, <2>4, <2>5
<1>5. hist_blocks(k, c) = Max(T)
  BY DEF hist_blocks, wanted
<1> HIDE DEF T
<1>6. Max(T) \in T /\ \A y \in T : y <= Max(T)
  <2>1. PICK n : n = wanted + 1
    OBVIOUS
  <2>2. n \in Nat /\ T \in SUBSET (0 .. n) /\ T # {}
    BY <1>4, <2>1
  <2> QED
    BY <2>2, MaxOf
<1>7. Max(T) \in Nat /\ 1 <= Max(T) /\ Max(T) <= MaxBlocks + 1
  <2>1. Max(T) \in 0 .. wanted + 1
    BY <1>4, <1>6
  <2>2. 1 <= Max(T)
    BY <1>4, <1>6
  <2>3. Max(T) \in Nat /\ Max(T) <= MaxBlocks + 1
    BY <1>2, <2>1
  <2> QED
    BY <2>2, <2>3
<1> QED
  BY <1>5, <1>7

LEMMA GatherShape ==
  ASSUME IsFit(job), NEW m, IsLocals(m), m.phase \in {"gather", "reduce"}
  PROVE  /\ nc(m) \in Nat \ {0} /\ gather_nc(m) \in Nat \ {0} /\ blocks(m) \in Nat \ {0}
         /\ m.node_base \in Nat /\ m.node_base + nc(m) <= plan(m).nodes
         /\ ~plan(m).subtract => gather_nc(m) = nc(m)
         /\ plan(m).subtract =>
              /\ nc(m) = 2 * gather_nc(m) /\ m.level # 0
              /\ gather_nc(m) = 2 ^ (m.level - 1)
<1>1. /\ m.level \in 0 .. job.depth /\ m.level \in Nat /\ m.node_base \in Nat /\ job.k \in Nat \ {0}
      /\ plan(m).nodes = 2 ^ m.level /\ plan(m).nodes \in Nat \ {0}
      /\ plan(m).node_chunk \in Nat \ {0} /\ m.node_base < plan(m).nodes
      /\ plan(m).node_chunk = 2 ^ m.level => m.node_base = 0
  BY ShapeFacts DEF IsLocals
<1>2. /\ plan(m).subtract \in BOOLEAN
      /\ plan(m).subtract => m.level > 0 /\ plan(m).node_chunk = 2 ^ m.level
  BY <1>1, PlanFacts DEF plan
<1>3. nc(m) \in Nat \ {0} /\ m.node_base + nc(m) <= plan(m).nodes
  BY <1>1 DEF nc, Smaller
<1>4. plan(m).subtract =>
        /\ nc(m) = 2 * gather_nc(m) /\ m.level # 0
        /\ gather_nc(m) = 2 ^ (m.level - 1) /\ gather_nc(m) \in Nat \ {0}
        /\ gather_nc(m) <= plan(m).nodes
  <2> SUFFICES ASSUME plan(m).subtract
               PROVE  /\ nc(m) = 2 * gather_nc(m) /\ m.level # 0
                      /\ gather_nc(m) = 2 ^ (m.level - 1) /\ gather_nc(m) \in Nat \ {0}
                      /\ gather_nc(m) <= plan(m).nodes
    OBVIOUS
  <2>1. m.level > 0 /\ nc(m) = 2 ^ m.level
    BY <1>1, <1>2 DEF nc, Smaller
  <2>2. PICK l : l = m.level - 1
    OBVIOUS
  <2>3. l \in Nat /\ l + 1 = m.level /\ m.level # 0
    BY <1>1, <2>1, <2>2
  <2>4. 2 ^ (l + 1) = 2 * 2 ^ l /\ 2 ^ l \in Nat \ {0}
    BY <2>3, PowerDoubles
  <2>5. PICK p : p = 2 ^ l
    OBVIOUS
  <2>6. nc(m) = 2 * p /\ p \in Nat \ {0} /\ plan(m).nodes = 2 * p
    BY <1>1, <2>1, <2>3, <2>4, <2>5
  <2>7. gather_nc(m) = p
    BY <2>6 DEF gather_nc
  <2> QED
    BY <2>2, <2>3, <2>5, <2>6, <2>7
<1>5. ~plan(m).subtract => gather_nc(m) = nc(m)
  BY DEF gather_nc
<1>6. gather_nc(m) \in 1 .. plan(m).nodes
  BY <1>1, <1>2, <1>3, <1>4, <1>5
<1>7. blocks(m) = hist_blocks(job.k, gather_nc(m))
  <2>1. plan(m) = LevelPlan(job, m.level)
    BY <1>1 DEF plan, IsFit
  <2>2. plan(m).blocks = [c \in 1 .. 2 ^ m.level |-> hist_blocks(job.k, c)]
    BY <2>1 DEF LevelPlan
  <2> QED
    BY <1>1, <1>6, <2>2 DEF blocks
<1>8. blocks(m) \in Nat \ {0} /\ gather_nc(m) \in Nat \ {0}
  <2>1. gather_nc(m) \in Nat \ {0}
    BY <1>1, <1>6
  <2>2. hist_blocks(job.k, gather_nc(m)) \in Nat \ {0}
    BY <1>1, <2>1, HistBlocksPositive
  <2> QED
    BY <1>7, <2>1, <2>2
<1> QED
  BY <1>1, <1>3, <1>4, <1>5, <1>8

GatherReads(m, t) ==
  LET tt == GatherTree(m, t)
      rows == {tt * job.n + r : r \in Stripe(m, t)}
  IN  Cells(ranges(m), {GatherNode(m, t)}) \cup Cells(order(m), rows) \cup
      Cells("gh", {mem[order(m)][r] * job.k + tt : r \in rows})

LEMMA GatherReadsAre ==
  ASSUME NEW v, me[v].phase = "gather"
  PROVE  Reads(v) = UNION {GatherReads(me[v], t) : t \in GatherTasks(me[v], v)}
BY DEF Reads, GatherReads

LEMMA GatherApart ==
  ASSUME NEW u, NEW v, NEW m, Together(u, v, m), m.phase = "gather", NEW d, NEW e
  PROVE  LeavesAlone(u, v, d, e)
<1> DEFINE a == IF blocks(m) = 1 THEN gathered(m) ELSE "partials"
<1>1. /\ me[u] = m /\ me[v] = m /\ u \in Workers /\ v \in Workers /\ u # v
      /\ IsFit(job) /\ IsLocals(m)
  BY DEF Together
<1>2. a \notin {ranges(m), order(m), "gh"}
  BY DEF gathered, hist_cur, ranges, order
<1>3. ASSUME NEW w \in {u, v}, NEW f, me[w] = m
      PROVE  DOMAIN Writes(w, f) = {a} /\ DOMAIN Writes(w, f)[a] = GatherTasks(m, w)
  BY <1>3, GatherWrites
<1>4. \A t : ~ (t \in GatherTasks(m, u) /\ t \in GatherTasks(m, v))
  <2>1. job.k * gather_nc(m) * blocks(m) \in Nat
    <3>1. \A x, y, z \in Nat : x * y * z \in Nat
      BY SMT
    <3>2. job.k \in Nat /\ gather_nc(m) \in Nat /\ blocks(m) \in Nat
      BY <1>1, ShapeFacts, GatherShape
    <3> QED
      BY <3>1, <3>2
  <2> QED
    BY <1>1, <2>1, SpansApart DEF GatherTasks
<1>5. ASSUME NEW b, NEW x, <<b, x>> \in Reads(v) PROVE b \in {ranges(m), order(m), "gh"}
  <2>1. me[v].phase = "gather" /\ me[v] = m
    BY <1>1
  <2>2. PICK t : <<b, x>> \in GatherReads(me[v], t)
    BY <1>5, <2>1, GatherReadsAre
  <2>3. \E R, O, G : <<b, x>> \in Cells(ranges(m), R) \cup Cells(order(m), O) \cup Cells("gh", G)
    BY <2>1, <2>2 DEF GatherReads
  <2> QED
    BY <2>3, CellIn
<1> HIDE DEF a
<1> QED
  BY <1>1, <1>2, <1>3, <1>4, <1>5 DEF LeavesAlone

----------------------------------------------------------------------------
(* The slots of the model *)

LEMMA PowersGrow ==
  ASSUME NEW a \in Nat, NEW b \in Nat, a <= b
  PROVE  2 ^ a <= 2 ^ b
<1> DEFINE Good == {d \in Nat : 2 ^ a <= 2 ^ (a + d)}
<1>1. 0 \in Good
  <2>1. a + 0 = a /\ 2 ^ a \in Nat
    BY PowerDoubles
  <2> QED
    BY <2>1
<1>2. ASSUME NEW d \in Nat, d \in Good PROVE d + 1 \in Good
  <2>1. PICK c : c = a + d
    OBVIOUS
  <2>2. c \in Nat /\ a + (d + 1) = c + 1
    BY <2>1
  <2>3. 2 ^ c \in Nat /\ 2 ^ (c + 1) = 2 * 2 ^ c /\ 2 ^ a \in Nat
    BY <2>2, PowerDoubles
  <2>4. 2 ^ a <= 2 ^ c
    BY <1>2, <2>1
  <2>5. 2 ^ a <= 2 ^ (c + 1)
    BY <2>3, <2>4
  <2> QED
    BY <2>2, <2>5
<1> HIDE DEF Good
<1>3. Nat \subseteq Good
  BY <1>1, <1>2, NatSetInd
<1>4. b - a \in Nat /\ a + (b - a) = b
  OBVIOUS
<1>5. PICK d : d = b - a
  OBVIOUS
<1>6. d \in Good /\ a + d = b
  BY <1>3, <1>4, <1>5
<1> QED
  BY <1>6 DEF Good

(* A slot is a place in the tree of its iteration: it tells both apart. *)
LEMMA SlotTells ==
  ASSUME IsFit(job), NEW m, m.iter \in Nat, NEW tt \in Nat, NEW l \in 0 .. job.depth,
         NEW node \in Nat, node < 2 ^ l
  PROVE  /\ total_nodes \in Nat \ {0} /\ m.iter * job.k + tt \in Nat
         /\ Slot(m, tt, l, node) \div total_nodes = m.iter * job.k + tt
         /\ Slot(m, tt, l, node) % total_nodes = 2 ^ l - 1 + node
<1>1. /\ job.depth \in Nat /\ job.k \in Nat /\ l \in Nat /\ job.depth + 1 \in Nat
      /\ l + 1 \in Nat /\ l + 1 <= job.depth + 1
  BY DEF IsFit
<1>2. PICK p, q : p = 2 ^ l /\ q = 2 ^ (job.depth + 1)
  OBVIOUS
<1>3. p \in Nat \ {0} /\ q \in Nat /\ 2 * p <= q
  BY <1>1, <1>2, PowerDoubles, PowersGrow
<1>4. total_nodes = q - 1
  BY <1>2 DEF total_nodes
<1>5. PICK total : total = total_nodes
  OBVIOUS
<1>6. total \in Nat \ {0} /\ (p - 1) + node \in 0 .. total - 1
  BY <1>2, <1>3, <1>4, <1>5
<1>7. m.iter * job.k + tt \in Nat
  <2>1. \A a, b, c \in Nat : a * b + c \in Nat
    BY SMT
  <2> QED
    BY <1>1, <2>1
<1>8. PICK t : t = m.iter * job.k + tt
  OBVIOUS
<1>9. PICK off : off = (p - 1) + node
  OBVIOUS
<1>10. t \in Int /\ off \in 0 .. total - 1
  BY <1>6, <1>7, <1>8, <1>9
<1>11. (total * t + off) \div total = t /\ (total * t + off) % total = off
  BY <1>6, <1>10, DivModUnique
<1>12. Slot(m, tt, l, node) = t * total + p - 1 + node
  BY <1>2, <1>5, <1>8 DEF Slot
<1>13. t * total = total * t /\ t * total \in Int
  BY <1>6, <1>10, SMT
<1>14. PICK x : x = total * t
  OBVIOUS
<1>15. Slot(m, tt, l, node) = total * t + off
  <2>1. x + p - 1 + node = x + off
    BY <1>3, <1>9, <1>13, <1>14
  <2> QED
    BY <1>12, <1>13, <1>14, <2>1
<1>16. /\ Slot(m, tt, l, node) \div total = t
       /\ Slot(m, tt, l, node) % total = off
  BY <1>11, <1>15
<1> QED
  BY <1>2, <1>5, <1>6, <1>7, <1>8, <1>9, <1>16

LEMMA SlotsApart ==
  ASSUME IsFit(job), NEW m, m.iter \in Nat,
         NEW tt \in Nat, NEW l \in 0 .. job.depth, NEW node \in Nat, node < 2 ^ l,
         NEW to \in Nat, NEW k \in 0 .. job.depth, NEW other \in Nat, other < 2 ^ k,
         Slot(m, tt, l, node) = Slot(m, to, k, other)
  PROVE  tt = to /\ 2 ^ l - 1 + node = 2 ^ k - 1 + other
<1>1. PICK s : s = Slot(m, tt, l, node)
  OBVIOUS
<1>2. s \div total_nodes = m.iter * job.k + tt /\ s % total_nodes = 2 ^ l - 1 + node
  BY <1>1, SlotTells
<1>3. s \div total_nodes = m.iter * job.k + to /\ s % total_nodes = 2 ^ k - 1 + other
  BY <1>1, SlotTells
<1>4. PICK x : x = m.iter * job.k
  OBVIOUS
<1>5. x \in Nat
  <2>1. \A a, b \in Nat : a * b \in Nat
    BY SMT
  <2>2. job.k \in Nat
    BY DEF IsFit
  <2> QED
    BY <1>4, <2>1, <2>2
<1>6. x + tt = x + to
  BY <1>2, <1>3, <1>4
<1>7. tt = to
  BY <1>5, <1>6
<1> QED
  BY <1>2, <1>3, <1>7

----------------------------------------------------------------------------
(* The columns of a reduce *)

(* The gathered column of a column of the level. *)
GatheredColumn(m, c) == IF plan(m).subtract THEN c \div 2 ELSE c

LEMMA ColumnsAre ==
  ASSUME IsFit(job), NEW m, IsLocals(m), m.phase = "reduce", NEW u \in Workers,
         NEW c \in Columns(m, u)
  PROVE  /\ GatheredColumn(m, c) \in ReduceTasks(m, u)
         /\ c \in 0 .. job.k * nc(m) - 1
<1>1. /\ nc(m) \in Nat \ {0} /\ gather_nc(m) \in Nat \ {0} /\ job.k \in Nat \ {0}
      /\ ~plan(m).subtract => gather_nc(m) = nc(m)
      /\ plan(m).subtract => nc(m) = 2 * gather_nc(m)
  BY ShapeFacts, GatherShape
<1>2. /\ job.k * gather_nc(m) \in Nat
      /\ job.k * (2 * gather_nc(m)) = 2 * (job.k * gather_nc(m))
  <2>1. \A a, b \in Nat : a * b \in Nat /\ a * (2 * b) = 2 * (a * b)
    BY SMT
  <2>2. job.k \in Nat /\ gather_nc(m) \in Nat
    BY <1>1
  <2> QED
    BY <2>1, <2>2
<1>3. PICK n : n = job.k * gather_nc(m)
  OBVIOUS
<1>4. \A col \in ReduceTasks(m, u) : col \in 0 .. n - 1
  <2>1. n \in Nat
    BY <1>2, <1>3
  <2>2. \A col \in span(n, u) : col \in 0 .. n - 1
    BY <2>1, SpanBounds
  <2> QED
    BY <1>3, <2>2 DEF ReduceTasks
<1>5. CASE ~plan(m).subtract
  <2>1. c \in ReduceTasks(m, u)
    BY <1>5 DEF Columns
  <2>2. c \in 0 .. n - 1 /\ n = job.k * nc(m)
    BY <1>1, <1>3, <1>4, <1>5, <2>1
  <2> QED
    BY <1>5, <2>1, <2>2 DEF GatheredColumn
<1>6. CASE plan(m).subtract
  <2>1. PICK col \in ReduceTasks(m, u) : c \in {2 * col, 2 * col + 1}
    BY <1>6 DEF Columns
  <2>2. col \in 0 .. n - 1 /\ n \in Nat /\ job.k * nc(m) = 2 * n
    <3>1. col \in 0 .. n - 1
      BY <1>4
    <3>2. n \in Nat
      BY <1>2, <1>3
    <3>3. nc(m) = 2 * gather_nc(m)
      BY <1>1, <1>6
    <3>4. job.k * nc(m) = 2 * n
      BY <1>2, <1>3, <3>3, Zenon
    <3> QED
      BY <3>1, <3>2, <3>4
  <2>3. c \in 0 .. 2 * n - 1 /\ c \div 2 = col
    BY <2>1, <2>2
  <2> QED
    BY <1>6, <2>2, <2>3 DEF GatheredColumn
<1> QED
  BY <1>5, <1>6

LEMMA ReduceTasksApart ==
  ASSUME IsFit(job), NEW m, IsLocals(m), m.phase = "reduce",
         NEW u \in Workers, NEW v \in Workers, u # v
  PROVE  /\ \A c : ~ (c \in ReduceTasks(m, u) /\ c \in ReduceTasks(m, v))
         /\ \A c : ~ (c \in Columns(m, u) /\ c \in Columns(m, v))
<1>1. job.k * gather_nc(m) \in Nat
  <2>1. \A a, b \in Nat : a * b \in Nat
    BY SMT
  <2>2. job.k \in Nat /\ gather_nc(m) \in Nat
    BY ShapeFacts, GatherShape
  <2> QED
    BY <2>1, <2>2
<1>2. \A c : ~ (c \in ReduceTasks(m, u) /\ c \in ReduceTasks(m, v))
  BY <1>1, SpansApart DEF ReduceTasks
<1>3. \A c : ~ (c \in Columns(m, u) /\ c \in Columns(m, v))
  BY <1>2, ColumnsAre
<1> QED
  BY <1>2, <1>3

LEMMA ColumnSlotsApart ==
  ASSUME IsFit(job), NEW m, IsLocals(m), m.phase = "reduce",
         NEW b \in 0 .. job.k * nc(m) - 1, NEW c \in 0 .. job.k * nc(m) - 1,
         ColumnSlot(m, b) = ColumnSlot(m, c)
  PROVE  b = c
<1>1. /\ nc(m) \in Nat \ {0} /\ job.k \in Nat \ {0} /\ m.node_base \in Nat
      /\ m.level \in 0 .. job.depth /\ m.iter \in Nat
      /\ plan(m).nodes = 2 ^ m.level /\ m.node_base + nc(m) <= plan(m).nodes
      /\ plan(m).nodes \in Nat
  BY ShapeFacts, GatherShape
<1>2. ASSUME NEW x \in 0 .. job.k * nc(m) - 1
      PROVE  /\ x \div nc(m) \in Nat /\ m.node_base + (x % nc(m)) \in Nat
             /\ m.node_base + (x % nc(m)) < 2 ^ m.level
             /\ x % nc(m) \in Nat /\ x % nc(m) = x - nc(m) * (x \div nc(m)) /\ x \in Nat
  <2>1. x \div nc(m) \in 0 .. job.k - 1 /\ x % nc(m) \in 0 .. nc(m) - 1
        /\ x % nc(m) = x - nc(m) * (x \div nc(m))
    <3>1. job.k \in Nat /\ nc(m) \in Nat \ {0}
      BY <1>1
    <3> QED
      BY <3>1, DivBelow
  <2>2. PICK r : r = x % nc(m)
    OBVIOUS
  <2>3. r \in 0 .. nc(m) - 1
    BY <2>1, <2>2
  <2>4. m.node_base + r \in Nat /\ m.node_base + r < plan(m).nodes /\ r \in Nat
    BY <1>1, <2>3
  <2>5. x \div nc(m) \in Nat
    BY <2>1
  <2> QED
    BY <1>1, <2>1, <2>2, <2>4, <2>5
<1>3. PICK q, r, s, t : /\ q = b \div nc(m) /\ r = b % nc(m)
                        /\ s = c \div nc(m) /\ t = c % nc(m)
  OBVIOUS
<1>4. /\ q \in Nat /\ m.node_base + r \in Nat /\ m.node_base + r < 2 ^ m.level
      /\ s \in Nat /\ m.node_base + t \in Nat /\ m.node_base + t < 2 ^ m.level
      /\ r \in Nat /\ t \in Nat /\ b \in Nat /\ c \in Nat
      /\ r = b - nc(m) * q /\ t = c - nc(m) * s
  BY <1>2, <1>3
<1>5. Slot(m, q, m.level, m.node_base + r) = Slot(m, s, m.level, m.node_base + t)
  BY <1>3 DEF ColumnSlot
<1>6. q = s /\ 2 ^ m.level - 1 + (m.node_base + r) = 2 ^ m.level - 1 + (m.node_base + t)
  BY <1>1, <1>4, <1>5, SlotsApart
<1>7. PICK p : p = plan(m).nodes
  OBVIOUS
<1>8. p \in Nat /\ p - 1 + (m.node_base + r) = p - 1 + (m.node_base + t)
  BY <1>1, <1>6, <1>7
<1>9. r = t
  BY <1>1, <1>4, <1>8
<1>10. PICK y : y = nc(m) * q
  OBVIOUS
<1>11. y \in Nat
  <2>1. \A e, f \in Nat : e * f \in Nat
    BY SMT
  <2> QED
    BY <1>1, <1>4, <1>10, <2>1
<1>12. b - y = c - y
  BY <1>4, <1>6, <1>9, <1>10
<1> QED
  BY <1>4, <1>11, <1>12

(* The parents' splits are not those the level decides. *)
LEMMA ParentsApart ==
  ASSUME IsFit(job), NEW m, IsLocals(m), m.phase = "reduce", plan(m).subtract,
         NEW c \in 0 .. job.k * nc(m) - 1, NEW col \in 0 .. job.k * gather_nc(m) - 1
  PROVE  ColumnSlot(m, c) # Parent(m, col)
<1>1. /\ nc(m) \in Nat \ {0} /\ gather_nc(m) \in Nat \ {0} /\ job.k \in Nat \ {0}
      /\ m.node_base \in Nat /\ m.level \in 0 .. job.depth /\ m.iter \in Nat
      /\ plan(m).nodes = 2 ^ m.level /\ m.node_base + nc(m) <= plan(m).nodes
      /\ plan(m).nodes \in Nat /\ m.level # 0 /\ gather_nc(m) = 2 ^ (m.level - 1)
      /\ nc(m) = 2 * gather_nc(m) /\ job.depth \in Nat
  BY ShapeFacts, GatherShape
<1>2. /\ c \div nc(m) \in 0 .. job.k - 1 /\ c % nc(m) \in 0 .. nc(m) - 1
      /\ col \div gather_nc(m) \in 0 .. job.k - 1 /\ col % gather_nc(m) \in 0 .. gather_nc(m) - 1
  BY <1>1, DivBelow
<1>3. PICK q, r, s, t : /\ q = c \div nc(m) /\ r = c % nc(m)
                        /\ s = col \div gather_nc(m) /\ t = col % gather_nc(m)
  OBVIOUS
<1>4. PICK l, g, p : l = m.level - 1 /\ g = gather_nc(m) /\ p = plan(m).nodes
  OBVIOUS
<1>5. /\ q \in Nat /\ m.node_base + r \in Nat /\ m.node_base + r < p
      /\ s \in Nat /\ t \in Nat /\ t < g /\ l \in 0 .. job.depth /\ r \in Nat
      /\ p \in Nat /\ 2 * g <= p /\ g \in Nat
  <2>1. PICK n, k : n = nc(m) /\ k = job.k
    OBVIOUS
  <2>2. /\ q \in 0 .. k - 1 /\ r \in 0 .. n - 1 /\ s \in 0 .. k - 1 /\ t \in 0 .. g - 1
    BY <1>2, <1>3, <1>4, <2>1
  <2>3. /\ n \in Nat /\ k \in Nat /\ g \in Nat /\ n = 2 * g /\ p \in Nat
        /\ m.node_base \in Nat /\ m.node_base + n <= p
    BY <1>1, <1>4, <2>1
  <2>4. l \in 0 .. job.depth
    <3>1. m.level \in 0 .. job.depth /\ job.depth \in Nat /\ m.level # 0
      BY <1>1
    <3>2. l = m.level - 1
      BY <1>4
    <3> QED
      BY <3>1, <3>2
  <2> QED
    BY <2>2, <2>3, <2>4
<1>6. p = 2 ^ m.level /\ g = 2 ^ l
  BY <1>1, <1>4
<1> SUFFICES ASSUME Slot(m, q, m.level, m.node_base + r) = Slot(m, s, l, t) PROVE FALSE
  BY <1>3, <1>4 DEF ColumnSlot, Parent
<1>8. 2 ^ m.level - 1 + (m.node_base + r) = 2 ^ l - 1 + t
  <2>1. /\ m.iter \in Nat /\ m.level \in 0 .. job.depth /\ l \in 0 .. job.depth
        /\ q \in Nat /\ s \in Nat /\ t \in Nat /\ m.node_base + r \in Nat
    BY <1>1, <1>5
  <2>2. m.node_base + r < 2 ^ m.level /\ t < 2 ^ l
    BY <1>5, <1>6
  <2>3. PICK a, y : a = m.level /\ y = m.node_base + r
    OBVIOUS
  <2>4. /\ m.iter \in Nat /\ q \in Nat /\ a \in 0 .. job.depth /\ y \in Nat /\ y < 2 ^ a
        /\ s \in Nat /\ l \in 0 .. job.depth /\ t \in Nat /\ t < 2 ^ l
    BY <2>1, <2>2, <2>3
  <2>5. Slot(m, q, a, y) = Slot(m, s, l, t)
    BY <2>3
  <2>6. 2 ^ a - 1 + y = 2 ^ l - 1 + t
    BY <2>4, <2>5, SlotsApart
  <2> QED
    BY <2>3, <2>6
<1>9. p - 1 + (m.node_base + r) = g - 1 + t
  BY <1>6, <1>8
<1> QED
  BY <1>1, <1>5, <1>9

ReduceReads(m, u) ==
  (IF blocks(m) = 1 THEN Cells(gathered(m), ReduceTasks(m, u))
   ELSE Cells("partials", {col * blocks(m) + b : col \in ReduceTasks(m, u), b \in Upto(blocks(m))}))
  \cup (IF plan(m).subtract
        THEN Cells(hist_par(m), ReduceTasks(m, u)) \cup
             Cells("split", {Parent(m, col) : col \in ReduceTasks(m, u)})
        ELSE {})

LEMMA ReduceReadsAre ==
  ASSUME NEW v, me[v].phase = "reduce"
  PROVE  Reads(v) = ReduceReads(me[v], v)
BY DEF Reads, ReduceReads

LEMMA ReadInReduce ==
  ASSUME NEW m, NEW v, NEW a, NEW x, <<a, x>> \in ReduceReads(m, v)
  PROVE  \/ a = gathered(m) /\ x \in ReduceTasks(m, v)
         \/ a = "partials"
         \/ plan(m).subtract /\ a = hist_par(m)
         \/ plan(m).subtract /\ a = "split" /\ \E col \in ReduceTasks(m, v) : x = Parent(m, col)
<1>1. \/ <<a, x>> \in Cells(gathered(m), ReduceTasks(m, v))
      \/ \E S : <<a, x>> \in Cells("partials", S)
      \/ plan(m).subtract /\ <<a, x>> \in Cells(hist_par(m), ReduceTasks(m, v))
      \/ plan(m).subtract /\ <<a, x>> \in Cells("split", {Parent(m, col) : col \in ReduceTasks(m, v)})
  BY DEF ReduceReads
<1> QED
  BY <1>1, CellIn

LEMMA ReduceApart ==
  ASSUME NEW u, NEW v, NEW m, Together(u, v, m), m.phase = "reduce", NEW d, NEW e
  PROVE  LeavesAlone(u, v, d, e)
<1>1. /\ me[u] = m /\ me[v] = m /\ u \in Workers /\ v \in Workers /\ u # v
      /\ IsFit(job) /\ IsLocals(m)
  BY DEF Together
<1>2. /\ hist_cur(m) \in {"hist", "hist_parent"} /\ hist_par(m) \in {"hist", "hist_parent"}
      /\ hist_cur(m) # hist_par(m)
      /\ plan(m).subtract => gathered(m) = "hist_left"
      /\ ~plan(m).subtract => gathered(m) = hist_cur(m)
  BY DEF hist_cur, hist_par, gathered
<1>3. ASSUME NEW w \in {u, v}, NEW f, me[w] = m
      PROVE  /\ DOMAIN Writes(w, f) = {hist_cur(m), gathered(m), "split", "leaf_value"}
             /\ DOMAIN Writes(w, f)["split"] = SlotsOf(m, w)
             /\ DOMAIN Writes(w, f)["leaf_value"] = SlotsOf(m, w)
             /\ DOMAIN Writes(w, f)[hist_cur(m)] = Columns(m, w)
             /\ gathered(m) # hist_cur(m) =>
                  DOMAIN Writes(w, f)[gathered(m)] = ReduceTasks(m, w)
  BY <1>3, ReduceNames, ReduceWrites
<1>4. /\ \A c : ~ (c \in ReduceTasks(m, u) /\ c \in ReduceTasks(m, v))
      /\ \A c : ~ (c \in Columns(m, u) /\ c \in Columns(m, v))
  BY <1>1, ReduceTasksApart
<1>5. \A x : ~ (x \in SlotsOf(m, u) /\ x \in SlotsOf(m, v))
  <2> SUFFICES ASSUME NEW x, x \in SlotsOf(m, u), x \in SlotsOf(m, v) PROVE FALSE
    OBVIOUS
  <2>1. PICK b \in Columns(m, u), c \in Columns(m, v) :
          x = ColumnSlot(m, b) /\ x = ColumnSlot(m, c)
    BY DEF SlotsOf
  <2>2. b \in 0 .. job.k * nc(m) - 1 /\ c \in 0 .. job.k * nc(m) - 1
    BY <1>1, ColumnsAre
  <2>3. ColumnSlot(m, b) = ColumnSlot(m, c)
    BY <2>1
  <2>4. b = c
    BY <1>1, <2>2, <2>3, ColumnSlotsApart
  <2> QED
    BY <1>4, <2>4
<1>6. ASSUME plan(m).subtract, NEW x \in SlotsOf(m, u), NEW col \in ReduceTasks(m, v)
      PROVE  x # Parent(m, col)
  <2>1. PICK c \in Columns(m, u) : x = ColumnSlot(m, c)
    BY DEF SlotsOf
  <2>2. c \in 0 .. job.k * nc(m) - 1
    BY <1>1, ColumnsAre
  <2>3. col \in 0 .. job.k * gather_nc(m) - 1
    <3>1. PICK n : n = job.k * gather_nc(m)
      OBVIOUS
    <3>2. n \in Nat
      <4>1. \A a, b \in Nat : a * b \in Nat
        BY SMT
      <4>2. job.k \in Nat /\ gather_nc(m) \in Nat
        BY <1>1, ShapeFacts, GatherShape
      <4> QED
        BY <3>1, <4>1, <4>2
    <3>3. col \in span(n, v)
      BY <3>1 DEF ReduceTasks
    <3>4. col \in 0 .. n - 1
      BY <1>1, <3>2, <3>3, SpanBounds
    <3> QED
      BY <3>1, <3>4
  <2> QED
    BY <1>1, <1>6, <2>1, <2>2, <2>3, ParentsApart
<1>7. ~plan(m).subtract => Columns(m, u) = ReduceTasks(m, u)
  BY DEF Columns
<1>8. ASSUME NEW a, NEW x, <<a, x>> \in Reads(v)
      PROVE  \/ a = gathered(m) /\ x \in ReduceTasks(m, v)
             \/ a = "partials"
             \/ plan(m).subtract /\ a = hist_par(m)
             \/ plan(m).subtract /\ a = "split" /\ \E col \in ReduceTasks(m, v) : x = Parent(m, col)
  <2>1. me[v].phase = "reduce" /\ me[v] = m
    BY <1>1
  <2>2. <<a, x>> \in ReduceReads(m, v)
    BY <1>8, <2>1, ReduceReadsAre
  <2> QED
    BY <2>2, ReadInReduce
<1>9. plan(m).subtract \in BOOLEAN
  BY <1>1, GatherShape, PlanFacts, ShapeFacts DEF plan
<1>10. ASSUME NEW a \in DOMAIN Writes(u, d), NEW x \in DOMAIN Writes(u, d)[a]
       PROVE  \/ a = hist_cur(m) /\ x \in Columns(m, u)
              \/ a = gathered(m) /\ plan(m).subtract /\ x \in ReduceTasks(m, u)
              \/ a \in {"split", "leaf_value"} /\ x \in SlotsOf(m, u)
  BY <1>1, <1>2, <1>3, <1>9
<1>11. ASSUME NEW a \in DOMAIN Writes(u, d), NEW x \in DOMAIN Writes(u, d)[a],
              <<a, x>> \in Reads(v)
       PROVE  FALSE
  <2>1. CASE a = hist_cur(m) /\ x \in Columns(m, u)
    BY <1>2, <1>4, <1>7, <1>8, <1>9, <1>11, <2>1
  <2>2. CASE a = gathered(m) /\ plan(m).subtract /\ x \in ReduceTasks(m, u)
    BY <1>2, <1>4, <1>8, <1>11, <2>2
  <2>3. CASE a \in {"split", "leaf_value"} /\ x \in SlotsOf(m, u)
    BY <1>2, <1>6, <1>8, <1>9, <1>11, <2>3
  <2> QED
    BY <1>10, <2>1, <2>2, <2>3
<1>12. ASSUME NEW a \in DOMAIN Writes(u, d), NEW x \in DOMAIN Writes(u, d)[a],
              a \in DOMAIN Writes(v, e), x \in DOMAIN Writes(v, e)[a]
       PROVE  FALSE
  <2>1. CASE a = hist_cur(m) /\ x \in Columns(m, u)
    BY <1>1, <1>3, <1>4, <1>12, <2>1
  <2>2. CASE a = gathered(m) /\ plan(m).subtract /\ x \in ReduceTasks(m, u)
    BY <1>1, <1>2, <1>3, <1>4, <1>12, <2>2
  <2>3. CASE a \in {"split", "leaf_value"} /\ x \in SlotsOf(m, u)
    BY <1>1, <1>3, <1>5, <1>12, <2>3
  <2> QED
    BY <1>10, <2>1, <2>2, <2>3
<1> QED
  BY <1>11, <1>12 DEF LeavesAlone

----------------------------------------------------------------------------
(* The contract *)

LEMMA AllApart ==
  ASSUME NEW u, NEW v, NEW m, Together(u, v, m), NEW d, NEW e
  PROVE  LeavesAlone(u, v, d, e)
<1>1. m.phase \in Phases
  BY DEF Together
<1>2. CASE m.phase = "init"
  BY <1>2, InitApart
<1>3. CASE m.phase = "grad"
  BY <1>3, GradApart
<1>4. CASE m.phase = "reset"
  BY <1>4, ResetApart
<1>5. CASE m.phase = "gather"
  BY <1>5, GatherApart
<1>6. CASE m.phase = "reduce"
  BY <1>6, ReduceApart
<1>7. CASE m.phase = "count"
  BY <1>7, CountApart
<1>8. CASE m.phase = "prefix"
  BY <1>8, PrefixApart
<1>9. CASE m.phase = "scatter"
  BY <1>9, ScatterApart
<1>10. CASE m.phase = "fused"
  BY <1>10, FusedApart
<1>11. CASE m.phase = "update"
  BY <1>11, UpdateApart
<1> QED
  BY <1>1, <1>2, <1>3, <1>4, <1>5, <1>6, <1>7, <1>8, <1>9, <1>10, <1>11 DEF Phases

(* Two workers that both run are in the same phase, with its data. *)
LEMMA RunningTogether ==
  ASSUME CInv, DInv, ~poisoned, NEW u \in Workers, NEW v \in Workers, u # v,
         Running(u), Running(v)
  PROVE  Together(u, v, me[u])
<1>1. /\ at[u] = "out" /\ at[v] = "out" /\ me[u].phase \notin Ended /\ me[v].phase \notin Ended
  BY DEF Running
<1>2. Pending(u) = me[u] /\ Pending(v) = me[v]
  BY <1>1 DEF Pending
<1>3. me[u] = me[v]
  BY <1>2 DEF CInv, LockStep
<1>4. IsFit(job) /\ IsLocals(me[u])
  BY DEF CInv, Typed
<1>5. me[u].phase \in Phases
  BY <1>1, <1>4, ShapeFacts
<1>6. IsData(me[u])
  BY <1>2 DEF DInv
<1> QED
  BY <1>1, <1>3, <1>4, <1>5, <1>6 DEF Together, Arrived

LEMMA WrittenIs ==
  ASSUME NEW u, NEW a, NEW x, <<a, x>> \in Written(u)
  PROVE  \E d : a \in DOMAIN Writes(u, d) /\ x \in DOMAIN Writes(u, d)[a]
<1>1. PICK d : Written(u) = UNION {Cells(b, DOMAIN Writes(u, d)[b]) : b \in DOMAIN Writes(u, d)}
  BY DEF Written
<1>2. PICK b \in DOMAIN Writes(u, d) : <<a, x>> \in Cells(b, DOMAIN Writes(u, d)[b])
  BY <1>1
<1> QED
  BY <1>2, CellIn

LEMMA CellsWritten ==
  ASSUME NEW u, NEW y \in Written(u)
  PROVE  \E a, x : y = <<a, x>>
<1>1. PICK d : Written(u) = UNION {Cells(b, DOMAIN Writes(u, d)[b]) : b \in DOMAIN Writes(u, d)}
  BY DEF Written
<1>2. PICK b : y \in Cells(b, DOMAIN Writes(u, d)[b])
  BY <1>1
<1> QED
  BY <1>2 DEF Cells

LEMMA InvariantsKeepApart ==
  ASSUME CInv, DInv
  PROVE  PhasesAreApart
<1> SUFFICES ASSUME ~poisoned, NEW u \in Workers, NEW v \in Workers, Running(u), Running(v),
                    u # v, NEW y, y \in Written(u), y \in Reads(v) \cup Written(v)
             PROVE  FALSE
  BY DEF PhasesAreApart, SharedContract
<1>1. PICK a, x : y = <<a, x>>
  BY CellsWritten
<1>2. PICK d : a \in DOMAIN Writes(u, d) /\ x \in DOMAIN Writes(u, d)[a]
  BY <1>1, WrittenIs
<1>3. \A e : LeavesAlone(u, v, d, e)
  BY RunningTogether, AllApart
<1>4. CASE y \in Reads(v)
  BY <1>1, <1>2, <1>3, <1>4 DEF LeavesAlone
<1>5. CASE y \in Written(v)
  <2>1. PICK e : a \in DOMAIN Writes(v, e) /\ x \in DOMAIN Writes(v, e)[a]
    BY <1>1, <1>5, WrittenIs
  <2> QED
    BY <1>2, <1>3, <2>1 DEF LeavesAlone
<1> QED
  BY <1>4, <1>5

(* Between two barriers, no worker writes what another reads or writes. *)
THEOREM PhasesAreApartCorrect == Spec => []PhasesAreApart
<1>1. CInv /\ DInv => PhasesAreApart
  BY InvariantsKeepApart
<1> QED
  BY <1>1, DataInvariance, PTL

----------------------------------------------------------------------------
(* What a worker writes is within the allocation.  The arrays of a fit are  *)
(* sized from its level plans: a chunk begins at a multiple of its level's  *)
(* size, and the histograms are swapped only where a level retains them.    *)

IsPlaced(m) ==
  /\ m.phase \in {"gather", "reduce"} => m.node_base % plan(m).node_chunk = 0
  /\ m.swapped => \E l \in Levels : job.plans[l].retain

AInv ==
  /\ \A a \in Names : DOMAIN Allocated[a] \subseteq DOMAIN mem[a]
  /\ \A u \in Workers : IsPlaced(me[u])

LEMMA NextMultiple ==
  ASSUME NEW a \in Nat, NEW b \in Nat \ {0}, a % b = 0
  PROVE  (a + b) % b = 0
<1>1. PICK q : q = a \div b
  OBVIOUS
<1>2. q \in Int /\ a % b = a - b * q
  <2>1. a \div b \in Int /\ a % b = a - b * (a \div b)
    BY DivMod
  <2> QED
    BY <1>1, <2>1, Zenon
<1>3. b * (q + 1) = b * q + b /\ b * q \in Int /\ b * (q + 1) \in Int
  BY <1>2, SMT
<1>4. PICK x, y : x = b * q /\ y = b * (q + 1)
  OBVIOUS
<1>5. a + b = y + 0
  BY <1>2, <1>3, <1>4
<1>6. (b * (q + 1) + 0) % b = 0
  <2>1. q + 1 \in Int /\ 0 \in 0 .. b - 1
    BY <1>2
  <2> QED
    BY <2>1, DivModUnique
<1> QED
  BY <1>4, <1>5, <1>6

LEMMA MultipleBelow ==
  ASSUME NEW b \in Nat \ {0}, NEW a \in 0 .. b - 1
  PROVE  a % b = a
<1>1. (b * 0 + a) % b = a
  BY DivModUnique
<1>2. b * 0 + a = a
  OBVIOUS
<1> QED
  BY <1>1, <1>2

(* And so do those that go on though the barrier is poisoned. *)
LEMMA AbandonIsPlaced ==
  ASSUME IsFit(job), NEW m, IsLocals(m), IsPlaced(m), m.phase \in Phases
  PROVE  IsPlaced(Abandon(m))
<1>0. /\ m \in [phase : Phases \cup Ended, iter : Nat, level : 0 .. job.depth, node_base : Nat,
                flipped : BOOLEAN, swapped : BOOLEAN]
      /\ m.swapped => \E l \in Levels : job.plans[l].retain
  BY DEF IsLocals, IsPlaced
<1>1. CASE m.phase \in Partitioning
  <2>1. PICK l : l = m.level + 1
    OBVIOUS
  <2>2. PICK x : x = AfterPartition(m)
    OBVIOUS
  <2>3. x.level = l /\ x.node_base = 0 /\ x.swapped = m.swapped
    BY <1>0, <2>1, <2>2 DEF AfterPartition
  <2>4. l \in 0 .. job.depth
    BY <1>0, <1>1, <2>1 DEF IsLocals, IsFit, Partitioning
  <2>5. job.plans[l].node_chunk \in Nat \ {0}
    BY <2>4, PlanFacts
  <2>6. PICK c : c = job.plans[l].node_chunk
    OBVIOUS
  <2>7. 0 % c = 0
    BY <2>5, <2>6
  <2>8. x.node_base % plan(x).node_chunk = 0
    BY <2>3, <2>6, <2>7 DEF plan
  <2>9. IsPlaced(x)
    BY <1>0, <2>3, <2>8 DEF IsPlaced
  <2> QED
    BY <1>1, <2>2, <2>9 DEF Abandon
<1>2. CASE m.phase \notin Partitioning
  <2>1. ASSUME NEW y, y = [m EXCEPT !.phase = "done"] PROVE IsPlaced(y)
    <3>1. y.phase = "done" /\ y.swapped = m.swapped
      BY <1>0, <2>1
    <3> QED
      BY <1>0, <3>1 DEF IsPlaced
  <2> QED
    BY <1>2, <2>1 DEF Abandon
<1> QED
  BY <1>1, <1>2

LEMMA AfterIsPlaced ==
  ASSUME IsFit(job), NEW m, IsLocals(m), IsPlaced(m), m.phase \in Phases
  PROVE  IsPlaced(After(m))
<1> DEFINE x == After(m)
<1>0. /\ m \in [phase : Phases \cup Ended, iter : Nat, level : 0 .. job.depth, node_base : Nat,
                flipped : BOOLEAN, swapped : BOOLEAN]
      /\ m.swapped => \E l \in Levels : job.plans[l].retain
  BY DEF IsLocals, IsPlaced
<1>1. ASSUME NEW l \in 0 .. job.depth
      PROVE  0 % job.plans[l].node_chunk = 0
  <2>1. job.plans[l].node_chunk \in Nat \ {0}
    BY PlanFacts
  <2> QED
    BY <2>1, MultipleBelow
<1>2. CASE m.phase \in {"init", "grad", "count", "prefix"}
  <2>1. x.phase \notin {"gather", "reduce"} /\ x.swapped = m.swapped
    BY <1>0, <1>2 DEF After, AfterPartition
  <2> QED
    BY <1>0, <2>1 DEF IsPlaced
<1>3. CASE m.phase = "update"
  <2>1. x.phase \in {"grad", "done"} /\ x.swapped = m.swapped
    BY <1>0, <1>3 DEF After, AfterPartition
  <2> QED
    BY <1>0, <2>1 DEF IsPlaced
<1>4. CASE m.phase = "reset"
  <2>1. x.level = 0 /\ x.node_base = 0 /\ x.swapped = m.swapped
    BY <1>0, <1>4 DEF After, AfterPartition
  <2>2. plan(x) = job.plans[0] /\ 0 \in 0 .. job.depth
    BY <2>1 DEF plan, IsFit
  <2> HIDE DEF x
  <2>3. x.node_base % plan(x).node_chunk = 0
    BY <1>1, <2>1, <2>2
  <2> QED
    BY <1>0, <2>1, <2>3 DEF IsPlaced, x
<1>5. CASE m.phase = "gather"
  <2>1. x.level = m.level /\ x.node_base = m.node_base /\ x.swapped = m.swapped
    BY <1>0, <1>5 DEF After, AfterPartition
  <2>2. plan(x) = plan(m)
    BY <2>1 DEF plan
  <2> HIDE DEF x
  <2>3. x.node_base % plan(x).node_chunk = 0
    BY <1>5, <2>1, <2>2 DEF IsPlaced
  <2> QED
    BY <1>0, <2>1, <2>3 DEF IsPlaced, x
<1>6. CASE m.phase \in {"scatter", "fused"}
  <2>1. x.level = m.level + 1 /\ x.node_base = 0 /\ x.swapped = m.swapped
    BY <1>0, <1>6 DEF After, AfterPartition
  <2>2. PICK l : l = m.level + 1
    OBVIOUS
  <2>3. l \in 0 .. job.depth
    BY <1>0, <1>6, <2>2 DEF IsLocals, IsFit
  <2> HIDE DEF x
  <2>4. plan(x) = job.plans[l]
    BY <2>1, <2>2 DEF plan
  <2>5. x.node_base % plan(x).node_chunk = 0
    BY <1>1, <2>1, <2>3, <2>4
  <2> QED
    BY <1>0, <2>1, <2>5 DEF IsPlaced, x
<1>7. CASE m.phase = "reduce" /\ m.node_base + nc(m) < plan(m).nodes
  <2>1. x = [m EXCEPT !.phase = "gather", !.node_base = m.node_base + nc(m)]
    BY <1>7 DEF After, AfterPartition, AfterReduce
  <2>2. x.level = m.level /\ x.node_base = m.node_base + nc(m) /\ x.swapped = m.swapped
    BY <1>0, <2>1
  <2>3. plan(x) = plan(m)
    BY <2>2 DEF plan
  <2>4. /\ plan(m).node_chunk \in Nat \ {0} /\ plan(m).nodes \in Nat /\ m.node_base \in Nat
    BY ShapeFacts
  <2>5. nc(m) = plan(m).node_chunk
    BY <1>7, <2>4 DEF nc, Smaller
  <2>6. m.node_base % plan(m).node_chunk = 0
    BY <1>7 DEF IsPlaced
  <2>7. (m.node_base + plan(m).node_chunk) % plan(m).node_chunk = 0
    BY <2>4, <2>6, NextMultiple
  <2> HIDE DEF x
  <2>8. x.node_base % plan(x).node_chunk = 0
    BY <2>2, <2>3, <2>5, <2>7
  <2> QED
    BY <1>0, <2>2, <2>8 DEF IsPlaced, x
<1>8. CASE m.phase = "reduce" /\ ~ (m.node_base + nc(m) < plan(m).nodes)
  <2> DEFINE s == IF plan(m).retain THEN ~m.swapped ELSE m.swapped
             ph == IF m.level = job.depth THEN "update"
                   ELSE IF plan(m).bcount = 1 THEN "fused" ELSE "count"
  <2>1. x = [m EXCEPT !.swapped = s, !.phase = ph]
    BY <1>8 DEF After, AfterPartition, AfterReduce
  <2>2. ph \notin {"gather", "reduce"}
    OBVIOUS
  <2>3. s => \E l \in Levels : job.plans[l].retain
    <3>1. m.level \in Levels
      BY <1>0 DEF Levels
    <3>2. plan(m).retain => \E l \in Levels : job.plans[l].retain
      BY <3>1 DEF plan
    <3> QED
      BY <1>0, <3>2
  <2> HIDE DEF s, ph
  <2>4. x.phase = ph /\ x.swapped = s
    BY <1>0, <2>1
  <2> HIDE DEF x
  <2> QED
    BY <2>2, <2>3, <2>4 DEF IsPlaced, x
<1> QED
  BY <1>2, <1>3, <1>4, <1>5, <1>6, <1>7, <1>8 DEF Phases

(* What the sizes of the arrays of a fit are the greatest of. *)
LEMMA ChunkFacts ==
  ASSUME IsFit(job), NEW l \in Levels, NEW c \in Chunks(job.plans[l])
  PROVE  /\ c \in 1 .. 2 ^ l /\ Gathered(job.plans[l], c) \in 1 .. 2 ^ l
         /\ Gathered(job.plans[l], c) <= c
<1> DEFINE p == job.plans[l]
<1>1. /\ p.nodes = 2 ^ l /\ 2 ^ l \in Nat \ {0} /\ p.node_chunk \in Nat \ {0}
      /\ p.subtract \in BOOLEAN /\ l \in Nat
      /\ p.subtract => l > 0 /\ p.node_chunk = 2 ^ l
  BY PlanFacts DEF Levels, IsFit
<1> HIDE DEF p
<1>2. PICK base \in Upto(p.nodes) :
        base % p.node_chunk = 0 /\ c = Smaller(p.node_chunk, p.nodes - base)
  BY DEF Chunks, p
<1>3. base \in Nat /\ base < p.nodes /\ p.nodes \in Nat \ {0}
  BY <1>1, <1>2 DEF Upto
<1>4. c \in 1 .. p.nodes
  BY <1>1, <1>2, <1>3 DEF Smaller
<1>5. CASE ~p.subtract
  <2>1. Gathered(p, c) = c
    BY <1>5 DEF Gathered
  <2> QED
    BY <1>1, <1>4, <2>1 DEF p
<1>6. CASE p.subtract
  <2>1. p.node_chunk = p.nodes /\ l > 0
    BY <1>1, <1>6
  <2>2. base = 0
    <3>1. base \in 0 .. p.nodes - 1
      BY <1>3
    <3>2. base % p.nodes = base
      BY <1>3, <3>1, MultipleBelow
    <3> QED
      BY <1>2, <2>1, <3>2
  <2>3. c = p.nodes
    BY <1>2, <1>3, <2>1, <2>2 DEF Smaller
  <2>4. PICK h : h = l - 1
    OBVIOUS
  <2>5. h \in Nat /\ h + 1 = l
    BY <1>1, <2>1, <2>4
  <2>6. 2 ^ l = 2 * 2 ^ h /\ 2 ^ h \in Nat \ {0}
    BY <2>5, PowerDoubles
  <2>7. PICK g : g = 2 ^ h
    OBVIOUS
  <2>8. c = 2 * g /\ g \in Nat \ {0} /\ p.nodes = 2 * g
    BY <1>1, <2>3, <2>6, <2>7
  <2>9. Gathered(p, c) = g
    BY <1>6, <2>8 DEF Gathered
  <2>10. g \in 1 .. p.nodes /\ g <= c
    BY <2>8
  <2> QED
    BY <1>1, <1>4, <2>9, <2>10 DEF p
<1> QED
  BY <1>1, <1>5, <1>6

LEMMA MaxOfBounded ==
  ASSUME NEW n \in Nat, NEW T, T \subseteq 0 .. n, NEW x \in T
  PROVE  Max(T) \in Nat /\ x <= Max(T)
<1>1. T \in SUBSET (0 .. n) /\ T # {}
  OBVIOUS
<1>2. Max(T) \in T /\ \A y \in T : y <= Max(T)
  BY <1>1, MaxOf
<1>3. Max(T) \in 0 .. n
  BY <1>2
<1> QED
  BY <1>2, <1>3

HistSizes == {job.k * count : count \in UNION {Chunks(job.plans[l]) : l \in Levels}}
PartialSizes ==
  UNION {LET p == job.plans[l]
         IN  {job.k * Gathered(p, count) * p.blocks[Gathered(p, count)] :
                count \in Chunks(p)} : l \in Levels}

LEMMA LevelBounds ==
  ASSUME IsFit(job), NEW l \in Levels
  PROVE  2 ^ l \in Nat \ {0} /\ 2 ^ job.depth \in Nat \ {0} /\ 2 ^ l <= 2 ^ job.depth
<1>1. l \in Nat /\ job.depth \in Nat /\ l <= job.depth
  BY DEF IsFit, Levels
<1> QED
  BY <1>1, PowerDoubles, PowersGrow

LEMMA HistSizesBounded ==
  ASSUME IsFit(job)
  PROVE  job.k * 2 ^ job.depth \in Nat /\ HistSizes \subseteq 0 .. job.k * 2 ^ job.depth
<1>1. job.k \in Nat /\ job.depth \in Nat /\ 2 ^ job.depth \in Nat
  BY PowerDoubles DEF IsFit
<1>2. job.k * 2 ^ job.depth \in Nat
  BY <1>1, ProductsGrow
<1>3. ASSUME NEW l \in Levels, NEW c \in Chunks(job.plans[l])
      PROVE  job.k * c \in 0 .. job.k * 2 ^ job.depth
  <2>1. c \in Nat /\ c <= 2 ^ job.depth
    BY ChunkFacts, LevelBounds
  <2>2. job.k * c \in Nat /\ job.k * c <= job.k * 2 ^ job.depth
    BY <1>1, <2>1, ProductsGrow
  <2>3. PICK x, y : x = job.k * c /\ y = job.k * 2 ^ job.depth
    OBVIOUS
  <2>4. x \in 0 .. y
    BY <1>2, <2>2, <2>3
  <2> QED
    BY <2>3, <2>4
<1> QED
  BY <1>2, <1>3 DEF HistSizes

LEMMA PartialSizesBounded ==
  ASSUME IsFit(job)
  PROVE  \E n \in Nat : PartialSizes \subseteq 0 .. n
<1>1. /\ job.k \in Nat \ {0} /\ job.depth \in Nat /\ 2 ^ job.depth \in Nat
      /\ MaxBlocks + 1 \in Nat
  BY PowerDoubles, HostAssumption DEF IsFit
<1>2. PICK n : n = job.k * 2 ^ job.depth * (MaxBlocks + 1)
  OBVIOUS
<1>3. n \in Nat
  BY <1>1, <1>2, ProductsGrow
<1>4. ASSUME NEW l \in Levels, NEW g \in 1 .. 2 ^ l
      PROVE  job.k * g * job.plans[l].blocks[g] \in 0 .. n
  <2>1. g \in Nat \ {0} /\ g <= 2 ^ job.depth
    BY LevelBounds
  <2>2. job.plans[l].blocks = [c \in 1 .. 2 ^ l |-> hist_blocks(job.k, c)]
    <3>1. job.plans[l] = LevelPlan(job, l)
      BY DEF IsFit, Levels
    <3> QED
      BY <3>1 DEF LevelPlan
  <2>3. job.plans[l].blocks[g] = hist_blocks(job.k, g)
    BY <2>2
  <2>4. hist_blocks(job.k, g) \in Nat /\ hist_blocks(job.k, g) <= MaxBlocks + 1
    BY <1>1, <2>1, HistBlocksPositive
  <2>5. job.k * g \in Nat /\ job.k * 2 ^ job.depth \in Nat /\ job.k * g <= job.k * 2 ^ job.depth
    BY <1>1, <2>1, ProductsGrow
  <2>6. PICK h : h = hist_blocks(job.k, g)
    OBVIOUS
  <2>7. h \in Nat /\ h <= MaxBlocks + 1
    BY <2>4, <2>6
  <2>8. job.k * g * h \in Nat /\ job.k * g * h <= n
    BY <1>1, <1>2, <2>5, <2>7, ProductsGrow
  <2>9. job.k * g * h \in 0 .. n
    <3>1. PICK y : y = job.k * g * h
      OBVIOUS
    <3>2. y \in 0 .. n
      BY <1>3, <2>8, <3>1
    <3> QED
      BY <3>1, <3>2
  <2> QED
    BY <2>3, <2>6, <2>9
<1>5. \A l \in Levels : \A c \in Chunks(job.plans[l]) :
        job.k * Gathered(job.plans[l], c) * job.plans[l].blocks[Gathered(job.plans[l], c)] \in 0 .. n
  BY <1>4, ChunkFacts
<1>6. PartialSizes \subseteq 0 .. n
  BY <1>5 DEF PartialSizes
<1> QED
  BY <1>3, <1>6

(* The chunk a worker is at is one the arrays are sized for. *)
LEMMA ChunkFits ==
  ASSUME IsFit(job), NEW m, IsLocals(m), IsPlaced(m), m.phase \in {"gather", "reduce"}
  PROVE  /\ job.k * nc(m) \in Nat /\ MaxHist \in Nat /\ job.k * nc(m) <= MaxHist
         /\ job.k * gather_nc(m) * blocks(m) \in Nat /\ MaxPartials \in Nat
         /\ job.k * gather_nc(m) * blocks(m) <= MaxPartials
         /\ job.k * gather_nc(m) \in Nat /\ job.k * gather_nc(m) <= MaxHist
         /\ m.swapped \/ plan(m).subtract => MaxParent = MaxHist
<1>1. /\ job.k \in Nat \ {0} /\ m.level \in Levels /\ m.node_base \in Nat
      /\ nc(m) \in Nat /\ gather_nc(m) \in Nat /\ blocks(m) \in Nat
      /\ m.node_base + nc(m) <= plan(m).nodes /\ nc(m) # 0 /\ plan(m).nodes \in Nat
  BY ShapeFacts, GatherShape DEF Levels
<1>2. nc(m) \in Chunks(plan(m))
  <2>1. m.node_base \in Upto(plan(m).nodes)
    BY <1>1 DEF Upto
  <2>2. m.node_base % plan(m).node_chunk = 0
    BY DEF IsPlaced
  <2> QED
    BY <2>1, <2>2 DEF Chunks, nc
<1>3. gather_nc(m) = Gathered(plan(m), nc(m))
  BY DEF gather_nc, Gathered
<1>4. job.k * nc(m) \in HistSizes
  BY <1>1, <1>2 DEF HistSizes, plan
<1>5. job.k * gather_nc(m) * blocks(m) \in PartialSizes
  BY <1>1, <1>2, <1>3 DEF PartialSizes, plan, blocks
<1>6. MaxHist = Max(HistSizes) /\ MaxPartials = Max(PartialSizes)
  BY DEF MaxHist, MaxPartials, HistSizes, PartialSizes
<1>7. MaxHist \in Nat /\ job.k * nc(m) <= MaxHist
  BY <1>4, <1>6, HistSizesBounded, MaxOfBounded
<1>8. MaxPartials \in Nat /\ job.k * gather_nc(m) * blocks(m) <= MaxPartials
  BY <1>5, <1>6, PartialSizesBounded, MaxOfBounded
<1>9. gather_nc(m) <= nc(m)
  BY <1>1, <1>2, <1>3, ChunkFacts DEF plan
<1>10. /\ job.k * nc(m) \in Nat /\ job.k * gather_nc(m) \in Nat
       /\ job.k * gather_nc(m) <= job.k * nc(m)
  BY <1>1, <1>9, ProductsGrow
<1>11. job.k * gather_nc(m) * blocks(m) \in Nat
  BY <1>1, <1>10, ProductsGrow
<1>12. job.k * gather_nc(m) <= MaxHist
  <2>1. PICK x, y : x = job.k * gather_nc(m) /\ y = job.k * nc(m)
    OBVIOUS
  <2>2. x <= MaxHist
    BY <1>7, <1>10, <2>1
  <2> QED
    BY <2>1, <2>2
<1>13. m.swapped \/ plan(m).subtract => MaxParent = MaxHist
  <2>1. CASE m.swapped
    BY <2>1 DEF IsPlaced, MaxParent
  <2>2. CASE plan(m).subtract
    <3>1. plan(m) = LevelPlan(job, m.level)
      BY <1>1 DEF plan, IsFit, Levels
    <3>2. m.level > 0 /\ retain(job, m.level - 1)
      <4>1. plan(m).subtract = subtract(job, m.level)
        BY <3>1 DEF LevelPlan
      <4> QED
        BY <2>2, <4>1 DEF subtract
    <3>3. PICK h : h = m.level - 1
      OBVIOUS
    <3>4. h \in Levels
      <4>1. m.level \in 0 .. job.depth /\ m.level > 0 /\ job.depth \in Nat
        BY <1>1, <3>2 DEF Levels, IsFit
      <4>2. h \in 0 .. job.depth
        BY <3>3, <4>1
      <4> QED
        BY <4>2 DEF Levels
    <3>5. job.plans[h] = LevelPlan(job, h)
      BY <3>4 DEF IsFit, Levels
    <3>6. job.plans[h].retain
      BY <3>2, <3>3, <3>5 DEF LevelPlan
    <3> QED
      BY <3>4, <3>6 DEF MaxParent
  <2> QED
    BY <2>1, <2>2
<1> QED
  BY <1>7, <1>8, <1>10, <1>11, <1>12, <1>13

(* How long the arrays of a fit are. *)
LEMMA AllocatedDomains ==
  /\ DOMAIN Allocated = Names
  /\ DOMAIN Allocated["raw"] = Upto(job.n * job.k)
  /\ DOMAIN Allocated["gh"] = Upto(job.n * job.k)
  /\ DOMAIN Allocated["order_a"] = Upto(job.k * job.n)
  /\ DOMAIN Allocated["order_b"] = Upto(job.k * job.n)
  /\ DOMAIN Allocated["ranges_a"] = Upto(job.k * 2 ^ job.depth)
  /\ DOMAIN Allocated["ranges_b"] = Upto(job.k * 2 ^ job.depth)
  /\ DOMAIN Allocated["blk_cnt"] = Upto(job.k * 2 ^ job.depth * 4 * W)
  /\ DOMAIN Allocated["partials"] = Upto(MaxPartials)
  /\ DOMAIN Allocated["hist"] = Upto(MaxHist)
  /\ DOMAIN Allocated["hist_parent"] = Upto(MaxParent)
  /\ DOMAIN Allocated["hist_left"] = Upto(MaxParent)
  /\ DOMAIN Allocated["split"] = Upto(job.iters * job.k * total_nodes)
  /\ DOMAIN Allocated["leaf_value"] = Upto(job.iters * job.k * total_nodes)
BY DEF Allocated, Names

LEMMA HandlesAllocated ==
  ASSUME NEW m
  PROVE  /\ DOMAIN Allocated[order(m)] = Upto(job.k * job.n)
         /\ DOMAIN Allocated[order_next(m)] = Upto(job.k * job.n)
         /\ DOMAIN Allocated[ranges(m)] = Upto(job.k * 2 ^ job.depth)
         /\ DOMAIN Allocated[ranges_next(m)] = Upto(job.k * 2 ^ job.depth)
BY AllocatedDomains DEF order, order_next, ranges, ranges_next

(* A worker in a phase, with the data of the phase. *)
Placed(u, m) ==
  /\ u \in Workers /\ me[u] = m /\ IsFit(job) /\ IsLocals(m) /\ m.phase \in Phases
  /\ IsData(m) /\ IsPlaced(m)

(* All worker u writes is within the allocation. *)
FitsIn(u, d) ==
  \A a \in DOMAIN Writes(u, d) :
    \A x \in DOMAIN Writes(u, d)[a] : a \in Names /\ x \in DOMAIN Allocated[a]

LEMMA ShareFits ==
  ASSUME IsFit(job), NEW u \in Workers, NEW x \in Share(u)
  PROVE  x \in Upto(job.n * job.k)
<1>1. PICK i \in span(job.n, u), cc \in Upto(job.k) : x = i * job.k + cc
  BY DEF Share
<1>2. job.n \in Nat /\ job.k \in Nat \ {0}
  BY DEF IsFit
<1>3. i \in 0 .. job.n - 1 /\ cc \in 0 .. job.k - 1
  BY <1>1, <1>2, SpanBounds DEF Upto
<1>4. i \in Upto(job.n)
  BY <1>3 DEF Upto
<1>5. x \in i * job.k .. (i + 1) * job.k - 1
  <2>1. i \in Nat
    BY <1>3
  <2>2. i * job.k + cc \in i * job.k .. (i + 1) * job.k - 1
    BY <1>2, <1>3, <2>1, BlockOf
  <2> QED
    BY <1>1, <2>2
<1> QED
  BY <1>2, <1>4, <1>5, BlocksAreTasks

LEMMA RawFits ==
  ASSUME NEW u, NEW m, NEW d, Placed(u, m), m.phase \in {"init", "grad", "update"}
  PROVE  FitsIn(u, d)
<1>1. me[u] = m /\ u \in Workers /\ IsFit(job)
  BY DEF Placed
<1>2. CASE m.phase = "init"
  <2>1. DOMAIN Writes(u, d) = {"raw"} /\ DOMAIN Writes(u, d)["raw"] = Share(u)
    BY <1>1, <1>2 DEF Writes, init_raw, Store
  <2> QED
    BY <1>1, <2>1, ShareFits, AllocatedDomains DEF FitsIn, Names
<1>3. CASE m.phase = "grad"
  <2>1. DOMAIN Writes(u, d) = {"gh"} /\ DOMAIN Writes(u, d)["gh"] = Share(u)
    BY <1>1, <1>3 DEF Writes, gradients, Store
  <2> QED
    BY <1>1, <2>1, ShareFits, AllocatedDomains DEF FitsIn, Names
<1>4. CASE m.phase = "update"
  <2>1. Writes(u, d) = update_raw(m, u)
    BY <1>1, <1>4 DEF Writes
  <2>2. DOMAIN update_raw(m, u) = {"raw"} /\ DOMAIN update_raw(m, u)["raw"] = Share(u)
    BY DEF update_raw, Store
  <2> QED
    BY <1>1, <2>1, <2>2, ShareFits, AllocatedDomains DEF FitsIn, Names
<1> QED
  BY <1>2, <1>3, <1>4

LEMMA TreesFit ==
  ASSUME IsFit(job), NEW t \in Upto(job.k)
  PROVE  t \in Upto(job.k * 2 ^ job.depth)
<1>1. job.k \in Nat /\ 2 ^ job.depth \in Nat /\ 1 <= 2 ^ job.depth
  BY PowerDoubles DEF IsFit
<1>2. job.k * 1 <= job.k * 2 ^ job.depth /\ job.k * 2 ^ job.depth \in Nat
  BY <1>1, ProductsGrow
<1>3. PICK x : x = job.k * 2 ^ job.depth
  OBVIOUS
<1>4. job.k * 1 = job.k
  BY <1>1
<1>5. job.k <= x /\ x \in Nat
  BY <1>2, <1>3, <1>4
<1>6. t \in Upto(x)
  BY <1>1, <1>5 DEF Upto
<1> QED
  BY <1>3, <1>6

LEMMA ResetFits ==
  ASSUME NEW u, NEW m, NEW d, Placed(u, m), m.phase = "reset"
  PROVE  FitsIn(u, d)
<1>1. me[u] = m /\ u \in Workers /\ IsFit(job)
  BY DEF Placed
<1>2. DOMAIN Writes(u, d) = {order(m), ranges(m)}
  BY <1>1, ResetNames
<1>3. DOMAIN Writes(u, d)[order(m)] = span(job.k * job.n, u)
  BY <1>1, ResetWrites
<1>4. DOMAIN Writes(u, d)[ranges(m)] = Trees(u)
  <2>1. Writes(u, d)[ranges(m)] = [tt \in Trees(u) |-> <<0, job.n>>]
    BY <1>1, ResetWrites
  <2> QED
    BY <2>1
<1>5. span(job.k * job.n, u) \subseteq Upto(job.k * job.n)
  <2>1. job.k * job.n \in Nat
    BY <1>1, ProductsGrow DEF IsFit
  <2> QED
    BY <1>1, <2>1, SpanBounds DEF Upto
<1>6. Trees(u) \subseteq Upto(job.k * 2 ^ job.depth)
  BY <1>1, TreesFit DEF Trees
<1>7. order(m) \in Names /\ ranges(m) \in Names
  BY DEF order, ranges, Names
<1> QED
  BY <1>2, <1>3, <1>4, <1>5, <1>6, <1>7, HandlesAllocated DEF FitsIn

LEMMA HistFits ==
  ASSUME NEW u, NEW m, Placed(u, m), m.phase \in {"gather", "reduce"}
  PROVE  /\ Upto(job.k * nc(m)) \subseteq DOMAIN Allocated[hist_cur(m)]
         /\ Upto(job.k * gather_nc(m)) \subseteq DOMAIN Allocated[gathered(m)]
         /\ Upto(job.k * gather_nc(m) * blocks(m)) \subseteq DOMAIN Allocated["partials"]
         /\ hist_cur(m) \in Names /\ gathered(m) \in Names
<1>1. /\ job.k * nc(m) \in Nat /\ MaxHist \in Nat /\ job.k * nc(m) <= MaxHist
      /\ job.k * gather_nc(m) * blocks(m) \in Nat /\ MaxPartials \in Nat
      /\ job.k * gather_nc(m) * blocks(m) <= MaxPartials
      /\ job.k * gather_nc(m) \in Nat /\ job.k * gather_nc(m) <= MaxHist
      /\ m.swapped \/ plan(m).subtract => MaxParent = MaxHist
  BY ChunkFits DEF Placed
<1>2. ASSUME NEW a \in Nat, NEW b \in Nat, a <= b PROVE Upto(a) \subseteq Upto(b)
  BY <1>2 DEF Upto
<1>3. DOMAIN Allocated[hist_cur(m)] = Upto(MaxHist)
  <2>1. CASE m.swapped
    BY <1>1, <2>1, AllocatedDomains DEF hist_cur
  <2>2. CASE ~m.swapped
    BY <2>2, AllocatedDomains DEF hist_cur
  <2> QED
    BY <2>1, <2>2
<1>4. DOMAIN Allocated[gathered(m)] = Upto(MaxHist)
  <2>1. CASE plan(m).subtract
    BY <1>1, <2>1, AllocatedDomains DEF gathered
  <2>2. CASE ~plan(m).subtract
    BY <1>3, <2>2 DEF gathered
  <2> QED
    BY <2>1, <2>2
<1>5. DOMAIN Allocated["partials"] = Upto(MaxPartials)
  BY AllocatedDomains
<1>6. hist_cur(m) \in Names /\ gathered(m) \in Names
  BY DEF hist_cur, gathered, Names
<1>7. /\ Upto(job.k * nc(m)) \subseteq Upto(MaxHist)
      /\ Upto(job.k * gather_nc(m)) \subseteq Upto(MaxHist)
      /\ Upto(job.k * gather_nc(m) * blocks(m)) \subseteq Upto(MaxPartials)
  BY <1>1, <1>2
<1> QED
  BY <1>3, <1>4, <1>5, <1>6, <1>7

LEMMA GatherFits ==
  ASSUME NEW u, NEW m, NEW d, Placed(u, m), m.phase = "gather"
  PROVE  FitsIn(u, d)
<1> DEFINE a == IF blocks(m) = 1 THEN gathered(m) ELSE "partials"
<1>1. me[u] = m /\ u \in Workers /\ IsFit(job) /\ IsLocals(m) /\ IsPlaced(m)
  BY DEF Placed
<1>2. DOMAIN Writes(u, d) = {a} /\ DOMAIN Writes(u, d)[a] = GatherTasks(m, u)
  BY <1>1, GatherWrites
<1>3. /\ job.k * gather_nc(m) * blocks(m) \in Nat /\ job.k * gather_nc(m) \in Nat
  BY <1>1, ChunkFits
<1>4. GatherTasks(m, u) \subseteq Upto(job.k * gather_nc(m) * blocks(m))
  BY <1>1, <1>3, SpanBounds DEF GatherTasks, Upto
<1>5. blocks(m) = 1 => job.k * gather_nc(m) * blocks(m) = job.k * gather_nc(m)
  <2>1. PICK x : x = job.k * gather_nc(m)
    OBVIOUS
  <2>2. x * 1 = x
    BY <1>3, <2>1
  <2> QED
    BY <2>1, <2>2
<1>6. a \in Names /\ Upto(job.k * gather_nc(m) * blocks(m)) \subseteq DOMAIN Allocated[a]
  <2>1. CASE blocks(m) = 1
    BY <1>5, <2>1, HistFits
  <2>2. CASE blocks(m) # 1
    BY <2>2, HistFits DEF Names
  <2> QED
    BY <2>1, <2>2
<1> HIDE DEF a
<1> QED
  BY <1>2, <1>4, <1>6 DEF FitsIn

LEMMA ReduceFits ==
  ASSUME NEW u, NEW m, NEW d, Placed(u, m), m.phase = "reduce"
  PROVE  FitsIn(u, d)
<1>1. me[u] = m /\ u \in Workers /\ IsFit(job) /\ IsLocals(m) /\ IsPlaced(m)
  BY DEF Placed
<1>2. DOMAIN Writes(u, d) = {hist_cur(m), gathered(m), "split", "leaf_value"}
  BY <1>1, ReduceNames
<1>3. /\ DOMAIN Writes(u, d)["split"] = SlotsOf(m, u)
      /\ DOMAIN Writes(u, d)["leaf_value"] = SlotsOf(m, u)
      /\ DOMAIN Writes(u, d)[hist_cur(m)] = Columns(m, u)
      /\ gathered(m) # hist_cur(m) => DOMAIN Writes(u, d)[gathered(m)] = ReduceTasks(m, u)
  BY <1>1, ReduceWrites
<1>4. Columns(m, u) \subseteq Upto(job.k * nc(m))
  BY <1>1, ColumnsAre DEF Upto
<1>5. ReduceTasks(m, u) \subseteq Upto(job.k * gather_nc(m))
  <2>1. job.k * gather_nc(m) \in Nat
    BY <1>1, ChunkFits
  <2> QED
    BY <1>1, <2>1, SpanBounds DEF ReduceTasks, Upto
<1>6. SlotsOf(m, u) \subseteq Upto(job.iters * job.k * total_nodes)
  <2> SUFFICES ASSUME NEW x \in SlotsOf(m, u) PROVE x \in Upto(job.iters * job.k * total_nodes)
    OBVIOUS
  <2>1. PICK c \in Columns(m, u) : x = ColumnSlot(m, c)
    BY DEF SlotsOf
  <2>2. /\ nc(m) \in Nat \ {0} /\ job.k \in Nat \ {0} /\ m.node_base \in Nat
        /\ m.level \in 0 .. job.depth /\ m.iter \in Nat
        /\ plan(m).nodes = 2 ^ m.level /\ m.node_base + nc(m) <= plan(m).nodes
        /\ plan(m).nodes \in Nat
    BY <1>1, ShapeFacts, GatherShape
  <2>3. c \div nc(m) \in 0 .. job.k - 1 /\ c % nc(m) \in 0 .. nc(m) - 1
    <3>1. job.k \in Nat /\ nc(m) \in Nat \ {0} /\ c \in 0 .. job.k * nc(m) - 1
      BY <1>1, <2>2, ColumnsAre
    <3> QED
      BY <3>1, DivBelow
  <2>4. PICK q, r : q = c \div nc(m) /\ r = c % nc(m)
    OBVIOUS
  <2>5. PICK y : y = m.node_base + r
    OBVIOUS
  <2>6. q \in Nat /\ q < job.k /\ y \in Nat /\ y < 2 ^ m.level
    BY <2>2, <2>3, <2>4, <2>5
  <2>7. x = Slot(m, q, m.level, y)
    BY <2>1, <2>4, <2>5 DEF ColumnSlot
  <2>8. /\ total_nodes \in Nat \ {0} /\ m.iter * job.k + q \in Nat
        /\ x \div total_nodes = m.iter * job.k + q
        /\ x % total_nodes = 2 ^ m.level - 1 + y
    <3>1. /\ m.iter \in Nat /\ m.level \in 0 .. job.depth
          /\ q \in Nat /\ y \in Nat /\ y < 2 ^ m.level
      BY <2>2, <2>6
    <3>2. /\ total_nodes \in Nat \ {0} /\ m.iter * job.k + q \in Nat
          /\ Slot(m, q, m.level, y) \div total_nodes = m.iter * job.k + q
          /\ Slot(m, q, m.level, y) % total_nodes = 2 ^ m.level - 1 + y
      BY <1>1, <3>1, SlotTells
    <3> QED
      BY <2>7, <3>2
  <2>9. m.iter * job.k + q \in Upto(job.iters * job.k)
    <3>1. m.iter \in Upto(job.iters) /\ job.iters \in Nat
      <4>1. m.iter < job.iters /\ job.iters \in Nat
        BY <1>1 DEF IsLocals, Phases, IsFit, Placed
      <4> QED
        BY <2>2, <4>1 DEF Upto
    <3>2. q \in 0 .. job.k - 1
      BY <2>2, <2>6
    <3>3. m.iter * job.k + q \in m.iter * job.k .. (m.iter + 1) * job.k - 1
      BY <2>2, <3>2, BlockOf
    <3> QED
      BY <2>2, <3>1, <3>3, BlocksAreTasks
  <2>10. PICK t, total : t = m.iter * job.k + q /\ total = total_nodes
    OBVIOUS
  <2>11. PICK units : units = job.iters * job.k
    OBVIOUS
  <2>12. units \in Nat
    BY <1>1, <2>11, ProductsGrow DEF IsFit
  <2>13. x \in Nat /\ x \div total = t
    <3>1. x \in Nat
      <4>1. PICK p : p = 2 ^ m.level
        OBVIOUS
      <4>2. p \in Nat \ {0}
        BY <2>2, <4>1, PowerDoubles
      <4>3. x = t * total + p - 1 + y
        BY <2>7, <2>10, <4>1 DEF Slot
      <4>4. PICK z : z = t * total
        OBVIOUS
      <4>5. z \in Nat
        BY <2>8, <2>10, <4>4, ProductsGrow
      <4> QED
        BY <2>6, <4>2, <4>3, <4>4, <4>5
    <3> QED
      BY <2>8, <2>10, <3>1
  <2>14. x \in t * total .. (t + 1) * total - 1
    BY <2>8, <2>10, <2>13, TaskOf
  <2>15. x \in Upto(units * total)
    BY <2>8, <2>9, <2>10, <2>11, <2>12, <2>14, BlocksAreTasks
  <2> QED
    BY <2>10, <2>11, <2>15
<1>7. /\ DOMAIN Allocated["split"] = Upto(job.iters * job.k * total_nodes)
      /\ DOMAIN Allocated["leaf_value"] = Upto(job.iters * job.k * total_nodes)
  BY AllocatedDomains
<1>8. /\ Upto(job.k * nc(m)) \subseteq DOMAIN Allocated[hist_cur(m)]
      /\ Upto(job.k * gather_nc(m)) \subseteq DOMAIN Allocated[gathered(m)]
      /\ hist_cur(m) \in Names /\ gathered(m) \in Names
  BY HistFits
<1>9. "split" \in Names /\ "leaf_value" \in Names
  BY DEF Names
<1>10. ASSUME NEW a \in DOMAIN Writes(u, d), NEW x \in DOMAIN Writes(u, d)[a]
       PROVE  a \in Names /\ x \in DOMAIN Allocated[a]
  <2>1. CASE a \in {"split", "leaf_value"}
    BY <1>3, <1>6, <1>7, <1>9, <1>10, <2>1
  <2>2. CASE a = hist_cur(m)
    BY <1>3, <1>4, <1>8, <1>10, <2>2
  <2>3. CASE a = gathered(m) /\ gathered(m) # hist_cur(m)
    BY <1>3, <1>5, <1>8, <1>10, <2>3
  <2> QED
    BY <1>2, <2>1, <2>2, <2>3
<1> QED
  BY <1>10 DEF FitsIn

(* A level with a partition has half the nodes of the last level, or less, *)
(* and no more than four blocks for each worker.                           *)
LEMMA PartitionFits ==
  ASSUME IsFit(job), NEW m, IsLocals(m), m.level < job.depth
  PROVE  /\ 2 * Units(m) <= job.k * 2 ^ job.depth /\ job.k * 2 ^ job.depth \in Nat
         /\ Units(m) * plan(m).bcount <= job.k * 2 ^ job.depth * 4 * W
         /\ job.k * 2 ^ job.depth * 4 * W \in Nat
<1>1. /\ job.k \in Nat \ {0} /\ m.level \in 0 .. job.depth /\ job.depth \in Nat
      /\ plan(m).nodes = 2 ^ m.level /\ plan(m).nodes \in Nat \ {0}
      /\ plan(m).bcount \in Nat \ {0} /\ Units(m) = job.k * plan(m).nodes
      /\ Units(m) \in Nat
  BY ShapeFacts
<1>2. PICK l, p, q : l = m.level + 1 /\ p = plan(m).nodes /\ q = 2 ^ job.depth
  OBVIOUS
<1>3. l \in Nat /\ l <= job.depth /\ m.level \in Nat
  BY <1>1, <1>2
<1>4. 2 * p <= q /\ q \in Nat
  <2>1. 2 ^ l <= 2 ^ job.depth /\ 2 ^ l = 2 * 2 ^ m.level /\ q \in Nat
    BY <1>1, <1>2, <1>3, PowersGrow, PowerDoubles
  <2> QED
    BY <1>1, <1>2, <2>1
<1>5. PICK units, all : units = job.k * p /\ all = job.k * q
  OBVIOUS
<1>6. units \in Nat /\ all \in Nat /\ 2 * units <= all
  <2>1. job.k * (2 * p) <= job.k * q /\ job.k * q \in Nat /\ job.k * p \in Nat
    <3>1. job.k \in Nat /\ 2 * p \in Nat /\ p \in Nat
      BY <1>1, <1>2
    <3> QED
      BY <1>4, <3>1, ProductsGrow
  <2>2. job.k * (2 * p) = 2 * (job.k * p)
    <3>1. \A a, b \in Nat : a * (2 * b) = 2 * (a * b)
      BY SMT
    <3> QED
      BY <1>1, <1>2, <3>1
  <2> QED
    BY <1>5, <2>1, <2>2
<1>7. plan(m).bcount <= 4 * W
  <2>1. plan(m) = LevelPlan(job, m.level)
    BY <1>1 DEF plan, IsFit
  <2>2. plan(m).bcount = partition_blocks_host(job, m.level)
    BY <2>1 DEF LevelPlan
  <2>3. PICK x, y : /\ x = CeilDiv(4 * W, job.k * 2 ^ m.level)
                    /\ y = Larger(job.n \div (2 ^ m.level * MIN_ROWS_PER_BLOCK), 1)
    OBVIOUS
  <2>4. plan(m).bcount = Smaller(x, y)
    BY <2>2, <2>3 DEF partition_blocks_host
  <2>5. x <= 4 * W /\ x \in Int
    <3>1. job.k * 2 ^ m.level \in Nat \ {0} /\ 4 * W \in Nat \ {0}
      <4>1. \A a, b \in Nat \ {0} : a * b \in Nat \ {0}
        BY SMT
      <4> QED
        BY <1>1, <4>1, WAssumption
    <3>2. PICK b, a : b = job.k * 2 ^ m.level /\ a = 4 * W
      OBVIOUS
    <3>3. x = (a + b - 1) \div b /\ a \in Nat \ {0} /\ b \in Nat \ {0}
      BY <2>3, <3>1, <3>2 DEF CeilDiv
    <3>4. a + b - 1 \in Nat /\ (a + b - 1) \div b \in Int
      BY <3>3
    <3>5. a + b - 1 <= a * b
      <4>1. PICK c, e : c = a - 1 /\ e = b - 1
        OBVIOUS
      <4>2. c \in Nat /\ e \in Nat /\ a = c + 1 /\ b = e + 1
        BY <3>3, <4>1
      <4>3. c * e \in Nat /\ (c + 1) * (e + 1) = c * e + c + e + 1
        BY <4>2, SMT
      <4>4. PICK f : f = c * e
        OBVIOUS
      <4>5. a * b = f + c + e + 1 /\ f \in Nat
        BY <4>2, <4>3, <4>4
      <4> QED
        BY <4>2, <4>5
    <3>6. (a + b - 1) \div b <= (a * b) \div b
      <4>1. a + b - 1 \in Int /\ a * b \in Int
        BY <3>3, SMT
      <4> QED
        BY <3>3, <3>5, <4>1, DivMonotone
    <3>7. (a * b) \div b = a
      <4>1. (b * a + 0) \div b = a
        BY <3>3, DivModUnique
      <4>2. b * a + 0 = a * b
        BY <3>3, SMT
      <4> QED
        BY <4>1, <4>2
    <3> QED
      BY <3>2, <3>3, <3>4, <3>6, <3>7
  <2>6. y \in Int
    <3>1. job.n \in Nat /\ 2 ^ m.level * MIN_ROWS_PER_BLOCK \in Nat \ {0}
      <4>1. \A a, b \in Nat \ {0} : a * b \in Nat \ {0}
        BY SMT
      <4> QED
        BY <1>1, <4>1, HostAssumption DEF IsFit
    <3>2. PICK z : z = job.n \div (2 ^ m.level * MIN_ROWS_PER_BLOCK)
      OBVIOUS
    <3>3. z \in Int
      BY <3>1, <3>2, DivMod
    <3> QED
      BY <2>3, <3>2, <3>3 DEF Larger
  <2>7. 4 * W \in Int
    BY WAssumption
  <2> QED
    BY <2>4, <2>5, <2>6, <2>7 DEF Smaller
<1>8. units * plan(m).bcount <= all * (4 * W) /\ all * (4 * W) \in Nat
  <2>1. 4 * W \in Nat
    BY WAssumption
  <2>2. units <= all
    BY <1>6
  <2> QED
    BY <1>1, <1>6, <1>7, <2>1, <2>2, ProductsGrow
<1>9. all * (4 * W) = all * 4 * W
  <2>1. \A a, b \in Nat : a * (4 * b) = a * 4 * b
    BY SMT
  <2> QED
    BY <1>6, <2>1, WAssumption
<1> QED
  BY <1>1, <1>2, <1>5, <1>6, <1>8, <1>9

LEMMA BlockTasksFit ==
  ASSUME IsFit(job), NEW m, IsLocals(m), m.level < job.depth, NEW u \in Workers
  PROVE  /\ BlockTasks(m, u) \subseteq DOMAIN Allocated["blk_cnt"]
         /\ TasksOf(m, u) \subseteq DOMAIN Allocated["blk_cnt"]
         /\ ChildrenOf(NodeTasks(m, u)) \subseteq DOMAIN Allocated[ranges_next(m)]
<1>1. /\ 2 * Units(m) <= job.k * 2 ^ job.depth /\ job.k * 2 ^ job.depth \in Nat
      /\ Units(m) * plan(m).bcount <= job.k * 2 ^ job.depth * 4 * W
      /\ job.k * 2 ^ job.depth * 4 * W \in Nat
  BY PartitionFits
<1>2. Units(m) \in Nat /\ plan(m).bcount \in Nat \ {0} /\ Units(m) * plan(m).bcount \in Nat
  BY ShapeFacts
<1>3. DOMAIN Allocated["blk_cnt"] = Upto(job.k * 2 ^ job.depth * 4 * W)
      /\ DOMAIN Allocated[ranges_next(m)] = Upto(job.k * 2 ^ job.depth)
  BY AllocatedDomains, HandlesAllocated
<1>4. Upto(Units(m) * plan(m).bcount) \subseteq DOMAIN Allocated["blk_cnt"]
  <2>1. PICK x, y : x = Units(m) * plan(m).bcount /\ y = job.k * 2 ^ job.depth * 4 * W
    OBVIOUS
  <2>2. x \in Nat /\ y \in Nat /\ x <= y
    BY <1>1, <1>2, <2>1
  <2>3. Upto(x) \subseteq Upto(y)
    BY <2>2 DEF Upto
  <2> QED
    BY <1>3, <2>1, <2>3
<1>5. BlockTasks(m, u) \subseteq Upto(Units(m) * plan(m).bcount)
      /\ NodeTasks(m, u) \subseteq Upto(Units(m))
  BY TasksAreNumbers
<1>6. TasksOf(m, u) \subseteq Upto(Units(m) * plan(m).bcount)
  <2>1. ASSUME NEW tn \in NodeTasks(m, u), NEW t \in Blocks(m, tn)
        PROVE  t \in Upto(Units(m) * plan(m).bcount)
    BY <1>2, <1>5, BlocksAreTasks DEF Blocks
  <2> QED
    BY <2>1 DEF TasksOf
<1>7. ChildrenOf(NodeTasks(m, u)) \subseteq Upto(job.k * 2 ^ job.depth)
  <2> SUFFICES ASSUME NEW c \in ChildrenOf(NodeTasks(m, u))
               PROVE  c \in Upto(job.k * 2 ^ job.depth)
    OBVIOUS
  <2>1. PICK tn \in NodeTasks(m, u) : c \in {2 * tn, 2 * tn + 1}
    BY DEF ChildrenOf
  <2>2. PICK units, all : units = Units(m) /\ all = job.k * 2 ^ job.depth
    OBVIOUS
  <2>3. tn \in 0 .. units - 1 /\ units \in Nat /\ all \in Nat /\ 2 * units <= all
    BY <1>1, <1>2, <1>5, <2>2 DEF Upto
  <2>4. c \in 0 .. all - 1
    BY <2>1, <2>3
  <2> QED
    BY <2>2, <2>4 DEF Upto
<1> QED
  BY <1>3, <1>4, <1>5, <1>6, <1>7

LEMMA LandingFits ==
  ASSUME NEW m, NEW tn, AtNode(m, tn), NEW r \in Pos(m, tn)
  PROVE  Landing(m, tn, r) \in Upto(job.k * job.n)
<1>1. /\ job.n \in Nat \ {0} /\ plan(m).nodes \in Nat \ {0} /\ Units(m) = job.k * plan(m).nodes
      /\ tn \in Upto(Units(m)) /\ job.k \in Nat
  BY ShapeFacts DEF AtNode
<1>2. /\ Positions(Node(m, tn).s, Node(m, tn).e, Leftward(m, tn))
      /\ Node(m, tn).s \in Nat /\ Node(m, tn).e \in Nat /\ Node(m, tn).e <= job.n
  BY NodeFacts
<1>3. PICK x : x = Dest(Node(m, tn).s, Node(m, tn).e, Leftward(m, tn), r)
  OBVIOUS
<1>4. x \in Node(m, tn).s .. Node(m, tn).e - 1
  BY <1>2, <1>3, DestInRange DEF Pos
<1>5. x \in 0 .. job.n - 1
  BY <1>1, <1>2, <1>4
<1>6. PICK tt : tt = tn \div plan(m).nodes
  OBVIOUS
<1>7. tt \in 0 .. job.k - 1
  <2>1. tn \in 0 .. job.k * plan(m).nodes - 1
    BY <1>1 DEF Upto
  <2> QED
    BY <1>1, <1>6, <2>1, DivBelow
<1>8. tt \in Nat /\ tt \in Upto(job.k)
  BY <1>7 DEF Upto
<1>9. Landing(m, tn, r) = tt * job.n + x
  BY <1>3, <1>6 DEF Landing, Node
<1>10. tt * job.n + x \in tt * job.n .. (tt + 1) * job.n - 1
  BY <1>1, <1>5, <1>8, BlockOf
<1>11. tt * job.n + x \in Upto(job.k * job.n)
  BY <1>1, <1>8, <1>10, BlocksAreTasks
<1> QED
  BY <1>9, <1>11

LEMMA PartitionPhasesFit ==
  ASSUME NEW u, NEW m, NEW d, Placed(u, m), m.phase \in {"count", "prefix", "scatter", "fused"}
  PROVE  FitsIn(u, d)
<1>1. /\ me[u] = m /\ u \in Workers /\ IsFit(job) /\ IsLocals(m) /\ IsData(m)
      /\ m.level < job.depth /\ AreRanges(mem[ranges(m)], plan(m).nodes)
  BY DEF Placed, IsLocals, IsData, LevelPhases
<1>2. /\ BlockTasks(m, u) \subseteq DOMAIN Allocated["blk_cnt"]
      /\ TasksOf(m, u) \subseteq DOMAIN Allocated["blk_cnt"]
      /\ ChildrenOf(NodeTasks(m, u)) \subseteq DOMAIN Allocated[ranges_next(m)]
  BY <1>1, BlockTasksFit
<1>3. DOMAIN Allocated[order_next(m)] = Upto(job.k * job.n)
  BY HandlesAllocated
<1>4. "blk_cnt" \in Names /\ ranges_next(m) \in Names /\ order_next(m) \in Names
      /\ ranges_next(m) # "blk_cnt" /\ ranges_next(m) # order_next(m)
  BY DEF Names, ranges_next, order_next
<1>5. NodeTasks(m, u) \subseteq Nat /\ NodeTasks(m, u) \subseteq Upto(Units(m))
  BY <1>1, TasksAreNumbers
<1>6. \A tn \in Upto(Units(m)) : AtNode(m, tn)
  BY <1>1 DEF AtNode, AreRanges, Units
<1>7. CASE m.phase = "count"
  <2>1. DOMAIN Writes(u, d) = {"blk_cnt"} /\ DOMAIN Writes(u, d)["blk_cnt"] = BlockTasks(m, u)
    BY <1>1, <1>7, CountWrites
  <2> QED
    BY <1>2, <1>4, <2>1 DEF FitsIn
<1>8. CASE m.phase = "prefix"
  <2>1. DOMAIN Writes(u, d) = {ranges_next(m), "blk_cnt"}
    BY <1>1, <1>8, PrefixNames
  <2>0. me[u] = m
    BY <1>1
  <2>2. /\ Writes(u, d)["blk_cnt"] =
             [t \in TasksOf(m, u) |-> CountsBelow(m, t \div plan(m).bcount)[t % plan(m).bcount]]
        /\ Writes(u, d)[ranges_next(m)] =
             ChildRanges(m, NodeTasks(m, u), Counts(m, u))[ranges_next(m)]
    BY <1>8, <2>0, PrefixWrites
  <2>3. DOMAIN Writes(u, d)[ranges_next(m)] = ChildrenOf(NodeTasks(m, u))
    BY <1>5, <2>2, ChildRangesWritten
  <2>4. DOMAIN Writes(u, d)["blk_cnt"] = TasksOf(m, u)
    BY <2>2
  <2> QED
    BY <1>2, <1>4, <2>1, <2>3, <2>4 DEF FitsIn
<1>9. CASE m.phase = "scatter"
  <2>1. DOMAIN Writes(u, d) = {order_next(m)}
        /\ DOMAIN Writes(u, d)[order_next(m)] = ScatterTargets(m, u)
    BY <1>1, <1>9, ScatterWrites
  <2>2. ASSUME NEW p \in ScatterTargets(m, u) PROVE p \in Upto(job.k * job.n)
    <3>1. PICK t \in BlockTasks(m, u) : \E r \in Pos(m, t \div plan(m).bcount) :
             AtNode(m, t \div plan(m).bcount) /\ p = Landing(m, t \div plan(m).bcount, r)
      BY <1>1, <1>9, <2>2, ScatterLands
    <3>2. PICK tn : tn = t \div plan(m).bcount
      OBVIOUS
    <3>3. \E r \in Pos(m, tn) : AtNode(m, tn) /\ p = Landing(m, tn, r)
      BY <3>1, <3>2
    <3> QED
      BY <3>3, LandingFits
  <2> QED
    BY <1>3, <1>4, <2>1, <2>2 DEF FitsIn
<1>10. CASE m.phase = "fused"
  <2>1. DOMAIN Writes(u, d) = {ranges_next(m), order_next(m)}
    BY <1>1, <1>10, FusedNames
  <2>2. Writes(u, d)[ranges_next(m)] =
             ChildRanges(m, NodeTasks(m, u), LeftCounts(m, u))[ranges_next(m)]
    BY <1>1, <1>10, FusedWrites
  <2>3. DOMAIN Writes(u, d)[ranges_next(m)] = ChildrenOf(NodeTasks(m, u))
    BY <1>5, <2>2, ChildRangesWritten
  <2>4. DOMAIN Writes(u, d)[order_next(m)] = FusedTargets(m, u)
    BY <1>1, <1>10, FusedWrites
  <2>5. ASSUME NEW p \in FusedTargets(m, u) PROVE p \in Upto(job.k * job.n)
    <3>1. PICK tn \in NodeTasks(m, u) : p \in Targets(NodeMoves(m, tn))
      BY <2>5 DEF FusedTargets, Targets
    <3>2. AtNode(m, tn)
      BY <1>5, <1>6
    <3> QED
      BY <3>1, <3>2, NodeMovesLand, LandingFits
  <2> QED
    BY <1>2, <1>3, <1>4, <2>1, <2>3, <2>4, <2>5 DEF FitsIn
<1> QED
  BY <1>7, <1>8, <1>9, <1>10

LEMMA AllFit ==
  ASSUME NEW u, NEW m, NEW d, Placed(u, m)
  PROVE  FitsIn(u, d)
<1>1. m.phase \in Phases
  BY DEF Placed
<1>2. CASE m.phase \in {"init", "grad", "update"}
  BY <1>2, RawFits
<1>3. CASE m.phase = "reset"
  BY <1>3, ResetFits
<1>4. CASE m.phase = "gather"
  BY <1>4, GatherFits
<1>5. CASE m.phase = "reduce"
  BY <1>5, ReduceFits
<1>6. CASE m.phase \in {"count", "prefix", "scatter", "fused"}
  BY <1>6, PartitionPhasesFit
<1> QED
  BY <1>1, <1>2, <1>3, <1>4, <1>5, <1>6 DEF Phases

----------------------------------------------------------------------------
(* The arrays never shrink *)

LEMMA SizesStay ==
  ASSUME job' = job
  PROVE  Allocated' = Allocated
BY DEF Allocated, MaxHist, MaxPartials, MaxParent, Levels, Zero, Rows, total_nodes

LEMMA PlacedStays ==
  ASSUME NEW m, job' = job
  PROVE  IsPlaced(m)' <=> IsPlaced(m)
BY DEF IsPlaced, plan, Levels

LEMMA InitAllocation == Init => AInv
<1> SUFFICES ASSUME Init PROVE AInv
  OBVIOUS
<1>1. mem = Allocated
  BY DEF Init
<1>2. \A u \in Workers : me[u].phase = "init" /\ ~me[u].swapped
  BY DEF Init
<1> QED
  BY <1>1, <1>2 DEF AInv, IsPlaced

LEMMA NextAllocation == CInv /\ DInv /\ AInv /\ [Next]_vars => AInv'
<1> SUFFICES ASSUME CInv, DInv, AInv, [Next]_vars PROVE AInv'
  OBVIOUS
<1>1. ASSUME UNCHANGED <<job, mem>>, \A u \in Workers : IsPlaced(me'[u]) PROVE AInv'
  <2>1. Allocated' = Allocated
    BY <1>1, SizesStay
  <2>2. \A u \in Workers : IsPlaced(me[u])'
    BY <1>1 DEF IsPlaced, plan, Levels
  <2> QED
    BY <1>1, <2>1, <2>2 DEF AInv
<1>2. ASSUME NEW u \in Workers, Work(u) PROVE AInv'
  <2>1. PICK d : mem' = Updated(Writes(u, d))
    BY <1>2, WorkWrites
  <2>2. UNCHANGED <<job, me>>
    BY <1>2 DEF Work, Goes
  <2>3. DOMAIN mem = Names
    BY DEF DInv
  <2>4. \A a \in Names : DOMAIN mem[a] \subseteq DOMAIN mem'[a]
    <3>1. ASSUME NEW a \in Names PROVE DOMAIN mem[a] \subseteq DOMAIN mem'[a]
      <4>1. mem'[a] = IF a \in DOMAIN Writes(u, d) THEN Over(Writes(u, d)[a], mem[a]) ELSE mem[a]
        BY <2>1, <2>3 DEF Updated
      <4>2. CASE a \in DOMAIN Writes(u, d)
        <5>1. DOMAIN Over(Writes(u, d)[a], mem[a]) = DOMAIN Writes(u, d)[a] \cup DOMAIN mem[a]
          BY OverNames
        <5> QED
          BY <4>1, <4>2, <5>1
      <4>3. CASE a \notin DOMAIN Writes(u, d)
        BY <4>1, <4>3
      <4> QED
        BY <4>2, <4>3
    <3> QED
      BY <3>1
  <2>5. Allocated' = Allocated
    BY <2>2, SizesStay
  <2>6. \A v \in Workers : IsPlaced(me[v])'
    BY <2>2 DEF AInv, IsPlaced, plan, Levels
  <2> QED
    BY <2>4, <2>5, <2>6 DEF AInv
<1>3. ASSUME NEW u \in Workers, Pass(u) PROVE AInv'
  <2> DEFINE x == IF poisoned THEN Abandon(me[u]) ELSE After(me[u])
  <2>1. /\ at[u] = "freed" /\ me' = [me EXCEPT ![u] = x] /\ UNCHANGED <<job, mem>>
    BY <1>3 DEF Pass, Bar!Leave
  <2>2. DOMAIN me = Workers /\ IsFit(job) /\ IsLocals(me[u]) /\ me[u].phase \in Phases
    BY <2>1 DEF CInv, Typed, AtTheCall
  <2>3. IsPlaced(me[u])
    BY DEF AInv
  <2>4. IsPlaced(x)
    <3>1. IsPlaced(After(me[u]))
      BY <2>2, <2>3, AfterIsPlaced
    <3>2. IsPlaced(Abandon(me[u]))
      BY <2>2, <2>3, AbandonIsPlaced
    <3> QED
      BY <3>1, <3>2
  <2> HIDE DEF x
  <2>5. \A v \in Workers : IsPlaced(me'[v])
    BY <2>1, <2>2, <2>4 DEF AInv
  <2> QED
    BY <1>1, <2>1, <2>5
<1>4. ASSUME NEW u \in Workers, Fail(u) PROVE AInv'
  <2> DEFINE x == [me[u] EXCEPT !.phase = "failed"]
  <2>1. me' = [me EXCEPT ![u] = x] /\ UNCHANGED <<job, mem>>
    BY <1>4 DEF Fail
  <2>2. DOMAIN me = Workers /\ IsLocals(me[u]) /\ IsPlaced(me[u])
    BY DEF CInv, Typed, AInv
  <2>3. x.phase = "failed" /\ x.swapped = me[u].swapped
    BY <2>2 DEF IsLocals
  <2> HIDE DEF x
  <2>4. IsPlaced(x)
    BY <2>2, <2>3 DEF IsPlaced
  <2>5. \A v \in Workers : IsPlaced(me'[v])
    BY <2>1, <2>2, <2>4 DEF AInv
  <2> QED
    BY <1>1, <2>1, <2>5
<1>5. ASSUME UNCHANGED <<job, me, mem>> PROVE AInv'
  BY <1>1, <1>5 DEF AInv
<1> QED
  BY <1>2, <1>3, <1>4, <1>5 DEF Next, Open, Join, vars

(* No worker writes past the end of an array: the sizes the fit takes from  *)
(* its level plans are enough for every level and every chunk.              *)
THEOREM WithinAllocationCorrect == Spec => []WithinAllocation
<1>1. Init => AInv
  BY InitAllocation
<1>2. CInv /\ DInv /\ AInv /\ [Next]_vars => AInv'
  BY NextAllocation
<1>3. CInv /\ DInv /\ AInv => WithinAllocation
  <2> SUFFICES ASSUME CInv, DInv, AInv, NEW u \in Workers, Running(u), ~poisoned,
                      NEW c, c \in Written(u)
               PROVE  c[2] \in DOMAIN mem[c[1]]
    BY DEF WithinAllocation
  <2>1. PICK a, x : c = <<a, x>>
    BY CellsWritten
  <2>2. PICK d : a \in DOMAIN Writes(u, d) /\ x \in DOMAIN Writes(u, d)[a]
    BY <2>1, WrittenIs
  <2>3. Placed(u, me[u])
    <3>1. Pending(u) = me[u] /\ me[u].phase \notin Ended
      BY DEF Running, Pending
    <3>2. IsFit(job) /\ IsLocals(me[u]) /\ IsPlaced(me[u])
      BY DEF CInv, Typed, AInv
    <3>3. me[u].phase \in Phases
      BY <3>1, <3>2, ShapeFacts
    <3>4. IsData(me[u])
      BY <3>1 DEF DInv
    <3> QED
      BY <3>2, <3>3, <3>4 DEF Placed
  <2>4. a \in Names /\ x \in DOMAIN Allocated[a]
    BY <2>2, <2>3, AllFit DEF FitsIn
  <2> QED
    BY <2>1, <2>4 DEF AInv
<1> QED
  BY <1>1, <1>2, <1>3, DataInvariance, PTL DEF Spec

----------------------------------------------------------------------------
(* The way of a row down a tree *)

(* One step down a tree whose nodes' splits begin at base. *)
Down(splits, base, i, a) ==
  IF splits[base + a].is_leaf THEN a
  ELSE 2 * a + (IF i \in splits[base + a].left THEN 1 ELSE 2)

IsDescent(f, splits, base, depth, i) ==
  f = [s \in 0 .. depth |-> IF s = 0 THEN 0 ELSE Down(splits, base, i, f[s - 1])]

Descent(splits, base, depth, i) == CHOOSE f : IsDescent(f, splits, base, depth, i)

TreeBase(iter, tt) == (iter * job.k + tt) * total_nodes

LEMMA DescentExists ==
  ASSUME NEW splits, NEW base, NEW depth \in Nat, NEW i
  PROVE  \E f : IsDescent(f, splits, base, depth, i)
<1> DEFINE Good == {x \in Nat : \E f : IsDescent(f, splits, base, x, i)}
<1>1. 0 \in Good
  <2>1. IsDescent([s \in 0 .. 0 |-> 0], splits, base, 0, i)
    BY DEF IsDescent
  <2> QED
    BY <2>1
<1>2. ASSUME NEW x \in Nat, x \in Good PROVE x + 1 \in Good
  <2>1. PICK f : IsDescent(f, splits, base, x, i)
    BY <1>2
  <2> DEFINE g == [s \in 0 .. x + 1 |-> IF s = 0 THEN 0 ELSE Down(splits, base, i, f[s - 1])]
  <2>2. \A s \in 0 .. x : g[s] = f[s]
    <3>1. \A s \in 0 .. x : f[s] = IF s = 0 THEN 0 ELSE Down(splits, base, i, f[s - 1])
      BY <2>1 DEF IsDescent
    <3> QED
      BY <3>1
  <2>3. \A s \in 0 .. x + 1 : g[s] = IF s = 0 THEN 0 ELSE Down(splits, base, i, g[s - 1])
    <3>1. \A s \in 0 .. x + 1 : s # 0 => s - 1 \in 0 .. x
      OBVIOUS
    <3>2. \A s \in 0 .. x + 1 : g[s] = IF s = 0 THEN 0 ELSE Down(splits, base, i, f[s - 1])
      OBVIOUS
    <3> HIDE DEF g
    <3> QED
      BY <2>2, <3>1, <3>2
  <2>4. g = [s \in 0 .. x + 1 |-> g[s]]
    OBVIOUS
  <2>5. IsDescent(g, splits, base, x + 1, i)
    <3> HIDE DEF g
    <3>1. g = [s \in 0 .. x + 1 |-> IF s = 0 THEN 0 ELSE Down(splits, base, i, g[s - 1])]
      BY <2>3, <2>4
    <3> QED
      BY <3>1 DEF IsDescent
  <2> HIDE DEF g
  <2>6. \E h : IsDescent(h, splits, base, x + 1, i)
    BY <2>5
  <2> QED
    BY <1>2, <2>6
<1> HIDE DEF Good
<1>3. depth \in Good
  BY <1>1, <1>2, NatSetInd
<1> QED
  BY <1>3 DEF Good

LEMMA DescentChosen ==
  ASSUME NEW splits, NEW base, NEW depth \in Nat, NEW i, NEW f,
         f = Descent(splits, base, depth, i)
  PROVE  /\ f[0] = 0
         /\ \A s \in 0 .. depth : s # 0 => f[s] = Down(splits, base, i, f[s - 1])
<1>1. f = CHOOSE g : IsDescent(g, splits, base, depth, i)
  BY DEF Descent
<1>2. \E g : IsDescent(g, splits, base, depth, i)
  BY DescentExists
<1>3. IsDescent(f, splits, base, depth, i)
  BY <1>1, <1>2, Zenon
<1>4. f = [s \in 0 .. depth |-> IF s = 0 THEN 0 ELSE Down(splits, base, i, f[s - 1])]
  BY <1>3 DEF IsDescent
<1>5. \A s \in 0 .. depth : f[s] = IF s = 0 THEN 0 ELSE Down(splits, base, i, f[s - 1])
  BY <1>4
<1>6. 0 \in 0 .. depth
  OBVIOUS
<1> QED
  BY <1>5, <1>6

LEMMA DescendIs ==
  ASSUME NEW iter, NEW tt, NEW i
  PROVE  Descend(iter, tt, i) = Descent(mem["split"], TreeBase(iter, tt), job.depth, i)
BY DEF Descend, Descent, IsDescent, Down, TreeBase

(* After s steps a row is above level s + 1; if it is above level s, it has *)
(* come to a leaf.                                                          *)
LEMMA DescentBounds ==
  ASSUME NEW splits, NEW base, NEW depth \in Nat, NEW i, NEW f,
         f = Descent(splits, base, depth, i), NEW s \in 0 .. depth
  PROVE  /\ f[s] \in Nat /\ f[s] + 2 <= 2 ^ (s + 1)
         /\ f[s] + 1 < 2 ^ s => splits[base + f[s]].is_leaf
<1> DEFINE Holds(x) == /\ f[x] \in Nat /\ f[x] + 2 <= 2 ^ (x + 1)
                       /\ f[x] + 1 < 2 ^ x => splits[base + f[x]].is_leaf
           Good == {x \in Nat : x <= depth => Holds(x)}
<1>1. f[0] = 0 /\ \A x \in 0 .. depth : x # 0 => f[x] = Down(splits, base, i, f[x - 1])
  BY DescentChosen
<1>2. 0 \in Good
  <2>1. 2 ^ (0 + 1) = 2 * 2 ^ 0 /\ 2 ^ 0 = 1
    BY PowerDoubles, PowerOfZero
  <2> QED
    BY <1>1, <2>1
<1>3. ASSUME NEW x \in Nat, x \in Good PROVE x + 1 \in Good
  <2> SUFFICES ASSUME x + 1 <= depth PROVE Holds(x + 1)
    OBVIOUS
  <2>1. PICK a, b : a = f[x] /\ b = f[x + 1]
    OBVIOUS
  <2>2. b = Down(splits, base, i, a)
    <3>1. x + 1 \in 0 .. depth /\ x + 1 # 0 /\ (x + 1) - 1 = x
      OBVIOUS
    <3> QED
      BY <1>1, <2>1, <3>1
  <2>3. PICK p : p = 2 ^ x
    OBVIOUS
  <2>4. p \in Nat \ {0} /\ 2 ^ (x + 1) = 2 * p /\ 2 ^ ((x + 1) + 1) = 4 * p
    BY <2>3, PowerDoubles
  <2>5. a \in Nat /\ a + 2 <= 2 * p /\ (a + 1 < p => splits[base + a].is_leaf)
    BY <1>3, <2>1, <2>3, <2>4
  <2>6. CASE splits[base + a].is_leaf
    <3>1. b = a
      BY <2>2, <2>6 DEF Down
    <3>2. b \in Nat /\ b + 2 <= 4 * p /\ splits[base + b].is_leaf
      BY <2>4, <2>5, <2>6, <3>1
    <3> QED
      BY <2>1, <2>4, <3>2
  <2>7. CASE ~splits[base + a].is_leaf
    <3>1. b = 2 * a + 1 \/ b = 2 * a + 2
      BY <2>2, <2>7 DEF Down
    <3>2. p <= a + 1
      BY <2>4, <2>5, <2>7
    <3>3. b \in Nat /\ b + 2 <= 4 * p /\ ~ (b + 1 < 2 * p)
      BY <2>4, <2>5, <3>1, <3>2
    <3> QED
      BY <2>1, <2>4, <3>3
  <2> QED
    BY <2>6, <2>7
<1> HIDE DEF Good, Holds
<1>4. s \in Good
  BY <1>2, <1>3, NatSetInd
<1> QED
  BY <1>4 DEF Good, Holds

(* A row's way to a level is that of trees that agree above it. *)
LEMMA DescentAgrees ==
  ASSUME NEW splits, NEW other, NEW base, NEW depth \in Nat, NEW i, NEW f, NEW g,
         f = Descent(splits, base, depth, i),
         g = Descent(other, base, depth, i),
         NEW level \in 0 .. depth,
         \A a \in Nat : a + 1 < 2 ^ level => other[base + a] = splits[base + a]
  PROVE  f[level] = g[level]
<1> DEFINE Good == {x \in Nat : x <= level => f[x] = g[x]}
<1>1. f[0] = 0 /\ \A x \in 0 .. depth : x # 0 => f[x] = Down(splits, base, i, f[x - 1])
  BY DescentChosen
<1>2. g[0] = 0 /\ \A x \in 0 .. depth : x # 0 => g[x] = Down(other, base, i, g[x - 1])
  BY DescentChosen
<1>3. 0 \in Good
  BY <1>1, <1>2
<1>4. ASSUME NEW x \in Nat, x \in Good PROVE x + 1 \in Good
  <2> SUFFICES ASSUME x + 1 <= level PROVE f[x + 1] = g[x + 1]
    OBVIOUS
  <2>1. x + 1 \in 0 .. depth /\ x + 1 # 0 /\ (x + 1) - 1 = x /\ x \in 0 .. depth
        /\ level \in Nat /\ x + 1 \in Nat
    OBVIOUS
  <2>2. PICK a : a = f[x]
    OBVIOUS
  <2>3. g[x] = a
    BY <1>4, <2>2
  <2>4. a \in Nat /\ a + 2 <= 2 ^ (x + 1)
    BY <2>1, <2>2, DescentBounds
  <2>5. 2 ^ (x + 1) <= 2 ^ level /\ 2 ^ (x + 1) \in Nat /\ 2 ^ level \in Nat
    BY <2>1, PowersGrow, PowerDoubles
  <2>6. a + 1 < 2 ^ level
    <3>1. PICK p, q : p = 2 ^ (x + 1) /\ q = 2 ^ level
      OBVIOUS
    <3> QED
      BY <2>4, <2>5, <3>1
  <2>7. other[base + a] = splits[base + a]
    BY <2>4, <2>6
  <2>8. Down(other, base, i, a) = Down(splits, base, i, a)
    BY <2>7 DEF Down
  <2> QED
    BY <1>1, <1>2, <2>1, <2>2, <2>3, <2>8
<1> HIDE DEF Good
<1>5. level \in Good
  BY <1>3, <1>4, NatSetInd
<1> QED
  BY <1>5 DEF Good

(* The rows that reach the children of a node are those that reach the node *)
(* if it is split, each on its side of the split.                           *)
LEMMA ReachingChild ==
  ASSUME IsFit(job), NEW iter, NEW tt, NEW level \in Nat, level < job.depth,
         NEW node \in Nat, node < 2 ^ level, NEW split,
         split = mem["split"][TreeBase(iter, tt) + (2 ^ level - 1 + node)]
  PROVE  /\ Reaching(iter, tt, level + 1, 2 * node) =
              {i \in Reaching(iter, tt, level, node) : ~split.is_leaf /\ i \in split.left}
         /\ Reaching(iter, tt, level + 1, 2 * node + 1) =
              {i \in Reaching(iter, tt, level, node) : ~split.is_leaf /\ i \notin split.left}
<1>1. job.depth \in Nat /\ level \in 0 .. job.depth /\ level + 1 \in 0 .. job.depth
      /\ level + 1 # 0 /\ (level + 1) - 1 = level
  BY DEF IsFit
<1>2. PICK p : p = 2 ^ level
  OBVIOUS
<1>3. p \in Nat \ {0} /\ 2 ^ (level + 1) = 2 * p
  BY <1>2, PowerDoubles
<1>4. PICK splits, base : splits = mem["split"] /\ base = TreeBase(iter, tt)
  OBVIOUS
<1>5. ASSUME NEW i \in Rows, NEW a, NEW b,
             a = Descend(iter, tt, i)[level], b = Descend(iter, tt, i)[level + 1]
      PROVE  /\ a \in Nat /\ a + 2 <= 2 * p
             /\ b = IF splits[base + a].is_leaf THEN a
                    ELSE 2 * a + (IF i \in splits[base + a].left THEN 1 ELSE 2)
  <2>1. PICK f : f = Descend(iter, tt, i)
    OBVIOUS
  <2>2. f = Descent(splits, base, job.depth, i)
    BY <1>4, <2>1, DescendIs
  <2>3. f[level] \in Nat /\ f[level] + 2 <= 2 ^ (level + 1)
    BY <1>1, <2>2, DescentBounds
  <2>4. f[level + 1] = Down(splits, base, i, f[level])
    BY <1>1, <2>2, DescentChosen
  <2> QED
    BY <1>3, <1>5, <2>1, <2>3, <2>4 DEF Down
<1>6. ASSUME NEW i \in Rows
      PROVE  /\ i \in Reaching(iter, tt, level + 1, 2 * node) <=>
                  i \in Reaching(iter, tt, level, node) /\ ~split.is_leaf /\ i \in split.left
             /\ i \in Reaching(iter, tt, level + 1, 2 * node + 1) <=>
                  i \in Reaching(iter, tt, level, node) /\ ~split.is_leaf /\ i \notin split.left
  <2>1. PICK a, b : a = Descend(iter, tt, i)[level] /\ b = Descend(iter, tt, i)[level + 1]
    OBVIOUS
  <2>2. /\ a \in Nat /\ a + 2 <= 2 * p
        /\ b = IF splits[base + a].is_leaf THEN a
               ELSE 2 * a + (IF i \in splits[base + a].left THEN 1 ELSE 2)
    BY <1>5, <2>1
  <2>3. /\ i \in Reaching(iter, tt, level + 1, 2 * node) <=> b = 2 * p - 1 + 2 * node
        /\ i \in Reaching(iter, tt, level + 1, 2 * node + 1) <=> b = 2 * p - 1 + (2 * node + 1)
        /\ i \in Reaching(iter, tt, level, node) <=> a = p - 1 + node
    BY <1>2, <1>3, <2>1 DEF Reaching
  <2>4. split = splits[base + (p - 1 + node)]
    BY <1>2, <1>4
  <2>5. CASE splits[base + a].is_leaf
    <3>1. b = a
      BY <2>2, <2>5
    <3>2. b # 2 * p - 1 + 2 * node /\ b # 2 * p - 1 + (2 * node + 1)
      BY <1>3, <2>2, <3>1
    <3>3. a = p - 1 + node => split.is_leaf
      BY <2>4, <2>5
    <3> QED
      BY <2>3, <3>2, <3>3
  <2>6. CASE ~splits[base + a].is_leaf
    <3>1. a = p - 1 + node => splits[base + a] = split
      BY <2>4
    <3>2. CASE i \in splits[base + a].left
      <4>1. b = 2 * a + 1
        BY <2>2, <2>6, <3>2
      <4>2. /\ b = 2 * p - 1 + 2 * node <=> a = p - 1 + node
            /\ b # 2 * p - 1 + (2 * node + 1)
        BY <1>3, <2>2, <4>1
      <4> QED
        BY <2>3, <2>6, <3>1, <3>2, <4>2
    <3>3. CASE i \notin splits[base + a].left
      <4>1. b = 2 * a + 2
        BY <2>2, <2>6, <3>3
      <4>2. /\ b = 2 * p - 1 + (2 * node + 1) <=> a = p - 1 + node
            /\ b # 2 * p - 1 + 2 * node
        BY <1>3, <2>2, <4>1
      <4> QED
        BY <2>3, <2>6, <3>1, <3>3, <4>2
    <3> QED
      BY <3>2, <3>3
  <2> QED
    BY <2>5, <2>6
<1>7. \A l, x : Reaching(iter, tt, l, x) \subseteq Rows
  BY DEF Reaching
<1> QED
  BY <1>6, <1>7

LEMMA ReachingRoot ==
  ASSUME IsFit(job), NEW iter, NEW tt
  PROVE  Reaching(iter, tt, 0, 0) = Rows
<1>1. job.depth \in Nat
  BY DEF IsFit
<1>2. \A i : Descend(iter, tt, i)[0] = 0
  BY <1>1, DescendIs, DescentChosen
<1>3. 2 ^ 0 - 1 + 0 = 0
  BY PowerOfZero
<1> QED
  BY <1>2, <1>3 DEF Reaching

(* Which rows reach a node, only the splits above it say. *)
LEMMA ReachingStays ==
  ASSUME IsFit(job), job' = job, NEW iter, NEW tt, NEW level \in 0 .. job.depth, NEW node,
         \A a \in Nat : a + 1 < 2 ^ level =>
           mem'["split"][TreeBase(iter, tt) + a] = mem["split"][TreeBase(iter, tt) + a]
  PROVE  Reaching(iter, tt, level, node)' = Reaching(iter, tt, level, node)
<1>1. job.depth \in Nat
  BY DEF IsFit
<1>2. TreeBase(iter, tt)' = TreeBase(iter, tt) /\ Rows' = Rows
  BY DEF TreeBase, total_nodes, Rows
<1>3. ASSUME NEW i PROVE Descend(iter, tt, i)'[level] = Descend(iter, tt, i)[level]
  <2>1. PICK f : f = Descend(iter, tt, i)
    OBVIOUS
  <2>2. PICK g : g = Descend(iter, tt, i)'
    OBVIOUS
  <2>3. PICK base, splits, other : base = TreeBase(iter, tt) /\ splits = mem["split"] /\ other = mem'["split"]
    OBVIOUS
  <2>4. f = Descent(splits, base, job.depth, i)
    BY <2>1, <2>3, DescendIs
  <2>5. Descend(iter, tt, i)' =
          Descent(mem'["split"], TreeBase(iter, tt)', job'.depth, i)
    BY DEF Descend, Descent, IsDescent, Down, TreeBase
  <2>6. g = Descent(other, base, job.depth, i)
    BY <1>2, <2>2, <2>3, <2>5
  <2>7. \A a \in Nat : a + 1 < 2 ^ level => other[base + a] = splits[base + a]
    BY <2>3
  <2>8. f[level] = g[level]
    BY <1>1, <2>4, <2>6, <2>7, DescentAgrees
  <2> QED
    BY <2>1, <2>2, <2>8
<1> QED
  BY <1>2, <1>3 DEF Reaching

----------------------------------------------------------------------------
(* The stable partition is onto and keeps the order of each side *)

LEMMA DestOnto ==
  ASSUME NEW s, NEW e, NEW L, Positions(s, e, L), NEW p \in s .. e - 1
  PROVE  \E r \in s .. e - 1 : Dest(s, e, L, r) = p
<1> DEFINE P == s .. e - 1
           f == [r \in P |-> Dest(s, e, L, r)]
<1>1. f \in Injection(P, P)
  <2>1. \A r \in P : Dest(s, e, L, r) \in P
    BY DestInRange
  <2>2. \A r, q \in P : Dest(s, e, L, r) = Dest(s, e, L, q) => r = q
    BY DestInjective
  <2> HIDE DEF P
  <2>3. f \in [P -> P] /\ \A r, q \in P : f[r] = f[q] => r = q
    BY <2>1, <2>2
  <2> HIDE DEF f
  <2> QED
    BY <2>3 DEF Injection, IsInjective
<1>2. IsFiniteSet(P)
  BY FS_Interval DEF Positions
<1>3. \A r \in P : f[r] = Dest(s, e, L, r)
  OBVIOUS
<1> HIDE DEF P, f
<1>4. f \in Surjection(P, P)
  BY <1>1, <1>2, FS_Injection
<1>5. \A q \in P : \E r \in P : f[r] = q
  BY <1>4 DEF Surjection
<1>6. p \in P
  BY DEF P
<1> QED
  BY <1>3, <1>5, <1>6 DEF P

LEMMA DestMonotone ==
  ASSUME NEW s, NEW e, NEW L, Positions(s, e, L), NEW r \in s .. e - 1, NEW q \in s .. e - 1,
         r < q, r \in L <=> q \in L
  PROVE  Dest(s, e, L, r) < Dest(s, e, L, q)
<1>1. /\ s \in Nat /\ e \in Nat /\ L \in SUBSET (s .. e - 1)
      /\ Rest(s, e, L) \in SUBSET (s .. e - 1) /\ Cardinality(L) \in Nat
  BY RestComplements DEF Positions
<1>2. q \in Int
  BY <1>1
<1>3. CASE r \in L
  <2>1. /\ Cardinality(Below(L, r)) \in Nat /\ Cardinality(Below(L, q)) \in Nat
        /\ Cardinality(Below(L, r)) < Cardinality(Below(L, q))
    BY <1>1, <1>3, <1>2, BelowGrows
  <2> QED
    BY <1>1, <1>3, <2>1 DEF Dest
<1>4. CASE r \notin L
  <2>1. r \in Rest(s, e, L)
    BY <1>4 DEF Rest
  <2>2. /\ Cardinality(Below(Rest(s, e, L), r)) \in Nat
        /\ Cardinality(Below(Rest(s, e, L), q)) \in Nat
        /\ Cardinality(Below(Rest(s, e, L), r)) < Cardinality(Below(Rest(s, e, L), q))
    BY <1>1, <1>2, <2>1, BelowGrows
  <2> QED
    BY <1>1, <1>4, <2>2 DEF Dest
<1> QED
  BY <1>3, <1>4

(* What is listed at positions s .. e - 1 are the members of S, ascending. *)
ListsRows(row, s, e, S) ==
  /\ \A r \in s .. e - 1 : row[r] \in S
  /\ \A i \in S : \E r \in s .. e - 1 : row[r] = i
  /\ \A r, q \in s .. e - 1 : r < q => row[r] < row[q]

(* Each is then listed after as many as are smaller. *)
InOrder(row, s, e, S) ==
  /\ Cardinality(S) = e - s
  /\ \A i \in S : /\ Cardinality(Below(S, i)) \in Nat
                  /\ Cardinality(Below(S, i)) < e - s
                  /\ row[s + Cardinality(Below(S, i))] = i

LEMMA ListedInOrder ==
  ASSUME NEW row, NEW s \in Nat, NEW e \in Nat, s <= e, NEW S, S \subseteq Int,
         ListsRows(row, s, e, S)
  PROVE  InOrder(row, s, e, S)
<1>1. ASSUME NEW q \in s .. e, NEW T, T = {row[r] : r \in s .. q - 1}
      PROVE  Cardinality(T) = q - s
  <2> DEFINE P == s .. q - 1
             f == [r \in P |-> row[r]]
  <2>1. \A r \in P : r \in s .. e - 1 /\ row[r] \in Int
    <3>1. \A r \in P : r \in s .. e - 1
      OBVIOUS
    <3> QED
      BY <3>1 DEF ListsRows
  <2>2. \A r, p \in P : row[r] = row[p] => r = p
    <3>1. ASSUME NEW r \in P, NEW p \in P, r < p PROVE row[r] # row[p]
      <4>1. row[r] < row[p]
        BY <2>1, <3>1 DEF ListsRows
      <4> QED
        BY <2>1, <4>1
    <3>2. \A r, p \in P : r < p \/ r = p \/ p < r
      OBVIOUS
    <3> HIDE DEF P
    <3> QED
      BY <3>1, <3>2
  <2>3. IsFiniteSet(P) /\ Cardinality(P) = q - s
    <3>1. s \in Int /\ q - 1 \in Int
      OBVIOUS
    <3>2. IsFiniteSet(P) /\ Cardinality(P) = IF s > q - 1 THEN 0 ELSE q - 1 - s + 1
      BY <3>1, FS_Interval
    <3> HIDE DEF P
    <3> QED
      BY <3>2
  <2>4. T = {row[r] : r \in P}
    BY <1>1
  <2>5. f \in [P -> T] /\ (\A r, p \in P : f[r] = f[p] => r = p)
        /\ \A x \in T : \E r \in P : f[r] = x
    <3> HIDE DEF P
    <3> QED
      BY <2>2, <2>4
  <2> HIDE DEF P, f
  <2>6. f \in Bijection(P, T)
    BY <2>5 DEF Bijection, Injection, Surjection, IsInjective
  <2>7. ExistsBijection(P, T)
    BY <2>6 DEF ExistsBijection
  <2> QED
    BY <2>3, <2>7, FS_Bijection
<1>2. Cardinality(S) = e - s
  <2>1. S = {row[r] : r \in s .. e - 1}
    BY DEF ListsRows
  <2>2. e \in s .. e
    OBVIOUS
  <2> QED
    BY <1>1, <2>1, <2>2
<1>3. ASSUME NEW i \in S
      PROVE  /\ Cardinality(Below(S, i)) \in Nat
             /\ Cardinality(Below(S, i)) < e - s
             /\ row[s + Cardinality(Below(S, i))] = i
  <2>1. PICK q \in s .. e - 1 : row[q] = i
    BY DEF ListsRows
  <2>2. ASSUME NEW r \in s .. e - 1
        PROVE  row[r] < i <=> r \in s .. q - 1
    <3>1. row[r] \in Int /\ i \in Int
      BY DEF ListsRows
    <3>2. r < q => row[r] < i
      BY <2>1 DEF ListsRows
    <3>3. q < r => i < row[r]
      BY <2>1 DEF ListsRows
    <3>4. r = q => row[r] = i
      BY <2>1
    <3>5. r \in Int /\ q \in Int /\ (r \in s .. q - 1 <=> r < q)
      OBVIOUS
    <3>6. r < q \/ r = q \/ q < r
      BY <3>5
    <3>7. CASE r < q
      BY <3>2, <3>5, <3>7
    <3>8. CASE r = q
      <4>1. ~ (row[r] < i) /\ ~ (r < q)
        BY <3>1, <3>4, <3>5, <3>8
      <4> QED
        BY <3>5, <4>1
    <3>9. CASE q < r
      <4>1. ~ (row[r] < i) /\ ~ (r < q)
        BY <3>1, <3>3, <3>5, <3>9
      <4> QED
        BY <3>5, <4>1
    <3> QED
      BY <3>6, <3>7, <3>8, <3>9
  <2>3. Below(S, i) = {row[r] : r \in s .. q - 1}
    <3>1. \A r \in s .. q - 1 : r \in s .. e - 1
      OBVIOUS
    <3> QED
      BY <2>2, <3>1 DEF ListsRows, Below
  <2>4. Cardinality(Below(S, i)) = q - s
    <3>1. q \in s .. e
      OBVIOUS
    <3> QED
      BY <1>1, <2>3, <3>1
  <2>5. q - s \in Nat /\ s + (q - s) = q
    OBVIOUS
  <2> QED
    BY <2>1, <2>4, <2>5
<1> QED
  BY <1>2, <1>3 DEF InOrder

(* If each position's row has gone where the partition sends it, either     *)
(* side lists its rows in their order.                                      *)
LEMMA PartitionLists ==
  ASSUME NEW row, NEW s, NEW e, NEW L, Positions(s, e, L), NEW S, S \subseteq Int,
         ListsRows(row, s, e, S), NEW left, \A r \in s .. e - 1 : r \in L <=> row[r] \in left,
         NEW to, \A r \in s .. e - 1 : to[Dest(s, e, L, r)] = row[r],
         NEW mid, mid = s + Cardinality(L)
  PROVE  ListsRows(to, s, mid, S \cap left) /\ ListsRows(to, mid, e, S \ left)
<1>1. /\ s \in Nat /\ e \in Nat /\ L \in SUBSET (s .. e - 1) /\ Cardinality(L) \in Nat
      /\ mid \in Nat /\ s <= mid /\ mid <= e
  <2>1. /\ Cardinality(L) \in Nat /\ Cardinality(Rest(s, e, L)) \in Nat
        /\ Cardinality(L) + Cardinality(Rest(s, e, L)) = e - s
    BY RestComplements
  <2>2. s \in Nat /\ e \in Nat /\ L \in SUBSET (s .. e - 1)
    BY DEF Positions
  <2> QED
    BY <2>1, <2>2
<1>2. ASSUME NEW r \in s .. e - 1
      PROVE  /\ Dest(s, e, L, r) \in s .. e - 1 /\ to[Dest(s, e, L, r)] = row[r]
             /\ r \in L <=> row[r] \in left
             /\ r \in L <=> Dest(s, e, L, r) \in s .. mid - 1
             /\ r \notin L <=> Dest(s, e, L, r) \in mid .. e - 1
  <2>1. /\ Dest(s, e, L, r) \in s .. e - 1
        /\ r \in L => Dest(s, e, L, r) < mid
        /\ r \notin L => mid <= Dest(s, e, L, r)
    BY DestInRange
  <2>2. r \in L <=> row[r] \in left
    OBVIOUS
  <2>3. PICK x : x = Dest(s, e, L, r)
    OBVIOUS
  <2>4. x \in s .. e - 1 /\ (r \in L => x < mid) /\ (r \notin L => mid <= x)
    BY <2>1, <2>3
  <2>5. CASE r \in L
    BY <1>1, <2>2, <2>3, <2>4, <2>5
  <2>6. CASE r \notin L
    BY <1>1, <2>2, <2>3, <2>4, <2>6
  <2> QED
    BY <2>5, <2>6
<1>3. ASSUME NEW p \in s .. e - 1
      PROVE  \E r \in s .. e - 1 : Dest(s, e, L, r) = p
  BY DestOnto
<1>4. ASSUME NEW p1 \in s .. e - 1, NEW p2 \in s .. e - 1, p1 < p2,
             p1 \in s .. mid - 1 <=> p2 \in s .. mid - 1
      PROVE  to[p1] < to[p2]
  <2>1. PICK r1 \in s .. e - 1 : Dest(s, e, L, r1) = p1
    BY <1>3
  <2>2. PICK r2 \in s .. e - 1 : Dest(s, e, L, r2) = p2
    BY <1>3
  <2>3. r1 \in L <=> r2 \in L
    BY <1>2, <1>4, <2>1, <2>2
  <2>4. r1 < r2
    <3>1. r1 = r2 => p1 = p2
      BY <2>1, <2>2
    <3>2. r2 < r1 => p2 < p1
      BY <2>1, <2>2, <2>3, DestMonotone
    <3> QED
      BY <1>1, <1>4, <3>1, <3>2
  <2>5. row[r1] < row[r2]
    BY <2>4 DEF ListsRows
  <2> QED
    BY <1>2, <2>1, <2>2, <2>5
<1>5. \A p \in s .. mid - 1 : p \in s .. e - 1
  BY <1>1
<1>6. \A p \in mid .. e - 1 : p \in s .. e - 1 /\ p \notin s .. mid - 1
  BY <1>1
<1>7. ListsRows(to, s, mid, S \cap left)
  <2>1. ASSUME NEW p \in s .. mid - 1 PROVE to[p] \in S /\ to[p] \in left
    <3>1. PICK r \in s .. e - 1 : Dest(s, e, L, r) = p
      BY <1>3, <1>5
    <3> QED
      BY <1>2, <3>1 DEF ListsRows
  <2>2. ASSUME NEW i \in S, i \in left PROVE \E p \in s .. mid - 1 : to[p] = i
    <3>1. PICK r \in s .. e - 1 : row[r] = i
      BY DEF ListsRows
    <3> QED
      BY <1>2, <2>2, <3>1
  <2>3. \A p1, p2 \in s .. mid - 1 : p1 < p2 => to[p1] < to[p2]
    BY <1>4, <1>5
  <2> QED
    BY <2>1, <2>2, <2>3 DEF ListsRows
<1>8. ListsRows(to, mid, e, S \ left)
  <2>1. ASSUME NEW p \in mid .. e - 1 PROVE to[p] \in S /\ to[p] \notin left
    <3>1. PICK r \in s .. e - 1 : Dest(s, e, L, r) = p
      BY <1>3, <1>6
    <3> QED
      BY <1>2, <3>1 DEF ListsRows
  <2>2. ASSUME NEW i \in S, i \notin left PROVE \E p \in mid .. e - 1 : to[p] = i
    <3>1. PICK r \in s .. e - 1 : row[r] = i
      BY DEF ListsRows
    <3> QED
      BY <1>2, <2>2, <3>1
  <2>3. \A p1, p2 \in mid .. e - 1 : p1 < p2 => to[p1] < to[p2]
    BY <1>4, <1>6
  <2> QED
    BY <2>1, <2>2, <2>3 DEF ListsRows
<1> QED
  BY <1>7, <1>8

----------------------------------------------------------------------------
(* The slots of a tree *)

LEMMA TreeSlots ==
  ASSUME IsFit(job), NEW iter \in Nat, iter < job.iters, NEW tt \in Upto(job.k),
         NEW a \in Nat, a < total_nodes
  PROVE  /\ TreeBase(iter, tt) + a \in Upto(job.iters * job.k * total_nodes)
         /\ (TreeBase(iter, tt) + a) % total_nodes = a
<1>1. job.k \in Nat \ {0} /\ job.iters \in Nat /\ total_nodes \in Nat \ {0}
  <2>1. job.k \in Nat \ {0} /\ job.iters \in Nat /\ job.depth + 1 \in Nat
    BY DEF IsFit
  <2>2. 2 ^ (job.depth + 1) \in Nat
    BY <2>1, PowerDoubles
  <2>3. PICK p : p = 2 ^ (job.depth + 1)
    OBVIOUS
  <2>4. total_nodes = p - 1
    BY <2>3 DEF total_nodes
  <2>5. total_nodes \in Nat \ {0}
    BY <2>2, <2>3, <2>4
  <2> QED
    BY <2>1, <2>5
<1>2. PICK t, total, units : t = iter * job.k + tt /\ total = total_nodes /\ units = job.iters * job.k
  OBVIOUS
<1>3. t \in Upto(units) /\ t \in Nat
  <2>1. iter \in Upto(job.iters) /\ tt \in 0 .. job.k - 1
    BY <1>1 DEF Upto
  <2>2. iter * job.k + tt \in iter * job.k .. (iter + 1) * job.k - 1
    BY <1>1, <2>1, BlockOf
  <2>3. t \in Upto(units)
    BY <1>1, <1>2, <2>1, <2>2, BlocksAreTasks
  <2> QED
    BY <2>3 DEF Upto
<1>4. units \in Nat
  BY <1>1, <1>2, ProductsGrow
<1>5. total \in Nat \ {0} /\ a \in 0 .. total - 1
  BY <1>1, <1>2
<1>6. t * total + a \in t * total .. (t + 1) * total - 1 /\ (t * total + a) % total = a
  BY <1>3, <1>5, BlockOf
<1>7. t * total + a \in Upto(units * total)
  BY <1>3, <1>4, <1>5, <1>6, BlocksAreTasks
<1>8. TreeBase(iter, tt) + a = t * total + a
  BY <1>2 DEF TreeBase
<1> QED
  BY <1>2, <1>6, <1>7, <1>8

(* What a reduce decides is at the level, not above it. *)
LEMMA ReduceBelow ==
  ASSUME IsFit(job), NEW m, IsLocals(m), m.phase = "reduce", NEW u \in Workers,
         NEW x \in SlotsOf(m, u)
  PROVE  2 ^ m.level - 1 <= x % total_nodes
<1>1. PICK c \in Columns(m, u) : x = ColumnSlot(m, c)
  BY DEF SlotsOf
<1>2. /\ nc(m) \in Nat \ {0} /\ job.k \in Nat \ {0} /\ m.node_base \in Nat
      /\ m.level \in 0 .. job.depth /\ m.iter \in Nat
      /\ plan(m).nodes = 2 ^ m.level /\ m.node_base + nc(m) <= plan(m).nodes
      /\ plan(m).nodes \in Nat
  BY ShapeFacts, GatherShape
<1>3. c \div nc(m) \in 0 .. job.k - 1 /\ c % nc(m) \in 0 .. nc(m) - 1
  <2>1. job.k \in Nat /\ nc(m) \in Nat \ {0} /\ c \in 0 .. job.k * nc(m) - 1
    BY <1>2, ColumnsAre
  <2> QED
    BY <2>1, DivBelow
<1>4. PICK q, r : q = c \div nc(m) /\ r = c % nc(m)
  OBVIOUS
<1>5. PICK y : y = m.node_base + r
  OBVIOUS
<1>6. q \in Nat /\ y \in Nat /\ y < 2 ^ m.level
  BY <1>2, <1>3, <1>4, <1>5
<1>7. x = Slot(m, q, m.level, y)
  BY <1>1, <1>4, <1>5 DEF ColumnSlot
<1>8. x % total_nodes = 2 ^ m.level - 1 + y
  BY <1>2, <1>6, <1>7, SlotTells
<1>9. PICK p : p = 2 ^ m.level
  OBVIOUS
<1>10. p \in Nat
  BY <1>2, <1>9
<1>11. p - 1 <= p - 1 + y
  BY <1>6, <1>10
<1> QED
  BY <1>8, <1>9, <1>11

----------------------------------------------------------------------------
(* What the nodes of a level list.  When a level begins, each lists the     *)
(* rows that reach it; while it is partitioned, the rows of a share that    *)
(* has arrived are where the partition sends them.                          *)

Reached(m, tn) ==
  Reaching(m.iter, tn \div plan(m).nodes, m.level, tn % plan(m).nodes)

NodeLists(m, tn) ==
  ListsRows(Node(m, tn).row, Node(m, tn).s, Node(m, tn).e, Reached(m, tn))

Landed(m, tn, r) ==
  ~Node(m, tn).split.is_leaf =>
    /\ Landing(m, tn, r) \in DOMAIN mem[order_next(m)]
    /\ mem[order_next(m)][Landing(m, tn, r)] = Node(m, tn).row[r]

(* The rows of block t of the level have landed. *)
BlockLanded(m, t) ==
  \A r \in block_span(m, Node(m, t \div plan(m).bcount), t % plan(m).bcount) :
    Landed(m, t \div plan(m).bcount, r)

IsReset(m, t) == t \in DOMAIN mem[order(m)] /\ mem[order(m)][t] = t % job.n

IsListed(m) ==
  /\ m.phase \in LevelPhases => \A tn \in Upto(Units(m)) : NodeLists(m, tn)
  /\ m.phase = "reset" =>
       \A u \in Workers : Arrived(u) => \A t \in span(job.k * job.n, u) : IsReset(m, t)
  /\ m.phase = "scatter" =>
       \A u \in Workers : Arrived(u) => \A t \in BlockTasks(m, u) : BlockLanded(m, t)
  /\ m.phase = "fused" =>
       \A u \in Workers : Arrived(u) =>
         \A tn \in NodeTasks(m, u) : \A r \in Pos(m, tn) : Landed(m, tn, r)

RInv == ~poisoned => \A u \in Workers : \A m \in {Pending(u)} : IsListed(m)

HasTrees == Upto(job.iters * job.k * total_nodes) \subseteq DOMAIN mem["split"]

(* A node's place in its tree. *)
LEMMA NodePlace ==
  ASSUME IsFit(job), NEW m, IsLocals(m), NEW tn \in Upto(Units(m))
  PROVE  /\ tn \div plan(m).nodes \in Upto(job.k) /\ tn % plan(m).nodes \in Nat
         /\ tn % plan(m).nodes < 2 ^ m.level
<1>1. /\ job.k \in Nat /\ plan(m).nodes \in Nat \ {0} /\ plan(m).nodes = 2 ^ m.level
      /\ Units(m) = job.k * plan(m).nodes
  BY ShapeFacts
<1>2. tn \div plan(m).nodes \in 0 .. job.k - 1 /\ tn % plan(m).nodes \in 0 .. plan(m).nodes - 1
  BY <1>1, DivBelow DEF Upto
<1>3. PICK n, r : n = plan(m).nodes /\ r = tn % plan(m).nodes
  OBVIOUS
<1>4. r \in Nat /\ r < n
  BY <1>1, <1>2, <1>3
<1> QED
  BY <1>1, <1>2, <1>3, <1>4 DEF Upto

LEMMA ReachedStays ==
  ASSUME IsFit(job), NEW m, IsLocals(m), job' = job, NEW tn \in Upto(Units(m)),
         \A a \in Nat : a + 1 < 2 ^ m.level =>
           mem'["split"][TreeBase(m.iter, tn \div plan(m).nodes) + a]
             = mem["split"][TreeBase(m.iter, tn \div plan(m).nodes) + a]
  PROVE  Reached(m, tn)' = Reached(m, tn)
<1>1. plan(m)' = plan(m) /\ m.level \in 0 .. job.depth
  BY ShapeFacts DEF plan
<1>2. PICK iter, tt, level, node :
         iter = m.iter /\ tt = tn \div plan(m).nodes /\ level = m.level /\ node = tn % plan(m).nodes
  OBVIOUS
<1>3. Reaching(iter, tt, level, node)' = Reaching(iter, tt, level, node)
  BY <1>1, <1>2, ReachingStays
<1>4. Reached(m, tn) = Reaching(iter, tt, level, node)
  BY <1>2 DEF Reached
<1>5. Reached(m, tn)' = Reaching(iter, tt, level, node)'
  BY <1>1, <1>2 DEF Reached
<1> QED
  BY <1>3, <1>4, <1>5

(* No phase of a level writes the order and the ranges it begins with. *)
LEMMA OrderStays ==
  ASSUME NEW u, NEW m, NEW d, WorksAt(u, m, d), m.phase \in LevelPhases
  PROVE  /\ mem'[ranges(m)] = mem[ranges(m)] /\ mem'[order(m)] = mem[order(m)]
         /\ m.phase # "reduce" => mem'["split"] = mem["split"]
<1>1. mem' = Updated(Writes(u, d)) /\ DOMAIN mem = Names /\ me[u] = m
  BY DEF WorksAt
<1>2. /\ ranges(m) \in DOMAIN mem /\ order(m) \in DOMAIN mem /\ "split" \in DOMAIN mem
      /\ order(m) \in {"order_a", "order_b"}
  BY <1>1, HandlesApart DEF Names
<1>3. ranges(m) \notin DOMAIN Writes(u, d)
  BY LevelWrites
<1>4. /\ order(m) \notin DOMAIN Writes(u, d)
      /\ m.phase # "reduce" => "split" \notin DOMAIN Writes(u, d)
  <2>1. /\ hist_cur(m) \in {"hist", "hist_parent"}
        /\ gathered(m) \in {"hist", "hist_parent", "hist_left"}
    BY HandlesApart DEF gathered, hist_cur
  <2>2. CASE m.phase = "gather"
    <3>1. DOMAIN Writes(u, d) = {IF blocks(m) = 1 THEN gathered(m) ELSE "partials"}
      BY <1>1, <2>2, GatherWrites
    <3> QED
      BY <1>2, <2>1, <3>1
  <2>3. CASE m.phase = "reduce"
    <3>1. DOMAIN Writes(u, d) = {hist_cur(m), gathered(m), "split", "leaf_value"}
      BY <1>1, <2>3, ReduceNames
    <3> QED
      BY <1>2, <2>1, <2>3, <3>1
  <2>4. CASE m.phase \notin {"gather", "reduce"}
    BY <2>4, LevelWrites
  <2> QED
    BY <2>2, <2>3, <2>4
<1> QED
  BY <1>1, <1>2, <1>3, <1>4, UpdatedArray

LEMMA SplitsAboveStay ==
  ASSUME NEW u, NEW m, NEW d, WorksAt(u, m, d), m.phase \in LevelPhases, HasTrees,
         NEW tt \in Upto(job.k), NEW a \in Nat, a + 1 < 2 ^ m.level
  PROVE  mem'["split"][TreeBase(m.iter, tt) + a] = mem["split"][TreeBase(m.iter, tt) + a]
<1>1. /\ mem' = Updated(Writes(u, d)) /\ DOMAIN mem = Names /\ me[u] = m /\ u \in Workers
      /\ IsFit(job) /\ IsLocals(m)
  BY DEF WorksAt
<1>2. CASE m.phase # "reduce"
  BY <1>2, OrderStays
<1>3. CASE m.phase = "reduce"
  <2>1. DOMAIN Writes(u, d) = {hist_cur(m), gathered(m), "split", "leaf_value"}
    BY <1>1, <1>3, ReduceNames
  <2>2. DOMAIN Writes(u, d)["split"] = SlotsOf(m, u)
    BY <1>1, <1>3, ReduceWrites
  <2>3. PICK x : x = TreeBase(m.iter, tt) + a
    OBVIOUS
  <2>4. x \in DOMAIN mem["split"] /\ x % total_nodes = a
    <3>1. m.iter \in Nat /\ m.iter < job.iters
      <4>1. m.iter \in Nat
        BY <1>1, ShapeFacts
      <4> QED
        BY <1>1, <1>3, <4>1 DEF IsLocals, Phases
    <3>2. a < total_nodes
      <4>1. m.level \in Nat /\ job.depth + 1 \in Nat /\ m.level <= job.depth + 1
        BY <1>1, ShapeFacts
      <4>2. 2 ^ m.level <= 2 ^ (job.depth + 1) /\ 2 ^ m.level \in Nat
            /\ 2 ^ (job.depth + 1) \in Nat
        BY <4>1, PowersGrow, PowerDoubles
      <4>3. PICK p, q : p = 2 ^ m.level /\ q = 2 ^ (job.depth + 1)
        OBVIOUS
      <4>4. total_nodes = q - 1
        BY <4>3 DEF total_nodes
      <4> QED
        BY <4>2, <4>3, <4>4
    <3>3. x \in Upto(job.iters * job.k * total_nodes) /\ x % total_nodes = a
      BY <1>1, <2>3, <3>1, <3>2, TreeSlots
    <3> QED
      BY <3>3 DEF HasTrees
  <2>5. x \notin SlotsOf(m, u)
    <3>1. ASSUME x \in SlotsOf(m, u) PROVE FALSE
      <4>1. 2 ^ m.level - 1 <= x % total_nodes
        BY <1>1, <1>3, <3>1, ReduceBelow
      <4>2. PICK p : p = 2 ^ m.level
        OBVIOUS
      <4>3. p \in Nat /\ p - 1 <= a /\ a + 1 < p
        <5>1. p \in Nat
          BY <1>1, <4>2, ShapeFacts
        <5> QED
          BY <2>4, <4>1, <4>2, <5>1
      <4> QED
        BY <4>3
    <3> QED
      BY <3>1
  <2>6. "split" \in DOMAIN mem /\ "split" \in DOMAIN Writes(u, d)
    BY <1>1, <2>1 DEF Names
  <2>7. mem'["split"][x] = mem["split"][x]
    BY <1>1, <2>2, <2>4, <2>5, <2>6, UpdatedArray
  <2> QED
    BY <2>3, <2>7
<1> QED
  BY <1>2, <1>3

(* The share of a worker leaves alone what the nodes of the level list. *)
LEMMA LevelListed ==
  ASSUME NEW u, NEW m, NEW d, WorksAt(u, m, d), m.phase \in LevelPhases, HasTrees,
         IsListed(m)
  PROVE  \A tn \in Upto(Units(m))' : NodeLists(m, tn)'
<1>1. job' = job /\ IsFit(job) /\ IsLocals(m)
  BY DEF WorksAt
<1>2. plan(m)' = plan(m) /\ ranges(m)' = ranges(m) /\ order(m)' = order(m)
  BY <1>1, HandlesStay DEF plan
<1>3. mem'[ranges(m)] = mem[ranges(m)] /\ mem'[order(m)] = mem[order(m)]
  BY OrderStays
<1>4. ASSUME NEW tn
      PROVE  /\ Node(m, tn)'.row = Node(m, tn).row
             /\ Node(m, tn)'.s = Node(m, tn).s /\ Node(m, tn)'.e = Node(m, tn).e
  BY <1>1, <1>2, <1>3 DEF Node
<1>5. ASSUME NEW tn \in Upto(Units(m)) PROVE Reached(m, tn)' = Reached(m, tn)
  <2>1. tn \div plan(m).nodes \in Upto(job.k)
    BY <1>1, NodePlace
  <2>2. \A a \in Nat : a + 1 < 2 ^ m.level =>
          mem'["split"][TreeBase(m.iter, tn \div plan(m).nodes) + a]
            = mem["split"][TreeBase(m.iter, tn \div plan(m).nodes) + a]
    BY <2>1, SplitsAboveStay
  <2> QED
    BY <1>1, <2>2, ReachedStays
<1>6. ASSUME NEW tn \in Upto(Units(m)) PROVE NodeLists(m, tn)'
  <2>1. NodeLists(m, tn)
    BY DEF IsListed
  <2> QED
    BY <1>4, <1>5, <2>1 DEF NodeLists, ListsRows
<1>7. Upto(Units(m))' = Upto(Units(m))
  BY <1>1, <1>2 DEF Upto, Units
<1> QED
  BY <1>6, <1>7

----------------------------------------------------------------------------
(* The share of a worker in a reset, and in a partition *)

LEMMA ResetListed ==
  ASSUME NEW u, NEW m, NEW d, WorksAt(u, m, d), m.phase = "reset", IsListed(m)
  PROVE  IsListed(m)'
<1> DEFINE slots(v) == span(job.k * job.n, v)
           a == order(m)
<1>1. /\ u \in Workers /\ me[u] = m /\ DOMAIN mem = Names /\ mem' = Updated(Writes(u, d))
      /\ job' = job
      /\ \A v \in Workers : Arrived(v) => \A t \in slots(v) : IsReset(m, t)
  BY DEF WorksAt, IsListed
<1>2. a \in DOMAIN Writes(u, d) /\ Writes(u, d)[a] = [t \in slots(u) |-> t % job.n]
  <2>1. Writes(u, d) = ResetPartition(m, u)
    BY <1>1 DEF Writes
  <2>2. order(m) # ranges(m)
    BY DEF order, ranges
  <2> QED
    BY <2>1, <2>2 DEF ResetPartition, Over, Store
<1>3. a \in DOMAIN mem
  BY <1>1, HandlesApart DEF Names
<1>4. /\ \A x \in DOMAIN Writes(u, d)[a] : x \in DOMAIN mem'[a] /\ mem'[a][x] = Writes(u, d)[a][x]
      /\ \A x \in DOMAIN mem[a] :
           /\ x \in DOMAIN mem'[a]
           /\ x \notin DOMAIN Writes(u, d)[a] => mem'[a][x] = mem[a][x]
  BY <1>1, <1>2, <1>3, UpdatedArray
<1>5. ASSUME NEW v \in Workers, v = u \/ Arrived(v), NEW t \in slots(v)
      PROVE  t \in DOMAIN mem'[a] /\ mem'[a][t] = t % job.n
  <2> HIDE DEF slots, a
  <2>1. CASE t \in slots(u)
    BY <1>2, <1>4, <2>1
  <2>2. CASE t \notin slots(u)
    <3>1. IsReset(m, t)
      BY <1>1, <1>5, <2>2
    <3> QED
      BY <1>2, <1>4, <2>2, <3>1 DEF IsReset, a
  <2> QED
    BY <2>1, <2>2
<1>6. \A v : slots(v)' = slots(v)
  BY <1>1 DEF span
<1>7. \A v \in Workers : Arrived(v)' => v = u \/ Arrived(v)
  BY ArrivedThen
<1>8. \A t : IsReset(m, t)' <=> t \in DOMAIN mem'[a] /\ mem'[a][t] = t % job.n
  BY <1>1, HandlesStay DEF IsReset
<1>9. \A v \in Workers : Arrived(v)' => \A t \in slots(v)' : IsReset(m, t)'
  <2> HIDE DEF slots, a
  <2> QED
    BY <1>5, <1>6, <1>7, <1>8
<1> QED
  BY <1>1, <1>9 DEF IsListed, LevelPhases

(* Moves that take rows of the level to where they land. *)
AreLandings(m, moves) ==
  \A v \in moves : \E tn \in Upto(Units(m)) : \E r \in Pos(m, tn) :
    v = <<Landing(m, tn, r), Node(m, tn).row[r]>>

(* They bring each place the row that lands there. *)
LEMMA ScatteredLands ==
  ASSUME NEW m, \A tn \in Upto(Units(m)) : AtNode(m, tn),
         AreRanges(mem[ranges(m)], plan(m).nodes), NEW moves, AreLandings(m, moves),
         NEW to, to = Scattered(m, moves)[order_next(m)]
  PROVE  /\ DOMAIN to = Targets(moves)
         /\ \A tn \in Upto(Units(m)) : \A r \in Pos(m, tn) :
              Landing(m, tn, r) \in DOMAIN to => to[Landing(m, tn, r)] = Node(m, tn).row[r]
<1>1. to = [p \in Targets(moves) |-> (CHOOSE v \in moves : v[1] = p)[2]]
  BY DEF Scattered, Store, Targets
<1>2. ASSUME NEW tn \in Upto(Units(m)), NEW r \in Pos(m, tn), Landing(m, tn, r) \in Targets(moves)
      PROVE  to[Landing(m, tn, r)] = Node(m, tn).row[r]
  <2>1. PICK p : p = Landing(m, tn, r)
    OBVIOUS
  <2>2. PICK v : v = CHOOSE w \in moves : w[1] = p
    OBVIOUS
  <2>3. v \in moves /\ v[1] = p
    <3>1. \E w \in moves : w[1] = p
      BY <1>2, <2>1 DEF Targets
    <3> QED
      BY <2>2, <3>1
  <2>4. to[p] = v[2]
    BY <1>1, <1>2, <2>1, <2>2
  <2>5. PICK tn2 \in Upto(Units(m)) : \E q \in Pos(m, tn2) :
          v = <<Landing(m, tn2, q), Node(m, tn2).row[q]>>
    BY <2>3 DEF AreLandings
  <2>8. PICK q \in Pos(m, tn2) : v = <<Landing(m, tn2, q), Node(m, tn2).row[q]>>
    BY <2>5
  <2>6. Landing(m, tn, r) = Landing(m, tn2, q)
    BY <2>1, <2>3, <2>8
  <2>7. tn = tn2 /\ r = q
    BY <2>6, LandingsApart
  <2> QED
    BY <2>1, <2>4, <2>7, <2>8
<1> QED
  BY <1>1, <1>2

(* Once a share has been moved its rows are where they land, and those that *)
(* were there before stay.                                                  *)
LEMMA MovedLand ==
  ASSUME NEW u, NEW m, NEW d, WorksAt(u, m, d), m.phase \in {"scatter", "fused"},
         NEW moves, AreLandings(m, moves), order_next(m) \in DOMAIN Writes(u, d),
         Writes(u, d)[order_next(m)] = Scattered(m, moves)[order_next(m)],
         NEW tn \in Upto(Units(m)), NEW r \in Pos(m, tn),
         \/ Landed(m, tn, r)
         \/ ~Node(m, tn).split.is_leaf => Landing(m, tn, r) \in Targets(moves)
  PROVE  Landed(m, tn, r)'
<1> DEFINE a == order_next(m)
           to == Writes(u, d)[a]
           p == Landing(m, tn, r)
<1>1. /\ mem' = Updated(Writes(u, d)) /\ DOMAIN mem = Names
      /\ AreRanges(mem[ranges(m)], plan(m).nodes) /\ IsFit(job) /\ IsLocals(m)
  BY DEF WorksAt, IsData, LevelPhases
<1>2. \A x \in Upto(Units(m)) : AtNode(m, x)
  BY <1>1 DEF AtNode, AreRanges, Units
<1>3. /\ DOMAIN to = Targets(moves)
      /\ p \in DOMAIN to => to[p] = Node(m, tn).row[r]
  BY <1>1, <1>2, ScatteredLands
<1>4. a \in DOMAIN mem
  BY <1>1, HandlesApart DEF Names
<1>5. /\ \A x \in DOMAIN to : x \in DOMAIN mem'[a] /\ mem'[a][x] = to[x]
      /\ \A x \in DOMAIN mem[a] :
           /\ x \in DOMAIN mem'[a]
           /\ x \notin DOMAIN to => mem'[a][x] = mem[a][x]
  BY <1>1, <1>4, UpdatedArray
<1>6. NodesStay(m)
  BY LevelStays DEF LevelPhases
<1>7. Node(m, tn)' = Node(m, tn) /\ Landing(m, tn, r)' = p /\ order_next(m)' = a
  BY <1>6, NodeStays, HandlesStay DEF Landing, Dest, Below, Rest
<1>8. ~Node(m, tn).split.is_leaf => p \in DOMAIN mem'[a] /\ mem'[a][p] = Node(m, tn).row[r]
  <2> SUFFICES ASSUME ~Node(m, tn).split.is_leaf
               PROVE  p \in DOMAIN mem'[a] /\ mem'[a][p] = Node(m, tn).row[r]
    OBVIOUS
  <2>1. p \in Targets(moves) \/ (p \in DOMAIN mem[a] /\ mem[a][p] = Node(m, tn).row[r])
    BY DEF Landed
  <2> HIDE DEF a, to, p
  <2>2. CASE p \in DOMAIN to
    BY <1>3, <1>5, <2>2
  <2>3. CASE p \notin DOMAIN to
    BY <1>3, <1>5, <2>1, <2>3
  <2> QED
    BY <2>2, <2>3
<1> HIDE DEF p, to
<1> QED
  BY <1>7, <1>8 DEF Landed, a

FusedMoves(m, u) == UNION {NodeMoves(m, tn) : tn \in NodeTasks(m, u)}

LEMMA FusedWritesRows ==
  ASSUME NEW u, NEW m, NEW d, me[u] = m, m.phase = "fused"
  PROVE  Writes(u, d)[order_next(m)] = Scattered(m, FusedMoves(m, u))[order_next(m)]
<1> DEFINE cnt == LeftCounts(m, u)
           c == ChildRanges(m, NodeTasks(m, u), cnt)
           moves == UNION {NodeMoves(m, tn) : tn \in NodeTasks(m, u)}
           o == Scattered(m, moves)
<1>1. Writes(u, d) = fused(m, u)
  BY DEF Writes
<1>2. ranges_next(m) # order_next(m)
  BY DEF ranges_next, order_next
<1>3. fused(m, u) = Over(c, o)
  <2> DEFINE move(tn) == LET node == Node(m, tn)
                         IN  Moves(node, DOMAIN node.row, node.s, node.s + cnt[tn])
  <2>1. fused(m, u) = Over(c, Scattered(m, UNION {move(tn) : tn \in NodeTasks(m, u)}))
    BY DEF fused, LeftCounts, LeftCount
  <2>2. \A tn \in NodeTasks(m, u) : move(tn) = NodeMoves(m, tn)
    BY DEF NodeMoves, LeftCounts
  <2> HIDE DEF move
  <2>3. UNION {move(tn) : tn \in NodeTasks(m, u)} = moves
    BY <2>2
  <2> HIDE DEF moves, c
  <2> QED
    BY <2>1, <2>3
<1>4. DOMAIN c = {ranges_next(m)}
  BY DEF ChildRanges, Store
<1>5. DOMAIN o = {order_next(m)}
  BY DEF Scattered, Store
<1> HIDE DEF c, o, moves
<1>6. Over(c, o)[order_next(m)] = o[order_next(m)]
  BY <1>2, <1>4, <1>5 DEF Over
<1> QED
  BY <1>1, <1>3, <1>6 DEF o, moves, FusedMoves

LEMMA FusedListed ==
  ASSUME NEW u, NEW m, NEW d, WorksAt(u, m, d), m.phase = "fused", HasTrees, IsListed(m)
  PROVE  IsListed(m)'
<1> DEFINE moves == FusedMoves(m, u)
<1>1. /\ u \in Workers /\ me[u] = m /\ job' = job /\ IsFit(job) /\ IsLocals(m)
      /\ AreRanges(mem[ranges(m)], plan(m).nodes)
  BY DEF WorksAt, IsData, LevelPhases
<1>2. \A tn \in Upto(Units(m)) : AtNode(m, tn)
  BY <1>1 DEF AtNode, AreRanges, Units
<1>3. \A v \in Workers : NodeTasks(m, v) \subseteq Upto(Units(m))
  BY <1>1, TasksAreNumbers
<1>4. AreLandings(m, moves)
  <2> SUFFICES ASSUME NEW v \in moves
               PROVE  \E tn \in Upto(Units(m)) : \E r \in Pos(m, tn) :
                        v = <<Landing(m, tn, r), Node(m, tn).row[r]>>
    BY DEF AreLandings
  <2>1. PICK tn \in NodeTasks(m, u) : v \in NodeMoves(m, tn)
    BY DEF FusedMoves
  <2>2. tn \in Upto(Units(m))
    BY <1>1, <1>3
  <2>3. NodeMoves(m, tn) =
          IF Node(m, tn).split.is_leaf THEN {}
          ELSE {<<Landing(m, tn, r), Node(m, tn).row[r]>> : r \in Pos(m, tn)}
    BY <1>2, <2>2, NodeMovesAre
  <2> QED
    BY <2>1, <2>2, <2>3
<1>5. /\ order_next(m) \in DOMAIN Writes(u, d)
      /\ Writes(u, d)[order_next(m)] = Scattered(m, moves)[order_next(m)]
  <2>1. DOMAIN Writes(u, d) = {ranges_next(m), order_next(m)}
    BY <1>1, FusedNames
  <2>2. me[u] = m
    BY <1>1
  <2>3. Writes(u, d)[order_next(m)] = Scattered(m, moves)[order_next(m)]
    BY <2>2, FusedWritesRows
  <2> QED
    BY <2>1, <2>3
<1>6. ASSUME NEW tn \in NodeTasks(m, u), NEW r \in Pos(m, tn), ~Node(m, tn).split.is_leaf
      PROVE  Landing(m, tn, r) \in Targets(moves)
  <2>1. tn \in Upto(Units(m))
    BY <1>1, <1>3
  <2>2. NodeMoves(m, tn) = {<<Landing(m, tn, q), Node(m, tn).row[q]>> : q \in Pos(m, tn)}
    BY <1>2, <1>6, <2>1, NodeMovesAre
  <2>3. <<Landing(m, tn, r), Node(m, tn).row[r]>> \in NodeMoves(m, tn)
    BY <2>2
  <2>4. <<Landing(m, tn, r), Node(m, tn).row[r]>> \in moves
    BY <2>3 DEF FusedMoves
  <2>5. <<Landing(m, tn, r), Node(m, tn).row[r]>>[1] = Landing(m, tn, r)
    OBVIOUS
  <2> HIDE DEF moves
  <2> QED
    BY <2>4, <2>5 DEF Targets
<1> HIDE DEF moves
<1>7. ASSUME NEW v \in Workers, v = u \/ Arrived(v), NEW tn \in NodeTasks(m, v), NEW r \in Pos(m, tn)
      PROVE  Landed(m, tn, r)'
  <2>1. tn \in Upto(Units(m))
    BY <1>3
  <2>2. CASE tn \in NodeTasks(m, u)
    BY <1>4, <1>5, <1>6, <2>1, <2>2, MovedLand
  <2>3. CASE tn \notin NodeTasks(m, u)
    <3>1. Landed(m, tn, r)
      BY <1>7, <2>3 DEF IsListed
    <3> QED
      BY <1>4, <1>5, <2>1, <3>1, MovedLand
  <2> QED
    BY <2>2, <2>3
<1>8. \A v \in Workers : Arrived(v)' => v = u \/ Arrived(v)
  BY ArrivedThen
<1>9. NodesStay(m)
  BY LevelStays DEF LevelPhases
<1>10. /\ \A v : NodeTasks(m, v)' = NodeTasks(m, v)
       /\ \A tn : Pos(m, tn)' = Pos(m, tn)
  BY <1>1, <1>9, NodeStays DEF NodeTasks, span, plan, Pos
<1>11. \A tn \in Upto(Units(m))' : NodeLists(m, tn)'
  BY LevelListed DEF LevelPhases
<1>12. \A v \in Workers : Arrived(v)' =>
         \A tn \in NodeTasks(m, v)' : \A r \in Pos(m, tn)' : Landed(m, tn, r)'
  BY <1>7, <1>8, <1>10
<1> QED
  BY <1>11, <1>12 DEF IsListed

ScatterMoves(m, u) == UNION {BlockMoves(m, t) : t \in BlockTasks(m, u)}

LEMMA ScatterListed ==
  ASSUME NEW u, NEW m, NEW d, WorksAt(u, m, d), m.phase = "scatter", HasTrees, IsListed(m)
  PROVE  IsListed(m)'
<1> DEFINE moves == ScatterMoves(m, u)
           bcount == plan(m).bcount
<1>1. /\ u \in Workers /\ me[u] = m /\ job' = job /\ IsFit(job) /\ IsLocals(m)
      /\ AreRanges(mem[ranges(m)], plan(m).nodes)
      /\ \A tn \in Upto(Units(m)) :
           HasChildren(m, tn) /\ \A t \in Blocks(m, tn) : IsPrefixed(m, t)
  BY DEF WorksAt, IsData, LevelPhases
<1>2. \A tn \in Upto(Units(m)) : AtNode(m, tn)
  BY <1>1 DEF AtNode, AreRanges, Units
<1>3. bcount \in Nat \ {0} /\ Units(m) \in Nat /\ Units(m) * bcount \in Nat
  BY <1>1, ShapeFacts
<1>4. ASSUME NEW v \in Workers, NEW t \in BlockTasks(m, v)
      PROVE  t \div bcount \in Upto(Units(m)) /\ t \in Blocks(m, t \div bcount)
  <2>1. t \in Upto(Units(m) * bcount) /\ t \in Nat
    BY <1>1, TasksAreNumbers
  <2> QED
    BY <1>3, <2>1, DivBelow, TaskOf DEF Upto, Blocks
(* The block of a task and what it moves. *)
<1>5. ASSUME NEW v \in Workers, NEW t \in BlockTasks(m, v), NEW tn, tn = t \div bcount
      PROVE  /\ tn \in Upto(Units(m))
             /\ block_span(m, Node(m, tn), t % bcount) \subseteq Pos(m, tn)
             /\ BlockMoves(m, t) =
                  IF Node(m, tn).split.is_leaf THEN {}
                  ELSE {<<Landing(m, tn, r), Node(m, tn).row[r]>> :
                          r \in block_span(m, Node(m, tn), t % bcount)}
  <2>1. tn \in Upto(Units(m)) /\ t \in Blocks(m, tn)
    BY <1>4, <1>5
  <2>2. AtNode(m, tn) /\ HasChildren(m, tn) /\ IsPrefixed(m, t)
    BY <1>1, <1>2, <2>1
  <2> QED
    BY <2>1, <2>2, BlockMovesAre
<1>6. AreLandings(m, moves)
  <2> SUFFICES ASSUME NEW v \in moves
               PROVE  \E tn \in Upto(Units(m)) : \E r \in Pos(m, tn) :
                        v = <<Landing(m, tn, r), Node(m, tn).row[r]>>
    BY DEF AreLandings
  <2>1. PICK t \in BlockTasks(m, u) : v \in BlockMoves(m, t)
    BY DEF ScatterMoves
  <2>2. PICK tn : tn = t \div bcount
    OBVIOUS
  <2>3. PICK S : S = block_span(m, Node(m, tn), t % bcount)
    OBVIOUS
  <2>4. /\ tn \in Upto(Units(m)) /\ S \subseteq Pos(m, tn)
        /\ BlockMoves(m, t) =
             IF Node(m, tn).split.is_leaf THEN {}
             ELSE {<<Landing(m, tn, r), Node(m, tn).row[r]>> : r \in S}
    BY <1>1, <1>5, <2>2, <2>3
  <2> QED
    BY <2>1, <2>4
<1>7. /\ order_next(m) \in DOMAIN Writes(u, d)
      /\ Writes(u, d)[order_next(m)] = Scattered(m, moves)[order_next(m)]
  <2>1. DOMAIN Writes(u, d) = {order_next(m)}
    BY <1>1, ScatterWrites
  <2>2. Writes(u, d) = scatter(m, u)
    BY <1>1 DEF Writes
  <2> QED
    BY <2>1, <2>2 DEF scatter, ScatterMoves
<1>8. ASSUME NEW t \in BlockTasks(m, u), NEW tn, tn = t \div bcount,
             NEW r \in block_span(m, Node(m, tn), t % bcount), ~Node(m, tn).split.is_leaf
      PROVE  Landing(m, tn, r) \in Targets(moves)
  <2>1. PICK S : S = block_span(m, Node(m, tn), t % bcount)
    OBVIOUS
  <2>2. BlockMoves(m, t) = {<<Landing(m, tn, q), Node(m, tn).row[q]>> : q \in S}
    BY <1>1, <1>5, <1>8, <2>1
  <2>3. <<Landing(m, tn, r), Node(m, tn).row[r]>> \in BlockMoves(m, t)
    BY <1>8, <2>1, <2>2
  <2>4. <<Landing(m, tn, r), Node(m, tn).row[r]>> \in moves
    BY <2>3 DEF ScatterMoves
  <2>5. <<Landing(m, tn, r), Node(m, tn).row[r]>>[1] = Landing(m, tn, r)
    OBVIOUS
  <2> HIDE DEF moves
  <2> QED
    BY <2>4, <2>5 DEF Targets
<1> HIDE DEF moves
<1>9. NodesStay(m)
  BY LevelStays DEF LevelPhases
<1>10. ASSUME NEW v \in Workers, v = u \/ Arrived(v), NEW t \in BlockTasks(m, v), NEW tn,
              tn = t \div bcount, NEW r \in block_span(m, Node(m, tn), t % bcount)
       PROVE  Landed(m, tn, r)'
  <2>1. tn \in Upto(Units(m)) /\ r \in Pos(m, tn)
    BY <1>5, <1>10
  <2>2. CASE t \in BlockTasks(m, u)
    <3>1. ~Node(m, tn).split.is_leaf => Landing(m, tn, r) \in Targets(moves)
      BY <1>8, <1>10, <2>2
    <3> QED
      BY <1>6, <1>7, <2>1, <3>1, MovedLand
  <2>3. CASE t \notin BlockTasks(m, u)
    <3>1. BlockLanded(m, t)
      BY <1>10, <2>3 DEF IsListed
    <3>2. Landed(m, tn, r)
      BY <1>10, <3>1 DEF BlockLanded
    <3> QED
      BY <1>6, <1>7, <2>1, <3>2, MovedLand
  <2> QED
    BY <2>2, <2>3
<1>11. ASSUME NEW v \in Workers, v = u \/ Arrived(v), NEW t \in BlockTasks(m, v)
       PROVE  BlockLanded(m, t)'
  <2>1. PICK tn, b : tn = t \div bcount /\ b = t % bcount
    OBVIOUS
  <2>2. plan(m)' = plan(m) /\ block_span(m, Node(m, tn), b)' = block_span(m, Node(m, tn), b)
    BY <1>9, NodeStays DEF block_span, Smaller
  <2>3. \A r \in block_span(m, Node(m, tn), b) : Landed(m, tn, r)'
    BY <1>10, <1>11, <2>1
  <2>4. \A r \in block_span(m, Node(m, tn), b)' : Landed(m, tn, r)'
    BY <2>2, <2>3
  <2>5. tn = t \div plan(m)'.bcount /\ b = t % plan(m)'.bcount
    BY <2>1, <2>2
  <2> QED
    BY <2>4, <2>5 DEF BlockLanded
<1>12. \A v \in Workers : Arrived(v)' => v = u \/ Arrived(v)
  BY ArrivedThen
<1>13. \A v : BlockTasks(m, v)' = BlockTasks(m, v)
  BY <1>1 DEF BlockTasks, span, plan
<1>14. \A tn \in Upto(Units(m))' : NodeLists(m, tn)'
  BY LevelListed DEF LevelPhases
<1>15. \A v \in Workers : Arrived(v)' => \A t \in BlockTasks(m, v)' : BlockLanded(m, t)'
  BY <1>11, <1>12, <1>13
<1> QED
  BY <1>14, <1>15 DEF IsListed

LEMMA WorkListed ==
  ASSUME NEW u, NEW m, NEW d, WorksAt(u, m, d), HasTrees, IsListed(m)
  PROVE  IsListed(m)'
<1>1. m.phase \in Phases
  BY DEF WorksAt
<1>2. CASE m.phase \in {"init", "grad", "update"}
  BY <1>2 DEF IsListed, LevelPhases
<1>3. CASE m.phase \in {"gather", "reduce", "count", "prefix"}
  <2>1. \A tn \in Upto(Units(m))' : NodeLists(m, tn)'
    BY <1>3, LevelListed DEF LevelPhases
  <2> QED
    BY <1>3, <2>1 DEF IsListed
<1> QED
  BY <1>1, <1>2, <1>3, ResetListed, ScatterListed, FusedListed DEF Phases

----------------------------------------------------------------------------
(* What the nodes list when a phase begins *)

LEMMA SameLevelLists ==
  ASSUME NEW m, NEW x, SameLevel(x, m), IsListed(m), m.phase \in LevelPhases
  PROVE  \A tn \in Upto(Units(x)) : NodeLists(x, tn)
<1>1. plan(x) = plan(m)
  BY DEF SameLevel, plan
<1>2. ranges(x) = ranges(m) /\ order(x) = order(m)
  BY DEF SameLevel, ranges, order
<1>3. \A tt, node : Slot(x, tt, x.level, node) = Slot(m, tt, m.level, node)
  BY DEF SameLevel, Slot
<1>4. \A tn : Node(x, tn) = Node(m, tn)
  BY <1>1, <1>2, <1>3 DEF Node
<1>5. \A tn : Reached(x, tn) = Reached(m, tn)
  BY <1>1 DEF Reached, SameLevel
<1>6. Units(x) = Units(m)
  BY <1>1 DEF Units
<1>7. \A tn \in Upto(Units(m)) : NodeLists(m, tn)
  BY DEF IsListed
<1> QED
  BY <1>4, <1>5, <1>6, <1>7 DEF NodeLists

(* At the root every row, in its own place. *)
LEMMA ResetLists ==
  ASSUME NEW m, EndsAt(m), IsListed(m), m.phase = "reset", NEW x, x = After(m)
  PROVE  \A tn \in Upto(Units(x)) : NodeLists(x, tn)
<1>1. /\ IsFit(job) /\ IsLocals(m) /\ job.n \in Nat \ {0} /\ job.k \in Nat \ {0}
      /\ \A v \in Workers : \A t \in span(job.k * job.n, v) : IsReset(m, t)
      /\ \A v \in Workers, tt \in Upto(job.k) : tt * job.n \in span(job.k * job.n, v) =>
           tt \in DOMAIN mem[ranges(m)] /\ mem[ranges(m)][tt] = <<0, job.n>>
  <2>1. IsFit(job) /\ IsLocals(m) /\ IsData(m) /\ \A v \in Workers : Arrived(v)
    BY DEF EndsAt
  <2> QED
    BY <2>1, ShapeFacts DEF IsData, IsListed
<1>2. x.phase = "gather" /\ x.level = 0 /\ x.flipped = m.flipped
  BY <1>1 DEF After, AfterPartition, IsLocals
<1>3. ranges(x) = ranges(m) /\ order(x) = order(m) /\ plan(x).nodes = 1
  <2>1. job.plans[0].nodes = 2 ^ 0
    <3>1. 0 \in 0 .. job.depth
      BY <1>1, ShapeFacts
    <3> QED
      BY <1>1, <3>1, PlanFacts
  <2> QED
    BY <1>2, <2>1, PowerOfZero DEF ranges, order, plan
<1>4. ASSUME NEW tt \in Upto(job.k), NEW r \in 0 .. job.n - 1
      PROVE  mem[order(m)][tt * job.n + r] = r
  <2>1. tt \in Nat /\ job.n \in Nat \ {0} /\ job.k \in Nat
    BY <1>1 DEF Upto
  <2>2. PICK t : t = tt * job.n + r
    OBVIOUS
  <2>3. t \in tt * job.n .. (tt + 1) * job.n - 1 /\ t % job.n = r
    BY <2>1, <2>2, BlockOf
  <2>4. t \in Upto(job.k * job.n)
    BY <2>1, <2>3, BlocksAreTasks
  <2>5. job.k * job.n \in Nat
    BY <2>1, ProductsGrow
  <2>6. \E v \in Workers : t \in span(job.k * job.n, v)
    BY <2>4, <2>5, SpansCover DEF Upto
  <2>7. IsReset(m, t)
    BY <1>1, <2>6
  <2> QED
    BY <2>2, <2>3, <2>7 DEF IsReset
<1>5. ASSUME NEW tt \in Upto(job.k) PROVE mem[ranges(m)][tt] = <<0, job.n>>
  <2>1. tt \in Nat /\ 0 \in 0 .. job.n - 1 /\ job.n \in Nat \ {0} /\ job.k \in Nat
    BY <1>1 DEF Upto
  <2>2. PICK t : t = tt * job.n + 0
    OBVIOUS
  <2>3. t \in tt * job.n .. (tt + 1) * job.n - 1
    BY <2>1, <2>2, BlockOf
  <2>4. t \in Upto(job.k * job.n)
    BY <2>1, <2>3, BlocksAreTasks
  <2>5. job.k * job.n \in Nat /\ tt * job.n \in Nat
    BY <2>1, ProductsGrow
  <2>6. t = tt * job.n
    BY <2>2, <2>5
  <2>7. \E v \in Workers : tt * job.n \in span(job.k * job.n, v)
    BY <2>4, <2>5, <2>6, SpansCover DEF Upto
  <2> QED
    BY <1>1, <2>7
<1>6. Upto(Units(x)) = Upto(job.k)
  BY <1>1, <1>3 DEF Units
<1>7. ASSUME NEW tn \in Upto(job.k)
      PROVE  /\ Node(x, tn).s = 0 /\ Node(x, tn).e = job.n
             /\ \A r \in 0 .. job.n - 1 : Node(x, tn).row[r] = r
             /\ Reached(x, tn) = Rows
  <2>1. tn \div 1 = tn /\ tn % 1 = 0
    BY <1>1 DEF Upto
  <2>2. mem[ranges(m)][tn] = <<0, job.n>>
    BY <1>5
  <2>3. Node(x, tn).s = 0 /\ Node(x, tn).e = job.n
    BY <1>3, <2>2 DEF Node
  <2>4. Node(x, tn).row = [r \in 0 .. job.n - 1 |-> mem[order(m)][tn * job.n + r]]
    BY <1>3, <2>1, <2>2 DEF Node
  <2>5. Reached(x, tn) = Reaching(x.iter, tn, 0, 0)
    BY <1>2, <1>3, <2>1 DEF Reached
  <2> QED
    BY <1>1, <1>4, <2>3, <2>4, <2>5, ReachingRoot
<1>8. ASSUME NEW tn \in Upto(job.k) PROVE NodeLists(x, tn)
  <2>1. Rows = 0 .. job.n - 1
    BY DEF Rows
  <2>2. PICK row : row = Node(x, tn).row
    OBVIOUS
  <2>3. \A r \in 0 .. job.n - 1 : row[r] = r
    BY <1>7, <2>2
  <2>4. ListsRows(row, 0, job.n, Rows)
    BY <2>1, <2>3 DEF ListsRows
  <2> QED
    BY <1>7, <2>2, <2>4 DEF NodeLists
<1> QED
  BY <1>6, <1>8

(* When a partition ends, every row has landed. *)
LEMMA RowInBlock ==
  ASSUME NEW m, NEW tn, AtNode(m, tn), NEW r \in Pos(m, tn)
  PROVE  \E b \in 0 .. plan(m).bcount - 1 : r \in block_span(m, Node(m, tn), b)
<1>1. PICK s, e, per, n :
         s = Node(m, tn).s /\ e = Node(m, tn).e /\ per = Per(m, Node(m, tn)) /\ n = plan(m).bcount
  OBVIOUS
<1>2. s \in Nat /\ e \in Nat /\ per \in Nat /\ n \in Nat \ {0} /\ e - s <= n * per
      /\ r \in s .. e - 1
  BY <1>1, NodeFacts, ShapeFacts DEF AtNode, Pos
<1>3. PICK x : x = r - s
  OBVIOUS
<1>4. x \in Nat /\ x < e - s /\ r = s + x
  BY <1>2, <1>3
<1>5. n * per \in Nat
  BY <1>2, ProductsGrow
<1>6. per \in Nat \ {0} /\ x \in 0 .. n * per - 1
  <2>1. x \in 0 .. n * per - 1
    <3>1. PICK y : y = n * per
      OBVIOUS
    <3>2. y \in Nat /\ e - s <= y
      BY <1>2, <1>5, <3>1
    <3>3. x \in 0 .. y - 1
      BY <1>2, <1>4, <3>2
    <3> QED
      BY <3>1, <3>3
  <2>2. per # 0
    <3>1. per = 0 => n * per = 0
      BY <1>2
    <3> QED
      BY <2>1, <3>1
  <2> QED
    BY <1>2, <2>1, <2>2
<1>7. x \div per \in 0 .. n - 1 /\ x \in Nat
  BY <1>2, <1>4, <1>6, DivBelow
<1>8. x \in (x \div per) * per .. ((x \div per) + 1) * per - 1
  BY <1>6, <1>7, TaskOf
<1>9. PICK b : b = x \div per
  OBVIOUS
<1>10. b \in Nat /\ b \in 0 .. n - 1
  BY <1>2, <1>7, <1>9
<1>11. block_span(m, Node(m, tn), b) = {q \in Pos(m, tn) : s + b * per <= q /\ q < s + (b + 1) * per}
  BY <1>1, <1>10, BlockFacts
<1>12. PICK lo, hi : lo = b * per /\ hi = (b + 1) * per
  OBVIOUS
<1>13. lo \in Nat /\ hi \in Nat
  <2>1. b + 1 \in Nat
    BY <1>10
  <2> QED
    BY <1>2, <1>10, <1>12, <2>1, ProductsGrow
<1>14. s + lo <= r /\ r < s + hi
  <2>1. x \in lo .. hi - 1
    BY <1>8, <1>9, <1>12
  <2> QED
    BY <1>2, <1>4, <1>13, <2>1
<1> QED
  BY <1>1, <1>10, <1>11, <1>12, <1>14

LEMMA AllLanded ==
  ASSUME NEW m, EndsAt(m), IsListed(m), m.phase \in {"scatter", "fused"},
         NEW tn \in Upto(Units(m)), AtNode(m, tn), NEW r \in Pos(m, tn)
  PROVE  Landed(m, tn, r)
<1>1. /\ IsFit(job) /\ IsLocals(m) /\ \A u \in Workers : Arrived(u)
  BY DEF EndsAt
<1>2. Units(m) \in Nat /\ plan(m).bcount \in Nat \ {0} /\ Units(m) * plan(m).bcount \in Nat
      /\ tn \in Nat
  BY <1>1, ShapeFacts DEF Upto
<1>3. CASE m.phase = "fused"
  <2>1. PICK v \in Workers : tn \in span(Units(m), v)
    BY <1>2, SpansCover DEF Upto
  <2>2. tn \in NodeTasks(m, v)
    BY <2>1 DEF NodeTasks, Units
  <2> QED
    BY <1>1, <1>3, <2>2 DEF IsListed
<1>4. CASE m.phase = "scatter"
  <2>1. PICK b \in 0 .. plan(m).bcount - 1 : r \in block_span(m, Node(m, tn), b)
    BY RowInBlock
  <2>2. PICK t : t = tn * plan(m).bcount + b
    OBVIOUS
  <2>3. t \in tn * plan(m).bcount .. (tn + 1) * plan(m).bcount - 1
        /\ t \div plan(m).bcount = tn /\ t % plan(m).bcount = b
    BY <1>2, <2>2, BlockOf
  <2>4. t \in Upto(Units(m) * plan(m).bcount)
    BY <1>2, <2>3, BlocksAreTasks
  <2>5. PICK v \in Workers : t \in span(Units(m) * plan(m).bcount, v)
    BY <1>2, <2>4, SpansCover DEF Upto
  <2>6. t \in BlockTasks(m, v)
    BY <2>5 DEF BlockTasks, Units
  <2>7. BlockLanded(m, t)
    BY <1>1, <1>4, <2>6 DEF IsListed
  <2> QED
    BY <2>1, <2>3, <2>7 DEF BlockLanded
<1> QED
  BY <1>3, <1>4

(* What a child lists in the arrays of the next level. *)
ChildLists(m, tn, c, S) ==
  \A range \in {mem[ranges_next(m)][c]} :
    ListsRows([r \in range[1] .. range[2] - 1 |-> mem[order_next(m)][Node(m, tn).base + r]],
              range[1], range[2], S)

LEMMA ListsNothing ==
  ASSUME NEW row
  PROVE  ListsRows(row, 0, 0, {})
BY DEF ListsRows

(* Only the positions that are listed matter. *)
LEMMA ListsSame ==
  ASSUME NEW row, NEW other, NEW s, NEW e, NEW S, ListsRows(row, s, e, S),
         \A r \in s .. e - 1 : other[r] = row[r]
  PROVE  ListsRows(other, s, e, S)
BY DEF ListsRows

LEMMA ChildrenList ==
  ASSUME NEW m, NEW tn, AtNode(m, tn), HasChildren(m, tn), NodeLists(m, tn),
         \A r \in Pos(m, tn) : Landed(m, tn, r), NEW split, split = Node(m, tn).split
  PROVE  /\ ChildLists(m, tn, 2 * tn,
                       {i \in Reached(m, tn) : ~split.is_leaf /\ i \in split.left})
         /\ ChildLists(m, tn, 2 * tn + 1,
                       {i \in Reached(m, tn) : ~split.is_leaf /\ i \notin split.left})
<1>1. PICK s, e, row, base, L, S :
         /\ s = Node(m, tn).s /\ e = Node(m, tn).e /\ row = Node(m, tn).row
         /\ base = Node(m, tn).base /\ L = Leftward(m, tn) /\ S = Reached(m, tn)
  OBVIOUS
<1>2. PICK rn, on : rn = mem[ranges_next(m)] /\ on = mem[order_next(m)]
  OBVIOUS
<1>3. /\ split.is_leaf => rn[2 * tn] = <<0, 0>> /\ rn[2 * tn + 1] = <<0, 0>>
      /\ ~split.is_leaf => /\ rn[2 * tn] = <<s, s + Cardinality(L)>>
                           /\ rn[2 * tn + 1] = <<s + Cardinality(L), e>>
  BY <1>1, <1>2 DEF HasChildren, Children
<1>4. \A c, T : ChildLists(m, tn, c, T) <=>
        ListsRows([r \in rn[c][1] .. rn[c][2] - 1 |-> on[base + r]], rn[c][1], rn[c][2], T)
  BY <1>1, <1>2 DEF ChildLists
<1>5. CASE split.is_leaf
  <2>1. /\ {i \in S : ~split.is_leaf /\ i \in split.left} = {}
        /\ {i \in S : ~split.is_leaf /\ i \notin split.left} = {}
    BY <1>5
  <2>2. rn[2 * tn][1] = 0 /\ rn[2 * tn][2] = 0 /\ rn[2 * tn + 1][1] = 0 /\ rn[2 * tn + 1][2] = 0
    BY <1>3, <1>5
  <2>3. ASSUME NEW c, rn[c][1] = 0, rn[c][2] = 0 PROVE ChildLists(m, tn, c, {})
    <3>1. PICK h : h = [r \in rn[c][1] .. rn[c][2] - 1 |-> on[base + r]]
      OBVIOUS
    <3>2. ListsRows(h, rn[c][1], rn[c][2], {})
      BY <2>3, ListsNothing
    <3> QED
      BY <1>4, <3>1, <3>2
  <2> QED
    BY <1>1, <2>1, <2>2, <2>3
<1>6. CASE ~split.is_leaf
  <2>1. Positions(s, e, L) /\ s \in Nat /\ e \in Nat
    BY <1>1, NodeFacts
  <2>2. \A r \in s .. e - 1 : r \in L <=> row[r] \in split.left
    BY <1>1 DEF Leftward, Lefts
  <2>3. ListsRows(row, s, e, S)
    BY <1>1 DEF NodeLists
  <2>4. S \subseteq Int
    <3>1. job.n \in Nat
      BY NodeFacts
    <3> QED
      BY <1>1, <3>1 DEF Reached, Reaching, Rows
  <2> DEFINE to == [p \in s .. e - 1 |-> on[base + p]]
  <2>5. ASSUME NEW r \in s .. e - 1 PROVE to[Dest(s, e, L, r)] = row[r]
    <3>1. Landed(m, tn, r)
      BY <1>1, <2>5 DEF Pos
    <3>2. on[Landing(m, tn, r)] = row[r]
      BY <1>1, <1>2, <1>6, <3>1 DEF Landed
    <3>3. Landing(m, tn, r) = base + Dest(s, e, L, r)
      BY <1>1 DEF Landing
    <3>4. Dest(s, e, L, r) \in s .. e - 1
      BY <2>1, DestInRange
    <3>5. PICK p : p = Dest(s, e, L, r)
      OBVIOUS
    <3> QED
      BY <3>2, <3>3, <3>4, <3>5
  <2>6. PICK mid : mid = s + Cardinality(L)
    OBVIOUS
  <2>7. mid \in Nat /\ s <= mid /\ mid <= e
    <3>1. /\ Cardinality(L) \in Nat /\ Cardinality(Rest(s, e, L)) \in Nat
          /\ Cardinality(L) + Cardinality(Rest(s, e, L)) = e - s
      BY <2>1, RestComplements
    <3> QED
      BY <2>1, <2>6, <3>1
  <2>8. PICK g : g = to
    OBVIOUS
  <2>9. \A r \in s .. e - 1 : g[Dest(s, e, L, r)] = row[r]
    BY <2>5, <2>8
  <2>10. \A p \in s .. e - 1 : g[p] = on[base + p]
    BY <2>8
  <2> HIDE DEF to
  <2>11. ListsRows(g, s, mid, S \cap split.left) /\ ListsRows(g, mid, e, S \ split.left)
    BY <2>1, <2>2, <2>3, <2>4, <2>6, <2>9, PartitionLists
  <2>12. ASSUME NEW a \in Nat, NEW b \in Nat, s <= a, b <= e, NEW T, ListsRows(g, a, b, T)
         PROVE  ListsRows([r \in a .. b - 1 |-> on[base + r]], a, b, T)
    <3>1. PICK h : h = [r \in a .. b - 1 |-> on[base + r]]
      OBVIOUS
    <3>2. \A r \in a .. b - 1 : h[r] = g[r]
      BY <2>1, <2>10, <2>12, <3>1
    <3>3. ListsRows(h, a, b, T)
      BY <2>12, <3>2, ListsSame
    <3> QED
      BY <3>1, <3>3
  <2>13. /\ rn[2 * tn][1] = s /\ rn[2 * tn][2] = mid
         /\ rn[2 * tn + 1][1] = mid /\ rn[2 * tn + 1][2] = e
    BY <1>3, <1>6, <2>6
  <2>14. s <= s /\ e <= e
    BY <2>1
  <2>15. /\ {i \in S : ~split.is_leaf /\ i \in split.left} = S \cap split.left
         /\ {i \in S : ~split.is_leaf /\ i \notin split.left} = S \ split.left
    BY <1>6
  <2>16. ChildLists(m, tn, 2 * tn, S \cap split.left)
    <3>1. ListsRows([r \in s .. mid - 1 |-> on[base + r]], s, mid, S \cap split.left)
      BY <2>1, <2>7, <2>11, <2>12, <2>14
    <3> QED
      BY <1>4, <2>13, <3>1
  <2>17. ChildLists(m, tn, 2 * tn + 1, S \ split.left)
    <3>1. ListsRows([r \in mid .. e - 1 |-> on[base + r]], mid, e, S \ split.left)
      BY <2>1, <2>7, <2>11, <2>12, <2>14
    <3> QED
      BY <1>4, <2>13, <3>1
  <2> QED
    BY <1>1, <2>15, <2>16, <2>17
<1> QED
  BY <1>5, <1>6

LEMMA PartitionBeginsLists ==
  ASSUME NEW m, EndsAt(m), IsListed(m), m.phase \in {"scatter", "fused"}, NEW x, x = After(m)
  PROVE  \A c \in Upto(Units(x)) : NodeLists(x, c)
<1>1. /\ IsFit(job) /\ IsLocals(m)
      /\ \A tn \in Upto(Units(m)) : NodeLists(m, tn)
  BY DEF EndsAt, IsListed, LevelPhases
<1>2. /\ job.k \in Nat \ {0} /\ plan(m).nodes \in Nat \ {0} /\ Units(m) = job.k * plan(m).nodes
      /\ plan(m).nodes = 2 ^ m.level /\ m.level \in Nat /\ m.level < job.depth
  <2>1. m.level < job.depth
    BY <1>1 DEF IsLocals
  <2>2. m.level \in 0 .. job.depth /\ job.depth \in Nat
    BY <1>1, ShapeFacts
  <2> QED
    BY <1>1, <2>1, <2>2, ShapeFacts
<1>3. /\ x.level = m.level + 1 /\ x.iter = m.iter
      /\ ranges(x) = ranges_next(m) /\ order(x) = order_next(m)
      /\ plan(x).nodes = 2 * plan(m).nodes
      /\ \A tn \in Upto(Units(m)) : AtNode(m, tn) /\ HasChildren(m, tn)
  BY NextLevel
<1>4. Units(x) = job.k * (2 * plan(m).nodes)
  BY <1>3 DEF Units
<1>5. ASSUME NEW c \in Upto(Units(x)) PROVE NodeLists(x, c)
  <2>1. PICK nodes, tn, b : nodes = plan(m).nodes /\ tn = c \div 2 /\ b = c % 2
    OBVIOUS
  <2>2. /\ tn \in Upto(Units(m)) /\ b \in {0, 1} /\ c = 2 * tn + b
        /\ c \div (2 * nodes) = tn \div nodes
        /\ c % (2 * nodes) = 2 * (tn % nodes) + b
    <3>1. c \in Upto(job.k * (2 * nodes)) /\ nodes \in Nat \ {0} /\ job.k \in Nat \ {0}
      BY <1>2, <1>4, <2>1
    <3>2. Units(m) = job.k * nodes
      BY <1>2, <2>1
    <3> QED
      BY <2>1, <3>1, <3>2, ChildOf
  <2>3. PICK iter, tt, level, node :
           iter = m.iter /\ tt = tn \div nodes /\ level = m.level /\ node = tn % nodes
    OBVIOUS
  <2>4. node \in Nat /\ node < 2 ^ level /\ level \in Nat /\ level < job.depth /\ tn \in Nat
    <3>1. tn % nodes \in Nat /\ tn % nodes < 2 ^ m.level
      BY <1>1, <2>1, <2>2, NodePlace
    <3> QED
      BY <1>2, <2>2, <2>3, <3>1 DEF Upto
  <2>5. PICK split : split = Node(m, tn).split
    OBVIOUS
  <2>6. split = mem["split"][TreeBase(iter, tt) + (2 ^ level - 1 + node)]
    <3>1. split = mem["split"][Slot(m, tt, level, node)]
      BY <2>1, <2>3, <2>5 DEF Node
    <3>2. PICK p, q : p = 2 ^ level /\ q = TreeBase(iter, tt)
      OBVIOUS
    <3>3. p \in Nat
      BY <1>2, <2>3, <3>2
    <3>4. q \in Int
      <4>1. iter \in Nat /\ tt \in Nat /\ job.k \in Nat
        <5>1. tn \div nodes \in Upto(job.k)
          BY <1>1, <2>1, <2>2, NodePlace
        <5> QED
          BY <1>1, <1>2, <2>3, <5>1, ShapeFacts DEF Upto
      <4>2. iter * job.k \in Nat
        BY <4>1, ProductsGrow
      <4>3. PICK t, total : t = iter * job.k + tt /\ total = total_nodes
        OBVIOUS
      <4>4. t \in Int
        BY <4>1, <4>2, <4>3
      <4>5. total \in Int
        <5>1. job.depth + 1 \in Nat
          BY <1>1, ShapeFacts
        <5>2. 2 ^ (job.depth + 1) \in Nat
          BY <5>1, PowerDoubles
        <5>3. PICK z : z = 2 ^ (job.depth + 1)
          OBVIOUS
        <5> QED
          BY <4>3, <5>2, <5>3 DEF total_nodes
      <4>6. t * total \in Int
        BY <4>4, <4>5, SMT
      <4> QED
        BY <3>2, <4>3, <4>6 DEF TreeBase
    <3>5. Slot(m, tt, level, node) = q + p - 1 + node
      BY <2>3, <3>2 DEF Slot, TreeBase
    <3>6. q + p - 1 + node = q + (p - 1 + node)
      BY <2>4, <3>3, <3>4
    <3> QED
      BY <3>1, <3>2, <3>5, <3>6
  <2>7. PICK S, G, H :
           /\ S = Reached(m, tn)
           /\ G = {i \in S : ~split.is_leaf /\ i \in split.left}
           /\ H = {i \in S : ~split.is_leaf /\ i \notin split.left}
    OBVIOUS
  <2>8. S = Reaching(iter, tt, level, node)
    BY <2>1, <2>3, <2>7 DEF Reached
  <2>9. /\ Reaching(iter, tt, level + 1, 2 * node) = G
        /\ Reaching(iter, tt, level + 1, 2 * node + 1) = H
    BY <1>1, <2>4, <2>6, <2>7, <2>8, ReachingChild
  <2>10. Reached(x, c) = Reaching(iter, tt, level + 1, 2 * node + b)
    BY <1>3, <2>1, <2>2, <2>3 DEF Reached
  <2>11. NodeLists(x, c) <=> ChildLists(m, tn, c, Reached(x, c))
    <3>1. c \div plan(x).nodes = tt /\ tn \div plan(m).nodes = tt
      BY <1>3, <2>1, <2>2, <2>3
    <3>2. PICK range : range = mem[ranges_next(m)][c]
      OBVIOUS
    <3>3. /\ Node(x, c).s = range[1] /\ Node(x, c).e = range[2]
          /\ Node(x, c).row = [r \in range[1] .. range[2] - 1 |->
                                 mem[order_next(m)][tt * job.n + r]]
      BY <1>3, <3>1, <3>2 DEF Node
    <3>4. Node(m, tn).base = tt * job.n
      BY <3>1 DEF Node
    <3>5. PICK row : row = Node(x, c).row
      OBVIOUS
    <3>6. ChildLists(m, tn, c, Reached(x, c)) <=> ListsRows(row, range[1], range[2], Reached(x, c))
      BY <3>2, <3>3, <3>4, <3>5 DEF ChildLists
    <3> QED
      BY <3>3, <3>5, <3>6 DEF NodeLists
  <2>12. AtNode(m, tn) /\ HasChildren(m, tn) /\ NodeLists(m, tn)
    BY <1>1, <1>3, <2>2
  <2>13. \A r \in Pos(m, tn) : Landed(m, tn, r)
    BY <2>2, <2>12, AllLanded
  <2>14. ChildLists(m, tn, 2 * tn, G) /\ ChildLists(m, tn, 2 * tn + 1, H)
    BY <2>5, <2>7, <2>12, <2>13, ChildrenList
  <2>15. CASE b = 0
    BY <2>2, <2>4, <2>9, <2>10, <2>11, <2>14, <2>15
  <2>16. CASE b = 1
    BY <2>2, <2>4, <2>9, <2>10, <2>11, <2>14, <2>16
  <2> QED
    BY <2>2, <2>15, <2>16
<1> QED
  BY <1>5

(* Whatever phase of a level begins, its nodes list what reaches them. *)
LEMMA AllBeginLists ==
  ASSUME NEW m, EndsAt(m), IsListed(m), NEW x, x = After(m), x.phase \in LevelPhases
  PROVE  \A tn \in Upto(Units(x)) : NodeLists(x, tn)
<1>1. m.phase \in Phases /\ IsLocals(m)
  BY DEF EndsAt
<1>2. CASE m.phase \in {"init", "grad", "update"}
  BY <1>1, <1>2 DEF After, AfterPartition, IsLocals, LevelPhases
<1>3. CASE m.phase \in {"gather", "reduce", "count", "prefix"}
  <2>1. SameLevel(x, m)
    BY <1>1, <1>3 DEF After, AfterPartition, AfterReduce, IsLocals, SameLevel
  <2>2. m.phase \in LevelPhases
    BY <1>3 DEF LevelPhases
  <2> QED
    BY <2>1, <2>2, SameLevelLists
<1> QED
  BY <1>1, <1>2, <1>3, ResetLists, PartitionBeginsLists DEF Phases

----------------------------------------------------------------------------
(* The listing holds *)

LEMMA DescendSame ==
  ASSUME UNCHANGED <<job, mem>>, NEW iter, NEW tt, NEW i
  PROVE  Descend(iter, tt, i)' = Descend(iter, tt, i)
<1>1. job' = job /\ mem' = mem
  OBVIOUS
<1> QED
  BY <1>1, Zenon DEF Descend, total_nodes

LEMMA ListingSame ==
  ASSUME NEW m, UNCHANGED <<job, mem>>
  PROVE  /\ \A tn : NodeLists(m, tn)' <=> NodeLists(m, tn)
         /\ \A tn, r : Landed(m, tn, r)' <=> Landed(m, tn, r)
         /\ \A t : BlockLanded(m, t)' <=> BlockLanded(m, t)
         /\ \A t : IsReset(m, t)' <=> IsReset(m, t)
         /\ \A tn : Pos(m, tn)' = Pos(m, tn)
<1>1. /\ NodesStay(m) /\ order(m)' = order(m) /\ order_next(m)' = order_next(m)
      /\ job' = job /\ mem' = mem
  BY HandlesStay DEF NodesStay
<1>2. plan(m)' = plan(m) /\ Rows' = Rows
  BY DEF plan, Rows
<1>3. \A tn : Node(m, tn)' = Node(m, tn) /\ Leftward(m, tn)' = Leftward(m, tn)
  BY <1>1, NodeStays
<1>4. \A tn : Reached(m, tn)' = Reached(m, tn)
  BY <1>1, <1>2, DescendSame DEF Reached, Reaching
<1>5. \A tn : NodeLists(m, tn)' <=> NodeLists(m, tn)
  BY <1>3, <1>4 DEF NodeLists, ListsRows
<1>6. \A tn, r : Landing(m, tn, r)' = Landing(m, tn, r)
  BY <1>3 DEF Landing, Dest, Below, Rest
<1>7. \A tn, r : Landed(m, tn, r)' <=> Landed(m, tn, r)
  BY <1>1, <1>3, <1>6 DEF Landed
<1>8. \A t : BlockLanded(m, t)' <=> BlockLanded(m, t)
  <2>1. \A node, b : block_span(m, node, b)' = block_span(m, node, b)
    BY <1>2 DEF block_span, Per, CeilDiv, Smaller
  <2> QED
    BY <1>2, <1>3, <1>7, <2>1 DEF BlockLanded
<1>9. \A t : IsReset(m, t)' <=> IsReset(m, t)
  BY <1>1 DEF IsReset
<1>10. \A tn : Pos(m, tn)' = Pos(m, tn)
  BY <1>3 DEF Pos
<1> QED
  BY <1>5, <1>7, <1>8, <1>9, <1>10

LEMMA QuietListed ==
  ASSUME NEW m, Quiet, IsListed(m)
  PROVE  IsListed(m)'
<1>0. UNCHANGED <<job, mem>> /\ \A v \in Workers : Arrived(v)' <=> Arrived(v)
  BY DEF Quiet
<1>1. m.phase \in LevelPhases => \A tn \in Upto(Units(m))' : NodeLists(m, tn)'
  BY <1>0, QuietStays, ListingSame DEF IsListed
<1>2. m.phase = "reset" =>
       \A u \in Workers : Arrived(u)' => \A t \in span(job.k * job.n, u)' : IsReset(m, t)'
  <2>1. \A u : span(job.k * job.n, u)' = span(job.k * job.n, u)
    BY <1>0 DEF span
  <2> QED
    BY <1>0, <2>1, ListingSame DEF IsListed
<1>3. m.phase = "scatter" =>
       \A u \in Workers : Arrived(u)' => \A t \in BlockTasks(m, u)' : BlockLanded(m, t)'
  BY <1>0, QuietStays, ListingSame DEF IsListed
<1>4. m.phase = "fused" =>
       \A u \in Workers : Arrived(u)' =>
         \A tn \in NodeTasks(m, u)' : \A r \in Pos(m, tn)' : Landed(m, tn, r)'
  BY <1>0, QuietStays, ListingSame DEF IsListed
<1> QED
  BY <1>1, <1>2, <1>3, <1>4 DEF IsListed

LEMMA BeginsListed ==
  ASSUME NEW m, m.phase \in LevelPhases => \A tn \in Upto(Units(m)) : NodeLists(m, tn),
         UNCHANGED <<job, mem>>, \A v \in Workers : ~Arrived(v)'
  PROVE  IsListed(m)'
<1>1. m.phase \in LevelPhases => \A tn \in Upto(Units(m))' : NodeLists(m, tn)'
  BY QuietStays, ListingSame
<1> QED
  BY <1>1 DEF IsListed

LEMMA InitListed == Init => RInv
<1> SUFFICES ASSUME Init PROVE RInv
  OBVIOUS
<1>1. \A u \in Workers : Pending(u) = me[u] /\ me[u].phase = "init"
  BY DEF Init, Bar!Init, Pending
<1>2. \A m : m.phase = "init" => IsListed(m)
  BY DEF IsListed, LevelPhases
<1> QED
  BY <1>1, <1>2 DEF RInv

LEMMA WorkKeepsListed ==
  ASSUME CInv, DInv, AInv, RInv, NEW u \in Workers, Work(u)
  PROVE  RInv'
<1>1. PICK d : mem' = Updated(Writes(u, d))
  BY WorkWrites
<1>2. Goes(u)
  BY WorkWrites
<1>3. /\ at[u] = "out" /\ me[u].phase \notin Ended
      /\ at' = [at EXCEPT ![u] = IF poisoned THEN "freed" ELSE "in"]
      /\ UNCHANGED <<job, me, poisoned>>
  BY <1>2 DEF Goes, Running, Bar!Arrive
<1>4. /\ at \in [Workers -> {"out", "in", "freed"}] /\ IsFit(job) /\ IsLocals(me[u])
  BY DEF CInv, Typed
<1> SUFFICES ASSUME ~poisoned, NEW v \in Workers, NEW m, m = Pending(v)'
             PROVE  IsListed(m)'
  BY <1>3 DEF RInv
<1>5. \A w \in Workers : at'[w] = IF w = u THEN "in" ELSE at[w]
  BY <1>3, <1>4
<1>6. Pending(v)' = Pending(v)
  BY <1>3, <1>5, PendingStays
<1>7. m = me[u]
  <2>1. Pending(v) = Pending(u)
    BY DEF CInv, LockStep
  <2>2. Pending(u) = me[u]
    BY <1>3 DEF Pending
  <2> QED
    BY <1>6, <2>1, <2>2
<1>8. IsData(m) /\ IsListed(m)
  BY <1>6 DEF DInv, RInv
<1>9. m.phase \in Phases
  BY <1>3, <1>4, <1>7 DEF IsLocals
<1>10. WorksAt(u, m, d)
  BY <1>1, <1>3, <1>4, <1>5, <1>7, <1>8, <1>9 DEF WorksAt, DInv
<1>11. HasTrees
  BY AllocatedDomains DEF AInv, HasTrees, Names
<1> QED
  BY <1>8, <1>10, <1>11, WorkListed

LEMMA OpenKeepsListed ==
  ASSUME CInv, DInv, RInv, Open
  PROVE  RInv'
<1>1. /\ ~poisoned /\ \A u \in Workers : at[u] = "in"
      /\ at' = [u \in Workers |-> "freed"]
      /\ UNCHANGED <<job, me, mem, poisoned>>
  BY DEF Open, Bar!Open
<1> SUFFICES ASSUME NEW v \in Workers, NEW x, x = Pending(v)' PROVE IsListed(x)'
  BY <1>1 DEF RInv
<1>2. PICK m : m = me[v]
  OBVIOUS
<1>3. Pending(v) = m
  BY <1>1, <1>2 DEF Pending
<1>4. x = After(m)
  <2>1. Pending(v)' = After(me[v])'
    BY <1>1 DEF Pending
  <2>2. After(me[v])' = After(me[v])
    BY <1>1, Zenon DEF After, AfterPartition, AfterReduce, nc, plan
  <2> QED
    BY <1>2, <2>1, <2>2
<1>5. EndsAt(m) /\ IsListed(m)
  <2>1. IsFit(job) /\ IsLocals(m) /\ m.phase \in Phases
    BY <1>1, <1>2 DEF CInv, Typed, AtTheCall
  <2>2. IsData(m) /\ IsListed(m)
    BY <1>1, <1>3 DEF DInv, RInv
  <2>3. \A u \in Workers : Arrived(u)
    BY <1>1 DEF Arrived
  <2> QED
    BY <2>1, <2>2, <2>3 DEF EndsAt
<1>6. x.phase \in LevelPhases => \A tn \in Upto(Units(x)) : NodeLists(x, tn)
  BY <1>4, <1>5, AllBeginLists
<1>7. \A u \in Workers : ~Arrived(u)'
  BY <1>1 DEF Arrived
<1> QED
  BY <1>1, <1>6, <1>7, BeginsListed

LEMMA PassKeepsListed ==
  ASSUME CInv, RInv, NEW u \in Workers, Pass(u)
  PROVE  RInv'
<1>1. /\ at[u] = "freed" /\ at' = [at EXCEPT ![u] = "out"]
      /\ me' = [me EXCEPT ![u] = IF poisoned THEN Abandon(@) ELSE After(@)]
      /\ UNCHANGED <<job, mem, poisoned>>
  BY DEF Pass, Bar!Leave
<1>2. at \in [Workers -> {"out", "in", "freed"}] /\ DOMAIN me = Workers
  BY DEF CInv, Typed
<1> SUFFICES ASSUME ~poisoned, NEW v \in Workers, NEW m, m = Pending(v)'
             PROVE  IsListed(m)'
  BY <1>1 DEF RInv
<1>3. m = Pending(v)
  BY PassPending
<1>4. IsListed(m)
  BY <1>3 DEF RInv
<1>5. Quiet
  BY <1>1, <1>2 DEF Quiet, Arrived
<1> QED
  BY <1>4, <1>5, QuietListed

LEMMA NextListed == CInv /\ DInv /\ AInv /\ RInv /\ [Next]_vars => RInv'
<1> SUFFICES ASSUME CInv, DInv, AInv, RInv, [Next]_vars PROVE RInv'
  OBVIOUS
<1>1. ASSUME NEW u \in Workers, Work(u) PROVE RInv'
  BY <1>1, WorkKeepsListed
<1>2. ASSUME NEW u \in Workers, Pass(u) PROVE RInv'
  BY <1>2, PassKeepsListed
<1>3. ASSUME NEW u \in Workers, Fail(u) PROVE RInv'
  BY <1>3 DEF Fail, Bar!Poison, RInv
<1>4. CASE Open
  BY <1>4, OpenKeepsListed
<1>5. ASSUME UNCHANGED <<job, me, mem, at, poisoned>> PROVE RInv'
  <2> SUFFICES ASSUME ~poisoned, NEW v \in Workers, NEW m, m = Pending(v)'
               PROVE  IsListed(m)'
    BY <1>5 DEF RInv
  <2>1. Pending(v)' = Pending(v)
    BY <1>5, PendingStays
  <2>2. Quiet
    BY <1>5 DEF Quiet, Arrived
  <2> QED
    BY <2>1, <2>2, QuietListed DEF RInv
<1>6. CASE Join
  BY <1>5, <1>6 DEF Join
<1>7. CASE UNCHANGED vars
  BY <1>5, <1>7 DEF vars
<1> QED
  BY <1>1, <1>2, <1>3, <1>4, <1>6, <1>7 DEF Next

LEMMA NodeInOrder ==
  ASSUME IsFit(job), NEW m, IsLocals(m), AreRanges(mem[ranges(m)], plan(m).nodes),
         \A t \in Upto(Units(m)) : NodeLists(m, t),
         NEW tt \in Upto(job.k), NEW node \in Upto(plan(m).nodes),
         NEW range, range = mem[ranges(m)][tt * plan(m).nodes + node],
         NEW S, S = Reaching(m.iter, tt, m.level, node)
  PROVE  /\ range[2] - range[1] = Cardinality(S)
         /\ \A i \in S : mem[order(m)][tt * job.n + range[1] + Cardinality(Below(S, i))] = i
<1>1. PICK tn : tn = tt * plan(m).nodes + node
  OBVIOUS
<1>2. /\ job.k \in Nat /\ plan(m).nodes \in Nat \ {0} /\ Units(m) = job.k * plan(m).nodes
      /\ job.n \in Nat
  BY ShapeFacts
<1>3. tt \in Nat /\ node \in 0 .. plan(m).nodes - 1
  BY <1>2 DEF Upto
<1>4. /\ tn \in tt * plan(m).nodes .. (tt + 1) * plan(m).nodes - 1
      /\ tn \div plan(m).nodes = tt /\ tn % plan(m).nodes = node
  BY <1>1, <1>2, <1>3, BlockOf
<1>5. tn \in Upto(Units(m))
  BY <1>2, <1>4, BlocksAreTasks
<1>6. AtNode(m, tn)
  BY <1>2, <1>5 DEF AreRanges, AtNode
<1>7. PICK s, e, row : s = Node(m, tn).s /\ e = Node(m, tn).e /\ row = Node(m, tn).row
  OBVIOUS
<1>8. s \in Nat /\ e \in Nat /\ s <= e /\ s = range[1] /\ e = range[2]
  BY <1>1, <1>6, <1>7, NodeFacts
<1>9. Reached(m, tn) = S
  BY <1>4 DEF Reached
<1>10. ListsRows(row, s, e, S)
  BY <1>5, <1>7, <1>9 DEF NodeLists
<1>11. S \subseteq Int
  BY <1>2 DEF Reaching, Rows
<1>12. InOrder(row, s, e, S)
  BY <1>8, <1>10, <1>11, ListedInOrder
<1>13. \A r \in s .. e - 1 : row[r] = mem[order(m)][tt * job.n + r]
  BY <1>1, <1>4, <1>7, <1>8 DEF Node
<1>14. ASSUME NEW i \in S
       PROVE  mem[order(m)][tt * job.n + range[1] + Cardinality(Below(S, i))] = i
  <2>1. PICK b, c : b = tt * job.n /\ c = Cardinality(Below(S, i))
    OBVIOUS
  <2>2. c \in Nat /\ c < e - s /\ row[s + c] = i
    BY <1>12, <2>1 DEF InOrder
  <2>3. mem[order(m)][b + (s + c)] = i
    <3>1. s + c \in s .. e - 1
      BY <1>8, <2>2
    <3> QED
      BY <1>13, <2>1, <2>2, <3>1
  <2>4. b \in Nat
    BY <1>2, <1>3, <2>1, ProductsGrow
  <2>5. b + range[1] + c = b + (s + c)
    BY <1>8, <2>2, <2>4
  <2> QED
    BY <2>1, <2>3, <2>5
<1> QED
  BY <1>8, <1>12, <1>14 DEF InOrder

(* When a level begins, each node's range lists in ascending order the rows *)
(* that the splits above send to it: the blocked parallel partition is the  *)
(* serial stable one, for every number of workers, rows, trees and blocks.  *)
THEOREM RowsAreSerialCorrect == Spec => []RowsAreSerial
<1>1. Init => AInv /\ RInv
  BY InitAllocation, InitListed
<1>2. CInv /\ DInv /\ AInv /\ RInv /\ [Next]_vars => AInv' /\ RInv'
  BY NextAllocation, NextListed
<1>3. CInv /\ DInv /\ RInv => RowsAreSerial
  <2> SUFFICES ASSUME CInv, DInv, RInv, NEW u \in Workers, Running(u), ~poisoned,
                      me[u].phase = "gather", NEW tt \in Upto(job.k),
                      NEW node \in Upto(plan(me[u]).nodes)
               PROVE  LET m == me[u]
                          range == mem[ranges(m)][tt * plan(m).nodes + node]
                          reached == Reaching(m.iter, tt, m.level, node)
                      IN  /\ range[2] - range[1] = Cardinality(reached)
                          /\ \A i \in reached :
                               mem[order(m)][tt * job.n + range[1]
                                               + Cardinality({j \in reached : j < i})] = i
    BY DEF RowsAreSerial
  <2>1. PICK m : m = me[u]
    OBVIOUS
  <2>2. Pending(u) = m /\ IsFit(job) /\ IsLocals(m) /\ m.phase = "gather"
    BY <2>1 DEF Running, Pending, CInv, Typed
  <2>3. IsData(m) /\ IsListed(m)
    BY <2>2 DEF DInv, RInv
  <2>4. /\ AreRanges(mem[ranges(m)], plan(m).nodes)
        /\ \A t \in Upto(Units(m)) : NodeLists(m, t)
    BY <2>2, <2>3 DEF IsData, IsListed, LevelPhases
  <2>5. PICK range, S : /\ range = mem[ranges(m)][tt * plan(m).nodes + node]
                        /\ S = Reaching(m.iter, tt, m.level, node)
    OBVIOUS
  <2>6. node \in Upto(plan(m).nodes)
    BY <2>1
  <2>7. /\ range[2] - range[1] = Cardinality(S)
        /\ \A i \in S : mem[order(m)][tt * job.n + range[1] + Cardinality(Below(S, i))] = i
    BY <2>2, <2>4, <2>5, <2>6, NodeInOrder
  <2>8. \A i \in S :
          mem[order(m)][tt * job.n + range[1] + Cardinality({j \in S : j < i})] = i
    BY <2>7 DEF Below
  <2> QED
    BY <2>1, <2>5, <2>7, <2>8
<1> QED
  BY <1>1, <1>2, <1>3, DataInvariance, PTL DEF Spec
=============================================================================
