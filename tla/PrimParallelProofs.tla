------------------------- MODULE PrimParallelProofs -------------------------
(***************************************************************************)
(* The parallel Prim uses its barrier and its slots as it should, and      *)
(* returns what the serial Prim does, for every number of nodes, every     *)
(* target number of workers, every graph and every width of the barrier's  *)
(* generation.                                                             *)
(*                                                                         *)
(* The barrier.  A thread is in the round when it has been counted and the *)
(* generation has not moved since it loaded it.  Until the last one resets *)
(* it the counter is the number of threads in the round, so whoever counts *)
(* to the last has everybody in the round with it, nobody else can open    *)
(* it, and nobody can begin or end a call before the generation moves on,  *)
(* which frees all of them at once: it is a Rendezvous (SpinInv).          *)
(*                                                                         *)
(* The loop around it.  A worker has passed one barrier for each step      *)
(* behind it, and one more between the moment the barrier frees it and the *)
(* end of the step.  The barrier frees all of them at once, so at any time *)
(* all have passed the same number: a worker that stores is one step ahead *)
(* of a worker that still reads, and writes the other buffer.  The         *)
(* argument that the tree is the serial one stands before its lemmas.      *)
(***************************************************************************)
EXTENDS PrimParallel, FiniteSetTheorems, TLAPS

----------------------------------------------------------------------------
(* The spin barrier: who opens it, who is in the round, and what holds of both *)

SpinOpening == {"reset", "bump"}

SpinRound ==
  {u \in Parties : inWait[u] \in SpinOpening \/ (inWait[u] = "spin" /\ seen[u] = generation)}

SpinTypes ==
  /\ inWait \in [Parties -> {"out", "add", "spin", "reset", "bump", "return"}]
  /\ seen \in [Parties -> 0 .. Wrap - 1]
  /\ count \in Nat
  /\ generation \in 0 .. Wrap - 1

(* Who is about to be counted has loaded the generation of this round. *)
SpinCurrent == \A u \in Parties : inWait[u] = "add" => seen[u] = generation

(* There is one opener, and it finds everybody in the round. *)
SpinOpensForAll ==
  \A u \in Parties : inWait[u] \in SpinOpening =>
    /\ SpinRound = Parties
    /\ \A v \in Parties : inWait[v] \in SpinOpening => v = u

SpinCounts ==
  IF \E u \in Parties : inWait[u] = "bump" THEN count = 0 ELSE count = Cardinality(SpinRound)

SpinInv == SpinTypes /\ SpinCurrent /\ SpinOpensForAll /\ SpinCounts

----------------------------------------------------------------------------
(* The loop around it *)

(* The barrier has let w go, though its call may not have returned. *)
Freed(w) ==
  \/ pc[w] = "reduce"
  \/ pc[w] = "wait" /\ (inWait[w] = "return" \/ (inWait[w] = "spin" /\ seen[w] # generation))

Passed(w) == IF Freed(w) THEN step[w] + 1 ELSE step[w]

PlacesTyped ==
  /\ pc \in [Workers -> {"scan", "store", "arrive", "wait", "reduce", "done"}]
  /\ step \in [Workers -> Nat]

(* A worker is in wait() exactly when its loop is at the call. *)
InWaitAtTheCall == \A w \in Workers : inWait[w] # "out" <=> pc[w] = "wait"

InStep == \A w, u \in Workers : Passed(w) = Passed(u)

IInv == PlacesTyped /\ SpinInv /\ InWaitAtTheCall /\ InStep

----------------------------------------------------------------------------
(* The workers *)

LEMMA DivCeilPositive ==
  ASSUME NEW a \in Nat \ {0}, NEW b \in Nat \ {0}
  PROVE  DivCeil(a, b) \in Nat \ {0}
<1> DEFINE q == (a + b - 1) \div b
<1>1. q \in Int /\ b * q <= a + b - 1 /\ a + b - 1 < b * q + b
  BY SMT
<1>2. ASSUME q <= 0 PROVE FALSE
  <2>1. b * q <= 0
    BY <1>1, <1>2, SMT
  <2> QED
    BY <1>1, <2>1, SMT
<1> QED
  BY <1>1, <1>2 DEF DivCeil

LEMMA WorkersAreFinite == Count \in Nat /\ IsFiniteSet(Workers) /\ Workers # {}
<1>1. Chunk \in Nat \ {0}
  BY DivCeilPositive, NAssumption, UnitsAssumption DEF Chunk
<1>2. Count \in Nat \ {0}
  BY <1>1, DivCeilPositive, NAssumption DEF Count
<1>3. IsFiniteSet(0 .. Count - 1)
  BY <1>2, FS_Interval
<1> QED
  BY <1>2, <1>3 DEF Workers

LEMMA PartiesAreFinite == IsFiniteSet(Parties) /\ Parties # {}
BY WorkersAreFinite DEF Parties

(* The barrier counts with the cardinality of the library. *)
LEMMA BarrierCardinality == Barrier!Cardinality(Parties) = Cardinality(Parties)
BY DEF Barrier!Cardinality, Cardinality, Barrier!IsFiniteSet, IsFiniteSet

----------------------------------------------------------------------------
(* The spin barrier *)

LEMMA NextGeneration ==
  ASSUME NEW g \in 0 .. Wrap - 1
  PROVE  (g + 1) % Wrap \in 0 .. Wrap - 1 /\ (g + 1) % Wrap # g
<1>1. CASE g + 1 < Wrap
  <2>1. (g + 1) % Wrap = g + 1
    BY <1>1, GenerationAssumption, SMT
  <2> QED
    BY <2>1, <1>1, GenerationAssumption
<1>2. CASE g + 1 = Wrap
  <2>1. (g + 1) % Wrap = 0
    BY <1>2, GenerationAssumption, SMT
  <2> QED
    BY <2>1, <1>2, GenerationAssumption
<1> QED
  BY <1>1, <1>2, GenerationAssumption

LEMMA SpinRoundIsFinite == IsFiniteSet(SpinRound) /\ Cardinality(SpinRound) \in Nat
<1>1. SpinRound \subseteq Parties
  BY DEF SpinRound
<1> QED
  BY <1>1, FS_Subset, FS_CardinalityType, PartiesAreFinite

LEMMA SpinLastCompletes ==
  ASSUME NEW u \in Parties, u \notin SpinRound, Cardinality(SpinRound) = Cardinality(Parties) - 1
  PROVE  SpinRound \cup {u} = Parties
<1>1. SpinRound \cup {u} \subseteq Parties
  BY DEF SpinRound
<1>2. Cardinality(SpinRound \cup {u}) = Cardinality(SpinRound) + 1
  BY SpinRoundIsFinite, FS_AddElement
<1>3. Cardinality(SpinRound \cup {u}) = Cardinality(Parties)
  BY <1>2, SpinRoundIsFinite, FS_CardinalityType, PartiesAreFinite
<1> QED
  BY <1>1, <1>3, FS_Subset, PartiesAreFinite

----------------------------------------------------------------------------
(* The invariant *)

LEMMA SpinInitInv == Barrier!Init => SpinInv
<1> SUFFICES ASSUME Barrier!Init PROVE SpinInv
  OBVIOUS
<1>1. SpinRound = {}
  BY DEF Barrier!Init, SpinRound, SpinOpening
<1>2. Cardinality({}) = 0
  BY FS_EmptySet
<1> QED
  BY <1>1, <1>2, GenerationAssumption
     DEF Barrier!Init, SpinInv, SpinTypes, SpinCurrent, SpinOpensForAll, SpinCounts, SpinOpening

LEMMA SpinTypesStep == SpinTypes /\ [Barrier!Next]_barrier => SpinTypes'
<1> SUFFICES ASSUME SpinTypes, [Barrier!Next]_barrier PROVE SpinTypes'
  OBVIOUS
<1>1. ASSUME NEW u \in Parties,
             Barrier!Load(u) \/ Barrier!Return(u) \/ Barrier!StopSpinning(u) \/ Barrier!Reset(u)
      PROVE  SpinTypes'
  BY <1>1 DEF SpinTypes, Barrier!Load, Barrier!Return, Barrier!StopSpinning, Barrier!Reset,
              Barrier!Goto
<1>2. ASSUME NEW u \in Parties, Barrier!Add(u) PROVE SpinTypes'
  BY <1>2 DEF SpinTypes, Barrier!Add, Barrier!Goto
<1>3. ASSUME NEW u \in Parties, Barrier!Bump(u) PROVE SpinTypes'
  BY <1>3, NextGeneration DEF SpinTypes, Barrier!Bump, Barrier!Goto
<1>4. CASE UNCHANGED barrier
  BY <1>4 DEF SpinTypes, barrier
<1> QED
  BY <1>1, <1>2, <1>3, <1>4 DEF Barrier!Next, Barrier!Step

LEMMA SpinLoadInv ==
  ASSUME SpinInv, NEW u \in Parties, Barrier!Load(u)
  PROVE  SpinCurrent' /\ SpinOpensForAll' /\ SpinCounts'
<1> USE DEF SpinInv, SpinTypes, Barrier!Load, Barrier!Goto
<1>1. SpinRound' = SpinRound
  BY DEF SpinRound, SpinOpening
<1>2. SpinCurrent'
  BY DEF SpinCurrent
<1>3. SpinOpensForAll'
  BY <1>1 DEF SpinOpensForAll, SpinOpening
<1>4. SpinCounts'
  BY <1>1 DEF SpinCounts
<1> QED
  BY <1>2, <1>3, <1>4

LEMMA SpinAddInv ==
  ASSUME SpinInv, NEW u \in Parties, Barrier!Add(u)
  PROVE  SpinCurrent' /\ SpinOpensForAll' /\ SpinCounts'
<1> USE DEF SpinInv, SpinTypes
<1>1. u \notin SpinRound /\ seen[u] = generation
  BY DEF Barrier!Add, Barrier!Goto, SpinRound, SpinOpening, SpinCurrent
<1>2. \A v \in Parties : inWait[v] \notin SpinOpening
  BY <1>1 DEF SpinOpensForAll
<1>3. count = Cardinality(SpinRound)
  BY <1>2 DEF SpinCounts, SpinOpening
<1>4. /\ inWait'[u] \in {"reset", "spin"}
      /\ \A v \in Parties : v # u => inWait'[v] = inWait[v]
      /\ UNCHANGED <<seen, generation>>
  BY DEF Barrier!Add, Barrier!Goto
<1>5. SpinRound' = SpinRound \cup {u}
  BY <1>1, <1>4 DEF SpinRound, SpinOpening
<1>6. count' = Cardinality(SpinRound')
  BY <1>1, <1>3, <1>5, SpinRoundIsFinite, FS_AddElement DEF Barrier!Add
<1>7. SpinCurrent'
  BY <1>4 DEF SpinCurrent
<1>8. SpinCounts'
  BY <1>2, <1>4, <1>6 DEF SpinCounts, SpinOpening
<1>9. SpinOpensForAll'
  <2>1. CASE count = Cardinality(Parties) - 1
    <3>1. SpinRound' = Parties
      BY <2>1, <1>1, <1>3, <1>5, SpinLastCompletes
    <3> QED
      BY <3>1, <1>2, <1>4 DEF SpinOpensForAll, SpinOpening
  <2>2. CASE count # Cardinality(Parties) - 1
    <3>1. inWait'[u] = "spin"
      BY <2>2, BarrierCardinality DEF Barrier!Add, Barrier!Goto
    <3> QED
      BY <3>1, <1>2, <1>4 DEF SpinOpensForAll, SpinOpening
  <2> QED
    BY <2>1, <2>2
<1> QED
  BY <1>7, <1>8, <1>9

LEMMA SpinResetInv ==
  ASSUME SpinInv, NEW u \in Parties, Barrier!Reset(u)
  PROVE  SpinCurrent' /\ SpinOpensForAll' /\ SpinCounts'
<1> USE DEF SpinInv, SpinTypes, Barrier!Reset, Barrier!Goto
<1>1. SpinRound' = SpinRound
  BY DEF SpinRound, SpinOpening
<1>2. SpinCurrent'
  BY DEF SpinCurrent
<1>3. SpinOpensForAll'
  BY <1>1 DEF SpinOpensForAll, SpinOpening
<1>4. SpinCounts'
  BY DEF SpinCounts
<1> QED
  BY <1>2, <1>3, <1>4

(* While a thread opens the barrier, every other one spins in the round. *)
LEMMA OpenerSeesAll ==
  ASSUME SpinInv, NEW u \in Parties, inWait[u] \in SpinOpening
  PROVE  \A v \in Parties : v # u => inWait[v] = "spin" /\ seen[v] = generation
BY DEF SpinInv, SpinOpensForAll, SpinRound

LEMMA SpinBumpInv ==
  ASSUME SpinInv, NEW u \in Parties, Barrier!Bump(u)
  PROVE  SpinCurrent' /\ SpinOpensForAll' /\ SpinCounts'
<1> USE DEF SpinInv, SpinTypes
<1>1. \A v \in Parties : v # u => inWait[v] = "spin" /\ seen[v] = generation
  BY OpenerSeesAll DEF Barrier!Bump, Barrier!Goto, SpinOpening
<1>2. generation' # generation
  BY NextGeneration DEF Barrier!Bump
<1>3. /\ inWait'[u] = "return"
      /\ \A v \in Parties : v # u => inWait'[v] = "spin" /\ seen'[v] # generation'
  BY <1>1, <1>2 DEF Barrier!Bump, Barrier!Goto
<1>4. SpinRound' = {}
  BY <1>3 DEF SpinRound, SpinOpening
<1>5. count' = 0
  BY DEF Barrier!Bump, SpinCounts, Barrier!Goto
<1>6. Cardinality({}) = 0
  BY FS_EmptySet
<1>7. SpinCurrent' /\ SpinOpensForAll'
  BY <1>3 DEF SpinCurrent, SpinOpensForAll, SpinOpening
<1>8. SpinCounts'
  BY <1>4, <1>5, <1>6 DEF SpinCounts
<1> QED
  BY <1>7, <1>8

LEMMA SpinLeaveInv ==
  ASSUME SpinInv, NEW u \in Parties, Barrier!Return(u) \/ Barrier!StopSpinning(u)
  PROVE  SpinCurrent' /\ SpinOpensForAll' /\ SpinCounts'
<1> USE DEF SpinInv, SpinTypes
<1>1. /\ u \notin SpinRound
      /\ inWait'[u] = "out"
      /\ inWait[u] \notin SpinOpening
      /\ \A v \in Parties : v # u => inWait'[v] = inWait[v]
      /\ UNCHANGED <<seen, count, generation>>
  <2>1. CASE Barrier!Return(u)
    BY <2>1 DEF Barrier!Return, Barrier!Goto, SpinRound, SpinOpening
  <2>2. CASE Barrier!StopSpinning(u)
    BY <2>2 DEF Barrier!StopSpinning, Barrier!Goto, SpinRound, SpinOpening
  <2> QED
    BY <2>1, <2>2
<1>2. SpinRound' = SpinRound
  BY <1>1 DEF SpinRound, SpinOpening
<1>3. SpinCurrent'
  BY <1>1 DEF SpinCurrent
<1>4. SpinOpensForAll'
  BY <1>1, <1>2 DEF SpinOpensForAll, SpinOpening
<1>5. SpinCounts'
  BY <1>1, <1>2 DEF SpinCounts, SpinOpening
<1> QED
  BY <1>3, <1>4, <1>5

LEMMA SpinNextInv == SpinInv /\ [Barrier!Next]_barrier => SpinInv'
<1> SUFFICES ASSUME SpinInv, [Barrier!Next]_barrier PROVE SpinInv'
  OBVIOUS
<1>1. SpinTypes'
  BY SpinTypesStep DEF SpinInv
<1>2. ASSUME NEW u \in Parties, Barrier!Step(u)
      PROVE  SpinCurrent' /\ SpinOpensForAll' /\ SpinCounts'
  BY <1>2, SpinLoadInv, SpinAddInv, SpinResetInv, SpinBumpInv, SpinLeaveInv DEF Barrier!Step
<1>3. ASSUME UNCHANGED barrier PROVE SpinCurrent' /\ SpinOpensForAll' /\ SpinCounts'
  <2>1. SpinRound' = SpinRound
    BY <1>3 DEF barrier, SpinRound
  <2>2. SpinCurrent' /\ SpinOpensForAll'
    BY <1>3, <2>1 DEF barrier, SpinInv, SpinCurrent, SpinOpensForAll
  <2>3. SpinCounts'
    BY <1>3, <2>1 DEF barrier, SpinInv, SpinCounts
  <2> QED
    BY <2>2, <2>3
<1>4. SpinCurrent' /\ SpinOpensForAll' /\ SpinCounts'
  BY <1>2, <1>3 DEF Barrier!Next
<1> QED
  BY <1>1, <1>4 DEF SpinInv

(* The inductive invariant of the barrier. *)
THEOREM SpinInvariance == Barrier!Spec => []SpinInv
BY SpinInitInv, SpinNextInv, PTL DEF Barrier!Spec, Barrier!vars, barrier

----------------------------------------------------------------------------
(* The refinement *)

LEMMA SpinAbstractInit == Barrier!Init => Barrier!Abstract!Init
BY DEF Barrier!Init, Barrier!Abstract!Init, Barrier!at

LEMMA SpinAbstractStep ==
  SpinInv /\ [Barrier!Next]_barrier => [Barrier!Abstract!Next]_(Barrier!Abstract!vars)
<1> SUFFICES ASSUME SpinInv, [Barrier!Next]_barrier
             PROVE  [Barrier!Abstract!Next]_(Barrier!Abstract!vars)
  OBVIOUS
<1> USE DEF SpinInv, SpinTypes, Barrier!Goto
<1>1. ASSUME NEW u \in Parties, Barrier!Load(u) \/ Barrier!Reset(u) PROVE Barrier!at' = Barrier!at
  BY <1>1 DEF Barrier!Load, Barrier!Reset, Barrier!at
<1>2. ASSUME NEW u \in Parties, Barrier!Add(u) PROVE Barrier!Abstract!Arrive(u)
  <2>1. seen[u] = generation
    BY <1>2 DEF Barrier!Add, SpinCurrent
  <2>2. Barrier!at' = [Barrier!at EXCEPT ![u] = "in"]
    BY <1>2, <2>1 DEF Barrier!Add, Barrier!at
  <2>3. Barrier!at[u] = "out"
    BY <1>2 DEF Barrier!Add, Barrier!at
  <2> QED
    BY <2>2, <2>3 DEF Barrier!Abstract!Arrive
<1>3. ASSUME NEW u \in Parties, Barrier!Bump(u) PROVE Barrier!Abstract!Open
  <2>1. \A v \in Parties : v # u => inWait[v] = "spin" /\ seen[v] = generation
    BY <1>3, OpenerSeesAll DEF Barrier!Bump, SpinOpening
  <2>2. \A v \in Parties : Barrier!at[v] = "in"
    BY <1>3, <2>1 DEF Barrier!Bump, Barrier!at
  <2>3. generation' # generation
    BY <1>3, NextGeneration DEF Barrier!Bump
  <2>4. Barrier!at' = [v \in Parties |-> "freed"]
    BY <1>3, <2>1, <2>3 DEF Barrier!Bump, Barrier!at
  <2> QED
    BY <2>2, <2>4 DEF Barrier!Abstract!Open
<1>4. ASSUME NEW u \in Parties, Barrier!Return(u) PROVE Barrier!Abstract!Leave(u)
  BY <1>4 DEF Barrier!Return, Barrier!Abstract!Leave, Barrier!at
<1>5. ASSUME NEW u \in Parties, Barrier!StopSpinning(u) PROVE Barrier!Abstract!Leave(u)
  BY <1>5 DEF Barrier!StopSpinning, Barrier!Abstract!Leave, Barrier!at
<1>6. ASSUME UNCHANGED barrier PROVE Barrier!at' = Barrier!at
  BY <1>6 DEF barrier, Barrier!at
<1>7. CASE Barrier!Next
  <2>1. PICK u \in Parties : Barrier!Step(u)
    BY <1>7 DEF Barrier!Next
  <2>2. \/ Barrier!at' = Barrier!at
        \/ Barrier!Abstract!Arrive(u) \/ Barrier!Abstract!Open \/ Barrier!Abstract!Leave(u)
    BY <2>1, <1>1, <1>2, <1>3, <1>4, <1>5 DEF Barrier!Step
  <2> QED
    BY <2>2 DEF Barrier!Abstract!Next, Barrier!Abstract!vars
<1> QED
  BY <1>6, <1>7 DEF Barrier!Abstract!vars

(* The code's spin barrier is a rendezvous: nobody leaves a round before    *)
(* everybody has arrived in it, whatever calls wait() and whenever.         *)
THEOREM SpinBarrierIsRendezvous == Barrier!Spec => Barrier!ImplementsRendezvous
BY SpinInvariance, SpinAbstractInit, SpinAbstractStep, PTL
   DEF Barrier!Spec, Barrier!ImplementsRendezvous, Barrier!Abstract!Spec, Barrier!vars, barrier

----------------------------------------------------------------------------
(* The workers at the barrier *)

LEMMA SpinStep == [Next]_vars => [Barrier!Next]_barrier
<1> SUFFICES ASSUME [Next]_vars PROVE [Barrier!Next]_barrier
  OBVIOUS
<1>1. ASSUME NEW w \in Workers, WorkerStep(w) PROVE Barrier!Step(w) \/ UNCHANGED barrier
  <2>1. CASE Scan(w) \/ Store(w) \/ ReadSlot(w) \/ NextStep(w)
    BY <2>1 DEF Scan, Store, ReadSlot, NextStep
  <2>2. CASE Arrive(w)
    BY <2>2 DEF Arrive, Barrier!Step
  <2>3. CASE Wait(w)
    BY <2>3 DEF Wait, Barrier!Step
  <2>4. CASE Leave(w)
    BY <2>4 DEF Leave, Barrier!Step
  <2> QED
    BY <1>1, <2>1, <2>2, <2>3, <2>4 DEF WorkerStep
<1>2. CASE UNCHANGED vars
  BY <1>2 DEF vars, barrier
<1> QED
  BY <1>1, <1>2 DEF Next, Barrier!Next, Parties

LEMMA SpinInvariant == SpinInv /\ [Next]_vars => SpinInv'
BY SpinNextInv, SpinStep

----------------------------------------------------------------------------
(* The invariant *)

LEMMA InitInv == Init => IInv
<1> SUFFICES ASSUME Init PROVE IInv
  OBVIOUS
<1>1. PlacesTyped
  BY DEF Init, PlacesTyped
<1>2. SpinInv
  BY SpinInitInv DEF Init
<1>3. InWaitAtTheCall
  BY DEF Init, Barrier!Init, Parties, InWaitAtTheCall
<1>4. InStep
  BY DEF Init, InStep, Passed, Freed
<1> QED
  BY <1>1, <1>2, <1>3, <1>4 DEF IInv

LEMMA PlacesStep == PlacesTyped /\ [Next]_vars => PlacesTyped'
<1> SUFFICES ASSUME PlacesTyped, [Next]_vars PROVE PlacesTyped'
  OBVIOUS
<1> USE DEF PlacesTyped, Goto
<1>1. ASSUME NEW w \in Workers, Scan(w) PROVE PlacesTyped'
  BY <1>1 DEF Scan
<1>2. ASSUME NEW w \in Workers, Store(w) PROVE PlacesTyped'
  BY <1>2 DEF Store
<1>3. ASSUME NEW w \in Workers, Arrive(w) PROVE PlacesTyped'
  BY <1>3 DEF Arrive
<1>4. ASSUME NEW w \in Workers, Wait(w) PROVE PlacesTyped'
  BY <1>4 DEF Wait
<1>5. ASSUME NEW w \in Workers, Leave(w) PROVE PlacesTyped'
  BY <1>5 DEF Leave
<1>6. ASSUME NEW w \in Workers, ReadSlot(w) PROVE PlacesTyped'
  BY <1>6 DEF ReadSlot
<1>7. ASSUME NEW w \in Workers, NextStep(w) PROVE PlacesTyped'
  BY <1>7 DEF NextStep
<1>8. CASE UNCHANGED vars
  BY <1>8 DEF vars
<1> QED
  BY <1>1, <1>2, <1>3, <1>4, <1>5, <1>6, <1>7, <1>8 DEF Next, WorkerStep

LEMMA BarrierTyped ==
  SpinInv => /\ inWait \in [Workers -> {"out", "add", "spin", "reset", "bump", "return"}]
               /\ seen \in [Workers -> Int]
               /\ generation \in Int
BY GenerationAssumption DEF SpinInv, SpinTypes, Parties

LEMMA AtTheCallStep == IInv /\ [Next]_vars => InWaitAtTheCall'
<1> SUFFICES ASSUME IInv, [Next]_vars PROVE InWaitAtTheCall'
  OBVIOUS
<1>0. /\ pc \in [Workers -> {"scan", "store", "arrive", "wait", "reduce", "done"}]
      /\ inWait \in [Workers -> {"out", "add", "spin", "reset", "bump", "return"}]
      /\ \A u \in Workers : inWait[u] # "out" <=> pc[u] = "wait"
  BY BarrierTyped DEF IInv, PlacesTyped, InWaitAtTheCall
<1>1. ASSUME NEW w \in Workers, Scan(w) \/ Store(w) \/ ReadSlot(w) \/ NextStep(w)
      PROVE  InWaitAtTheCall'
  <2>1. inWait' = inWait
    BY <1>1 DEF Scan, Store, ReadSlot, NextStep, barrier
  <2>2. /\ pc[w] # "wait" /\ pc'[w] # "wait"
        /\ \A u \in Workers : u # w => pc'[u] = pc[u]
    <3>1. CASE Scan(w)
      BY <3>1, <1>0 DEF Scan, Goto
    <3>2. CASE Store(w)
      BY <3>2, <1>0 DEF Store, Goto
    <3>3. CASE ReadSlot(w)
      BY <3>3, <1>0 DEF ReadSlot
    <3>4. CASE NextStep(w)
      BY <3>4, <1>0 DEF NextStep, Goto
    <3> QED
      BY <1>1, <3>1, <3>2, <3>3, <3>4
  <2> QED
    BY <2>1, <2>2, <1>0 DEF InWaitAtTheCall
<1>2. ASSUME NEW w \in Workers, Arrive(w) PROVE InWaitAtTheCall'
  BY <1>2, <1>0 DEF Arrive, Goto, Barrier!Load, Barrier!Goto, InWaitAtTheCall
<1>3. ASSUME NEW w \in Workers, Wait(w) PROVE InWaitAtTheCall'
  <2>1. /\ inWait[w] # "out" /\ inWait'[w] # "out"
        /\ \A u \in Workers : u # w => inWait'[u] = inWait[u]
        /\ pc' = pc
    <3>1. CASE Barrier!Add(w)
      BY <3>1, <1>3, <1>0 DEF Wait, Barrier!Add, Barrier!Goto
    <3>2. CASE Barrier!Reset(w)
      BY <3>2, <1>3, <1>0 DEF Wait, Barrier!Reset, Barrier!Goto
    <3>3. CASE Barrier!Bump(w)
      BY <3>3, <1>3, <1>0 DEF Wait, Barrier!Bump, Barrier!Goto
    <3> QED
      BY <1>3, <3>1, <3>2, <3>3 DEF Wait
  <2> QED
    BY <2>1, <1>0 DEF InWaitAtTheCall
<1>4. ASSUME NEW w \in Workers, Leave(w) PROVE InWaitAtTheCall'
  <2>1. /\ inWait' = [inWait EXCEPT ![w] = "out"]
        /\ pc' = [pc EXCEPT ![w] = "reduce"]
    BY <1>4 DEF Leave, Goto, Barrier!Return, Barrier!StopSpinning, Barrier!Goto
  <2> QED
    BY <2>1, <1>0 DEF InWaitAtTheCall
<1>5. CASE UNCHANGED vars
  BY <1>5, <1>0 DEF vars, barrier, InWaitAtTheCall
<1> QED
  BY <1>1, <1>2, <1>3, <1>4, <1>5 DEF Next, WorkerStep

(* A step that moves nobody past the barrier and ends nobody's step. *)
LEMMA NobodyPasses ==
  ASSUME InStep, \A u \in Workers : Passed(u)' = Passed(u)
  PROVE  InStep'
BY DEF InStep

LEMMA InStepStep == IInv /\ [Next]_vars => InStep'
<1> SUFFICES ASSUME IInv, [Next]_vars PROVE InStep'
  OBVIOUS
<1>0. /\ pc \in [Workers -> {"scan", "store", "arrive", "wait", "reduce", "done"}]
      /\ step \in [Workers -> Nat]
      /\ inWait \in [Workers -> {"out", "add", "spin", "reset", "bump", "return"}]
      /\ seen \in [Workers -> Int]
      /\ generation \in Int
      /\ \A u \in Workers : inWait[u] # "out" <=> pc[u] = "wait"
      /\ InStep
  BY BarrierTyped DEF IInv, PlacesTyped, InWaitAtTheCall
<1>1. ASSUME NEW w \in Workers, Scan(w) \/ Store(w) \/ ReadSlot(w) PROVE InStep'
  <2>1. UNCHANGED <<step, inWait, seen, generation>>
    BY <1>1 DEF Scan, Store, ReadSlot, barrier
  <2>2. \A u \in Workers : /\ pc'[u] = "reduce" <=> pc[u] = "reduce"
                           /\ pc'[u] = "wait" <=> pc[u] = "wait"
    <3>1. CASE Scan(w)
      BY <3>1, <1>0 DEF Scan, Goto
    <3>2. CASE Store(w)
      BY <3>2, <1>0 DEF Store, Goto
    <3>3. CASE ReadSlot(w)
      BY <3>3, <1>0 DEF ReadSlot
    <3> QED
      BY <1>1, <3>1, <3>2, <3>3
  <2>3. \A u \in Workers : Freed(u)' <=> Freed(u)
    BY <2>1, <2>2 DEF Freed
  <2>4. \A u \in Workers : Passed(u)' = Passed(u)
    BY <2>1, <2>3 DEF Passed
  <2> QED
    BY <2>4, <1>0, NobodyPasses
<1>2. ASSUME NEW w \in Workers, Arrive(w) PROVE InStep'
  <2>1. /\ pc[w] = "arrive" /\ pc' = [pc EXCEPT ![w] = "wait"]
        /\ inWait' = [inWait EXCEPT ![w] = "add"]
        /\ seen' = [seen EXCEPT ![w] = generation]
        /\ UNCHANGED <<step, generation>>
    BY <1>2 DEF Arrive, Goto, Barrier!Load, Barrier!Goto
  <2>2. \A u \in Workers : Freed(u)' <=> Freed(u)
    BY <2>1, <1>0 DEF Freed
  <2>3. \A u \in Workers : Passed(u)' = Passed(u)
    BY <2>1, <2>2 DEF Passed
  <2> QED
    BY <2>3, <1>0, NobodyPasses
<1>3. ASSUME NEW w \in Workers, Wait(w), Barrier!Add(w) PROVE InStep'
  <2>1. inWait[w] = "add" /\ seen[w] = generation
    <3>1. SpinCurrent /\ inWait[w] = "add"
      BY <1>3 DEF IInv, SpinInv, Barrier!Add, Barrier!Goto
    <3> QED
      BY <3>1 DEF SpinCurrent, Parties
  <2>2. /\ inWait'[w] \in {"reset", "spin"}
        /\ \A u \in Workers : u # w => inWait'[u] = inWait[u]
        /\ UNCHANGED <<pc, step, seen, generation>>
    BY <1>3, <1>0 DEF Wait, Barrier!Add, Barrier!Goto
  <2>3. \A u \in Workers : Freed(u)' <=> Freed(u)
    BY <2>1, <2>2, <1>0 DEF Freed
  <2>4. \A u \in Workers : Passed(u)' = Passed(u)
    BY <2>2, <2>3 DEF Passed
  <2> QED
    BY <2>4, <1>0, NobodyPasses
<1>4. ASSUME NEW w \in Workers, Wait(w), Barrier!Reset(w) PROVE InStep'
  <2>1. /\ inWait[w] = "reset" /\ inWait' = [inWait EXCEPT ![w] = "bump"]
        /\ UNCHANGED <<pc, step, seen, generation>>
    BY <1>4 DEF Wait, Barrier!Reset, Barrier!Goto
  <2>2. \A u \in Workers : Freed(u)' <=> Freed(u)
    BY <2>1, <1>0 DEF Freed
  <2>3. \A u \in Workers : Passed(u)' = Passed(u)
    BY <2>1, <2>2 DEF Passed
  <2> QED
    BY <2>3, <1>0, NobodyPasses
<1>5. ASSUME NEW w \in Workers, Wait(w), Barrier!Bump(w) PROVE InStep'
  <2>1. /\ inWait[w] = "bump" /\ inWait' = [inWait EXCEPT ![w] = "return"]
        /\ generation' = (generation + 1) % Wrap
        /\ UNCHANGED <<pc, step, seen>>
    BY <1>5 DEF Wait, Barrier!Bump, Barrier!Goto
  <2>2. \A u \in Workers : u # w => inWait[u] = "spin" /\ seen[u] = generation
    BY <2>1, OpenerSeesAll
       DEF IInv, SpinOpening, Parties
  <2>3. generation' # generation
    <3>1. generation \in 0 .. Wrap - 1
      BY DEF IInv, SpinInv, SpinTypes
    <3> QED
      BY <3>1, <2>1, NextGeneration
  <2>4. \A u \in Workers : pc[u] = "wait"
    BY <2>1, <2>2, <1>0
  <2>5. \A u \in Workers : Freed(u)' /\ ~Freed(u)
    <3>1. ASSUME NEW u \in Workers, u # w PROVE Freed(u)' /\ ~Freed(u)
      BY <3>1, <2>1, <2>2, <2>3, <2>4, <1>0 DEF Freed
    <3>2. Freed(w)' /\ ~Freed(w)
      BY <2>1, <2>4, <1>0 DEF Freed
    <3> QED
      BY <3>1, <3>2
  <2>6. \A u \in Workers : Passed(u) = step[u] /\ Passed(u)' = step[u] + 1
    BY <2>1, <2>5 DEF Passed
  <2> QED
    BY <2>6, <1>0 DEF InStep
<1>6. ASSUME NEW w \in Workers, Leave(w) PROVE InStep'
  <2>1. /\ pc[w] = "wait" /\ pc' = [pc EXCEPT ![w] = "reduce"]
        /\ inWait' = [inWait EXCEPT ![w] = "out"]
        /\ UNCHANGED <<step, seen, generation>>
    BY <1>6 DEF Leave, Goto, Barrier!Return, Barrier!StopSpinning, Barrier!Goto
  <2>2. Freed(w)
    BY <1>6, <2>1 DEF Freed, Leave, Barrier!Return, Barrier!StopSpinning, Barrier!Goto
  <2>3. \A u \in Workers : Freed(u)' <=> Freed(u)
    BY <2>1, <2>2, <1>0 DEF Freed
  <2>4. \A u \in Workers : Passed(u)' = Passed(u)
    BY <2>1, <2>3 DEF Passed
  <2> QED
    BY <2>4, <1>0, NobodyPasses
<1>7. ASSUME NEW w \in Workers, NextStep(w) PROVE InStep'
  <2>1. /\ pc[w] = "reduce" /\ pc'[w] \in {"done", "scan"}
        /\ \A u \in Workers : u # w => pc'[u] = pc[u]
        /\ step' = [step EXCEPT ![w] = step[w] + 1]
        /\ UNCHANGED <<inWait, seen, generation>>
    BY <1>7, <1>0 DEF NextStep, Goto, barrier
  <2>2. Passed(w)' = Passed(w)
    BY <2>1, <1>0 DEF Passed, Freed
  <2>3. ASSUME NEW u \in Workers, u # w PROVE Passed(u)' = Passed(u)
    <3>1. Freed(u)' <=> Freed(u)
      BY <2>3, <2>1 DEF Freed
    <3> QED
      BY <3>1, <2>3, <2>1, <1>0 DEF Passed
  <2> QED
    BY <2>2, <2>3, <1>0, NobodyPasses
<1>8. ASSUME UNCHANGED vars PROVE InStep'
  <2>1. UNCHANGED <<pc, step, inWait, seen, generation>>
    BY <1>8 DEF vars, barrier
  <2>2. \A u \in Workers : Passed(u)' = Passed(u)
    BY <2>1 DEF Passed, Freed
  <2> QED
    BY <2>2, <1>0, NobodyPasses
<1>9. ASSUME NEW w \in Workers, WorkerStep(w) PROVE InStep'
  BY <1>9, <1>1, <1>2, <1>3, <1>4, <1>5, <1>6, <1>7 DEF WorkerStep, Wait
<1> QED
  BY <1>8, <1>9 DEF Next

LEMMA NextInv == IInv /\ [Next]_vars => IInv'
BY PlacesStep, SpinInvariant, AtTheCallStep, InStepStep DEF IInv

(* All workers have passed the same number of barriers, at any time. *)
THEOREM Invariance == Spec => []IInv
BY InitInv, NextInv, PTL DEF Spec

----------------------------------------------------------------------------
(* The theorems *)

LEMMA QuietSlots == IInv => SlotsAreQuiet
<1> SUFFICES ASSUME IInv,
                    NEW w \in Workers, NEW u \in Workers, pc[w] = "store", pc[u] = "reduce"
             PROVE  Buffer(w) # Buffer(u)
  BY DEF SlotsAreQuiet
<1>1. step[w] \in Nat /\ step[u] \in Nat
  BY DEF IInv, PlacesTyped
<1>2. step[w] = step[u] + 1
  BY DEF IInv, InStep, Passed, Freed
<1> QED
  BY <1>1, <1>2 DEF Buffer

(* No worker writes a slot another may still read: two buffers and one      *)
(* barrier a step are enough for any number of workers.                     *)
THEOREM SlotsAreAlwaysQuiet == Spec => []SlotsAreQuiet
BY Invariance, QuietSlots, PTL

(* The workers there are, not the ones asked for, meet at the barrier, and  *)
(* it keeps them in step as a rendezvous does.                              *)
THEOREM WorkersMeet == Spec => ImplementsRendezvous
<1>1. Init => Barrier!Init
  BY DEF Init
<1>2. Spec => Barrier!Spec
  BY <1>1, SpinStep, PTL DEF Spec, Barrier!Spec, Barrier!vars, barrier
<1> QED
  BY <1>2, SpinBarrierIsRendezvous DEF ImplementsRendezvous

----------------------------------------------------------------------------
(* The parallel Prim computes what the serial one does.                    *)
(*                                                                         *)
(* The argument, on top of the one above.  Fix the serial run of the same  *)
(* graph.  A worker in its k-th step has the serial run's k-th node, and   *)
(* its range looks as after the k-th or the (k+1)-th serial scan.  What it *)
(* publishes is what is found in its range there, and since all passed the *)
(* barrier together every slot it reads is of its own step.  The ranges    *)
(* are in the order of the nodes, so a strict comparison, slot after slot, *)
(* arrives at the first of the least, the serial run's next node.          *)

(* Induction *)

(* A non-empty set of naturals has a least member. *)
LEMMA LeastNumber ==
  ASSUME NEW T, T \subseteq Nat, T # {}
  PROVE  \E x \in T : \A y \in T : x <= y
<1>1. \E x \in T : \A y \in T : ~ (<<y, x>> \in OpToRel(<, Nat))
  BY NatLessThanWellFounded, WFMin
<1>2. PICK x \in T : \A y \in T : ~ (<<y, x>> \in OpToRel(<, Nat))
  BY <1>1
<1>3. \A y \in T : ~ (y < x)
  BY <1>2 DEF OpToRel
<1>4. ASSUME NEW u \in Nat, NEW v \in Nat, ~ (v < u) PROVE u <= v
  BY <1>4
<1>5. \A y \in T : x <= y
  BY <1>3, <1>4
<1> QED
  BY <1>5

(* Induction, over the set of numbers a claim holds of. *)
LEMMA NatSetInd ==
  ASSUME NEW S, 0 \in S, \A n \in Nat : n \in S => n + 1 \in S
  PROVE  Nat \subseteq S
<1> SUFFICES ASSUME Nat \ S # {} PROVE FALSE
  OBVIOUS
<1>1. PICK m \in Nat \ S : \A y \in Nat \ S : m <= y
  <2>1. Nat \ S \subseteq Nat
    OBVIOUS
  <2> QED
    BY <2>1, LeastNumber
<1>2. m # 0 /\ m \in Nat
  BY <1>1
<1>3. m - 1 \in Nat /\ m - 1 < m /\ (m - 1) + 1 = m
  BY <1>2
<1>4. m - 1 \in S
  BY <1>1, <1>3
<1> QED
  BY <1>1, <1>3, <1>4

----------------------------------------------------------------------------
(* First minima *)

IsFirstMin(S, f, j) == j \in S /\ \A k \in S : f[j] < f[k] \/ (f[j] = f[k] /\ j <= k)

LEMMA FirstMinIs ==
  ASSUME NEW S \in SUBSET Nat, S # {}, NEW f, \A j \in S : f[j] \in Nat
  PROVE  IsFirstMin(S, f, FirstMin(S, f))
<1> DEFINE V == {f[j] : j \in S}
<1>1. PICK v \in V : \A u \in V : v <= u
  <2>1. V \subseteq Nat /\ V # {}
    OBVIOUS
  <2> QED
    BY <2>1, LeastNumber
<1> DEFINE M == {j \in S : f[j] = v}
<1>2. PICK j \in M : \A k \in M : j <= k
  <2>1. M \subseteq Nat /\ M # {}
    BY <1>1
  <2> QED
    BY <2>1, LeastNumber
<1>3. IsFirstMin(S, f, j)
  <2>1. ASSUME NEW k \in S PROVE f[j] < f[k] \/ (f[j] = f[k] /\ j <= k)
    <3>1. f[j] = v /\ v \in Nat /\ f[k] \in Nat /\ v <= f[k]
      BY <1>1
    <3>2. f[k] = v => j <= k
      BY <1>2
    <3> QED
      BY <3>1, <3>2
  <2> QED
    BY <2>1 DEF IsFirstMin
<1> QED
  BY <1>3 DEF IsFirstMin, FirstMin

LEMMA FirstMinUnique ==
  ASSUME NEW S \in SUBSET Nat, NEW f, NEW h, \A j \in S : f[j] \in Nat /\ h[j] = f[j],
         NEW i, NEW j, IsFirstMin(S, f, i), IsFirstMin(S, h, j)
  PROVE  i = j
<1>1. i \in S /\ j \in S /\ i \in Nat /\ j \in Nat /\ f[i] \in Nat /\ f[j] \in Nat
  BY DEF IsFirstMin
<1>2. h[i] = f[i] /\ h[j] = f[j]
  BY <1>1
<1>3. f[i] < f[j] \/ (f[i] = f[j] /\ i <= j)
  BY <1>1 DEF IsFirstMin
<1>4. f[j] < f[i] \/ (f[j] = f[i] /\ j <= i)
  BY <1>1, <1>2 DEF IsFirstMin
<1> QED
  BY <1>1, <1>3, <1>4

----------------------------------------------------------------------------
(* What is found among a set of nodes: what a worker publishes of its range, *)
(* and what it has put together of the slots it has read.                    *)

State ==
  [cur : Nodes, tree : SUBSET Nodes, reach : [Nodes -> 0 .. Inf],
   source : [Nodes -> Nodes], edges : Seq(Nodes \X Nodes \X (0 .. Inf))]

Records == [reach : 0 .. Inf, source : Nodes, node : Nodes]

Finite(t, S) == {j \in S \ t.tree : t.reach[j] < Inf}

Found(node, t, S) ==
  LET j == FirstMin(Finite(t, S), t.reach)
  IN  IF Finite(t, S) = {} THEN Nothing(node)
      ELSE [reach |-> t.reach[j], source |-> t.source[j], node |-> j]

LEMMA NodesAreNaturals == Nodes \subseteq Nat
BY NAssumption DEF Nodes

LEMMA FoundFirst ==
  ASSUME NEW node \in Nodes, NEW t \in State, NEW S \in SUBSET Nodes, Finite(t, S) # {}
  PROVE  \E j \in Finite(t, S) :
           /\ Found(node, t, S) = [reach |-> t.reach[j], source |-> t.source[j], node |-> j]
           /\ IsFirstMin(Finite(t, S), t.reach, j)
<1>1. Finite(t, S) \in SUBSET Nat
  BY NodesAreNaturals DEF Finite
<1>2. \A j \in Finite(t, S) : t.reach[j] \in Nat
  BY InfAssumption DEF Finite, State
<1>3. IsFirstMin(Finite(t, S), t.reach, FirstMin(Finite(t, S), t.reach))
  BY <1>1, <1>2, FirstMinIs
<1> QED
  BY <1>3 DEF Found, IsFirstMin

LEMMA FoundTyped ==
  ASSUME NEW node \in Nodes, NEW t \in State, NEW S \in SUBSET Nodes
  PROVE  Found(node, t, S) \in Records
<1>1. CASE Finite(t, S) = {}
  BY <1>1, InfAssumption DEF Found, Nothing, Records
<1>2. CASE Finite(t, S) # {}
  <2>1. PICK j \in Finite(t, S) :
          Found(node, t, S) = [reach |-> t.reach[j], source |-> t.source[j], node |-> j]
    BY <1>2, FoundFirst
  <2>2. j \in Nodes /\ t.reach[j] \in 0 .. Inf /\ t.source[j] \in Nodes
    BY DEF Finite, State
  <2> QED
    BY <2>1, <2>2 DEF Records
<1> QED
  BY <1>1, <1>2

(* Two sets, the nodes of one all before those of the other: the strict     *)
(* comparison keeps the first of two equal minima.                          *)
LEMMA FoundMerges ==
  ASSUME NEW node \in Nodes, NEW t \in State,
         NEW A \in SUBSET Nodes, NEW B \in SUBSET Nodes, \A a \in A, b \in B : a < b
  PROVE  Found(node, t, A \cup B) =
           IF Found(node, t, B).reach < Found(node, t, A).reach
           THEN Found(node, t, B) ELSE Found(node, t, A)
<1> DEFINE FA == Finite(t, A)
           FB == Finite(t, B)
           FC == Finite(t, A \cup B)
<1>1. FC = FA \cup FB
  BY DEF Finite
<1>2. \A j \in FC : j \in Nat /\ t.reach[j] \in Nat /\ t.reach[j] < Inf
  <2>1. \A j \in FC : j \in Nodes /\ t.reach[j] < Inf
    BY DEF Finite
  <2>2. \A j \in Nodes : t.reach[j] \in Nat
    BY InfAssumption DEF State
  <2> QED
    BY <2>1, <2>2, NodesAreNaturals
<1>3. FA \subseteq A /\ FB \subseteq B
  BY DEF Finite
<1>4. Found(node, t, A) \in Records /\ Found(node, t, A).reach \in 0 .. Inf
  BY FoundTyped DEF Records
<1>5. CASE FB = {}
  <2>1. Found(node, t, B).reach = Inf
    BY <1>5 DEF Found, Nothing
  <2>2. FC = FA
    BY <1>1, <1>5
  <2>3. Found(node, t, A \cup B) = Found(node, t, A)
    BY <2>2 DEF Found
  <2>4. ~ (Inf < Found(node, t, A).reach)
    BY <1>4, InfAssumption
  <2> QED
    BY <2>1, <2>3, <2>4
<1>6. CASE FA = {} /\ FB # {}
  <2>1. Found(node, t, A).reach = Inf
    BY <1>6 DEF Found, Nothing
  <2>2. FC = FB
    BY <1>1, <1>6
  <2>3. Found(node, t, A \cup B) = Found(node, t, B)
    BY <2>2 DEF Found
  <2>4. Found(node, t, B).reach < Inf
    <3>1. PICK j \in FB :
            Found(node, t, B) = [reach |-> t.reach[j], source |-> t.source[j], node |-> j]
      BY <1>6, FoundFirst
    <3>2. t.reach[j] < Inf
      BY <1>1, <1>2
    <3> QED
      BY <3>1, <3>2
  <2> QED
    BY <2>1, <2>3, <2>4
<1>7. CASE FA # {} /\ FB # {}
  <2>1. PICK a \in FA :
          /\ Found(node, t, A) = [reach |-> t.reach[a], source |-> t.source[a], node |-> a]
          /\ IsFirstMin(FA, t.reach, a)
    BY <1>7, FoundFirst
  <2>2. PICK b \in FB :
          /\ Found(node, t, B) = [reach |-> t.reach[b], source |-> t.source[b], node |-> b]
          /\ IsFirstMin(FB, t.reach, b)
    BY <1>7, FoundFirst
  <2>3. PICK c \in FC :
          /\ Found(node, t, A \cup B) = [reach |-> t.reach[c], source |-> t.source[c], node |-> c]
          /\ IsFirstMin(FC, t.reach, c)
    BY <1>1, <1>7, FoundFirst
  <2>4. a \in FC /\ b \in FC /\ a < b
    BY <1>1, <1>3
  <2>5. \A j \in FA : t.reach[a] < t.reach[j] \/ (t.reach[a] = t.reach[j] /\ a <= j)
    BY <2>1 DEF IsFirstMin
  <2>6. \A j \in FB : t.reach[b] < t.reach[j] \/ (t.reach[b] = t.reach[j] /\ b <= j)
    BY <2>2 DEF IsFirstMin
  <2>7. FC \in SUBSET Nat /\ \A j \in FC : t.reach[j] \in Nat /\ t.reach[j] = t.reach[j]
    BY <1>2
  <2>8. CASE t.reach[b] < t.reach[a]
    <3>1. IsFirstMin(FC, t.reach, b)
      <4>1. ASSUME NEW j \in FC PROVE t.reach[b] < t.reach[j] \/ (t.reach[b] = t.reach[j] /\ b <= j)
        <5>1. ASSUME j \in FA PROVE t.reach[b] < t.reach[j]
          <6>1. t.reach[a] <= t.reach[j]
            BY <5>1, <2>4, <2>5, <1>2
          <6>2. t.reach[a] \in Nat /\ t.reach[b] \in Nat /\ t.reach[j] \in Nat
            BY <2>4, <1>2
          <6> QED
            BY <6>1, <6>2, <2>8
        <5> QED
          BY <5>1, <1>1, <2>6
      <4> QED
        BY <4>1, <2>4 DEF IsFirstMin
    <3>2. b = c
      BY <3>1, <2>3, <2>7, FirstMinUnique
    <3> QED
      BY <3>2, <2>1, <2>2, <2>3, <2>8
  <2>9. CASE ~ (t.reach[b] < t.reach[a])
    <3>1. IsFirstMin(FC, t.reach, a)
      <4>1. ASSUME NEW j \in FC PROVE t.reach[a] < t.reach[j] \/ (t.reach[a] = t.reach[j] /\ a <= j)
        <5>1. ASSUME j \in FB PROVE t.reach[a] < t.reach[j] \/ (t.reach[a] = t.reach[j] /\ a <= j)
          <6>1. t.reach[a] <= t.reach[b] /\ t.reach[b] <= t.reach[j]
            BY <5>1, <2>4, <2>6, <2>9, <1>2
          <6>2. a < j
            BY <5>1, <1>3
          <6> QED
            BY <6>1, <6>2, <2>4, <1>2
        <5> QED
          BY <5>1, <1>1, <2>5
      <4> QED
        BY <4>1, <2>4 DEF IsFirstMin
    <3>2. a = c
      BY <3>1, <2>3, <2>7, FirstMinUnique
    <3> QED
      BY <3>2, <2>1, <2>2, <2>3, <2>9
  <2> QED
    BY <2>8, <2>9
<1> QED
  BY <1>5, <1>6, <1>7

----------------------------------------------------------------------------
(* The serial run *)

LEMMA LargerTyped == \A x, y \in Nat : Larger(x, y) \in Nat
BY DEF Larger

LEMMA MutualReachTyped ==
  ASSUME NEW g \in Graphs, NEW i \in Nodes, NEW j \in Nodes
  PROVE  MutualReach(g, i, j) \in Nat
<1>1. g.core[i] \in Nat /\ g.core[j] \in Nat /\ g.dist[<<i, j>>] \in Nat
  BY GraphsAssumption
<1> QED
  BY <1>1, LargerTyped DEF MutualReach

(* A step of the serial Prim, in terms of what is found among all nodes. *)
IsStep(g, s, t) ==
  LET f == Found(s.cur, t, Nodes)
  IN  /\ t.tree = Joined(s)
      /\ t.reach = Reached(g, s)
      /\ t.source = Sources(g, s)
      /\ t.cur = f.node
      /\ t.edges = Append(s.edges, <<f.source, f.node, f.reach>>)

LEMMA TrackingStepIs ==
  ASSUME NEW g \in Graphs, NEW s \in State
  PROVE  TrackingStep(g, s) \in State /\ IsStep(g, s, TrackingStep(g, s))
<1> DEFINE t == TrackingStep(g, s)
           f == Found(s.cur, t, Nodes)
           finite == {j \in Nodes \ Joined(s) : Reached(g, s)[j] < Inf}
           to == FirstMin(finite, Reached(g, s))
<1>1. /\ s.cur \in Nodes /\ s.tree \in SUBSET Nodes /\ s.reach \in [Nodes -> 0 .. Inf]
      /\ s.source \in [Nodes -> Nodes] /\ s.edges \in Seq(Nodes \X Nodes \X (0 .. Inf))
  BY DEF State
<1>2. Joined(s) \in SUBSET Nodes
  BY <1>1 DEF Joined
<1>3. Sources(g, s) \in [Nodes -> Nodes]
  BY <1>1 DEF Sources
<1>4. Reached(g, s) \in [Nodes -> 0 .. Inf]
  <2>1. ASSUME NEW j \in Nodes PROVE Reached(g, s)[j] \in 0 .. Inf
    <3>1. s.reach[j] \in 0 .. Inf /\ MutualReach(g, s.cur, j) \in Nat
      BY <1>1, MutualReachTyped
    <3>2. CASE Closer(g, s, j)
      <4>1. MutualReach(g, s.cur, j) < s.reach[j]
        BY <3>2 DEF Closer
      <4> QED
        BY <3>1, <3>2, <4>1, InfAssumption DEF Reached
    <3>3. CASE ~Closer(g, s, j)
      BY <3>1, <3>3 DEF Reached
    <3> QED
      BY <3>2, <3>3
  <2> QED
    BY <2>1 DEF Reached
<1>5. /\ t.tree = Joined(s) /\ t.reach = Reached(g, s) /\ t.source = Sources(g, s)
  BY DEF TrackingStep, After
<1>6. Finite(t, Nodes) = finite
  BY <1>5 DEF Finite
<1>7. CASE finite = {}
  <2>1. t = After(g, s, s.cur, s.cur, Inf)
    BY <1>7 DEF TrackingStep
  <2>2. f = Nothing(s.cur)
    BY <1>6, <1>7 DEF Found
  <2>3. t.cur = f.node /\ t.edges = Append(s.edges, <<f.source, f.node, f.reach>>)
    BY <2>1, <2>2 DEF After, Nothing
  <2>4. t \in State
    <3>1. <<s.cur, s.cur, Inf>> \in Nodes \X Nodes \X (0 .. Inf)
      BY <1>1, InfAssumption
    <3>2. Append(s.edges, <<s.cur, s.cur, Inf>>) \in Seq(Nodes \X Nodes \X (0 .. Inf))
      BY <1>1, <3>1
    <3> QED
      BY <2>1, <3>2, <1>1, <1>2, <1>3, <1>4 DEF After, State
  <2> QED
    BY <1>5, <2>3, <2>4 DEF IsStep
<1>8. CASE finite # {}
  <2>1. t = After(g, s, Sources(g, s)[to], to, Reached(g, s)[to])
    BY <1>8 DEF TrackingStep
  <2>2. f = [reach |-> Reached(g, s)[to], source |-> Sources(g, s)[to], node |-> to]
    BY <1>5, <1>6, <1>8 DEF Found
  <2>3. t.cur = f.node /\ t.edges = Append(s.edges, <<f.source, f.node, f.reach>>)
    BY <2>1, <2>2 DEF After
  <2>4. t \in State
    <3>1. to \in finite
      <4>1. \A j \in Nodes : Reached(g, s)[j] \in Nat
        BY <1>4, InfAssumption
      <4>2. finite \in SUBSET Nat /\ \A j \in finite : Reached(g, s)[j] \in Nat
        BY <4>1, NodesAreNaturals
      <4> HIDE DEF finite
      <4> QED
        BY <4>2, <1>8, FirstMinIs DEF IsFirstMin
    <3>2. to \in Nodes
      BY <3>1
    <3>3. <<Sources(g, s)[to], to, Reached(g, s)[to]>> \in Nodes \X Nodes \X (0 .. Inf)
      BY <3>2, <1>3, <1>4
    <3>4. Append(s.edges, <<Sources(g, s)[to], to, Reached(g, s)[to]>>)
            \in Seq(Nodes \X Nodes \X (0 .. Inf))
      BY <1>1, <3>3
    <3> HIDE DEF to
    <3> QED
      BY <2>1, <3>2, <3>4, <1>1, <1>2, <1>3, <1>4 DEF After, State
  <2> QED
    BY <1>5, <2>3, <2>4 DEF IsStep
<1> QED
  BY <1>7, <1>8

(* The first m steps of the serial run of g, and all of them. *)
SerialTo(g, r, m) == r = [k \in 0 .. m |-> IF k = 0 THEN Start ELSE TrackingStep(g, r[k - 1])]
Run(g) == CHOOSE r : SerialTo(g, r, N - 1)

LEMMA SerialIsRun == Serial = Run(graph)
BY DEF Serial, Run, SerialTo

LEMMA RunExists == \A g : SerialTo(g, Run(g), N - 1)
<1> TAKE g
<1> DEFINE Good == {m \in Nat : \E r : SerialTo(g, r, m)}
<1>1. 0 \in Good
  <2>1. SerialTo(g, [k \in 0 .. 0 |-> Start], 0)
    BY DEF SerialTo
  <2> QED
    BY <2>1
<1>2. ASSUME NEW m \in Nat, m \in Good PROVE m + 1 \in Good
  <2>1. PICK r : SerialTo(g, r, m)
    BY <1>2
  <2>2. PICK h : h = [k \in 0 .. m + 1 |-> IF k = 0 THEN Start ELSE TrackingStep(g, r[k - 1])]
    OBVIOUS
  <2>3. \A k \in 0 .. m : h[k] = r[k]
    <3>1. \A k \in 0 .. m : r[k] = IF k = 0 THEN Start ELSE TrackingStep(g, r[k - 1])
      BY <2>1 DEF SerialTo
    <3>2. \A k \in 0 .. m : k \in 0 .. m + 1
      OBVIOUS
    <3> QED
      BY <2>2, <3>1, <3>2
  <2>4. \A k \in 0 .. m + 1 : k # 0 => k - 1 \in 0 .. m
    OBVIOUS
  <2>5. \A k \in 0 .. m + 1 : h[k] = IF k = 0 THEN Start ELSE TrackingStep(g, h[k - 1])
    BY <2>2, <2>3, <2>4
  <2>6. SerialTo(g, h, m + 1)
    BY <2>2, <2>5 DEF SerialTo
  <2> QED
    BY <2>6
<1> HIDE DEF Good
<1>3. N - 1 \in Good
  <2>1. Nat \subseteq Good
    BY <1>1, <1>2, NatSetInd
  <2>2. N - 1 \in Nat
    BY NAssumption
  <2> QED
    BY <2>1, <2>2
<1> QED
  BY <1>3 DEF Good, Run

(* What the workers have to follow. *)
GoodRun(g, r) ==
  /\ r[0] = Start
  /\ \A k \in 0 .. N - 1 : r[k] \in State
  /\ \A k \in 0 .. N - 2 : IsStep(g, r[k], r[k + 1])

LEMMA StartTyped == Start \in State
<1>1. 0 \in Nodes
  BY NAssumption DEF Nodes
<1>2. Inf \in 0 .. Inf
  BY InfAssumption
<1>3. <<>> \in Seq(Nodes \X Nodes \X (0 .. Inf))
  OBVIOUS
<1> QED
  BY <1>1, <1>2, <1>3 DEF Start, State

LEMMA RunIsGood ==
  ASSUME NEW g \in Graphs
  PROVE  GoodRun(g, Run(g))
<1>1. PICK r : r = Run(g)
  OBVIOUS
<1>2. \A k \in 0 .. N - 1 : r[k] = IF k = 0 THEN Start ELSE TrackingStep(g, r[k - 1])
  BY <1>1, RunExists DEF SerialTo
<1>3. N \in Nat /\ N >= 1
  BY NAssumption
<1>4. r[0] = Start
  BY <1>2, <1>3
<1>5. \A k \in 0 .. N - 2 : r[k + 1] = TrackingStep(g, r[k])
  <2>1. \A k \in 0 .. N - 2 : k + 1 \in 0 .. N - 1 /\ k + 1 # 0 /\ (k + 1) - 1 = k
    BY <1>3
  <2> QED
    BY <2>1, <1>2
<1> DEFINE Good == {k \in Nat : k <= N - 1 => r[k] \in State}
<1>6. 0 \in Good
  BY <1>4, StartTyped
<1>7. ASSUME NEW k \in Nat, k \in Good PROVE k + 1 \in Good
  <2>1. ASSUME k + 1 <= N - 1 PROVE r[k + 1] \in State
    <3>1. k \in 0 .. N - 2 /\ k <= N - 1
      BY <2>1, <1>3
    <3>2. r[k] \in State
      BY <3>1, <1>7
    <3> QED
      BY <3>1, <3>2, <1>5, TrackingStepIs
  <2> QED
    BY <2>1
<1> HIDE DEF Good
<1>8. Nat \subseteq Good
  BY <1>6, <1>7, NatSetInd
<1>9. \A k \in 0 .. N - 1 : r[k] \in State
  <2>1. \A k \in 0 .. N - 1 : k \in Nat /\ k <= N - 1
    BY <1>3
  <2> QED
    BY <1>8, <2>1 DEF Good
<1>10. ASSUME NEW k \in 0 .. N - 2 PROVE IsStep(g, r[k], r[k + 1])
  <2>1. r[k] \in State
    BY <1>3, <1>9
  <2>2. r[k + 1] = TrackingStep(g, r[k])
    BY <1>5
  <2> QED
    BY <2>1, <2>2, TrackingStepIs
<1> QED
  BY <1>1, <1>4, <1>9, <1>10 DEF GoodRun

(* The edges only grow. *)
LEMMA EdgesArePrefixes ==
  ASSUME NEW g, NEW r, GoodRun(g, r)
  PROVE  \A k \in 0 .. N - 1 : /\ Len(r[k].edges) = k
                               /\ r[k].edges = SubSeq(r[N - 1].edges, 1, k)
<1> DEFINE E == Nodes \X Nodes \X (0 .. Inf)
<1>0. N \in Nat /\ N >= 1
  BY NAssumption
<1>1. \A k \in 0 .. N - 1 : r[k].edges \in Seq(E)
  BY DEF GoodRun, State
<1>2. \A k \in 0 .. N - 2 : \E e : r[k + 1].edges = Append(r[k].edges, e)
  BY DEF GoodRun, IsStep
<1> HIDE DEF E
<1> DEFINE Up == {k \in Nat : k <= N - 1 => Len(r[k].edges) = k}
           Down == {i \in Nat : i <= N - 1 =>
                      \A j \in 1 .. N - 1 - i : r[N - 1 - i].edges[j] = r[N - 1].edges[j]}
<1>3. Nat \subseteq Up
  <2>1. 0 \in Up
    BY DEF GoodRun, Start
  <2>2. ASSUME NEW k \in Nat, k \in Up PROVE k + 1 \in Up
    <3>1. ASSUME k + 1 <= N - 1 PROVE Len(r[k + 1].edges) = k + 1
      <4>1. k \in 0 .. N - 2 /\ k \in 0 .. N - 1 /\ k <= N - 1
        BY <3>1, <1>0
      <4>2. PICK e : r[k + 1].edges = Append(r[k].edges, e)
        BY <4>1, <1>2
      <4>3. r[k].edges \in Seq(E) /\ Len(r[k].edges) = k
        BY <4>1, <1>1, <2>2
      <4> QED
        BY <4>2, <4>3
    <3> QED
      BY <3>1
  <2> HIDE DEF Up
  <2> QED
    BY <2>1, <2>2, NatSetInd
<1>4. \A k \in 0 .. N - 1 : Len(r[k].edges) = k
  BY <1>0, <1>3
<1>5. Nat \subseteq Down
  <2>1. 0 \in Down
    <3>1. N - 1 - 0 = N - 1
      BY <1>0
    <3> QED
      BY <3>1
  <2>2. ASSUME NEW i \in Nat, i \in Down PROVE i + 1 \in Down
    <3>1. ASSUME i + 1 <= N - 1, NEW j \in 1 .. N - 1 - (i + 1)
          PROVE  r[N - 1 - (i + 1)].edges[j] = r[N - 1].edges[j]
      <4> DEFINE k == N - 1 - (i + 1)
      <4>1. k \in 0 .. N - 2 /\ k \in 0 .. N - 1 /\ k + 1 = N - 1 - i /\ i <= N - 1
        BY <3>1, <1>0
      <4>2. PICK e : r[k + 1].edges = Append(r[k].edges, e)
        BY <4>1, <1>2
      <4>3. r[k].edges \in Seq(E) /\ Len(r[k].edges) = k
        BY <4>1, <1>1, <1>4
      <4>4. j \in 1 .. k /\ j \in 1 .. N - 1 - i
        BY <4>1, <3>1
      <4>5. r[k + 1].edges[j] = r[N - 1].edges[j]
        BY <4>1, <4>4, <2>2
      <4> HIDE DEF k
      <4>6. r[k + 1].edges[j] = r[k].edges[j]
        BY <4>2, <4>3, <4>4
      <4> QED
        BY <4>5, <4>6 DEF k
    <3> QED
      BY <3>1
  <2> HIDE DEF Down
  <2> QED
    BY <2>1, <2>2, NatSetInd
<1>6. ASSUME NEW k \in 0 .. N - 1 PROVE r[k].edges = SubSeq(r[N - 1].edges, 1, k)
  <2>1. \A j \in 1 .. k : r[k].edges[j] = r[N - 1].edges[j]
    <3>1. N - 1 - k \in Nat /\ N - 1 - k <= N - 1 /\ N - 1 - (N - 1 - k) = k
      BY <1>0
    <3>2. N - 1 - k \in Down
      BY <3>1, <1>5
    <3> QED
      BY <3>1, <3>2
  <2>2. /\ r[k].edges \in Seq(E) /\ Len(r[k].edges) = k
        /\ r[N - 1].edges \in Seq(E) /\ Len(r[N - 1].edges) = N - 1
    BY <1>0, <1>1, <1>4
  <2>3. PICK a \in Seq(E) : a = r[k].edges
    BY <2>2
  <2>4. PICK b \in Seq(E) : b = r[N - 1].edges
    BY <2>2
  <2>5. SubSeq(b, 1, k) \in Seq(E) /\ Len(SubSeq(b, 1, k)) = k
        /\ \A j \in 1 .. k : SubSeq(b, 1, k)[j] = b[j]
    BY <2>2, <2>4, <1>0
  <2> QED
    BY <2>1, <2>2, <2>3, <2>4, <2>5
<1> QED
  BY <1>4, <1>6

----------------------------------------------------------------------------
(* The ranges of nodes *)

Below(m) == {j \in Nodes : j \div Chunk < m}

LEMMA ChunkPositive == Chunk \in Nat \ {0} /\ Count \in Nat \ {0}
BY DivCeilPositive, NAssumption, UnitsAssumption DEF Chunk, Count

LEMMA NodeInRange ==
  ASSUME NEW j \in Nodes
  PROVE  j \div Chunk \in Nat /\ j \div Chunk < Count
<1>1. PICK c \in Nat \ {0} : c = Chunk
  BY ChunkPositive
<1>2. j \in Nat /\ N \in Nat /\ j < N
  BY NAssumption DEF Nodes
<1>3. PICK q \in Int : q = j \div c
  BY <1>1, <1>2
<1>4. PICK p \in Nat \ {0} : p = (N + c - 1) \div c
  BY <1>1, <1>2, ChunkPositive DEF Count, DivCeil
<1>5. c * q <= j /\ j < c * q + c
  BY <1>2, <1>3, SMT
<1>6. c * p <= N + c - 1 /\ N + c - 1 < c * p + c
  BY <1>2, <1>4, SMT
<1>7. c * q < c * p
  BY <1>2, <1>5, <1>6, SMT
<1>8. q < p
  <2> SUFFICES ASSUME p <= q PROVE FALSE
    OBVIOUS
  <2>1. c * p <= c * q
    BY SMT
  <2> QED
    BY <1>7, <2>1, SMT
<1>9. q >= 0
  <2> SUFFICES ASSUME q + 1 <= 0 PROVE FALSE
    OBVIOUS
  <2>1. c * q + c <= 0
    BY SMT
  <2> QED
    BY <1>2, <1>5, <2>1, SMT
<1> QED
  BY <1>1, <1>3, <1>4, <1>8, <1>9 DEF Count, DivCeil

(* The workers' ranges, put together in order, are the nodes in order. *)
LEMMA RangesPartition ==
  /\ Below(0) = {}
  /\ Below(Count) = Nodes
  /\ \A u \in Workers : /\ Owned(u) \subseteq Nodes
                        /\ Below(u + 1) = Below(u) \cup Owned(u)
                        /\ \A a \in Below(u), b \in Owned(u) : a < b
<1>1. \A j \in Nodes : j \div Chunk \in Nat /\ j \div Chunk < Count
  BY NodeInRange
<1>2. Below(0) = {} /\ Below(Count) = Nodes
  BY <1>1 DEF Below
<1>3. ASSUME NEW u \in Workers
      PROVE  /\ Owned(u) \subseteq Nodes
             /\ Below(u + 1) = Below(u) \cup Owned(u)
             /\ \A a \in Below(u), b \in Owned(u) : a < b
  <2>0. u \in Nat
    BY ChunkPositive DEF Workers
  <2>1. Owned(u) \subseteq Nodes
    BY DEF Owned
  <2>2. Below(u + 1) = Below(u) \cup Owned(u)
    <3>1. \A j \in Nodes : j \div Chunk < u + 1 <=> (j \div Chunk < u \/ j \div Chunk = u)
      BY <1>1, <2>0
    <3> QED
      BY <3>1 DEF Below, Owned
  <2>3. ASSUME NEW a \in Below(u), NEW b \in Owned(u) PROVE a < b
    <3>1. PICK c \in Nat \ {0} : c = Chunk
      BY ChunkPositive
    <3>2. a \in Nat /\ b \in Nat
      BY NodesAreNaturals DEF Below, Owned
    <3>3. PICK p \in Int : p = a \div c
      BY <3>1, <3>2
    <3>4. p < u /\ u = b \div c
      BY <3>1, <3>3 DEF Below, Owned
    <3>5. a < c * p + c
      BY <3>2, <3>3, SMT
    <3>6. c * u <= b
      BY <3>2, <3>4, <2>0, SMT
    <3>7. c * p + c <= c * u
      <4>1. p + 1 <= u
        BY <3>4, <2>0
      <4>2. c * (p + 1) <= c * u
        BY <4>1, <2>0, SMT
      <4>3. c * (p + 1) = c * p + c
        BY SMT
      <4> QED
        BY <4>2, <4>3
    <3> QED
      BY <3>2, <3>5, <3>6, <3>7, <2>0, SMT
  <2> QED
    BY <2>1, <2>2, <2>3
<1> QED
  BY <1>2, <1>3

LEMMA OwnersDiffer ==
  ASSUME NEW w \in Workers, NEW u \in Workers, u # w, NEW j \in Owned(u)
  PROVE  j \notin Owned(w)
BY DEF Owned

----------------------------------------------------------------------------
(* The workers follow the serial run *)

Local(r, k, w) == Found(r[k].cur, r[k + 1], Owned(w))

(* How far the serial run had scanned when it looked as w's range does. *)
Scanned(w) == IF pc[w] \in {"scan", "done"} THEN step[w] ELSE step[w] + 1

DataTyped ==
  /\ cur \in [Workers -> Nodes]
  /\ best \in [Workers -> Records]
  /\ next \in [Workers -> 0 .. Count]
  /\ slots \in [{0, 1} -> [Workers -> Records]]

StepsInRange ==
  \A w \in Workers : IF pc[w] = "done" THEN step[w] = N - 1 ELSE step[w] + 2 <= N

CurFollows(r) == \A w \in Workers : cur[w] = r[step[w]].cur

(* Between the scan and the store a worker holds what it found in its own   *)
(* range; between two reads, what there is in the ranges read.              *)
BestFollows(r) ==
  \A w \in Workers :
    /\ pc[w] = "store" => best[w] = Local(r, step[w], w)
    /\ pc[w] = "reduce" =>
         best[w] = Found(r[step[w]].cur, r[step[w] + 1], Below(next[w]))

(* The slot of this step, once stored, and the slot of the step before. *)
SlotsFollow(r) ==
  \A w \in Workers :
    /\ pc[w] \in {"arrive", "wait", "reduce"} =>
         slots[step[w] % 2][w] = Local(r, step[w], w)
    /\ step[w] > 0 => slots[(step[w] - 1) % 2][w] = Local(r, step[w] - 1, w)

EdgesFollow(r) == edges = r[step[0]].edges

PartsFollow(r) ==
  \A w \in Workers : \A j \in Owned(w) :
    /\ reach[j] = r[Scanned(w)].reach[j]
    /\ source[j] = r[Scanned(w)].source[j]
    /\ tree[j] <=> j \in r[Scanned(w)].tree

Follows(r) ==
  /\ DataTyped /\ StepsInRange
  /\ CurFollows(r) /\ BestFollows(r) /\ SlotsFollow(r) /\ EdgesFollow(r) /\ PartsFollow(r)

(* At the start every worker and every node is where the serial run is. *)
LEMMA InitFollows ==
  ASSUME Init, NEW r, GoodRun(graph, r)
  PROVE  Follows(r)
<1>0. N \in Nat /\ N >= 1 /\ 0 \in Nodes /\ 0 \in Workers /\ 0 \in 0 .. Count
  BY NAssumption, ChunkPositive DEF Nodes, Workers
<1>1. Nothing(0) \in Records
  BY <1>0, InfAssumption DEF Nothing, Records
<1>2. DataTyped
  BY <1>0, <1>1 DEF Init, DataTyped
<1>3. StepsInRange
  <2>1. ASSUME NEW w \in Workers PROVE IF pc[w] = "done" THEN step[w] = N - 1 ELSE step[w] + 2 <= N
    <3>1. step[w] = 0 /\ pc[w] = IF N = 1 THEN "done" ELSE "scan"
      BY DEF Init
    <3> QED
      BY <3>1, <1>0
  <2> QED
    BY <2>1 DEF StepsInRange
<1>4. \A w \in Workers : pc[w] \in {"scan", "done"} /\ step[w] = 0 /\ cur[w] = 0
  BY DEF Init
<1>5. r[0] = Start
  BY DEF GoodRun
<1>6. CurFollows(r) /\ BestFollows(r) /\ SlotsFollow(r)
  BY <1>4, <1>5 DEF CurFollows, BestFollows, SlotsFollow, Start
<1>7. EdgesFollow(r)
  BY <1>0, <1>4, <1>5 DEF Init, EdgesFollow, Start
<1>8. PartsFollow(r)
  <2>1. ASSUME NEW w \in Workers, NEW j \in Owned(w)
        PROVE  /\ reach[j] = r[Scanned(w)].reach[j]
               /\ source[j] = r[Scanned(w)].source[j]
               /\ tree[j] <=> j \in r[Scanned(w)].tree
    <3>1. Scanned(w) = 0 /\ j \in Nodes
      BY <1>4 DEF Scanned, Owned
    <3> QED
      BY <3>1, <1>5 DEF Init, Start
  <2> QED
    BY <2>1 DEF PartsFollow
<1> QED
  BY <1>2, <1>3, <1>6, <1>7, <1>8 DEF Follows

(* Giving a distance up as too large does not change what it is compared to. *)
LEMMA ScreeningIsHarmless ==
  ASSUME NEW b \in Nat, NEW d \in Nat, NEW m \in 0 .. Inf, NEW x, x = IF d > m THEN Inf ELSE d
  PROVE  /\ (b < m /\ Larger(x, b) < m) <=> Larger(b, d) < m
         /\ Larger(b, d) < m => Larger(x, b) = Larger(b, d)
BY InfAssumption DEF Larger

LEMMA ScanFollows ==
  ASSUME NEW r, GoodRun(graph, r), graph \in Graphs, PlacesTyped, Follows(r),
         NEW w \in Workers, Scan(w)
  PROVE  Follows(r)'
<1> DEFINE k == step[w]
           s == r[k]
           t == r[k + 1]
<1>0. /\ pc \in [Workers -> {"scan", "store", "arrive", "wait", "reduce", "done"}]
      /\ step \in [Workers -> Nat] /\ k \in Nat /\ N \in Nat
  BY NAssumption DEF PlacesTyped
<1>1. pc[w] = "scan" /\ pc' = [pc EXCEPT ![w] = "store"] /\ UNCHANGED <<graph, step, cur, next, slots, edges>>
  BY DEF Scan, Goto
<1>2. k + 2 <= N
  BY <1>1 DEF Follows, StepsInRange
<1>3. k \in 0 .. N - 1 /\ k + 1 \in 0 .. N - 1 /\ k \in 0 .. N - 2
  BY <1>0, <1>2
<1>4. s \in State /\ t \in State /\ IsStep(graph, s, t)
  BY <1>3 DEF GoodRun
<1>5. cur[w] = s.cur /\ s.cur \in Nodes
  BY <1>4 DEF Follows, CurFollows, State
<1>6. \A j \in Owned(w) : /\ j \in Nodes /\ reach[j] = s.reach[j] /\ source[j] = s.source[j]
                          /\ tree[j] <=> j \in s.tree
  <2>1. Scanned(w) = k
    BY <1>1 DEF Scanned
  <2> QED
    BY <2>1 DEF Follows, PartsFollow, Owned
<1>7. \A j \in Nodes : tree'[j] <=> (tree[j] \/ (j \in Owned(w) /\ j = cur[w]))
  BY DEF Scan
<1>8. \A j \in Owned(w) : tree'[j] <=> j \in t.tree
  <2>1. t.tree = s.tree \cup {s.cur}
    BY <1>4 DEF IsStep, Joined
  <2> QED
    BY <2>1, <1>5, <1>6, <1>7
<1>9. \A j \in Nodes \ Owned(w) : tree'[j] <=> tree[j]
  BY <1>7
<1> DEFINE open == {j \in Owned(w) : ~tree'[j]}
           better == {j \in open : Improves(w, j)}
<1>10. /\ reach' = [j \in Nodes |-> IF j \in better THEN Larger(Screened(w, j), Base(w, j)) ELSE reach[j]]
       /\ source' = [j \in Nodes |-> IF j \in better THEN cur[w] ELSE source[j]]
       /\ best' = [best EXCEPT ![w] =
            IF {j \in open : reach'[j] < Inf} = {} THEN Nothing(cur[w])
            ELSE [reach |-> reach'[FirstMin({j \in open : reach'[j] < Inf}, reach')],
                  source |-> source'[FirstMin({j \in open : reach'[j] < Inf}, reach')],
                  node |-> FirstMin({j \in open : reach'[j] < Inf}, reach')]]
  BY DEF Scan
<1>11. ASSUME NEW j \in Owned(w)
       PROVE  /\ j \in better <=> Closer(graph, s, j)
              /\ j \in better => Larger(Screened(w, j), Base(w, j)) = MutualReach(graph, s.cur, j)
  <2>1. j \in open <=> j \notin Joined(s)
    BY <1>4, <1>8 DEF IsStep
  <2>2. PICK b \in Nat : b = Base(w, j)
    <3>1. graph.core[cur[w]] \in Nat /\ graph.core[j] \in Nat
      BY <1>5, <1>6, GraphsAssumption
    <3> QED
      BY <3>1, LargerTyped DEF Base
  <2>3. PICK d \in Nat : d = graph.dist[<<s.cur, j>>]
    BY <1>5, <1>6, GraphsAssumption
  <2>4. PICK m \in 0 .. Inf : m = reach[j]
    BY <1>4, <1>6 DEF State
  <2>5. Screened(w, j) = IF d > m THEN Inf ELSE d
    BY <1>5, <2>3, <2>4 DEF Screened
  <2>6. MutualReach(graph, s.cur, j) = Larger(b, d)
    BY <1>5, <2>2, <2>3 DEF MutualReach, Base
  <2>7. Improves(w, j) <=> b < m /\ Larger(Screened(w, j), b) < m
    BY <2>2, <2>4 DEF Improves
  <2>8. Closer(graph, s, j) <=> j \notin Joined(s) /\ Larger(b, d) < m
    BY <1>6, <2>4, <2>6 DEF Closer
  <2>9. /\ (b < m /\ Larger(Screened(w, j), b) < m) <=> Larger(b, d) < m
        /\ Larger(b, d) < m => Larger(Screened(w, j), b) = Larger(b, d)
    BY <2>5, ScreeningIsHarmless
  <2>10. j \in better <=> j \in open /\ Improves(w, j)
    OBVIOUS
  <2> HIDE DEF better, open
  <2>11. j \in better <=> Closer(graph, s, j)
    BY <2>1, <2>7, <2>8, <2>9, <2>10
  <2>12. j \in better => Larger(Screened(w, j), Base(w, j)) = MutualReach(graph, s.cur, j)
    BY <2>2, <2>6, <2>7, <2>9, <2>10
  <2> QED
    BY <2>11, <2>12
<1> HIDE DEF better
<1>12. \A j \in Owned(w) : reach'[j] = t.reach[j] /\ source'[j] = t.source[j]
  <2>1. t.reach = Reached(graph, s) /\ t.source = Sources(graph, s)
    BY <1>4 DEF IsStep
  <2>2. ASSUME NEW j \in Owned(w) PROVE reach'[j] = t.reach[j]
    BY <2>1, <1>6, <1>10, <1>11 DEF Reached
  <2>3. ASSUME NEW j \in Owned(w) PROVE source'[j] = t.source[j]
    BY <2>1, <1>5, <1>6, <1>10, <1>11 DEF Sources
  <2> QED
    BY <2>2, <2>3
<1>13. \A j \in Nodes \ Owned(w) : reach'[j] = reach[j] /\ source'[j] = source[j]
  <2>1. better \subseteq Owned(w)
    BY DEF better
  <2> QED
    BY <2>1, <1>10
<1>14. best'[w] = Local(r, k, w) /\ \A u \in Workers : u # w => best'[u] = best[u]
  <2> DEFINE F == {j \in open : reach'[j] < Inf}
  <2>1. F = Finite(t, Owned(w))
    BY <1>8, <1>12 DEF Finite
  <2>2. \A u \in Workers : u # w => best'[u] = best[u]
    BY <1>10 DEF Follows, DataTyped
  <2>3. w \in DOMAIN best
    BY DEF Follows, DataTyped
  <2>4. CASE F = {}
    <3>1. best'[w] = Nothing(cur[w])
      BY <1>10, <2>3, <2>4
    <3>2. Local(r, k, w) = Nothing(s.cur)
      BY <2>1, <2>4 DEF Local, Found
    <3> QED
      BY <3>1, <3>2, <2>2, <1>5
  <2>5. CASE F # {}
    <3> DEFINE i == FirstMin(F, reach')
               j == FirstMin(Finite(t, Owned(w)), t.reach)
    <3>1. best'[w] = [reach |-> reach'[i], source |-> source'[i], node |-> i]
      BY <1>10, <2>3, <2>5
    <3>2. Local(r, k, w) = [reach |-> t.reach[j], source |-> t.source[j], node |-> j]
      BY <2>1, <2>5 DEF Local, Found
    <3>3. /\ F \in SUBSET Nat /\ F \subseteq Owned(w)
          /\ \A l \in F : t.reach[l] \in Nat /\ reach'[l] = t.reach[l]
      <4>1. \A l \in Nodes : t.reach[l] \in Nat
        BY <1>4, InfAssumption DEF State
      <4> QED
        BY <4>1, <1>6, <1>12, NodesAreNaturals
    <3> HIDE DEF F
    <3>4. IsFirstMin(F, reach', i) /\ IsFirstMin(F, t.reach, j)
      BY <3>3, <2>1, <2>5, FirstMinIs
    <3>5. i = j
      BY <3>3, <3>4, FirstMinUnique
    <3>6. j \in Owned(w)
      BY <3>3, <3>4 DEF IsFirstMin
    <3> QED
      BY <3>1, <3>2, <3>5, <3>6, <1>12, <2>2
  <2> QED
    BY <2>4, <2>5
<1>15. Local(r, k, w) \in Records
  <2>1. Owned(w) \in SUBSET Nodes
    BY DEF Owned
  <2> QED
    BY <2>1, <1>4, <1>5, FoundTyped DEF Local
<1>16. DataTyped'
  <2>1. best' \in [Workers -> Records]
    <3>1. \A u \in Workers : best'[u] \in Records
      BY <1>14, <1>15 DEF Follows, DataTyped
    <3>2. best' = [best EXCEPT ![w] = best'[w]] /\ best \in [Workers -> Records]
      BY <1>10 DEF Follows, DataTyped
    <3> QED
      BY <3>1, <3>2
  <2> QED
    BY <2>1, <1>1 DEF Follows, DataTyped
<1>17. StepsInRange'
  BY <1>0, <1>1 DEF Follows, StepsInRange
<1>18. CurFollows(r)'
  BY <1>1 DEF Follows, CurFollows
<1>19. BestFollows(r)'
  BY <1>0, <1>1, <1>14 DEF Follows, BestFollows
<1>20. SlotsFollow(r)'
  BY <1>0, <1>1 DEF Follows, SlotsFollow
<1>21. EdgesFollow(r)'
  BY <1>1 DEF Follows, EdgesFollow
<1>22. PartsFollow(r)'
  <2>1. ASSUME NEW u \in Workers, NEW j \in Owned(u)
        PROVE  /\ reach'[j] = r[Scanned(u)'].reach[j]
               /\ source'[j] = r[Scanned(u)'].source[j]
               /\ tree'[j] <=> j \in r[Scanned(u)'].tree
    <3>1. CASE u = w
      <4>1. Scanned(u)' = k + 1
        BY <3>1, <1>0, <1>1 DEF Scanned
      <4> QED
        BY <4>1, <3>1, <1>8, <1>12
    <3>2. CASE u # w
      <4>1. Scanned(u)' = Scanned(u)
        BY <3>2, <1>0, <1>1 DEF Scanned
      <4>2. j \in Nodes \ Owned(w)
        BY <3>2, OwnersDiffer DEF Owned
      <4>3. /\ reach[j] = r[Scanned(u)].reach[j]
            /\ source[j] = r[Scanned(u)].source[j]
            /\ tree[j] <=> j \in r[Scanned(u)].tree
        BY DEF Follows, PartsFollow
      <4> QED
        BY <4>1, <4>2, <4>3, <1>9, <1>13
    <3> QED
      BY <3>1, <3>2
  <2> QED
    BY <2>1 DEF PartsFollow
<1> QED
  BY <1>16, <1>17, <1>18, <1>19, <1>20, <1>21, <1>22 DEF Follows

LEMMA StoreFollows ==
  ASSUME NEW r, GoodRun(graph, r), PlacesTyped, Follows(r), NEW w \in Workers, Store(w)
  PROVE  Follows(r)'
<1> DEFINE k == step[w]
<1>0. /\ pc \in [Workers -> {"scan", "store", "arrive", "wait", "reduce", "done"}]
      /\ step \in [Workers -> Nat] /\ k \in Nat /\ N \in Nat
  BY NAssumption DEF PlacesTyped
<1>1. /\ pc[w] = "store" /\ pc' = [pc EXCEPT ![w] = "arrive"]
      /\ slots' = [slots EXCEPT ![k % 2][w] = best[w]]
      /\ UNCHANGED <<graph, tree, reach, source, step, cur, best, next, edges>>
  BY DEF Store, Goto, Buffer, data
<1>2. best[w] = Local(r, k, w)
  BY <1>1 DEF Follows, BestFollows
<1>3. k % 2 \in {0, 1} /\ (k > 0 => (k - 1) % 2 \in {0, 1} /\ (k - 1) % 2 # k % 2)
  BY <1>0
<1>4. slots \in [{0, 1} -> [Workers -> Records]] /\ best[w] \in Records
  BY DEF Follows, DataTyped
<1>5. DataTyped'
  BY <1>1, <1>3, <1>4 DEF Follows, DataTyped
<1>6. StepsInRange'
  BY <1>0, <1>1 DEF Follows, StepsInRange
<1>7. CurFollows(r)'
  BY <1>1 DEF Follows, CurFollows
<1>8. BestFollows(r)'
  BY <1>0, <1>1 DEF Follows, BestFollows
<1>9. /\ slots'[k % 2][w] = best[w]
      /\ \A buf \in {0, 1} : buf # k % 2 => slots'[buf] = slots[buf]
      /\ \A buf \in {0, 1}, u \in Workers : u # w => slots'[buf][u] = slots[buf][u]
  BY <1>1, <1>3, <1>4
<1>10. SlotsFollow(r)'
  <2>1. ASSUME NEW u \in Workers
        PROVE  /\ pc'[u] \in {"arrive", "wait", "reduce"} =>
                    slots'[step[u] % 2][u] = Local(r, step[u], u)
               /\ step[u] > 0 => slots'[(step[u] - 1) % 2][u] = Local(r, step[u] - 1, u)
    <3>1. CASE u = w
      <4>1. k > 0 => slots'[(k - 1) % 2][w] = slots[(k - 1) % 2][w]
        BY <1>3, <1>9
      <4>2. k > 0 => slots[(k - 1) % 2][w] = Local(r, k - 1, w)
        BY DEF Follows, SlotsFollow
      <4> QED
        BY <3>1, <4>1, <4>2, <1>2, <1>9
    <3>2. CASE u # w
      <4>1. pc'[u] = pc[u]
        BY <3>2, <1>0, <1>1
      <4>2. step[u] \in Nat /\ step[u] % 2 \in {0, 1} /\ (step[u] > 0 => (step[u] - 1) % 2 \in {0, 1})
        BY <1>0
      <4>3. /\ slots'[step[u] % 2][u] = slots[step[u] % 2][u]
            /\ step[u] > 0 => slots'[(step[u] - 1) % 2][u] = slots[(step[u] - 1) % 2][u]
        BY <3>2, <4>2, <1>9
      <4> QED
        BY <4>1, <4>3 DEF Follows, SlotsFollow
    <3> QED
      BY <3>1, <3>2
  <2> QED
    BY <2>1, <1>1 DEF SlotsFollow
<1>11. EdgesFollow(r)'
  BY <1>1 DEF Follows, EdgesFollow
<1>12. PartsFollow(r)'
  <2>1. \A u \in Workers : Scanned(u)' = Scanned(u)
    BY <1>0, <1>1 DEF Scanned
  <2> QED
    BY <2>1, <1>1 DEF Follows, PartsFollow
<1> QED
  BY <1>5, <1>6, <1>7, <1>8, <1>10, <1>11, <1>12 DEF Follows

(* Entering the barrier's call, and being in it. *)
LEMMA WaitFollows ==
  ASSUME NEW r, PlacesTyped, Follows(r), NEW w \in Workers, Arrive(w) \/ Wait(w)
  PROVE  Follows(r)'
<1>0. /\ pc \in [Workers -> {"scan", "store", "arrive", "wait", "reduce", "done"}]
      /\ step \in [Workers -> Nat]
  BY DEF PlacesTyped
<1>1. UNCHANGED <<graph, tree, reach, source, step, cur, best, next, slots, edges>>
  BY DEF Arrive, Wait, data
<1>2. \A u \in Workers : \/ pc'[u] = pc[u]
                         \/ pc[u] = "arrive" /\ pc'[u] = "wait"
  <2>1. CASE Arrive(w)
    BY <2>1, <1>0 DEF Arrive, Goto
  <2>2. CASE Wait(w)
    BY <2>2 DEF Wait
  <2> QED
    BY <2>1, <2>2
<1>3. DataTyped' /\ CurFollows(r)' /\ EdgesFollow(r)'
  BY <1>1 DEF Follows, DataTyped, CurFollows, EdgesFollow
<1>4. StepsInRange'
  BY <1>1, <1>2 DEF Follows, StepsInRange
<1>5. BestFollows(r)'
  BY <1>1, <1>2 DEF Follows, BestFollows
<1>6. SlotsFollow(r)'
  BY <1>1, <1>2 DEF Follows, SlotsFollow
<1>7. PartsFollow(r)'
  <2>1. \A u \in Workers : Scanned(u)' = Scanned(u)
    BY <1>1, <1>2 DEF Scanned
  <2> QED
    BY <2>1, <1>1 DEF Follows, PartsFollow
<1> QED
  BY <1>3, <1>4, <1>5, <1>6, <1>7 DEF Follows

LEMMA LeaveFollows ==
  ASSUME NEW r, GoodRun(graph, r), PlacesTyped, Follows(r), NEW w \in Workers, Leave(w)
  PROVE  Follows(r)'
<1> DEFINE k == step[w]
<1>0. /\ pc \in [Workers -> {"scan", "store", "arrive", "wait", "reduce", "done"}]
      /\ step \in [Workers -> Nat]
      /\ best \in [Workers -> Records] /\ next \in [Workers -> 0 .. Count]
      /\ cur \in [Workers -> Nodes]
  BY DEF PlacesTyped, Follows, DataTyped
<1>1. /\ pc[w] = "wait" /\ pc' = [pc EXCEPT ![w] = "reduce"]
      /\ best' = [best EXCEPT ![w] = Nothing(cur[w])]
      /\ next' = [next EXCEPT ![w] = 0]
      /\ UNCHANGED <<graph, tree, reach, source, step, cur, slots, edges>>
  BY DEF Leave, Goto, data
<1>2. Nothing(cur[w]) \in Records /\ 0 \in 0 .. Count
  BY <1>0, InfAssumption, ChunkPositive DEF Nothing, Records
<1>3. DataTyped'
  BY <1>0, <1>1, <1>2 DEF Follows, DataTyped
<1>4. StepsInRange'
  BY <1>0, <1>1 DEF Follows, StepsInRange
<1>5. CurFollows(r)' /\ EdgesFollow(r)'
  BY <1>1 DEF Follows, CurFollows, EdgesFollow
<1>6. BestFollows(r)'
  <2>1. ASSUME NEW u \in Workers
        PROVE  /\ pc'[u] = "store" => best'[u] = Local(r, step[u], u)
               /\ pc'[u] = "reduce" =>
                    best'[u] = Found(r[step[u]].cur, r[step[u] + 1], Below(next'[u]))
    <3>1. CASE u = w
      <4>1. Found(r[k].cur, r[k + 1], Below(0)) = Nothing(r[k].cur)
        BY RangesPartition DEF Found, Finite
      <4>2. cur[w] = r[k].cur
        BY DEF Follows, CurFollows
      <4> QED
        BY <3>1, <4>1, <4>2, <1>0, <1>1
    <3>2. CASE u # w
      BY <3>2, <1>0, <1>1 DEF Follows, BestFollows
    <3> QED
      BY <3>1, <3>2
  <2> QED
    BY <2>1, <1>1 DEF BestFollows
<1>7. SlotsFollow(r)'
  BY <1>0, <1>1 DEF Follows, SlotsFollow
<1>8. PartsFollow(r)'
  <2>1. \A u \in Workers : Scanned(u)' = Scanned(u)
    BY <1>0, <1>1 DEF Scanned
  <2> QED
    BY <2>1, <1>1 DEF Follows, PartsFollow
<1> QED
  BY <1>3, <1>4, <1>5, <1>6, <1>7, <1>8 DEF Follows

(* Whatever slot a worker reads after the barrier is of its own step,       *)
(* whether the slot's owner is still in that step or already in the next.   *)
LEMMA SlotIsOfThisStep ==
  ASSUME NEW r, IInv, Follows(r), NEW w \in Workers, pc[w] = "reduce", NEW u \in Workers
  PROVE  slots[step[w] % 2][u] = Local(r, step[w], u)
<1>1. step[w] \in Nat /\ step[u] \in Nat
  BY DEF IInv, PlacesTyped
<1>2. Passed(u) = step[w] + 1
  BY DEF IInv, InStep, Passed, Freed
<1>3. CASE Freed(u)
  <2>1. step[u] = step[w] /\ pc[u] \in {"wait", "reduce"}
    BY <1>1, <1>2, <1>3 DEF Passed, Freed
  <2> QED
    BY <2>1 DEF Follows, SlotsFollow
<1>4. CASE ~Freed(u)
  <2>1. step[u] > 0 /\ step[u] - 1 = step[w]
    BY <1>1, <1>2, <1>4 DEF Passed
  <2> QED
    BY <2>1 DEF Follows, SlotsFollow
<1> QED
  BY <1>3, <1>4

LEMMA ReadSlotFollows ==
  ASSUME NEW r, GoodRun(graph, r), IInv, Follows(r), NEW w \in Workers, ReadSlot(w)
  PROVE  Follows(r)'
<1> DEFINE k == step[w]
           m == next[w]
           slot == slots[k % 2][m]
<1>0. /\ pc \in [Workers -> {"scan", "store", "arrive", "wait", "reduce", "done"}]
      /\ step \in [Workers -> Nat] /\ k \in Nat /\ N \in Nat
      /\ best \in [Workers -> Records] /\ next \in [Workers -> 0 .. Count]
  BY NAssumption DEF IInv, PlacesTyped, Follows, DataTyped
<1>1. /\ pc[w] = "reduce" /\ m < Count
      /\ best' = [best EXCEPT ![w] = IF slot.reach < best[w].reach THEN slot ELSE best[w]]
      /\ next' = [next EXCEPT ![w] = m + 1]
      /\ UNCHANGED <<graph, tree, reach, source, pc, step, cur, slots, edges>>
  BY DEF ReadSlot, Buffer, data
<1>2. m \in Workers /\ m + 1 \in 0 .. Count
  <2>1. m \in Nat /\ m < Count /\ Count \in Nat
    BY <1>0, <1>1, ChunkPositive
  <2> QED
    BY <2>1 DEF Workers
<1>3. slot = Local(r, k, m)
  BY <1>1, <1>2, SlotIsOfThisStep
<1>4. k + 2 <= N
  BY <1>1 DEF Follows, StepsInRange
<1>5. r[k] \in State /\ r[k + 1] \in State
  <2>1. k \in 0 .. N - 1 /\ k + 1 \in 0 .. N - 1
    BY <1>0, <1>4
  <2> QED
    BY <2>1 DEF GoodRun
<1>6. r[k].cur \in Nodes
  BY <1>5 DEF State
<1>7. best[w] = Found(r[k].cur, r[k + 1], Below(m))
  BY <1>1 DEF Follows, BestFollows
<1>8. /\ Below(m) \in SUBSET Nodes /\ Owned(m) \in SUBSET Nodes
      /\ Below(m + 1) = Below(m) \cup Owned(m)
      /\ \A a \in Below(m), b \in Owned(m) : a < b
  BY <1>2, RangesPartition DEF Below
<1>9. Found(r[k].cur, r[k + 1], Below(m + 1)) = IF slot.reach < best[w].reach THEN slot ELSE best[w]
  <2>1. Found(r[k].cur, r[k + 1], Below(m) \cup Owned(m)) =
          IF Found(r[k].cur, r[k + 1], Owned(m)).reach < Found(r[k].cur, r[k + 1], Below(m)).reach
          THEN Found(r[k].cur, r[k + 1], Owned(m)) ELSE Found(r[k].cur, r[k + 1], Below(m))
    BY <1>5, <1>6, <1>8, FoundMerges
  <2> QED
    BY <2>1, <1>3, <1>7, <1>8 DEF Local
<1>10. best'[w] = Found(r[k].cur, r[k + 1], Below(m + 1)) /\ next'[w] = m + 1
  BY <1>0, <1>1, <1>9
<1>11. DataTyped'
  <2>1. slot \in Records
    BY <1>3, <1>5, <1>6, <1>8, FoundTyped DEF Local
  <2>2. best' \in [Workers -> Records] /\ next' \in [Workers -> 0 .. Count]
    BY <2>1, <1>0, <1>1, <1>2
  <2> QED
    BY <2>2, <1>1 DEF Follows, DataTyped
<1>12. StepsInRange' /\ CurFollows(r)' /\ EdgesFollow(r)' /\ SlotsFollow(r)'
  BY <1>1 DEF Follows, StepsInRange, CurFollows, EdgesFollow, SlotsFollow
<1>13. BestFollows(r)'
  <2>1. ASSUME NEW u \in Workers
        PROVE  /\ pc[u] = "store" => best'[u] = Local(r, step[u], u)
               /\ pc[u] = "reduce" =>
                    best'[u] = Found(r[step[u]].cur, r[step[u] + 1], Below(next'[u]))
    <3>1. CASE u = w
      BY <3>1, <1>1, <1>10
    <3>2. CASE u # w
      <4>1. best'[u] = best[u] /\ next'[u] = next[u]
        BY <3>2, <1>0, <1>1
      <4> QED
        BY <4>1 DEF Follows, BestFollows
    <3> QED
      BY <3>1, <3>2
  <2> QED
    BY <2>1, <1>1 DEF BestFollows
<1>14. PartsFollow(r)'
  <2>1. \A u \in Workers : Scanned(u)' = Scanned(u)
    BY <1>1 DEF Scanned
  <2> QED
    BY <2>1, <1>1 DEF Follows, PartsFollow
<1> QED
  BY <1>11, <1>12, <1>13, <1>14 DEF Follows

LEMMA NextStepFollows ==
  ASSUME NEW r, GoodRun(graph, r), PlacesTyped, Follows(r), NEW w \in Workers, NextStep(w)
  PROVE  Follows(r)'
<1> DEFINE k == step[w]
           f == Found(r[k].cur, r[k + 1], Nodes)
<1>0. /\ pc \in [Workers -> {"scan", "store", "arrive", "wait", "reduce", "done"}]
      /\ step \in [Workers -> Nat] /\ k \in Nat /\ N \in Nat
      /\ cur \in [Workers -> Nodes]
  BY NAssumption DEF PlacesTyped, Follows, DataTyped
<1>1. /\ next[w] = Count /\ pc[w] = "reduce"
      /\ pc' = [pc EXCEPT ![w] = IF k = N - 2 THEN "done" ELSE "scan"]
      /\ edges' = IF w = 0
                  THEN Append(edges, <<best[w].source, best[w].node, best[w].reach>>)
                  ELSE edges
      /\ cur' = [cur EXCEPT ![w] = best[w].node]
      /\ step' = [step EXCEPT ![w] = k + 1]
      /\ UNCHANGED <<graph, tree, reach, source, best, next, slots>>
  BY DEF NextStep, Goto, data
<1>2. k + 2 <= N
  BY <1>1 DEF Follows, StepsInRange
<1>3. r[k] \in State /\ r[k + 1] \in State /\ IsStep(graph, r[k], r[k + 1])
  <2>1. k \in 0 .. N - 1 /\ k + 1 \in 0 .. N - 1 /\ k \in 0 .. N - 2
    BY <1>0, <1>2
  <2> QED
    BY <2>1 DEF GoodRun
<1>4. best[w] = f
  BY <1>1, RangesPartition DEF Follows, BestFollows
<1>5. /\ r[k + 1].cur = f.node
      /\ r[k + 1].edges = Append(r[k].edges, <<f.source, f.node, f.reach>>)
  BY <1>3 DEF IsStep
<1>6. f.node \in Nodes
  <2>1. r[k].cur \in Nodes
    BY <1>3 DEF State
  <2>2. f \in Records
    BY <2>1, <1>3, FoundTyped
  <2> QED
    BY <2>2 DEF Records
<1>7. step'[w] = k + 1 /\ \A u \in Workers : u # w => step'[u] = step[u] /\ pc'[u] = pc[u] /\ cur'[u] = cur[u]
  BY <1>0, <1>1
<1>8. DataTyped'
  BY <1>0, <1>1, <1>4, <1>6 DEF Follows, DataTyped
<1>9. StepsInRange'
  <2>1. ASSUME NEW u \in Workers
        PROVE  IF pc'[u] = "done" THEN step'[u] = N - 1 ELSE step'[u] + 2 <= N
    <3>1. CASE u = w
      <4>1. pc'[w] = IF k = N - 2 THEN "done" ELSE "scan"
        BY <1>0, <1>1
      <4>2. CASE k = N - 2
        BY <3>1, <4>1, <4>2, <1>0, <1>7
      <4>3. CASE k # N - 2
        BY <3>1, <4>1, <4>3, <1>0, <1>2, <1>7
      <4> QED
        BY <4>2, <4>3
    <3>2. CASE u # w
      BY <3>2, <1>7 DEF Follows, StepsInRange
    <3> QED
      BY <3>1, <3>2
  <2> QED
    BY <2>1 DEF StepsInRange
<1>10. CurFollows(r)'
  <2>1. cur'[w] = r[k + 1].cur
    BY <1>0, <1>1, <1>4, <1>5
  <2> QED
    BY <2>1, <1>7 DEF Follows, CurFollows
<1>11. BestFollows(r)'
  <2>1. pc'[w] # "store" /\ pc'[w] # "reduce"
    BY <1>0, <1>1
  <2> QED
    BY <2>1, <1>1, <1>7 DEF Follows, BestFollows
<1>12. SlotsFollow(r)'
  <2>1. ASSUME NEW u \in Workers
        PROVE  /\ pc'[u] \in {"arrive", "wait", "reduce"} =>
                    slots[step'[u] % 2][u] = Local(r, step'[u], u)
               /\ step'[u] > 0 => slots[(step'[u] - 1) % 2][u] = Local(r, step'[u] - 1, u)
    <3>1. CASE u = w
      <4>1. pc'[w] \notin {"arrive", "wait", "reduce"}
        BY <1>0, <1>1
      <4>2. step'[w] - 1 = k
        BY <1>0, <1>7
      <4>3. slots[k % 2][w] = Local(r, k, w)
        BY <1>1 DEF Follows, SlotsFollow
      <4> QED
        BY <3>1, <4>1, <4>2, <4>3
    <3>2. CASE u # w
      BY <3>2, <1>7 DEF Follows, SlotsFollow
    <3> QED
      BY <3>1, <3>2
  <2> QED
    BY <2>1, <1>1 DEF SlotsFollow
<1>13. EdgesFollow(r)'
  <2>1. edges = r[step[0]].edges
    BY DEF Follows, EdgesFollow
  <2>2. 0 \in Workers
    BY ChunkPositive DEF Workers
  <2>3. CASE w = 0
    BY <2>1, <2>3, <1>1, <1>4, <1>5, <1>7 DEF EdgesFollow
  <2>4. CASE w # 0
    BY <2>1, <2>2, <2>4, <1>1, <1>7 DEF EdgesFollow
  <2> QED
    BY <2>3, <2>4
<1>14. PartsFollow(r)'
  <2>1. \A u \in Workers : Scanned(u)' = Scanned(u)
    <3>1. Scanned(w)' = k + 1 /\ Scanned(w) = k + 1
      BY <1>0, <1>1, <1>7 DEF Scanned
    <3>2. \A u \in Workers : u # w => Scanned(u)' = Scanned(u)
      BY <1>7 DEF Scanned
    <3> QED
      BY <3>1, <3>2
  <2> QED
    BY <2>1, <1>1 DEF Follows, PartsFollow
<1> QED
  BY <1>8, <1>9, <1>10, <1>11, <1>12, <1>13, <1>14 DEF Follows

----------------------------------------------------------------------------
(* The two invariants together *)

SInv == graph \in Graphs /\ IInv /\ Follows(Run(graph))

LEMMA InitSerial == Init => SInv
<1> SUFFICES ASSUME Init PROVE SInv
  OBVIOUS
<1>1. graph \in Graphs
  BY DEF Init
<1>2. GoodRun(graph, Run(graph))
  BY <1>1, RunIsGood
<1> QED
  BY <1>1, <1>2, InitInv, InitFollows DEF SInv

LEMMA NextSerial == SInv /\ [Next]_vars => SInv'
<1> SUFFICES ASSUME SInv, [Next]_vars PROVE SInv'
  OBVIOUS
<1>1. IInv /\ IInv' /\ graph \in Graphs /\ PlacesTyped
  BY NextInv DEF SInv, IInv
<1>2. PICK r : r = Run(graph)
  OBVIOUS
<1>3. GoodRun(graph, r) /\ Follows(r)
  BY <1>1, <1>2, RunIsGood DEF SInv
<1>4. Follows(r)' /\ graph' = graph
  <2>1. ASSUME NEW w \in Workers, WorkerStep(w) PROVE Follows(r)' /\ graph' = graph
    <3>1. CASE Scan(w)
      BY <3>1, <1>1, <1>3, ScanFollows DEF Scan
    <3>2. CASE Store(w)
      BY <3>2, <1>1, <1>3, StoreFollows DEF Store
    <3>3. CASE Arrive(w) \/ Wait(w)
      BY <3>3, <1>1, <1>3, WaitFollows DEF Arrive, Wait
    <3>4. CASE Leave(w)
      BY <3>4, <1>1, <1>3, LeaveFollows DEF Leave
    <3>5. CASE ReadSlot(w)
      BY <3>5, <1>1, <1>3, ReadSlotFollows DEF ReadSlot
    <3>6. CASE NextStep(w)
      BY <3>6, <1>1, <1>3, NextStepFollows DEF NextStep
    <3> QED
      BY <2>1, <3>1, <3>2, <3>3, <3>4, <3>5, <3>6 DEF WorkerStep
  <2>2. CASE UNCHANGED vars
    <3>1. UNCHANGED <<graph, tree, reach, source, pc, step, cur, best, next, slots, edges>>
      BY <2>2 DEF vars, data
    <3>2. \A u \in Workers : Scanned(u)' = Scanned(u)
      BY <3>1 DEF Scanned
    <3>3. PartsFollow(r)'
      BY <3>1, <3>2, <1>3 DEF Follows, PartsFollow
    <3> QED
      BY <3>1, <3>3, <1>3 DEF Follows, DataTyped, StepsInRange, CurFollows, BestFollows,
                              SlotsFollow, EdgesFollow
  <2> QED
    BY <2>1, <2>2 DEF Next
<1>5. Run(graph)' = r
  BY <1>2, <1>4
<1> QED
  BY <1>1, <1>4, <1>5 DEF SInv

LEMMA FollowingIsTheSame == SInv => SameAsSerial
<1> SUFFICES ASSUME SInv PROVE SameAsSerial
  OBVIOUS
<1>1. PICK r : r = Run(graph)
  OBVIOUS
<1>2. GoodRun(graph, r) /\ Follows(r) /\ Serial = r
  BY <1>1, RunIsGood, SerialIsRun DEF SInv
<1>3. 0 \in Workers /\ step[0] \in Nat /\ N \in Nat
  BY ChunkPositive, NAssumption DEF Workers, SInv, IInv, PlacesTyped
<1>4. step[0] \in 0 .. N - 1
  <2>1. IF pc[0] = "done" THEN step[0] = N - 1 ELSE step[0] + 2 <= N
    BY <1>2, <1>3 DEF Follows, StepsInRange
  <2>2. CASE pc[0] = "done"
    BY <2>1, <2>2, <1>3
  <2>3. CASE pc[0] # "done"
    BY <2>1, <2>3, <1>3
  <2> QED
    BY <2>2, <2>3
<1>5. edges = r[step[0]].edges
  BY <1>2 DEF Follows, EdgesFollow
<1>6. Len(edges) = step[0] /\ edges = SubSeq(r[N - 1].edges, 1, step[0])
  BY <1>2, <1>4, <1>5, EdgesArePrefixes
<1>7. EdgesAreSerial
  <2>1. Joins => step[0] = N - 1
    BY <1>2, <1>3 DEF Joins, Follows, StepsInRange
  <2> QED
    BY <2>1, <1>2, <1>6 DEF EdgesAreSerial
<1>8. PartsAreSerial
  BY <1>2 DEF PartsAreSerial, Follows, PartsFollow, Scanned
<1> QED
  BY <1>7, <1>8 DEF SameAsSerial

(* Edge for edge, node for node, the parallel Prim computes what the serial *)
(* one does: for every number of nodes, target number of workers and graph, *)
(* ties and infinite distances included.                                    *)
THEOREM SameAsSerialCorrect == Spec => []SameAsSerial
BY InitSerial, NextSerial, FollowingIsTheSame, PTL DEF Spec
=============================================================================
