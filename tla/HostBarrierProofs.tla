------------------------- MODULE HostBarrierProofs --------------------------
(***************************************************************************)
(* The host barrier is correct for every number of threads and every       *)
(* width of the epoch counter: its safety invariants, and the refinement   *)
(* of the abstract Rendezvous, step by step.                               *)
(*                                                                         *)
(* The argument.  Until the barrier is poisoned, the counter is the number *)
(* of units in the current round.  So the unit that counts to "workers"    *)
(* sees everybody in the round, and nobody else can start or finish a call *)
(* until it publishes the next epoch, which is what frees all of them at   *)
(* once.  Once poisoned, released() is true for everybody forever.         *)
(***************************************************************************)
EXTENDS HostBarrier, FiniteSetTheorems, TLAPS

(* The lock is held by the unit whose program counter says so. *)
LockInv == \A u \in Units : pc[u] \in Holding <=> lock = u

(* Nobody executes poison() of a barrier that is not poisoned. *)
PoisonInv == \A u \in Units : pc[u] \in {"poisonlock", "poisonnotify"} => poisoned

(* A unit between its check and its park was not released, unless poison() *)
(* has begun since, and then it waits for the lock this unit holds.        *)
ParkInv ==
  \A u \in Units : pc[u] = "park" /\ released(u) =>
    \E v \in Units : pc[v] = "poisonlock"

(* The round of a barrier that is not poisoned. *)
RoundInv ==
  ~poisoned =>
    /\ \A u \in Units : pc[u] = "arrive" => seen[u] = epoch
    /\ \A u \in Units : pc[u] \in {"notify", "ret"} => seen[u] # epoch
    /\ \A u \in Units : pc[u] \in Opening => InRound = Units

IInv ==
  /\ TypeOK
  /\ LockInv
  /\ PoisonInv
  /\ ParkInv
  /\ NoLostWakeup
  /\ RoundInv
  /\ CountMatchesRound

----------------------------------------------------------------------------
(* Facts about the constants and the helpers *)

(* The next epoch is an epoch, and another one. *)
LEMMA NextEpoch ==
  ASSUME NEW s \in 0 .. Wrap - 1
  PROVE  (s + 1) % Wrap \in 0 .. Wrap - 1 /\ (s + 1) % Wrap # s
<1>1. CASE s + 1 < Wrap
  <2>1. (s + 1) % Wrap = s + 1
    BY <1>1, WrapAssumption, SMT
  <2> QED BY <2>1, <1>1, WrapAssumption
<1>2. CASE s + 1 = Wrap
  <2>1. (s + 1) % Wrap = 0
    BY <1>2, WrapAssumption, SMT
  <2> QED BY <2>1, <1>2, WrapAssumption
<1> QED BY <1>1, <1>2, WrapAssumption

----------------------------------------------------------------------------
(* Types and the lock *)

LEMMA TypeInit == Init => TypeOK
<1>1. 0 \in 0 .. Wrap - 1
  BY WrapAssumption
<1>2. "out" \in Inside \cup Outside
  BY DEF Outside
<1>3. Init => pc \in [Units -> Inside \cup Outside] /\ seen \in [Units -> 0 .. Wrap - 1]
  BY <1>1, <1>2, Zenon DEF Init
<1>4. Init => poisoned \in BOOLEAN /\ lock \in Units \cup {Nobody}
  BY Zenon DEF Init
<1>5. Init => arrived \in Nat /\ epoch \in 0 .. Wrap - 1
  BY <1>1 DEF Init
<1> QED BY <1>3, <1>4, <1>5, Zenon DEF TypeOK

LEMMA TypeStep == TypeOK /\ [Next]_vars => TypeOK'
<1> SUFFICES ASSUME TypeOK, [Next]_vars PROVE TypeOK'
  OBVIOUS
<1> USE DEF TypeOK, Goto, Inside, Outside, Opening, Waiting
<1>1. ASSUME NEW u \in Units, Run(u) PROVE TypeOK'
  <2>1. CASE Arrive(u)
    BY <2>1 DEF Arrive
  <2>2. CASE Publish(u)
    BY <2>2, NextEpoch DEF Publish
  <2>3. CASE Notify(u) \/ PoisonNotify(u)
    BY <2>3 DEF Notify, PoisonNotify, WakeAll
  <2>4. CASE Reset(u) \/ Poll(u) \/ Check(u) \/ Park(u) \/ Return(u)
    BY <2>4 DEF Reset, Poll, Check, Park, Return
  <2> QED BY <1>1, <2>1, <2>2, <2>3, <2>4 DEF Run
<1>2. ASSUME NEW u \in Units, Acquire(u) PROVE TypeOK'
  BY <1>2 DEF Acquire, LockToPublish, LockToWait, PoisonLock
<1>3. ASSUME NEW u \in Units, Enter(u) \/ TimedWake(u) \/ SetPoisoned(u)
      PROVE TypeOK'
  BY <1>3 DEF Enter, TimedWake, SetPoisoned
<1>4. CASE UNCHANGED vars
  BY <1>4 DEF vars
<1> QED BY <1>1, <1>2, <1>3, <1>4 DEF Next, Step

LEMMA LockStep == TypeOK /\ LockInv /\ [Next]_vars => LockInv'
<1> SUFFICES ASSUME TypeOK, LockInv, [Next]_vars PROVE LockInv'
  OBVIOUS
<1> USE NobodyAssumption DEF TypeOK, LockInv, Goto, Holding
<1>1. ASSUME NEW u \in Units, Run(u) PROVE LockInv'
  <2>1. CASE Arrive(u) \/ Reset(u) \/ Poll(u) \/ Return(u)
    BY <2>1 DEF Arrive, Reset, Poll, Return
  <2>2. CASE Publish(u) \/ Park(u)
    BY <2>2 DEF Publish, Park
  <2>3. CASE Check(u)
    BY <2>3 DEF Check
  <2>4. CASE Notify(u) \/ PoisonNotify(u)
    BY <2>4 DEF Notify, PoisonNotify, WakeAll
  <2> QED BY <1>1, <2>1, <2>2, <2>3, <2>4 DEF Run
<1>2. ASSUME NEW u \in Units, Acquire(u) PROVE LockInv'
  BY <1>2 DEF Acquire, LockToPublish, LockToWait, PoisonLock
<1>3. ASSUME NEW u \in Units, Enter(u) \/ TimedWake(u) \/ SetPoisoned(u)
      PROVE LockInv'
  BY <1>3 DEF Enter, TimedWake, SetPoisoned
<1>4. CASE UNCHANGED vars
  BY <1>4 DEF vars
<1> QED BY <1>1, <1>2, <1>3, <1>4 DEF Next, Step

(* poison() sets the flag first, and nothing resets it. *)
LEMMA PoisonStep == TypeOK /\ PoisonInv /\ [Next]_vars => PoisonInv'
<1> SUFFICES ASSUME TypeOK, PoisonInv, [Next]_vars PROVE PoisonInv'
  OBVIOUS
<1> USE DEF TypeOK, PoisonInv, Goto
<1>1. ASSUME NEW u \in Units, Run(u) PROVE PoisonInv'
  <2>1. CASE Notify(u) \/ PoisonNotify(u)
    BY <2>1 DEF Notify, PoisonNotify, WakeAll
  <2>2. CASE Arrive(u) \/ Reset(u) \/ Publish(u) \/ Poll(u)
             \/ Check(u) \/ Park(u) \/ Return(u)
    BY <2>2 DEF Arrive, Reset, Publish, Poll, Check, Park, Return
  <2> QED BY <1>1, <2>1, <2>2 DEF Run
<1>2. ASSUME NEW u \in Units, Acquire(u) PROVE PoisonInv'
  BY <1>2 DEF Acquire, LockToPublish, LockToWait, PoisonLock
<1>3. ASSUME NEW u \in Units, Enter(u) \/ TimedWake(u) \/ SetPoisoned(u)
      PROVE PoisonInv'
  BY <1>3 DEF Enter, TimedWake, SetPoisoned
<1>4. CASE UNCHANGED vars
  BY <1>4 DEF vars
<1> QED BY <1>1, <1>2, <1>3, <1>4 DEF Next, Step

----------------------------------------------------------------------------
(* Sleeping units *)

(* The unit that publishes holds the lock, so nobody is about to park; the *)
(* unit that poisons needs the lock before it notifies.                    *)
LEMMA SleepStep ==
  TypeOK /\ LockInv /\ PoisonInv /\ ParkInv /\ NoLostWakeup /\ [Next]_vars
    => ParkInv' /\ NoLostWakeup'
<1> SUFFICES ASSUME TypeOK, LockInv, PoisonInv, ParkInv, NoLostWakeup, [Next]_vars
             PROVE  ParkInv' /\ NoLostWakeup'
  OBVIOUS
<1> USE NobodyAssumption
    DEF TypeOK, LockInv, PoisonInv, ParkInv, NoLostWakeup, Goto, Holding, released
<1>1. ASSUME NEW u \in Units, Run(u) PROVE ParkInv' /\ NoLostWakeup'
  <2>1. CASE Arrive(u) \/ Reset(u) \/ Poll(u) \/ Return(u)
    BY <2>1 DEF Arrive, Reset, Poll, Return
  <2>2. CASE Publish(u)
    BY <2>2 DEF Publish
  <2>3. CASE Check(u)
    BY <2>3 DEF Check
  <2>4. CASE Park(u)
    BY <2>4 DEF Park
  <2>5. CASE Notify(u) \/ PoisonNotify(u)
    BY <2>5 DEF Notify, PoisonNotify, WakeAll
  <2> QED BY <1>1, <2>1, <2>2, <2>3, <2>4, <2>5 DEF Run
<1>2. ASSUME NEW u \in Units, Acquire(u) PROVE ParkInv' /\ NoLostWakeup'
  <2>1. CASE LockToPublish(u) \/ LockToWait(u)
    BY <2>1 DEF LockToPublish, LockToWait
  <2>2. CASE PoisonLock(u)
    BY <2>2 DEF PoisonLock
  <2> QED BY <1>2, <2>1, <2>2 DEF Acquire
<1>3. ASSUME NEW u \in Units, Enter(u) \/ TimedWake(u) \/ SetPoisoned(u)
      PROVE ParkInv' /\ NoLostWakeup'
  BY <1>3 DEF Enter, TimedWake, SetPoisoned
<1>4. CASE UNCHANGED vars
  BY <1>4 DEF vars
<1> QED BY <1>1, <1>2, <1>3, <1>4 DEF Next, Step

----------------------------------------------------------------------------
(* The round *)

(* A unit is in the round of a barrier that is not poisoned when it has     *)
(* been counted and the epoch it loaded is still the published one.         *)
Counted == {u \in Units : pc[u] \notin Outside /\ seen[u] = epoch}

LEMMA RoundIsCounted == ~poisoned => InRound = Counted
BY DEF InRound, Counted, at, released

LEMMA CountedIsFinite ==
  /\ IsFiniteSet(Counted) /\ Cardinality(Counted) \in Nat
  /\ Cardinality(Counted) = workers => Counted = Units
<1>1. Counted \in SUBSET Units
  BY DEF Counted
<1> QED BY <1>1, FS_Subset, FS_CardinalityType, UnitsAssumption DEF workers

(* RoundInv and CountMatchesRound, of the set that does not mention at. *)
CountedInv ==
  ~poisoned =>
    /\ \A u \in Units : pc[u] = "arrive" => seen[u] = epoch
    /\ \A u \in Units : pc[u] \in {"notify", "ret"} => seen[u] # epoch
    /\ \A u \in Units : pc[u] \in Opening => Counted = Units
    /\ \A u, v \in Units : pc[u] \in Opening /\ pc[v] \in Opening => u = v
    /\ (\E u \in Units : pc[u] \in {"lockpub", "publish"}) => arrived = 0
    /\ (\A u \in Units : pc[u] \notin {"lockpub", "publish"})
         => arrived = Cardinality(Counted)

LEMMA CountedInvIsRoundInv == CountedInv <=> RoundInv /\ CountMatchesRound
BY RoundIsCounted DEF CountedInv, RoundInv, CountMatchesRound

(* The last unit in completes the round: everybody has been counted. *)
LEMMA ArriveCounted ==
  ASSUME TypeOK, CountedInv, NEW u \in Units, Arrive(u)
  PROVE  CountedInv'
<1> SUFFICES ASSUME ~poisoned PROVE CountedInv'
  BY DEF CountedInv, Arrive
<1> USE DEF TypeOK, Goto, Opening, Outside
<1>1. pc[u] = "arrive" /\ seen[u] = epoch /\ u \notin Counted
  BY DEF CountedInv, Arrive, Counted
<1>2. \A v \in Units : pc[v] \notin Opening
  BY <1>1 DEF CountedInv
<1>3. arrived = Cardinality(Counted)
  BY <1>2 DEF CountedInv
<1>4. Counted' = Counted \cup {u}
  BY <1>1 DEF Arrive, Counted
<1>5. Cardinality(Counted') = arrived + 1
  BY <1>1, <1>3, <1>4, FS_AddElement, CountedIsFinite
<1>6. arrived + 1 = workers => Counted' = Units
  <2>1. Counted' \in SUBSET Units
    BY DEF Counted
  <2> QED BY <1>5, <2>1, FS_Subset, UnitsAssumption DEF workers
<1>7. \A v \in Units : pc'[v] \in Opening => v = u /\ arrived + 1 = workers
  BY <1>2 DEF Arrive
<1>8. \A v \in Units : pc'[v] \notin {"lockpub", "publish"}
  BY <1>2 DEF Arrive
<1>9. arrived' = Cardinality(Counted')
  BY <1>5 DEF Arrive
<1>10. \A v \in Units : /\ pc'[v] = "arrive" => seen'[v] = epoch'
                        /\ pc'[v] \in {"notify", "ret"} => seen'[v] # epoch'
  BY DEF Arrive, CountedInv
<1> QED BY <1>6, <1>7, <1>8, <1>9, <1>10 DEF CountedInv

(* Publishing frees all units of the round and leaves an empty one. *)
LEMMA PublishCounted ==
  ASSUME TypeOK, CountedInv, NEW u \in Units, Publish(u)
  PROVE  CountedInv'
<1> SUFFICES ASSUME ~poisoned PROVE CountedInv'
  BY DEF CountedInv, Publish
<1> USE DEF TypeOK, Goto, Opening, Outside
<1>1. pc[u] = "publish" /\ arrived = 0 /\ Counted = Units
  BY DEF CountedInv, Publish
<1>2. \A v \in Units : pc[v] \notin Outside /\ seen[v] = epoch
  BY <1>1 DEF Counted
<1>3. epoch' # epoch
  BY <1>2, NextEpoch DEF Publish
<1>4. \A v \in Units : seen'[v] # epoch' /\ pc'[v] # "arrive"
  BY <1>2, <1>3 DEF Publish
<1>5. Counted' = {}
  BY <1>4 DEF Counted
<1>6. arrived' = Cardinality(Counted')
  BY <1>1, <1>5, FS_EmptySet DEF Publish
<1>7. \A v \in Units : pc'[v] \notin Opening
  BY <1>1 DEF CountedInv, Publish
<1> QED BY <1>4, <1>6, <1>7 DEF CountedInv

(* Every other step leaves the round as it is. *)
LEMMA CountedStep ==
  TypeOK /\ PoisonInv /\ CountedInv /\ [Next]_vars => CountedInv'
<1> SUFFICES ASSUME TypeOK, PoisonInv, CountedInv, [Next]_vars
             PROVE  CountedInv'
  OBVIOUS
<1> USE DEF TypeOK, Goto, Opening, Outside
<1>1. ASSUME NEW u \in Units, Run(u) PROVE CountedInv'
  <2>1. CASE Reset(u)
    <3>1. Counted' = Counted
      BY <2>1 DEF Reset, Counted
    <3> QED BY <2>1, <3>1 DEF Reset, CountedInv
  <2>2. CASE Notify(u)
    <3>1. Counted' = Counted
      BY <2>2 DEF Notify, WakeAll, Counted
    <3> QED BY <2>2, <3>1 DEF Notify, WakeAll, CountedInv
  <2>3. CASE Poll(u) \/ Check(u)
    <3>1. Counted' = Counted
      BY <2>3 DEF Poll, Check, Counted
    <3> QED BY <2>3, <3>1 DEF Poll, Check, CountedInv, released
  <2>4. CASE Park(u)
    <3>1. Counted' = Counted
      BY <2>4 DEF Park, Counted
    <3> QED BY <2>4, <3>1 DEF Park, CountedInv
  <2>5. CASE Return(u) /\ ~poisoned
    <3>1. Counted' = Counted
      BY <2>5 DEF Return, Counted, CountedInv
    <3> QED BY <2>5, <3>1 DEF Return, CountedInv
  <2>6. CASE poisoned
    <3>1. poisoned'
      BY <1>1, <2>6 DEF Run, Arrive, Reset, Publish, Notify, Poll, Check, Park,
         Return, PoisonNotify
    <3> QED BY <3>1 DEF CountedInv
  <2>7. CASE PoisonNotify(u)
    BY <2>6, <2>7 DEF PoisonNotify, PoisonInv
  <2> QED BY <1>1, <2>1, <2>2, <2>3, <2>4, <2>5, <2>6, <2>7, ArriveCounted, PublishCounted DEF Run
<1>2. ASSUME NEW u \in Units, Acquire(u) PROVE CountedInv'
  <2>1. CASE LockToPublish(u)
    <3>1. Counted' = Counted
      BY <2>1 DEF LockToPublish, Counted
    <3> QED BY <2>1, <3>1 DEF LockToPublish, CountedInv
  <2>2. CASE LockToWait(u)
    <3>1. Counted' = Counted
      BY <2>2 DEF LockToWait, Counted
    <3> QED BY <2>2, <3>1 DEF LockToWait, CountedInv
  <2>3. CASE PoisonLock(u)
    BY <2>3 DEF PoisonLock, PoisonInv, CountedInv
  <2> QED BY <1>2, <2>1, <2>2, <2>3 DEF Acquire
<1>3. ASSUME NEW u \in Units, Enter(u) PROVE CountedInv'
  <2>1. Counted' = Counted
    BY <1>3 DEF Enter, Counted
  <2>2. ~poisoned => \A v \in Units : pc[v] \notin Opening
    BY <1>3 DEF Enter, CountedInv, Counted
  <2> QED BY <1>3, <2>1, <2>2 DEF Enter, CountedInv
<1>4. ASSUME NEW u \in Units, TimedWake(u) PROVE CountedInv'
  <2>1. Counted' = Counted
    BY <1>4 DEF TimedWake, Counted
  <2> QED BY <1>4, <2>1 DEF TimedWake, CountedInv
<1>5. ASSUME NEW u \in Units, SetPoisoned(u) PROVE CountedInv'
  BY <1>5 DEF SetPoisoned, CountedInv
<1>6. CASE UNCHANGED vars
  BY <1>6 DEF vars, CountedInv, Counted
<1> QED BY <1>1, <1>2, <1>3, <1>4, <1>5, <1>6 DEF Next, Step

----------------------------------------------------------------------------
(* The invariant *)

LEMMA IInvInit == Init => IInv
<1> SUFFICES ASSUME Init PROVE IInv
  OBVIOUS
<1> USE DEF Init
<1>1. TypeOK
  BY TypeInit
<1>2. LockInv /\ PoisonInv /\ ParkInv /\ NoLostWakeup
  BY NobodyAssumption
     DEF LockInv, PoisonInv, ParkInv, NoLostWakeup, Holding
<1>3. Counted = {}
  BY DEF Counted, Outside
<1>4. CountedInv
  BY <1>3, FS_EmptySet DEF CountedInv, Opening
<1> QED BY <1>1, <1>2, <1>4, CountedInvIsRoundInv DEF IInv

LEMMA IInvStep == IInv /\ [Next]_vars => IInv'
<1> SUFFICES ASSUME IInv, [Next]_vars PROVE IInv'
  OBVIOUS
<1>1. TypeOK' /\ LockInv' /\ PoisonInv' /\ ParkInv' /\ NoLostWakeup'
  BY TypeStep, LockStep, PoisonStep, SleepStep DEF IInv
<1>2. CountedInv'
  BY CountedStep, CountedInvIsRoundInv DEF IInv
<1>3. (CountedInv <=> RoundInv /\ CountMatchesRound)'
  BY CountedInvIsRoundInv, PTL
<1> QED BY <1>1, <1>2, <1>3 DEF IInv

(* The inductive invariant of the barrier. *)
THEOREM Invariance == Spec => []IInv
BY IInvInit, IInvStep, PTL DEF Spec

(* Every variable keeps its type, whatever the interleaving. *)
THEOREM TypeCorrect == Spec => []TypeOK
<1>1. IInv => TypeOK
  BY DEF IInv
<1> QED BY <1>1, Invariance, PTL

(* Whoever sleeps at the barrier after it was released has a notifier on    *)
(* its way, for any number of threads (host_pool.rs:75-77).                 *)
THEOREM LostWakeupFree == Spec => []NoLostWakeup
<1>1. IInv => NoLostWakeup
  BY DEF IInv
<1> QED BY <1>1, Invariance, PTL

(* The arrival counter counts the current round and nothing else.          *)
THEOREM CounterCorrect == Spec => []CountMatchesRound
<1>1. IInv => CountMatchesRound
  BY DEF IInv
<1> QED BY <1>1, Invariance, PTL

----------------------------------------------------------------------------
(* The refinement *)

LEMMA AbstractInit == Init => Abstract!Init
BY DEF Init, Abstract!Init, at, Outside

(* While a unit opens the barrier, every unit is in it. *)
LEMMA OpenerSeesAll ==
  ASSUME IInv, ~poisoned, NEW u \in Units, pc[u] \in Opening
  PROVE  /\ \A v \in Units : at[v] = "in"
         /\ \A v \in Units : pc[v] \notin Outside /\ seen[v] = epoch
<1>1. InRound = Units
  BY DEF IInv, RoundInv
<1>2. Counted = Units
  BY <1>1, RoundIsCounted
<1> QED BY <1>1, <1>2 DEF InRound, Counted

LEMMA AbstractStep == IInv /\ [Next]_vars => [Abstract!Next]_Abstract!vars
<1> SUFFICES ASSUME IInv, [Next]_vars
             PROVE  [Abstract!Next]_Abstract!vars
  OBVIOUS
<1> USE DEF IInv, TypeOK, Goto, Outside, released, Abstract!vars
<1>1. ASSUME NEW u \in Units, Arrive(u) PROVE Abstract!Arrive(u)
  <2>1. ~poisoned => seen[u] = epoch
    BY <1>1 DEF Arrive, RoundInv
  <2>2. at' = [at EXCEPT ![u] = IF poisoned THEN "freed" ELSE "in"]
    BY <1>1, <2>1 DEF Arrive, at
  <2> QED BY <1>1, <2>2 DEF Arrive, Abstract!Arrive, at
<1>2. ASSUME NEW u \in Units, Publish(u), ~poisoned PROVE Abstract!Open
  <2>1. /\ \A v \in Units : at[v] = "in"
        /\ \A v \in Units : pc[v] \notin Outside /\ seen[v] = epoch
    BY <1>2, OpenerSeesAll DEF Publish, Opening
  <2>2. epoch' # epoch
    BY <1>2, <2>1, NextEpoch DEF Publish
  <2>3. at' = [v \in Units |-> "freed"]
    BY <1>2, <2>1, <2>2 DEF Publish, at
  <2> QED BY <1>2, <2>1, <2>3 DEF Publish, Abstract!Open
<1>3. ASSUME NEW u \in Units, Publish(u), poisoned PROVE at' = at /\ poisoned' = poisoned
  BY <1>3 DEF Publish, at
<1>4. ASSUME NEW u \in Units, Return(u) PROVE Abstract!Leave(u)
  <2>1. released(u)
    BY <1>4 DEF Return, RoundInv
  <2> QED BY <1>4, <2>1 DEF Return, Abstract!Leave, at
<1>5. ASSUME NEW u \in Units, SetPoisoned(u) PROVE Abstract!Poison
  BY <1>5 DEF SetPoisoned, Abstract!Poison, at
<1>6. ASSUME NEW u \in Units,
             \/ Reset(u) \/ Poll(u) \/ Check(u) \/ Park(u)
             \/ Acquire(u) \/ Enter(u) \/ TimedWake(u)
      PROVE at' = at /\ poisoned' = poisoned
  BY <1>6 DEF Reset, Poll, Check, Park, Acquire, LockToPublish, LockToWait,
     PoisonLock, Enter, TimedWake, at
<1>7. ASSUME NEW u \in Units, Notify(u) \/ PoisonNotify(u)
      PROVE at' = at /\ poisoned' = poisoned
  BY <1>7 DEF Notify, PoisonNotify, WakeAll, at
<1>8. CASE UNCHANGED vars
  BY <1>8 DEF vars, at
<1> QED BY <1>1, <1>2, <1>3, <1>4, <1>5, <1>6, <1>7, <1>8
        DEF Next, Step, Run, Abstract!Next

(* The code's barrier is a rendezvous: every step maps to a step of the     *)
(* abstract one or to none.                                                 *)
THEOREM BarrierIsRendezvous == Spec => ImplementsRendezvous
BY Invariance, AbstractInit, AbstractStep, PTL
   DEF Spec, ImplementsRendezvous, Abstract!Spec
=============================================================================
