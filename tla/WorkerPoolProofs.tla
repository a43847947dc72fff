-------------------------- MODULE WorkerPoolProofs --------------------------
(***************************************************************************)
(* The safety of the worker pool, for any number of workers and of passes. *)
(*                                                                         *)
(* The argument.  While no unit has panicked, the units are always on the  *)
(* same side of the pass: either all of them are before the opening of     *)
(* start ("early") or all are before the opening of done ("late"), and a   *)
(* barrier flips all of them at once.  So when the driver is between two   *)
(* passes no worker is in a closure, and each of them has run the closures *)
(* of all passes.  Once a unit has panicked, the driver can leave the pass *)
(* only by a poisoned barrier, because the barrier done misses the unit    *)
(* that panicked for ever.                                                 *)
(***************************************************************************)
EXTENDS WorkerPool, SequenceTheorems, TLAPS

(* The barriers know the units that are at them; start is poisoned first. *)
BarrierInv ==
  /\ \A u \in Units : startAt[u] # "out" <=> pc[u] \in {"inStart", "dropIn"}
  /\ \A u \in Units : doneAt[u] # "out" <=> pc[u] = "inDone"
  /\ startPoisoned => \A u \in Units : startAt[u] # "in"
  /\ donePoisoned => \A u \in Units : doneAt[u] # "in"
  /\ donePoisoned => startPoisoned
  /\ \A u \in Units : pc[u] = "poisonDone" => startPoisoned

(* Some unit has panicked. *)
Broken == startPoisoned \/ \E u \in Units : pc[u] = "poisonStart"

(* Before start has opened for the next pass, and after. *)
Early(u) ==
  \/ pc[u] \in {"idle", "toStart", "checkStart", "checkDone", "shutdown", "dropStart"}
  \/ pc[u] \in {"inStart", "dropIn"} /\ startAt[u] = "in"
  \/ pc[u] = "inDone" /\ doneAt[u] = "freed"

Late(u) ==
  \/ pc[u] \in {"checkShutdown", "readTask", "exec", "toDone", "join", "dropped", "exited"}
  \/ pc[u] \in {"inStart", "dropIn"} /\ startAt[u] = "freed"
  \/ pc[u] = "inDone" /\ doneAt[u] = "in"

SameSide == (\A u \in Units : Early(u)) \/ (\A u \in Units : Late(u))

(* The last pass whose closure u has run, by where u is. *)
Completed(u) ==
  IF Early(Driver)
  THEN IF pc[Driver] \in {"toStart", "inStart"} THEN pass - 1 ELSE pass
  ELSE IF shutdown \/ pc[u] \in {"toDone", "inDone"} THEN pass ELSE pass - 1

Closing == {"dropStart", "dropIn", "join", "dropped"}

HealthyInv ==
  ~Broken =>
    /\ SameSide
    /\ shutdown <=> pc[Driver] \in Closing
    /\ pc[Driver] # "panicked"
    /\ \A w \in Workers : Late(w) =>
         IF shutdown THEN pc[w] \in {"inStart", "checkShutdown", "exited"}
                     ELSE pc[w] # "exited"
    /\ pc[Driver] \in {"toStart", "inStart", "exec", "toDone"} => pass > 0
    /\ pc[Driver] = "inDone" /\ doneAt[Driver] = "in" => pass > 0
    /\ \A u \in Units : ran[u] = FirstPasses(Completed(u))

BrokenInv ==
  Broken =>
    /\ pc[Driver] \notin {"idle", "checkDone", "shutdown", "dropStart", "dropIn"}
    /\ pc[Driver] \in {"toStart", "checkStart", "panicked"} => startPoisoned
    /\ doneAt[Driver] = "freed" => donePoisoned
    /\ donePoisoned \/ \E u \in Units : pc[u] \in {"poisonStart", "poisonDone"}

SlotInv == task = pass /\ SamePass

IInv == TypeOK /\ BarrierInv /\ HealthyInv /\ BrokenInv /\ SlotInv

----------------------------------------------------------------------------
(* The history of a unit that has run all passes up to the last *)

LEMMA FirstPassesGrow ==
  /\ FirstPasses(0) = <<>>
  /\ \A n \in Nat : n > 0 => Append(FirstPasses(n - 1), n) = FirstPasses(n)
<1>1. FirstPasses(0) = <<>>
  BY DEF FirstPasses
<1>2. ASSUME NEW n \in Nat, n > 0
      PROVE  Append(FirstPasses(n - 1), n) = FirstPasses(n)
  <2> DEFINE s == FirstPasses(n - 1)
             t == FirstPasses(n)
  <2>1. s \in Seq(Nat) /\ Len(s) = n - 1 /\ \A i \in 1 .. n - 1 : s[i] = i
    BY <1>2 DEF FirstPasses
  <2>2. t \in Seq(Nat) /\ Len(t) = n /\ \A i \in 1 .. n : t[i] = i
    BY <1>2 DEF FirstPasses
  <2>3. Append(s, n) \in Seq(Nat) /\ Len(Append(s, n)) = n
    BY <2>1
  <2>4. \A i \in 1 .. n : Append(s, n)[i] = t[i]
    BY <2>1, <2>2
  <2> HIDE DEF s, t
  <2>5. Append(s, n) = t
    BY <2>2, <2>3, <2>4, SeqEqual
  <2> QED BY <2>5 DEF s, t
<1> QED BY <1>1, <1>2

----------------------------------------------------------------------------
(* Types and barriers *)

LEMMA TypeInit == Init => TypeOK
<1> SUFFICES ASSUME Init PROVE TypeOK
  OBVIOUS
<1>1. /\ pc \in [Units -> DriverPCs \cup WorkerPCs]
      /\ pc[Driver] \in DriverPCs
      /\ \A w \in Workers : pc[w] \in WorkerPCs
  BY DriverAssumption DEF Init, Units, DriverPCs, WorkerPCs, Between, InRun
<1>2. Start!TypeOK /\ Done!TypeOK
  BY Zenon DEF Init, Start!Init, Done!Init, Start!TypeOK, Done!TypeOK
<1>3. shutdown \in BOOLEAN
  BY Zenon DEF Init
<1>4. /\ task \in 0 .. MaxPasses
      /\ got \in [Workers -> 0 .. MaxPasses]
      /\ pass \in 0 .. MaxPasses
  BY MaxPassesAssumption DEF Init, NoTask
<1>5. ran \in [Units -> Seq(0 .. MaxPasses)]
  BY DEF Init
<1> QED BY <1>1, <1>2, <1>3, <1>4, <1>5 DEF TypeOK

LEMMA TypeStep == TypeOK /\ [Next]_vars => TypeOK'
<1> SUFFICES ASSUME TypeOK, [Next]_vars PROVE TypeOK'
  OBVIOUS
<1> USE DriverAssumption, MaxPassesAssumption
    DEF TypeOK, Goto, Units, DriverPCs, WorkerPCs, Between, InRun, InDrop,
        barriers, Start!TypeOK, Done!TypeOK
<1>1. ASSUME NEW u \in Units, UnitStep(u) PROVE TypeOK'
  <2>1. CASE ArriveStart(u)
    BY <2>1 DEF ArriveStart, Start!Arrive
  <2>2. CASE ArriveDone(u)
    BY <2>2 DEF ArriveDone, Done!Arrive
  <2>3. CASE CallReturns(u)
    <3>1. Calls(u) \in 0 .. MaxPasses
      BY DEF Calls
    <3>2. Append(ran[u], Calls(u)) \in Seq(0 .. MaxPasses)
      BY <3>1
    <3>3. ran' \in [Units -> Seq(0 .. MaxPasses)]
      BY <2>3, <3>2 DEF CallReturns
    <3> QED BY <2>3, <3>3 DEF CallReturns
  <2>4. CASE CallPanics(u)
    BY <2>4 DEF CallPanics
  <2>5. CASE PoisonStart(u)
    BY <2>5 DEF PoisonStart, Start!Poison
  <2>6. CASE PoisonDone(u)
    BY <2>6 DEF PoisonDone, Done!Poison
  <2> QED BY <1>1, <2>1, <2>2, <2>3, <2>4, <2>5, <2>6 DEF UnitStep
<1>2. CASE Publish \/ BeginDrop
  <2>1. CASE Publish
    BY <2>1 DEF Publish
  <2>2. CASE BeginDrop
    BY <2>2 DEF BeginDrop
  <2> QED BY <1>2, <2>1, <2>2
<1>3. CASE DriverStarts \/ DriverFinishes
  BY <1>3 DEF DriverStarts, DriverFinishes, LeaveStart, LeaveDone, Start!Leave, Done!Leave
<1>4. CASE DropChecks \/ SetShutdown \/ DropArrives \/ DropLeaves \/ Join
  <2>1. CASE DropChecks
    BY <2>1 DEF DropChecks
  <2>2. CASE SetShutdown
    BY <2>2 DEF SetShutdown
  <2>3. CASE DropArrives
    BY <2>3 DEF DropArrives, Start!Arrive
  <2>4. CASE DropLeaves
    BY <2>4 DEF DropLeaves, Start!Leave
  <2>5. CASE Join
    BY <2>5 DEF Join
  <2> QED BY <1>4, <2>1, <2>2, <2>3, <2>4, <2>5
<1>5. CASE Opens
  BY <1>5 DEF Opens, OpenStart, OpenDone, Start!Open, Done!Open
<1>6. ASSUME NEW w \in Workers, WorkerStarts(w) \/ WorkerFinishes(w)
      PROVE TypeOK'
  <2>1. CASE WorkerStarts(w)
    BY <2>1 DEF WorkerStarts, LeaveStart, Start!Leave
  <2>2. CASE WorkerFinishes(w)
    BY <2>2 DEF WorkerFinishes, LeaveDone, Done!Leave
  <2> QED BY <1>6, <2>1, <2>2
<1>7. ASSUME NEW w \in Workers, CheckShutdown(w) \/ ReadTask(w)
      PROVE TypeOK'
  <2>1. CASE CheckShutdown(w)
    BY <2>1 DEF CheckShutdown
  <2>2. CASE ReadTask(w)
    BY <2>2 DEF ReadTask
  <2> QED BY <1>7, <2>1, <2>2
<1>8. CASE UNCHANGED vars
  BY <1>8 DEF vars
<1> QED
  <2>1. Driver \in Units /\ Workers \subseteq Units
    OBVIOUS
  <2> QED BY <2>1, <1>1, <1>2, <1>3, <1>4, <1>5, <1>6, <1>7, <1>8
          DEF Next, DriverStep, WorkerStep, Finished

LEMMA BarrierStep ==
  ASSUME TypeOK, BarrierInv, [Next]_vars
  PROVE  BarrierInv'
<1> USE DriverAssumption, MaxPassesAssumption DEF TypeOK, BarrierInv, Goto, Units, Between, barriers, Start!TypeOK, Done!TypeOK
<1>a. Driver \in Units /\ Workers \subseteq Units
  OBVIOUS
<1>1. ASSUME NEW u \in Units, ArriveStart(u) PROVE BarrierInv'
  BY <1>1, <1>a DEF ArriveStart, Start!Arrive
<1>2. ASSUME NEW u \in Units, ArriveDone(u) PROVE BarrierInv'
  BY <1>2, <1>a DEF ArriveDone, Done!Arrive
<1>3. ASSUME NEW u \in Units, CallReturns(u) PROVE BarrierInv'
  BY <1>3, <1>a DEF CallReturns
<1>4. ASSUME NEW u \in Units, CallPanics(u) PROVE BarrierInv'
  BY <1>4, <1>a DEF CallPanics
<1>5. ASSUME NEW u \in Units, PoisonStart(u) PROVE BarrierInv'
  BY <1>5, <1>a DEF PoisonStart, Start!Poison
<1>6. ASSUME NEW u \in Units, PoisonDone(u) PROVE BarrierInv'
  BY <1>6, <1>a DEF PoisonDone, Done!Poison
<1>7. CASE Publish
  BY <1>7, <1>a DEF Publish
<1>8. CASE BeginDrop
  BY <1>8, <1>a DEF BeginDrop
<1>9. CASE DriverStarts
  BY <1>9, <1>a DEF DriverStarts, LeaveStart, Start!Leave
<1>10. CASE DriverFinishes
  BY <1>10, <1>a DEF DriverFinishes, LeaveDone, Done!Leave
<1>11. CASE DropChecks
  BY <1>11, <1>a DEF DropChecks
<1>12. CASE SetShutdown
  BY <1>12, <1>a DEF SetShutdown
<1>13. CASE DropArrives
  BY <1>13, <1>a DEF DropArrives, Start!Arrive
<1>14. CASE DropLeaves
  BY <1>14, <1>a DEF DropLeaves, Start!Leave
<1>15. CASE Join
  BY <1>15, <1>a DEF Join
<1>16. CASE OpenStart
  BY <1>16, <1>a DEF OpenStart, Start!Open
<1>17. CASE OpenDone
  BY <1>17, <1>a DEF OpenDone, Done!Open
<1>18. ASSUME NEW w \in Workers, WorkerStarts(w) PROVE BarrierInv'
  BY <1>18, <1>a DEF WorkerStarts, LeaveStart, Start!Leave
<1>19. ASSUME NEW w \in Workers, WorkerFinishes(w) PROVE BarrierInv'
  BY <1>19, <1>a DEF WorkerFinishes, LeaveDone, Done!Leave
<1>20. ASSUME NEW w \in Workers, CheckShutdown(w) PROVE BarrierInv'
  BY <1>20, <1>a DEF CheckShutdown
<1>21. ASSUME NEW w \in Workers, ReadTask(w) PROVE BarrierInv'
  BY <1>21, <1>a DEF ReadTask
<1>22. CASE UNCHANGED vars
  BY <1>22 DEF vars, barriers
<1> QED BY <1>a, <1>1, <1>2, <1>3, <1>4, <1>5, <1>6, <1>7, <1>8, <1>9, <1>10, <1>11,
           <1>12, <1>13, <1>14, <1>15, <1>16, <1>17, <1>18, <1>19, <1>20, <1>21, <1>22
        DEF Next, DriverStep, WorkerStep, UnitStep, Opens, Finished

----------------------------------------------------------------------------
(* When the driver is about to publish in a sound pool, the workers are all *)
(* early: none is between the two barriers.                                 *)
LEMMA WorkersAreEarly ==
  ASSUME TypeOK, BarrierInv, HealthyInv, BrokenInv,
         ~startPoisoned, pc[Driver] \in {"idle", "toStart", "panicked"}
  PROVE  ~Broken /\ \A u \in Units : Early(u) /\ ~Late(u)
<1>1. ~Broken
  BY DEF BrokenInv
<1>2. Driver \in Units /\ ~Late(Driver)
  BY <1>1 DEF HealthyInv, Late, Units
<1>3. \A u \in Units : Early(u)
  BY <1>1, <1>2 DEF HealthyInv, SameSide
<1>4. \A u \in Units : Early(u) => ~Late(u)
  BY DEF Early, Late, TypeOK, Start!TypeOK, Done!TypeOK
<1> QED BY <1>1, <1>3, <1>4

LEMMA SlotStep ==
  ASSUME TypeOK, BarrierInv, HealthyInv, BrokenInv, SlotInv, [Next]_vars
  PROVE  SlotInv'
<1> USE DriverAssumption, MaxPassesAssumption DEF TypeOK, SlotInv, SamePass, Goto, Units, barriers
<1>a. Driver \in Units /\ Workers \subseteq Units
  OBVIOUS
<1>1. ASSUME NEW u \in Units, ArriveStart(u) PROVE SlotInv'
  BY <1>1, <1>a DEF ArriveStart, Start!Arrive
<1>2. ASSUME NEW u \in Units, ArriveDone(u) PROVE SlotInv'
  BY <1>2, <1>a DEF ArriveDone, Done!Arrive
<1>3. ASSUME NEW u \in Units, CallReturns(u) PROVE SlotInv'
  BY <1>3, <1>a DEF CallReturns
<1>4. ASSUME NEW u \in Units, CallPanics(u) PROVE SlotInv'
  BY <1>4, <1>a DEF CallPanics
<1>5. ASSUME NEW u \in Units, PoisonStart(u) PROVE SlotInv'
  BY <1>5, <1>a DEF PoisonStart, Start!Poison
<1>6. ASSUME NEW u \in Units, PoisonDone(u) PROVE SlotInv'
  BY <1>6, <1>a DEF PoisonDone, Done!Poison
<1>7. CASE Publish
  <2>1. ~startPoisoned => \A w \in Workers : pc[w] # "exec"
    BY <1>7, <1>a, WorkersAreEarly DEF Publish, Between, Late
  <2> QED BY <1>7, <1>a, <2>1 DEF Publish
<1>8. CASE BeginDrop
  BY <1>8, <1>a DEF BeginDrop
<1>9. CASE DriverStarts
  BY <1>9, <1>a DEF DriverStarts, LeaveStart, Start!Leave
<1>10. CASE DriverFinishes
  BY <1>10, <1>a DEF DriverFinishes, LeaveDone, Done!Leave
<1>11. CASE DropChecks
  BY <1>11, <1>a DEF DropChecks
<1>12. CASE SetShutdown
  BY <1>12, <1>a DEF SetShutdown
<1>13. CASE DropArrives
  BY <1>13, <1>a DEF DropArrives, Start!Arrive
<1>14. CASE DropLeaves
  BY <1>14, <1>a DEF DropLeaves, Start!Leave
<1>15. CASE Join
  BY <1>15, <1>a DEF Join
<1>16. CASE OpenStart
  BY <1>16, <1>a DEF OpenStart, Start!Open
<1>17. CASE OpenDone
  BY <1>17, <1>a DEF OpenDone, Done!Open
<1>18. ASSUME NEW w \in Workers, WorkerStarts(w) PROVE SlotInv'
  BY <1>18, <1>a DEF WorkerStarts, LeaveStart, Start!Leave
<1>19. ASSUME NEW w \in Workers, WorkerFinishes(w) PROVE SlotInv'
  BY <1>19, <1>a DEF WorkerFinishes, LeaveDone, Done!Leave
<1>20. ASSUME NEW w \in Workers, CheckShutdown(w) PROVE SlotInv'
  BY <1>20, <1>a DEF CheckShutdown
<1>21. ASSUME NEW w \in Workers, ReadTask(w) PROVE SlotInv'
  BY <1>21, <1>a DEF ReadTask
<1>22. CASE UNCHANGED vars
  BY <1>22 DEF vars, barriers
<1> QED BY <1>a, <1>1, <1>2, <1>3, <1>4, <1>5, <1>6, <1>7, <1>8, <1>9, <1>10, <1>11,
           <1>12, <1>13, <1>14, <1>15, <1>16, <1>17, <1>18, <1>19, <1>20, <1>21, <1>22
        DEF Next, DriverStep, WorkerStep, UnitStep, Opens, Finished

(* When a worker of a sound pool is in a pass, all units are late, and the *)
(* driver is in run().                                                     *)
LEMMA DriverIsLate ==
  ASSUME TypeOK, HealthyInv, ~Broken,
         NEW u \in Units, pc[u] \in {"readTask", "exec", "toDone"}
  PROVE  /\ \A v \in Units : Late(v) /\ ~Early(v)
         /\ ~shutdown /\ pass > 0
         /\ \/ pc[Driver] \in {"exec", "toDone"}
            \/ pc[Driver] = "inStart" /\ startAt[Driver] = "freed"
            \/ pc[Driver] = "inDone" /\ doneAt[Driver] = "in"
<1> USE DriverAssumption DEF Units
<1>1. Late(u) /\ ~Early(u)
  BY DEF Late, Early
<1>2. \A v \in Units : Late(v)
  BY <1>1 DEF HealthyInv, SameSide
<1>3. \A v \in Units : Late(v) => ~Early(v)
  BY DEF Early, Late, TypeOK, Start!TypeOK, Done!TypeOK
<1>4. ~shutdown
  <2>1. CASE u \in Workers
    BY <2>1, <1>1 DEF HealthyInv
  <2>2. CASE u = Driver
    BY <2>2 DEF HealthyInv, Closing
  <2> QED BY <2>1, <2>2
<1>5. pc[Driver] \notin Closing
  BY <1>4 DEF HealthyInv
<1>6. \/ pc[Driver] \in {"exec", "toDone"}
      \/ pc[Driver] = "inStart" /\ startAt[Driver] = "freed"
      \/ pc[Driver] = "inDone" /\ doneAt[Driver] = "in"
  BY <1>2, <1>5 DEF Late, Closing, TypeOK, DriverPCs, Between, InRun, InDrop
<1>7. pass > 0
  BY <1>6 DEF HealthyInv
<1> QED BY <1>2, <1>3, <1>4, <1>6, <1>7

LEMMA BrokenStep ==
  ASSUME TypeOK, BarrierInv, HealthyInv, BrokenInv, SlotInv, [Next]_vars
  PROVE  BrokenInv'
<1> USE DriverAssumption, MaxPassesAssumption DEF TypeOK, BarrierInv, BrokenInv, Broken, Goto, Units, Between, barriers, Start!TypeOK, Done!TypeOK
<1>a. Driver \in Units /\ Workers \subseteq Units
  OBVIOUS
<1>1. ASSUME NEW u \in Units, ArriveStart(u) PROVE BrokenInv'
  BY <1>1, <1>a DEF ArriveStart, Start!Arrive
<1>2. ASSUME NEW u \in Units, ArriveDone(u) PROVE BrokenInv'
  BY <1>2, <1>a DEF ArriveDone, Done!Arrive
<1>3. ASSUME NEW u \in Units, CallReturns(u) PROVE BrokenInv'
  BY <1>3, <1>a DEF CallReturns
<1>4. ASSUME NEW u \in Units, CallPanics(u) PROVE BrokenInv'
  <2>1. CASE Broken
    BY <1>4, <1>a, <2>1 DEF CallPanics
  <2>2. CASE ~Broken
    BY <1>4, <1>a, <2>2, DriverIsLate DEF CallPanics
  <2> QED BY <2>1, <2>2
<1>5. ASSUME NEW u \in Units, PoisonStart(u) PROVE BrokenInv'
  BY <1>5, <1>a DEF PoisonStart, Start!Poison
<1>6. ASSUME NEW u \in Units, PoisonDone(u) PROVE BrokenInv'
  BY <1>6, <1>a DEF PoisonDone, Done!Poison
<1>7. CASE Publish
  BY <1>7, <1>a DEF Publish
<1>8. CASE BeginDrop
  BY <1>8, <1>a DEF BeginDrop
<1>9. CASE DriverStarts
  BY <1>9, <1>a DEF DriverStarts, LeaveStart, Start!Leave
<1>10. CASE DriverFinishes
  BY <1>10, <1>a DEF DriverFinishes, LeaveDone, Done!Leave
<1>11. CASE DropChecks
  BY <1>11, <1>a DEF DropChecks
<1>12. CASE SetShutdown
  BY <1>12, <1>a DEF SetShutdown
<1>13. CASE DropArrives
  BY <1>13, <1>a DEF DropArrives, Start!Arrive
<1>14. CASE DropLeaves
  BY <1>14, <1>a DEF DropLeaves, Start!Leave
<1>15. CASE Join
  BY <1>15, <1>a DEF Join
<1>16. CASE OpenStart
  BY <1>16, <1>a DEF OpenStart, Start!Open
<1>17. CASE OpenDone
  BY <1>17, <1>a DEF OpenDone, Done!Open
<1>18. ASSUME NEW w \in Workers, WorkerStarts(w) PROVE BrokenInv'
  BY <1>18, <1>a DEF WorkerStarts, LeaveStart, Start!Leave
<1>19. ASSUME NEW w \in Workers, WorkerFinishes(w) PROVE BrokenInv'
  BY <1>19, <1>a DEF WorkerFinishes, LeaveDone, Done!Leave
<1>20. ASSUME NEW w \in Workers, CheckShutdown(w) PROVE BrokenInv'
  BY <1>20, <1>a DEF CheckShutdown
<1>21. ASSUME NEW w \in Workers, ReadTask(w) PROVE BrokenInv'
  <2>1. CASE Broken
    BY <1>21, <1>a, <2>1 DEF ReadTask
  <2>2. CASE ~Broken
    <3>1. task # NoTask
      BY <1>21, <1>a, <2>2, DriverIsLate DEF ReadTask, SlotInv, NoTask
    <3> QED BY <1>21, <1>a, <2>2, <3>1 DEF ReadTask
  <2> QED BY <2>1, <2>2
<1>22. CASE UNCHANGED vars
  BY <1>22 DEF vars, barriers
<1> QED BY <1>a, <1>1, <1>2, <1>3, <1>4, <1>5, <1>6, <1>7, <1>8, <1>9, <1>10, <1>11,
           <1>12, <1>13, <1>14, <1>15, <1>16, <1>17, <1>18, <1>19, <1>20, <1>21, <1>22
        DEF Next, DriverStep, WorkerStep, UnitStep, Opens, Finished

LEMMA HealthyStep ==
  ASSUME TypeOK, BarrierInv, HealthyInv, BrokenInv, SlotInv, [Next]_vars
  PROVE  HealthyInv'
<1> USE DriverAssumption, MaxPassesAssumption DEF TypeOK, BarrierInv, HealthyInv, Broken, SameSide, Early, Late, Completed, Closing, Goto, Units, Between, barriers, Start!TypeOK, Done!TypeOK, DriverPCs, WorkerPCs, InRun, InDrop
<1>a. Driver \in Units /\ Workers \subseteq Units
  OBVIOUS
<1>1. ASSUME NEW u \in Units, ArriveStart(u) PROVE HealthyInv'
  <2>1. CASE Broken
    BY <1>1, <1>a, <2>1 DEF ArriveStart, Start!Arrive
  <2>2. CASE ~Broken
    <3>1. ~startPoisoned
      BY <2>2
    <3>2. \A v \in Units : (Early(v)' <=> Early(v)) /\ (Late(v)' <=> Late(v))
      BY <1>1, <1>a, <2>2, <3>1 DEF ArriveStart, Start!Arrive
    <3>3. \A v \in Units : Completed(v)' = Completed(v)
      BY <1>1, <1>a, <2>2, <3>1, <3>2 DEF ArriveStart, Start!Arrive
    <3>4. \A v \in Units : ran'[v] = FirstPasses(Completed(v)')
      BY <1>1, <2>2, <3>3 DEF ArriveStart, Start!Arrive
    <3>5. SameSide'
      BY <2>2, <3>2
    <3> QED BY <1>1, <1>a, <2>2, <3>1, <3>2, <3>4, <3>5 DEF ArriveStart, Start!Arrive
  <2> QED BY <2>1, <2>2
<1>2. ASSUME NEW u \in Units, ArriveDone(u) PROVE HealthyInv'
  <2>1. CASE Broken
    BY <1>2, <1>a, <2>1 DEF ArriveDone, Done!Arrive
  <2>2. CASE ~Broken
    <3>1. ~startPoisoned
      BY <2>2
    <3>2. \A v \in Units : (Early(v)' <=> Early(v)) /\ (Late(v)' <=> Late(v))
      BY <1>2, <1>a, <2>2, <3>1 DEF ArriveDone, Done!Arrive
    <3>3. \A v \in Units : Completed(v)' = Completed(v)
      BY <1>2, <1>a, <2>2, <3>1, <3>2 DEF ArriveDone, Done!Arrive
    <3>4. \A v \in Units : ran'[v] = FirstPasses(Completed(v)')
      BY <1>2, <2>2, <3>3 DEF ArriveDone, Done!Arrive
    <3>5. SameSide'
      BY <2>2, <3>2
    <3> QED BY <1>2, <1>a, <2>2, <3>1, <3>2, <3>4, <3>5 DEF ArriveDone, Done!Arrive
  <2> QED BY <2>1, <2>2
<1>3. ASSUME NEW u \in Units, CallReturns(u) PROVE HealthyInv'
  <2>1. CASE Broken
    BY <1>3, <1>a, <2>1 DEF CallReturns
  <2>2. CASE ~Broken
    <3>1. /\ \A v \in Units : Late(v) /\ ~Early(v)
          /\ ~shutdown /\ pass > 0 /\ pc[Driver] \notin Closing
      BY <1>3, <1>a, <2>2, DriverIsLate DEF CallReturns
    <3>2. Calls(u) = pass
      BY <1>3, <1>a, <2>2 DEF CallReturns, Calls, SlotInv, SamePass
    <3>3. ran[u] = FirstPasses(pass - 1)
      BY <1>3, <1>a, <2>2, <3>1 DEF CallReturns
    <3>4. Append(ran[u], Calls(u)) = FirstPasses(pass)
      <4>1. pass \in Nat
        OBVIOUS
      <4>2. Append(FirstPasses(pass - 1), pass) = FirstPasses(pass)
        BY <3>1, <4>1, FirstPassesGrow
      <4> QED BY <3>2, <3>3, <4>2
    <3>5. \A v \in Units : Late(v)' /\ ~Early(v)'
      BY <1>3, <1>a, <3>1 DEF CallReturns
    <3>6. \A v \in Units : v # u => /\ ran'[v] = ran[v]
                                  /\ Completed(v)' = Completed(v)
      BY <1>3, <1>a, <3>1, <3>5 DEF CallReturns
    <3>7. ran'[u] = FirstPasses(pass) /\ Completed(u)' = pass
      BY <1>3, <1>a, <3>1, <3>4, <3>5 DEF CallReturns
    <3>8. \A v \in Units : ran'[v] = FirstPasses(Completed(v)')
      <4>1. \A v \in Units : v # u => ran'[v] = FirstPasses(Completed(v)')
        BY <2>2, <3>6 DEF HealthyInv
      <4>2. ran'[u] = FirstPasses(Completed(u)')
        BY <3>7
      <4> QED BY <4>1, <4>2
    <3> QED BY <1>3, <1>a, <2>2, <3>1, <3>5, <3>8 DEF CallReturns
  <2> QED BY <2>1, <2>2
<1>4. ASSUME NEW u \in Units, CallPanics(u) PROVE HealthyInv'
  BY <1>4, <1>a DEF CallPanics
<1>5. ASSUME NEW u \in Units, PoisonStart(u) PROVE HealthyInv'
  BY <1>5, <1>a DEF PoisonStart, Start!Poison
<1>6. ASSUME NEW u \in Units, PoisonDone(u) PROVE HealthyInv'
  BY <1>6, <1>a DEF PoisonDone, Done!Poison
<1>7. CASE Publish
  BY <1>7, <1>a DEF Publish
<1>8. CASE BeginDrop
  BY <1>8, <1>a DEF BeginDrop
<1>9. CASE DriverStarts
  <2>1. CASE Broken
    BY <1>9, <1>a, <2>1 DEF DriverStarts, LeaveStart, Start!Leave
  <2>2. CASE ~Broken
    <3>1. ~startPoisoned
      BY <2>2
    <3>2. \A v \in Units : (Early(v)' <=> Early(v)) /\ (Late(v)' <=> Late(v))
      BY <1>9, <1>a, <2>2, <3>1 DEF DriverStarts, LeaveStart, Start!Leave
    <3>3. \A v \in Units : Completed(v)' = Completed(v)
      BY <1>9, <1>a, <2>2, <3>1, <3>2 DEF DriverStarts, LeaveStart, Start!Leave
    <3>4. \A v \in Units : ran'[v] = FirstPasses(Completed(v)')
      BY <1>9, <2>2, <3>3 DEF DriverStarts, LeaveStart, Start!Leave
    <3>5. SameSide'
      BY <2>2, <3>2
    <3> QED BY <1>9, <1>a, <2>2, <3>1, <3>2, <3>4, <3>5 DEF DriverStarts, LeaveStart, Start!Leave
  <2> QED BY <2>1, <2>2
<1>10. CASE DriverFinishes
  BY <1>10, <1>a DEF DriverFinishes, LeaveDone, Done!Leave
<1>11. CASE DropChecks
  <2>1. CASE Broken
    BY <1>11, <2>1 DEF DropChecks
  <2>2. CASE ~Broken
    <3>1. \/ Goto(Driver, "checkStart", "checkDone")
          \/ Goto(Driver, "checkDone", "shutdown")
      BY <1>11, <2>2 DEF DropChecks
    <3> QED BY <1>11, <1>a, <2>2, <3>1 DEF DropChecks
  <2> QED BY <2>1, <2>2
<1>12. CASE SetShutdown
  <2>1. CASE Broken
    BY <1>12, <1>a, <2>1 DEF SetShutdown
  <2>2. CASE ~Broken
    <3>1. ~startPoisoned
      BY <2>2
    <3>2. \A v \in Units : (Early(v)' <=> Early(v)) /\ (Late(v)' <=> Late(v))
      BY <1>12, <1>a, <2>2, <3>1 DEF SetShutdown
    <3>3. \A v \in Units : Completed(v)' = Completed(v)
      BY <1>12, <1>a, <2>2, <3>1, <3>2 DEF SetShutdown
    <3>4. \A v \in Units : ran'[v] = FirstPasses(Completed(v)')
      BY <1>12, <2>2, <3>3 DEF SetShutdown
    <3>5. SameSide'
      BY <2>2, <3>2
    <3> QED BY <1>12, <1>a, <2>2, <3>1, <3>2, <3>4, <3>5 DEF SetShutdown
  <2> QED BY <2>1, <2>2
<1>13. CASE DropArrives
  BY <1>13, <1>a DEF DropArrives, Start!Arrive
<1>14. CASE DropLeaves
  <2>1. CASE Broken
    BY <1>14, <1>a, <2>1 DEF DropLeaves, Start!Leave
  <2>2. CASE ~Broken
    <3>1. ~startPoisoned
      BY <2>2
    <3>2. \A v \in Units : (Early(v)' <=> Early(v)) /\ (Late(v)' <=> Late(v))
      BY <1>14, <1>a, <2>2, <3>1 DEF DropLeaves, Start!Leave
    <3>3. \A v \in Units : Completed(v)' = Completed(v)
      BY <1>14, <1>a, <2>2, <3>1, <3>2 DEF DropLeaves, Start!Leave
    <3>4. \A v \in Units : ran'[v] = FirstPasses(Completed(v)')
      BY <1>14, <2>2, <3>3 DEF DropLeaves, Start!Leave
    <3>5. SameSide'
      BY <2>2, <3>2
    <3> QED BY <1>14, <1>a, <2>2, <3>1, <3>2, <3>4, <3>5 DEF DropLeaves, Start!Leave
  <2> QED BY <2>1, <2>2
<1>15. CASE Join
  BY <1>15, <1>a DEF Join
<1>16. CASE OpenStart
  BY <1>16, <1>a DEF OpenStart, Start!Open
<1>17. CASE OpenDone
  BY <1>17, <1>a DEF OpenDone, Done!Open
<1>18. ASSUME NEW w \in Workers, WorkerStarts(w) PROVE HealthyInv'
  <2>1. CASE Broken
    BY <1>18, <1>a, <2>1 DEF WorkerStarts, LeaveStart, Start!Leave
  <2>2. CASE ~Broken
    <3>1. ~startPoisoned
      BY <2>2
    <3>2. \A v \in Units : (Early(v)' <=> Early(v)) /\ (Late(v)' <=> Late(v))
      BY <1>18, <1>a, <2>2, <3>1 DEF WorkerStarts, LeaveStart, Start!Leave
    <3>3. \A v \in Units : Completed(v)' = Completed(v)
      BY <1>18, <1>a, <2>2, <3>1, <3>2 DEF WorkerStarts, LeaveStart, Start!Leave
    <3>4. \A v \in Units : ran'[v] = FirstPasses(Completed(v)')
      BY <1>18, <2>2, <3>3 DEF WorkerStarts, LeaveStart, Start!Leave
    <3>5. SameSide'
      BY <2>2, <3>2
    <3> QED BY <1>18, <1>a, <2>2, <3>1, <3>2, <3>4, <3>5 DEF WorkerStarts, LeaveStart, Start!Leave
  <2> QED BY <2>1, <2>2
<1>19. ASSUME NEW w \in Workers, WorkerFinishes(w) PROVE HealthyInv'
  <2>1. CASE Broken
    BY <1>19, <1>a, <2>1 DEF WorkerFinishes, LeaveDone, Done!Leave
  <2>2. CASE ~Broken
    <3>1. ~startPoisoned
      BY <2>2
    <3>2. \A v \in Units : (Early(v)' <=> Early(v)) /\ (Late(v)' <=> Late(v))
      BY <1>19, <1>a, <2>2, <3>1 DEF WorkerFinishes, LeaveDone, Done!Leave
    <3>3. \A v \in Units : Completed(v)' = Completed(v)
      BY <1>19, <1>a, <2>2, <3>1, <3>2 DEF WorkerFinishes, LeaveDone, Done!Leave
    <3>4. \A v \in Units : ran'[v] = FirstPasses(Completed(v)')
      BY <1>19, <2>2, <3>3 DEF WorkerFinishes, LeaveDone, Done!Leave
    <3>5. SameSide'
      BY <2>2, <3>2
    <3> QED BY <1>19, <1>a, <2>2, <3>1, <3>2, <3>4, <3>5 DEF WorkerFinishes, LeaveDone, Done!Leave
  <2> QED BY <2>1, <2>2
<1>20. ASSUME NEW w \in Workers, CheckShutdown(w) PROVE HealthyInv'
  <2>1. CASE Broken
    BY <1>20, <1>a, <2>1 DEF CheckShutdown
  <2>2. CASE ~Broken
    <3>1. ~startPoisoned
      BY <2>2
    <3>2. \A v \in Units : (Early(v)' <=> Early(v)) /\ (Late(v)' <=> Late(v))
      BY <1>20, <1>a, <2>2, <3>1 DEF CheckShutdown
    <3>3. \A v \in Units : Completed(v)' = Completed(v)
      BY <1>20, <1>a, <2>2, <3>1, <3>2 DEF CheckShutdown
    <3>4. \A v \in Units : ran'[v] = FirstPasses(Completed(v)')
      BY <1>20, <2>2, <3>3 DEF CheckShutdown
    <3>5. SameSide'
      BY <2>2, <3>2
    <3> QED BY <1>20, <1>a, <2>2, <3>1, <3>2, <3>4, <3>5 DEF CheckShutdown
  <2> QED BY <2>1, <2>2
<1>21. ASSUME NEW w \in Workers, ReadTask(w) PROVE HealthyInv'
  BY <1>21, <1>a DEF ReadTask
<1>22. CASE UNCHANGED vars
  BY <1>22 DEF vars, barriers
<1> QED BY <1>a, <1>1, <1>2, <1>3, <1>4, <1>5, <1>6, <1>7, <1>8, <1>9, <1>10, <1>11,
           <1>12, <1>13, <1>14, <1>15, <1>16, <1>17, <1>18, <1>19, <1>20, <1>21, <1>22
        DEF Next, DriverStep, WorkerStep, UnitStep, Opens, Finished

----------------------------------------------------------------------------
(* The invariant and what follows from it *)

LEMMA IInvInit == Init => IInv
<1> SUFFICES ASSUME Init PROVE IInv
  OBVIOUS
<1> USE DriverAssumption DEF Init, Start!Init, Done!Init
<1>1. TypeOK
  BY TypeInit
<1>2. BarrierInv /\ ~Broken /\ BrokenInv
  BY DEF BarrierInv, BrokenInv, Broken
<1>3. \A u \in Units : Early(u)
  BY DEF Early
<1>4. \A u \in Units : ran[u] = FirstPasses(Completed(u))
  <2>1. Early(Driver) /\ pc[Driver] = "idle"
    BY <1>3 DEF Units
  <2>2. \A u \in Units : Completed(u) = 0
    BY <2>1 DEF Completed
  <2> QED BY <2>2, FirstPassesGrow
<1>5. \A w \in Workers : ~Late(w)
  BY DEF Late, Units
<1>6. HealthyInv
  BY <1>3, <1>4, <1>5 DEF HealthyInv, SameSide, Closing, Units
<1>7. SlotInv
  BY DEF SlotInv, SamePass, NoTask, Units
<1> QED BY <1>1, <1>2, <1>6, <1>7 DEF IInv

LEMMA IInvStep == IInv /\ [Next]_vars => IInv'
BY TypeStep, BarrierStep, HealthyStep, BrokenStep, SlotStep DEF IInv

(* The inductive invariant of the pool. *)
THEOREM Invariance == Spec => []IInv
BY IInvInit, IInvStep, PTL DEF Spec

(* Every variable of the pool keeps its type. *)
THEOREM TypeCorrect == Spec => []TypeOK
<1>1. IInv => TypeOK
  BY DEF IInv
<1> QED BY <1>1, Invariance, PTL

(* A run() that returns has run its closure once on every unit, and no pass *)
(* before it was lost or run twice (host_pool.rs:366-367).                  *)
THEOREM RunCorrect == Spec => []RunIsComplete
<1>1. IInv => RunIsComplete
  <2> SUFFICES ASSUME IInv, pc[Driver] = "idle"
               PROVE  /\ \A u \in Units : ran[u] = FirstPasses(pass)
                      /\ ~startPoisoned /\ ~donePoisoned
    BY DEF RunIsComplete
  <2>1. ~Broken
    BY DEF IInv, BrokenInv
  <2>2. Early(Driver)
    BY DEF Early
  <2>3. \A u \in Units : Completed(u) = pass
    BY <2>2 DEF Completed
  <2> QED BY <2>1, <2>3 DEF IInv, HealthyInv, BarrierInv, Broken
<1> QED BY <1>1, Invariance, PTL

(* No worker reads the slot while the driver may write it, as long as no    *)
(* panic has been seen (host_pool.rs:298-300).                              *)
THEOREM SlotCorrect == Spec => []SlotIsExclusive
<1>1. IInv => SlotIsExclusive
  <2> SUFFICES ASSUME IInv, pc[Driver] \in {"idle", "toStart"}, ~startPoisoned
               PROVE  \A w \in Workers : pc[w] \notin BetweenBarriers
    BY DEF SlotIsExclusive
  <2>1. \A u \in Units : ~Late(u)
    BY WorkersAreEarly DEF IInv
  <2> QED BY <2>1 DEF Late, BetweenBarriers, Units
<1> QED BY <1>1, Invariance, PTL

(* No worker runs an old closure that was left in the slot. *)
THEOREM SamePassCorrect == Spec => []SamePass
<1>1. IInv => SamePass
  BY DEF IInv, SlotInv
<1> QED BY <1>1, Invariance, PTL
=============================================================================
