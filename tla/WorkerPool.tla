----------------------------- MODULE WorkerPool -----------------------------
(***************************************************************************)
(* The fork-join pool of crates/mlrs-backend/src/prims/host_pool.rs: the   *)
(* thread that owns the pool (the driver, unit 0) publishes one closure    *)
(* per pass in a shared slot, crosses the barrier "start" with its         *)
(* workers, runs its own share, and crosses the barrier "done".  A unit    *)
(* whose closure panics poisons both barriers.  Dropping the pool releases *)
(* the workers a last time with the shutdown flag set and joins them.      *)
(*                                                                         *)
(* The two barriers are instances of Rendezvous, which HostBarrier         *)
(* implements.  A closure is the number of its pass.  A pool of one unit   *)
(* (no barrier, no thread) has no state to model.                          *)
(***************************************************************************)
EXTENDS Naturals, Sequences

CONSTANTS
  Driver,               \* the thread that built the pool
  Workers,              \* the threads it spawned
  MaxPasses             \* bound: how many times the driver calls run()

ASSUME DriverAssumption == Driver \notin Workers
ASSUME WorkersAssumption == Workers # {}
ASSUME MaxPassesAssumption == MaxPasses \in Nat

Units == Workers \cup {Driver}

NoTask == 0

VARIABLES
  pc,                   \* where each unit is in run(), drop() or worker_loop()
  startAt, startPoisoned,   \* the barrier "start"
  doneAt, donePoisoned,     \* the barrier "done"
  task,                 \* the shared slot: the pass to run, or NoTask
  shutdown,             \* the flag that ends worker_loop
  got,                  \* the task each worker has copied out of the slot
  pass,                 \* the number of the last call of run()
  ran                   \* history: the passes whose closure each unit has run

barriers == <<startAt, startPoisoned, doneAt, donePoisoned>>
vars == <<pc, barriers, task, shutdown, got, pass, ran>>

Start == INSTANCE Rendezvous WITH at <- startAt, poisoned <- startPoisoned
Done  == INSTANCE Rendezvous WITH at <- doneAt, poisoned <- donePoisoned

(* The driver between two calls, after a run() that returned or panicked. *)
Between == {"idle", "panicked"}
InRun   == {"toStart", "inStart", "exec", "toDone", "inDone", "poisonStart", "poisonDone"}
InDrop  == {"checkStart", "checkDone", "shutdown", "dropStart", "dropIn", "join"}
DriverPCs == Between \cup InRun \cup InDrop \cup {"dropped"}
WorkerPCs == InRun \cup {"checkShutdown", "readTask", "exited"}

TypeOK ==
  /\ pc \in [Units -> DriverPCs \cup WorkerPCs]
  /\ pc[Driver] \in DriverPCs
  /\ \A w \in Workers : pc[w] \in WorkerPCs
  /\ Start!TypeOK
  /\ Done!TypeOK
  /\ task \in 0 .. MaxPasses
  /\ shutdown \in BOOLEAN
  /\ got \in [Workers -> 0 .. MaxPasses]
  /\ pass \in 0 .. MaxPasses
  /\ ran \in [Units -> Seq(0 .. MaxPasses)]

Init ==
  /\ pc = [u \in Units |-> IF u = Driver THEN "idle" ELSE "toStart"]
  /\ Start!Init
  /\ Done!Init
  /\ task = NoTask
  /\ shutdown = FALSE
  /\ got = [w \in Workers |-> NoTask]
  /\ pass = 0
  /\ ran = [u \in Units |-> <<>>]

Goto(u, from, to) == pc[u] = from /\ pc' = [pc EXCEPT ![u] = to]

----------------------------------------------------------------------------
(* The barriers.  Open is the step of the last unit in. *)

ArriveStart(u) ==
  /\ Goto(u, "toStart", "inStart")
  /\ Start!Arrive(u)
  /\ UNCHANGED <<doneAt, donePoisoned, task, shutdown, got, pass, ran>>

OpenStart ==
  /\ Start!Open
  /\ UNCHANGED <<pc, doneAt, donePoisoned, task, shutdown, got, pass, ran>>

ArriveDone(u) ==
  /\ Goto(u, "toDone", "inDone")
  /\ Done!Arrive(u)
  /\ UNCHANGED <<startAt, startPoisoned, task, shutdown, got, pass, ran>>

OpenDone ==
  /\ Done!Open
  /\ UNCHANGED <<pc, startAt, startPoisoned, task, shutdown, got, pass, ran>>

(* start.wait() has returned to u, which goes on or learns of the poison. *)
LeaveStart(u, ok, poisoned) ==
  /\ Goto(u, "inStart", IF startPoisoned THEN poisoned ELSE ok)
  /\ Start!Leave(u)
  /\ UNCHANGED <<doneAt, donePoisoned, task, shutdown, got, pass, ran>>

LeaveDone(u, ok, poisoned) ==
  /\ Goto(u, "inDone", IF donePoisoned THEN poisoned ELSE ok)
  /\ Done!Leave(u)
  /\ UNCHANGED <<startAt, startPoisoned, task, shutdown, got, pass, ran>>

----------------------------------------------------------------------------
(* The closure, called under catch_unwind by every unit *)

(* The pass whose closure u calls. *)
Calls(u) == IF u = Driver THEN pass ELSE got[u]

(* Mutant of CallReturns: the driver returns without crossing "done". *)
CallReturnsUnjoined(u) ==
  /\ Goto(u, "exec", IF u = Driver THEN "idle" ELSE "toDone")
  /\ ran' = [ran EXCEPT ![u] = Append(@, Calls(u))]
  /\ UNCHANGED <<barriers, task, shutdown, got, pass>>

CallReturns(u) ==
  /\ Goto(u, "exec", "toDone")
  /\ ran' = [ran EXCEPT ![u] = Append(@, Calls(u))]
  /\ UNCHANGED <<barriers, task, shutdown, got, pass>>

CallPanics(u) ==
  /\ Goto(u, "exec", "poisonStart")
  /\ UNCHANGED <<barriers, task, shutdown, got, pass, ran>>

PoisonStart(u) ==
  /\ Goto(u, "poisonStart", "poisonDone")
  /\ Start!Poison
  /\ UNCHANGED <<doneAt, donePoisoned, task, shutdown, got, pass, ran>>

(* Mutant of PoisonDone: only "start" is poisoned. *)
PoisonStartOnly(u) ==
  /\ Goto(u, "poisonDone", IF u = Driver THEN "panicked" ELSE "exited")
  /\ UNCHANGED <<barriers, task, shutdown, got, pass, ran>>

(* The driver resumes its panic, a worker returns from worker_loop. *)
PoisonDone(u) ==
  /\ Goto(u, "poisonDone", IF u = Driver THEN "panicked" ELSE "exited")
  /\ Done!Poison
  /\ UNCHANGED <<startAt, startPoisoned, task, shutdown, got, pass, ran>>

----------------------------------------------------------------------------
(* run(): the owner calls it after any earlier run(), panicked or not *)

(* Mutant of Publish: the slot keeps the first closure it was given. *)
PublishOnce ==
  /\ pass < MaxPasses
  /\ pc[Driver] \in Between
  /\ pc' = [pc EXCEPT ![Driver] = "toStart"]
  /\ pass' = pass + 1
  /\ task' = IF task = NoTask THEN pass + 1 ELSE task
  /\ UNCHANGED <<barriers, shutdown, got, ran>>

Publish ==
  /\ pass < MaxPasses
  /\ pc[Driver] \in Between
  /\ pc' = [pc EXCEPT ![Driver] = "toStart"]
  /\ pass' = pass + 1
  /\ task' = pass + 1
  /\ UNCHANGED <<barriers, shutdown, got, ran>>

DriverStarts   == LeaveStart(Driver, "exec", "panicked")
(* Mutant of DriverFinishes: what done.wait() returns is ignored. *)
DriverIgnoresPoison == LeaveDone(Driver, "idle", "idle")

DriverFinishes == LeaveDone(Driver, "idle", "panicked")

----------------------------------------------------------------------------
(* drop() *)

BeginDrop ==
  /\ pc[Driver] \in Between
  /\ pc' = [pc EXCEPT ![Driver] = "checkStart"]
  /\ UNCHANGED <<barriers, task, shutdown, got, pass, ran>>

(* The pool is released once more only if neither barrier is poisoned. *)
DropChecks ==
  /\ \/ Goto(Driver, "checkStart", IF startPoisoned THEN "join" ELSE "checkDone")
     \/ Goto(Driver, "checkDone", IF donePoisoned THEN "join" ELSE "shutdown")
  /\ UNCHANGED <<barriers, task, shutdown, got, pass, ran>>

(* Mutant of SetShutdown: the workers are released without the flag. *)
NoShutdown ==
  /\ Goto(Driver, "shutdown", "dropStart")
  /\ UNCHANGED <<barriers, task, shutdown, got, pass, ran>>

SetShutdown ==
  /\ Goto(Driver, "shutdown", "dropStart")
  /\ shutdown' = TRUE
  /\ UNCHANGED <<barriers, task, got, pass, ran>>

DropArrives ==
  /\ Goto(Driver, "dropStart", "dropIn")
  /\ Start!Arrive(Driver)
  /\ UNCHANGED <<doneAt, donePoisoned, task, shutdown, got, pass, ran>>

DropLeaves ==
  /\ Goto(Driver, "dropIn", "join")
  /\ Start!Leave(Driver)
  /\ UNCHANGED <<doneAt, donePoisoned, task, shutdown, got, pass, ran>>

Join ==
  /\ \A w \in Workers : pc[w] = "exited"
  /\ Goto(Driver, "join", "dropped")
  /\ UNCHANGED <<barriers, task, shutdown, got, pass, ran>>

----------------------------------------------------------------------------
(* worker_loop() *)

WorkerStarts(w)   == LeaveStart(w, "checkShutdown", "exited")
WorkerFinishes(w) == LeaveDone(w, "toStart", "exited")

CheckShutdown(w) ==
  /\ Goto(w, "checkShutdown", IF shutdown THEN "exited" ELSE "readTask")
  /\ UNCHANGED <<barriers, task, shutdown, got, pass, ran>>

(* Copy the task out of the slot; an empty slot is treated as a panic. *)
ReadTask(w) ==
  /\ Goto(w, "readTask", IF task = NoTask THEN "poisonStart" ELSE "exec")
  /\ got' = [got EXCEPT ![w] = task]
  /\ UNCHANGED <<barriers, task, shutdown, pass, ran>>

----------------------------------------------------------------------------
(* The steps of any unit in a pass, of the driver and of a worker *)
UnitStep(u) ==
  \/ ArriveStart(u) \/ ArriveDone(u) \/ CallReturns(u) \/ CallPanics(u)
  \/ PoisonStart(u) \/ PoisonDone(u)

DriverStep ==
  \/ UnitStep(Driver) \/ DriverStarts \/ DriverFinishes
  \/ DropChecks \/ SetShutdown \/ DropArrives \/ DropLeaves \/ Join

WorkerStep(w) ==
  \/ UnitStep(w) \/ WorkerStarts(w) \/ WorkerFinishes(w)
  \/ CheckShutdown(w) \/ ReadTask(w)

Opens == OpenStart \/ OpenDone

Finished == pc[Driver] = "dropped" /\ UNCHANGED vars

Next ==
  \/ Publish \/ BeginDrop \/ DriverStep \/ Opens \/ Finished
  \/ \E w \in Workers : WorkerStep(w)

(***************************************************************************)
(* Threads run and closures return or panic.  The owner is free to call    *)
(* run() or drop() whenever it likes, or never.                            *)
(***************************************************************************)
Fairness ==
  /\ WF_vars(DriverStep) /\ WF_vars(Opens)
  /\ \A w \in Workers : WF_vars(WorkerStep(w))

Spec == Init /\ [][Next]_vars /\ Fairness

----------------------------------------------------------------------------
FirstPasses(n) == [i \in 1 .. n |-> i]

(***************************************************************************)
(* When run() has returned, every unit has called every closure exactly    *)
(* once and in order, and the pool is sound: "every unit u in 0..units     *)
(* calls f(u) exactly once, and run returns only after all of them have"   *)
(* (host_pool.rs:366-367), and a panic never goes unnoticed (374-376).     *)
(***************************************************************************)
RunIsComplete ==
  pc[Driver] = "idle" =>
    /\ \A u \in Units : ran[u] = FirstPasses(pass)
    /\ ~startPoisoned /\ ~donePoisoned

(***************************************************************************)
(* The slot is written only while every worker is blocked on start, unless *)
(* a panic has been seen: no worker is between the two barriers when the   *)
(* driver publishes, so none reads a half-written or a stale task          *)
(* (SAFETY comment, host_pool.rs:298-300).                                 *)
(***************************************************************************)
BetweenBarriers == {"checkShutdown", "readTask", "exec"}

SlotIsExclusive ==
  pc[Driver] \in {"idle", "toStart"} /\ ~startPoisoned =>
    \A w \in Workers : pc[w] \notin BetweenBarriers

(***************************************************************************)
(* A pass in which nobody has panicked runs one closure: the one just      *)
(* published, never an older one left in the slot.                         *)
(***************************************************************************)
SamePass ==
  ~startPoisoned => \A w \in Workers : pc[w] = "exec" => got[w] = pass

(* Every run() returns or panics, even when closures panic on any subset   *)
(* of the units: nobody waits at a barrier that cannot complete.           *)
RunEnds == pc[Driver] \in InRun ~> pc[Driver] \in Between

(* Every drop() ends, and then no worker thread is left.                   *)
DropEnds == pc[Driver] \in InDrop ~> pc[Driver] = "dropped"

(***************************************************************************)
(* "data points at a closure the driver keeps alive across the whole pass  *)
(* (it is borrowed for the duration of WorkerPool::run)" (269-271): a      *)
(* worker that calls a closure does so while the driver is in the run()    *)
(* that borrowed it.  The code does not ensure it after a panic.           *)
(***************************************************************************)
ClosureOutlivesCalls ==
  \A w \in Workers : pc[w] = "exec" => pc[Driver] \in InRun /\ got[w] = pass
=============================================================================
