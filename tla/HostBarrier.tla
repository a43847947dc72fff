---------------------------- MODULE HostBarrier -----------------------------
(***************************************************************************)
(* The sense-reversing barrier of crates/mlrs-backend/src/prims/           *)
(* host_pool.rs: an arrival counter, an epoch that releases the waiters, a *)
(* poison flag, and a mutex with a condition variable for waiters that     *)
(* have spun and yielded long enough.                                      *)
(*                                                                         *)
(* Every atomic access, lock operation and condvar operation of wait() and *)
(* poison() is a step of its own, except that                              *)
(*   - released() reads epoch and then poisoned in one step (an epoch      *)
(*     changes at most once under a waiter and poisoned is never reset, so *)
(*     the two reads cannot give an answer that neither moment would);     *)
(*   - a lock is released in the step of the last access made under it;    *)
(*   - the spin and the yield stage are one loop that may give up at any   *)
(*     poll.                                                               *)
(* The epoch is a usize that wraps: it is kept modulo Wrap (2^64 in the    *)
(* code, any number above 1 here).  The inline path of wait() for a single *)
(* worker has no state to model: there are at least two Units.             *)
(***************************************************************************)
EXTENDS Naturals, FiniteSets

CONSTANTS
  Units,                \* the threads that share the barrier
  Nobody,               \* the holder of a free lock
  Wrap,                 \* how many values the epoch counter has
  MaxArrived            \* bound: no call starts above this count of arrivals

ASSUME UnitsAssumption == IsFiniteSet(Units) /\ Cardinality(Units) >= 2
ASSUME NobodyAssumption == Nobody \notin Units
ASSUME WrapAssumption == Wrap \in Nat /\ Wrap >= 2
ASSUME MaxArrivedAssumption == MaxArrived \in Nat /\ MaxArrived >= Cardinality(Units)

VARIABLES
  pc,                   \* where each unit is in wait() or poison()
  seen,                 \* the epoch each unit loaded when it entered wait()
  arrived,              \* the counter of arrivals of this round
  epoch,                \* the published epoch
  poisoned,             \* the poison flag
  lock                  \* the holder of the mutex, or Nobody

vars == <<pc, seen, arrived, epoch, poisoned, lock>>

workers == Cardinality(Units)

(* The points of wait() at which a unit has been counted as arrived. *)
Opening == {"reset", "lockpub", "publish"}
Waiting == {"poll", "lockwait", "check", "park", "parked"}
Inside  == Opening \cup Waiting \cup {"notify", "ret"}
Outside == {"out", "arrive", "poisonlock", "poisonnotify"}

(* The points at which a unit holds the mutex. *)
Holding == {"publish", "check", "park"}

TypeOK ==
  /\ pc \in [Units -> Inside \cup Outside]
  /\ seen \in [Units -> 0 .. Wrap - 1]
  /\ arrived \in Nat
  /\ epoch \in 0 .. Wrap - 1
  /\ poisoned \in BOOLEAN
  /\ lock \in Units \cup {Nobody}

Init ==
  /\ pc = [u \in Units |-> "out"]
  /\ seen = [u \in Units |-> 0]
  /\ arrived = 0
  /\ epoch = 0
  /\ poisoned = FALSE
  /\ lock = Nobody

Goto(u, from, to) == pc[u] = from /\ pc' = [pc EXCEPT ![u] = to]

released(u) == epoch # seen[u] \/ poisoned

----------------------------------------------------------------------------
(* wait() *)

(* Load the epoch this call has to outlive.  Only calls of a poisoned barrier *)
(* push the counter over the number of units; MaxArrived bounds them.         *)
Enter(u) ==
  /\ arrived <= MaxArrived
  /\ Goto(u, "out", "arrive")
  /\ seen' = [seen EXCEPT ![u] = epoch]
  /\ UNCHANGED <<arrived, epoch, poisoned, lock>>

(* Mutant of Arrive: the last unit but one opens the barrier. *)
EarlyArrive(u) ==
  /\ Goto(u, "arrive", IF arrived + 2 = workers THEN "reset" ELSE "poll")
  /\ arrived' = arrived + 1
  /\ UNCHANGED <<seen, epoch, poisoned, lock>>

(* arrived.fetch_add(1): the last one in opens the barrier. *)
Arrive(u) ==
  /\ Goto(u, "arrive", IF arrived + 1 = workers THEN "reset" ELSE "poll")
  /\ arrived' = arrived + 1
  /\ UNCHANGED <<seen, epoch, poisoned, lock>>

(* Mutant of Reset: the count of this round is left to the next. *)
NoReset(u) ==
  /\ Goto(u, "reset", "lockpub")
  /\ UNCHANGED <<seen, arrived, epoch, poisoned, lock>>

(* The counter is reset before the epoch is published. *)
Reset(u) ==
  /\ Goto(u, "reset", "lockpub")
  /\ arrived' = 0
  /\ UNCHANGED <<seen, epoch, poisoned, lock>>

LockToPublish(u) ==
  /\ lock = Nobody
  /\ Goto(u, "lockpub", "publish")
  /\ lock' = u
  /\ UNCHANGED <<seen, arrived, epoch, poisoned>>

(* Store the next epoch and drop the guard. *)
Publish(u) ==
  /\ Goto(u, "publish", "notify")
  /\ epoch' = (seen[u] + 1) % Wrap
  /\ lock' = Nobody
  /\ UNCHANGED <<seen, arrived, poisoned>>

(* cv.notify_all: every parked unit goes on to take the lock again. *)
WakeAll(u, to) ==
  pc' = [v \in Units |-> IF v = u THEN to
                         ELSE IF pc[v] = "parked" THEN "lockwait" ELSE pc[v]]

(* Mutant of Notify: notify_one. *)
NotifyOne(u) ==
  /\ pc[u] = "notify"
  /\ IF \E v \in Units : pc[v] = "parked"
     THEN \E v \in Units : pc[v] = "parked" /\ pc' = [pc EXCEPT ![u] = "ret", ![v] = "lockwait"]
     ELSE pc' = [pc EXCEPT ![u] = "ret"]
  /\ UNCHANGED <<seen, arrived, epoch, poisoned, lock>>

Notify(u) ==
  /\ pc[u] = "notify"
  /\ WakeAll(u, "ret")
  /\ UNCHANGED <<seen, arrived, epoch, poisoned, lock>>

(* The spin and yield stages: leave when released, or give up polling. *)
Poll(u) ==
  /\ Goto(u, "poll", IF released(u) THEN "ret" ELSE "lockwait")
  /\ UNCHANGED <<seen, arrived, epoch, poisoned, lock>>

(* The parking stage takes the lock, first and after every wake-up. *)
LockToWait(u) ==
  /\ lock = Nobody
  /\ Goto(u, "lockwait", "check")
  /\ lock' = u
  /\ UNCHANGED <<seen, arrived, epoch, poisoned>>

(* while !released(epoch), under the lock; the guard is dropped on the way out. *)
Check(u) ==
  /\ Goto(u, "check", IF released(u) THEN "ret" ELSE "park")
  /\ lock' = IF released(u) THEN Nobody ELSE lock
  /\ UNCHANGED <<seen, arrived, epoch, poisoned>>

(* wait_timeout queues the unit on the condvar and frees the lock. *)
Park(u) ==
  /\ Goto(u, "park", "parked")
  /\ lock' = Nobody
  /\ UNCHANGED <<seen, arrived, epoch, poisoned>>

(* The 2 ms timeout, or a spurious wake-up. *)
TimedWake(u) ==
  /\ Goto(u, "parked", "lockwait")
  /\ UNCHANGED <<seen, arrived, epoch, poisoned, lock>>

(* wait() returns !poisoned: the flag is read in this step. *)
Return(u) ==
  /\ Goto(u, "ret", "out")
  /\ UNCHANGED <<seen, arrived, epoch, poisoned, lock>>

----------------------------------------------------------------------------
(* poison() *)

SetPoisoned(u) ==
  /\ Goto(u, "out", "poisonlock")
  /\ poisoned' = TRUE
  /\ UNCHANGED <<seen, arrived, epoch, lock>>

(* Mutant of PoisonLock: poison() notifies without having had the lock. *)
NoPoisonLock(u) ==
  /\ Goto(u, "poisonlock", "poisonnotify")
  /\ UNCHANGED <<seen, arrived, epoch, poisoned, lock>>

(* Take the lock and drop it: nobody is between its check and its park. *)
PoisonLock(u) ==
  /\ lock = Nobody
  /\ Goto(u, "poisonlock", "poisonnotify")
  /\ UNCHANGED <<seen, arrived, epoch, poisoned, lock>>

PoisonNotify(u) ==
  /\ pc[u] = "poisonnotify"
  /\ WakeAll(u, "out")
  /\ UNCHANGED <<seen, arrived, epoch, poisoned, lock>>

----------------------------------------------------------------------------
(* The steps of a call that is under way, without the wait for the mutex. *)
Run(u) ==
  \/ Arrive(u) \/ Reset(u) \/ Publish(u) \/ Notify(u) \/ Poll(u)
  \/ Check(u) \/ Park(u) \/ Return(u) \/ PoisonNotify(u)

Acquire(u) == LockToPublish(u) \/ LockToWait(u) \/ PoisonLock(u)

Step(u) == Run(u) \/ Acquire(u) \/ Enter(u) \/ TimedWake(u) \/ SetPoisoned(u)

Next == \E u \in Units : Step(u)

(***************************************************************************)
(* The scheduler runs a thread that can run, and a thread that asks for    *)
(* the mutex again and again when it is free gets it (its critical         *)
(* sections are a few instructions long).  Nothing makes a thread call     *)
(* wait() or poison(), and nothing relies on the 2 ms timeout: TimedWake   *)
(* is allowed and not fair.                                                *)
(***************************************************************************)
Fairness == \A u \in Units : WF_vars(Run(u)) /\ SF_vars(Acquire(u))

Spec == Init /\ [][Next]_vars /\ Fairness

----------------------------------------------------------------------------
(* The refinement mapping: a unit is in the barrier from its fetch_add to  *)
(* the publication of the next epoch, and freed by it or by the poison.    *)
at == [u \in Units |->
         IF pc[u] \in Outside THEN "out"
         ELSE IF released(u) THEN "freed" ELSE "in"]

Abstract == INSTANCE Rendezvous

(***************************************************************************)
(* Every step of wait() and poison() is a step of the abstract barrier:    *)
(* nobody returns before all have arrived, unless poisoned (wait's         *)
(* contract, host_pool.rs:103-105), rounds after rounds, with fast units   *)
(* entering the next round while slow ones still leave this one.           *)
(***************************************************************************)
ImplementsRendezvous == Abstract!Spec

(***************************************************************************)
(* No caller hangs: a full barrier opens, an opened or poisoned one lets   *)
(* everybody return, without the help of the condvar's timeout             *)
(* ("no lost wakeup", host_pool.rs:75-77; "a HANG", host_pool.rs:69-73).   *)
(***************************************************************************)
NobodyHangs == Abstract!Progress

(***************************************************************************)
(* A unit that sleeps although it was released is about to be notified:    *)
(* there is always a thread that has yet to call notify_all for it.        *)
(***************************************************************************)
NoLostWakeup ==
  \A u \in Units : pc[u] = "parked" /\ released(u) =>
    \E v \in Units : pc[v] \in {"notify", "poisonlock", "poisonnotify"}

(***************************************************************************)
(* Until the barrier is poisoned the counter is the number of units in the *)
(* current round, 0 once its last unit has reset it, and at most one unit  *)
(* is opening it.  A stale count after a release is what the order of      *)
(* reset and publication avoids (host_pool.rs:112-113).                    *)
(***************************************************************************)
InRound == {u \in Units : at[u] = "in"}

CountMatchesRound ==
  ~poisoned =>
    /\ \A u, v \in Units : pc[u] \in Opening /\ pc[v] \in Opening => u = v
    /\ arrived = IF \E u \in Units : pc[u] \in {"lockpub", "publish"}
                 THEN 0 ELSE Cardinality(InRound)
=============================================================================
