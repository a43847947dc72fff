----------------------------- MODULE GlobalPool -----------------------------
(***************************************************************************)
(* The process-global pool of crates/mlrs-py/src/lib.rs: Python threads    *)
(* call the estimators' methods, and every method locks one mutex around   *)
(* one BufferPool.  Three shapes of method differ in how they use the      *)
(* interpreter's lock (the GIL):                                           *)
(*                                                                         *)
(*   "detached"  fit and predict: give up the GIL, lock the pool, compute, *)
(*               unlock the pool, take the GIL back;                       *)
(*   "getter"    a fitted attribute: lock the pool with the GIL held;      *)
(*   "bridged"   RANSACRegressor.fit with a Python callable or base        *)
(*               estimator: lock the pool with the GIL held, and call into *)
(*               Python with both.                                         *)
(*                                                                         *)
(* The GIL itself is the interpreter's: whoever runs Python holds it, and  *)
(* may be made to hand it over between two bytecodes.                      *)
(***************************************************************************)
EXTENDS BufferPool

CONSTANTS
  Threads,
  Nobody,
  Kinds,                \* the shapes of method the threads call
  MaxCalls,             \* bound: calls the threads make together
  MaxPanics             \* bound: calls that panic

ASSUME NobodyIsNoThread == Nobody \notin Threads
ASSUME KindsAssumption == Kinds \subseteq {"detached", "getter", "bridged"}
ASSUME CallsAssumption == MaxCalls \in Nat /\ MaxPanics \in Nat

VARIABLES
  pc,                   \* where each thread is
  kind,                 \* the shape of the method it is in
  gil,                  \* who holds the GIL
  guard,                \* who holds the pool's mutex
  poisoned,             \* the mutex's poison flag
  calls,                \* history: how many calls have begun
  panics, rebaselines   \* history: panics with the pool locked; resets they caused

lockVars == <<pc, kind, gil, guard, poisoned, calls, panics, rebaselines>>
vars == <<poolVars, lockVars>>

Locations ==
  {"outside", "attached", "toLock", "computing", "toAttach", "returning",
   "inPython", "yielded", "nestedToLock"}

(* Where a thread waits for each of the two locks. *)
WantsGil  == {"toAttach", "yielded"}
WantsPool == {"toLock", "nestedToLock"}

HasPool(t) == pc[t] \in {"computing", "inPython", "yielded", "nestedToLock"}
HasGil(t) ==
  \/ pc[t] \in {"attached", "returning", "inPython"}
  \/ pc[t] \in {"toLock", "computing"} /\ kind[t] # "detached"

(* The types, and who has each lock: the thread that is where its code says *)
(* it has it, and no other.                                                 *)
LockTypeOK ==
  /\ pc \in [Threads -> Locations]
  /\ kind \in [Threads -> {"detached", "getter", "bridged"}]
  /\ gil \in Threads \cup {Nobody}
  /\ guard \in Threads \cup {Nobody}
  /\ poisoned \in BOOLEAN
  /\ calls \in 0 .. MaxCalls
  /\ panics \in 0 .. MaxPanics
  /\ rebaselines \in Nat
  /\ \A t \in Threads : (guard = t <=> HasPool(t)) /\ (gil = t <=> HasGil(t))

GInit ==
  /\ Init
  /\ pc = [t \in Threads |-> "outside"]
  /\ kind = [t \in Threads |-> "getter"]
  /\ gil = Nobody
  /\ guard = Nobody
  /\ poisoned = FALSE
  /\ calls = 0
  /\ panics = 0
  /\ rebaselines = 0

Goto(t, from, to) == pc[t] = from /\ pc' = [pc EXCEPT ![t] = to]

----------------------------------------------------------------------------
(* The GIL *)

Call(t, k) ==
  /\ gil = Nobody
  /\ calls < MaxCalls
  /\ Goto(t, "outside", "attached")
  /\ gil' = t
  /\ kind' = [kind EXCEPT ![t] = k]
  /\ calls' = calls + 1
  /\ UNCHANGED <<poolVars, guard, poisoned, panics, rebaselines>>

(* Up to lock_pool(); a "detached" method is inside py.detach by then. *)
Reach(t) ==
  /\ Goto(t, "attached", "toLock")
  /\ gil' = IF kind[t] = "detached" THEN Nobody ELSE gil
  /\ UNCHANGED <<poolVars, kind, guard, poisoned, calls, panics, rebaselines>>

(* py.detach returns, or unwinds, with the GIL. *)
Attach(t) ==
  /\ gil = Nobody
  /\ Goto(t, "toAttach", "returning")
  /\ gil' = t
  /\ UNCHANGED <<poolVars, kind, guard, poisoned, calls, panics, rebaselines>>

Return(t) ==
  /\ Goto(t, "returning", "outside")
  /\ gil' = Nobody
  /\ UNCHANGED <<poolVars, kind, guard, poisoned, calls, panics, rebaselines>>

----------------------------------------------------------------------------
(* The pool's mutex *)

(* Mutants of Lock: no mutual exclusion; an error for a poisoned mutex. *)
LockAnyway(t) ==
  /\ Goto(t, "toLock", "computing")
  /\ guard' = t
  /\ IF poisoned
     THEN ResetAfterPoison /\ rebaselines' = rebaselines + 1
     ELSE UNCHANGED <<poolVars, rebaselines>>
  /\ UNCHANGED <<kind, gil, poisoned, calls, panics>>

LockUnlessPoisoned(t) ==
  /\ guard = Nobody
  /\ ~poisoned
  /\ Goto(t, "toLock", "computing")
  /\ guard' = t
  /\ UNCHANGED <<poolVars, kind, gil, poisoned, calls, panics, rebaselines>>

(* lock_pool(): a poisoned mutex is entered all the same, and stays so. *)
Lock(t) ==
  /\ guard = Nobody
  /\ Goto(t, "toLock", "computing")
  /\ guard' = t
  /\ IF poisoned
     THEN ResetAfterPoison /\ rebaselines' = rebaselines + 1
     ELSE UNCHANGED <<poolVars, rebaselines>>
  /\ UNCHANGED <<kind, gil, poisoned, calls, panics>>

Compute(t) ==
  /\ pc[t] = "computing"
  /\ Operation
  /\ UNCHANGED lockVars

AfterUnlock(t) == IF kind[t] = "detached" THEN "toAttach" ELSE "returning"

(* Mutant of Unlock: the guard outlives the detached closure. *)
UnlockLate(t) ==
  /\ Goto(t, "computing", AfterUnlock(t))
  /\ End
  /\ guard' = IF kind[t] = "detached" THEN guard ELSE Nobody
  /\ UNCHANGED <<kind, gil, poisoned, calls, panics, rebaselines>>

(* The end of the method's scope, or of the detached closure's. *)
Unlock(t) ==
  /\ Goto(t, "computing", AfterUnlock(t))
  /\ End
  /\ guard' = Nobody
  /\ UNCHANGED <<kind, gil, poisoned, calls, panics, rebaselines>>

(* A device fault, an allocation that fails: the guard, dropped by a thread *)
(* that panics, poisons the mutex.                                          *)
Panic(t) ==
  /\ panics < MaxPanics
  /\ Goto(t, "computing", AfterUnlock(t))
  /\ End
  /\ guard' = Nobody
  /\ poisoned' = TRUE
  /\ panics' = panics + 1
  /\ UNCHANGED <<kind, gil, calls, rebaselines>>

----------------------------------------------------------------------------
(* Python called from a fit that holds the pool *)

CallBack(t) ==
  /\ kind[t] = "bridged"
  /\ Goto(t, "computing", "inPython")
  /\ UNCHANGED <<poolVars, kind, gil, guard, poisoned, calls, panics, rebaselines>>

CallBackReturns(t) ==
  /\ Goto(t, "inPython", "computing")
  /\ UNCHANGED <<poolVars, kind, gil, guard, poisoned, calls, panics, rebaselines>>

(* Mutant of Yield: the GIL is not given up. *)
YieldNothing(t) ==
  /\ Goto(t, "inPython", "yielded")
  /\ UNCHANGED <<poolVars, kind, gil, guard, poisoned, calls, panics, rebaselines>>

(* The interpreter makes a running thread hand over the GIL. *)
Yield(t) ==
  /\ Goto(t, "inPython", "yielded")
  /\ gil' = Nobody
  /\ UNCHANGED <<poolVars, kind, guard, poisoned, calls, panics, rebaselines>>

Resume(t) ==
  /\ gil = Nobody
  /\ Goto(t, "yielded", "inPython")
  /\ gil' = t
  /\ UNCHANGED <<poolVars, kind, guard, poisoned, calls, panics, rebaselines>>

(* The callable, or the base estimator's fit, calls this library.  Locking a *)
(* mutex the thread has locked already blocks it.                            *)
CallAgain(t) ==
  /\ Goto(t, "inPython", "nestedToLock")
  /\ gil' = Nobody
  /\ UNCHANGED <<poolVars, kind, guard, poisoned, calls, panics, rebaselines>>

----------------------------------------------------------------------------
(* Whoever runs Python may free an estimator, the pool locked or not. *)
Collect ==
  /\ \A t \in Threads : gil = t => pc[t] \in {"attached", "returning", "inPython"}
  /\ \E b \in Buffers : Forget(b)
  /\ UNCHANGED lockVars

Finished == calls = MaxCalls /\ \A t \in Threads : pc[t] = "outside"

Step(t) ==
  \/ \E k \in Kinds : Call(t, k)
  \/ Reach(t) \/ Attach(t) \/ Return(t)
  \/ Lock(t) \/ Compute(t) \/ Unlock(t) \/ Panic(t)
  \/ CallBack(t) \/ CallBackReturns(t)
  \/ Yield(t) \/ Resume(t) \/ CallAgain(t)

GNext ==
  \/ \E t \in Threads : Step(t)
  \/ Collect
  \/ Finished /\ UNCHANGED vars

(* A call computes for a finite time, and a thread that could have a lock   *)
(* for ever gets it.  Nobody has to call.                                   *)
Fairness ==
  \A t \in Threads :
    /\ WF_vars(Reach(t)) /\ WF_vars(Attach(t)) /\ WF_vars(Return(t))
    /\ WF_vars(Lock(t)) /\ WF_vars(Unlock(t))

GSpec == GInit /\ [][GNext]_vars
FairSpec == GSpec /\ Fairness

----------------------------------------------------------------------------
(* Properties *)

(* Under the lock, many threads use the pool as one does: every step is one *)
(* of BufferPool, the reset included, which finds no call under way.        *)
Sequential == Spec

(* Who keeps t from going on. *)
BlockedBy(t, u) ==
  \/ pc[t] \in WantsPool /\ guard = u
  \/ pc[t] \in WantsGil /\ gil = u

(* No two threads each hold the lock the other wants, and none wants the    *)
(* lock it holds: the threads never stop for ever.                          *)
NoDeadlock ==
  /\ \A t \in Threads : ~BlockedBy(t, t)
  /\ \A t, u \in Threads : ~(BlockedBy(t, u) /\ BlockedBy(u, t))

(* Only a bridged call ever blocks itself, or blocks a thread that blocks   *)
(* it.                                                                      *)
DeadlocksAreBridged ==
  \A t, u \in Threads :
    BlockedBy(t, u) /\ BlockedBy(u, t) => "bridged" \in {kind[t], kind[u]}

(* Unless one is bridged every call ends, those that found the mutex        *)
(* poisoned included: one panic does not shut the others out.               *)
EveryCallEnds ==
  [](\A t \in Threads : kind[t] # "bridged") =>
    \A t \in Threads : pc[t] # "outside" ~> pc[t] = "outside"
=============================================================================
