----------------------------- MODULE BufferPool -----------------------------
(***************************************************************************)
(* The buffer pool of crates/mlrs-backend/src/pool.rs and the arrays of    *)
(* device_array.rs that draw on it, as the thread that holds the pool      *)
(* works on them.                                                          *)
(*                                                                         *)
(* A buffer is a piece of device memory, reference counted by the compute  *)
(* runtime: it exists while something refers to it, here the free-list, a  *)
(* local of the running call, or a fitted estimator.  A local is an array: *)
(* a handle and the bytes the code counts it for (a DeviceArray's length,  *)
(* or the length a raw handle has in a variable beside it), which is all   *)
(* that release() learns of the buffer's size.  Several arrays may share   *)
(* one buffer: one owns it, the others are views, of the same or a smaller *)
(* length.  Contents are not modelled; of the counters only the two that   *)
(* measure bytes are.                                                      *)
(***************************************************************************)
EXTENDS Naturals, Sequences, FiniteSets, FiniteSetsExt

CONSTANTS
  Buffers,              \* the buffers the device can hold
  SizeOf,               \* the bytes of each one
  MaxLive,              \* bound on live_bytes
  MaxViews              \* bound on the views that exist at a time

ASSUME SizeAssumption == SizeOf \in [Buffers -> Nat \ {0}]
ASSUME BoundAssumption == MaxLive \in Nat /\ MaxViews \in Nat

VARIABLES
  free,                 \* byte size -> the stack of buffers filed under it
  live, peak,           \* stats.live_bytes, stats.peak_bytes
  scratch,              \* the arrays the running call has
  kept,                 \* the buffers fitted estimators refer to
  metered,              \* history: what the call has acquired and not released
  entry,                \* history: live_bytes when the call began
  mixed                 \* history: the call released what it had not acquired

pool == <<free, live, peak>>
history == <<metered, entry, mixed>>
poolVars == <<pool, scratch, kept, history>>

Sizes == {SizeOf[b] : b \in Buffers}

Elements(s) == {s[i] : i \in 1 .. Len(s)}
Pooled == UNION {Elements(free[n]) : n \in Sizes}
Held == {a.buf : a \in scratch}
Allocated == Pooled \cup Held \cup kept

Arrays == [buf : Buffers, len : Sizes, own : BOOLEAN]
Owner(b, n) == [buf |-> b, len |-> n, own |-> TRUE]
ViewOf(b, n) == [buf |-> b, len |-> n, own |-> FALSE]

Bytes(S) == SumFunctionOnSet(SizeOf, S)

TypeOK ==
  /\ free \in [Sizes -> Seq(Buffers)]
  /\ live \in Nat
  /\ peak \in Nat
  /\ scratch \subseteq Arrays
  /\ kept \subseteq Buffers
  /\ metered \subseteq Buffers
  /\ entry \in Nat
  /\ mixed \in BOOLEAN

NewStats == live' = 0 /\ peak' = 0
NewCall == metered' = {} /\ entry' = live' /\ mixed' = FALSE

Init ==
  /\ free = [n \in Sizes |-> <<>>]
  /\ live = 0
  /\ peak = 0
  /\ scratch = {}
  /\ kept = {}
  /\ metered = {}
  /\ entry = 0
  /\ mixed = FALSE

----------------------------------------------------------------------------
(* acquire() and release() *)

(* client.empty(n) and client.create(..) return memory nobody refers to. *)
Fresh(b, n) == b \notin Allocated /\ SizeOf[b] = n

(* Mutant of Count: only what misses the free-list is counted. *)
CountMisses(n) ==
  /\ live + n <= MaxLive
  /\ live' = IF free[n] = <<>> THEN live + n ELSE live
  /\ peak' = IF live + n > peak THEN live + n ELSE peak

Count(n) ==
  /\ live + n <= MaxLive
  /\ live' = live + n
  /\ peak' = IF live + n > peak THEN live + n ELSE peak

Push(b, n) == free' = [free EXCEPT ![n] = Append(@, b)]

Reuse(n, b) ==
  /\ free[n] # <<>>
  /\ b = free[n][Len(free[n])]
  /\ free' = [free EXCEPT ![n] = SubSeq(@, 1, Len(@) - 1)]

Allocate(n, b) ==
  /\ free[n] = <<>>
  /\ Fresh(b, n)
  /\ UNCHANGED free

Acquire(n, b) ==
  /\ Reuse(n, b) \/ Allocate(n, b)
  /\ Count(n)
  /\ scratch' = scratch \cup {Owner(b, n)}
  /\ metered' = metered \cup {b}
  /\ UNCHANGED <<kept, entry, mixed>>

(* release(handle, n): the size is what the caller says.  The subtraction   *)
(* saturates.                                                               *)
Release(b, n) ==
  /\ Push(b, n)
  /\ live' = IF n > live THEN 0 ELSE live - n
  /\ UNCHANGED peak

Unmeter(b) ==
  /\ metered' = metered \ {b}
  /\ mixed' = (mixed \/ b \notin metered)
  /\ UNCHANGED entry

----------------------------------------------------------------------------
(* Arrays *)

(* The acquire() and release() that from_host() performs only to be counted *)
(* leave a buffer of the right size, m, on top of its stack.                *)
Metering(n, m) ==
  /\ live + n <= MaxLive
  /\ peak' = IF live + n > peak THEN live + n ELSE peak
  /\ UNCHANGED live
  /\ \/ free[n] # <<>> /\ m = free[n][Len(free[n])] /\ UNCHANGED free
     \/ free[n] = <<>> /\ Fresh(m, n) /\ Push(m, n)

(* from_host() and from_host_chunks(): the array holds a second buffer, b. *)
FromHost(n, m, b) ==
  /\ Metering(n, m)
  /\ Fresh(b, n) /\ b # m
  /\ scratch' = scratch \cup {Owner(b, n)}
  /\ UNCHANGED <<kept, history>>

(* from_raw(handle.clone(), len): a second array over the buffer of another, *)
(* of all its elements or fewer.                                             *)
View(a, n) ==
  /\ a \in scratch
  /\ n <= a.len
  /\ Cardinality({c \in scratch : ~c.own}) < MaxViews
  /\ scratch' = scratch \cup {ViewOf(a.buf, n)}
  /\ UNCHANGED <<pool, kept, history>>

(* Mutants of ReleaseInto: the flag that tells a view is not looked at; the *)
(* caller goes on using what it has released.                               *)
ReleaseBorrowed(a) ==
  /\ a \in scratch
  /\ Release(a.buf, a.len)
  /\ scratch' = {c \in scratch : c.buf # a.buf}
  /\ Unmeter(a.buf)
  /\ UNCHANGED kept

ReleaseShared(a) ==
  /\ a \in scratch /\ a.own
  /\ Release(a.buf, a.len)
  /\ Unmeter(a.buf)
  /\ UNCHANGED <<scratch, kept>>

(* release_into(), and release() of a raw handle: the array files its buffer *)
(* under its own bytes.  A view is never released, only dropped; those of    *)
(* the buffer are not used again.  (An owner lent to eig or to the Cholesky  *)
(* solve as its `out` is released there instead of here.)                    *)
ReleaseInto(a) ==
  /\ a \in scratch /\ a.own
  /\ Release(a.buf, a.len)
  /\ scratch' = {c \in scratch : c.buf # a.buf}
  /\ Unmeter(a.buf)
  /\ UNCHANGED kept

(* An array goes out of scope: memory nobody else refers to is freed. *)
Drop(a) ==
  /\ a \in scratch
  /\ scratch' = scratch \ {a}
  /\ UNCHANGED <<pool, kept, history>>

(* A fitted estimator takes the array as one of its attributes. *)
Keep(a) ==
  /\ a \in scratch /\ a.own
  /\ scratch' = scratch \ {a}
  /\ kept' = kept \cup {a.buf}
  /\ UNCHANGED <<pool, history>>

(* Python frees the estimator, with or without the pool's lock. *)
Forget(b) ==
  /\ b \in kept
  /\ kept' = kept \ {b}
  /\ UNCHANGED <<pool, scratch, history>>

----------------------------------------------------------------------------
(* The end of a call, by return, early return or panic: what its locals     *)
(* still refer to is freed, not released.  The next call starts to count.   *)
End ==
  /\ scratch' = {}
  /\ UNCHANGED <<pool, kept>>
  /\ NewCall

(* reset_after_poison(), called before a call's first operation. *)
ResetAfterPoison ==
  /\ free' = [n \in Sizes |-> <<>>]
  /\ NewStats
  /\ NewCall
  /\ UNCHANGED <<scratch, kept>>

Operation ==
  \/ \E n \in Sizes, b \in Buffers : Acquire(n, b)
  \/ \E n \in Sizes, m, b \in Buffers : FromHost(n, m, b)
  \/ \E a \in scratch, n \in Sizes : View(a, n)
  \/ \E a \in scratch : ReleaseInto(a) \/ Drop(a) \/ Keep(a)

Next ==
  \/ Operation
  \/ \E b \in Buffers : Forget(b)
  \/ End
  \/ scratch = {} /\ ResetAfterPoison

Spec == Init /\ [][Next]_poolVars

----------------------------------------------------------------------------
(* Properties *)

Distinct(s) == \A i, j \in 1 .. Len(s) : s[i] = s[j] => i = j

(* A buffer is on the free-list once at most, and then no array and no      *)
(* estimator refers to it; and it has one owner at most.  So what acquire() *)
(* returns is in nobody else's use, whatever was viewed, reset, dropped or  *)
(* freed before (device_array.rs: a released buffer's other arrays "would   *)
(* alias live memory").                                                     *)
NoAlias ==
  /\ \A n \in Sizes : Distinct(free[n])
  /\ \A n, m \in Sizes : n # m => Elements(free[n]) \cap Elements(free[m]) = {}
  /\ Pooled \cap (Held \cup kept) = {}
  /\ \A a, c \in scratch : a.own /\ c.own /\ a.buf = c.buf => a = c
  /\ \A a \in scratch : a.own => a.buf \notin kept

(* A buffer waits on the free-list under its true size, the size acquire()  *)
(* hands it out for, although the pool files what it is told and the views  *)
(* of a buffer may be shorter than it.                                      *)
FiledUnderTrueSize == \A n \in Sizes : \A b \in Elements(free[n]) : SizeOf[b] = n

(* What the tests of the memory gate rely on: while a call has released     *)
(* nothing but what it acquired, live_bytes exceeds its value at the start  *)
(* of the call by at least the bytes acquired and not released, and the     *)
(* high-water mark is at least live_bytes.                                  *)
GateSound ==
  /\ ~mixed => live >= entry + Bytes(metered)
  /\ peak >= live
=============================================================================
