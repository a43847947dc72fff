-------------------------- MODULE GlobalPoolProofs --------------------------
(***************************************************************************)
(* What TLAPS proves of the pool, in two parts.                            *)
(*                                                                         *)
(* Of BufferPool, as one caller uses it: every buffer has one place at     *)
(* most, those on the free-list are filed under their true size, and the   *)
(* byte counters say what the tests of the memory gate read from them.     *)
(* The last rests on an induction over the size of a finite set, for the   *)
(* sum of its buffers' bytes.                                              *)
(*                                                                         *)
(* Of GlobalPool, for any threads, buffers and bounds: who holds which     *)
(* lock, that without bridged fits nobody is locked out for ever, and that *)
(* the threads together use the pool as one would, so that what holds of   *)
(* one caller holds of all of them.                                        *)
(***************************************************************************)
EXTENDS GlobalPool, FiniteSetTheorems, TLAPS

(* The free-list alone: the strengthening the two properties need. *)
FreeOK ==
  /\ free \in [Sizes -> Seq(Buffers)]
  /\ \A n \in Sizes : Distinct(free[n])
  /\ FiledUnderTrueSize

(* The array that owns a buffer is as long as it; only views are shorter.   *)
OwnersWhole == \A a \in scratch : a.own => a.len = SizeOf[a.buf]

IInv == TypeOK /\ FreeOK /\ NoAlias /\ OwnersWhole

(* Two stacks share no buffer, as a buffer has one size. *)
LEMMA StacksDisjoint ==
  FreeOK => \A n, m \in Sizes : n # m => Elements(free[n]) \cap Elements(free[m]) = {}
BY DEF FreeOK, FiledUnderTrueSize

(* Filing a buffer that is not on the free-list. *)
LEMMA PushLemma ==
  ASSUME FreeOK, NEW b \in Buffers, b \notin Pooled, Push(b, SizeOf[b])
  PROVE  FreeOK' /\ Pooled' = Pooled \cup {b}
<1> DEFINE n == SizeOf[b]
           s == free[n]
<1>1. n \in Sizes /\ s \in Seq(Buffers) /\ b \notin Elements(s)
  BY DEF Sizes, FreeOK, Pooled
<1>2. free' = [free EXCEPT ![n] = Append(s, b)]
  BY <1>1 DEF Push, FreeOK
<1>3. Append(s, b) \in Seq(Buffers) /\ Elements(Append(s, b)) = Elements(s) \cup {b}
  <2>1. Append(s, b) \in Seq(Buffers) /\ Len(Append(s, b)) = Len(s) + 1
    BY <1>1
  <2>2. \A i \in 1 .. Len(s) : Append(s, b)[i] = s[i]
    BY <1>1
  <2>3. Append(s, b)[Len(s) + 1] = b
    BY <1>1
  <2> HIDE DEF s
  <2>4. Len(s) \in Nat
    BY <1>1
  <2> QED
    BY <2>1, <2>2, <2>3, <2>4 DEF Elements
<1>4. Distinct(Append(s, b))
  <2>1. Distinct(s)
    BY <1>1 DEF FreeOK
  <2> SUFFICES ASSUME NEW i \in 1 .. Len(s) + 1, NEW j \in 1 .. Len(s) + 1,
                      Append(s, b)[i] = Append(s, b)[j]
               PROVE  i = j
    BY <1>1 DEF Distinct
  <2>2. \A k \in 1 .. Len(s) : Append(s, b)[k] = s[k] /\ s[k] # b
    BY <1>1 DEF Elements
  <2>3. Append(s, b)[Len(s) + 1] = b /\ Len(s) \in Nat
    BY <1>1
  <2>4. CASE i \in 1 .. Len(s) /\ j \in 1 .. Len(s)
    BY <2>1, <2>2, <2>4 DEF Distinct
  <2>5. CASE ~(i \in 1 .. Len(s) /\ j \in 1 .. Len(s))
    BY <2>2, <2>3, <2>5
  <2> QED
    BY <2>4, <2>5
<1>5. /\ free'[n] = Append(s, b)
      /\ \A m \in Sizes : m # n => free'[m] = free[m]
      /\ free' \in [Sizes -> Seq(Buffers)]
  BY <1>1, <1>2, <1>3 DEF FreeOK
<1>6. /\ Elements(free'[n]) = Elements(free[n]) \cup {b}
      /\ \A m \in Sizes : m # n => Elements(free'[m]) = Elements(free[m])
  BY <1>3, <1>5
<1>7. Pooled' = Pooled \cup {b}
  <2>1. Pooled' = UNION {Elements(free'[m]) : m \in Sizes}
    BY DEF Pooled, Elements, Sizes
  <2> QED
    BY <1>1, <1>6, <2>1 DEF Pooled
<1>8. FiledUnderTrueSize'
  <2>1. ASSUME NEW m \in Sizes, NEW c \in Elements(free'[m])
        PROVE  SizeOf[c] = m
    <3>1. CASE m = n
      BY <1>1, <1>6, <2>1, <3>1 DEF FreeOK, FiledUnderTrueSize
    <3>2. CASE m # n
      BY <1>6, <2>1, <3>2 DEF FreeOK, FiledUnderTrueSize
    <3> QED
      BY <3>1, <3>2
  <2> QED
    BY <2>1 DEF FiledUnderTrueSize, Elements, Sizes
<1>9. (\A m \in Sizes : Distinct(free[m]))'
  BY <1>4, <1>5 DEF FreeOK, Distinct, Sizes
<1> QED
  BY <1>5, <1>7, <1>8, <1>9 DEF FreeOK, Sizes

(* Popping hands out a buffer of the size asked for, no longer filed. *)
LEMMA ReuseLemma ==
  ASSUME FreeOK, NEW n \in Sizes, NEW b \in Buffers, Reuse(n, b)
  PROVE  FreeOK' /\ b \in Pooled /\ Pooled' = Pooled \ {b} /\ SizeOf[b] = n
<1> DEFINE s == free[n]
           f == SubSeq(s, 1, Len(s) - 1)
<1>1. s \in Seq(Buffers) /\ s # <<>> /\ b = s[Len(s)] /\ Distinct(s)
  BY DEF FreeOK, Reuse
<1>2. Len(s) \in Nat /\ Len(s) >= 1
  BY <1>1
<1>3. free' = [free EXCEPT ![n] = f]
  BY DEF Reuse, FreeOK
<1>4. f \in Seq(Buffers) /\ Len(f) = Len(s) - 1 /\ \A i \in 1 .. Len(s) - 1 : f[i] = s[i]
  BY <1>1, <1>2
<1>5. Elements(f) = Elements(s) \ {b} /\ b \in Elements(s)
  <2> HIDE DEF s, f
  <2>1. \A i \in 1 .. Len(s) - 1 : s[i] # b
    BY <1>1, <1>2 DEF Distinct
  <2> QED
    BY <2>1, <1>1, <1>2, <1>4 DEF Elements
<1>6. Distinct(f)
  <2> HIDE DEF s, f
  <2> QED
    BY <1>1, <1>2, <1>4 DEF Distinct
<1>7. /\ free'[n] = f
      /\ \A m \in Sizes : m # n => free'[m] = free[m]
      /\ free' \in [Sizes -> Seq(Buffers)]
  BY <1>3, <1>4 DEF FreeOK
<1>8. SizeOf[b] = n
  BY <1>5 DEF FreeOK, FiledUnderTrueSize
<1>9. \A m \in Sizes : m # n => b \notin Elements(free[m])
  BY <1>8 DEF FreeOK, FiledUnderTrueSize
<1>10. /\ Elements(free'[n]) = Elements(free[n]) \ {b}
       /\ \A m \in Sizes : m # n => Elements(free'[m]) = Elements(free[m])
  BY <1>5, <1>7
<1>11. Pooled' = Pooled \ {b} /\ b \in Pooled
  <2>1. Pooled' = UNION {Elements(free'[m]) : m \in Sizes}
    BY DEF Pooled, Elements, Sizes
  <2> QED
    BY <1>5, <1>9, <1>10, <2>1 DEF Pooled
<1>12. FiledUnderTrueSize'
  <2>1. \A m \in Sizes : Elements(free'[m]) \subseteq Elements(free[m])
    BY <1>10
  <2>2. \A m \in Sizes : \A c \in Elements(free'[m]) : SizeOf[c] = m
    BY <2>1 DEF FreeOK, FiledUnderTrueSize
  <2> QED
    BY <2>2 DEF FiledUnderTrueSize, Elements, Sizes
<1>13. (\A m \in Sizes : Distinct(free[m]))'
  BY <1>6, <1>7 DEF FreeOK, Distinct, Sizes
<1> QED
  BY <1>7, <1>8, <1>11, <1>12, <1>13 DEF FreeOK, Sizes

(* An empty free-list. *)
LEMMA ClearLemma ==
  ASSUME free' = [n \in Sizes |-> <<>>]
  PROVE  FreeOK' /\ Pooled' = {}
<1>1. \A n \in Sizes : free'[n] = <<>> /\ Elements(free'[n]) = {}
  BY DEF Elements
<1>2. free' \in [Sizes -> Seq(Buffers)]
  OBVIOUS
<1>3. Pooled' = {}
  BY <1>1 DEF Pooled, Elements, Sizes
<1>4. FiledUnderTrueSize'
  BY <1>1 DEF FiledUnderTrueSize, Elements, Sizes
<1>5. (\A m \in Sizes : Distinct(free[m]))'
  BY <1>1 DEF Distinct, Sizes
<1> QED
  BY <1>2, <1>3, <1>4, <1>5 DEF FreeOK, Sizes

(* A free-list nobody touches. *)
LEMMA SameLemma ==
  ASSUME FreeOK, UNCHANGED free
  PROVE  FreeOK' /\ Pooled' = Pooled
BY DEF FreeOK, FiledUnderTrueSize, Distinct, Pooled, Elements, Sizes

(* NoAlias and OwnersWhole, given where the call's arrays are. *)
OneOwner ==
  /\ \A a, c \in scratch : a.own /\ c.own /\ a.buf = c.buf => a = c
  /\ \A a \in scratch : a.own => a.buf \notin kept

LEMMA OnePlace ==
  ASSUME FreeOK', (Pooled \cap (Held \cup kept) = {})', OneOwner'
  PROVE  NoAlias'
<1>1. (\A n, m \in Sizes : n # m => Elements(free[n]) \cap Elements(free[m]) = {})'
  BY StacksDisjoint, PTL
<1> QED
  BY <1>1 DEF NoAlias, FreeOK, OneOwner

(* Fewer arrays, and no more buffers filed or kept. *)
LEMMA FewerArrays ==
  ASSUME IInv, FreeOK', scratch' \subseteq scratch, Pooled' \subseteq Pooled,
         kept' \subseteq kept
  PROVE  NoAlias' /\ OwnersWhole'
<1>1. Held' \subseteq Held
  BY DEF Held
<1>2. (Pooled \cap (Held \cup kept) = {})'
  BY <1>1 DEF IInv, NoAlias
<1>3. OneOwner'
  BY DEF OneOwner, IInv, NoAlias
<1>4. OwnersWhole'
  BY DEF OwnersWhole, IInv
<1> QED
  BY <1>2, <1>3, <1>4, OnePlace

LEMMA ArrayFields ==
  ASSUME NEW b \in Buffers, NEW n \in Sizes
  PROVE  /\ Owner(b, n) \in Arrays /\ ViewOf(b, n) \in Arrays
         /\ Owner(b, n).buf = b /\ Owner(b, n).len = n /\ Owner(b, n).own
         /\ ViewOf(b, n).buf = b /\ ~ViewOf(b, n).own
<1> HIDE DEF Sizes
<1>1. Owner(b, n) \in Arrays
  BY DEF Owner, Arrays
<1>2. ViewOf(b, n) \in Arrays
  BY DEF ViewOf, Arrays
<1>3. Owner(b, n).buf = b /\ Owner(b, n).len = n /\ Owner(b, n).own
  BY DEF Owner
<1>4. ViewOf(b, n).buf = b /\ ~ViewOf(b, n).own
  BY DEF ViewOf
<1> QED
  BY <1>1, <1>2, <1>3, <1>4

(* One array more, over a buffer nobody refers to. *)
LEMMA NewOwner ==
  ASSUME IInv, NEW b \in Buffers, NEW n \in Sizes, n = SizeOf[b],
         scratch' = scratch \cup {Owner(b, n)}, kept' = kept,
         b \notin Held \cup kept, FreeOK', b \notin Pooled',
         Pooled' \cap (Held \cup kept) = {}
  PROVE  NoAlias' /\ OwnersWhole'
<1>0. PICK r : /\ r = Owner(b, n) /\ r.buf = b /\ r.len = n /\ r.own
  BY ArrayFields
<1>1. scratch' = scratch \cup {r} /\ \A a \in scratch : a.buf # b
  BY <1>0 DEF Held
<1>2. (Pooled \cap (Held \cup kept) = {})'
  <2>1. Held' = Held \cup {b}
    BY <1>0, <1>1 DEF Held
  <2> QED
    BY <2>1
<1>3. OneOwner'
  BY <1>0, <1>1 DEF OneOwner, IInv, NoAlias
<1>4. OwnersWhole'
  BY <1>0, <1>1 DEF OwnersWhole, IInv
<1> QED
  BY <1>2, <1>3, <1>4, OnePlace

----------------------------------------------------------------------------
(* The inductive invariant *)

LEMMA InitIInv == Init => IInv
<1> SUFFICES ASSUME Init PROVE IInv
  OBVIOUS
<1>1. \A n \in Sizes : free[n] = <<>> /\ Elements(free[n]) = {}
  BY DEF Init, Elements
<1>2. FreeOK
  BY <1>1 DEF Init, FreeOK, FiledUnderTrueSize, Distinct
<1>3. Pooled = {}
  BY <1>1 DEF Pooled
<1> QED
  BY <1>1, <1>2, <1>3 DEF Init, IInv, TypeOK, FreeOK, NoAlias, OwnersWhole, Held

LEMMA AcquireIInv ==
  ASSUME IInv, NEW n \in Sizes, NEW b \in Buffers, Acquire(n, b)
  PROVE  IInv'
<1>1. /\ FreeOK' /\ Pooled' \subseteq Pooled /\ SizeOf[b] = n
      /\ b \notin Pooled' \cup Held \cup kept
  <2>1. CASE Reuse(n, b)
    BY <2>1, ReuseLemma DEF IInv, NoAlias
  <2>2. CASE Allocate(n, b)
    BY <2>2, SameLemma DEF IInv, Allocate, Fresh, Allocated
  <2> QED
    BY <2>1, <2>2 DEF Acquire
<1>2. n \in Nat
  BY SizeAssumption DEF Sizes
<1>3. TypeOK'
  <2>1. scratch' \subseteq Arrays
    BY ArrayFields DEF IInv, TypeOK, Acquire
  <2>2. live' \in Nat /\ peak' \in Nat
    BY <1>2 DEF IInv, TypeOK, Acquire, Count
  <2>3. /\ kept' \subseteq Buffers /\ metered' \subseteq Buffers
        /\ entry' \in Nat /\ mixed' \in BOOLEAN
    BY DEF IInv, TypeOK, Acquire
  <2> QED
    BY <1>1, <2>1, <2>2, <2>3 DEF TypeOK, FreeOK, Arrays, Sizes
<1>4. NoAlias' /\ OwnersWhole'
  <2>1. scratch' = scratch \cup {Owner(b, n)} /\ kept' = kept
    BY DEF Acquire
  <2>2. Pooled' \cap (Held \cup kept) = {}
    BY <1>1 DEF IInv, NoAlias
  <2> QED
    BY <1>1, <2>1, <2>2, NewOwner
<1> QED
  BY <1>1, <1>3, <1>4 DEF IInv

LEMMA FromHostIInv ==
  ASSUME IInv, NEW n \in Sizes, NEW m \in Buffers, NEW b \in Buffers, FromHost(n, m, b)
  PROVE  IInv'
<1>1. b \notin Pooled \cup Held \cup kept /\ b # m /\ SizeOf[b] = n
  BY DEF FromHost, Fresh, Allocated
<1>2. FreeOK' /\ Pooled' \subseteq Pooled \cup {m} /\ (m \in Pooled \/ m \notin Held \cup kept)
  <2>1. CASE m = free[n][Len(free[n])] /\ free[n] # <<>> /\ UNCHANGED free
    <3>1. free[n] \in Seq(Buffers)
      BY DEF IInv, FreeOK
    <3>2. Len(free[n]) \in 1 .. Len(free[n])
      BY <3>1, <2>1
    <3>3. m \in Pooled
      BY <3>2, <2>1 DEF Pooled, Elements
    <3> QED
      BY <2>1, <3>3, SameLemma DEF IInv
  <2>2. CASE Fresh(m, n) /\ Push(m, n)
    BY <2>2, PushLemma DEF IInv, Fresh, Allocated
  <2> QED
    BY <2>1, <2>2 DEF FromHost, Metering
<1>3. n \in Nat
  BY SizeAssumption DEF Sizes
<1>4. TypeOK'
  <2>1. scratch' \subseteq Arrays
    BY ArrayFields DEF IInv, TypeOK, FromHost
  <2>2. live' \in Nat /\ peak' \in Nat
    BY <1>3 DEF IInv, TypeOK, FromHost, Metering
  <2>3. /\ kept' \subseteq Buffers /\ metered' \subseteq Buffers
        /\ entry' \in Nat /\ mixed' \in BOOLEAN
    BY DEF IInv, TypeOK, FromHost, history
  <2> QED
    BY <1>2, <2>1, <2>2, <2>3 DEF TypeOK, FreeOK, Arrays, Sizes
<1>5. NoAlias' /\ OwnersWhole'
  <2>1. scratch' = scratch \cup {Owner(b, n)} /\ kept' = kept
    BY DEF FromHost
  <2>2. Pooled' \cap (Held \cup kept) = {}
    BY <1>2 DEF IInv, NoAlias
  <2> QED
    BY <1>1, <1>2, <2>1, <2>2, NewOwner
<1> QED
  BY <1>2, <1>4, <1>5 DEF IInv

(* A view owns nothing and refers to what is held already. *)
LEMMA ViewIInv ==
  ASSUME IInv, NEW a \in scratch, NEW n \in Sizes, View(a, n)
  PROVE  IInv'
<1>1. FreeOK' /\ Pooled' = Pooled
  BY SameLemma DEF IInv, View, pool
<1>2. scratch' = scratch \cup {ViewOf(a.buf, n)} /\ kept' = kept
  BY DEF View
<1>0. PICK v \in Arrays : v = ViewOf(a.buf, n) /\ v.buf = a.buf /\ ~v.own
  <2>1. a.buf \in Buffers
    BY DEF IInv, TypeOK, Arrays
  <2> QED
    BY <2>1, ArrayFields
<1>3. Held' = Held
  BY <1>0, <1>2 DEF Held
<1>4. OneOwner' /\ OwnersWhole'
  BY <1>0, <1>2 DEF OneOwner, OwnersWhole, IInv, NoAlias
<1>5. (Pooled \cap (Held \cup kept) = {})'
  BY <1>1, <1>2, <1>3 DEF IInv, NoAlias
<1>6. TypeOK'
  <2>1. scratch' \subseteq Arrays
    BY <1>0, <1>2 DEF IInv, TypeOK
  <2> QED
    BY <1>1, <2>1 DEF IInv, TypeOK, FreeOK, View, pool, history, Arrays, Sizes
<1> QED
  BY <1>1, <1>4, <1>5, <1>6, OnePlace DEF IInv

(* The owner's length is the buffer's size, so it is filed under that; the  *)
(* arrays that are left are over other buffers.                             *)
LEMMA ReleaseIInv ==
  ASSUME IInv, NEW a \in scratch, ReleaseInto(a)
  PROVE  IInv'
<1> DEFINE b == a.buf
<1>1. /\ b \in Buffers /\ a.own /\ a.len = SizeOf[b]
      /\ b \notin Pooled /\ b \notin kept
  BY DEF IInv, TypeOK, Arrays, NoAlias, OwnersWhole, Held, ReleaseInto
<1>2. Push(b, SizeOf[b])
  BY <1>1 DEF ReleaseInto, Release
<1> HIDE DEF b
<1>3. FreeOK' /\ Pooled' = Pooled \cup {b}
  BY <1>1, <1>2, PushLemma DEF IInv
<1>4. a.len \in Nat
  BY <1>1, SizeAssumption
<1>5. scratch' = {c \in scratch : c.buf # b} /\ kept' = kept
  BY DEF ReleaseInto, b
<1>6. TypeOK'
  <2>1. live' \in Nat /\ peak' \in Nat
    BY <1>4 DEF IInv, TypeOK, ReleaseInto, Release
  <2>2. mixed' \in BOOLEAN
    BY DEF IInv, TypeOK, ReleaseInto, Unmeter
  <2>3. metered' \subseteq Buffers /\ entry' \in Nat
    BY DEF IInv, TypeOK, ReleaseInto, Unmeter
  <2>4. scratch' \subseteq Arrays /\ kept' \subseteq Buffers
    BY <1>5 DEF IInv, TypeOK
  <2> QED
    BY <1>3, <2>1, <2>2, <2>3, <2>4 DEF TypeOK, FreeOK, Arrays, Sizes
<1>7. (Pooled \cap (Held \cup kept) = {})'
  <2>1. Held' \subseteq Held \ {b}
    BY <1>5 DEF Held
  <2> QED
    BY <2>1, <1>1, <1>3, <1>5 DEF IInv, NoAlias
<1>8. OneOwner' /\ OwnersWhole'
  BY <1>5 DEF OneOwner, OwnersWhole, IInv, NoAlias
<1> QED
  BY <1>3, <1>6, <1>7, <1>8, OnePlace DEF IInv

(* An estimator takes the one array that owns a buffer. *)
LEMMA KeepIInv ==
  ASSUME IInv, NEW a \in scratch, Keep(a)
  PROVE  IInv'
<1>1. FreeOK' /\ Pooled' = Pooled
  BY SameLemma DEF IInv, Keep, pool
<1>2. scratch' = scratch \ {a} /\ kept' = kept \cup {a.buf} /\ a.own
  BY DEF Keep
<1>3. Held' \subseteq Held /\ a.buf \in Held /\ a.buf \in Buffers
  BY <1>2 DEF Held, IInv, TypeOK, Arrays
<1>4. OneOwner' /\ OwnersWhole'
  BY <1>2 DEF OneOwner, OwnersWhole, IInv, NoAlias
<1>5. (Pooled \cap (Held \cup kept) = {})'
  BY <1>1, <1>2, <1>3 DEF IInv, NoAlias
<1>6. TypeOK'
  BY <1>1, <1>2, <1>3 DEF IInv, TypeOK, FreeOK, Keep, pool, history, Arrays, Sizes
<1> QED
  BY <1>1, <1>4, <1>5, <1>6, OnePlace DEF IInv

(* The steps that leave the free-list as it is and only forget. *)
LEMMA RestIInv ==
  ASSUME IInv,
         \/ \E a \in scratch : Drop(a)
         \/ \E b \in Buffers : Forget(b)
         \/ End
         \/ UNCHANGED poolVars
  PROVE  IInv'
<1>1. UNCHANGED free
  BY DEF Drop, Forget, End, pool, poolVars
<1>2. FreeOK' /\ Pooled' = Pooled
  BY <1>1, SameLemma DEF IInv
<1>3. TypeOK'
  <2>1. CASE (\E a \in scratch : Drop(a)) \/ (\E b \in Buffers : Forget(b))
    BY <2>1 DEF IInv, TypeOK, Drop, Forget, pool, history, Arrays, Sizes
  <2>2. CASE End
    BY <2>2 DEF IInv, TypeOK, End, NewCall, pool, Arrays, Sizes
  <2>3. CASE UNCHANGED poolVars
    BY <2>3 DEF IInv, TypeOK, poolVars, pool, history, Arrays, Sizes
  <2> QED
    BY <2>1, <2>2, <2>3
<1>4. scratch' \subseteq scratch /\ kept' \subseteq kept
  BY DEF Drop, Forget, End, poolVars
<1> QED
  BY <1>2, <1>3, <1>4, FewerArrays DEF IInv

LEMMA ResetIInv ==
  ASSUME IInv, ResetAfterPoison
  PROVE  IInv'
<1>1. FreeOK' /\ Pooled' = {}
  BY ClearLemma DEF ResetAfterPoison
<1>2. TypeOK'
  BY <1>1 DEF IInv, TypeOK, FreeOK, ResetAfterPoison, NewStats, NewCall, Arrays, Sizes
<1>3. scratch' \subseteq scratch /\ kept' \subseteq kept
  BY DEF ResetAfterPoison
<1> QED
  BY <1>1, <1>2, <1>3, FewerArrays DEF IInv

LEMMA NextIInv == IInv /\ [Next]_poolVars => IInv'
<1> SUFFICES ASSUME IInv, [Next]_poolVars PROVE IInv'
  OBVIOUS
<1>1. ASSUME NEW n \in Sizes, NEW b \in Buffers, Acquire(n, b) PROVE IInv'
  BY <1>1, AcquireIInv
<1>2. ASSUME NEW a \in scratch, ReleaseInto(a) PROVE IInv'
  BY <1>2, ReleaseIInv
<1>3. ASSUME NEW n \in Sizes, NEW m \in Buffers, NEW b \in Buffers, FromHost(n, m, b)
      PROVE  IInv'
  BY <1>3, FromHostIInv
<1>4. ASSUME NEW a \in scratch, NEW n \in Sizes, View(a, n) PROVE IInv'
  BY <1>4, ViewIInv
<1>5. ASSUME NEW a \in scratch, Keep(a) PROVE IInv'
  BY <1>5, KeepIInv
<1>6. CASE \/ \E a \in scratch : Drop(a)
           \/ \E b \in Buffers : Forget(b)
           \/ End
           \/ UNCHANGED poolVars
  BY <1>6, RestIInv
<1>7. CASE ResetAfterPoison
  BY <1>7, ResetIInv
<1> QED
  BY <1>1, <1>2, <1>3, <1>4, <1>5, <1>6, <1>7 DEF Next, Operation

(* The invariant holds in every reachable state, for any buffers and sizes. *)
THEOREM Invariance == Spec => []IInv
<1>1. Init => IInv
  BY InitIInv
<1>2. IInv /\ [Next]_poolVars => IInv'
  BY NextIInv
<1> QED
  BY <1>1, <1>2, PTL DEF Spec

(* The variables keep their types. *)
THEOREM TypeCorrect == Spec => []TypeOK
<1>1. IInv => TypeOK
  BY DEF IInv
<1> QED
  BY <1>1, Invariance, PTL

(* acquire() never hands out a buffer someone else refers to. *)
THEOREM NoAliasCorrect == Spec => []NoAlias
<1>1. IInv => NoAlias
  BY DEF IInv
<1> QED
  BY <1>1, Invariance, PTL

(* A buffer handed out for a size has that size, although it was filed      *)
(* under the length of whatever array released it.                          *)
THEOREM TrueSizeCorrect == Spec => []FiledUnderTrueSize
<1>1. IInv => FiledUnderTrueSize
  BY DEF IInv, FreeOK
<1> QED
  BY <1>1, Invariance, PTL
----------------------------------------------------------------------------
(* Sums over finite sets *)

(* A non-empty set of naturals has a least member. *)
LEMMA LeastNumber ==
  ASSUME NEW T, T \subseteq Nat, T # {}
  PROVE  \E x \in T : \A y \in T : x <= y
<1>1. \E x \in T : \A y \in T : ~ (<<y, x>> \in OpToRel(<, Nat))
  BY NatLessThanWellFounded, WFMin
<1>2. PICK x \in T : \A y \in T : ~ (<<y, x>> \in OpToRel(<, Nat))
  BY <1>1
<1>3. \A y \in T : ~ (y < x)
  BY <1>2 DEF OpToRel
<1>4. ASSUME NEW u \in Nat, NEW v \in Nat, ~ (v < u) PROVE u <= v
  BY <1>4
<1>5. \A y \in T : x <= y
  BY <1>3, <1>4
<1> QED
  BY <1>5

(* Induction, over the set of numbers a claim holds of. *)
LEMMA NatSetInd ==
  ASSUME NEW S, 0 \in S, \A n \in Nat : n \in S => n + 1 \in S
  PROVE  Nat \subseteq S
<1> SUFFICES ASSUME Nat \ S # {} PROVE FALSE
  OBVIOUS
<1>1. PICK m \in Nat \ S : \A y \in Nat \ S : m <= y
  <2>1. Nat \ S \subseteq Nat
    OBVIOUS
  <2> QED
    BY <2>1, LeastNumber
<1>2. m # 0 /\ m \in Nat
  BY <1>1
<1>3. m - 1 \in Nat /\ m - 1 < m /\ (m - 1) + 1 = m
  BY <1>2
<1>4. m - 1 \in S
  BY <1>1, <1>3
<1> QED
  BY <1>1, <1>3, <1>4

(* The recursion that Bytes stands for. *)
Chosen(s) == CHOOSE x \in s : TRUE
SumStep(g, s) == IF s = {} THEN 0 ELSE SizeOf[Chosen(s)] + g[s \ {Chosen(s)}]
IsSum(g, D) == g = [s \in D |-> SumStep(g, s)]

SumOver(g, S) == IsFiniteSet(S) /\ IsSum(g, SUBSET S)

LEMMA BytesUnfold ==
  ASSUME NEW S
  PROVE Bytes(S) = (CHOOSE g : IsSum(g, SUBSET S))[S]
BY DEF Bytes, SumFunctionOnSet, FoldFunctionOnSet, MapThenFoldSet, IsSum, SumStep, Chosen

LEMMA Picked == \A s : s # {} => Chosen(s) \in s
BY DEF Chosen

LEMMA OneLess ==
  ASSUME NEW s, IsFiniteSet(s), s # {}
  PROVE  /\ IsFiniteSet(s \ {Chosen(s)})
         /\ Cardinality(s) \in Nat /\ Cardinality(s \ {Chosen(s)}) \in Nat
         /\ Cardinality(s \ {Chosen(s)}) + 1 = Cardinality(s)
<1>1. Chosen(s) \in s
  BY Picked
<1>2. IsFiniteSet(s \ {Chosen(s)}) /\ Cardinality(s \ {Chosen(s)}) = Cardinality(s) - 1
  BY <1>1, FS_RemoveElement
<1>3. Cardinality(s) \in Nat /\ Cardinality(s \ {Chosen(s)}) \in Nat
  BY <1>2, FS_CardinalityType
<1> QED BY <1>2, <1>3

(* The recursion of Bytes has a solution on the subsets of a finite set. *)
LEMMA SumExists ==
  ASSUME NEW S, IsFiniteSet(S)
  PROVE  \E g : IsSum(g, SUBSET S)
<1> DEFINE Small(n) == {s \in SUBSET S : Cardinality(s) <= n}
           Good == {n \in Nat : \E g : IsSum(g, Small(n))}
<1>0. \A s \in SUBSET S : IsFiniteSet(s) /\ Cardinality(s) \in Nat
  BY FS_Subset, FS_CardinalityType
<1>1. 0 \in Good
  <2>1. \A s \in Small(0) : s = {}
    BY <1>0, FS_EmptySet
  <2>2. IsSum([s \in Small(0) |-> 0], Small(0))
    BY <2>1 DEF IsSum, SumStep
  <2> QED
    BY <2>2
<1>2. ASSUME NEW n \in Nat, n \in Good PROVE n + 1 \in Good
  <2>1. PICK g : IsSum(g, Small(n))
    BY <1>2
  <2> DEFINE D == Small(n + 1)
             h == [s \in D |-> SumStep(g, s)]
  <2>2. \A s \in D : s # {} => s \ {Chosen(s)} \in Small(n)
    BY <1>0, OneLess
  <2>3. \A s \in Small(n) : s \in D /\ h[s] = g[s]
    <3>1. \A s \in Small(n) : s \in D
      BY <1>0
    <3>2. \A s \in Small(n) : g[s] = SumStep(g, s)
      BY <2>1 DEF IsSum
    <3> QED
      BY <3>1, <3>2
  <2>4. \A s \in D : h[s] = SumStep(h, s)
    BY <2>2, <2>3 DEF SumStep
  <2>5. IsSum(h, D)
    BY <2>4 DEF IsSum
  <2>6. \E f : IsSum(f, Small(n + 1))
    <3> HIDE DEF h
    <3> QED
      BY <2>5
  <2> QED
    BY <2>6, <1>2
<1> HIDE DEF Good
<1>3. Nat \subseteq Good
  BY <1>1, <1>2, NatSetInd
<1>4. Cardinality(S) \in Good
  BY <1>3, FS_CardinalityType
<1>5. SUBSET S = Small(Cardinality(S))
  BY FS_Subset
<1> QED
  BY <1>4, <1>5 DEF Good

(* ... and only one on the subsets two domains share. *)
LEMMA SumUnique ==
  ASSUME NEW S, NEW T, NEW g, NEW h, SumOver(g, S), SumOver(h, T)
  PROVE  \A s \in SUBSET (S \cap T) : g[s] = h[s]
<1> DEFINE Good == {n \in Nat : \A s \in SUBSET (S \cap T) : Cardinality(s) = n => g[s] = h[s]}
<1>0. \A s \in SUBSET (S \cap T) : /\ IsFiniteSet(s) /\ Cardinality(s) \in Nat
                                   /\ g[s] = SumStep(g, s) /\ h[s] = SumStep(h, s)
  <2>1. \A s \in SUBSET (S \cap T) : s \in SUBSET S /\ s \in SUBSET T
    OBVIOUS
  <2>2. \A s \in SUBSET (S \cap T) : IsFiniteSet(s) /\ Cardinality(s) \in Nat
    BY <2>1, FS_Subset, FS_CardinalityType DEF SumOver
  <2> QED
    BY <2>1, <2>2 DEF SumOver, IsSum
<1>1. 0 \in Good
  <2>1. \A s \in SUBSET (S \cap T) : Cardinality(s) = 0 => s = {}
    BY <1>0, FS_EmptySet
  <2> QED
    BY <2>1, <1>0 DEF SumStep
<1>2. ASSUME NEW n \in Nat, n \in Good PROVE n + 1 \in Good
  <2>1. ASSUME NEW s \in SUBSET (S \cap T), Cardinality(s) = n + 1 PROVE g[s] = h[s]
    <3>1. s # {}
      <4>1. Cardinality({}) = 0
        BY FS_EmptySet
      <4>2. n + 1 # 0
        OBVIOUS
      <4> QED
        BY <2>1, <4>1, <4>2
    <3>2. s \ {Chosen(s)} \in SUBSET (S \cap T) /\ Cardinality(s \ {Chosen(s)}) = n
      BY <3>1, <2>1, <1>0, OneLess
    <3>3. g[s \ {Chosen(s)}] = h[s \ {Chosen(s)}]
      BY <3>2, <1>2
    <3>4. SumStep(g, s) = SumStep(h, s)
      BY <3>1, <3>3 DEF SumStep
    <3> QED
      BY <3>4, <1>0
  <2> QED
    BY <2>1
<1> HIDE DEF Good
<1>3. Nat \subseteq Good
  BY <1>1, <1>2, NatSetInd
<1> QED
  BY <1>0, <1>3 DEF Good

LEMMA BytesIsSum ==
  ASSUME NEW S, IsFiniteSet(S)
  PROVE  \E g : SumOver(g, S) /\ Bytes(S) = g[S]
BY SumExists, BytesUnfold DEF SumOver

(* The sum of a finite set, one element taken out. *)
LEMMA BytesRecursion ==
  ASSUME NEW S, IsFiniteSet(S)
  PROVE  Bytes(S) = IF S = {} THEN 0 ELSE SizeOf[Chosen(S)] + Bytes(S \ {Chosen(S)})
<1>1. PICK T : T = S \ {Chosen(S)}
  OBVIOUS
<1>2. IsFiniteSet(T) /\ T \in SUBSET (S \cap T)
  BY <1>1, FS_RemoveElement
<1>3. PICK g : SumOver(g, S) /\ Bytes(S) = g[S]
  BY BytesIsSum
<1>4. PICK h : SumOver(h, T) /\ Bytes(T) = h[T]
  BY <1>2, BytesIsSum
<1>5. g[T] = h[T]
  BY <1>2, <1>3, <1>4, SumUnique
<1>6. g[S] = SumStep(g, S)
  BY <1>3 DEF SumOver, IsSum
<1> QED
  BY <1>1, <1>3, <1>4, <1>5, <1>6 DEF SumStep

LEMMA BytesEmpty == Bytes({}) = 0
BY BytesRecursion, FS_EmptySet

LEMMA BytesTyped ==
  ASSUME NEW S \in SUBSET Buffers, IsFiniteSet(S)
  PROVE  Bytes(S) \in Nat
<1> DEFINE Good == {n \in Nat : \A s \in SUBSET Buffers :
                      IsFiniteSet(s) /\ Cardinality(s) = n => Bytes(s) \in Nat}
<1>1. 0 \in Good
  BY BytesEmpty, FS_EmptySet
<1>2. ASSUME NEW n \in Nat, n \in Good PROVE n + 1 \in Good
  <2>1. ASSUME NEW s \in SUBSET Buffers, IsFiniteSet(s), Cardinality(s) = n + 1
        PROVE  Bytes(s) \in Nat
    <3>1. s # {}
      BY <2>1, FS_EmptySet
    <3>2. s \ {Chosen(s)} \in SUBSET Buffers /\ IsFiniteSet(s \ {Chosen(s)})
          /\ Cardinality(s \ {Chosen(s)}) = n
      BY <3>1, <2>1, OneLess
    <3>3. Bytes(s \ {Chosen(s)}) \in Nat
      BY <3>2, <1>2
    <3>4. SizeOf[Chosen(s)] \in Nat
      BY <3>1, Picked, SizeAssumption
    <3>5. Bytes(s) = SizeOf[Chosen(s)] + Bytes(s \ {Chosen(s)})
      BY <3>1, <2>1, BytesRecursion
    <3> QED
      BY <3>3, <3>4, <3>5
  <2> QED
    BY <2>1
<1> HIDE DEF Good
<1>3. Nat \subseteq Good
  BY <1>1, <1>2, NatSetInd
<1> QED
  BY <1>3, FS_CardinalityType DEF Good

(* ... whichever element it is. *)
LEMMA BytesAdd ==
  ASSUME NEW S \in SUBSET Buffers, IsFiniteSet(S), NEW b \in Buffers, b \notin S
  PROVE  Bytes(S \cup {b}) = Bytes(S) + SizeOf[b]
<1> DEFINE Good == {n \in Nat : \A s \in SUBSET Buffers, x \in Buffers :
                      IsFiniteSet(s) /\ Cardinality(s) = n /\ x \notin s
                      => Bytes(s \cup {x}) = Bytes(s) + SizeOf[x]}
<1>0. \A x \in Buffers : SizeOf[x] \in Nat
  BY SizeAssumption
<1>1. 0 \in Good
  <2>0. \A s \in SUBSET Buffers : IsFiniteSet(s) /\ Cardinality(s) = 0 => s = {}
    BY FS_EmptySet
  <2>1. ASSUME NEW x \in Buffers PROVE Bytes({x}) = SizeOf[x]
    <3>1. Chosen({x}) = x
      BY Picked
    <3>2. IsFiniteSet({x}) /\ {x} # {} /\ {x} \ {x} = {}
      BY FS_Singleton
    <3>3. Bytes({x}) = SizeOf[x] + Bytes({})
      BY <3>1, <3>2, BytesRecursion
    <3> QED
      BY <3>3, BytesEmpty, <1>0
  <2>2. \A x \in Buffers : Bytes({} \cup {x}) = Bytes({}) + SizeOf[x]
    <3>1. \A x \in Buffers : {} \cup {x} = {x}
      OBVIOUS
    <3> QED
      BY <3>1, <2>1, <1>0, BytesEmpty
  <2> QED
    BY <2>0, <2>2
<1>2. ASSUME NEW n \in Nat, n \in Good PROVE n + 1 \in Good
  <2>1. ASSUME NEW s \in SUBSET Buffers, NEW x \in Buffers,
               IsFiniteSet(s), Cardinality(s) = n + 1, x \notin s
        PROVE  Bytes(s \cup {x}) = Bytes(s) + SizeOf[x]
    <3> DEFINE sx == s \cup {x}
               y == Chosen(sx)
    <3>1. IsFiniteSet(sx) /\ sx # {} /\ y \in sx
      <4>1. IsFiniteSet(sx)
        BY <2>1, FS_AddElement
      <4>2. sx # {}
        OBVIOUS
      <4> QED
        BY <4>1, <4>2, Picked
    <3>2. Bytes(sx) = SizeOf[y] + Bytes(sx \ {y})
      BY <3>1, BytesRecursion
    <3>3. CASE y = x
      <4>1. sx \ {y} = s
        BY <3>3, <2>1
      <4>2. Bytes(s) \in Nat
        BY <2>1, BytesTyped
      <4> QED
        BY <4>1, <4>2, <3>2, <3>3, <1>0
    <3>4. CASE y # x
      <4> DEFINE t == s \ {y}
      <4>1. y \in s /\ y \in Buffers /\ y \notin t
        BY <3>1, <3>4
      <4>2. IsFiniteSet(t) /\ Cardinality(t) = n /\ t \in SUBSET Buffers
        <5>1. IsFiniteSet(t) /\ Cardinality(t) = IF y \in s THEN Cardinality(s) - 1 ELSE Cardinality(s)
          <6> HIDE DEF y
          <6> QED
            BY <2>1, FS_RemoveElement
        <5> QED
          BY <4>1, <5>1, <2>1
      <4>3. sx \ {y} = t \cup {x} /\ s = t \cup {y} /\ x \notin t
        BY <4>1, <3>4, <2>1
      <4>4. Bytes(t) \in Nat
        BY <4>2, BytesTyped
      <4>5. Bytes(t \cup {x}) = Bytes(t) + SizeOf[x]
        BY <4>2, <4>3, <1>2
      <4>6. Bytes(t \cup {y}) = Bytes(t) + SizeOf[y]
        BY <4>1, <4>2, <1>2
      <4>7. SizeOf[x] \in Nat /\ SizeOf[y] \in Nat
        BY <4>1, <1>0
      <4>8. Bytes(sx) = SizeOf[y] + (Bytes(t) + SizeOf[x]) /\ Bytes(s) = Bytes(t) + SizeOf[y]
        BY <4>3, <4>5, <4>6, <3>2
      <4> QED
        BY <4>4, <4>7, <4>8
    <3> QED
      BY <3>3, <3>4
  <2> QED
    BY <2>1
<1> HIDE DEF Good
<1>3. Nat \subseteq Good
  BY <1>1, <1>2, NatSetInd
<1> QED
  BY <1>3, FS_CardinalityType DEF Good
----------------------------------------------------------------------------
(* The byte counters *)

(* What the gate needs to be inductive: only a finite set has a sum. *)
Gate == IsFiniteSet(metered) /\ GateSound

(* Metering one buffer more, or the same one again. *)
LEMMA BytesWith ==
  ASSUME NEW S \in SUBSET Buffers, IsFiniteSet(S), NEW b \in Buffers
  PROVE  /\ IsFiniteSet(S \cup {b})
         /\ Bytes(S \cup {b}) <= Bytes(S) + SizeOf[b]
<1>1. IsFiniteSet(S \cup {b})
  BY FS_AddElement
<1>2. Bytes(S) \in Nat /\ SizeOf[b] \in Nat
  BY BytesTyped, SizeAssumption
<1>3. CASE b \in S
  <2>1. Bytes(S \cup {b}) = Bytes(S)
    <3>1. S \cup {b} = S
      BY <1>3
    <3> QED
      BY <3>1
  <2> HIDE DEF Bytes
  <2> QED
    BY <1>1, <1>2, <2>1
<1>4. CASE b \notin S
  BY <1>1, <1>2, <1>4, BytesAdd
<1> QED
  BY <1>3, <1>4

(* Giving one back. *)
LEMMA BytesWithout ==
  ASSUME NEW S \in SUBSET Buffers, IsFiniteSet(S), NEW b \in S
  PROVE  /\ IsFiniteSet(S \ {b})
         /\ Bytes(S \ {b}) \in Nat
         /\ Bytes(S) = Bytes(S \ {b}) + SizeOf[b]
<1>1. IsFiniteSet(S \ {b}) /\ S \ {b} \in SUBSET Buffers
  BY FS_RemoveElement
<1>2. b \in Buffers /\ b \notin S \ {b} /\ (S \ {b}) \cup {b} = S
  OBVIOUS
<1>3. Bytes((S \ {b}) \cup {b}) = Bytes(S \ {b}) + SizeOf[b]
  BY <1>1, <1>2, BytesAdd
<1> QED
  BY <1>1, <1>2, <1>3, BytesTyped

LEMMA AcquireGate ==
  ASSUME IInv, Gate, NEW n \in Sizes, NEW b \in Buffers, Acquire(n, b)
  PROVE  Gate'
<1>1. n = SizeOf[b] /\ n \in Nat
  BY ReuseLemma, SizeAssumption DEF IInv, Acquire, Allocate, Fresh
<1>2. metered \in SUBSET Buffers /\ IsFiniteSet(metered)
  BY DEF IInv, TypeOK, Gate
<1>3. live \in Nat /\ peak \in Nat /\ entry \in Nat /\ Bytes(metered) \in Nat
  BY <1>2, BytesTyped DEF IInv, TypeOK
<1>4. /\ live' = live + n
      /\ peak' = IF live + n > peak THEN live + n ELSE peak
      /\ metered' = metered \cup {b} /\ entry' = entry /\ mixed' = mixed
  BY DEF Acquire, Count
<1>5. /\ IsFiniteSet(metered') /\ metered' \in SUBSET Buffers
      /\ Bytes(metered') <= Bytes(metered) + n
  BY <1>1, <1>2, <1>4, BytesWith
<1>6. Bytes(metered') \in Nat
  BY <1>5, BytesTyped
<1>7. ASSUME ~mixed' PROVE live' >= entry' + Bytes(metered')
  <2>1. live >= entry + Bytes(metered)
    BY <1>4, <1>7 DEF Gate, GateSound
  <2> QED
    BY <1>1, <1>3, <1>4, <1>5, <1>6, <2>1
<1>8. peak' >= live'
  BY <1>1, <1>3, <1>4
<1>9. Bytes(metered)' = Bytes(metered')
  OBVIOUS
<1> QED
  BY <1>5, <1>7, <1>8, <1>9 DEF Gate, GateSound

LEMMA ReleaseGate ==
  ASSUME IInv, Gate, NEW a \in scratch, ReleaseInto(a)
  PROVE  Gate'
<1>0. PICK b \in Buffers : b = a.buf /\ a.len = SizeOf[b]
  BY DEF IInv, TypeOK, Arrays, OwnersWhole, ReleaseInto
<1>1. SizeOf[b] \in Nat
  BY SizeAssumption
<1>2. metered \in SUBSET Buffers /\ IsFiniteSet(metered)
  BY DEF IInv, TypeOK, Gate
<1>3. live \in Nat /\ peak \in Nat /\ entry \in Nat /\ Bytes(metered) \in Nat
  BY <1>2, BytesTyped DEF IInv, TypeOK
<1>4. /\ live' = IF SizeOf[b] > live THEN 0 ELSE live - SizeOf[b]
      /\ metered' = metered \ {b} /\ entry' = entry /\ peak' = peak
  BY <1>0 DEF ReleaseInto, Release, Unmeter
<1>5. mixed' <=> mixed \/ b \notin metered
  BY <1>0 DEF ReleaseInto, Unmeter
<1>6. ASSUME ~mixed' PROVE live' >= entry' + Bytes(metered')
  <2>1. b \in metered /\ ~mixed
    BY <1>5, <1>6
  <2>2. live >= entry + Bytes(metered)
    BY <2>1 DEF Gate, GateSound
  <2>3. Bytes(metered') \in Nat /\ Bytes(metered) = Bytes(metered') + SizeOf[b]
    BY <1>2, <1>4, <2>1, BytesWithout
  <2> QED
    BY <1>1, <1>3, <1>4, <2>2, <2>3
<1>7. peak' >= live'
  <2>1. peak >= live
    BY DEF Gate, GateSound
  <2> QED
    BY <2>1, <1>1, <1>3, <1>4
<1>8. IsFiniteSet(metered')
  BY <1>2, <1>4, FS_RemoveElement
<1>9. Bytes(metered)' = Bytes(metered')
  OBVIOUS
<1> QED
  BY <1>6, <1>7, <1>8, <1>9 DEF Gate, GateSound

(* Uploading raises at most the high-water mark; the rest counts nothing. *)
LEMMA RestGate ==
  ASSUME IInv, Gate,
         \/ \E n \in Sizes, m, b \in Buffers : FromHost(n, m, b)
         \/ \E a \in scratch : Drop(a) \/ Keep(a) \/ \E n \in Sizes : View(a, n)
         \/ \E b \in Buffers : Forget(b)
         \/ UNCHANGED poolVars
  PROVE  Gate'
<1>1. UNCHANGED <<live, metered, entry, mixed>>
  BY DEF FromHost, Metering, Drop, Keep, View, Forget, pool, history, poolVars
<1>2. live \in Nat /\ peak \in Nat /\ peak >= live
  BY DEF IInv, TypeOK, Gate, GateSound
<1>3. peak' >= live'
  <2>1. CASE \E n \in Sizes, m, b \in Buffers : FromHost(n, m, b)
    <3>1. PICK n \in Sizes : /\ peak' = IF live + n > peak THEN live + n ELSE peak
                             /\ live' = live
      BY <2>1 DEF FromHost, Metering
    <3>2. n \in Nat
      BY SizeAssumption DEF Sizes
    <3> QED
      BY <3>1, <3>2, <1>2
  <2>2. CASE \/ \E a \in scratch : Drop(a) \/ Keep(a) \/ \E n \in Sizes : View(a, n)
             \/ \E b \in Buffers : Forget(b)
             \/ UNCHANGED poolVars
    BY <2>2, <1>2 DEF Drop, Keep, View, Forget, pool, poolVars
  <2> QED
    BY <2>1, <2>2
<1>4. Bytes(metered)' = Bytes(metered)
  BY <1>1
<1>5. IsFiniteSet(metered')
  BY <1>1 DEF Gate
<1>6. ASSUME ~mixed' PROVE (live >= entry + Bytes(metered))'
  BY <1>1, <1>4, <1>6 DEF Gate, GateSound
<1> QED
  BY <1>3, <1>5, <1>6 DEF Gate, GateSound

(* A new call, or a new pool, starts from the counter as it stands. *)
LEMMA NewCallGate ==
  ASSUME live' \in Nat, peak' >= live', NewCall
  PROVE  Gate'
<1>1. metered' = {} /\ entry' = live'
  BY DEF NewCall
<1>2. Bytes(metered)' = 0
  BY <1>1, BytesEmpty
<1>3. IsFiniteSet(metered')
  BY <1>1, FS_EmptySet
<1> QED
  BY <1>1, <1>2, <1>3 DEF Gate, GateSound

LEMMA InitGate == Init => Gate
<1> SUFFICES ASSUME Init PROVE Gate
  OBVIOUS
<1>1. metered = {} /\ live = 0 /\ entry = 0 /\ peak = 0
  BY DEF Init
<1>2. IsFiniteSet(metered) /\ Bytes(metered) = 0
  BY <1>1, BytesEmpty, FS_EmptySet
<1> QED
  BY <1>1, <1>2 DEF Gate, GateSound

LEMMA NextGate == IInv /\ Gate /\ [Next]_poolVars => Gate'
<1> SUFFICES ASSUME IInv, Gate, [Next]_poolVars PROVE Gate'
  OBVIOUS
<1>1. ASSUME NEW n \in Sizes, NEW b \in Buffers, Acquire(n, b) PROVE Gate'
  BY <1>1, AcquireGate
<1>2. ASSUME NEW a \in scratch, ReleaseInto(a) PROVE Gate'
  BY <1>2, ReleaseGate
<1>3. CASE \/ \E n \in Sizes, m, b \in Buffers : FromHost(n, m, b)
           \/ \E a \in scratch : Drop(a) \/ Keep(a) \/ \E n \in Sizes : View(a, n)
           \/ \E b \in Buffers : Forget(b)
           \/ UNCHANGED poolVars
  BY <1>3, RestGate
<1>4. CASE End
  <2>1. live' \in Nat /\ peak' >= live' /\ NewCall
    BY <1>4 DEF End, pool, IInv, TypeOK, Gate, GateSound
  <2> QED
    BY <2>1, NewCallGate
<1>5. CASE ResetAfterPoison
  <2>1. live' \in Nat /\ peak' >= live' /\ NewCall
    BY <1>5 DEF ResetAfterPoison, NewStats
  <2> QED
    BY <2>1, NewCallGate
<1> QED
  BY <1>1, <1>2, <1>3, <1>4, <1>5 DEF Next, Operation

(* The counters the memory gate reads are what the gate takes them for, for *)
(* any buffers: the sum is over whatever the call has acquired and still    *)
(* holds, and no subtraction saturates.                                     *)
THEOREM GateCorrect == Spec => []GateSound
<1>1. Init => IInv /\ Gate
  BY InitIInv, InitGate
<1>2. (IInv /\ Gate) /\ [Next]_poolVars => (IInv /\ Gate)'
  BY NextIInv, NextGate
<1>3. Gate => GateSound
  BY DEF Gate
<1> QED
  BY <1>1, <1>2, <1>3, PTL DEF Spec

----------------------------------------------------------------------------
(* The locks *)

Types ==
  /\ pc \in [Threads -> Locations]
  /\ kind \in [Threads -> {"detached", "getter", "bridged"}]
  /\ gil \in Threads \cup {Nobody}
  /\ guard \in Threads \cup {Nobody}
  /\ calls \in 0 .. MaxCalls
  /\ panics \in 0 .. MaxPanics
  /\ rebaselines \in Nat

Owners == \A t \in Threads : (guard = t <=> HasPool(t)) /\ (gil = t <=> HasGil(t))

(* Only a bridged fit calls into Python, and there is none unless asked for. *)
Unbridged ==
  \A t \in Threads :
    /\ pc[t] \in {"inPython", "yielded", "nestedToLock"} => kind[t] = "bridged"
    /\ kind[t] = "bridged" => "bridged" \in Kinds

LInv == Types /\ poisoned \in BOOLEAN /\ Owners /\ Unbridged

(* Between two calls no local refers to a buffer. *)
IdleScratch == guard = Nobody => scratch = {}

LEMMA InitLocks == GInit => LInv /\ IdleScratch
<1> SUFFICES ASSUME GInit PROVE LInv /\ IdleScratch
  OBVIOUS
<1>1. Types
  BY CallsAssumption DEF GInit, Types, Locations
<1>2. Owners
  BY NobodyIsNoThread DEF GInit, Owners, HasPool, HasGil
<1>3. Unbridged
  BY DEF GInit, Unbridged
<1> QED
  BY <1>1, <1>2, <1>3 DEF GInit, LInv, Init, IdleScratch

----------------------------------------------------------------------------
(* One lemma per action *)

LEMMA CallInv ==
  ASSUME LInv, NEW t \in Threads, NEW k \in Kinds, Call(t, k)
  PROVE  LInv'
<1>1. Types'
  <2>1. (calls \in 0 .. MaxCalls)'
    BY CallsAssumption DEF LInv, Types, Call
  <2>2. (kind \in [Threads -> {"detached", "getter", "bridged"}])'
    BY KindsAssumption DEF LInv, Types, Call
  <2> QED
    BY <2>1, <2>2 DEF LInv, Types, Locations, Call, Goto
<1>2. Owners'
  BY NobodyIsNoThread DEF LInv, Types, Owners, Unbridged, HasPool, HasGil, Call, Goto
<1>3. Unbridged'
  BY DEF LInv, Types, Unbridged, Call, Goto
<1>4. (poisoned \in BOOLEAN)'
  BY DEF LInv, Call
<1> QED
  BY <1>1, <1>2, <1>3, <1>4 DEF LInv

LEMMA ReachInv ==
  ASSUME LInv, NEW t \in Threads, Reach(t)
  PROVE  LInv'
<1>1. Types'
  BY KindsAssumption DEF LInv, Types, Locations, Reach, Goto
<1>2. Owners'
  BY NobodyIsNoThread DEF LInv, Types, Owners, Unbridged, HasPool, HasGil, Reach, Goto
<1>3. Unbridged'
  BY DEF LInv, Types, Unbridged, Reach, Goto
<1>4. (poisoned \in BOOLEAN)'
  BY DEF LInv, Reach
<1> QED
  BY <1>1, <1>2, <1>3, <1>4 DEF LInv

LEMMA AttachInv ==
  ASSUME LInv, NEW t \in Threads, Attach(t)
  PROVE  LInv'
<1>1. Types'
  BY KindsAssumption DEF LInv, Types, Locations, Attach, Goto
<1>2. Owners'
  BY NobodyIsNoThread DEF LInv, Types, Owners, Unbridged, HasPool, HasGil, Attach, Goto
<1>3. Unbridged'
  BY DEF LInv, Types, Unbridged, Attach, Goto
<1>4. (poisoned \in BOOLEAN)'
  BY DEF LInv, Attach
<1> QED
  BY <1>1, <1>2, <1>3, <1>4 DEF LInv

LEMMA ReturnInv ==
  ASSUME LInv, NEW t \in Threads, Return(t)
  PROVE  LInv'
<1>1. Types'
  BY KindsAssumption DEF LInv, Types, Locations, Return, Goto
<1>2. Owners'
  BY NobodyIsNoThread DEF LInv, Types, Owners, Unbridged, HasPool, HasGil, Return, Goto
<1>3. Unbridged'
  BY DEF LInv, Types, Unbridged, Return, Goto
<1>4. (poisoned \in BOOLEAN)'
  BY DEF LInv, Return
<1> QED
  BY <1>1, <1>2, <1>3, <1>4 DEF LInv

LEMMA LockInv ==
  ASSUME LInv, NEW t \in Threads, Lock(t)
  PROVE  LInv'
<1>1. Types'
  BY KindsAssumption DEF LInv, Types, Locations, Lock, Goto
<1>2. Owners'
  BY NobodyIsNoThread DEF LInv, Types, Owners, Unbridged, HasPool, HasGil, Lock, Goto
<1>3. Unbridged'
  BY DEF LInv, Types, Unbridged, Lock, Goto
<1>4. (poisoned \in BOOLEAN)'
  BY DEF LInv, Lock
<1> QED
  BY <1>1, <1>2, <1>3, <1>4 DEF LInv

LEMMA ComputeInv ==
  ASSUME LInv, NEW t \in Threads, Compute(t)
  PROVE  LInv'
<1>1. Types'
  BY KindsAssumption DEF LInv, Types, Locations, Compute, lockVars
<1>2. Owners'
  BY NobodyIsNoThread DEF LInv, Types, Owners, Unbridged, HasPool, HasGil, Compute, lockVars
<1>3. Unbridged'
  BY DEF LInv, Types, Unbridged, Compute, lockVars
<1>4. (poisoned \in BOOLEAN)'
  BY DEF LInv, Compute, lockVars
<1> QED
  BY <1>1, <1>2, <1>3, <1>4 DEF LInv

LEMMA UnlockInv ==
  ASSUME LInv, NEW t \in Threads, Unlock(t)
  PROVE  LInv'
<1>1. Types'
  BY KindsAssumption DEF LInv, Types, Locations, Unlock, Goto, AfterUnlock
<1>2. Owners'
  BY NobodyIsNoThread DEF LInv, Types, Owners, Unbridged, HasPool, HasGil, Unlock, Goto, AfterUnlock
<1>3. Unbridged'
  BY DEF LInv, Types, Unbridged, Unlock, Goto, AfterUnlock
<1>4. (poisoned \in BOOLEAN)'
  BY DEF LInv, Unlock
<1> QED
  BY <1>1, <1>2, <1>3, <1>4 DEF LInv

LEMMA PanicInv ==
  ASSUME LInv, NEW t \in Threads, Panic(t)
  PROVE  LInv'
<1>1. Types'
  <2>1. (panics \in 0 .. MaxPanics)'
    BY CallsAssumption DEF LInv, Types, Panic
  <2>2. (pc \in [Threads -> Locations])'
    BY DEF LInv, Types, Locations, Panic, Goto, AfterUnlock
  <2> QED
    BY <2>1, <2>2 DEF LInv, Types, Panic
<1>2. Owners'
  BY NobodyIsNoThread DEF LInv, Types, Owners, Unbridged, HasPool, HasGil, Panic, Goto, AfterUnlock
<1>3. Unbridged'
  BY DEF LInv, Types, Unbridged, Panic, Goto, AfterUnlock
<1>4. (poisoned \in BOOLEAN)'
  BY DEF LInv, Panic
<1> QED
  BY <1>1, <1>2, <1>3, <1>4 DEF LInv

LEMMA CallBackInv ==
  ASSUME LInv, NEW t \in Threads, CallBack(t)
  PROVE  LInv'
<1>1. Types'
  BY KindsAssumption DEF LInv, Types, Locations, CallBack, Goto
<1>2. Owners'
  BY NobodyIsNoThread DEF LInv, Types, Owners, Unbridged, HasPool, HasGil, CallBack, Goto
<1>3. Unbridged'
  BY DEF LInv, Types, Unbridged, CallBack, Goto
<1>4. (poisoned \in BOOLEAN)'
  BY DEF LInv, CallBack
<1> QED
  BY <1>1, <1>2, <1>3, <1>4 DEF LInv

LEMMA CallBackReturnsInv ==
  ASSUME LInv, NEW t \in Threads, CallBackReturns(t)
  PROVE  LInv'
<1>1. Types'
  BY KindsAssumption DEF LInv, Types, Locations, CallBackReturns, Goto
<1>2. Owners'
  BY NobodyIsNoThread DEF LInv, Types, Owners, Unbridged, HasPool, HasGil, CallBackReturns, Goto
<1>3. Unbridged'
  BY DEF LInv, Types, Unbridged, CallBackReturns, Goto
<1>4. (poisoned \in BOOLEAN)'
  BY DEF LInv, CallBackReturns
<1> QED
  BY <1>1, <1>2, <1>3, <1>4 DEF LInv

LEMMA YieldInv ==
  ASSUME LInv, NEW t \in Threads, Yield(t)
  PROVE  LInv'
<1>1. Types'
  BY KindsAssumption DEF LInv, Types, Locations, Yield, Goto
<1>2. Owners'
  BY NobodyIsNoThread DEF LInv, Types, Owners, Unbridged, HasPool, HasGil, Yield, Goto
<1>3. Unbridged'
  BY DEF LInv, Types, Unbridged, Yield, Goto
<1>4. (poisoned \in BOOLEAN)'
  BY DEF LInv, Yield
<1> QED
  BY <1>1, <1>2, <1>3, <1>4 DEF LInv

LEMMA ResumeInv ==
  ASSUME LInv, NEW t \in Threads, Resume(t)
  PROVE  LInv'
<1>1. Types'
  BY KindsAssumption DEF LInv, Types, Locations, Resume, Goto
<1>2. Owners'
  BY NobodyIsNoThread DEF LInv, Types, Owners, Unbridged, HasPool, HasGil, Resume, Goto
<1>3. Unbridged'
  BY DEF LInv, Types, Unbridged, Resume, Goto
<1>4. (poisoned \in BOOLEAN)'
  BY DEF LInv, Resume
<1> QED
  BY <1>1, <1>2, <1>3, <1>4 DEF LInv

LEMMA CallAgainInv ==
  ASSUME LInv, NEW t \in Threads, CallAgain(t)
  PROVE  LInv'
<1>1. Types'
  BY KindsAssumption DEF LInv, Types, Locations, CallAgain, Goto
<1>2. Owners'
  BY NobodyIsNoThread DEF LInv, Types, Owners, Unbridged, HasPool, HasGil, CallAgain, Goto
<1>3. Unbridged'
  BY DEF LInv, Types, Unbridged, CallAgain, Goto
<1>4. (poisoned \in BOOLEAN)'
  BY DEF LInv, CallAgain
<1> QED
  BY <1>1, <1>2, <1>3, <1>4 DEF LInv

----------------------------------------------------------------------------
(* The steps together *)

LEMMA NextLocks == LInv /\ [GNext]_vars => LInv'
<1> SUFFICES ASSUME LInv, [GNext]_vars PROVE LInv'
  OBVIOUS
<1>1. ASSUME NEW t \in Threads, Step(t) PROVE LInv'
  <2>1. ASSUME NEW k \in Kinds, Call(t, k) PROVE LInv'
    BY <2>1, CallInv
  <2>2. CASE Reach(t)
    BY <2>2, ReachInv
  <2>3. CASE Attach(t)
    BY <2>3, AttachInv
  <2>4. CASE Return(t)
    BY <2>4, ReturnInv
  <2>5. CASE Lock(t)
    BY <2>5, LockInv
  <2>6. CASE Compute(t)
    BY <2>6, ComputeInv
  <2>7. CASE Unlock(t)
    BY <2>7, UnlockInv
  <2>8. CASE Panic(t)
    BY <2>8, PanicInv
  <2>9. CASE CallBack(t)
    BY <2>9, CallBackInv
  <2>10. CASE CallBackReturns(t)
    BY <2>10, CallBackReturnsInv
  <2>11. CASE Yield(t)
    BY <2>11, YieldInv
  <2>12. CASE Resume(t)
    BY <2>12, ResumeInv
  <2>13. CASE CallAgain(t)
    BY <2>13, CallAgainInv
  <2> QED
    BY <1>1, <2>1, <2>2, <2>3, <2>4, <2>5, <2>6, <2>7, <2>8, <2>9, <2>10, <2>11, <2>12, <2>13 DEF Step
<1>2. CASE UNCHANGED lockVars
  <2>1. Types'
    BY <1>2 DEF LInv, Types, lockVars
  <2>2. Owners'
    BY <1>2 DEF LInv, Owners, HasPool, HasGil, lockVars
  <2>3. Unbridged'
    BY <1>2 DEF LInv, Unbridged, lockVars
  <2>4. (poisoned \in BOOLEAN)'
    BY <1>2 DEF LInv, lockVars
  <2> QED
    BY <2>1, <2>2, <2>3, <2>4 DEF LInv
<1> QED
  BY <1>1, <1>2 DEF GNext, Collect, vars

(* Every lock is held by the thread that is where its code says it has it. *)
THEOREM LockTypeCorrect == GSpec => []LockTypeOK
<1>1. GInit => LInv
  BY InitLocks
<1>2. LInv /\ [GNext]_vars => LInv'
  BY NextLocks
<1>3. LInv => LockTypeOK
  BY DEF LInv, Types, Owners, LockTypeOK
<1> QED
  BY <1>1, <1>2, <1>3, PTL DEF GSpec

(* Whoever has the pool's mutex in a detached call or a getter wants no     *)
(* other lock until it has given it back.                                   *)
LEMMA OnlyBridgesWait ==
  ASSUME LInv, NEW t \in Threads, NEW u \in Threads, BlockedBy(t, u), BlockedBy(u, t)
  PROVE  "bridged" \in {kind[t], kind[u]}
<1>1. CASE pc[t] \in WantsPool /\ guard = u
  BY <1>1 DEF LInv, Owners, Unbridged, HasPool, BlockedBy, WantsPool, WantsGil
<1>2. CASE pc[t] \in WantsGil /\ gil = u
  BY <1>2 DEF LInv, Owners, Unbridged, HasPool, HasGil, BlockedBy, WantsPool, WantsGil
<1> QED
  BY <1>1, <1>2 DEF BlockedBy

(* Two threads wait for each other's lock, or one for its own, only in a    *)
(* bridged call: fits that release the GIL and getters never deadlock.      *)
THEOREM DeadlocksNeedBridges == GSpec => []DeadlocksAreBridged
<1>1. GInit => LInv
  BY InitLocks
<1>2. LInv /\ [GNext]_vars => LInv'
  BY NextLocks
<1>3. LInv => DeadlocksAreBridged
  BY OnlyBridgesWait DEF DeadlocksAreBridged
<1> QED
  BY <1>1, <1>2, <1>3, PTL DEF GSpec

(* If no method is bridged, there is no deadlock at all.                    *)
THEOREM DeadlockFree == "bridged" \notin Kinds => (GSpec => []NoDeadlock)
<1>1. GInit => LInv
  BY InitLocks
<1>2. LInv /\ [GNext]_vars => LInv'
  BY NextLocks
<1>3. "bridged" \notin Kinds /\ LInv => NoDeadlock
  BY OnlyBridgesWait DEF NoDeadlock, LInv, Unbridged
<1> SUFFICES ASSUME "bridged" \notin Kinds PROVE GSpec => []NoDeadlock
  OBVIOUS
<1>4. LInv => NoDeadlock
  BY <1>3
<1> QED
  BY <1>1, <1>2, <1>4, PTL DEF GSpec

----------------------------------------------------------------------------
(* The refinement *)

(* A step of the threads is a step of the pool, or leaves it alone. *)
LEMMA StepIsPoolStep ==
  ASSUME LInv, IdleScratch, [GNext]_vars
  PROVE  [Next]_poolVars /\ IdleScratch'
<1>1. ASSUME NEW t \in Threads, Step(t)
      PROVE  [Next]_poolVars /\ IdleScratch'
  <2>1. CASE (\E k \in Kinds : Call(t, k)) \/ Reach(t) \/ Attach(t) \/ Return(t)
    BY <2>1 DEF Call, Reach, Attach, Return, IdleScratch, poolVars
  <2>2. CASE Lock(t)
    BY <2>2, NobodyIsNoThread DEF Lock, Next, IdleScratch, ResetAfterPoison, poolVars
  <2>3. CASE Compute(t)
    <3>1. guard' # Nobody
      BY <2>3, NobodyIsNoThread DEF Compute, LInv, Owners, HasPool, lockVars
    <3> QED
      BY <2>3, <3>1 DEF Compute, Next, IdleScratch
  <2>4. CASE Unlock(t) \/ Panic(t)
    BY <2>4 DEF Unlock, Panic, Next, End, IdleScratch
  <2>5. CASE CallBack(t) \/ CallBackReturns(t) \/ Yield(t) \/ Resume(t) \/ CallAgain(t)
    BY <2>5 DEF CallBack, CallBackReturns, Yield, Resume, CallAgain, IdleScratch, poolVars
  <2> QED
    BY <1>1, <2>1, <2>2, <2>3, <2>4, <2>5 DEF Step
<1>2. CASE Collect
  BY <1>2 DEF Collect, Next, Forget, IdleScratch, lockVars
<1>3. CASE UNCHANGED vars
  BY <1>3 DEF vars, lockVars, poolVars, IdleScratch
<1> QED
  BY <1>1, <1>2, <1>3 DEF GNext

(* Any number of threads use the pool as one would. *)
THEOREM PoolIsSequential == GSpec => Sequential
<1>1. GInit => Init /\ LInv /\ IdleScratch
  BY InitLocks DEF GInit
<1>2. LInv /\ IdleScratch /\ [GNext]_vars
      => LInv' /\ IdleScratch' /\ [Next]_poolVars
  BY NextLocks, StepIsPoolStep
<1> QED
  BY <1>1, <1>2, PTL DEF GSpec, Sequential, Spec

(* So no two of them ever refer to one buffer through the pool. *)
THEOREM GlobalNoAlias == GSpec => []NoAlias
BY PoolIsSequential, NoAliasCorrect, PTL DEF Sequential

(* And what a call reads of the byte counters is its own doing: calls of    *)
(* other threads, panics and resets in between do not show in them.         *)
THEOREM GlobalGate == GSpec => []GateSound
BY PoolIsSequential, GateCorrect, PTL DEF Sequential
=============================================================================
