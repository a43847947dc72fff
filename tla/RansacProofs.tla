---------------------------- MODULE RansacProofs ----------------------------
(***************************************************************************)
(* The batched fit of RansacBatch, for every width, stream of trials and   *)
(* configuration: its types, and that batching does not change the fit.    *)
(***************************************************************************)
EXTENDS RansacBatch, SequenceTheorems, TLAPS

----------------------------------------------------------------------------
(* Sequences *)

LEMMA OneMore ==
  ASSUME NEW s \in Seq(Nat), NEW t \in Seq(Nat), Len(t) = 1
  PROVE  /\ s \o t = Append(s, t[1])
         /\ Len(s \o t) = Len(s) + 1
         /\ (s \o t)[Len(s) + 1] = t[1]
         /\ SubSeq(s \o t, 1, Len(s)) = s
<1>1. /\ s \o t \in Seq(Nat)
      /\ Len(s \o t) = Len(s) + 1
      /\ \A i \in 1 .. Len(s) + 1 : (s \o t)[i] = IF i <= Len(s) THEN s[i] ELSE t[i - Len(s)]
  <2>1. 1 = Len(t)
    OBVIOUS
  <2>2. /\ s \o t \in Seq(Nat)
        /\ Len(s \o t) = Len(s) + Len(t)
        /\ \A i \in 1 .. Len(s) + Len(t) :
             (s \o t)[i] = IF i <= Len(s) THEN s[i] ELSE t[i - Len(s)]
    BY ONLY s \in Seq(Nat), t \in Seq(Nat), ConcatProperties, Zenon
  <2>. QED  BY <2>1, <2>2, Zenon
<1>2. t[1] \in Nat /\ Len(s) \in Nat
  <2>1. 1 \in 1 .. Len(t)
    OBVIOUS
  <2>2. t[1] \in Nat
    BY <2>1, ElementOfSeq
  <2>. QED  BY <2>2, LenProperties
<1>3. /\ Append(s, t[1]) \in Seq(Nat)
      /\ Len(Append(s, t[1])) = Len(s) + 1
      /\ \A i \in 1 .. Len(s) + 1 :
           Append(s, t[1])[i] = IF i <= Len(s) THEN s[i] ELSE t[1]
  BY <1>2
<1>4. \A i \in 1 .. Len(s) + 1 : (s \o t)[i] = Append(s, t[1])[i]
  BY <1>1, <1>2, <1>3
<1>5. s \o t = Append(s, t[1])
  BY <1>1, <1>3, <1>4, SeqEqual
<1>6. (s \o t)[Len(s) + 1] = t[1]
  BY <1>1, <1>2
<1>. QED  BY <1>1, <1>2, <1>3, <1>5, <1>6

LEMMA LastApart ==
  ASSUME NEW s \in Seq(Nat), Len(s) >= 1
  PROVE  s = Append(SubSeq(s, 1, Len(s) - 1), s[Len(s)])
<1>. DEFINE n == Len(s) - 1
            f == SubSeq(s, 1, n)
<1>1. n \in Nat /\ Len(s) = n + 1 /\ \A i \in 1 .. n : s[i] \in Nat
  BY LenProperties
<1>2. s[Len(s)] \in Nat
  OBVIOUS
<1>. HIDE DEF n
<1>3. f \in Seq(Nat) /\ Len(f) = n /\ \A i \in 1 .. n : f[i] = s[i]
  <2>1. /\ f \in Seq(Nat)
        /\ Len(f) = IF 1 <= n THEN n - 1 + 1 ELSE 0
        /\ \A i \in 1 .. n - 1 + 1 : f[i] = s[1 + i - 1]
    BY <1>1, SubSeqProperties
  <2>. HIDE DEF f
  <2>2. Len(f) = n
    BY <1>1, <2>1
  <2>3. ASSUME NEW i \in 1 .. n  PROVE f[i] = s[i]
    BY <1>1, <2>1
  <2>. QED  BY <2>1, <2>2, <2>3
<1>. HIDE DEF f
<1>4. Append(f, s[Len(s)]) \in Seq(Nat) /\ Len(Append(f, s[Len(s)])) = Len(s)
  BY <1>1, <1>2, <1>3
<1>5. \A i \in 1 .. Len(s) : Append(f, s[Len(s)])[i] = s[i]
  BY <1>1, <1>2, <1>3
<1>6. Append(f, s[Len(s)]) = s
  BY <1>4, <1>5, SeqEqual
<1>. QED  BY <1>6 DEF f, n

----------------------------------------------------------------------------
(* Trials *)

LEMMA TrialOutcome ==
  ASSUME NEW c \in Configs, NEW s \in Streams(c), NEW p \in Nat
  PROVE  /\ At(s, p).status \in {"fitted", "invalidData", "invalidModel", "raises"}
         /\ At(s, p).inliers \in 0 .. Rows
         /\ At(s, p).score \in Scores \cup {NaN}
         /\ ~RunsForeignCode(c) => At(s, p).status = "fitted"
<1>1. p % Period \in 0 .. Period - 1
  BY PeriodAssumption
<1>2. At(s, p) \in Outcomes(c)
  BY <1>1 DEF Streams, At
<1>3. ASSUME NEW o \in Fits
      PROVE  o.status = "fitted" /\ o.inliers \in 0 .. Rows /\ o.score \in Scores \cup {NaN}
  BY RowsAssumption DEF Fits, Fit
<1>4. CASE RunsForeignCode(c)
  BY <1>2, <1>3, <1>4, RowsAssumption DEF Outcomes, Outcome
<1>5. CASE ~RunsForeignCode(c)
  BY <1>2, <1>3, <1>5 DEF Outcomes
<1>. QED  BY <1>4, <1>5

LEMMA ConfigTyped ==
  ASSUME NEW c \in Configs
  PROVE  /\ c \in ConfigType
         /\ Width(c) \in Nat \ {0}
         /\ RunsForeignCode(c) => Width(c) = 1
         /\ ~RunsForeignCode(c) => c.words = 0
BY ConfigsAssumption DEF ConfigType, Width, RunsForeignCode

(* The books stay books, and the budget never grows. *)
LEMMA BookedTyped ==
  ASSUME NEW c \in Configs, NEW s \in Streams(c), NEW p \in Nat,
         NEW k \in BookType, k.inliers >= 1
  PROVE  LET b == Booked(k, At(s, p), p) IN
         b \in BookType /\ b.inliers >= 1 /\ b.budget <= k.budget
<1>. DEFINE o == At(s, p)
<1>1. o.inliers \in 0 .. Rows /\ o.score \in Scores \cup {NaN}
  BY TrialOutcome
<1>. HIDE DEF o
<1>2. CASE Adopts(k, o)
  <2>1. o.inliers \in 1 .. Rows
    BY <1>1, <1>2, RowsAssumption DEF Adopts, BookType
  <2>2. DynamicTrials[o.inliers] \in Nat
    BY <2>1, DynamicAssumption
  <2>. DEFINE d == Smaller(k.budget, DynamicTrials[o.inliers])
  <2>3. d \in Nat /\ d <= k.budget
    BY <2>2 DEF Smaller, BookType
  <2>4. Adopted(k, o, p) = [k EXCEPT !.best = p, !.inliers = o.inliers,
                                     !.score = o.score, !.budget = d]
    BY DEF Adopted
  <2>5. o.inliers \in Nat /\ o.inliers >= 1
    BY <2>1, RowsAssumption
  <2>. HIDE DEF d
  <2>6. Adopted(k, o, p) \in BookType
    BY <1>1, <2>3, <2>4, <2>5, Zenon DEF BookType
  <2>7. Adopted(k, o, p).inliers >= 1 /\ Adopted(k, o, p).budget <= k.budget
    BY <2>3, <2>4, <2>5 DEF BookType
  <2>8. Booked(k, o, p) = Adopted(k, o, p)
    BY <1>2 DEF Booked
  <2>. QED  BY <2>6, <2>7, <2>8 DEF o
<1>3. CASE ~Adopts(k, o)
  <2>1. Booked(k, o, p) \in {[k EXCEPT !.invalidData = @ + 1],
                             [k EXCEPT !.invalidModel = @ + 1],
                             [k EXCEPT !.noInliers = @ + 1], k}
    BY <1>3 DEF Booked
  <2>2. \A b \in {[k EXCEPT !.invalidData = @ + 1], [k EXCEPT !.invalidModel = @ + 1],
                  [k EXCEPT !.noInliers = @ + 1], k} :
          b \in BookType /\ b.inliers >= 1 /\ b.budget <= k.budget
    BY DEF BookType
  <2>. QED  BY <2>1, <2>2 DEF o
<1>. QED  BY <1>2, <1>3

----------------------------------------------------------------------------
(* The invariant *)

InBatch == pc \in {"drawn", "replay"}

(* A batch in hand holds consecutive positions; it has one trial if user    *)
(* code runs; and its first trial is there on the loop's terms.             *)
BatchInv ==
  /\ book.inliers >= 1
  /\ book.budget <= config.maxTrials
  /\ stop => pc \in {"replay", "over"} \cup Results /\ consumed >= 1
  /\ failed => pc \in {"over", "aborted"}
  /\ InBatch =>
       /\ Len(batch) >= 1
       /\ \A i \in 1 .. Len(batch) : batch[i] = batch[1] + (i - 1)
       /\ RunsForeignCode(config) => Len(batch) = 1
  /\ NoneBooked =>
       /\ consumed = 0
       /\ trials >= 1
       /\ trials - 1 < book.budget
       /\ Skips(book) <= config.maxSkips
  /\ pc = "drawn" => rng = batch[1] + Len(batch)
  /\ pc = "replay" =>
       /\ rng = batch[1] + Len(batch) + Words(config, At(stream, batch[1]))
       /\ At(stream, batch[1]).status # "raises"
  /\ pc = "replay" /\ consumed = 0 /\ RunsForeignCode(config) =>
       Len(asked) >= 1 /\ asked[Len(asked)] = batch[1]

IInv == TypeOK /\ BatchInv

LEMMA InitIInv == Init => IInv
<1>. SUFFICES ASSUME Init  PROVE IInv
  OBVIOUS
<1>1. config \in ConfigType
  BY ConfigTyped DEF Init
<1>2. NewBook(config) \in BookType
  BY <1>1 DEF NewBook, BookType, NoTrial, ConfigType
<1>3. TypeOK
  <2>1. 0 <= config.maxTrials
    BY <1>1 DEF ConfigType
  <2>2. <<>> \in Seq(Nat) /\ 0 \in 0 .. Len(<<>>)
    OBVIOUS
  <2>3. 0 \in Nat
    OBVIOUS
  <2>. QED  BY <1>2, <2>1, <2>2, <2>3, Zenon DEF Init, TypeOK
<1>4. BatchInv
  BY <1>1, <1>2 DEF Init, BatchInv, NewBook, InBatch, NoneBooked, ConfigType
<1>. QED  BY <1>3, <1>4 DEF IInv

LEMMA DrawIInv == IInv /\ Draw => IInv'
<1>. SUFFICES ASSUME IInv, Draw  PROVE IInv'
  OBVIOUS
<1>. USE DEF IInv
<1>. DEFINE w == BatchWidth
<1>1. w \in Nat /\ w >= 1 /\ (RunsForeignCode(config) => w = 1)
  <2>1. Width(config) \in Nat \ {0} /\ (RunsForeignCode(config) => Width(config) = 1)
    BY ConfigTyped DEF TypeOK
  <2>2. book.budget \in Nat /\ trials \in Nat /\ trials < book.budget
    BY DEF Draw, TypeOK, BookType
  <2>. QED  BY <2>1, <2>2 DEF BatchWidth, Smaller
<1>2. /\ batch' = [i \in 1 .. w |-> rng + i - 1] /\ rng' = rng + w
      /\ trials' = trials + 1 /\ consumed' = 0 /\ pc' = "drawn"
      /\ pc = "preamble" /\ trials < book.budget /\ Skips(book) <= config.maxSkips
      /\ UNCHANGED <<fit, book, asked, tried, stop, failed>>
  BY DEF Draw
<1>. HIDE DEF w
<1>3. rng \in Nat /\ trials \in Nat /\ config.maxTrials \in Nat /\ book.budget \in Nat
  BY ConfigTyped DEF TypeOK, BookType, ConfigType
<1>4. batch' \in Seq(Nat) /\ Len(batch') = w /\ \A i \in 1 .. w : batch'[i] = rng + i - 1
  BY <1>1, <1>2, <1>3
<1>5. trials' \in Nat /\ trials' <= config.maxTrials
  BY <1>2, <1>3 DEF BatchInv
<1>6. TypeOK'
  BY <1>1, <1>2, <1>3, <1>4, <1>5 DEF TypeOK, fit
<1>7. BatchInv'
  <2>1. ~stop /\ ~failed
    BY <1>2 DEF BatchInv, Results
  <2>2. batch'[1] = rng
    BY <1>1, <1>3, <1>4
  <2>3. \A i \in 1 .. Len(batch') : batch'[i] = batch'[1] + (i - 1)
    BY <1>1, <1>3, <1>4, <2>2
  <2>4. trials' >= 1 /\ trials' - 1 < book.budget
    BY <1>2, <1>3
  <2>. QED  BY <1>1, <1>2, <1>4, <2>1, <2>2, <2>3, <2>4 DEF BatchInv, InBatch, NoneBooked, fit, TypeOK
<1>. QED  BY <1>6, <1>7

LEMMA RunIInv == IInv /\ Run => IInv'
<1>. SUFFICES ASSUME IInv, Run  PROVE IInv'
  OBVIOUS
<1>. USE DEF IInv
<1>. DEFINE o == At(stream, batch[1])
<1>1. batch[1] \in Nat /\ Len(batch) >= 1 /\ consumed = 0 /\ config \in Configs
  <2>1. Len(batch) >= 1 /\ consumed = 0
    BY DEF Run, BatchInv, InBatch, NoneBooked
  <2>2. batch \in Seq(Nat) /\ config \in Configs
    BY DEF TypeOK
  <2>3. 1 \in 1 .. Len(batch)
    BY <2>1, <2>2, LenProperties
  <2>. QED  BY <2>1, <2>2, <2>3, ElementOfSeq
<1>2. Words(config, o) \in Nat
  BY ConfigTyped, <1>1 DEF Words, ConfigType
<1>3. asked' \in Seq(Nat)
  BY DEF Run, TypeOK
<1>4. rng' \in Nat
  BY <1>2 DEF Run, TypeOK
<1>5. TypeOK'
  BY <1>3, <1>4 DEF Run, TypeOK, fit
<1>6. RunsForeignCode(config) => Len(asked') >= 1 /\ asked'[Len(asked')] = batch[1]
  <2>. SUFFICES ASSUME RunsForeignCode(config)
                PROVE  Len(asked') >= 1 /\ asked'[Len(asked')] = batch[1]
    OBVIOUS
  <2>1. Len(batch) = 1 /\ asked' = asked \o batch
    BY DEF Run, BatchInv, InBatch
  <2>2. asked \in Seq(Nat) /\ batch \in Seq(Nat)
    BY DEF TypeOK
  <2>3. Len(asked \o batch) = Len(asked) + 1 /\ (asked \o batch)[Len(asked) + 1] = batch[1]
    BY <2>1, <2>2, OneMore
  <2>. QED  BY <2>1, <2>2, <2>3
<1>7. BatchInv'
  <2>1. CASE o.status = "raises"
    BY <2>1, <1>1 DEF Run, BatchInv, InBatch, NoneBooked, fit, TypeOK, Results
  <2>2. CASE o.status # "raises"
    BY <2>2, <1>1, <1>2, <1>6 DEF Run, BatchInv, InBatch, NoneBooked, fit, TypeOK, Results
  <2>. QED  BY <2>1, <2>2
<1>. QED  BY <1>5, <1>7

LEMMA ReplayTrialIInv == IInv /\ ReplayTrial => IInv'
<1>. SUFFICES ASSUME IInv, ReplayTrial  PROVE IInv'
  OBVIOUS
<1>. USE DEF IInv
<1>. DEFINE p == batch[consumed + 1]
            o == At(stream, p)
<1>1. p \in Nat /\ consumed \in Nat /\ consumed < Len(batch) /\ trials \in Nat
  BY DEF ReplayTrial, TypeOK
<1>2. book' \in BookType /\ book'.inliers >= 1 /\ book'.budget <= book.budget
  BY <1>1, BookedTyped DEF ReplayTrial, TypeOK, BatchInv
<1>3. book.budget \in Nat /\ book'.budget \in Nat /\ config.maxTrials \in Nat
  BY <1>2, ConfigTyped DEF TypeOK, BookType, ConfigType
<1>4. trials' \in Nat /\ trials' <= config.maxTrials
  <2>1. trials <= config.maxTrials /\ book.budget <= config.maxTrials
    BY DEF TypeOK, BatchInv
  <2>2. trials' = trials \/ (trials' = trials + 1 /\ trials < book.budget)
    BY DEF ReplayTrial, Preamble
  <2>. QED  BY <1>1, <1>3, <2>1, <2>2
<1>5. tried' \in Seq(Nat)
  BY <1>1 DEF ReplayTrial, TypeOK
<1>6. stop' \in BOOLEAN
  BY DEF ReplayTrial, Stops
<1>7. consumed' \in 0 .. Len(batch)' /\ consumed' >= 1
  BY <1>1 DEF ReplayTrial, TypeOK
<1>8. TypeOK'
  BY <1>2, <1>4, <1>5, <1>6, <1>7 DEF ReplayTrial, TypeOK, fit
<1>9. BatchInv'
  BY <1>2, <1>3, <1>7 DEF ReplayTrial, BatchInv, InBatch, NoneBooked, fit
<1>. QED  BY <1>8, <1>9

LEMMA EndBatchIInv == IInv /\ EndBatch => IInv'
<1>. SUFFICES ASSUME IInv, EndBatch  PROVE IInv'
  OBVIOUS
<1>. USE DEF IInv
<1>1. rng' \in Nat
  <2>1. CASE consumed < Len(batch)
    <3>1. consumed \in 1 .. Len(batch)
      BY <2>1 DEF EndBatch, BatchInv, TypeOK
    <3>. QED  BY <2>1, <3>1 DEF EndBatch, Rewound, TypeOK
  <2>2. CASE ~(consumed < Len(batch))
    BY <2>2 DEF EndBatch, Rewound, TypeOK
  <2>. QED  BY <2>1, <2>2
<1>2. TypeOK'
  BY <1>1 DEF EndBatch, TypeOK, fit
<1>3. BatchInv'
  <2>1. CASE stop
    BY <2>1 DEF EndBatch, BatchInv, InBatch, NoneBooked, fit
  <2>2. CASE ~stop
    BY <2>2 DEF EndBatch, BatchInv, InBatch, NoneBooked, fit
  <2>. QED  BY <2>1, <2>2
<1>. QED  BY <1>2, <1>3

LEMMA ReturnIInv == IInv /\ Return => IInv'
<1>. SUFFICES ASSUME IInv, Return  PROVE IInv'
  OBVIOUS
<1>. USE DEF IInv
<1>1. rng' \in Nat
  BY ConfigTyped DEF Return, TypeOK, ConfigType
<1>2. pc' \in Results /\ pc = "over" /\ (failed => pc' = "aborted")
  BY DEF Return, Results
<1>3. TypeOK'
  BY <1>1, <1>2 DEF Return, TypeOK, fit
<1>4. BatchInv'
  BY <1>2 DEF Return, BatchInv, InBatch, NoneBooked, Results, fit
<1>. QED  BY <1>3, <1>4

(* The steps that only look at the counters. *)
LEMMA StopIInv ==
  IInv /\ (Exhausted \/ SkippedOut \/ ReplayExhausted \/ ReplaySkippedOut) => IInv'
<1>. SUFFICES ASSUME IInv, Exhausted \/ SkippedOut \/ ReplayExhausted \/ ReplaySkippedOut
              PROVE IInv'
  OBVIOUS
<1>. USE DEF IInv
<1>1. trials \in Nat /\ book.budget \in Nat /\ config.maxTrials \in Nat
      /\ book.budget <= config.maxTrials
  BY ConfigTyped DEF TypeOK, BatchInv, BookType, ConfigType
<1>2. CASE Exhausted
  BY <1>2 DEF Exhausted, TypeOK, BatchInv, InBatch, NoneBooked, Results, fit
<1>3. CASE SkippedOut
  <2>1. TypeOK'
    BY <1>1, <1>3 DEF SkippedOut, TypeOK, fit
  <2>. QED  BY <2>1, <1>3 DEF SkippedOut, BatchInv, InBatch, NoneBooked, Results, fit
<1>4. CASE ReplayExhausted
  BY <1>4 DEF ReplayExhausted, TypeOK, BatchInv, InBatch, NoneBooked, Results, fit
<1>5. CASE ReplaySkippedOut
  <2>1. TypeOK'
    BY <1>1, <1>5 DEF ReplaySkippedOut, TypeOK, fit
  <2>2. consumed >= 1 /\ consumed # 0
    BY <1>5 DEF ReplaySkippedOut, TypeOK
  <2>3. BatchInv'
    BY <2>2, <1>5 DEF ReplaySkippedOut, BatchInv, InBatch, NoneBooked, Results, fit
  <2>. QED  BY <2>1, <2>3
<1>. QED  BY <1>2, <1>3, <1>4, <1>5

LEMMA NextIInv == IInv /\ [Next]_vars => IInv'
<1>1. IInv /\ UNCHANGED vars => IInv'
  BY DEF IInv, TypeOK, BatchInv, InBatch, NoneBooked, vars, fit
<1>. QED
  BY <1>1, DrawIInv, RunIInv, ReplayTrialIInv, EndBatchIInv, ReturnIInv, StopIInv DEF Next

LEMMA Invariance == Spec => []IInv
BY InitIInv, NextIInv, PTL DEF Spec

(* The types hold in every fit: no trial is counted beyond max_trials.      *)
THEOREM TypeCorrect == Spec => []TypeOK
<1>1. IInv => TypeOK
  BY DEF IInv
<1>. QED  BY <1>1, Invariance, PTL

----------------------------------------------------------------------------
(* Batching does not change the fit *)

(* The two modules book a trial by the same rules. *)
LEMMA SameTrial ==
  ASSUME NEW c, NEW s, NEW k, NEW o, NEW p
  PROVE  /\ Loop!At(s, p) = At(s, p)
         /\ Loop!Booked(k, o, p) = Booked(k, o, p)
         /\ Loop!Stops(c, k, o) <=> Stops(c, k, o)
         /\ Loop!Words(c, o) = Words(c, o)
         /\ Loop!Skips(k) = Skips(k)
         /\ Loop!RunsForeignCode(c) <=> RunsForeignCode(c)
         /\ Loop!NewBook(c) = NewBook(c)
         /\ Loop!Streams(c) = Streams(c)
         /\ Loop!NoTrial = NoTrial
<1>1. Loop!Smaller(k.budget, DynamicTrials[o.inliers]) = Smaller(k.budget, DynamicTrials[o.inliers])
  BY DEF Loop!Smaller, Smaller
<1>2. Loop!Less(o.score, k.score) <=> Less(o.score, k.score)
  BY DEF Loop!Less, Less
<1>3. Loop!Adopts(k, o) <=> Adopts(k, o)
  BY <1>2 DEF Loop!Adopts, Adopts
<1>4. Loop!Adopted(k, o, p) = Adopted(k, o, p)
  BY <1>1 DEF Loop!Adopted, Adopted
<1>5. Loop!Booked(k, o, p) = Booked(k, o, p)
  BY <1>3, <1>4 DEF Loop!Booked, Booked
<1>6. Loop!Stops(c, k, o) <=> Stops(c, k, o)
  BY <1>3 DEF Loop!Stops, Stops
<1>7. Loop!Streams(c) = Streams(c)
  BY DEF Loop!Streams, Streams, Loop!Outcomes, Outcomes, Loop!Fits, Fits, Loop!Fit, Fit,
         Loop!Outcome, Outcome, Loop!RunsForeignCode, RunsForeignCode
<1>8. Loop!NewBook(c) = NewBook(c)
  BY DEF Loop!NewBook, NewBook, Loop!NoTrial, NoTrial
<1>. QED
  BY <1>5, <1>6, <1>7, <1>8
     DEF Loop!At, At, Loop!Words, Words, Loop!Skips, Skips,
         Loop!RunsForeignCode, RunsForeignCode, Loop!NoTrial, NoTrial

LEMMA InitRefines == Init => Loop!Init
<1>. SUFFICES ASSUME Init  PROVE Loop!Init
  OBVIOUS
<1>1. ~NoneBooked /\ LoopState = "trying" /\ LoopRng = rng /\ LoopTrials = trials /\ LoopAsked = asked
  BY DEF Init, NoneBooked, LoopState, LoopRng, LoopTrials, LoopAsked, Results
<1>. QED  BY <1>1, SameTrial DEF Init, Loop!Init

(* What the loop sees of a batch that has booked none of its trials, and of *)
(* one that has booked some.                                                *)
LEMMA Unbooked ==
  IInv /\ NoneBooked =>
    LoopState = "trying" /\ LoopRng = batch[1] /\ LoopTrials = trials - 1
<1>. SUFFICES ASSUME IInv, NoneBooked
              PROVE  LoopState = "trying" /\ LoopRng = batch[1] /\ LoopTrials = trials - 1
  OBVIOUS
<1>1. ~stop /\ ~failed
  BY DEF IInv, TypeOK, BatchInv, NoneBooked, Results
<1>. QED  BY <1>1 DEF NoneBooked, LoopState, LoopRng, LoopTrials, Results

LEMMA BetweenBatches ==
  IInv /\ pc = "preamble" =>
    LoopState = "trying" /\ LoopRng = rng /\ LoopTrials = trials /\ LoopAsked = asked
BY DEF IInv, BatchInv, NoneBooked, LoopState, LoopRng, LoopTrials, LoopAsked, Results

LEMMA SomeBooked ==
  IInv /\ pc = "replay" /\ consumed >= 1 =>
    /\ LoopState = IF stop THEN "over" ELSE "trying"
    /\ LoopRng = IF consumed < Len(batch) THEN batch[consumed] + 1 ELSE rng
    /\ LoopTrials = trials /\ LoopAsked = asked
<1>. SUFFICES ASSUME IInv, pc = "replay", consumed >= 1
              PROVE  /\ LoopState = IF stop THEN "over" ELSE "trying"
                     /\ LoopRng = IF consumed < Len(batch) THEN batch[consumed] + 1 ELSE rng
                     /\ LoopTrials = trials /\ LoopAsked = asked
  OBVIOUS
<1>1. ~failed /\ consumed # 0
  BY DEF IInv, BatchInv, Results
<1>. QED  BY <1>1 DEF NoneBooked, LoopState, LoopRng, LoopTrials, LoopAsked, Results

LEMMA Ended ==
  IInv /\ pc \in {"over"} \cup Results =>
    /\ LoopState = IF pc \in Results THEN pc ELSE IF failed THEN "aborted" ELSE "over"
    /\ LoopRng = rng /\ LoopTrials = trials /\ LoopAsked = asked
BY DEF NoneBooked, LoopState, LoopRng, LoopTrials, LoopAsked, Results

LEMMA DrawRefines == IInv /\ IInv' /\ Draw => UNCHANGED Loop!loopVars
<1>. SUFFICES ASSUME IInv, IInv', Draw  PROVE UNCHANGED Loop!loopVars
  OBVIOUS
<1>1. LoopState = "trying" /\ LoopRng = rng /\ LoopTrials = trials /\ LoopAsked = asked
  BY BetweenBatches DEF Draw
<1>2. NoneBooked'
  BY DEF Draw, NoneBooked
<1>3. (LoopState = "trying" /\ LoopRng = batch[1] /\ LoopTrials = trials - 1)'
  <2>1. (IInv /\ NoneBooked)'
    BY <1>2
  <2>. QED  BY <2>1, Unbooked, PTL
<1>4. LoopAsked' = asked
  BY DEF Draw, LoopAsked
<1>5. BatchWidth \in Nat /\ BatchWidth >= 1
  <2>1. Width(config) \in Nat \ {0}
    BY ConfigTyped DEF IInv, TypeOK
  <2>2. book.budget \in Nat /\ trials \in Nat /\ trials < book.budget
    BY DEF Draw, IInv, TypeOK, BookType
  <2>. QED  BY <2>1, <2>2 DEF BatchWidth, Smaller
<1>6. batch'[1] = rng
  BY <1>5 DEF Draw, IInv, TypeOK
<1>7. trials' - 1 = trials
  BY DEF Draw, IInv, TypeOK
<1>. QED  BY <1>1, <1>3, <1>4, <1>6, <1>7 DEF Draw, fit, Loop!loopVars

LEMMA RunRefines == IInv /\ IInv' /\ Run => [Loop!Next]_(Loop!loopVars)
<1>. SUFFICES ASSUME IInv, IInv', Run  PROVE [Loop!Next]_(Loop!loopVars)
  OBVIOUS
<1>. DEFINE o == At(stream, batch[1])
<1>1. NoneBooked /\ pc = "drawn"
  BY DEF Run, NoneBooked
<1>2. LoopState = "trying" /\ LoopRng = batch[1] /\ LoopTrials = trials - 1 /\ LoopAsked = asked
  BY <1>1, Unbooked DEF LoopAsked
<1>3. Len(batch) >= 1 /\ batch[1] \in Nat /\ config \in Configs /\ stream \in Streams(config)
  <2>1. Len(batch) >= 1
    BY <1>1 DEF IInv, BatchInv, InBatch
  <2>2. batch \in Seq(Nat) /\ config \in Configs /\ stream \in Streams(config)
    BY DEF IInv, TypeOK
  <2>. QED  BY <2>1, <2>2
<1>4. asked \in Seq(Nat) /\ batch \in Seq(Nat)
  BY DEF IInv, TypeOK
<1>5. CASE o.status = "raises"
  <2>1. RunsForeignCode(config)
    BY <1>3, <1>5, TrialOutcome
  <2>2. Len(batch) = 1
    BY <1>1, <2>1 DEF IInv, BatchInv, InBatch
  <2>3. pc' = "over" /\ failed' = TRUE /\ rng' = rng /\ asked' = asked \o batch
    BY <1>5, <2>1 DEF Run
  <2>4. LoopState' = "aborted" /\ LoopRng' = rng /\ LoopTrials' = trials' /\ LoopAsked' = asked'
    <3>1. (IInv /\ pc \in {"over"} \cup Results)'
      BY <2>3
    <3>2. (/\ LoopState = IF pc \in Results THEN pc ELSE IF failed THEN "aborted" ELSE "over"
           /\ LoopRng = rng /\ LoopTrials = trials /\ LoopAsked = asked)'
      BY <3>1, Ended, PTL
    <3>. QED  BY <2>3, <3>2 DEF Results
  <2>5. asked' = Append(asked, batch[1])
    BY <1>4, <2>2, <2>3, OneMore
  <2>6. rng = batch[1] + 1
    BY <1>1, <2>2 DEF IInv, BatchInv
  <2>7. trials' = (trials - 1) + 1 /\ trials - 1 < book.budget /\ Skips(book) <= config.maxSkips
    BY <1>1 DEF Run, IInv, TypeOK, BatchInv
  <2>8. Loop!Draw
    BY <1>2, <2>1, <2>4, <2>5, <2>7, SameTrial DEF Loop!Draw
  <2>9. Loop!Abort
    BY <1>2, <1>5, <2>4, <2>6, <2>8, SameTrial DEF Loop!Abort, Loop!fit, Run, fit
  <2>. QED  BY <2>9 DEF Loop!Next
<1>6. CASE o.status # "raises"
  <2>1. NoneBooked' /\ batch' = batch /\ trials' = trials /\ pc' = "replay"
    BY <1>1, <1>6 DEF Run, NoneBooked, IInv, BatchInv
  <2>2. (LoopState = "trying" /\ LoopRng = batch[1] /\ LoopTrials = trials - 1)'
    <3>1. (IInv /\ NoneBooked)'
      BY <2>1
    <3>. QED  BY <3>1, Unbooked, PTL
  <2>3. LoopAsked' = asked
    <3>1. CASE RunsForeignCode(config)
      <4>1. Len(batch) = 1 /\ asked' = asked \o batch /\ consumed' = 0 /\ config' = config
        BY <1>1, <3>1 DEF Run, fit, IInv, BatchInv, InBatch
      <4>2. Len(asked') - 1 = Len(asked) /\ SubSeq(asked', 1, Len(asked)) = asked
        BY <1>4, <4>1, OneMore
      <4>. QED  BY <2>1, <3>1, <4>1, <4>2 DEF LoopAsked
    <3>2. CASE ~RunsForeignCode(config)
      BY <3>2 DEF LoopAsked, Run, fit
    <3>. QED  BY <3>1, <3>2
  <2>. QED  BY <1>2, <2>1, <2>2, <2>3 DEF Run, fit, Loop!loopVars
<1>. QED  BY <1>5, <1>6

LEMMA ReplayTrialRefines == IInv /\ IInv' /\ ReplayTrial => Loop!Trial
<1>. SUFFICES ASSUME IInv, IInv', ReplayTrial  PROVE Loop!Trial
  OBVIOUS
<1>. DEFINE p == batch[consumed + 1]
            o == At(stream, p)
<1>1. /\ pc = "replay" /\ ~stop /\ consumed < Len(batch) /\ Preamble
      /\ consumed' = consumed + 1 /\ book' = Booked(book, o, p)
      /\ tried' = Append(tried, p) /\ stop' = Stops(config, book, o)
      /\ UNCHANGED <<fit, rng, asked, pc, batch, failed>>
  BY DEF ReplayTrial
<1>2. /\ consumed \in Nat /\ trials \in Nat /\ book.budget \in Nat
      /\ batch \in Seq(Nat) /\ asked \in Seq(Nat) /\ rng \in Nat
      /\ config \in Configs /\ stream \in Streams(config)
  BY DEF IInv, TypeOK, BookType
<1>3. /\ \A i \in 1 .. Len(batch) : batch[i] = batch[1] + (i - 1)
      /\ rng = batch[1] + Len(batch) + Words(config, At(stream, batch[1]))
      /\ At(stream, batch[1]).status # "raises"
  BY <1>1 DEF IInv, BatchInv, InBatch
<1>3a. Len(batch) >= 1
  BY <1>1 DEF IInv, BatchInv, InBatch
<1>3b. Len(batch) \in Nat
  BY <1>2, LenProperties
<1>3c. RunsForeignCode(config) => Len(batch) = 1 /\ consumed = 0
  <2>1. RunsForeignCode(config) => Len(batch) = 1
    BY <1>1 DEF IInv, BatchInv, InBatch
  <2>2. Len(batch) = 1 => consumed = 0
    BY <1>1, <1>2
  <2>. QED  BY <2>1, <2>2
<1>4. consumed + 1 \in 1 .. Len(batch) /\ p \in Nat /\ batch[1] \in Nat
  <2>1. consumed + 1 \in 1 .. Len(batch) /\ 1 \in 1 .. Len(batch)
    BY <1>1, <1>2, <1>3a, <1>3b
  <2>. QED  BY <1>2, <2>1, ElementOfSeq
<1>5. Len(batch) > 1 => ~RunsForeignCode(config) /\ config.words = 0
  <2>. SUFFICES ASSUME Len(batch) > 1  PROVE ~RunsForeignCode(config) /\ config.words = 0
    OBVIOUS
  <2>1. ~RunsForeignCode(config)
    <3>1. \A n \in Nat : n > 1 => n # 1
      OBVIOUS
    <3>. QED  BY <1>3b, <1>3c, <3>1, Zenon
  <2>. QED  BY <1>2, <2>1, ConfigTyped
<1>6. LoopState = "trying" /\ LoopRng = p
  <2>1. CASE consumed = 0
    <3>1. NoneBooked
      BY <1>1, <2>1 DEF NoneBooked
    <3>. QED  BY <2>1, <3>1, Unbooked
  <2>2. CASE consumed >= 1
    <3>1. LoopState = "trying" /\ LoopRng = batch[consumed] + 1
      BY <1>1, <2>2, SomeBooked
    <3>2. consumed \in 1 .. Len(batch)
      BY <1>1, <1>2, <2>2
    <3>3. batch[consumed] = batch[1] + (consumed - 1) /\ p = batch[1] + (consumed + 1 - 1)
      BY <1>3, <1>4, <3>2
    <3>. QED  BY <1>2, <1>4, <3>1, <3>3
  <2>. QED  BY <1>2, <2>1, <2>2
<1>7. LoopTrials' = LoopTrials + 1 /\ LoopTrials < book.budget /\ Skips(book) <= config.maxSkips
  <2>1. CASE consumed = 0
    <3>1. NoneBooked
      BY <1>1, <2>1 DEF NoneBooked
    <3>2. LoopTrials = trials - 1 /\ trials - 1 < book.budget /\ Skips(book) <= config.maxSkips
      BY <3>1, Unbooked DEF IInv, BatchInv
    <3>3. LoopTrials' = trials' /\ trials' = trials
      BY <1>1, <1>2, <2>1 DEF LoopTrials, NoneBooked, Preamble
    <3>. QED  BY <1>2, <3>2, <3>3
  <2>2. CASE consumed >= 1
    <3>1. LoopTrials = trials
      BY <1>1, <2>2, SomeBooked
    <3>2. trials < book.budget /\ Skips(book) <= config.maxSkips /\ trials' = trials + 1
      BY <1>1, <2>2 DEF Preamble
    <3>3. LoopTrials' = trials'
      BY <1>1, <1>2 DEF LoopTrials, NoneBooked
    <3>. QED  BY <3>1, <3>2, <3>3
  <2>. QED  BY <1>2, <2>1, <2>2
<1>8. LoopAsked' = IF RunsForeignCode(config) THEN Append(LoopAsked, p) ELSE LoopAsked
  <2>1. LoopAsked' = asked
    BY <1>1, <1>2 DEF LoopAsked
  <2>2. CASE RunsForeignCode(config)
    <3>1. consumed = 0 /\ p = batch[1]
      BY <1>3c, <2>2
    <3>2. Len(asked) >= 1 /\ asked[Len(asked)] = p
      BY <1>1, <2>2, <3>1 DEF IInv, BatchInv
    <3>3. asked = Append(SubSeq(asked, 1, Len(asked) - 1), asked[Len(asked)])
      BY <1>2, <3>2, LastApart
    <3>4. LoopAsked = SubSeq(asked, 1, Len(asked) - 1)
      BY <1>1, <2>2, <3>1 DEF LoopAsked
    <3>. QED  BY <2>1, <2>2, <3>2, <3>3, <3>4
  <2>3. CASE ~RunsForeignCode(config)
    BY <2>1, <2>3 DEF LoopAsked
  <2>. QED  BY <2>2, <2>3
<1>9. LoopRng' = p + 1 + Words(config, o)
  <2>1. consumed' >= 1 /\ pc' = "replay"
    BY <1>1, <1>2
  <2>2. (IInv /\ pc = "replay" /\ consumed >= 1)'
    BY <2>1
  <2>3. (/\ LoopState = IF stop THEN "over" ELSE "trying"
         /\ LoopRng = IF consumed < Len(batch) THEN batch[consumed] + 1 ELSE rng
         /\ LoopTrials = trials /\ LoopAsked = asked)'
    BY <2>2, SomeBooked, PTL
  <2>4. LoopRng' = IF consumed + 1 < Len(batch) THEN p + 1 ELSE rng
    BY <1>1, <2>3
  <2>5. CASE Len(batch) > 1
    <3>1. Words(config, o) = 0 /\ Words(config, At(stream, batch[1])) = 0
      BY <1>5, <2>5 DEF Words
    <3>2. p = batch[1] + consumed
      BY <1>2, <1>3, <1>4
    <3>3. rng = batch[1] + Len(batch)
      BY <1>3, <1>4, <1>3b, <3>1
    <3>4. LoopRng' = p + 1
      <4>1. CASE consumed + 1 < Len(batch)
        BY <2>4, <4>1
      <4>2. CASE ~(consumed + 1 < Len(batch))
        <5>1. Len(batch) = consumed + 1
          BY <1>3b, <1>4, <4>2
        <5>2. rng = p + 1
          BY <1>2, <1>4, <3>2, <3>3, <5>1
        <5>. QED  BY <2>4, <4>2, <5>2
      <4>. QED  BY <4>1, <4>2
    <3>. QED  BY <1>4, <3>1, <3>4
  <2>6. CASE ~(Len(batch) > 1)
    <3>1. Len(batch) = 1 /\ consumed = 0
      <4>1. Len(batch) = 1
        <5>1. \A n \in Nat : n >= 1 /\ ~(n > 1) => n = 1
          OBVIOUS
        <5>. QED  BY <1>3a, <1>3b, <2>6, <5>1, Zenon
      <4>2. consumed < Len(batch) /\ consumed \in Nat
        BY <1>1, <1>2
      <4>. QED  BY <4>1, <4>2
    <3>2. rng = batch[1] + 1 + Words(config, At(stream, batch[1])) /\ p = batch[1]
      BY <1>3, <3>1
    <3>. QED  BY <2>4, <3>1, <3>2
  <2>. QED  BY <2>5, <2>6
<1>10. LoopState' = IF Stops(config, book, o) THEN "over" ELSE "trying"
  <2>1. ~failed' /\ pc' = "replay" /\ stop' = Stops(config, book, o)
    BY <1>1 DEF IInv, BatchInv, Results
  <2>. QED  BY <2>1 DEF LoopState, Results
<1>11. o.status # "raises"
  <2>1. CASE RunsForeignCode(config)
    <3>1. p = batch[1]
      BY <1>3c, <2>1
    <3>. QED  BY <1>3, <3>1
  <2>2. CASE ~RunsForeignCode(config)
    BY <1>2, <1>4, <2>2, TrialOutcome
  <2>. QED  BY <2>1, <2>2
<1>12. Loop!Draw
  BY <1>6, <1>7, <1>8, SameTrial DEF Loop!Draw
<1>. QED
  BY <1>1, <1>6, <1>9, <1>10, <1>11, <1>12, SameTrial DEF Loop!Trial, Loop!fit, fit

LEMMA EndBatchRefines == IInv /\ IInv' /\ EndBatch => UNCHANGED Loop!loopVars
<1>. SUFFICES ASSUME IInv, IInv', EndBatch  PROVE UNCHANGED Loop!loopVars
  OBVIOUS
<1>1. consumed >= 1
  <2>1. Len(batch) >= 1 /\ pc = "replay"
    BY DEF EndBatch, IInv, BatchInv, InBatch
  <2>2. stop => consumed >= 1
    BY DEF IInv, BatchInv
  <2>3. stop \/ consumed = Len(batch)
    BY DEF EndBatch
  <2>4. CASE stop
    BY <2>2, <2>4
  <2>5. CASE consumed = Len(batch)
    BY <2>1, <2>5
  <2>. QED  BY <2>3, <2>4, <2>5
<1>2. /\ LoopState = IF stop THEN "over" ELSE "trying"
      /\ LoopRng = IF consumed < Len(batch) THEN batch[consumed] + 1 ELSE rng
      /\ LoopTrials = trials /\ LoopAsked = asked
  BY <1>1, SomeBooked DEF EndBatch
<1>3. LoopRng = Rewound
  BY <1>2 DEF Rewound
<1>4. CASE stop
  <2>1. pc' = "over" /\ failed' = failed /\ ~failed
    BY <1>4 DEF EndBatch, IInv, BatchInv, Results
  <2>2. LoopState' = "over" /\ LoopRng' = rng' /\ LoopTrials' = trials' /\ LoopAsked' = asked'
    BY <2>1 DEF LoopState, LoopRng, LoopTrials, LoopAsked, NoneBooked, Results
  <2>. QED  BY <1>2, <1>3, <1>4, <2>2 DEF EndBatch, fit, Loop!loopVars
<1>5. CASE ~stop
  <2>1. pc' = "preamble"
    BY <1>5 DEF EndBatch
  <2>2. (IInv /\ pc = "preamble")'
    BY <2>1
  <2>3. (LoopState = "trying" /\ LoopRng = rng /\ LoopTrials = trials /\ LoopAsked = asked)'
    BY <2>2, BetweenBatches, PTL
  <2>. QED  BY <1>2, <1>3, <1>5, <2>3 DEF EndBatch, fit, Loop!loopVars
<1>. QED  BY <1>4, <1>5

LEMMA StopRefines ==
  /\ IInv /\ IInv' /\ (Exhausted \/ ReplayExhausted) => Loop!Exhausted
  /\ IInv /\ IInv' /\ (SkippedOut \/ ReplaySkippedOut) => Loop!SkippedOut
<1>. SUFFICES ASSUME IInv, IInv'
              PROVE  /\ Exhausted \/ ReplayExhausted => Loop!Exhausted
                     /\ SkippedOut \/ ReplaySkippedOut => Loop!SkippedOut
  OBVIOUS
<1>1. ASSUME pc = "preamble", pc' = "over", failed' = failed
      PROVE  /\ LoopState = "trying" /\ LoopRng = rng /\ LoopTrials = trials /\ LoopAsked = asked
             /\ LoopState' = "over" /\ LoopRng' = rng' /\ LoopTrials' = trials'
             /\ LoopAsked' = asked'
  <2>1. ~failed
    BY <1>1 DEF IInv, BatchInv, Results
  <2>2. LoopState' = "over" /\ LoopRng' = rng' /\ LoopTrials' = trials' /\ LoopAsked' = asked'
    BY <1>1, <2>1 DEF LoopState, LoopRng, LoopTrials, LoopAsked, NoneBooked, Results
  <2>. QED  BY <1>1, <2>2, BetweenBatches
<1>2. ASSUME pc = "replay", ~stop, 0 < consumed, stop' = TRUE,
             UNCHANGED <<pc, failed, batch, consumed, rng, asked>>
      PROVE  /\ LoopState = "trying" /\ LoopTrials = trials /\ LoopAsked = asked
             /\ LoopState' = "over" /\ LoopRng' = LoopRng /\ LoopTrials' = trials'
             /\ LoopAsked' = asked'
  <2>1. ~failed /\ consumed # 0 /\ consumed >= 1
    BY <1>2 DEF IInv, TypeOK, BatchInv, Results
  <2>2. LoopState = "trying" /\ LoopTrials = trials /\ LoopAsked = asked
    BY <1>2, <2>1, SomeBooked
  <2>3. LoopState' = "over" /\ LoopRng' = LoopRng /\ LoopTrials' = trials' /\ LoopAsked' = asked'
    BY <1>2, <2>1 DEF LoopState, LoopRng, LoopTrials, LoopAsked, NoneBooked, Results
  <2>. QED  BY <2>2, <2>3
<1>3. ASSUME Exhausted  PROVE Loop!Exhausted
  <2>1. pc = "preamble" /\ pc' = "over" /\ failed' = failed
    BY <1>3 DEF Exhausted
  <2>2. /\ LoopState = "trying" /\ LoopTrials = trials /\ LoopAsked = asked
        /\ LoopState' = "over" /\ LoopRng' = LoopRng /\ LoopTrials' = trials' /\ LoopAsked' = asked'
    BY <1>1, <2>1, <1>3 DEF Exhausted
  <2>. QED
    BY <1>3, <2>2 DEF Exhausted, Loop!Exhausted, Loop!fit, fit
<1>4. ASSUME ReplayExhausted  PROVE Loop!Exhausted
  <2>1. /\ pc = "replay" /\ ~stop /\ 0 < consumed /\ stop' = TRUE
        /\ UNCHANGED <<pc, failed, batch, consumed, rng, asked>>
    BY <1>4 DEF ReplayExhausted
  <2>2. /\ LoopState = "trying" /\ LoopTrials = trials /\ LoopAsked = asked
        /\ LoopState' = "over" /\ LoopRng' = LoopRng /\ LoopTrials' = trials' /\ LoopAsked' = asked'
    BY <1>2, <2>1
  <2>. QED
    BY <1>4, <2>2 DEF ReplayExhausted, Loop!Exhausted, Loop!fit, fit
<1>5. ASSUME SkippedOut  PROVE Loop!SkippedOut
  <2>1. pc = "preamble" /\ pc' = "over" /\ failed' = failed
    BY <1>5 DEF SkippedOut
  <2>2. /\ LoopState = "trying" /\ LoopTrials = trials /\ LoopAsked = asked
        /\ LoopState' = "over" /\ LoopRng' = LoopRng /\ LoopTrials' = trials' /\ LoopAsked' = asked'
    BY <1>1, <2>1, <1>5 DEF SkippedOut
  <2>. QED
    BY <1>5, <2>2, SameTrial DEF SkippedOut, Loop!SkippedOut, Loop!fit, fit
<1>6. ASSUME ReplaySkippedOut  PROVE Loop!SkippedOut
  <2>1. /\ pc = "replay" /\ ~stop /\ 0 < consumed /\ stop' = TRUE
        /\ UNCHANGED <<pc, failed, batch, consumed, rng, asked>>
    BY <1>6 DEF ReplaySkippedOut
  <2>2. /\ LoopState = "trying" /\ LoopTrials = trials /\ LoopAsked = asked
        /\ LoopState' = "over" /\ LoopRng' = LoopRng /\ LoopTrials' = trials' /\ LoopAsked' = asked'
    BY <1>2, <2>1
  <2>. QED
    BY <1>6, <2>2, SameTrial DEF ReplaySkippedOut, Loop!SkippedOut, Loop!fit, fit
<1>. QED  BY <1>3, <1>4, <1>5, <1>6

LEMMA ReturnRefines == IInv /\ IInv' /\ Return => [Loop!Return]_(Loop!loopVars)
<1>. SUFFICES ASSUME IInv, IInv', Return  PROVE [Loop!Return]_(Loop!loopVars)
  OBVIOUS
<1>1. /\ LoopState = IF failed THEN "aborted" ELSE "over"
      /\ LoopRng = rng /\ LoopTrials = trials /\ LoopAsked = asked
  BY Ended DEF Return, Results
<1>2. /\ LoopState' = pc'
      /\ LoopRng' = rng' /\ LoopTrials' = trials' /\ LoopAsked' = asked'
  <2>1. pc' \in Results
    BY DEF Return, Results
  <2>. QED  BY <2>1 DEF LoopState, LoopRng, LoopTrials, LoopAsked, NoneBooked, Results
<1>3. CASE failed
  BY <1>1, <1>2, <1>3 DEF Return, fit, Loop!loopVars
<1>4. CASE ~failed
  BY <1>1, <1>2, <1>4, SameTrial DEF Return, fit, Loop!Return, Loop!fit
<1>. QED  BY <1>3, <1>4

LEMMA NextRefines == IInv /\ IInv' /\ [Next]_vars => [Loop!Next]_(Loop!loopVars)
<1>1. UNCHANGED vars => UNCHANGED Loop!loopVars
  BY DEF vars, fit, Loop!loopVars, LoopState, LoopRng, LoopTrials, LoopAsked, NoneBooked
<1>. QED
  BY <1>1, DrawRefines, RunRefines, ReplayTrialRefines, EndBatchRefines, StopRefines,
     ReturnRefines DEF Next, Loop!Next

(* The safety of ImplementsLoop: whatever the width, the stream of trials   *)
(* and the rules that end the fit, a batched fit is one of the loop of one  *)
(* trial at a time, with its draws, its counters, its incumbent, its calls  *)
(* of user code and its generator.                                          *)
THEOREM BatchingChangesNothing == Spec => Loop!Init /\ [][Loop!Next]_(Loop!loopVars)
BY Invariance, InitRefines, NextRefines, PTL DEF Spec

----------------------------------------------------------------------------
(* The incumbent and the budget *)

(* The books are those of their incumbent; there is none before a trial     *)
(* with an inlier is booked.                                                *)
Agrees(s, k) ==
  IF k.best = NoTrial
  THEN k.inliers = 1 /\ k.score = 0
  ELSE /\ k.best \in Nat
       /\ At(s, k.best).status = "fitted"
       /\ At(s, k.best).inliers = k.inliers
       /\ At(s, k.best).score = k.score
       /\ k.budget <= DynamicTrials[k.inliers]

(* The next trial the loop would book, were it drawn. *)
Frontier == IF InBatch THEN batch[1] + consumed ELSE rng

Ascending == \A i \in 1 .. Len(tried) : tried[i] < Frontier

(* Every trial counted has been booked, but the first of a new batch. *)
Counted ==
  /\ pc = "preamble" \/ (pc = "replay" /\ consumed >= 1 /\ ~stop) => Len(tried) = trials
  /\ NoneBooked => Len(tried) = trials - 1

BestInv == Agrees(stream, book) /\ IncumbentIsBest /\ Ascending /\ Counted

LEMMA FittedScore ==
  ASSUME NEW c \in Configs, NEW s \in Streams(c), NEW p \in Nat, At(s, p).status = "fitted"
  PROVE  IF At(s, p).inliers >= 2 THEN At(s, p).score \in Scores ELSE At(s, p).score = NaN
<1>1. p % Period \in 0 .. Period - 1
  BY PeriodAssumption
<1>2. At(s, p) \in Outcomes(c)
  BY <1>1 DEF Streams, At
<1>3. At(s, p) \in Fits
  BY <1>2 DEF Outcomes, Outcome
<1>. QED  BY <1>3, RowsAssumption DEF Fits, Fit

LEMMA NothingIsLess ==
  ASSUME NEW x \in Scores \cup {NaN}
  PROVE  ~Less(x, 0)
<1>1. CASE x = NaN
  BY <1>1 DEF Less
<1>2. CASE x \in Scores
  <2>1. x \in Nat
    BY <1>2, ScoresAssumption
  <2>2. ~(x < 0)
    BY <2>1
  <2>. QED  BY <2>2 DEF Less
<1>. QED  BY <1>1, <1>2

LEMMA LessIsAsymmetric ==
  ASSUME NEW x \in Scores \cup {0, NaN}, NEW y \in Scores \cup {0, NaN}, Less(x, y)
  PROVE  ~Less(y, x)
<1>1. x # NaN /\ y # NaN /\ x < y
  BY DEF Less
<1>2. x \in Nat /\ y \in Nat
  BY <1>1, ScoresAssumption
<1>3. ~(y < x)
  BY <1>1, <1>2
<1>. QED  BY <1>3 DEF Less

(* What booking a trial does to the incumbent. *)
LEMMA BookedAgrees ==
  ASSUME NEW c \in Configs, NEW s \in Streams(c), NEW p \in Nat,
         NEW k \in BookType, k.inliers >= 1, Agrees(s, k)
  PROVE  LET b == Booked(k, At(s, p), p) IN
         /\ Agrees(s, b)
         /\ b.best = IF Adopts(k, At(s, p)) THEN p ELSE k.best
<1>. DEFINE o == At(s, p)
            b == Booked(k, o, p)
<1>1. o.inliers \in 0 .. Rows /\ o.score \in Scores \cup {NaN}
  BY TrialOutcome
<1>2. CASE Adopts(k, o)
  <2>1. o.status = "fitted" /\ o.inliers \in 1 .. Rows
    BY <1>1, <1>2, RowsAssumption DEF Adopts, BookType
  <2>2. DynamicTrials[o.inliers] \in Nat /\ k.budget \in Nat
    BY <2>1, DynamicAssumption DEF BookType
  <2>. DEFINE d == Smaller(k.budget, DynamicTrials[o.inliers])
  <2>3. d <= DynamicTrials[o.inliers]
    BY <2>2 DEF Smaller
  <2>4. b = [k EXCEPT !.best = p, !.inliers = o.inliers, !.score = o.score, !.budget = d]
    BY <1>2 DEF Booked, Adopted
  <2>. HIDE DEF d, b
  <2>5. b.best = p /\ b.inliers = o.inliers /\ b.score = o.score /\ b.budget = d
    BY <2>4 DEF BookType
  <2>6. p # NoTrial
    BY DEF NoTrial
  <2>7. Agrees(s, b)
    BY <2>1, <2>3, <2>5, <2>6 DEF Agrees
  <2>. QED  BY <1>2, <2>5, <2>7 DEF b
<1>3. CASE ~Adopts(k, o)
  <2>1. b \in {[k EXCEPT !.invalidData = @ + 1], [k EXCEPT !.invalidModel = @ + 1],
               [k EXCEPT !.noInliers = @ + 1], k}
    BY <1>3 DEF Booked
  <2>. HIDE DEF b
  <2>2. b.best = k.best /\ b.inliers = k.inliers /\ b.score = k.score /\ b.budget = k.budget
    BY <2>1 DEF BookType
  <2>3. Agrees(s, b)
    BY <2>2 DEF Agrees
  <2>. QED  BY <1>3, <2>2, <2>3 DEF b
<1>. QED  BY <1>2, <1>3

(* A trial that is adopted is not beaten by what its predecessor withstood. *)
LEMMA AdoptedWithstands ==
  ASSUME NEW c \in Configs, NEW s \in Streams(c), NEW p \in Nat, NEW q \in Nat,
         NEW k \in BookType, Agrees(s, k), k.best # NoTrial, Adopts(k, At(s, p)),
         At(s, q).status = "fitted", ~Beats(At(s, q), At(s, k.best))
  PROVE  ~Beats(At(s, q), At(s, p))
<1>. DEFINE o == At(s, p)  v == At(s, q)  e == At(s, k.best)
<1>1. /\ e.status = "fitted" /\ e.inliers = k.inliers /\ e.score = k.score /\ k.best \in Nat
      /\ o.status = "fitted" /\ o.inliers >= e.inliers
      /\ ~(o.inliers = e.inliers /\ Less(o.score, e.score))
  BY DEF Agrees, Adopts
<1>2. /\ o.inliers \in Nat /\ v.inliers \in Nat /\ e.inliers \in Nat
  BY TrialOutcome, <1>1, RowsAssumption
<1>3. /\ IF o.inliers >= 2 THEN o.score \in Scores ELSE o.score = NaN
      /\ IF v.inliers >= 2 THEN v.score \in Scores ELSE v.score = NaN
      /\ IF e.inliers >= 2 THEN e.score \in Scores ELSE e.score = NaN
  BY FittedScore, <1>1
<1>4. v.inliers <= e.inliers /\ ~(v.inliers = e.inliers /\ Less(e.score, v.score))
  BY <1>2 DEF Beats
<1>. HIDE DEF o, v, e
<1>5. v.inliers <= o.inliers
  BY <1>1, <1>2, <1>4
<1>6. ASSUME v.inliers = o.inliers PROVE ~Less(o.score, v.score)
  <2>1. v.inliers = e.inliers /\ o.inliers = e.inliers
    BY <1>1, <1>2, <1>4, <1>6
  <2>2. CASE e.inliers >= 2
    <3>1. o.score \in Nat /\ v.score \in Nat /\ e.score \in Nat
      BY <1>3, <2>1, <2>2, ScoresAssumption
    <3>2. o.score # NaN /\ v.score # NaN /\ e.score # NaN
      BY <3>1, ScoresAssumption
    <3>3. ~(e.score < v.score) /\ ~(o.score < e.score)
      BY <1>1, <1>4, <2>1, <3>2 DEF Less
    <3>. QED  BY <3>1, <3>3 DEF Less
  <2>3. CASE ~(e.inliers >= 2)
    BY <1>3, <2>1, <2>3 DEF Less
  <2>. QED  BY <2>2, <2>3
<1>. QED  BY <1>2, <1>5, <1>6 DEF Beats, o, v

(* A trial with inliers that is not adopted is beaten by the incumbent. *)
LEMMA RefusedIsBeaten ==
  ASSUME NEW c \in Configs, NEW s \in Streams(c), NEW p \in Nat,
         NEW k \in BookType, Agrees(s, k), ~Adopts(k, At(s, p)),
         At(s, p).status = "fitted", At(s, p).inliers >= 1
  PROVE  k.best # NoTrial /\ Beats(At(s, k.best), At(s, p)) /\ ~Beats(At(s, p), At(s, k.best))
<1>. DEFINE o == At(s, p)
<1>1. o.inliers \in Nat /\ o.score \in Scores \cup {NaN} /\ k.inliers \in Nat
  BY TrialOutcome, RowsAssumption DEF BookType
<1>2. o.inliers < k.inliers \/ (o.inliers = k.inliers /\ Less(o.score, k.score))
  BY <1>1 DEF Adopts
<1>. HIDE DEF o
<1>3. k.best # NoTrial
  <2>1. ~Less(o.score, 0)
    BY <1>1, NothingIsLess
  <2>2. o.inliers >= 1
    BY DEF o
  <2>. QED  BY <1>1, <1>2, <2>1, <2>2 DEF Agrees
<1>4. At(s, k.best).inliers = k.inliers /\ At(s, k.best).score = k.score
  BY <1>3 DEF Agrees
<1>5. Beats(At(s, k.best), o)
  BY <1>1, <1>2, <1>4 DEF Beats
<1>6. Less(o.score, k.score) => ~Less(k.score, o.score)
  <2>1. k.score \in Scores \cup {0, NaN}
    BY DEF BookType
  <2>. QED  BY <1>1, <2>1, LessIsAsymmetric
<1>7. ~Beats(o, At(s, k.best))
  <2>1. CASE o.inliers < k.inliers
    BY <1>1, <1>4, <2>1 DEF Beats
  <2>2. CASE o.inliers = k.inliers /\ Less(o.score, k.score)
    BY <1>1, <1>4, <1>6, <2>2 DEF Beats
  <2>. QED  BY <1>2, <2>1, <2>2
<1>. QED  BY <1>3, <1>5, <1>7 DEF o

----------------------------------------------------------------------------

LEMMA InitBest == Init => BestInv
<1>. SUFFICES ASSUME Init  PROVE BestInv
  OBVIOUS
<1>1. tried = <<>> /\ Len(tried) = 0 /\ pc = "preamble" /\ trials = 0
  BY DEF Init
<1>2. Agrees(stream, book)
  BY DEF Init, NewBook, Agrees
<1>3. IncumbentIsBest /\ Ascending
  BY <1>1 DEF IncumbentIsBest, Ascending
<1>4. Counted
  BY <1>1 DEF Counted, NoneBooked
<1>. QED  BY <1>2, <1>3, <1>4 DEF BestInv

(* A step that books nothing. *)
LEMMA NothingBooked ==
  ASSUME BestInv, UNCHANGED <<fit, book, tried>>,
         Frontier \in Int, Frontier' \in Int, Frontier <= Frontier', tried \in Seq(Nat), Counted'
  PROVE  BestInv'
<1>1. Agrees(stream, book)' /\ IncumbentIsBest'
  BY DEF BestInv, fit, IncumbentIsBest, Qualifies
<1>2. Ascending'
  <2>. SUFFICES ASSUME NEW i \in 1 .. Len(tried)  PROVE tried[i] < Frontier'
    BY DEF Ascending
  <2>1. tried[i] \in Nat /\ tried[i] < Frontier
    BY DEF BestInv, Ascending
  <2>. QED  BY <2>1
<1>. QED  BY <1>1, <1>2 DEF BestInv

LEMMA BatchPositions ==
  ASSUME IInv, InBatch
  PROVE  /\ batch[1] \in Nat /\ consumed \in Nat /\ rng \in Nat /\ Len(batch) \in Nat
         /\ Len(batch) >= 1 /\ consumed <= Len(batch)
         /\ \A i \in 1 .. Len(batch) : batch[i] = batch[1] + (i - 1)
         /\ batch[1] + Len(batch) <= rng
         /\ Frontier = batch[1] + consumed
<1>1. /\ batch \in Seq(Nat) /\ consumed \in 0 .. Len(batch) /\ rng \in Nat
      /\ Len(batch) >= 1 /\ \A i \in 1 .. Len(batch) : batch[i] = batch[1] + (i - 1)
  BY DEF IInv, TypeOK, BatchInv
<1>2. batch[1] \in Nat /\ Len(batch) \in Nat
  BY <1>1
<1>3. batch[1] + Len(batch) <= rng
  <2>1. Words(config, At(stream, batch[1])) \in Nat
    BY ConfigTyped DEF IInv, TypeOK, Words, ConfigType
  <2>2. rng = batch[1] + Len(batch) \/ rng = batch[1] + Len(batch) + Words(config, At(stream, batch[1]))
    BY DEF IInv, BatchInv, InBatch
  <2>. QED  BY <1>2, <2>1, <2>2
<1>. QED  BY <1>1, <1>2, <1>3 DEF Frontier

LEMMA DrawBest == IInv /\ IInv' /\ BestInv /\ Draw => BestInv'
<1>. SUFFICES ASSUME IInv, IInv', BestInv, Draw  PROVE BestInv'
  OBVIOUS
<1>1. /\ UNCHANGED <<fit, book, tried>> /\ pc = "preamble" /\ pc' = "drawn"
      /\ trials' = trials + 1 /\ consumed' = 0 /\ rng' = rng + BatchWidth
      /\ batch' = [i \in 1 .. BatchWidth |-> rng + i - 1]
  BY DEF Draw
<1>2. trials \in Nat /\ rng \in Nat /\ tried \in Seq(Nat)
  BY DEF IInv, TypeOK
<1>3. Frontier = rng
  BY <1>1 DEF Frontier, InBatch
<1>4. batch'[1] = rng /\ Frontier' = batch'[1] + consumed'
  <2>1. BatchWidth \in Nat
    <3>1. Width(config) \in Nat /\ book.budget \in Nat /\ trials < book.budget
      BY ConfigTyped DEF IInv, TypeOK, BookType, Draw
    <3>. QED  BY <1>2, <3>1 DEF BatchWidth, Smaller
  <2>2. Len(batch') = BatchWidth
    BY <1>1, <2>1
  <2>3. Len(batch') >= 1
    BY <1>1 DEF IInv, BatchInv, InBatch
  <2>4. batch'[1] = rng + 1 - 1
    BY <1>1, <2>1, <2>2, <2>3
  <2>. QED  BY <1>1, <1>2, <2>4 DEF Frontier, InBatch
<1>5. Frontier' = rng
  BY <1>1, <1>2, <1>4
<1>6. Len(tried) = trials
  BY <1>1 DEF BestInv, Counted
<1>7. Counted'
  BY <1>1, <1>2, <1>6 DEF Counted, NoneBooked
<1>. QED  BY <1>1, <1>2, <1>3, <1>5, <1>7, NothingBooked

LEMMA RunBest == IInv /\ BestInv /\ Run => BestInv'
<1>. SUFFICES ASSUME IInv, BestInv, Run  PROVE BestInv'
  OBVIOUS
<1>1. /\ UNCHANGED <<fit, book, tried, trials, batch, consumed, stop>> /\ pc = "drawn"
      /\ pc' \in {"over", "replay"} /\ (pc' = "over" => rng' = rng)
  BY DEF Run
<1>2. InBatch /\ NoneBooked /\ consumed = 0 /\ tried \in Seq(Nat)
  BY <1>1 DEF InBatch, NoneBooked, IInv, BatchInv, TypeOK
<1>3. Frontier \in Nat /\ Frontier' \in Nat /\ Frontier <= Frontier'
  <2>1. CASE pc' = "over"
    BY <1>1, <1>2, <2>1, BatchPositions DEF Frontier, InBatch
  <2>2. CASE pc' = "replay"
    BY <1>1, <1>2, <2>2, BatchPositions DEF Frontier, InBatch
  <2>. QED  BY <1>1, <2>1, <2>2
<1>4. Counted'
  BY <1>1, <1>2 DEF BestInv, Counted, NoneBooked
<1>. QED  BY <1>1, <1>2, <1>3, <1>4, NothingBooked

LEMMA EndBatchBest == IInv /\ BestInv /\ EndBatch => BestInv'
<1>. SUFFICES ASSUME IInv, BestInv, EndBatch  PROVE BestInv'
  OBVIOUS
<1>1. /\ UNCHANGED <<fit, book, tried, trials, batch, consumed, stop>> /\ pc = "replay"
      /\ stop \/ consumed = Len(batch)
      /\ rng' = IF consumed < Len(batch) THEN batch[consumed] + 1 ELSE rng
      /\ pc' = IF stop THEN "over" ELSE "preamble"
  BY DEF EndBatch, Rewound
<1>2. InBatch /\ tried \in Seq(Nat)
  BY <1>1 DEF InBatch, IInv, TypeOK
<1>3. stop => consumed >= 1
  BY DEF IInv, BatchInv
<1>4. consumed >= 1
  BY <1>1, <1>2, <1>3, BatchPositions
<1>5. /\ batch[1] \in Nat /\ consumed \in Nat /\ rng \in Nat /\ Len(batch) \in Nat
      /\ batch[1] + Len(batch) <= rng /\ consumed <= Len(batch)
      /\ Frontier = batch[1] + consumed
  BY <1>2, BatchPositions
<1>6. rng' = batch[1] + consumed \/ rng' = rng
  <2>1. ASSUME consumed < Len(batch)  PROVE batch[consumed] = batch[1] + (consumed - 1)
    BY <1>2, <1>4, <2>1, <1>5, BatchPositions
  <2>2. ASSUME consumed < Len(batch)  PROVE rng' = batch[1] + consumed
    BY <1>1, <1>5, <2>1, <2>2
  <2>. QED  BY <1>1, <2>2
<1>7. Frontier' = rng'
  BY <1>1 DEF Frontier, InBatch
<1>8. Frontier \in Nat /\ Frontier' \in Nat /\ Frontier <= Frontier'
  BY <1>5, <1>6, <1>7
<1>9. Counted'
  BY <1>1, <1>4 DEF BestInv, Counted, NoneBooked
<1>. QED  BY <1>1, <1>2, <1>8, <1>9, NothingBooked

LEMMA ReturnBest == IInv /\ BestInv /\ Return => BestInv'
<1>. SUFFICES ASSUME IInv, BestInv, Return  PROVE BestInv'
  OBVIOUS
<1>1. /\ UNCHANGED <<fit, book, tried>> /\ pc = "over" /\ pc' \in Results
      /\ rng' = rng \/ rng' = rng + config.words
  BY DEF Return, Results
<1>2. rng \in Nat /\ config.words \in Nat /\ tried \in Seq(Nat)
  BY ConfigTyped DEF IInv, TypeOK, ConfigType
<1>3. Frontier = rng /\ Frontier' = rng'
  BY <1>1 DEF Frontier, InBatch, Results
<1>4. Frontier \in Int /\ Frontier' \in Int /\ Frontier <= Frontier'
  BY <1>1, <1>2, <1>3
<1>5. Counted'
  BY <1>1 DEF Counted, NoneBooked, Results
<1>. QED  BY <1>1, <1>2, <1>4, <1>5, NothingBooked

LEMMA StopBest ==
  IInv /\ BestInv /\ (Exhausted \/ SkippedOut \/ ReplayExhausted \/ ReplaySkippedOut) => BestInv'
<1>. SUFFICES ASSUME IInv, BestInv,
                     Exhausted \/ SkippedOut \/ ReplayExhausted \/ ReplaySkippedOut
              PROVE  BestInv'
  OBVIOUS
<1>1. rng \in Nat /\ tried \in Seq(Nat) /\ consumed \in Nat
  BY DEF IInv, TypeOK
<1>2. CASE Exhausted \/ SkippedOut
  <2>1. UNCHANGED <<fit, book, tried, rng>> /\ pc = "preamble" /\ pc' = "over"
    BY <1>2 DEF Exhausted, SkippedOut
  <2>2. Frontier = rng /\ Frontier' = rng
    BY <2>1 DEF Frontier, InBatch
  <2>3. Counted'
    BY <2>1 DEF Counted, NoneBooked
  <2>. QED  BY <1>1, <2>1, <2>2, <2>3, NothingBooked
<1>3. CASE ReplayExhausted \/ ReplaySkippedOut
  <2>1. /\ UNCHANGED <<fit, book, tried, rng, pc, batch, consumed>> /\ pc = "replay"
        /\ 0 < consumed /\ stop' = TRUE
    BY <1>3 DEF ReplayExhausted, ReplaySkippedOut
  <2>2. InBatch
    BY <2>1 DEF InBatch
  <2>3. Frontier \in Nat /\ Frontier' = Frontier
    BY <2>1, <2>2, BatchPositions DEF Frontier, InBatch
  <2>4. Counted'
    BY <1>1, <2>1 DEF Counted, NoneBooked
  <2>. QED  BY <1>1, <2>1, <2>3, <2>4, NothingBooked
<1>. QED  BY <1>2, <1>3

LEMMA ReplayTrialBest == IInv /\ BestInv /\ ReplayTrial => BestInv'
<1>. SUFFICES ASSUME IInv, BestInv, ReplayTrial  PROVE BestInv'
  OBVIOUS
<1>. DEFINE p == batch[consumed + 1]
            o == At(stream, p)
<1>1. /\ pc = "replay" /\ pc' = "replay" /\ ~stop /\ consumed < Len(batch)
      /\ Preamble /\ consumed' = consumed + 1
      /\ book' = Booked(book, o, p) /\ tried' = Append(tried, p)
      /\ UNCHANGED <<fit, batch>>
  BY DEF ReplayTrial
<1>2. InBatch
  BY <1>1 DEF InBatch
<1>3. /\ batch[1] \in Nat /\ consumed \in Nat /\ Len(batch) \in Nat
      /\ Frontier = batch[1] + consumed
      /\ \A i \in 1 .. Len(batch) : batch[i] = batch[1] + (i - 1)
  BY <1>2, BatchPositions
<1>4. p \in Nat /\ Frontier = p /\ Frontier' = p + 1
  <2>1. p = batch[1] + consumed
    BY <1>1, <1>3
  <2>2. Frontier' = batch[1] + (consumed + 1)
    BY <1>1, <1>2 DEF Frontier, InBatch
  <2>. QED  BY <1>3, <2>1, <2>2
<1>. HIDE DEF p
<1>5. /\ config \in Configs /\ stream \in Streams(config) /\ book \in BookType
      /\ book.inliers >= 1 /\ trials \in Nat /\ tried \in Seq(Nat) /\ Len(tried) \in Nat
      /\ stream' = stream
  BY <1>1 DEF IInv, TypeOK, BatchInv, fit
<1>6. /\ Agrees(stream, book')
      /\ book'.best = IF Adopts(book, o) THEN p ELSE book.best
  BY <1>1, <1>4, <1>5, BookedAgrees DEF BestInv
<1>7. /\ Len(tried') = Len(tried) + 1
      /\ tried'[Len(tried) + 1] = p
      /\ \A i \in 1 .. Len(tried) : tried'[i] = tried[i] /\ tried[i] \in Nat /\ tried[i] < p
  <2>1. \A i \in 1 .. Len(tried) : tried[i] < p
    BY <1>4 DEF BestInv, Ascending
  <2>. QED  BY <1>1, <1>4, <1>5, <2>1
<1>8. Ascending'
  <2>1. ASSUME NEW i \in 1 .. Len(tried')  PROVE tried'[i] < Frontier'
    <3>1. CASE i = Len(tried) + 1
      BY <1>4, <1>7, <3>1
    <3>2. CASE i # Len(tried) + 1
      <4>1. i \in 1 .. Len(tried)
        BY <1>5, <1>7, <3>2
      <4>. QED  BY <1>4, <1>7, <4>1
    <3>. QED  BY <3>1, <3>2
  <2>. QED  BY <2>1 DEF Ascending
<1>9. Counted'
  <2>1. consumed' >= 1 /\ consumed' # 0
    BY <1>1, <1>3
  <2>2. Len(tried) + 1 = trials'
    <3>1. CASE consumed = 0
      <4>1. Len(tried) = trials - 1
        BY <1>1, <3>1 DEF BestInv, Counted, NoneBooked
      <4>. QED  BY <1>1, <1>5, <3>1, <4>1 DEF Preamble
    <3>2. CASE consumed # 0
      <4>1. Len(tried) = trials
        BY <1>1, <1>3, <3>2 DEF BestInv, Counted
      <4>. QED  BY <1>1, <1>5, <3>2, <4>1 DEF Preamble
    <3>. QED  BY <3>1, <3>2
  <2>. QED  BY <1>1, <1>7, <2>1, <2>2 DEF Counted, NoneBooked
<1>10. ASSUME NEW i \in 1 .. Len(tried), At(stream, tried[i]).status = "fitted",
              At(stream, tried[i]).inliers >= 1
       PROVE  /\ book.best # NoTrial
              /\ ~Beats(At(stream, tried[i]), At(stream, book.best))
              /\ tried[i] > book.best => Beats(At(stream, book.best), At(stream, tried[i]))
  BY <1>10 DEF BestInv, IncumbentIsBest, Qualifies
<1>11. p # NoTrial /\ ~(p > p)
  BY <1>4 DEF NoTrial
<1>12. ASSUME NEW i \in 1 .. Len(tried'), At(stream, tried'[i]).status = "fitted",
              At(stream, tried'[i]).inliers >= 1
       PROVE  /\ book'.best # NoTrial
              /\ ~Beats(At(stream, tried'[i]), At(stream, book'.best))
              /\ tried'[i] > book'.best => Beats(At(stream, book'.best), At(stream, tried'[i]))
  <2>1. CASE i = Len(tried) + 1 /\ Adopts(book, o)
    <3>1. tried'[i] = p /\ book'.best = p
      BY <1>6, <1>7, <2>1
    <3>2. ~Beats(o, o)
      <4>1. o.inliers \in Nat
        BY <1>4, <1>5, TrialOutcome, RowsAssumption
      <4>2. o.score \in Scores \cup {0, NaN}
        BY <1>4, <1>5, TrialOutcome
      <4>3. ~Less(o.score, o.score)
        BY <4>2, LessIsAsymmetric
      <4>. QED  BY <4>1, <4>3 DEF Beats
    <3>. QED  BY <3>1, <3>2, <1>11
  <2>2. CASE i = Len(tried) + 1 /\ ~Adopts(book, o)
    <3>1. tried'[i] = p /\ book'.best = book.best
      BY <1>6, <1>7, <2>2
    <3>2. o.status = "fitted" /\ o.inliers >= 1
      BY <1>12, <3>1
    <3>3. book.best # NoTrial /\ Beats(At(stream, book.best), o) /\ ~Beats(o, At(stream, book.best))
      BY <1>4, <1>5, <2>2, <3>2, RefusedIsBeaten DEF BestInv
    <3>. QED  BY <3>1, <3>3
  <2>3. CASE i # Len(tried) + 1
    <3>1. i \in 1 .. Len(tried)
      BY <1>5, <1>7, <2>3
    <3>2. tried'[i] = tried[i] /\ tried[i] \in Nat /\ tried[i] < p
      BY <1>7, <3>1
    <3>3. /\ book.best # NoTrial
          /\ ~Beats(At(stream, tried[i]), At(stream, book.best))
          /\ tried[i] > book.best => Beats(At(stream, book.best), At(stream, tried[i]))
      BY <1>10, <1>12, <3>1, <3>2
    <3>4. CASE Adopts(book, o)
      <4>1. book'.best = p
        BY <1>6, <3>4
      <4>2. ~Beats(At(stream, tried[i]), o)
        BY <1>4, <1>5, <1>12, <3>2, <3>3, <3>4, AdoptedWithstands DEF BestInv
      <4>3. ~(tried[i] > p)
        BY <1>4, <3>2
      <4>. QED  BY <1>11, <3>2, <4>1, <4>2, <4>3
    <3>5. CASE ~Adopts(book, o)
      BY <1>6, <3>2, <3>3, <3>5
    <3>. QED  BY <3>4, <3>5
  <2>. QED  BY <2>1, <2>2, <2>3
<1>13. IncumbentIsBest'
  BY <1>5, <1>12 DEF IncumbentIsBest, Qualifies
<1>. QED  BY <1>5, <1>6, <1>8, <1>9, <1>13 DEF BestInv

LEMMA NextBest == IInv /\ IInv' /\ BestInv /\ [Next]_vars => BestInv'
<1>1. BestInv /\ UNCHANGED vars => BestInv'
  BY DEF BestInv, Agrees, IncumbentIsBest, Qualifies, Ascending, Frontier, InBatch, Counted,
         NoneBooked, vars, fit
<1>. QED
  BY <1>1, DrawBest, RunBest, ReplayTrialBest, EndBatchBest, ReturnBest, StopBest DEF Next

LEMMA BestInvariance == Spec => [](IInv /\ BestInv)
<1>1. Init => IInv /\ BestInv
  BY InitIInv, InitBest
<1>2. (IInv /\ BestInv) /\ [Next]_vars => (IInv /\ BestInv)'
  BY NextIInv, NextBest
<1>. QED  BY <1>1, <1>2, PTL DEF Spec

(* The incumbent is the last of the best trials, in every fit.              *)
THEOREM IncumbentCorrect == Spec => []IncumbentIsBest
<1>1. IInv /\ BestInv => IncumbentIsBest
  BY DEF BestInv
<1>. QED  BY <1>1, BestInvariance, PTL

(* What a step books is within the budget. *)
BooksWithinBudget ==
  tried' # tried =>
    /\ Len(tried') <= config.maxTrials
    /\ book.best # NoTrial =>
         Len(tried') <= DynamicTrials[At(stream, book.best).inliers]

LEMMA StepWithinBudget == IInv /\ BestInv /\ [Next]_vars => BooksWithinBudget
<1>. SUFFICES ASSUME IInv, BestInv, [Next]_vars, tried' # tried
              PROVE  /\ Len(tried') <= config.maxTrials
                     /\ book.best # NoTrial =>
                          Len(tried') <= DynamicTrials[At(stream, book.best).inliers]
  BY DEF BooksWithinBudget
<1>1. ReplayTrial
  BY DEF Next, vars, Exhausted, SkippedOut, Draw, Run, ReplayExhausted, ReplaySkippedOut,
         EndBatch, Return
<1>2. /\ tried \in Seq(Nat) /\ Len(tried) \in Nat /\ trials \in Nat /\ consumed \in Nat
      /\ book.budget \in Nat /\ config.maxTrials \in Nat /\ book.budget <= config.maxTrials
  <2>1. tried \in Seq(Nat) /\ trials \in Nat /\ consumed \in 0 .. Len(batch) /\ batch \in Seq(Nat)
    BY DEF IInv, TypeOK
  <2>2. config.maxTrials \in Nat
    BY ConfigTyped DEF IInv, TypeOK, ConfigType
  <2>3. book.budget \in Nat
    BY DEF IInv, TypeOK, BookType
  <2>4. book.budget <= config.maxTrials
    BY DEF IInv, BatchInv
  <2>. QED  BY <2>1, <2>2, <2>3, <2>4
<1>3. Len(tried') = Len(tried) + 1
  BY <1>1, <1>2 DEF ReplayTrial
<1>4. Len(tried) + 1 <= book.budget
  <2>1. CASE consumed = 0
    <3>1. Len(tried) = trials - 1 /\ trials - 1 < book.budget
      BY <1>1, <2>1 DEF ReplayTrial, IInv, BatchInv, BestInv, Counted, NoneBooked
    <3>. QED  BY <1>2, <3>1
  <2>2. CASE consumed # 0
    <3>1. trials < book.budget
      BY <1>1, <2>2 DEF ReplayTrial, Preamble
    <3>2. Len(tried) = trials
      BY <1>1, <1>2, <2>2 DEF ReplayTrial, BestInv, Counted
    <3>. QED  BY <1>2, <3>1, <3>2
  <2>. QED  BY <2>1, <2>2
<1>5. Len(tried') <= config.maxTrials
  BY <1>2, <1>3, <1>4
<1>6. ASSUME book.best # NoTrial
      PROVE  Len(tried') <= DynamicTrials[At(stream, book.best).inliers]
  <2>1. /\ book.best \in Nat /\ At(stream, book.best).inliers = book.inliers
        /\ book.budget <= DynamicTrials[book.inliers]
    BY <1>6 DEF BestInv, Agrees
  <2>2. book.inliers \in 1 .. Rows
    <3>1. book.inliers \in 0 .. Rows
      BY <2>1, TrialOutcome DEF IInv, TypeOK
    <3>. QED  BY <3>1, RowsAssumption DEF IInv, BatchInv
  <2>3. DynamicTrials[book.inliers] \in Nat
    BY <2>2, DynamicAssumption
  <2>. QED  BY <1>2, <1>3, <1>4, <2>1, <2>3
<1>. QED  BY <1>5, <1>6

(* No trial is booked beyond max_trials, or beyond what the incumbent       *)
(* demands, however many were drawn ahead.                                  *)
THEOREM BudgetCorrect == Spec => WithinBudget
<1>1. IInv /\ BestInv /\ [Next]_vars => [BooksWithinBudget]_vars
  BY StepWithinBudget
<1>2. Spec => [][BooksWithinBudget]_vars
  BY <1>1, BestInvariance, PTL DEF Spec
<1>. QED  BY <1>2 DEF WithinBudget, BooksWithinBudget
=============================================================================
