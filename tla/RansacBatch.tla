---------------------------- MODULE RansacBatch ----------------------------
(***************************************************************************)
(* RansacRegressor::fit_from_host_slice as it runs: the device arm draws,  *)
(* solves and scans a batch of trials ahead and books them afterwards, one *)
(* by one; a rule that stops the loop in the middle of a batch takes the   *)
(* generator back to where the last booked trial left it.                  *)
(*                                                                         *)
(* The checks of the arguments, the engines' buffers and the numerical     *)
(* work are left out: what a trial turns out to be is RansacTrial's.       *)
(***************************************************************************)
EXTENDS RansacTrial, Sequences

VARIABLES
  config, stream, rng, trials, book, asked, tried,      \* as in RansacLoop
  pc,
  batch,                \* the positions of the trials drawn ahead
  consumed,             \* how many of them are booked
  stop,                 \* a rule of the loop has fired inside the batch
  failed                \* user code raised

fit == <<config, stream>>
vars == <<fit, rng, trials, book, asked, tried, pc, batch, consumed, stop, failed>>

Results == {"fitted", "noConsensus", "aborted"}

Init ==
  /\ config \in Configs
  /\ stream \in Streams(config)
  /\ rng = 0
  /\ trials = 0
  /\ book = NewBook(config)
  /\ asked = <<>>
  /\ tried = <<>>
  /\ pc = "preamble"
  /\ batch = <<>>
  /\ consumed = 0
  /\ stop = FALSE
  /\ failed = FALSE

----------------------------------------------------------------------------
(* A batch: the preamble of its first trial, the draws, the scans *)

Exhausted ==
  /\ pc = "preamble"
  /\ trials >= book.budget
  /\ pc' = "over"
  /\ UNCHANGED <<fit, rng, trials, book, asked, tried, batch, consumed, stop, failed>>

SkippedOut ==
  /\ pc = "preamble"
  /\ trials < book.budget
  /\ Skips(book) > config.maxSkips
  /\ trials' = trials + 1
  /\ pc' = "over"
  /\ UNCHANGED <<fit, rng, book, asked, tried, batch, consumed, stop, failed>>

BatchWidth == Smaller(Width(config), book.budget - trials)

Draw ==
  /\ pc = "preamble"
  /\ trials < book.budget
  /\ Skips(book) <= config.maxSkips
  /\ trials' = trials + 1
  /\ batch' = [i \in 1 .. BatchWidth |-> rng + i - 1]
  /\ rng' = rng + BatchWidth
  /\ consumed' = 0
  /\ pc' = "drawn"
  /\ UNCHANGED <<fit, book, asked, tried, stop, failed>>

(* A batch in which user code runs has one trial. *)
Run ==
  LET o == At(stream, batch[1]) IN
  /\ pc = "drawn"
  /\ asked' = IF RunsForeignCode(config) THEN asked \o batch ELSE asked
  /\ IF o.status = "raises"
     THEN pc' = "over" /\ failed' = TRUE /\ UNCHANGED rng
     ELSE pc' = "replay" /\ rng' = rng + Words(config, o) /\ UNCHANGED failed
  /\ UNCHANGED <<fit, trials, book, tried, batch, consumed, stop>>

----------------------------------------------------------------------------
(* The bookkeeping, replayed over the batch *)

ReplayExhausted ==
  /\ pc = "replay" /\ ~stop
  /\ 0 < consumed /\ consumed < Len(batch)
  /\ trials >= book.budget
  /\ stop' = TRUE
  /\ UNCHANGED <<fit, rng, trials, book, asked, tried, pc, batch, consumed, failed>>

ReplaySkippedOut ==
  /\ pc = "replay" /\ ~stop
  /\ 0 < consumed /\ consumed < Len(batch)
  /\ trials < book.budget
  /\ Skips(book) > config.maxSkips
  /\ trials' = trials + 1
  /\ stop' = TRUE
  /\ UNCHANGED <<fit, rng, book, asked, tried, pc, batch, consumed, failed>>

(* Mutant of Preamble: the budget is looked at once a batch. *)
NoPreamble == trials' = IF consumed = 0 THEN trials ELSE trials + 1

(* The preamble of every trial but the first, which had it before the draw. *)
Preamble ==
  IF consumed = 0
  THEN UNCHANGED trials
  ELSE /\ trials < book.budget
       /\ Skips(book) <= config.maxSkips
       /\ trials' = trials + 1

ReplayTrial ==
  LET p == batch[consumed + 1]
      o == At(stream, p)
  IN
  /\ pc = "replay" /\ ~stop
  /\ consumed < Len(batch)
  /\ Preamble
  /\ consumed' = consumed + 1
  /\ book' = Booked(book, o, p)
  /\ tried' = Append(tried, p)
  /\ stop' = Stops(config, book, o)
  /\ UNCHANGED <<fit, rng, asked, pc, batch, failed>>

(* Mutant of Rewound: the generator stays behind the whole batch. *)
NotRewound == rng

(* Where the last booked trial left the generator. *)
Rewound == IF consumed < Len(batch) THEN batch[consumed] + 1 ELSE rng

EndBatch ==
  /\ pc = "replay"
  /\ stop \/ consumed = Len(batch)
  /\ rng' = Rewound
  /\ pc' = IF stop THEN "over" ELSE "preamble"
  /\ UNCHANGED <<fit, trials, book, asked, tried, batch, consumed, stop, failed>>

----------------------------------------------------------------------------
Return ==
  /\ pc = "over"
  /\ IF failed
     THEN pc' = "aborted" /\ UNCHANGED rng
     ELSE IF book.best = NoTrial
     THEN pc' = "noConsensus" /\ UNCHANGED rng
     ELSE \/ pc' = "fitted" /\ rng' = rng + config.words
          \/ config.foreign /\ pc' = "aborted" /\ UNCHANGED rng
  /\ UNCHANGED <<fit, trials, book, asked, tried, batch, consumed, stop, failed>>

Next ==
  \/ Exhausted \/ SkippedOut \/ Draw \/ Run
  \/ ReplayExhausted \/ ReplaySkippedOut \/ ReplayTrial \/ EndBatch
  \/ Return

Spec == Init /\ [][Next]_vars /\ WF_vars(Next)

----------------------------------------------------------------------------
(* Properties *)

TypeOK ==
  /\ config \in Configs
  /\ stream \in Streams(config)
  /\ rng \in Nat
  /\ trials \in Nat
  /\ trials <= config.maxTrials
  /\ book \in BookType
  /\ asked \in Seq(Nat)
  /\ tried \in Seq(Nat)
  /\ pc \in {"preamble", "drawn", "replay", "over"} \cup Results
  /\ batch \in Seq(Nat)
  /\ consumed \in 0 .. Len(batch)
  /\ stop \in BOOLEAN
  /\ failed \in BOOLEAN

(* The loop of one trial at a time that a batch stands for: a trial drawn   *)
(* ahead is not there until it is booked.                                   *)
LoopState ==
  IF pc \in Results THEN pc
  ELSE IF failed THEN "aborted"
  ELSE IF stop \/ pc = "over" THEN "over"
  ELSE "trying"

NoneBooked == pc = "drawn" \/ (pc = "replay" /\ consumed = 0)

LoopRng ==
  IF NoneBooked THEN batch[1]
  ELSE IF pc = "replay" /\ consumed < Len(batch) THEN batch[consumed] + 1
  ELSE rng

LoopTrials == IF NoneBooked THEN trials - 1 ELSE trials

LoopAsked ==
  IF pc = "replay" /\ consumed = 0 /\ RunsForeignCode(config)
  THEN SubSeq(asked, 1, Len(asked) - 1)
  ELSE asked

Loop ==
  INSTANCE RansacLoop WITH
    state <- LoopState, rng <- LoopRng, trials <- LoopTrials, asked <- LoopAsked

(* Batching does not change the fit (the module's doc, lines 80-94): the    *)
(* same draws are booked in the same order, the counters and the incumbent  *)
(* are those of the loop of one trial at a time, user code is called for no *)
(* trial that loop does not reach, the generator ends where that loop       *)
(* leaves it, and the fit ends when that loop does.                         *)
ImplementsLoop == Loop!Spec

(* a is a better consensus than b: more inliers, or as many and a better    *)
(* score, where a NaN compares to nothing.                                  *)
Beats(a, b) == a.inliers > b.inliers \/ (a.inliers = b.inliers /\ Less(b.score, a.score))

Qualifies(p) == At(stream, p).status = "fitted" /\ At(stream, p).inliers >= 1

(* The incumbent is the last of the best trials booked: none beats it, and  *)
(* it beats every later one.  There is none only when no trial had any      *)
(* inliers.                                                                 *)
IncumbentIsBest ==
  \A i \in 1 .. Len(tried) :
    Qualifies(tried[i]) =>
      /\ book.best # NoTrial
      /\ ~Beats(At(stream, tried[i]), At(stream, book.best))
      /\ tried[i] > book.best => Beats(At(stream, book.best), At(stream, tried[i]))

(* No trial is booked beyond what the incumbent at the time demands, the    *)
(* trials drawn ahead of it included.                                       *)
WithinBudget ==
  [][ tried' # tried =>
        /\ Len(tried') <= config.maxTrials
        /\ book.best # NoTrial =>
             Len(tried') <= DynamicTrials[At(stream, book.best).inliers] ]_vars
=============================================================================
