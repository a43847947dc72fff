----------------------------- MODULE RansacLoop -----------------------------
(***************************************************************************)
(* What RansacRegressor::fit_from_host_slice promises: scikit-learn's loop *)
(* of one trial at a time.  It is the code's own loop at a batch width of  *)
(* one, with the device left out.                                          *)
(***************************************************************************)
EXTENDS RansacTrial, Sequences

VARIABLES
  config, stream,       \* the fit that was asked for, and its random trials
  state,
  rng,                  \* the generator
  trials,               \* n_trials
  book,
  asked,                \* history: the trials the user's code was called for
  tried                 \* history: the trials booked

loopVars == <<config, stream, state, rng, trials, book, asked, tried>>
fit == <<config, stream>>

Results == {"fitted", "noConsensus", "aborted"}

Init ==
  /\ config \in Configs
  /\ stream \in Streams(config)
  /\ state = "trying"
  /\ rng = 0
  /\ trials = 0
  /\ book = NewBook(config)
  /\ asked = <<>>
  /\ tried = <<>>

Exhausted ==
  /\ state = "trying"
  /\ trials >= book.budget
  /\ state' = "over"
  /\ UNCHANGED <<fit, rng, trials, book, asked, tried>>

(* The trial that finds too many skips is counted, and not drawn. *)
SkippedOut ==
  /\ state = "trying"
  /\ trials < book.budget
  /\ Skips(book) > config.maxSkips
  /\ trials' = trials + 1
  /\ state' = "over"
  /\ UNCHANGED <<fit, rng, book, asked, tried>>

Draw ==
  /\ state = "trying"
  /\ trials < book.budget
  /\ Skips(book) <= config.maxSkips
  /\ trials' = trials + 1
  /\ asked' = IF RunsForeignCode(config) THEN Append(asked, rng) ELSE asked

Trial ==
  LET o == At(stream, rng) IN
  /\ Draw
  /\ o.status # "raises"
  /\ rng' = rng + 1 + Words(config, o)
  /\ book' = Booked(book, o, rng)
  /\ tried' = Append(tried, rng)
  /\ state' = IF Stops(config, book, o) THEN "over" ELSE "trying"
  /\ UNCHANGED fit

Abort ==
  /\ Draw
  /\ At(stream, rng).status = "raises"
  /\ rng' = rng + 1
  /\ state' = "aborted"
  /\ UNCHANGED <<fit, book, tried>>

(* The base estimator is fitted once more, to the inliers of the incumbent. *)
Return ==
  /\ state = "over"
  /\ IF book.best = NoTrial
     THEN state' = "noConsensus" /\ UNCHANGED rng
     ELSE \/ state' = "fitted" /\ rng' = rng + config.words
          \/ config.foreign /\ state' = "aborted" /\ UNCHANGED rng
  /\ UNCHANGED <<fit, trials, book, asked, tried>>

Next == Exhausted \/ SkippedOut \/ Trial \/ Abort \/ Return

Spec == Init /\ [][Next]_loopVars /\ WF_loopVars(Next)
=============================================================================
