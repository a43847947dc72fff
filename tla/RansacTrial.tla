---------------------------- MODULE RansacTrial ----------------------------
(***************************************************************************)
(* One trial of RANSAC (crates/mlrs-algos/src/linear/ransac.rs), as pure   *)
(* operators: what a trial turns out to be, and how the fit books it.      *)
(*                                                                         *)
(* The generator is a position in an endless stream.  A draw moves it by   *)
(* one, and the position decides all about the trial drawn there: whether  *)
(* the user's code accepts it, its inliers and its score.                  *)
(***************************************************************************)
EXTENDS Integers

CONSTANTS
  Period,               \* bound: the stream repeats after so many positions
  Scores,               \* the R^2 of a consensus, ranked in Nat
  Rows,                 \* the rows of the design
  NaN,                  \* the score of fewer than two inliers
  DynamicTrials,        \* dynamic_max_trials() of a number of inliers
  Configs               \* the hyperparameters and drivers of the fits

ASSUME PeriodAssumption == Period \in Nat \ {0}
ASSUME RowsAssumption == Rows \in Nat
ASSUME ScoresAssumption == Scores \subseteq Nat \ {0} /\ NaN \notin Int
ASSUME DynamicAssumption == DynamicTrials \in [1 .. Rows -> Nat]

(* What a fit is asked to do.  A number no trial reaches stands for the     *)
(* infinite defaults.  words: what a fit of the base estimator takes from   *)
(* the generator.                                                           *)
ConfigType ==
  [maxTrials: Nat, maxSkips: Nat, stopInliers: Nat, stopScore: Nat,
   width: Nat \ {0}, device: BOOLEAN, foreign: BOOLEAN, predicates: BOOLEAN,
   words: Nat]

ASSUME ConfigsAssumption ==
  /\ Configs \subseteq ConfigType
  /\ \A c \in Configs : c.foreign => ~c.device
  /\ \A c \in Configs : ~c.foreign => c.words = 0

(* User code runs in a trial: a base estimator or a validity predicate. *)
RunsForeignCode(c) == c.foreign \/ c.predicates

Width(c) == IF c.device /\ ~RunsForeignCode(c) THEN c.width ELSE 1

Fit(inliers, score) == [status |-> "fitted", inliers |-> inliers, score |-> score]
Outcome(status) == [status |-> status, inliers |-> 0, score |-> NaN]

Fits == {Fit(i, NaN) : i \in {0, 1} \cap 0 .. Rows}
          \cup {Fit(i, s) : i \in 2 .. Rows, s \in Scores}

(* Only user code rejects a trial, or raises. *)
Outcomes(c) ==
  IF RunsForeignCode(c)
  THEN Fits \cup {Outcome("invalidData"), Outcome("invalidModel"), Outcome("raises")}
  ELSE Fits

Streams(c) == [0 .. Period - 1 -> Outcomes(c)]
At(stream, p) == stream[p % Period]

(* What the trial's fit takes from the generator, besides the draw. *)
Words(c, o) == IF o.status = "invalidData" THEN 0 ELSE c.words

----------------------------------------------------------------------------
(* The books: the incumbent (best, the position of its draw), its inliers   *)
(* and score, what is left of max_trials, and the three counters of skips.  *)

NoTrial == -1
NewBook(c) ==
  [best |-> NoTrial, inliers |-> 1, score |-> 0, budget |-> c.maxTrials,
   noInliers |-> 0, invalidData |-> 0, invalidModel |-> 0]

BookType ==
  [best: Nat \cup {NoTrial}, inliers: Nat, score: Scores \cup {0, NaN}, budget: Nat,
   noInliers: Nat, invalidData: Nat, invalidModel: Nat]

Skips(k) == k.noInliers + k.invalidData + k.invalidModel

(* An order that NaN is outside of. *)
Less(s, t) == s # NaN /\ t # NaN /\ s < t

Smaller(m, n) == IF n < m THEN n ELSE m

(* Mutant of Adopts: of two equals the first one stays. *)
AdoptsBetter(k, o) ==
  /\ o.status = "fitted"
  /\ o.inliers >= k.inliers
  /\ o.inliers = k.inliers => Less(k.score, o.score)

Adopts(k, o) ==
  /\ o.status = "fitted"
  /\ o.inliers >= k.inliers
  /\ ~(o.inliers = k.inliers /\ Less(o.score, k.score))

Adopted(k, o, p) ==
  [k EXCEPT !.best = p, !.inliers = o.inliers, !.score = o.score,
            !.budget = Smaller(@, DynamicTrials[o.inliers])]

(* The books after the trial drawn at position p. *)
Booked(k, o, p) ==
  IF Adopts(k, o) THEN Adopted(k, o, p)
  ELSE IF o.status = "invalidData" THEN [k EXCEPT !.invalidData = @ + 1]
  ELSE IF o.status = "invalidModel" THEN [k EXCEPT !.invalidModel = @ + 1]
  ELSE IF o.inliers < k.inliers THEN [k EXCEPT !.noInliers = @ + 1]
  ELSE k

(* The rules that end the loop, looked at when the incumbent changes. *)
Stops(c, k, o) ==
  Adopts(k, o) /\ (o.inliers >= c.stopInliers \/ (o.score # NaN /\ o.score >= c.stopScore))
=============================================================================
