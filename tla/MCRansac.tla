------------------------------ MODULE MCRansac ------------------------------
(* Three rows, three positions before the stream repeats; every arm of the   *)
(* fit, with and without the rules that end it early.  One inlier asks for  *)
(* more trials than any fit has, two ask for three and three for one.       *)
EXTENDS RansacBatch

Many == 9

MCDynamicTrials == <<Many, 3, 1>>

Arm(device, foreign, predicates, words, width) ==
  [device |-> device, foreign |-> foreign, predicates |-> predicates,
   words |-> words, width |-> width]

Arms ==
  {Arm(TRUE, FALSE, FALSE, 0, w) : w \in {2, 3}}
    \cup {Arm(FALSE, FALSE, FALSE, 0, 3), Arm(TRUE, FALSE, TRUE, 0, 3),
          Arm(FALSE, TRUE, TRUE, 1, 3)}

Rules ==
  [maxTrials: {5}, maxSkips: {1, Many}, stopInliers: {3, Many}, stopScore: {2, Many}]

MCConfigs ==
  {[device |-> a.device, foreign |-> a.foreign, predicates |-> a.predicates,
    words |-> a.words, width |-> a.width, maxTrials |-> r.maxTrials,
    maxSkips |-> r.maxSkips, stopInliers |-> r.stopInliers, stopScore |-> r.stopScore]
     : a \in Arms, r \in Rules}
=============================================================================
