------------------------------ MODULE MCHgbFit ------------------------------
(* Three workers and three to eight rows.  The histogram budget makes       *)
(* levels of one chunk, of even and of uneven ones, gathered or subtracted; *)
(* one tree or two at a time; one iteration of three levels, or two of two  *)
(* levels with odd numbers of swaps.  The second cut leaves nodes of one    *)
(* row, which end in empty blocks.                                          *)
EXTENDS HgbFit

Job(n, k, iters, depth, cap) ==
  [n |-> n, k |-> k, iters |-> iters, depth |-> depth, cap |-> cap]

MCJobs == {Job(4, 1, 1, 2, cap) : cap \in {1, 2, 3, 4}} \cup
          {Job(4, 1, 2, 1, cap) : cap \in {0, 2}} \cup
          {Job(3, 2, 1, 1, cap) : cap \in {1, 2}} \cup
          {Job(8, 1, 1, 2, 4)}

MCCuts == {{0, 2, 5}, 1 .. 7}
=============================================================================
