------------------------- MODULE MCReleaseLifecycle -------------------------
(* Values for the constants of ReleaseLifecycle. *)
EXTENDS ReleaseLifecycle, FiniteSets, TLC

CONSTANTS w1, w2

TwoWorkers == {w1, w2}
WorkerSymmetry == Permutations(TwoWorkers)
TwoCandidates == 1 .. 2

\* The search and the jobs are at most two activities at a time, one while the item
\* is held (which only keeps actions from starting), and the search can still select.
Bounded ==
  /\ Cardinality(jobs) + (IF search = NoSearch THEN 0 ELSE 1) <= IF queue.held THEN 1 ELSE 2
  /\ search # NoSearch => issued < MaxReleases
=============================================================================
