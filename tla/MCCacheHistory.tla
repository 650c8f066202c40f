--------------------------- MODULE MCCacheHistory ---------------------------
(* Goroutines of one kind run the same code and may be permuted.           *)
EXTENDS CacheHistory, TLC

GoroutineSymmetry == Permutations(Enqueuer) \cup Permutations(Reconciler)
=============================================================================
