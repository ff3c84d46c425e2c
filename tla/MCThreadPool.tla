----------------------------- MODULE MCThreadPool -----------------------------
(***************************************************************************)
(* Instances of ThreadPool for TLC.  Callers are interchangeable; workers  *)
(* are not (select_best_worker scans them in order).                       *)
(***************************************************************************)
EXTENDS ThreadPool, TLC

CallerSymmetry == Permutations(Callers)
=============================================================================
