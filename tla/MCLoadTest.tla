----------------------------- MODULE MCLoadTest -----------------------------
(* LoadTest for TLC.  Tests are alike, and so are sweeps, unless Paced tells *)
(* them apart.                                                               *)
EXTENDS LoadTest, TLC

Symmetry == Permutations(Tests) \cup Permutations(Sweeps)
=============================================================================
