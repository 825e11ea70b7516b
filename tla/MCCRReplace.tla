---------------------------- MODULE MCCRReplace ----------------------------
(* CRReplace for TLC.  Callers are alike, and so are targets.              *)
EXTENDS CRReplace, TLC

Symmetry == Permutations(Callers) \cup Permutations(Targets)
=============================================================================
