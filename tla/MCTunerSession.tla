-------------------------- MODULE MCTunerSession --------------------------
(* TunerSession for TLC.  Calls stands for Callers: its members name their  *)
(* session or request.  Requests to start are alike.                        *)
EXTENDS TunerSession, TLC

Symmetry == Permutations(Sessions)
=============================================================================
