------------------------------ MODULE MCStorage -----------------------------
(***************************************************************************)
(* Instances of Storage for TLC.  A scenario is a set of actors that work  *)
(* on the database in the same lives of the process; actors that touch     *)
(* different tables meet in the shared transaction only, which the mixed   *)
(* scenarios are for.                                                      *)
(***************************************************************************)
EXTENDS Storage, TLC

CONSTANTS r1, r2, r3, s1, s2, g1, b1, p1, d1, mon, down

Together ==
  LET Apart(n) == {R \in SUBSET Runs : Cardinality(R) = n}
  IN {R \cup {g1, down} : R \in Apart(2)}     \* runs, a client that asks, a shutdown
     \cup {R \cup {s1, s2} : R \in Apart(1)}  \* two sessions, a run in their transaction
     \cup {R \cup {mon} : R \in Apart(3)}     \* a run recorded while others are pruned
     \cup {R \cup {mon, down} : R \in Apart(2)}  \* a prune that a shutdown cancels
     \cup {R \cup {b1, p1, d1} : R \in Apart(1)} \* a benchmark saved, patched, deleted

Symmetry == Permutations(Runs)

=============================================================================
