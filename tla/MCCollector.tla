---------------------------- MODULE MCCollector -----------------------------
(* Instances of Collector for TLC: two targets, so that one is not the     *)
(* default and can be cleaned up, and two clients.                         *)
EXTENDS Collector

CONSTANTS t1, t2, q1, q2

\* One target that a client and the loop collect at once, or two targets that
\* come and go with two clients.
Instances ==
  {[clients |-> {q1}, asked |-> {t1}, wants |-> {TRUE},
    metered |-> {t1}, until |-> 2],
   [clients |-> {q1, q2}, asked |-> {t1, t2}, wants |-> {FALSE},
    metered |-> {}, until |-> 2]}

\* RequestAnswered of one client: the clients are interchangeable.
FirstAnswered == RequestAnswered(q1)
=============================================================================
