--------------------------- MODULE MCEventStream ----------------------------
(* EventStream for TLC.                                                     *)
EXTENDS EventStream

CONSTANTS t1, t2, s1, k1

\* A test or a sweep, or two tests of which one may be stopped for the other.
Together == {{t1, s1}, {t1, t2}}
=============================================================================
