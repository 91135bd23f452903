---------------------------- MODULE MCSnellPool ----------------------------
(* TLC instance of SnellPool. *)
EXTENDS SnellPool, TLC

\* Transports are interchangeable; sessions are not, for the refinement mapping picks
\* them.
ConnSymmetry == Permutations(Conns)
=============================================================================
