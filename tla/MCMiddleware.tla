---------------------------- MODULE MCMiddleware ----------------------------
(* A small instance of Middleware for TLC: two executions, of one job or of *)
(* two.                                                                     *)
EXTENDS Middleware, TLC

CONSTANTS e1, e2, j1, j2

\* The loop of then, one wrapping after the other, builds what Then says.
Wrapped(c) == FoldRight(LAMBDA k, h : <<Enters(k)>> \o h \o <<Leaves(k)>>, c, <<Handler>>)

ASSUME ThenIsWrapping == \A c \in BoundedSeq(Kinds, 4) : Then(c) = Wrapped(c)

MCSymmetry == Permutations({e1, e2}) \cup Permutations({j1, j2})
=============================================================================
