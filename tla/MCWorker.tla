------------------------------ MODULE MCWorker ------------------------------
(* Small instances of Worker for TLC.                                       *)
EXTENDS Worker, TLC

CONSTANTS j1, j2, d1, d2, d3

\* One type with a handler and one that is never registered...
MCTypeOf == [j \in Jobs |-> IF j = j1 THEN "report" ELSE "email"]
\* ... or a handler for every job.
MCOneType == [j \in Jobs |-> "email"]

\* Deliveries are interchangeable, jobs of one type too.
DeliverySymmetry == Permutations(Deliveries)
=============================================================================
