------------------------------ MODULE MCRouting ------------------------------
(* Small instances of Routing for TLC.                                      *)
EXTENDS Routing

CONSTANTS c1, c2

\* The second region first; the third is never asked for by name.
MCFavourites == <<2, 1>>

\* One weight is left to its default.
MCWeights == [r \in Regions |-> IF r = 1 THEN 2 ELSE IF r = 2 THEN 0 ELSE 3]

\* Callers meet in the counter of round-robin only, and the calls that do not use the
\* strategy are made once.
MCCalls == [s \in Strategies |-> [c \in Callers |->
               CASE s = "round-robin"         -> {"enqueue"}
                 [] s = "latency" /\ c = c1   -> Ops
                 [] s \notin {"round-robin", "latency"} /\ c = c1 -> {"enqueue"}
                 [] OTHER                     -> {}]]

\* The total of the weights is the sum that OverflowRouter.Select accumulates.
ASSUME TotalIsSum ==
    \A S \in SUBSET Regions : TotalWeight(S) = MapThenSumSet(Weight, S)
==============================================================================
