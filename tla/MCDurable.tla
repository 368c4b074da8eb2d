------------------------------ MODULE MCDurable ------------------------------
(* Small instances of Durable for TLC.                                      *)
EXTENDS Durable

\* Every kind of operation, and two side effects in a row.
MCProgram == << [type |-> "call", key |-> "fetch"],
                [type |-> "call", key |-> "load"],
                [type |-> "time", key |-> "now"],
                [type |-> "random", key |-> ""] >>
==============================================================================
