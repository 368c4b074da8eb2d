------------------------------- MODULE MCPush -------------------------------
(* A small instance of Push for TLC.                                        *)
EXTENDS Push, TLC

CONSTANTS i1, i2

Definition(type, jobs, callbacks) ==
    [type |-> type, jobs |-> jobs, callbacks |-> [c \in callbacks |-> "mail"]]

\* Definitions of every kind, with jobs that cannot be delivered or have no type, and
\* beside them some that Validate refuses: too few or too many jobs, a chain with an
\* empty type, a batch without a callback.
MCDefs ==
    {Definition("chain", j, {}) :
        j \in {<<>>, <<"mail", "">>, <<"mail", "mail", "mail">>, <<"mail", "mail", "mail", "mail">>}}
    \cup {Definition("group", j, {}) : j \in {<<"mail">>, <<"mail", "mail">>}}
    \cup {Definition("batch", <<"mail", "">>, c) : c \in {{}, {"on-success", "on-failure"}}}
    \cup {Definition("batch", <<"huge", "mail">>, {"on-complete"})}

MCJobs == {<<k, n>> : k \in {"step", "job"}, n \in 0..2} \cup {<<c, 0>> : c \in CallbackNames}

InvocationSymmetry == Permutations(Invocations)
=============================================================================
