---------------------------- MODULE WorkflowSpec ----------------------------
(***************************************************************************)
(* What a workflow promises to the one who defines it (the comments of     *)
(* workflow.go on Chain, Group and BatchCallbacks), without steps on a     *)
(* wire, deliveries or retries: when a job of the definition may begin.    *)
(***************************************************************************)
EXTENDS Naturals, Sequences

CONSTANTS Defs, None

VARIABLES def, status

vars == <<def, status>>

\* The jobs of definition d, in its own terms: positions and callback names.
Elements(d) ==
    {<<"job", i>> : i \in 1..Len(d.jobs)}
        \cup {<<c, 0>> : c \in IF d.type = "batch" THEN DOMAIN d.callbacks ELSE {}}

Init == def = None /\ status = <<>>

Define(d) ==
    /\ def = None
    /\ def' = d
    /\ status' = [x \in Elements(d) |-> "pending"]

Job(i)   == status[<<"job", i>>]
AllJobs(S) == \A i \in 1..Len(def.jobs) : Job(i) \in S

\* "steps execute one after another", "all jobs execute concurrently", "enqueued when
\* ALL jobs finish, regardless of outcome", "only if ALL jobs succeeded", "if ANY job
\* failed".
MayBegin(x) ==
    CASE x[1] = "job" -> def.type = "chain" /\ x[2] > 1 => Job(x[2] - 1) = "completed"
      [] x[1] = "on-complete" -> AllJobs({"completed", "failed"})
      [] x[1] = "on-success"  -> AllJobs({"completed"})
      [] x[1] = "on-failure"  -> \E i \in 1..Len(def.jobs) : Job(i) = "failed"

Begin(x) ==
    /\ status[x] = "pending"
    /\ MayBegin(x)
    /\ status' = [status EXCEPT ![x] = "active"]
    /\ UNCHANGED def

Ended == {"completed", "failed", "cancelled"}

\* Jobs end, of which those that never ran can only fail.
End(S) ==
    /\ S # {}
    /\ \A x \in S : status[x] \notin Ended /\ MayBegin(x)
    /\ status' \in [DOMAIN status -> {"pending", "active"} \cup Ended]
    /\ \A x \in DOMAIN status \ S : status'[x] = status[x]
    /\ \A x \in S : status'[x] \in IF status[x] = "active" THEN {"completed", "failed"} ELSE {"failed"}
    /\ UNCHANGED def

\* "cancels a workflow and all its non-terminal steps"
Cancel ==
    /\ status' = [x \in DOMAIN status |-> IF status[x] \in Ended THEN status[x] ELSE "cancelled"]
    /\ UNCHANGED def

Next ==
    \/ \E d \in Defs : Define(d)
    \/ \E x \in DOMAIN status : Begin(x)
    \/ \E S \in SUBSET DOMAIN status : End(S)
    \/ Cancel

Spec == Init /\ [][Next]_vars
=============================================================================
