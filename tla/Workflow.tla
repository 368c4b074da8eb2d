------------------------------ MODULE Workflow ------------------------------
(***************************************************************************)
(* Workflow definitions (workflow.go): what Validate accepts, and the      *)
(* steps with their dependencies that CreateWorkflow puts on the wire.     *)
(*                                                                         *)
(* A definition is a record [type, jobs, callbacks]: jobs is the sequence  *)
(* of job types of Steps or Jobs, callbacks a function from the callbacks  *)
(* that are set to their job types.  A step's ID is a pair, <<"step", 0>>  *)
(* for "step-0".                                                           *)
(***************************************************************************)
EXTENDS Naturals, Sequences

CONSTANT MaxWorkflowSteps

ASSUME WorkflowAssumption == MaxWorkflowSteps \in Nat

CallbackNames == {"on-complete", "on-success", "on-failure"}

\* Callbacks are looked at for batches only, and the types of a batch's jobs are not.
Validate(def) ==
    /\ def.type \in {"chain", "group", "batch"}
    /\ Len(def.jobs) <= MaxWorkflowSteps
    /\ Len(def.jobs) >= IF def.type = "group" THEN 2 ELSE 1
    /\ def.type # "batch" => \A i \in 1..Len(def.jobs) : def.jobs[i] # ""
    /\ def.type = "batch" => DOMAIN def.callbacks # {}

\* The IDs of a definition's own steps, counted from 0.
JobIDs(def) ==
    {<<IF def.type = "chain" THEN "step" ELSE "job", i>> : i \in 0..Len(def.jobs) - 1}

CallbackIDs(def) ==
    IF def.type = "batch" THEN {<<c, 0>> : c \in DOMAIN def.callbacks} ELSE {}

StepIDs(def) == JobIDs(def) \cup CallbackIDs(def)

StepType(def, id) ==
    IF id \in JobIDs(def) THEN def.jobs[id[2] + 1] ELSE def.callbacks[id[1]]

DependsOnSkipping(def, id) ==  \* mutant: i > 1 for i > 0
    CASE id[1] \in CallbackNames         -> JobIDs(def)
      [] id[1] = "step" /\ id[2] > 1     -> {<<"step", id[2] - 1>>}
      [] OTHER                           -> {}

\* depends_on: a chain step waits for the one before, a callback for every job.
DependsOn(def, id) ==
    CASE id[1] \in CallbackNames         -> JobIDs(def)
      [] id[1] = "step" /\ id[2] > 0     -> {<<"step", id[2] - 1>>}
      [] OTHER                           -> {}
=============================================================================
