-------------------------------- MODULE Push --------------------------------
(***************************************************************************)
(* A workflow from its definition to its handlers: Client.CreateWorkflow   *)
(* puts it on the wire (Workflow), a server releases its steps as their    *)
(* dependencies end and delivers them to serverless handlers (Serverless)  *)
(* by HTTP push or in SQS batches.                                         *)
(*                                                                         *)
(* Server and queue are not part of the repository.  They are modelled     *)
(* from what the code sends and answers: they deliver again what was       *)
(* reported as a retryable failure, what was not reported at all, and what *)
(* they have stopped waiting for, up to MaxTries times.                    *)
(***************************************************************************)
EXTENDS Workflow, Serverless

CONSTANTS
    Defs,      \* definitions that callers try to create
    MaxBatch,  \* records of an SQS batch
    MaxTries,  \* deliveries of a job
    None       \* no workflow, no invocation

ASSUME PushAssumption ==
    /\ MaxBatch \in Nat \ {0} /\ MaxTries \in Nat \ {0}
    /\ None \notin Defs \cup Invocations
    /\ \A d \in Defs : /\ d.jobs \in Seq(JobTypes)
                       /\ d.callbacks \in [DOMAIN d.callbacks -> JobTypes]
                       /\ DOMAIN d.callbacks \subseteq CallbackNames
                       /\ Validate(d) => StepIDs(d) \subseteq Jobs

VARIABLES
    def,     \* the workflow that was created
    step,    \* server: state of each step
    tries,   \* server: deliveries of each step so far
    owner,   \* server: the invocation a leased step is waited for from
    begun,   \* history: steps whose handler has been called...
    handled  \* ... and those whose handler has returned nil

historyVars == <<begun, handled>>
pushVars == <<def, step, tries, owner, historyVars>>
vars == <<serverlessVars, pushVars>>

Terminal == {"completed", "failed", "cancelled"}
StepStates == {"waiting", "queued", "leased"} \cup Terminal
Steps == IF def = None THEN {} ELSE StepIDs(def)

TypeOK ==
    /\ ServerlessTypeOK
    /\ def \in {d \in Defs : Validate(d)} \cup {None}
    /\ step \in [Steps -> StepStates]
    /\ tries \in [Steps -> 0..MaxTries]
    /\ owner \in [Steps -> Invocations \cup {None}]
    /\ begun \subseteq Steps
    /\ handled \subseteq begun

Init ==
    /\ ServerlessInit
    /\ def = None
    /\ step = <<>>
    /\ tries = <<>>
    /\ owner = <<>>
    /\ begun = {}
    /\ handled = {}

-----------------------------------------------------------------------------
(* The client.                                                              *)

CreateWorkflow(d) ==
    /\ def = None
    /\ Validate(d)
    /\ def' = d
    /\ step' = [s \in StepIDs(d) |-> "waiting"]
    /\ tries' = [s \in StepIDs(d) |-> 0]
    /\ owner' = [s \in StepIDs(d) |-> None]
    /\ UNCHANGED <<serverlessVars, historyVars>>

\* The server ends every step that is not terminal, and forgets who has it.
CancelWorkflow ==
    /\ def # None
    /\ step' = [s \in Steps |-> IF step[s] \in Terminal THEN step[s] ELSE "cancelled"]
    /\ owner' = [s \in Steps |-> None]
    /\ UNCHANGED <<serverlessVars, def, tries, historyVars>>

-----------------------------------------------------------------------------
(* The server.                                                              *)

\* A step waits for its dependencies to complete; a batch's callbacks wait for them to
\* end.  Nothing else on the wire says in which way: that the server reads it from the
\* names of the steps (workflow.go:243-266) is an assumption on it.
Ready(s) ==
    LET deps == {step[d] : d \in DependsOn(def, s)} IN
    CASE s[1] = "on-complete" -> deps \subseteq {"completed", "failed"}
      [] s[1] = "on-failure"  -> deps \subseteq {"completed", "failed"} /\ "failed" \in deps
      [] OTHER                -> deps \subseteq {"completed"}

Release(s) ==
    /\ step[s] = "waiting"
    /\ Ready(s)
    /\ step' = [step EXCEPT ![s] = "queued"]
    /\ UNCHANGED <<serverlessVars, def, tries, owner, historyVars>>

\* Sequences of queued steps without repetition.
Queue == {s \in Steps : step[s] = "queued"}
Batch == {q \in UNION {[1..n -> Queue] : n \in 1..MaxBatch} :
             \A m, n \in DOMAIN q : m # n => q[m] # q[n]}

Deliver(i, kind, q) ==
    /\ kind = "push" => Len(q) = 1
    /\ Invoke(i, kind, [n \in DOMAIN q |-> [id |-> q[n], type |-> StepType(def, q[n])]])
    /\ step' = [s \in Steps |-> IF \E n \in DOMAIN q : q[n] = s THEN "leased" ELSE step[s]]
    /\ tries' = [s \in Steps |-> IF \E n \in DOMAIN q : q[n] = s THEN tries[s] + 1 ELSE tries[s]]
    /\ owner' = [s \in Steps |-> IF \E n \in DOMAIN q : q[n] = s THEN i ELSE owner[s]]
    /\ UNCHANGED <<def, historyVars>>

Owned(i) == {s \in Steps : owner[s] = i}

\* Steps to be tried again, as long as they have tries left, and steps that completed.
Settle(i, again, done) ==
    /\ step' = [s \in Steps |->
          CASE s \notin Owned(i)       -> step[s]
            [] s \in Owned(i) \cap done -> "completed"
            [] s \in (Owned(i) \cap again) \ done /\ tries[s] < MaxTries -> "queued"
            [] OTHER                    -> "failed"]
    /\ owner' = [s \in Steps |-> IF owner[s] = i THEN None ELSE owner[s]]
    /\ UNCHANGED <<def, tries, historyVars>>

\* The report of an invocation settles the steps it is still waited for.
Report(i) ==
    /\ inv[i].pc = "replied"
    /\ Settle(i, IF inv[i].retryable THEN inv[i].failures ELSE {}, Owned(i) \ inv[i].failures)
    /\ End(i)

\* No report at all: everything is delivered again, what succeeded included.
Lost(i) ==
    /\ inv[i].pc = "crashed"
    /\ Settle(i, Owned(i), {})
    /\ End(i)

\* The server, or the queue's visibility timeout, stops waiting; the invocation goes on.
StopWaiting(i) ==
    /\ Owned(i) # {}
    /\ Settle(i, Owned(i), {})
    /\ UNCHANGED serverlessVars

-----------------------------------------------------------------------------
\* A step of an invocation; calls of handlers, and their successes, are remembered.
Work(i) ==
    /\ InvocationStep(i)
    /\ begun' = IF inv'[i].pc = "handler" THEN begun \cup {Record(i).id} ELSE begun
    /\ handled' = handled \cup inv'[i].succeeded
    /\ UNCHANGED <<def, step, tries, owner>>

Next ==
    \/ \E t \in Types : Register(t) /\ UNCHANGED pushVars
    \/ \E d \in Defs : CreateWorkflow(d)
    \/ CancelWorkflow
    \/ \E s \in Steps : Release(s)
    \/ \E i \in Invocations :
          \/ \E kind \in {"push", "sqs"}, q \in Batch : Deliver(i, kind, q)
          \/ Report(i) \/ Lost(i) \/ StopWaiting(i) \/ Work(i)

Spec == Init /\ [][Next]_vars

-----------------------------------------------------------------------------
(* Properties.                                                              *)

\* The job of the definition a step stands for, and what has become of it: it is active
\* from the first call of its handler until the server has it ended.
StepOf(x) == IF x[1] = "job" THEN <<IF def.type = "chain" THEN "step" ELSE "job", x[2] - 1>> ELSE x

StatusOf(s) ==
    IF step[s] \in Terminal THEN step[s] ELSE IF s \in begun THEN "active" ELSE "pending"

Status ==
    IF def = None THEN <<>>
    ELSE [x \in {<<"job", n>> : n \in 1..Len(def.jobs)} \cup CallbackIDs(def) |-> StatusOf(StepOf(x))]

Abs == INSTANCE WorkflowSpec WITH status <- Status

\* Through wire steps, batches, lost reports, second deliveries and invocations that go
\* on after the server gave them up, a workflow is what its definition says: no handler
\* of a chain's step begins before the step ahead of it completed, no callback before
\* the jobs of the batch have ended in the way it is for.
ImplementsWorkflow == Abs!Spec

\* A step the server has completed was handled: an invocation reported it so after its
\* handler had returned nil, never for one without a handler or one it did not decode.
CompletedWasHandled == \A s \in Steps : step[s] = "completed" => s \in handled

\* handler.go:157, "It returns partial batch failures so SQS only retries failed messages":
\* at the end of a batch exactly the records whose handler did not succeed are reported.
BatchReportIsExact ==
    \A i \in Invocations : inv[i].pc = "replied" =>
        inv[i].failures = {inv[i].records[n].id : n \in DOMAIN inv[i].records} \ inv[i].succeeded
=============================================================================
