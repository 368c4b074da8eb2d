----------------------------- MODULE PushProofs -----------------------------
(***************************************************************************)
(* Proofs about Push, for any definitions, handlers, invocations, batches  *)
(* and bounds: the serverless handlers report what happened, and a         *)
(* workflow as it is sent, delivered and repeated implements the one that  *)
(* was defined.                                                            *)
(***************************************************************************)
EXTENDS Push, TLAPS, SequenceTheorems

-----------------------------------------------------------------------------
(* The invariant.                                                           *)

IdsTo(i, k) == {inv[i].records[n].id : n \in 1..k}
Ids(i)      == {inv[i].records[n].id : n \in DOMAIN inv[i].records}

\* An invocation's report is exact so far, for records that are different steps which
\* the server has released.
InvocationInv(i) ==
    inv[i] # Free =>
        /\ \A m, n \in DOMAIN inv[i].records : m # n => inv[i].records[m].id # inv[i].records[n].id
        /\ Ids(i) \subseteq Steps
        /\ \A s \in Ids(i) : step[s] # "waiting"
        /\ inv[i].succeeded \subseteq handled
        /\ inv[i].pc \in {"next", "handler"} =>
              /\ inv[i].succeeded \subseteq IdsTo(i, inv[i].pos - 1)
              /\ inv[i].failures = IdsTo(i, inv[i].pos - 1) \ inv[i].succeeded
        /\ inv[i].pc = "handler" => Record(i).id \in begun
        /\ inv[i].pc = "replied" => inv[i].failures = Ids(i) \ inv[i].succeeded

\* A step that is waited for is leased to an invocation that has it; one that was
\* released has its dependencies behind it; one that completed was handled.
StepInv(s) ==
    /\ owner[s] # None =>
          step[s] = "leased" /\ inv[owner[s]] # Free /\ s \in Ids(owner[s])
    /\ step[s] \in {"queued", "leased", "completed", "failed"} => Ready(s)
    /\ step[s] = "completed" => s \in handled
    /\ step[s] \in {"waiting", "queued"} => tries[s] < MaxTries

IInv ==
    /\ TypeOK
    /\ \A i \in Invocations : InvocationInv(i)
    /\ \A s \in Steps : StepInv(s)

-----------------------------------------------------------------------------
(* Facts about definitions.                                                 *)

LEMMA DefFacts ==
    ASSUME TypeOK, def # None
    PROVE  /\ def \in Defs /\ Validate(def) /\ Steps = StepIDs(def) /\ Steps \subseteq Jobs
           /\ def.jobs \in Seq(JobTypes) /\ Len(def.jobs) \in Nat
           /\ DOMAIN def.callbacks \subseteq CallbackNames
<1>1. def \in Defs /\ Validate(def) /\ Steps = StepIDs(def)
  BY DEF TypeOK, Steps
<1> QED
  BY <1>1, PushAssumption

LEMMA StepsAreJobs == TypeOK => Steps \subseteq Jobs
<1>1. CASE def = None
  BY <1>1 DEF Steps
<1>2. CASE def # None
  BY <1>2, DefFacts
<1> QED
  BY <1>1, <1>2

LEMMA StepTypeOK ==
    ASSUME TypeOK, NEW s \in Steps
    PROVE  StepType(def, s) \in JobTypes
<1>1. def # None
  BY DEF Steps
<1>2. CASE s \in JobIDs(def)
  <2>1. PICK k \in 0..Len(def.jobs) - 1 : s = <<IF def.type = "chain" THEN "step" ELSE "job", k>>
    BY <1>2 DEF JobIDs
  <2>2. s[2] = k /\ k + 1 \in 1..Len(def.jobs)
    BY <1>1, <2>1, DefFacts
  <2> QED
    BY <1>1, <1>2, <2>2, DefFacts DEF StepType
<1>3. CASE s \notin JobIDs(def)
  <2>1. PICK k \in DOMAIN def.callbacks : s = <<k, 0>>
    BY <1>1, <1>3 DEF Steps, StepIDs, CallbackIDs
  <2>2. s[1] = k /\ def.callbacks \in [DOMAIN def.callbacks -> JobTypes]
    BY <1>1, <2>1, DefFacts, PushAssumption
  <2> QED
    BY <1>3, <2>2 DEF StepType
<1> QED
  BY <1>2, <1>3

-----------------------------------------------------------------------------
(* An invocation goes on.                                                   *)

LEMMA RunningFacts ==
    ASSUME TypeOK, NEW i \in Invocations, inv[i].pc \in {"next", "handler", "replied", "crashed"}
    PROVE  /\ inv[i] # Free /\ inv[i] \in Running
           /\ inv[i].pc \in {"next", "handler"} => inv[i].pos \in DOMAIN inv[i].records
BY DEF TypeOK, ServerlessTypeOK, Free

LEMMA ProceedFacts ==
    ASSUME TypeOK, NEW i \in Invocations, inv[i].pc \in {"next", "handler"},
           NEW failed, NEW ok, NEW retryable, Proceed(i, failed, ok, retryable)
    PROVE  /\ inv'[i] = [pc |-> IF inv[i].pos = Len(inv[i].records) THEN "replied" ELSE "next",
                         kind |-> inv[i].kind, records |-> inv[i].records, pos |-> inv[i].pos + 1,
                         failures |-> inv[i].failures \cup failed, retryable |-> retryable,
                         succeeded |-> inv[i].succeeded \cup ok]
           /\ \A k \in Invocations \ {i} : inv'[k] = inv[k]
           /\ inv' \in [Invocations -> {inv'[k] : k \in Invocations}]
<1>1. inv[i] \in Running
  BY RunningFacts
<1>2. inv \in [Invocations -> {Free} \cup Running]
  BY DEF TypeOK, ServerlessTypeOK
<1> QED
  BY <1>1, <1>2 DEF Proceed, Running

LEMMA IInvInit == Init => IInv
<1> SUFFICES ASSUME Init PROVE IInv
  OBVIOUS
<1>1. Steps = {}
  BY DEF Init, Steps
<1>2. ServerlessTypeOK
  BY DEF Init, ServerlessInit, ServerlessTypeOK, Free
<1>3. TypeOK
  BY <1>1, <1>2 DEF Init, TypeOK
<1>4. ASSUME NEW i \in Invocations PROVE InvocationInv(i)
  BY DEF Init, ServerlessInit, InvocationInv
<1> QED
  BY <1>1, <1>3, <1>4 DEF IInv

\* A record is done with: it failed, or its handler returned nil.
Settles(i, failed, ok) ==
    \/ failed = {Record(i).id} /\ ok = {}
    \/ failed = {} /\ ok = {Record(i).id} /\ inv[i].pc = "handler"

\* The three ways an invocation moves.
LEMMA WorkCases ==
    ASSUME TypeOK, NEW i \in Invocations, Work(i)
    PROVE  /\ inv[i].pc \in {"next", "handler"}
           /\ \/ \E failed, ok : \E retryable \in BOOLEAN :
                    /\ Proceed(i, failed, ok, retryable)
                    /\ Settles(i, failed, ok)
              \/ inv[i].pc = "next" /\ inv' = [inv EXCEPT ![i].pc = "handler"]
              \/ inv[i].pc = "handler" /\ inv' = [inv EXCEPT ![i].pc = "crashed"]
           /\ handlers' = handlers
<1>1. CASE Malformed(i)
  <2>1. (inv[i].kind = "sqs") \in BOOLEAN
    OBVIOUS
  <2> QED
    BY <1>1, <2>1 DEF Malformed, Settles
<1>2. CASE Unhandled(i)
  BY <1>2 DEF Unhandled, Decoded, Settles
<1>3. CASE ProcessJob(i)
  BY <1>3 DEF ProcessJob, Decoded
<1>4. CASE HandlerSucceeds(i)
  BY <1>4 DEF HandlerSucceeds, Settles
<1>5. CASE HandlerFails(i)
  BY <1>5 DEF HandlerFails, Settles
<1>6. CASE HandlerPanics(i)
  BY <1>6 DEF HandlerPanics
<1> QED
  BY <1>1, <1>2, <1>3, <1>4, <1>5, <1>6 DEF Work, InvocationStep

\* Everything but the invocation itself, when its records stay.
LEMMA WorkRest ==
    ASSUME IInv, NEW i \in Invocations, UNCHANGED <<def, step, tries, owner>>,
           inv'[i] # Free, inv'[i].records = inv[i].records, inv[i] # Free,
           \A k \in Invocations \ {i} : inv'[k] = inv[k],
           begun \subseteq begun', handled \subseteq handled'
    PROVE  /\ \A k \in Invocations \ {i} : InvocationInv(k)'
           /\ \A s \in Steps : StepInv(s)'
<1>1. Steps' = Steps
  BY DEF Steps
<1>2. ASSUME NEW k \in Invocations \ {i} PROVE InvocationInv(k)'
  <2>1. InvocationInv(k) /\ inv'[k] = inv[k]
    BY DEF IInv
  <2> QED
    BY <1>1, <2>1 DEF InvocationInv, Ids, IdsTo, Record
<1>3. ASSUME NEW s \in Steps PROVE StepInv(s)'
  <2>1. StepInv(s) /\ owner[s] \in Invocations \cup {None}
    BY DEF IInv, TypeOK
  <2>2. Ready(s)' = Ready(s)
    BY DEF Ready
  <2>3. ASSUME owner[s] # None PROVE inv'[owner[s]] # Free /\ s \in Ids(owner[s])'
    BY <2>1, <2>3 DEF StepInv, Ids
  <2> QED
    BY <2>1, <2>2, <2>3 DEF StepInv
<1> QED
  BY <1>2, <1>3

LEMMA WorkInv == ASSUME IInv, NEW i \in Invocations, Work(i) PROVE IInv'
<1>1. TypeOK /\ InvocationInv(i) /\ inv[i].pc \in {"next", "handler"} /\ handlers' = handlers
  BY WorkCases DEF IInv
<1>2. /\ inv[i] # Free /\ inv[i] \in Running /\ inv[i].pos \in DOMAIN inv[i].records
      /\ inv \in [Invocations -> {Free} \cup Running]
  BY <1>1, RunningFacts DEF TypeOK, ServerlessTypeOK
<1>3. /\ UNCHANGED <<def, step, tries, owner>> /\ handled' = handled \cup inv'[i].succeeded
      /\ begun' = IF inv'[i].pc = "handler" THEN begun \cup {Record(i).id} ELSE begun
  BY DEF Work
<1>4. Record(i).id \in Steps /\ Record(i).id \in Ids(i) /\ Record(i).id \in Jobs
  BY <1>1, <1>2, StepsAreJobs DEF InvocationInv, Ids, Record
<1>5. Steps' = Steps
  BY <1>3 DEF Steps
<1>6. ASSUME NEW failed, NEW ok, NEW retryable \in BOOLEAN,
             Proceed(i, failed, ok, retryable), Settles(i, failed, ok)
      PROVE  IInv'
  <2>1. /\ inv'[i] = [pc |-> IF inv[i].pos = Len(inv[i].records) THEN "replied" ELSE "next",
                       kind |-> inv[i].kind, records |-> inv[i].records, pos |-> inv[i].pos + 1,
                       failures |-> inv[i].failures \cup failed, retryable |-> retryable,
                       succeeded |-> inv[i].succeeded \cup ok]
        /\ \A k \in Invocations \ {i} : inv'[k] = inv[k]
        /\ inv' \in [Invocations -> {inv'[k] : k \in Invocations}]
    BY <1>1, <1>6, ProceedFacts
  <2>2. inv'[i] \in Running
    BY <1>2, <1>4, <1>6, <2>1 DEF Running, Settles
  <2>3. ok \subseteq begun /\ begun' = begun /\ handled' = handled \cup ok
    BY <1>1, <1>2, <1>3, <1>6, <2>1 DEF Settles, InvocationInv
  <2>4. TypeOK'
    <3>1. ServerlessTypeOK'
      <4>1. inv' \in [Invocations -> {Free} \cup Running]
        BY <1>2, <2>1, <2>2
      <4>2. inv'[i].pc \in {"next", "handler"} => inv'[i].pos \in DOMAIN inv'[i].records
        BY <1>2, <2>1 DEF Running
      <4> QED
        BY <1>1, <2>1, <4>1, <4>2 DEF TypeOK, ServerlessTypeOK
    <3> QED
      BY <1>1, <1>3, <1>5, <2>3, <3>1 DEF TypeOK
  <2>5. InvocationInv(i)'
    <3>1. inv'[i] # Free
      BY <2>1 DEF Free
    <3>2. Ids(i)' = Ids(i)
      BY <2>1 DEF Ids
    <3>3. IdsTo(i, inv[i].pos) = IdsTo(i, inv[i].pos - 1) \cup {Record(i).id}
      BY <1>2 DEF IdsTo, Record, Running
    <3>4. Record(i).id \notin IdsTo(i, inv[i].pos - 1)
      BY <1>1, <1>2 DEF IdsTo, Record, InvocationInv, Running
    <3>5. /\ inv'[i].succeeded \subseteq IdsTo(i, inv[i].pos)
          /\ inv'[i].failures = IdsTo(i, inv[i].pos) \ inv'[i].succeeded
      BY <1>1, <1>2, <1>6, <2>1, <3>3, <3>4 DEF InvocationInv, Settles
    <3>6. inv'[i].pos - 1 = inv[i].pos
      BY <1>2, <2>1 DEF Running
    <3>7. inv'[i].pc = "replied" => IdsTo(i, inv[i].pos) = Ids(i)
      <4>1. inv'[i].pc = "replied" => inv[i].pos = Len(inv[i].records)
        BY <2>1
      <4>2. DOMAIN inv[i].records = 1..Len(inv[i].records)
        BY <1>2 DEF Running
      <4> QED
        BY <4>1, <4>2 DEF IdsTo, Ids
    <3>8. inv'[i].pc \in {"replied", "next"} /\ inv'[i].succeeded \subseteq handled'
      BY <1>3, <2>1
    <3>9. inv'[i].records = inv[i].records
      BY <2>1
    <3>10. IdsTo(i, inv[i].pos - 1)' = IdsTo(i, inv[i].pos)
      BY <3>6, <3>9 DEF IdsTo
    <3> QED
      BY <1>1, <1>2, <1>3, <1>5, <3>1, <3>2, <3>5, <3>7, <3>8, <3>9, <3>10 DEF InvocationInv
  <2>6. /\ \A k \in Invocations \ {i} : InvocationInv(k)'
        /\ \A s \in Steps : StepInv(s)'
    BY <1>2, <1>3, <2>1, <2>3, WorkRest DEF Free
  <2> QED
    BY <1>5, <2>4, <2>5, <2>6 DEF IInv
<1>7. ASSUME NEW l \in {"handler", "crashed"}, inv' = [inv EXCEPT ![i].pc = l]
      PROVE  IInv'
  <2>1. /\ inv'[i] = [inv[i] EXCEPT !.pc = l]
        /\ \A k \in Invocations \ {i} : inv'[k] = inv[k]
    BY <1>2, <1>7
  <2>2. /\ inv'[i] \in Running /\ inv'[i] # Free /\ inv'[i].pc = l /\ inv'[i].records = inv[i].records
        /\ inv'[i].pos = inv[i].pos /\ inv'[i].succeeded = inv[i].succeeded
        /\ inv'[i].failures = inv[i].failures
    BY <1>2, <2>1 DEF Running, Free
  <2>3. handled' = handled /\ begun \subseteq begun' /\ begun' \subseteq Steps
        /\ (l = "handler" => Record(i).id \in begun')
    BY <1>1, <1>2, <1>3, <1>4, <2>2 DEF InvocationInv, TypeOK
  <2>4. TypeOK'
    <3>1. ServerlessTypeOK'
      BY <1>1, <1>2, <1>7, <2>1, <2>2 DEF TypeOK, ServerlessTypeOK
    <3> QED
      BY <1>1, <1>3, <1>5, <2>3, <3>1 DEF TypeOK
  <2>5. InvocationInv(i)'
    <3>1. Ids(i)' = Ids(i) /\ IdsTo(i, inv[i].pos - 1)' = IdsTo(i, inv[i].pos - 1)
      BY <2>2 DEF Ids, IdsTo
    <3>2. Record(i)' = Record(i)
      BY <2>2 DEF Record
    <3> QED
      BY <1>1, <1>2, <1>3, <1>5, <2>2, <2>3, <3>1, <3>2 DEF InvocationInv
  <2>6. /\ \A k \in Invocations \ {i} : InvocationInv(k)'
        /\ \A s \in Steps : StepInv(s)'
    BY <1>2, <1>3, <2>1, <2>2, <2>3, WorkRest
  <2> QED
    BY <1>5, <2>4, <2>5, <2>6 DEF IInv
<1> QED
  BY <1>1, <1>6, <1>7, WorkCases

-----------------------------------------------------------------------------
(* The server and the client.                                               *)

LEMMA DepsAreSteps ==
    ASSUME TypeOK, NEW s \in Steps
    PROVE  DependsOn(def, s) \subseteq Steps
<1>1. def # None /\ Steps = JobIDs(def) \cup CallbackIDs(def)
  BY DEF Steps, StepIDs
<1>2. CASE s[1] \in CallbackNames
  BY <1>1, <1>2 DEF DependsOn, CallbackNames
<1>3. CASE s[1] = "step" /\ s[2] > 0
  <2>1. s \in JobIDs(def)
    <3>1. ASSUME s \in CallbackIDs(def) PROVE FALSE
      <4>1. PICK k \in DOMAIN def.callbacks : s = <<k, 0>>
        BY <3>1 DEF CallbackIDs
      <4>2. s[2] = 0
        BY <4>1
      <4> QED
        BY <1>3, <4>2
    <3> QED
      BY <1>1, <3>1
  <2>2. PICK k \in 0..Len(def.jobs) - 1 : s = <<IF def.type = "chain" THEN "step" ELSE "job", k>>
    BY <2>1 DEF JobIDs
  <2>3. def.type = "chain" /\ s[2] = k
    BY <1>3, <2>2
  <2>4. k - 1 \in 0..Len(def.jobs) - 1
    BY <1>1, <1>3, <2>3, DefFacts
  <2>5. <<"step", k - 1>> \in JobIDs(def)
    BY <2>3, <2>4 DEF JobIDs
  <2>6. DependsOn(def, s) = {<<"step", k - 1>>}
    BY <1>3, <2>3 DEF DependsOn, CallbackNames
  <2> QED
    BY <1>1, <2>5, <2>6
<1>4. CASE s[1] \notin CallbackNames /\ ~(s[1] = "step" /\ s[2] > 0)
  BY <1>4 DEF DependsOn
<1> QED
  BY <1>2, <1>3, <1>4

\* Dependencies that have ended stay as they ended.
LEMMA ReadyIsStable ==
    ASSUME TypeOK, NEW s \in Steps, Ready(s), def' = def,
           \A d \in Steps : step[d] \in {"completed", "failed"} => step'[d] = step[d]
    PROVE  Ready(s)'
<1>1. \A d \in DependsOn(def, s) : step[d] \in {"completed", "failed"}
  BY DEF Ready
<1>2. \A d \in DependsOn(def, s) : step'[d] = step[d]
  BY <1>1, DepsAreSteps
<1>3. {step[d] : d \in DependsOn(def, s)}' = {step[d] : d \in DependsOn(def, s)}
  BY <1>2
<1> QED
  BY <1>3 DEF Ready

LEMMA CreateInv == ASSUME IInv, NEW d \in Defs, CreateWorkflow(d) PROVE IInv'
<1>1. Steps = {} /\ TypeOK /\ Steps' = StepIDs(d) /\ d # None
  BY PushAssumption DEF CreateWorkflow, Steps, IInv
<1>2. TypeOK'
  <2>1. ServerlessTypeOK'
    BY <1>1 DEF TypeOK, ServerlessTypeOK, CreateWorkflow, serverlessVars
  <2>2. step' \in [Steps' -> StepStates] /\ tries' \in [Steps' -> 0..MaxTries]
        /\ owner' \in [Steps' -> Invocations \cup {None}]
    BY <1>1, PushAssumption DEF CreateWorkflow, StepStates
  <2> QED
    BY <1>1, <2>1, <2>2 DEF TypeOK, CreateWorkflow, historyVars
<1>3. ASSUME NEW i \in Invocations PROVE InvocationInv(i)'
  <2>1. InvocationInv(i) /\ inv' = inv /\ begun' = begun /\ handled' = handled
    BY DEF IInv, CreateWorkflow, serverlessVars, historyVars
  <2>2. inv[i] # Free => Ids(i) = {}
    BY <1>1, <2>1 DEF InvocationInv
  <2>3. Ids(i)' = Ids(i) /\ Record(i)' = Record(i) /\ \A k : IdsTo(i, k)' = IdsTo(i, k)
    BY <2>1 DEF Ids, Record, IdsTo
  <2> QED
    BY <2>1, <2>2, <2>3 DEF InvocationInv, Ids, Record, IdsTo
<1>4. ASSUME NEW s \in Steps' PROVE StepInv(s)'
  <2>1. step'[s] = "waiting" /\ owner'[s] = None /\ tries'[s] = 0
    BY <1>1 DEF CreateWorkflow
  <2> QED
    BY <2>1, PushAssumption DEF StepInv
<1> QED
  BY <1>2, <1>3, <1>4 DEF IInv

\* A change of the steps that leaves invocations and history alone.
LEMMA StepsChange ==
    ASSUME IInv, UNCHANGED <<def, inv, begun, handled>>,
           \A s \in Steps : step[s] # "waiting" => step'[s] # "waiting"
    PROVE  \A i \in Invocations : InvocationInv(i)'
<1> SUFFICES ASSUME NEW i \in Invocations PROVE InvocationInv(i)'
  OBVIOUS
<1>1. InvocationInv(i) /\ Steps' = Steps
  BY DEF IInv, Steps
<1> QED
  BY <1>1 DEF InvocationInv, Ids, Record, IdsTo

LEMMA RegisterInv ==
    ASSUME IInv, NEW t \in Types, Register(t), UNCHANGED pushVars
    PROVE  IInv'
<1>1. UNCHANGED <<def, step, tries, owner, begun, handled, inv>> /\ handlers' = handlers \cup {t}
  BY DEF Register, pushVars, historyVars
<1>2. Steps' = Steps
  BY <1>1 DEF Steps
<1>3. TypeOK'
  BY <1>1, <1>2 DEF IInv, TypeOK, ServerlessTypeOK
<1>4. \A i \in Invocations : InvocationInv(i)'
  BY <1>1, StepsChange
<1>5. ASSUME NEW s \in Steps PROVE StepInv(s)'
  BY <1>1 DEF IInv, StepInv, Ids, Ready
<1> QED
  BY <1>2, <1>3, <1>4, <1>5 DEF IInv

LEMMA CancelInv == ASSUME IInv, CancelWorkflow PROVE IInv'
<1>1. /\ TypeOK /\ UNCHANGED <<def, tries, begun, handled, inv, handlers>> /\ Steps' = Steps
      /\ step' = [s \in Steps |-> IF step[s] \in Terminal THEN step[s] ELSE "cancelled"]
      /\ owner' = [s \in Steps |-> None]
  BY DEF IInv, CancelWorkflow, serverlessVars, historyVars, Steps
<1>2. TypeOK'
  <2>1. step' \in [Steps -> StepStates] /\ owner' \in [Steps -> Invocations \cup {None}]
    BY <1>1 DEF TypeOK, StepStates, Terminal
  <2> QED
    BY <1>1, <2>1 DEF TypeOK, ServerlessTypeOK
<1>3. \A i \in Invocations : InvocationInv(i)'
  <2>1. \A s \in Steps : step[s] # "waiting" => step'[s] # "waiting"
    BY <1>1 DEF Terminal
  <2> QED
    BY <1>1, <2>1, StepsChange
<1>4. ASSUME NEW s \in Steps PROVE StepInv(s)'
  <2>1. owner'[s] = None /\ step'[s] \in Terminal /\ (step'[s] # "cancelled" => step'[s] = step[s])
    BY <1>1 DEF Terminal
  <2>2. \A d \in Steps : step[d] \in {"completed", "failed"} => step'[d] = step[d]
    BY <1>1 DEF Terminal
  <2>3. step'[s] \in {"completed", "failed"} => Ready(s)'
    BY <1>1, <2>1, <2>2, ReadyIsStable DEF IInv, StepInv
  <2> QED
    BY <1>1, <2>1, <2>3 DEF IInv, StepInv, Terminal
<1> QED
  BY <1>1, <1>2, <1>3, <1>4 DEF IInv

LEMMA ReleaseInv == ASSUME IInv, NEW s \in Steps, Release(s) PROVE IInv'
<1>1. /\ TypeOK /\ UNCHANGED <<def, tries, owner, begun, handled, inv, handlers>> /\ Steps' = Steps
      /\ step[s] = "waiting" /\ Ready(s) /\ step' = [step EXCEPT ![s] = "queued"]
  BY DEF IInv, Release, serverlessVars, historyVars, Steps
<1>2. step'[s] = "queued" /\ \A x \in Steps \ {s} : step'[x] = step[x]
  BY <1>1 DEF TypeOK
<1>3. TypeOK'
  BY <1>1 DEF TypeOK, ServerlessTypeOK, StepStates
<1>4. \A i \in Invocations : InvocationInv(i)'
  BY <1>1, <1>2, StepsChange
<1>5. ASSUME NEW x \in Steps PROVE StepInv(x)'
  <2>1. Ready(x) => Ready(x)'
    BY <1>1, <1>2, ReadyIsStable
  <2>2. StepInv(x) /\ StepInv(s)
    BY DEF IInv
  <2>3. CASE x = s
    BY <1>1, <1>2, <2>1, <2>2, <2>3 DEF StepInv
  <2>4. CASE x # s
    <3>1. step'[x] = step[x]
      BY <1>2, <2>4
    <3> QED
      BY <1>1, <2>1, <2>2, <3>1 DEF StepInv, Ids
  <2> QED
    BY <2>3, <2>4
<1> QED
  BY <1>1, <1>3, <1>4, <1>5 DEF IInv

LEMMA DeliverInv ==
    ASSUME IInv, NEW i \in Invocations, NEW kind \in {"push", "sqs"}, NEW q \in Batch, Deliver(i, kind, q)
    PROVE  IInv'
<1> DEFINE recs == [n \in DOMAIN q |-> [id |-> q[n], type |-> StepType(def, q[n])]]
           Sent(s) == \E n \in DOMAIN q : q[n] = s
<1>1. PICK b \in 1..MaxBatch : q \in [1..b -> Queue]
  BY DEF Batch
<1>2. \A m, n \in DOMAIN q : m # n => q[m] # q[n]
  BY DEF Batch
<1>3. /\ TypeOK /\ UNCHANGED <<def, begun, handled, handlers>> /\ Steps' = Steps
      /\ inv[i] = Free
      /\ inv' = [inv EXCEPT ![i] = [pc |-> "next", kind |-> kind, records |-> recs, pos |-> 1,
                                   failures |-> {}, retryable |-> TRUE, succeeded |-> {}]]
      /\ step' = [s \in Steps |-> IF Sent(s) THEN "leased" ELSE step[s]]
      /\ tries' = [s \in Steps |-> IF Sent(s) THEN tries[s] + 1 ELSE tries[s]]
      /\ owner' = [s \in Steps |-> IF Sent(s) THEN i ELSE owner[s]]
  BY DEF IInv, Deliver, Invoke, historyVars, Steps
<1>4. b \in Nat /\ b >= 1 /\ DOMAIN q = 1..b
  BY <1>1, PushAssumption
<1>5. \A n \in DOMAIN q : q[n] \in Steps /\ step[q[n]] = "queued"
  BY <1>1 DEF Queue
<1>6. recs \in Seq([id : Jobs, type : JobTypes]) /\ DOMAIN recs = 1..b
  <2>1. \A n \in 1..b : recs[n] \in [id : Jobs, type : JobTypes]
    BY <1>3, <1>4, <1>5, StepsAreJobs, StepTypeOK
  <2>2. recs \in [1..b -> [id : Jobs, type : JobTypes]]
    BY <1>4, <2>1
  <2> DEFINE R == [id : Jobs, type : JobTypes]
  <2>3. recs \in [1..b -> R] /\ b \in Nat
    BY <1>4, <2>2
  <2> HIDE DEF recs, R
  <2>4. recs \in Seq(R) /\ DOMAIN recs = 1..b
    BY <2>3, SeqDef
  <2> QED
    BY <2>4 DEF R
<1>7. \A n \in DOMAIN q : recs[n].id = q[n]
  OBVIOUS
<1>8. \A s : Sent(s) => s \in Steps /\ step[s] = "queued"
  BY <1>5
<1> HIDE DEF recs, Sent
<1>9. /\ inv'[i] = [pc |-> "next", kind |-> kind, records |-> recs, pos |-> 1,
                    failures |-> {}, retryable |-> TRUE, succeeded |-> {}]
      /\ \A k \in Invocations \ {i} : inv'[k] = inv[k]
  BY <1>3 DEF TypeOK, ServerlessTypeOK
<1>10. inv'[i] # Free /\ inv'[i] \in Running
  BY <1>6, <1>9 DEF Free, Running
<1>11. TypeOK'
  <2>1. ServerlessTypeOK'
    <3>1. inv' \in [Invocations -> {Free} \cup Running]
      BY <1>3, <1>10 DEF TypeOK, ServerlessTypeOK
    <3>2. inv'[i].pos \in DOMAIN inv'[i].records
      BY <1>4, <1>6, <1>9
    <3> QED
      BY <1>3, <1>9, <3>1, <3>2 DEF TypeOK, ServerlessTypeOK
  <2>2. step' \in [Steps -> StepStates] /\ owner' \in [Steps -> Invocations \cup {None}]
    BY <1>3 DEF TypeOK, StepStates
  <2>3. tries' \in [Steps -> 0..MaxTries]
    <3>1. ASSUME NEW s \in Steps PROVE (IF Sent(s) THEN tries[s] + 1 ELSE tries[s]) \in 0..MaxTries
      BY <1>3, <1>8, PushAssumption DEF TypeOK, IInv, StepInv
    <3> QED
      BY <1>3, <3>1
  <2> QED
    BY <1>3, <2>1, <2>2, <2>3 DEF TypeOK
<1>12. InvocationInv(i)'
  <2>1. Ids(i)' = {q[n] : n \in DOMAIN q}
    BY <1>4, <1>6, <1>7, <1>9 DEF Ids
  <2>2. \A s \in Ids(i)' : s \in Steps /\ step'[s] # "waiting"
    BY <1>3, <1>5, <2>1 DEF Sent
  <2>3. IdsTo(i, inv[i].pos - 1)' = {}
    BY <1>9 DEF IdsTo
  <2>4. \A m, n \in DOMAIN inv'[i].records : m # n => inv'[i].records[m].id # inv'[i].records[n].id
    BY <1>2, <1>4, <1>6, <1>7, <1>9
  <2> QED
    BY <1>3, <1>9, <2>2, <2>3, <2>4 DEF InvocationInv
<1>13. ASSUME NEW k \in Invocations \ {i} PROVE InvocationInv(k)'
  <2>1. InvocationInv(k) /\ inv'[k] = inv[k]
    BY <1>9 DEF IInv
  <2>2. \A s \in Steps : step[s] # "waiting" => step'[s] # "waiting"
    BY <1>3
  <2> QED
    BY <1>3, <2>1, <2>2 DEF InvocationInv, Ids, IdsTo, Record
<1>14. ASSUME NEW s \in Steps PROVE StepInv(s)'
  <2>1. StepInv(s) /\ owner[s] \in Invocations \cup {None}
    BY <1>3 DEF IInv, TypeOK
  <2>2. \A d \in Steps : step[d] \in {"completed", "failed"} => step'[d] = step[d]
    BY <1>3, <1>8
  <2>3. Ready(s) => Ready(s)'
    BY <1>3, <2>2, ReadyIsStable
  <2>4. CASE Sent(s)
    <3>1. step'[s] = "leased" /\ owner'[s] = i
      BY <1>3, <2>4
    <3>2. s \in Ids(i)'
      BY <1>4, <1>6, <1>7, <1>9, <2>4 DEF Ids, Sent
    <3>3. Ready(s)
      BY <1>8, <2>1, <2>4 DEF StepInv
    <3> QED
      BY <1>10, <2>3, <3>1, <3>2, <3>3 DEF StepInv
  <2>5. CASE ~Sent(s)
    <3>1. step'[s] = step[s] /\ owner'[s] = owner[s] /\ tries'[s] = tries[s]
      BY <1>3, <2>5
    <3>2. owner[s] # None => inv'[owner[s]] = inv[owner[s]]
      BY <1>3, <1>9, <2>1 DEF StepInv
    <3> QED
      BY <1>3, <2>1, <2>3, <3>1, <3>2 DEF StepInv, Ids
  <2> QED
    BY <2>4, <2>5
<1> QED
  BY <1>3, <1>11, <1>12, <1>13, <1>14 DEF IInv

\* The server settles what it waits for; the invocation ends or goes on.
LEMMA SettleInv ==
    ASSUME IInv, NEW i \in Invocations, NEW again, NEW done, Settle(i, again, done),
           \A s \in Owned(i) \cap done : s \in handled,
           handlers' = handlers, inv' = inv \/ inv' = [inv EXCEPT ![i] = Free]
    PROVE  IInv'
<1>1. /\ TypeOK /\ UNCHANGED <<def, tries, begun, handled>> /\ Steps' = Steps
  BY DEF IInv, Settle, historyVars, Steps
<1>2. ASSUME NEW s \in Steps
      PROVE  /\ owner'[s] = IF owner[s] = i THEN None ELSE owner[s]
             /\ s \notin Owned(i) => step'[s] = step[s]
             /\ s \in Owned(i) => step'[s] \in {"completed", "queued", "failed"}
             /\ s \in Owned(i) /\ step'[s] = "completed" => s \in done
             /\ s \in Owned(i) /\ step'[s] = "queued" => tries[s] < MaxTries
  BY DEF Settle
<1>3. \A s \in Steps : s \in Owned(i) <=> owner[s] = i
  BY DEF Owned
<1>4. i # None
  BY PushAssumption
<1>5. \A s \in Owned(i) : step[s] = "leased"
  BY <1>4 DEF IInv, StepInv, Owned
<1>6. TypeOK'
  <2>1. step' \in [Steps -> StepStates]
    <3>1. \A s \in Steps : step'[s] \in StepStates
      BY <1>1, <1>2 DEF TypeOK, StepStates, Terminal
    <3>2. step' = [s \in Steps |-> step'[s]]
      BY DEF Settle
    <3> QED
      BY <3>1, <3>2
  <2>2. owner' \in [Steps -> Invocations \cup {None}]
    BY <1>1 DEF Settle, TypeOK
  <2>3. ServerlessTypeOK'
    <3>1. CASE inv' = inv
      BY <1>1, <3>1 DEF TypeOK, ServerlessTypeOK
    <3>2. CASE inv' = [inv EXCEPT ![i] = Free]
      <4>1. inv' \in [Invocations -> {Free} \cup Running]
        BY <1>1, <3>2 DEF TypeOK, ServerlessTypeOK
      <4>2. Free.pc = "free"
        BY DEF Free
      <4> QED
        BY <1>1, <3>2, <4>1, <4>2 DEF TypeOK, ServerlessTypeOK
    <3> QED
      BY <3>1, <3>2
  <2> QED
    BY <1>1, <2>1, <2>2, <2>3 DEF TypeOK
<1>7. \A k \in Invocations : inv'[k] = inv[k] \/ (k = i /\ inv'[k] = Free)
  BY <1>1 DEF TypeOK, ServerlessTypeOK
<1>8. \A s \in Steps : step[s] # "waiting" => step'[s] # "waiting"
  BY <1>2
<1>9. ASSUME NEW k \in Invocations PROVE InvocationInv(k)'
  <2>1. InvocationInv(k)
    BY DEF IInv
  <2>2. CASE inv'[k] = inv[k]
    BY <1>1, <1>8, <2>1, <2>2 DEF InvocationInv, Ids, IdsTo, Record
  <2>3. CASE inv'[k] = Free
    BY <2>3 DEF InvocationInv
  <2> QED
    BY <1>7, <2>2, <2>3
<1>10. ASSUME NEW s \in Steps PROVE StepInv(s)'
  <2>1. StepInv(s) /\ owner[s] \in Invocations \cup {None}
    BY <1>1 DEF IInv, TypeOK
  <2>2. \A d \in Steps : step[d] \in {"completed", "failed"} => step'[d] = step[d]
    BY <1>2, <1>5
  <2>3. Ready(s) => Ready(s)'
    BY <1>1, <2>2, ReadyIsStable
  <2>4. CASE s \in Owned(i)
    <3>1. owner'[s] = None /\ step'[s] \in {"completed", "queued", "failed"} /\ Ready(s)
      BY <1>2, <1>3, <1>5, <2>1, <2>4 DEF StepInv
    <3>2. step'[s] = "completed" => s \in handled
      BY <1>2, <2>4
    <3>3. step'[s] = "queued" => tries[s] < MaxTries
      BY <1>2, <2>4
    <3> QED
      BY <1>1, <2>3, <3>1, <3>2, <3>3 DEF StepInv
  <2>5. CASE s \notin Owned(i)
    <3>1. owner'[s] = owner[s] /\ step'[s] = step[s] /\ owner[s] # i
      BY <1>2, <1>3, <2>5
    <3>2. owner[s] # None => inv'[owner[s]] = inv[owner[s]]
      BY <1>7, <2>1, <3>1
    <3> QED
      BY <1>1, <2>1, <2>3, <3>1, <3>2 DEF StepInv, Ids
  <2> QED
    BY <2>4, <2>5
<1> QED
  BY <1>1, <1>6, <1>9, <1>10 DEF IInv

\* What a report leaves out of its failures has been handled.
LEMMA ReportedIsHandled ==
    ASSUME IInv, NEW i \in Invocations, inv[i].pc = "replied"
    PROVE  Owned(i) \ inv[i].failures \subseteq handled
<1>1. InvocationInv(i) /\ inv[i] # Free /\ i # None
  BY RunningFacts, PushAssumption DEF IInv
<1>2. \A s \in Owned(i) : s \in Ids(i)
  BY <1>1 DEF IInv, StepInv, Owned
<1> QED
  BY <1>1, <1>2 DEF InvocationInv

LEMMA NextInv == IInv /\ [Next]_vars => IInv'
<1> SUFFICES ASSUME IInv, [Next]_vars PROVE IInv'
  OBVIOUS
<1>1. ASSUME NEW i \in Invocations, Report(i) PROVE IInv'
  <2>1. \A s \in Owned(i) \cap (Owned(i) \ inv[i].failures) : s \in handled
    BY <1>1, ReportedIsHandled DEF Report
  <2>2. handlers' = handlers /\ inv' = [inv EXCEPT ![i] = Free]
    BY <1>1 DEF Report, End
  <2>3. Settle(i, IF inv[i].retryable THEN inv[i].failures ELSE {}, Owned(i) \ inv[i].failures)
    BY <1>1 DEF Report
  <2> QED
    BY <2>1, <2>2, <2>3, SettleInv
<1>2. ASSUME NEW i \in Invocations, Lost(i) \/ StopWaiting(i) PROVE IInv'
  <2>1. Settle(i, Owned(i), {}) /\ handlers' = handlers /\ (inv' = inv \/ inv' = [inv EXCEPT ![i] = Free])
    BY <1>2 DEF Lost, StopWaiting, End, serverlessVars
  <2> QED
    BY <2>1, SettleInv
<1>3. CASE UNCHANGED vars
  <2>1. UNCHANGED <<handlers, inv, def, step, tries, owner, begun, handled>> /\ Steps' = Steps
    BY <1>3 DEF vars, serverlessVars, pushVars, historyVars, Steps
  <2>2. TypeOK'
    BY <2>1 DEF IInv, TypeOK, ServerlessTypeOK
  <2>3. \A i \in Invocations : InvocationInv(i)'
    BY <2>1, StepsChange
  <2>4. ASSUME NEW s \in Steps PROVE StepInv(s)'
    BY <2>1 DEF IInv, StepInv, Ids, Ready
  <2> QED
    BY <2>1, <2>2, <2>3, <2>4 DEF IInv
<1> QED
  BY <1>1, <1>2, <1>3, RegisterInv, CreateInv, CancelInv, ReleaseInv, DeliverInv, WorkInv DEF Next

\* The invariant of deliveries: reports are exact so far, leases have their invocation,
\* and what was released has its dependencies behind it.
THEOREM PushInvariant == Spec => []IInv
BY IInvInit, NextInv, PTL DEF Spec

\* HandleSQS and the HTTP handlers never lose their place in a batch, and no step has more
\* deliveries than it may.
THEOREM PushTypes == Spec => []TypeOK
<1>1. IInv => TypeOK
  BY DEF IInv
<1> QED
  BY <1>1, PushInvariant, PTL

\* A completed step was handled, through crashes, timeouts and second deliveries.
THEOREM CompletedStepsWereHandled == Spec => []CompletedWasHandled
<1>1. IInv => CompletedWasHandled
  BY DEF IInv, StepInv, CompletedWasHandled
<1> QED
  BY <1>1, PushInvariant, PTL

\* HandleSQS reports exactly the records whose handler did not succeed.
THEOREM BatchReportsAreExact == Spec => []BatchReportIsExact
<1>1. IInv => BatchReportIsExact
  <2> SUFFICES ASSUME IInv, NEW i \in Invocations, inv[i].pc = "replied"
               PROVE  inv[i].failures = Ids(i) \ inv[i].succeeded
    BY DEF BatchReportIsExact, Ids
  <2>1. InvocationInv(i) /\ inv[i] # Free
    BY RunningFacts DEF IInv
  <2> QED
    BY <2>1 DEF InvocationInv
<1> QED
  BY <1>1, PushInvariant, PTL

-----------------------------------------------------------------------------
(* Push implements WorkflowSpec.                                            *)

\* The elements of a definition and the steps on the wire correspond.
LEMMA ElementForm ==
    ASSUME TypeOK, def # None
    PROVE  /\ Abs!Elements(def) = {<<"job", n>> : n \in 1..Len(def.jobs)} \cup CallbackIDs(def)
           /\ \A x \in Abs!Elements(def) :
                 \/ \E n \in 1..Len(def.jobs) :
                       /\ x = <<"job", n>>
                       /\ StepOf(x) = <<IF def.type = "chain" THEN "step" ELSE "job", n - 1>>
                 \/ /\ def.type = "batch" /\ x \in CallbackIDs(def) /\ StepOf(x) = x
                    /\ \E c \in DOMAIN def.callbacks : c \in CallbackNames /\ x = <<c, 0>>
<1>1. Abs!Elements(def) = {<<"job", n>> : n \in 1..Len(def.jobs)} \cup CallbackIDs(def)
  BY DEF Abs!Elements, CallbackIDs
<1>2. ASSUME NEW n \in 1..Len(def.jobs)
      PROVE  StepOf(<<"job", n>>) = <<IF def.type = "chain" THEN "step" ELSE "job", n - 1>>
  BY DEF StepOf
<1>3. ASSUME NEW x \in CallbackIDs(def)
      PROVE  /\ def.type = "batch" /\ StepOf(x) = x
             /\ \E c \in DOMAIN def.callbacks : c \in CallbackNames /\ x = <<c, 0>>
  <2>1. def.type = "batch"
    BY DEF CallbackIDs
  <2>2. PICK c \in DOMAIN def.callbacks : x = <<c, 0>>
    BY <2>1 DEF CallbackIDs
  <2>3. c \in CallbackNames /\ c # "job" /\ x[1] = c
    BY <2>2, DefFacts DEF CallbackNames
  <2> QED
    BY <2>1, <2>2, <2>3 DEF StepOf
<1> QED
  BY <1>1, <1>2, <1>3

LEMMA StepOfIsBijection ==
    ASSUME TypeOK, def # None
    PROVE  /\ \A x \in Abs!Elements(def) : StepOf(x) \in Steps
           /\ \A s \in Steps : \E x \in Abs!Elements(def) : StepOf(x) = s
           /\ \A x, y \in Abs!Elements(def) : StepOf(x) = StepOf(y) => x = y
<1>1. Steps = JobIDs(def) \cup CallbackIDs(def) /\ Len(def.jobs) \in Nat
  BY DefFacts DEF StepIDs
<1>2. ASSUME NEW x \in Abs!Elements(def) PROVE StepOf(x) \in Steps
  <2>1. ASSUME NEW n \in 1..Len(def.jobs),
               StepOf(x) = <<IF def.type = "chain" THEN "step" ELSE "job", n - 1>>
        PROVE  StepOf(x) \in JobIDs(def)
    <3>1. n - 1 \in 0..Len(def.jobs) - 1
      BY <1>1
    <3> QED
      BY <2>1, <3>1 DEF JobIDs
  <2> QED
    BY <1>1, <2>1, ElementForm
<1>3. ASSUME NEW s \in Steps PROVE \E x \in Abs!Elements(def) : StepOf(x) = s
  <2>1. CASE s \in JobIDs(def)
    <3>1. PICK k \in 0..Len(def.jobs) - 1 : s = <<IF def.type = "chain" THEN "step" ELSE "job", k>>
      BY <2>1 DEF JobIDs
    <3>2. k + 1 \in 1..Len(def.jobs) /\ (k + 1) - 1 = k
      BY <1>1
    <3>3. <<"job", k + 1>> \in Abs!Elements(def)
      BY <3>2, ElementForm
    <3>4. StepOf(<<"job", k + 1>>) = s
      BY <3>1, <3>2 DEF StepOf
    <3> QED
      BY <3>3, <3>4
  <2>2. CASE s \in CallbackIDs(def)
    <3>1. s \in Abs!Elements(def)
      BY <2>2, ElementForm
    <3>2. PICK c \in DOMAIN def.callbacks : s = <<c, 0>>
      BY <2>2 DEF CallbackIDs
    <3>3. s[1] # "job"
      BY <3>2, DefFacts DEF CallbackNames
    <3> QED
      BY <3>1, <3>3 DEF StepOf
  <2> QED
    BY <1>1, <2>1, <2>2
<1>4. ASSUME NEW x \in Abs!Elements(def), NEW y \in Abs!Elements(def), StepOf(x) = StepOf(y)
      PROVE  x = y
  <2> DEFINE kind == IF def.type = "chain" THEN "step" ELSE "job"
             IsJob(z, n) == z = <<"job", n>> /\ StepOf(z) = <<kind, n - 1>>
             IsCallback(z) == StepOf(z) = z /\ \E c \in CallbackNames : z = <<c, 0>>
  <2>1. (\E n \in 1..Len(def.jobs) : IsJob(x, n)) \/ IsCallback(x)
    BY ElementForm
  <2>2. (\E n \in 1..Len(def.jobs) : IsJob(y, n)) \/ IsCallback(y)
    BY ElementForm
  <2>3. ASSUME NEW m \in 1..Len(def.jobs), IsJob(x, m), NEW n \in 1..Len(def.jobs), IsJob(y, n)
        PROVE  x = y
    <3>1. m - 1 = n - 1
      BY <1>4, <2>3
    <3>2. m = n
      BY <1>1, <3>1
    <3> QED
      BY <2>3, <3>2
  <2>4. ASSUME NEW z, NEW w, NEW m \in 1..Len(def.jobs), IsJob(z, m), IsCallback(w), StepOf(z) = StepOf(w)
        PROVE  FALSE
    <3>1. PICK c \in CallbackNames : w = <<c, 0>>
      BY <2>4
    <3>2. <<kind, m - 1>> = <<c, 0>>
      BY <2>4, <3>1
    <3>3. kind = c
      BY <3>2
    <3> QED
      BY <3>3 DEF CallbackNames
  <2>5. IsCallback(x) /\ IsCallback(y) => x = y
    BY <1>4
  <2> HIDE DEF IsJob, IsCallback
  <2> QED
    BY <1>4, <2>1, <2>2, <2>3, <2>4, <2>5
<1> QED
  BY <1>2, <1>3, <1>4

LEMMA StatusForm ==
    TypeOK /\ def # None =>
        /\ Status = [x \in Abs!Elements(def) |-> StatusOf(StepOf(x))]
        /\ DOMAIN Status = Abs!Elements(def)
        /\ \A x \in Abs!Elements(def) : Status[x] = StatusOf(StepOf(x)) /\ StepOf(x) \in Steps
<1> SUFFICES ASSUME TypeOK, def # None
             PROVE  /\ Status = [x \in Abs!Elements(def) |-> StatusOf(StepOf(x))]
                    /\ DOMAIN Status = Abs!Elements(def)
                    /\ \A x \in Abs!Elements(def) : Status[x] = StatusOf(StepOf(x)) /\ StepOf(x) \in Steps
  OBVIOUS
<1>1. Status = [x \in Abs!Elements(def) |-> StatusOf(StepOf(x))]
  BY ElementForm DEF Status
<1> QED
  BY <1>1, StepOfIsBijection

LEMMA StatusValues ==
    ASSUME TypeOK, NEW s \in Steps
    PROVE  /\ StatusOf(s) \in {"pending", "active"} \cup Abs!Ended
           /\ StatusOf(s) \in Abs!Ended <=> step[s] \in Terminal
           /\ StatusOf(s) \in Abs!Ended => StatusOf(s) = step[s]
BY DEF StatusOf, Terminal, Abs!Ended

\* Dependencies on the wire mean what the definition says.
LEMMA ReadyMayBegin ==
    ASSUME TypeOK, def # None, NEW x \in Abs!Elements(def), Ready(StepOf(x))
    PROVE  Abs!MayBegin(x)
<1>1. Len(def.jobs) \in Nat
  BY DefFacts
<1>2. ASSUME NEW n \in 1..Len(def.jobs)
      PROVE  <<"job", n>> \in Abs!Elements(def)
             /\ Abs!Job(n) = StatusOf(<<IF def.type = "chain" THEN "step" ELSE "job", n - 1>>)
  <2>1. <<"job", n>> \in Abs!Elements(def)
    BY ElementForm
  <2>2. StepOf(<<"job", n>>) = <<IF def.type = "chain" THEN "step" ELSE "job", n - 1>>
    BY DEF StepOf
  <2> QED
    BY <2>1, <2>2, StatusForm DEF Abs!Job
<1>3. ASSUME NEW n \in 1..Len(def.jobs), x = <<"job", n>>,
             StepOf(x) = <<IF def.type = "chain" THEN "step" ELSE "job", n - 1>>
      PROVE  Abs!MayBegin(x)
  <2>1. ASSUME def.type = "chain", n > 1 PROVE Abs!Job(n - 1) = "completed"
    <3>1. StepOf(x) = <<"step", n - 1>> /\ n - 1 \in 1..Len(def.jobs)
      BY <1>1, <1>3, <2>1
    <3>2. StepOf(x)[1] = "step" /\ StepOf(x)[2] = n - 1
      BY <3>1
    <3>3. DependsOn(def, StepOf(x)) = {<<"step", (n - 1) - 1>>}
      BY <2>1, <3>1, <3>2 DEF DependsOn, CallbackNames
    <3>4. step[<<"step", (n - 1) - 1>>] = "completed"
      BY <3>2, <3>3 DEF Ready
    <3>5. Abs!Job(n - 1) = StatusOf(<<"step", (n - 1) - 1>>)
      BY <1>2, <2>1, <3>1
    <3> QED
      BY <3>4, <3>5 DEF StatusOf, Terminal
  <2>2. x[1] = "job" /\ x[2] = n
    BY <1>3
  <2> QED
    BY <2>1, <2>2 DEF Abs!MayBegin
<1>4. ASSUME NEW c \in CallbackNames, x = <<c, 0>>, StepOf(x) = x, def.type = "batch"
      PROVE  Abs!MayBegin(x)
  <2>1. x[1] = c
    BY <1>4
  <2>2. DependsOn(def, StepOf(x)) = JobIDs(def)
    BY <1>4, <2>1 DEF DependsOn, CallbackNames
  <2> DEFINE wire(n) == <<"job", n - 1>>
  <2>3. \A n \in 1..Len(def.jobs) : wire(n) \in JobIDs(def) /\ Abs!Job(n) = StatusOf(wire(n))
    <3>1. ASSUME NEW n \in 1..Len(def.jobs) PROVE n - 1 \in 0..Len(def.jobs) - 1
      BY <1>1
    <3> QED
      BY <1>2, <1>4, <3>1 DEF JobIDs
  <2>4. ASSUME NEW s \in JobIDs(def) PROVE \E n \in 1..Len(def.jobs) : s = wire(n)
    <3>1. PICK k \in 0..Len(def.jobs) - 1 : s = <<"job", k>>
      BY <1>4 DEF JobIDs
    <3>2. k + 1 \in 1..Len(def.jobs) /\ (k + 1) - 1 = k
      BY <1>1
    <3> QED
      BY <3>1, <3>2
  <2>5. \A n \in 1..Len(def.jobs) : step[wire(n)] \in Terminal => Abs!Job(n) = step[wire(n)]
    BY <2>3 DEF StatusOf
  <2> HIDE DEF wire
  <2>6. CASE c = "on-complete"
    <3>1. \A s \in JobIDs(def) : step[s] \in {"completed", "failed"}
      BY <1>4, <2>1, <2>2, <2>6 DEF Ready
    <3>2. \A n \in 1..Len(def.jobs) : Abs!Job(n) \in {"completed", "failed"}
      BY <2>3, <2>5, <3>1 DEF Terminal
    <3> QED
      BY <2>1, <2>6, <3>2 DEF Abs!MayBegin, Abs!AllJobs
  <2>7. CASE c = "on-success"
    <3>1. \A s \in JobIDs(def) : step[s] = "completed"
      BY <1>4, <2>1, <2>2, <2>7 DEF Ready
    <3>2. \A n \in 1..Len(def.jobs) : Abs!Job(n) \in {"completed"}
      BY <2>3, <2>5, <3>1 DEF Terminal
    <3> QED
      BY <2>1, <2>7, <3>2 DEF Abs!MayBegin, Abs!AllJobs
  <2>8. CASE c = "on-failure"
    <3>1. \E s \in JobIDs(def) : step[s] = "failed"
      BY <1>4, <2>1, <2>2, <2>8 DEF Ready
    <3>2. PICK n \in 1..Len(def.jobs) : step[wire(n)] = "failed"
      BY <2>4, <3>1
    <3>3. Abs!Job(n) = "failed"
      BY <2>5, <3>2 DEF Terminal
    <3> QED
      BY <2>1, <2>8, <3>3 DEF Abs!MayBegin
  <2> QED
    BY <2>6, <2>7, <2>8 DEF CallbackNames
<1> QED
  BY <1>3, <1>4, ElementForm

\* Steps of the same workflow, seen through the mapping.
LEMMA StatusNext ==
    ASSUME IInv, IInv', def' = def, def # None
    PROVE  /\ DOMAIN Status = Abs!Elements(def) /\ DOMAIN Status' = Abs!Elements(def)
           /\ Status = [x \in Abs!Elements(def) |-> StatusOf(StepOf(x))]
           /\ Status' = [x \in Abs!Elements(def) |-> StatusOf(StepOf(x))']
           /\ \A x \in Abs!Elements(def) : StepOf(x)' = StepOf(x) /\ StepOf(x) \in Steps
<1>1. TypeOK /\ TypeOK' /\ (def # None)'
  BY DEF IInv
<1>2. (TypeOK /\ def # None =>
        /\ Status = [x \in Abs!Elements(def) |-> StatusOf(StepOf(x))]
        /\ DOMAIN Status = Abs!Elements(def)
        /\ \A x \in Abs!Elements(def) : Status[x] = StatusOf(StepOf(x)) /\ StepOf(x) \in Steps)'
  BY StatusForm, PTL
<1>3. Abs!Elements(def)' = Abs!Elements(def)
  BY DEF Abs!Elements
<1>4. \A x \in Abs!Elements(def) : StepOf(x)' = StepOf(x)
  BY DEF StepOf
<1> QED
  BY <1>1, <1>2, <1>3, <1>4, StatusForm

\* Nothing to be seen when no step ends and no handler begins.
LEMMA Stutter ==
    ASSUME IInv, IInv', def' = def,
           \A s \in Steps : StatusOf(s)' = StatusOf(s)
    PROVE  UNCHANGED Abs!vars
<1>1. CASE def = None
  BY <1>1 DEF Status, Abs!vars
<1>2. CASE def # None
  <2>1. \A x \in Abs!Elements(def) : StatusOf(StepOf(x))' = StatusOf(StepOf(x))
    BY <1>2, StatusNext DEF StatusOf
  <2> QED
    BY <1>2, <2>1, StatusNext DEF Abs!vars
<1> QED
  BY <1>1, <1>2

LEMMA CreateRefines ==
    ASSUME IInv, IInv', NEW d \in Defs, CreateWorkflow(d)
    PROVE  Abs!Define(d)
<1>1. TypeOK /\ TypeOK' /\ def = None /\ def' = d /\ (def # None)'
  BY PushAssumption DEF IInv, CreateWorkflow
<1>2. (TypeOK /\ def # None =>
        /\ Status = [x \in Abs!Elements(def) |-> StatusOf(StepOf(x))]
        /\ DOMAIN Status = Abs!Elements(def)
        /\ \A x \in Abs!Elements(def) : Status[x] = StatusOf(StepOf(x)) /\ StepOf(x) \in Steps)'
  BY StatusForm, PTL
<1>3. Abs!Elements(def)' = Abs!Elements(d)
  BY <1>1 DEF Abs!Elements
<1>4. Steps' = StepIDs(d) /\ begun' = {}
  BY <1>1 DEF Steps, TypeOK, CreateWorkflow, historyVars
<1>5. \A s \in Steps' : StatusOf(s)' = "pending"
  BY <1>4 DEF StatusOf, CreateWorkflow, Terminal
<1>6. \A x \in Abs!Elements(d) : StatusOf(StepOf(x))' = "pending"
  <2>1. \A x \in Abs!Elements(d) : StepOf(x)' \in Steps'
    BY <1>1, <1>2, <1>3
  <2> QED
    BY <1>5, <2>1 DEF StatusOf
<1>7. Status' = [x \in Abs!Elements(d) |-> "pending"]
  BY <1>1, <1>2, <1>3, <1>6
<1> QED
  BY <1>1, <1>7 DEF Abs!Define

LEMMA CancelRefines ==
    ASSUME IInv, IInv', CancelWorkflow
    PROVE  Abs!Cancel
<1>1. def' = def /\ def # None /\ TypeOK
  BY DEF CancelWorkflow, IInv
<1>2. ASSUME NEW s \in Steps
      PROVE  StatusOf(s)' = IF StatusOf(s) \in Abs!Ended THEN StatusOf(s) ELSE "cancelled"
  <2>1. step'[s] = IF step[s] \in Terminal THEN step[s] ELSE "cancelled"
    BY DEF CancelWorkflow
  <2>2. StatusOf(s)' = step'[s]
    BY <2>1 DEF StatusOf, Terminal
  <2> QED
    BY <1>1, <2>1, <2>2, StatusValues
<1>3. \A x \in Abs!Elements(def) :
        StatusOf(StepOf(x))' = IF Status[x] \in Abs!Ended THEN Status[x] ELSE "cancelled"
  BY <1>1, <1>2, StatusNext DEF StatusOf
<1> QED
  BY <1>1, <1>3, StatusNext DEF Abs!Cancel

\* The call of a handler is the beginning of its job, unless that is behind it.
LEMMA WorkRefines ==
    ASSUME IInv, IInv', NEW i \in Invocations, Work(i)
    PROVE  UNCHANGED Abs!vars \/ \E x \in DOMAIN Status : Abs!Begin(x)
<1>0. PICK s : s = Record(i).id
  OBVIOUS
<1>1. /\ TypeOK /\ InvocationInv(i) /\ inv[i] # Free /\ inv[i].pos \in DOMAIN inv[i].records
      /\ def' = def /\ step' = step
      /\ begun' = IF inv'[i].pc = "handler" THEN begun \cup {s} ELSE begun
  BY <1>0, WorkCases, RunningFacts DEF IInv, Work
<1>2. s \in Steps /\ step[s] # "waiting" /\ def # None
  BY <1>0, <1>1 DEF InvocationInv, Ids, Record, Steps
<1>3. CASE begun' = begun \/ s \in begun \/ step[s] \in Terminal
  <2>1. \A x \in Steps : StatusOf(x)' = StatusOf(x)
    BY <1>1, <1>3 DEF StatusOf
  <2> QED
    BY <1>1, <2>1, Stutter
<1>4. CASE begun' = begun \cup {s} /\ s \notin begun /\ step[s] \notin Terminal
  <2>1. PICK x \in Abs!Elements(def) : StepOf(x) = s
    BY <1>1, <1>2, StepOfIsBijection
  <2>2. Ready(s)
    <3>1. step[s] \in {"queued", "leased"}
      BY <1>1, <1>2, <1>4 DEF TypeOK, StepStates, Terminal
    <3> QED
      BY <1>2, <3>1 DEF IInv, StepInv
  <2>3. Abs!MayBegin(x)
    BY <1>1, <1>2, <2>1, <2>2, ReadyMayBegin
  <2>4. StatusOf(s) = "pending" /\ StatusOf(s)' = "active"
    BY <1>1, <1>4 DEF StatusOf
  <2>5. \A y \in Abs!Elements(def) \ {x} : StatusOf(StepOf(y))' = StatusOf(StepOf(y))
    <3>1. ASSUME NEW y \in Abs!Elements(def) \ {x}
          PROVE  StepOf(y) # s /\ StepOf(y)' = StepOf(y)
      BY <1>1, <1>2, <2>1, StepOfIsBijection, StatusNext
    <3> QED
      BY <1>1, <1>4, <3>1 DEF StatusOf
  <2>6. StatusOf(StepOf(x))' = "active" /\ Status[x] = "pending"
    BY <1>1, <1>2, <2>1, <2>4, StatusNext DEF StatusOf
  <2>7. Status' = [Status EXCEPT ![x] = "active"]
    BY <1>1, <1>2, <2>5, <2>6, StatusNext
  <2>8. x \in DOMAIN Status
    BY <1>1, <1>2, StatusNext
  <2> QED
    BY <1>1, <2>3, <2>6, <2>7, <2>8 DEF Abs!Begin
<1> QED
  BY <1>1, <1>3, <1>4

\* What the server settles ends jobs: those that completed had begun.
LEMMA SettleRefines ==
    ASSUME IInv, IInv', NEW i \in Invocations, NEW again, NEW done, Settle(i, again, done),
           \A s \in Owned(i) \cap done : s \in handled
    PROVE  UNCHANGED Abs!vars \/ \E S \in SUBSET DOMAIN Status : Abs!End(S)
<1>1. TypeOK /\ def' = def /\ begun' = begun /\ i # None /\ Owned(i) \subseteq Steps
  BY PushAssumption DEF IInv, Settle, historyVars, Owned
<1>2. ASSUME NEW s \in Steps
      PROVE  /\ s \notin Owned(i) => step'[s] = step[s]
             /\ s \in Owned(i) => step'[s] \in {"completed", "queued", "failed"}
             /\ s \in Owned(i) /\ step'[s] = "completed" => s \in done
  BY DEF Settle
<1>3. \A s \in Owned(i) : step[s] = "leased" /\ Ready(s)
  BY <1>1 DEF IInv, StepInv, Owned
<1> DEFINE Over == {s \in Owned(i) : step'[s] \in Terminal}
<1>4. \A s \in Steps \ Over : StatusOf(s)' = StatusOf(s)
  <2>1. ASSUME NEW s \in Steps \ Over PROVE StatusOf(s)' = StatusOf(s)
    <3>1. CASE s \notin Owned(i)
      BY <1>1, <1>2, <3>1 DEF StatusOf
    <3>2. CASE s \in Owned(i)
      <4>1. step'[s] = "queued" /\ step[s] = "leased"
        BY <1>2, <1>3, <3>2 DEF Terminal
      <4> QED
        BY <1>1, <4>1 DEF StatusOf, Terminal
    <3> QED
      BY <3>1, <3>2
  <2> QED
    BY <2>1
<1>5. CASE Over = {}
  BY <1>1, <1>4, <1>5, Stutter
<1>6. CASE Over # {}
  <2>1. def # None
    BY <1>1, <1>6 DEF Steps
  <2> DEFINE S == {x \in Abs!Elements(def) : StepOf(x) \in Over}
  <2>2. S # {} /\ S \in SUBSET DOMAIN Status
    BY <1>1, <1>6, <2>1, StepOfIsBijection, StatusNext
  <2>3. ASSUME NEW x \in S PROVE Status[x] \notin Abs!Ended /\ Abs!MayBegin(x)
    <3>1. step[StepOf(x)] = "leased" /\ Ready(StepOf(x)) /\ StepOf(x) \in Steps
      BY <1>1, <1>3
    <3>2. Status[x] = StatusOf(StepOf(x))
      BY <1>1, <2>1, StatusNext
    <3>3. Abs!MayBegin(x)
      BY <1>1, <2>1, <3>1, ReadyMayBegin
    <3> QED
      BY <1>1, <3>1, <3>2, <3>3, StatusValues DEF Terminal
  <2>4. \A x \in Abs!Elements(def) \ S : Status'[x] = Status[x]
    <3>1. ASSUME NEW x \in Abs!Elements(def) \ S PROVE StatusOf(StepOf(x))' = StatusOf(StepOf(x))
      BY <1>1, <1>4, <2>1, StatusNext DEF StatusOf
    <3> QED
      BY <1>1, <2>1, <3>1, StatusNext
  <2>5. ASSUME NEW x \in S
        PROVE  Status'[x] \in IF Status[x] = "active" THEN {"completed", "failed"} ELSE {"failed"}
    <3> DEFINE s == StepOf(x)
    <3>1. s \in Owned(i) /\ s \in Steps /\ step'[s] \in {"completed", "failed"} /\ s' = s
      BY <1>1, <1>2, <2>1, StatusNext DEF Terminal
    <3>2. Status'[x] = StatusOf(s)' /\ Status[x] = StatusOf(s)
      BY <1>1, <2>1, StatusNext
    <3> HIDE DEF s
    <3>3. StatusOf(s)' = step'[s]
      BY <3>1 DEF StatusOf, Terminal
    <3>4. step'[s] = "completed" => s \in begun
      BY <1>1, <1>2, <3>1 DEF TypeOK
    <3>5. s \in begun => StatusOf(s) = "active"
      BY <1>3, <3>1 DEF StatusOf, Terminal
    <3> QED
      BY <3>1, <3>2, <3>3, <3>4, <3>5
  <2>6. Status' \in [DOMAIN Status -> {"pending", "active"} \cup Abs!Ended]
    <3>1. \A x \in Abs!Elements(def) : Status'[x] \in {"pending", "active"} \cup Abs!Ended
      <4>1. ASSUME NEW x \in Abs!Elements(def) \ S PROVE Status[x] \in {"pending", "active"} \cup Abs!Ended
        BY <1>1, <2>1, StatusNext, StatusValues
      <4>2. ASSUME NEW x \in S PROVE Status'[x] \in Abs!Ended
        BY <2>5 DEF Abs!Ended
      <4> QED
        BY <2>4, <4>1, <4>2
    <3> QED
      BY <1>1, <2>1, <3>1, StatusNext
  <2>7. DOMAIN Status = Abs!Elements(def)
    BY <1>1, <2>1, StatusNext
  <2> HIDE DEF S
  <2>8. Abs!End(S)
    BY <1>1, <2>2, <2>3, <2>4, <2>5, <2>6, <2>7 DEF Abs!End
  <2> QED
    BY <2>2, <2>8
<1> QED
  BY <1>5, <1>6

\* Every step of deliveries is a step of the workflow, or nothing to it.
LEMMA NextRefines == IInv /\ IInv' /\ [Next]_vars => [Abs!Next]_(Abs!vars)
<1> SUFFICES ASSUME IInv, IInv', [Next]_vars PROVE Abs!Next \/ UNCHANGED Abs!vars
  OBVIOUS
<1>1. ASSUME NEW d \in Defs, CreateWorkflow(d) PROVE Abs!Next
  BY <1>1, CreateRefines DEF Abs!Next
<1>2. CASE CancelWorkflow
  BY <1>2, CancelRefines DEF Abs!Next
<1>3. ASSUME NEW i \in Invocations, Work(i) PROVE Abs!Next \/ UNCHANGED Abs!vars
  BY <1>3, WorkRefines DEF Abs!Next
<1>4. ASSUME NEW i \in Invocations, Report(i) PROVE Abs!Next \/ UNCHANGED Abs!vars
  <2>1. \A s \in Owned(i) \cap (Owned(i) \ inv[i].failures) : s \in handled
    BY <1>4, ReportedIsHandled DEF Report
  <2>2. Settle(i, IF inv[i].retryable THEN inv[i].failures ELSE {}, Owned(i) \ inv[i].failures)
    BY <1>4 DEF Report
  <2>3. UNCHANGED Abs!vars \/ \E S \in SUBSET DOMAIN Status : Abs!End(S)
    BY <2>1, <2>2, SettleRefines
  <2> QED
    BY <2>3 DEF Abs!Next
<1>5. ASSUME NEW i \in Invocations, Lost(i) \/ StopWaiting(i) PROVE Abs!Next \/ UNCHANGED Abs!vars
  <2>1. Settle(i, Owned(i), {})
    BY <1>5 DEF Lost, StopWaiting
  <2>2. UNCHANGED Abs!vars \/ \E S \in SUBSET DOMAIN Status : Abs!End(S)
    BY <2>1, SettleRefines
  <2> QED
    BY <2>2 DEF Abs!Next
<1>6. ASSUME NEW s \in Steps, Release(s) PROVE UNCHANGED Abs!vars
  <2>1. /\ TypeOK /\ def' = def /\ begun' = begun /\ step[s] = "waiting"
        /\ step' = [step EXCEPT ![s] = "queued"]
    BY <1>6 DEF IInv, Release, historyVars
  <2>2. \A x \in Steps : StatusOf(x)' = StatusOf(x)
    BY <2>1 DEF TypeOK, StatusOf, Terminal
  <2> QED
    BY <2>1, <2>2, Stutter
<1>7. ASSUME NEW i \in Invocations, NEW kind \in {"push", "sqs"}, NEW q \in Batch, Deliver(i, kind, q)
      PROVE  UNCHANGED Abs!vars
  <2>1. /\ TypeOK /\ def' = def /\ begun' = begun
        /\ step' = [x \in Steps |-> IF \E n \in DOMAIN q : q[n] = x THEN "leased" ELSE step[x]]
    BY <1>7 DEF IInv, Deliver, historyVars
  <2>2. \A n \in DOMAIN q : step[q[n]] = "queued"
    BY DEF Batch, Queue
  <2>3. ASSUME NEW x \in Steps PROVE StatusOf(x)' = StatusOf(x)
    <3>1. step'[x] = step[x] \/ (step'[x] = "leased" /\ step[x] = "queued")
      BY <2>1, <2>2
    <3> QED
      BY <2>1, <3>1 DEF StatusOf, Terminal
  <2> QED
    BY <2>1, <2>3, Stutter
<1>8. CASE UNCHANGED <<def, step, begun>>
  <2>1. \A x \in Steps : StatusOf(x)' = StatusOf(x)
    BY <1>8 DEF StatusOf
  <2> QED
    BY <1>8, <2>1, Stutter
<1>9. CASE (\E t \in Types : Register(t) /\ UNCHANGED pushVars) \/ UNCHANGED vars
  BY <1>8, <1>9 DEF pushVars, vars, historyVars
<1> QED
  BY <1>1, <1>2, <1>3, <1>4, <1>5, <1>6, <1>7, <1>9 DEF Next

\* The workflow that CreateWorkflow sends, a server releases and serverless handlers work
\* off, through batches, lost reports and second deliveries, is the one that was defined:
\* chains one after another, callbacks after the jobs they are for (workflow.go).
THEOREM PushImplementsWorkflow == Spec => ImplementsWorkflow
<1>1. Init => Abs!Init
  BY DEF Init, Abs!Init, Status
<1> QED
  BY <1>1, NextRefines, PushInvariant, PTL DEF Spec, ImplementsWorkflow, Abs!Spec
=============================================================================
