------------------------------- MODULE Durable -------------------------------
(***************************************************************************)
(* Durable execution (durable.go): a handler that asks a DurableContext    *)
(* for times, random strings and side effects, is crashed or retried, and  *)
(* is replayed from the log the last checkpoint left at the server.        *)
(*                                                                         *)
(* The handler is a fixed sequence of operations, the same in every        *)
(* attempt.  It may call Checkpoint between any two of them.  The server's *)
(* checkpoint of the job is external; late holds the requests whose caller *)
(* gave up waiting.  A value stands for what its JSON form tells: what a   *)
(* clock, a random source or a side effect returns survives the encoding.  *)
(***************************************************************************)
EXTENDS Naturals, Sequences, FiniteSets

CONSTANTS
    Program,      \* the handler's operations, in order: [type, key]
    Survives,     \* positions of side effects whose error the handler survives
    Values,       \* what clocks, random sources and side effects may return
    Error,        \* what a failed side effect returns
    MaxAttempts,  \* bound on the attempts of the job
    MaxLate       \* bound on the unanswered PUTs and DELETEs of the checkpoint that
                  \* are under way at a time

Types == {"time", "random", "call"}

ASSUME DurableAssumption ==
    /\ Program \in Seq([type : Types, key : STRING])
    /\ Survives \subseteq 1..Len(Program)
    /\ Error \notin Values
    /\ MaxAttempts \in Nat /\ MaxLate \in Nat

VARIABLES
    run,        \* "idle" between attempts, "running", or "acked"
    attempt,    \* number of attempts so far
    entries,    \* DurableContext.entries
    cursor,     \* DurableContext.cursor
    replaying,  \* DurableContext.replaying
    results,    \* what the operations of this attempt returned
    mismatch,   \* this attempt met a key mismatch
    ckpt,       \* server: the log of the checkpoint, empty if there is none
    late,       \* server: logs under way in a PUT nobody waits for (empty: DELETE)
    agreed,     \* history: the results the checkpoint covers
    survived,   \* history: the handler has gone on after a failed side effect
    lost        \* history: a request for the checkpoint has failed

dcVars == <<entries, cursor, replaying>>
history == <<survived, lost>>
vars == <<run, attempt, dcVars, results, mismatch, ckpt, late, agreed, history>>

Entry == [type : Types, key : STRING, val : Values]

TypeOK ==
    /\ run \in {"idle", "running", "acked"}
    /\ attempt \in Nat
    /\ entries \in Seq(Entry)
    /\ cursor \in Nat
    /\ replaying \in BOOLEAN
    /\ results \in Seq(Values \cup {Error})
    /\ Len(results) <= Len(Program)
    /\ mismatch \in BOOLEAN
    /\ ckpt \in Seq(Entry)
    /\ late \subseteq Seq(Entry)
    /\ agreed \in Seq(Values \cup {Error})
    /\ survived \in BOOLEAN
    /\ lost \in BOOLEAN

Init ==
    /\ run = "idle"
    /\ attempt = 0
    /\ entries = <<>>
    /\ cursor = 0
    /\ replaying = FALSE
    /\ results = <<>>
    /\ mismatch = FALSE
    /\ ckpt = <<>>
    /\ late = {}
    /\ agreed = <<>>
    /\ survived = FALSE
    /\ lost = FALSE

-----------------------------------------------------------------------------
BeginNotReplaying ==  \* mutant: the loaded log is kept, replaying is not set
    /\ run = "idle"
    /\ attempt < MaxAttempts
    /\ run' = "running"
    /\ attempt' = attempt + 1
    /\ \/ entries' = ckpt /\ lost' = lost
       \/ entries' = <<>> /\ lost' = TRUE
    /\ replaying' = FALSE
    /\ cursor' = 0
    /\ results' = <<>>
    /\ mismatch' = FALSE
    /\ UNCHANGED <<ckpt, late, agreed, survived>>

\* newDurableContext: any error of the load leaves an empty log.
Begin ==
    /\ run = "idle"
    /\ attempt < MaxAttempts
    /\ run' = "running"
    /\ attempt' = attempt + 1
    /\ \/ entries' = ckpt /\ lost' = lost
       \/ entries' = <<>> /\ lost' = TRUE
    /\ replaying' = (entries' # <<>>)
    /\ cursor' = 0
    /\ results' = <<>>
    /\ mismatch' = FALSE
    /\ UNCHANGED <<ckpt, late, agreed, survived>>

-----------------------------------------------------------------------------
(* The next operation of the handler.                                       *)

Op == Program[Len(results) + 1]

AtOp(types) ==
    /\ run = "running"
    /\ Len(results) < Len(Program)
    /\ Op.type \in types

\* The entry at the cursor, if it has the type of the operation.
Recorded == /\ replaying
            /\ cursor < Len(entries)
            /\ entries[cursor + 1].type = Op.type

KeyMismatch ==
    /\ Op.type = "call"
    /\ Op.key # "" /\ entries[cursor + 1].key # ""
    /\ Op.key # entries[cursor + 1].key

\* Now, Random or SideEffect returns the recorded value and steps over it.
Replay ==
    /\ AtOp(Types)
    /\ Recorded
    /\ ~KeyMismatch
    /\ results' = Append(results, entries[cursor + 1].val)
    /\ cursor' = cursor + 1
    /\ replaying' = (cursor + 1 < Len(entries))
    /\ UNCHANGED <<run, attempt, entries, mismatch, ckpt, late, agreed, history>>

RecordNothing(v) ==  \* mutant: the new value is not appended to the log
    /\ AtOp(Types)
    /\ ~Recorded
    /\ replaying' = FALSE
    /\ results' = Append(results, v)
    /\ UNCHANGED <<run, attempt, entries, cursor, mismatch, ckpt, late, agreed, history>>

\* Otherwise it gets a new value v and appends it at the end of the log.
Record(v) ==
    /\ AtOp(Types)
    /\ ~Recorded
    /\ entries' = Append(entries, [type |-> Op.type, key |-> Op.key, val |-> v])
    /\ replaying' = FALSE
    /\ results' = Append(results, v)
    /\ UNCHANGED <<run, attempt, cursor, mismatch, ckpt, late, agreed, history>>

\* The handler goes on with an error it survives, and else returns it: the job is
\* nacked and retried.
Failed ==
    IF Len(results) + 1 \in Survives
       THEN results' = Append(results, Error) /\ UNCHANGED run
       ELSE run' = "idle" /\ UNCHANGED results

SideEffectFailsRecorded ==  \* mutant: the failure is recorded as a result
    /\ AtOp({"call"})
    /\ ~Recorded
    /\ replaying' = FALSE
    /\ entries' = Append(entries, [type |-> Op.type, key |-> Op.key, val |-> Error])
    /\ Failed
    /\ survived' = (survived \/ Len(results) + 1 \in Survives)
    /\ UNCHANGED <<attempt, cursor, mismatch, ckpt, late, agreed, lost>>

\* fn fails, or its result cannot be encoded: nothing is recorded.
SideEffectFails ==
    /\ AtOp({"call"})
    /\ ~Recorded
    /\ replaying' = FALSE
    /\ Failed
    /\ survived' = (survived \/ Len(results) + 1 \in Survives)
    /\ UNCHANGED <<attempt, entries, cursor, mismatch, ckpt, late, agreed, lost>>

\* The recorded key is not the one the handler asks for; the cursor stays.
SideEffectMismatch ==
    /\ AtOp({"call"})
    /\ Recorded
    /\ KeyMismatch
    /\ mismatch' = TRUE
    /\ Failed
    /\ UNCHANGED <<attempt, dcVars, ckpt, late, agreed, history>>

-----------------------------------------------------------------------------
CheckpointTail ==  \* mutant: only the entries since the replayed ones are sent
    /\ run = "running"
    /\ ckpt' = SubSeq(entries, cursor + 1, Len(entries))
    /\ agreed' = results
    /\ UNCHANGED <<run, attempt, dcVars, results, mismatch, late, history>>

\* Checkpoint sends a copy of the whole log, and the server stores it.
Checkpoint ==
    /\ run = "running"
    /\ ckpt' = entries
    /\ agreed' = results
    /\ UNCHANGED <<run, attempt, dcVars, results, mismatch, late, history>>

\* Nobody answers within five seconds; the handler goes on, the PUT may still arrive.
CheckpointFails ==
    /\ Cardinality(late) < MaxLate
    /\ run = "running"
    /\ late' = late \cup {entries}
    /\ lost' = TRUE
    /\ UNCHANGED <<run, attempt, dcVars, results, mismatch, ckpt, agreed, survived>>

\* The request reaches the server after all.
LateCheckpoint(log) ==
    /\ log \in late
    /\ late' = late \ {log}
    /\ ckpt' = log
    /\ UNCHANGED <<run, attempt, dcVars, results, mismatch, agreed, history>>

\* Complete deletes the checkpoint, at the end of the handler.
Complete ==
    /\ run = "running"
    /\ Len(results) = Len(Program)
    /\ ckpt' = <<>>
    /\ agreed' = <<>>
    /\ UNCHANGED <<run, attempt, dcVars, results, mismatch, late, history>>

\* The DELETE stays unanswered; the example handler ignores the error.
CompleteFails ==
    /\ Cardinality(late) < MaxLate
    /\ run = "running"
    /\ Len(results) = Len(Program)
    /\ late' = late \cup {<<>>}
    /\ lost' = TRUE
    /\ UNCHANGED <<run, attempt, dcVars, results, mismatch, ckpt, agreed, survived>>

\* The handler returns nil; the ack arrives, or is lost and the job is delivered again.
Return ==
    /\ run = "running"
    /\ Len(results) = Len(Program)
    /\ run' \in {"acked", "idle"}
    /\ UNCHANGED <<attempt, dcVars, results, mismatch, ckpt, late, agreed, history>>

\* The process dies.
Crash ==
    /\ run = "running"
    /\ run' = "idle"
    /\ UNCHANGED <<attempt, dcVars, results, mismatch, ckpt, late, agreed, history>>

Next ==
    \/ Begin \/ Replay \/ SideEffectFails \/ SideEffectMismatch
    \/ \E v \in Values : Record(v)
    \/ Checkpoint \/ CheckpointFails \/ Complete \/ CompleteFails \/ Return \/ Crash
    \/ \E log \in late : LateCheckpoint(log)

Spec == Init /\ [][Next]_vars

-----------------------------------------------------------------------------
(* Properties.                                                              *)

\* durable.go:14, "recorded on first execution and replayed from the checkpoint on
\* retry, ensuring idempotent re-execution after crashes": as long as every request for
\* the checkpoint is answered, every operation that succeeded before a checkpoint returns
\* in every later attempt what it returned then.
ReplayIsFaithful ==
    ~lost /\ run = "running" =>
        \A p \in 1..Len(results) :
            p <= Len(agreed) => agreed[p] \in {Error, results[p]}

\* The log a checkpoint would send is, operation by operation, what the handler has
\* been told in this attempt, though the two are kept apart (a cursor into a loaded
\* log, new entries at its end) and checkpoints may be lost, late or not loaded.  A
\* handler that goes on after a failed side effect has no such log: failures leave no
\* entry (durable.go:168-170).
LogIsWhatHandlerSaw ==
    ~survived /\ run = "running" =>
        /\ Len(results) <= Len(entries)
        /\ \A p \in 1..Len(results) : results[p] = entries[p].val

\* An operation that succeeded before a checkpoint is not executed again: new entries are
\* recorded for operations beyond the checkpoint, and for those that had failed.
NothingIsRedone ==
    [][/\ ~lost /\ run = "running"
       /\ Len(entries') > Len(entries) /\ Len(results) < Len(agreed)
       => agreed[Len(results) + 1] = Error]_vars

\* The key mismatch of durable.go:155-157, met by a handler whose code never changes, has
\* one cause: in some attempt the handler went on after a failed side effect.  Lost, late
\* and unloaded checkpoints, crashes and retries do not bring it about.
MismatchHasCause == mismatch => survived

\* durable.go:153, "A mismatch means the code changed between the checkpoint save and
\* replay": the handler never changes here, so no attempt would meet a mismatch.
MismatchMeansNewCode == ~mismatch

\* As long as every request is answered and until Complete deletes it, the log at the
\* server only grows: a checkpoint never forgets what an earlier attempt had recorded.
CheckpointOnlyGrows ==
    [][~lost' /\ ckpt' # <<>> => /\ Len(ckpt) <= Len(ckpt')
                                 /\ \A i \in 1..Len(ckpt) : ckpt'[i] = ckpt[i]]_vars
=============================================================================
