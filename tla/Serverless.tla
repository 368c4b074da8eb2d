----------------------------- MODULE Serverless -----------------------------
(***************************************************************************)
(* The serverless handlers (serverless/): invocations that process one     *)
(* job (HTTP push to a Lambda, Cloudflare or Vercel handler) or a batch of *)
(* SQS records, and report how each of them ended.  Several invocations    *)
(* run at the same time on one registry of handlers.  HandleDirect and     *)
(* HandleJob are left out: they return processJob's error to their caller, *)
(* with no delivery to report to and no mark whether to retry.             *)
(*                                                                         *)
(* Who delivers jobs and what it makes of the report is in Push.           *)
(***************************************************************************)
EXTENDS Naturals, Sequences, FiniteSets

CONSTANTS
    Invocations,  \* invocations that may run at a time
    Jobs,         \* identities of jobs
    Types,        \* job types that handlers may be registered for
    Undecodable   \* types of jobs whose delivery does not decode (too large, not JSON)

VARIABLES
    handlers,  \* LambdaHandler.handlers
    inv        \* what each invocation does

serverlessVars == <<handlers, inv>>

JobTypes == Types \cup Undecodable \cup {""}

Free == [pc |-> "free"]

\* An invocation under way: how it was called, its records, the one it has come to, the
\* records reported as failures, whether a failure may be retried; and, beside the code,
\* the records whose handler returned nil.
Running == [pc : {"next", "handler", "replied", "crashed"}, kind : {"push", "sqs"},
            records : Seq([id : Jobs, type : JobTypes]), pos : Nat,
            failures : SUBSET Jobs, retryable : BOOLEAN, succeeded : SUBSET Jobs]

ServerlessTypeOK ==
    /\ handlers \subseteq Types
    /\ inv \in [Invocations -> {Free} \cup Running]
    /\ \A i \in Invocations :
          inv[i].pc \in {"next", "handler"} => inv[i].pos \in DOMAIN inv[i].records

ServerlessInit ==
    /\ handlers = {}
    /\ inv = [i \in Invocations |-> Free]

Register(t) ==
    /\ handlers' = handlers \cup {t}
    /\ UNCHANGED inv

Invoke(i, kind, records) ==
    /\ inv[i] = Free
    /\ inv' = [inv EXCEPT ![i] =
          [pc |-> "next", kind |-> kind, records |-> records, pos |-> 1,
           failures |-> {}, retryable |-> TRUE, succeeded |-> {}]]
    /\ UNCHANGED handlers

Record(i) == inv[i].records[inv[i].pos]

\* The record is done; after the last one the report goes out.
Proceed(i, failed, ok, retryable) ==
    inv' = [inv EXCEPT ![i].pc = IF inv[i].pos = Len(inv[i].records) THEN "replied" ELSE "next",
                       ![i].pos = @ + 1,
                       ![i].failures = @ \cup failed,
                       ![i].succeeded = @ \cup ok,
                       ![i].retryable = retryable]

\* The body does not decode.  An HTTP handler refuses it for good, as it does a job
\* without a type; for SQS it is one more failure.
Malformed(i) ==
    /\ inv[i].pc = "next"
    /\ \/ Record(i).type \in Undecodable
       \/ inv[i].kind = "push" /\ Record(i).type = ""
    /\ Proceed(i, {Record(i).id}, {}, inv[i].kind = "sqs")
    /\ UNCHANGED handlers

Decoded(i) ==
    /\ inv[i].pc = "next"
    /\ Record(i).type \notin Undecodable
    /\ inv[i].kind = "push" => Record(i).type # ""

UnhandledIsSkipped(i) ==  \* mutant: a record without a handler is passed over
    /\ Decoded(i)
    /\ Record(i).type \notin handlers
    /\ Proceed(i, {}, {}, TRUE)
    /\ UNCHANGED handlers

\* processJob finds no handler: an error like another.
Unhandled(i) ==
    /\ Decoded(i)
    /\ Record(i).type \notin handlers
    /\ Proceed(i, {Record(i).id}, {}, TRUE)
    /\ UNCHANGED handlers

ProcessJob(i) ==
    /\ Decoded(i)
    /\ Record(i).type \in handlers
    /\ inv' = [inv EXCEPT ![i].pc = "handler"]
    /\ UNCHANGED handlers

HandlerSucceeds(i) ==
    /\ inv[i].pc = "handler"
    /\ Proceed(i, {}, {Record(i).id}, TRUE)
    /\ UNCHANGED handlers

HandlerFailsAll(i) ==  \* mutant: one failure fails the records before it as well
    /\ inv[i].pc = "handler"
    /\ Proceed(i, {inv[i].records[n].id : n \in 1..inv[i].pos}, {}, TRUE)
    /\ UNCHANGED handlers

\* An error, the timeout of processJob included.
HandlerFails(i) ==
    /\ inv[i].pc = "handler"
    /\ Proceed(i, {Record(i).id}, {}, TRUE)
    /\ UNCHANGED handlers

\* Nothing recovers a panic: the connection or the whole batch ends without a report.
HandlerPanics(i) ==
    /\ inv[i].pc = "handler"
    /\ inv' = [inv EXCEPT ![i].pc = "crashed"]
    /\ UNCHANGED handlers

InvocationStep(i) ==
    \/ Malformed(i) \/ Unhandled(i) \/ ProcessJob(i)
    \/ HandlerSucceeds(i) \/ HandlerFails(i) \/ HandlerPanics(i)

End(i) ==
    /\ inv[i] # Free
    /\ inv[i].pc \in {"replied", "crashed"}
    /\ inv' = [inv EXCEPT ![i] = Free]
    /\ UNCHANGED handlers
=============================================================================
