------------------------------ MODULE Transport ------------------------------
(***************************************************************************)
(* One call of transport.do (transport.go), with the retries of            *)
(* rate_limiter.go.  Every request of the client, of the worker and of a   *)
(* DurableContext is such a call.                                          *)
(*                                                                         *)
(* The server and the network are external.  A request is performed or     *)
(* not, independently of what the caller hears of it: a gateway answers    *)
(* 502, 503 or 504 for a request that was or was not performed, and a call *)
(* whose answer is lost may be performed later.  A server refuses a        *)
(* request with 400 or 429 before it performs it.                          *)
(***************************************************************************)
EXTENDS Integers

CONSTANTS
    Enabled, RetryServerErrors,     \* RetryConfig
    MaxRetries,
    MinBackoff, MaxBackoff,         \* durations, in some unit
    RetryAfters                     \* values a Retry-After header may have

ASSUME TransportAssumption ==
    /\ {Enabled, RetryServerErrors} \subseteq BOOLEAN
    /\ MaxRetries \in Nat
    /\ MinBackoff \in Nat /\ MaxBackoff \in Nat
    /\ RetryAfters \subseteq Int

VARIABLES
    phase,     \* "idle", "request" (under way), "sleep" or "returned"
    ctxDone,   \* the context of the call is done
    attempt,   \* attempt of transport.do
    wait,      \* the backoff of the sleep
    asked,     \* the Retry-After of the last response, 0 without one
    result,    \* what do returned: nil, an error, or an *Error with a status
    wire,      \* requests nobody waits for, not yet performed
    applied    \* how often the server has performed the request

serverVars == <<wire, applied>>
doVars == <<phase, ctxDone, attempt, wait, asked, result, serverVars>>

Gateway  == {502, 503, 504}
Statuses == {200, 400, 429, 500} \cup Gateway
Headers  == RetryAfters \cup {0}

DoTypeOK ==
    /\ phase \in {"idle", "request", "sleep", "returned"}
    /\ ctxDone \in BOOLEAN
    /\ attempt \in 0..MaxRetries
    /\ wait \in Nat
    /\ asked \in Headers
    /\ result \in {"none", "ok", "error", "status"}
    /\ wire \in Nat
    /\ applied \in Nat

DoInit ==
    /\ phase = "idle"
    /\ ctxDone = FALSE
    /\ attempt = 0
    /\ wait = 0
    /\ asked = 0
    /\ result = "none"
    /\ wire = 0
    /\ applied = 0

-----------------------------------------------------------------------------
(* rate_limiter.go                                                          *)

ShouldRetryOnceMore(status, n) ==  \* mutant: > for >=
    /\ Enabled /\ n <= MaxRetries
    /\ status = 429 \/ (RetryServerErrors /\ status \in Gateway)

ShouldRetry(status, n) ==
    /\ Enabled /\ n < MaxRetries
    /\ status = 429 \/ (RetryServerErrors /\ status \in Gateway)

\* MinBackoff * 2^attempt, at most MaxBackoff.
Exponential(n) == IF MinBackoff * 2^n > MaxBackoff THEN MaxBackoff ELSE MinBackoff * 2^n

\* That times a factor in [0.5, 1), rounded down.
Jittered(d) == {w \in 0..d : d \div 2 <= w /\ (w < d \/ d = 0)}

RetryBackoffUnclamped(n, retryAfter) ==  \* mutant: Retry-After is not clamped
    IF retryAfter > 0 THEN {retryAfter} ELSE Jittered(Exponential(n))

\* The durations retryBackoff may return.
RetryBackoff(n, retryAfter) ==
    IF retryAfter > 0
       THEN {IF retryAfter > MaxBackoff THEN MaxBackoff ELSE retryAfter}
       ELSE Jittered(Exponential(n))

-----------------------------------------------------------------------------
(* transport.do                                                             *)

Return(r) == phase' = "returned" /\ result' = r

Do ==
    /\ phase = "idle"
    /\ phase' = "request"
    /\ UNCHANGED <<ctxDone, attempt, wait, asked, result, serverVars>>

\* The body cannot be encoded: no request is sent.
MarshalFails ==
    /\ phase = "idle"
    /\ Return("error")
    /\ UNCHANGED <<ctxDone, attempt, wait, asked, serverVars>>

\* httpClient.Do fails: the context is done, or nothing is heard in time.  There is
\* no retry, and the request may still be performed.
RequestFails ==
    /\ phase = "request"
    /\ wire' \in {wire, wire + 1}
    /\ Return("error")
    /\ UNCHANGED <<ctxDone, attempt, wait, asked, applied>>

\* The server's side of a response: performed or not.
Perform(status) ==
    /\ \/ applied' = applied + 1 /\ status \notin {400, 429}
       \/ applied' = applied /\ status # 200
    /\ wire' = wire

\* The body cannot be read, or is longer than maxResponseBodyLen.  This comes before
\* shouldRetry.
Unreadable(status) ==
    /\ phase = "request"
    /\ Perform(status)
    /\ Return("error")
    /\ UNCHANGED <<ctxDone, attempt, wait, asked>>

\* A response that shouldRetry accepts.
Retry(status, retryAfter) ==
    /\ phase = "request"
    /\ Perform(status)
    /\ ShouldRetry(status, attempt)
    /\ asked' = retryAfter
    /\ wait' \in RetryBackoff(attempt, retryAfter)
    /\ phase' = "sleep"
    /\ UNCHANGED <<ctxDone, attempt, result>>

\* parseErrorResponse: an *Error.
Refused(status, retryAfter) ==
    /\ phase = "request"
    /\ Perform(status)
    /\ ~ShouldRetry(status, attempt)
    /\ status >= 400
    /\ asked' = retryAfter
    /\ Return("status")
    /\ UNCHANGED <<ctxDone, attempt, wait>>

\* A response below 400: the body is decoded, if there is one to decode.
Succeeds(decodes) ==
    /\ phase = "request"
    /\ Perform(200)
    /\ Return(IF decodes THEN "ok" ELSE "error")
    /\ UNCHANGED <<ctxDone, attempt, wait, asked>>

SleepOverUncounted ==  \* mutant: attempt is not incremented
    /\ phase = "sleep"
    /\ phase' = "request"
    /\ UNCHANGED <<ctxDone, attempt, wait, asked, result, serverVars>>

\* sleepWithContext: the timer fires...
SleepOver ==
    /\ phase = "sleep"
    /\ phase' = "request"
    /\ attempt' = attempt + 1
    /\ UNCHANGED <<ctxDone, wait, asked, result, serverVars>>

\* ... or the context is done.
SleepCancelled ==
    /\ phase = "sleep"
    /\ ctxDone
    /\ Return("error")
    /\ UNCHANGED <<ctxDone, attempt, wait, asked, serverVars>>

CancelCtx ==
    /\ ~ctxDone
    /\ ctxDone' = TRUE
    /\ UNCHANGED <<phase, attempt, wait, asked, result, serverVars>>

\* A request nobody waits for is performed, or lost.
LateRequest ==
    /\ wire > 0
    /\ wire' = wire - 1
    /\ applied' \in {applied, applied + 1}
    /\ UNCHANGED <<phase, ctxDone, attempt, wait, asked, result>>

CallStep ==
    \/ Do \/ MarshalFails \/ RequestFails
    \/ \E status \in Statuses : Unreadable(status)
    \/ \E status \in Statuses, h \in Headers : Retry(status, h)
    \/ \E status \in Statuses, h \in Headers : Refused(status, h)
    \/ \E decodes \in BOOLEAN : Succeeds(decodes)
    \/ SleepOver \/ SleepCancelled

DoNext == CallStep \/ CancelCtx \/ LateRequest

DoSpec == DoInit /\ [][DoNext]_doVars

\* The HTTP client answers or gives up, timers fire.
DoFairSpec == DoSpec /\ WF_doVars(CallStep)

-----------------------------------------------------------------------------
(* Properties.                                                              *)

\* transport.do repeats requests that are not idempotent (POST enqueue, ack, nack).
\* A call is performed at most once if gateway errors are not retried, however often
\* it is rate-limited, and at most 1 + MaxRetries times if they are.
PerformedAtMost ==
    applied + wire <= IF Enabled /\ RetryServerErrors THEN MaxRetries + 1 ELSE 1

\* rate_limiter.go:43, "If retryAfter is non-zero, it is used (clamped to MaxBackoff)":
\* the pause is never longer than MaxBackoff, nor shorter than the server asked for
\* within that limit.
PauseIsClamped ==
    phase = "sleep" => /\ wait <= MaxBackoff
                       /\ asked > 0 /\ asked <= MaxBackoff => wait >= asked

\* Every call returns, whatever the server answers and however often.
CallReturns == phase = "request" ~> phase = "returned"
=============================================================================
