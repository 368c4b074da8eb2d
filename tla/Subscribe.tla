------------------------------ MODULE Subscribe ------------------------------
(***************************************************************************)
(* A subscription to the server's event stream (subscribe.go): the         *)
(* goroutine of SubscribeWithReconnect or of Subscribe, which reads        *)
(* events line by line, hands them to the handler and reconnects with the  *)
(* ID of the last one, and the Cancel of the application.                  *)
(*                                                                         *)
(* The server is external.  It publishes events 1, 2, ...; a connection    *)
(* with a Last-Event-ID continues behind that event, one without starts    *)
(* with the events to come.  An event is an optional id line, a data line  *)
(* and an empty line; comments and event types change nothing.             *)
(***************************************************************************)
EXTENDS Integers

CONSTANTS
    LastEvent,  \* bound on the events the server publishes
    HasId,      \* the events that have an id line
    MinBackoff, MaxBackoff

Events == 1..LastEvent

ASSUME SubscribeAssumption ==
    /\ LastEvent \in Nat
    /\ HasId \subseteq Events
    /\ MinBackoff \in Nat \ {0} /\ MaxBackoff \in Nat
    /\ MinBackoff <= MaxBackoff

VARIABLES
    loop,       \* the call was SubscribeWithReconnect, not Subscribe
    pc,         \* where the goroutine is
    ctxDone,    \* the subscription's context is cancelled
    callers,    \* who has called Cancel: the application, the handler
    returned,   \* the application's Cancel has returned
    backoff,    \* backoff of the reconnect loop
    lastId,     \* lastEventID of the reconnect loop, 0 for ""
    readId,     \* lastEventID of readSSEStream, 0 for ""
    eventId,    \* eventID of readSSEStream, 0 for ""
    line,       \* what has been read of the next event: "none", "id" or "data"
    pos,        \* server: the last event sent on the connection
    published,  \* server: the last event published
    times       \* history: how often each event was handled (2 for more)

readVars   == <<readId, eventId, line>>
cancelVars == <<ctxDone, callers, returned>>
streamVars == <<pos, published, times>>
vars == <<loop, pc, cancelVars, backoff, lastId, readVars, streamVars>>

TypeOK ==
    /\ loop \in BOOLEAN
    /\ pc \in {"idle", "connect", "reading", "handling", "pause", "done", "failed"}
    /\ ctxDone \in BOOLEAN
    /\ callers \subseteq {"app", "handler"}
    /\ returned \in BOOLEAN
    /\ backoff \in MinBackoff..MaxBackoff
    /\ lastId \in {0} \cup HasId
    /\ readId \in {0} \cup HasId
    /\ eventId \in {0} \cup HasId
    /\ line \in {"none", "id", "data"}
    /\ pos \in 0..published
    /\ published \in 0..LastEvent
    /\ times \in [Events -> 0..2]

Init ==
    /\ loop \in BOOLEAN
    /\ pc = "idle"
    /\ ctxDone = FALSE
    /\ callers = {}
    /\ returned = FALSE
    /\ backoff = MinBackoff
    /\ lastId = 0
    /\ readId = 0
    /\ eventId = 0
    /\ line = "none"
    /\ pos = 0
    /\ published = 0
    /\ times = [e \in Events |-> 0]

-----------------------------------------------------------------------------
(* Connecting.                                                              *)

\* SubscribeWithReconnect launches its goroutine; Subscribe connects first.
Open ==
    /\ pc = "idle"
    /\ pc' = "connect"
    /\ UNCHANGED <<loop, cancelVars, backoff, lastId, readVars, streamVars>>

\* Where the stream of a new connection starts.
Resume(id) == IF id = 0 THEN published ELSE id

ConnectedLive ==  \* mutant: Last-Event-ID is not sent
    /\ pc = "connect"
    /\ ~ctxDone
    /\ pc' = "reading"
    /\ pos' = published
    /\ readId' = 0 /\ eventId' = 0 /\ line' = "none"
    /\ UNCHANGED <<loop, cancelVars, backoff, lastId, published, times>>

\* The server answers 200, and readSSEStream starts.
Connected ==
    /\ pc = "connect"
    /\ ~ctxDone
    /\ pc' = "reading"
    /\ pos' = Resume(lastId)
    /\ readId' = 0 /\ eventId' = 0 /\ line' = "none"
    /\ UNCHANGED <<loop, cancelVars, backoff, lastId, published, times>>

ConnectFailsForever ==  \* mutant: the loop does not look at its context
    /\ pc = "connect"
    /\ pc' = IF ~loop THEN "failed" ELSE "pause"
    /\ UNCHANGED <<loop, cancelVars, backoff, lastId, readVars, streamVars>>

\* The connection fails or is refused: Subscribe returns the error, the loop goes on
\* unless its context is cancelled.
ConnectFails ==
    /\ pc = "connect"
    /\ pc' = IF ~loop THEN "failed" ELSE IF ctxDone THEN "done" ELSE "pause"
    /\ UNCHANGED <<loop, cancelVars, backoff, lastId, readVars, streamVars>>

-----------------------------------------------------------------------------
(* readSSEStream.                                                           *)

\* A line of event e arrives, and the context is not done when it is looked at.
Arrives(e) ==
    /\ pc = "reading"
    /\ ~ctxDone
    /\ e = pos + 1
    /\ e <= published

ReadIdEarly(e) ==  \* mutant: the ID counts before the event is handled
    /\ Arrives(e)
    /\ line = "none" /\ e \in HasId
    /\ eventId' = e /\ readId' = e
    /\ line' = "id"
    /\ UNCHANGED <<loop, pc, cancelVars, backoff, lastId, streamVars>>

ReadId(e) ==
    /\ Arrives(e)
    /\ line = "none" /\ e \in HasId
    /\ eventId' = e
    /\ line' = "id"
    /\ UNCHANGED <<loop, pc, cancelVars, backoff, lastId, readId, streamVars>>

ReadData(e) ==
    /\ Arrives(e)
    /\ line = IF e \in HasId THEN "id" ELSE "none"
    /\ line' = "data"
    /\ UNCHANGED <<loop, pc, cancelVars, backoff, lastId, readId, eventId, streamVars>>

\* The empty line: the ID is kept and the handler called.
Dispatch(e) ==
    /\ Arrives(e)
    /\ line = "data"
    /\ readId' = IF eventId # 0 THEN eventId ELSE readId
    /\ pc' = "handling"
    /\ pos' = e
    /\ times' = [times EXCEPT ![e] = IF @ = 2 THEN 2 ELSE @ + 1]
    /\ UNCHANGED <<loop, cancelVars, backoff, lastId, eventId, line, published>>

\* The handler returns, unless it waits for its own goroutine, and the event's fields
\* are reset.
HandlerReturns ==
    /\ pc = "handling"
    /\ "handler" \notin callers
    /\ pc' = "reading"
    /\ eventId' = 0
    /\ line' = "none"
    /\ UNCHANGED <<loop, cancelVars, backoff, lastId, readId, streamVars>>

StreamEndsFirstId ==  \* mutant: the loop's ID is set once only
    /\ pc = "reading"
    /\ IF ctxDone \/ ~loop
          THEN pc' = "done" /\ UNCHANGED <<lastId, backoff>>
          ELSE /\ pc' = "pause"
               /\ lastId' = IF lastId # 0 THEN lastId ELSE readId
               /\ backoff' = MinBackoff
    /\ UNCHANGED <<loop, cancelVars, readVars, streamVars>>

\* The stream is over: the server or the HTTP client's timeout closed it, a line was too
\* long for the scanner, or the context is done.  The loop keeps the ID if there was one,
\* and goes back to the shortest pause.
StreamEnds ==
    /\ pc = "reading"
    /\ IF ctxDone \/ ~loop
          THEN pc' = "done" /\ UNCHANGED <<lastId, backoff>>
          ELSE /\ pc' = "pause"
               /\ lastId' = IF readId # 0 THEN readId ELSE lastId
               /\ backoff' = MinBackoff
    /\ UNCHANGED <<loop, cancelVars, readVars, streamVars>>

PauseUncapped ==  \* mutant: the pause doubles without end
    /\ pc = "pause"
    /\ \/ pc' = "connect" /\ backoff' = 2 * backoff
       \/ ctxDone /\ pc' = "done" /\ UNCHANGED backoff
    /\ UNCHANGED <<loop, cancelVars, lastId, readVars, streamVars>>

\* The wait before the next connection.
Pause ==
    /\ pc = "pause"
    /\ \/ /\ pc' = "connect"
          /\ backoff' = IF 2 * backoff < MaxBackoff THEN 2 * backoff ELSE MaxBackoff
       \/ /\ ctxDone
          /\ pc' = "done"
          /\ UNCHANGED backoff
    /\ UNCHANGED <<loop, cancelVars, lastId, readVars, streamVars>>

-----------------------------------------------------------------------------
(* The application, and the server.                                         *)

\* There is a subscription to cancel once SubscribeWithReconnect, or Subscribe, returned.
Subscribed == pc \notin {"idle", "failed"} /\ (pc = "connect" => loop)

\* Cancel cancels the context and waits for the goroutine to end.
Cancel(who) ==
    /\ who \notin callers
    /\ IF who = "app" THEN Subscribed ELSE pc = "handling"
    /\ callers' = callers \cup {who}
    /\ ctxDone' = TRUE
    /\ UNCHANGED <<loop, pc, returned, backoff, lastId, readVars, streamVars>>

\* It returns when done is closed; the handler's own call never does, for done is closed
\* behind the handler.
CancelReturns ==
    /\ "app" \in callers /\ ~returned
    /\ pc = "done"
    /\ returned' = TRUE
    /\ UNCHANGED <<loop, pc, ctxDone, callers, backoff, lastId, readVars, streamVars>>

\* The context given to Subscribe ends.
ParentDone ==
    /\ ~ctxDone
    /\ ctxDone' = TRUE
    /\ UNCHANGED <<loop, pc, callers, returned, backoff, lastId, readVars, streamVars>>

Publish ==
    /\ published < LastEvent
    /\ published' = published + 1
    /\ UNCHANGED <<loop, pc, cancelVars, backoff, lastId, readVars, pos, times>>

Next ==
    \/ Open \/ Connected \/ ConnectFails \/ HandlerReturns \/ StreamEnds \/ Pause
    \/ \E e \in Events : ReadId(e) \/ ReadData(e) \/ Dispatch(e)
    \/ \E who \in {"app", "handler"} : Cancel(who)
    \/ CancelReturns \/ ParentDone \/ Publish

Spec == Init /\ [][Next]_vars

\* Timers fire, handlers return, a call on a cancelled context ends; and a network that is
\* tried again and again lets a connection, and every line, through some time.
Fairness ==
    /\ WF_vars(Pause) /\ WF_vars(HandlerReturns) /\ WF_vars(CancelReturns)
    /\ WF_vars(ConnectFails) /\ WF_vars(ctxDone /\ StreamEnds)
    /\ SF_vars(Connected)
    /\ \A e \in Events : SF_vars(ReadId(e)) /\ SF_vars(ReadData(e)) /\ SF_vars(Dispatch(e))

FairSpec == Spec /\ Fairness

-----------------------------------------------------------------------------
(* Properties.                                                              *)

Seen == {e \in Events : times[e] > 0}

\* From the first event with an ID on, the handler misses no event: connections break
\* between any two lines, are refused, deliver nothing, and the loop still resumes behind
\* the last event it handled that had an ID (subscribe.go:95, 158, 193).
NoEventIsSkipped ==
    \A a \in Seen \cap HasId, e \in Seen : \A m \in a..e : m \in Seen

\* An event with an ID is handled once, though every reconnection asks the server to
\* send again what follows the last ID.
IdsAreHandledOnce == \A e \in HasId : times[e] <= 1

\* subscribe.go:26, "The handler is called for each event.": each published event behind
\* one that was handled with its ID is handled too, unless the subscription ends.
EachEventIsHandled ==
    \A a \in HasId, e \in Events :
        a < e => ((times[a] > 0 /\ published >= e) ~> (times[e] > 0 \/ ctxDone \/ ~loop))

\* Cancel returns to the application, wherever the goroutine is, unless the handler has
\* called Cancel too: that call waits for the goroutine it runs in.
CancelEnds == ("app" \in callers) ~> (returned \/ "handler" \in callers)
=============================================================================
