--------------------------- MODULE SubscribeProofs ---------------------------
(***************************************************************************)
(* Subscriptions, for any number of events and any choice of those that    *)
(* have an ID: nothing is skipped from the first ID on, and no event with  *)
(* an ID is handled twice.                                                 *)
(***************************************************************************)
EXTENDS Subscribe, TLAPS

InStream == pc \in {"reading", "handling"}

\* The ID the next reconnection will resume from.
Current == IF InStream /\ readId # 0 THEN readId ELSE lastId

\* The ID is that of the last event handled with one, until the goroutine ends: it may
\* then leave the loop without taking over the stream's ID.
CurrentInv ==
    /\ \A e \in Seen : e <= published
    /\ pc # "done" =>
          /\ Current = 0 => Seen \cap HasId = {}
          /\ Current # 0 => Current \in Seen /\ \A e \in Seen \cap HasId : e <= Current

\* What a connection has sent was handled, from that event on; before there is an ID,
\* connections start behind everything that was handled.
StreamInv ==
    InStream => /\ Current = 0 => \A e \in Seen : e <= pos
                /\ Current # 0 => Current <= pos /\ \A m \in Current..pos : m \in Seen

\* The id line that was read belongs to the event that is read.
LineInv ==
    pc = "reading" =>
        /\ line = "none" => eventId = 0
        /\ line = "id" => pos + 1 \in HasId /\ eventId = pos + 1
        /\ line = "data" => eventId = IF pos + 1 \in HasId THEN pos + 1 ELSE 0

IInv == TypeOK /\ CurrentInv /\ StreamInv /\ LineInv /\ NoEventIsSkipped /\ IdsAreHandledOnce

-----------------------------------------------------------------------------
\* Before the first connection nothing has been handled (subscribe.go:141-151).
LEMMA IInvInit == Init => IInv
<1> SUFFICES ASSUME Init PROVE IInv
  OBVIOUS
<1>1. Seen = {}
  BY DEF Init, Seen
<1>2. loop \in BOOLEAN /\ ctxDone \in BOOLEAN /\ returned \in BOOLEAN
  BY DEF Init
<1>3. TypeOK
  BY <1>2, SubscribeAssumption DEF Init, TypeOK, Events
<1>4. IdsAreHandledOnce
  BY SubscribeAssumption DEF Init, IdsAreHandledOnce, Events
<1> QED
  BY <1>1, <1>3, <1>4 DEF Init, IInv, CurrentInv, StreamInv, LineInv, NoEventIsSkipped,
     Current, InStream

\* Every step keeps the types (subscribe.go:27-212).
LEMMA TypeOKNext == IInv /\ [Next]_vars => TypeOK'
<1> SUFFICES ASSUME IInv, [Next]_vars PROVE TypeOK'
  OBVIOUS
<1> USE SubscribeAssumption DEF IInv, TypeOK, vars, cancelVars, readVars, streamVars, Events
<1>1. CASE Open \/ ConnectFails \/ HandlerReturns
  BY <1>1 DEF Open, ConnectFails, HandlerReturns
<1>2. CASE Connected
  <2>1. Resume(lastId) \in 0..published
    BY <1>2 DEF Connected, Resume, CurrentInv, Current, InStream, Seen
  <2> QED
    BY <1>2, <2>1 DEF Connected
<1>3. CASE StreamEnds
  BY <1>3 DEF StreamEnds
<1>4. CASE Pause
  BY <1>4 DEF Pause
<1>5. ASSUME NEW e \in Events, ReadId(e) \/ ReadData(e) PROVE TypeOK'
  BY <1>5 DEF ReadId, ReadData, Arrives
<1>6. ASSUME NEW e \in Events, Dispatch(e) PROVE TypeOK'
  BY <1>6 DEF Dispatch, Arrives
<1>7. ASSUME NEW who \in {"app", "handler"}, Cancel(who) PROVE TypeOK'
  <2>1. ctxDone' \in BOOLEAN /\ loop' \in BOOLEAN /\ returned' \in BOOLEAN
    BY <1>7 DEF Cancel
  <2> QED
    BY <1>7, <2>1 DEF Cancel
<1>8. CASE CancelReturns \/ ParentDone
  <2>1. ctxDone' \in BOOLEAN /\ loop' \in BOOLEAN /\ returned' \in BOOLEAN
    BY <1>8 DEF CancelReturns, ParentDone
  <2> QED
    BY <1>8, <2>1 DEF CancelReturns, ParentDone
<1>9. CASE Publish
  BY <1>9 DEF Publish
<1>10. CASE UNCHANGED vars
  BY <1>10
<1> QED
  BY <1>1, <1>2, <1>3, <1>4, <1>5, <1>6, <1>7, <1>8, <1>9, <1>10 DEF Next

\* An event that is handled is the next one of its connection: it was not handled before
\* if it has an ID, and everything between it and any earlier ID was (subscribe.go:93-104).
LEMMA DispatchKeeps ==
    ASSUME IInv, NEW e \in Events, Dispatch(e)
    PROVE  CurrentInv' /\ StreamInv' /\ LineInv' /\ NoEventIsSkipped' /\ IdsAreHandledOnce'
<1> USE SubscribeAssumption DEF Events
<1>1. /\ pc = "reading" /\ pc' = "handling" /\ e = pos + 1 /\ e <= published
      /\ pos' = e /\ published' = published /\ lastId' = lastId
      /\ readId' = IF e \in HasId THEN e ELSE readId
  BY DEF Dispatch, Arrives, IInv, LineInv, TypeOK
<1>2. Seen' = Seen \cup {e}
  BY DEF Dispatch, Seen, IInv, TypeOK
<1>3. /\ Seen \subseteq Events /\ pos \in Nat /\ published \in Nat /\ e \in Nat
      /\ HasId \subseteq Nat /\ Events \subseteq Nat
      /\ Current \in HasId \cup {0} /\ Current \in Nat
  BY DEF Seen, IInv, TypeOK, Current
<1>4. Current' = IF e \in HasId THEN e ELSE Current
  BY <1>1, <1>3 DEF Current, InStream
<1>5. /\ Current = 0 => \A x \in Seen : x <= pos
      /\ Current # 0 => Current <= pos /\ \A m \in Current..pos : m \in Seen
  BY <1>1 DEF IInv, StreamInv, InStream
<1>6. /\ \A x \in Seen : x <= published
      /\ Current = 0 => Seen \cap HasId = {}
      /\ Current # 0 => Current \in Seen /\ \A x \in Seen \cap HasId : x <= Current
  BY <1>1 DEF IInv, CurrentInv
<1>7. \A a \in Seen \cap HasId, x \in Seen : \A m \in a..x : m \in Seen
  BY DEF IInv, NoEventIsSkipped
<1>8. CurrentInv'
  BY <1>1, <1>2, <1>3, <1>4, <1>5, <1>6 DEF CurrentInv
<1>9. StreamInv'
  BY <1>1, <1>2, <1>3, <1>4, <1>5 DEF StreamInv, InStream
<1>10. LineInv'
  BY <1>1 DEF LineInv
<1>11. NoEventIsSkipped'
  <2> SUFFICES ASSUME NEW a \in Seen' \cap HasId, NEW x \in Seen', NEW m \in a..x
               PROVE  m \in Seen'
    BY DEF NoEventIsSkipped
  <2>1. CASE a \in Seen /\ x \in Seen
    BY <2>1, <1>2, <1>7
  <2>2. CASE a \in Seen /\ x = e
    <3>1. Current # 0 /\ a <= Current /\ Current \in Seen /\ Current <= pos
      BY <2>2, <1>5, <1>6
    <3>2. m <= Current => m \in Seen
      BY <3>1, <2>2, <1>3, <1>7
    <3>3. Current <= m /\ m <= pos => m \in Seen
      BY <3>1, <1>3, <1>5
    <3> QED
      BY <3>2, <3>3, <2>2, <1>1, <1>2, <1>3
  <2>3. CASE a = e /\ x \in Seen /\ x # e
    <3>1. x \in Nat /\ e <= x /\ pos < x /\ m \in Nat /\ e <= m /\ m <= x
      BY <2>3, <1>1, <1>3
    <3>2. Current # 0
      BY <3>1, <2>3, <1>3, <1>5
    <3>3. Current \in Seen \cap HasId /\ Current <= m
      BY <3>1, <3>2, <1>1, <1>3, <1>5, <1>6
    <3>4. m \in Current..x
      BY <3>1, <3>3, <1>3
    <3> QED
      BY <3>3, <3>4, <2>3, <1>2, <1>7
  <2>4. CASE a = e /\ x = e
    BY <2>4, <1>2, <1>3
  <2> QED
    BY <2>1, <2>2, <2>3, <2>4, <1>2
<1>12. IdsAreHandledOnce'
  <2>1. e \in HasId => e \notin Seen
    BY <1>1, <1>3, <1>5, <1>6
  <2>2. e \in HasId => times[e] = 0
    BY <2>1 DEF Seen, IInv, TypeOK
  <2> QED
    BY <2>2 DEF Dispatch, IInv, IdsAreHandledOnce, TypeOK
<1> QED
  BY <1>8, <1>9, <1>10, <1>11, <1>12

\* Every step keeps the rest of the invariant (subscribe.go:27-212).
LEMMA IInvNext == IInv /\ [Next]_vars => IInv'
<1> SUFFICES ASSUME IInv, [Next]_vars PROVE IInv'
  OBVIOUS
<1>t. TypeOK'
  BY TypeOKNext
<1> SUFFICES CurrentInv' /\ StreamInv' /\ LineInv' /\ NoEventIsSkipped' /\ IdsAreHandledOnce'
  BY <1>t DEF IInv
<1> USE DEF IInv
\* Handling is the only step that changes what was handled.
<1>s. ASSUME times' = times
      PROVE  Seen' = Seen /\ NoEventIsSkipped' /\ IdsAreHandledOnce'
  BY <1>s DEF Seen, NoEventIsSkipped, IdsAreHandledOnce
<1>1. CASE Open \/ ConnectFails \/ Pause
  <2>1. /\ ~InStream /\ ~InStream' /\ lastId' = lastId /\ published' = published
        /\ times' = times /\ pc # "done"
    BY <1>1 DEF Open, ConnectFails, Pause, InStream, streamVars
  <2>2. Seen' = Seen /\ NoEventIsSkipped' /\ IdsAreHandledOnce' /\ Current' = Current
    BY <2>1, <1>s DEF Current
  <2> QED
    BY <2>1, <2>2 DEF CurrentInv, StreamInv, LineInv, InStream
<1>2. CASE Connected
  <2>1. /\ ~InStream /\ InStream' /\ lastId' = lastId /\ published' = published
        /\ times' = times /\ readId' = 0 /\ pos' = Resume(lastId)
        /\ eventId' = 0 /\ line' = "none" /\ pc # "done"
    BY <1>2 DEF Connected, InStream
  <2>2. /\ Seen' = Seen /\ NoEventIsSkipped' /\ IdsAreHandledOnce'
        /\ Current = lastId /\ Current' = lastId
    BY <2>1, <1>s DEF Current
  <2>3. StreamInv'
    BY <2>1, <2>2, SubscribeAssumption DEF StreamInv, CurrentInv, Resume, TypeOK, Events
  <2> QED
    BY <2>1, <2>2, <2>3 DEF CurrentInv, LineInv
<1>3. CASE StreamEnds
  <2>1. /\ pc = "reading" /\ ~InStream' /\ InStream /\ pc' # "reading"
        /\ published' = published /\ times' = times
        /\ pc' # "done" => lastId' = IF readId # 0 THEN readId ELSE lastId
    BY <1>3 DEF StreamEnds, InStream, streamVars
  <2>2. /\ Seen' = Seen /\ NoEventIsSkipped' /\ IdsAreHandledOnce'
        /\ pc' # "done" => Current' = Current
    BY <2>1, <1>s DEF Current
  <2> QED
    BY <2>1, <2>2 DEF CurrentInv, StreamInv, LineInv
<1>4. ASSUME NEW e \in Events, ReadId(e) \/ ReadData(e)
      PROVE  CurrentInv' /\ StreamInv' /\ LineInv' /\ NoEventIsSkipped' /\ IdsAreHandledOnce'
  <2>1. /\ pc' = pc /\ readId' = readId /\ lastId' = lastId /\ pos' = pos
        /\ published' = published /\ times' = times
    BY <1>4 DEF ReadId, ReadData, Arrives, streamVars
  <2>2. /\ Seen' = Seen /\ NoEventIsSkipped' /\ IdsAreHandledOnce'
        /\ Current' = Current /\ InStream' = InStream
    BY <2>1, <1>s DEF Current, InStream
  <2>3. LineInv'
    BY <1>4, SubscribeAssumption DEF ReadId, ReadData, Arrives, streamVars, LineInv, TypeOK
  <2> QED
    BY <2>1, <2>2, <2>3 DEF CurrentInv, StreamInv
<1>5. CASE HandlerReturns
  <2>1. /\ pc = "handling" /\ pc' = "reading" /\ readId' = readId /\ lastId' = lastId
        /\ pos' = pos /\ published' = published /\ times' = times
        /\ eventId' = 0 /\ line' = "none"
    BY <1>5 DEF HandlerReturns, streamVars
  <2>2. /\ Seen' = Seen /\ NoEventIsSkipped' /\ IdsAreHandledOnce'
        /\ InStream /\ InStream' /\ Current' = Current
    BY <2>1, <1>s DEF Current, InStream
  <2> QED
    BY <2>1, <2>2 DEF CurrentInv, StreamInv, LineInv
<1>6. ASSUME \/ \E who \in {"app", "handler"} : Cancel(who)
             \/ CancelReturns \/ ParentDone \/ Publish \/ UNCHANGED vars
      PROVE  CurrentInv' /\ StreamInv' /\ LineInv' /\ NoEventIsSkipped' /\ IdsAreHandledOnce'
  <2>1. /\ pc' = pc /\ readId' = readId /\ lastId' = lastId /\ pos' = pos
        /\ times' = times /\ eventId' = eventId /\ line' = line
        /\ published' = published \/ published' = published + 1
    BY <1>6 DEF Cancel, CancelReturns, ParentDone, Publish, vars, streamVars, readVars
  <2>2. /\ Seen' = Seen /\ NoEventIsSkipped' /\ IdsAreHandledOnce'
        /\ Current' = Current /\ InStream' = InStream
    BY <2>1, <1>s DEF Current, InStream
  <2>3. \A e \in Seen : e <= published'
    BY <2>1, SubscribeAssumption DEF CurrentInv, Seen, Events, TypeOK
  <2> QED
    BY <2>1, <2>2, <2>3 DEF CurrentInv, StreamInv, LineInv
<1> QED
  BY <1>1, <1>2, <1>3, <1>4, <1>5, <1>6, DispatchKeeps DEF Next

-----------------------------------------------------------------------------
\* The inductive invariant holds in every reachable state: the ID the loop resumes from,
\* the position of the stream and what was handled agree (subscribe.go:77-212).
THEOREM SubscriptionInvariant == Spec => []IInv
<1> QED
  BY IInvInit, IInvNext, PTL DEF Spec

\* Every variable keeps its type, and the pause stays between the first backoff and
\* maxBackoff (subscribe.go:149-176).
THEOREM SubscriptionTypes == Spec => []TypeOK
<1>1. IInv => TypeOK
  BY DEF IInv
<1> QED
  BY <1>1, SubscriptionInvariant, PTL

\* From the first event with an ID on the handler misses none, wherever connections
\* break and however often (subscribe.go:95, 158, 193).
THEOREM NothingIsSkipped == Spec => []NoEventIsSkipped
<1>1. IInv => NoEventIsSkipped
  BY DEF IInv
<1> QED
  BY <1>1, SubscriptionInvariant, PTL

\* No event with an ID is handled twice, though the server sends again what follows the
\* Last-Event-ID (subscribe.go:193-195).
THEOREM IdsOnce == Spec => []IdsAreHandledOnce
<1>1. IInv => IdsAreHandledOnce
  BY DEF IInv
<1> QED
  BY <1>1, SubscriptionInvariant, PTL
=============================================================================
