---------------------------- MODULE DurableProofs ----------------------------
(***************************************************************************)
(* Durable execution for every handler, every set of values and every      *)
(* number of attempts.                                                     *)
(*                                                                         *)
(* What a replay returns depends on where the cursor is; the argument is   *)
(* that the log always fits the handler position by position, so that the  *)
(* cursor is the number of operations done while the context replays, and  *)
(* the log has exactly the operations done once it does not.               *)
(***************************************************************************)
EXTENDS Durable, TLAPS

\* The log has the operations of the handler, from the first one on.
Fits(log) ==
    /\ Len(log) <= Len(Program)
    /\ \A i \in 1..Len(log) : /\ log[i].type = Program[i].type
                              /\ log[i].key = Program[i].key

\* Where an attempt is in its log.
Aligned ==
    /\ Len(results) <= Len(entries)
    /\ \A p \in 1..Len(results) : results[p] = entries[p].val
    /\ replaying => cursor = Len(results) /\ cursor < Len(entries)
    /\ ~replaying => Len(entries) = Len(results)

\* The logs there are fit the handler, and no mismatch has come of them.
LogsFit ==
    /\ Fits(ckpt)
    /\ \A log \in late : Fits(log)
    /\ ~mismatch
    /\ run = "running" => Fits(entries) /\ Aligned

\* As long as the handler has not gone on after a failed side effect.
LogInv ==
    /\ survived => Survives # {}
    /\ ~survived => LogsFit

IInv == TypeOK /\ LogInv

\* Whatever a checkpoint covered is in the log with the value it had.
Covers(log) ==
    /\ Len(agreed) <= Len(log)
    /\ \A p \in 1..Len(agreed) : agreed[p] = log[p].val

\* With every request answered, the attempt works on an extension of the checkpoint.
CoverInv == ~lost =>
    /\ late = {}
    /\ Covers(ckpt)
    /\ run = "running" =>
          /\ Covers(entries)
          /\ Len(ckpt) <= Len(entries)
          /\ \A i \in 1..Len(ckpt) : ckpt[i] = entries[i]

-----------------------------------------------------------------------------
(* Facts about sequences.                                                   *)

\* The log of a job without a checkpoint is a sequence of length 0.
LEMMA EmptyLog == ASSUME NEW S PROVE <<>> \in Seq(S) /\ Len(<<>>) = 0
OBVIOUS

\* len(entries) > 0, the test of durable.go:67, says that the log is not empty.
LEMMA NonEmptyLog == ASSUME NEW S, NEW s \in Seq(S) PROVE Len(s) \in Nat /\ (s # <<>> <=> Len(s) > 0)
OBVIOUS

\* What is read from a log at a valid position is an entry of it.
LEMMA ElementOfLog == ASSUME NEW S, NEW s \in Seq(S), NEW i \in 1..Len(s) PROVE s[i] \in S
OBVIOUS

\* append (durable.go:99, 129, 178) adds one entry at the end and keeps the others.
LEMMA Appending ==
    ASSUME NEW S, NEW s \in Seq(S), NEW e \in S
    PROVE  /\ Append(s, e) \in Seq(S)
           /\ Len(s) \in Nat
           /\ Len(Append(s, e)) = Len(s) + 1
           /\ \A i \in 1..Len(s) : Append(s, e)[i] = s[i]
           /\ Append(s, e)[Len(s) + 1] = e
OBVIOUS

-----------------------------------------------------------------------------
\* The handler is a finite sequence of operations.
LEMMA ProgramIsSeq == Program \in Seq([type : Types, key : STRING]) /\ Len(Program) \in Nat
<1>1. Program \in Seq([type : Types, key : STRING])
  BY DurableAssumption
<1> QED
  BY <1>1, NonEmptyLog

\* The types hold initially (durable.go:45-50).
LEMMA TypeOKInit == Init => TypeOK
<1> SUFFICES ASSUME Init PROVE TypeOK
  OBVIOUS
<1>1. entries \in Seq(Entry) /\ ckpt \in Seq(Entry)
  BY EmptyLog DEF Init
<1>2. results \in Seq(Values \cup {Error}) /\ agreed \in Seq(Values \cup {Error})
      /\ Len(results) = 0
  BY EmptyLog DEF Init
<1>3. run = "idle" /\ attempt \in Nat /\ cursor \in Nat /\ late = {}
  BY DEF Init
<1>4. replaying \in BOOLEAN /\ mismatch \in BOOLEAN
      /\ survived \in BOOLEAN /\ lost \in BOOLEAN
  BY DEF Init
<1>5. Len(results) <= Len(Program)
  BY <1>2, ProgramIsSeq
<1> QED
  BY <1>1, <1>2, <1>3, <1>4, <1>5, Zenon DEF TypeOK

\* Every step keeps them (durable.go:44-228).
LEMMA TypeOKNext == TypeOK /\ [Next]_vars => TypeOK'
<1> SUFFICES ASSUME TypeOK, [Next]_vars PROVE TypeOK'
  OBVIOUS
<1>0. Len(Program) \in Nat /\ Len(results) \in Nat
  BY ProgramIsSeq, NonEmptyLog DEF TypeOK
<1>h. survived' \in BOOLEAN /\ lost' \in BOOLEAN
  BY DEF Next, vars, history, dcVars, Begin, Replay, Record, SideEffectFails,
     SideEffectMismatch, Checkpoint, CheckpointFails, Complete, CompleteFails, Return,
     Crash, LateCheckpoint, TypeOK
<1>op. ASSUME Len(results) < Len(Program)
       PROVE Op \in [type : Types, key : STRING]
  <2>1. Len(results) + 1 \in 1..Len(Program)
    BY <1>op, <1>0
  <2> QED
    BY <2>1, ProgramIsSeq, ElementOfLog DEF Op
<1>app. ASSUME Len(results) < Len(Program), NEW v \in Values \cup {Error}
        PROVE  /\ Append(results, v) \in Seq(Values \cup {Error})
               /\ Len(Append(results, v)) <= Len(Program)
  <2>1. results \in Seq(Values \cup {Error})
    BY DEF TypeOK
  <2>2. /\ Append(results, v) \in Seq(Values \cup {Error})
        /\ Len(Append(results, v)) = Len(results) + 1
    BY <2>1, Appending
  <2> QED
    BY <1>app, <1>0, <2>2
<1>failed. ASSUME AtOp({"call"}), Failed
           PROVE /\ run' \in {"idle", "running", "acked"}
                 /\ results' \in Seq(Values \cup {Error})
                 /\ Len(results') <= Len(Program)
  <2>1. CASE Len(results) + 1 \in Survives
    BY <2>1, <1>failed, <1>app DEF TypeOK, Failed, AtOp
  <2>2. CASE Len(results) + 1 \notin Survives
    BY <2>2, <1>failed DEF TypeOK, Failed
  <2> QED
    BY <2>1, <2>2
<1>1. CASE Begin
  <2>1. entries' \in Seq(Entry)
    BY <1>1, EmptyLog DEF Begin, TypeOK
  <2>2. results' \in Seq(Values \cup {Error}) /\ Len(results') <= Len(Program)
    BY <1>1, <1>0, EmptyLog DEF Begin
  <2>3. replaying' \in BOOLEAN
    BY <1>1 DEF Begin
  <2>4. run' = "running" /\ attempt' \in Nat /\ cursor' \in Nat
        /\ ckpt' = ckpt /\ late' = late /\ agreed' = agreed
    BY <1>1 DEF Begin, TypeOK
  <2>5. mismatch' \in BOOLEAN
    BY <1>1 DEF Begin
  <2> QED
    BY <2>1, <2>2, <2>3, <2>4, <2>5, <1>h, Zenon DEF TypeOK
<1>2. CASE Replay
  <2>1. entries[cursor + 1] \in Entry
    BY <1>2 DEF Replay, Recorded, TypeOK
  <2>2. entries[cursor + 1].val \in Values
    BY <2>1 DEF Entry
  <2>3. results' \in Seq(Values \cup {Error}) /\ Len(results') <= Len(Program)
    BY <1>2, <1>app, <2>2 DEF Replay, AtOp
  <2>4. replaying' \in BOOLEAN
    BY <1>2 DEF Replay
  <2> QED
    BY <1>2, <2>3, <2>4, <1>h DEF Replay, TypeOK
<1>3. CASE SideEffectFails
  BY <1>3, <1>failed, <1>h DEF SideEffectFails, TypeOK
<1>4. CASE SideEffectMismatch
  BY <1>4, <1>failed, <1>h DEF SideEffectMismatch, dcVars, TypeOK
<1>5. ASSUME NEW v \in Values, Record(v) PROVE TypeOK'
  <2>1. [type |-> Op.type, key |-> Op.key, val |-> v] \in Entry
    BY <1>5, <1>op DEF Record, AtOp, Entry
  <2>2. entries' \in Seq(Entry)
    BY <1>5, <2>1, Appending DEF Record, TypeOK
  <2>3. results' \in Seq(Values \cup {Error}) /\ Len(results') <= Len(Program)
    BY <1>5, <1>app DEF Record, AtOp
  <2> QED
    BY <1>5, <2>2, <2>3, <1>h DEF Record, TypeOK
<1>6. CASE Checkpoint
  BY <1>6, <1>h DEF Checkpoint, dcVars, TypeOK
<1>7. CASE CheckpointFails
  BY <1>7, <1>h DEF CheckpointFails, dcVars, TypeOK
<1>8. CASE Complete
  BY <1>8, <1>h DEF Complete, dcVars, TypeOK
<1>9. CASE CompleteFails
  <2>1. late' \subseteq Seq(Entry)
    BY <1>9, EmptyLog DEF CompleteFails, TypeOK
  <2> QED
    BY <1>9, <2>1, <1>h DEF CompleteFails, dcVars, TypeOK
<1>10. CASE Return
  BY <1>10, <1>h DEF Return, dcVars, TypeOK
<1>11. CASE Crash
  BY <1>11, <1>h DEF Crash, dcVars, TypeOK
<1>12. ASSUME NEW log \in late, LateCheckpoint(log) PROVE TypeOK'
  BY <1>12, <1>h DEF LateCheckpoint, dcVars, TypeOK
<1>13. CASE UNCHANGED vars
  BY <1>13, <1>h DEF vars, dcVars, TypeOK
<1> QED
  BY <1>1, <1>2, <1>3, <1>4, <1>5, <1>6, <1>7, <1>8, <1>9, <1>10, <1>11, <1>12, <1>13
     DEF Next

-----------------------------------------------------------------------------
\* An operation is replayed exactly as long as the context is replaying, and its key
\* is the recorded one: the type and key tests of durable.go:83-162 cannot surprise.
LEMMA ReplayingMeansRecorded ==
    ASSUME IInv, ~survived, run = "running", Len(results) < Len(Program)
    PROVE  /\ Recorded <=> replaying
           /\ replaying => ~KeyMismatch
<1>1. Fits(entries) /\ Aligned
  BY DEF IInv, LogInv, LogsFit
<1>2. ASSUME replaying
      PROVE  /\ cursor < Len(entries)
             /\ entries[cursor + 1].type = Op.type
             /\ entries[cursor + 1].key = Op.key
  <2>1. cursor = Len(results) /\ cursor < Len(entries)
    BY <1>1, <1>2 DEF Aligned
  <2>2. Len(results) + 1 \in 1..Len(entries)
    BY <2>1 DEF IInv, TypeOK
  <2> QED
    BY <1>1, <2>1, <2>2 DEF Fits, Op
<1> QED
  BY <1>2 DEF Recorded, KeyMismatch

\* A step keeps the log aligned with the handler, unless the handler goes on after a
\* failed side effect (durable.go:44-228).
LEMMA LogsFitNext ==
    ASSUME IInv, [Next]_vars, ~survived'
    PROVE  LogsFit'
<1> USE DEF IInv
<1>s. ~survived
  BY DEF Next, vars, history, dcVars, Begin, Replay, Record, SideEffectFails,
     SideEffectMismatch, Checkpoint, CheckpointFails, Complete, CompleteFails, Return,
     Crash, LateCheckpoint
<1>l. LogsFit
  BY <1>s DEF LogInv
<1>t. TypeOK'
  BY TypeOKNext
<1>0. Program \in Seq([type : Types, key : STRING]) /\ Len(Program) \in Nat
  BY ProgramIsSeq
<1>1. CASE Begin
  <2>1. Fits(entries)'
    BY <1>1, <1>0, <1>l DEF Begin, LogsFit, Fits
  <2>2. Aligned'
    <3>1. entries' \in Seq(Entry)
      BY <1>t DEF TypeOK
    <3>2. Len(entries') \in Nat /\ (entries' # <<>> <=> Len(entries') > 0)
      BY <3>1, NonEmptyLog
    <3>3. Len(results') = 0
      BY <1>1, EmptyLog DEF Begin
    <3>4. cursor' = 0 /\ (replaying' <=> entries' # <<>>)
      BY <1>1 DEF Begin
    <3> QED
      BY <3>2, <3>3, <3>4 DEF Aligned
  <2> QED
    BY <1>1, <1>l, <2>1, <2>2 DEF Begin, LogsFit, Fits
<1>2. CASE Replay
  <2>1. run = "running" /\ Len(results) < Len(Program) /\ replaying
    BY <1>2, <1>l DEF Replay, AtOp, Recorded
  <2>2. Aligned /\ Fits(entries)
    BY <2>1, <1>l DEF LogsFit
  <2>3. Len(results') = Len(results) + 1
    BY <1>2, <1>l DEF Replay, TypeOK
  <2>4. \A p \in 1..Len(results') : results'[p] = entries[p].val
    BY <1>2, <2>1, <2>2, <2>3 DEF Replay, Aligned, TypeOK
  <2>5. Aligned'
    <3>1. Len(entries) \in Nat /\ Len(results) \in Nat
      BY NonEmptyLog DEF TypeOK
    <3>2. cursor = Len(results) /\ cursor < Len(entries)
      BY <2>1, <2>2 DEF Aligned
    <3>3. cursor' = cursor + 1 /\ (replaying' <=> cursor + 1 < Len(entries))
          /\ entries' = entries
      BY <1>2 DEF Replay
    <3> QED
      BY <2>3, <2>4, <3>1, <3>2, <3>3 DEF Aligned
  <2> QED
    BY <1>2, <1>l, <2>2, <2>5 DEF Replay, LogsFit, Fits
<1>3. CASE SideEffectFails
  <2>1. Len(results) + 1 \notin Survives
    BY <1>3 DEF SideEffectFails
  <2> QED
    BY <1>3, <1>l, <2>1 DEF SideEffectFails, Failed, LogsFit, Fits
<1>4. CASE SideEffectMismatch
  BY <1>4, <1>s, ReplayingMeansRecorded DEF SideEffectMismatch, AtOp
<1>5. ASSUME NEW v \in Values, Record(v) PROVE LogsFit'
  <2>0. Len(entries) \in Nat
    BY NonEmptyLog DEF TypeOK
  <2>1. run = "running" /\ Len(results) < Len(Program) /\ ~replaying
    BY <1>5, <1>s, ReplayingMeansRecorded DEF Record, AtOp
  <2>2. Len(entries) = Len(results) /\ Fits(entries)
        /\ \A p \in 1..Len(results) : results[p] = entries[p].val
    BY <2>1, <1>l DEF LogsFit, Aligned
  <2>3. Len(entries') = Len(entries) + 1 /\ Len(results') = Len(results) + 1
    BY <1>5 DEF Record, TypeOK
  <2>4. \A i \in 1..Len(entries) : entries'[i] = entries[i] /\ results'[i] = results[i]
    BY <1>5, <2>2 DEF Record, TypeOK
  <2>5. /\ entries'[Len(entries) + 1] = [type |-> Op.type, key |-> Op.key, val |-> v]
        /\ results'[Len(entries) + 1] = v
    BY <1>5, <2>2 DEF Record, TypeOK
  <2>6. Fits(entries)'
    <3>1. Len(entries') <= Len(Program)
      BY <2>1, <2>2, <2>3, <1>0 DEF TypeOK
    <3>2. ASSUME NEW i \in 1..Len(entries')
          PROVE entries'[i].type = Program[i].type /\ entries'[i].key = Program[i].key
      <4>1. CASE i \in 1..Len(entries)
        BY <4>1, <2>2, <2>4 DEF Fits
      <4>2. CASE i = Len(entries) + 1
        BY <4>2, <2>2, <2>5 DEF Op
      <4> QED
        BY <2>0, <2>3, <4>1, <4>2
    <3> QED
      BY <3>1, <3>2 DEF Fits
  <2>7. Aligned'
    <3>1. ASSUME NEW p \in 1..Len(results') PROVE results'[p] = entries'[p].val
      <4>1. CASE p \in 1..Len(entries)
        BY <4>1, <2>2, <2>4
      <4>2. CASE p = Len(entries) + 1
        BY <4>2, <2>5
      <4> QED
        BY <2>0, <2>2, <2>3, <4>1, <4>2
    <3>2. ~replaying'
      BY <1>5 DEF Record
    <3> QED
      BY <2>0, <2>2, <2>3, <3>1, <3>2 DEF Aligned
  <2> QED
    BY <1>5, <1>l, <2>6, <2>7 DEF Record, LogsFit, Fits
<1>6. CASE Checkpoint
  BY <1>6, <1>l DEF Checkpoint, dcVars, LogsFit, Fits, Aligned
<1>7. CASE CheckpointFails
  BY <1>7, <1>l DEF CheckpointFails, dcVars, LogsFit, Fits, Aligned
<1>8. CASE Complete
  BY <1>8, <1>0, <1>l DEF Complete, dcVars, LogsFit, Fits, Aligned
<1>9. CASE CompleteFails
  BY <1>9, <1>0, <1>l DEF CompleteFails, dcVars, LogsFit, Fits, Aligned
<1>10. CASE Return
  BY <1>10, <1>l DEF Return, dcVars, LogsFit, Fits
<1>11. CASE Crash
  BY <1>11, <1>l DEF Crash, dcVars, LogsFit, Fits
<1>12. ASSUME NEW log \in late, LateCheckpoint(log) PROVE LogsFit'
  BY <1>12, <1>l DEF LateCheckpoint, dcVars, LogsFit, Fits, Aligned
<1>13. CASE UNCHANGED vars
  BY <1>13, <1>l DEF vars, dcVars, LogsFit, Fits, Aligned
<1> QED
  BY <1>1, <1>2, <1>3, <1>4, <1>5, <1>6, <1>7, <1>8, <1>9, <1>10, <1>11, <1>12, <1>13
     DEF Next

\* Type correctness of the durable context (durable.go:44-228), for any handler.
THEOREM DurableTypes == Spec => []TypeOK
<1>1. TypeOK /\ [Next]_vars => TypeOK'
  BY TypeOKNext
<1> QED
  BY <1>1, TypeOKInit, PTL DEF Spec

\* The log always fits the handler, whatever checkpoints are lost, late or not loaded,
\* until the handler goes on after a failed side effect (durable.go:44-228).
THEOREM LogInvariant == Spec => []IInv
<1>1. Init => IInv
  <2>1. Program \in Seq([type : Types, key : STRING]) /\ Len(Program) \in Nat
    BY ProgramIsSeq
  <2>2. Init => LogInv
    BY <2>1 DEF Init, LogInv, LogsFit, Fits
  <2> QED
    BY <2>2, TypeOKInit DEF IInv
<1>2. IInv /\ [Next]_vars => IInv'
  <2> SUFFICES ASSUME IInv, [Next]_vars PROVE IInv'
    OBVIOUS
  <2>1. (survived => Survives # {})'
    <3>1. survived => Survives # {}
      BY DEF IInv, LogInv
    <3>2. survived' => survived \/ Survives # {}
      BY DEF Next, vars, history, dcVars, Begin, Replay, Record, SideEffectFails,
         SideEffectMismatch, Checkpoint, CheckpointFails, Complete, CompleteFails, Return,
         Crash, LateCheckpoint, IInv, TypeOK
    <3> QED
      BY <3>1, <3>2
  <2>2. (~survived => LogsFit)'
    BY LogsFitNext
  <2> QED
    BY <2>1, <2>2, TypeOKNext DEF IInv, LogInv
<1> QED
  BY <1>1, <1>2, PTL DEF Spec

\* The next checkpoint would save exactly what the handler was told (durable.go:186),
\* with lost, late and unloaded checkpoints.
THEOREM LogIsTold == Spec => []LogIsWhatHandlerSaw
<1>1. IInv => LogIsWhatHandlerSaw
  BY DEF IInv, LogInv, LogsFit, Aligned, LogIsWhatHandlerSaw
<1> QED
  BY <1>1, LogInvariant, PTL

\* The error of durable.go:156 is only met by a handler that changed or that went on
\* after a failed side effect.
THEOREM MismatchIsCaused == Spec => []MismatchHasCause
<1>1. IInv => MismatchHasCause
  BY DEF IInv, LogInv, LogsFit, MismatchHasCause
<1> QED
  BY <1>1, LogInvariant, PTL

-----------------------------------------------------------------------------
(* Handlers that return their errors, on a network that answers: replay is  *)
(* exact.                                                                   *)

\* A step of a reliable run keeps the attempt an extension of the checkpoint
\* (durable.go:64-71, 97-104, 186-228).
LEMMA CoverInvNext ==
    ASSUME Survives = {}, IInv, IInv', CoverInv, [Next]_vars
    PROVE  CoverInv'
<1> USE DEF IInv
<1> SUFFICES ASSUME ~lost' PROVE CoverInv'
  BY DEF CoverInv
<1>0. ~survived
  BY DEF LogInv
<1>f. LogsFit
  BY <1>0 DEF LogInv
<1>l. ~lost
  BY DEF Next, vars, history, dcVars, Begin, Replay, Record, SideEffectFails,
     SideEffectMismatch, Checkpoint, CheckpointFails, Complete, CompleteFails, Return,
     Crash, LateCheckpoint
<1>n. Len(entries) \in Nat /\ Len(ckpt) \in Nat /\ Len(agreed) \in Nat
  BY NonEmptyLog DEF TypeOK
<1>1. CASE Begin
  <2>1. entries' = ckpt /\ UNCHANGED <<ckpt, late, agreed>>
    BY <1>0, <1>1 DEF Begin
  <2> QED
    BY <2>1, <1>n, <1>l DEF CoverInv, Covers
<1>2. CASE Replay
  BY <1>2, <1>l DEF Replay, CoverInv, Covers
<1>3. CASE SideEffectFails
  BY <1>3, <1>0, <1>l DEF SideEffectFails, Failed, CoverInv, Covers
<1>4. CASE SideEffectMismatch
  BY <1>4, <1>0, ReplayingMeansRecorded DEF SideEffectMismatch, AtOp
<1>5. ASSUME NEW v \in Values, Record(v) PROVE CoverInv'
  <2>1. run = "running" /\ UNCHANGED <<ckpt, late, agreed>>
    BY <1>5 DEF Record, AtOp
  <2>2. [type |-> Op.type, key |-> Op.key, val |-> v] \in Entry
    <3>1. Len(results) + 1 \in 1..Len(Program)
      BY <1>5, ProgramIsSeq, NonEmptyLog DEF Record, AtOp, TypeOK
    <3>2. Op \in [type : Types, key : STRING]
      BY <3>1, ProgramIsSeq, ElementOfLog DEF Op
    <3> QED
      BY <3>2 DEF Entry
  <2>3. /\ Len(entries') = Len(entries) + 1
        /\ \A i \in 1..Len(entries) : entries'[i] = entries[i]
    BY <1>5, <2>2, Appending DEF Record, TypeOK
  <2> QED
    BY <2>1, <2>3, <1>n, <1>l DEF CoverInv, Covers
<1>6. CASE Checkpoint
  <2>1. run = "running" /\ run' = run /\ entries' = entries /\ late' = late
        /\ ckpt' = entries /\ agreed' = results
    BY <1>6 DEF Checkpoint, dcVars
  <2>2. /\ Len(results) <= Len(entries)
        /\ \A p \in 1..Len(results) : results[p] = entries[p].val
    BY <2>1, <1>f DEF LogsFit, Aligned
  <2> QED
    BY <2>1, <2>2, <1>n, <1>l DEF CoverInv, Covers
<1>7. CASE CheckpointFails \/ CompleteFails
  BY <1>7 DEF CheckpointFails, CompleteFails
<1>8. CASE Complete
  <2>1. ckpt' = <<>> /\ agreed' = <<>> /\ entries' = entries /\ late' = late
    BY <1>8 DEF Complete, dcVars
  <2>2. Len(ckpt') = 0 /\ Len(agreed') = 0
    BY <2>1, EmptyLog
  <2> QED
    BY <2>1, <2>2, <1>n, <1>l DEF CoverInv, Covers
<1>9. CASE Return \/ Crash
  BY <1>9, <1>l DEF Return, Crash, dcVars, CoverInv, Covers
<1>10. ASSUME NEW log \in late, LateCheckpoint(log) PROVE CoverInv'
  BY <1>10, <1>l DEF CoverInv
<1>11. CASE UNCHANGED vars
  BY <1>11, <1>l DEF vars, dcVars, CoverInv, Covers
<1> QED
  BY <1>1, <1>2, <1>3, <1>4, <1>5, <1>6, <1>7, <1>8, <1>9, <1>10, <1>11 DEF Next

\* The attempt under way works on an extension of the server's checkpoint, which has
\* every value a checkpoint ever covered (durable.go:64-71, 186-220).
THEOREM CoverInvariant == ASSUME Survives = {} PROVE Spec => [](IInv /\ CoverInv)
<1>1. Init => CoverInv
  <2> SUFFICES ASSUME Init PROVE CoverInv
    OBVIOUS
  <2>1. run = "idle" /\ late = {} /\ ckpt = <<>> /\ agreed = <<>>
    BY DEF Init
  <2>2. Len(ckpt) = 0 /\ Len(agreed) = 0
    BY <2>1, EmptyLog
  <2> QED
    BY <2>1, <2>2 DEF CoverInv, Covers
<1>2. Spec => []IInv
  BY LogInvariant
<1>3. IInv /\ IInv' /\ CoverInv /\ [Next]_vars => CoverInv'
  BY CoverInvNext
<1> QED
  BY <1>1, <1>2, <1>3, PTL DEF Spec

\* Every operation a checkpoint covers returns in every later attempt what it returned
\* before (durable.go:79-182).
THEOREM FaithfulReplay == ASSUME Survives = {} PROVE Spec => []ReplayIsFaithful
<1>1. IInv /\ CoverInv => ReplayIsFaithful
  BY DEF IInv, LogInv, LogsFit, Aligned, CoverInv, Covers, ReplayIsFaithful
<1> QED
  BY <1>1, CoverInvariant, PTL

\* Nothing a checkpoint covers is executed again (durable.go:97, 125, 168): such a
\* handler has no failed operation behind it.
THEOREM WorkIsNotRepeated == ASSUME Survives = {} PROVE Spec => NothingIsRedone
<1>1. ASSUME IInv, CoverInv, [Next]_vars, ~lost, run = "running",
             Len(entries') > Len(entries)
      PROVE  Len(results) >= Len(agreed)
  <2>n. Len(entries) \in Nat /\ Len(agreed) \in Nat
    BY <1>1, NonEmptyLog DEF IInv, TypeOK
  <2>1. PICK v \in Values : Record(v)
    <3>1. entries' # entries
      BY <1>1, <2>n
    <3> QED
      BY <1>1, <3>1 DEF Next, vars, dcVars, Begin, Replay, SideEffectFails,
         SideEffectMismatch, Checkpoint, CheckpointFails, Complete, CompleteFails, Return,
         Crash, LateCheckpoint
  <2>2. ~replaying
    BY <1>1, <2>1, ReplayingMeansRecorded DEF Record, AtOp, IInv, LogInv
  <2> QED
    BY <1>1, <2>2, <2>n DEF IInv, LogInv, LogsFit, Aligned, CoverInv, Covers
<1>2. IInv /\ CoverInv /\ [Next]_vars =>
         [/\ ~lost /\ run = "running"
          /\ Len(entries') > Len(entries) /\ Len(results) < Len(agreed)
          => agreed[Len(results) + 1] = Error]_vars
  <2> SUFFICES ASSUME IInv, CoverInv, [Next]_vars, ~lost, run = "running",
                      Len(entries') > Len(entries), Len(results) < Len(agreed)
               PROVE  FALSE
    OBVIOUS
  <2>1. Len(results) >= Len(agreed)
    BY <1>1
  <2>2. Len(results) \in Nat /\ Len(agreed) \in Nat
    BY DEF IInv, TypeOK
  <2> QED
    BY <2>1, <2>2
<1> QED
  BY <1>2, CoverInvariant, PTL DEF Spec, NothingIsRedone

\* Until it is deleted, the server's log only grows (durable.go:187-190, 218).
THEOREM CheckpointGrows == ASSUME Survives = {} PROVE Spec => CheckpointOnlyGrows
<1>1. ASSUME IInv, CoverInv, [Next]_vars, ~lost', ckpt' # <<>>
      PROVE  /\ Len(ckpt) <= Len(ckpt')
             /\ \A i \in 1..Len(ckpt) : ckpt'[i] = ckpt[i]
  <2>n. Len(ckpt) \in Nat
    BY <1>1, NonEmptyLog DEF IInv, TypeOK
  <2>l. ~lost
    BY <1>1 DEF Next, vars, history, dcVars, Begin, Replay, Record, SideEffectFails,
       SideEffectMismatch, Checkpoint, CheckpointFails, Complete, CompleteFails, Return,
       Crash, LateCheckpoint
  <2>1. CASE Checkpoint
    BY <1>1, <2>l, <2>1 DEF Checkpoint, CoverInv
  <2>2. CASE ckpt' = ckpt
    BY <2>2, <2>n
  <2>3. Checkpoint \/ ckpt' = ckpt
    BY <1>1, <2>l DEF Next, vars, dcVars, Begin, Replay, SideEffectFails, Record,
       SideEffectMismatch, CheckpointFails, Complete, CompleteFails, Return,
       Crash, LateCheckpoint, CoverInv
  <2> QED
    BY <2>1, <2>2, <2>3
<1>2. IInv /\ CoverInv /\ [Next]_vars =>
         [~lost' /\ ckpt' # <<>> => /\ Len(ckpt) <= Len(ckpt')
                                    /\ \A i \in 1..Len(ckpt) : ckpt'[i] = ckpt[i]]_vars
  BY <1>1
<1> QED
  BY <1>2, CoverInvariant, PTL DEF Spec, CheckpointOnlyGrows
=============================================================================
