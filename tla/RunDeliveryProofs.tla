-------------------------- MODULE RunDeliveryProofs --------------------------
(***************************************************************************)
(* Proofs about RunDelivery for every number of connections, commands in   *)
(* flight and content events: type correctness, one Runtime invocation at  *)
(* most, the finality of the Bridge's first outcome and of Central's       *)
(* verdict, and the release of the cancellation tombstone; then that       *)
(* Central's log agrees with the Bridge's record and never meets a gap,    *)
(* that a Run shown as canceled does not execute, and that the exchange    *)
(* implements the life of a Run as the Room sees it.                       *)
(***************************************************************************)
EXTENDS RunDelivery, SequenceTheorems, TLAPS

-----------------------------------------------------------------------------
(* The inductive invariant                                                 *)
(*                                                                         *)
(* That the Runtime is invoked once follows from what the inbox record     *)
(* says while a worker carries it towards the Runtime, so the invariant    *)
(* relates the record, the worker's position and the count of invocations. *)

\* Positions of a worker that has admitted the Run and not yet invoked the Runtime.
PreStart == {"check1", "prepare", "check2", "ack", "start1", "gate", "start2", "start"}

\* Positions that only a fresh record reaches.
FreshOnly == {"start1", "gate", "start2", "start"}

ExecInv ==
  /\ started <= 1
  /\ started > 0 => rec.state \notin {"none", "preparing"}
  /\ wk.pc \in FreshOnly => wk.fresh
  /\ wk.fresh /\ wk.pc \in PreStart
       => /\ started = 0
          /\ rec.state = "accepted" \/ (rec.state = "preparing" /\ wk.pc \in {"check1", "prepare"})
  /\ wk.pc = "running" => rec.state \in {"accepted", "working"}
  /\ wk.pc \in {"emit", "sendLast"}
       => rec.ev # << >> /\ rec.state \notin {"none", "preparing"}
  /\ conn = "down" => wk = Idle /\ staging = "no"

IInv == TypeOK /\ ExecInv

-----------------------------------------------------------------------------
(* Types of the operators of CentralRun *)

OutcomeType == [hub : Hub, out : Seq(DownMessage)]

\* Applying an event keeps the rows of a Run well-formed.
LEMMA ApplyEventType ==
  ASSUME NEW h \in Hub, NEW seq \in Nat, NEW kind \in EventKind
  PROVE  applyEvent(h, seq, kind) \in Hub
<1>1. h.log \in Seq(EventKind) /\ Append(h.log, kind) \in Seq(EventKind)
  BY DEF Hub
<1>2. (IF kind = "reply" THEN h.state ELSE kind) \in RunState
  BY DEF Hub, EventKind
<1> QED
  BY <1>1, <1>2 DEF applyEvent, Hub, RunState, Terminal

\* An event of Central's own keeps the rows of a Run well-formed.
LEMMA LocalEventType ==
  ASSUME NEW h \in Hub, NEW kind \in RunState
  PROVE  LocalEvent(h, kind) \in Hub
<1>1. lastSequence(h) + 1 \in Nat /\ kind \in EventKind
  BY DEF lastSequence, Hub, EventKind
<1> QED
  BY <1>1, ApplyEventType DEF LocalEvent

\* A cancellation request keeps the rows of a Run well-formed.
LEMMA RequestCancellationType ==
  ASSUME NEW h \in Hub
  PROVE  requestCancellation(h) \in Hub
<1>1. LocalEvent(h, "canceled") \in Hub
  BY LocalEventType DEF RunState, terminalStates
<1>2. [h EXCEPT !.intent = "pending"] \in Hub
  BY DEF Hub
<1> QED
  BY <1>1, <1>2 DEF requestCancellation

\* Commands are written as sequences of commands.
LEMMA CommandTypes ==
  /\ << >> \in Seq(DownMessage)
  /\ <<"run.requested">> \in Seq(DownMessage)
  /\ <<"run.cancel_requested">> \in Seq(DownMessage)
  /\ \A h : cancelCommand(h) \in Seq(DownMessage)
<1>1. << >> \in Seq(DownMessage)
  OBVIOUS
<1>2. <<"run.requested">> \in Seq(DownMessage) /\ <<"run.cancel_requested">> \in Seq(DownMessage)
  BY DEF DownMessage
<1>3. ASSUME NEW h PROVE cancelCommand(h) \in Seq(DownMessage)
  BY <1>1, <1>2, Zenon DEF cancelCommand
<1> QED
  BY <1>1, <1>2, <1>3

\* An outcome is made of rows and commands.
LEMMA OutcomeIsTyped ==
  ASSUME NEW h \in Hub, NEW msgs \in Seq(DownMessage)
  PROVE  /\ Outcome(h, msgs) \in OutcomeType
         /\ Outcome(h, msgs).hub = h
         /\ Outcome(h, msgs).out = msgs
BY DEF Outcome, OutcomeType

\* Every outcome of the cancellation sweep is well-formed.
LEMMA SweepType ==
  ASSUME NEW h \in Hub
  PROVE  sweep(h) \subseteq OutcomeType
<1>1. LocalEvent(h, "outcome_unknown") \in Hub
  BY LocalEventType DEF RunState, terminalStates
<1>2. Outcome(LocalEvent(h, "outcome_unknown"), << >>) \in OutcomeType
  BY <1>1, CommandTypes, OutcomeIsTyped
<1>3. Outcome(h, cancelCommand(h)) \in OutcomeType
  <2>1. cancelCommand(h) \in Seq(DownMessage)
    BY CommandTypes
  <2> QED
    BY <2>1, OutcomeIsTyped
<1>4. Outcome(h, << >>) \in OutcomeType
  BY CommandTypes, OutcomeIsTyped
<1> QED
  BY <1>2, <1>3, <1>4 DEF sweep

\* Every outcome of a dispatch is well-formed.
LEMMA DispatchType ==
  ASSUME NEW h \in Hub
  PROVE  dispatch(h) \subseteq OutcomeType
<1>1. LocalEvent(h, "expired") \in Hub /\ LocalEvent(h, "failed") \in Hub
  BY LocalEventType DEF RunState, terminalStates
<1> DEFINE ensured == [h EXCEPT !.delivery = IF @ = "none" THEN "pending" ELSE @]
<1>2. ensured \in Hub
  BY DEF Hub
<1> HIDE DEF ensured
<1>3. Outcome(h, << >>) \in OutcomeType /\ Outcome(ensured, << >>) \in OutcomeType
  BY <1>2, CommandTypes, OutcomeIsTyped
<1>4. Outcome(LocalEvent(h, "expired"), << >>) \in OutcomeType
  BY <1>1, CommandTypes, OutcomeIsTyped
<1>5. Outcome(LocalEvent(h, "failed"), << >>) \in OutcomeType
  BY <1>1, CommandTypes, OutcomeIsTyped
<1>6. Outcome(ensured, IF ensured.delivery = "pending"
                       THEN <<"run.requested">> ELSE << >>) \in OutcomeType
  BY <1>2, CommandTypes, OutcomeIsTyped
<1> QED
  BY <1>3, <1>4, <1>5, <1>6 DEF dispatch, ensured

\* Every outcome of a hello, publish or heartbeat is well-formed.
LEMMA DeviceSyncType ==
  ASSUME NEW h \in Hub
  PROVE  DeviceSync(h) \subseteq OutcomeType
<1> SUFFICES ASSUME NEW s \in sweep(h), NEW d \in dispatch(s.hub)
             PROVE  Outcome(d.hub, s.out \o d.out) \in OutcomeType
  BY DEF DeviceSync
<1>1. s \in OutcomeType /\ s.hub \in Hub /\ s.out \in Seq(DownMessage)
  BY SweepType DEF OutcomeType
<1>2. d \in OutcomeType
  BY <1>1, DispatchType
<1>3. d.hub \in Hub /\ d.out \in Seq(DownMessage)
  BY <1>2 DEF OutcomeType
<1>4. s.out \o d.out \in Seq(DownMessage)
  BY <1>1, <1>3
<1> QED
  BY <1>3, <1>4 DEF Outcome, OutcomeType

\* The reconciliation of a revoked Device is well-formed.
LEMMA RevokeRunType ==
  ASSUME NEW h \in Hub
  PROVE  revokeRun(h) \in OutcomeType
<1>1. LocalEvent(h, "outcome_unknown") \in Hub /\ LocalEvent(h, "failed") \in Hub
  BY LocalEventType DEF RunState, terminalStates
<1> QED
  BY <1>1, CommandTypes, OutcomeIsTyped DEF revokeRun

\* A message that is not rejected keeps the rows of a Run well-formed.
LEMMA ReceiveEventType ==
  ASSUME NEW h \in Hub, NEW m \in UpMessage, m.kind # "hello"
  PROVE  ReceiveEvent(h, m) \in Hub
<1>1. m.seq \in Nat /\ m.kind \in EventKind
  BY DEF UpMessage
<1>2. applyEvent(h, m.seq, m.kind) \in Hub
  BY <1>1, ApplyEventType
<1>3. accept(h) \in Hub
  <2>1. applyEvent(h, 1, "delivered") \in Hub
    BY ApplyEventType DEF EventKind, RunState
  <2> QED
    BY <2>1 DEF accept, Hub
<1>4. \A g \in Hub : LocalEvent(g, "outcome_unknown") \in Hub
  BY LocalEventType DEF RunState, terminalStates
<1> QED
  BY <1>2, <1>3, <1>4 DEF ReceiveEvent
-----------------------------------------------------------------------------
(* Types of the operators of BridgeSocket and BridgeRun *)

RecordType == [state : InboxState, ev : Seq(EventKind)]

WorkerType == [owner : {"none", "worker", "reader"}, pc : Step \cup {"idle"},
               fresh : BOOLEAN, perr : BOOLEAN, explicit : BOOLEAN]

\* The kinds of event a Bridge persists.
BridgeKind == {"working", "reply"} \cup isTerminalState

\* Commands on their way to the Bridge stay commands.
LEMMA SentType ==
  ASSUME SocketTypeOK, NEW r, NEW s, NEW msgs \in Seq(DownMessage)
  PROVE  Sent(r, s, msgs) \in Seq(DownMessage)
<1>1. down \o msgs \in Seq(DownMessage) /\ down \in Seq(DownMessage)
  BY DEF SocketTypeOK
<1> QED
  BY <1>1, Zenon DEF Sent

\* Messages on their way to Central stay messages.
LEMMA WrittenType ==
  ASSUME SocketTypeOK, NEW msgs \in Seq(UpMessage)
  PROVE  Written(msgs) \in [Epochs -> Seq(UpMessage)]
<1>1. up \in [Epochs -> Seq(UpMessage)]
  BY DEF SocketTypeOK
<1>2. ASSUME epoch \in Epochs
      PROVE  [up EXCEPT ![epoch] = @ \o msgs] \in [Epochs -> Seq(UpMessage)]
  <2>1. up[epoch] \in Seq(UpMessage) /\ up[epoch] \o msgs \in Seq(UpMessage)
    BY <1>1, <1>2
  <2> QED
    BY <1>1, <2>1
<1> QED
  BY <1>1, <1>2 DEF Written

\* The sequenced messages of a record.
LEMMA EventsType ==
  ASSUME NEW r \in RecordType
  PROVE  /\ Events(r) \in Seq(UpMessage)
         /\ <<Accepted>> \o Events(r) \in Seq(UpMessage)
         /\ Len(Events(r)) = Len(r.ev)
<1>1. r.ev \in Seq(EventKind) /\ Len(r.ev) \in Nat
  BY DEF RecordType
<1>2. \A i \in 1 .. Len(r.ev) : [seq |-> i + 1, kind |-> r.ev[i]] \in UpMessage
  BY <1>1 DEF UpMessage
<1>3. Events(r) \in Seq(UpMessage) /\ Len(Events(r)) = Len(r.ev)
  BY <1>1, <1>2 DEF Events
<1>4. <<Accepted>> \in Seq(UpMessage)
  BY DEF Accepted, UpMessage, EventKind, RunState
<1> QED
  BY <1>3, <1>4

\* Appending an event keeps a record well-formed.
LEMMA AppendEventType ==
  ASSUME NEW r \in RecordType, NEW kind \in BridgeKind
  PROVE  AppendEvent(r, kind) \in RecordType
<1>1. kind \in EventKind /\ (kind # "reply" => kind \in InboxState)
  BY DEF BridgeKind, EventKind, RunState, InboxState, isTerminalState, terminalStates
<1>2. Append(r.ev, kind) \in Seq(EventKind) /\ r.state \in InboxState
  BY <1>1 DEF RecordType
<1> QED
  BY <1>1, <1>2 DEF AppendEvent, RecordType

\* A local transition keeps a record well-formed.
LEMMA LocalType ==
  ASSUME NEW r \in RecordType, NEW s \in InboxState
  PROVE  Local(r, s) \in RecordType
BY DEF Local, RecordType

\* Canceling keeps a record well-formed.
LEMMA CancelQueuedType ==
  ASSUME NEW r \in RecordType
  PROVE  CancelQueued(r) \in RecordType
<1>1. "canceled" \in BridgeKind
  BY DEF BridgeKind, isTerminalState
<1> QED
  BY <1>1, AppendEventType DEF CancelQueued

\* Recovery keeps a record well-formed and replays messages.
LEMMA RecoveredType ==
  ASSUME NEW r \in RecordType, NEW t \in BOOLEAN
  PROVE  /\ Recovered(r, t) \in RecordType
         /\ RecoveryReport(r, t) \in Seq(UpMessage)
<1>1. "outcome_unknown" \in BridgeKind
  BY DEF BridgeKind, isTerminalState
<1>2. Recovered(r, t) \in RecordType
  BY <1>1, AppendEventType, CancelQueuedType DEF Recovered
<1>3. <<Accepted>> \o Events(Recovered(r, t)) \in Seq(UpMessage)
  BY <1>2, EventsType
<1>4. << >> \in Seq(UpMessage)
  OBVIOUS
<1> QED
  BY <1>2, <1>3, <1>4, Zenon DEF RecoveryReport

-----------------------------------------------------------------------------
(* Type correctness, action by action *)

\* Central's handlers, timers, restart and receptions preserve the types.
LEMMA CentralTypeStep ==
  ASSUME TypeOK, Central
  PROVE  TypeOK'
<1> USE DEF TypeOK, CentralTypeOK
<1>1. BridgeTypeOK'
  BY DEF Central, BridgeTypeOK, bridgeVars
<1>2. ASSUME NEW o \in OutcomeType
      PROVE  o.hub \in Hub /\ o.out \in Seq(DownMessage)
  BY <1>2 DEF OutcomeType
<1>3. ASSUME NEW o \in OutcomeType, Respond(o)
      PROVE  hub' \in Hub /\ down' \in Seq(DownMessage)
  BY <1>2, <1>3, SentType DEF Respond
<1>4. ASSUME NEW k \in RunState, hub' = LocalEvent(hub, k)
      PROVE  hub' \in Hub
  BY <1>4, LocalEventType
<1>5. CASE DispatchRun
  BY <1>1, <1>3, <1>5, DispatchType DEF DispatchRun, SocketTypeOK
<1>6. CASE ExpireQueued
  BY <1>1, <1>4, <1>6 DEF ExpireQueued, SocketTypeOK, socketVars, RunState, terminalStates
<1>7. CASE CancelRun
  <2> DEFINE h == requestCancellation(hub)
  <2>1. h \in Hub /\ cancelCommand(h) \in Seq(DownMessage)
    BY RequestCancellationType, CommandTypes
  <2>2. Outcome(h, cancelCommand(h)) \in OutcomeType
    BY <2>1, OutcomeIsTyped
  <2>3. Respond(Outcome(h, cancelCommand(h)))
    BY <1>7 DEF CancelRun
  <2> HIDE DEF h
  <2> QED
    BY <1>1, <1>3, <1>7, <2>2, <2>3, DiscussionAssumption DEF CancelRun, SocketTypeOK
<1>8. CASE CancellationSweep
  BY <1>1, <1>3, <1>8, SweepType DEF CancellationSweep, SocketTypeOK
<1>9. CASE Heartbeat
  BY <1>1, <1>3, <1>9, DeviceSyncType DEF Heartbeat, SocketTypeOK
<1>10. CASE CloseClarification
  BY <1>1, <1>4, <1>10 DEF CloseClarification, SocketTypeOK, socketVars, RunState, terminalStates
<1>11. CASE WaveDeadline
  BY <1>1, <1>4, <1>11 DEF WaveDeadline, SocketTypeOK, socketVars, RunState, terminalStates
<1>12. CASE Revoke
  <2>1. hub' \in Hub /\ down' \in Seq(DownMessage)
    BY <1>3, <1>12, RevokeRunType DEF Revoke
  <2>2. sk' \in [Epochs -> SocketState]
    BY <1>12 DEF Revoke, SocketTypeOK, SocketState
  <2>3. reg' \in 0 .. MaxEpoch
    BY <1>12, EpochAssumption DEF Revoke
  <2>4. revoked' \in BOOLEAN
    BY <1>12 DEF Revoke
  <2>5. UNCHANGED <<discCanceled, epoch, conn, up>>
    BY <1>12 DEF Revoke
  <2> QED
    BY <1>1, <2>1, <2>2, <2>3, <2>4, <2>5 DEF SocketTypeOK
<1>13. CASE CentralRestart
  <2> DEFINE h == IF revoked' THEN revokeRun(hub).hub ELSE hub
  <2>0. h \in Hub /\ revoked' \in BOOLEAN
    BY <1>2, <1>13, RevokeRunType DEF CentralRestart
  <2>1. PICK o \in sweep(h) : hub' = closeCanceledWaves(o.hub)
    BY <1>13 DEF CentralRestart
  <2> HIDE DEF h
  <2>2. o.hub \in Hub
    BY <1>2, <2>0, SweepType
  <2>3. /\ LocalEvent(o.hub, "canceled") \in Hub
        /\ LocalEvent(o.hub, "outcome_unknown") \in Hub
    BY <2>2, LocalEventType DEF RunState, terminalStates
  <2>4. hub' \in Hub
    BY <2>1, <2>2, <2>3 DEF closeCanceledWaves
  <2>5. sk' \in [Epochs -> SocketState] /\ reg' \in 0 .. MaxEpoch
        /\ up' \in [Epochs -> Seq(UpMessage)]
    BY <1>13, EpochAssumption DEF CentralRestart, SocketTypeOK, SocketState
  <2> QED
    BY <1>1, <1>13, <2>0, <2>4, <2>5 DEF CentralRestart, SocketTypeOK
<1>14. ASSUME NEW e \in Epochs, ReceiveHello(e)
       PROVE  TypeOK'
  <2>1. up[e] \in Seq(UpMessage) /\ up[e] # << >>
    BY <1>14 DEF ReceiveHello, SocketTypeOK
  <2>2. Tail(up[e]) \in Seq(UpMessage) /\ << >> \in Seq(UpMessage)
    BY <2>1
  <2>3. e \in 0 .. MaxEpoch
    BY EpochAssumption DEF Epochs
  <2>4. CASE reg >= e
    BY <1>1, <1>14, <2>2, <2>4 DEF ReceiveHello, SocketTypeOK, SocketState
  <2>5. CASE ~(reg >= e)
    <3>1. PICK o \in DeviceSync(hub) : hub' = o.hub /\ down' = Sent(e, sk', o.out)
      BY <1>14, <2>5 DEF ReceiveHello
    <3>2. hub' \in Hub /\ down' \in Seq(DownMessage)
      BY <3>1, <1>2, DeviceSyncType, SentType
    <3>3. sk' \in [Epochs -> SocketState]
      BY <1>14, <2>5 DEF ReceiveHello, SocketTypeOK, SocketState
    <3>4. up' \in [Epochs -> Seq(UpMessage)] /\ reg' \in 0 .. MaxEpoch
      BY <1>14, <2>2, <2>3, <2>5 DEF ReceiveHello, SocketTypeOK
    <3> QED
      BY <1>1, <1>14, <3>2, <3>3, <3>4 DEF ReceiveHello, SocketTypeOK
  <2> QED
    BY <2>4, <2>5
<1>15. ASSUME NEW e \in Epochs, ReceiveRunMessage(e)
       PROVE  TypeOK'
  <2>1. up[e] \in Seq(UpMessage) /\ up[e] # << >>
    BY <1>15 DEF ReceiveRunMessage, SocketTypeOK
  <2>2. Tail(up[e]) \in Seq(UpMessage) /\ Head(up[e]) \in UpMessage
    BY <2>1
  <2>3. ReceiveEvent(hub, Head(up[e])) \in Hub
    BY <1>15, <2>2, ReceiveEventType DEF ReceiveRunMessage
  <2>4. hub' \in Hub /\ sk' \in [Epochs -> SocketState]
    BY <1>15, <2>3 DEF ReceiveRunMessage, SocketTypeOK, SocketState
  <2>5. up' \in [Epochs -> Seq(UpMessage)]
    BY <1>15, <2>2 DEF ReceiveRunMessage, SocketTypeOK
  <2> QED
    BY <1>1, <1>15, <2>4, <2>5 DEF ReceiveRunMessage, SocketTypeOK
<1> QED
  BY <1>5, <1>6, <1>7, <1>8, <1>9, <1>10, <1>11, <1>12, <1>13, <1>14, <1>15
     DEF Central, CentralNext

\* A goroutine that goes on, or returns, stays well-formed.
LEMMA GotoType ==
  ASSUME NEW w \in WorkerType, NEW p \in Step
  PROVE  [w EXCEPT !.pc = p] \in WorkerType /\ Idle \in WorkerType
BY DEF WorkerType, Idle

\* A report is written or fails, whatever its context.
Reporting(msgs, p) == Write(msgs, p) \/ WriteFails

\* Either kind of report is written or fails.
LEMMA ReportCases ==
  ASSUME NEW msgs, NEW p, Report(msgs, p) \/ ContextReport(msgs, p)
  PROVE  Reporting(msgs, p)
BY DEF Report, ContextReport, Reporting

\* Reports preserve the types, whether they are written or fail.
LEMMA ReportType ==
  ASSUME SocketTypeOK, BridgeTypeOK, NEW msgs \in Seq(UpMessage), NEW p \in Step,
         Reporting(msgs, p)
  PROVE  SocketTypeOK' /\ BridgeTypeOK'
<1>1. wk' \in WorkerType
  <2>1. wk \in WorkerType
    BY DEF BridgeTypeOK, WorkerType
  <2>2. wk' = [wk EXCEPT !.pc = p] \/ wk' = Idle
    BY DEF Reporting, Write, WriteFails, Return, Goto
  <2> QED
    BY <2>1, <2>2, GotoType
<1>2. conn' \in {"down", "up", "failing", "closing"}
  BY DEF Reporting, Write, WriteFails, Return, Ends, SocketTypeOK
<1>3. up' \in [Epochs -> Seq(UpMessage)]
  BY WrittenType DEF Reporting, Write, WriteFails, Internal, SocketTypeOK
<1>4. UNCHANGED <<epoch, sk, reg, down, rec, tomb, staging, started>>
  BY DEF Reporting, Write, WriteFails, Internal
<1> QED
  BY <1>1, <1>2, <1>3, <1>4 DEF SocketTypeOK, BridgeTypeOK, WorkerType

\* Commands read, cancellations staged: the reader preserves the types.
LEMMA ReaderTypeStep ==
  ASSUME SocketTypeOK, BridgeTypeOK, ReaderStep
  PROVE  SocketTypeOK' /\ BridgeTypeOK'
<1>1. ASSUME NEW m, Reads(m)
      PROVE  SocketTypeOK' /\ started' \in Nat
  <2>1. Tail(down) \in Seq(DownMessage)
    BY <1>1 DEF Reads, SocketTypeOK
  <2> QED
    BY <1>1, <2>1 DEF Reads, SocketTypeOK, BridgeTypeOK
<1>2. CASE ReadRequest
  BY <1>1, <1>2 DEF ReadRequest, BridgeTypeOK, Idle, Step
<1>3. CASE ReadCancelActive
  BY <1>1, <1>3 DEF ReadCancelActive, BridgeTypeOK
<1>4. CASE StageCancellation
  BY <1>4 DEF StageCancellation, BridgeTypeOK, SocketTypeOK, socketVars
<1>5. CASE FinishStaging
  BY <1>5 DEF FinishStaging, FenceAfter, BridgeTypeOK, SocketTypeOK, socketVars
<1>6. CASE ReadCancelInactive
  BY <1>1, <1>6 DEF ReadCancelInactive, BridgeTypeOK, Idle, Step
<1> QED
  BY <1>2, <1>3, <1>4, <1>5, <1>6 DEF ReaderStep

\* The steps of the owning goroutine preserve the types.
LEMMA WorkerTypeStep ==
  ASSUME SocketTypeOK, BridgeTypeOK, ExecInv, WorkerStep \/ WorkerMishap
  PROVE  SocketTypeOK' /\ BridgeTypeOK'
<1>1. rec \in RecordType /\ wk \in WorkerType /\ tomb \in BOOLEAN
  BY DEF BridgeTypeOK, RecordType, WorkerType
<1>2. ASSUME rec' \in RecordType, wk' \in WorkerType, tomb' \in BOOLEAN, started' \in Nat,
             conn' \in {"down", "up", "failing", "closing"}, Internal
      PROVE  SocketTypeOK' /\ BridgeTypeOK'
  BY <1>2 DEF Internal, SocketTypeOK, BridgeTypeOK, RecordType, WorkerType
<1>3. ASSUME NEW kind \in BridgeKind
      PROVE  AppendEvent(rec, kind) \in RecordType
  BY <1>1, AppendEventType
<1>4. /\ Local(rec, "accepted") \in RecordType
      /\ Local(rec, "preparing") \in RecordType
  BY <1>1, LocalType DEF InboxState
<1>5. ASSUME NEW ok, Return(ok)
      PROVE  wk' \in WorkerType /\ conn' \in {"down", "up", "failing", "closing"}
  BY <1>5 DEF Return, Ends, Idle, WorkerType, SocketTypeOK
<1>6. ASSUME NEW p \in Step, Goto(p)
      PROVE  wk' \in WorkerType
  BY <1>1, <1>6, GotoType DEF Goto
<1>7. ASSUME NEW f \in BOOLEAN
      PROVE  /\ [wk EXCEPT !.pc = "check1", !.fresh = f] \in WorkerType
             /\ [wk EXCEPT !.pc = "check2", !.perr = f] \in WorkerType
  BY <1>1 DEF WorkerType, Step
<1>8. ASSUME NEW msgs, NEW p, Report(msgs, p) \/ ContextReport(msgs, p) \/ Write(msgs, p)
      PROVE  Reporting(msgs, p)
  BY <1>8, ReportCases DEF Reporting
<1>9. Events(rec) \in Seq(UpMessage) /\ <<Accepted>> \o Events(rec) \in Seq(UpMessage)
  BY <1>1, EventsType
<1>10. <<Accepted>> \in Seq(UpMessage) /\ <<TombstoneStatus>> \in Seq(UpMessage)
  BY DEF Accepted, TombstoneStatus, UpMessage, EventKind, RunState, terminalStates
<1> USE <1>1, <1>2
<1>11. CASE Admit
  <2>1. (rec.state \in {"none", "preparing"}) \in BOOLEAN
    OBVIOUS
  <2>2. wk' \in WorkerType
    BY <1>7, <1>11, <2>1 DEF Admit
  <2>3. rec' \in RecordType
    BY <1>4, <1>11 DEF Admit
  <2> QED
    BY <1>11, <2>2, <2>3 DEF Admit, SocketTypeOK, BridgeTypeOK
<1>12. CASE CheckBeforePreparation
  BY <1>4, <1>6, <1>12 DEF CheckBeforePreparation, SocketTypeOK, BridgeTypeOK, Step
<1>13. CASE Prepare
  BY <1>4, <1>7, <1>13 DEF Prepare, SocketTypeOK, BridgeTypeOK
<1>14. CASE CheckBeforeAcceptance
  BY <1>6, <1>14 DEF CheckBeforeAcceptance, SocketTypeOK, BridgeTypeOK, Step
<1>15. CASE FailMaterialization
  <2>1. AppendEvent(rec, "failed") \in RecordType
    BY <1>3 DEF BridgeKind, isTerminalState
  <2>2. rec' \in RecordType /\ tomb' \in BOOLEAN
    BY <1>15, <2>1 DEF FailMaterialization
  <2> QED
    BY <1>6, <1>15, <2>2 DEF FailMaterialization, SocketTypeOK, BridgeTypeOK, Step
<1>16. CASE SendFailed
  BY <1>8, <1>9, <1>16, ReportType DEF SendFailed, Step
<1>17. CASE SendAccepted
  BY <1>8, <1>10, <1>17, ReportType DEF SendAccepted, Step
<1>18. CASE ReplayDuplicate
  BY <1>8, <1>9, <1>18, ReportType DEF ReplayDuplicate, Step
<1>19. CASE CheckBeforeGate
  BY <1>6, <1>19 DEF CheckBeforeGate, SocketTypeOK, BridgeTypeOK, Step
<1>20. CASE AcquireGate
  BY <1>6, <1>20 DEF AcquireGate, SocketTypeOK, BridgeTypeOK, Step
<1>21. CASE CheckBeforeStart
  BY <1>6, <1>21 DEF CheckBeforeStart, SocketTypeOK, BridgeTypeOK, Step
<1>22. CASE RefuseStart
  BY <1>3, <1>6, <1>22
     DEF RefuseStart, SocketTypeOK, BridgeTypeOK, Step, BridgeKind, isTerminalState
<1>23. CASE StartRuntime
  BY <1>6, <1>23 DEF StartRuntime, SocketTypeOK, BridgeTypeOK, Step
<1>24. CASE RuntimeEvent
  <2>1. RuntimeReports(rec) \subseteq BridgeKind
    BY DEF RuntimeReports, BridgeKind, isTerminalState
  <2> QED
    BY <1>3, <1>6, <1>24, <2>1 DEF RuntimeEvent, SocketTypeOK, BridgeTypeOK, Step
<1>25. CASE RuntimeError
  BY <1>3, <1>6, <1>25
     DEF RuntimeError, SocketTypeOK, BridgeTypeOK, Step, BridgeKind, isTerminalState
<1>26. CASE EventSendFails
  BY <1>3, <1>5, <1>26
     DEF EventSendFails, SocketTypeOK, BridgeTypeOK, BridgeKind, isTerminalState
<1>27. ASSUME wk.pc \in {"emit", "sendLast"}
       PROVE  <<LastEvent(rec)>> \in Seq(UpMessage)
  <2>1. rec.ev # << >> /\ rec.ev \in Seq(EventKind)
    BY <1>27 DEF ExecInv, RecordType
  <2>2. Len(rec.ev) \in 1 .. Len(rec.ev)
    BY <2>1
  <2>3. Events(rec)[Len(rec.ev)] \in UpMessage
    BY <1>9, <2>2, EventsType
  <2> QED
    BY <2>3 DEF LastEvent
<1>28. CASE SendEvent \/ SendLast
  BY <1>8, <1>27, <1>28, ReportType DEF SendEvent, SendLast, At, Step
<1>29. CASE ReleaseFence
  BY <1>6, <1>29 DEF ReleaseFence, FenceAfter, SocketTypeOK, BridgeTypeOK, Step
<1>30. CASE PersistCanceled
  BY <1>6, <1>30, CancelQueuedType DEF PersistCanceled, SocketTypeOK, BridgeTypeOK, Step
<1>31. CASE SendCanceled
  BY <1>8, <1>9, <1>10, <1>31, ReportType DEF SendCanceled, Step
<1>32. CASE ClearCancellation
  BY <1>6, <1>32 DEF ClearCancellation, SocketTypeOK, BridgeTypeOK, Step
<1>33. CASE Leave
  BY <1>5, <1>33 DEF Leave, SocketTypeOK, BridgeTypeOK
<1>34. CASE PrepareRetryable
  BY <1>5, <1>6, <1>34 DEF PrepareRetryable, SocketTypeOK, BridgeTypeOK, Step
<1>35. CASE LeaveGate
  BY <1>6, <1>35 DEF LeaveGate, SocketTypeOK, BridgeTypeOK, Step
<1>36. CASE BeforeStartFails
  BY <1>5, <1>36 DEF BeforeStartFails, SocketTypeOK, BridgeTypeOK
<1> QED
  BY <1>11, <1>12, <1>13, <1>14, <1>15, <1>16, <1>17, <1>18, <1>19, <1>20, <1>21, <1>22,
     <1>23, <1>24, <1>25, <1>26, <1>28, <1>29, <1>30, <1>31, <1>32, <1>33, <1>34, <1>35,
     <1>36 DEF WorkerStep, WorkerMishap

\* Every step of the Bridge, the network and Central preserves the types.
LEMMA TypeStep ==
  ASSUME TypeOK, ExecInv, Next
  PROVE  TypeOK'
<1>1. CASE Central
  BY <1>1, CentralTypeStep
<1>2. CASE Bridge
  <2>1. CentralTypeOK'
    BY <1>2 DEF Bridge, TypeOK, CentralTypeOK, centralVars
  <2>2. CASE (CancelConnection /\ UNCHANGED bridgeVars) \/ CloseComplete
    <3>1. UNCHANGED bridgeVars /\ SocketTypeOK'
      <4>1. CASE CancelConnection /\ UNCHANGED bridgeVars
        BY <4>1 DEF CancelConnection, TypeOK, SocketTypeOK
      <4>2. CASE CloseComplete
        <5>1. down' \in Seq(DownMessage) /\ conn' = "down"
          BY <4>2 DEF CloseComplete
        <5> QED
          BY <4>2, <5>1 DEF CloseComplete, TypeOK, SocketTypeOK
      <4> QED
        BY <2>2, <4>1, <4>2
    <3>2. BridgeTypeOK'
      BY <3>1 DEF TypeOK, BridgeTypeOK, bridgeVars
    <3> QED
      BY <2>1, <3>1, <3>2 DEF TypeOK
  <2>3. CASE BridgeCrash
    BY <2>1, <2>3 DEF BridgeCrash, TypeOK, SocketTypeOK, BridgeTypeOK, Idle
  <2>4. CASE ReaderStep
    BY <2>1, <2>4, ReaderTypeStep DEF TypeOK
  <2>5. CASE WorkerStep \/ WorkerMishap
    BY <2>1, <2>5, WorkerTypeStep DEF TypeOK
  <2> QED
    BY <1>2, <2>2, <2>3, <2>4, <2>5 DEF Bridge, BridgeNext
<1>3. CASE Dial
  <2>1. rec \in RecordType /\ tomb \in BOOLEAN
    BY DEF TypeOK, BridgeTypeOK, RecordType
  <2>2. rec' \in RecordType /\ tomb' \in BOOLEAN
    BY <1>3, <2>1, RecoveredType DEF Dial, Connect
  <2>3. epoch' \in 1 .. MaxEpoch /\ epoch' \in Epochs
    <3>1. epoch \in 0 .. MaxEpoch /\ epoch < MaxEpoch /\ epoch' = epoch + 1
      BY <1>3 DEF Dial, Connect, TypeOK, SocketTypeOK
    <3> QED
      BY <3>1, EpochAssumption DEF Epochs
  <2>4. sk' \in [Epochs -> SocketState]
    BY <1>3, <2>3 DEF Dial, Connect, TypeOK, SocketTypeOK, SocketState
  <2>5. <<Hello>> \o RecoveryReport(rec, tomb) \in Seq(UpMessage)
    <3>1. <<Hello>> \in Seq(UpMessage)
      BY DEF Hello, UpMessage
    <3> QED
      BY <2>1, <3>1, RecoveredType
  <2>6. up' \in [Epochs -> Seq(UpMessage)]
    BY <1>3, <2>3, <2>5 DEF Dial, Connect, TypeOK, SocketTypeOK
  <2>7. conn' \in {"down", "up", "failing", "closing"} /\ down' \in Seq(DownMessage)
    BY <1>3 DEF Dial, Connect
  <2> QED
    BY <1>3, <2>2, <2>3, <2>4, <2>6, <2>7
       DEF Dial, Connect, TypeOK, SocketTypeOK, BridgeTypeOK, CentralTypeOK, centralVars, RecordType
<1>4. CASE Break
  <2>1. CentralTypeOK' /\ BridgeTypeOK'
    BY <1>4 DEF Break, TypeOK, CentralTypeOK, centralVars, BridgeTypeOK, bridgeVars
  <2>2. CASE Drop
    <3>1. down' \in Seq(DownMessage) /\ conn' = "failing"
      <4>1. down \in Seq(DownMessage) /\ << >> \in Seq(DownMessage)
        BY DEF TypeOK, SocketTypeOK
      <4>2. CASE down' = down
        BY <2>2, <4>1, <4>2 DEF Drop
      <4>3. CASE down' = << >>
        BY <2>2, <4>1, <4>3 DEF Drop
      <4> QED
        BY <2>2, <4>2, <4>3 DEF Drop
    <3> QED
      BY <2>1, <2>2, <3>1 DEF Drop, TypeOK, SocketTypeOK
  <2>3. ASSUME NEW e \in Epochs, SeesClose(e)
        PROVE  SocketTypeOK'
    BY <2>3, EpochAssumption DEF SeesClose, TypeOK, SocketTypeOK, SocketState
  <2> QED
    BY <1>4, <2>1, <2>2, <2>3 DEF Break, TypeOK
<1> QED
  BY <1>1, <1>2, <1>3, <1>4 DEF Next

-----------------------------------------------------------------------------
(* The execution invariant, action by action *)

\* A report moves the goroutine on, or ends it; durable state stays.
LEMMA ReportEffect ==
  ASSUME NEW msgs, NEW p, Report(msgs, p) \/ ContextReport(msgs, p) \/ Write(msgs, p)
  PROVE  /\ UNCHANGED <<rec, tomb, staging, started>>
         /\ wk' = [wk EXCEPT !.pc = p] \/ wk' = Idle
         /\ conn' = conn \/ conn' = "failing"
BY DEF ContextReport, Report, Write, WriteFails, Return, Goto, Ends, Internal

\* An appended event.
LEMMA AppendEventEffect ==
  ASSUME NEW r \in RecordType, NEW kind \in BridgeKind
  PROVE  /\ AppendEvent(r, kind).ev # << >>
         /\ AppendEvent(r, kind).state = IF kind = "reply" THEN r.state ELSE kind
<1>1. Append(r.ev, kind) # << >>
  BY DEF RecordType
<1> QED
  BY <1>1 DEF AppendEvent

\* A worker's step keeps the execution invariant.
LEMMA WorkerExecStep ==
  ASSUME SocketTypeOK, BridgeTypeOK, ExecInv, WorkerStep \/ WorkerMishap
  PROVE  ExecInv'
<1>1. rec \in RecordType /\ wk \in WorkerType
  BY DEF BridgeTypeOK, RecordType, WorkerType
<1>2. ASSUME wk.pc # "idle"
      PROVE  conn # "down"
  BY <1>2 DEF ExecInv, Idle
<1>3. ASSUME wk' = Idle, conn' # "down", UNCHANGED <<rec, started>>
      PROVE  ExecInv'
  BY <1>3 DEF ExecInv, PreStart, FreshOnly, Idle
<1>4. ASSUME NEW p, Goto(p)
      PROVE  wk' = [wk EXCEPT !.pc = p] /\ wk'.pc = p /\ wk'.fresh = wk.fresh
  BY <1>1, <1>4 DEF Goto, WorkerType
<1> USE <1>1, <1>2
<1>5. CASE Admit
  <2>1. wk'.pc = "check1" /\ wk'.fresh = (rec.state \in {"none", "preparing"})
    BY <1>5 DEF Admit, WorkerType
  <2>2. rec'.state = IF rec.state = "none" THEN "accepted" ELSE rec.state
    BY <1>5 DEF Admit, Local, RecordType
  <2>3. UNCHANGED <<started, conn>> /\ conn # "down" /\ started \in Nat
    BY <1>5 DEF Admit, At, BridgeTypeOK
  <2>4. CASE rec.state \in {"none", "preparing"}
    <3>1. started = 0 /\ wk'.fresh = TRUE
      <4>1. started = 0
        BY <2>3, <2>4 DEF ExecInv
      <4>2. wk'.fresh = TRUE
        BY <2>1, <2>4, Zenon
      <4> QED
        BY <4>1, <4>2
    <3> QED
      BY <2>1, <2>2, <2>3, <2>4, <3>1 DEF ExecInv, PreStart, FreshOnly
  <2>5. CASE rec.state \notin {"none", "preparing"}
    <3>1. ~wk'.fresh
      BY <2>1, <2>5
    <3> QED
      BY <2>1, <2>2, <2>3, <2>5, <3>1 DEF ExecInv, PreStart, FreshOnly
  <2> QED
    BY <2>4, <2>5
<1>6. CASE CheckBeforePreparation
  BY <1>4, <1>6
     DEF CheckBeforePreparation, At, Local, RecordType, ExecInv, PreStart, FreshOnly
<1>7. CASE Prepare
  BY <1>7 DEF Prepare, At, Local, RecordType, WorkerType, ExecInv, PreStart, FreshOnly
<1>8. CASE PrepareRetryable
  <2>1. UNCHANGED <<rec, started>> /\ conn # "down"
    BY <1>8 DEF PrepareRetryable, At
  <2>2. CASE wk.explicit
    <3>1. wk'.pc = "cancel" /\ UNCHANGED conn
      BY <1>4, <1>8, <2>2 DEF PrepareRetryable
    <3> QED
      BY <2>1, <3>1 DEF ExecInv, PreStart, FreshOnly
  <2>3. CASE ~wk.explicit
    <3>1. wk' = Idle /\ conn' # "down"
      BY <1>8, <2>1, <2>3 DEF PrepareRetryable, Return, Ends
    <3> QED
      BY <1>3, <2>1, <3>1
  <2> QED
    BY <2>2, <2>3
<1>9. CASE CheckBeforeAcceptance
  BY <1>4, <1>9 DEF CheckBeforeAcceptance, At, ExecInv, PreStart, FreshOnly
<1>10. CASE FailMaterialization
  <2>1. rec'.state \notin {"none", "preparing"}
    BY <1>10, AppendEventEffect DEF FailMaterialization, BridgeKind, isTerminalState
  <2>2. wk'.pc = "sendFailed" /\ UNCHANGED <<started, conn, staging>> /\ conn # "down"
    BY <1>4, <1>10 DEF FailMaterialization, At, Internal
  <2> QED
    BY <2>1, <2>2 DEF ExecInv, PreStart, FreshOnly
<1>11. CASE SendFailed \/ ReplayDuplicate \/ SendAccepted
  <2>1. UNCHANGED <<rec, started>> /\ conn' # "down"
    BY <1>11, ReportEffect DEF SendFailed, ReplayDuplicate, SendAccepted, At
  <2>2. CASE wk' = Idle
    BY <2>1, <2>2 DEF ExecInv, PreStart, FreshOnly, Idle
  <2>3. CASE wk' # Idle /\ (SendFailed \/ ReplayDuplicate)
    <3>1. wk'.pc = "return"
      BY <2>3, ReportEffect DEF SendFailed, ReplayDuplicate, WorkerType
    <3> QED
      BY <2>1, <3>1 DEF ExecInv, PreStart, FreshOnly
  <2>4. CASE wk' # Idle /\ SendAccepted
    <3>1. /\ wk.pc = "ack" /\ wk'.fresh = wk.fresh
          /\ wk'.pc = IF wk.fresh THEN "start1" ELSE "dup"
      BY <2>4, ReportEffect DEF SendAccepted, At, WorkerType
    <3> QED
      BY <2>1, <3>1 DEF ExecInv, PreStart, FreshOnly
  <2> QED
    BY <1>11, <2>2, <2>3, <2>4
<1>12. CASE CheckBeforeGate
  BY <1>4, <1>12 DEF CheckBeforeGate, At, ExecInv, PreStart, FreshOnly
<1>13. CASE AcquireGate \/ LeaveGate
  BY <1>4, <1>13 DEF AcquireGate, LeaveGate, At, ExecInv, PreStart, FreshOnly
<1>14. CASE CheckBeforeStart
  BY <1>4, <1>14 DEF CheckBeforeStart, At, ExecInv, PreStart, FreshOnly
<1>15. CASE BeforeStartFails
  <2>1. wk' = Idle /\ conn' # "down" /\ UNCHANGED <<rec, started>>
    BY <1>15 DEF BeforeStartFails, At, Return, Ends
  <2> QED
    BY <1>3, <2>1
<1>16. CASE RefuseStart \/ RuntimeError
  <2>1. rec'.ev # << >> /\ rec'.state \notin {"none", "preparing"}
    BY <1>16, AppendEventEffect DEF RefuseStart, RuntimeError, BridgeKind, isTerminalState
  <2>2. wk'.pc = "sendLast" /\ UNCHANGED <<started, conn>> /\ conn # "down"
    BY <1>4, <1>16 DEF RefuseStart, RuntimeError, At
  <2> QED
    BY <2>1, <2>2 DEF ExecInv, PreStart, FreshOnly
<1>17. CASE StartRuntime
  <2>1. started = 0 /\ rec.state = "accepted" /\ started' = 1
    BY <1>17 DEF StartRuntime, At, ExecInv, PreStart, FreshOnly
  <2>2. wk'.pc = "running" /\ UNCHANGED <<rec, conn>> /\ conn # "down"
    BY <1>4, <1>17 DEF StartRuntime, At
  <2> QED
    BY <2>1, <2>2 DEF ExecInv, PreStart, FreshOnly
<1>18. CASE RuntimeEvent
  <2>1. PICK kind \in RuntimeReports(rec) : rec' = AppendEvent(rec, kind)
    BY <1>18 DEF RuntimeEvent
  <2>2. kind \in BridgeKind /\ kind \notin {"none", "preparing"}
    BY <2>1 DEF RuntimeReports, BridgeKind, isTerminalState
  <2>3. rec.state \in {"accepted", "working"}
    BY <1>18 DEF RuntimeEvent, At, ExecInv
  <2>4. rec'.ev # << >> /\ rec'.state \notin {"none", "preparing"}
    BY <2>1, <2>2, <2>3, AppendEventEffect
  <2>5. wk'.pc = "emit" /\ UNCHANGED <<started, conn>> /\ conn # "down"
    BY <1>4, <1>18 DEF RuntimeEvent, At
  <2> QED
    BY <2>4, <2>5 DEF ExecInv, PreStart, FreshOnly
<1>19. CASE EventSendFails
  <2>1. rec'.state = "outcome_unknown"
    BY <1>19, AppendEventEffect DEF EventSendFails, BridgeKind, isTerminalState
  <2>2. wk' = Idle /\ conn' # "down" /\ UNCHANGED started
    BY <1>19 DEF EventSendFails, At, Return, Ends
  <2> QED
    BY <2>1, <2>2 DEF ExecInv, PreStart, FreshOnly, Idle
<1>20. CASE SendEvent \/ SendLast
  <2>1. /\ UNCHANGED <<rec, started>> /\ conn' # "down"
        /\ rec.state \notin {"none", "preparing"}
    BY <1>20, ReportEffect DEF SendEvent, SendLast, At, ExecInv
  <2>2. CASE wk' = Idle
    BY <2>1, <2>2 DEF ExecInv, PreStart, FreshOnly, Idle
  <2>3. CASE wk' # Idle
    <3>1. \/ wk'.pc = "finish"
          \/ wk'.pc = "running" /\ rec.state \notin isTerminalState
      <4>1. CASE SendLast
        BY <2>3, <4>1, ReportEffect DEF SendLast, WorkerType
      <4>2. CASE SendEvent
        <5> DEFINE p == IF rec.state \in isTerminalState THEN "finish" ELSE "running"
        <5>1. \/ Report(<<LastEvent(rec)>>, p) \/ ContextReport(<<LastEvent(rec)>>, p)
              \/ Write(<<LastEvent(rec)>>, p)
          BY <4>2 DEF SendEvent
        <5>2. wk'.pc = p
          BY <2>3, <5>1, ReportEffect DEF WorkerType
        <5> QED
          BY <5>2
      <4> QED
        BY <1>20, <4>1, <4>2
    <3>2. rec.state \notin isTerminalState => rec.state \in {"accepted", "working"}
      BY <2>1 DEF RecordType, InboxState
    <3> QED
      BY <2>1, <3>1, <3>2 DEF ExecInv, PreStart, FreshOnly
  <2> QED
    BY <2>2, <2>3
<1>21. CASE ReleaseFence \/ ClearCancellation
  BY <1>4, <1>21 DEF ReleaseFence, ClearCancellation, At, ExecInv, PreStart, FreshOnly
<1>22. CASE PersistCanceled
  <2>1. rec'.state \notin {"none", "preparing"}
    BY <1>22, AppendEventEffect
       DEF PersistCanceled, CancelQueued, BridgeKind, isTerminalState, isCancellationTerminalState
  <2>2. wk'.pc \in {"sendCanceled", "sendTerminal"} /\ UNCHANGED <<started, conn>> /\ conn # "down"
    BY <1>4, <1>22 DEF PersistCanceled
  <2> QED
    BY <2>1, <2>2 DEF ExecInv, PreStart, FreshOnly
<1>23. CASE SendCanceled
  <2>1. /\ UNCHANGED <<rec, started>> /\ conn' # "down"
        /\ wk'.pc \in {"clear", "idle"}
    <3>1. conn # "down" /\ \E msgs : Report(msgs, "clear") \/ ContextReport(msgs, "clear")
      BY <1>23 DEF SendCanceled, At
    <3>2. PICK msgs : Report(msgs, "clear") \/ ContextReport(msgs, "clear")
      BY <3>1
    <3> QED
      BY <3>1, <3>2, ReportEffect DEF WorkerType, Idle
  <2> QED
    BY <2>1 DEF ExecInv, PreStart, FreshOnly
<1>24. CASE Leave
  <2>1. wk' = Idle /\ conn' # "down" /\ UNCHANGED <<rec, started>>
    BY <1>24 DEF Leave, At, Return, Ends
  <2> QED
    BY <1>3, <2>1
<1> QED
  BY <1>5, <1>6, <1>7, <1>8, <1>9, <1>10, <1>11, <1>12, <1>13, <1>14, <1>15, <1>16,
     <1>17, <1>18, <1>19, <1>20, <1>21, <1>22, <1>23, <1>24 DEF WorkerStep, WorkerMishap

\* Reading a command, and staging a cancellation, keep the execution invariant.
LEMMA ReaderExecStep ==
  ASSUME BridgeTypeOK, ExecInv, ReaderStep
  PROVE  ExecInv'
<1>1. wk \in WorkerType
  BY DEF BridgeTypeOK, WorkerType
<1>2. UNCHANGED <<rec, started, conn>>
  BY DEF ReaderStep, ReadRequest, ReadCancelActive, StageCancellation, FinishStaging,
         ReadCancelInactive, Reads, socketVars
<1>3. conn # "down"
  BY DEF ReaderStep, ReadRequest, ReadCancelActive, StageCancellation, FinishStaging,
         ReadCancelInactive, Reads, ExecInv
<1>4. CASE ReadCancelActive \/ StageCancellation
  BY <1>2, <1>3, <1>4 DEF ReadCancelActive, StageCancellation, ExecInv
<1>5. CASE FinishStaging
  <2>1. wk'.pc = wk.pc /\ wk'.fresh = wk.fresh
    BY <1>1, <1>5 DEF FinishStaging, WorkerType
  <2> QED
    BY <1>2, <1>3, <2>1 DEF ExecInv
<1>6. CASE ReadRequest
  <2>1. wk' = wk \/ (wk'.pc = "admit")
    BY <1>6 DEF ReadRequest, Idle
  <2> QED
    BY <1>2, <1>3, <2>1 DEF ExecInv, PreStart, FreshOnly
<1>7. CASE ReadCancelInactive
  <2>1. wk'.pc \in {"preAck", "sendTerminal", "cancel"}
    BY <1>7 DEF ReadCancelInactive, Idle
  <2> QED
    BY <1>2, <1>3, <2>1 DEF ExecInv, PreStart, FreshOnly
<1> QED
  BY <1>4, <1>5, <1>6, <1>7 DEF ReaderStep

\* A recovered record is neither unknown nor in preparation if it was not before,
\* and a record that is terminal for cancellation is recovered as it is.
LEMMA RecoveredEffect ==
  ASSUME NEW r \in RecordType, NEW t \in BOOLEAN
  PROVE  /\ r.state \notin {"none", "preparing"}
              => Recovered(r, t).state \notin {"none", "preparing"}
         /\ r.state \in isCancellationTerminalState => Recovered(r, t) = r
<1>1. /\ AppendEvent(r, "canceled").state = "canceled"
      /\ AppendEvent(r, "outcome_unknown").state = "outcome_unknown"
  BY DEF AppendEvent
<1> QED
  BY <1>1 DEF Recovered, CancelQueued, isCancellationTerminalState

\* Every step keeps the execution invariant.
LEMMA ExecStep ==
  ASSUME TypeOK, ExecInv, Next
  PROVE  ExecInv'
<1> USE DEF TypeOK
<1>1. CASE Central
  <2>1. UNCHANGED bridgeVars
    BY <1>1 DEF Central
  <2>2. UNCHANGED conn
    BY <1>1 DEF Central, CentralNext, DispatchRun, ExpireQueued, CancelRun, CancellationSweep,
                Heartbeat, CloseClarification, WaveDeadline, Revoke, CentralRestart,
                ReceiveHello, ReceiveRunMessage, socketVars
  <2> QED
    BY <2>1, <2>2 DEF ExecInv, bridgeVars
<1>2. CASE Bridge
  <2>1. CASE (CancelConnection /\ UNCHANGED bridgeVars) \/ CloseComplete
    BY <2>1 DEF CancelConnection, CloseComplete, ExecInv, bridgeVars
  <2>2. CASE BridgeCrash
    BY <2>2 DEF BridgeCrash, ExecInv, PreStart, FreshOnly, Idle
  <2>3. CASE ReaderStep
    BY <2>3, ReaderExecStep
  <2>4. CASE WorkerStep \/ WorkerMishap
    BY <2>4, WorkerExecStep
  <2> QED
    BY <1>2, <2>1, <2>2, <2>3, <2>4 DEF Bridge, BridgeNext
<1>3. CASE Dial
  <2>1. wk' = Idle /\ UNCHANGED started /\ conn' = "up"
    BY <1>3 DEF Dial, Connect, ExecInv
  <2>2. rec \in RecordType /\ tomb \in BOOLEAN
    BY DEF BridgeTypeOK, RecordType
  <2>3. rec.state \notin {"none", "preparing"} => rec'.state \notin {"none", "preparing"}
    BY <1>3, <2>2, RecoveredEffect DEF Dial, Connect
  <2> QED
    BY <2>1, <2>3 DEF ExecInv, PreStart, FreshOnly, Idle
<1>4. CASE Break
  <2>1. UNCHANGED bridgeVars /\ (conn' = conn \/ conn' = "failing")
    BY <1>4 DEF Break, Drop, SeesClose
  <2> QED
    BY <2>1 DEF ExecInv, bridgeVars
<1> QED
  BY <1>1, <1>2, <1>3, <1>4 DEF Next

-----------------------------------------------------------------------------
(* The invariant *)

\* The invariant holds initially.
LEMMA InitInvariant ==
  ASSUME Init
  PROVE  IInv
<1> USE DEF Init
<1> << >> \in Seq(EventKind)
  OBVIOUS
<1>1. CentralTypeOK
  <2>1. "queued" \in RunState
    BY DEF RunState
  <2> QED
    BY <2>1 DEF CentralInit, CentralTypeOK, Hub
<1>2. SocketTypeOK
  BY EpochAssumption DEF SocketInit, SocketTypeOK, SocketState
<1>3. BridgeTypeOK
  <2>1. rec \in [state : InboxState, ev : Seq(EventKind)]
    <3>1. "none" \in InboxState
      BY DEF InboxState
    <3> QED
      BY <3>1 DEF BridgeInit
  <2>2. /\ wk \in [owner : {"none", "worker", "reader"}, pc : Step \cup {"idle"},
                 fresh : BOOLEAN, perr : BOOLEAN, explicit : BOOLEAN]
        /\ tomb \in BOOLEAN /\ staging \in {"no", "record", "check"} /\ started \in Nat
    BY DEF BridgeInit, Idle
  <2> QED
    BY <2>1, <2>2 DEF BridgeTypeOK
<1>4. ExecInv
  BY DEF BridgeInit, ExecInv, PreStart, FreshOnly, Idle
<1> QED
  BY <1>1, <1>2, <1>3, <1>4 DEF IInv, TypeOK

\* A stuttering step keeps the invariant.
LEMMA StutterInvariant ==
  ASSUME IInv, UNCHANGED vars
  PROVE  IInv'
BY DEF IInv, TypeOK, CentralTypeOK, SocketTypeOK, BridgeTypeOK, ExecInv, vars

\* The invariant is inductive: it holds in every reachable state of the Hub, the
\* Bridge and the sockets between them.
THEOREM Invariant == Spec => []IInv
<1>1. Init => IInv
  BY InitInvariant
<1>2. IInv /\ [Next]_vars => IInv'
  <2>1. IInv /\ Next => IInv'
    BY TypeStep, ExecStep DEF IInv
  <2>2. IInv /\ UNCHANGED vars => IInv'
    BY StutterInvariant
  <2> QED
    BY <2>1, <2>2
<1> QED
  BY <1>1, <1>2, PTL DEF Spec

\* Central's rows, the sockets and the Bridge's record, fence and worker keep their
\* types, whatever the order of the handlers' steps.
THEOREM TypeCorrect == Spec => []TypeOK
<1>1. IInv => TypeOK
  BY DEF IInv
<1> QED
  BY <1>1, Invariant, PTL

\* The Bridge invokes the Runtime at most once for a Run, over any number of
\* connections, crashes, duplicated deliveries and recoveries.
THEOREM StartsOnce == Spec => []AtMostOneStart
<1>1. IInv => AtMostOneStart
  BY DEF IInv, ExecInv, AtMostOneStart
<1> QED
  BY <1>1, Invariant, PTL

-----------------------------------------------------------------------------
(* The first outcome of the Bridge *)

\* No step of the Bridge changes a record that is terminal for cancellation.
LEMMA OutcomeStep ==
  ASSUME IInv, Next, rec.state \in isCancellationTerminalState
  PROVE  rec' = rec
<1> USE DEF IInv
<1>1. rec.state \notin {"none", "preparing", "accepted", "working"}
  BY DEF isCancellationTerminalState
<1>2. rec.state \in isTerminalState
  BY DEF isCancellationTerminalState, isTerminalState
<1>3. wk.pc \notin {"start", "running"}
  BY <1>1 DEF ExecInv, PreStart, FreshOnly
<1>4. CASE Central \/ Break
  BY <1>4 DEF Central, Break, bridgeVars
<1>5. CASE Dial
  <2>1. rec \in RecordType /\ tomb \in BOOLEAN
    BY DEF TypeOK, BridgeTypeOK, RecordType
  <2> QED
    BY <1>5, <2>1, RecoveredEffect DEF Dial, Connect
<1>6. CASE Bridge
  <2>1. CASE \/ CancelConnection /\ UNCHANGED bridgeVars
             \/ CloseComplete \/ BridgeCrash \/ ReaderStep
    BY <2>1 DEF CloseComplete, BridgeCrash, ReaderStep, ReadRequest, ReadCancelActive,
                StageCancellation, FinishStaging, ReadCancelInactive, bridgeVars
  <2>2. CASE Admit \/ CheckBeforePreparation \/ Prepare \/ FailMaterialization
    BY <1>1, <1>2, <2>2 DEF Admit, CheckBeforePreparation, Prepare, FailMaterialization
  <2>3. CASE RefuseStart \/ RuntimeEvent \/ RuntimeError
    BY <1>3, <2>3 DEF RefuseStart, RuntimeEvent, RuntimeError, At
  <2>4. CASE EventSendFails \/ PersistCanceled
    BY <1>2, <2>4 DEF EventSendFails, PersistCanceled, CancelQueued
  <2>5. CASE \/ PrepareRetryable \/ CheckBeforeAcceptance \/ CheckBeforeGate \/ AcquireGate
             \/ LeaveGate \/ CheckBeforeStart \/ BeforeStartFails \/ StartRuntime
             \/ ReleaseFence \/ ClearCancellation \/ Leave
    BY <2>5 DEF PrepareRetryable, CheckBeforeAcceptance, CheckBeforeGate, AcquireGate,
                LeaveGate, CheckBeforeStart, BeforeStartFails, StartRuntime, ReleaseFence,
                ClearCancellation, Leave
  <2>6. CASE SendFailed \/ SendAccepted \/ ReplayDuplicate \/ SendLast
    BY <2>6, ReportEffect DEF SendFailed, SendAccepted, ReplayDuplicate, SendLast
  <2>7. CASE SendEvent \/ SendCanceled
    BY <2>7, ReportEffect DEF SendEvent, SendCanceled
  <2> QED
    BY <1>6, <2>1, <2>2, <2>3, <2>4, <2>5, <2>6, <2>7
       DEF Bridge, BridgeNext, WorkerStep, WorkerMishap
<1> QED
  BY <1>4, <1>5, <1>6 DEF Next

\* Reader, worker, Runtime and recovery never add to, or replace, an outcome that the
\* Bridge persisted, for any number of connections, crashes and commands.
THEOREM FirstOutcome == Spec => FirstOutcomeStands
<1>1. IInv /\ [Next]_vars => [rec.state \in isCancellationTerminalState => rec' = rec]_rec
  BY OutcomeStep DEF vars
<1> QED
  BY <1>1, Invariant, PTL DEF Spec, FirstOutcomeStands

-----------------------------------------------------------------------------
(* The finality of Central's verdict *)

\* g continues the log of h, and is h as far as the Room sees once h is terminal.
Continues(h, g) ==
  /\ IsPrefixOf(h.log, g.log)
  /\ h.state \in terminalStates => g.state = h.state /\ g.log = h.log

\* Rows with the same state and log continue each other; continuing is transitive.
LEMMA ContinuesOrder ==
  /\ \A h \in Hub : \A g : g.state = h.state /\ g.log = h.log => Continues(h, g)
  /\ \A f \in Hub, g \in Hub, h \in Hub : Continues(f, g) /\ Continues(g, h) => Continues(f, h)
<1>1. \A h \in Hub : h.log \in Seq(EventKind)
  BY DEF Hub
<1>2. ASSUME NEW h \in Hub, NEW g, g.state = h.state, g.log = h.log
      PROVE  Continues(h, g)
  BY <1>1, <1>2 DEF Continues, IsPrefixOf
<1>3. ASSUME NEW f \in Hub, NEW g \in Hub, NEW h \in Hub, Continues(f, g), Continues(g, h)
      PROVE  Continues(f, h)
  <2>1. IsPrefixOf(f.log, h.log)
    BY <1>1, <1>3 DEF Continues, IsPrefixOf
  <2> QED
    BY <1>3, <2>1 DEF Continues
<1> QED
  BY <1>2, <1>3

\* Applying an event continues the log.
LEMMA ApplyEventContinues ==
  ASSUME NEW h \in Hub, NEW seq \in Nat, NEW kind \in EventKind
  PROVE  Continues(h, applyEvent(h, seq, kind))
<1>1. CASE seq <= lastSequence(h) \/ Terminal(h)
  BY <1>1, ContinuesOrder DEF applyEvent
<1>2. CASE ~(seq <= lastSequence(h) \/ Terminal(h))
  <2>1. applyEvent(h, seq, kind).log = Append(h.log, kind)
    BY <1>2 DEF applyEvent, Hub
  <2>2. IsPrefixOf(h.log, Append(h.log, kind))
    BY DEF IsPrefixOf, Hub
  <2> QED
    BY <1>2, <2>1, <2>2 DEF Continues, Terminal
<1> QED
  BY <1>1, <1>2

\* An event of Central's own continues the log.
LEMMA LocalEventContinues ==
  ASSUME NEW h \in Hub, NEW kind \in RunState
  PROVE  Continues(h, LocalEvent(h, kind))
<1>1. lastSequence(h) + 1 \in Nat /\ kind \in EventKind
  BY DEF lastSequence, Hub, EventKind
<1> QED
  BY <1>1, ApplyEventContinues DEF LocalEvent

\* The verdicts Central gives by itself.
LEMMA VerdictContinues ==
  ASSUME NEW h \in Hub, NEW kind \in terminalStates
  PROVE  Continues(h, LocalEvent(h, kind)) /\ LocalEvent(h, kind) \in Hub
BY LocalEventContinues, LocalEventType DEF RunState

\* A cancellation request continues the log.
LEMMA RequestCancellationContinues ==
  ASSUME NEW h \in Hub
  PROVE  Continues(h, requestCancellation(h))
<1>1. Continues(h, h) /\ Continues(h, [h EXCEPT !.intent = "pending"])
  BY ContinuesOrder DEF Hub
<1>2. Continues(h, LocalEvent(h, "canceled"))
  BY VerdictContinues DEF terminalStates
<1> QED
  BY <1>1, <1>2, Zenon DEF requestCancellation

\* Every outcome of a sweep, a dispatch or both continues the log.
LEMMA SyncContinues ==
  ASSUME NEW h \in Hub
  PROVE  /\ \A o \in sweep(h) : o.hub \in Hub /\ Continues(h, o.hub)
         /\ \A o \in dispatch(h) : o.hub \in Hub /\ Continues(h, o.hub)
<1>1. \A o \in sweep(h) \cup dispatch(h) : o.hub \in Hub
  BY SweepType, DispatchType DEF OutcomeType
<1>2. Continues(h, h)
  BY ContinuesOrder
<1>3. /\ Continues(h, LocalEvent(h, "outcome_unknown"))
      /\ Continues(h, LocalEvent(h, "expired"))
      /\ Continues(h, LocalEvent(h, "failed"))
  BY VerdictContinues DEF terminalStates
<1>4. \A o \in sweep(h) : Continues(h, o.hub)
  BY <1>2, <1>3 DEF sweep, Outcome
<1> DEFINE ensured == [h EXCEPT !.delivery = IF @ = "none" THEN "pending" ELSE @]
<1>5. Continues(h, ensured)
  <2>1. ensured.state = h.state /\ ensured.log = h.log
    BY DEF Hub
  <2> QED
    BY <2>1, ContinuesOrder
<1> HIDE DEF ensured
<1>6. \A o \in dispatch(h) : Continues(h, o.hub)
  BY <1>2, <1>3, <1>5 DEF dispatch, Outcome, ensured
<1> QED
  BY <1>1, <1>4, <1>6

\* A hello, publish or heartbeat continues the log.
LEMMA DeviceSyncContinues ==
  ASSUME NEW h \in Hub, NEW o \in DeviceSync(h)
  PROVE  Continues(h, o.hub)
<1>1. PICK s \in sweep(h) : \E d \in dispatch(s.hub) : o = Outcome(d.hub, s.out \o d.out)
  BY DEF DeviceSync
<1>2. PICK d \in dispatch(s.hub) : o = Outcome(d.hub, s.out \o d.out)
  BY <1>1
<1>3. o.hub = d.hub
  BY <1>2 DEF Outcome
<1>4. s.hub \in Hub /\ Continues(h, s.hub)
  BY SyncContinues
<1>5. d.hub \in Hub /\ Continues(s.hub, d.hub)
  BY <1>4, SyncContinues
<1> QED
  BY <1>3, <1>4, <1>5, ContinuesOrder

\* A received message continues the log.
LEMMA ReceiveEventContinues ==
  ASSUME NEW h \in Hub, NEW m \in UpMessage, m.kind # "hello"
  PROVE  Continues(h, ReceiveEvent(h, m))
<1>1. m.seq \in Nat /\ m.kind \in EventKind
  BY DEF UpMessage
<1> DEFINE a == applyEvent(h, 1, "delivered")
<1>2. a \in Hub /\ Continues(h, a)
  BY ApplyEventType, ApplyEventContinues DEF EventKind, RunState
<1> HIDE DEF a
<1>3. accept(h) \in Hub /\ Continues(h, accept(h))
  <2>1. accept(h) = [a EXCEPT !.delivery = "accepted"]
    BY DEF accept, a
  <2>2. accept(h) \in Hub /\ accept(h).state = a.state /\ accept(h).log = a.log
    BY <1>2, <2>1 DEF Hub
  <2> QED
    BY <1>2, <2>2, ContinuesOrder
<1>4. applyEvent(h, m.seq, m.kind) \in Hub /\ Continues(h, applyEvent(h, m.seq, m.kind))
  BY <1>1, ApplyEventType, ApplyEventContinues
<1> DEFINE next == IF m = Accepted THEN accept(h) ELSE applyEvent(h, m.seq, m.kind)
<1>5. next \in Hub /\ Continues(h, next)
  BY <1>3, <1>4
<1>6. ReceiveEvent(h, m) = next \/ ReceiveEvent(h, m) = LocalEvent(next, "outcome_unknown")
  BY DEF ReceiveEvent
<1> HIDE DEF next
<1>7. LocalEvent(next, "outcome_unknown") \in Hub /\ Continues(next, LocalEvent(next, "outcome_unknown"))
  BY <1>5, VerdictContinues DEF terminalStates
<1> QED
  BY <1>5, <1>6, <1>7, ContinuesOrder

\* The reconciliation of a revoked Device continues the log.
LEMMA RevokeRunContinues ==
  ASSUME NEW h \in Hub
  PROVE  revokeRun(h).hub \in Hub /\ Continues(h, revokeRun(h).hub)
<1>1. revokeRun(h).hub \in Hub
  BY RevokeRunType DEF OutcomeType
<1>2. /\ Continues(h, LocalEvent(h, "outcome_unknown"))
      /\ Continues(h, LocalEvent(h, "failed"))
      /\ Continues(h, h)
  BY VerdictContinues, ContinuesOrder DEF terminalStates
<1> QED
  BY <1>1, <1>2 DEF revokeRun, Outcome

\* Every step continues Central's log.
LEMMA CentralContinues ==
  ASSUME TypeOK, Next
  PROVE  hub' = hub \/ Continues(hub, hub')
<1>1. hub \in Hub
  BY DEF TypeOK, CentralTypeOK
<1> USE <1>1
<1>2. CASE Bridge \/ Dial \/ Break
  BY <1>2 DEF Bridge, Dial, Break, centralVars
<1>3. CASE Central
  <2>1. CASE DispatchRun \/ CancellationSweep
    BY <2>1, SyncContinues DEF DispatchRun, CancellationSweep, Respond
  <2>2. CASE ExpireQueued \/ CloseClarification \/ WaveDeadline
    <3>1. PICK k \in terminalStates : hub' = LocalEvent(hub, k)
      BY <2>2 DEF ExpireQueued, CloseClarification, WaveDeadline, terminalStates
    <3> QED
      BY <3>1, VerdictContinues
  <2>3. CASE CancelRun
    BY <2>3, RequestCancellationContinues DEF CancelRun, Respond, Outcome
  <2>4. CASE Heartbeat
    BY <2>4, DeviceSyncContinues DEF Heartbeat, Respond
  <2>5. CASE Revoke
    BY <2>5, RevokeRunContinues DEF Revoke, Respond
  <2>6. CASE CentralRestart
    <3> DEFINE h == IF revoked' THEN revokeRun(hub).hub ELSE hub
    <3>0. h \in Hub /\ Continues(hub, h)
      BY RevokeRunContinues, ContinuesOrder
    <3>1. PICK o \in sweep(h) : hub' = closeCanceledWaves(o.hub)
      BY <2>6 DEF CentralRestart
    <3> HIDE DEF h
    <3>2. o.hub \in Hub /\ Continues(hub, o.hub)
      <4>1. o.hub \in Hub /\ Continues(h, o.hub)
        BY <3>0, SyncContinues
      <4> QED
        BY <3>0, <4>1, ContinuesOrder
    <3>3. /\ Continues(o.hub, LocalEvent(o.hub, "canceled"))
          /\ LocalEvent(o.hub, "canceled") \in Hub
          /\ Continues(o.hub, LocalEvent(o.hub, "outcome_unknown"))
          /\ LocalEvent(o.hub, "outcome_unknown") \in Hub
      BY <3>2, VerdictContinues DEF terminalStates
    <3>4. \/ hub' = o.hub
          \/ hub' = LocalEvent(o.hub, "canceled")
          \/ hub' = LocalEvent(o.hub, "outcome_unknown")
      BY <3>1 DEF closeCanceledWaves
    <3> QED
      BY <3>2, <3>3, <3>4, ContinuesOrder
  <2>7. ASSUME NEW e \in Epochs, ReceiveHello(e)
        PROVE  hub' = hub \/ Continues(hub, hub')
    BY <2>7, DeviceSyncContinues DEF ReceiveHello
  <2>8. ASSUME NEW e \in Epochs, ReceiveRunMessage(e)
        PROVE  hub' = hub \/ Continues(hub, hub')
    <3>1. up[e] \in Seq(UpMessage) /\ up[e] # << >>
      BY <2>8 DEF ReceiveRunMessage, TypeOK, SocketTypeOK
    <3>2. Head(up[e]) \in UpMessage /\ Head(up[e]).kind # "hello"
      BY <2>8, <3>1 DEF ReceiveRunMessage
    <3>3. Continues(hub, ReceiveEvent(hub, Head(up[e])))
      BY <3>2, ReceiveEventContinues
    <3> QED
      BY <2>8, <3>3 DEF ReceiveRunMessage
  <2> QED
    BY <1>3, <2>1, <2>2, <2>3, <2>4, <2>5, <2>6, <2>7, <2>8 DEF Central, CentralNext
<1> QED
  BY <1>2, <1>3 DEF Next

\* Central's event log only grows, and neither the state nor the log of a Run changes
\* after a terminal state, whichever handler, timer, recovery or late message runs.
THEOREM SettledIsFinal == Spec => SettledRunIsFinal
<1> DEFINE Final == /\ IsPrefixOf(hub.log, hub'.log)
                    /\ hub.state \in terminalStates
                         => hub'.state = hub.state /\ hub'.log = hub.log
<1>1. IInv /\ [Next]_vars => [Final]_hub
  <2>1. ASSUME IInv, Next PROVE [Final]_hub
    BY <2>1, CentralContinues DEF IInv, Continues
  <2>2. ASSUME UNCHANGED vars PROVE [Final]_hub
    BY <2>2 DEF vars
  <2> QED
    BY <2>1, <2>2
<1> QED
  BY <1>1, Invariant, PTL DEF Spec, SettledRunIsFinal

-----------------------------------------------------------------------------
(* The fence: a cancellation tombstone does not outlive its cancellation   *)
(*                                                                         *)
(* The reader stages a cancellation while the worker moves on and may end. *)
(* That nothing is left of the fence when both have ended rests on what    *)
(* the record says at every position from which the worker returns without *)
(* an error, and on who clears the fence of a record that is terminal: the *)
(* worker at the positions below, or the reader while it is staging.       *)

\* Positions of a goroutine that will clear the fence of a terminal record itself.
Clears == {"running", "emit", "sendLast", "finish", "cancel", "cancelAfter",
           "sendCanceled", "sendTerminal", "preAck", "clear"}

\* Positions at which the record of a Run that is not fresh is only looked at.
Replays == {"check1", "prepare", "check2", "ack"}

\* While the Bridge keeps its connection, which is while no goroutine has failed.
ConnectedFence ==
  /\ wk.pc \in {"idle", "admit"} => rec.state \in {"none", "preparing"} \cup isTerminalState
  /\ wk.pc = "dup" \/ (~wk.fresh /\ wk.pc \in Replays) => rec.state \in isTerminalState
  /\ wk.pc \in {"clear", "return"}
       => rec.state \in isTerminalState \/ (rec.state = "none" /\ wk.owner = "reader")
  /\ wk.pc = "idle" /\ staging # "no" => rec.state \in isTerminalState
  /\ wk.pc = "idle" /\ staging = "no" /\ tomb => rec.state # "preparing"
  /\ staging = "no" /\ tomb /\ wk.pc \notin Clears => rec.state \notin isCancellationTerminalState

FenceInv ==
  /\ wk.owner = "none" <=> wk.pc = "idle"
  /\ wk.owner = "reader" => staging = "no"
  /\ wk.pc \in {"sendFailed", "sendLast", "finish", "sendCanceled", "sendTerminal"}
       => rec.state \in isTerminalState
  /\ wk.pc = "preAck" => rec.state = "none" /\ wk.owner = "reader"
  /\ conn = "up" => ConnectedFence

-----------------------------------------------------------------------------

\* A goroutine that failed takes the connection with it; one that goes on does not.
LEMMA ReportFence ==
  ASSUME NEW msgs, NEW p, Report(msgs, p) \/ ContextReport(msgs, p) \/ Write(msgs, p)
  PROVE  /\ UNCHANGED <<rec, tomb, staging, started>>
         /\ \/ wk' = [wk EXCEPT !.pc = p] /\ UNCHANGED conn
            \/ wk' = Idle /\ conn' # "up"
BY DEF ContextReport, Report, Write, WriteFails, Return, Goto, Ends, Internal

\* A worker's step keeps the fence invariant.
LEMMA WorkerFenceStep ==
  ASSUME SocketTypeOK, BridgeTypeOK, ExecInv, FenceInv, WorkerStep \/ WorkerMishap
  PROVE  FenceInv'
<1>1. rec \in RecordType /\ wk \in WorkerType /\ tomb \in BOOLEAN
  BY DEF BridgeTypeOK, RecordType, WorkerType
<1>2. ASSUME NEW p, Goto(p)
      PROVE  /\ wk'.pc = p /\ wk'.fresh = wk.fresh /\ wk'.owner = wk.owner
  BY <1>1, <1>2 DEF Goto, WorkerType
<1>3. ASSUME wk' = Idle, conn' # "up"
      PROVE  FenceInv'
  BY <1>3 DEF FenceInv, Idle
<1>4. isCancellationTerminalState \subseteq isTerminalState
  BY DEF isCancellationTerminalState, isTerminalState
<1>24. wk.pc # "idle"
  BY DEF WorkerStep, WorkerMishap, Admit, CheckBeforePreparation, Prepare, PrepareRetryable,
         CheckBeforeAcceptance, FailMaterialization, SendFailed, SendAccepted,
         ReplayDuplicate, CheckBeforeGate, AcquireGate, LeaveGate, CheckBeforeStart,
         BeforeStartFails, RefuseStart, StartRuntime, RuntimeEvent, RuntimeError,
         EventSendFails, SendEvent, SendLast, ReleaseFence, PersistCanceled, SendCanceled,
         ClearCancellation, Leave, At
<1> USE <1>1, <1>4, <1>24
<1>5. CASE Admit
  <2>1. /\ wk'.pc = "check1" /\ wk'.owner = wk.owner
        /\ wk'.fresh = (rec.state \in {"none", "preparing"})
    BY <1>5 DEF Admit, WorkerType
  <2>2. rec'.state = IF rec.state = "none" THEN "accepted" ELSE rec.state
    BY <1>5 DEF Admit, Local, RecordType
  <2>3. wk.pc = "admit" /\ UNCHANGED <<conn, tomb, staging>>
    BY <1>5 DEF Admit, At, Internal
  <2>4. ~wk'.fresh => rec.state \notin {"none", "preparing"}
    BY <2>1
  <2> QED
    BY <2>1, <2>2, <2>3, <2>4
       DEF FenceInv, ConnectedFence, Clears, Replays, isTerminalState, isCancellationTerminalState
<1>6. CASE CheckBeforePreparation
  <2>1. /\ wk.pc = "check1" /\ UNCHANGED <<conn, tomb, staging>>
        /\ wk'.pc = IF tomb THEN "cancel" ELSE "prepare"
        /\ wk'.fresh = wk.fresh /\ wk'.owner = wk.owner
    BY <1>2, <1>6 DEF CheckBeforePreparation, At, Internal
  <2>2. \/ rec' = rec
        \/ wk.fresh /\ rec.state = "accepted" /\ rec'.state = "preparing"
    BY <1>6 DEF CheckBeforePreparation, Local, RecordType
  <2> QED
    BY <2>1, <2>2
       DEF FenceInv, ConnectedFence, Clears, Replays, isTerminalState, isCancellationTerminalState
<1>7. CASE Prepare
  <2>1. /\ wk.pc = "prepare" /\ UNCHANGED <<conn, tomb, staging>>
        /\ wk'.pc = "check2" /\ wk'.fresh = wk.fresh /\ wk'.owner = wk.owner
    BY <1>7 DEF Prepare, At, Internal, WorkerType
  <2>2. \/ rec' = rec
        \/ rec.state = "preparing" /\ rec'.state = "accepted"
    BY <1>7 DEF Prepare, Local, RecordType
  <2> QED
    BY <2>1, <2>2
       DEF FenceInv, ConnectedFence, Clears, Replays, isTerminalState, isCancellationTerminalState
<1>8. CASE PrepareRetryable
  <2>1. CASE wk.explicit
    <3>1. /\ wk'.pc = "cancel" /\ wk'.owner = wk.owner /\ UNCHANGED <<conn, staging>>
      BY <1>2, <1>8, <2>1 DEF PrepareRetryable, Internal
    <3> QED
      BY <3>1 DEF FenceInv, ConnectedFence, Clears, Replays
  <2>2. CASE ~wk.explicit
    <3>1. wk' = Idle /\ conn' # "up"
      BY <1>8, <2>2 DEF PrepareRetryable, Return, Ends
    <3> QED
      BY <1>3, <3>1
  <2> QED
    BY <2>1, <2>2
<1>9. CASE CheckBeforeAcceptance
  <2>1. /\ wk.pc = "check2" /\ UNCHANGED <<conn, tomb, staging, rec>>
        /\ wk'.pc \in {"cancel", "prepFail", "ack"}
        /\ wk'.fresh = wk.fresh /\ wk'.owner = wk.owner
    BY <1>2, <1>9 DEF CheckBeforeAcceptance, At, Internal
  <2> QED
    BY <2>1 DEF FenceInv, ConnectedFence, Clears, Replays
<1>10. CASE FailMaterialization
  <2>1. /\ wk.pc = "prepFail" /\ UNCHANGED <<conn, staging>>
        /\ wk'.pc = "sendFailed" /\ wk'.owner = wk.owner
    BY <1>2, <1>10 DEF FailMaterialization, At, Internal
  <2>2. \/ rec.state \in isTerminalState /\ UNCHANGED <<rec, tomb>>
        \/ rec'.state = "failed" /\ ~tomb'
    BY <1>10, AppendEventEffect DEF FailMaterialization, BridgeKind, isTerminalState
  <2>3. rec'.state \in isTerminalState
    BY <2>2 DEF isTerminalState
  <2> QED
    BY <2>1, <2>2, <2>3 DEF FenceInv, ConnectedFence, Clears, Replays
<1>11. CASE SendFailed \/ ReplayDuplicate
  <2>1. PICK msgs : Report(msgs, "return") \/ ContextReport(msgs, "return")
    BY <1>11 DEF SendFailed, ReplayDuplicate
  <2>2. CASE wk' = Idle /\ conn' # "up"
    BY <1>3, <2>2
  <2>3. CASE wk' = [wk EXCEPT !.pc = "return"] /\ UNCHANGED conn
    <3>1. /\ UNCHANGED <<rec, tomb, staging>>
          /\ wk'.pc = "return" /\ wk'.owner = wk.owner
      BY <2>1, <2>3, ReportFence DEF WorkerType
    <3>2. conn = "up" => rec.state \in isTerminalState
      BY <1>11 DEF SendFailed, ReplayDuplicate, At, FenceInv, ConnectedFence, Replays,
                   ExecInv, PreStart
    <3>3. wk.pc \in {"sendFailed", "dup"}
      BY <1>11 DEF SendFailed, ReplayDuplicate, At
    <3> QED
      BY <2>3, <3>1, <3>2, <3>3 DEF FenceInv, ConnectedFence, Clears, Replays
  <2> QED
    BY <2>1, <2>2, <2>3, ReportFence
<1>12. CASE SendAccepted
  <2> DEFINE p == IF wk.fresh THEN "start1" ELSE "dup"
  <2>1. wk.pc = "ack" /\ ContextReport(<<Accepted>>, p)
    BY <1>12 DEF SendAccepted, At
  <2>2. CASE wk' = Idle /\ conn' # "up"
    BY <1>3, <2>2
  <2>3. CASE wk' = [wk EXCEPT !.pc = p] /\ UNCHANGED conn
    <3>1. /\ UNCHANGED <<rec, tomb, staging>>
          /\ wk'.pc = p /\ wk'.owner = wk.owner /\ wk'.fresh = wk.fresh
      BY <2>1, <2>3, ReportFence DEF WorkerType
    <3> QED
      BY <2>1, <2>3, <3>1 DEF FenceInv, ConnectedFence, Clears, Replays
  <2> QED
    BY <2>1, <2>2, <2>3, ReportFence
<1>13. CASE CheckBeforeGate \/ AcquireGate \/ CheckBeforeStart
  <2>1. /\ wk.pc \in {"start1", "gate", "start2"} /\ UNCHANGED <<conn, tomb, staging, rec>>
        /\ wk'.pc \in {"cancelAfter", "gate", "start2", "start"} /\ wk'.owner = wk.owner
    BY <1>2, <1>13 DEF CheckBeforeGate, AcquireGate, CheckBeforeStart, At, Internal
  <2> QED
    BY <2>1 DEF FenceInv, ConnectedFence, Clears, Replays
<1>14. CASE LeaveGate
  <2>1. /\ wk.pc = "gate" /\ UNCHANGED <<conn, tomb, staging, rec>> /\ wk'.owner = wk.owner
        /\ wk'.pc = IF wk.explicit THEN "cancelAfter" ELSE "return"
        /\ conn = "closing" \/ wk.explicit
    BY <1>2, <1>14 DEF LeaveGate, At, Internal
  <2> QED
    BY <2>1 DEF FenceInv, ConnectedFence, Clears, Replays
<1>15. CASE BeforeStartFails \/ EventSendFails
  <2>1. wk' = Idle /\ conn' # "up"
    BY <1>15 DEF BeforeStartFails, EventSendFails, Return, Ends
  <2> QED
    BY <1>3, <2>1
<1>16. CASE RefuseStart \/ RuntimeError \/ RuntimeEvent \/ StartRuntime
  <2>1. /\ wk'.pc \in {"sendLast", "emit", "running"} /\ wk'.owner = wk.owner
        /\ UNCHANGED <<conn, staging>>
    BY <1>2, <1>16 DEF RefuseStart, RuntimeError, RuntimeEvent, StartRuntime, Internal
  <2>2. wk'.pc = "sendLast" => rec'.state \in isTerminalState
    BY <1>2, <1>16, AppendEventEffect
       DEF RefuseStart, RuntimeError, RuntimeEvent, StartRuntime, BridgeKind, isTerminalState
  <2> QED
    BY <2>1, <2>2 DEF FenceInv, ConnectedFence, Clears, Replays
<1>17. CASE SendEvent
  <2> DEFINE p == IF rec.state \in isTerminalState THEN "finish" ELSE "running"
  <2>1. \/ Report(<<LastEvent(rec)>>, p) \/ ContextReport(<<LastEvent(rec)>>, p)
        \/ Write(<<LastEvent(rec)>>, p)
    BY <1>17 DEF SendEvent
  <2>2. CASE wk' = Idle /\ conn' # "up"
    BY <1>3, <2>2
  <2>3. CASE wk' = [wk EXCEPT !.pc = p] /\ UNCHANGED conn
    <3>1. UNCHANGED <<rec, tomb, staging>> /\ wk'.pc = p /\ wk'.owner = wk.owner
      BY <2>1, <2>3, ReportFence DEF WorkerType
    <3> QED
      BY <2>3, <3>1 DEF FenceInv, ConnectedFence, Clears, Replays
  <2> QED
    BY <2>1, <2>2, <2>3, ReportFence
<1>18. CASE SendLast
  <2>1. wk.pc = "sendLast" /\ ContextReport(<<LastEvent(rec)>>, "finish")
    BY <1>18 DEF SendLast, At
  <2>2. CASE wk' = Idle /\ conn' # "up"
    BY <1>3, <2>2
  <2>3. CASE wk' = [wk EXCEPT !.pc = "finish"] /\ UNCHANGED conn
    <3>1. UNCHANGED <<rec, tomb, staging>> /\ wk'.pc = "finish" /\ wk'.owner = wk.owner
      BY <2>1, <2>3, ReportFence DEF WorkerType
    <3>2. rec.state \in isTerminalState
      BY <2>1 DEF FenceInv
    <3> QED
      BY <2>3, <3>1, <3>2 DEF FenceInv, ConnectedFence, Clears, Replays
  <2> QED
    BY <2>1, <2>2, <2>3, ReportFence
<1>19. CASE ReleaseFence
  <2>1. /\ wk.pc = "finish" /\ wk'.pc = "return" /\ wk'.owner = wk.owner
        /\ UNCHANGED <<conn, staging, rec>>
        /\ tomb' = (tomb /\ rec.state \notin isCancellationTerminalState)
    BY <1>2, <1>19 DEF ReleaseFence, FenceAfter, At, Internal
  <2>2. tomb' => rec.state \notin isCancellationTerminalState
    BY <2>1
  <2> QED
    BY <2>1, <2>2 DEF FenceInv, ConnectedFence, Clears, Replays
<1>20. CASE PersistCanceled
  <2>1. /\ wk'.pc \in {"sendCanceled", "sendTerminal"} /\ wk'.owner = wk.owner
        /\ UNCHANGED <<conn, staging>>
    BY <1>2, <1>20 DEF PersistCanceled, Internal
  <2>2. rec'.state \in isTerminalState
    BY <1>20, AppendEventEffect
       DEF PersistCanceled, CancelQueued, BridgeKind, isTerminalState
  <2> QED
    BY <2>1, <2>2 DEF FenceInv, ConnectedFence, Clears, Replays
<1>21. CASE SendCanceled
  <2>1. PICK msgs : Report(msgs, "clear") \/ ContextReport(msgs, "clear")
    BY <1>21 DEF SendCanceled
  <2>2. CASE wk' = Idle /\ conn' # "up"
    BY <1>3, <2>2
  <2>3. CASE wk' = [wk EXCEPT !.pc = "clear"] /\ UNCHANGED conn
    <3>1. UNCHANGED <<rec, tomb, staging>> /\ wk'.pc = "clear" /\ wk'.owner = wk.owner
      BY <2>1, <2>3, ReportFence DEF WorkerType
    <3>2. rec.state \in isTerminalState \/ (rec.state = "none" /\ wk.owner = "reader")
      BY <1>21 DEF SendCanceled, At, FenceInv
    <3> QED
      BY <2>3, <3>1, <3>2 DEF FenceInv, ConnectedFence, Clears, Replays
  <2> QED
    BY <2>1, <2>2, <2>3, ReportFence
<1>22. CASE ClearCancellation
  <2>1. /\ wk.pc = "clear" /\ wk'.pc = "return" /\ wk'.owner = wk.owner
        /\ UNCHANGED <<conn, staging, rec>> /\ ~tomb'
    BY <1>2, <1>22 DEF ClearCancellation, At, Internal
  <2> QED
    BY <2>1 DEF FenceInv, ConnectedFence, Clears, Replays
<1>23. CASE Leave
  <2>1. /\ wk.pc = "return" /\ wk'.pc = "idle" /\ wk'.owner = "none"
        /\ UNCHANGED <<conn, staging, rec, tomb>>
    BY <1>23 DEF Leave, At, Return, Ends, Idle, Internal
  <2> QED
    BY <2>1 DEF FenceInv, ConnectedFence, Clears, Replays, isTerminalState
<1> QED
  BY <1>5, <1>6, <1>7, <1>8, <1>9, <1>10, <1>11, <1>12, <1>13, <1>14, <1>15, <1>16,
     <1>17, <1>18, <1>19, <1>20, <1>21, <1>22, <1>23 DEF WorkerStep, WorkerMishap

\* Reading a command, and staging a cancellation, keep the fence invariant.
LEMMA ReaderFenceStep ==
  ASSUME BridgeTypeOK, ExecInv, FenceInv, ReaderStep
  PROVE  FenceInv'
<1>1. rec \in RecordType /\ wk \in WorkerType /\ tomb \in BOOLEAN
  BY DEF BridgeTypeOK, RecordType, WorkerType
<1>2. UNCHANGED <<rec, conn>>
  BY DEF ReaderStep, ReadRequest, ReadCancelActive, StageCancellation, FinishStaging,
         ReadCancelInactive, Reads, socketVars
<1>3. isCancellationTerminalState \subseteq isTerminalState
  BY DEF isCancellationTerminalState, isTerminalState
<1> USE <1>1, <1>2, <1>3
<1>4. CASE ReadCancelActive
  <2>1. wk.owner = "worker" /\ staging' = "record" /\ UNCHANGED <<tomb, wk>>
    BY <1>4 DEF ReadCancelActive
  <2>2. wk.pc # "idle"
    BY <2>1 DEF FenceInv
  <2> QED
    BY <2>1, <2>2 DEF FenceInv, ConnectedFence
<1>5. CASE StageCancellation
  BY <1>5 DEF StageCancellation, FenceInv, ConnectedFence
<1>6. CASE FinishStaging
  <2>1. /\ wk'.pc = wk.pc /\ wk'.fresh = wk.fresh /\ wk'.owner = wk.owner
        /\ staging = "check" /\ staging' = "no"
        /\ tomb' = (tomb /\ rec.state \notin isCancellationTerminalState)
    BY <1>6 DEF FinishStaging, FenceAfter, WorkerType
  <2>2. tomb' => rec.state \notin isCancellationTerminalState
    BY <2>1
  <2> QED
    BY <2>1, <2>2 DEF FenceInv, ConnectedFence, isTerminalState
<1>7. CASE ReadRequest
  <2>1. /\ wk' = wk \/ (wk'.pc = "admit" /\ wk'.owner = "worker" /\ wk.owner = "none")
        /\ staging = "no" /\ UNCHANGED <<tomb, staging>>
    BY <1>7 DEF ReadRequest, Reads, Idle, WorkerType
  <2>2. wk.owner = "none" => wk.pc = "idle"
    BY DEF FenceInv
  <2> QED
    BY <2>1, <2>2 DEF FenceInv, ConnectedFence, Clears, Replays
<1>8. CASE ReadCancelInactive
  <2>1. /\ wk'.pc = IF rec.state = "none" THEN "preAck"
                    ELSE IF rec.state \in isCancellationTerminalState
                         THEN "sendTerminal" ELSE "cancel"
        /\ wk'.owner = "reader" /\ staging' = "no"
    BY <1>8 DEF ReadCancelInactive, Reads, Idle
  <2> QED
    BY <2>1 DEF FenceInv, ConnectedFence, Clears, Replays, isTerminalState
<1> QED
  BY <1>4, <1>5, <1>6, <1>7, <1>8 DEF ReaderStep

\* Recovery leaves a record that is unknown, still to be prepared, or terminal.
LEMMA RecoveredIsSettled ==
  ASSUME NEW r \in RecordType, NEW t \in BOOLEAN
  PROVE  Recovered(r, t).state \in {"none", "preparing"} \cup isTerminalState
<1>1. /\ AppendEvent(r, "canceled").state = "canceled"
      /\ AppendEvent(r, "outcome_unknown").state = "outcome_unknown"
  BY DEF AppendEvent
<1>2. r.state \in InboxState
  BY DEF RecordType
<1> QED
  BY <1>1, <1>2
     DEF Recovered, CancelQueued, InboxState, isTerminalState, isCancellationTerminalState

\* Every step keeps the fence invariant.
LEMMA FenceStep ==
  ASSUME IInv, FenceInv, Next
  PROVE  FenceInv'
<1> USE DEF IInv, TypeOK
<1>1. CASE Central
  <2>1. UNCHANGED bridgeVars /\ UNCHANGED conn
    BY <1>1 DEF Central, CentralNext, DispatchRun, ExpireQueued, CancelRun, CancellationSweep,
                Heartbeat, CloseClarification, WaveDeadline, Revoke, CentralRestart,
                ReceiveHello, ReceiveRunMessage, socketVars
  <2> QED
    BY <2>1 DEF FenceInv, ConnectedFence, bridgeVars
<1>2. CASE Bridge
  <2>1. CASE (CancelConnection /\ UNCHANGED bridgeVars) \/ CloseComplete
    BY <2>1 DEF CancelConnection, CloseComplete, FenceInv, ConnectedFence, bridgeVars
  <2>2. CASE BridgeCrash
    BY <2>2 DEF BridgeCrash, FenceInv, Idle
  <2>3. CASE ReaderStep
    BY <2>3, ReaderFenceStep
  <2>4. CASE WorkerStep \/ WorkerMishap
    BY <2>4, WorkerFenceStep
  <2> QED
    BY <1>2, <2>1, <2>2, <2>3, <2>4 DEF Bridge, BridgeNext
<1>3. CASE Dial
  <2>1. /\ wk = Idle /\ staging = "no" /\ UNCHANGED <<wk, staging>>
    BY <1>3 DEF Dial, Connect, ExecInv
  <2>2. rec \in RecordType /\ tomb \in BOOLEAN
    BY DEF BridgeTypeOK, RecordType
  <2>3. /\ rec'.state \in {"none", "preparing"} \cup isTerminalState
        /\ tomb' => rec'.state = "none"
    BY <1>3, <2>2, RecoveredIsSettled DEF Dial, Connect
  <2> QED
    BY <2>1, <2>3 DEF FenceInv, ConnectedFence, Idle, Replays, Clears, isCancellationTerminalState
<1>4. CASE Break
  <2>1. UNCHANGED bridgeVars /\ (conn' = conn \/ conn' = "failing")
    BY <1>4 DEF Break, Drop, SeesClose
  <2> QED
    BY <2>1 DEF FenceInv, ConnectedFence, bridgeVars
<1> QED
  BY <1>1, <1>2, <1>3, <1>4 DEF Next

\* The fence invariant holds in every reachable state.
THEOREM FenceInvariant == Spec => []FenceInv
<1>1. Init => FenceInv
  BY DEF Init, SocketInit, BridgeInit, FenceInv, Idle
<1>2. IInv /\ FenceInv /\ [Next]_vars => FenceInv'
  <2>1. IInv /\ FenceInv /\ Next => FenceInv'
    BY FenceStep
  <2>2. FenceInv /\ UNCHANGED vars => FenceInv'
    BY DEF FenceInv, ConnectedFence, vars
  <2> QED
    BY <2>1, <2>2
<1> QED
  BY <1>1, <1>2, Invariant, PTL DEF Spec

\* Whatever the reader stages while a worker moves on, ends, fails or is restarted, a
\* tombstone that is left on a connected Bridge when both have ended fences a Run the
\* inbox does not know, or one that waits for input.
THEOREM FenceIsReleased == Spec => []FenceReleased
<1>1. IInv /\ FenceInv => FenceReleased
  <2>1. ASSUME IInv, FenceInv, conn = "up", wk = Idle, staging = "no", tomb
        PROVE  rec.state \in {"none", "input_required"}
    BY <2>1 DEF FenceInv, ConnectedFence, Idle, Clears, isTerminalState,
                isCancellationTerminalState
  <2> QED
    BY <2>1 DEF FenceReleased
<1> QED
  BY <1>1, Invariant, FenceInvariant, PTL

-----------------------------------------------------------------------------
(* The history: its inductive invariant                                    *)
(*                                                                         *)
(* What is in flight is what the record says, or the answer of a Bridge    *)
(* that does not know the Run and will never be asked to run it.  So the   *)
(* invariant follows a request from Central's Delivery row through the     *)
(* socket to the worker, and an event from the record through the sockets  *)
(* to Central's log.                                                       *)

\* A request is on its way to the Bridge.
Requested == \E i \in 1 .. Len(down) : down[i] = "run.requested"

\* The Bridge has no trace of the Run, and none is on its way to it.
Unknown == rec.state = "none" /\ wk.owner # "worker" /\ ~Requested

\* Central will not ask for the Run (again).
Stopped(h) == Terminal(h) \/ h.intent # "none"

\* The record's events, its state and the invocation of the Runtime.
RecordInv ==
  /\ rec.state \in {"none", "preparing", "accepted"} => rec.ev = << >>
  /\ \A i \in 1 .. Len(rec.ev) : rec.ev[i] \in isTerminalState => rec.state \in isTerminalState
  /\ \A i \in 1 .. Len(rec.ev) : rec.ev[i] = "completed" => started > 0

\* The worker's position, and who stands there.
PositionInv ==
  /\ wk.pc \in {"running", "emit"} => started > 0
  /\ wk.pc = "admit" => wk.owner = "worker"
  /\ wk.pc = "preAck" => wk.owner = "reader"
  /\ rec.state = "none" => wk.pc \in {"idle", "admit", "preAck", "clear", "return"}

\* A request never follows a cancellation, and a Delivery row precedes both.
CommandInv ==
  /\ hub.intent \notin {"none", "pending"} => Terminal(hub)
  /\ \A i, j \in 1 .. Len(down) :
       i < j /\ down[i] = "run.cancel_requested" => down[j] # "run.requested"
  /\ \A i \in 1 .. Len(down) : down[i] = "run.cancel_requested" => Stopped(hub)
  /\ wk.pc = "preAck" => Stopped(hub) /\ Unknown
  /\ hub.delivery = "none" => Unknown

\* The Run will never be run.
Refused == Stopped(hub) /\ Unknown

\* A message the Bridge may have written, if its record is r.
Genuine(m, r, refused) ==
  \/ m = Hello
  \/ m = Accepted /\ r.state # "none"
  \/ m = TombstoneStatus /\ refused
  \/ m.seq - 1 \in 1 .. Len(r.ev) /\ m.kind = r.ev[m.seq - 1]

WireInv == \A e \in Epochs : \A i \in 1 .. Len(up[e]) : Genuine(up[e][i], rec, Refused)

\* Central's log: what was reported, or that and a verdict of Central's own.
LogAgrees ==
  \/ IsPrefixOf(hub.log, Reported)
  \/ /\ hub.state \in terminalStates \ {"completed"}
     /\ \E s \in Seq(EventKind) : \E k \in EventKind :
          hub.log = Append(s, k) /\ IsPrefixOf(s, Reported)

\* Central's log and state against the record.
VerdictInv ==
  /\ ~Terminal(hub) => IsPrefixOf(hub.log, Reported)
  /\ LogAgrees
  /\ hub.state = "input_required" => rec.state \in isTerminalState
  /\ hub.state = "completed" => started > 0 /\ rec.state \in isTerminalState
  /\ ~Discussion => ~discCanceled
  /\ ~Discussion /\ hub.state = "canceled" => rec.state \in isTerminalState \/ Unknown

HistoryInv == RecordInv /\ PositionInv /\ CommandInv /\ WireInv /\ VerdictInv

-----------------------------------------------------------------------------
(* The record *)

\* What a step of the Bridge may do to the record.
RecordChange ==
  \/ rec' = rec
  \/ /\ rec.state \in {"none", "accepted", "preparing"}
     /\ \E s \in {"accepted", "preparing"} : rec' = Local(rec, s)
  \/ /\ rec.state \notin isCancellationTerminalState \cup {"none"}
     /\ \E k \in BridgeKind :
          /\ rec' = AppendEvent(rec, k)
          /\ k \in {"working", "reply"} => rec.state \notin isTerminalState
          /\ k = "reply" => rec.state = "working"
          /\ k = "completed" => wk.pc = "running"

\* Cancellation and recovery change a record in these ways only.
LEMMA RecoveredChange ==
  ASSUME NEW r \in RecordType, NEW t \in BOOLEAN
  PROVE  /\ CancelQueued(r) = r \/ (/\ r.state \notin isCancellationTerminalState
                                    /\ CancelQueued(r) = AppendEvent(r, "canceled"))
         /\ \/ Recovered(r, t) = r
            \/ /\ r.state \notin isCancellationTerminalState
               /\ \/ Recovered(r, t) = AppendEvent(r, "canceled")
                  \/ Recovered(r, t) = AppendEvent(r, "outcome_unknown")
BY DEF CancelQueued, Recovered, isCancellationTerminalState

\* Every step of the Bridge changes the record in one of these ways.
LEMMA RecordChanges ==
  ASSUME IInv, RecordInv, PositionInv, Bridge \/ Dial
  PROVE  RecordChange
<1> USE DEF IInv, TypeOK
<1>1. rec \in RecordType /\ tomb \in BOOLEAN
  BY DEF BridgeTypeOK, RecordType
<1>2. /\ "canceled" \in BridgeKind /\ "outcome_unknown" \in BridgeKind
      /\ "failed" \in BridgeKind
  BY DEF BridgeKind, isTerminalState
<1>3. isCancellationTerminalState \subseteq isTerminalState
  BY DEF isCancellationTerminalState, isTerminalState
<1> USE <1>1, <1>2, <1>3
<1>4. CASE Dial
  <2>1. rec' = rec \/ (rec.state # "none" /\ rec' = Recovered(rec, tomb))
    BY <1>4 DEF Dial, Connect
  <2> QED
    BY <2>1, RecoveredChange DEF RecordChange
<1>5. CASE \/ CancelConnection /\ UNCHANGED bridgeVars
           \/ CloseComplete \/ BridgeCrash \/ ReaderStep
  <2>1. rec' = rec
    BY <1>5 DEF CloseComplete, BridgeCrash, ReaderStep, ReadRequest, ReadCancelActive,
                StageCancellation, FinishStaging, ReadCancelInactive, bridgeVars
  <2> QED
    BY <2>1 DEF RecordChange
<1>6. CASE Admit \/ CheckBeforePreparation \/ Prepare
  BY <1>6 DEF Admit, CheckBeforePreparation, Prepare, RecordChange
<1>7. CASE FailMaterialization
  <2>1. rec.state # "none"
    BY <1>7 DEF FailMaterialization, At, PositionInv
  <2> QED
    BY <1>7, <2>1 DEF FailMaterialization, RecordChange
<1>8. CASE RefuseStart
  <2>1. rec.state = "accepted"
    BY <1>8 DEF RefuseStart, At, ExecInv, PreStart, FreshOnly
  <2> QED
    BY <1>8, <2>1 DEF RefuseStart, RecordChange, isCancellationTerminalState
<1>9. CASE RuntimeEvent \/ RuntimeError
  <2>1. wk.pc = "running" /\ rec.state \in {"accepted", "working"}
    BY <1>9 DEF RuntimeEvent, RuntimeError, At, ExecInv
  <2>2. PICK k \in RuntimeReports(rec) \cup {"outcome_unknown"} : rec' = AppendEvent(rec, k)
    BY <1>9 DEF RuntimeEvent, RuntimeError
  <2>3. k \in BridgeKind /\ (k = "reply" => rec.state = "working")
    BY <2>1, <2>2 DEF RuntimeReports, BridgeKind, isTerminalState
  <2>4. rec.state \notin isTerminalState
    BY <2>1 DEF isTerminalState
  <2> QED
    BY <2>1, <2>2, <2>3, <2>4 DEF RecordChange
<1>10. CASE EventSendFails
  <2>1. rec.state \notin isTerminalState \cup {"none"}
    BY <1>10 DEF EventSendFails, At, PositionInv
  <2> QED
    BY <1>10, <2>1 DEF EventSendFails, RecordChange
<1>11. CASE PersistCanceled
  <2>1. rec.state # "none"
    BY <1>11 DEF PersistCanceled, PositionInv
  <2> QED
    BY <1>11, <2>1, RecoveredChange DEF PersistCanceled, RecordChange
<1>12. CASE \/ PrepareRetryable \/ CheckBeforeAcceptance \/ CheckBeforeGate \/ AcquireGate
            \/ LeaveGate \/ CheckBeforeStart \/ BeforeStartFails \/ StartRuntime
            \/ ReleaseFence \/ ClearCancellation \/ Leave
  BY <1>12 DEF PrepareRetryable, CheckBeforeAcceptance, CheckBeforeGate, AcquireGate,
               LeaveGate, CheckBeforeStart, BeforeStartFails, StartRuntime, ReleaseFence,
               ClearCancellation, Leave, RecordChange
<1>13. CASE SendFailed \/ SendAccepted \/ ReplayDuplicate \/ SendLast \/ SendEvent \/ SendCanceled
  <2>1. rec' = rec
    BY <1>13, ReportEffect DEF SendFailed, SendAccepted, ReplayDuplicate, SendLast,
                               SendEvent, SendCanceled
  <2> QED
    BY <2>1 DEF RecordChange
<1> QED
  BY <1>4, <1>5, <1>6, <1>7, <1>8, <1>9, <1>10, <1>11, <1>12, <1>13
     DEF Bridge, BridgeNext, WorkerStep, WorkerMishap

\* The record only grows, and what it says is never taken back.
RecordGrows ==
  /\ Len(rec.ev) <= Len(rec'.ev)
  /\ \A i \in 1 .. Len(rec.ev) : rec'.ev[i] = rec.ev[i]
  /\ rec.state \in isTerminalState => rec'.state \in isTerminalState
  /\ rec.state # "none" => rec'.state # "none"

\* A change of the record keeps its invariant, and the record grows.
LEMMA RecordStep ==
  ASSUME BridgeTypeOK, RecordInv, PositionInv, RecordChange, started' \in Nat, started' >= started
  PROVE  RecordGrows /\ RecordInv'
<1>1. rec \in RecordType /\ rec.ev \in Seq(EventKind) /\ Len(rec.ev) \in Nat /\ started \in Nat
  BY DEF BridgeTypeOK, RecordType
<1>2. CASE rec' = rec
  BY <1>1, <1>2 DEF RecordGrows, RecordInv
<1>3. ASSUME rec.state \in {"none", "accepted", "preparing"},
             NEW s \in {"accepted", "preparing"}, rec' = Local(rec, s)
      PROVE  RecordGrows /\ RecordInv'
  <2>1. rec'.ev = rec.ev /\ rec'.state = s /\ rec.ev = << >>
    BY <1>1, <1>3 DEF Local, RecordType, RecordInv
  <2> QED
    BY <1>3, <2>1 DEF RecordGrows, RecordInv, isTerminalState
<1>4. ASSUME rec.state \notin isCancellationTerminalState \cup {"none"},
             NEW k \in BridgeKind, rec' = AppendEvent(rec, k),
             k \in {"working", "reply"} => rec.state \notin isTerminalState,
             k = "reply" => rec.state = "working",
             k = "completed" => wk.pc = "running"
      PROVE  RecordGrows /\ RecordInv'
  <2>1. rec'.ev = Append(rec.ev, k) /\ rec'.state = IF k = "reply" THEN rec.state ELSE k
    BY <1>4 DEF AppendEvent
  <2>2. /\ Len(rec'.ev) = Len(rec.ev) + 1 /\ rec'.ev[Len(rec.ev) + 1] = k
        /\ \A i \in 1 .. Len(rec.ev) : rec'.ev[i] = rec.ev[i]
    BY <1>1, <2>1
  <2>3. rec'.state \notin {"none", "preparing", "accepted"}
    BY <1>4, <2>1 DEF BridgeKind, isTerminalState
  <2>4. rec.state \in isTerminalState => rec'.state \in isTerminalState
    BY <1>4, <2>1 DEF BridgeKind
  <2>5. k \in isTerminalState => rec'.state \in isTerminalState
    BY <2>1 DEF isTerminalState
  <2>6. k = "completed" => started' > 0
    BY <1>1, <1>4 DEF PositionInv
  <2>7. ASSUME NEW i \in 1 .. Len(rec'.ev)
        PROVE  i \in 1 .. Len(rec.ev) \/ (i = Len(rec.ev) + 1 /\ rec'.ev[i] = k)
    BY <1>1, <2>2, <2>7
  <2>8. RecordGrows
    BY <1>1, <2>2, <2>3, <2>4 DEF RecordGrows
  <2>9. \A i \in 1 .. Len(rec'.ev) :
          rec'.ev[i] \in isTerminalState => rec'.state \in isTerminalState
    BY <2>2, <2>4, <2>5, <2>7 DEF RecordInv
  <2>10. \A i \in 1 .. Len(rec'.ev) : rec'.ev[i] = "completed" => started' > 0
    BY <1>1, <2>2, <2>6, <2>7 DEF RecordInv
  <2> QED
    BY <2>3, <2>8, <2>9, <2>10 DEF RecordInv
<1> QED
  BY <1>2, <1>3, <1>4 DEF RecordChange

-----------------------------------------------------------------------------
(* The Bridge's commands and positions *)

\* The count of invocations never falls.
LEMMA StartedGrows ==
  ASSUME IInv, Next
  PROVE  started' \in Nat /\ started' >= started
<1>1. started \in Nat
  BY DEF IInv, TypeOK, BridgeTypeOK
<1>2. CASE Central \/ Break \/ Dial
  BY <1>1, <1>2 DEF Central, Break, Dial, Connect, bridgeVars
<1>3. CASE \/ CancelConnection /\ UNCHANGED bridgeVars
           \/ CloseComplete \/ BridgeCrash \/ ReaderStep
  BY <1>1, <1>3 DEF CloseComplete, BridgeCrash, ReaderStep, ReadRequest, ReadCancelActive,
                    StageCancellation, FinishStaging, ReadCancelInactive, Reads, bridgeVars
<1>4. CASE StartRuntime
  BY <1>1, <1>4 DEF StartRuntime
<1>5. CASE \/ Admit \/ CheckBeforePreparation \/ Prepare \/ FailMaterialization \/ RefuseStart
           \/ RuntimeEvent \/ RuntimeError \/ EventSendFails \/ PersistCanceled
           \/ PrepareRetryable \/ CheckBeforeAcceptance \/ CheckBeforeGate \/ AcquireGate
           \/ LeaveGate \/ CheckBeforeStart \/ BeforeStartFails
           \/ ReleaseFence \/ ClearCancellation \/ Leave
  <2>1. started' = started
    BY <1>5
       DEF Admit, CheckBeforePreparation, Prepare, FailMaterialization, RefuseStart,
           RuntimeEvent, RuntimeError, EventSendFails, PersistCanceled, PrepareRetryable,
           CheckBeforeAcceptance, CheckBeforeGate, AcquireGate, LeaveGate, CheckBeforeStart,
           BeforeStartFails, ReleaseFence, ClearCancellation, Leave
  <2> QED
    BY <1>1, <2>1
<1>6. CASE SendFailed \/ SendAccepted \/ ReplayDuplicate \/ SendLast \/ SendEvent \/ SendCanceled
  <2>1. started' = started
    BY <1>6, ReportEffect DEF SendFailed, SendAccepted, ReplayDuplicate, SendLast,
                              SendEvent, SendCanceled
  <2> QED
    BY <1>1, <2>1
<1> QED
  BY <1>2, <1>3, <1>4, <1>5, <1>6 DEF Next, Bridge, BridgeNext, WorkerStep, WorkerMishap

\* Where a goroutine that is not a report goes.
LEMMA GoesOn ==
  ASSUME BridgeTypeOK, NEW p, wk' = [wk EXCEPT !.pc = p]
  PROVE  wk'.pc = p /\ wk'.owner = wk.owner
BY DEF BridgeTypeOK

\* A goroutine's step takes it to a position of its own owner, or ends it.
LEMMA WorkerPositionStep ==
  ASSUME IInv, PositionInv, RecordGrows, started' >= started, started' \in Nat,
         WorkerStep \/ WorkerMishap
  PROVE  /\ PositionInv'
         /\ wk'.owner \in {wk.owner, "none"}
         /\ wk'.pc # "preAck"
<1> USE DEF IInv, TypeOK
<1>1. wk \in WorkerType /\ started \in Nat
  BY DEF BridgeTypeOK, WorkerType
<1> USE <1>1
<1>2. ASSUME wk' = Idle
      PROVE  PositionInv' /\ wk'.owner \in {wk.owner, "none"} /\ wk'.pc # "preAck"
  BY <1>2 DEF PositionInv, Idle
<1>3. ASSUME rec.state # "none", wk'.owner = wk.owner,
             wk'.pc \notin {"running", "emit", "admit", "preAck"}
      PROVE  PositionInv' /\ wk'.owner \in {wk.owner, "none"} /\ wk'.pc # "preAck"
  BY <1>3 DEF PositionInv, RecordGrows
<1>4. CASE Admit
  <2>1. rec'.state # "none"
    BY <1>4 DEF Admit, Local, RecordGrows, BridgeTypeOK
  <2>2. wk'.pc = "check1" /\ wk'.owner = wk.owner
    BY <1>4 DEF Admit, WorkerType
  <2> QED
    BY <2>1, <2>2 DEF PositionInv
<1>5. CASE \/ CheckBeforePreparation \/ Prepare \/ CheckBeforeAcceptance
           \/ FailMaterialization \/ CheckBeforeGate \/ AcquireGate \/ LeaveGate
           \/ CheckBeforeStart \/ RefuseStart \/ RuntimeError
           \/ ReleaseFence \/ PersistCanceled
  <2>1. rec.state # "none"
    BY <1>5 DEF CheckBeforePreparation, Prepare, CheckBeforeAcceptance, FailMaterialization,
                CheckBeforeGate, AcquireGate, LeaveGate, CheckBeforeStart, RefuseStart,
                RuntimeError, ReleaseFence, PersistCanceled, At, PositionInv
  <2>2. wk'.owner = wk.owner /\ wk'.pc \notin {"running", "emit", "admit", "preAck"}
    BY <1>5, GoesOn
       DEF CheckBeforePreparation, Prepare, CheckBeforeAcceptance, FailMaterialization,
           CheckBeforeGate, AcquireGate, LeaveGate, CheckBeforeStart, RefuseStart,
           RuntimeError, ReleaseFence, PersistCanceled, Goto, WorkerType
  <2> QED
    BY <1>3, <2>1, <2>2
<1>6. CASE PrepareRetryable
  <2>1. rec.state # "none"
    BY <1>6 DEF PrepareRetryable, At, PositionInv
  <2>2. wk' = Idle \/ (wk'.pc = "cancel" /\ wk'.owner = wk.owner)
    BY <1>6, GoesOn DEF PrepareRetryable, Return, Goto
  <2> QED
    BY <1>2, <1>3, <2>1, <2>2
<1>7. CASE BeforeStartFails \/ EventSendFails \/ Leave
  BY <1>2, <1>7 DEF BeforeStartFails, EventSendFails, Leave, Return
<1>8. CASE StartRuntime \/ RuntimeEvent
  <2>1. rec.state # "none" /\ started' > 0
    BY <1>8 DEF StartRuntime, RuntimeEvent, At, PositionInv
  <2>2. wk'.pc \in {"running", "emit"} /\ wk'.owner = wk.owner
    BY <1>8, GoesOn DEF StartRuntime, RuntimeEvent, Goto
  <2> QED
    BY <2>1, <2>2 DEF PositionInv, RecordGrows
<1>9. CASE SendFailed \/ ReplayDuplicate \/ SendLast \/ SendAccepted
  <2>1. rec.state # "none"
    BY <1>9 DEF SendFailed, ReplayDuplicate, SendLast, SendAccepted, At, PositionInv
  <2>2. \E p \in {"return", "finish", "start1", "dup"} :
           wk' = [wk EXCEPT !.pc = p] \/ wk' = Idle
    BY <1>9, ReportEffect DEF SendFailed, ReplayDuplicate, SendLast, SendAccepted
  <2> QED
    BY <1>2, <1>3, <2>1, <2>2, GoesOn
<1>10. CASE SendEvent
  <2>1. rec.state # "none" /\ wk.pc = "emit"
    BY <1>10 DEF SendEvent, At, PositionInv
  <2> DEFINE p == IF rec.state \in isTerminalState THEN "finish" ELSE "running"
  <2>2. wk' = [wk EXCEPT !.pc = p] \/ wk' = Idle
    BY <1>10, ReportEffect DEF SendEvent
  <2>3. CASE wk' = [wk EXCEPT !.pc = p]
    <3>1. wk'.pc = p /\ wk'.owner = wk.owner
      BY <2>3, GoesOn
    <3> QED
      BY <2>1, <3>1 DEF PositionInv, RecordGrows
  <2> QED
    BY <1>2, <2>2, <2>3
<1>11. CASE SendCanceled
  <2>1. wk' = Idle \/ wk' = [wk EXCEPT !.pc = "clear"]
    BY <1>11, ReportEffect DEF SendCanceled
  <2>2. CASE wk' = [wk EXCEPT !.pc = "clear"]
    BY <2>2, GoesOn DEF PositionInv, RecordGrows
  <2> QED
    BY <1>2, <2>1, <2>2
<1>12. CASE ClearCancellation
  <2>1. wk'.pc = "return" /\ wk'.owner = wk.owner
    BY <1>12, GoesOn DEF ClearCancellation, Goto
  <2> QED
    BY <2>1 DEF PositionInv, RecordGrows
<1> QED
  BY <1>4, <1>5, <1>6, <1>7, <1>8, <1>9, <1>10, <1>11, <1>12 DEF WorkerStep, WorkerMishap

\* The Bridge and the network only take commands off the socket: the first, or all.
Shrinks ==
  \/ down' = down
  \/ down' = << >>
  \/ down # << >> /\ down' = Tail(down)

\* No step of the Bridge or the network does more to the commands in flight.
LEMMA ShrinksStep ==
  ASSUME Bridge \/ Dial \/ Break
  PROVE  Shrinks
<1>1. CASE Dial
  BY <1>1 DEF Dial, Connect, Shrinks
<1>2. CASE Break
  BY <1>2 DEF Break, Drop, SeesClose, Shrinks
<1>3. CASE (CancelConnection /\ UNCHANGED bridgeVars) \/ CloseComplete \/ BridgeCrash
  BY <1>3 DEF CancelConnection, CloseComplete, BridgeCrash, Shrinks
<1>4. CASE ReaderStep
  BY <1>4 DEF ReaderStep, ReadRequest, ReadCancelActive, StageCancellation, FinishStaging,
              ReadCancelInactive, Reads, Shrinks, socketVars
<1>5. CASE \/ Admit \/ CheckBeforePreparation \/ Prepare \/ FailMaterialization \/ RefuseStart
           \/ RuntimeEvent \/ RuntimeError \/ EventSendFails \/ PersistCanceled \/ StartRuntime
           \/ PrepareRetryable \/ CheckBeforeAcceptance \/ CheckBeforeGate \/ AcquireGate
           \/ LeaveGate \/ CheckBeforeStart \/ BeforeStartFails
           \/ ReleaseFence \/ ClearCancellation \/ Leave
  <2>1. down' = down
    BY <1>5
       DEF Admit, CheckBeforePreparation, Prepare, FailMaterialization, RefuseStart,
           RuntimeEvent, RuntimeError, EventSendFails, PersistCanceled, StartRuntime,
           PrepareRetryable, CheckBeforeAcceptance, CheckBeforeGate, AcquireGate, LeaveGate,
           CheckBeforeStart, BeforeStartFails, ReleaseFence, ClearCancellation, Leave, Internal
  <2> QED
    BY <2>1 DEF Shrinks
<1>6. CASE SendFailed \/ SendAccepted \/ ReplayDuplicate \/ SendLast \/ SendEvent \/ SendCanceled
  <2>1. down' = down
    BY <1>6 DEF SendFailed, SendAccepted, ReplayDuplicate, SendLast, SendEvent, SendCanceled,
                Report, ContextReport, Write, WriteFails, Internal
  <2> QED
    BY <2>1 DEF Shrinks
<1> QED
  BY <1>1, <1>2, <1>3, <1>4, <1>5, <1>6 DEF Bridge, BridgeNext, WorkerStep, WorkerMishap

\* Taking commands off the socket adds none and keeps their order.
LEMMA ShrinksKeeps ==
  ASSUME SocketTypeOK, Shrinks
  PROVE  /\ Len(down') \in Nat
         /\ \A i \in 1 .. Len(down') : \E k \in {0, 1} :
              i + k \in 1 .. Len(down) /\ down'[i] = down[i + k]
         /\ \E k \in {0, 1} : \A i \in 1 .. Len(down') :
              i + k \in 1 .. Len(down) /\ down'[i] = down[i + k]
<1>1. down \in Seq(DownMessage) /\ Len(down) \in Nat
  BY DEF SocketTypeOK
<1>2. CASE down' = down
  BY <1>1, <1>2
<1>3. CASE down' = << >>
  BY <1>1, <1>3
<1>4. CASE down # << >> /\ down' = Tail(down)
  <2>1. Len(down') = Len(down) - 1 /\ \A i \in 1 .. Len(down') : down'[i] = down[i + 1]
    BY <1>1, <1>4
  <2> QED
    BY <1>1, <1>4, <2>1
<1> QED
  BY <1>2, <1>3, <1>4 DEF Shrinks

\* Reading commands keeps the positions.
LEMMA ReaderPositionStep ==
  ASSUME IInv, PositionInv, ReaderStep
  PROVE  /\ PositionInv'
         /\ wk'.owner = "worker" => wk.owner = "worker" \/ (Requested /\ ReadRequest)
         /\ wk'.pc = "preAck" => wk.pc = "preAck" \/ (ReadCancelInactive /\ rec.state = "none")
<1> USE DEF IInv, TypeOK
<1>1. wk \in WorkerType /\ down \in Seq(DownMessage)
  BY DEF BridgeTypeOK, SocketTypeOK, WorkerType
<1>2. UNCHANGED <<rec, started>>
  BY DEF ReaderStep, ReadRequest, ReadCancelActive, StageCancellation, FinishStaging,
         ReadCancelInactive, Reads
<1> USE <1>1, <1>2
<1>3. CASE ReadCancelActive \/ StageCancellation
  BY <1>3 DEF ReadCancelActive, StageCancellation, PositionInv
<1>4. CASE FinishStaging
  <2>1. wk'.pc = wk.pc /\ wk'.owner = wk.owner
    BY <1>4 DEF FinishStaging, WorkerType
  <2> QED
    BY <2>1 DEF PositionInv
<1>5. CASE ReadRequest
  <2>1. wk' = wk \/ (wk'.pc = "admit" /\ wk'.owner = "worker")
    BY <1>5 DEF ReadRequest, Idle
  <2>2. Requested
    <3>1. down # << >> /\ Head(down) = "run.requested"
      BY <1>5 DEF ReadRequest, Reads
    <3>2. 1 \in 1 .. Len(down) /\ down[1] = "run.requested"
      BY <3>1
    <3> QED
      BY <3>2 DEF Requested
  <2> QED
    BY <1>5, <2>1, <2>2 DEF PositionInv
<1>6. CASE ReadCancelInactive
  <2>1. /\ wk'.pc \in {"preAck", "sendTerminal", "cancel"} /\ wk'.owner = "reader"
        /\ wk'.pc = "preAck" <=> rec.state = "none"
    BY <1>6 DEF ReadCancelInactive, Idle
  <2> QED
    BY <1>6, <2>1 DEF PositionInv
<1> QED
  BY <1>3, <1>4, <1>5, <1>6 DEF ReaderStep

\* Every step keeps the record's and the positions' invariant.
LEMMA PositionStep ==
  ASSUME IInv, RecordInv, PositionInv, Next
  PROVE  RecordInv' /\ PositionInv' /\ RecordGrows
<1> USE DEF IInv, TypeOK
<1>1. started' \in Nat /\ started' >= started
  BY StartedGrows
<1>2. CASE Central \/ Break
  <2>1. UNCHANGED <<rec, wk, started>> /\ rec.ev \in Seq(EventKind)
    BY <1>2 DEF Central, Break, bridgeVars, BridgeTypeOK
  <2> QED
    BY <2>1 DEF RecordInv, PositionInv, RecordGrows
<1>3. CASE Bridge \/ Dial
  <2>1. RecordInv' /\ RecordGrows
    BY <1>1, <1>3, RecordChanges, RecordStep
  <2>2. CASE (CancelConnection /\ UNCHANGED bridgeVars) \/ CloseComplete
    BY <2>1, <2>2 DEF CancelConnection, CloseComplete, bridgeVars, PositionInv
  <2>3. CASE BridgeCrash
    BY <2>1, <2>3 DEF BridgeCrash, Idle, PositionInv
  <2>4. CASE Dial
    <3>1. wk' = wk /\ wk.pc = "idle"
      BY <2>4 DEF Dial, Connect, ExecInv, Idle
    <3> QED
      BY <2>1, <3>1 DEF PositionInv
  <2>5. CASE ReaderStep
    BY <2>1, <2>5, ReaderPositionStep
  <2>6. CASE WorkerStep \/ WorkerMishap
    BY <1>1, <2>1, <2>6, WorkerPositionStep
  <2> QED
    BY <1>3, <2>2, <2>3, <2>4, <2>5, <2>6 DEF Bridge, BridgeNext
<1> QED
  BY <1>2, <1>3 DEF Next

\* A Bridge that has no trace of the Run gets none by itself.
LEMMA UnknownStep ==
  ASSUME IInv, PositionInv, Unknown, Bridge \/ Dial \/ Break
  PROVE  Unknown'
<1> USE DEF IInv, TypeOK
<1>1. ~Requested'
  <2>1. \A i \in 1 .. Len(down') : down'[i] # "run.requested"
    BY ShrinksStep, ShrinksKeeps DEF Unknown, Requested
  <2> QED
    BY <2>1 DEF Requested
<1>2. wk.pc \in {"idle", "preAck", "clear", "return"} /\ rec.state = "none" /\ wk.owner # "worker"
  BY DEF Unknown, PositionInv
<1>3. CASE Break
  BY <1>1, <1>2, <1>3 DEF Break, bridgeVars, Unknown
<1>4. CASE Dial
  BY <1>1, <1>2, <1>4 DEF Dial, Connect, Unknown
<1>5. CASE (CancelConnection /\ UNCHANGED bridgeVars) \/ CloseComplete \/ BridgeCrash
  <2>1. rec' = rec /\ wk'.owner # "worker"
    BY <1>2, <1>5 DEF CancelConnection, CloseComplete, BridgeCrash, bridgeVars, Idle
  <2> QED
    BY <1>1, <1>2, <2>1 DEF Unknown
<1>6. CASE ReaderStep
  <2>1. rec' = rec
    BY <1>6 DEF ReaderStep, ReadRequest, ReadCancelActive, StageCancellation, FinishStaging,
                ReadCancelInactive
  <2> QED
    BY <1>1, <1>2, <1>6, <2>1, ReaderPositionStep DEF Unknown
<1>7. CASE WorkerStep \/ WorkerMishap
  <2>1. SendCanceled \/ ClearCancellation \/ Leave
    BY <1>2, <1>7
       DEF WorkerStep, WorkerMishap, Admit, CheckBeforePreparation, Prepare, PrepareRetryable,
           CheckBeforeAcceptance, FailMaterialization, SendFailed, SendAccepted,
           ReplayDuplicate, CheckBeforeGate, AcquireGate, LeaveGate, CheckBeforeStart,
           BeforeStartFails, RefuseStart, StartRuntime, RuntimeEvent, RuntimeError,
           EventSendFails, SendEvent, SendLast, ReleaseFence, PersistCanceled, At
  <2>2. rec' = rec
    BY <2>1, ReportEffect DEF SendCanceled, ClearCancellation, Leave
  <2>3. wk' = Idle \/ \E p : wk' = [wk EXCEPT !.pc = p]
    BY <2>1, ReportEffect DEF SendCanceled, ClearCancellation, Leave, Return, Goto
  <2>4. wk'.owner \in {wk.owner, "none"}
    BY <2>3, GoesOn DEF Idle
  <2> QED
    BY <1>1, <1>2, <2>2, <2>4 DEF Unknown
<1> QED
  BY <1>3, <1>4, <1>5, <1>6, <1>7 DEF Bridge, BridgeNext

-----------------------------------------------------------------------------
(* Steps of the Bridge and of the network *)

\* The Bridge and the network keep the invariant of the commands.
LEMMA BridgeCommandStep ==
  ASSUME IInv, RecordInv, PositionInv, CommandInv, Bridge \/ Dial \/ Break
  PROVE  CommandInv'
<1> USE DEF IInv, TypeOK
<1>1. UNCHANGED hub
  BY DEF Bridge, Dial, Break, centralVars
<1>2. Shrinks /\ Len(down) \in Nat
  BY ShrinksStep DEF SocketTypeOK
<1>3. /\ \A i, j \in 1 .. Len(down') :
           i < j /\ down'[i] = "run.cancel_requested" => down'[j] # "run.requested"
      /\ \A i \in 1 .. Len(down') : down'[i] = "run.cancel_requested" => Stopped(hub)
  <2>1. PICK k \in {0, 1} : \A i \in 1 .. Len(down') :
              i + k \in 1 .. Len(down) /\ down'[i] = down[i + k]
    BY <1>2, ShrinksKeeps
  <2>2. ASSUME NEW i \in 1 .. Len(down'), NEW j \in 1 .. Len(down'), i < j,
               down'[i] = "run.cancel_requested"
        PROVE  down'[j] # "run.requested"
    <3>1. /\ i + k \in 1 .. Len(down) /\ j + k \in 1 .. Len(down) /\ i + k < j + k
          /\ down[i + k] = "run.cancel_requested" /\ down'[j] = down[j + k]
      BY <1>2, <2>1, <2>2, ShrinksKeeps
    <3> QED
      BY <3>1 DEF CommandInv
  <2>3. ASSUME NEW i \in 1 .. Len(down'), down'[i] = "run.cancel_requested"
        PROVE  Stopped(hub)
    BY <2>1, <2>3 DEF CommandInv
  <2> QED
    BY <2>2, <2>3
<1>4. hub.delivery = "none" => Unknown'
  BY UnknownStep DEF CommandInv
<1>5. ASSUME wk'.pc = "preAck"
      PROVE  Stopped(hub) /\ Unknown'
  <2>1. CASE wk.pc = "preAck"
    BY <2>1, UnknownStep DEF CommandInv
  <2>2. CASE ReadCancelInactive /\ rec.state = "none"
    <3>1. /\ down \in Seq(DownMessage) /\ down # << >> /\ Head(down) = "run.cancel_requested"
          /\ down' = Tail(down)
      BY <2>2 DEF ReadCancelInactive, Reads, SocketTypeOK
    <3>2. 1 \in 1 .. Len(down) /\ down[1] = "run.cancel_requested"
      BY <3>1
    <3>3. \A i \in 1 .. Len(down') : i + 1 \in 1 .. Len(down) /\ down'[i] = down[i + 1] /\ 1 < i + 1
      BY <3>1
    <3>4. ~Requested'
      BY <3>2, <3>3 DEF CommandInv, Requested
    <3>5. rec' = rec /\ wk'.owner = "reader"
      BY <2>2 DEF ReadCancelInactive, Idle
    <3> QED
      BY <2>2, <3>2, <3>4, <3>5 DEF CommandInv, Unknown
  <2>3. CASE Break \/ Dial \/ (CancelConnection /\ UNCHANGED bridgeVars) \/ CloseComplete \/ BridgeCrash
    <3>1. wk' = wk
      BY <1>5, <2>3 DEF Break, Dial, Connect, CloseComplete, BridgeCrash, bridgeVars, Idle
    <3> QED
      BY <1>5, <2>1, <3>1
  <2>4. CASE ReaderStep
    BY <1>5, <2>1, <2>2, <2>4, ReaderPositionStep
  <2>5. CASE WorkerStep \/ WorkerMishap
    <3>1. RecordGrows /\ started' \in Nat /\ started' >= started
      BY PositionStep, StartedGrows DEF Next
    <3>2. wk'.pc # "preAck"
      BY <2>5, <3>1, WorkerPositionStep
    <3> QED
      BY <1>5, <3>2
  <2> QED
    BY <2>3, <2>4, <2>5 DEF Bridge, BridgeNext
<1> QED
  BY <1>1, <1>3, <1>4, <1>5 DEF CommandInv

\* What was genuine stays genuine while Central's rows stay.
LEMMA GenuineStep ==
  ASSUME IInv, RecordInv, PositionInv, Bridge \/ Dial \/ Break, NEW m \in UpMessage, Genuine(m, rec, Refused)
  PROVE  Genuine(m, rec', Refused')
<1>1. UNCHANGED hub
  BY DEF Bridge, Dial, Break, centralVars
<1>2. RecordGrows
  BY PositionStep DEF Next
<1>3. Unknown => Unknown'
  BY UnknownStep
<1>4. Len(rec.ev) \in Nat /\ Len(rec'.ev) \in Nat /\ m.seq \in Nat
  <2>1. TypeOK'
    BY TypeStep DEF Next, IInv
  <2> QED
    BY <2>1 DEF IInv, TypeOK, BridgeTypeOK, UpMessage
<1> QED
  BY <1>1, <1>2, <1>3, <1>4 DEF Genuine, RecordGrows, Refused, Stopped

\* The messages of a record are genuine.
LEMMA EventsGenuine ==
  ASSUME NEW r \in RecordType, NEW refused
  PROVE  /\ \A i \in 1 .. Len(Events(r)) : Genuine(Events(r)[i], r, refused)
         /\ r.ev # << >> => Genuine(LastEvent(r), r, refused)
         /\ r.state # "none"
              => \A i \in 1 .. Len(<<Accepted>> \o Events(r)) :
                   Genuine((<<Accepted>> \o Events(r))[i], r, refused)
<1>1. r.ev \in Seq(EventKind) /\ Len(r.ev) \in Nat
  BY DEF RecordType
<1>2. Len(Events(r)) = Len(r.ev) /\ Events(r) \in Seq(UpMessage)
  BY EventsType
<1>3. ASSUME NEW i \in 1 .. Len(r.ev)
      PROVE  Genuine(Events(r)[i], r, refused)
  <2>1. Events(r)[i].seq = i + 1 /\ Events(r)[i].kind = r.ev[i]
    BY DEF Events
  <2>2. Events(r)[i].seq - 1 = i
    BY <2>1
  <2> QED
    BY <2>1, <2>2 DEF Genuine
<1>4. r.ev # << >> => Genuine(LastEvent(r), r, refused)
  BY <1>1, <1>3 DEF LastEvent
<1>5. ASSUME r.state # "none", NEW i \in 1 .. Len(<<Accepted>> \o Events(r))
      PROVE  Genuine((<<Accepted>> \o Events(r))[i], r, refused)
  <2>1. CASE i = 1
    <3>1. (<<Accepted>> \o Events(r))[i] = Accepted
      BY <1>2, <2>1
    <3> QED
      BY <1>5, <3>1 DEF Genuine
  <2>2. CASE i # 1
    <3>1. i - 1 \in 1 .. Len(r.ev) /\ (<<Accepted>> \o Events(r))[i] = Events(r)[i - 1]
      BY <1>1, <1>2, <2>2
    <3> QED
      BY <1>3, <3>1
  <2> QED
    BY <2>1, <2>2
<1> QED
  BY <1>2, <1>3, <1>4, <1>5

\* What the Bridge writes in one step is genuine.
LEMMA WritesGenuine ==
  ASSUME IInv, PositionInv, CommandInv, Bridge
  PROVE  \/ UNCHANGED up
         \/ \E msgs \in Seq(UpMessage) :
              up' = Written(msgs) /\ \A i \in 1 .. Len(msgs) : Genuine(msgs[i], rec, Refused)
<1> USE DEF IInv, TypeOK
<1>1. rec \in RecordType
  BY DEF BridgeTypeOK, RecordType
<1> DEFINE Good(msgs) == msgs \in Seq(UpMessage) /\ \A i \in 1 .. Len(msgs) : Genuine(msgs[i], rec, Refused)
<1>2. ASSUME NEW msgs, NEW p, Good(msgs), Report(msgs, p) \/ ContextReport(msgs, p) \/ Write(msgs, p)
      PROVE  UNCHANGED up \/ \E ms \in Seq(UpMessage) :
               up' = Written(ms) /\ \A i \in 1 .. Len(ms) : Genuine(ms[i], rec, Refused)
  <2>1. UNCHANGED up \/ up' = Written(msgs)
    BY <1>2 DEF Report, ContextReport, Write, WriteFails, Internal
  <2> QED
    BY <1>2, <2>1
<1>3. Good(Events(rec))
  BY <1>1, EventsType, EventsGenuine
<1>4. rec.state # "none" => Good(<<Accepted>> \o Events(rec))
  BY <1>1, EventsType, EventsGenuine
<1>5. rec.state # "none" => Good(<<Accepted>>)
  <2>1. <<Accepted>> \in Seq(UpMessage) /\ Len(<<Accepted>>) = 1 /\ <<Accepted>>[1] = Accepted
    BY DEF Accepted, UpMessage, EventKind, RunState
  <2> QED
    BY <2>1 DEF Genuine
<1>6. rec.ev # << >> => Good(<<LastEvent(rec)>>)
  <2>1. rec.ev # << >> => LastEvent(rec) \in UpMessage
    BY <1>1, EventsType DEF LastEvent, RecordType
  <2>2. rec.ev # << >> => Genuine(LastEvent(rec), rec, Refused)
    BY <1>1, EventsGenuine
  <2> QED
    BY <2>1, <2>2
<1>7. wk.pc = "preAck" => Good(<<TombstoneStatus>>)
  <2>1. TombstoneStatus \in UpMessage
    BY DEF TombstoneStatus, UpMessage, EventKind, RunState, terminalStates
  <2>2. wk.pc = "preAck" => Genuine(TombstoneStatus, rec, Refused)
    BY DEF CommandInv, Genuine, Refused
  <2> QED
    BY <2>1, <2>2
<1> HIDE DEF Good
<1>8. CASE SendFailed \/ SendAccepted \/ ReplayDuplicate
  <2>1. rec.state # "none"
    BY <1>8 DEF SendFailed, SendAccepted, ReplayDuplicate, At, PositionInv
  <2> QED
    BY <1>2, <1>3, <1>4, <1>5, <1>8, <2>1 DEF SendFailed, SendAccepted, ReplayDuplicate
<1>9. CASE SendEvent \/ SendLast
  <2>1. rec.ev # << >>
    BY <1>9 DEF SendEvent, SendLast, At, ExecInv
  <2> QED
    BY <1>2, <1>6, <1>9, <2>1 DEF SendEvent, SendLast
<1>10. CASE SendCanceled
  <2>1. wk.pc \in {"sendCanceled", "sendTerminal"} => rec.state # "none"
    BY DEF PositionInv
  <2> QED
    BY <1>2, <1>3, <1>4, <1>7, <1>10, <2>1 DEF SendCanceled, At
<1>11. CASE \/ Admit \/ CheckBeforePreparation \/ Prepare \/ FailMaterialization \/ RefuseStart
            \/ RuntimeEvent \/ RuntimeError \/ EventSendFails \/ PersistCanceled \/ StartRuntime
            \/ PrepareRetryable \/ CheckBeforeAcceptance \/ CheckBeforeGate \/ AcquireGate
            \/ LeaveGate \/ CheckBeforeStart \/ BeforeStartFails
            \/ ReleaseFence \/ ClearCancellation \/ Leave
  BY <1>11
     DEF Admit, CheckBeforePreparation, Prepare, FailMaterialization, RefuseStart,
         RuntimeEvent, RuntimeError, EventSendFails, PersistCanceled, StartRuntime,
         PrepareRetryable, CheckBeforeAcceptance, CheckBeforeGate, AcquireGate, LeaveGate,
         CheckBeforeStart, BeforeStartFails, ReleaseFence, ClearCancellation, Leave, Internal
<1>12. CASE \/ CancelConnection /\ UNCHANGED bridgeVars
            \/ CloseComplete \/ BridgeCrash \/ ReaderStep
  BY <1>12 DEF CancelConnection, CloseComplete, BridgeCrash, ReaderStep, ReadRequest,
               ReadCancelActive, StageCancellation, FinishStaging, ReadCancelInactive, Reads,
               socketVars
<1> QED
  BY <1>8, <1>9, <1>10, <1>11, <1>12 DEF Bridge, BridgeNext, WorkerStep, WorkerMishap

\* The Bridge and the network keep every message in flight genuine.
LEMMA BridgeWireStep ==
  ASSUME IInv, RecordInv, PositionInv, CommandInv, WireInv, Bridge \/ Dial \/ Break
  PROVE  WireInv'
<1> USE DEF IInv, TypeOK
<1>1. up \in [Epochs -> Seq(UpMessage)]
  BY DEF SocketTypeOK
<1>2. ASSUME NEW e \in Epochs, NEW i \in 1 .. Len(up[e])
      PROVE  up[e][i] \in UpMessage /\ Genuine(up[e][i], rec', Refused')
  <2>1. up[e] \in Seq(UpMessage) /\ up[e][i] \in UpMessage
    BY <1>1
  <2>2. Genuine(up[e][i], rec, Refused)
    BY DEF WireInv
  <2> QED
    BY <2>1, <2>2, GenuineStep
<1>3. CASE UNCHANGED up
  BY <1>2, <1>3 DEF WireInv
<1>4. CASE Bridge
  <2>1. ASSUME NEW msgs \in Seq(UpMessage), up' = Written(msgs),
               \A i \in 1 .. Len(msgs) : Genuine(msgs[i], rec, Refused)
        PROVE  WireInv'
    <3>1. \A i \in 1 .. Len(msgs) : Genuine(msgs[i], rec', Refused')
      <4>1. \A i \in 1 .. Len(msgs) : msgs[i] \in UpMessage
        OBVIOUS
      <4> QED
        BY <2>1, <4>1, GenuineStep
    <3>2. ASSUME NEW e \in Epochs, up'[e] = up[e] \o msgs, NEW i \in 1 .. Len(up'[e])
          PROVE  Genuine(up'[e][i], rec', Refused')
      <4>1. up[e] \in Seq(UpMessage)
        BY <1>1
      <4>2. CASE i \in 1 .. Len(up[e])
        BY <1>2, <3>2, <4>1, <4>2
      <4>3. CASE i \notin 1 .. Len(up[e])
        <5>1. i - Len(up[e]) \in 1 .. Len(msgs) /\ up'[e][i] = msgs[i - Len(up[e])]
          BY <3>2, <4>1, <4>3
        <5> QED
          BY <3>1, <5>1
      <4> QED
        BY <4>2, <4>3
    <3>3. \A e \in Epochs : up'[e] = up[e] \/ up'[e] = up[e] \o msgs
      BY <1>1, <2>1 DEF Written
    <3> QED
      BY <1>2, <3>2, <3>3 DEF WireInv
  <2> QED
    BY <1>3, <1>4, <2>1, WritesGenuine
<1>5. CASE Dial
  <2>1. /\ rec \in RecordType /\ tomb \in BOOLEAN
    BY DEF BridgeTypeOK, RecordType
  <2>2. epoch' \in Epochs /\ up' = [up EXCEPT ![epoch'] = <<Hello>> \o RecoveryReport(rec, tomb)]
    BY <1>5, EpochAssumption DEF Dial, Connect, SocketTypeOK, Epochs
  <2>3. ASSUME NEW i \in 1 .. Len(<<Hello>> \o RecoveryReport(rec, tomb))
        PROVE  Genuine((<<Hello>> \o RecoveryReport(rec, tomb))[i], rec', Refused')
    <3> DEFINE report == RecoveryReport(rec, tomb)
    <3>1. report \in Seq(UpMessage)
      BY <2>1, RecoveredType
    <3>2. \A j \in 1 .. Len(report) : Genuine(report[j], rec', Refused')
      <4>1. CASE report = << >>
        BY <4>1
      <4>2. CASE report # << >>
        <5>1. rec' = Recovered(rec, tomb) /\ report = <<Accepted>> \o Events(rec')
          BY <1>5, <4>2 DEF Dial, Connect, RecoveryReport
        <5>2. rec' \in RecordType
          BY <2>1, <5>1, RecoveredType
        <5>3. rec'.state # "none"
          <6>1. rec.state # "none"
            BY <4>2 DEF RecoveryReport
          <6> QED
            BY <1>5, <6>1, PositionStep DEF RecordGrows, Next
        <5>4. \A j \in 1 .. Len(<<Accepted>> \o Events(rec')) :
                 Genuine((<<Accepted>> \o Events(rec'))[j], rec', Refused')
          BY <5>2, <5>3, EventsGenuine
        <5> QED
          BY <5>1, <5>4
      <4> QED
        BY <4>1, <4>2
    <3> HIDE DEF report
    <3>3. CASE i = 1
      <4>1. (<<Hello>> \o report)[i] = Hello
        BY <3>1, <3>3
      <4> QED
        BY <4>1 DEF Genuine, report
    <3>4. CASE i # 1
      <4>1. i - 1 \in 1 .. Len(report) /\ (<<Hello>> \o report)[i] = report[i - 1]
        BY <2>3, <3>1, <3>4 DEF report
      <4> QED
        BY <3>2, <4>1 DEF report
    <3> QED
      BY <3>3, <3>4
  <2> QED
    BY <1>1, <1>2, <2>2, <2>3 DEF WireInv
<1>6. CASE Break
  <2>1. CASE Drop
    BY <1>3, <2>1 DEF Drop
  <2>2. ASSUME NEW f \in Epochs, SeesClose(f)
        PROVE  WireInv'
    <3>1. \A e \in Epochs : up'[e] = up[e] \/ up'[e] = << >>
      BY <1>1, <2>2 DEF SeesClose
    <3> QED
      BY <1>2, <3>1 DEF WireInv
  <2> QED
    BY <1>6, <2>1, <2>2 DEF Break
<1> QED
  BY <1>4, <1>5, <1>6

\* The reported history: run.accepted, then the record's events.
LEMMA ReportedFacts ==
  ASSUME BridgeTypeOK
  PROVE  /\ Reported \in Seq(EventKind)
         /\ Len(rec.ev) \in Nat /\ Len(Reported) = Len(rec.ev) + 1
         /\ Reported[1] = "delivered"
         /\ \A i \in 1 .. Len(rec.ev) : Reported[i + 1] = rec.ev[i]
<1>1. rec.ev \in Seq(EventKind)
  BY DEF BridgeTypeOK
<1>2. <<"delivered">> \in Seq(EventKind)
  BY DEF EventKind, RunState
<1> QED
  BY <1>1, <1>2 DEF Reported

\* A prefix of the reported history stays one.
LEMMA PrefixGrows ==
  ASSUME BridgeTypeOK, BridgeTypeOK', RecordGrows, NEW s \in Seq(EventKind), IsPrefixOf(s, Reported)
  PROVE  IsPrefixOf(s, Reported')
<1>1. /\ Len(rec.ev) \in Nat /\ Len(Reported) = Len(rec.ev) + 1
      /\ Reported[1] = "delivered"
      /\ \A i \in 1 .. Len(rec.ev) : Reported[i + 1] = rec.ev[i]
  BY ReportedFacts
<1>2. /\ Len(rec'.ev) \in Nat /\ Len(Reported') = Len(rec'.ev) + 1
      /\ Reported'[1] = "delivered"
      /\ \A i \in 1 .. Len(rec'.ev) : Reported'[i + 1] = rec'.ev[i]
  <2>1. /\ (Len(rec.ev) \in Nat)' /\ (Len(Reported) = Len(rec.ev) + 1)'
        /\ (Reported[1] = "delivered")'
        /\ (\A i \in 1 .. Len(rec.ev) : Reported[i + 1] = rec.ev[i])'
    BY ReportedFacts, PTL
  <2> QED
    BY <2>1
<1>3. Len(s) \in Nat /\ Len(s) <= Len(Reported) /\ \A i \in 1 .. Len(s) : s[i] = Reported[i]
  BY DEF IsPrefixOf
<1>4. ASSUME NEW i \in 1 .. Len(s)
      PROVE  Reported'[i] = Reported[i]
  <2>1. CASE i = 1
    BY <1>1, <1>2, <2>1
  <2>2. CASE i # 1
    <3>1. i - 1 \in 1 .. Len(rec.ev) /\ i - 1 \in 1 .. Len(rec'.ev) /\ (i - 1) + 1 = i
      BY <1>1, <1>2, <1>3, <2>2 DEF RecordGrows
    <3>2. Reported[i] = rec.ev[i - 1] /\ Reported'[i] = rec'.ev[i - 1]
      BY <1>1, <1>2, <3>1
    <3> QED
      BY <3>1, <3>2 DEF RecordGrows
  <2> QED
    BY <2>1, <2>2
<1> QED
  BY <1>1, <1>2, <1>3, <1>4 DEF IsPrefixOf, RecordGrows

\* The Bridge and the network keep the verdict and the log consistent with the record.
LEMMA BridgeVerdictStep ==
  ASSUME IInv, RecordInv, PositionInv, VerdictInv, Bridge \/ Dial \/ Break
  PROVE  VerdictInv'
<1> USE DEF IInv, TypeOK
<1>1. UNCHANGED <<hub, discCanceled>> /\ hub.log \in Seq(EventKind)
  BY DEF Bridge, Dial, Break, centralVars, CentralTypeOK, Hub
<1>2. RecordGrows /\ started' \in Nat /\ started' >= started /\ started \in Nat
  BY PositionStep, StartedGrows DEF Next, BridgeTypeOK
<1>3. BridgeTypeOK /\ BridgeTypeOK'
  BY TypeStep DEF Next
<1>4. \A s \in Seq(EventKind) : IsPrefixOf(s, Reported) => IsPrefixOf(s, Reported')
  BY <1>2, <1>3, PrefixGrows
<1>6. LogAgrees'
  BY <1>1, <1>4 DEF VerdictInv, LogAgrees
<1>7. ~Terminal(hub) => IsPrefixOf(hub.log, Reported')
  BY <1>1, <1>4 DEF VerdictInv
<1>8. Unknown => Unknown'
  BY UnknownStep
<1> QED
  BY <1>1, <1>2, <1>6, <1>7, <1>8 DEF VerdictInv, RecordGrows

-----------------------------------------------------------------------------
(* Steps of Central *)

\* Central gives a verdict of its own.
OwnVerdict(h, g) ==
  /\ ~Terminal(h)
  /\ g.state \in terminalStates \ {"completed"}
  /\ g.log = Append(h.log, g.state)

IntentOK(h) == h.intent \in {"none", "pending"} \/ Terminal(h)

\* What becomes of the rows h of a Run in a handler that receives no event.
Kept(h, g) ==
  /\ g \in Hub
  /\ (g.state = h.state /\ g.log = h.log) \/ OwnVerdict(h, g)
  /\ h.intent # "none" => g.intent # "none"
  /\ IntentOK(g)
  /\ h.delivery # "none" => g.delivery # "none"

\* Rows are kept over several such handlers.
LEMMA KeptOrder ==
  /\ \A h \in Hub : IntentOK(h) => Kept(h, h)
  /\ \A f \in Hub, g \in Hub, h \in Hub : Kept(f, g) /\ Kept(g, h) => Kept(f, h)
<1>1. \A h \in Hub : IntentOK(h) => Kept(h, h)
  BY DEF Kept
<1>2. ASSUME NEW f \in Hub, NEW g \in Hub, NEW h \in Hub, Kept(f, g), Kept(g, h)
      PROVE  Kept(f, h)
  <2>1. (h.state = f.state /\ h.log = f.log) \/ OwnVerdict(f, h)
    BY <1>2 DEF Kept, OwnVerdict, Terminal
  <2> QED
    BY <1>2, <2>1 DEF Kept
<1> QED
  BY <1>1, <1>2

\* A verdict of Central's own.
LEMMA LocalKept ==
  ASSUME NEW h \in Hub, IntentOK(h), NEW k \in terminalStates \ {"completed"}
  PROVE  /\ Kept(h, LocalEvent(h, k))
         /\ LocalEvent(h, k).delivery = h.delivery
         /\ LocalEvent(h, k).state = IF Terminal(h) THEN h.state ELSE k
         /\ Stopped(LocalEvent(h, k))
<1>1. LocalEvent(h, k) \in Hub
  BY LocalEventType DEF RunState
<1>2. CASE Terminal(h)
  <2>1. LocalEvent(h, k) = h
    BY <1>2 DEF LocalEvent, applyEvent
  <2> QED
    BY <1>2, <2>1, KeptOrder DEF Stopped
<1>3. CASE ~Terminal(h)
  <2>1. ~(lastSequence(h) + 1 <= lastSequence(h)) /\ k # "reply"
    <3>1. lastSequence(h) \in Nat
      BY DEF lastSequence, Hub
    <3> QED
      BY <3>1 DEF terminalStates
  <2>2. LocalEvent(h, k) = [h EXCEPT !.state = k, !.log = Append(@, k),
                                     !.intent = IF @ = "pending" THEN k ELSE @]
    BY <1>3, <2>1, Zenon DEF LocalEvent, applyEvent
  <2>3. /\ LocalEvent(h, k).state = k /\ LocalEvent(h, k).log = Append(h.log, k)
        /\ LocalEvent(h, k).delivery = h.delivery
        /\ LocalEvent(h, k).intent = IF h.intent = "pending" THEN k ELSE h.intent
    BY <2>2 DEF Hub
  <2> QED
    BY <1>1, <1>3, <2>3 DEF Kept, OwnVerdict, IntentOK, Terminal, Stopped, terminalStates
<1> QED
  BY <1>2, <1>3

\* What a handler without an event does: the rows become g and out is sent.
Sends(h, g, out) ==
  /\ Kept(h, g)
  /\ out \in {<< >>, <<"run.cancel_requested">>, <<"run.requested">>}
  /\ out = <<"run.cancel_requested">> => Stopped(g)
  /\ out = <<"run.requested">> => ~Stopped(h) /\ g.delivery # "none"

\* All handlers but the cancellation.
Handles(h, g, out) == Sends(h, g, out) /\ (g.state = "canceled" => h.state = "canceled")

\* A cancellation sweep repeats a command, gives up or does nothing.
LEMMA SweepHandles ==
  ASSUME NEW h \in Hub, IntentOK(h), NEW o \in sweep(h)
  PROVE  /\ Handles(h, o.hub, o.out)
         /\ o.out # <<"run.requested">>
         /\ o.out # << >> => o.hub = h /\ h.intent = "pending"
<1>1. Kept(h, h)
  BY KeptOrder
<1> DEFINE g == LocalEvent(h, "outcome_unknown")
<1>2. g.state \notin {"canceled", "input_required"} \/ g.state = h.state
  BY LocalKept DEF terminalStates
<1>3. Kept(h, g)
  BY LocalKept DEF terminalStates
<1>4. << >> # <<"run.cancel_requested">> /\ << >> # <<"run.requested">>
      /\ <<"run.cancel_requested">> # <<"run.requested">>
  OBVIOUS
<1>5. \/ o.hub = h /\ o.out = << >>
      \/ o.hub = g /\ o.out = << >>
      \/ o.hub = h /\ o.out = <<"run.cancel_requested">> /\ h.intent = "pending"
  BY DEF sweep, Outcome, cancelCommand
<1> HIDE DEF g
<1>6. h.intent = "pending" => Stopped(h)
  BY DEF Stopped
<1> QED
  BY <1>1, <1>2, <1>3, <1>4, <1>5, <1>6 DEF Handles, Sends

\* A dispatch sends the request of a queued Run nobody has stopped, or gives up.
LEMMA DispatchHandles ==
  ASSUME NEW h \in Hub, IntentOK(h), NEW o \in dispatch(h)
  PROVE  /\ Handles(h, o.hub, o.out)
         /\ o.out # <<"run.cancel_requested">>
         /\ h.intent = "pending" => o.hub = h /\ o.out = << >>
<1>1. Kept(h, h)
  BY KeptOrder
<1>2. << >> # <<"run.cancel_requested">> /\ << >> # <<"run.requested">>
      /\ <<"run.cancel_requested">> # <<"run.requested">>
  OBVIOUS
<1>3. CASE h.intent = "pending" \/ h.state # "queued"
  <2>1. o.hub = h /\ o.out = << >>
    BY <1>3 DEF dispatch, Outcome
  <2> QED
    BY <1>1, <1>2, <2>1 DEF Handles, Sends
<1>4. CASE h.intent # "pending" /\ h.state = "queued"
  <2>1. ~Terminal(h) /\ ~Stopped(h)
    BY <1>4 DEF Terminal, Stopped, IntentOK, terminalStates
  <2> DEFINE ensured == [h EXCEPT !.delivery = IF @ = "none" THEN "pending" ELSE @]
  <2>2. /\ ensured \in Hub /\ ensured.state = h.state /\ ensured.log = h.log
        /\ ensured.intent = h.intent /\ ensured.delivery # "none"
    BY DEF Hub
  <2>3. \/ o.hub = LocalEvent(h, "expired") /\ o.out = << >>
        \/ o.hub = LocalEvent(h, "failed") /\ o.out = << >>
        \/ o.hub = ensured /\ o.out \in {<< >>, <<"run.requested">>}
    <3> HIDE DEF ensured
    <3>1. o \in {Outcome(LocalEvent(h, "expired"), << >>), Outcome(LocalEvent(h, "failed"), << >>),
                 Outcome(ensured, IF ensured.delivery = "pending"
                                  THEN <<"run.requested">> ELSE << >>),
                 Outcome(ensured, << >>)}
      BY <1>4 DEF dispatch, ensured
    <3> QED
      BY <3>1 DEF Outcome
  <2> HIDE DEF ensured
  <2>4. Kept(h, ensured)
    BY <2>2 DEF Kept, IntentOK, Terminal
  <2>5. ASSUME NEW k \in {"expired", "failed"}
        PROVE  Kept(h, LocalEvent(h, k)) /\ LocalEvent(h, k).state = k
    BY <2>1, LocalKept DEF terminalStates
  <2> QED
    BY <1>2, <1>4, <2>1, <2>2, <2>3, <2>4, <2>5 DEF Handles, Sends
<1> QED
  BY <1>3, <1>4

\* A sweep and a dispatch.
LEMMA SyncHandles ==
  ASSUME NEW h \in Hub, IntentOK(h), NEW o \in DeviceSync(h)
  PROVE  Handles(h, o.hub, o.out)
<1>1. PICK s \in sweep(h) : \E d \in dispatch(s.hub) : o = Outcome(d.hub, s.out \o d.out)
  BY DEF DeviceSync
<1>2. PICK d \in dispatch(s.hub) : o = Outcome(d.hub, s.out \o d.out)
  BY <1>1
<1>3. /\ Handles(h, s.hub, s.out) /\ s.out # <<"run.requested">> /\ s.hub \in Hub
      /\ s.out # << >> => s.hub = h /\ h.intent = "pending"
      /\ IntentOK(s.hub)
  BY SweepHandles DEF Handles, Sends, Kept
<1>4. /\ Handles(s.hub, d.hub, d.out) /\ d.hub \in Hub
      /\ s.hub.intent = "pending" => d.hub = s.hub /\ d.out = << >>
  BY <1>3, DispatchHandles DEF Handles, Sends, Kept
<1>5. o.hub = d.hub /\ o.out = s.out \o d.out
  BY <1>2 DEF Outcome
<1>6. Kept(h, d.hub)
  BY <1>3, <1>4, KeptOrder DEF Handles, Sends
<1>7. CASE s.out = << >>
  <2>1. o.out = d.out
    <3>1. d.out \in Seq(DownMessage)
      BY <1>4, CommandTypes DEF Handles, Sends
    <3> QED
      BY <1>5, <1>7, <3>1
  <2>2. d.out = <<"run.requested">> => ~Stopped(h)
    BY <1>3, <1>4 DEF Handles, Sends, Kept, Stopped, OwnVerdict, Terminal
  <2> QED
    BY <1>3, <1>4, <1>5, <1>6, <2>1, <2>2 DEF Handles, Sends
<1>8. CASE s.out # << >>
  <2>1. d.hub = h /\ d.out = << >>
    BY <1>3, <1>4, <1>8
  <2>2. o.out = s.out
    <3>1. s.out \in Seq(DownMessage)
      BY <1>3, CommandTypes DEF Handles, Sends
    <3> QED
      BY <1>5, <2>1, <3>1
  <2> QED
    BY <1>3, <1>5, <1>8, <2>1, <2>2 DEF Handles, Sends
<1> QED
  BY <1>7, <1>8

\* The reconciliation of a revoked Device gives up on the Run.
LEMMA RevokeHandles ==
  ASSUME NEW h \in Hub, IntentOK(h)
  PROVE  Handles(h, revokeRun(h).hub, revokeRun(h).out)
<1>1. Kept(h, h)
  BY KeptOrder
<1>2. << >> # <<"run.cancel_requested">> /\ << >> # <<"run.requested">>
      /\ <<"run.cancel_requested">> # <<"run.requested">>
  OBVIOUS
<1>3. ASSUME NEW k \in {"outcome_unknown", "failed"}
      PROVE  /\ Kept(h, LocalEvent(h, k)) /\ Stopped(LocalEvent(h, k))
             /\ LocalEvent(h, k).state \in {h.state, k}
  BY LocalKept DEF terminalStates
<1>4. \/ revokeRun(h).hub = h /\ revokeRun(h).out = << >>
      \/ /\ revokeRun(h).hub = LocalEvent(h, "outcome_unknown")
         /\ revokeRun(h).out = <<"run.cancel_requested">>
      \/ revokeRun(h).hub = LocalEvent(h, "failed") /\ revokeRun(h).out = << >>
  BY DEF revokeRun, Outcome
<1> QED
  BY <1>1, <1>2, <1>3, <1>4 DEF Handles, Sends

\* Central's sockets lose messages, or the first one was received.
Receives == \A e \in Epochs : up'[e] \in {up[e], << >>} \/ (up[e] # << >> /\ up'[e] = Tail(up[e]))

\* What is left in flight stays genuine.
LEMMA ReceivesWire ==
  ASSUME SocketTypeOK, WireInv, Receives, UNCHANGED rec, Refused => Refused'
  PROVE  WireInv'
<1>1. up \in [Epochs -> Seq(UpMessage)]
  BY DEF SocketTypeOK
<1>2. ASSUME NEW m, Genuine(m, rec, Refused)
      PROVE  Genuine(m, rec', Refused')
  BY <1>2 DEF Genuine
<1>3. ASSUME NEW e \in Epochs, NEW i \in 1 .. Len(up'[e])
      PROVE  \E j \in 1 .. Len(up[e]) : up'[e][i] = up[e][j]
  <2>1. up[e] \in Seq(UpMessage)
    BY <1>1
  <2>2. CASE up'[e] \in {up[e], << >>}
    BY <1>3, <2>1, <2>2
  <2>3. CASE up[e] # << >> /\ up'[e] = Tail(up[e])
    <3>1. i + 1 \in 1 .. Len(up[e]) /\ up'[e][i] = up[e][i + 1]
      BY <1>3, <2>1, <2>3
    <3> QED
      BY <3>1
  <2> QED
    BY <2>2, <2>3 DEF Receives
<1> QED
  BY <1>2, <1>3 DEF WireInv

\* The commands after a handler sent out.
LEMMA SentCommands ==
  ASSUME SocketTypeOK, NEW out \in {<< >>, <<"run.cancel_requested">>, <<"run.requested">>},
         down' = down \/ down' = down \o out
  PROVE  /\ Len(down) \in Nat /\ Len(down') \in Nat
         /\ \A i \in 1 .. Len(down') :
              \/ i \in 1 .. Len(down) /\ down'[i] = down[i]
              \/ i = Len(down) + 1 /\ out = <<down'[i]>>
<1>1. down \in Seq(DownMessage) /\ out \in Seq(DownMessage) /\ Len(out) \in {0, 1}
  BY CommandTypes DEF SocketTypeOK
<1>2. CASE down' = down \/ out = << >>
  BY <1>1, <1>2
<1>3. CASE down' = down \o out /\ out # << >>
  BY <1>1, <1>3
<1> QED
  BY <1>2, <1>3

\* A handler without an event keeps the invariant.
LEMMA SendsStep ==
  ASSUME IInv, HistoryInv, UNCHANGED bridgeVars, Receives,
         NEW out, Sends(hub, hub', out), down' = down \/ down' = down \o out,
         ~Discussion => ~discCanceled',
         hub'.state = "canceled" => \/ hub.state \in {"canceled", "input_required"}
                                    \/ hub.delivery = "none" /\ out # <<"run.requested">>
                                    \/ Discussion
  PROVE  CommandInv' /\ WireInv' /\ VerdictInv'
<1> USE DEF IInv, TypeOK, HistoryInv
<1>1. /\ UNCHANGED <<rec, wk, started>> /\ hub \in Hub /\ hub' \in Hub
      /\ hub.log \in Seq(EventKind)
  BY DEF bridgeVars, CentralTypeOK, Sends, Kept, Hub
<1>2. Kept(hub, hub') /\ out \in {<< >>, <<"run.cancel_requested">>, <<"run.requested">>}
  BY DEF Sends
<1>3. Stopped(hub) => Stopped(hub')
  BY <1>2 DEF Kept, Stopped, OwnVerdict, Terminal
<1>4. /\ Len(down) \in Nat /\ Len(down') \in Nat
      /\ \A i \in 1 .. Len(down') :
           \/ i \in 1 .. Len(down) /\ down'[i] = down[i]
           \/ i = Len(down) + 1 /\ out = <<down'[i]>>
  BY <1>2, SentCommands
<1>5. out # <<"run.requested">> /\ Unknown => Unknown'
  BY <1>1, <1>4 DEF Unknown, Requested
<1>6. Stopped(hub) => out # <<"run.requested">>
  BY DEF Sends
<1>7. CommandInv'
  <2>1. hub'.intent \notin {"none", "pending"} => Terminal(hub')
    BY <1>2 DEF Kept, IntentOK
  <2>2. ASSUME NEW i \in 1 .. Len(down'), NEW j \in 1 .. Len(down'), i < j,
               down'[i] = "run.cancel_requested"
        PROVE  down'[j] # "run.requested"
    <3>1. i \in 1 .. Len(down) /\ down[i] = "run.cancel_requested"
      BY <1>4, <2>2
    <3>2. Stopped(hub)
      BY <3>1 DEF CommandInv
    <3>3. CASE j \in 1 .. Len(down) /\ down'[j] = down[j]
      BY <2>2, <3>1, <3>3 DEF CommandInv
    <3>4. CASE j = Len(down) + 1 /\ out = <<down'[j]>>
      BY <1>6, <3>2, <3>4
    <3> QED
      BY <1>4, <3>3, <3>4
  <2>3. ASSUME NEW i \in 1 .. Len(down'), down'[i] = "run.cancel_requested"
        PROVE  Stopped(hub')
    <3>1. CASE i \in 1 .. Len(down) /\ down'[i] = down[i]
      BY <1>3, <2>3, <3>1 DEF CommandInv
    <3>2. CASE out = <<down'[i]>>
      BY <2>3, <3>2 DEF Sends
    <3> QED
      BY <1>4, <3>1, <3>2
  <2>4. wk'.pc = "preAck" => Stopped(hub') /\ Unknown'
    BY <1>1, <1>3, <1>5, <1>6 DEF CommandInv
  <2>5. hub'.delivery = "none" => Unknown'
    BY <1>2, <1>5 DEF CommandInv, Sends, Kept
  <2> QED
    BY <2>1, <2>2, <2>3, <2>4, <2>5 DEF CommandInv
<1>8. WireInv'
  <2>1. Refused => Refused'
    BY <1>3, <1>5, <1>6 DEF Refused
  <2> QED
    BY <1>1, <2>1, ReceivesWire
<1>9. VerdictInv'
  <2>1. Reported' = Reported
    BY <1>1 DEF Reported
  <2>2. LogAgrees' /\ (~Terminal(hub') => IsPrefixOf(hub'.log, Reported'))
    <3>1. CASE hub'.state = hub.state /\ hub'.log = hub.log
      BY <2>1, <3>1 DEF VerdictInv, LogAgrees, Terminal
    <3>2. CASE OwnVerdict(hub, hub')
      <4>1. IsPrefixOf(hub.log, Reported) /\ hub'.state \in EventKind
        BY <3>2 DEF VerdictInv, OwnVerdict, EventKind, RunState
      <4> QED
        BY <1>1, <2>1, <3>2, <4>1 DEF OwnVerdict, LogAgrees, Terminal
    <3> QED
      BY <1>2, <3>1, <3>2 DEF Kept
  <2>3. /\ hub'.state = "input_required" => hub.state = "input_required"
        /\ hub'.state = "completed" => hub.state = "completed"
    BY <1>2 DEF Kept, OwnVerdict, terminalStates
  <2>4. ASSUME ~Discussion, hub'.state = "canceled"
        PROVE  rec.state \in isTerminalState \/ Unknown'
    <3>1. CASE hub.state = "canceled"
      <4>1. out # <<"run.requested">>
        BY <1>6, <3>1 DEF Stopped, Terminal, terminalStates
      <4> QED
        BY <1>5, <2>4, <3>1, <4>1 DEF VerdictInv
    <3>2. CASE hub.state = "input_required"
      BY <3>2 DEF VerdictInv
    <3>3. CASE hub.delivery = "none" /\ out # <<"run.requested">>
      BY <1>5, <3>3 DEF CommandInv
    <3> QED
      BY <2>4, <3>1, <3>2, <3>3
  <2> QED
    BY <1>1, <2>2, <2>3, <2>4 DEF VerdictInv
<1> QED
  BY <1>7, <1>8, <1>9

\* An event is applied once, in its turn, or not at all.
LEMMA ApplyEventEffect ==
  ASSUME NEW h \in Hub, IntentOK(h), NEW seq \in Nat, NEW k \in EventKind, ~SequenceGap(h, seq)
  PROVE  LET g == applyEvent(h, seq, k)
         IN  /\ g \in Hub /\ IntentOK(g) /\ g.delivery = h.delivery
             /\ h.intent # "none" => g.intent # "none"
             /\ \/ g.state = h.state /\ g.log = h.log
                \/ /\ ~Terminal(h) /\ seq = Len(h.log) + 1
                   /\ g.log = Append(h.log, k)
                   /\ g.state = IF k = "reply" THEN h.state ELSE k
<1> DEFINE g == applyEvent(h, seq, k)
<1>1. g \in Hub
  BY ApplyEventType
<1>2. CASE seq <= lastSequence(h) \/ Terminal(h)
  <2>1. g = h
    BY <1>2 DEF applyEvent
  <2> QED
    BY <2>1
<1>3. CASE ~(seq <= lastSequence(h)) /\ ~Terminal(h)
  <2>1. seq = Len(h.log) + 1
    <3>1. Len(h.log) \in Nat
      BY DEF Hub
    <3> QED
      BY <1>3, <3>1 DEF SequenceGap, lastSequence
  <2> DEFINE next == IF k = "reply" THEN h.state ELSE k
  <2>2. g = [h EXCEPT !.state = next, !.log = Append(@, k),
                      !.intent = IF next \in terminalStates /\ @ = "pending" THEN next ELSE @]
    BY <1>3 DEF applyEvent
  <2> HIDE DEF next
  <2>3. /\ g.state = next /\ g.log = Append(h.log, k) /\ g.delivery = h.delivery
        /\ g.intent = IF next \in terminalStates /\ h.intent = "pending" THEN next ELSE h.intent
    BY <2>2 DEF Hub
  <2>4. IntentOK(g) /\ (h.intent # "none" => g.intent # "none")
    BY <1>3, <2>3 DEF IntentOK, Terminal, terminalStates
  <2> QED
    BY <1>1, <1>3, <2>1, <2>3, <2>4 DEF next
<1> QED
  BY <1>2, <1>3

\* A received message is the next entry of the reported history, one that is known
\* already, or the answer of a Bridge that will never run the Run.
LEMMA ReceiveEffect ==
  ASSUME NEW h \in Hub, IntentOK(h), NEW m \in UpMessage, m.kind # "hello", ~Rejects(h, m)
  PROVE  \E n \in Hub :
           /\ IntentOK(n)
           /\ h.delivery # "none" => n.delivery # "none"
           /\ h.delivery = "none" => m # Accepted
           /\ h.intent # "none" => n.intent # "none"
           /\ \/ n.state = h.state /\ n.log = h.log
              \/ /\ ~Terminal(h) /\ m.seq = Len(h.log) + 1
                 /\ n.log = Append(h.log, m.kind)
                 /\ n.state = IF m.kind = "reply" THEN h.state ELSE m.kind
           /\ \/ ReceiveEvent(h, m) = n
              \/ /\ ReceiveEvent(h, m) = LocalEvent(n, "outcome_unknown")
                 /\ n.state = "input_required" /\ h.state # "input_required"
<1> DEFINE a == applyEvent(h, m.seq, m.kind)
<1> DEFINE n == IF m = Accepted THEN accept(h) ELSE a
<1>1. m.seq \in Nat /\ m.kind \in EventKind
  BY DEF UpMessage
<1>2. ~SequenceGap(h, m.seq)
  BY DEF Rejects, Accepted
<1>3. /\ a \in Hub /\ IntentOK(a) /\ a.delivery = h.delivery
      /\ h.intent # "none" => a.intent # "none"
      /\ \/ a.state = h.state /\ a.log = h.log
         \/ /\ ~Terminal(h) /\ m.seq = Len(h.log) + 1
            /\ a.log = Append(h.log, m.kind)
            /\ a.state = IF m.kind = "reply" THEN h.state ELSE m.kind
  BY <1>1, <1>2, ApplyEventEffect
<1>4. m = Accepted => accept(h) = [a EXCEPT !.delivery = "accepted"] /\ h.delivery # "none"
  BY DEF accept, Accepted, Rejects
<1> HIDE DEF a
<1>5. m = Accepted =>
        /\ accept(h) \in Hub /\ accept(h).state = a.state /\ accept(h).log = a.log
        /\ accept(h).intent = a.intent /\ accept(h).delivery = "accepted"
  BY <1>3, <1>4 DEF Hub
<1>6. /\ n \in Hub /\ n.state = a.state /\ n.log = a.log /\ n.intent = a.intent
      /\ h.delivery # "none" => n.delivery # "none"
  BY <1>3, <1>5
<1>7. \/ ReceiveEvent(h, m) = n
      \/ /\ ReceiveEvent(h, m) = LocalEvent(n, "outcome_unknown")
         /\ n.state = "input_required" /\ h.state # "input_required"
  BY DEF ReceiveEvent, a
<1> HIDE DEF n
<1>8. IntentOK(n)
  BY <1>3, <1>6 DEF IntentOK, Terminal
<1>9. h.delivery = "none" => m # Accepted
  BY <1>4
<1> QED
  BY <1>3, <1>6, <1>7, <1>8, <1>9

\* A received message keeps the invariant.
LEMMA ReceiveStep ==
  ASSUME IInv, HistoryInv, UNCHANGED bridgeVars, UNCHANGED <<down, discCanceled>>, Receives,
         NEW m \in UpMessage, m.kind # "hello", Genuine(m, rec, Refused),
         ~Rejects(hub, m), hub' = ReceiveEvent(hub, m)
  PROVE  CommandInv' /\ WireInv' /\ VerdictInv'
<1> USE DEF IInv, TypeOK, HistoryInv
<1>1. /\ UNCHANGED <<rec, wk, started>> /\ hub \in Hub /\ hub.log \in Seq(EventKind)
      /\ IntentOK(hub) /\ m.seq \in Nat /\ m.kind \in EventKind
  BY DEF bridgeVars, CentralTypeOK, Hub, CommandInv, IntentOK, UpMessage
<1>2. PICK n \in Hub :
           /\ IntentOK(n)
           /\ hub.delivery # "none" => n.delivery # "none"
           /\ hub.delivery = "none" => m # Accepted
           /\ hub.intent # "none" => n.intent # "none"
           /\ \/ n.state = hub.state /\ n.log = hub.log
              \/ /\ ~Terminal(hub) /\ m.seq = Len(hub.log) + 1
                 /\ n.log = Append(hub.log, m.kind)
                 /\ n.state = IF m.kind = "reply" THEN hub.state ELSE m.kind
           /\ \/ hub' = n
              \/ /\ hub' = LocalEvent(n, "outcome_unknown")
                 /\ n.state = "input_required" /\ hub.state # "input_required"
  BY <1>1, ReceiveEffect
<1>3. n.log \in Seq(EventKind)
  BY DEF Hub
<1>4. \/ hub' = n
      \/ /\ ~Terminal(n) /\ hub'.state = "outcome_unknown" /\ Kept(n, hub')
         /\ hub'.log = Append(n.log, "outcome_unknown")
  <2>1. CASE hub' # n
    <3>1. hub' = LocalEvent(n, "outcome_unknown") /\ ~Terminal(n)
      BY <1>2, <2>1 DEF Terminal, terminalStates
    <3>2. Kept(n, hub') /\ hub'.state = "outcome_unknown" /\ n.state # "outcome_unknown"
      BY <1>2, <3>1, LocalKept DEF terminalStates, Terminal
    <3> QED
      BY <3>1, <3>2 DEF Kept, OwnVerdict
  <2> QED
    BY <2>1
<1>5. Terminal(hub) => Terminal(n)
  BY <1>2 DEF Terminal
<1>6. CommandInv' /\ (Stopped(hub) => Stopped(hub'))
  <2>1. Stopped(hub) => Stopped(hub')
    BY <1>2, <1>4, <1>5 DEF Stopped, Kept, Terminal, terminalStates
  <2>2. IntentOK(hub')
    BY <1>2, <1>4 DEF Kept
  <2>3. hub'.delivery = "none" => hub.delivery = "none"
    BY <1>2, <1>4 DEF Kept
  <2>4. Unknown' = Unknown
    BY <1>1 DEF Unknown, Requested
  <2> QED
    BY <1>1, <2>1, <2>2, <2>3, <2>4 DEF CommandInv, IntentOK
<1>7. WireInv'
  <2>1. Refused => Refused'
    BY <1>1, <1>6 DEF Refused, Unknown, Requested
  <2> QED
    BY <1>1, <2>1, ReceivesWire
<1>8. m # TombstoneStatus => /\ m.seq \in 1 .. Len(Reported) /\ m.kind = Reported[m.seq]
                             /\ m.seq = 1 => m.kind = "delivered"
                             /\ m.seq # 1 => m.seq - 1 \in 1 .. Len(rec.ev) /\ m.kind = rec.ev[m.seq - 1]
  <2>1. /\ Len(rec.ev) \in Nat /\ Len(Reported) = Len(rec.ev) + 1 /\ Reported[1] = "delivered"
        /\ \A i \in 1 .. Len(rec.ev) : Reported[i + 1] = rec.ev[i]
    BY ReportedFacts
  <2>2. CASE m = Accepted
    BY <2>1, <2>2 DEF Accepted
  <2>3. CASE m.seq - 1 \in 1 .. Len(rec.ev) /\ m.kind = rec.ev[m.seq - 1]
    <3>1. (m.seq - 1) + 1 = m.seq /\ m.seq \in 1 .. Len(Reported) /\ m.seq # 1
      BY <1>1, <2>1, <2>3
    <3> QED
      BY <2>1, <2>3, <3>1
  <2>4. m # Hello
    BY DEF Hello
  <2> QED
    BY <2>2, <2>3, <2>4 DEF Genuine
<1>9. \/ IsPrefixOf(n.log, Reported)
      \/ n.state = hub.state /\ n.log = hub.log /\ Terminal(hub)
      \/ m = TombstoneStatus /\ n.state = "canceled" /\ n.log = Append(hub.log, "canceled")
         /\ IsPrefixOf(hub.log, Reported)
  <2>1. CASE n.state = hub.state /\ n.log = hub.log
    BY <2>1 DEF VerdictInv
  <2>2. CASE ~(n.state = hub.state /\ n.log = hub.log)
    <3>1. /\ ~Terminal(hub) /\ m.seq = Len(hub.log) + 1 /\ n.log = Append(hub.log, m.kind)
          /\ n.state = IF m.kind = "reply" THEN hub.state ELSE m.kind
      BY <1>2, <2>2
    <3>2. IsPrefixOf(hub.log, Reported)
      BY <3>1 DEF VerdictInv
    <3>3. CASE m = TombstoneStatus
      BY <3>1, <3>2, <3>3 DEF TombstoneStatus
    <3>4. CASE m # TombstoneStatus
      <4>1. Len(n.log) = Len(hub.log) + 1 /\ Len(n.log) \in Nat
            /\ \A i \in 1 .. Len(n.log) : n.log[i] = IF i = m.seq THEN m.kind ELSE hub.log[i]
        BY <1>1, <3>1
      <4>2. m.seq \in 1 .. Len(Reported) /\ m.kind = Reported[m.seq] /\ Len(Reported) \in Nat
        BY <1>8, <3>4, ReportedFacts
      <4>3. ASSUME NEW i \in 1 .. Len(n.log)
            PROVE  n.log[i] = Reported[i]
        <5>1. CASE i = m.seq
          BY <4>1, <4>2, <5>1
        <5>2. CASE i # m.seq
          BY <1>1, <3>1, <3>2, <4>1, <5>2 DEF IsPrefixOf
        <5> QED
          BY <5>1, <5>2
      <4> QED
        BY <3>1, <4>1, <4>2, <4>3 DEF IsPrefixOf
    <3> QED
      BY <3>3, <3>4
  <2> QED
    BY <2>1, <2>2
<1>10. /\ n.state \in isTerminalState =>
             n.state = hub.state \/ rec.state \in isTerminalState \/ (Unknown /\ n.state = "canceled")
       /\ n.state = "completed" => hub.state = "completed" \/ started > 0
  <2>1. CASE n.state = hub.state
    BY <2>1
  <2>2. CASE n.state # hub.state
    <3>1. n.state = m.kind
      BY <1>2, <2>2
    <3>2. CASE m = TombstoneStatus
      BY <3>1, <3>2 DEF TombstoneStatus, Genuine, Refused, Hello, Accepted
    <3>3. CASE m # TombstoneStatus /\ m.seq = 1
      BY <1>8, <3>1, <3>3 DEF isTerminalState
    <3>4. CASE m # TombstoneStatus /\ m.seq # 1
      BY <1>8, <3>1, <3>4 DEF RecordInv
    <3> QED
      BY <3>2, <3>3, <3>4
  <2> QED
    BY <2>1, <2>2
<1>11. Reported' = Reported /\ Unknown' = Unknown
  BY <1>1 DEF Reported, Unknown, Requested
<1>12. LogAgrees' /\ (~Terminal(hub') => IsPrefixOf(hub'.log, Reported'))
  <2>1. CASE hub' = n
    <3>1. CASE IsPrefixOf(n.log, Reported)
      BY <1>11, <2>1, <3>1 DEF LogAgrees
    <3>2. CASE n.state = hub.state /\ n.log = hub.log /\ Terminal(hub)
      BY <1>5, <1>11, <2>1, <3>2 DEF LogAgrees, VerdictInv
    <3>3. CASE m = TombstoneStatus /\ n.state = "canceled" /\ n.log = Append(hub.log, "canceled")
               /\ IsPrefixOf(hub.log, Reported)
      <4>1. "canceled" \in EventKind /\ "canceled" \in terminalStates \ {"completed"}
        BY DEF EventKind, RunState, terminalStates
      <4> QED
        BY <1>1, <1>11, <2>1, <3>3, <4>1 DEF LogAgrees, Terminal
    <3> QED
      BY <1>9, <3>1, <3>2, <3>3
  <2>2. CASE hub' # n
    <3>1. IsPrefixOf(n.log, Reported)
      BY <1>2, <1>4, <1>5, <1>9, <2>2
    <3>2. "outcome_unknown" \in EventKind /\ "outcome_unknown" \in terminalStates \ {"completed"}
      BY DEF EventKind, RunState, terminalStates
    <3> QED
      BY <1>3, <1>4, <1>11, <2>2, <3>1, <3>2 DEF LogAgrees, Terminal
  <2> QED
    BY <2>1, <2>2
<1>13. /\ hub'.state = "input_required" => rec.state \in isTerminalState
       /\ hub'.state = "completed" => started > 0 /\ rec.state \in isTerminalState
       /\ ~Discussion /\ hub'.state = "canceled" => rec.state \in isTerminalState \/ Unknown
  <2>1. hub'.state \in {"input_required", "completed", "canceled"} => hub'.state = n.state
    BY <1>4
  <2>2. {"input_required", "completed", "canceled"} \subseteq isTerminalState
    BY DEF isTerminalState
  <2> QED
    BY <1>10, <2>1, <2>2 DEF VerdictInv
<1> QED
  BY <1>1, <1>6, <1>7, <1>11, <1>12, <1>13 DEF VerdictInv

\* A cancellation request asks the Bridge, or cancels what the Bridge cannot be running.
LEMMA CancelSends ==
  ASSUME NEW h \in Hub, IntentOK(h), ~Terminal(h)
  PROVE  LET g == requestCancellation(h)
         IN  /\ Sends(h, g, cancelCommand(g))
             /\ cancelCommand(g) # <<"run.requested">>
             /\ g.state = "canceled" => h.state = "input_required" \/ h.delivery = "none"
<1> DEFINE g == requestCancellation(h)
<1>1. << >> # <<"run.cancel_requested">> /\ << >> # <<"run.requested">>
      /\ <<"run.cancel_requested">> # <<"run.requested">>
  OBVIOUS
<1>2. h.state # "canceled"
  BY DEF Terminal, terminalStates
<1>3. \/ g = h
      \/ g = LocalEvent(h, "canceled") /\ (h.state = "input_required" \/ h.delivery = "none")
      \/ g = [h EXCEPT !.intent = "pending"]
  BY DEF requestCancellation
<1>4. Kept(h, LocalEvent(h, "canceled"))
  BY LocalKept DEF terminalStates
<1>5. Kept(h, h)
  BY KeptOrder
<1> DEFINE p == [h EXCEPT !.intent = "pending"]
<1>6. Kept(h, p) /\ p.state = h.state
  <2>1. /\ p \in Hub /\ p.state = h.state /\ p.log = h.log /\ p.delivery = h.delivery
        /\ p.intent = "pending"
    BY DEF Hub
  <2> QED
    BY <2>1 DEF Kept, IntentOK
<1> HIDE DEF p
<1>7. Kept(h, g) /\ (g.state = "canceled" => h.state = "input_required" \/ h.delivery = "none")
  BY <1>2, <1>3, <1>4, <1>5, <1>6 DEF p
<1> HIDE DEF g
<1>8. cancelCommand(g) = << >> \/ (cancelCommand(g) = <<"run.cancel_requested">> /\ Stopped(g))
  BY DEF cancelCommand, Stopped
<1> QED
  BY <1>1, <1>7, <1>8 DEF Sends, g

\* Every step of Central keeps the invariant.
LEMMA CentralHistoryStep ==
  ASSUME IInv, HistoryInv, Central
  PROVE  CommandInv' /\ WireInv' /\ VerdictInv'
<1> USE DEF IInv, TypeOK, HistoryInv
<1>1. /\ UNCHANGED bridgeVars /\ hub \in Hub /\ IntentOK(hub)
      /\ up \in [Epochs -> Seq(UpMessage)]
  BY DEF Central, CentralTypeOK, SocketTypeOK, CommandInv, IntentOK
<1>2. ASSUME UNCHANGED up PROVE Receives
  BY <1>2 DEF Receives
<1>3. ASSUME NEW r, NEW s, NEW out PROVE Sent(r, s, out) \in {down, down \o out}
  BY DEF Sent
<1>4. ASSUME NEW g, NEW out, Handles(hub, g, out), hub' = g, down' \in {down, down \o out},
             Receives, UNCHANGED discCanceled
      PROVE  CommandInv' /\ WireInv' /\ VerdictInv'
  <2>1. Sends(hub, hub', out) /\ (hub'.state = "canceled" => hub.state = "canceled")
    BY <1>4 DEF Handles
  <2>2. ~Discussion => ~discCanceled'
    BY <1>4 DEF VerdictInv
  <2> QED
    BY <1>1, <1>4, <2>1, <2>2, SendsStep
<1>5. ASSUME NEW k \in terminalStates \ {"completed", "canceled"}, hub' = LocalEvent(hub, k),
             UNCHANGED <<down, up, discCanceled>>
      PROVE  CommandInv' /\ WireInv' /\ VerdictInv'
  <2>1. Handles(hub, hub', << >>)
    <3>1. Kept(hub, hub') /\ hub'.state \in {hub.state, k}
      BY <1>1, <1>5, LocalKept
    <3>2. << >> # <<"run.cancel_requested">> /\ << >> # <<"run.requested">>
      OBVIOUS
    <3> QED
      BY <3>1, <3>2 DEF Handles, Sends
  <2> QED
    BY <1>2, <1>4, <1>5, <2>1
<1>6. CASE DispatchRun
  <2>1. PICK o \in dispatch(hub) : Respond(o) /\ UNCHANGED <<up, discCanceled>>
    BY <1>6 DEF DispatchRun
  <2>2. Handles(hub, o.hub, o.out)
    BY <1>1, DispatchHandles
  <2> QED
    BY <1>2, <1>3, <1>4, <2>1, <2>2 DEF Respond
<1>7. CASE ExpireQueued \/ CloseClarification \/ WaveDeadline
  <2>1. UNCHANGED <<down, up, discCanceled>>
    BY <1>7 DEF ExpireQueued, CloseClarification, WaveDeadline, socketVars
  <2>2. PICK k \in terminalStates \ {"completed", "canceled"} : hub' = LocalEvent(hub, k)
    BY <1>7 DEF ExpireQueued, CloseClarification, WaveDeadline, terminalStates
  <2> QED
    BY <1>5, <2>1, <2>2
<1>8. CASE CancelRun
  <2> DEFINE g == requestCancellation(hub)
  <2>1. /\ ~Terminal(hub) /\ hub' = g /\ down' = Sent(reg, sk, cancelCommand(g))
        /\ UNCHANGED up /\ discCanceled' = Discussion
    BY <1>8 DEF CancelRun, Respond, Outcome
  <2>2. /\ Sends(hub, g, cancelCommand(g)) /\ cancelCommand(g) # <<"run.requested">>
        /\ g.state = "canceled" => hub.state = "input_required" \/ hub.delivery = "none"
    BY <1>1, <2>1, CancelSends
  <2> HIDE DEF g
  <2> QED
    BY <1>1, <1>2, <1>3, <2>1, <2>2, SendsStep
<1>9. CASE CancellationSweep
  <2>1. PICK o \in sweep(hub) : Respond(o) /\ UNCHANGED <<up, discCanceled>>
    BY <1>9 DEF CancellationSweep
  <2>2. Handles(hub, o.hub, o.out)
    BY <1>1, SweepHandles
  <2> QED
    BY <1>2, <1>3, <1>4, <2>1, <2>2 DEF Respond
<1>10. CASE Heartbeat
  <2>1. PICK o \in DeviceSync(hub) : Respond(o) /\ UNCHANGED <<up, discCanceled>>
    BY <1>10 DEF Heartbeat
  <2>2. Handles(hub, o.hub, o.out)
    BY <1>1, SyncHandles
  <2> QED
    BY <1>2, <1>3, <1>4, <2>1, <2>2 DEF Respond
<1>11. CASE Revoke
  <2>1. Respond(revokeRun(hub)) /\ UNCHANGED <<up, discCanceled>>
    BY <1>11 DEF Revoke
  <2>2. Handles(hub, revokeRun(hub).hub, revokeRun(hub).out)
    BY <1>1, RevokeHandles
  <2> QED
    BY <1>2, <1>3, <1>4, <2>1, <2>2 DEF Respond
<1>12. CASE CentralRestart
  <2> DEFINE h == IF revoked' THEN revokeRun(hub).hub ELSE hub
  <2>1. Kept(hub, h) /\ (h.state = "canceled" => hub.state = "canceled")
    BY <1>1, RevokeHandles, KeptOrder DEF Handles, Sends
  <2>2. PICK o \in sweep(h) : hub' = closeCanceledWaves(o.hub)
    BY <1>12 DEF CentralRestart
  <2> HIDE DEF h
  <2>3. /\ Kept(hub, o.hub) /\ o.hub \in Hub /\ IntentOK(o.hub)
        /\ o.hub.state = "canceled" => hub.state = "canceled"
    <3>1. h \in Hub /\ IntentOK(h)
      BY <2>1 DEF Kept
    <3>2. Kept(h, o.hub) /\ (o.hub.state = "canceled" => h.state = "canceled")
      BY <2>2, <3>1, SweepHandles DEF Handles, Sends
    <3>3. o.hub \in Hub /\ IntentOK(o.hub)
      BY <3>2 DEF Kept
    <3>4. Kept(hub, o.hub)
      BY <1>1, <2>1, <3>1, <3>2, <3>3, KeptOrder
    <3> QED
      BY <2>1, <3>2, <3>3, <3>4
  <2>4. /\ Kept(o.hub, hub')
        /\ hub'.state = "canceled" => o.hub.state = "canceled" \/ discCanceled
    <3>1. \/ hub' = o.hub
          \/ hub' = LocalEvent(o.hub, "outcome_unknown") /\ ~Terminal(o.hub)
          \/ hub' = LocalEvent(o.hub, "canceled") /\ discCanceled
      BY <2>2 DEF closeCanceledWaves
    <3>2. /\ Kept(o.hub, o.hub) /\ Kept(o.hub, LocalEvent(o.hub, "canceled"))
          /\ Kept(o.hub, LocalEvent(o.hub, "outcome_unknown"))
          /\ ~Terminal(o.hub) => LocalEvent(o.hub, "outcome_unknown").state # "canceled"
      BY <2>3, LocalKept, KeptOrder DEF terminalStates
    <3> QED
      BY <3>1, <3>2
  <2>5. Sends(hub, hub', << >>)
    <3>1. << >> # <<"run.cancel_requested">> /\ << >> # <<"run.requested">>
      OBVIOUS
    <3>2. Kept(hub, hub')
      <4>1. hub' \in Hub
        BY <2>4 DEF Kept
      <4> QED
        BY <1>1, <2>3, <2>4, <4>1, KeptOrder
    <3> QED
      BY <3>1, <3>2 DEF Sends
  <2>6. Receives /\ UNCHANGED <<down, discCanceled>>
    BY <1>12 DEF CentralRestart, Receives
  <2>7. ~Discussion => ~discCanceled
    BY DEF VerdictInv
  <2>8. hub'.state = "canceled" => hub.state \in {"canceled", "input_required"} \/ Discussion
    BY <2>3, <2>4, <2>7
  <2> QED
    BY <1>1, <2>5, <2>6, <2>7, <2>8, SendsStep
<1>13. ASSUME NEW e \in Epochs, ReceiveHello(e)
       PROVE  CommandInv' /\ WireInv' /\ VerdictInv'
  <2>1. Receives /\ UNCHANGED discCanceled
    BY <1>1, <1>13 DEF ReceiveHello, Receives
  <2>2. CASE reg >= e
    <3>1. hub' = hub /\ down' = down
      BY <1>13, <2>2 DEF ReceiveHello
    <3>2. Handles(hub, hub, << >>)
      <4>1. << >> # <<"run.cancel_requested">> /\ << >> # <<"run.requested">>
        OBVIOUS
      <4> QED
        BY <1>1, <4>1, KeptOrder DEF Handles, Sends
    <3> QED
      BY <1>4, <2>1, <3>1, <3>2
  <2>3. CASE ~(reg >= e)
    <3>1. PICK o \in DeviceSync(hub) : hub' = o.hub /\ down' = Sent(e, sk', o.out)
      BY <1>13, <2>3 DEF ReceiveHello
    <3>2. Handles(hub, o.hub, o.out)
      BY <1>1, SyncHandles
    <3> QED
      BY <1>3, <1>4, <2>1, <3>1, <3>2
  <2> QED
    BY <2>2, <2>3
<1>14. ASSUME NEW e \in Epochs, ReceiveRunMessage(e)
       PROVE  CommandInv' /\ WireInv' /\ VerdictInv'
  <2>1. Receives /\ UNCHANGED <<down, discCanceled>>
    BY <1>1, <1>14 DEF ReceiveRunMessage, Receives
  <2>2. up[e] \in Seq(UpMessage) /\ up[e] # << >> /\ Head(up[e]) = up[e][1] /\ 1 \in 1 .. Len(up[e])
    BY <1>1, <1>14 DEF ReceiveRunMessage
  <2> DEFINE m == Head(up[e])
  <2>3. m \in UpMessage /\ m.kind # "hello" /\ Genuine(m, rec, Refused)
    BY <1>14, <2>2 DEF ReceiveRunMessage, WireInv
  <2>4. CASE Rejects(hub, m)
    <3>1. hub' = hub
      BY <1>14, <2>4 DEF ReceiveRunMessage
    <3>2. Handles(hub, hub, << >>)
      <4>1. << >> # <<"run.cancel_requested">> /\ << >> # <<"run.requested">>
        OBVIOUS
      <4> QED
        BY <1>1, <4>1, KeptOrder DEF Handles, Sends
    <3> QED
      BY <1>4, <2>1, <3>1, <3>2
  <2>5. CASE ~Rejects(hub, m)
    <3>1. hub' = ReceiveEvent(hub, m)
      BY <1>14, <2>5 DEF ReceiveRunMessage
    <3> HIDE DEF m
    <3> QED
      BY <1>1, <2>1, <2>3, <2>5, <3>1, ReceiveStep
  <2> QED
    BY <2>4, <2>5
<1> QED
  BY <1>6, <1>7, <1>8, <1>9, <1>10, <1>11, <1>12, <1>13, <1>14 DEF Central, CentralNext

-----------------------------------------------------------------------------
(* The theorems about Central's log *)

\* Every step preserves the whole invariant.
LEMMA HistoryStep ==
  ASSUME IInv, HistoryInv, Next
  PROVE  HistoryInv'
<1>1. RecordInv' /\ PositionInv'
  BY PositionStep DEF HistoryInv
<1>2. CASE Central
  BY <1>1, <1>2, CentralHistoryStep DEF HistoryInv
<1>3. CASE Bridge \/ Dial \/ Break
  BY <1>1, <1>3, BridgeCommandStep, BridgeWireStep, BridgeVerdictStep DEF HistoryInv
<1> QED
  BY <1>2, <1>3 DEF Next

\* It holds when nothing has happened yet.
LEMMA InitHistory ==
  ASSUME Init
  PROVE  HistoryInv
<1> USE DEF Init
<1>1. RecordInv /\ PositionInv
  BY DEF BridgeInit, Idle, RecordInv, PositionInv, isTerminalState
<1>2. Unknown
  BY DEF BridgeInit, SocketInit, Idle, Unknown, Requested
<1>3. CommandInv
  BY <1>2 DEF CentralInit, SocketInit, BridgeInit, Idle, CommandInv
<1>4. WireInv
  BY DEF SocketInit, WireInv
<1>5. VerdictInv
  <2>1. hub.log = << >> /\ Len(hub.log) = 0
    BY DEF CentralInit
  <2>3. Reported \in Seq({"delivered"}) /\ Len(Reported) \in Nat
    <3>1. << >> \in Seq({"delivered"}) /\ <<"delivered">> \in Seq({"delivered"})
      OBVIOUS
    <3>2. rec.ev = << >>
      BY DEF BridgeInit
    <3> QED
      BY <3>1, <3>2 DEF Reported
  <2>2. IsPrefixOf(hub.log, Reported)
    BY <2>1, <2>3 DEF IsPrefixOf
  <2> QED
    BY <2>2 DEF CentralInit, VerdictInv, LogAgrees, terminalStates
<1> QED
  BY <1>1, <1>3, <1>4, <1>5 DEF HistoryInv

\* A step that changes nothing preserves it.
LEMMA StutterHistory ==
  ASSUME HistoryInv, UNCHANGED vars
  PROVE  HistoryInv'
BY DEF HistoryInv, RecordInv, PositionInv, CommandInv, WireInv, VerdictInv, LogAgrees,
       Unknown, Requested, Refused, Stopped, Terminal, Reported, vars

\* The invariant is inductive: in every reachable state the messages in flight, the
\* worker's position and Central's rows are what the Bridge's record allows.
THEOREM HistoryInvariant == Spec => []HistoryInv
<1>1. Init => HistoryInv
  BY InitHistory
<1>2. IInv /\ HistoryInv /\ [Next]_vars => HistoryInv'
  BY HistoryStep, StutterHistory
<1> QED
  BY <1>1, <1>2, Invariant, PTL DEF Spec

\* Central's log is the Bridge's record as far as it got: no resend, replay, superseded
\* socket or recovery loses, repeats, reorders or makes up an event.  Only the last
\* entry may be a verdict that Central gave on its own.
THEOREM LogIsRecord == Spec => []HistoryAgrees
<1>1. HistoryInv => HistoryAgrees
  <2>1. SUFFICES ASSUME hub.state \in terminalStates \ {"completed"},
                        NEW s \in Seq(EventKind), NEW k \in EventKind,
                        hub.log = Append(s, k), IsPrefixOf(s, Reported)
                 PROVE  HistoryAgrees
    BY DEF HistoryInv, VerdictInv, LogAgrees, HistoryAgrees
  <2>2. Len(hub.log) - 1 = Len(s)
    BY <2>1
  <2>3. SubSeq(Append(s, k), 1, Len(s)) = s
    BY <2>1
  <2> QED
    BY <2>1, <2>2, <2>3 DEF HistoryAgrees
<1> QED
  BY <1>1, HistoryInvariant, PTL

\* A Run that is not part of a Discussion and that Central shows as canceled does not
\* execute: either the Bridge's outcome is persisted, or the Bridge does not know the
\* Run and is never asked to run it.
THEOREM CanceledDoesNotRun ==
  ASSUME ~Discussion
  PROVE  Spec => []CanceledNeverRuns
<1>1. IInv /\ HistoryInv => CanceledNeverRuns
  <2>1. SUFFICES ASSUME IInv, HistoryInv, hub.state = "canceled", Executing
                 PROVE  FALSE
    BY DEF CanceledNeverRuns
  <2>2. rec.state = "none" /\ wk.pc \in {"running", "emit"}
    BY <2>1 DEF Executing, HistoryInv, VerdictInv, Unknown
  <2> QED
    BY <2>1, <2>2 DEF HistoryInv, PositionInv
<1> QED
  BY <1>1, Invariant, HistoryInvariant, PTL

-----------------------------------------------------------------------------
(* RunDelivery implements RunLifecycle, for every number of connections,     *)
(* commands in flight and content events, if the Run is not part of a        *)
(* Discussion: the initial state is an initial state of the life of a Run,   *)
(* and every step is a step of that life or changes nothing of it.           *)


-----------------------------------------------------------------------------
(* The refinement mapping *)

AtWork == {"running", "emit"}

ExecOf == IF Executing THEN "running"
          ELSE IF started > 0 \/ hub.state = "canceled" THEN "over" ELSE "idle"

VerdictOf == IF hub.state \in terminalStates THEN hub.state ELSE "open"

-----------------------------------------------------------------------------
(* Steps of the Bridge *)

\* Only adapter.Execute starts an execution, and only an executing worker goes on
\* with one.
LEMMA ExecutionGoesOn ==
  ASSUME IInv, Bridge \/ Dial \/ Break, ~StartRuntime
  PROVE  started' = started /\ (wk'.pc \in AtWork => wk.pc \in AtWork)
<1> USE DEF IInv, TypeOK, AtWork
<1>1. wk \in WorkerType
  BY DEF BridgeTypeOK, WorkerType
<1>2. wk \in WorkerType /\ BridgeTypeOK
  BY <1>1
<1>3. CASE Dial \/ Break
  BY <1>3 DEF Dial, Break, Connect, bridgeVars
<1>4. CASE (CancelConnection /\ UNCHANGED bridgeVars) \/ CloseComplete \/ BridgeCrash
  BY <1>4 DEF CloseComplete, BridgeCrash, Idle, bridgeVars
<1>5. CASE ReaderStep
  BY <1>5, <1>2 DEF ReaderStep, ReadRequest, ReadCancelActive, StageCancellation,
                    FinishStaging, ReadCancelInactive, Reads, Idle, WorkerType
<1>6. CASE \/ Admit \/ CheckBeforePreparation \/ Prepare \/ PrepareRetryable
           \/ CheckBeforeAcceptance \/ FailMaterialization \/ CheckBeforeGate \/ AcquireGate
           \/ LeaveGate \/ CheckBeforeStart \/ BeforeStartFails \/ RefuseStart
  <2>1. started' = started
    BY <1>6 DEF Admit, CheckBeforePreparation, Prepare, PrepareRetryable,
         CheckBeforeAcceptance, FailMaterialization, CheckBeforeGate, AcquireGate, LeaveGate,
         CheckBeforeStart, BeforeStartFails, RefuseStart
  <2>2. wk' = Idle \/ \E p \in Step \ AtWork : wk'.pc = p
    <3>1. CASE Admit \/ CheckBeforePreparation \/ Prepare \/ PrepareRetryable
      BY <3>1, <1>2 DEF Admit, CheckBeforePreparation, Prepare, PrepareRetryable, Goto,
                        Return, WorkerType, Step
    <3>2. CASE CheckBeforeAcceptance \/ FailMaterialization \/ CheckBeforeGate \/ AcquireGate
      BY <3>2, <1>2 DEF CheckBeforeAcceptance, FailMaterialization, CheckBeforeGate,
                        AcquireGate, Goto, WorkerType, Step
    <3>3. CASE LeaveGate \/ CheckBeforeStart \/ BeforeStartFails \/ RefuseStart
      BY <3>3, <1>2 DEF LeaveGate, CheckBeforeStart, BeforeStartFails, RefuseStart, Goto,
                        Return, WorkerType, Step
    <3> QED
      BY <1>6, <3>1, <3>2, <3>3
  <2> QED
    BY <2>1, <2>2 DEF Idle
<1>7. CASE RuntimeEvent \/ RuntimeError \/ EventSendFails \/ SendEvent
  <2>1. wk.pc \in AtWork
    BY <1>7 DEF RuntimeEvent, RuntimeError, EventSendFails, SendEvent, At
  <2>2. started' = started
    <3>1. CASE RuntimeEvent \/ RuntimeError \/ EventSendFails
      BY <3>1 DEF RuntimeEvent, RuntimeError, EventSendFails
    <3>2. CASE SendEvent
      BY <3>2, ReportEffect DEF SendEvent
    <3> QED
      BY <1>7, <3>1, <3>2
  <2> QED
    BY <2>1, <2>2
<1>8. CASE ReleaseFence \/ PersistCanceled \/ ClearCancellation \/ Leave
  <2>1. started' = started
    BY <1>8 DEF ReleaseFence, PersistCanceled, ClearCancellation, Leave
  <2>2. wk' = Idle \/ \E p \in Step \ AtWork : wk' = [wk EXCEPT !.pc = p]
    BY <1>8 DEF ReleaseFence, PersistCanceled, ClearCancellation, Leave, Goto, Return, Step
  <2> QED
    BY <2>1, <2>2, <1>2 DEF Idle, WorkerType
<1>9. CASE SendFailed \/ SendAccepted \/ ReplayDuplicate \/ SendLast \/ SendCanceled
  <2>1. PICK p \in {"return", "start1", "dup", "finish", "clear"} :
          \E msgs : Report(msgs, p) \/ ContextReport(msgs, p)
    BY <1>9 DEF SendFailed, SendAccepted, ReplayDuplicate, SendLast, SendCanceled
  <2>2. started' = started /\ (wk' = [wk EXCEPT !.pc = p] \/ wk' = Idle)
    BY <2>1, ReportEffect
  <2> QED
    BY <2>1, <2>2, <1>2 DEF Idle, WorkerType
<1> QED
  BY <1>3, <1>4, <1>5, <1>6, <1>7, <1>8, <1>9 DEF Bridge, BridgeNext, WorkerStep, WorkerMishap

\* A step of the Bridge, the dial or a broken socket starts the execution, ends it, or
\* leaves the life of the Run as it is.
LEMMA BridgeLifeStep ==
  ASSUME ~Discussion, IInv, HistoryInv, Bridge \/ Dial \/ Break
  PROVE  Lifecycle!Start \/ Lifecycle!End \/ UNCHANGED Lifecycle!lifecycleVars
<1> USE DEF IInv, TypeOK
<1>1. UNCHANGED hub /\ started \in Nat /\ started' \in Nat /\ Next
  BY StartedGrows DEF Bridge, Dial, Break, centralVars, BridgeTypeOK, Next
<1>2. RecordGrows
  BY <1>1, PositionStep DEF HistoryInv
<1>3. UNCHANGED VerdictOf
  BY <1>1 DEF VerdictOf
<1>4. CASE StartRuntime
  <2>1. wk.pc = "start" /\ wk.fresh /\ started = 0 /\ rec.state = "accepted"
    BY <1>4 DEF StartRuntime, At, ExecInv, FreshOnly, PreStart
  <2>2. hub.state # "canceled"
    BY <2>1 DEF HistoryInv, VerdictInv, Unknown, isTerminalState
  <2>3. ~Executing /\ ExecOf = "idle"
    BY <2>1, <2>2 DEF Executing, ExecOf
  <2>4. started' = 1 /\ wk'.pc = "running" /\ rec'.state = "accepted"
    <3>1. wk \in WorkerType
      BY DEF BridgeTypeOK, WorkerType
    <3> QED
      BY <1>4, <2>1, <3>1 DEF StartRuntime, Goto, WorkerType
  <2>5. Executing' /\ ExecOf' = "running"
    BY <2>4 DEF Executing, ExecOf, isTerminalState
  <2>6. (started > 0) = FALSE /\ (started' > 0) = TRUE
    BY <2>1, <2>4
  <2> QED
    BY <2>3, <2>5, <2>6, <1>3 DEF Lifecycle!Start, ExecOf, VerdictOf
<1>5. CASE ~StartRuntime
  <2>1. started' = started /\ (wk'.pc \in AtWork => wk.pc \in AtWork)
    BY <1>5, ExecutionGoesOn
  <2>2. Executing' => Executing
    BY <2>1, <1>2 DEF Executing, RecordGrows, AtWork
  <2>3. (started' > 0) = (started > 0)
    BY <2>1
  <2>4. CASE Executing /\ ~Executing'
    <3>1. started > 0
      BY <2>4 DEF Executing
    <3>2. ExecOf = "running" /\ ExecOf' = "over"
      BY <2>1, <2>4, <3>1 DEF ExecOf
    <3> QED
      BY <3>2, <1>3, <2>3 DEF Lifecycle!End, ExecOf, VerdictOf
  <2>5. CASE Executing' = Executing
    <3>1. ExecOf' = ExecOf
      BY <2>1, <2>5, <1>1 DEF ExecOf
    <3> QED
      BY <3>1, <1>3, <2>3 DEF Lifecycle!lifecycleVars, ExecOf, VerdictOf
  <2> QED
    BY <2>2, <2>4, <2>5 DEF Executing
<1> QED
  BY <1>4, <1>5

-----------------------------------------------------------------------------
(* Steps of Central *)

\* A handler of Central gives the verdict the abstract Run allows, or none.
LEMMA CentralLifeStep ==
  ASSUME ~Discussion, IInv, HistoryInv, IInv', HistoryInv', Central
  PROVE  \/ Lifecycle!Complete \/ Lifecycle!Cancel \/ Lifecycle!GiveUp
         \/ UNCHANGED Lifecycle!lifecycleVars
<1> USE DEF IInv, TypeOK
<1>1. UNCHANGED bridgeVars /\ Next /\ started \in Nat
  BY DEF Central, Next, BridgeTypeOK
<1>2. Executing' = Executing /\ (started' > 0) = (started > 0)
  BY <1>1 DEF Executing, bridgeVars
<1>3. hub' = hub \/ Continues(hub, hub')
  BY <1>1, CentralContinues
<1>4. CASE hub'.state = hub.state
  <2>1. ExecOf' = ExecOf /\ VerdictOf' = VerdictOf
    BY <1>1, <1>2, <1>4 DEF ExecOf, VerdictOf, bridgeVars
  <2> QED
    BY <1>2, <2>1 DEF Lifecycle!lifecycleVars, ExecOf, VerdictOf
<1>5. CASE hub'.state # hub.state
  <2>1. hub.state \notin terminalStates
    BY <1>3, <1>5 DEF Continues
  <2>2. VerdictOf = "open" /\ hub.state # "canceled"
    BY <2>1 DEF VerdictOf, terminalStates
  <2>3. CASE hub'.state \notin terminalStates
    <3>1. VerdictOf' = "open" /\ hub'.state # "canceled"
      BY <2>3 DEF VerdictOf, terminalStates
    <3>2. ExecOf' = ExecOf
      BY <1>1, <1>2, <2>2, <3>1 DEF ExecOf, bridgeVars
    <3> QED
      BY <1>2, <2>2, <3>1, <3>2 DEF Lifecycle!lifecycleVars, ExecOf, VerdictOf
  <2>4. CASE hub'.state = "completed"
    <3>1. started > 0 /\ rec.state \in isTerminalState
      BY <1>1, <2>4 DEF HistoryInv, VerdictInv, bridgeVars
    <3>2. ~Executing /\ ExecOf = "over"
      BY <3>1 DEF Executing, ExecOf
    <3>3. ExecOf' = "over"
      BY <1>1, <1>2, <3>1, <3>2 DEF ExecOf, bridgeVars
    <3>4. VerdictOf' = "completed"
      BY <2>4 DEF VerdictOf, terminalStates
    <3> QED
      BY <1>2, <2>2, <3>1, <3>2, <3>3, <3>4 DEF Lifecycle!Complete, ExecOf, VerdictOf
  <2>5. CASE hub'.state = "canceled"
    <3>1. ~Executing'
      <4>1. (rec.state \in isTerminalState \/ rec.state = "none")'
        BY <2>5 DEF HistoryInv, VerdictInv, Unknown
      <4> QED
        BY <4>1 DEF Executing, HistoryInv, PositionInv
    <3>2. ExecOf # "running" /\ ExecOf' = "over"
      BY <1>2, <2>5, <3>1 DEF ExecOf
    <3>3. VerdictOf' = "canceled"
      BY <2>5 DEF VerdictOf, terminalStates
    <3> QED
      BY <1>2, <2>2, <3>2, <3>3 DEF Lifecycle!Cancel, ExecOf, VerdictOf
  <2>6. CASE hub'.state \in {"failed", "expired", "outcome_unknown"}
    <3>1. VerdictOf' = hub'.state
      BY <2>6 DEF VerdictOf, terminalStates
    <3>2. ExecOf' = ExecOf
      BY <1>1, <1>2, <2>2, <2>6 DEF ExecOf, bridgeVars
    <3> QED
      BY <1>2, <2>2, <2>6, <3>1, <3>2 DEF Lifecycle!GiveUp, ExecOf, VerdictOf
  <2> QED
    BY <2>3, <2>4, <2>5, <2>6 DEF terminalStates
<1> QED
  BY <1>4, <1>5

-----------------------------------------------------------------------------
(* The refinement *)

\* The queue, the sockets, the inbox and its recovery implement the life of a Run: it
\* begins at most once, is called completed only after it ran and ended, and canceled
\* only when it does not run and never will.
THEOREM LifecycleImplemented ==
  ASSUME ~Discussion
  PROVE  Spec => ImplementsLifecycle
<1>1. Init => Lifecycle!Init
  BY DEF Init, CentralInit, BridgeInit, Idle, Lifecycle!Init, Executing, terminalStates
<1>2. IInv /\ HistoryInv /\ IInv' /\ HistoryInv' /\ [Next]_vars
        => [Lifecycle!Next]_(Lifecycle!lifecycleVars)
  <2>1. ASSUME IInv, HistoryInv, IInv', HistoryInv', Next
        PROVE  Lifecycle!Next \/ UNCHANGED Lifecycle!lifecycleVars
    BY <2>1, BridgeLifeStep, CentralLifeStep DEF Next, Lifecycle!Next
  <2>2. ASSUME UNCHANGED vars
        PROVE  UNCHANGED Lifecycle!lifecycleVars
    BY <2>2 DEF vars, Lifecycle!lifecycleVars, Executing
  <2> QED
    BY <2>1, <2>2
<1> QED
  BY <1>1, <1>2, Invariant, HistoryInvariant, PTL DEF Spec, ImplementsLifecycle, Lifecycle!Spec

-----------------------------------------------------------------------------
(* No gap: Central never meets one on a connection the Bridge keeps        *)
(*                                                                         *)
(* Each message continues Central's log or follows, on the same socket, a  *)
(* message with the number before its own.  What the goroutine of the Run  *)
(* will write next depends on its position: the number before it has to be *)
(* in the log or on its way already.                                       *)

\* Positions behind the run.accepted of this connection.
AfterAck == {"dup", "start1", "gate", "start2", "start", "running", "emit", "sendLast",
             "finish", "cancelAfter", "sendTerminal"}

\* Central, with rows h, takes the messages of q one after the other without a gap.
Chained(q, h) ==
  \A i \in 1 .. Len(q) :
    q[i].seq > 1 => \/ Terminal(h)
                    \/ q[i].seq <= Len(h.log) + 1
                    \/ \E j \in 1 .. i - 1 : q[j].seq = q[i].seq - 1

\* Central, with rows h, has the event numbered n or will have it after q.
Covers(q, h, n) ==
  Terminal(h) \/ n <= Len(h.log) \/ \E i \in 1 .. Len(q) : q[i].seq = n

\* What the goroutine w of a Run with the record r may send next follows number n.
Needs(w, r, n) ==
  \/ n = 1 /\ w.pc \in AfterAck
  \/ n = 1 /\ w.pc \in {"idle", "clear", "return"} /\ r.state \notin {"none", "preparing"}
  \/ n = Len(r.ev) + 1 /\ w.pc = "running"
  \/ n = Len(r.ev) /\ w.pc \in {"emit", "sendLast"}

Connected == conn = "up" /\ sk[epoch] \in LiveSocket

NoGap(q, h, w, r) ==
  /\ Chained(q, h)
  /\ \A n \in Nat \ {0} : Needs(w, r, n) => Covers(q, h, n)

GapInv ==
  /\ conn # "down" => epoch # 0
  /\ Connected => NoGap(up[epoch], hub, wk, rec)

\* The registered connection is one the Bridge has made and Central has not seen close.
RegistryInv ==
  /\ \A e \in Epochs : sk[e] # "none" => e <= epoch
  /\ reg # 0 => sk[reg] \in {"registered", "draining"}

-----------------------------------------------------------------------------
(* The registry *)

\* Every step keeps the registry's invariant.
LEMMA RegistryStep ==
  ASSUME IInv, RegistryInv, Next
  PROVE  RegistryInv'
<1> USE DEF IInv, TypeOK
<1>1. /\ epoch \in 0 .. MaxEpoch /\ reg \in 0 .. MaxEpoch /\ sk \in [Epochs -> SocketState]
      /\ reg # 0 => reg \in Epochs /\ reg <= epoch /\ sk[reg] # "open"
  <2>1. /\ epoch \in 0 .. MaxEpoch /\ reg \in 0 .. MaxEpoch /\ sk \in [Epochs -> SocketState]
    BY DEF SocketTypeOK
  <2>2. reg # 0 => reg \in Epochs
    BY <2>1, EpochAssumption DEF Epochs
  <2> QED
    BY <2>1, <2>2 DEF RegistryInv
<1>2. CASE UNCHANGED <<sk, reg, epoch>>
  BY <1>2 DEF RegistryInv
<1>3. CASE Dial
  <2>1. epoch' = epoch + 1 /\ sk' = [sk EXCEPT ![epoch'] = "open"] /\ reg' = reg
    BY <1>3 DEF Dial, Connect
  <2>2. reg # epoch'
    BY <1>1, <2>1
  <2>3. reg # 0 => sk'[reg] = sk[reg]
    BY <1>1, <2>1, <2>2
  <2>4. ASSUME NEW e \in Epochs, sk'[e] # "none" PROVE e <= epoch'
    <3>1. CASE e = epoch'
      BY <3>1, EpochAssumption DEF Epochs
    <3>2. CASE e # epoch'
      BY <1>1, <2>1, <2>4, <3>2 DEF RegistryInv, Epochs
    <3> QED
      BY <3>1, <3>2
  <2> QED
    BY <2>1, <2>3, <2>4 DEF RegistryInv
<1>4. ASSUME NEW e \in Epochs, SeesClose(e)
      PROVE  RegistryInv'
  <2>1. /\ sk' = [sk EXCEPT ![e] = "closed"] /\ reg' = (IF reg = e THEN 0 ELSE reg)
        /\ epoch' = epoch /\ sk[e] # "none"
    BY <1>4 DEF SeesClose, LiveSocket
  <2> QED
    BY <1>1, <2>1 DEF RegistryInv
<1>5. CASE Revoke
  BY <1>1, <1>5 DEF Revoke, RegistryInv
<1>6. CASE CentralRestart
  BY <1>1, <1>6 DEF CentralRestart, RegistryInv, LiveSocket
<1>7. ASSUME NEW e \in Epochs, ReceiveHello(e)
      PROVE  RegistryInv'
  <2>1. sk[e] = "open" /\ e <= epoch /\ epoch' = epoch
    BY <1>7 DEF ReceiveHello, RegistryInv
  <2>2. CASE reg >= e
    BY <1>1, <1>7, <2>1, <2>2 DEF ReceiveHello, RegistryInv
  <2>3. CASE ~(reg >= e)
    <3>1. /\ reg' = e
          /\ sk' = [f \in Epochs |-> IF f = e THEN "registered"
                                      ELSE IF f = reg THEN "draining" ELSE sk[f]]
      BY <1>7, <2>3 DEF ReceiveHello
    <3>2. sk'[e] = "registered"
      BY <3>1
    <3>3. \A f \in Epochs : sk'[f] # "none" => f <= epoch
      BY <1>1, <2>1, <3>1 DEF RegistryInv
    <3> QED
      BY <2>1, <3>1, <3>2, <3>3 DEF RegistryInv
  <2> QED
    BY <2>2, <2>3
<1>8. ASSUME NEW e \in Epochs, ReceiveRunMessage(e)
      PROVE  RegistryInv'
  <2>1. /\ sk[e] # "none" /\ UNCHANGED <<reg, epoch>>
        /\ sk' = [sk EXCEPT ![e] = "draining"] \/ sk' = sk
    BY <1>8 DEF ReceiveRunMessage
  <2> QED
    BY <1>1, <2>1 DEF RegistryInv
<1>9. CASE \/ DispatchRun \/ ExpireQueued \/ CancelRun \/ CancellationSweep \/ Heartbeat
           \/ CloseClarification \/ WaveDeadline
  <2>1. UNCHANGED <<sk, reg, epoch>>
    BY <1>9 DEF DispatchRun, ExpireQueued, CancelRun, CancellationSweep, Heartbeat,
                CloseClarification, WaveDeadline, socketVars
  <2> QED
    BY <1>2, <2>1
<1>10. CASE Drop \/ (CancelConnection /\ UNCHANGED bridgeVars) \/ CloseComplete \/ BridgeCrash
            \/ ReaderStep
  <2>1. UNCHANGED <<sk, reg, epoch>>
    BY <1>10 DEF Drop, CancelConnection, CloseComplete, BridgeCrash, ReaderStep, ReadRequest,
                 ReadCancelActive, StageCancellation, FinishStaging, ReadCancelInactive,
                 Reads, socketVars
  <2> QED
    BY <1>2, <2>1
<1>11. CASE WorkerStep \/ WorkerMishap
  <2>1. UNCHANGED <<sk, reg, epoch>>
    <3>1. ASSUME NEW ms, NEW p, Report(ms, p) \/ ContextReport(ms, p) \/ Write(ms, p)
          PROVE  UNCHANGED <<sk, reg, epoch>>
      BY <3>1 DEF Report, ContextReport, Write, WriteFails, Internal
    <3>2. CASE \/ SendFailed \/ SendAccepted \/ ReplayDuplicate \/ SendLast \/ SendEvent
               \/ SendCanceled
      BY <3>1, <3>2 DEF SendFailed, SendAccepted, ReplayDuplicate, SendLast, SendEvent,
                        SendCanceled
    <3>3. CASE \/ Admit \/ CheckBeforePreparation \/ Prepare \/ CheckBeforeAcceptance
               \/ FailMaterialization \/ CheckBeforeGate \/ AcquireGate \/ CheckBeforeStart
               \/ RefuseStart \/ StartRuntime \/ RuntimeEvent \/ RuntimeError
               \/ EventSendFails \/ ReleaseFence \/ PersistCanceled \/ ClearCancellation
               \/ Leave \/ WorkerMishap
      BY <3>3 DEF Admit, CheckBeforePreparation, Prepare, CheckBeforeAcceptance,
               FailMaterialization, CheckBeforeGate, AcquireGate, CheckBeforeStart, RefuseStart,
               StartRuntime, RuntimeEvent, RuntimeError, EventSendFails, ReleaseFence,
               PersistCanceled, ClearCancellation, Leave, WorkerMishap, PrepareRetryable,
               LeaveGate, BeforeStartFails, Internal
    <3> QED
      BY <1>11, <3>2, <3>3 DEF WorkerStep
  <2> QED
    BY <1>2, <2>1
<1> QED
  BY <1>3, <1>4, <1>5, <1>6, <1>7, <1>8, <1>9, <1>10, <1>11
     DEF Next, Central, CentralNext, Bridge, BridgeNext, Break

-----------------------------------------------------------------------------
(* Queues *)

\* Messages are numbered.
LEMMA Numbered ==
  ASSUME NEW q \in Seq(UpMessage), NEW i \in 1 .. Len(q)
  PROVE  q[i].seq \in Nat
<1>1. q[i] \in UpMessage
  OBVIOUS
<1> QED
  BY <1>1 DEF UpMessage

\* Rows that continue others have what those have.
LEMMA ContinuedQueue ==
  ASSUME NEW q \in Seq(UpMessage), NEW h \in Hub, NEW g \in Hub, Continues(h, g)
  PROVE  /\ Chained(q, h) => Chained(q, g)
         /\ \A n \in Nat : Covers(q, h, n) => Covers(q, g, n)
<1>1. /\ Len(h.log) \in Nat /\ Len(g.log) \in Nat /\ Len(h.log) <= Len(g.log)
      /\ Terminal(h) => Terminal(g)
  BY DEF Hub, Continues, IsPrefixOf, Terminal
<1>2. \A i \in 1 .. Len(q) : q[i].seq \in Nat
  BY Numbered
<1>3. Chained(q, h) => Chained(q, g)
  BY <1>1, <1>2 DEF Chained
<1> QED
  BY <1>1, <1>3 DEF Covers

\* Messages that follow what is covered, or each other, extend a queue.
LEMMA ExtendedQueue ==
  ASSUME NEW q \in Seq(UpMessage), NEW ms \in Seq(UpMessage), NEW h \in Hub, Chained(q, h),
         \A i \in 1 .. Len(ms) :
           ms[i].seq > 1 => \/ Covers(q, h, ms[i].seq - 1)
                            \/ \E j \in 1 .. i - 1 : ms[j].seq = ms[i].seq - 1
  PROVE  /\ Chained(q \o ms, h)
         /\ \A n \in Nat : Covers(q, h, n) => Covers(q \o ms, h, n)
         /\ \A i \in 1 .. Len(ms) : Covers(q \o ms, h, ms[i].seq)
<1> DEFINE t == q \o ms
<1>1. /\ t \in Seq(UpMessage) /\ Len(t) = Len(q) + Len(ms)
      /\ Len(q) \in Nat /\ Len(ms) \in Nat /\ Len(h.log) \in Nat
      /\ \A i \in 1 .. Len(q) : t[i] = q[i]
      /\ \A i \in 1 .. Len(ms) : t[Len(q) + i] = ms[i]
  BY DEF Hub
<1>2. \A i \in 1 .. Len(t) : t[i].seq \in Nat
  BY <1>1, Numbered
<1> HIDE DEF t
<1>3. ASSUME NEW n \in Nat, Covers(q, h, n) PROVE Covers(t, h, n)
  BY <1>1, <1>3 DEF Covers
<1>4. ASSUME NEW i \in 1 .. Len(ms) PROVE Covers(t, h, ms[i].seq)
  <2>1. Len(q) + i \in 1 .. Len(t) /\ t[Len(q) + i].seq = ms[i].seq
    BY <1>1
  <2> QED
    BY <2>1 DEF Covers
<1>5. ASSUME NEW i \in 1 .. Len(t), t[i].seq > 1
      PROVE  \/ Terminal(h) \/ t[i].seq <= Len(h.log) + 1
             \/ \E j \in 1 .. i - 1 : t[j].seq = t[i].seq - 1
  <2>1. CASE i \in 1 .. Len(q)
    <3>1. t[i] = q[i] /\ \A j \in 1 .. i - 1 : t[j] = q[j]
      BY <1>1, <2>1
    <3>2. \/ Terminal(h) \/ q[i].seq <= Len(h.log) + 1
          \/ \E j \in 1 .. i - 1 : q[j].seq = q[i].seq - 1
      BY <1>5, <2>1, <3>1 DEF Chained
    <3> QED
      BY <3>1, <3>2
  <2>2. CASE i \notin 1 .. Len(q)
    <3>1. i - Len(q) \in 1 .. Len(ms) /\ t[i] = ms[i - Len(q)]
      <4>1. i - Len(q) \in 1 .. Len(ms) /\ i = Len(q) + (i - Len(q))
        BY <1>1, <2>2
      <4> QED
        BY <1>1, <4>1
    <3>2. CASE Covers(q, h, t[i].seq - 1)
      <4>1. CASE t[i].seq - 1 <= Len(h.log)
        BY <1>1, <1>2, <4>1
      <4>2. CASE \E j \in 1 .. Len(q) : q[j].seq = t[i].seq - 1
        <5>1. PICK j \in 1 .. Len(q) : q[j].seq = t[i].seq - 1
          BY <4>2
        <5>2. j \in 1 .. i - 1 /\ t[j] = q[j]
          BY <1>1, <2>2
        <5> QED
          BY <5>1, <5>2
      <4> QED
        BY <3>2, <4>1, <4>2 DEF Covers
    <3>3. CASE \E j \in 1 .. i - Len(q) - 1 : ms[j].seq = t[i].seq - 1
      <4>1. PICK j \in 1 .. i - Len(q) - 1 : ms[j].seq = t[i].seq - 1
        BY <3>3
      <4>2. Len(q) + j \in 1 .. i - 1 /\ j \in 1 .. Len(ms)
        BY <1>1, <3>1
      <4>3. t[Len(q) + j].seq = t[i].seq - 1
        BY <1>1, <4>1, <4>2
      <4> QED
        BY <4>2, <4>3
    <3> QED
      BY <1>5, <3>1, <3>2, <3>3
  <2> QED
    BY <2>1, <2>2
<1>6. Chained(t, h)
  BY <1>5 DEF Chained
<1> QED
  BY <1>3, <1>4, <1>6 DEF t

\* The first message leaves the queue when Central has what it carried.
LEMMA ShortenedQueue ==
  ASSUME NEW q \in Seq(UpMessage), q # << >>, NEW h \in Hub,
         Chained(q, h), Terminal(h) \/ Head(q).seq <= Len(h.log)
  PROVE  /\ Chained(Tail(q), h)
         /\ \A n \in Nat \ {0} : Covers(q, h, n) => Covers(Tail(q), h, n)
<1> DEFINE t == Tail(q)
<1>1. /\ t \in Seq(UpMessage) /\ Len(t) = Len(q) - 1 /\ Len(q) \in Nat \ {0}
      /\ Len(h.log) \in Nat /\ Head(q) = q[1]
      /\ \A i \in 1 .. Len(t) : t[i] = q[i + 1]
  BY DEF Hub
<1>2. \A i \in 1 .. Len(q) : q[i].seq \in Nat
  BY Numbered
<1> HIDE DEF t
<1>3. ASSUME NEW n \in Nat \ {0}, Covers(q, h, n) PROVE Covers(t, h, n)
  <2>1. CASE \E i \in 1 .. Len(q) : q[i].seq = n
    <3>1. PICK i \in 1 .. Len(q) : q[i].seq = n
      BY <2>1
    <3>2. CASE i = 1
      BY <1>1, <3>1, <3>2 DEF Covers
    <3>3. CASE i # 1
      <4>1. i - 1 \in 1 .. Len(t) /\ t[i - 1] = q[i]
        BY <1>1, <3>3
      <4> QED
        BY <3>1, <4>1 DEF Covers
    <3> QED
      BY <3>2, <3>3
  <2> QED
    BY <1>3, <2>1 DEF Covers
<1>4. ASSUME NEW i \in 1 .. Len(t), t[i].seq > 1
      PROVE  \/ Terminal(h) \/ t[i].seq <= Len(h.log) + 1
             \/ \E j \in 1 .. i - 1 : t[j].seq = t[i].seq - 1
  <2>1. i + 1 \in 1 .. Len(q) /\ t[i] = q[i + 1]
    BY <1>1
  <2>2. CASE \E j \in 1 .. i : q[j].seq = t[i].seq - 1
    <3>1. PICK j \in 1 .. i : q[j].seq = t[i].seq - 1
      BY <2>2
    <3>2. CASE j = 1
      BY <1>1, <1>2, <2>1, <3>1, <3>2
    <3>3. CASE j # 1
      <4>1. j - 1 \in 1 .. Len(t) /\ j - 1 \in 1 .. i - 1 /\ t[j - 1] = q[j]
        BY <1>1, <3>3
      <4> QED
        BY <3>1, <4>1
    <3> QED
      BY <3>2, <3>3
  <2>3. (i + 1) - 1 = i
    BY <1>1
  <2> QED
    BY <1>4, <2>1, <2>2, <2>3 DEF Chained
<1>5. Chained(t, h)
  BY <1>4 DEF Chained
<1> QED
  BY <1>3, <1>5 DEF t

-----------------------------------------------------------------------------
(* What the Bridge writes *)

\* Each message of ms follows another one of them, or what w and r vouch for.
Follows(ms, w, r) ==
  \A i \in 1 .. Len(ms) :
    ms[i].seq > 1 => \/ Needs(w, r, ms[i].seq - 1)
                     \/ \E j \in 1 .. i - 1 : ms[j].seq = ms[i].seq - 1

\* The messages of a record, with and without the run.accepted before them.
LEMMA RecordFollows ==
  ASSUME NEW r \in RecordType, NEW w
  PROVE  /\ Follows(<<Accepted>> \o Events(r), w, r)
         /\ Needs(w, r, 1) => Follows(Events(r), w, r)
         /\ Follows(<<Accepted>>, w, r)
         /\ Follows(<<TombstoneStatus>>, w, r)
         /\ Len(<<Accepted>> \o Events(r)) > 0 /\ (<<Accepted>> \o Events(r))[1].seq = 1
<1>1. Len(r.ev) \in Nat /\ Len(Events(r)) = Len(r.ev) /\ Events(r) \in Seq(UpMessage)
  BY EventsType DEF RecordType
<1>2. \A i \in 1 .. Len(r.ev) : Events(r)[i].seq = i + 1
  BY DEF Events
<1> DEFINE t == <<Accepted>> \o Events(r)
<1>3. /\ Len(t) = Len(r.ev) + 1 /\ t[1] = Accepted
      /\ \A i \in 1 .. Len(r.ev) : t[i + 1] = Events(r)[i]
  BY <1>1
<1> HIDE DEF t
<1>4. \A i \in 1 .. Len(t) : t[i].seq = i
  <2>1. SUFFICES ASSUME NEW i \in 1 .. Len(t) PROVE t[i].seq = i
    OBVIOUS
  <2>2. CASE i = 1
    BY <1>3, <2>2 DEF Accepted
  <2>3. CASE i # 1
    <3>1. i - 1 \in 1 .. Len(r.ev) /\ i = (i - 1) + 1
      BY <1>1, <1>3, <2>3
    <3> QED
      BY <1>2, <1>3, <3>1
  <2> QED
    BY <2>2, <2>3
<1>5. Follows(t, w, r)
  <2>1. SUFFICES ASSUME NEW i \in 1 .. Len(t), t[i].seq > 1
                 PROVE  \E j \in 1 .. i - 1 : t[j].seq = t[i].seq - 1
    BY DEF Follows
  <2>2. i - 1 \in 1 .. i - 1 /\ i - 1 \in 1 .. Len(t)
    BY <1>1, <1>3, <1>4, <2>1
  <2> QED
    BY <1>4, <2>2
<1>6. ASSUME Needs(w, r, 1) PROVE Follows(Events(r), w, r)
  <2>1. SUFFICES ASSUME NEW i \in 1 .. Len(r.ev), i # 1
                 PROVE  \E j \in 1 .. i - 1 : Events(r)[j].seq = Events(r)[i].seq - 1
    BY <1>1, <1>2, <1>6 DEF Follows
  <2>2. i - 1 \in 1 .. i - 1 /\ i - 1 \in 1 .. Len(r.ev) /\ (i - 1) + 1 = (i + 1) - 1
    BY <1>1, <2>1
  <2> QED
    BY <1>2, <2>2
<1>7. Follows(<<Accepted>>, w, r) /\ Follows(<<TombstoneStatus>>, w, r)
  BY DEF Follows, Accepted, TombstoneStatus
<1> QED
  BY <1>1, <1>3, <1>4, <1>5, <1>6, <1>7 DEF t

\* A step that writes nothing, and asks for nothing new to be covered.
LEMMA SilentGap ==
  ASSUME GapInv, UNCHANGED <<epoch, sk, up, hub>>, conn' = "up" => conn = "up",
         conn' # "down" => conn # "down",
         conn' = "up" => \A n \in Nat \ {0} : Needs(wk', rec', n) => Needs(wk, rec, n)
  PROVE  GapInv'
<1>1. Connected' => Connected /\ conn' = "up"
  BY DEF Connected
<1> QED
  BY <1>1 DEF GapInv, NoGap

\* A goroutine that writes messages that follow each other.
LEMMA WriteGap ==
  ASSUME IInv, GapInv, NEW ms \in Seq(UpMessage), Follows(ms, wk, rec), NEW p,
         Report(ms, p) \/ ContextReport(ms, p) \/ Write(ms, p), UNCHANGED hub,
         \A n \in Nat \ {0} : Needs([wk EXCEPT !.pc = p], rec, n)
             => Needs(wk, rec, n) \/ \E i \in 1 .. Len(ms) : ms[i].seq = n
  PROVE  GapInv'
<1> USE DEF IInv, TypeOK
<1>1. /\ UNCHANGED <<rec, tomb, staging, started>> /\ UNCHANGED <<epoch, sk>>
      /\ \/ wk' = [wk EXCEPT !.pc = p] /\ UNCHANGED conn /\ up' = Written(ms)
         \/ conn' # "up" /\ (conn = "down" => conn' = "down")
  BY DEF ContextReport, Report, Write, WriteFails, Return, Goto, Ends, Internal
<1>2. CASE conn' # "up"
  <2>1. conn' # "down" => conn # "down"
    BY <1>1, <1>2
  <2> QED
    BY <1>1, <1>2, <2>1 DEF GapInv, Connected
<1>3. CASE wk' = [wk EXCEPT !.pc = p] /\ UNCHANGED conn /\ up' = Written(ms)
  <2>1. SUFFICES ASSUME Connected PROVE NoGap(up'[epoch], hub, wk', rec)
    BY <1>1, <1>3 DEF GapInv, Connected
  <2>2. epoch \in Epochs /\ hub \in Hub /\ up \in [Epochs -> Seq(UpMessage)]
    BY <2>1, EpochAssumption DEF GapInv, Connected, SocketTypeOK, CentralTypeOK, Epochs
  <2> DEFINE q == up[epoch]
  <2>3. q \in Seq(UpMessage) /\ up'[epoch] = q \o ms
    BY <1>3, <2>1, <2>2 DEF Written, Connected
  <2>4. Chained(q, hub) /\ \A n \in Nat \ {0} : Needs(wk, rec, n) => Covers(q, hub, n)
    BY <2>1 DEF GapInv, NoGap
  <2> HIDE DEF q
  <2>5. \A i \in 1 .. Len(ms) :
           ms[i].seq > 1 => \/ Covers(q, hub, ms[i].seq - 1)
                            \/ \E j \in 1 .. i - 1 : ms[j].seq = ms[i].seq - 1
    <3>1. SUFFICES ASSUME NEW i \in 1 .. Len(ms), ms[i].seq > 1, Needs(wk, rec, ms[i].seq - 1)
                   PROVE  Covers(q, hub, ms[i].seq - 1)
      BY DEF Follows
    <3>2. ms[i].seq - 1 \in Nat \ {0}
      BY <3>1, Numbered
    <3> QED
      BY <2>4, <3>1, <3>2
  <2>6. /\ Chained(q \o ms, hub)
        /\ \A n \in Nat : Covers(q, hub, n) => Covers(q \o ms, hub, n)
        /\ \A i \in 1 .. Len(ms) : Covers(q \o ms, hub, ms[i].seq)
    BY <2>2, <2>3, <2>4, <2>5, ExtendedQueue
  <2>7. \A n \in Nat \ {0} : Needs(wk', rec, n) => Covers(q \o ms, hub, n)
    BY <1>3, <2>4, <2>6
  <2> QED
    BY <2>3, <2>6, <2>7 DEF NoGap
<1> QED
  BY <1>1, <1>2, <1>3

-----------------------------------------------------------------------------
(* Steps of the Bridge *)

\* A goroutine that moves to another position and writes nothing.
LEMMA WorkerGapStep ==
  ASSUME IInv, HistoryInv, FenceInv, GapInv, WorkerStep \/ WorkerMishap, UNCHANGED hub
  PROVE  GapInv'
<1> USE DEF IInv, TypeOK
<1>1. /\ wk \in WorkerType /\ rec \in RecordType /\ Len(rec.ev) \in Nat
      /\ rec.ev \in Seq(EventKind)
  BY DEF BridgeTypeOK, WorkerType, RecordType
<1>2. ASSUME NEW p \in Step PROVE [wk EXCEPT !.pc = p].pc = p
  BY <1>1 DEF WorkerType
<1>3. ASSUME Internal, conn' = conn \/ conn' = "failing", conn # "down",
             conn' = "up" => \A n \in Nat \ {0} : Needs(wk', rec', n) => Needs(wk, rec, n)
      PROVE  GapInv'
  BY <1>3, SilentGap DEF Internal
<1>4. wk.pc # "idle" => conn # "down"
  BY DEF ExecInv, Idle
<1>5. rec.state = "accepted" => rec.ev = << >> /\ Len(rec.ev) = 0
  BY DEF HistoryInv, RecordInv
<1>6. CASE Admit \/ CheckBeforePreparation \/ Prepare \/ PrepareRetryable
  <2>1. /\ Internal /\ conn # "down" /\ (conn' = conn \/ conn' = "failing")
    BY <1>4, <1>6 DEF Admit, CheckBeforePreparation, Prepare, PrepareRetryable, At, Return,
                      Ends
  <2>2. conn' = "up" => wk'.pc \in {"check1", "cancel", "prepare", "check2"}
    BY <1>1, <1>6 DEF Admit, CheckBeforePreparation, Prepare, PrepareRetryable, Goto, Return,
                      Ends, WorkerType
  <2> QED
    BY <1>3, <2>1, <2>2 DEF Needs, AfterAck
<1>7. CASE CheckBeforeAcceptance \/ FailMaterialization
  <2>1. Internal /\ conn # "down" /\ conn' = conn
    BY <1>4, <1>7 DEF CheckBeforeAcceptance, FailMaterialization, At
  <2>2. wk'.pc \in {"cancel", "prepFail", "ack", "sendFailed"}
    BY <1>1, <1>7 DEF CheckBeforeAcceptance, FailMaterialization, Goto, WorkerType
  <2> QED
    BY <1>3, <2>1, <2>2 DEF Needs, AfterAck
<1>8. CASE CheckBeforeGate \/ AcquireGate \/ LeaveGate \/ CheckBeforeStart
  <2>1. Internal /\ conn # "down" /\ conn' = conn /\ rec' = rec
    BY <1>4, <1>8 DEF CheckBeforeGate, AcquireGate, LeaveGate, CheckBeforeStart, At
  <2>2. wk.pc \in AfterAck
    BY <1>8 DEF CheckBeforeGate, AcquireGate, LeaveGate, CheckBeforeStart, At, AfterAck
  <2>3. wk'.pc \in {"cancelAfter", "gate", "start2", "return", "start"}
    BY <1>1, <1>8 DEF CheckBeforeGate, AcquireGate, LeaveGate, CheckBeforeStart, Goto,
                      WorkerType
  <2> QED
    BY <1>3, <2>1, <2>2, <2>3 DEF Needs
<1>9. CASE BeforeStartFails
  <2>1. Internal /\ conn # "down" /\ (conn' = conn \/ conn' = "failing") /\ conn' # "up"
    BY <1>4, <1>9 DEF BeforeStartFails, At, Return, Ends
  <2> QED
    BY <1>3, <2>1
<1>10. CASE RefuseStart \/ StartRuntime
  <2>1. Internal /\ conn # "down" /\ conn' = conn /\ wk.pc = "start"
    BY <1>4, <1>10 DEF RefuseStart, StartRuntime, At
  <2>2. rec.state = "accepted"
    BY <2>1 DEF ExecInv, PreStart, FreshOnly
  <2>3. \/ wk'.pc = "sendLast" /\ Len(rec'.ev) = 1
        \/ wk'.pc = "running" /\ Len(rec'.ev) = 0
    <3>1. CASE RefuseStart
      <4>1. PICK k : rec' = AppendEvent(rec, k)
        BY <3>1 DEF RefuseStart
      <4>2. Len(rec'.ev) = 1
        BY <1>5, <2>2, <4>1 DEF AppendEvent
      <4> QED
        BY <1>1, <3>1, <4>2 DEF RefuseStart, Goto, WorkerType
    <3>2. CASE StartRuntime
      BY <1>1, <1>5, <2>2, <3>2 DEF StartRuntime, Goto, WorkerType
    <3> QED
      BY <1>10, <3>1, <3>2
  <2>4. ASSUME NEW n \in Nat \ {0}, Needs(wk', rec', n) PROVE n = 1
    <3>1. CASE wk'.pc = "sendLast" /\ Len(rec'.ev) = 1
      BY <2>4, <3>1 DEF Needs
    <3>2. CASE wk'.pc = "running" /\ Len(rec'.ev) = 0
      BY <2>4, <3>2 DEF Needs
    <3> QED
      BY <2>3, <3>1, <3>2
  <2>5. Needs(wk, rec, 1)
    BY <2>1 DEF Needs, AfterAck
  <2> QED
    BY <1>3, <2>1, <2>4, <2>5
<1>11. CASE RuntimeEvent \/ RuntimeError
  <2>1. Internal /\ conn # "down" /\ conn' = conn /\ wk.pc = "running"
    BY <1>4, <1>11 DEF RuntimeEvent, RuntimeError, At
  <2>2. wk'.pc \in {"emit", "sendLast"}
    BY <1>1, <1>11 DEF RuntimeEvent, RuntimeError, Goto, WorkerType
  <2>3. Len(rec'.ev) = Len(rec.ev) + 1
    <3>1. \E k : rec' = AppendEvent(rec, k)
      BY <1>11 DEF RuntimeEvent, RuntimeError
    <3> QED
      BY <1>1, <3>1 DEF AppendEvent
  <2>4. \A n \in Nat \ {0} : Needs(wk', rec', n) => n = 1 \/ n = Len(rec.ev) + 1
    BY <2>2, <2>3 DEF Needs
  <2>5. Needs(wk, rec, 1) /\ Needs(wk, rec, Len(rec.ev) + 1)
    BY <2>1 DEF Needs, AfterAck
  <2> QED
    BY <1>3, <2>1, <2>4, <2>5
<1>12. CASE EventSendFails
  <2>1. Internal /\ conn # "down" /\ (conn' = conn \/ conn' = "failing") /\ conn' # "up"
    BY <1>4, <1>12 DEF EventSendFails, At, Return, Ends
  <2> QED
    BY <1>3, <2>1
<1>13. CASE ReleaseFence \/ PersistCanceled
  <2>1. Internal /\ conn # "down" /\ conn' = conn
    BY <1>4, <1>13 DEF ReleaseFence, PersistCanceled, At
  <2>2. \/ wk.pc \in AfterAck /\ wk'.pc \in {"return", "sendTerminal"}
        \/ wk'.pc = "sendCanceled"
    BY <1>1, <1>13 DEF ReleaseFence, PersistCanceled, At, Goto, WorkerType, AfterAck
  <2> QED
    BY <1>3, <2>1, <2>2 DEF Needs, AfterAck
<1>14. CASE ClearCancellation \/ Leave
  <2>1. Internal /\ conn # "down" /\ conn' = conn /\ rec' = rec
    BY <1>4, <1>14 DEF ClearCancellation, Leave, At, Return, Ends
  <2>2. wk.pc \in {"clear", "return"} /\ wk'.pc \in {"return", "idle"}
    <3>1. CASE ClearCancellation
      BY <1>1, <3>1 DEF ClearCancellation, At, Goto, WorkerType
    <3>2. CASE Leave
      BY <3>2 DEF Leave, At, Return, Idle
    <3> QED
      BY <1>14, <3>1, <3>2
  <2> QED
    BY <1>3, <2>1, <2>2 DEF Needs, AfterAck
<1>15. CASE SendFailed \/ SendAccepted \/ ReplayDuplicate \/ SendEvent \/ SendLast \/ SendCanceled
  <2>1. /\ Events(rec) \in Seq(UpMessage) /\ <<Accepted>> \o Events(rec) \in Seq(UpMessage)
        /\ Len(Events(rec)) = Len(rec.ev)
    BY <1>1, EventsType
  <2>2. <<Accepted>> \in Seq(UpMessage) /\ <<TombstoneStatus>> \in Seq(UpMessage)
    <3>1. Accepted \in UpMessage /\ TombstoneStatus \in UpMessage
      BY DEF Accepted, TombstoneStatus, UpMessage, EventKind, RunState, terminalStates
    <3> QED
      BY <3>1
  <2>3. /\ Follows(<<Accepted>> \o Events(rec), wk, rec)
        /\ Needs(wk, rec, 1) => Follows(Events(rec), wk, rec)
        /\ Follows(<<Accepted>>, wk, rec) /\ Follows(<<TombstoneStatus>>, wk, rec)
        /\ \E i \in 1 .. Len(<<Accepted>> \o Events(rec)) :
             (<<Accepted>> \o Events(rec))[i].seq = 1
    <3>1. 1 \in 1 .. Len(<<Accepted>> \o Events(rec))
      BY <1>1, <2>1, RecordFollows
    <3> QED
      BY <1>1, <3>1, RecordFollows
  <2>4. \E i \in 1 .. Len(<<Accepted>>) : <<Accepted>>[i].seq = 1
    BY DEF Accepted
  <2>5. ASSUME NEW p \in {"return", "start1", "dup", "clear", "finish"}, NEW n \in Nat \ {0},
               Needs([wk EXCEPT !.pc = p], rec, n)
        PROVE  n = 1 /\ (p \in {"return", "clear"} => rec.state # "none")
    BY <2>5, <1>2 DEF Needs, Step, AfterAck
  <2>11. ASSUME NEW ms \in Seq(UpMessage), Follows(ms, wk, rec),
                NEW p \in {"return", "start1", "dup", "clear", "finish"},
                Report(ms, p) \/ ContextReport(ms, p),
                \/ Needs(wk, rec, 1)
                \/ \E i \in 1 .. Len(ms) : ms[i].seq = 1
                \/ p \in {"return", "clear"} /\ rec.state = "none"
         PROVE  GapInv'
    <3>1. \A n \in Nat \ {0} : Needs([wk EXCEPT !.pc = p], rec, n)
             => Needs(wk, rec, n) \/ \E i \in 1 .. Len(ms) : ms[i].seq = n
      BY <2>5, <2>11
    <3> QED
      BY <2>11, <3>1, WriteGap
  <2>6. CASE SendFailed
    BY <2>1, <2>3, <2>6, <2>11 DEF SendFailed
  <2>7. CASE SendAccepted
    <3>1. PICK p \in {"start1", "dup"} : ContextReport(<<Accepted>>, p)
      BY <2>7 DEF SendAccepted
    <3> QED
      BY <2>2, <2>3, <2>4, <2>11, <3>1
  <2>8. CASE ReplayDuplicate
    <3>1. Needs(wk, rec, 1)
      BY <2>8 DEF ReplayDuplicate, At, Needs, AfterAck
    <3> QED
      BY <2>1, <2>3, <2>8, <2>11, <3>1 DEF ReplayDuplicate
  <2>9. CASE SendEvent \/ SendLast
    <3>1. wk.pc \in {"emit", "sendLast"} /\ rec.ev # << >>
      BY <2>9 DEF SendEvent, SendLast, At, ExecInv
    <3> DEFINE ms == <<LastEvent(rec)>>
    <3>2. LastEvent(rec) \in UpMessage /\ LastEvent(rec).seq = Len(rec.ev) + 1
      BY <1>1, <2>1, <3>1 DEF LastEvent, Events
    <3>3. ms \in Seq(UpMessage) /\ Len(ms) = 1 /\ ms[1].seq = Len(rec.ev) + 1 /\ 1 \in 1 .. Len(ms)
      BY <3>2
    <3>4. PICK p \in {"finish", "running"} : Report(ms, p) \/ ContextReport(ms, p) \/ Write(ms, p)
      BY <2>9 DEF SendEvent, SendLast
    <3> HIDE DEF ms
    <3>5. Needs(wk, rec, Len(rec.ev)) /\ Needs(wk, rec, 1)
      BY <3>1 DEF Needs, AfterAck
    <3>6. Follows(ms, wk, rec)
      BY <1>1, <3>3, <3>5 DEF Follows
    <3>7. \A n \in Nat \ {0} : Needs([wk EXCEPT !.pc = p], rec, n)
             => Needs(wk, rec, n) \/ \E i \in 1 .. Len(ms) : ms[i].seq = n
      <4>1. [wk EXCEPT !.pc = p].pc \in {"finish", "running"}
        BY <1>2, <3>4 DEF Step
      <4>2. \A n \in Nat \ {0} : Needs([wk EXCEPT !.pc = p], rec, n) => n = 1 \/ n = Len(rec.ev) + 1
        BY <4>1 DEF Needs
      <4> QED
        BY <3>3, <3>5, <4>2
    <3> QED
      BY <3>3, <3>4, <3>6, <3>7, WriteGap
  <2>10. CASE SendCanceled
    <3>1. CASE At("sendCanceled") /\ Report(<<Accepted>> \o Events(rec), "clear")
      BY <2>1, <2>3, <2>11, <3>1
    <3>2. CASE At("sendTerminal") /\ (Report(Events(rec), "clear") \/ ContextReport(Events(rec), "clear"))
      <4>1. Needs(wk, rec, 1)
        BY <3>2 DEF At, Needs, AfterAck
      <4> QED
        BY <2>1, <2>3, <2>11, <3>2, <4>1
    <3>3. CASE At("preAck") /\ ContextReport(<<TombstoneStatus>>, "clear")
      <4>1. rec.state = "none"
        BY <3>3 DEF At, FenceInv
      <4> QED
        BY <2>2, <2>3, <2>11, <3>3, <4>1
    <3> QED
      BY <2>10, <3>1, <3>2, <3>3 DEF SendCanceled
  <2> QED
    BY <1>15, <2>6, <2>7, <2>8, <2>9, <2>10
<1> QED
  BY <1>6, <1>7, <1>8, <1>9, <1>10, <1>11, <1>12, <1>13, <1>14, <1>15
     DEF WorkerStep, WorkerMishap

\* The reader, the ends of the connection and the process.
LEMMA BridgeGapStep ==
  ASSUME IInv, HistoryInv, FenceInv, GapInv, Bridge \/ Break
  PROVE  GapInv'
<1> USE DEF IInv, TypeOK
<1>1. UNCHANGED hub
  BY DEF Bridge, Break, centralVars
<1>2. CASE WorkerStep \/ WorkerMishap
  BY <1>1, <1>2, WorkerGapStep
<1>3. CASE (CancelConnection /\ UNCHANGED bridgeVars) \/ CloseComplete \/ BridgeCrash
  <2>1. /\ UNCHANGED <<epoch, sk, up>> /\ conn' # "up"
        /\ conn' # "down" => conn # "down"
    BY <1>3 DEF CancelConnection, CloseComplete, BridgeCrash
  <2> QED
    BY <1>1, <2>1, SilentGap
<1>4. CASE ReaderStep
  <2>1. UNCHANGED <<epoch, sk, up, conn, rec>>
    BY <1>4 DEF ReaderStep, ReadRequest, ReadCancelActive, StageCancellation, FinishStaging,
                ReadCancelInactive, Reads, socketVars
  <2>2. wk \in WorkerType
    BY DEF BridgeTypeOK, WorkerType
  <2>3. \/ wk'.pc = wk.pc
        \/ wk'.pc \in {"admit", "preAck", "cancel"}
        \/ wk.pc = "idle" /\ wk'.pc = "sendTerminal" /\ rec.state \in isCancellationTerminalState
    <3>1. CASE ReadRequest
      BY <3>1 DEF ReadRequest, Idle
    <3>2. CASE ReadCancelActive \/ StageCancellation \/ FinishStaging
      BY <2>2, <3>2 DEF ReadCancelActive, StageCancellation, FinishStaging, WorkerType
    <3>3. CASE ReadCancelInactive
      <4>1. wk.pc = "idle"
        BY <3>3 DEF ReadCancelInactive, FenceInv
      <4> QED
        BY <3>3, <4>1 DEF ReadCancelInactive, Idle
    <3> QED
      BY <1>4, <3>1, <3>2, <3>3 DEF ReaderStep
  <2>4. \A n \in Nat \ {0} : Needs(wk', rec', n) => Needs(wk, rec, n)
    BY <2>1, <2>3 DEF Needs, AfterAck, isCancellationTerminalState
  <2> QED
    BY <1>1, <2>1, <2>4, SilentGap
<1>5. CASE Drop /\ UNCHANGED bridgeVars
  <2>1. UNCHANGED <<epoch, sk, up>> /\ conn' = "failing" /\ conn # "down"
    BY <1>5 DEF Drop
  <2> QED
    BY <1>1, <2>1, SilentGap
<1>6. ASSUME NEW e \in Epochs, SeesClose(e), UNCHANGED bridgeVars
      PROVE  GapInv'
  <2>1. UNCHANGED <<epoch, conn, wk, rec>>
    BY <1>6 DEF SeesClose, bridgeVars
  <2>2. Connected' => Connected /\ up'[epoch] = up[epoch]
    <3>1. SUFFICES ASSUME Connected' PROVE Connected /\ up'[epoch] = up[epoch]
      OBVIOUS
    <3>2. epoch \in Epochs /\ sk \in [Epochs -> SocketState] /\ up \in [Epochs -> Seq(UpMessage)]
      BY <2>1, <3>1, EpochAssumption DEF GapInv, Connected, SocketTypeOK, Epochs
    <3>3. e # epoch
      BY <1>6, <2>1, <3>1, <3>2 DEF SeesClose, Connected, LiveSocket
    <3> QED
      BY <1>6, <2>1, <3>1, <3>2, <3>3 DEF SeesClose, Connected
  <2> QED
    BY <1>1, <2>1, <2>2 DEF GapInv
<1> QED
  BY <1>2, <1>3, <1>4, <1>5, <1>6 DEF Bridge, Break, BridgeNext

\* The replay of a new connection starts with run.accepted.
LEMMA DialGapStep ==
  ASSUME IInv, HistoryInv, GapInv, Dial
  PROVE  GapInv'
<1> USE DEF IInv, TypeOK
<1>1. /\ UNCHANGED <<hub, wk>> /\ wk = Idle /\ epoch' = epoch + 1 /\ epoch' \in Epochs
      /\ epoch' # 0 /\ hub \in Hub /\ rec \in RecordType /\ tomb \in BOOLEAN
  BY EpochAssumption DEF Dial, Connect, centralVars, ExecInv, SocketTypeOK, Epochs,
                         CentralTypeOK, BridgeTypeOK, RecordType
<1> DEFINE ms == RecoveryReport(rec, tomb)
<1>2. ms \in Seq(UpMessage) /\ rec' \in RecordType
  <2>1. rec' = rec \/ rec' = Recovered(rec, tomb)
    BY DEF Dial, Connect
  <2> QED
    BY <1>1, <2>1, RecoveredType
<1>3. \/ ms = << >> /\ rec'.state \in {"none", "preparing"}
      \/ ms = <<Accepted>> \o Events(rec')
  <2>1. CASE rec.state = "none"
    BY <2>1 DEF Dial, Connect, RecoveryReport
  <2>2. CASE rec.state = "preparing" /\ ~tomb
    BY <2>2 DEF Dial, Connect, RecoveryReport, Recovered
  <2>3. CASE rec.state # "none" /\ ~(rec.state = "preparing" /\ ~tomb)
    BY <2>3 DEF Dial, Connect, RecoveryReport
  <2> QED
    BY <2>1, <2>2, <2>3
<1>4. up'[epoch'] = <<Hello>> \o ms
  BY <1>1 DEF Dial, Connect, SocketTypeOK
<1>5. <<Hello>> \in Seq(UpMessage) /\ Chained(<<Hello>>, hub)
  <2>1. Hello \in UpMessage
    BY DEF Hello, UpMessage
  <2> QED
    BY <2>1 DEF Chained, Hello
<1> HIDE DEF ms
<1>6. Follows(ms, [Idle EXCEPT !.pc = "admit"], rec')
  <2>1. CASE ms = << >>
    BY <2>1 DEF Follows
  <2>2. CASE ms = <<Accepted>> \o Events(rec')
    BY <1>2, <2>2, RecordFollows
  <2> QED
    BY <1>3, <2>1, <2>2
<1>7. \A i \in 1 .. Len(ms) :
        ms[i].seq > 1 => \E j \in 1 .. i - 1 : ms[j].seq = ms[i].seq - 1
  <2>1. \A n : ~Needs([Idle EXCEPT !.pc = "admit"], rec', n)
    BY DEF Needs, AfterAck, Idle
  <2> QED
    BY <1>6, <2>1 DEF Follows
<1>8. /\ Chained(<<Hello>> \o ms, hub)
      /\ \A i \in 1 .. Len(ms) : Covers(<<Hello>> \o ms, hub, ms[i].seq)
  BY <1>1, <1>2, <1>5, <1>7, ExtendedQueue
<1>9. ASSUME NEW n \in Nat \ {0}, Needs(Idle, rec', n)
      PROVE  Covers(<<Hello>> \o ms, hub, n)
  <2>1. n = 1 /\ rec'.state \notin {"none", "preparing"}
    BY <1>9 DEF Needs, AfterAck, Idle
  <2>2. ms = <<Accepted>> \o Events(rec')
    BY <1>3, <2>1
  <2>3. 1 \in 1 .. Len(ms) /\ ms[1].seq = 1
    <3>1. Len(ms) > 0 /\ ms[1].seq = 1
      BY <1>2, <2>2, RecordFollows
    <3>2. Len(ms) \in Nat
      BY <1>2
    <3> QED
      BY <3>1, <3>2
  <2> QED
    BY <1>8, <2>1, <2>3
<1> QED
  BY <1>1, <1>4, <1>8, <1>9 DEF GapInv, NoGap

-----------------------------------------------------------------------------
(* Steps of Central *)

\* A handler that receives nothing on the Bridge's socket.
LEMMA CentralKeepsGap ==
  ASSUME IInv, GapInv, UNCHANGED <<epoch, conn>>, UNCHANGED bridgeVars, hub' \in Hub,
         hub' = hub \/ Continues(hub, hub'),
         epoch # 0 => (sk'[epoch] \in LiveSocket => sk[epoch] \in LiveSocket /\ up'[epoch] = up[epoch])
  PROVE  GapInv'
<1> USE DEF IInv, TypeOK
<1>1. SUFFICES ASSUME Connected' PROVE NoGap(up'[epoch], hub', wk, rec)
  BY DEF GapInv, bridgeVars, Connected
<1>2. /\ epoch \in Epochs /\ epoch # 0 /\ hub \in Hub /\ up \in [Epochs -> Seq(UpMessage)]
  BY <1>1, EpochAssumption DEF GapInv, Connected, SocketTypeOK, CentralTypeOK, Epochs
<1>3. Connected /\ up'[epoch] = up[epoch] /\ up[epoch] \in Seq(UpMessage)
  BY <1>1, <1>2 DEF Connected
<1>4. NoGap(up[epoch], hub, wk, rec)
  BY <1>3 DEF GapInv
<1>5. CASE hub' = hub
  BY <1>3, <1>4, <1>5
<1>6. CASE Continues(hub, hub')
  BY <1>2, <1>3, <1>4, <1>6, ContinuedQueue DEF NoGap
<1> QED
  BY <1>5, <1>6

\* Central received the first message of the Bridge's socket, and has what it carried.
LEMMA CentralTakesGap ==
  ASSUME IInv, GapInv, UNCHANGED <<epoch, conn>>, UNCHANGED bridgeVars, hub' \in Hub,
         hub' = hub \/ Continues(hub, hub'), epoch \in Epochs, up[epoch] # << >>,
         sk[epoch] \in LiveSocket, up'[epoch] = Tail(up[epoch]),
         Terminal(hub') \/ Head(up[epoch]).seq <= Len(hub'.log)
  PROVE  GapInv'
<1> USE DEF IInv, TypeOK
<1>1. SUFFICES ASSUME Connected' PROVE NoGap(Tail(up[epoch]), hub', wk, rec)
  BY DEF GapInv, bridgeVars, Connected
<1>2. hub \in Hub /\ up[epoch] \in Seq(UpMessage)
  BY DEF SocketTypeOK, CentralTypeOK
<1>3. NoGap(up[epoch], hub, wk, rec)
  BY <1>1 DEF GapInv, Connected
<1>4. NoGap(up[epoch], hub', wk, rec)
  BY <1>2, <1>3, ContinuedQueue DEF NoGap
<1> QED
  BY <1>2, <1>4, ShortenedQueue DEF NoGap

\* Central has what a message that it does not reject carried.
LEMMA ReceivedIsCovered ==
  ASSUME NEW h \in Hub, IntentOK(h), NEW m \in UpMessage, m.kind # "hello", ~Rejects(h, m)
  PROVE  Terminal(ReceiveEvent(h, m)) \/ m.seq <= Len(ReceiveEvent(h, m).log)
<1>1. m.seq \in Nat /\ m.kind \in EventKind /\ Len(h.log) \in Nat
  BY DEF UpMessage, Hub
<1> DEFINE a == applyEvent(h, m.seq, m.kind)
<1>2. a \in Hub /\ (Terminal(a) \/ m.seq <= Len(a.log))
  <2>1. ~SequenceGap(h, m.seq)
    BY DEF Rejects, Accepted
  <2>2. CASE m.seq <= lastSequence(h) \/ Terminal(h)
    BY <2>2 DEF applyEvent, lastSequence
  <2>3. CASE ~(m.seq <= lastSequence(h) \/ Terminal(h))
    <3>1. m.seq = Len(h.log) + 1
      BY <1>1, <2>1, <2>3 DEF SequenceGap, lastSequence
    <3>2. a.log = Append(h.log, m.kind)
      BY <2>3 DEF applyEvent, Hub
    <3>3. h.log \in Seq(EventKind) /\ Len(a.log) = Len(h.log) + 1
      BY <1>1, <3>2 DEF Hub
    <3> QED
      BY <1>1, <3>1, <3>3, ApplyEventType
  <2> QED
    BY <2>2, <2>3
<1> DEFINE n == IF m = Accepted THEN accept(h) ELSE a
<1>3. n \in Hub /\ (Terminal(n) \/ m.seq <= Len(n.log))
  <2>1. CASE m = Accepted
    <3>1. n = [a EXCEPT !.delivery = "accepted"]
      BY <2>1 DEF accept, Accepted
    <3> HIDE DEF a, n
    <3>2. n \in Hub /\ n.state = a.state /\ n.log = a.log
      BY <1>2, <3>1 DEF Hub
    <3> QED
      BY <1>2, <3>2 DEF Terminal
  <2>2. CASE m # Accepted
    BY <1>2, <2>2
  <2> QED
    BY <2>1, <2>2
<1>4. ReceiveEvent(h, m) = n \/ ReceiveEvent(h, m) = LocalEvent(n, "outcome_unknown")
  BY DEF ReceiveEvent
<1> HIDE DEF n
<1>5. Terminal(LocalEvent(n, "outcome_unknown"))
  <2>1. Len(n.log) \in Nat /\ ~(lastSequence(n) + 1 <= lastSequence(n))
    BY <1>3 DEF Hub, lastSequence
  <2>2. LocalEvent(n, "outcome_unknown").state \in terminalStates
    BY <1>3, <2>1 DEF LocalEvent, applyEvent, Terminal, terminalStates, Hub
  <2> QED
    BY <2>2 DEF Terminal
<1> QED
  BY <1>3, <1>4, <1>5

\* Nothing is asked of the socket of a Bridge that does not know the Run.
LEMMA UnknownHasNoGap ==
  ASSUME IInv, HistoryInv, GapInv, rec.state = "none", UNCHANGED <<epoch, conn>>,
         UNCHANGED bridgeVars, epoch \in Epochs, up[epoch] # << >>, up'[epoch] = Tail(up[epoch])
  PROVE  GapInv'
<1> USE DEF IInv, TypeOK
<1> DEFINE q == up[epoch]
<1>1. /\ q \in Seq(UpMessage) /\ Tail(q) \in Seq(UpMessage) /\ Len(Tail(q)) = Len(q) - 1
      /\ Len(q) \in Nat /\ \A i \in 1 .. Len(Tail(q)) : Tail(q)[i] = q[i + 1]
  BY DEF SocketTypeOK
<1>2. rec.ev = << >> /\ wk.pc \in {"idle", "admit", "preAck", "clear", "return"}
  BY DEF HistoryInv, RecordInv, PositionInv
<1>3. ASSUME NEW i \in 1 .. Len(q) PROVE ~(q[i].seq > 1)
  <2>1. Genuine(q[i], rec, Refused)
    BY <1>3 DEF HistoryInv, WireInv
  <2>2. q[i] \in {Hello, Accepted, TombstoneStatus}
    BY <1>2, <2>1 DEF Genuine
  <2> QED
    BY <2>2 DEF Hello, Accepted, TombstoneStatus
<1> HIDE DEF q
<1>4. Chained(Tail(q), hub')
  <2>1. ASSUME NEW i \in 1 .. Len(Tail(q)) PROVE ~(Tail(q)[i].seq > 1)
    <3>1. i + 1 \in 1 .. Len(q)
      BY <1>1
    <3> QED
      BY <1>1, <1>3, <3>1
  <2> QED
    BY <2>1 DEF Chained
<1>5. \A n : ~Needs(wk, rec, n)
  BY <1>2 DEF Needs, AfterAck
<1> QED
  BY <1>4, <1>5 DEF GapInv, NoGap, Connected, bridgeVars, q

\* Central receives a message of the Run.
LEMMA ReceiveGapStep ==
  ASSUME IInv, HistoryInv, GapInv, UNCHANGED bridgeVars, NEW e \in Epochs,
         ReceiveRunMessage(e), hub' \in Hub, hub' = hub \/ Continues(hub, hub')
  PROVE  GapInv'
<1> USE DEF IInv, TypeOK
<1>1. /\ UNCHANGED <<epoch, conn>> /\ up \in [Epochs -> Seq(UpMessage)]
      /\ sk \in [Epochs -> SocketState] /\ epoch \in 0 .. MaxEpoch /\ hub \in Hub
  BY DEF ReceiveRunMessage, SocketTypeOK, CentralTypeOK
<1>2. CASE e # epoch
  <2>1. epoch # 0 => /\ up'[epoch] = up[epoch]
                     /\ sk'[epoch] = sk[epoch]
    BY <1>1, <1>2, EpochAssumption DEF ReceiveRunMessage, Epochs
  <2> QED
    BY <1>1, <2>1, CentralKeepsGap
<1>3. CASE e = epoch
  <2> DEFINE m == Head(up[e])
  <2>1. /\ up[e] # << >> /\ m.kind # "hello" /\ up'[epoch] = Tail(up[epoch])
        /\ sk[epoch] \in LiveSocket /\ epoch \in Epochs
    BY <1>1, <1>3 DEF ReceiveRunMessage, LiveSocket
  <2>2. /\ up[e] \in Seq(UpMessage) /\ m \in UpMessage /\ m = up[e][1] /\ 1 \in 1 .. Len(up[e])
    BY <1>1, <2>1
  <2>3. Genuine(m, rec, Refused)
    BY <2>2 DEF HistoryInv, WireInv
  <2>4. IF Rejects(hub, m) THEN hub' = hub ELSE hub' = ReceiveEvent(hub, m)
    BY DEF ReceiveRunMessage
  <2> HIDE DEF m
  <2>5. CASE m = TombstoneStatus /\ Refused
    BY <1>1, <2>1, <2>5, <1>3, UnknownHasNoGap DEF Refused, Unknown
  <2>6. CASE conn # "up"
    BY <1>1, <2>6 DEF GapInv, Connected
  <2>7. CASE conn = "up" /\ ~(m = TombstoneStatus /\ Refused)
    <3>1. ~Rejects(hub, m)
      <4>1. m.seq \in Nat /\ Len(hub.log) \in Nat
        BY <1>1, <2>2 DEF UpMessage, Hub
      <4>2. CASE m = Accepted /\ rec.state # "none"
        <5>1. hub.delivery # "none"
          BY <4>2 DEF HistoryInv, CommandInv, Unknown
        <5>2. ~SequenceGap(hub, 1)
          BY <4>1 DEF SequenceGap, lastSequence
        <5> QED
          BY <4>2, <5>1, <5>2 DEF Rejects
      <4>3. CASE m.seq - 1 \in 1 .. Len(rec.ev)
        <5>1. m.seq > 1 /\ m # Accepted
          BY <4>1, <4>3 DEF Accepted
        <5>2. Chained(up[e], hub)
          BY <1>3, <2>1, <2>7 DEF GapInv, Connected, NoGap
        <5>3. Terminal(hub) \/ m.seq <= Len(hub.log) + 1
          <6>1. \/ Terminal(hub) \/ up[e][1].seq <= Len(hub.log) + 1
                \/ \E j \in 1 .. 1 - 1 : up[e][j].seq = up[e][1].seq - 1
            BY <2>2, <5>1, <5>2 DEF Chained
          <6> QED
            BY <2>2, <6>1
        <5>4. ~SequenceGap(hub, m.seq)
          BY <4>1, <5>3 DEF SequenceGap, lastSequence
        <5> QED
          BY <4>1, <5>1, <5>4 DEF Rejects
      <4>4. m # Hello
        BY <2>1 DEF Hello, m
      <4> QED
        BY <2>3, <2>7, <4>2, <4>3, <4>4 DEF Genuine
    <3>2. hub' = ReceiveEvent(hub, m) /\ IntentOK(hub)
      BY <2>4, <3>1 DEF HistoryInv, CommandInv, IntentOK
    <3>3. Terminal(hub') \/ m.seq <= Len(hub'.log)
      BY <1>1, <2>1, <2>2, <3>1, <3>2, ReceivedIsCovered DEF m
    <3> QED
      BY <1>1, <1>3, <2>1, <3>3, CentralTakesGap DEF m
  <2> QED
    BY <2>5, <2>6, <2>7
<1> QED
  BY <1>2, <1>3

\* Central receives the hello of a connection.
LEMMA HelloGapStep ==
  ASSUME IInv, RegistryInv, GapInv, UNCHANGED bridgeVars, NEW e \in Epochs,
         ReceiveHello(e), hub' \in Hub, hub' = hub \/ Continues(hub, hub')
  PROVE  GapInv'
<1> USE DEF IInv, TypeOK
<1>1. /\ UNCHANGED <<epoch, conn>> /\ up \in [Epochs -> Seq(UpMessage)]
      /\ sk \in [Epochs -> SocketState] /\ epoch \in 0 .. MaxEpoch /\ hub \in Hub
  BY DEF ReceiveHello, SocketTypeOK, CentralTypeOK
<1>2. CASE e # epoch
  <2>1. epoch # 0 => /\ up'[epoch] = up[epoch]
                     /\ sk'[epoch] \in LiveSocket => sk[epoch] \in LiveSocket
    <3>1. SUFFICES ASSUME epoch # 0
                   PROVE  /\ up'[epoch] = up[epoch]
                          /\ sk'[epoch] \in LiveSocket => sk[epoch] \in LiveSocket
      OBVIOUS
    <3>2. epoch \in Epochs
      BY <1>1, <3>1, EpochAssumption DEF Epochs
    <3>3. up'[epoch] = up[epoch]
      BY <1>1, <1>2, <3>2 DEF ReceiveHello
    <3>4. sk'[epoch] = sk[epoch] \/ (sk'[epoch] = "draining" /\ reg = epoch)
      BY <1>1, <1>2, <3>2 DEF ReceiveHello
    <3> QED
      BY <3>1, <3>3, <3>4 DEF RegistryInv, LiveSocket
  <2> QED
    BY <1>1, <2>1, CentralKeepsGap
<1>3. CASE e = epoch
  <2>1. up[epoch] # << >> /\ Head(up[epoch]).seq = 0 /\ sk[epoch] \in LiveSocket
    BY <1>3 DEF ReceiveHello, Hello, LiveSocket
  <2>2. CASE reg >= e
    <3>1. sk'[epoch] = "closed"
      BY <1>1, <1>3, <2>2 DEF ReceiveHello
    <3> QED
      BY <1>1, <3>1, CentralKeepsGap DEF LiveSocket
  <2>3. CASE ~(reg >= e)
    <3>1. up'[epoch] = Tail(up[epoch])
      BY <1>1, <1>3, <2>3 DEF ReceiveHello
    <3>2. Head(up[epoch]).seq <= Len(hub'.log)
      BY <2>1 DEF Hub
    <3> QED
      BY <1>1, <1>3, <2>1, <3>1, <3>2, CentralTakesGap
  <2> QED
    BY <2>2, <2>3
<1> QED
  BY <1>2, <1>3

\* Every step of Central keeps the invariant.
LEMMA CentralGapStep ==
  ASSUME IInv, HistoryInv, RegistryInv, GapInv, Central
  PROVE  GapInv'
<1> USE DEF IInv, TypeOK
<1>1. UNCHANGED bridgeVars /\ Next
  BY DEF Central, Next
<1>2. hub' \in Hub /\ (hub' = hub \/ Continues(hub, hub'))
  BY <1>1, CentralContinues, CentralTypeStep DEF CentralTypeOK
<1>3. CASE \/ DispatchRun \/ ExpireQueued \/ CancelRun \/ CancellationSweep \/ Heartbeat
           \/ CloseClarification \/ WaveDeadline
  <2>1. UNCHANGED <<epoch, conn, sk, up>>
    BY <1>3 DEF DispatchRun, ExpireQueued, CancelRun, CancellationSweep, Heartbeat,
                CloseClarification, WaveDeadline, socketVars
  <2> QED
    BY <1>1, <1>2, <2>1, CentralKeepsGap
<1>4. CASE Revoke
  <2>1. UNCHANGED <<epoch, conn, up>> /\ (sk' = sk \/ (reg # 0 /\ sk' = [sk EXCEPT ![reg] = "draining"]))
    BY <1>4 DEF Revoke
  <2>2. sk'[epoch] \in LiveSocket => sk[epoch] \in LiveSocket
    <3>1. CASE reg # 0 /\ sk' = [sk EXCEPT ![reg] = "draining"]
      <4>1. sk[reg] \in LiveSocket
        BY <3>1 DEF RegistryInv, LiveSocket
      <4>2. CASE epoch = reg
        BY <4>1, <4>2
      <4>3. CASE epoch # reg
        BY <3>1, <4>3
      <4> QED
        BY <4>2, <4>3
    <3> QED
      BY <2>1, <3>1
  <2> QED
    BY <1>1, <1>2, <2>1, <2>2, CentralKeepsGap
<1>5. CASE CentralRestart
  <2>1. UNCHANGED <<epoch, conn>>
    BY <1>5 DEF CentralRestart
  <2>2. epoch # 0 => sk'[epoch] \notin LiveSocket
    <3>1. epoch # 0 => epoch \in Epochs
      BY EpochAssumption DEF SocketTypeOK, Epochs
    <3> QED
      BY <1>5, <3>1 DEF CentralRestart, LiveSocket
  <2> QED
    BY <1>1, <1>2, <2>1, <2>2, CentralKeepsGap
<1> QED
  BY <1>1, <1>2, <1>3, <1>4, <1>5, HelloGapStep, ReceiveGapStep DEF Central, CentralNext

-----------------------------------------------------------------------------
(* The theorem *)

\* The invariants hold initially.
LEMMA InitGap ==
  ASSUME Init
  PROVE  RegistryInv /\ GapInv
BY DEF Init, SocketInit, RegistryInv, GapInv, Connected

\* A step that changes nothing preserves them.
LEMMA StutterGap ==
  ASSUME RegistryInv, GapInv, UNCHANGED vars
  PROVE  RegistryInv' /\ GapInv'
BY DEF RegistryInv, GapInv, Connected, NoGap, Chained, Covers, Needs, Terminal, vars

\* Whatever is resent, replayed, recovered or superseded, the next message on the
\* connection the Bridge keeps continues Central's log or repeats a part of it: Central
\* never closes that connection for a "Run event sequence gap".
THEOREM NoGapIsMet == Spec => []NoSequenceGap
<1>1. Init => RegistryInv /\ GapInv
  BY InitGap
<1>2. IInv /\ HistoryInv /\ FenceInv /\ RegistryInv /\ GapInv /\ [Next]_vars
        => RegistryInv' /\ GapInv'
  <2>1. ASSUME IInv, HistoryInv, FenceInv, RegistryInv, GapInv, Next
        PROVE  RegistryInv' /\ GapInv'
    BY <2>1, RegistryStep, CentralGapStep, BridgeGapStep, DialGapStep DEF Next
  <2> QED
    BY <2>1, StutterGap
<1>3. IInv /\ GapInv => NoSequenceGap
  <2>1. SUFFICES ASSUME IInv, GapInv, conn = "up", sk[epoch] \in {"registered", "draining"},
                        up[epoch] # << >>
                 PROVE  ~SequenceGap(hub, Head(up[epoch]).seq)
    BY DEF NoSequenceGap
  <2>2. epoch \in Epochs
    BY <2>1, EpochAssumption DEF IInv, TypeOK, SocketTypeOK, GapInv, Epochs
  <2>3. /\ up[epoch] \in Seq(UpMessage) /\ 1 \in 1 .. Len(up[epoch])
        /\ Head(up[epoch]) = up[epoch][1] /\ Len(hub.log) \in Nat
    BY <2>1, <2>2 DEF IInv, TypeOK, SocketTypeOK, CentralTypeOK, Hub
  <2>4. up[epoch][1].seq \in Nat
    BY <2>3, Numbered
  <2>5. Chained(up[epoch], hub)
    BY <2>1 DEF GapInv, Connected, NoGap, LiveSocket
  <2>6. up[epoch][1].seq > 1 => Terminal(hub) \/ up[epoch][1].seq <= Len(hub.log) + 1
    <3>1. up[epoch][1].seq > 1 =>
            \/ Terminal(hub) \/ up[epoch][1].seq <= Len(hub.log) + 1
            \/ \E j \in 1 .. 1 - 1 : up[epoch][j].seq = up[epoch][1].seq - 1
      BY <2>3, <2>5 DEF Chained
    <3> QED
      BY <3>1
  <2> QED
    BY <2>3, <2>4, <2>6 DEF SequenceGap, lastSequence
<1> QED
  BY <1>1, <1>2, <1>3, Invariant, HistoryInvariant, FenceInvariant, PTL DEF Spec
=============================================================================
