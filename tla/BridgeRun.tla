------------------------------ MODULE BridgeRun ------------------------------
(***************************************************************************)
(* The Bridge's side of one managed Run: the durable inbox record and      *)
(* cancellation tombstone (delivery.Inbox), the recovery before every dial *)
(* (connection.Client.connectOnce, RuntimeExecutor.Recover), the socket    *)
(* reader that starts workers and takes cancellations, and the worker that *)
(* admits, executes and reports the Run (delivery.Handler and              *)
(* delivery.RuntimeExecutor).                                              *)
(*                                                                         *)
(* Reader and worker are goroutines: a step of this module ends at every   *)
(* point where the other one can see or change what it depends on.  The    *)
(* bytes of one report are written in one step; that a connection breaks   *)
(* half way is a socket that loses the rest.                               *)
(***************************************************************************)
EXTENDS BridgeSocket

CONSTANTS
  MaxReplies,   \* bound: content events of one execution
  MaxUp         \* bound: messages in flight to Central when a command is read

ASSUME RepliesAssumption == MaxReplies \in Nat
ASSUME UpAssumption == MaxUp \in Nat

VARIABLES
  rec,      \* durable: the inbox record of the Run
  tomb,     \* durable: a cancellation tombstone of the Run exists
  wk,       \* the goroutine that owns the Run's writes
  staging,  \* the reader is inside StageCancellation
  started   \* history: number of Runtime invocations

bridgeVars == <<rec, tomb, wk, staging, started>>

\* The points at which the worker, or the reader inside ReplayCanceledRun, may be.
Step == {"admit", "check1", "prepare", "check2", "prepFail", "sendFailed", "ack",
         "dup", "start1", "gate", "start2", "start", "running", "emit", "sendLast",
         "finish", "cancel", "sendCanceled", "cancelAfter", "sendTerminal", "preAck",
         "clear", "return"}

\* explicit: the worker's context was canceled with ErrRunCancelRequested.
\* fresh: the record was new, or its preparation never ended.
\* perr: Prepare failed for good.
Idle == [owner |-> "none", pc |-> "idle", fresh |-> FALSE, perr |-> FALSE,
         explicit |-> FALSE]

BridgeTypeOK ==
  /\ rec \in [state : InboxState, ev : Seq(EventKind)]
  /\ tomb \in BOOLEAN
  /\ wk \in [owner : {"none", "worker", "reader"}, pc : Step \cup {"idle"},
             fresh : BOOLEAN, perr : BOOLEAN, explicit : BOOLEAN]
  /\ staging \in {"no", "record", "check"}
  /\ started \in Nat

BridgeInit ==
  /\ rec = [state |-> "none", ev |-> << >>]
  /\ tomb = FALSE
  /\ wk = Idle
  /\ staging = "no"
  /\ started = 0

-----------------------------------------------------------------------------
(* Inbox *)

\* Inbox.Accept gives the record sequence 1; its events are numbered from 2.
Events(r) == [i \in 1 .. Len(r.ev) |-> [seq |-> i + 1, kind |-> r.ev[i]]]

\* Inbox.AppendEvent.
AppendEvent(r, kind) ==
  [state |-> IF kind = "reply" THEN r.state ELSE kind, ev |-> Append(r.ev, kind)]

\* Inbox.TransitionLocalState.
Local(r, s) == [r EXCEPT !.state = s]

\* Seeded defect: a cancellation is appended to an outcome.
CancelQueuedAlways(r) == AppendEvent(r, "canceled")

\* RuntimeExecutor.CancelQueued, up to its send.
CancelQueued(r) ==
  IF r.state \in isCancellationTerminalState THEN r ELSE AppendEvent(r, "canceled")

\* Seeded defect: the fence of a terminal record is kept.
FenceKept(r) == tomb

\* RuntimeExecutor.clearTerminalCancellationFence.
FenceAfter(r) == tomb /\ r.state \notin isCancellationTerminalState

\* Seeded defect: recovery overlooks a record that was accepted and never started.
RecoveredWorkingOnly(r, t) ==
  IF t THEN CancelQueued(r)
  ELSE IF r.state = "working" THEN AppendEvent(r, "outcome_unknown") ELSE r

\* RuntimeExecutor.recover of the record r, under a tombstone if t.
Recovered(r, t) ==
  IF t THEN CancelQueued(r)
  ELSE IF r.state \in {"accepted", "working"} THEN AppendEvent(r, "outcome_unknown")
  ELSE r

\* Seeded defect: the replay of a recovered record omits run.accepted.
RecoveryReportWithoutAccepted(r, t) ==
  IF r.state = "none" \/ (r.state = "preparing" /\ ~t)
  THEN << >>
  ELSE Events(Recovered(r, t))

RecoveryReport(r, t) ==
  IF r.state = "none" \/ (r.state = "preparing" /\ ~t)
  THEN << >>
  ELSE <<Accepted>> \o Events(Recovered(r, t))

-----------------------------------------------------------------------------
(* Connection *)

\* connectOnce: the recovery writes the inbox and collects what to replay, the
\* next epoch is made durable, the socket is dialed; hello, then the replay.
Connect ==
  /\ conn = "down"
  /\ epoch < MaxEpoch
  /\ IF rec.state = "none"
     THEN UNCHANGED <<rec, tomb>>
     ELSE rec' = Recovered(rec, tomb) /\ tomb' = FALSE
  /\ epoch' = epoch + 1
  /\ conn' = "up"
  /\ sk' = [sk EXCEPT ![epoch'] = "open"]
  /\ up' = [up EXCEPT ![epoch'] = <<Hello>> \o RecoveryReport(rec, tomb)]
  /\ down' = << >>
  /\ UNCHANGED <<reg, wk, staging, started>>

\* The deferred wait of connectOnce: the reader and the workers have ended.
CloseComplete ==
  /\ conn = "closing"
  /\ wk = Idle
  /\ staging = "no"
  /\ conn' = "down"
  /\ down' = << >>
  /\ UNCHANGED <<epoch, sk, reg, up, bridgeVars>>

\* The Bridge process dies at any point.
BridgeCrash ==
  /\ MayBreak(epoch)
  /\ conn # "down"
  /\ conn' = "down"
  /\ down' = << >>
  /\ wk' = Idle
  /\ staging' = "no"
  /\ UNCHANGED <<epoch, sk, reg, up, rec, tomb, started>>

-----------------------------------------------------------------------------
(* Reader: the loop over socket.Read *)

\* A worker's error ends the connection; until the socket is closed the reader reads on.
Reads(m) ==
  /\ conn # "down"
  /\ wk.owner # "reader"
  /\ staging = "no"
  /\ Len(up[epoch]) <= MaxUp
  /\ down # << >>
  /\ Head(down) = m
  /\ down' = Tail(down)
  /\ UNCHANGED <<epoch, conn, sk, reg, up, started>>

\* A worker is started unless the Run already has one.
ReadRequest ==
  /\ Reads("run.requested")
  /\ wk' = IF wk.owner = "worker" THEN wk
           ELSE [Idle EXCEPT !.owner = "worker", !.pc = "admit"]
  /\ UNCHANGED <<rec, tomb, staging>>

\* FenceCanceledRun for a Run found active; the worker may end meanwhile.
ReadCancelActive ==
  /\ Reads("run.cancel_requested")
  /\ wk.owner = "worker"
  /\ staging' = "record"
  /\ UNCHANGED <<rec, tomb, wk>>

StageCancellation ==
  /\ staging = "record"
  /\ tomb' = TRUE
  /\ staging' = "check"
  /\ UNCHANGED <<rec, wk, started, socketVars>>

\* The terminal check of StageCancellation, then running.cancel, which changes nothing
\* if the end of the connection has canceled the worker's context before.
FinishStaging ==
  /\ staging = "check"
  /\ tomb' = FenceAfter(rec)
  /\ wk' = [wk EXCEPT !.explicit = @ \/ (wk.owner = "worker" /\ conn # "closing")]
  /\ staging' = "no"
  /\ UNCHANGED <<rec, started, socketVars>>

\* Seeded defect: the cancellation of a Run without a record is not answered.
ReadCancelUnanswered ==
  /\ Reads("run.cancel_requested")
  /\ wk.owner = "none"
  /\ tomb' = (tomb \/ rec.state \notin isCancellationTerminalState)
  /\ wk' = IF rec.state = "none" THEN wk
           ELSE [Idle EXCEPT !.owner = "reader",
                   !.pc = IF rec.state \in isCancellationTerminalState
                          THEN "sendTerminal" ELSE "cancel"]
  /\ UNCHANGED <<rec, staging>>

\* ReplayCanceledRun for a Run without a worker, up to its first send.
ReadCancelInactive ==
  /\ Reads("run.cancel_requested")
  /\ wk.owner = "none"
  /\ tomb' = (tomb \/ rec.state \notin isCancellationTerminalState)
  /\ wk' = [Idle EXCEPT !.owner = "reader",
              !.pc = IF rec.state = "none" THEN "preAck"
                     ELSE IF rec.state \in isCancellationTerminalState
                          THEN "sendTerminal" ELSE "cancel"]
  /\ UNCHANGED <<rec, staging>>

-----------------------------------------------------------------------------
(* Worker: one step of the goroutine that owns the Run *)

At(p) == wk.pc = p

Goto(p) == wk' = [wk EXCEPT !.pc = p]

\* The goroutine returns; an error is reported and ends the connection.
Return(ok) ==
  /\ ok \/ conn # "up" \/ MayBreak(epoch)
  /\ wk' = Idle
  /\ Ends(ok)

Internal == UNCHANGED <<epoch, sk, reg, up, down, staging>>

\* A report is written and the goroutine goes on at p.
Write(msgs, p) ==
  /\ up' = Written(msgs)
  /\ Goto(p)
  /\ UNCHANGED <<conn, epoch, sk, reg, down, rec, tomb, staging, started>>

\* The write fails: the goroutine returns the error.
WriteFails == Return(FALSE) /\ UNCHANGED <<rec, tomb, started>> /\ Internal

\* A report under a context of its own, until the socket is closed.
Report(msgs, p) ==
  \/ Write(msgs, p)
  \/ conn = "closing" /\ WriteFails

\* A report under the context of the connection or of the worker, which an explicit
\* cancellation ends too: it came before the write, which fails, or after it.
ContextReport(msgs, p) ==
  \/ conn # "closing" /\ Write(msgs, p)
  \/ (conn = "closing" \/ wk.explicit) /\ WriteFails

\* Seeded defect: a duplicate of the request is taken for a new one.
AdmitDuplicate ==
  /\ At("admit")
  /\ rec' = IF rec.state = "none" THEN Local(rec, "accepted") ELSE rec
  /\ wk' = [wk EXCEPT !.pc = "check1", !.fresh = TRUE]
  /\ UNCHANGED <<conn, tomb, started>> /\ Internal

\* Handle: Inbox.Accept.
Admit ==
  /\ At("admit")
  /\ rec' = IF rec.state = "none" THEN Local(rec, "accepted") ELSE rec
  /\ wk' = [wk EXCEPT !.pc = "check1", !.fresh = rec.state \in {"none", "preparing"}]
  /\ UNCHANGED <<conn, tomb, started>> /\ Internal

\* Handle: the tombstone is checked before anything is prepared.
CheckBeforePreparation ==
  /\ At("check1")
  /\ IF tomb
     THEN Goto("cancel") /\ UNCHANGED rec
     ELSE /\ Goto("prepare")
          /\ rec' = IF rec.state = "accepted" /\ wk.fresh THEN Local(rec, "preparing") ELSE rec
  /\ UNCHANGED <<conn, tomb, started>> /\ Internal

\* Handle: Prepare ends, for good or with a permanent error.
Prepare ==
  /\ At("prepare")
  /\ rec' = IF rec.state = "preparing" THEN Local(rec, "accepted") ELSE rec
  /\ \E failed \in BOOLEAN : wk' = [wk EXCEPT !.pc = "check2", !.perr = failed]
  /\ UNCHANGED <<conn, tomb, started>> /\ Internal

\* Handle: Prepare ends with a retryable error, which a canceled context causes too.
PrepareRetryable ==
  /\ At("prepare")
  /\ IF wk.explicit
     THEN Goto("cancel") /\ UNCHANGED conn
     ELSE Return(FALSE)
  /\ UNCHANGED <<rec, tomb, started>> /\ Internal

\* Handle: the second check, before run.accepted may be sent.
CheckBeforeAcceptance ==
  /\ At("check2")
  /\ Goto(IF tomb \/ wk.explicit THEN "cancel"
          ELSE IF wk.perr THEN "prepFail" ELSE "ack")
  /\ UNCHANGED <<conn, rec, tomb, started>> /\ Internal

\* FailMaterialization: the failure is persisted and the fence released first.
FailMaterialization ==
  /\ At("prepFail")
  /\ IF rec.state \in isTerminalState
     THEN UNCHANGED <<rec, tomb>>
     ELSE rec' = AppendEvent(rec, "failed") /\ tomb' = FALSE
  /\ Goto("sendFailed")
  /\ UNCHANGED <<conn, started>> /\ Internal

SendFailed ==
  /\ At("sendFailed")
  /\ ContextReport(<<Accepted>> \o Events(rec), "return")

\* Handle: run.accepted; only a fresh record goes on to execution.
SendAccepted ==
  /\ At("ack")
  /\ ContextReport(<<Accepted>>, IF wk.fresh THEN "start1" ELSE "dup")

\* OnDuplicate: RuntimeExecutor.Replay.
ReplayDuplicate ==
  /\ At("dup")
  /\ ContextReport(Events(rec), "return")

\* runNew: the third check, before the execution gate.
CheckBeforeGate ==
  /\ At("start1")
  /\ Goto(IF tomb \/ wk.explicit THEN "cancelAfter" ELSE "gate")
  /\ UNCHANGED <<conn, rec, tomb, started>> /\ Internal

\* runNew: Gate.Acquire; a free gate is taken even under an ended context.
AcquireGate ==
  /\ At("gate")
  /\ Goto("start2")
  /\ UNCHANGED <<conn, rec, tomb, started>> /\ Internal

\* handleQueueExit: the context ended while the Run waited.  Without an explicit
\* cancellation the accepted record is left to the next recovery.
LeaveGate ==
  /\ At("gate")
  /\ conn = "closing" \/ wk.explicit
  /\ Goto(IF wk.explicit THEN "cancelAfter" ELSE "return")
  /\ UNCHANGED <<conn, rec, tomb, started>> /\ Internal

\* runNew: the fourth check, under the gate.
CheckBeforeStart ==
  /\ At("start2")
  /\ Goto(IF tomb \/ wk.explicit THEN "cancelAfter" ELSE "start")
  /\ UNCHANGED <<conn, rec, tomb, started>> /\ Internal

\* runNew: BeforeStart, the proof that this process still owns the Device.
BeforeStartFails ==
  /\ At("start")
  /\ Return(FALSE)
  /\ UNCHANGED <<rec, tomb, started>> /\ Internal

\* executeAdapter ends before the Runtime: failBeforeRuntime (handoff, private
\* output, Artifact aliases), or emitUnknown because the adapter is missing.
RefuseStart ==
  /\ At("start")
  /\ \E s \in {"failed", "outcome_unknown"} : rec' = AppendEvent(rec, s)
  /\ Goto("sendLast")
  /\ UNCHANGED <<conn, tomb, started>> /\ Internal

\* executeAdapter: adapter.Execute.
StartRuntime ==
  /\ At("start")
  /\ started' = started + 1
  /\ Goto("running")
  /\ UNCHANGED <<conn, rec, tomb>> /\ Internal

-----------------------------------------------------------------------------
(* Runtime: external, as the adapters of bridge/internal/runtime report it *)

\* The next event of the adapter, persisted before it is sent.  An adapter whose
\* context ended reports canceled, whatever ended the context.
RuntimeReports(r) ==
  IF r.state = "accepted" THEN {"working", "failed"}
  ELSE {"completed", "failed", "input_required", "outcome_unknown"}
         \cup (IF conn = "closing" \/ wk.explicit THEN {"canceled"} ELSE {})
         \cup (IF Len(r.ev) <= MaxReplies THEN {"reply"} ELSE {})

RuntimeEvent ==
  /\ At("running")
  /\ \E kind \in RuntimeReports(rec) : rec' = AppendEvent(rec, kind)
  /\ Goto("emit")
  /\ UNCHANGED <<conn, tomb, started>> /\ Internal

\* emitUnknown after the adapter returned an error of its own.
RuntimeError ==
  /\ At("running")
  /\ rec' = AppendEvent(rec, "outcome_unknown")
  /\ Goto("sendLast")
  /\ UNCHANGED <<conn, tomb, started>> /\ Internal

\* An event that is not terminal cannot be sent: the adapter gives up, and what
\* emitUnknown persists cannot be sent under the same context either.
EventSendFails ==
  /\ At("emit")
  /\ rec.state \notin isTerminalState
  /\ conn = "closing" \/ wk.explicit
  /\ rec' = AppendEvent(rec, "outcome_unknown")
  /\ Return(FALSE)
  /\ UNCHANGED <<tomb, started>> /\ Internal

LastEvent(r) == Events(r)[Len(r.ev)]

\* A terminal event is sent under a context of its own if the worker's has ended.
SendEvent ==
  /\ At("emit")
  /\ IF rec.state \in isTerminalState
     THEN Report(<<LastEvent(rec)>>, "finish") \/ ContextReport(<<LastEvent(rec)>>, "finish")
     ELSE conn # "closing" /\ Write(<<LastEvent(rec)>>, "running")

SendLast ==
  /\ At("sendLast")
  /\ ContextReport(<<LastEvent(rec)>>, "finish")

ReleaseFence ==
  /\ At("finish")
  /\ tomb' = FenceAfter(rec)
  /\ Goto("return")
  /\ UNCHANGED <<conn, rec, started>> /\ Internal

-----------------------------------------------------------------------------
(* Cancellation of a Run that does not execute *)

\* cancelBeforeAdmission, cancelDuringPreparation and cancelTombstonedRecord
\* ("cancel") send run.accepted first; cancelAfterAcceptance has sent it.
PersistCanceled ==
  /\ wk.pc \in {"cancel", "cancelAfter"}
  /\ rec' = CancelQueued(rec)
  /\ Goto(IF wk.pc = "cancel" THEN "sendCanceled" ELSE "sendTerminal")
  /\ UNCHANGED <<conn, tomb, started>> /\ Internal

SendCanceled ==
  \/ At("sendCanceled") /\ Report(<<Accepted>> \o Events(rec), "clear")
  \/ At("sendTerminal") /\ wk.owner = "worker" /\ Report(Events(rec), "clear")
  \/ At("sendTerminal") /\ wk.owner = "reader" /\ ContextReport(Events(rec), "clear")
  \/ At("preAck") /\ ContextReport(<<TombstoneStatus>>, "clear")

ClearCancellation ==
  /\ At("clear")
  /\ tomb' = FALSE
  /\ Goto("return")
  /\ UNCHANGED <<conn, rec, started>> /\ Internal

\* The worker leaves the map of active Runs, or the reader reads on.
Leave ==
  /\ At("return")
  /\ Return(TRUE)
  /\ UNCHANGED <<rec, tomb, started>> /\ Internal

-----------------------------------------------------------------------------

ReaderStep == ReadRequest \/ ReadCancelActive \/ StageCancellation
                \/ FinishStaging \/ ReadCancelInactive

WorkerStep ==
  \/ Admit \/ CheckBeforePreparation \/ Prepare \/ CheckBeforeAcceptance
  \/ FailMaterialization \/ SendFailed \/ SendAccepted \/ ReplayDuplicate
  \/ CheckBeforeGate \/ AcquireGate \/ CheckBeforeStart \/ RefuseStart
  \/ StartRuntime \/ RuntimeEvent \/ RuntimeError \/ EventSendFails \/ SendEvent \/ SendLast
  \/ ReleaseFence \/ PersistCanceled \/ SendCanceled \/ ClearCancellation \/ Leave

\* What need not happen however long one waits.
WorkerMishap == PrepareRetryable \/ LeaveGate \/ BeforeStartFails

BridgeNext == (CancelConnection /\ UNCHANGED bridgeVars) \/ CloseComplete \/ BridgeCrash \/ ReaderStep \/ WorkerStep \/ WorkerMishap
=============================================================================
