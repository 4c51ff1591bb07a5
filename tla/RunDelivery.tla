----------------------------- MODULE RunDelivery -----------------------------
(***************************************************************************)
(* One managed Run, from Central's queue through the Bridge WebSocket to   *)
(* the Bridge's inbox and Runtime and back: the composition of CentralRun  *)
(* and BridgeRun over BridgeSocket, and what it must guarantee.            *)
(***************************************************************************)
EXTENDS CentralRun, BridgeRun

vars == <<hub, revoked, discCanceled, epoch, conn, sk, reg, up, down,
          rec, tomb, wk, staging, started>>

TypeOK == CentralTypeOK /\ SocketTypeOK /\ BridgeTypeOK

Init == CentralInit /\ SocketInit /\ BridgeInit

\* A revoked Device's credential is refused at the dial.
Dial == ~revoked /\ Connect /\ UNCHANGED centralVars

Break == (Drop \/ \E e \in Epochs : SeesClose(e)) /\ UNCHANGED <<centralVars, bridgeVars>>

Central == CentralNext /\ UNCHANGED bridgeVars

Bridge == BridgeNext /\ UNCHANGED centralVars

Next == Central \/ Bridge \/ Dial \/ Break

Spec == Init /\ [][Next]_vars

-----------------------------------------------------------------------------
(* Safety *)

\* The Runtime is invoked at most once for a Run, whatever is resent, replayed or
\* recovered: only Handler.runNew reaches adapter.Execute.
AtMostOneStart == started <= 1

\* The Runtime works on the Run: it was invoked and no terminal event is persisted.
Executing ==
  started > 0 /\ wk.pc \in {"running", "emit"} /\ rec.state \notin isTerminalState

\* While Central shows a Run as canceled it does not execute: Central cancels on the
\* Bridge's word, or a Run whose Delivery the Bridge can never have seen
\* (CancellationService.cancel, RunRepository.requestCancellation).
CanceledNeverRuns == hub.state = "canceled" => ~Executing

\* What Central recorded of a Run is what the Bridge recorded, as far as it got: no
\* event is lost, repeated, reordered or made up by resends, replays and superseded
\* sockets.  Only the last entry may be a verdict of Central's own.
IsPrefixOf(s, t) == Len(s) <= Len(t) /\ \A i \in 1 .. Len(s) : s[i] = t[i]

Reported == <<"delivered">> \o rec.ev

HistoryAgrees ==
  \/ IsPrefixOf(hub.log, Reported)
  \/ /\ hub.state \in terminalStates \ {"completed"}
     /\ IsPrefixOf(SubSeq(hub.log, 1, Len(hub.log) - 1), Reported)

\* Central never meets the "Run event sequence gap" that makes it close the socket:
\* the next message of a connection the Bridge keeps continues the log or repeats it.
\* On a connection that has failed a cancel command may still be answered with an
\* outcome (ReplayCanceledRun) whose run.accepted was not sent; Central rejects it.
NoSequenceGap ==
  conn = "up" /\ sk[epoch] \in {"registered", "draining"} /\ up[epoch] # << >>
    => ~SequenceGap(hub, Head(up[epoch]).seq)

\* A cancellation tombstone does not outlive the cancellation it fences: when nobody
\* works on the Run of a connected Bridge, a tombstone is left only for a Run the
\* inbox does not know, or one that waits for input.  A leftover would cancel an
\* outcome that StageCancellation or the worker had already released.
FenceReleased ==
  conn = "up" /\ wk = Idle /\ staging = "no" /\ tomb
    => rec.state \in {"none", "input_required"}

\* The first outcome the Bridge persists stands: reader, worker and recovery never
\* add to, or replace, a record that is terminal for cancellation.
FirstOutcomeStands ==
  [][rec.state \in isCancellationTerminalState => rec' = rec]_rec

\* Central's log only grows, and not after a terminal state.
SettledRunIsFinal ==
  [][/\ IsPrefixOf(hub.log, hub'.log)
     /\ hub.state \in terminalStates => hub'.state = hub.state /\ hub'.log = hub.log]_hub

\* The whole exchange implements the life of a Run as the Room sees it.
Lifecycle == INSTANCE RunLifecycle WITH
  exec <- IF Executing THEN "running"
          ELSE IF started > 0 \/ hub.state = "canceled" THEN "over" ELSE "idle",
  ran <- started > 0,
  verdict <- IF hub.state \in terminalStates THEN hub.state ELSE "open"

ImplementsLifecycle == Lifecycle!Spec

-----------------------------------------------------------------------------
(* Liveness.  Goroutines and timers run; the reader notices a socket that   *)
(* Central closed; heartbeats (10 s) and the cancellation timer (1 s)       *)
(* repeat what is not acknowledged.  Nothing is assumed of users, crashes,  *)
(* deadlines and the network before the last connection of the bound.       *)

Resend ==
  /\ hub.intent = "pending"
  /\ Room
  /\ Respond(Outcome(hub, cancelCommand(hub)))
  /\ UNCHANGED <<revoked, discCanceled, epoch, conn, sk, reg, up, bridgeVars>>

Redeliver ==
  /\ hub.state = "queued" /\ hub.intent = "none" /\ hub.delivery = "pending"
  /\ Room
  /\ Respond(Outcome(hub, <<"run.requested">>))
  /\ UNCHANGED <<revoked, discCanceled, epoch, conn, sk, reg, up, bridgeVars>>

NoticeClose ==
  Drop /\ sk[epoch] \in {"draining", "closed"} /\ UNCHANGED <<centralVars, bridgeVars>>

Receive == (\E e \in Epochs : ReceiveHello(e) \/ ReceiveRunMessage(e)) /\ UNCHANGED bridgeVars

Fairness ==
  /\ WF_vars(WorkerStep /\ UNCHANGED centralVars)
  /\ WF_vars(ReaderStep /\ UNCHANGED centralVars)
  /\ WF_vars(CancelConnection /\ UNCHANGED <<centralVars, bridgeVars>>)
  /\ WF_vars(CloseComplete /\ UNCHANGED centralVars)
  /\ WF_vars(Dial)
  /\ WF_vars(NoticeClose)
  /\ WF_vars(Receive)
  /\ WF_vars(Resend)
  /\ WF_vars(Redeliver)

FairSpec == Spec /\ Fairness

\* Every Run the Bridge admitted is settled at Central, or asks for input, whatever
\* broke on the way; Central's acknowledgement deadline is not needed for it.
AdmittedRunSettles ==
  rec.state # "none" ~> (Terminal(hub) \/ hub.state = "input_required")

\* A requested cancellation is resolved by the Bridge even if the deadline that lets
\* Central resolve it alone never passes: a command lost with a socket is repeated.
CancellationResolves == hub.intent = "pending" ~> hub.intent # "pending"

=============================================================================
