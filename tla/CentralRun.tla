------------------------------ MODULE CentralRun ------------------------------
(***************************************************************************)
(* Central's side of one managed Run: the durable rows of the Run (its     *)
(* state and event log, its Delivery, its cancellation intent) and every   *)
(* handler that changes them.  Central is one JavaScript thread over       *)
(* SQLite: a handler runs to completion, so a handler is one action.       *)
(*                                                                         *)
(* The Run's Agent is managed and supports interruption; of an Agent that  *)
(* does not, Central refuses every cancellation that needs the Bridge.     *)
(*                                                                         *)
(* Clocks are abstracted: a deadline (the Run's queue deadline, the        *)
(* acknowledgement deadline of a cancellation, the 2 second resend         *)
(* interval) may or may not have passed whenever it is read.               *)
(***************************************************************************)
EXTENDS BridgeSocket

CONSTANT Discussion   \* TRUE: the Run is a member Turn of a Discussion Wave

ASSUME DiscussionAssumption == Discussion \in BOOLEAN

VARIABLES
  hub,          \* rows of runs, run_events, run_deliveries, run_cancellation_intents
  revoked,      \* the Device was revoked
  discCanceled  \* the Discussion that owns the Run was canceled

centralVars == <<hub, revoked, discCanceled>>

\* intent: "none", "pending", or the terminal status that resolved it.
Hub == [state    : RunState,
        log      : Seq(EventKind),
        delivery : {"none", "pending", "accepted"},
        intent   : {"none", "pending"} \cup terminalStates]

CentralTypeOK ==
  /\ hub \in Hub
  /\ revoked \in BOOLEAN
  /\ discCanceled \in BOOLEAN

CentralInit ==
  /\ hub = [state |-> "queued", log |-> << >>, delivery |-> "none", intent |-> "none"]
  /\ revoked = FALSE
  /\ discCanceled = FALSE

-----------------------------------------------------------------------------
(* RunRepository *)

lastSequence(h) == Len(h.log)

Terminal(h) == h.state \in terminalStates

\* Seeded defect: an event that was applied before is applied again.
applyEventTwice(h, seq, kind) ==
  IF Terminal(h) THEN h
  ELSE [h EXCEPT !.state = IF kind = "reply" THEN @ ELSE kind, !.log = Append(@, kind)]

\* Seeded defect: an event is applied to a terminal Run.
applyEventLate(h, seq, kind) ==
  IF seq <= lastSequence(h) THEN h
  ELSE [h EXCEPT !.state = IF kind = "reply" THEN @ ELSE kind, !.log = Append(@, kind)]

\* applyRuntimeEvent, for a sequence number that does not leave a gap.
applyEvent(h, seq, kind) ==
  LET next == IF kind = "reply" THEN h.state ELSE kind
  IN  IF seq <= lastSequence(h) \/ Terminal(h)
      THEN h
      ELSE [h EXCEPT
              !.state = next,
              !.log = Append(@, kind),
              !.intent = IF next \in terminalStates /\ @ = "pending" THEN next ELSE @]

\* applyRuntimeEvent throws "Run event sequence gap".
SequenceGap(h, seq) == ~Terminal(h) /\ seq > lastSequence(h) + 1

\* An event of Central's own, at the next sequence number.
LocalEvent(h, kind) == applyEvent(h, lastSequence(h) + 1, kind)

\* Seeded defect: a queued Run is canceled at once although its Delivery exists.
requestCancellationAtOnce(h) ==
  IF Terminal(h) \/ (h.intent # "none" /\ h.state # "input_required") THEN h
  ELSE IF h.state \in {"queued", "input_required"} THEN LocalEvent(h, "canceled")
  ELSE [h EXCEPT !.intent = "pending"]

\* Any durable Delivery row may be visible to the Bridge: the process can crash
\* after the socket write.  Only a queued Run without one is canceled at once.
requestCancellation(h) ==
  IF Terminal(h) THEN h
  ELSE IF h.state = "input_required" THEN LocalEvent(h, "canceled")
  ELSE IF h.intent # "none" THEN h
  ELSE IF h.state = "queued" /\ h.delivery = "none" THEN LocalEvent(h, "canceled")
  ELSE [h EXCEPT !.intent = "pending"]

-----------------------------------------------------------------------------
(* Services.  An outcome is the new rows and the commands written to the   *)
(* Device's socket, in order.                                              *)

Outcome(h, msgs) == [hub |-> h, out |-> msgs]

cancelCommand(h) == IF h.intent = "pending" THEN <<"run.cancel_requested">> ELSE << >>

\* CancellationService.sweep and resendForDevice: the deadline has passed, or the
\* command is due and is sent again, or it is not due yet.
sweep(h) ==
  IF h.intent # "pending"
  THEN {Outcome(h, << >>)}
  ELSE {Outcome(LocalEvent(h, "outcome_unknown"), << >>),
        Outcome(h, cancelCommand(h)),
        Outcome(h, << >>)}

\* DeliveryService.dispatch of a Run that dispatchRun or dispatchQueuedForDevice
\* selected.  Before the Delivery is sent a queued Run may turn out to be past its
\* deadline, or no longer allowed to run as frozen (disclosure, desktop handoff,
\* device trust); the registry refuses a send its capabilities do not match.
dispatch(h) ==
  LET ensured == [h EXCEPT !.delivery = IF @ = "none" THEN "pending" ELSE @]
  IN  IF h.intent = "pending" \/ h.state # "queued"
      THEN {Outcome(h, << >>)}
      ELSE {Outcome(LocalEvent(h, "expired"), << >>),
            Outcome(LocalEvent(h, "failed"), << >>),
            Outcome(ensured, IF ensured.delivery = "pending"
                             THEN <<"run.requested">> ELSE << >>),
            Outcome(ensured, << >>)}

\* DeliveryService.accept.
accept(h) ==
  [applyEvent(h, 1, "delivered") EXCEPT !.delivery = "accepted"]

\* What a hello, an agent.publish or a heartbeat makes Central send.
DeviceSync(h) ==
  UNION {{Outcome(d.hub, s.out \o d.out) : d \in dispatch(s.hub)} : s \in sweep(h)}

\* DeviceRevocationService.reconcile.
revokeRun(h) ==
  LET acceptedByBridge == h.delivery = "accepted" \/ h.state # "queued"
  IN  IF Terminal(h) THEN Outcome(h, << >>)
      ELSE IF acceptedByBridge
           THEN Outcome(LocalEvent(h, "outcome_unknown"), <<"run.cancel_requested">>)
           ELSE Outcome(LocalEvent(h, "failed"), << >>)

\* BridgeRunEventService.applyStatus: the canceled status of a Run the Bridge
\* never admitted is the one status that may carry sequence 1.
preAdmissionCancellationAck(h, m) ==
  /\ m = TombstoneStatus
  /\ \/ h.state = "queued" /\ h.intent = "pending"
     \/ h.state = "canceled" /\ h.intent = "canceled"

\* The message makes the handler throw, and the socket is closed with 4008.  Its
\* identities and contents are valid, and the disclosure grant that accept looks up
\* for a Discussion is not withdrawn meanwhile.
Rejects(h, m) ==
  IF m = Accepted
  THEN h.delivery = "none" \/ SequenceGap(h, 1)
  ELSE \/ m.seq < 2 /\ ~preAdmissionCancellationAck(h, m)
       \/ SequenceGap(h, m.seq)

\* A run.accepted, run.status, run.reply, run.activity or run.output_delta that is
\* not rejected.  A Discussion cannot wait for input: onRunInputRequired closes the Run.
ReceiveEvent(h, m) ==
  LET next == IF m = Accepted THEN accept(h) ELSE applyEvent(h, m.seq, m.kind)
  IN  IF Discussion /\ next.state = "input_required" /\ h.state # "input_required"
      THEN LocalEvent(next, "outcome_unknown")
      ELSE next

-----------------------------------------------------------------------------
(* Actions *)

Respond(o) ==
  /\ hub' = o.hub
  /\ down' = Sent(reg, sk, o.out)

Room == Len(down) + 2 <= MaxDown

\* dispatchRun: after the Run was created, or found queued by a recovery.
DispatchRun ==
  /\ hub.state = "queued"
  /\ Room
  /\ \E o \in dispatch(hub) : Respond(o)
  /\ UNCHANGED <<revoked, discCanceled, epoch, conn, sk, reg, up>>

\* RunService.listRoomRuns expires the Room's queued Runs whose deadline passed.
ExpireQueued ==
  /\ hub.state = "queued"
  /\ hub' = LocalEvent(hub, "expired")
  /\ UNCHANGED <<revoked, discCanceled, socketVars>>

\* CancellationService.cancel; for a Discussion the "cancel" control, which first
\* marks the Discussion canceled and then cancels every member Run.
CancelRun ==
  /\ ~Terminal(hub)
  /\ Room
  /\ LET h == requestCancellation(hub) IN Respond(Outcome(h, cancelCommand(h)))
  /\ discCanceled' = Discussion
  /\ UNCHANGED <<revoked, epoch, conn, sk, reg, up>>

\* The one second cancellation timer.
CancellationSweep ==
  /\ hub.intent = "pending"
  /\ Room
  /\ \E o \in sweep(hub) : Respond(o)
  /\ UNCHANGED <<revoked, discCanceled, epoch, conn, sk, reg, up>>

\* A heartbeat or an agent.publish on the registered socket.
Heartbeat ==
  /\ reg # 0
  /\ sk[reg] = "registered"
  /\ Room
  /\ \E o \in DeviceSync(hub) : Respond(o)
  /\ UNCHANGED <<revoked, discCanceled, epoch, conn, sk, reg, up>>

\* TaskClarificationService closes the Run that asked: answered and continued in
\* a new Run, orphaned, or not answered before the deadline.
CloseClarification ==
  /\ ~Discussion
  /\ hub.state = "input_required"
  /\ \E s \in {"outcome_unknown", "expired"} : hub' = LocalEvent(hub, s)
  /\ UNCHANGED <<revoked, discCanceled, socketVars>>

\* DiscussionRecoveryService.expireDueWaves.
WaveDeadline ==
  /\ Discussion
  /\ ~Terminal(hub)
  /\ hub' = LocalEvent(hub, IF hub.state = "queued" THEN "expired" ELSE "outcome_unknown")
  /\ UNCHANGED <<revoked, discCanceled, socketVars>>

\* DiscussionRecoveryService.closeCanceledWaves.
closeCanceledWaves(h) ==
  IF ~discCanceled \/ Terminal(h) THEN h
  ELSE LocalEvent(h, IF h.state = "queued" THEN "canceled" ELSE "outcome_unknown")

\* DeviceRevocationService.revoke.
Revoke ==
  /\ ~revoked
  /\ Room
  /\ revoked' = TRUE
  /\ Respond(revokeRun(hub))
  /\ reg' = 0
  /\ sk' = IF reg = 0 THEN sk ELSE [sk EXCEPT ![reg] = "draining"]
  /\ UNCHANGED <<discCanceled, epoch, conn, up>>

\* Central's process dies and starts again: sockets and registry are gone, the
\* startup recovery reconciles revoked Devices, sweeps cancellations and closes
\* canceled Discussions.  The process may have died inside DeviceRevocationService
\* .revoke, with the Device revoked and its Runs not yet reconciled.
CentralRestart ==
  /\ \A e \in Epochs : sk[e] \in LiveSocket => MayBreak(e)
  /\ sk' = [e \in Epochs |-> IF sk[e] \in LiveSocket THEN "closed" ELSE sk[e]]
  /\ up' = [e \in Epochs |-> << >>]
  /\ reg' = 0
  /\ revoked' \in {revoked, TRUE}
  /\ LET h == IF revoked' THEN revokeRun(hub).hub ELSE hub
     IN  \E o \in sweep(h) : hub' = closeCanceledWaves(o.hub)
  /\ UNCHANGED <<discCanceled, epoch, conn, down>>

\* bridge.hello: a socket with the newest epoch registers and the socket it
\* supersedes is closed; a stale epoch is closed.
ReceiveHello(e) ==
  /\ sk[e] = "open"
  /\ up[e] # << >>
  /\ Head(up[e]) = Hello
  /\ IF reg >= e
     THEN /\ sk' = [sk EXCEPT ![e] = "closed"]
          /\ up' = [up EXCEPT ![e] = << >>]
          /\ UNCHANGED <<hub, reg, down>>
     ELSE /\ reg' = e
          /\ sk' = [f \in Epochs |-> IF f = e THEN "registered"
                                     ELSE IF f = reg THEN "draining" ELSE sk[f]]
          /\ up' = [up EXCEPT ![e] = Tail(@)]
          /\ \E o \in DeviceSync(hub) :
               hub' = o.hub /\ down' = Sent(e, sk', o.out)
  /\ UNCHANGED <<revoked, discCanceled, epoch, conn>>

\* A Run message on a socket whose hello was accepted.
ReceiveRunMessage(e) ==
  /\ sk[e] \in {"registered", "draining"}
  /\ up[e] # << >>
  /\ Head(up[e]).kind # "hello"
  /\ LET m == Head(up[e])
     IN  IF Rejects(hub, m)
         THEN sk' = [sk EXCEPT ![e] = "draining"] /\ UNCHANGED hub
         ELSE hub' = ReceiveEvent(hub, m) /\ UNCHANGED sk
  /\ up' = [up EXCEPT ![e] = Tail(@)]
  /\ UNCHANGED <<revoked, discCanceled, epoch, conn, reg, down>>

CentralNext ==
  \/ DispatchRun
  \/ ExpireQueued
  \/ CancelRun
  \/ CancellationSweep
  \/ Heartbeat
  \/ CloseClarification
  \/ WaveDeadline
  \/ Revoke
  \/ CentralRestart
  \/ \E e \in Epochs : ReceiveHello(e) \/ ReceiveRunMessage(e)
=============================================================================
