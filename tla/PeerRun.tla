------------------------------ MODULE PeerRun ------------------------------
(***************************************************************************)
(* One Peer Run between two Nodes.  The Host keeps the Run and commits its  *)
(* delivery, events and settlement (apps/server/src/peer); the Participant  *)
(* keeps an immutable journal, executes at most once and reports            *)
(* (bridge/internal/peer).  Two goroutines of the Participant touch the     *)
(* journal: the worker of the live connection, which executes, and the      *)
(* sweeper of the core, which only recovers known outcomes.  Connections    *)
(* drop, answers get lost, authority ends and the Participant dies at any   *)
(* step.                                                                    *)
(***************************************************************************)
EXTENDS Naturals, Sequences, SequencesExt

CONSTANTS
    MaxEmits,    \* bound: events the adapter emits before its final status
    MaxDeaths,   \* bound: deaths of the Participant
    MayLeave     \* the Participant may leave, the Host may revoke it

Known == {"completed", "failed", "canceled", "input_required"}
Terminal == {"completed", "failed", "canceled", "expired", "outcome_unknown"}
Live == {"queued", "delivered", "working"}

ASSUME PeerRunAssumption == MaxEmits \in Nat /\ MaxDeaths \in Nat /\ MayLeave \in BOOLEAN

VARIABLES
    host,      \* the Run at the Host: [run, log, deliv, settled, cancel, due]
    rights,    \* the Host's view: "current", "stale" binding, "revoked" member
    local,     \* the Participant's membership: "active" or "left"
    jr,        \* the journal of the Run
    ps,        \* the two goroutines: [pc, cont, i, n]
    live,      \* the context of the execution is not canceled
    child,     \* the Runtime process: "none", "running", "stopped"
    final,     \* e.terminal, the deferred status of the adapter
    conn, up,  \* the Peer connection; the core of the Participant
    spawns, deaths, emits

hostVars == <<host, rights>>
vars == <<host, rights, local, jr, ps, live, child, final, conn, up, spawns, deaths, emits>>

Procs == {"worker", "sweeper"}
Idle == [pc |-> "idle", cont |-> "none", i |-> 0, n |-> 0]

TypeOK ==
    /\ host.run \in Live \cup Terminal \cup {"input_required"}
    /\ host.log \in Seq({"delivered", "working"} \cup Known)
    /\ host.cancel \in {"none", "requester", "authorization_lost", "deadline"}
    /\ host.settled \in {"none", "delivery_denied", "outcome_unknown"} \cup Known
    /\ {host.deliv, host.due, jr.received, jr.started, jr.receipt} \subseteq BOOLEAN
    /\ rights \in {"current", "stale", "revoked"}
    /\ local \in {"active", "left"}
    /\ jr.events \in Seq({"delivered", "working"} \cup Known)
    /\ jr.acked \in 0..Len(jr.events)
    /\ jr.outcome \in {"none", "delivery_denied", "outcome_unknown"} \cup Known
    /\ \A p \in Procs : ps[p].pc \in {"idle", "flush", "posted", "admit", "queue",
                                      "claim", "run", "recover", "settle", "answered"}
    /\ child \in {"none", "running", "stopped"}
    /\ final \in {"none"} \cup Known
    /\ spawns \in 0..2 /\ deaths \in 0..MaxDeaths /\ emits \in 0..MaxEmits

Init ==
    /\ host = [run |-> "queued", log |-> <<>>, deliv |-> FALSE, settled |-> "none",
               cancel |-> "none", due |-> FALSE]
    /\ rights = "current" /\ local = "active"
    /\ jr = [received |-> FALSE, started |-> FALSE, outcome |-> "none", last |-> 0,
             events |-> <<>>, acked |-> 0, settlement |-> "none", receipt |-> FALSE]
    /\ ps = [p \in Procs |-> Idle]
    /\ live = FALSE /\ child = "none" /\ final = "none"
    /\ conn = FALSE /\ up = TRUE
    /\ spawns = 0 /\ deaths = 0 /\ emits = 0

-----------------------------------------------------------------------------
(* The Host.                                                                 *)

\* requireCurrent: the retained binding is still the one authority would give.
Current ==
    /\ rights = "current"
    /\ host.run \in Live /\ ~host.due /\ host.cancel = "none"

EndOf == [requester |-> "canceled", deadline |-> "expired", authorization_lost |-> "failed"]

\* cancelKnown: final before a delivery, and a request for evidence after it.
cancelKnown(h, cause) ==
    IF h.run \in Terminal THEN h
    ELSE IF ~h.deliv \/ h.run = "input_required"
    THEN [h EXCEPT !.run = EndOf[cause]]
    ELSE [h EXCEPT !.cancel = IF @ = "none" THEN cause ELSE @]

cancel == /\ host' = cancelKnown(host, "requester")
          /\ host' # host
          /\ UNCHANGED <<rights, local, jr, ps, live, child, final, conn, up, spawns, deaths, emits>>

\* The sweep fences what lost its authority and gives up on late evidence.
sweep ==
    /\ host.run \in Live
    /\ \/ host.cancel # "none" /\ host' = [host EXCEPT !.run = "outcome_unknown"]
       \/ /\ host.cancel = "none" /\ ~Current
          /\ host' = cancelKnown(host, IF host.due THEN "deadline" ELSE "authorization_lost")
    /\ UNCHANGED <<rights, local, jr, ps, live, child, final, conn, up, spawns, deaths, emits>>

DeadlinePasses ==
    /\ ~host.due /\ host.run \in Live
    /\ host' = [host EXCEPT !.due = TRUE]
    /\ UNCHANGED <<rights, local, jr, ps, live, child, final, conn, up, spawns, deaths, emits>>

LoseRights(r) ==
    /\ rights = "current" /\ rights' = r
    /\ UNCHANGED <<host, local, jr, ps, live, child, final, conn, up, spawns, deaths, emits>>

\* validateEvent and applyEvent: what the Run is after a new event.
Applies(e) ==
    CASE e = "delivered" -> host.run = "queued"
      [] e = "working" -> host.run \in {"delivered", "working"}
      [] e = "completed" -> host.run = "working"
      [] OTHER -> host.run \in {"delivered", "working"}

\* The answer to a published event.  A known sequence is acknowledged again
\* under current bilateral authority, whatever became of the Run.
event(seq) ==
    IF seq <= Len(host.log) THEN [ok |-> rights = "current", host |-> host]
    ELSE IF Current /\ seq = Len(host.log) + 1 /\ Applies(jr.events[seq])
    THEN [ok |-> TRUE, host |-> [host EXCEPT !.run = jr.events[seq],
                                             !.log = Append(@, jr.events[seq])]]
    ELSE [ok |-> FALSE, host |-> host]

\* One settlement is retained; it moves a Run that has not ended.
settle(s) ==
    IF host.settled # "none" THEN host
    ELSE [host EXCEPT !.settled = s,
                      !.run = IF @ \in Terminal THEN @
                              ELSE IF s # "delivery_denied" THEN s
                              ELSE IF host.cancel = "none" THEN "failed"
                              ELSE EndOf[host.cancel]]

-----------------------------------------------------------------------------
(* The journal of the Participant.                                           *)

\* Begin: the claim of a start; a record that was claimed or closed stays.
Begin == IF jr.started \/ jr.outcome # "none" THEN jr ELSE [jr EXCEPT !.started = TRUE]

\* Finish retains one outcome, the final event with its sequence included.
Finish(s) ==
    IF jr.outcome # "none" \/ (s = "delivery_denied" /\ jr.started) THEN jr
    ELSE [jr EXCEPT !.outcome = s,
                    !.last = IF s \in Known THEN Len(jr.events) + 1 ELSE 0]

AppendEvent(e) == [jr EXCEPT !.events = Append(@, e)]

AcknowledgeEvent(seq) == [jr EXCEPT !.acked = IF seq > @ THEN seq ELSE @]

PrepareSettlement ==
    [jr EXCEPT !.settlement = IF @ = "none" THEN jr.outcome ELSE @]

-----------------------------------------------------------------------------
(* Reporting, by either goroutine.                                           *)

To(p, pc) == ps' = [ps EXCEPT ![p].pc = pc]
Stop(p) == ps' = [ps EXCEPT ![p] = Idle]

\* The context a goroutine publishes under.
Reaches(p) == IF p = "sweeper" THEN up ELSE live

StartFlush(p, cont, j) ==
    ps' = [ps EXCEPT ![p] = [pc |-> "flush", cont |-> cont, i |-> j.acked + 1, n |-> Len(j.events)]]

\* What a goroutine does when its flush failed: denied content permits the
\* settlement, an ambiguous failure keeps the events for later.
Flushed(p, denied) ==
    \/ /\ ps[p].cont = "begin" /\ denied
       /\ jr' = Finish("delivery_denied") /\ To(p, "recover")
    \/ ps[p].cont = "begin" /\ ~denied /\ Stop(p) /\ UNCHANGED jr
    \/ ps[p].cont = "run" /\ To(p, "run") /\ UNCHANGED jr
    \/ /\ ps[p].cont = "settle"
       /\ IF denied /\ jr.outcome # "input_required"
          THEN jr' = PrepareSettlement /\ To(p, "settle")
          ELSE Stop(p) /\ UNCHANGED jr

\* PublishRunEvent: the Host may have committed although the answer is lost.
\* An emit that fails ends the adapter.
PublishRunEvent(p) ==
    /\ ps[p].pc = "flush" /\ ps[p].i <= ps[p].n
    /\ LET answer == event(ps[p].i) IN
       \/ /\ local = "left" \/ (Reaches(p) /\ ~answer.ok)
          /\ Flushed(p, TRUE) /\ live' = (live /\ ps[p].cont # "run")
          /\ UNCHANGED host
       \/ /\ local = "active" /\ Flushed(p, FALSE)
          /\ host' \in {host} \cup (IF Reaches(p) THEN {answer.host} ELSE {})
          /\ live' = (live /\ ps[p].cont # "run")
       \/ /\ local = "active" /\ Reaches(p) /\ answer.ok
          /\ host' = answer.host /\ To(p, "posted") /\ UNCHANGED <<jr, live>>
    /\ UNCHANGED <<rights, local, child, final, conn, up, spawns, deaths, emits>>

Acknowledged(p) ==
    /\ ps[p].pc = "posted"
    /\ jr' = AcknowledgeEvent(ps[p].i)
    /\ ps' = [ps EXCEPT ![p].pc = "flush", ![p].i = @ + 1]
    /\ UNCHANGED <<hostVars, local, live, child, final, conn, up, spawns, deaths, emits>>

FlushEnds(p) ==
    /\ ps[p].pc = "flush" /\ ps[p].i > ps[p].n
    /\ \/ ps[p].cont = "begin" /\ To(p, "admit") /\ UNCHANGED jr
       \/ ps[p].cont = "run" /\ To(p, "run") /\ UNCHANGED jr
       \/ /\ ps[p].cont = "settle"
          /\ IF jr.outcome = "input_required" THEN Stop(p) /\ UNCHANGED jr
             ELSE jr' = PrepareSettlement /\ To(p, "settle")
    /\ UNCHANGED <<hostVars, local, live, child, final, conn, up, spawns, deaths, emits>>

\* recover: the retained final event, the pending events, the settlement.
recover(p) ==
    /\ ps[p].pc = "recover"
    /\ IF jr.receipt \/ jr.outcome = "none" THEN Stop(p) /\ UNCHANGED jr
       ELSE IF jr.settlement # "none" THEN To(p, "settle") /\ UNCHANGED jr
       ELSE /\ jr' = IF jr.last > Len(jr.events) THEN AppendEvent(jr.outcome) ELSE jr
            /\ StartFlush(p, "settle", jr')
    /\ UNCHANGED <<hostVars, local, live, child, final, conn, up, spawns, deaths, emits>>

\* SettleRun needs no current authority; its answer may be lost.
SettleRun(p) ==
    /\ ps[p].pc = "settle"
    /\ \/ Stop(p) /\ UNCHANGED host
       \/ Reaches(p) /\ Stop(p) /\ host' = settle(jr.settlement)
       \/ Reaches(p) /\ To(p, "answered") /\ host' = settle(jr.settlement)
    /\ UNCHANGED <<rights, local, jr, live, child, final, conn, up, spawns, deaths, emits>>

AcknowledgeSettlement(p) ==
    /\ ps[p].pc = "answered"
    /\ jr' = [jr EXCEPT !.receipt = TRUE]
    /\ Stop(p)
    /\ UNCHANGED <<hostVars, local, live, child, final, conn, up, spawns, deaths, emits>>

-----------------------------------------------------------------------------
(* The worker of the connection.                                             *)

\* A poll commits the delivery before its answer, which may be lost; a Run
\* that lost its authority ends instead.
PollRuns ==
    /\ conn /\ ~jr.received /\ host.run \in Live
    /\ IF Current
       THEN /\ host' = [host EXCEPT !.deliv = TRUE]
            /\ jr' \in {jr, [jr EXCEPT !.received = TRUE]}
       ELSE host' = cancelKnown(host, "authorization_lost") /\ UNCHANGED jr
    /\ UNCHANGED <<rights, local, ps, live, child, final, conn, up, spawns, deaths, emits>>

Closed == jr.receipt \/ (jr.outcome = "input_required" /\ jr.acked = Len(jr.events))

\* Mutant: a claimed start is admitted again.
RestartingServe ==
    /\ conn /\ jr.received /\ ~Closed /\ ps["worker"] = Idle
    /\ live' = TRUE
    /\ IF jr.outcome # "none" THEN To("worker", "recover") /\ UNCHANGED jr
       ELSE /\ jr' = IF jr.events = <<>> THEN AppendEvent("delivered") ELSE jr
            /\ StartFlush("worker", "begin", jr')
    /\ UNCHANGED <<hostVars, local, child, final, conn, up, spawns, deaths, emits>>

\* serveRuns launches a retained record: execute decides from the journal.
serveRuns ==
    /\ conn /\ jr.received /\ ~Closed /\ ps["worker"] = Idle
    /\ live' = TRUE
    /\ IF jr.outcome # "none" THEN To("worker", "recover") /\ UNCHANGED jr
       ELSE IF jr.started THEN jr' = Finish("outcome_unknown") /\ To("worker", "recover")
       ELSE /\ jr' = IF jr.events = <<>> THEN AppendEvent("delivered") ELSE jr
            /\ StartFlush("worker", "begin", jr')
    /\ UNCHANGED <<hostVars, local, child, final, conn, up, spawns, deaths, emits>>

\* The checks of executeManaged: local and Host authority before the queue of
\* the resource and after it.  An unreachable Host leaves the record alone.
Admitted == live /\ local = "active" /\ Current

Recheck(from, to) ==
    /\ ps["worker"].pc = from
    /\ \/ Admitted /\ To("worker", to) /\ UNCHANGED jr
       \/ Stop("worker") /\ UNCHANGED jr
       \/ (local = "left" \/ ~Current) /\ jr' = Finish("delivery_denied") /\ To("worker", "recover")
       \/ ~live /\ jr' = Finish("canceled") /\ To("worker", "recover")
    /\ UNCHANGED <<hostVars, local, live, child, final, conn, up, spawns, deaths, emits>>

\* The claim right before the adapter: it conflicts with a closed record.
beforeInvoke ==
    /\ ps["worker"].pc = "claim"
    /\ IF jr.outcome = "none" /\ local = "active"
       THEN jr' = Begin /\ To("worker", "run") /\ child' = "running" /\ spawns' = spawns + 1
       ELSE jr' = Finish("delivery_denied") /\ To("worker", "recover") /\ UNCHANGED <<child, spawns>>
    /\ UNCHANGED <<hostVars, local, live, final, conn, up, deaths, emits>>

\* The adapter reports work; nothing follows its final status.
emit ==
    /\ ps["worker"].pc = "run" /\ live /\ final = "none" /\ emits < MaxEmits
    /\ jr' = AppendEvent("working")
    /\ StartFlush("worker", "run", jr')
    /\ emits' = emits + 1
    /\ UNCHANGED <<hostVars, local, live, child, final, conn, up, spawns, deaths>>

\* The final status waits for the cleanup of the process.
emitFinal(s) ==
    /\ ps["worker"].pc = "run" /\ final = "none"
    /\ s = "canceled" => ~live
    /\ final' = s
    /\ UNCHANGED <<hostVars, local, jr, ps, live, child, conn, up, spawns, deaths, emits>>

\* The watch finds the authority gone, or the Host out of reach.
watch ==
    /\ ps["worker"].pc \in {"run", "flush", "posted"} /\ jr.started /\ live
    /\ live' = FALSE
    /\ UNCHANGED <<hostVars, local, jr, ps, child, final, conn, up, spawns, deaths, emits>>

\* The outcome of an execution: process evidence first, then the adapter.
Outcome(stopped) ==
    IF ~stopped THEN {"outcome_unknown"}
    ELSE IF final # "none" THEN {final} ELSE IF ~live THEN {"canceled", "failed"} ELSE {"failed"}

execute ==
    /\ ps["worker"].pc = "run"
    /\ \E stopped \in BOOLEAN : \E s \in Outcome(stopped) :
          /\ jr' = Finish(s)
          /\ child' = IF stopped THEN "stopped" ELSE child
    /\ final' = "none"
    /\ To("worker", "recover")
    /\ UNCHANGED <<hostVars, local, live, conn, up, spawns, deaths, emits>>

-----------------------------------------------------------------------------
(* The sweeper, connections, departure and death.                            *)

\* A record that never started is denied once its membership ended.
Denial == jr.outcome = "none" /\ ~jr.started /\ local = "left"

recoverPeerRuns ==
    /\ up /\ jr.received /\ ps["sweeper"] = Idle
    /\ Denial \/ (jr.outcome # "none" /\ ~Closed)
    /\ jr' = IF Denial THEN Finish("delivery_denied") ELSE jr
    /\ To("sweeper", "recover")
    /\ UNCHANGED <<hostVars, local, live, child, final, conn, up, spawns, deaths, emits>>

ConnectRuntime ==
    /\ up /\ ~conn /\ local = "active" /\ rights # "revoked" /\ ps["worker"] = Idle
    /\ conn' = TRUE
    /\ UNCHANGED <<hostVars, local, jr, ps, live, child, final, up, spawns, deaths, emits>>

\* The context of every execution ends with its connection, which is drained
\* before the next one.
closeWithCause ==
    /\ conn /\ conn' = FALSE /\ live' = FALSE
    /\ UNCHANGED <<hostVars, local, jr, ps, child, final, up, spawns, deaths, emits>>

Leave ==
    /\ local = "active" /\ local' = "left"
    /\ conn' = FALSE /\ live' = FALSE
    /\ UNCHANGED <<hostVars, jr, ps, child, final, up, spawns, deaths, emits>>

Death ==
    /\ up /\ deaths < MaxDeaths
    /\ up' = FALSE /\ conn' = FALSE /\ live' = FALSE /\ final' = "none"
    /\ ps' = [p \in Procs |-> Idle]
    /\ deaths' = deaths + 1
    /\ UNCHANGED <<hostVars, local, jr, child, spawns, emits>>

\* The next core fences the process store before it serves.
Restart ==
    /\ ~up /\ up' = TRUE
    /\ child' = IF child = "running" THEN "stopped" ELSE child
    /\ UNCHANGED <<hostVars, local, jr, ps, live, final, conn, spawns, deaths, emits>>

-----------------------------------------------------------------------------
Report(p) ==
    \/ PublishRunEvent(p) \/ Acknowledged(p) \/ FlushEnds(p)
    \/ recover(p) \/ SettleRun(p) \/ AcknowledgeSettlement(p)

Execution ==
    \/ serveRuns \/ Recheck("admit", "queue") \/ Recheck("queue", "claim") \/ beforeInvoke
    \/ emit \/ (\E s \in Known : emitFinal(s)) \/ execute

Next ==
    \/ cancel \/ sweep \/ DeadlinePasses \/ LoseRights("stale")
    \/ (MayLeave /\ (LoseRights("revoked") \/ Leave))
    \/ (\E p \in Procs : Report(p)) \/ Execution \/ watch
    \/ PollRuns \/ recoverPeerRuns \/ ConnectRuntime \/ closeWithCause
    \/ Death \/ Restart

Spec == Init /\ [][Next]_vars

\* Goroutines go on, the Host's sweep recurs and the Runtime ends.  A request
\* that can reach the Host again and again is answered at last.
Answered(p) ==
    \/ ps[p].pc = "settle" /\ SettleRun(p) /\ ps'[p].pc = "answered"
    \/ /\ PublishRunEvent(p)
       /\ ps'[p].pc = "posted" \/ (ps[p].cont = "settle" /\ jr'.settlement # "none")

-----------------------------------------------------------------------------
(* Properties.                                                               *)

\* A delivered Run starts at most one Runtime process, over polls whose answer
\* was lost, reconnections, deaths and both goroutines.
StartsOnce == spawns <= 1

\* What the Host committed is what the Participant retained, in its order, and
\* the Participant counts as acknowledged only what the Host committed.
EvidenceAgrees ==
    /\ IsPrefix(host.log, jr.events)
    /\ jr.acked <= Len(host.log)

\* A known outcome stands for a Runtime that is gone: only outcome_unknown is
\* recorded while the process may still write.
OutcomeAfterProcess == jr.outcome \in Known \cup {"delivery_denied"} => child # "running"

\* The Host never concludes more than the Participant knows of a Run that
\* started: its conclusion is the journal's, or unknown, or its own
\* cancellation of a question nobody answers.
HostConcludes ==
    /\ (jr.started /\ host.run \in Terminal \ {"outcome_unknown"}) =>
          host.run = jr.outcome \/ jr.outcome = "input_required"
    /\ host.settled # "none" => host.settled = jr.outcome

\* A delivered Run starts at most one process, and the Host holds and concludes no more
\* than the Participant's journal and processes bear out.
PeerRunFaithful == TypeOK /\ StartsOnce /\ EvidenceAgrees /\ OutcomeAfterProcess /\ HostConcludes

\* A Run the Host brought to an end keeps that end, late receipts included.
EndsStand == host.run \in Terminal => host'.run = host.run

=============================================================================
