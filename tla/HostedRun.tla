------------------------------- MODULE HostedRun -------------------------------
(***************************************************************************)
(* Hosted Runs: Central itself calls a model provider for a Run            *)
(* (HostedRunScheduler), behind a durable invocation intent                *)
(* (HostedInvocationRepository) and through InProcessRunExecutor.          *)
(*                                                                         *)
(* Central is one JavaScript thread: what happens between two awaits is    *)
(* one step.  Every transaction in such a step is durable by itself, so a  *)
(* crash may leave the first ones of a step behind (CrashAt...).  Event    *)
(* contents and sequence numbers are left out: the scheduler always applies *)
(* at lastSequence + 1, and a terminal Run takes no event.                 *)
(***************************************************************************)
EXTENDS Naturals, Sequences, FiniteSets, SequencesExt

CONSTANTS
  Runs,                \* Runs whose target is a Hosted Agent
  AgentOf,             \* targetAgentId
  maximumConcurrency,  \* provider calls at a time
  MaxCrashes,          \* bound: crashes and shutdowns of Central
  MaxFailures          \* bound: onTerminal callbacks that reject

Agents == {AgentOf[r] : r \in Runs}

ASSUME HostedAssumption ==
  /\ maximumConcurrency \in Nat \ {0}
  /\ MaxCrashes \in Nat
  /\ MaxFailures \in Nat

terminalStates == {"completed", "failed", "canceled", "expired", "outcome_unknown"}

invocationTerminalStates == {"completed", "failed", "canceled", "outcome_unknown"}

VARIABLES
  run,        \* runs.state; "none": not created yet
  inv,        \* hosted_invocation_intents.state; "none": no row
  asked,      \* cancellation_requested_at is set
  presence,   \* agents.presence
  due,        \* the deadline has passed
  up,         \* the process: "up", "closing" (shutdown was called), "down"
  active,     \* this.active, in the order of the Map
  pc,         \* position of executeOne
  calling,    \* Runs whose creator has not called dispatchRun yet
  drains,     \* a drain microtask is queued
  note,       \* terminalNotification: "none", "pending", "done"
  aborted,    \* the AbortController fired
  calls,      \* history: provider requests opened for the Run
  crashes, failures

vars == <<run, inv, asked, presence, due, up, active, pc, calling, drains, note,
          aborted, calls, crashes, failures>>

memory == <<active, pc, calling, drains, note, aborted>>

Terminal(r) == run[r] \in terminalStates

Active(r) == Contains(active, r)

Position == {"idle", "started", "fetching", "ended", "notify", "notifyAgain"}

TypeOK ==
  /\ run \in [Runs -> {"none", "queued", "delivered", "working"} \cup terminalStates]
  /\ inv \in [Runs -> {"none", "prepared", "dispatching", "streaming"} \cup invocationTerminalStates]
  /\ asked \in [Runs -> BOOLEAN]
  /\ presence \in [Agents -> {"ready", "busy", "degraded"}]
  /\ due \in [Runs -> BOOLEAN]
  /\ up \in {"up", "closing", "down"}
  /\ active \in Seq(Runs) /\ Len(active) <= maximumConcurrency /\ IsInjective(active)
  /\ pc \in [Runs -> Position]
  /\ calling \subseteq Runs
  /\ drains \in BOOLEAN
  /\ note \in [Runs -> {"none", "pending", "done"}]
  /\ aborted \in [Runs -> BOOLEAN]
  /\ calls \in [Runs -> Nat]
  /\ crashes \in 0..MaxCrashes
  /\ failures \in 0..MaxFailures

Init ==
  /\ run = [r \in Runs |-> "none"]
  /\ inv = [r \in Runs |-> "none"]
  /\ asked = [r \in Runs |-> FALSE]
  /\ presence = [a \in Agents |-> "ready"]
  /\ due = [r \in Runs |-> FALSE]
  /\ up = "up"
  /\ active = << >>
  /\ pc = [r \in Runs |-> "idle"]
  /\ calling = {}
  /\ drains = FALSE
  /\ note = [r \in Runs |-> "none"]
  /\ aborted = [r \in Runs |-> FALSE]
  /\ calls = [r \in Runs |-> 0]
  /\ crashes = 0
  /\ failures = 0

-----------------------------------------------------------------------------
(* Rows *)

\* HostedInvocationRepository.settleFromRun: the state an invocation in state i
\* gets from a terminal Run in state s.
settleFromRun(i, s) ==
  IF i = "none" \/ i \in invocationTerminalStates THEN i
  ELSE IF s = "canceled" /\ i # "prepared" THEN "outcome_unknown"
  ELSE IF s = "expired" THEN "failed"
  ELSE s

\* applyEvent of a terminal status, which a terminal Run ignores.
finish(r, status) == IF Terminal(r) THEN run[r] ELSE status

\* projectHostedPresence; the Agent may have become unavailable.
projectHostedPresence(s) ==
  {"degraded"} \cup (IF s \in {"completed", "canceled", "expired"} THEN {"ready"} ELSE {})

\* The Run ends with status and its invocation is settled.
Settles(r, status) ==
  /\ run' = [run EXCEPT ![r] = finish(r, status)]
  /\ inv' = [inv EXCEPT ![r] = settleFromRun(inv[r], run'[r])]

SetPresence(r, p) == presence' = [presence EXCEPT ![AgentOf[r]] = p]

\* notifyTerminal: a notification in progress is joined, not repeated.
Notifies(r) == note' = [note EXCEPT ![r] = IF @ = "none" THEN "pending" ELSE @]

Goes(r, position) == pc' = [pc EXCEPT ![r] = position]

-----------------------------------------------------------------------------
(* Requests *)

\* createRuns commits; dispatchRun follows after an await.
CreateRun(r) ==
  /\ up = "up" /\ run[r] = "none"
  /\ run' = [run EXCEPT ![r] = "queued"]
  /\ calling' = calling \cup {r}
  /\ UNCHANGED <<inv, asked, presence, due, up, active, pc, drains, note, aborted,
                 calls, crashes, failures>>

\* enqueue
Enqueue(r) ==
  /\ up # "down" /\ r \in calling
  /\ calling' = calling \ {r}
  /\ drains' = (drains \/ (up = "up" /\ ~Terminal(r)))
  /\ UNCHANGED <<run, inv, asked, presence, due, up, active, pc, note, aborted,
                 calls, crashes, failures>>

\* What cancel() may claim: before the dispatch fence the Run is canceled, after
\* it the outcome is unknown.
cancelStatus(r) ==
  IF inv[r] \in {"none", "prepared"} THEN "canceled" ELSE "outcome_unknown"

\* HostedRunScheduler.cancel
Cancel(r) ==
  /\ up = "up" /\ run[r] # "none" /\ ~Terminal(r)
  /\ Settles(r, cancelStatus(r))
  /\ asked' = [asked EXCEPT ![r] = @ \/ inv[r] \in {"prepared", "dispatching", "streaming"}]
  /\ Notifies(r)
  /\ aborted' = [aborted EXCEPT ![r] = @ \/ (Active(r) /\ inv[r] \in {"dispatching", "streaming"})]
  /\ UNCHANGED <<presence, due, up, active, pc, calling, drains, calls, crashes, failures>>

\* RunRepository.expireQueued, when a member looks at the Room: it knows nothing
\* of invocations.
ExpireQueued(r) ==
  /\ up = "up" /\ run[r] = "queued" /\ due[r]
  /\ run' = [run EXCEPT ![r] = "expired"]
  /\ UNCHANGED <<inv, asked, presence, due, up, memory, calls, crashes, failures>>

\* HostedAgentConfigurationService.revokeCredential and revokeAgent: activeAgents
\* admits one active Run per Agent.  settleFromRun throws when the Run has not got
\* as far as its intent, and the abort is skipped.
RevokeAgent(a) ==
  /\ up = "up"
  /\ presence' = [presence EXCEPT ![a] = "degraded"]
  /\ LET Affected(r) == Active(r) /\ AgentOf[r] = a
     IN  /\ run' = [r \in Runs |-> IF Affected(r) THEN finish(r, "outcome_unknown") ELSE run[r]]
         /\ inv' = [r \in Runs |-> IF Affected(r) /\ ~Terminal(r)
                                  THEN settleFromRun(inv[r], run'[r]) ELSE inv[r]]
         /\ aborted' = [r \in Runs |-> aborted[r] \/ (Affected(r) /\ (Terminal(r) \/ inv[r] # "none"))]
  /\ UNCHANGED <<asked, calling, due, up, active, pc, drains, note, calls, crashes, failures>>

-----------------------------------------------------------------------------
(* The scheduler *)

\* listRunnableQueuedRunIds
Runnable(r) == run[r] = "queued" /\ inv[r] \in {"none", "prepared"} /\ ~asked[r]

\* Seeded defects: the Agents of active Runs, or the limit, are not considered.
CanStartAnyAgent(r) == Runnable(r) /\ ~Active(r) /\ Len(active) < maximumConcurrency

\* The conditions of drain()'s loop.
CanStart(r) ==
  /\ Runnable(r) /\ ~Active(r)
  /\ Len(active) < maximumConcurrency
  /\ \A q \in Runs : Active(q) => AgentOf[q] # AgentOf[r]

\* drain: starts Runs (the order of created_at is the order of the choices) until
\* none can be started; start() puts executeOne into a microtask of its own.
Drain ==
  /\ drains /\ up = "up"
  /\ IF \E r \in Runs : CanStart(r)
       THEN /\ \E r \in Runs :
                 /\ CanStart(r)
                 /\ active' = Append(active, r)
                 /\ Goes(r, "started")
                 /\ note' = [note EXCEPT ![r] = "none"]
                 /\ aborted' = [aborted EXCEPT ![r] = FALSE]
            /\ UNCHANGED drains
       ELSE drains' = FALSE /\ UNCHANGED <<active, pc, note, aborted>>
  /\ UNCHANGED <<run, inv, asked, presence, calling, due, up, calls, crashes, failures>>

\* executeOne, or markDispatching, finds that the deadline has passed; only the
\* former projects the presence.
ExpiresBeforeDispatch(r) ==
  /\ pc[r] = "started" /\ up # "down"
  /\ run[r] = "queued" /\ due[r]
  /\ Settles(r, "expired")
  /\ \E p \in {"ready", "degraded", presence[AgentOf[r]]} : SetPresence(r, p)
  /\ Notifies(r)
  /\ Goes(r, "notify")
  /\ UNCHANGED <<asked, calling, due, up, active, drains, aborted, calls, crashes, failures>>

\* failBeforeDispatch: the Room is gone or the Agent was removed from it.
AccessRevoked(r) ==
  /\ pc[r] = "started" /\ up # "down"
  /\ ~(run[r] = "queued" /\ due[r])
  /\ IF Terminal(r) THEN UNCHANGED <<run, inv, presence>>
     ELSE Settles(r, "failed") /\ SetPresence(r, "degraded")
  /\ Notifies(r)
  /\ Goes(r, "notify")
  /\ UNCHANGED <<asked, calling, due, up, active, drains, aborted, calls, crashes, failures>>

\* The catch block before the fence: the Run ended meanwhile, or the Agent, its
\* profile or its credential is unavailable or differs from the prepared intent.
PreparationFails(r) ==
  /\ pc[r] = "started" /\ up # "down"
  /\ ~(run[r] = "queued" /\ due[r])
  /\ Settles(r, "failed")
  /\ SetPresence(r, "degraded")
  /\ Notifies(r)
  /\ Goes(r, "notifyAgain")
  /\ UNCHANGED <<asked, calling, due, up, active, drains, aborted, calls, crashes, failures>>

\* executor.prepare and markDispatching: what lets a Run cross the dispatch fence.
fence(r) == run[r] = "queued" /\ inv[r] \in {"none", "prepared"}

\* executeOne up to the provider's request: prepare, markDispatching, delivered,
\* executePrepared, fetch.
Dispatch(r) ==
  /\ pc[r] = "started" /\ up # "down"
  /\ fence(r) /\ ~due[r]
  /\ inv' = [inv EXCEPT ![r] = "dispatching"]
  /\ run' = [run EXCEPT ![r] = "delivered"]
  /\ SetPresence(r, "busy")
  /\ calls' = [calls EXCEPT ![r] = @ + 1]
  /\ Goes(r, "fetching")
  /\ UNCHANGED <<asked, calling, due, up, active, drains, note, aborted, crashes, failures>>

\* The provider's stream begins: trackedAdapter.markStreaming, status working.
Streams(r) ==
  /\ pc[r] = "fetching" /\ up # "down"
  /\ run[r] = "delivered" \/ inv[r] = "dispatching"
  /\ inv' = [inv EXCEPT ![r] = IF @ = "dispatching" THEN "streaming" ELSE @]
  /\ run' = [run EXCEPT ![r] = finish(r, "working")]
  /\ UNCHANGED <<asked, presence, due, up, memory, calls, crashes, failures>>

\* The adapter ends or throws; InProcessRunExecutor records the outcome, unless the
\* Run has one.  An aborted request yields "canceled".
Ends(r) ==
  /\ pc[r] = "fetching" /\ up # "down"
  /\ \E status \in {"completed", "failed", "outcome_unknown"}
                   \cup (IF aborted[r] THEN {"canceled"} ELSE {}) :
       /\ status = "completed" => run[r] # "delivered"
       /\ run' = [run EXCEPT ![r] = finish(r, status)]
  /\ SetPresence(r, "ready")
  /\ Goes(r, "ended")
  /\ UNCHANGED <<inv, asked, calling, due, up, active, drains, note, aborted, calls, crashes, failures>>

\* The rest of executeOne: settle, project the presence, notify.
Settle(r) ==
  /\ pc[r] = "ended" /\ up # "down"
  /\ inv' = [inv EXCEPT ![r] = settleFromRun(@, run[r])]
  /\ \E p \in projectHostedPresence(run[r]) : SetPresence(r, p)
  /\ Notifies(r)
  /\ Goes(r, "notify")
  /\ UNCHANGED <<run, asked, calling, due, up, active, drains, aborted, calls, crashes, failures>>

\* deadlineTimer, armed from the dispatch on; the profile's timeout may be shorter
\* than the deadline.
TimerFires(r) ==
  /\ pc[r] \in {"fetching", "ended", "notify", "notifyAgain"} /\ calls[r] > 0
  /\ up = "up" /\ ~aborted[r]
  /\ IF Terminal(r) THEN UNCHANGED <<run, inv>> ELSE Settles(r, "outcome_unknown")
  /\ aborted' = [aborted EXCEPT ![r] = TRUE]
  /\ UNCHANGED <<asked, presence, calling, due, up, active, pc, drains, note, calls, crashes, failures>>

\* active.delete: the entry of the Run, wherever it stands.
Deletes(r) == \E i \in 1..Len(active) : active[i] = r /\ active' = RemoveAt(active, i)

\* Seeded defect: the freed slot is not announced.
LeavesQuietly(r) ==
  /\ Deletes(r)
  /\ aborted' = [aborted EXCEPT ![r] = FALSE]
  /\ UNCHANGED drains

\* The finally of start(): the slot is free and another drain is requested.
Leaves(r) ==
  /\ Deletes(r)
  /\ drains' = TRUE
  /\ aborted' = [aborted EXCEPT ![r] = FALSE]

\* onTerminal succeeds; a worker waiting for it leaves.
Notified(r) ==
  /\ note[r] = "pending" /\ up # "down"
  /\ note' = [note EXCEPT ![r] = "done"]
  /\ UNCHANGED <<run, inv, asked, presence, calling, due, up, active, pc, drains, aborted,
                 calls, crashes, failures>>

WorkerEnds(r) ==
  /\ pc[r] \in {"notify", "notifyAgain"} /\ up # "down"
  /\ note[r] = "done"
  /\ Goes(r, "idle")
  /\ Leaves(r)
  /\ UNCHANGED <<run, inv, asked, presence, calling, due, up, note, calls, crashes, failures>>

\* onTerminal rejects: a worker in executeOne's try block notifies once more from
\* the catch block, one in the catch block gives up, a canceler does nothing.
NotifyFails(r) ==
  /\ note[r] = "pending" /\ up # "down" /\ failures < MaxFailures
  /\ failures' = failures + 1
  /\ CASE pc[r] = "notify" ->
            /\ Goes(r, "notifyAgain")
            /\ SetPresence(r, "degraded")
            /\ UNCHANGED <<note, active, drains, aborted>>
       [] pc[r] = "notifyAgain" ->
            /\ Goes(r, "idle")
            /\ note' = [note EXCEPT ![r] = "none"]
            /\ Leaves(r)
            /\ UNCHANGED presence
       [] OTHER ->
            /\ note' = [note EXCEPT ![r] = "none"]
            /\ UNCHANGED <<pc, presence, active, drains, aborted>>
  /\ UNCHANGED <<run, inv, asked, calling, due, up, calls, crashes>>

-----------------------------------------------------------------------------
(* The end of the process and its recovery *)

Forgets ==
  /\ up' = "down"
  /\ crashes' = crashes + 1
  /\ active' = << >>
  /\ pc' = [r \in Runs |-> "idle"]
  /\ calling' = {}
  /\ drains' = FALSE
  /\ note' = [r \in Runs |-> "none"]
  /\ aborted' = [r \in Runs |-> FALSE]

Crash ==
  /\ up # "down" /\ crashes < MaxCrashes
  /\ Forgets
  /\ UNCHANGED <<run, inv, asked, presence, due, calls, failures>>

\* The process exits after a shutdown.
Exit == up = "closing" /\ Crash

\* Killed inside executeOne: after prepare, or after markDispatching, before the
\* request was opened.
CrashAtFence(r) ==
  /\ up # "down" /\ crashes < MaxCrashes
  /\ pc[r] = "started" /\ fence(r) /\ ~due[r]
  /\ \/ inv' = [inv EXCEPT ![r] = "prepared"] /\ UNCHANGED run
     \/ inv' = [inv EXCEPT ![r] = "dispatching"] /\ run' = [run EXCEPT ![r] = "delivered"]
  /\ Forgets
  /\ UNCHANGED <<asked, presence, due, calls, failures>>

\* Killed between the two transactions of a cancellation, a revocation or a
\* deadline: the Run has ended, its invocation has not.
CrashBeforeSettle(r) ==
  /\ up # "down" /\ crashes < MaxCrashes
  /\ inv[r] \in {"dispatching", "streaming"} /\ ~Terminal(r)
  /\ run' = [run EXCEPT ![r] = "outcome_unknown"]
  /\ Forgets
  /\ UNCHANGED <<inv, asked, presence, due, calls, failures>>

\* shutdown(): every active Run is ended and aborted, in the order of the Map, until
\* settleFromRun throws for one that has no intent yet.
Shutdown ==
  /\ up = "up" /\ crashes < MaxCrashes
  /\ up' = "closing"
  /\ LET Throws(i) == ~Terminal(active[i]) /\ inv[active[i]] = "none"
         reached == {active[i] : i \in {j \in DOMAIN active : \A k \in 1..(j-1) : ~Throws(k)}}
     IN  /\ run' = [r \in Runs |-> IF r \in reached THEN finish(r, "outcome_unknown") ELSE run[r]]
         /\ inv' = [r \in Runs |-> IF r \in reached /\ ~Terminal(r)
                                  THEN settleFromRun(inv[r], run'[r]) ELSE inv[r]]
         /\ aborted' = [r \in Runs |-> aborted[r] \/ (r \in reached /\ (Terminal(r) \/ inv[r] # "none"))]
  /\ UNCHANGED <<asked, presence, calling, due, active, pc, drains, note, calls, crashes, failures>>

\* Seeded defect: recovery takes an intent that crossed the fence for one that did not.
recoveredOptimistic(r) ==
  IF inv[r] \in {"none", "prepared", "dispatching"} /\ ~Terminal(r)
  THEN [run |-> "queued", inv |-> IF inv[r] = "none" THEN "none" ELSE "prepared"]
  ELSE [run |-> finish(r, "outcome_unknown"), inv |-> settleFromRun(inv[r], finish(r, "outcome_unknown"))]

\* HostedInvocationRepository.recover, for one Run.
recovered(r) ==
  IF run[r] = "none" THEN [run |-> "none", inv |-> inv[r]]
  ELSE IF Terminal(r) THEN [run |-> run[r], inv |-> settleFromRun(inv[r], run[r])]
  ELSE IF inv[r] = "prepared" /\ asked[r] THEN [run |-> "canceled", inv |-> "canceled"]
  ELSE IF inv[r] \in {"none", "prepared"} /\ run[r] = "queued"
         THEN [run |-> "queued", inv |-> inv[r]]
  ELSE [run |-> "outcome_unknown",
        inv |-> CASE inv[r] = "none" -> "none"
                  [] inv[r] = "prepared" -> "failed"
                  [] OTHER -> "outcome_unknown"]

\* HostedRunScheduler.recover at startup.
Restart ==
  /\ up = "down"
  /\ up' = "up"
  /\ run' = [r \in Runs |-> recovered(r).run]
  /\ inv' = [r \in Runs |-> recovered(r).inv]
  /\ LET Of(a, S) == {r \in S : AgentOf[r] = a}
         unknown == {r \in Runs : run[r] # run'[r] /\ run'[r] = "outcome_unknown"}
         reconciled == {r \in Runs : inv[r] # inv'[r]}
         Projected(a) ==
           CASE Of(a, unknown) # {} -> {"degraded"}
             [] Of(a, unknown) = {} /\ Of(a, reconciled) # {} ->
                  UNION {projectHostedPresence(run'[r]) : r \in Of(a, reconciled)}
             [] OTHER -> {presence[a]}
     IN  \E f \in [Agents -> {"ready", "busy", "degraded"}] :
           presence' = f /\ \A a \in Agents : f[a] \in Projected(a)
  /\ drains' = \E r \in Runs : run'[r] = "queued"
  /\ UNCHANGED <<asked, calling, due, active, pc, note, aborted, calls, crashes, failures>>

\* Time passes.
DeadlinePasses(r) ==
  /\ ~due[r] /\ run[r] # "none"
  /\ due' = [due EXCEPT ![r] = TRUE]
  /\ UNCHANGED <<run, inv, asked, presence, up, memory, calls, crashes, failures>>

-----------------------------------------------------------------------------
Worker(r) ==
  \/ ExpiresBeforeDispatch(r)
  \/ AccessRevoked(r)
  \/ PreparationFails(r)
  \/ Dispatch(r)
  \/ Streams(r)
  \/ Ends(r)
  \/ Settle(r)
  \/ WorkerEnds(r)

Next ==
  \/ \E r \in Runs : CreateRun(r)
  \/ \E r \in Runs : Enqueue(r)
  \/ \E r \in Runs : Cancel(r)
  \/ \E r \in Runs : ExpireQueued(r)
  \/ \E a \in Agents : RevokeAgent(a)
  \/ Drain
  \/ \E r \in Runs : Worker(r)
  \/ \E r \in Runs : Notified(r)
  \/ \E r \in Runs : NotifyFails(r)
  \/ \E r \in Runs : TimerFires(r)
  \/ \E r \in Runs : DeadlinePasses(r)
  \/ Crash
  \/ \E r \in Runs : CrashAtFence(r)
  \/ \E r \in Runs : CrashBeforeSettle(r)
  \/ Shutdown
  \/ Restart

\* executeOne goes on: at each of its positions some step of these can be taken, and
\* no two positions are taken at a time.
WorkerGoesOn(r) ==
  \/ ExpiresBeforeDispatch(r) \/ PreparationFails(r) \/ Dispatch(r)
  \/ Ends(r) \/ Settle(r) \/ WorkerEnds(r)

\* A shut down process exits and a stopped one is started again.
ProcessGoesOn == Exit \/ Restart

(* The event loop runs, requests end (a timer aborts them), callbacks end, a
   created Run is dispatched and a stopped Central is started again. *)
Fairness ==
  /\ WF_vars(Drain)
  /\ \A r \in Runs : WF_vars(WorkerGoesOn(r)) /\ WF_vars(Enqueue(r)) /\ WF_vars(Notified(r))
  /\ WF_vars(ProcessGoesOn)

Spec == Init /\ [][Next]_vars /\ Fairness

-----------------------------------------------------------------------------
(* Properties *)

\* The provider is called at most once for a Run, whatever crashes, restarts, expiries and
\* cancellations happen around the dispatch fence (markDispatching, recover); a Run that
\* is recorded as canceled or expired was never sent: cancel and the deadline may claim
\* so only on their side of the fence.
ProviderCalledOnce ==
  \A r \in Runs : calls[r] <= IF run[r] \in {"canceled", "expired"} THEN 0 ELSE 1

\* The calls to the provider in progress are of different Agents and no more than
\* maximumConcurrency (active, activeAgents and the drain loop), a Run being only
\* called for once its intent crossed the fence.
CallsBounded ==
  LET inCall == {r \in Runs : pc[r] = "fetching"}
  IN  /\ Cardinality(inCall) <= maximumConcurrency
      /\ \A r, q \in inCall : AgentOf[r] = AgentOf[q] => r = q
      /\ \A r \in inCall : inv[r] \notin {"none", "prepared"}

\* The intent and the Run tell one story although they are settled in different
\* transactions by cancel, timer, revocation, shutdown, executor and recovery: an
\* accepted Run has an open intent, a settled intent has the outcome of its Run.
IntentAgrees ==
  \A r \in Runs :
    /\ run[r] \in {"delivered", "working"} => inv[r] \in {"dispatching", "streaming"}
    /\ inv[r] \in invocationTerminalStates =>
         run[r] = inv[r] \/ (inv[r] = "failed" /\ run[r] = "expired")

\* The scheduler's memory, the Runs and their intents fit together.
SchedulerConsistent == TypeOK /\ CallsBounded /\ IntentAgrees
=============================================================================
