-------------------------- MODULE AgentExecutionGate --------------------------
(***************************************************************************)
(* delivery.AgentExecutionGate of the Bridge: one active Runtime           *)
(* invocation per Agent, a FIFO queue of waiters, and waiters that leave   *)
(* because their context ended while release is handing the gate to them.  *)
(*                                                                         *)
(* A caller is a goroutine that calls Acquire and, if it got the gate, the *)
(* release function.  What happens under the mutex is one step; between    *)
(* the select and the next lock the other callers go on.                   *)
(***************************************************************************)
EXTENDS Naturals, Sequences

CONSTANTS
  Callers,   \* goroutines
  Agents,    \* Agent identities
  AgentOf    \* the Agent each caller asks for

ASSUME AgentOfAssumption == AgentOf \in [Callers -> Agents]

VARIABLES
  active,   \* g.active
  queues,   \* g.queues: the waiters of each Agent
  ready,    \* the ready channel of the caller's waiter is closed
  done,     \* the caller's context has ended
  pc        \* where the caller is

vars == <<active, queues, ready, done, pc>>

\* "select": waiting; "leave": woken by ctx.Done; "giveUp": owns the gate and is
\* about to release it unused; "holding": Acquire returned the release function.
TypeOK ==
  /\ active \in [Agents -> BOOLEAN]
  /\ queues \in [Agents -> Seq(Callers)]
  /\ ready \in [Callers -> BOOLEAN]
  /\ done \in [Callers -> BOOLEAN]
  /\ pc \in [Callers -> {"idle", "select", "leave", "giveUp", "holding"}]

Init ==
  /\ active = [a \in Agents |-> FALSE]
  /\ queues = [a \in Agents |-> << >>]
  /\ ready = [c \in Callers |-> FALSE]
  /\ done = [c \in Callers |-> FALSE]
  /\ pc = [c \in Callers |-> "idle"]

\* append(queue[:i], queue[i+1:]...)
Without(q, i) == [k \in 1 .. Len(q) - 1 |-> IF k < i THEN q[k] ELSE q[k + 1]]

\* The call is over; the next one makes a waiter of its own.
Return(c) ==
  /\ pc' = [pc EXCEPT ![c] = "idle"]
  /\ done' = [done EXCEPT ![c] = FALSE]

\* The context of a caller ends, at any time.
EndContext(c) ==
  /\ pc[c] \in {"select", "holding"}
  /\ ~done[c]
  /\ done' = [done EXCEPT ![c] = TRUE]
  /\ UNCHANGED <<active, queues, ready, pc>>

\* Acquire up to the select.  A free gate is taken even if the context has ended.
Acquire(c) ==
  LET a == AgentOf[c]
  IN  /\ pc[c] = "idle"
      /\ IF ~active[a]
         THEN /\ active' = [active EXCEPT ![a] = TRUE]
              /\ pc' = [pc EXCEPT ![c] = "holding"]
              /\ UNCHANGED queues
         ELSE /\ queues' = [queues EXCEPT ![a] = Append(@, c)]
              /\ pc' = [pc EXCEPT ![c] = "select"]
              /\ UNCHANGED active
      /\ \E ended \in BOOLEAN : done' = [done EXCEPT ![c] = ended]
      /\ UNCHANGED ready

\* case <-waiter.ready
SelectReady(c) ==
  /\ pc[c] = "select"
  /\ ready[c]
  /\ ready' = [ready EXCEPT ![c] = FALSE]
  /\ pc' = [pc EXCEPT ![c] = IF done[c] THEN "giveUp" ELSE "holding"]
  /\ UNCHANGED <<active, queues, done>>

\* case <-ctx.Done(), which select may choose although the waiter is ready
SelectDone(c) ==
  /\ pc[c] = "select"
  /\ done[c]
  /\ pc' = [pc EXCEPT ![c] = "leave"]
  /\ UNCHANGED <<active, queues, ready, done>>

\* Seeded defect: a waiter that release selected leaves without releasing.
LeaveQueueOwning(c) ==
  LET a == AgentOf[c]
      at == {i \in 1 .. Len(queues[a]) : queues[a][i] = c}
  IN  /\ pc[c] = "leave"
      /\ queues' = IF at = {} THEN queues
                   ELSE [queues EXCEPT ![a] = Without(@, CHOOSE i \in at : TRUE)]
      /\ ready' = [ready EXCEPT ![c] = FALSE]
      /\ Return(c)
      /\ UNCHANGED active

\* The waiter is removed from the queue, unless release has selected it.
LeaveQueue(c) ==
  LET a == AgentOf[c]
      at == {i \in 1 .. Len(queues[a]) : queues[a][i] = c}
  IN  /\ pc[c] = "leave"
      /\ IF at = {}
         THEN /\ pc' = [pc EXCEPT ![c] = "giveUp"]
              /\ ready' = [ready EXCEPT ![c] = FALSE]
              /\ UNCHANGED <<queues, done>>
         ELSE /\ \E i \in at : queues' = [queues EXCEPT ![a] = Without(@, i)]
              /\ Return(c)
              /\ UNCHANGED ready
      /\ UNCHANGED active

\* Seeded defect: the gate is handed to the waiter that came last.
ReleaseToLast(c) ==
  LET a == AgentOf[c]
      n == Len(queues[a])
  IN  /\ pc[c] \in {"holding", "giveUp"}
      /\ IF n = 0
         THEN active' = [active EXCEPT ![a] = FALSE] /\ UNCHANGED <<queues, ready>>
         ELSE /\ ready' = [ready EXCEPT ![queues[a][n]] = TRUE]
              /\ queues' = [queues EXCEPT ![a] = Without(@, n)]
              /\ UNCHANGED active
      /\ Return(c)

\* release, by a holder or by a caller that gives up: the first waiter owns the gate
\* without active ever being cleared, or nobody does.
Release(c) ==
  LET a == AgentOf[c]
  IN  /\ pc[c] \in {"holding", "giveUp"}
      /\ IF queues[a] = << >>
         THEN active' = [active EXCEPT ![a] = FALSE] /\ UNCHANGED <<queues, ready>>
         ELSE /\ ready' = [ready EXCEPT ![Head(queues[a])] = TRUE]
              /\ queues' = [queues EXCEPT ![a] = Tail(@)]
              /\ UNCHANGED active
      /\ Return(c)

Step(c) == SelectReady(c) \/ SelectDone(c) \/ LeaveQueue(c) \/ Release(c)

Next == \E c \in Callers : Acquire(c) \/ EndContext(c) \/ Step(c)

Spec == Init /\ [][Next]_vars

-----------------------------------------------------------------------------
(* Properties *)

\* At most one caller holds the gate of an Agent (agent_execution_gate.go: "one active
\* Runtime invocation per Agent"), whichever waiters leave while it is handed over.
OneHolderPerAgent ==
  \A c, d \in Callers :
    pc[c] = "holding" /\ pc[d] = "holding" /\ AgentOf[c] = AgentOf[d] => c = d

\* The caller owns the gate: it holds it, is about to give it up, or was selected.
Owns(c) == pc[c] \in {"holding", "giveUp"} \/ ready[c]

\* The gate is never lost: as long as it is taken, somebody owns it who will release
\* it, and nobody waits for a free one.
GateNotLost ==
  \A a \in Agents :
    /\ active[a] => \E c \in Callers : AgentOf[c] = a /\ Owns(c)
    /\ queues[a] # << >> => active[a]

\* The gate is exclusive and not lost.
AgentGateKept == OneHolderPerAgent /\ GateNotLost

\* Waiters are served in the order of their arrival: the gate goes to the caller
\* at the head of the queue, never to one that arrives while others wait.
FirstComeFirstServed ==
  [][\A c \in Callers :
       ~Owns(c) /\ Owns(c)' =>
         LET q == queues[AgentOf[c]] IN q = << >> \/ Head(q) = c]_vars

\* Goroutines go on, and a Runtime invocation ends: the deferred release runs.
Fairness == \A c \in Callers : WF_vars(Step(c))

\* A caller that waits gets the gate or leaves, even if nobody's context ever ends.
WaiterServed == \A c \in Callers : pc[c] = "select" ~> pc[c] # "select"
=============================================================================
