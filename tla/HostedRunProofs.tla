--------------------------- MODULE HostedRunProofs ---------------------------
(***************************************************************************)
(* Proofs about HostedRun for every set of Runs and Agents, every limit of *)
(* concurrent calls and every number of crashes: the provider is called at *)
(* most once for a Run, and never for one that is canceled or expired; the *)
(* calls in progress are within their limits; Run and intent agree.        *)
(***************************************************************************)
EXTENDS HostedRun, FiniteSetTheorems, TLAPS

-----------------------------------------------------------------------------
(* The inductive invariant                                                 *)
(*                                                                         *)
(* The rows of a Run are written by requests, timers, the worker, recovery *)
(* and the end of the process, in transactions of their own.  What they    *)
(* leave is related to the calls made, the abort and the worker's position *)
(* of the same Run, and to no other Run.                                   *)

RunState == {"none", "queued", "delivered", "working"} \cup terminalStates

IntentState == {"none", "prepared", "dispatching", "streaming"} \cup invocationTerminalStates

\* The Run is in state s, its intent in state i, n calls were made, a says whether it
\* was aborted and p is the position of its worker.
RowOK(s, i, n, a, p) ==
  /\ n <= IF s \in {"canceled", "expired"} THEN 0 ELSE 1
  /\ n > 0 => i \notin {"none", "prepared"} /\ s \notin {"none", "queued"}
  /\ i \in {"dispatching", "streaming"} => s \notin {"none", "queued"}
  /\ s = "canceled" => i \in {"none", "canceled"}
  /\ a => s \in terminalStates
  /\ p = "fetching" => n > 0
  /\ p = "ended" => s \in terminalStates
  /\ s \in {"delivered", "working"} => i \in {"dispatching", "streaming"}
  /\ i \in invocationTerminalStates => s = i \/ (i = "failed" /\ s = "expired")

Row(r) == RowOK(run[r], inv[r], calls[r], aborted[r], pc[r])

\* Every worker has its entry in the Map, and the entries are of different Agents.
ActiveInv ==
  /\ \A i, j \in 1 .. Len(active) : AgentOf[active[i]] = AgentOf[active[j]] => i = j
  /\ \A r \in Runs : pc[r] # "idle" => \E i \in 1 .. Len(active) : active[i] = r

\* A process that is down has no worker.
DownInv == up = "down" => \A r \in Runs : pc[r] = "idle"

HostedInv == TypeOK /\ ActiveInv /\ DownInv /\ \A r \in Runs : Row(r)

-----------------------------------------------------------------------------
(* Rows *)

\* An intent that is settled from a terminal Run is an intent.
LEMMA SettleType ==
  ASSUME NEW i \in IntentState, NEW s \in terminalStates
  PROVE  settleFromRun(i, s) \in IntentState
BY DEF settleFromRun, IntentState, invocationTerminalStates, terminalStates

\* Ending a Run, unless it has ended, and settling its intent keeps its rows in order:
\* it may only be canceled before the fence, and only expire if no call was made.
LEMMA SettleRow ==
  ASSUME NEW s \in RunState, NEW i \in IntentState, NEW n \in Nat, NEW a \in BOOLEAN,
         NEW p \in Position, RowOK(s, i, n, a, p),
         NEW t \in terminalStates,
         t = "canceled" => s \in terminalStates \/ i \in {"none", "prepared"},
         t = "expired" => s \in terminalStates \/ n = 0,
         NEW b \in BOOLEAN, NEW q \in Position, q = "fetching" => p = "fetching",
         NEW z, z = IF s \in terminalStates THEN s ELSE t
  PROVE  RowOK(z, settleFromRun(i, z), n, b, q)
<1>1. CASE s \in terminalStates
  BY <1>1 DEF RowOK, settleFromRun, RunState, IntentState, terminalStates,
              invocationTerminalStates
<1>2. CASE s \notin terminalStates
  BY <1>2 DEF RowOK, settleFromRun, RunState, IntentState, terminalStates,
              invocationTerminalStates
<1> QED
  BY <1>1, <1>2

\* A Run that ends while its intent is open, and is settled later.
LEMMA EndRow ==
  ASSUME NEW s \in RunState, NEW i \in {"dispatching", "streaming"}, NEW n \in Nat,
         NEW a \in BOOLEAN, NEW p \in Position, RowOK(s, i, n, a, p), s \notin terminalStates,
         NEW t \in {"completed", "failed", "outcome_unknown"},
         NEW b \in BOOLEAN, NEW q \in Position, q # "fetching"
  PROVE  RowOK(t, i, n, b, q)
BY DEF RowOK, terminalStates, invocationTerminalStates

\* Recovery brings the rows of a Run in order.
LEMMA RecoveredRow ==
  ASSUME TypeOK, NEW r \in Runs, Row(r)
  PROVE  /\ recovered(r).run \in RunState
         /\ recovered(r).inv \in IntentState
         /\ \A p \in Position, b \in BOOLEAN :
              p \notin {"fetching", "ended"} /\ (b => Terminal(r))
                => RowOK(recovered(r).run, recovered(r).inv, calls[r], b, p)
<1>1. run[r] \in RunState /\ inv[r] \in IntentState /\ calls[r] \in Nat
  BY DEF TypeOK, RunState, IntentState
<1>2. CASE run[r] = "none"
  BY <1>1, <1>2 DEF recovered, Row, RowOK, Terminal, terminalStates, RunState
<1>3. CASE Terminal(r)
  <2>1. recovered(r) = [run |-> run[r], inv |-> settleFromRun(inv[r], run[r])]
    BY <1>1, <1>3 DEF recovered, Terminal, terminalStates
  <2>2. run[r] \in terminalStates
    BY <1>3 DEF Terminal
  <2>3. settleFromRun(inv[r], run[r]) \in IntentState
    BY <1>1, <2>2, SettleType
  <2>4. ASSUME NEW p \in Position, NEW b \in BOOLEAN, p \notin {"fetching", "ended"}
        PROVE  RowOK(run[r], settleFromRun(inv[r], run[r]), calls[r], b, p)
    BY <1>1, <2>2, <2>4 DEF Row, RowOK, settleFromRun, RunState, IntentState, terminalStates,
                            invocationTerminalStates
  <2> QED
    BY <1>1, <2>1, <2>3, <2>4
<1>4. CASE run[r] # "none" /\ ~Terminal(r)
  <2>1. CASE inv[r] = "prepared" /\ asked[r]
    <3>1. recovered(r) = [run |-> "canceled", inv |-> "canceled"]
      BY <1>4, <2>1 DEF recovered
    <3> QED
      BY <1>1, <1>4, <2>1, <3>1 DEF Row, RowOK, Terminal, RunState, IntentState,
                                    terminalStates, invocationTerminalStates
  <2>2. CASE ~(inv[r] = "prepared" /\ asked[r]) /\ inv[r] \in {"none", "prepared"} /\ run[r] = "queued"
    <3>1. recovered(r) = [run |-> "queued", inv |-> inv[r]]
      BY <1>4, <2>2 DEF recovered
    <3> QED
      BY <1>1, <1>4, <2>2, <3>1 DEF Row, RowOK, Terminal, RunState, terminalStates,
                                    invocationTerminalStates
  <2>3. CASE ~(inv[r] = "prepared" /\ asked[r]) /\ ~(inv[r] \in {"none", "prepared"} /\ run[r] = "queued")
    <3>1. inv[r] \in {"dispatching", "streaming"}
      BY <1>1, <1>4, <2>3 DEF Row, RowOK, Terminal, RunState, IntentState, terminalStates,
                              invocationTerminalStates
    <3>2. recovered(r) = [run |-> "outcome_unknown", inv |-> "outcome_unknown"]
      BY <1>4, <2>3, <3>1 DEF recovered
    <3> QED
      BY <1>1, <1>4, <3>1, <3>2 DEF Row, RowOK, Terminal, RunState, IntentState,
                                    terminalStates, invocationTerminalStates
  <2> QED
    BY <2>1, <2>2, <2>3
<1> QED
  BY <1>2, <1>3, <1>4

\* What the type invariant says of one Run.
LEMMA RowType ==
  ASSUME TypeOK, NEW r \in Runs
  PROVE  /\ run[r] \in RunState /\ inv[r] \in IntentState /\ calls[r] \in Nat
         /\ aborted[r] \in BOOLEAN /\ pc[r] \in Position
         /\ presence[AgentOf[r]] \in {"ready", "busy", "degraded"}
BY DEF TypeOK, RunState, IntentState, Agents

\* Settles, with what the same step does to the abort and the worker, keeps the rows of
\* the Run in order and touches no other Run.
LEMMA SettlesKeepsRow ==
  ASSUME TypeOK, NEW r \in Runs, Row(r), NEW t \in terminalStates, Settles(r, t),
         t = "canceled" => Terminal(r) \/ inv[r] \in {"none", "prepared"},
         t = "expired" => Terminal(r) \/ calls[r] = 0,
         calls' = calls, aborted'[r] \in BOOLEAN, pc'[r] \in Position,
         pc'[r] = "fetching" => pc[r] = "fetching"
  PROVE  /\ Row(r)'
         /\ run' \in [Runs -> RunState] /\ inv' \in [Runs -> IntentState]
         /\ \A q \in Runs \ {r} : run'[q] = run[q] /\ inv'[q] = inv[q]
<1>1. /\ run[r] \in RunState /\ inv[r] \in IntentState /\ calls[r] \in Nat
      /\ aborted[r] \in BOOLEAN /\ pc[r] \in Position
  BY RowType
<1>2. run \in [Runs -> RunState] /\ inv \in [Runs -> IntentState]
  BY DEF TypeOK, RunState, IntentState
<1> DEFINE z == IF run[r] \in terminalStates THEN run[r] ELSE t
<1>3. z \in terminalStates
  OBVIOUS
<1>4. run' = [run EXCEPT ![r] = z]
  BY DEF Settles, finish, Terminal
<1>5. run'[r] = z
  BY <1>2, <1>4
<1>6. inv' = [inv EXCEPT ![r] = settleFromRun(inv[r], z)]
  BY <1>5 DEF Settles
<1>7. settleFromRun(inv[r], z) \in IntentState
  BY <1>1, <1>3, SettleType
<1>8. RowOK(z, settleFromRun(inv[r], z), calls[r], aborted'[r], pc'[r])
  <2>1. RowOK(run[r], inv[r], calls[r], aborted[r], pc[r])
    BY DEF Row
  <2>2. t = "canceled" => run[r] \in terminalStates \/ inv[r] \in {"none", "prepared"}
    BY DEF Terminal
  <2>3. t = "expired" => run[r] \in terminalStates \/ calls[r] = 0
    BY DEF Terminal
  <2> QED
    BY <1>1, <2>1, <2>2, <2>3, SettleRow
<1>9. inv'[r] = settleFromRun(inv[r], z)
  BY <1>2, <1>6
<1>10. Row(r)'
  BY <1>5, <1>8, <1>9 DEF Row
<1>11. z \in RunState
  BY <1>3 DEF RunState
<1> HIDE DEF z
<1> QED
  BY <1>2, <1>4, <1>6, <1>7, <1>10, <1>11

\* Revocation and shutdown: the Run of an active worker ends with an unknown outcome,
\* and its abort is skipped when it has no intent.
LEMMA EndedRow ==
  ASSUME TypeOK, NEW q \in Runs, Row(q), NEW hit \in BOOLEAN,
         run'[q] = IF hit THEN finish(q, "outcome_unknown") ELSE run[q],
         inv'[q] = IF hit /\ ~Terminal(q) THEN settleFromRun(inv[q], run'[q]) ELSE inv[q],
         aborted'[q] = (aborted[q] \/ (hit /\ (Terminal(q) \/ inv[q] # "none"))),
         calls' = calls, pc' = pc
  PROVE  Row(q)' /\ run'[q] \in RunState /\ inv'[q] \in IntentState /\ aborted'[q] \in BOOLEAN
<1>1. /\ run[q] \in RunState /\ inv[q] \in IntentState /\ calls[q] \in Nat
      /\ aborted[q] \in BOOLEAN /\ pc[q] \in Position
  BY RowType
<1>2. RowOK(run[q], inv[q], calls[q], aborted[q], pc[q])
  BY DEF Row
<1>3. CASE ~hit \/ Terminal(q)
  <2>1. run'[q] = run[q] /\ inv'[q] = inv[q]
    BY <1>3 DEF finish
  <2>2. aborted'[q] \in BOOLEAN /\ (aborted'[q] => aborted[q] \/ run[q] \in terminalStates)
    BY <1>1, <1>3 DEF Terminal
  <2>3. RowOK(run[q], inv[q], calls[q], aborted'[q], pc[q])
    BY <1>1, <1>2, <2>2 DEF RowOK
  <2> QED
    BY <1>1, <2>1, <2>2, <2>3 DEF Row
<1>4. CASE hit /\ ~Terminal(q)
  <2>1. run'[q] = "outcome_unknown" /\ inv'[q] = settleFromRun(inv[q], "outcome_unknown")
    BY <1>4 DEF finish
  <2>2. "outcome_unknown" \in terminalStates /\ run[q] \notin terminalStates
    BY <1>4 DEF terminalStates, Terminal
  <2>3. aborted'[q] \in BOOLEAN
    BY <1>1
  <2>4. RowOK("outcome_unknown", settleFromRun(inv[q], "outcome_unknown"), calls[q], aborted'[q], pc[q])
    BY <1>1, <1>2, <2>2, <2>3, SettleRow
  <2> QED
    BY <1>1, <2>1, <2>2, <2>3, <2>4, SettleType DEF Row, RunState
<1> QED
  BY <1>3, <1>4

-----------------------------------------------------------------------------
(* The steps and the rows *)

\* A step that concerns one Run.
Local(r) ==
  \A q \in Runs \ {r} :
    /\ run'[q] = run[q] /\ inv'[q] = inv[q] /\ calls'[q] = calls[q]
    /\ aborted'[q] = aborted[q] /\ pc'[q] = pc[q]

\* It is enough to look at that Run.
LEMMA LocalStep ==
  ASSUME NEW r \in Runs, \A q \in Runs : Row(q), Local(r), Row(r)'
  PROVE  \A q \in Runs : Row(q)'
<1> SUFFICES ASSUME NEW q \in Runs, q # r
             PROVE  Row(q)'
  OBVIOUS
<1> QED
  BY DEF Local, Row

\* A step that writes no row, makes no call and leaves every worker where it is.
LEMMA RowsUnchanged ==
  ASSUME \A q \in Runs : Row(q), UNCHANGED <<run, inv, calls, aborted, pc>>
  PROVE  \A q \in Runs : Row(q)'
BY DEF Row

\* The requests of members: a Run is created, enqueued, canceled, expires or loses its Agent.
LEMMA RequestRows ==
  ASSUME HostedInv,
         \/ \E r \in Runs : CreateRun(r) \/ Enqueue(r) \/ Cancel(r) \/ ExpireQueued(r)
         \/ \E a \in Agents : RevokeAgent(a)
  PROVE  \A q \in Runs : Row(q)'
<1> USE DEF HostedInv
<1>1. ASSUME NEW r \in Runs, CreateRun(r)
      PROVE  \A q \in Runs : Row(q)'
  <2>1. Local(r)
    BY <1>1 DEF CreateRun, Local, TypeOK
  <2>2. run'[r] = "queued" /\ inv'[r] = inv[r] /\ calls'[r] = calls[r] /\ aborted'[r] = aborted[r] /\ pc'[r] = pc[r]
    BY <1>1 DEF CreateRun, TypeOK
  <2>3. Row(r)'
    BY <1>1, <2>2, RowType DEF CreateRun, Row, RowOK, RunState, IntentState, Position, terminalStates, invocationTerminalStates
  <2> QED
    BY <2>1, <2>3, LocalStep
<1>2. ASSUME NEW r \in Runs, Enqueue(r)
      PROVE  \A q \in Runs : Row(q)'
  BY <1>2, RowsUnchanged DEF Enqueue
<1>3. ASSUME NEW r \in Runs, Cancel(r)
      PROVE  \A q \in Runs : Row(q)'
  <2>1. aborted'[r] \in BOOLEAN /\ \A q \in Runs \ {r} : aborted'[q] = aborted[q]
    BY <1>3 DEF Cancel, TypeOK
  <2>2. cancelStatus(r) \in {"canceled", "outcome_unknown"} /\ (cancelStatus(r) = "canceled" => inv[r] \in {"none", "prepared"})
    BY DEF cancelStatus
  <2>3. Row(r)' /\ \A q \in Runs \ {r} : run'[q] = run[q] /\ inv'[q] = inv[q]
    <3>1. cancelStatus(r) \in terminalStates /\ cancelStatus(r) # "expired"
      BY <2>2 DEF terminalStates
    <3>2. Settles(r, cancelStatus(r)) /\ calls' = calls /\ pc' = pc
      BY <1>3 DEF Cancel
    <3> QED
      BY <2>1, <2>2, <3>1, <3>2, RowType, SettlesKeepsRow
  <2> QED
    BY <1>3, <2>1, <2>3, LocalStep DEF Cancel, Local
<1>4. ASSUME NEW r \in Runs, ExpireQueued(r)
      PROVE  \A q \in Runs : Row(q)'
  <2>1. Local(r)
    BY <1>4 DEF ExpireQueued, Local, TypeOK, memory
  <2>2. run'[r] = "expired" /\ inv'[r] = inv[r] /\ calls'[r] = calls[r] /\ aborted'[r] = aborted[r] /\ pc'[r] = pc[r]
    BY <1>4 DEF ExpireQueued, TypeOK, memory
  <2>3. Row(r)'
    BY <1>4, <2>2, RowType DEF ExpireQueued, Row, RowOK, RunState, IntentState, Position, terminalStates, invocationTerminalStates
  <2> QED
    BY <2>1, <2>3, LocalStep
<1>5. ASSUME NEW a \in Agents, RevokeAgent(a), NEW q \in Runs
      PROVE  Row(q)'
  <2> DEFINE hit == Active(q) /\ AgentOf[q] = a
  <2>1. /\ run'[q] = IF hit THEN finish(q, "outcome_unknown") ELSE run[q]
        /\ inv'[q] = IF hit /\ ~Terminal(q) THEN settleFromRun(inv[q], run'[q]) ELSE inv[q]
        /\ aborted'[q] = (aborted[q] \/ (hit /\ (Terminal(q) \/ inv[q] # "none")))
        /\ calls' = calls /\ pc' = pc
    BY <1>5 DEF RevokeAgent
  <2> HIDE DEF hit
  <2> QED
    BY <2>1, EndedRow
<1> QED
  BY <1>1, <1>2, <1>3, <1>4, <1>5

\* drain: a worker starts with a controller of its own.
LEMMA DrainRows ==
  ASSUME HostedInv, Drain
  PROVE  \A q \in Runs : Row(q)'
<1> USE DEF HostedInv
<1>1. UNCHANGED <<run, inv, calls>>
  BY DEF Drain
<1>2. CASE UNCHANGED <<active, pc, note, aborted>>
  BY <1>1, <1>2, RowsUnchanged
<1>3. ASSUME NEW r \in Runs, CanStart(r), Goes(r, "started"), aborted' = [aborted EXCEPT ![r] = FALSE]
      PROVE  \A q \in Runs : Row(q)'
  <2>1. Local(r)
    BY <1>1, <1>3 DEF Local, Goes, TypeOK
  <2>2. aborted'[r] = FALSE /\ pc'[r] = "started"
    BY <1>3 DEF Goes, TypeOK
  <2>3. Row(r)'
    BY <1>1, <2>2 DEF Row, RowOK
  <2> QED
    BY <2>1, <2>3, LocalStep
<1> QED
  BY <1>2, <1>3 DEF Drain

\* A worker before the fence: its Run expires, loses its Room or cannot be prepared.
LEMMA BeforeFenceRows ==
  ASSUME HostedInv, NEW r \in Runs,
         ExpiresBeforeDispatch(r) \/ AccessRevoked(r) \/ PreparationFails(r)
  PROVE  \A q \in Runs : Row(q)'
<1> USE DEF HostedInv
<1>1. calls' = calls /\ aborted' = aborted
  BY DEF ExpiresBeforeDispatch, AccessRevoked, PreparationFails
<1>2. pc' = [pc EXCEPT ![r] = "notify"] \/ pc' = [pc EXCEPT ![r] = "notifyAgain"]
  BY DEF ExpiresBeforeDispatch, AccessRevoked, PreparationFails, Goes
<1>3. pc'[r] \in {"notify", "notifyAgain"} /\ \A q \in Runs \ {r} : pc'[q] = pc[q]
  BY <1>2 DEF TypeOK
<1>4. pc'[r] \in Position /\ pc'[r] # "fetching" /\ pc'[r] # "ended"
  BY <1>3 DEF Position
<1>5. /\ run[r] \in RunState /\ inv[r] \in IntentState /\ calls[r] \in Nat
      /\ aborted[r] \in BOOLEAN /\ pc[r] \in Position
  BY RowType
<1>6. CASE UNCHANGED <<run, inv>>
  <2>1. Row(r)'
    BY <1>1, <1>4, <1>6 DEF Row, RowOK
  <2> QED
    BY <1>1, <1>3, <1>6, <2>1, LocalStep DEF Local
<1>7. ASSUME NEW t \in {"expired", "failed"}, Settles(r, t), t = "expired" => run[r] = "queued"
      PROVE  \A q \in Runs : Row(q)'
  <2>1. t \in terminalStates /\ t # "canceled"
    BY <1>7 DEF terminalStates
  <2>2. t = "expired" => calls[r] = 0
    BY <1>5, <1>7 DEF Row, RowOK
  <2>3. Row(r)' /\ \A q \in Runs \ {r} : run'[q] = run[q] /\ inv'[q] = inv[q]
    BY <1>1, <1>4, <1>5, <1>7, <2>1, <2>2, SettlesKeepsRow
  <2> QED
    BY <1>1, <1>3, <2>3, LocalStep DEF Local
<1>8. \/ UNCHANGED <<run, inv>>
      \/ Settles(r, "failed")
      \/ Settles(r, "expired") /\ run[r] = "queued"
  BY DEF ExpiresBeforeDispatch, AccessRevoked, PreparationFails
<1> QED
  BY <1>6, <1>7, <1>8

\* A worker at the fence and behind it.
LEMMA WorkerRows ==
  ASSUME HostedInv, NEW r \in Runs, Worker(r)
  PROVE  \A q \in Runs : Row(q)'
<1> USE DEF HostedInv
<1>0. /\ run[r] \in RunState /\ inv[r] \in IntentState /\ calls[r] \in Nat
      /\ aborted[r] \in BOOLEAN /\ pc[r] \in Position
  BY RowType
<1>1. CASE ExpiresBeforeDispatch(r) \/ AccessRevoked(r) \/ PreparationFails(r)
  BY <1>1, BeforeFenceRows
<1>2. CASE Dispatch(r)
  <2>1. Local(r)
    BY <1>2 DEF Dispatch, Goes, Local, TypeOK
  <2>2. /\ run'[r] = "delivered" /\ inv'[r] = "dispatching" /\ calls'[r] = calls[r] + 1
        /\ aborted'[r] = aborted[r] /\ pc'[r] = "fetching"
    BY <1>2 DEF Dispatch, Goes, TypeOK
  <2>3. run[r] = "queued" /\ inv[r] \in {"none", "prepared"}
    BY <1>2 DEF Dispatch, fence
  <2>4. calls[r] = 0 /\ ~aborted[r]
    BY <1>0, <2>3 DEF Row, RowOK, terminalStates
  <2>5. Row(r)'
    BY <2>2, <2>4 DEF Row, RowOK, terminalStates, invocationTerminalStates
  <2> QED
    BY <2>1, <2>5, LocalStep
<1>3. CASE Streams(r)
  <2>1. Local(r)
    BY <1>3 DEF Streams, memory, Local, TypeOK
  <2>2. /\ run'[r] = IF run[r] \in terminalStates THEN run[r] ELSE "working"
        /\ inv'[r] = IF inv[r] = "dispatching" THEN "streaming" ELSE inv[r]
        /\ calls'[r] = calls[r] /\ aborted'[r] = aborted[r] /\ pc'[r] = pc[r]
    BY <1>3 DEF Streams, memory, TypeOK, finish, Terminal
  <2>3. run[r] = "delivered" \/ inv[r] = "dispatching"
    BY <1>3 DEF Streams
  <2>4. Row(r)'
    BY <1>0, <2>2, <2>3 DEF Row, RowOK, RunState, IntentState, Position, terminalStates, invocationTerminalStates
  <2> QED
    BY <2>1, <2>4, LocalStep
<1>4. CASE Ends(r)
  <2>1. PICK status \in {"completed", "failed", "outcome_unknown"}
                        \cup (IF aborted[r] THEN {"canceled"} ELSE {}) :
          run' = [run EXCEPT ![r] = finish(r, status)]
    BY <1>4 DEF Ends
  <2>2. Local(r)
    BY <1>4, <2>1 DEF Ends, Goes, Local, TypeOK
  <2>3. /\ run'[r] = IF run[r] \in terminalStates THEN run[r] ELSE status
        /\ inv'[r] = inv[r] /\ calls'[r] = calls[r] /\ aborted'[r] = aborted[r] /\ pc'[r] = "ended"
    BY <1>4, <2>1 DEF Ends, Goes, TypeOK, finish, Terminal
  <2>4. pc[r] = "fetching"
    BY <1>4 DEF Ends
  <2>5. CASE run[r] \in terminalStates
    <3>1. Row(r)'
      BY <2>3, <2>5 DEF Row, RowOK
    <3> QED
      BY <2>2, <3>1, LocalStep
  <2>6. CASE run[r] \notin terminalStates
    <3>1. ~aborted[r] /\ calls[r] > 0
      BY <1>0, <2>4, <2>6 DEF Row, RowOK
    <3>2. status \in {"completed", "failed", "outcome_unknown"}
      BY <2>1, <3>1
    <3>3. inv[r] \in {"dispatching", "streaming"}
      BY <1>0, <2>6, <3>1 DEF Row, RowOK, RunState, IntentState, terminalStates, invocationTerminalStates
    <3>4. RowOK(status, inv[r], calls[r], aborted[r], "ended")
      BY <1>0, <2>6, <3>2, <3>3, EndRow DEF Row, Position
    <3>5. Row(r)'
      BY <2>3, <2>6, <3>4 DEF Row
    <3> QED
      BY <2>2, <3>5, LocalStep
  <2> QED
    BY <2>5, <2>6
<1>5. CASE Settle(r)
  <2>1. Local(r)
    BY <1>5 DEF Settle, Goes, Local, TypeOK
  <2>2. /\ run'[r] = run[r] /\ inv'[r] = settleFromRun(inv[r], run[r])
        /\ calls'[r] = calls[r] /\ aborted'[r] = aborted[r] /\ pc'[r] = "notify"
    BY <1>5 DEF Settle, Goes, TypeOK
  <2>3. run[r] \in terminalStates
    BY <1>5 DEF Settle, Row, RowOK
  <2>4. RowOK(run[r], settleFromRun(inv[r], run[r]), calls[r], aborted[r], "notify")
    <3>1. "notify" \in Position /\ "notify" # "fetching" /\ "outcome_unknown" \in terminalStates
      BY DEF Position, terminalStates
    <3>2. run[r] = IF run[r] \in terminalStates THEN run[r] ELSE "outcome_unknown"
      BY <2>3
    <3>3. RowOK(run[r], inv[r], calls[r], aborted[r], pc[r])
      BY DEF Row
    <3> QED
      BY <1>0, <2>3, <3>1, <3>2, <3>3, SettleRow
  <2> QED
    BY <2>1, <2>2, <2>4, LocalStep DEF Row
<1>6. CASE WorkerEnds(r)
  <2>1. Local(r)
    BY <1>6 DEF WorkerEnds, Leaves, Goes, Local, TypeOK
  <2>2. run' = run /\ inv' = inv /\ calls' = calls /\ aborted'[r] = FALSE /\ pc'[r] = "idle"
    BY <1>6 DEF WorkerEnds, Leaves, Goes, TypeOK
  <2>3. Row(r)'
    BY <2>2 DEF Row, RowOK
  <2> QED
    BY <2>1, <2>3, LocalStep
<1> QED
  BY <1>1, <1>2, <1>3, <1>4, <1>5, <1>6 DEF Worker

\* Callbacks, the deadline's timer and the passing of time.
LEMMA CallbackRows ==
  ASSUME HostedInv, NEW r \in Runs,
         Notified(r) \/ NotifyFails(r) \/ TimerFires(r) \/ DeadlinePasses(r)
  PROVE  \A q \in Runs : Row(q)'
<1> USE DEF HostedInv
<1>0. /\ run[r] \in RunState /\ inv[r] \in IntentState /\ calls[r] \in Nat
      /\ aborted[r] \in BOOLEAN /\ pc[r] \in Position
  BY RowType
<1>1. CASE Notified(r) \/ DeadlinePasses(r)
  BY <1>1, RowsUnchanged DEF Notified, DeadlinePasses, memory
<1>2. CASE NotifyFails(r)
  <2>1. UNCHANGED <<run, inv, calls>>
    BY <1>2 DEF NotifyFails
  <2>2. \/ UNCHANGED <<pc, aborted>>
        \/ UNCHANGED aborted /\ pc' = [pc EXCEPT ![r] = "notifyAgain"]
        \/ aborted' = [aborted EXCEPT ![r] = FALSE] /\ pc' = [pc EXCEPT ![r] = "idle"]
    BY <1>2 DEF NotifyFails, Goes, Leaves
  <2>3. CASE UNCHANGED <<pc, aborted>>
    BY <2>1, <2>3, RowsUnchanged
  <2>4. ASSUME NEW p \in {"notifyAgain", "idle"}, pc' = [pc EXCEPT ![r] = p],
               UNCHANGED aborted \/ aborted' = [aborted EXCEPT ![r] = FALSE]
        PROVE  \A q \in Runs : Row(q)'
    <3>1. Local(r)
      BY <2>1, <2>4 DEF Local, TypeOK
    <3>2. pc'[r] = p /\ (aborted'[r] => aborted[r])
      BY <2>4 DEF TypeOK
    <3>3. Row(r)'
      BY <2>1, <2>4, <3>2 DEF Row, RowOK
    <3> QED
      BY <3>1, <3>3, LocalStep
  <2> QED
    BY <2>2, <2>3, <2>4
<1>3. CASE TimerFires(r)
  <2>1. calls' = calls /\ pc' = pc /\ aborted'[r] = TRUE /\ \A q \in Runs \ {r} : aborted'[q] = aborted[q]
    BY <1>3 DEF TimerFires, TypeOK
  <2>2. CASE Terminal(r)
    <3>1. run' = run /\ inv' = inv
      BY <1>3, <2>2 DEF TimerFires
    <3>2. Row(r)'
      BY <2>1, <2>2, <3>1 DEF Row, RowOK, Terminal
    <3> QED
      BY <2>1, <3>1, <3>2, LocalStep DEF Local
  <2>3. CASE ~Terminal(r)
    <3>1. Settles(r, "outcome_unknown")
      BY <1>3, <2>3 DEF TimerFires
    <3>2. "outcome_unknown" \in terminalStates
      BY DEF terminalStates
    <3>3. Row(r)' /\ \A q \in Runs \ {r} : run'[q] = run[q] /\ inv'[q] = inv[q]
      BY <1>0, <2>1, <3>1, <3>2, SettlesKeepsRow
    <3> QED
      BY <2>1, <3>3, LocalStep DEF Local
  <2> QED
    BY <2>2, <2>3
<1> QED
  BY <1>1, <1>2, <1>3

\* The process ends, by a crash at any point or after a shutdown, and recovers.
LEMMA ProcessRows ==
  ASSUME HostedInv,
         \/ Crash
         \/ \E r \in Runs : CrashAtFence(r) \/ CrashBeforeSettle(r)
         \/ Shutdown
         \/ Restart
  PROVE  \A q \in Runs : Row(q)'
<1> USE DEF HostedInv
<1>1. ASSUME Forgets, calls' = calls, NEW q \in Runs, run'[q] = run[q], inv'[q] = inv[q]
      PROVE  Row(q)'
  <2>1. aborted'[q] = FALSE /\ pc'[q] = "idle"
    BY <1>1 DEF Forgets
  <2> QED
    BY <1>1, <2>1 DEF Row, RowOK
<1>2. CASE Crash
  BY <1>1, <1>2 DEF Crash
<1>3. ASSUME NEW r \in Runs, CrashAtFence(r), NEW q \in Runs
      PROVE  Row(q)'
  <2>1. CASE q # r
    <3>1. run'[q] = run[q] /\ inv'[q] = inv[q]
      BY <1>3, <2>1 DEF CrashAtFence, TypeOK
    <3> QED
      BY <1>1, <1>3, <3>1 DEF CrashAtFence
  <2>2. CASE q = r
    <3>1. aborted'[r] = FALSE /\ pc'[r] = "idle" /\ calls'[r] = calls[r]
      BY <1>3 DEF CrashAtFence, Forgets
    <3>2. run[r] = "queued" /\ calls[r] \in Nat
      BY <1>3, RowType DEF CrashAtFence, fence
    <3>3. calls[r] = 0
      BY <3>2 DEF Row, RowOK
    <3>4. \/ run'[r] = "queued" /\ inv'[r] = "prepared"
          \/ run'[r] = "delivered" /\ inv'[r] = "dispatching"
      BY <1>3, <3>2 DEF CrashAtFence, TypeOK
    <3> QED
      BY <2>2, <3>1, <3>3, <3>4 DEF Row, RowOK, terminalStates, invocationTerminalStates
  <2> QED
    BY <2>1, <2>2
<1>4. ASSUME NEW r \in Runs, CrashBeforeSettle(r), NEW q \in Runs
      PROVE  Row(q)'
  <2>1. CASE q # r
    <3>1. run'[q] = run[q] /\ inv'[q] = inv[q]
      BY <1>4, <2>1 DEF CrashBeforeSettle, TypeOK
    <3> QED
      BY <1>1, <1>4, <3>1 DEF CrashBeforeSettle
  <2>2. CASE q = r
    <3>1. aborted'[r] = FALSE /\ pc'[r] = "idle" /\ calls'[r] = calls[r]
      BY <1>4 DEF CrashBeforeSettle, Forgets
    <3>2. run'[r] = "outcome_unknown" /\ inv'[r] = inv[r]
      BY <1>4 DEF CrashBeforeSettle, TypeOK
    <3>3. inv[r] \in {"dispatching", "streaming"} /\ run[r] \notin terminalStates
      BY <1>4 DEF CrashBeforeSettle, Terminal
    <3>4. RowOK("outcome_unknown", inv[r], calls[r], FALSE, "idle")
      <4>1. /\ run[r] \in RunState /\ calls[r] \in Nat /\ aborted[r] \in BOOLEAN
            /\ pc[r] \in Position
        BY RowType
      <4>2. RowOK(run[r], inv[r], calls[r], aborted[r], pc[r])
        BY DEF Row
      <4>3. "idle" \in Position /\ "idle" # "fetching"
        BY DEF Position
      <4> HIDE DEF HostedInv
      <4> QED
        BY <3>3, <4>1, <4>2, <4>3, EndRow
    <3> QED
      BY <2>2, <3>1, <3>2, <3>4 DEF Row
  <2> QED
    BY <2>1, <2>2
<1>5. ASSUME Shutdown, NEW q \in Runs
      PROVE  Row(q)'
  <2> DEFINE Throws(i) == ~Terminal(active[i]) /\ inv[active[i]] = "none"
             reached == {active[i] : i \in {j \in DOMAIN active : \A k \in 1..(j-1) : ~Throws(k)}}
             hit == q \in reached
  <2>1. /\ run'[q] = IF hit THEN finish(q, "outcome_unknown") ELSE run[q]
        /\ inv'[q] = IF hit /\ ~Terminal(q) THEN settleFromRun(inv[q], run'[q]) ELSE inv[q]
        /\ aborted'[q] = (aborted[q] \/ (hit /\ (Terminal(q) \/ inv[q] # "none")))
        /\ calls' = calls /\ pc' = pc
    BY <1>5 DEF Shutdown
  <2>2. hit \in BOOLEAN
    OBVIOUS
  <2> HIDE DEF hit, reached
  <2> QED
    BY <2>1, <2>2, EndedRow
<1>6. ASSUME Restart, up = "down" => \A q \in Runs : pc[q] = "idle", NEW q \in Runs
      PROVE  Row(q)'
  <2>1. run'[q] = recovered(q).run /\ inv'[q] = recovered(q).inv
    BY <1>6 DEF Restart
  <2>2. calls' = calls /\ aborted' = aborted /\ pc' = pc /\ pc[q] = "idle"
    BY <1>6 DEF Restart
  <2>3. aborted[q] => Terminal(q)
    BY DEF Row, RowOK, Terminal
  <2>4. RowOK(recovered(q).run, recovered(q).inv, calls[q], aborted[q], pc[q])
    BY <2>2, <2>3, RowType, RecoveredRow DEF Position
  <2> QED
    BY <2>1, <2>2, <2>4 DEF Row
<1>7. up = "down" => \A q \in Runs : pc[q] = "idle"
  BY DEF DownInv
<1> QED
  BY <1>2, <1>3, <1>4, <1>5, <1>6, <1>7

-----------------------------------------------------------------------------
(* The Map of active Runs *)

\* What is left of a sequence when an element is removed.
LEMMA Removed ==
  ASSUME NEW S, NEW s \in Seq(S), NEW k \in 1 .. Len(s)
  PROVE  /\ RemoveAt(s, k) \in Seq(S)
         /\ Len(RemoveAt(s, k)) = Len(s) - 1
         /\ \A j \in 1 .. Len(s) - 1 : RemoveAt(s, k)[j] = s[IF j < k THEN j ELSE j + 1]
<1>1. Len(s) \in Nat /\ k \in Nat /\ k >= 1 /\ k <= Len(s)
  OBVIOUS
<1>2. /\ SubSeq(s, 1, k-1) \in Seq(S) /\ Len(SubSeq(s, 1, k-1)) = k - 1
      /\ \A j \in 1 .. k-1 : SubSeq(s, 1, k-1)[j] = s[j]
  BY <1>1
<1>3. /\ SubSeq(s, k+1, Len(s)) \in Seq(S) /\ Len(SubSeq(s, k+1, Len(s))) = Len(s) - k
      /\ \A j \in 1 .. Len(s) - k : SubSeq(s, k+1, Len(s))[j] = s[k + j]
  BY <1>1
<1> DEFINE a == SubSeq(s, 1, k-1)
           b == SubSeq(s, k+1, Len(s))
<1>4. RemoveAt(s, k) = a \o b
  BY DEF RemoveAt
<1>5. a \in Seq(S) /\ b \in Seq(S) /\ Len(a) = k - 1 /\ Len(b) = Len(s) - k
  BY <1>2, <1>3
<1>6. (\A j \in 1 .. k-1 : a[j] = s[j]) /\ (\A j \in 1 .. Len(s) - k : b[j] = s[k + j])
  BY <1>2, <1>3
<1> HIDE DEF a, b
<1>7. Len(a \o b) = Len(s) - 1 /\ a \o b \in Seq(S)
  <2>1. a \o b \in Seq(S) /\ Len(a \o b) = Len(a) + Len(b)
    BY <1>5
  <2> QED
    BY <1>1, <1>5, <2>1
<1>8. ASSUME NEW j \in 1 .. Len(s) - 1
      PROVE  (a \o b)[j] = s[IF j < k THEN j ELSE j + 1]
  <2>1. CASE j < k
    BY <1>1, <1>5, <1>6, <2>1
  <2>2. CASE ~(j < k)
    <3>1. (a \o b)[j] = b[j - (k - 1)]
      BY <1>1, <1>5, <2>2
    <3>2. b[j - (k - 1)] = s[k + (j - (k - 1))]
      BY <1>1, <1>6, <2>2
    <3>3. k + (j - (k - 1)) = j + 1
      BY <1>1
    <3> QED
      BY <2>2, <3>1, <3>2, <3>3
  <2> QED
    BY <2>1, <2>2
<1> QED
  BY <1>4, <1>7, <1>8

\* The Map, its limit and its Agents, as a predicate of the Map and the positions.
MapOK(m, p) ==
  /\ m \in Seq(Runs) /\ Len(m) <= maximumConcurrency /\ IsInjective(m)
  /\ \A i, j \in 1 .. Len(m) : AgentOf[m[i]] = AgentOf[m[j]] => i = j
  /\ \A r \in Runs : p[r] # "idle" => \E i \in 1 .. Len(m) : m[i] = r

\* start adds a Run of another Agent while there is room.
LEMMA StartKeepsMap ==
  ASSUME TypeOK, MapOK(active, pc), NEW r \in Runs, CanStart(r)
  PROVE  MapOK(Append(active, r), [pc EXCEPT ![r] = "started"])
<1> DEFINE m == Append(active, r)
<1>1. active \in Seq(Runs) /\ Len(active) \in Nat /\ Len(active) < maximumConcurrency
  BY DEF MapOK, CanStart
<1>2. m \in Seq(Runs) /\ Len(m) = Len(active) + 1 /\ m[Len(active) + 1] = r
      /\ \A i \in 1 .. Len(active) : m[i] = active[i] /\ active[i] \in Runs
  BY <1>1
<1>3. \A i \in 1 .. Len(active) : AgentOf[active[i]] # AgentOf[r]
  BY <1>2 DEF CanStart, Active, Contains
<1>4. \A i, j \in 1 .. Len(active) : AgentOf[active[i]] = AgentOf[active[j]] => i = j
  BY DEF MapOK
<1>5. \A q \in Runs : pc[q] # "idle" => \E i \in 1 .. Len(active) : active[i] = q
  BY DEF MapOK
<1> HIDE DEF m
<1>6. \A i, j \in 1 .. Len(m) : AgentOf[m[i]] = AgentOf[m[j]] => i = j
  BY <1>1, <1>2, <1>3, <1>4
<1>7. IsInjective(m)
  <2>1. DOMAIN m = 1 .. Len(m)
    BY <1>2
  <2> QED
    BY <1>6, <2>1 DEF IsInjective
<1>8. Len(m) <= maximumConcurrency
  BY <1>1, <1>2, HostedAssumption
<1>9. ASSUME NEW q \in Runs, [pc EXCEPT ![r] = "started"][q] # "idle"
      PROVE  \E i \in 1 .. Len(m) : m[i] = q
  <2>1. CASE q = r
    BY <1>1, <1>2, <2>1
  <2>2. CASE q # r
    <3>1. pc[q] # "idle"
      BY <1>9, <2>2 DEF TypeOK
    <3> QED
      BY <1>1, <1>2, <1>5, <3>1
  <2> QED
    BY <2>1, <2>2
<1> QED
  BY <1>2, <1>6, <1>7, <1>8, <1>9 DEF MapOK, m

\* The finally of start removes the entry of a Run whose worker has ended.
LEMMA DeleteKeepsMap ==
  ASSUME TypeOK, MapOK(active, pc), NEW r \in Runs, Deletes(r)
  PROVE  MapOK(active', [pc EXCEPT ![r] = "idle"])
<1>1. PICK k \in 1 .. Len(active) : active[k] = r /\ active' = RemoveAt(active, k)
  BY DEF Deletes
<1>2. active \in Seq(Runs) /\ Len(active) \in Nat /\ Len(active) <= maximumConcurrency
  BY DEF MapOK
<1>3. /\ active' \in Seq(Runs) /\ Len(active') = Len(active) - 1
      /\ \A j \in 1 .. Len(active) - 1 : active'[j] = active[IF j < k THEN j ELSE j + 1]
  BY <1>1, <1>2, Removed
<1>4. \A i, j \in 1 .. Len(active) : AgentOf[active[i]] = AgentOf[active[j]] => i = j
  BY DEF MapOK
<1>5. \A q \in Runs : pc[q] # "idle" => \E i \in 1 .. Len(active) : active[i] = q
  BY DEF MapOK
<1>6. ASSUME NEW i \in 1 .. Len(active'), NEW j \in 1 .. Len(active'),
             AgentOf[active'[i]] = AgentOf[active'[j]]
      PROVE  i = j
  <2> DEFINE x == IF i < k THEN i ELSE i + 1
             y == IF j < k THEN j ELSE j + 1
  <2>1. x \in 1 .. Len(active) /\ y \in 1 .. Len(active)
    BY <1>2, <1>3
  <2>2. active'[i] = active[x] /\ active'[j] = active[y]
    BY <1>3
  <2>3. x = y
    BY <1>4, <1>6, <2>1, <2>2
  <2> QED
    BY <1>3, <2>3
<1>7. IsInjective(active')
  <2>1. DOMAIN active' = 1 .. Len(active')
    BY <1>3
  <2> QED
    BY <1>6, <2>1 DEF IsInjective
<1>8. Len(active') <= maximumConcurrency
  BY <1>2, <1>3, HostedAssumption
<1>9. ASSUME NEW q \in Runs, [pc EXCEPT ![r] = "idle"][q] # "idle"
      PROVE  \E i \in 1 .. Len(active') : active'[i] = q
  <2>1. q # r /\ pc[q] # "idle"
    BY <1>9 DEF TypeOK
  <2>2. PICK i \in 1 .. Len(active) : active[i] = q
    BY <1>5, <2>1
  <2>3. i # k
    BY <1>1, <2>1, <2>2
  <2> DEFINE j == IF i < k THEN i ELSE i - 1
  <2>4. j \in 1 .. Len(active') /\ (IF j < k THEN j ELSE j + 1) = i
    BY <1>1, <1>2, <1>3, <2>3
  <2>5. active'[j] = q
    BY <1>3, <2>2, <2>4
  <2> QED
    BY <2>4, <2>5
<1> QED
  BY <1>3, <1>6, <1>7, <1>8, <1>9 DEF MapOK

\* The Map is only read by a step that ends no worker and starts none.
LEMMA SameMap ==
  ASSUME HostedInv, active' = active,
         \A r \in Runs : pc'[r] # "idle" => pc[r] # "idle"
  PROVE  MapOK(active', pc')
BY DEF HostedInv, TypeOK, ActiveInv, MapOK

\* Every step keeps the Map within its limit, its entries of different Agents and an
\* entry for every worker; a process that is down has no worker.
LEMMA MapStep ==
  ASSUME HostedInv, Next
  PROVE  MapOK(active', pc') /\ DownInv'
<1>0. TypeOK /\ MapOK(active, pc) /\ DownInv
  BY DEF HostedInv, TypeOK, ActiveInv, MapOK
<1>1. CASE \/ \E r \in Runs : CreateRun(r) \/ Enqueue(r) \/ Cancel(r) \/ ExpireQueued(r)
           \/ \E a \in Agents : RevokeAgent(a)
           \/ \E r \in Runs : Notified(r) \/ TimerFires(r) \/ DeadlinePasses(r)
  <2>1. active' = active /\ pc' = pc /\ up' = up
    BY <1>1 DEF CreateRun, Enqueue, Cancel, ExpireQueued, RevokeAgent, Notified, TimerFires,
                DeadlinePasses, memory
  <2> QED
    BY <1>0, <2>1 DEF DownInv
<1>2. CASE Shutdown \/ Restart
  <2>1. active' = active /\ pc' = pc /\ up' # "down"
    BY <1>2 DEF Shutdown, Restart
  <2> QED
    BY <1>0, <2>1 DEF DownInv
<1>3. CASE Crash \/ \E r \in Runs : CrashAtFence(r) \/ CrashBeforeSettle(r)
  <2>1. Forgets
    BY <1>3 DEF Crash, CrashAtFence, CrashBeforeSettle
  <2>2. active' = << >> /\ \A r \in Runs : pc'[r] = "idle"
    BY <2>1 DEF Forgets
  <2>3. MapOK(<< >>, pc')
    BY <2>2, HostedAssumption DEF MapOK, IsInjective
  <2> QED
    BY <2>2, <2>3 DEF DownInv
<1>4. CASE Drain
  <2>1. up' = up /\ up # "down"
    BY <1>4 DEF Drain
  <2>2. CASE active' = active /\ pc' = pc
    BY <1>0, <2>1, <2>2 DEF DownInv
  <2>3. ASSUME NEW r \in Runs, CanStart(r), active' = Append(active, r), Goes(r, "started")
        PROVE  MapOK(active', pc') /\ DownInv'
    <3>1. MapOK(Append(active, r), [pc EXCEPT ![r] = "started"])
      BY <1>0, <2>3, StartKeepsMap
    <3> QED
      BY <2>1, <2>3, <3>1 DEF Goes, DownInv
  <2> QED
    BY <1>4, <2>2, <2>3 DEF Drain
<1>5. ASSUME NEW r \in Runs, Worker(r) \/ NotifyFails(r)
      PROVE  MapOK(active', pc') /\ DownInv'
  <2>1. up' = up /\ up # "down"
    BY <1>5 DEF Worker, ExpiresBeforeDispatch, AccessRevoked, PreparationFails, Dispatch, Streams,
                Ends, Settle, WorkerEnds, NotifyFails
  <2>2. \/ active' = active /\ pc' = pc
        \/ active' = active /\ pc[r] # "idle" /\ \E p : pc' = [pc EXCEPT ![r] = p]
        \/ Deletes(r) /\ pc' = [pc EXCEPT ![r] = "idle"]
    <3>1. CASE Worker(r)
      BY <3>1 DEF Worker, ExpiresBeforeDispatch, AccessRevoked, PreparationFails, Dispatch, Streams,
                  Ends, Settle, WorkerEnds, Goes, Leaves, memory
    <3>2. CASE NotifyFails(r)
      BY <3>2 DEF NotifyFails, Goes, Leaves
    <3> QED
      BY <1>5, <3>1, <3>2
  <2>3. CASE active' = active /\ pc' = pc
    BY <1>0, <2>1, <2>3 DEF DownInv
  <2>4. CASE active' = active /\ pc[r] # "idle" /\ \E p : pc' = [pc EXCEPT ![r] = p]
    <3>1. \A q \in Runs : pc'[q] # "idle" => pc[q] # "idle"
      BY <1>0, <2>4 DEF TypeOK
    <3> QED
      BY <2>1, <2>4, <3>1, SameMap DEF DownInv
  <2>5. CASE Deletes(r) /\ pc' = [pc EXCEPT ![r] = "idle"]
    BY <1>0, <2>1, <2>5, DeleteKeepsMap DEF DownInv
  <2> QED
    BY <2>2, <2>3, <2>4, <2>5
<1> QED
  BY <1>1, <1>2, <1>3, <1>4, <1>5 DEF Next

-----------------------------------------------------------------------------
(* Types *)

\* The types of everything but the Map.
RowTypes ==
  /\ run \in [Runs -> RunState]
  /\ inv \in [Runs -> IntentState]
  /\ asked \in [Runs -> BOOLEAN]
  /\ presence \in [Agents -> {"ready", "busy", "degraded"}]
  /\ due \in [Runs -> BOOLEAN]
  /\ up \in {"up", "closing", "down"}
  /\ pc \in [Runs -> Position]
  /\ calling \subseteq Runs
  /\ drains \in BOOLEAN
  /\ note \in [Runs -> {"none", "pending", "done"}]
  /\ aborted \in [Runs -> BOOLEAN]
  /\ calls \in [Runs -> Nat]
  /\ crashes \in 0..MaxCrashes
  /\ failures \in 0..MaxFailures

\* Settles leaves states of a Run and of an intent.
LEMMA SettlesTypes ==
  ASSUME RowTypes, NEW r \in Runs, NEW t \in terminalStates, Settles(r, t)
  PROVE  run' \in [Runs -> RunState] /\ inv' \in [Runs -> IntentState]
<1>1. finish(r, t) \in terminalStates
  BY DEF finish, Terminal
<1>2. run' = [run EXCEPT ![r] = finish(r, t)] /\ run'[r] = finish(r, t)
  BY DEF Settles, RowTypes
<1>3. settleFromRun(inv[r], run'[r]) \in IntentState
  BY <1>1, <1>2, SettleType DEF RowTypes
<1> QED
  BY <1>1, <1>2, <1>3 DEF Settles, RowTypes, RunState

\* A request, and a Run that is drained or started.
LEMMA RequestTypes ==
  ASSUME HostedInv, RowTypes,
         \/ \E r \in Runs : CreateRun(r) \/ Enqueue(r) \/ Cancel(r) \/ ExpireQueued(r)
         \/ \E a \in Agents : RevokeAgent(a)
         \/ Drain
  PROVE  RowTypes'
<1>1. CASE \E r \in Runs : CreateRun(r)
  BY <1>1 DEF CreateRun, RowTypes, RunState
<1>2. CASE \E r \in Runs : Enqueue(r)
  BY <1>2 DEF Enqueue, RowTypes
<1>3. ASSUME NEW r \in Runs, Cancel(r)
      PROVE  RowTypes'
  <2>1. cancelStatus(r) \in terminalStates
    BY DEF cancelStatus, terminalStates
  <2>2. run' \in [Runs -> RunState] /\ inv' \in [Runs -> IntentState]
    BY <1>3, <2>1, SettlesTypes DEF Cancel
  <2>3. asked' \in [Runs -> BOOLEAN] /\ aborted' \in [Runs -> BOOLEAN] /\ note' \in [Runs -> {"none", "pending", "done"}]
    BY <1>3 DEF Cancel, Notifies, RowTypes
  <2> QED
    BY <1>3, <2>2, <2>3 DEF Cancel, RowTypes
<1>4. CASE \E r \in Runs : ExpireQueued(r)
  BY <1>4 DEF ExpireQueued, memory, RowTypes, RunState, terminalStates
<1>5. ASSUME NEW a \in Agents, RevokeAgent(a)
      PROVE  RowTypes'
  <2>1. presence' \in [Agents -> {"ready", "busy", "degraded"}]
    BY <1>5 DEF RevokeAgent, RowTypes
  <2>2. run' \in [Runs -> RunState] /\ inv' \in [Runs -> IntentState] /\ aborted' \in [Runs -> BOOLEAN]
    <3> DEFINE Hit(q) == Active(q) /\ AgentOf[q] = a
    <3>1. /\ run' = [q \in Runs |-> IF Hit(q) THEN finish(q, "outcome_unknown") ELSE run[q]]
          /\ inv' = [q \in Runs |-> IF Hit(q) /\ ~Terminal(q) THEN settleFromRun(inv[q], run'[q]) ELSE inv[q]]
          /\ aborted' = [q \in Runs |-> aborted[q] \/ (Hit(q) /\ (Terminal(q) \/ inv[q] # "none"))]
          /\ calls' = calls /\ pc' = pc
      BY <1>5 DEF RevokeAgent
    <3>2. \A q \in Runs : Hit(q) \in BOOLEAN
      OBVIOUS
    <3> HIDE DEF Hit
    <3>3. \A q \in Runs : run'[q] \in RunState /\ inv'[q] \in IntentState /\ aborted'[q] \in BOOLEAN
      BY <3>1, <3>2, EndedRow DEF HostedInv
    <3> QED
      BY <3>1, <3>3
  <2> QED
    BY <1>5, <2>1, <2>2 DEF RevokeAgent, RowTypes
<1>6. CASE Drain
  <2>1. /\ pc' \in [Runs -> Position] /\ note' \in [Runs -> {"none", "pending", "done"}]
        /\ aborted' \in [Runs -> BOOLEAN] /\ drains' \in BOOLEAN
    BY <1>6 DEF Drain, Goes, Position, RowTypes
  <2> QED
    BY <1>6, <2>1 DEF Drain, RowTypes
<1> QED
  BY <1>1, <1>2, <1>3, <1>4, <1>5, <1>6

\* The steps of a worker.
LEMMA WorkerTypes ==
  ASSUME HostedInv, RowTypes, NEW r \in Runs, Worker(r)
  PROVE  RowTypes'
<1> DEFINE P == {"ready", "busy", "degraded"}
<1>0. AgentOf[r] \in Agents
  BY DEF Agents
<1>1. ASSUME NEW p \in P, SetPresence(r, p)
      PROVE  presence' \in [Agents -> P]
  BY <1>0, <1>1 DEF SetPresence, RowTypes
<1>2. ASSUME Notifies(r)
      PROVE  note' \in [Runs -> {"none", "pending", "done"}]
  BY <1>2 DEF Notifies, RowTypes
<1>3. ASSUME NEW p \in Position, Goes(r, p)
      PROVE  pc' \in [Runs -> Position]
  BY <1>3 DEF Goes, RowTypes
<1>4. presence[AgentOf[r]] \in P
  BY <1>0 DEF RowTypes
<1>5. "expired" \in terminalStates /\ "failed" \in terminalStates
  BY DEF terminalStates
<1>6. {"started", "fetching", "ended", "notify", "notifyAgain", "idle"} \subseteq Position
  BY DEF Position
<1> HIDE DEF P
<1>7. {"ready", "busy", "degraded"} \subseteq P
  BY DEF P
<1>8. CASE ExpiresBeforeDispatch(r)
  <2>1. run' \in [Runs -> RunState] /\ inv' \in [Runs -> IntentState]
    BY <1>5, <1>8, SettlesTypes DEF ExpiresBeforeDispatch
  <2>2. presence' \in [Agents -> P]
    BY <1>1, <1>4, <1>7, <1>8 DEF ExpiresBeforeDispatch
  <2>3. note' \in [Runs -> {"none", "pending", "done"}] /\ pc' \in [Runs -> Position]
    BY <1>2, <1>3, <1>6, <1>8 DEF ExpiresBeforeDispatch
  <2> QED
    BY <1>8, <2>1, <2>2, <2>3 DEF ExpiresBeforeDispatch, RowTypes, P
<1>9. CASE AccessRevoked(r)
  <2>1. run' \in [Runs -> RunState] /\ inv' \in [Runs -> IntentState]
    <3>1. CASE UNCHANGED <<run, inv>>
      BY <3>1 DEF RowTypes
    <3> QED
      BY <1>5, <1>9, <3>1, SettlesTypes DEF AccessRevoked
  <2>2. presence' \in [Agents -> P]
    <3>1. CASE UNCHANGED presence
      BY <3>1 DEF RowTypes, P
    <3> QED
      BY <1>1, <1>7, <1>9, <3>1 DEF AccessRevoked
  <2>3. note' \in [Runs -> {"none", "pending", "done"}] /\ pc' \in [Runs -> Position]
    BY <1>2, <1>3, <1>6, <1>9 DEF AccessRevoked
  <2> QED
    BY <1>9, <2>1, <2>2, <2>3 DEF AccessRevoked, RowTypes, P
<1>10. CASE PreparationFails(r)
  <2>1. run' \in [Runs -> RunState] /\ inv' \in [Runs -> IntentState]
    BY <1>5, <1>10, SettlesTypes DEF PreparationFails
  <2>2. presence' \in [Agents -> P]
    BY <1>1, <1>7, <1>10 DEF PreparationFails
  <2>3. note' \in [Runs -> {"none", "pending", "done"}] /\ pc' \in [Runs -> Position]
    BY <1>2, <1>3, <1>6, <1>10 DEF PreparationFails
  <2> QED
    BY <1>10, <2>1, <2>2, <2>3 DEF PreparationFails, RowTypes, P
<1>11. CASE Dispatch(r)
  <2>1. run' \in [Runs -> RunState] /\ inv' \in [Runs -> IntentState] /\ calls' \in [Runs -> Nat]
    BY <1>11 DEF Dispatch, RowTypes, RunState, IntentState
  <2>2. presence' \in [Agents -> P]
    BY <1>1, <1>7, <1>11 DEF Dispatch
  <2>3. pc' \in [Runs -> Position]
    BY <1>3, <1>6, <1>11 DEF Dispatch
  <2> QED
    BY <1>11, <2>1, <2>2, <2>3 DEF Dispatch, RowTypes, P
<1>12. CASE Streams(r)
  <2>1. run' \in [Runs -> RunState] /\ inv' \in [Runs -> IntentState]
    BY <1>12 DEF Streams, finish, Terminal, RowTypes, RunState, IntentState
  <2> QED
    BY <1>12, <2>1 DEF Streams, memory, RowTypes
<1>13. CASE Ends(r)
  <2>1. PICK status \in {"completed", "failed", "outcome_unknown"}
                        \cup (IF aborted[r] THEN {"canceled"} ELSE {}) :
          run' = [run EXCEPT ![r] = finish(r, status)]
    BY <1>13 DEF Ends
  <2>2. finish(r, status) \in RunState
    BY DEF finish, Terminal, RunState, terminalStates
  <2>3. run' \in [Runs -> RunState]
    BY <2>1, <2>2 DEF RowTypes
  <2>4. presence' \in [Agents -> P] /\ pc' \in [Runs -> Position]
    BY <1>1, <1>3, <1>6, <1>7, <1>13 DEF Ends
  <2> QED
    BY <1>13, <2>3, <2>4 DEF Ends, RowTypes, P
<1>14. CASE Settle(r)
  <2>1. run[r] \in terminalStates
    BY <1>14 DEF Settle, HostedInv, Row, RowOK
  <2>2. settleFromRun(inv[r], run[r]) \in IntentState
    BY <2>1, SettleType DEF RowTypes
  <2>3. inv' \in [Runs -> IntentState]
    BY <1>14, <2>2 DEF Settle, RowTypes
  <2>4. presence' \in [Agents -> P]
    BY <1>1, <1>7, <1>14 DEF Settle, projectHostedPresence
  <2>5. note' \in [Runs -> {"none", "pending", "done"}] /\ pc' \in [Runs -> Position]
    BY <1>2, <1>3, <1>6, <1>14 DEF Settle
  <2> QED
    BY <1>14, <2>3, <2>4, <2>5 DEF Settle, RowTypes, P
<1>15. CASE WorkerEnds(r)
  <2>1. pc' \in [Runs -> Position] /\ aborted' \in [Runs -> BOOLEAN] /\ drains' \in BOOLEAN
    BY <1>3, <1>6, <1>15 DEF WorkerEnds, Leaves, RowTypes
  <2> QED
    BY <1>15, <2>1 DEF WorkerEnds, RowTypes
<1> QED
  BY <1>8, <1>9, <1>10, <1>11, <1>12, <1>13, <1>14, <1>15 DEF Worker

\* Callbacks, timers and the passing of time.
LEMMA CallbackTypes ==
  ASSUME RowTypes, NEW r \in Runs,
         Notified(r) \/ NotifyFails(r) \/ TimerFires(r) \/ DeadlinePasses(r)
  PROVE  RowTypes'
<1>1. CASE Notified(r)
  BY <1>1 DEF Notified, RowTypes
<1>2. CASE DeadlinePasses(r)
  BY <1>2 DEF DeadlinePasses, memory, RowTypes
<1>3. CASE TimerFires(r)
  <2>1. run' \in [Runs -> RunState] /\ inv' \in [Runs -> IntentState]
    <3>1. CASE UNCHANGED <<run, inv>>
      BY <3>1 DEF RowTypes
    <3>2. "outcome_unknown" \in terminalStates
      BY DEF terminalStates
    <3> QED
      BY <1>3, <3>1, <3>2, SettlesTypes DEF TimerFires
  <2>2. aborted' \in [Runs -> BOOLEAN]
    BY <1>3 DEF TimerFires, RowTypes
  <2> QED
    BY <1>3, <2>1, <2>2 DEF TimerFires, RowTypes
<1>4. CASE NotifyFails(r)
  <2>1. failures' \in 0..MaxFailures
    BY <1>4, HostedAssumption DEF NotifyFails, RowTypes
  <2>2. AgentOf[r] \in Agents
    BY DEF Agents
  <2>3. presence' \in [Agents -> {"ready", "busy", "degraded"}]
    BY <1>4, <2>2 DEF NotifyFails, SetPresence, RowTypes
  <2>4. pc' \in [Runs -> Position] /\ note' \in [Runs -> {"none", "pending", "done"}]
    BY <1>4 DEF NotifyFails, Goes, RowTypes, Position
  <2>5. aborted' \in [Runs -> BOOLEAN] /\ drains' \in BOOLEAN
    BY <1>4 DEF NotifyFails, Leaves, RowTypes
  <2> QED
    BY <1>4, <2>1, <2>3, <2>4, <2>5 DEF NotifyFails, RowTypes
<1> QED
  BY <1>1, <1>2, <1>3, <1>4

\* The process ends and recovers.
LEMMA ProcessTypes ==
  ASSUME HostedInv, RowTypes,
         \/ Crash
         \/ \E r \in Runs : CrashAtFence(r) \/ CrashBeforeSettle(r)
         \/ Shutdown
         \/ Restart
  PROVE  RowTypes'
<1>1. ASSUME Forgets, crashes < MaxCrashes, UNCHANGED <<asked, presence, due, calls, failures>>,
             run' \in [Runs -> RunState], inv' \in [Runs -> IntentState]
      PROVE  RowTypes'
  <2>1. crashes' \in 0..MaxCrashes
    BY <1>1, HostedAssumption DEF Forgets, RowTypes
  <2>2. /\ up' \in {"up", "closing", "down"} /\ pc' \in [Runs -> Position] /\ calling' \subseteq Runs
        /\ drains' \in BOOLEAN /\ note' \in [Runs -> {"none", "pending", "done"}]
        /\ aborted' \in [Runs -> BOOLEAN]
    BY <1>1 DEF Forgets, Position
  <2> QED
    BY <1>1, <2>1, <2>2 DEF RowTypes
<1>2. CASE Crash
  BY <1>1, <1>2 DEF Crash, RowTypes
<1>3. ASSUME NEW r \in Runs, CrashAtFence(r)
      PROVE  RowTypes'
  <2>1. run' \in [Runs -> RunState] /\ inv' \in [Runs -> IntentState]
    BY <1>3 DEF CrashAtFence, RowTypes, RunState, IntentState
  <2> QED
    BY <1>1, <1>3, <2>1 DEF CrashAtFence
<1>4. ASSUME NEW r \in Runs, CrashBeforeSettle(r)
      PROVE  RowTypes'
  <2>1. run' \in [Runs -> RunState] /\ inv' \in [Runs -> IntentState]
    BY <1>4 DEF CrashBeforeSettle, RowTypes, RunState, terminalStates
  <2> QED
    BY <1>1, <1>4, <2>1 DEF CrashBeforeSettle
<1>5. CASE Shutdown
  <2> DEFINE Throws(i) == ~Terminal(active[i]) /\ inv[active[i]] = "none"
             reached == {active[i] : i \in {j \in DOMAIN active : \A k \in 1..(j-1) : ~Throws(k)}}
             Hit(q) == q \in reached
  <2>1. /\ run' = [q \in Runs |-> IF Hit(q) THEN finish(q, "outcome_unknown") ELSE run[q]]
        /\ inv' = [q \in Runs |-> IF Hit(q) /\ ~Terminal(q) THEN settleFromRun(inv[q], run'[q]) ELSE inv[q]]
        /\ aborted' = [q \in Runs |-> aborted[q] \/ (Hit(q) /\ (Terminal(q) \/ inv[q] # "none"))]
        /\ calls' = calls /\ pc' = pc
    BY <1>5 DEF Shutdown
  <2>2. \A q \in Runs : Hit(q) \in BOOLEAN
    OBVIOUS
  <2> HIDE DEF Hit, reached
  <2>3. \A q \in Runs : run'[q] \in RunState /\ inv'[q] \in IntentState /\ aborted'[q] \in BOOLEAN
    BY <2>1, <2>2, EndedRow DEF HostedInv
  <2>4. run' \in [Runs -> RunState] /\ inv' \in [Runs -> IntentState] /\ aborted' \in [Runs -> BOOLEAN]
    BY <2>1, <2>3
  <2>5. /\ up' \in {"up", "closing", "down"}
        /\ UNCHANGED <<asked, presence, calling, due, pc, drains, note, calls, crashes, failures>>
    BY <1>5 DEF Shutdown
  <2> QED
    BY <2>4, <2>5 DEF RowTypes
<1>6. CASE Restart
  <2>1. run' = [q \in Runs |-> recovered(q).run] /\ inv' = [q \in Runs |-> recovered(q).inv]
    BY <1>6 DEF Restart
  <2>2. \A q \in Runs : recovered(q).run \in RunState /\ recovered(q).inv \in IntentState
    BY RecoveredRow DEF HostedInv
  <2>3. run' \in [Runs -> RunState] /\ inv' \in [Runs -> IntentState]
    BY <2>1, <2>2
  <2>4. presence' \in [Agents -> {"ready", "busy", "degraded"}]
    BY <1>6 DEF Restart
  <2>5. /\ up' \in {"up", "closing", "down"} /\ drains' \in BOOLEAN
        /\ UNCHANGED <<asked, calling, due, pc, note, aborted, calls, crashes, failures>>
    BY <1>6 DEF Restart
  <2> QED
    BY <2>3, <2>4, <2>5 DEF RowTypes
<1> QED
  BY <1>2, <1>3, <1>4, <1>5, <1>6

-----------------------------------------------------------------------------
(* The invariant of the specification *)

\* A Run that does not exist has no rows that could be out of order.
LEMMA InitHosted ==
  ASSUME Init
  PROVE  HostedInv
<1>1. TypeOK
  <2>1. active \in Seq(Runs) /\ Len(active) <= maximumConcurrency /\ IsInjective(active)
    BY HostedAssumption DEF Init, IsInjective
  <2>2. crashes \in 0..MaxCrashes /\ failures \in 0..MaxFailures
    BY HostedAssumption DEF Init
  <2>3. /\ run \in [Runs -> {"none", "queued", "delivered", "working"} \cup terminalStates]
        /\ inv \in [Runs -> {"none", "prepared", "dispatching", "streaming"} \cup invocationTerminalStates]
        /\ pc \in [Runs -> Position] /\ calls \in [Runs -> Nat]
    BY DEF Init, Position
  <2>4. /\ asked \in [Runs -> BOOLEAN] /\ due \in [Runs -> BOOLEAN] /\ aborted \in [Runs -> BOOLEAN]
        /\ presence \in [Agents -> {"ready", "busy", "degraded"}]
        /\ note \in [Runs -> {"none", "pending", "done"}]
    BY DEF Init
  <2>5. up \in {"up", "closing", "down"} /\ calling \subseteq Runs /\ drains \in BOOLEAN
    BY DEF Init
  <2> QED
    BY <2>1, <2>2, <2>3, <2>4, <2>5 DEF TypeOK
<1>2. ActiveInv /\ DownInv
  BY DEF Init, ActiveInv, DownInv
<1>3. ASSUME NEW r \in Runs
      PROVE  Row(r)
  <2>1. run[r] = "none" /\ inv[r] = "none" /\ calls[r] = 0 /\ aborted[r] = FALSE /\ pc[r] = "idle"
    BY DEF Init
  <2> QED
    BY <2>1 DEF Row, RowOK, terminalStates, invocationTerminalStates
<1> QED
  BY <1>1, <1>2, <1>3 DEF HostedInv

\* Every step preserves the invariant.
LEMMA HostedStep ==
  ASSUME HostedInv, [Next]_vars
  PROVE  HostedInv'
<1>1. CASE UNCHANGED vars
  BY <1>1 DEF vars, HostedInv, TypeOK, ActiveInv, DownInv, Row
<1>2. CASE Next
  <2>1. MapOK(active', pc') /\ DownInv'
    BY <1>2, MapStep
  <2>2. RowTypes
    BY DEF HostedInv, TypeOK, RowTypes, RunState, IntentState
  <2>3. RowTypes'
    BY <1>2, <2>2, RequestTypes, WorkerTypes, CallbackTypes, ProcessTypes DEF Next
  <2>4. \A q \in Runs : Row(q)'
    BY <1>2, RequestRows, DrainRows, WorkerRows, CallbackRows, ProcessRows DEF Next
  <2>5. TypeOK'
    BY <2>1, <2>3 DEF MapOK, RowTypes, TypeOK, RunState, IntentState
  <2>6. ActiveInv'
    BY <2>1 DEF MapOK, ActiveInv
  <2> QED
    BY <2>1, <2>4, <2>5, <2>6 DEF HostedInv
<1> QED
  BY <1>1, <1>2

\* The invariant holds in every reachable state.
LEMMA HostedInvariant ==
  Spec => []HostedInv
<1>1. Init => HostedInv
  BY InitHosted
<1>2. HostedInv /\ [Next]_vars => HostedInv'
  BY HostedStep
<1> QED
  BY <1>1, <1>2, PTL DEF Spec

\* The workers that wait for the provider have each an entry in the Map.
LEMMA CallsWithinMap ==
  ASSUME HostedInv
  PROVE  CallsBounded
<1> DEFINE inCall == {r \in Runs : pc[r] = "fetching"}
           place == [r \in inCall |-> CHOOSE i \in 1 .. Len(active) : active[i] = r]
<1>1. \A r \in inCall : \E i \in 1 .. Len(active) : active[i] = r
  BY DEF HostedInv, ActiveInv
<1>2. \A r \in inCall : place[r] \in 1 .. Len(active) /\ active[place[r]] = r
  BY <1>1
<1>3. place \in Injection(inCall, 1 .. Len(active))
  <2>1. place \in [inCall -> 1 .. Len(active)]
    BY <1>2
  <2>2. DOMAIN place = inCall
    OBVIOUS
  <2> HIDE DEF place, inCall
  <2>3. \A r, q \in inCall : place[r] = place[q] => r = q
    BY <1>2
  <2> QED
    BY <2>1, <2>2, <2>3 DEF Injection, IsInjective
<1>4. Len(active) \in Nat /\ Len(active) <= maximumConcurrency /\ maximumConcurrency \in Nat
  BY HostedAssumption DEF HostedInv, TypeOK
<1>5. IsFiniteSet(1 .. Len(active)) /\ Cardinality(1 .. Len(active)) = Len(active)
  <2>1. 1 \in Int /\ Len(active) \in Int
    BY <1>4
  <2>2. /\ IsFiniteSet(1 .. Len(active))
        /\ Cardinality(1 .. Len(active)) = IF 1 > Len(active) THEN 0 ELSE Len(active) - 1 + 1
    BY ONLY <2>1, FS_Interval
  <2> QED
    BY <1>4, <2>2
<1> HIDE DEF place
<1>6. IsFiniteSet(inCall) /\ Cardinality(inCall) <= Cardinality(1 .. Len(active))
  <2> HIDE DEF inCall
  <2> QED
    BY <1>3, <1>5, FS_Injection
<1>7. Cardinality(inCall) \in Nat
  <2> HIDE DEF inCall
  <2> QED
    BY <1>6, FS_CardinalityType
<1>8. Cardinality(inCall) <= maximumConcurrency
  <2> HIDE DEF inCall
  <2> QED
    BY <1>4, <1>5, <1>6, <1>7
<1>9. \A r, q \in inCall : AgentOf[r] = AgentOf[q] => r = q
  BY <1>1 DEF HostedInv, ActiveInv
<1>10. \A r \in inCall : inv[r] \notin {"none", "prepared"}
  BY DEF HostedInv, Row, RowOK
<1> QED
  BY <1>8, <1>9, <1>10 DEF CallsBounded

\* The provider is called at most once for a Run, and never for one that is recorded as
\* canceled or expired, for every set of Runs and Agents and any number of crashes.
THEOREM ProviderIsCalledOnce ==
  Spec => []ProviderCalledOnce
<1>1. HostedInv => ProviderCalledOnce
  BY DEF HostedInv, Row, RowOK, ProviderCalledOnce
<1> QED
  BY <1>1, HostedInvariant, PTL

\* The calls in progress are of different Agents and within the limit, a call is only made
\* behind the fence, and a Run and its intent tell one story.
THEOREM SchedulerIsConsistent ==
  Spec => []SchedulerConsistent
<1>1. HostedInv => TypeOK /\ IntentAgrees
  BY DEF HostedInv, Row, RowOK, IntentAgrees
<1>2. HostedInv => SchedulerConsistent
  BY <1>1, CallsWithinMap DEF SchedulerConsistent
<1> QED
  BY <1>2, HostedInvariant, PTL
=============================================================================
