------------------------------ MODULE GateProofs ------------------------------
(***************************************************************************)
(* Proofs about the two gates of the Bridge, for any number of callers:    *)
(* AgentExecutionGate hands an Agent on in the order of its callers, and   *)
(* ResourceGate keeps conflicting claims apart without overtaking.         *)
(***************************************************************************)
EXTENDS AgentExecutionGate, ResourceGate, TLAPS

-----------------------------------------------------------------------------
(* The gate of an Agent *)

\* The waiters of a queue do not own the gate, ask for its Agent and stand in it once.
QueueInv ==
  \A a \in Agents : \A i \in 1 .. Len(queues[a]) :
    LET c == queues[a][i]
    IN  /\ AgentOf[c] = a
        /\ pc[c] \in {"select", "leave"}
        /\ ~ready[c]
        /\ \A k \in 1 .. Len(queues[a]) : queues[a][k] = c => k = i

\* Only a waiter that release selected is ready, and one that stands in no queue and
\* waits was selected.
ReadyInv ==
  \A c \in Callers :
    /\ ready[c] => pc[c] \in {"select", "leave"}
    /\ pc[c] \in {"select", "leave"} /\ ~ready[c]
         => \E i \in 1 .. Len(queues[AgentOf[c]]) : queues[AgentOf[c]][i] = c

\* The owner of a gate is unique, and the gate it owns is marked active.
OwnerInv ==
  \A c \in Callers :
    Owns(c) => /\ active[AgentOf[c]]
               /\ \A d \in Callers : Owns(d) /\ AgentOf[d] = AgentOf[c] => d = c

GateInv == TypeOK /\ QueueInv /\ ReadyInv /\ OwnerInv /\ GateNotLost

-----------------------------------------------------------------------------

\* Removing an element leaves a sequence of the others, in order.
LEMMA WithoutProperties ==
  ASSUME NEW S, NEW q \in Seq(S), NEW i \in 1 .. Len(q)
  PROVE  /\ Without(q, i) \in Seq(S)
         /\ Len(Without(q, i)) = Len(q) - 1
         /\ \A k \in 1 .. Len(q) - 1 : Without(q, i)[k] = IF k < i THEN q[k] ELSE q[k + 1]
<1>1. \A k \in 1 .. Len(q) - 1 : (IF k < i THEN q[k] ELSE q[k + 1]) \in S
  OBVIOUS
<1> QED
  BY <1>1 DEF Without

\* The gate's maps and the callers' positions keep their types.
LEMMA GateTypeStep ==
  ASSUME TypeOK, NEW c \in Callers, Acquire(c) \/ EndContext(c) \/ Step(c)
  PROVE  TypeOK'
<1> USE DEF TypeOK
<1>1. AgentOf[c] \in Agents
  BY AgentOfAssumption
<1>2. CASE Acquire(c)
  <2>1. pc' \in [Callers -> {"idle", "select", "leave", "giveUp", "holding"}]
        /\ done' \in [Callers -> BOOLEAN] /\ ready' \in [Callers -> BOOLEAN]
    BY <1>2 DEF Acquire
  <2>2. Append(queues[AgentOf[c]], c) \in Seq(Callers)
    BY <1>1
  <2>3. queues' \in [Agents -> Seq(Callers)] /\ active' \in [Agents -> BOOLEAN]
    BY <1>2, <2>2 DEF Acquire
  <2> QED
    BY <2>1, <2>3
<1>3. CASE EndContext(c) \/ SelectReady(c) \/ SelectDone(c)
  BY <1>3 DEF EndContext, SelectReady, SelectDone
<1>4. CASE LeaveQueue(c)
  <2>1. \A i \in 1 .. Len(queues[AgentOf[c]]) : Without(queues[AgentOf[c]], i) \in Seq(Callers)
    BY <1>1, WithoutProperties
  <2>2. queues' \in [Agents -> Seq(Callers)]
    BY <1>4, <2>1 DEF LeaveQueue
  <2>3. /\ pc' \in [Callers -> {"idle", "select", "leave", "giveUp", "holding"}]
        /\ done' \in [Callers -> BOOLEAN] /\ ready' \in [Callers -> BOOLEAN]
        /\ active' \in [Agents -> BOOLEAN]
    BY <1>4 DEF LeaveQueue, Return
  <2> QED
    BY <2>2, <2>3
<1>5. CASE Release(c)
  <2>1. queues[AgentOf[c]] # << >> => /\ Head(queues[AgentOf[c]]) \in Callers
                                      /\ Tail(queues[AgentOf[c]]) \in Seq(Callers)
    BY <1>1
  <2>2. pc' \in [Callers -> {"idle", "select", "leave", "giveUp", "holding"}]
        /\ done' \in [Callers -> BOOLEAN]
    BY <1>5 DEF Release, Return
  <2>3. active' \in [Agents -> BOOLEAN] /\ queues' \in [Agents -> Seq(Callers)]
    BY <1>1, <1>5, <2>1 DEF Release
  <2>4. ready' \in [Callers -> BOOLEAN]
    BY <1>5, <2>1 DEF Release
  <2> QED
    BY <2>2, <2>3, <2>4
<1> QED
  BY <1>2, <1>3, <1>4, <1>5 DEF Step
-----------------------------------------------------------------------------
(* The invariant, action by action *)

\* The end of a context disturbs nothing.
LEMMA EndContextStep ==
  ASSUME GateInv, NEW c \in Callers, EndContext(c)
  PROVE  GateInv'
<1>1. TypeOK'
  BY GateTypeStep DEF GateInv
<1> QED
  BY <1>1 DEF EndContext, GateInv, QueueInv, ReadyInv, OwnerInv, GateNotLost, Owns

\* A caller takes a free gate, or stands at the end of the queue of a taken one.
LEMMA AcquireStep ==
  ASSUME GateInv, NEW c \in Callers, Acquire(c)
  PROVE  GateInv'
<1> DEFINE a == AgentOf[c]
<1>1. TypeOK'
  BY GateTypeStep DEF GateInv
<1>2. a \in Agents /\ \A d \in Callers : AgentOf[d] \in Agents
  BY AgentOfAssumption
<1>3. pc[c] = "idle" /\ ~ready[c] /\ ready' = ready
  BY DEF Acquire, GateInv, ReadyInv
<1>4. \A b \in Agents : \A i \in 1 .. Len(queues[b]) : queues[b][i] \in Callers \ {c}
  BY <1>3 DEF GateInv, TypeOK, QueueInv
<1>5. CASE ~active[a]
  <2>1. /\ active' = [active EXCEPT ![a] = TRUE]
        /\ pc' = [pc EXCEPT ![c] = "holding"]
        /\ queues' = queues
    BY <1>5 DEF Acquire
  <2>2. \A d \in Callers : d # c => pc'[d] = pc[d]
    BY <2>1 DEF GateInv, TypeOK
  <2>3. pc'[c] = "holding" /\ active'[a] = TRUE /\ \A b \in Agents : b # a => active'[b] = active[b]
    BY <1>2, <2>1 DEF GateInv, TypeOK
  <2>4. \A d \in Callers : AgentOf[d] = a => ~Owns(d)
    BY <1>5 DEF GateInv, OwnerInv
  <2>5. QueueInv'
    BY <1>3, <1>4, <2>1, <2>2 DEF GateInv, QueueInv
  <2>6. ReadyInv'
    BY <1>3, <2>1, <2>2, <2>3 DEF GateInv, ReadyInv
  <2>7. OwnerInv'
    BY <1>2, <1>3, <2>2, <2>3, <2>4 DEF GateInv, OwnerInv, Owns
  <2>8. GateNotLost'
    <3>1. \A b \in Agents : queues'[b] # << >> => active'[b]
      BY <2>1, <2>3 DEF GateInv, GateNotLost
    <3>2. \A b \in Agents : active'[b] => \E d \in Callers : AgentOf[d] = b /\ Owns(d)'
      <4>1. Owns(c)'
        BY <2>3 DEF Owns
      <4>2. \A d \in Callers : Owns(d) => Owns(d)'
        BY <1>3, <2>2, <4>1 DEF Owns
      <4> QED
        BY <2>3, <4>1, <4>2 DEF GateInv, GateNotLost
    <3> QED
      BY <3>1, <3>2 DEF GateNotLost
  <2> QED
    BY <1>1, <2>5, <2>6, <2>7, <2>8 DEF GateInv
<1>6. CASE active[a]
  <2>1. /\ active' = active
        /\ pc' = [pc EXCEPT ![c] = "select"]
        /\ queues' = [queues EXCEPT ![a] = Append(@, c)]
    BY <1>6 DEF Acquire
  <2>2. pc'[c] = "select" /\ \A d \in Callers : d # c => pc'[d] = pc[d]
    BY <2>1 DEF GateInv, TypeOK
  <2>3. queues[a] \in Seq(Callers)
    BY <1>2 DEF GateInv, TypeOK
  <2>4. /\ queues'[a] = Append(queues[a], c)
        /\ \A b \in Agents : b # a => queues'[b] = queues[b]
    BY <1>2, <2>1 DEF GateInv, TypeOK
  <2>5. /\ Len(queues'[a]) = Len(queues[a]) + 1
        /\ queues'[a][Len(queues[a]) + 1] = c
        /\ \A i \in 1 .. Len(queues[a]) : queues'[a][i] = queues[a][i]
    BY <2>3, <2>4
  <2>6. QueueInv'
    <3> SUFFICES ASSUME NEW b \in Agents, NEW i \in 1 .. Len(queues'[b])
                 PROVE  /\ AgentOf[queues'[b][i]] = b
                        /\ pc'[queues'[b][i]] \in {"select", "leave"}
                        /\ ~ready'[queues'[b][i]]
                        /\ \A k \in 1 .. Len(queues'[b]) : queues'[b][k] = queues'[b][i] => k = i
      BY DEF QueueInv
    <3>1. CASE b # a
      BY <1>3, <1>4, <2>2, <2>4, <3>1 DEF GateInv, QueueInv
    <3>2. CASE b = a /\ i = Len(queues[a]) + 1
      BY <1>2, <1>3, <1>4, <2>2, <2>3, <2>5, <3>2
    <3>3. CASE b = a /\ i # Len(queues[a]) + 1
      <4>1. i \in 1 .. Len(queues[a]) /\ queues'[b][i] = queues[a][i]
        BY <2>3, <2>5, <3>3
      <4>2. queues[a][i] \in Callers /\ queues[a][i] # c
        BY <1>2, <1>4, <4>1
      <4>3. /\ AgentOf[queues[a][i]] = a
            /\ pc[queues[a][i]] \in {"select", "leave"}
            /\ ~ready[queues[a][i]]
            /\ \A k \in 1 .. Len(queues[a]) : queues[a][k] = queues[a][i] => k = i
        BY <1>2, <4>1 DEF GateInv, QueueInv
      <4>4. ASSUME NEW k \in 1 .. Len(queues'[a]), queues'[a][k] = queues[a][i]
            PROVE  k = i
        <5>1. k # Len(queues[a]) + 1
          BY <2>5, <4>2, <4>4
        <5>2. k \in 1 .. Len(queues[a])
          BY <2>3, <2>5, <5>1
        <5> QED
          BY <2>5, <4>3, <4>4, <5>2
      <4> QED
        BY <1>3, <2>2, <3>3, <4>1, <4>2, <4>3, <4>4
    <3> QED
      BY <3>1, <3>2, <3>3
  <2>7. ReadyInv'
    <3> SUFFICES ASSUME NEW d \in Callers
                 PROVE  /\ ready'[d] => pc'[d] \in {"select", "leave"}
                        /\ pc'[d] \in {"select", "leave"} /\ ~ready'[d]
                             => \E i \in 1 .. Len(queues'[AgentOf[d]]) : queues'[AgentOf[d]][i] = d
      BY DEF ReadyInv
    <3>1. CASE d = c
      BY <1>3, <2>2, <2>3, <2>5, <3>1
    <3>2. CASE d # c
      <4>1. pc[d] \in {"select", "leave"} /\ ~ready[d]
              => \E i \in 1 .. Len(queues[AgentOf[d]]) : queues[AgentOf[d]][i] = d
        BY DEF GateInv, ReadyInv
      <4>2. ASSUME NEW i \in 1 .. Len(queues[AgentOf[d]]), queues[AgentOf[d]][i] = d
            PROVE  \E k \in 1 .. Len(queues'[AgentOf[d]]) : queues'[AgentOf[d]][k] = d
        <5>1. i \in 1 .. Len(queues'[AgentOf[d]]) /\ queues'[AgentOf[d]][i] = d
          BY <1>2, <2>3, <2>4, <2>5, <4>2
        <5> QED
          BY <5>1
      <4> QED
        BY <1>3, <2>2, <3>2, <4>1, <4>2 DEF GateInv, ReadyInv
    <3> QED
      BY <3>1, <3>2
  <2>8. OwnerInv' /\ GateNotLost'
    <3>1. \A d \in Callers : Owns(d)' = Owns(d)
      BY <1>3, <2>2 DEF Owns
    <3>2. \A b \in Agents : queues'[b] # << >> => active[b]
      BY <1>6, <2>4 DEF GateInv, GateNotLost
    <3> QED
      BY <2>1, <3>1, <3>2 DEF GateInv, OwnerInv, GateNotLost
  <2> QED
    BY <1>1, <2>6, <2>7, <2>8 DEF GateInv
<1> QED
  BY <1>5, <1>6
\* A selected waiter that wakes up owns the gate as before.
LEMMA WakeStep ==
  ASSUME GateInv, NEW c \in Callers, NEW p \in {"holding", "giveUp"},
         pc[c] \in {"select", "leave"}, ready[c],
         pc' = [pc EXCEPT ![c] = p],
         ready' = [ready EXCEPT ![c] = FALSE],
         UNCHANGED <<active, queues>>
  PROVE  QueueInv' /\ ReadyInv' /\ OwnerInv' /\ GateNotLost'
<1>1. /\ pc'[c] = p /\ ready'[c] = FALSE
      /\ \A d \in Callers : d # c => pc'[d] = pc[d] /\ ready'[d] = ready[d]
  BY DEF GateInv, TypeOK
<1>2. \A b \in Agents : \A i \in 1 .. Len(queues[b]) : queues[b][i] \in Callers \ {c}
  BY DEF GateInv, TypeOK, QueueInv
<1>3. \A d \in Callers : Owns(d)' <=> Owns(d)
  BY <1>1 DEF Owns
<1>4. QueueInv'
  BY <1>1, <1>2 DEF GateInv, QueueInv
<1>5. ReadyInv'
  BY <1>1 DEF GateInv, ReadyInv
<1>6. OwnerInv' /\ GateNotLost'
  BY <1>3 DEF GateInv, OwnerInv, GateNotLost
<1> QED
  BY <1>4, <1>5, <1>6

\* The select of a waiter.
LEMMA SelectStep ==
  ASSUME GateInv, NEW c \in Callers, SelectReady(c) \/ SelectDone(c)
  PROVE  GateInv'
<1>1. TypeOK'
  BY GateTypeStep DEF GateInv, Step
<1>2. CASE SelectReady(c)
  <2>1. PICK p \in {"holding", "giveUp"} : pc' = [pc EXCEPT ![c] = p]
    BY <1>2 DEF SelectReady
  <2> QED
    BY <1>1, <1>2, <2>1, WakeStep DEF SelectReady, GateInv
<1>3. CASE SelectDone(c)
  <2>1. /\ pc[c] = "select" /\ pc'[c] = "leave"
        /\ \A d \in Callers : d # c => pc'[d] = pc[d]
        /\ UNCHANGED <<active, queues, ready>>
    BY <1>3 DEF SelectDone, GateInv, TypeOK
  <2>2. \A b \in Agents : \A i \in 1 .. Len(queues[b]) : queues[b][i] \in Callers
    BY DEF GateInv, TypeOK
  <2>3. \A d \in Callers : Owns(d)' <=> Owns(d)
    BY <2>1 DEF Owns
  <2>4. QueueInv' /\ ReadyInv'
    BY <2>1, <2>2 DEF GateInv, QueueInv, ReadyInv
  <2>5. OwnerInv' /\ GateNotLost'
    BY <2>1, <2>3 DEF GateInv, OwnerInv, GateNotLost
  <2> QED
    BY <1>1, <2>4, <2>5 DEF GateInv
<1> QED
  BY <1>2, <1>3

\* A waiter whose context ended leaves the queue, or gives up the gate it was given.
LEMMA LeaveStep ==
  ASSUME GateInv, NEW c \in Callers, LeaveQueue(c)
  PROVE  GateInv'
<1> DEFINE a == AgentOf[c]
           at == {i \in 1 .. Len(queues[a]) : queues[a][i] = c}
<1>1. TypeOK'
  BY GateTypeStep DEF GateInv, Step
<1>2. a \in Agents /\ (\A d \in Callers : AgentOf[d] \in Agents) /\ pc[c] = "leave"
  BY AgentOfAssumption DEF LeaveQueue
<1>3. CASE at = {}
  <2>1. ready[c]
    BY <1>2, <1>3 DEF GateInv, ReadyInv
  <2>2. /\ pc' = [pc EXCEPT ![c] = "giveUp"]
        /\ ready' = [ready EXCEPT ![c] = FALSE]
        /\ UNCHANGED <<active, queues>>
    BY <1>3 DEF LeaveQueue
  <2> QED
    BY <1>1, <1>2, <2>1, <2>2, WakeStep DEF GateInv
<1>4. CASE at # {}
  <2>1. PICK i \in at : queues' = [queues EXCEPT ![a] = Without(@, i)]
    BY <1>4 DEF LeaveQueue
  <2>2. i \in 1 .. Len(queues[a]) /\ queues[a][i] = c /\ queues[a] \in Seq(Callers)
    BY <1>2, <2>1 DEF GateInv, TypeOK
  <2>3. pc' = [pc EXCEPT ![c] = "idle"] /\ UNCHANGED <<active, ready>>
    BY <1>4 DEF LeaveQueue, Return
  <2>4. pc'[c] = "idle" /\ \A d \in Callers : d # c => pc'[d] = pc[d]
    BY <2>3 DEF GateInv, TypeOK
  <2>5. ~ready[c] /\ \A k \in 1 .. Len(queues[a]) : queues[a][k] = c => k = i
    <3>1. /\ ~ready[queues[a][i]]
          /\ \A k \in 1 .. Len(queues[a]) : queues[a][k] = queues[a][i] => k = i
      BY <1>2, <2>2 DEF GateInv, QueueInv
    <3> QED
      BY <2>2, <3>1
  <2>6. /\ queues'[a] = Without(queues[a], i)
        /\ \A b \in Agents : b # a => queues'[b] = queues[b]
    BY <1>2, <2>1 DEF GateInv, TypeOK
  <2>7. /\ Len(queues'[a]) = Len(queues[a]) - 1
        /\ \A k \in 1 .. Len(queues[a]) - 1 :
             queues'[a][k] = IF k < i THEN queues[a][k] ELSE queues[a][k + 1]
    <3>1. /\ Len(Without(queues[a], i)) = Len(queues[a]) - 1
          /\ \A k \in 1 .. Len(queues[a]) - 1 :
               Without(queues[a], i)[k] = IF k < i THEN queues[a][k] ELSE queues[a][k + 1]
      BY <2>2, WithoutProperties
    <3> QED
      BY <2>6, <3>1
  <2>8. \A d \in Callers : Owns(d)' <=> Owns(d)
    BY <1>2, <2>3, <2>4 DEF Owns
  <2>9. QueueInv'
    <3> SUFFICES ASSUME NEW b \in Agents, NEW j \in 1 .. Len(queues'[b])
                 PROVE  /\ AgentOf[queues'[b][j]] = b
                        /\ pc'[queues'[b][j]] \in {"select", "leave"}
                        /\ ~ready'[queues'[b][j]]
                        /\ \A k \in 1 .. Len(queues'[b]) : queues'[b][k] = queues'[b][j] => k = j
      BY DEF QueueInv
    <3>1. CASE b # a
      <4>1. queues'[b] = queues[b] /\ queues[b][j] \in Callers /\ AgentOf[queues[b][j]] = b
        BY <2>6, <3>1 DEF GateInv, TypeOK, QueueInv
      <4>2. queues[b][j] # c
        BY <3>1, <4>1
      <4> QED
        BY <2>3, <2>4, <4>1, <4>2 DEF GateInv, QueueInv
    <3>2. CASE b = a
      <4> DEFINE Old(k) == IF k < i THEN k ELSE k + 1
      <4>1. \A k \in 1 .. Len(queues'[a]) :
              Old(k) \in 1 .. Len(queues[a]) /\ Old(k) # i /\ queues'[a][k] = queues[a][Old(k)]
        BY <2>2, <2>7
      <4>2. queues[a][Old(j)] \in Callers /\ queues[a][Old(j)] # c
        BY <2>2, <2>5, <3>2, <4>1
      <4>3. /\ AgentOf[queues[a][Old(j)]] = a
            /\ pc[queues[a][Old(j)]] \in {"select", "leave"}
            /\ ~ready[queues[a][Old(j)]]
            /\ \A k \in 1 .. Len(queues[a]) : queues[a][k] = queues[a][Old(j)] => k = Old(j)
        BY <1>2, <3>2, <4>1 DEF GateInv, QueueInv
      <4>4. ASSUME NEW k \in 1 .. Len(queues'[a]), queues'[a][k] = queues'[a][j]
            PROVE  k = j
        <5>1. Old(k) = Old(j)
          BY <3>2, <4>1, <4>3, <4>4
        <5> QED
          BY <2>2, <2>7, <3>2, <5>1
      <4> QED
        BY <2>3, <2>4, <3>2, <4>1, <4>2, <4>3, <4>4
    <3> QED
      BY <3>1, <3>2
  <2>10. ReadyInv'
    <3> SUFFICES ASSUME NEW d \in Callers
                 PROVE  /\ ready'[d] => pc'[d] \in {"select", "leave"}
                        /\ pc'[d] \in {"select", "leave"} /\ ~ready'[d]
                             => \E k \in 1 .. Len(queues'[AgentOf[d]]) : queues'[AgentOf[d]][k] = d
      BY DEF ReadyInv
    <3>1. CASE d = c
      BY <2>3, <2>4, <2>5, <3>1
    <3>2. CASE d # c
      <4>1. pc[d] \in {"select", "leave"} /\ ~ready[d]
              => \E k \in 1 .. Len(queues[AgentOf[d]]) : queues[AgentOf[d]][k] = d
        BY DEF GateInv, ReadyInv
      <4>2. ASSUME NEW k \in 1 .. Len(queues[AgentOf[d]]), queues[AgentOf[d]][k] = d
            PROVE  \E l \in 1 .. Len(queues'[AgentOf[d]]) : queues'[AgentOf[d]][l] = d
        <5>1. CASE AgentOf[d] # a
          BY <1>2, <2>6, <4>2, <5>1
        <5>2. CASE AgentOf[d] = a
          <6>1. k # i
            BY <2>2, <3>2, <4>2, <5>2
          <6>2. CASE k < i
            <7>1. k \in 1 .. Len(queues[a]) - 1 /\ queues'[a][k] = d
              BY <2>2, <2>7, <4>2, <5>2, <6>2
            <7> QED
              BY <2>7, <5>2, <7>1
          <6>3. CASE k > i
            <7>1. k - 1 \in 1 .. Len(queues[a]) - 1 /\ ~(k - 1 < i) /\ (k - 1) + 1 = k
              BY <2>2, <4>2, <5>2, <6>3
            <7>2. queues'[a][k - 1] = d
              BY <2>7, <4>2, <5>2, <7>1
            <7> QED
              BY <2>7, <5>2, <7>1, <7>2
          <6> QED
            BY <2>2, <4>2, <6>1, <6>2, <6>3
        <5> QED
          BY <5>1, <5>2
      <4> QED
        BY <2>3, <2>4, <3>2, <4>1, <4>2 DEF GateInv, ReadyInv
    <3> QED
      BY <3>1, <3>2
  <2>11. OwnerInv'
    BY <2>3, <2>8 DEF GateInv, OwnerInv
  <2>12. GateNotLost'
    <3>1. queues[a] # << >>
      BY <2>2
    <3>2. \A b \in Agents : queues'[b] # << >> => active[b]
      BY <1>2, <2>6, <3>1 DEF GateInv, GateNotLost
    <3> QED
      BY <2>3, <2>8, <3>2 DEF GateInv, GateNotLost
  <2> QED
    BY <1>1, <2>9, <2>10, <2>11, <2>12 DEF GateInv
<1> QED
  BY <1>3, <1>4
\* Release hands the gate to the first waiter, or frees it.
LEMMA ReleaseStep ==
  ASSUME GateInv, NEW c \in Callers, Release(c)
  PROVE  GateInv'
<1> DEFINE a == AgentOf[c]
<1>1. TypeOK'
  BY GateTypeStep DEF GateInv, Step
<1>2. a \in Agents /\ (\A d \in Callers : AgentOf[d] \in Agents) /\ queues[a] \in Seq(Callers)
  BY AgentOfAssumption DEF GateInv, TypeOK
<1>3. /\ pc[c] \in {"holding", "giveUp"} /\ pc'[c] = "idle"
      /\ \A d \in Callers : d # c => pc'[d] = pc[d]
  BY DEF Release, Return, GateInv, TypeOK
<1>4. Owns(c) /\ ~ready[c] /\ active[a]
  BY <1>3 DEF Owns, GateInv, ReadyInv, OwnerInv
<1>5. \A d \in Callers : Owns(d) /\ AgentOf[d] = a => d = c
  BY <1>4 DEF GateInv, OwnerInv
<1>6. \A b \in Agents : \A i \in 1 .. Len(queues[b]) : queues[b][i] \in Callers \ {c}
  BY <1>3 DEF GateInv, TypeOK, QueueInv
<1>7. CASE queues[a] = << >>
  <2>1. active' = [active EXCEPT ![a] = FALSE] /\ UNCHANGED <<queues, ready>>
    BY <1>7 DEF Release
  <2>2. active'[a] = FALSE /\ \A b \in Agents : b # a => active'[b] = active[b]
    BY <1>2, <2>1 DEF GateInv, TypeOK
  <2>3. /\ ~Owns(c)'
        /\ \A d \in Callers : d # c => (Owns(d)' <=> Owns(d))
    BY <1>3, <1>4, <2>1 DEF Owns
  <2>4. QueueInv' /\ ReadyInv'
    BY <1>3, <1>4, <1>6, <2>1 DEF GateInv, QueueInv, ReadyInv
  <2>5. OwnerInv'
    BY <1>2, <1>5, <2>2, <2>3 DEF GateInv, OwnerInv
  <2>6. GateNotLost'
    <3>1. \A b \in Agents : queues'[b] # << >> => active'[b]
      BY <1>7, <2>1, <2>2 DEF GateInv, GateNotLost
    <3>2. \A b \in Agents : active'[b] => \E d \in Callers : AgentOf[d] = b /\ Owns(d)'
      BY <2>2, <2>3 DEF GateInv, GateNotLost
    <3> QED
      BY <3>1, <3>2 DEF GateNotLost
  <2> QED
    BY <1>1, <2>4, <2>5, <2>6 DEF GateInv
<1>8. CASE queues[a] # << >>
  <2> DEFINE n == Len(queues[a])
  <2>0. PICK h : h = queues[a][1]
    OBVIOUS
  <2>1. n \in Nat /\ n >= 1 /\ Head(queues[a]) = h
    BY <1>2, <1>8, <2>0
  <2>2. /\ h \in Callers /\ h # c /\ AgentOf[h] = a
        /\ pc[h] \in {"select", "leave"} /\ ~ready[h]
        /\ \A k \in 1 .. n : queues[a][k] = h => k = 1
    <3>1. 1 \in 1 .. n
      BY <2>1
    <3> QED
      BY <1>2, <1>6, <2>0, <3>1 DEF GateInv, QueueInv
  <2>3. /\ ready' = [ready EXCEPT ![h] = TRUE]
        /\ queues' = [queues EXCEPT ![a] = Tail(@)]
        /\ active' = active
    BY <1>8, <2>1 DEF Release
  <2>4. ready'[h] = TRUE /\ \A d \in Callers : d # h => ready'[d] = ready[d]
    BY <2>2, <2>3 DEF GateInv, TypeOK
  <2>5. /\ queues'[a] = Tail(queues[a])
        /\ \A b \in Agents : b # a => queues'[b] = queues[b]
    BY <1>2, <2>3 DEF GateInv, TypeOK
  <2>6. /\ Len(queues'[a]) = n - 1
        /\ \A k \in 1 .. n - 1 : queues'[a][k] = queues[a][k + 1]
    BY <1>2, <1>8, <2>5
  <2>7. /\ ~Owns(c)' /\ Owns(h)' /\ ~Owns(h)
        /\ \A d \in Callers : d # c /\ d # h => (Owns(d)' <=> Owns(d))
    BY <1>3, <1>4, <2>2, <2>4 DEF Owns
  <2> HIDE DEF n
  <2>8. QueueInv'
    <3> SUFFICES ASSUME NEW b \in Agents, NEW j \in 1 .. Len(queues'[b])
                 PROVE  /\ AgentOf[queues'[b][j]] = b
                        /\ pc'[queues'[b][j]] \in {"select", "leave"}
                        /\ ~ready'[queues'[b][j]]
                        /\ \A k \in 1 .. Len(queues'[b]) : queues'[b][k] = queues'[b][j] => k = j
      BY DEF QueueInv
    <3>1. CASE b # a
      <4>1. queues'[b] = queues[b] /\ queues[b][j] \in Callers \ {c} /\ AgentOf[queues[b][j]] = b
        BY <1>6, <2>5, <3>1 DEF GateInv, QueueInv
      <4>2. queues[b][j] # h
        BY <2>2, <3>1, <4>1
      <4> QED
        BY <1>3, <2>4, <4>1, <4>2 DEF GateInv, QueueInv
    <3>2. CASE b = a
      <4>1. /\ j \in 1 .. n - 1 /\ j + 1 \in 1 .. n /\ j + 1 # 1
            /\ queues'[a][j] = queues[a][j + 1]
        BY <2>1, <2>6, <3>2
      <4>2. /\ AgentOf[queues[a][j + 1]] = a
            /\ pc[queues[a][j + 1]] \in {"select", "leave"}
            /\ ~ready[queues[a][j + 1]]
            /\ \A k \in 1 .. n : queues[a][k] = queues[a][j + 1] => k = j + 1
        BY <1>2, <4>1 DEF GateInv, QueueInv, n
      <4>3. queues[a][j + 1] \in Callers \ {c} /\ queues[a][j + 1] # h
        BY <1>2, <1>6, <2>2, <4>1 DEF n
      <4>4. ASSUME NEW k \in 1 .. Len(queues'[a]), queues'[a][k] = queues'[a][j]
            PROVE  k = j
        <5>1. k + 1 \in 1 .. n /\ queues'[a][k] = queues[a][k + 1]
          BY <2>1, <2>6
        <5>2. k + 1 = j + 1
          BY <4>1, <4>2, <4>4, <5>1
        <5> QED
          BY <5>2, <4>1, <2>6
      <4> QED
        BY <1>3, <2>4, <3>2, <4>1, <4>2, <4>3, <4>4
    <3> QED
      BY <3>1, <3>2
  <2>9. ReadyInv'
    <3> SUFFICES ASSUME NEW d \in Callers
                 PROVE  /\ ready'[d] => pc'[d] \in {"select", "leave"}
                        /\ pc'[d] \in {"select", "leave"} /\ ~ready'[d]
                             => \E k \in 1 .. Len(queues'[AgentOf[d]]) : queues'[AgentOf[d]][k] = d
      BY DEF ReadyInv
    <3>1. CASE d = c \/ d = h
      BY <1>3, <1>4, <2>2, <2>4, <3>1
    <3>2. CASE d # c /\ d # h
      <4>1. /\ ready[d] => pc[d] \in {"select", "leave"}
            /\ pc[d] \in {"select", "leave"} /\ ~ready[d]
                 => \E k \in 1 .. Len(queues[AgentOf[d]]) : queues[AgentOf[d]][k] = d
        BY DEF GateInv, ReadyInv
      <4>2. ASSUME NEW k \in 1 .. Len(queues[AgentOf[d]]), queues[AgentOf[d]][k] = d
            PROVE  \E l \in 1 .. Len(queues'[AgentOf[d]]) : queues'[AgentOf[d]][l] = d
        <5>1. CASE AgentOf[d] # a
          BY <1>2, <2>5, <4>2, <5>1
        <5>2. CASE AgentOf[d] = a
          <6>1. k # 1 /\ k \in 1 .. n
            BY <2>0, <3>2, <4>2, <5>2 DEF n
          <6>2. k - 1 \in 1 .. n - 1 /\ (k - 1) + 1 = k
            BY <2>1, <6>1
          <6>3. queues'[a][k - 1] = d
            BY <2>6, <4>2, <5>2, <6>2
          <6> QED
            BY <2>6, <5>2, <6>2, <6>3
        <5> QED
          BY <5>1, <5>2
      <4> QED
        BY <1>3, <2>4, <3>2, <4>1, <4>2
    <3> QED
      BY <3>1, <3>2
  <2>10. OwnerInv'
    BY <1>4, <1>5, <2>2, <2>3, <2>7 DEF GateInv, OwnerInv
  <2>11. GateNotLost'
    <3>1. \A b \in Agents : queues'[b] # << >> => active'[b]
      BY <1>4, <2>3, <2>5 DEF GateInv, GateNotLost
    <3>2. \A b \in Agents : active'[b] => \E d \in Callers : AgentOf[d] = b /\ Owns(d)'
      BY <2>2, <2>3, <2>7 DEF GateInv, GateNotLost
    <3> QED
      BY <3>1, <3>2 DEF GateNotLost
  <2> QED
    BY <1>1, <2>8, <2>9, <2>10, <2>11 DEF GateInv
<1> QED
  BY <1>7, <1>8

-----------------------------------------------------------------------------

\* The invariant is inductive: callers that acquire, wait, leave and release keep one
\* owner per taken gate.
THEOREM GateInvariant == Spec => []GateInv
<1>1. Init => GateInv
  <2> SUFFICES ASSUME Init PROVE GateInv
    OBVIOUS
  <2>1. TypeOK
    BY DEF Init, TypeOK
  <2>2. QueueInv /\ ReadyInv /\ OwnerInv
    BY AgentOfAssumption DEF Init, QueueInv, ReadyInv, OwnerInv, Owns
  <2>3. GateNotLost
    BY DEF Init, GateNotLost
  <2> QED
    BY <2>1, <2>2, <2>3 DEF GateInv
<1>2. GateInv /\ [Next]_vars => GateInv'
  <2>1. ASSUME GateInv, NEW c \in Callers, Acquire(c) \/ EndContext(c) \/ Step(c)
        PROVE  GateInv'
    BY <2>1, AcquireStep, EndContextStep, SelectStep, LeaveStep, ReleaseStep DEF Step
  <2>2. ASSUME GateInv, UNCHANGED vars
        PROVE  GateInv'
    BY <2>2 DEF vars, GateInv, TypeOK, QueueInv, ReadyInv, OwnerInv, GateNotLost, Owns
  <2> QED
    BY <2>1, <2>2 DEF Next
<1> QED
  BY <1>1, <1>2, PTL DEF Spec

\* Two callers never hold the gate of one Agent together, for any callers and Agents.
THEOREM MutualExclusion == Spec => []OneHolderPerAgent
<1>1. GateInv => OneHolderPerAgent
  BY DEF GateInv, OwnerInv, Owns, OneHolderPerAgent
<1> QED
  BY <1>1, GateInvariant, PTL

\* A taken gate always has an owner that will release it, and nobody waits for a free
\* one, although a waiter may leave at the moment it is selected.
THEOREM GateKept == Spec => []GateNotLost
<1>1. GateInv => GateNotLost
  BY DEF GateInv
<1> QED
  BY <1>1, GateInvariant, PTL

\* The gate of an Agent is exclusive and not lost, for any callers and Agents (Acquire,
\* release).
THEOREM AgentGate == Spec => []AgentGateKept
<1>1. GateInv => AgentGateKept
  BY DEF GateInv, OwnerInv, Owns, OneHolderPerAgent, AgentGateKept
<1> QED
  BY <1>1, GateInvariant, PTL

\* Whoever comes to own the gate was the first of its queue, or found nobody waiting.
LEMMA OwnerWasFirst ==
  ASSUME GateInv, NEW x \in Callers, Acquire(x) \/ EndContext(x) \/ Step(x),
         NEW c \in Callers, ~Owns(c), Owns(c)'
  PROVE  queues[AgentOf[c]] = << >> \/ Head(queues[AgentOf[c]]) = c
<1> USE DEF GateInv
<1>1. CASE Acquire(x)
  <2>1. ~active[AgentOf[x]] => queues[AgentOf[x]] = << >>
    BY AgentOfAssumption DEF GateNotLost
  <2>2. c = x /\ ~active[AgentOf[x]]
    BY <1>1 DEF Acquire, Owns, TypeOK
  <2> QED
    BY <2>1, <2>2
<1>2. CASE EndContext(x)
  BY <1>2 DEF EndContext, Owns
<1>3. CASE SelectReady(x)
  BY <1>3 DEF SelectReady, Owns, TypeOK
<1>4. CASE SelectDone(x)
  BY <1>4 DEF SelectDone, Owns, TypeOK
<1>5. CASE LeaveQueue(x)
  <2> DEFINE at == {i \in 1 .. Len(queues[AgentOf[x]]) : queues[AgentOf[x]][i] = x}
  <2>1. CASE at = {}
    <3>1. pc' = [pc EXCEPT ![x] = "giveUp"] /\ ready' = [ready EXCEPT ![x] = FALSE]
      BY <1>5, <2>1 DEF LeaveQueue
    <3>2. Owns(x)
      <4>1. pc[x] = "leave"
        BY <1>5 DEF LeaveQueue
      <4>2. ready[x]
        BY <2>1, <4>1 DEF ReadyInv
      <4> QED
        BY <4>2 DEF Owns
    <3> QED
      BY <3>1, <3>2 DEF Owns, TypeOK
  <2>2. CASE at # {}
    <3>1. pc' = [pc EXCEPT ![x] = "idle"] /\ ready' = ready
      BY <1>5, <2>2 DEF LeaveQueue, Return
    <3> QED
      BY <3>1 DEF Owns, TypeOK
  <2> QED
    BY <2>1, <2>2
<1>6. CASE Release(x)
  <2>1. pc' = [pc EXCEPT ![x] = "idle"]
    BY <1>6 DEF Release, Return
  <2>2. CASE queues[AgentOf[x]] = << >>
    <3>1. ready' = ready
      BY <1>6, <2>2 DEF Release
    <3> QED
      BY <2>1, <3>1 DEF Owns, TypeOK
  <2>3. CASE queues[AgentOf[x]] # << >>
    <3> DEFINE h == Head(queues[AgentOf[x]])
    <3>1. ready' = [ready EXCEPT ![h] = TRUE]
      BY <1>6, <2>3 DEF Release
    <3>2. h \in Callers /\ AgentOf[h] = AgentOf[x]
      <4>1. queues[AgentOf[x]] \in Seq(Callers) /\ AgentOf[x] \in Agents
        BY AgentOfAssumption DEF TypeOK
      <4>2. 1 \in 1 .. Len(queues[AgentOf[x]]) /\ h = queues[AgentOf[x]][1]
        BY <2>3, <4>1
      <4> QED
        BY <4>1, <4>2 DEF QueueInv
    <3>3. c = h
      BY <2>1, <3>1 DEF Owns, TypeOK
    <3> QED
      BY <3>2, <3>3
  <2> QED
    BY <2>2, <2>3
<1> QED
  BY <1>1, <1>2, <1>3, <1>4, <1>5, <1>6 DEF Step

\* Waiters are served in the order of their arrival, for any callers and Agents (release
\* hands the gate to the head of the queue).
THEOREM ServedInOrder == Spec => FirstComeFirstServed
<1> DEFINE A == \A c \in Callers :
                  ~Owns(c) /\ Owns(c)' =>
                    LET q == queues[AgentOf[c]] IN q = << >> \/ Head(q) = c
<1>1. GateInv /\ Next => A
  BY OwnerWasFirst DEF Next
<1>2. UNCHANGED vars => A
  BY DEF vars, Owns
<1>3. GateInv /\ [Next]_vars => [A]_vars
  BY <1>1, <1>2
<1> QED
  BY <1>3, GateInvariant, PTL DEF Spec, FirstComeFirstServed

-----------------------------------------------------------------------------
(* The gate of the resources *)

\* The active claims do not conflict.
GrantedDisjoint(act) == \A c, d \in act : c # d => ~resourcesConflict(c, d)

\* A holder is active; a claim is active or waiting only while its call is under way,
\* and not both; a waiter is kept waiting by an active claim or an earlier waiter.
ClaimInv ==
  /\ ClaimTypeOK
  /\ \A c \in Claims : stage[c] \in {"recheck", "holding"} => c \in granted
  /\ \A c \in granted \cup Pending : stage[c] # "idle"
  /\ granted \cap Pending = {}
  /\ GrantedDisjoint(granted)
  /\ \A c \in Pending : \E d \in granted \cup waiting[c] : resourcesConflict(c, d)

\* Conflicts are mutual: an Agent is shared, and either Workspace contains the other.
LEMMA ConflictSymmetric ==
  ASSUME NEW c, NEW d, resourcesConflict(c, d)
  PROVE  resourcesConflict(d, c)
BY DEF resourcesConflict

\* What a queue must be: claims, each with claims of the queue before it, and of two
\* that wait one is before the other.
Queue(q) ==
  /\ DOMAIN q \subseteq Claims
  /\ q \in [DOMAIN q -> SUBSET DOMAIN q]
  /\ \A c, d \in DOMAIN q : c # d => c \in q[d] \/ d \in q[c]

\* Of two claims that wait, one is before the other.
QueueOrdered == Queue(waiting)

\* A queue that loses claims is a queue.
LEMMA RemovalKeepsQueue ==
  ASSUME NEW q, NEW S, Queue(q)
  PROVE  /\ Queue(removeWaiters(q, S))
         /\ DOMAIN removeWaiters(q, S) = DOMAIN q \ S
         /\ \A c \in DOMAIN q \ S : removeWaiters(q, S)[c] = q[c] \ S
BY DEF Queue, removeWaiters

\* A claim that comes is behind everybody.
LEMMA EnqueuedIsQueue ==
  ASSUME QueueOrdered, NEW c \in Claims, c \notin Pending
  PROVE  /\ Queue(Enqueued(c))
         /\ DOMAIN Enqueued(c) = Pending \cup {c}
         /\ Enqueued(c)[c] = Pending
         /\ \A d \in Pending : Enqueued(c)[d] = waiting[d]
BY DEF Queue, QueueOrdered, Enqueued, Pending

\* What schedule starts conflicts neither with the active claims nor with itself.
LEMMA ScheduleDisjoint ==
  ASSUME NEW act, NEW q, Queue(q), GrantedDisjoint(act)
  PROVE  GrantedDisjoint(act \cup Startable(act, q))
<1> SUFFICES ASSUME NEW c \in act \cup Startable(act, q), NEW d \in act \cup Startable(act, q),
                    c # d, resourcesConflict(c, d)
             PROVE  FALSE
  BY DEF GrantedDisjoint
<1>1. resourcesConflict(d, c)
  BY ConflictSymmetric
<1>2. ASSUME NEW x \in Startable(act, q)
      PROVE  /\ x \in DOMAIN q
             /\ \A y \in act : ~resourcesConflict(x, y)
             /\ \A y \in q[x] : ~resourcesConflict(x, y)
  BY DEF Startable
<1>3. CASE c \in act /\ d \in act
  BY <1>3 DEF GrantedDisjoint
<1>4. CASE c \in Startable(act, q) /\ d \in act
  BY <1>2, <1>4
<1>5. CASE c \in act /\ d \in Startable(act, q)
  BY <1>1, <1>2, <1>5
<1>6. CASE c \in Startable(act, q) /\ d \in Startable(act, q)
  <2>1. c \in q[d] \/ d \in q[c]
    BY <1>2, <1>6 DEF Queue
  <2> QED
    BY <1>1, <1>2, <1>6, <2>1
<1> QED
  BY <1>3, <1>4, <1>5, <1>6

\* What schedule leaves behind: active claims without a conflict, and waiters that each
\* have a reason to wait.
LEMMA ScheduleEffect ==
  ASSUME NEW act, NEW q, schedule(act, q), Queue(q), GrantedDisjoint(act),
         act \subseteq Claims, act \cap DOMAIN q = {}
  PROVE  /\ act \subseteq granted' /\ granted' \subseteq Claims
         /\ granted' \cup Pending' = act \cup DOMAIN q
         /\ granted' \cap Pending' = {}
         /\ Queue(waiting')
         /\ GrantedDisjoint(granted')
         /\ \A c \in Pending' : \E d \in granted' \cup waiting'[c] : resourcesConflict(c, d)
<1> DEFINE S == Startable(act, q)
<1>1. granted' = act \cup S /\ waiting' = removeWaiters(q, S)
  BY DEF schedule
<1>2. S \subseteq DOMAIN q /\ DOMAIN q \subseteq Claims
  BY DEF Startable, Queue
<1>3. /\ Queue(waiting') /\ Pending' = DOMAIN q \ S
      /\ \A c \in DOMAIN q \ S : waiting'[c] = q[c] \ S
  <2> HIDE DEF S
  <2> QED  BY <1>1, RemovalKeepsQueue DEF Pending
<1>4. GrantedDisjoint(granted')
  BY <1>1, ScheduleDisjoint
<1>5. ASSUME NEW c \in Pending'
      PROVE  \E d \in granted' \cup waiting'[c] : resourcesConflict(c, d)
  <2>1. c \in DOMAIN q /\ c \notin S
    BY <1>3
  <2>2. PICK d \in act \cup q[c] : resourcesConflict(c, d)
    BY <2>1 DEF Startable
  <2>3. d \in granted' \cup waiting'[c]
    BY <1>1, <1>3, <2>1, <2>2
  <2> QED
    BY <2>2, <2>3
<1> QED
  <2> HIDE DEF S
  <2> QED  BY <1>1, <1>2, <1>3, <1>4, <1>5

\* The invariant with the order of the queue.
IInv == ClaimInv /\ QueueOrdered

\* A removal: the claim is no longer active or waiting, and the others are scheduled.
LEMMA RemoveEffect ==
  ASSUME IInv, NEW c \in Claims, remove(c)
  PROVE  \E act, q :
           /\ schedule(act, q) /\ Queue(q) /\ GrantedDisjoint(act)
           /\ act = granted \ {c} /\ DOMAIN q = Pending \ {c}
           /\ \A d \in DOMAIN q : q[d] = waiting[d] \ {c}
<1> USE DEF IInv, ClaimInv
<1>1. CASE c \in granted
  <2>1. schedule(granted \ {c}, waiting)
    BY <1>1 DEF remove
  <2>2. c \notin Pending /\ Pending \ {c} = Pending
    BY <1>1
  <2>3. GrantedDisjoint(granted \ {c}) /\ Queue(waiting)
    BY DEF GrantedDisjoint, QueueOrdered
  <2>4. \A d \in Pending : waiting[d] = waiting[d] \ {c}
    BY <2>2 DEF QueueOrdered, Queue, Pending
  <2> QED
    BY <2>1, <2>2, <2>3, <2>4 DEF Pending
<1>2. CASE c \notin granted
  <2> DEFINE q == removeWaiters(waiting, {c})
  <2>1. schedule(granted, q)
    BY <1>2 DEF remove
  <2>2. /\ Queue(q) /\ DOMAIN q = Pending \ {c}
        /\ \A d \in Pending \ {c} : q[d] = waiting[d] \ {c}
    BY RemovalKeepsQueue DEF QueueOrdered, Pending
  <2>3. granted \ {c} = granted
    BY <1>2
  <2> HIDE DEF q
  <2> QED
    BY <2>1, <2>2, <2>3
<1> QED
  BY <1>1, <1>2

\* Every step of a claim keeps the invariant.
LEMMA ClaimInvStep ==
  ASSUME IInv, NEW c \in Claims, Claim(c) \/ EndClaim(c) \/ ClaimStep(c)
  PROVE  IInv'
<1> USE DEF IInv, ClaimInv, ClaimTypeOK
<1>1. CASE Claim(c)
  <2>1. c \notin granted /\ c \notin Pending
    BY <1>1 DEF Claim
  <2>2. Queue(Enqueued(c)) /\ DOMAIN Enqueued(c) = Pending \cup {c}
    BY <2>1, EnqueuedIsQueue
  <2>3. /\ schedule(granted, Enqueued(c)) /\ ended' = ended
        /\ stage' = [stage EXCEPT ![c] = "select"]
    BY <1>1 DEF Claim
  <2>4. /\ granted \subseteq granted' /\ granted' \subseteq Claims
        /\ granted' \cup Pending' = granted \cup Pending \cup {c}
        /\ granted' \cap Pending' = {} /\ Queue(waiting') /\ GrantedDisjoint(granted')
        /\ \A x \in Pending' : \E d \in granted' \cup waiting'[x] : resourcesConflict(x, d)
    BY <2>1, <2>2, <2>3, ScheduleEffect
  <2>5. /\ Pending' \subseteq Claims /\ waiting' \in [Pending' -> SUBSET Pending']
        /\ QueueOrdered'
    BY <2>4 DEF Queue, QueueOrdered, Pending
  <2>6. /\ \A x \in Claims : stage'[x] \in {"recheck", "holding"} => x \in granted'
        /\ \A x \in granted' \cup Pending' : stage'[x] # "idle"
        /\ stage' \in [Claims -> {"idle", "select", "recheck", "holding", "remove"}]
    BY <2>3, <2>4
  <2> QED
    BY <2>3, <2>4, <2>5, <2>6 DEF GrantedDisjoint, resourcesConflict
<1>2. CASE EndClaim(c) \/ ClaimReady(c) \/ ClaimDone(c) \/ Recheck(c)
  <2>1. granted' = granted /\ waiting' = waiting /\ Pending' = Pending
    BY <1>2 DEF EndClaim, ClaimReady, ClaimDone, Recheck, Pending
  <2>2. /\ stage' \in [Claims -> {"idle", "select", "recheck", "holding", "remove"}]
        /\ ended' \subseteq Claims
        /\ \A x \in Claims : stage'[x] \in {"recheck", "holding"} => x \in granted
        /\ \A x \in granted \cup Pending : stage'[x] # "idle"
    BY <1>2 DEF EndClaim, ClaimReady, ClaimDone, Recheck
  <2> QED
    BY <2>1, <2>2 DEF GrantedDisjoint, resourcesConflict, QueueOrdered, Queue
<1>3. CASE remove(c)
  <2>1. PICK act, q :
           /\ schedule(act, q) /\ Queue(q) /\ GrantedDisjoint(act)
           /\ act = granted \ {c} /\ DOMAIN q = Pending \ {c}
    BY <1>3, RemoveEffect
  <2>2. /\ act \subseteq granted' /\ granted' \subseteq Claims
        /\ granted' \cup Pending' = act \cup DOMAIN q
        /\ granted' \cap Pending' = {} /\ Queue(waiting') /\ GrantedDisjoint(granted')
        /\ \A x \in Pending' : \E d \in granted' \cup waiting'[x] : resourcesConflict(x, d)
    BY <2>1, ScheduleEffect
  <2>3. stage' = [stage EXCEPT ![c] = "idle"] /\ ended' = ended \ {c}
    BY <1>3 DEF remove
  <2>4. /\ Pending' \subseteq Claims /\ waiting' \in [Pending' -> SUBSET Pending']
        /\ QueueOrdered'
    BY <2>2 DEF Queue, QueueOrdered, Pending
  <2>5. /\ \A x \in Claims : stage'[x] \in {"recheck", "holding"} => x \in granted'
        /\ \A x \in granted' \cup Pending' : stage'[x] # "idle"
        /\ stage' \in [Claims -> {"idle", "select", "recheck", "holding", "remove"}]
    BY <2>1, <2>2, <2>3
  <2> QED
    BY <2>2, <2>3, <2>4, <2>5 DEF GrantedDisjoint, resourcesConflict
<1> QED
  BY <1>1, <1>2, <1>3 DEF ClaimStep

\* The invariant is inductive.
THEOREM ClaimInvariant == ClaimSpec => []IInv
<1>1. ClaimInit => IInv
  BY DEF ClaimInit, IInv, ClaimInv, ClaimTypeOK, QueueOrdered, Queue, Pending, GrantedDisjoint
<1>2. IInv /\ [ClaimNext]_claimVars => IInv'
  <2>1. IInv /\ ClaimNext => IInv'
    BY ClaimInvStep DEF ClaimNext
  <2>2. IInv /\ UNCHANGED claimVars => IInv'
    BY DEF IInv, ClaimInv, ClaimTypeOK, QueueOrdered, Queue, Pending, GrantedDisjoint,
           claimVars, resourcesConflict
  <2> QED
    BY <2>1, <2>2
<1> QED
  BY <1>1, <1>2, PTL DEF ClaimSpec

\* Callers that hold the gate together use different Agents, in Workspaces neither of
\* which contains the other, and nobody waits without an active claim or an earlier waiter
\* it conflicts with, for any callers, Agents and containment of Workspaces (schedule,
\* remove).
THEOREM GateOfResources == ClaimSpec => []ResourceGateKept
<1>1. IInv => ResourceGateKept
  BY DEF IInv, ClaimInv, GrantedDisjoint, ResourceGateKept, HoldersDisjoint, WaitersBlocked
<1> QED
  BY <1>1, ClaimInvariant, PTL

\* A step that starts a claim leaves no earlier claim behind that it conflicts with
\* (schedule looks at the pending claims before it).
LEMMA StartedInOrder ==
  ASSUME IInv, NEW x \in Claims, Claim(x) \/ EndClaim(x) \/ ClaimStep(x),
         NEW c \in granted' \ granted, NEW d \in Pending,
         resourcesConflict(c, d), c \in Pending => d \in waiting[c]
  PROVE  d \notin Pending'
<1> USE DEF IInv
<1>1. ASSUME NEW act, NEW q, schedule(act, q), c \notin act
      PROVE  c \in DOMAIN q /\ \A y \in q[c] : ~resourcesConflict(c, y)
  BY <1>1 DEF schedule, Startable
<1>2. CASE Claim(x)
  <2>1. x \notin Pending /\ schedule(granted, Enqueued(x))
    BY <1>2 DEF Claim, ClaimInv
  <2>2. /\ DOMAIN Enqueued(x) = Pending \cup {x} /\ Enqueued(x)[x] = Pending
        /\ \A y \in Pending : Enqueued(x)[y] = waiting[y]
    BY <2>1, EnqueuedIsQueue
  <2> QED
    BY <1>1, <2>1, <2>2
<1>3. CASE EndClaim(x) \/ ClaimReady(x) \/ ClaimDone(x) \/ Recheck(x)
  BY <1>3 DEF EndClaim, ClaimReady, ClaimDone, Recheck
<1>4. CASE remove(x)
  <2>1. PICK act, q :
           /\ schedule(act, q) /\ Queue(q) /\ GrantedDisjoint(act)
           /\ act = granted \ {x} /\ DOMAIN q = Pending \ {x}
           /\ \A y \in DOMAIN q : q[y] = waiting[y] \ {x}
    BY <1>4, RemoveEffect
  <2>2. c \in Pending /\ c # x /\ d \in waiting[c] /\ d \notin q[c]
    BY <1>1, <2>1
  <2>3. d = x
    BY <2>1, <2>2
  <2>4. waiting' = removeWaiters(q, Startable(act, q)) /\ Pending' \subseteq DOMAIN q
    BY <2>1 DEF schedule, removeWaiters, Pending
  <2> QED
    BY <2>1, <2>3, <2>4
<1> QED
  BY <1>2, <1>3, <1>4 DEF ClaimStep

\* "Earlier conflicting waiters keep priority", for any callers, Agents and Workspaces.
THEOREM PriorityKept == ClaimSpec => NoOvertaking
<1> DEFINE A == \A c \in granted' \ granted : \A d \in Pending :
                   /\ resourcesConflict(c, d)
                   /\ c \in Pending => d \in waiting[c]
                   => d \notin Pending'
<1>1. IInv /\ ClaimNext => A
  BY StartedInOrder DEF ClaimNext
<1>2. UNCHANGED claimVars => A
  BY DEF claimVars
<1>3. IInv /\ [ClaimNext]_claimVars => [A]_claimVars
  BY <1>1, <1>2
<1> QED
  BY <1>3, ClaimInvariant, PTL DEF ClaimSpec, NoOvertaking
=============================================================================
