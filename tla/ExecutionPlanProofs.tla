------------------------- MODULE ExecutionPlanProofs -------------------------
(***************************************************************************)
(* Proofs about ExecutionPlan for every graph of nodes, gates and Agents,  *)
(* every policy and any number of revisions: no Run exists before its      *)
(* gates are proven, a proof stands on the attempt it names, supersession  *)
(* strands no gate; and, unless members admit Runs by message, a Task has  *)
(* one attempt and an Agent one Run at a time.                             *)
(***************************************************************************)
EXTENDS ExecutionPlan, FiniteSetTheorems, TLAPS

-----------------------------------------------------------------------------
(* The inductive invariant *)

NodeView == [state : {"absent", "blocked", "ready", "dispatched",
                      "awaiting_result", "failed", "outcome_unknown"},
             gen : 0..MaxAttempts]

\* The types, with the attempts of a node as a sequence within the budget.
PlanType ==
    /\ plan \in [state : {"approved", "running", "paused"}, rev : Revs]
    /\ mode \in Modes
    /\ runs \in [Revs -> [Nodes -> Seq(Attempt)]]
    /\ \A r \in Revs, n \in Nodes : Len(runs[r][n]) <= MaxAttempts
    /\ proofs \subseteq [rev : Revs, node : Nodes, gate : Gates, gen : 0..MaxAttempts]
    /\ node \in [Nodes -> NodeView]
    /\ cand \in {"none", "fresh", "stale"}
    /\ cand # "none" => plan.rev < MaxRev
    /\ up \in BOOLEAN

\* A sweep under way: Central runs, and what it is about to admit was found ready by
\* the step before, which no other step can follow.
SweepInv ==
    /\ DOMAIN sweep = {"pc", "queue", "left", "max"}
    /\ sweep.pc \in {"idle", "reconcile", "evaluate", "admit"}
    /\ \A n : sweep.pc = "admit" /\ Head(sweep.queue) = n => Readiness(n, FALSE)
    /\ ~up => sweep = Resting

GateInv == DependenciesMet /\ ProofsStand /\ GatesCarried

PlanInv == PlanType /\ SweepInv /\ GateInv

-----------------------------------------------------------------------------
(* Attempts *)

\* The constants.
LEMMA PlanConstants ==
    /\ IsFiniteSet(Nodes) /\ MaxAttempts \in Nat /\ MaxAttempts >= 1
    /\ MaxRev \in Nat /\ MaxRev >= 1 /\ MaxResults \in Nat
    /\ Controls \subseteq Modes /\ Edges \subseteq [from : Nodes, to : Nodes, gate : Gates]
BY PlanAssumption DEF ValidPlan

\* The attempts of the current revision, one by one.
LEMMA NowType ==
    ASSUME PlanType, NEW n \in Nodes
    PROVE  /\ plan.rev \in Revs /\ Now(n) \in Seq(Attempt) /\ Len(Now(n)) \in 0..MaxAttempts
           /\ Now(n) # <<>> => Len(Now(n)) \in 1..MaxAttempts /\ Latest(n) \in Attempt
<1>1. plan.rev \in Revs
  BY DEF PlanType
<1>2. Now(n) \in Seq(Attempt) /\ Len(Now(n)) <= MaxAttempts /\ Len(Now(n)) \in Nat
  BY <1>1 DEF PlanType, Now
<1>3. Now(n) # <<>> => Len(Now(n)) >= 1 /\ Now(n)[Len(Now(n))] \in Attempt
  BY <1>2
<1> QED
  BY <1>1, <1>2, <1>3, PlanConstants DEF Latest

\* An admission adds an active attempt to one node and leaves all others.
LEMMA AdmitRuns ==
    ASSUME PlanType, NEW n \in Nodes, Admit(n), Len(Now(n)) < MaxAttempts
    PROVE  /\ runs' \in [Revs -> [Nodes -> Seq(Attempt)]]
           /\ \A r \in Revs, m \in Nodes : Len(runs'[r][m]) <= MaxAttempts
           /\ Len(runs'[plan.rev][n]) = Len(Now(n)) + 1
           /\ runs'[plan.rev][n][Len(Now(n)) + 1] = NewAttempt
           /\ \A g \in 1..Len(Now(n)) : runs'[plan.rev][n][g] = Now(n)[g]
           /\ \A r \in Revs, m \in Nodes : r # plan.rev \/ m # n => runs'[r][m] = runs[r][m]
<1>1. plan.rev \in Revs /\ Now(n) \in Seq(Attempt) /\ Len(Now(n)) \in Nat
  BY NowType
<1>2. NewAttempt \in Attempt
  BY PlanConstants DEF NewAttempt, Attempt
<1> DEFINE s == Append(Now(n), NewAttempt)
<1>3. /\ s \in Seq(Attempt) /\ Len(s) = Len(Now(n)) + 1 /\ s[Len(Now(n)) + 1] = NewAttempt
      /\ \A g \in 1..Len(Now(n)) : s[g] = Now(n)[g]
  BY <1>1, <1>2
<1>4. runs' = [runs EXCEPT ![plan.rev] = [runs[plan.rev] EXCEPT ![n] = s]]
  BY DEF Admit, Now
<1> HIDE DEF s
<1>5. runs \in [Revs -> [Nodes -> Seq(Attempt)]] /\ \A r \in Revs, m \in Nodes : Len(runs[r][m]) <= MaxAttempts
  BY DEF PlanType
<1>6. runs'[plan.rev][n] = s
  BY <1>1, <1>4, <1>5
<1>7. \A r \in Revs, m \in Nodes : r # plan.rev \/ m # n => runs'[r][m] = runs[r][m]
  BY <1>1, <1>4, <1>5
<1>8. runs' \in [Revs -> [Nodes -> Seq(Attempt)]]
  BY <1>1, <1>3, <1>4, <1>5
<1>9. Len(s) <= MaxAttempts
  BY <1>1, <1>3, PlanConstants
<1>10. \A r \in Revs, m \in Nodes : Len(runs'[r][m]) <= MaxAttempts
  BY <1>5, <1>6, <1>7, <1>9
<1> QED
  BY <1>3, <1>6, <1>7, <1>8, <1>10

\* Attempt g of node n in revision r becomes b, and nothing else of the attempts changes.
Becomes(r, n, g, b) ==
    /\ runs' \in [Revs -> [Nodes -> Seq(Attempt)]]
    /\ \A q \in Revs, m \in Nodes : Len(runs'[q][m]) = Len(runs[q][m])
    /\ runs'[r][n][g] = b
    /\ \A q \in Revs, m \in Nodes : \A h \in 1..Len(runs[q][m]) :
          q # r \/ m # n \/ h # g => runs'[q][m][h] = runs[q][m][h]

\* A change of one attempt leaves all others.
LEMMA ChangeRuns ==
    ASSUME PlanType, NEW r \in Revs, NEW n \in Nodes, NEW g \in DOMAIN runs[r][n],
           NEW b \in Attempt, Change(r, n, g, b)
    PROVE  Becomes(r, n, g, b)
<1>1. runs \in [Revs -> [Nodes -> Seq(Attempt)]]
  BY DEF PlanType
<1> DEFINE s == [runs[r][n] EXCEPT ![g] = b]
<1>2. runs[r][n] \in Seq(Attempt) /\ g \in 1..Len(runs[r][n])
  BY <1>1
<1>3. s \in Seq(Attempt) /\ Len(s) = Len(runs[r][n]) /\ s[g] = b
      /\ \A h \in 1..Len(runs[r][n]) : h # g => s[h] = runs[r][n][h]
  BY <1>2
<1>4. runs' = [runs EXCEPT ![r] = [runs[r] EXCEPT ![n] = s]]
  BY DEF Change
<1> HIDE DEF s
<1>5. runs'[r][n] = s /\ \A q \in Revs, m \in Nodes : q # r \/ m # n => runs'[q][m] = runs[q][m]
  BY <1>1, <1>4
<1>6. runs' \in [Revs -> [Nodes -> Seq(Attempt)]]
  BY <1>1, <1>3, <1>4
<1> QED
  BY <1>3, <1>5, <1>6 DEF Becomes

\* The budget of the plan bounds the attempts of each node.
LEMMA BudgetBoundsNode ==
    ASSUME PlanType, NEW n \in Nodes, Cardinality(PlanAttempts) < MaxAttempts
    PROVE  Len(Now(n)) < MaxAttempts
<1>1. Now(n) \in Seq(Attempt) /\ Len(Now(n)) \in 0..MaxAttempts
  BY NowType
<1> DEFINE k == Len(Now(n))
           f == [g \in 1..k |-> <<n, g>>]
<1>2. k \in Nat /\ k <= MaxAttempts /\ MaxAttempts \in Nat
  BY <1>1, PlanConstants
<1>3. \A g \in 1..k : <<n, g>> \in PlanAttempts
  <2> SUFFICES ASSUME NEW g \in 1..k
               PROVE  <<n, g>> \in PlanAttempts
    OBVIOUS
  <2>1. <<n, g>> \in Nodes \X (1..MaxAttempts) /\ <<n, g>>[1] = n /\ <<n, g>>[2] = g
    BY <1>2
  <2>2. g \in DOMAIN Now(n)
    BY <1>1
  <2> QED
    BY <2>1, <2>2 DEF PlanAttempts
<1>4. f \in Injection(1..k, PlanAttempts)
  <2>1. f \in [1..k -> PlanAttempts]
    BY <1>3
  <2>2. IsInjective(f)
    BY DEF IsInjective
  <2> QED
    BY <2>1, <2>2 DEF Injection
<1>5. IsFiniteSet(PlanAttempts)
  <2>1. IsFiniteSet(1..MaxAttempts)
    BY <1>2, FS_Interval
  <2>2. IsFiniteSet(Nodes \X (1..MaxAttempts))
    BY <2>1, PlanConstants, FS_Product
  <2>3. PlanAttempts \subseteq Nodes \X (1..MaxAttempts)
    BY DEF PlanAttempts
  <2> QED
    BY <2>2, <2>3, FS_Subset
<1> HIDE DEF f
<1>6. Cardinality(1..k) <= Cardinality(PlanAttempts)
  BY <1>4, <1>5, FS_Injection
<1>7. Cardinality(1..k) = k
  <2>1. 1 \in Int /\ k \in Int
    BY <1>2
  <2>2. Cardinality(1..k) = IF 1 > k THEN 0 ELSE k - 1 + 1
    BY <2>1, FS_Interval
  <2> QED
    BY <1>2, <2>2
<1>8. Cardinality(PlanAttempts) \in Nat
  BY <1>5, FS_CardinalityType
<1> QED
  BY <1>2, <1>6, <1>7, <1>8

-----------------------------------------------------------------------------
(* Gates *)

\* What a settlement retains for a node stands on its latest attempt.
LEMMA MaterializedStands ==
    ASSUME PlanType, NEW n \in Nodes, NEW p \in Materialized(n)
    PROVE  /\ p \in [rev : Revs, node : Nodes, gate : Gates, gen : 0..MaxAttempts]
           /\ p.rev = plan.rev /\ p.node = n /\ p.gen = Len(Now(n)) /\ p.gen > 0
           /\ Now(n) # <<>> /\ Latest(n).state = "completed"
           /\ p.gate = "accepted_result" => Latest(n).accepted
           /\ p.gate = "verified_output" => Latest(n).verified
<1>1. Now(n) # <<>> /\ Latest(n).state = "completed"
  BY DEF Materialized
<1>2. PICK gate \in (IF Latest(n).accepted THEN {"accepted_result"} ELSE {}) \cup
                    (IF /\ NeedsVerified(n) /\ ~Proven(plan.rev, n, "verified_output")
                        /\ Standing(Latest(n)) = 1 /\ Latest(n).verified
                     THEN {"verified_output"} ELSE {}) : p = Proof(n, gate)
  BY <1>1 DEF Materialized
<1>3. /\ gate \in Gates
      /\ gate = "accepted_result" => Latest(n).accepted
      /\ gate = "verified_output" => Latest(n).verified
  BY <1>2 DEF Gates
<1>4. plan.rev \in Revs /\ Len(Now(n)) \in 1..MaxAttempts
  BY <1>1, NowType
<1>5. p = [rev |-> plan.rev, node |-> n, gate |-> gate, gen |-> Len(Now(n))]
  BY <1>2 DEF Proof
<1> QED
  BY <1>1, <1>3, <1>4, <1>5, PlanConstants

\* The proofs retained by a settlement of some nodes.
Gained(ns) == UNION {Materialized(n) : n \in ns}

\* A settlement keeps the gates.
LEMMA GainKeepsGates ==
    ASSUME PlanType, GateInv, NEW ns \in SUBSET Nodes, runs' = runs, plan'.rev = plan.rev,
           proofs' = proofs \cup Gained(ns)
    PROVE  /\ GateInv'
           /\ proofs' \subseteq [rev : Revs, node : Nodes, gate : Gates, gen : 0..MaxAttempts]
<1> DEFINE P == [rev : Revs, node : Nodes, gate : Gates, gen : 0..MaxAttempts]
<1>1. proofs \subseteq P /\ proofs \subseteq proofs'
  BY DEF PlanType
<1>2. ASSUME NEW p \in proofs', p \notin proofs
      PROVE  /\ p \in P /\ p.rev = plan.rev /\ p.node \in Nodes /\ p.gen = Len(Now(p.node)) /\ p.gen > 0
             /\ Latest(p.node).state = "completed"
             /\ p.gate = "accepted_result" => Latest(p.node).accepted
             /\ p.gate = "verified_output" => Latest(p.node).verified
  <2>1. PICK n \in ns : p \in Materialized(n)
    BY <1>2 DEF Gained
  <2> QED
    BY <2>1, MaterializedStands
<1>3. \A r \in Revs, n \in Nodes, gate \in Gates : Proven(r, n, gate) => Proven(r, n, gate)'
  BY <1>1 DEF Proven
<1>4. DependenciesMet'
  BY <1>3, PlanConstants DEF GateInv, DependenciesMet
<1>5. ProofsStand'
  <2> SUFFICES ASSUME NEW p \in proofs'
               PROVE  IF p.gen = 0 THEN p.rev > 1 /\ Proven(p.rev - 1, p.node, p.gate)'
                      ELSE LET seq == runs[p.rev][p.node] IN
                           /\ p.gen = Len(seq) /\ seq[p.gen].state = "completed"
                           /\ p.gate = "accepted_result" => seq[p.gen].accepted
                           /\ p.gate = "verified_output" => seq[p.gen].verified
    BY DEF ProofsStand, Proven
  <2>1. CASE p \in proofs
    <3>1. IF p.gen = 0 THEN p.rev > 1 /\ Proven(p.rev - 1, p.node, p.gate)
          ELSE LET seq == runs[p.rev][p.node] IN
               /\ p.gen = Len(seq) /\ seq[p.gen].state = "completed"
               /\ p.gate = "accepted_result" => seq[p.gen].accepted
               /\ p.gate = "verified_output" => seq[p.gen].verified
      BY <2>1 DEF GateInv, ProofsStand
    <3>2. Proven(p.rev - 1, p.node, p.gate) => Proven(p.rev - 1, p.node, p.gate)'
      BY <1>1 DEF Proven
    <3> QED
      BY <3>1, <3>2
  <2>2. CASE p \notin proofs
    BY <1>2, <2>2 DEF Latest, Now
  <2> QED
    BY <2>1, <2>2
<1>6. GatesCarried'
  <2> SUFFICES ASSUME NEW p \in proofs', p.rev < plan.rev
               PROVE  Proven(plan.rev, p.node, p.gate)'
    BY DEF GatesCarried, Proven
  <2>1. plan.rev \in Revs /\ Revs \subseteq Nat
    BY DEF PlanType, Revs
  <2>2. p \in proofs
    BY <1>2, <2>1
  <2>3. Proven(plan.rev, p.node, p.gate)
    BY <2>2 DEF GateInv, GatesCarried
  <2> QED
    BY <1>1, <2>3 DEF Proven
<1>7. proofs' \subseteq P
  BY <1>1, <1>2
<1> QED
  BY <1>4, <1>5, <1>6, <1>7 DEF GateInv

\* An admission behind its gates keeps the gates: the attempt of an earlier generation,
\* if there is one, is not one that a proof stands on.
LEMMA AdmitKeepsGates ==
    ASSUME PlanType, GateInv, NEW n \in Nodes, Admit(n), Len(Now(n)) < MaxAttempts,
           DependencyReady(n), Now(n) = <<>> \/ Latest(n).state # "completed",
           plan'.rev = plan.rev, proofs' = proofs
    PROVE  GateInv'
<1>1. plan.rev \in Revs /\ Now(n) \in Seq(Attempt) /\ Len(Now(n)) \in Nat
  BY NowType
<1>2. \A r \in Revs, m \in Nodes : r # plan.rev \/ m # n => runs'[r][m] = runs[r][m]
  BY AdmitRuns
<1>3. DependenciesMet'
  <2> SUFFICES ASSUME NEW r \in Revs, NEW e \in Edges, runs'[r][e.to] # <<>>
               PROVE  Proven(r, e.from, e.gate)
    BY DEF DependenciesMet, Proven
  <2>1. e.to \in Nodes
    BY PlanConstants
  <2>2. CASE r = plan.rev /\ e.to = n
    BY <2>2 DEF DependencyReady
  <2>3. CASE ~(r = plan.rev /\ e.to = n)
    BY <1>2, <2>1, <2>3 DEF GateInv, DependenciesMet
  <2> QED
    BY <2>2, <2>3
<1>4. ASSUME NEW p \in proofs, p.gen # 0
      PROVE  runs'[p.rev][p.node] = runs[p.rev][p.node]
  <2>1. p.rev \in Revs /\ p.node \in Nodes
    BY DEF PlanType
  <2>2. p.gen = Len(runs[p.rev][p.node]) /\ runs[p.rev][p.node][p.gen].state = "completed"
    BY <1>4 DEF GateInv, ProofsStand
  <2>3. ~(p.rev = plan.rev /\ p.node = n)
    <3> SUFFICES ASSUME p.rev = plan.rev, p.node = n
                 PROVE  FALSE
      OBVIOUS
    <3>1. p.gen = Len(Now(n)) /\ Latest(n).state = "completed"
      BY <2>2 DEF Now, Latest
    <3> QED
      BY <1>4, <3>1
  <2> QED
    BY <1>2, <2>1, <2>3
<1>5. ProofsStand'
  BY <1>4 DEF GateInv, ProofsStand, Proven
<1>6. GatesCarried'
  BY DEF GateInv, GatesCarried, Proven
<1> QED
  BY <1>3, <1>5, <1>6 DEF GateInv

\* How one step changes an attempt: what ended does not begin again, and what a proof
\* stands on stays.
Evolves(a, b) ==
    /\ a.state = "completed" => b.state = "completed"
    /\ a.accepted => b.accepted
    /\ a.verified => b.verified
    /\ b.state = "active" => a.state = "active"
    /\ Unsettled(b) => Unsettled(a)

\* A change of an attempt keeps the gates.
LEMMA ChangeKeepsGates ==
    ASSUME PlanType, GateInv, NEW r \in Revs, NEW n \in Nodes, NEW g \in DOMAIN runs[r][n],
           NEW b \in Attempt, Change(r, n, g, b), Evolves(runs[r][n][g], b),
           plan' = plan, proofs' = proofs
    PROVE  GateInv'
<1>0. runs \in [Revs -> [Nodes -> Seq(Attempt)]]
  BY DEF PlanType
<1>1. /\ runs' \in [Revs -> [Nodes -> Seq(Attempt)]]
      /\ \A q \in Revs, m \in Nodes : Len(runs'[q][m]) = Len(runs[q][m])
      /\ runs'[r][n][g] = b
      /\ \A q \in Revs, m \in Nodes : \A h \in 1..Len(runs[q][m]) :
                q # r \/ m # n \/ h # g => runs'[q][m][h] = runs[q][m][h]
  <2>1. Becomes(r, n, g, b)
    BY ChangeRuns
  <2> QED
    BY <2>1 DEF Becomes
<1>2. \A q \in Revs, m \in Nodes : \A h \in 1..Len(runs[q][m]) : Evolves(runs[q][m][h], runs'[q][m][h])
  <2> SUFFICES ASSUME NEW q \in Revs, NEW m \in Nodes, NEW h \in 1..Len(runs[q][m])
               PROVE  Evolves(runs[q][m][h], runs'[q][m][h])
    OBVIOUS
  <2>1. CASE q = r /\ m = n /\ h = g
    BY <1>1, <2>1
  <2>2. CASE q # r \/ m # n \/ h # g
    <3>1. runs'[q][m][h] = runs[q][m][h]
      BY <1>1, <2>2
    <3> QED
      BY <3>1 DEF Evolves
  <2> QED
    BY <2>1, <2>2
<1>3. DependenciesMet'
  <2> SUFFICES ASSUME NEW q \in Revs, NEW e \in Edges, runs'[q][e.to] # <<>>
               PROVE  Proven(q, e.from, e.gate)
    BY DEF DependenciesMet, Proven
  <2>1. e.to \in Nodes
    BY PlanConstants
  <2>2. runs[q][e.to] \in Seq(Attempt) /\ runs'[q][e.to] \in Seq(Attempt)
        /\ Len(runs'[q][e.to]) = Len(runs[q][e.to])
    BY <1>0, <1>1, <2>1
  <2>3. runs[q][e.to] # <<>>
    BY <2>2
  <2> QED
    BY <2>3 DEF GateInv, DependenciesMet
<1>4. ProofsStand'
  <2> SUFFICES ASSUME NEW p \in proofs, p.gen # 0
               PROVE  LET seq == runs'[p.rev][p.node] IN
                           /\ p.gen = Len(seq) /\ seq[p.gen].state = "completed"
                           /\ p.gate = "accepted_result" => seq[p.gen].accepted
                           /\ p.gate = "verified_output" => seq[p.gen].verified
    BY DEF GateInv, ProofsStand, Proven
  <2>1. p.rev \in Revs /\ p.node \in Nodes /\ p.gen \in 0..MaxAttempts
    BY DEF PlanType
  <2>2. LET seq == runs[p.rev][p.node] IN
          /\ p.gen = Len(seq) /\ seq[p.gen].state = "completed"
          /\ p.gate = "accepted_result" => seq[p.gen].accepted
          /\ p.gate = "verified_output" => seq[p.gen].verified
    BY DEF GateInv, ProofsStand
  <2>3. p.gen \in 1..Len(runs[p.rev][p.node])
    BY <2>1, <2>2, PlanConstants
  <2>4. Evolves(runs[p.rev][p.node][p.gen], runs'[p.rev][p.node][p.gen])
    BY <1>2, <2>1, <2>3
  <2> QED
    BY <1>1, <2>1, <2>2, <2>4 DEF Evolves
<1>5. GatesCarried'
  BY DEF GateInv, GatesCarried, Proven
<1> QED
  BY <1>3, <1>4, <1>5 DEF GateInv

\* The adoption of a revision carries every gate into it.
LEMMA ActivateKeepsGates ==
    ASSUME PlanType, GateInv, ActivateCandidate, plan.rev < MaxRev
    PROVE  /\ GateInv' /\ plan'.rev \in Revs
           /\ proofs' \subseteq [rev : Revs, node : Nodes, gate : Gates, gen : 0..MaxAttempts]
<1> DEFINE P == [rev : Revs, node : Nodes, gate : Gates, gen : 0..MaxAttempts]
<1>1. plan.rev \in Nat /\ plan.rev >= 1 /\ plan'.rev = plan.rev + 1 /\ runs' = runs
  BY DEF PlanType, Revs, ActivateCandidate
<1>2. plan'.rev \in Revs
  BY <1>1, PlanConstants DEF Revs
<1>3. proofs \subseteq P /\ proofs \subseteq proofs' /\ proofs' = proofs \cup Carried
  BY DEF PlanType, ActivateCandidate
<1>4. ASSUME NEW c \in Carried
      PROVE  \E p \in proofs : /\ p.rev = plan.rev /\ c.rev = plan.rev + 1 /\ c.gen = 0
                               /\ c.node = p.node /\ c.gate = p.gate /\ c \in P
  <2>1. PICK p \in proofs : p.rev = plan.rev /\ c = [p EXCEPT !.rev = plan.rev + 1, !.gen = 0]
    BY DEF Carried
  <2>2. p \in P /\ 0 \in 0..MaxAttempts /\ plan.rev + 1 \in Revs
    BY <1>1, <1>2, <1>3, PlanConstants
  <2>3. c \in P /\ c.rev = plan.rev + 1 /\ c.gen = 0 /\ c.node = p.node /\ c.gate = p.gate
    BY <2>1, <2>2
  <2> QED
    BY <2>1, <2>3
<1>5. ASSUME NEW p \in proofs, p.rev = plan.rev
      PROVE  \E c \in Carried : c.rev = plan.rev + 1 /\ c.node = p.node /\ c.gate = p.gate
  <2> DEFINE c == [p EXCEPT !.rev = plan.rev + 1, !.gen = 0]
  <2>1. c \in Carried
    BY <1>5 DEF Carried
  <2>2. p \in P
    BY <1>3
  <2>3. c.rev = plan.rev + 1 /\ c.node = p.node /\ c.gate = p.gate
    BY <2>2
  <2> QED
    BY <2>1, <2>3
<1>6. DependenciesMet'
  BY <1>1, <1>3 DEF GateInv, DependenciesMet, Proven
<1>7. ASSUME NEW p \in proofs'
      PROVE  IF p.gen = 0 THEN p.rev > 1 /\ Proven(p.rev - 1, p.node, p.gate)'
             ELSE LET seq == runs[p.rev][p.node] IN
                  /\ p.gen = Len(seq) /\ seq[p.gen].state = "completed"
                  /\ p.gate = "accepted_result" => seq[p.gen].accepted
                  /\ p.gate = "verified_output" => seq[p.gen].verified
  <2>1. CASE p \in proofs
    <3>1. IF p.gen = 0 THEN p.rev > 1 /\ Proven(p.rev - 1, p.node, p.gate)
          ELSE LET seq == runs[p.rev][p.node] IN
               /\ p.gen = Len(seq) /\ seq[p.gen].state = "completed"
               /\ p.gate = "accepted_result" => seq[p.gen].accepted
               /\ p.gate = "verified_output" => seq[p.gen].verified
      BY <2>1 DEF GateInv, ProofsStand
    <3>2. Proven(p.rev - 1, p.node, p.gate) => Proven(p.rev - 1, p.node, p.gate)'
      BY <1>3 DEF Proven
    <3> QED
      BY <3>1, <3>2
  <2>2. CASE p \in Carried
    <3>1. PICK q \in proofs : /\ q.rev = plan.rev /\ p.rev = plan.rev + 1 /\ p.gen = 0
                              /\ p.node = q.node /\ p.gate = q.gate
      BY <1>4, <2>2
    <3>2. p.rev > 1 /\ p.rev - 1 = plan.rev
      BY <1>1, <3>1
    <3>3. Proven(p.rev - 1, p.node, p.gate)'
      BY <1>3, <3>1, <3>2 DEF Proven
    <3> QED
      BY <3>1, <3>2, <3>3
  <2> QED
    BY <1>3, <2>1, <2>2
<1>8. ProofsStand'
  BY <1>1, <1>7 DEF ProofsStand, Proven
<1>9. GatesCarried'
  <2> SUFFICES ASSUME NEW p \in proofs', p.rev < plan.rev + 1
               PROVE  \E c \in proofs' : c.rev = plan.rev + 1 /\ c.node = p.node /\ c.gate = p.gate
    BY <1>1 DEF GatesCarried, Proven
  <2>1. p \in proofs
    BY <1>1, <1>3, <1>4
  <2>2. p.rev \in Nat
    BY <2>1, <1>3 DEF Revs
  <2>3. PICK q \in proofs : q.rev = plan.rev /\ q.node = p.node /\ q.gate = p.gate
    <3>1. CASE p.rev = plan.rev
      BY <2>1, <3>1
    <3>2. CASE p.rev < plan.rev
      BY <2>1, <3>2 DEF GateInv, GatesCarried, Proven
    <3> QED
      BY <1>1, <2>2, <3>1, <3>2
  <2> QED
    BY <1>3, <1>5, <2>3
<1>10. proofs' \subseteq P
  BY <1>3, <1>4
<1> QED
  BY <1>2, <1>6, <1>8, <1>9, <1>10 DEF GateInv

-----------------------------------------------------------------------------
(* The sweep *)

\* Readiness reads the plan, the attempts and the proofs.
LEMMA ReadinessStays ==
    ASSUME NEW n, UNCHANGED <<plan, runs, proofs>>, Readiness(n, FALSE)
    PROVE  Readiness(n, FALSE)'
BY DEF Readiness, Schedulable, Now, Adopted, Proven, PriorUnsettled, Unsettled, DependencyReady,
       PlanAttempts, ActivePlanRuns, ActiveAgentRuns, ActiveIn

\* The steps that need a free Central leave a free Central, or begin a sweep.
LEMMA FreeSteps ==
    ASSUME Next
    PROVE  \/ Free /\ UNCHANGED <<sweep, up>>
           \/ \E m, max : SweepBegin(m, max)
           \/ SweepStep
           \/ Crash
           \/ Startup
<1>1. CASE \/ \E m \in Controls : SetMode(m)
           \/ \E n \in Nodes : ManualDispatch(n) \/ MemberMessage(n) \/ Retry(n) \/ AcceptResult(n)
           \/ ProposeCandidate \/ ActivateCandidate \/ TaskDrift
  BY <1>1 DEF SetMode, ManualDispatch, MemberMessage, Retry, AcceptResult, ProposeCandidate,
              ActivateCandidate, TaskDrift
<1>2. CASE AttemptStep
  BY <1>2 DEF AttemptStep, RunEnds, AcknowledgeAmbiguity, ProposeResult, RejectResult,
              VerificationPasses
<1>3. CASE Sweep \/ Advance
  BY <1>3 DEF Sweep, Advance, Modes
<1> QED
  BY <1>1, <1>2, <1>3 DEF Next

\* Every step keeps what is known of the sweep.
LEMMA SweepKept ==
    ASSUME SweepInv, Next
    PROVE  SweepInv'
<1>0. DOMAIN Resting = {"pc", "queue", "left", "max"} /\ Resting.pc = "idle"
  BY DEF Resting
<1>1. CASE Free /\ UNCHANGED <<sweep, up>>
  BY <1>0, <1>1 DEF SweepInv, Free
<1>2. ASSUME NEW m, NEW max, SweepBegin(m, max)
      PROVE  SweepInv'
  <2>1. up /\ up' = up /\ sweep' = [pc |-> "reconcile", queue |-> Candidates(m), left |-> 0, max |-> max]
    BY <1>2 DEF SweepBegin, Free
  <2> HIDE DEF Candidates
  <2>2. DOMAIN sweep' = {"pc", "queue", "left", "max"} /\ sweep'.pc = "reconcile"
    BY <2>1
  <2> QED
    BY <2>1, <2>2 DEF SweepInv
<1>3. CASE SweepReconcile
  <2>1. up' = up /\ sweep.pc = "reconcile"
    BY <1>3 DEF SweepReconcile
  <2>2. sweep' = Resting \/ sweep' = [sweep EXCEPT !.pc = "evaluate", !.left = Len(sweep.queue)]
    BY <1>3 DEF SweepReconcile
  <2>3. up
    BY <1>0, <2>1 DEF SweepInv
  <2>4. DOMAIN sweep' = {"pc", "queue", "left", "max"} /\ sweep'.pc \in {"idle", "evaluate"}
    BY <1>0, <2>2 DEF SweepInv
  <2> QED
    BY <2>1, <2>3, <2>4 DEF SweepInv
<1>4. CASE SweepEvaluate
  <2>1. up' = up /\ sweep.pc = "evaluate" /\ UNCHANGED <<plan, runs, proofs>>
    BY <1>4 DEF SweepEvaluate
  <2>2. up
    BY <1>0, <2>1 DEF SweepInv
  <2>3. \/ Readiness(Head(sweep.queue), FALSE) /\ sweep' = [sweep EXCEPT !.pc = "admit"]
        \/ sweep' = Resting
        \/ \E q, k : sweep' = [sweep EXCEPT !.queue = q, !.left = k]
    BY <1>4 DEF SweepEvaluate
  <2>4. CASE Readiness(Head(sweep.queue), FALSE) /\ sweep' = [sweep EXCEPT !.pc = "admit"]
    <3>1. DOMAIN sweep' = {"pc", "queue", "left", "max"} /\ sweep'.pc = "admit" /\ sweep'.queue = sweep.queue
      BY <2>4 DEF SweepInv
    <3>2. ASSUME NEW n, Head(sweep'.queue) = n
          PROVE  Readiness(n, FALSE)'
      <4>1. Readiness(n, FALSE)
        BY <2>4, <3>1, <3>2
      <4> QED
        BY <2>1, <4>1, ReadinessStays
    <3> QED
      BY <2>1, <2>2, <3>1, <3>2 DEF SweepInv
  <2>5. CASE sweep' = Resting
    BY <1>0, <2>1, <2>2, <2>5 DEF SweepInv
  <2>6. ASSUME NEW q, NEW k, sweep' = [sweep EXCEPT !.queue = q, !.left = k]
        PROVE  SweepInv'
    <3>1. DOMAIN sweep' = {"pc", "queue", "left", "max"} /\ sweep'.pc = "evaluate"
      BY <2>1, <2>6 DEF SweepInv
    <3> QED
      BY <2>1, <2>2, <3>1 DEF SweepInv
  <2> QED
    BY <2>3, <2>4, <2>5, <2>6
<1>5. CASE SweepAdmit
  <2>1. up' = up /\ sweep.pc = "admit"
    BY <1>5 DEF SweepAdmit
  <2>2. \/ sweep' = Resting
        \/ \E q, k : sweep' = [sweep EXCEPT !.pc = "reconcile", !.queue = q, !.left = 0, !.max = k]
    BY <1>5 DEF SweepAdmit
  <2>3. up
    BY <1>0, <2>1 DEF SweepInv
  <2>4. DOMAIN sweep' = {"pc", "queue", "left", "max"} /\ sweep'.pc \in {"idle", "reconcile"}
    BY <1>0, <2>2 DEF SweepInv
  <2> QED
    BY <2>1, <2>3, <2>4 DEF SweepInv
<1>6. CASE Crash
  BY <1>0, <1>6 DEF Crash, SweepInv
<1>7. CASE Startup
  BY <1>0, <1>7 DEF Startup, SweepInv
<1> QED
  BY <1>1, <1>2, <1>3, <1>4, <1>5, <1>6, <1>7, FreeSteps DEF SweepStep

-----------------------------------------------------------------------------
(* The steps *)

\* A step that admits nothing, settles nothing and adopts nothing.
LEMMA SameGates ==
    ASSUME GateInv, runs' = runs, proofs' = proofs, plan'.rev = plan.rev
    PROVE  GateInv'
BY DEF GateInv, DependenciesMet, ProofsStand, GatesCarried, Proven

\* The rows a member sees of nodes that have not been looked at.
LEMMA ExistingType ==
    ASSUME PlanType
    PROVE  Existing(node) \in [Nodes -> NodeView]
<1>1. Pending \in NodeView
  BY PlanConstants DEF Pending, NodeView
<1> QED
  BY <1>1 DEF PlanType, Existing

\* A settlement writes rows of the plan and of its nodes.
LEMMA SettleTypes ==
    ASSUME PlanType, NEW ns \in SUBSET Nodes, Reconcile(ns)
    PROVE  /\ node' \in [Nodes -> NodeView]
           /\ plan' \in [state : {"approved", "running", "paused"}, rev : Revs]
           /\ plan'.rev = plan.rev
<1>1. plan' \in [state : {"approved", "running", "paused"}, rev : Revs] /\ plan'.rev = plan.rev
  BY DEF Reconcile, Started, PlanType
<1>3. ASSUME NEW n \in Nodes
      PROVE  Settled(Existing(node), n) \in NodeView
  <2>1. Existing(node)[n] \in NodeView /\ Pending \in NodeView
    BY ExistingType, PlanConstants DEF Pending, NodeView
  <2>2. CASE Now(n) # <<>>
    <3>1. Latest(n).state \in {"active", "completed", "failed", "unknown"}
          /\ Len(Now(n)) \in 0..MaxAttempts
      BY <2>2, NowType DEF Attempt
    <3>2. settleRun[Latest(n).state] \in {"dispatched", "awaiting_result", "failed", "outcome_unknown"}
      BY <3>1 DEF settleRun
    <3> QED
      BY <2>2, <3>1, <3>2 DEF Settled, NodeView
  <2>3. CASE Now(n) = <<>>
    BY <2>1, <2>3 DEF Settled
  <2> QED
    BY <2>2, <2>3
<1>4. node' \in [Nodes -> NodeView]
  <2>1. \A n \in Nodes : Existing(node)[n] \in NodeView
    BY ExistingType
  <2> QED
    BY <1>3, <2>1 DEF Reconcile
<1> QED
  BY <1>1, <1>4

\* A settlement keeps the types and the gates.
LEMMA ReconcileKept ==
    ASSUME PlanType, GateInv, NEW ns \in SUBSET Nodes, Reconcile(ns), runs' = runs
    PROVE  /\ GateInv'
           /\ proofs' \subseteq [rev : Revs, node : Nodes, gate : Gates, gen : 0..MaxAttempts]
           /\ node' \in [Nodes -> NodeView]
           /\ plan' \in [state : {"approved", "running", "paused"}, rev : Revs]
           /\ plan'.rev = plan.rev
<1>1. proofs' = proofs \cup Gained(ns)
  BY DEF Reconcile, Gained
<1> QED
  BY <1>1, SettleTypes, GainKeepsGates

\* The steps of a sweep.
LEMMA SweepSteps ==
    ASSUME PlanInv, SweepStep \/ Startup \/ \E m, max : SweepBegin(m, max)
    PROVE  PlanType' /\ GateInv'
<1> USE DEF PlanInv
<1>1. ASSUME NEW m, NEW max, SweepBegin(m, max)
      PROVE  PlanType' /\ GateInv'
  <2>1. node' \in [Nodes -> NodeView] /\ UNCHANGED <<plan, mode, runs, proofs, cand, up>>
    BY <1>1, ExistingType DEF SweepBegin
  <2> QED
    BY <2>1, SameGates DEF PlanType
<1>2. ASSUME Reconcile(Nodes), runs' = runs, UNCHANGED <<mode, cand>>, up' \in BOOLEAN
      PROVE  PlanType' /\ GateInv'
  <2>1. /\ GateInv'
        /\ proofs' \subseteq [rev : Revs, node : Nodes, gate : Gates, gen : 0..MaxAttempts]
        /\ node' \in [Nodes -> NodeView]
        /\ plan' \in [state : {"approved", "running", "paused"}, rev : Revs]
        /\ plan'.rev = plan.rev
    BY <1>2, ReconcileKept
  <2> QED
    BY <1>2, <2>1 DEF PlanType
<1>3. CASE SweepReconcile
  <2>1. runs' = runs /\ UNCHANGED <<mode, cand>> /\ up' \in BOOLEAN
    BY <1>3 DEF SweepReconcile, PlanType
  <2>2. CASE UNCHANGED <<plan, proofs, node>>
    BY <2>1, <2>2, SameGates DEF PlanType
  <2>3. CASE Reconcile(Nodes)
    BY <1>2, <2>1, <2>3
  <2> QED
    BY <1>3, <2>2, <2>3 DEF SweepReconcile
<1>4. CASE SweepEvaluate
  <2>1. UNCHANGED <<plan, mode, runs, proofs, cand, up>>
    BY <1>4 DEF SweepEvaluate
  <2>2. \E v \in NodeView : node' = [node EXCEPT ![Head(sweep.queue)] = v]
    <3>1. [state |-> "ready", gen |-> 0] \in NodeView /\ [state |-> "blocked", gen |-> 0] \in NodeView
      BY PlanConstants DEF NodeView
    <3>2. \/ node' = [node EXCEPT ![Head(sweep.queue)] = [state |-> "ready", gen |-> 0]]
          \/ node' = [node EXCEPT ![Head(sweep.queue)] = [state |-> "blocked", gen |-> 0]]
      <4>1. node' = [node EXCEPT ![Head(sweep.queue)] =
               [state |-> IF Readiness(Head(sweep.queue), FALSE) THEN "ready" ELSE "blocked", gen |-> 0]]
        BY <1>4 DEF SweepEvaluate
      <4> QED
        BY <4>1
    <3> QED
      BY <3>1, <3>2
  <2>3. node' \in [Nodes -> NodeView]
    BY <2>2 DEF PlanType
  <2> QED
    BY <2>1, <2>3, SameGates DEF PlanType
<1>5. CASE SweepAdmit
  <2> DEFINE n == Head(sweep.queue)
  <2>1. /\ Admit(n) /\ UNCHANGED <<mode, proofs, cand, up>>
        /\ node' = [node EXCEPT ![n] = [state |-> "dispatched", gen |-> 1]]
        /\ plan' = [plan EXCEPT !.state = "running"]
    BY <1>5 DEF SweepAdmit
  <2>2. Readiness(n, FALSE)
    BY <1>5 DEF SweepAdmit, SweepInv
  <2> HIDE DEF n
  <2>3. plan' \in [state : {"approved", "running", "paused"}, rev : Revs] /\ plan'.rev = plan.rev
    BY <2>1 DEF PlanType
  <2>4. node' \in [Nodes -> NodeView]
    <3>1. [state |-> "dispatched", gen |-> 1] \in NodeView
      BY PlanConstants DEF NodeView
    <3> QED
      BY <2>1, <3>1 DEF PlanType
  <2>5. CASE n \in Nodes
    <3>1. Now(n) = <<>> /\ DependencyReady(n)
      BY <2>2 DEF Readiness
    <3>2. Len(Now(n)) < MaxAttempts
      BY <3>1, PlanConstants
    <3>3. GateInv'
      BY <2>1, <2>3, <2>5, <3>1, <3>2, AdmitKeepsGates
    <3>4. /\ runs' \in [Revs -> [Nodes -> Seq(Attempt)]]
          /\ \A r \in Revs, m \in Nodes : Len(runs'[r][m]) <= MaxAttempts
      BY <2>1, <2>5, <3>2, AdmitRuns
    <3> QED
      BY <2>1, <2>3, <2>4, <3>3, <3>4 DEF PlanType
  <2>6. CASE n \notin Nodes
    <3>1. runs' = runs
      <4>1. runs \in [Revs -> [Nodes -> Seq(Attempt)]] /\ plan.rev \in Revs
        BY DEF PlanType
      <4>2. runs' = [runs EXCEPT ![plan.rev] = [runs[plan.rev] EXCEPT ![n] = Append(runs[plan.rev][n], NewAttempt)]]
        BY <2>1 DEF Admit
      <4>3. [runs[plan.rev] EXCEPT ![n] = Append(runs[plan.rev][n], NewAttempt)] = runs[plan.rev]
        BY <2>6, <4>1
      <4> QED
        BY <4>1, <4>2, <4>3
    <3> QED
      BY <2>1, <2>3, <2>4, <3>1, SameGates DEF PlanType
  <2> QED
    BY <2>5, <2>6
<1>6. CASE Startup
  BY <1>2, <1>6 DEF Startup
<1> QED
  BY <1>1, <1>3, <1>4, <1>5, <1>6 DEF SweepStep

\* The commands of members.
LEMMA CommandSteps ==
    ASSUME PlanInv,
           \/ \E m \in Controls : SetMode(m)
           \/ \E n \in Nodes : ManualDispatch(n) \/ MemberMessage(n) \/ Retry(n)
           \/ ProposeCandidate \/ ActivateCandidate \/ TaskDrift \/ Crash
    PROVE  PlanType' /\ GateInv'
<1> USE DEF PlanInv
<1>1. ASSUME NEW m \in Controls, SetMode(m)
      PROVE  PlanType' /\ GateInv'
  <2>1. node' \in [Nodes -> NodeView] /\ mode' \in Modes /\ UNCHANGED <<plan, runs, proofs, cand, up>>
    BY <1>1, ExistingType, PlanConstants DEF SetMode
  <2> QED
    BY <2>1, SameGates DEF PlanType
<1>2. ASSUME NEW n \in Nodes, ManualDispatch(n) \/ MemberMessage(n)
      PROVE  PlanType' /\ GateInv'
  <2>1. Admit(n) /\ UNCHANGED <<plan, mode, proofs, cand, up>> /\ (node' = node \/ node' = Existing(node))
    BY <1>2 DEF ManualDispatch, MemberMessage
  <2>2. Now(n) = <<>> /\ DependencyReady(n)
    BY <1>2 DEF ManualDispatch, MemberMessage, Readiness
  <2>3. Len(Now(n)) < MaxAttempts
    BY <2>2, PlanConstants
  <2>4. GateInv'
    BY <2>1, <2>2, <2>3, AdmitKeepsGates
  <2>5. /\ runs' \in [Revs -> [Nodes -> Seq(Attempt)]]
        /\ \A r \in Revs, m \in Nodes : Len(runs'[r][m]) <= MaxAttempts
    BY <2>1, <2>3, AdmitRuns
  <2>6. node' \in [Nodes -> NodeView]
    BY <2>1, ExistingType DEF PlanType
  <2> QED
    BY <2>1, <2>4, <2>5, <2>6 DEF PlanType
<1>3. ASSUME NEW n \in Nodes, Retry(n)
      PROVE  PlanType' /\ GateInv'
  <2>1. Reconcile({n}) /\ Now(n) # <<>> /\ UNCHANGED <<mode, cand, up>>
    BY <1>3 DEF Retry
  <2>2. CASE runs' = runs
    <3>1. /\ GateInv'
          /\ proofs' \subseteq [rev : Revs, node : Nodes, gate : Gates, gen : 0..MaxAttempts]
          /\ node' \in [Nodes -> NodeView]
          /\ plan' \in [state : {"approved", "running", "paused"}, rev : Revs]
          /\ plan'.rev = plan.rev
      BY <2>1, <2>2, ReconcileKept
    <3> QED
      BY <2>1, <2>2, <3>1 DEF PlanType
  <2>3. CASE Admit(n) /\ Retryable(Latest(n)) /\ Readiness(n, TRUE)
    <3>1. Latest(n).state # "completed"
      BY <2>3 DEF Retryable
    <3>2. proofs' = proofs
      <4>1. Materialized(n) = {}
        BY <3>1 DEF Materialized
      <4> QED
        BY <2>1, <4>1 DEF Reconcile
    <3>3. /\ node' \in [Nodes -> NodeView]
          /\ plan' \in [state : {"approved", "running", "paused"}, rev : Revs]
          /\ plan'.rev = plan.rev
      BY <2>1, SettleTypes
    <3>4. DependencyReady(n) /\ Cardinality(PlanAttempts) < MaxAttempts
      BY <2>3 DEF Readiness
    <3>5. Len(Now(n)) < MaxAttempts
      BY <3>4, BudgetBoundsNode
    <3>6. GateInv'
      BY <2>3, <3>1, <3>2, <3>3, <3>4, <3>5, AdmitKeepsGates
    <3>7. /\ runs' \in [Revs -> [Nodes -> Seq(Attempt)]]
          /\ \A r \in Revs, m \in Nodes : Len(runs'[r][m]) <= MaxAttempts
      BY <2>3, <3>5, AdmitRuns
    <3> QED
      BY <2>1, <3>2, <3>3, <3>6, <3>7 DEF PlanType
  <2> QED
    BY <1>3, <2>2, <2>3 DEF Retry
<1>4. CASE ProposeCandidate
  <2>1. cand' = "fresh" /\ plan.rev < MaxRev /\ UNCHANGED <<plan, mode, runs, proofs, node, up>>
    BY <1>4 DEF ProposeCandidate
  <2> QED
    BY <2>1, SameGates DEF PlanType
<1>5. CASE ActivateCandidate
  <2>1. plan.rev < MaxRev
    BY <1>5 DEF ActivateCandidate, PlanType
  <2>2. /\ GateInv' /\ plan'.rev \in Revs
        /\ proofs' \subseteq [rev : Revs, node : Nodes, gate : Gates, gen : 0..MaxAttempts]
    BY <1>5, <2>1, ActivateKeepsGates
  <2>3. Absent \in NodeView
    BY PlanConstants DEF Absent, NodeView
  <2>4. node' \in [Nodes -> NodeView]
    BY <1>5, <2>3 DEF ActivateCandidate
  <2>5. plan' \in [state : {"approved", "running", "paused"}, rev : Revs]
    BY <1>5, <2>2 DEF ActivateCandidate, PlanType
  <2>6. cand' = "none" /\ UNCHANGED <<mode, runs, up>>
    BY <1>5 DEF ActivateCandidate
  <2> QED
    BY <2>2, <2>4, <2>5, <2>6 DEF PlanType
<1>6. CASE TaskDrift
  <2>1. /\ plan' = [plan EXCEPT !.state = "paused"] /\ UNCHANGED <<mode, runs, proofs, node, up>>
        /\ cand' \in {"none", "stale"} /\ (cand' # "none" => cand # "none")
    BY <1>6 DEF TaskDrift, Outdated
  <2>2. plan' \in [state : {"approved", "running", "paused"}, rev : Revs] /\ plan'.rev = plan.rev
    BY <2>1 DEF PlanType
  <2> QED
    BY <2>1, <2>2, SameGates DEF PlanType
<1>7. CASE Crash
  <2>1. UNCHANGED <<plan, mode, runs, proofs, node, cand>> /\ up' = FALSE
    BY <1>7 DEF Crash
  <2> QED
    BY <2>1, SameGates DEF PlanType
<1> QED
  BY <1>1, <1>2, <1>3, <1>4, <1>5, <1>6, <1>7

\* The step changes one attempt, within its life, and no row of the plan.
AttemptChanges ==
    \E r \in Revs, n \in Nodes : \E g \in DOMAIN runs[r][n], b \in Attempt :
        Change(r, n, g, b) /\ Evolves(runs[r][n][g], b)

\* A record of an attempt.
LEMMA AttemptFields ==
    ASSUME NEW a \in Attempt
    PROVE  /\ a.state \in {"active", "completed", "failed", "unknown"}
           /\ a.acked \in BOOLEAN /\ a.open \in 0..MaxResults
           /\ a.accepted \in BOOLEAN /\ a.verified \in BOOLEAN
BY DEF Attempt

\* Ends, acknowledgements, Results and receipts change one attempt within its life.
LEMMA AttemptLife ==
    ASSUME PlanType, AttemptStep \/ \E n \in Nodes : AcceptResult(n)
    PROVE  /\ AttemptChanges /\ UNCHANGED <<plan, mode, proofs, node, up>>
           /\ cand' \in {cand, "none", "stale"} /\ (cand' # "none" => cand # "none")
<1>0. runs \in [Revs -> [Nodes -> Seq(Attempt)]] /\ MaxResults \in Nat
  BY PlanConstants DEF PlanType
<1>1. ASSUME NEW r \in Revs, NEW n \in Nodes, NEW g \in DOMAIN runs[r][n]
      PROVE  runs[r][n][g] \in Attempt
  BY <1>0
<1>2. ASSUME NEW r \in Revs, NEW n \in Nodes, NEW g \in DOMAIN runs[r][n], RunEnds(r, n, g)
      PROVE  AttemptChanges /\ UNCHANGED <<plan, mode, proofs, node, up, cand>>
  <2> DEFINE a == runs[r][n][g]
  <2>1. PICK s \in {"completed", "failed", "unknown"} : Change(r, n, g, [a EXCEPT !.state = s])
    BY <1>2 DEF RunEnds
  <2>2. a \in Attempt /\ a.state = "active"
    BY <1>1, <1>2 DEF RunEnds
  <2> DEFINE b == [a EXCEPT !.state = s]
  <2> HIDE DEF a
  <2>3. b \in Attempt
    BY <2>2 DEF Attempt
  <2>4. Evolves(a, b)
    BY <2>2 DEF Evolves, Unsettled, Attempt
  <2> HIDE DEF b
  <2> QED
    BY <1>2, <2>1, <2>3, <2>4 DEF RunEnds, AttemptChanges, a, b
<1>3. ASSUME NEW r \in Revs, NEW n \in Nodes, NEW g \in DOMAIN runs[r][n], AcknowledgeAmbiguity(r, n, g)
      PROVE  AttemptChanges /\ UNCHANGED <<plan, mode, proofs, node, up>> /\ cand' = Outdated
  <2> DEFINE a == runs[r][n][g]
             b == [a EXCEPT !.acked = TRUE]
  <2>1. a \in Attempt /\ a.state = "unknown" /\ Change(r, n, g, b)
    BY <1>1, <1>3 DEF AcknowledgeAmbiguity
  <2> HIDE DEF a
  <2>2. b \in Attempt /\ Evolves(a, b)
    BY <2>1 DEF Evolves, Unsettled, Attempt
  <2> HIDE DEF b
  <2> QED
    BY <1>3, <2>1, <2>2 DEF AcknowledgeAmbiguity, AttemptChanges, a
<1>4. ASSUME NEW r \in Revs, NEW n \in Nodes, NEW g \in DOMAIN runs[r][n],
             ProposeResult(r, n, g) \/ RejectResult(r, n, g)
      PROVE  AttemptChanges /\ UNCHANGED <<plan, mode, proofs, node, up>> /\ cand' = Outdated
  <2> DEFINE a == runs[r][n][g]
  <2>1. a \in Attempt
    BY <1>1
  <2>2. PICK k \in 0..MaxResults : Change(r, n, g, [a EXCEPT !.open = k])
    <3>1. CASE ProposeResult(r, n, g)
      <4>1. Standing(a) < MaxResults /\ Change(r, n, g, [a EXCEPT !.open = a.open + 1])
        BY <3>1 DEF ProposeResult
      <4>2. a.open \in 0..MaxResults /\ a.open + (IF a.accepted THEN 1 ELSE 0) < MaxResults
        BY <2>1, <4>1, AttemptFields DEF Standing
      <4>3. a.open + 1 \in 0..MaxResults
        BY <1>0, <4>2
      <4> QED
        BY <4>1, <4>3
    <3>2. CASE RejectResult(r, n, g)
      <4>1. a.open > 0 /\ Change(r, n, g, [a EXCEPT !.open = a.open - 1])
        BY <3>2 DEF RejectResult
      <4>2. a.open - 1 \in 0..MaxResults
        BY <1>0, <2>1, <4>1, AttemptFields
      <4> QED
        BY <4>1, <4>2
    <3> QED
      BY <1>4, <3>1, <3>2
  <2> DEFINE b == [a EXCEPT !.open = k]
  <2> HIDE DEF a
  <2>3. b \in Attempt /\ Evolves(a, b)
    BY <2>1 DEF Evolves, Unsettled, Attempt
  <2> HIDE DEF b
  <2> QED
    BY <1>4, <2>2, <2>3 DEF ProposeResult, RejectResult, AttemptChanges, a, b
<1>5. ASSUME NEW r \in Revs, NEW n \in Nodes, NEW g \in DOMAIN runs[r][n], VerificationPasses(r, n, g)
      PROVE  AttemptChanges /\ UNCHANGED <<plan, mode, proofs, node, up, cand>>
  <2> DEFINE a == runs[r][n][g]
             b == [a EXCEPT !.verified = TRUE]
  <2>1. a \in Attempt /\ Change(r, n, g, b)
    BY <1>1, <1>5 DEF VerificationPasses
  <2> HIDE DEF a
  <2>2. b \in Attempt /\ Evolves(a, b)
    BY <2>1 DEF Evolves, Unsettled, Attempt
  <2> HIDE DEF b
  <2> QED
    BY <1>5, <2>1, <2>2 DEF VerificationPasses, AttemptChanges, a
<1>6. ASSUME NEW n \in Nodes, AcceptResult(n)
      PROVE  AttemptChanges /\ UNCHANGED <<plan, mode, proofs, node, up>> /\ cand' = Outdated
  <2> DEFINE g == Len(Now(n))
             a == runs[plan.rev][n][g]
             b == [a EXCEPT !.open = a.open - 1, !.accepted = TRUE]
  <2>1. Now(n) # <<>> /\ plan.rev \in Revs
    BY <1>6, NowType DEF AcceptResult
  <2>2. g \in DOMAIN runs[plan.rev][n]
    BY <2>1, <1>0 DEF Now
  <2>3. a \in Attempt /\ a = Latest(n) /\ a.open > 0 /\ Change(plan.rev, n, g, b)
    BY <1>1, <1>6, <2>1, <2>2 DEF AcceptResult, Latest, Now
  <2> HIDE DEF a
  <2>4. a.open - 1 \in 0..MaxResults
    BY <1>0, <2>3, AttemptFields
  <2>5. b \in Attempt /\ Evolves(a, b)
    BY <2>3, <2>4 DEF Evolves, Unsettled, Attempt
  <2> HIDE DEF b, g
  <2> QED
    BY <1>6, <2>1, <2>2, <2>3, <2>5 DEF AcceptResult, AttemptChanges, a
<1>7. cand' = Outdated => cand' \in {cand, "none", "stale"} /\ (cand' # "none" => cand # "none")
  BY DEF Outdated
<1> QED
  BY <1>2, <1>3, <1>4, <1>5, <1>6, <1>7 DEF AttemptStep

\* Every step keeps the types and the gates.
LEMMA StepKept ==
    ASSUME PlanInv, Next
    PROVE  PlanType' /\ GateInv'
<1>1. CASE AttemptStep \/ \E n \in Nodes : AcceptResult(n)
  <2>1. PlanType /\ GateInv
    BY DEF PlanInv
  <2>2. /\ AttemptChanges /\ UNCHANGED <<plan, mode, proofs, node, up>>
        /\ cand' \in {cand, "none", "stale"} /\ (cand' # "none" => cand # "none")
    BY <1>1, <2>1, AttemptLife
  <2>3. PICK r \in Revs, n \in Nodes : \E g \in DOMAIN runs[r][n], b \in Attempt :
          Change(r, n, g, b) /\ Evolves(runs[r][n][g], b)
    BY <2>2 DEF AttemptChanges
  <2>4. PICK g \in DOMAIN runs[r][n], b \in Attempt : Change(r, n, g, b) /\ Evolves(runs[r][n][g], b)
    BY <2>3
  <2>5. GateInv'
    BY <2>1, <2>2, <2>4, ChangeKeepsGates
  <2>6. /\ runs' \in [Revs -> [Nodes -> Seq(Attempt)]]
        /\ \A q \in Revs, m \in Nodes : Len(runs'[q][m]) = Len(runs[q][m])
    <3>1. Becomes(r, n, g, b)
      BY <2>1, <2>4, ChangeRuns
    <3> QED
      BY <3>1 DEF Becomes
  <2> QED
    BY <2>1, <2>2, <2>5, <2>6 DEF PlanType
<1>2. CASE Sweep \/ Advance \/ SweepStep \/ Startup
  BY <1>2, SweepSteps DEF Sweep, Advance
<1>3. CASE \/ \E m \in Controls : SetMode(m)
           \/ \E n \in Nodes : ManualDispatch(n) \/ MemberMessage(n) \/ Retry(n)
           \/ ProposeCandidate \/ ActivateCandidate \/ TaskDrift \/ Crash
  BY <1>3, CommandSteps
<1> QED
  BY <1>1, <1>2, <1>3 DEF Next

\* The plan starts with no attempts and no proofs.
LEMMA InitPlan ==
    ASSUME Init
    PROVE  PlanInv
<1>1. PlanType
  <2>1. 1 \in Revs /\ Absent \in NodeView /\ "automatic" \in Modes
    BY PlanConstants DEF Revs, Absent, NodeView, Modes
  <2>2. runs \in [Revs -> [Nodes -> Seq(Attempt)]] /\ \A r \in Revs, n \in Nodes : runs[r][n] = <<>>
    BY DEF Init
  <2>3. \A r \in Revs, n \in Nodes : Len(runs[r][n]) <= MaxAttempts
    BY <2>2, PlanConstants
  <2>4. plan \in [state : {"approved", "running", "paused"}, rev : Revs] /\ node \in [Nodes -> NodeView]
    BY <2>1 DEF Init
  <2> QED
    BY <2>1, <2>2, <2>3, <2>4 DEF Init, PlanType
<1>2. SweepInv
  BY DEF Init, SweepInv, Resting
<1>3. GateInv
  <2>1. \A r \in Revs, e \in Edges : runs[r][e.to] = <<>>
    BY PlanConstants DEF Init
  <2> QED
    BY <2>1 DEF Init, GateInv, DependenciesMet, ProofsStand, GatesCarried
<1> QED
  BY <1>1, <1>2, <1>3 DEF PlanInv

\* A step that changes nothing.
LEMMA StutterPlan ==
    ASSUME PlanInv, UNCHANGED vars
    PROVE  PlanInv'
<1>1. PlanType'
  BY DEF vars, PlanInv, PlanType
<1>2. GateInv'
  BY SameGates DEF vars, PlanInv
<1>3. SweepInv'
  BY ReadinessStays DEF vars, PlanInv, SweepInv
<1> QED
  BY <1>1, <1>2, <1>3 DEF PlanInv

\* The invariant holds in every reachable state.
LEMMA PlanInvariant ==
    Spec => []PlanInv
<1>1. Init => PlanInv
  BY InitPlan
<1>2. PlanInv /\ [Next]_vars => PlanInv'
  BY StepKept, SweepKept, StutterPlan DEF PlanInv
<1> QED
  BY <1>1, <1>2, PTL DEF Spec

\* No Run of a node exists before every incoming edge of its revision is proven, whichever
\* path admitted it; a proof stands on the completed attempt it names; supersession strands
\* no adopted gate: for every plan and any number of revisions.
THEOREM GatesAreKept ==
    Spec => []GatesKept
<1>1. PlanType /\ SweepInv => TypeOK
  BY DEF PlanType, SweepInv, TypeOK, NodeView
<1>2. PlanInv => GatesKept
  BY <1>1 DEF PlanInv, GateInv, GatesKept
<1> QED
  BY <1>2, PlanInvariant, PTL

-----------------------------------------------------------------------------
(* One attempt at a time *)

\* Revisions to come have no attempts.
FutureEmpty ==
    \A r \in Revs, n \in Nodes : r > plan.rev => runs[r][n] = <<>>

\* Only the last attempt of a node in a revision may be unsettled, in one revision only.
OneUnsettled ==
    /\ \A r \in Revs, n \in Nodes : \A g \in 1..Len(runs[r][n]) :
          g < Len(runs[r][n]) => ~Unsettled(runs[r][n][g])
    /\ \A r, q \in Revs, n \in Nodes : \A g \in 1..Len(runs[r][n]), h \in 1..Len(runs[q][n]) :
          Unsettled(runs[r][n][g]) /\ Unsettled(runs[q][n][h]) => r = q /\ g = h

\* The active attempts are of different Agents.
OneActive ==
    \A r, q \in Revs, n, m \in Nodes : \A g \in 1..Len(runs[r][n]), h \in 1..Len(runs[q][m]) :
          /\ AgentOf[n] = AgentOf[m]
          /\ runs[r][n][g].state = "active" /\ runs[q][m][h].state = "active"
          => r = q /\ n = m /\ g = h

AttemptInv == FutureEmpty /\ OneUnsettled /\ OneActive

\* Nothing is admitted and no attempt changes.
LEMMA SameAttempts ==
    ASSUME PlanType, AttemptInv, runs' = runs, plan'.rev \in Revs, plan'.rev >= plan.rev
    PROVE  AttemptInv'
<1>1. FutureEmpty'
  <2>1. plan.rev \in Nat /\ plan'.rev \in Nat /\ Revs \subseteq Nat
    BY DEF PlanType, Revs
  <2>2. \A r \in Revs : r > plan'.rev => r > plan.rev
    BY <2>1
  <2> QED
    BY <2>2 DEF AttemptInv, FutureEmpty
<1>2. OneUnsettled'
  BY DEF AttemptInv, OneUnsettled, Unsettled
<1>3. OneActive'
  BY DEF AttemptInv, OneActive
<1> QED
  BY <1>1, <1>2, <1>3 DEF AttemptInv

\* An admission that found no attempt of the Task unsettled and no Run of the Agent active.
LEMMA AdmitKeepsAttempts ==
    ASSUME PlanType, AttemptInv, NEW n \in Nodes, Admit(n), Len(Now(n)) < MaxAttempts,
           ~PriorUnsettled(n), ActiveAgentRuns(AgentOf[n]) = {},
           Now(n) = <<>> \/ Retryable(Latest(n)), plan'.rev = plan.rev
    PROVE  AttemptInv'
<1> DEFINE k == Len(Now(n))
           R == plan.rev
<1>1. R \in Revs /\ R \in Nat /\ Now(n) \in Seq(Attempt) /\ k \in Nat /\ Revs \subseteq Nat
  BY NowType DEF Revs
<1>2. /\ runs' \in [Revs -> [Nodes -> Seq(Attempt)]]
      /\ Len(runs'[R][n]) = k + 1
      /\ runs'[R][n][k + 1] = NewAttempt
      /\ \A g \in 1..k : runs'[R][n][g] = runs[R][n][g]
      /\ \A r \in Revs, m \in Nodes : r # R \/ m # n => runs'[r][m] = runs[r][m]
  BY AdmitRuns DEF Now
<1>3. Len(runs[R][n]) = k /\ \A r \in Revs, m \in Nodes : Len(runs[r][m]) \in Nat /\ Len(runs[r][m]) <= MaxAttempts
  BY DEF Now, PlanType
<1>4. ASSUME NEW r \in Revs, NEW g \in 1..Len(runs[r][n])
      PROVE  ~Unsettled(runs[r][n][g])
  <2>1. CASE r < R
    <3>1. r \in 1..(plan.rev - 1) /\ g \in DOMAIN runs[r][n]
      BY <1>1, <2>1 DEF PlanType, Revs
    <3> QED
      BY <3>1 DEF PriorUnsettled
  <2>2. CASE r = R
    <3>1. CASE g < k
      BY <1>3, <2>2, <3>1 DEF AttemptInv, OneUnsettled
    <3>2. CASE g = k
      <4>1. Now(n) # <<>> /\ runs[r][n][g] = Latest(n)
        BY <1>1, <2>2, <3>2 DEF Now, Latest
      <4> QED
        BY <4>1 DEF Retryable, Unsettled
    <3> QED
      BY <1>1, <1>3, <2>2, <3>1, <3>2
  <2>3. CASE r > R
    BY <2>3 DEF AttemptInv, FutureEmpty
  <2> QED
    BY <1>1, <2>1, <2>2, <2>3
<1>5. ASSUME NEW q \in Revs, NEW m \in Nodes, NEW h \in 1..Len(runs[q][m]), AgentOf[m] = AgentOf[n]
      PROVE  runs[q][m][h].state # "active"
  <2> SUFFICES ASSUME runs[q][m][h].state = "active"
               PROVE  FALSE
    OBVIOUS
  <2>1. h \in 1..MaxAttempts /\ h \in DOMAIN runs[q][m]
    BY <1>3, PlanConstants DEF PlanType
  <2>2. h \in ActiveIn(q, m)
    BY <2>1 DEF ActiveIn
  <2>3. <<q, m, h>> \in Revs \X Nodes \X (1..MaxAttempts)
    BY <2>1
  <2>4. <<q, m, h>> \in ActiveAgentRuns(AgentOf[n])
    BY <1>5, <2>2, <2>3 DEF ActiveAgentRuns
  <2> QED
    BY <2>4
<1> HIDE DEF k, R
<1>6. ASSUME NEW r \in Revs, NEW m \in Nodes, NEW g \in 1..Len(runs'[r][m])
      PROVE  \/ r = R /\ m = n /\ g = k + 1 /\ runs'[r][m][g] = NewAttempt
             \/ g \in 1..Len(runs[r][m]) /\ runs'[r][m][g] = runs[r][m][g]
  <2>1. CASE r = R /\ m = n
    BY <1>1, <1>2, <1>3, <2>1
  <2>2. CASE ~(r = R /\ m = n)
    BY <1>2, <2>2
  <2> QED
    BY <2>1, <2>2
<1>7. FutureEmpty'
  <2>1. plan'.rev = R /\ \A r \in Revs : r > R => r # R
    BY <1>1 DEF R
  <2>2. \A r \in Revs, m \in Nodes : r > R => runs[r][m] = <<>>
    BY DEF AttemptInv, FutureEmpty, R
  <2> QED
    BY <1>2, <2>1, <2>2 DEF FutureEmpty
<1>8. ASSUME NEW r \in Revs, NEW m \in Nodes, NEW g \in 1..Len(runs'[r][m]), g < Len(runs'[r][m])
      PROVE  ~Unsettled(runs'[r][m][g])
  <2>1. CASE r = R /\ m = n
    <3>1. g \in 1..k
      BY <1>1, <1>2, <1>8, <2>1
    <3> QED
      BY <1>2, <1>3, <1>4, <2>1, <3>1
  <2>2. CASE ~(r = R /\ m = n)
    BY <1>2, <1>8, <2>2 DEF AttemptInv, OneUnsettled
  <2> QED
    BY <2>1, <2>2
<1>9. ASSUME NEW r \in Revs, NEW q \in Revs, NEW m \in Nodes, NEW g \in 1..Len(runs'[r][m]),
             NEW h \in 1..Len(runs'[q][m]), Unsettled(runs'[r][m][g]), Unsettled(runs'[q][m][h])
      PROVE  r = q /\ g = h
  <2>1. CASE m = n
    <3>1. r = R /\ g = k + 1
      BY <1>4, <1>6, <1>9, <2>1
    <3>2. q = R /\ h = k + 1
      BY <1>4, <1>6, <1>9, <2>1
    <3> QED
      BY <3>1, <3>2
  <2>2. CASE m # n
    <3>1. runs'[r][m] = runs[r][m] /\ runs'[q][m] = runs[q][m]
      BY <1>2, <2>2
    <3> QED
      BY <1>9, <3>1 DEF AttemptInv, OneUnsettled
  <2> QED
    BY <2>1, <2>2
<1>10. ASSUME NEW r \in Revs, NEW q \in Revs, NEW o \in Nodes, NEW m \in Nodes,
              NEW g \in 1..Len(runs'[r][o]), NEW h \in 1..Len(runs'[q][m]), AgentOf[o] = AgentOf[m],
              runs'[r][o][g].state = "active", runs'[q][m][h].state = "active"
       PROVE  r = q /\ o = m /\ g = h
  <2>1. CASE AgentOf[o] = AgentOf[n]
    <3>1. r = R /\ o = n /\ g = k + 1
      <4>1. ~(g \in 1..Len(runs[r][o]) /\ runs'[r][o][g] = runs[r][o][g])
        BY <1>5, <1>10, <2>1
      <4> QED
        BY <1>6, <4>1
    <3>2. q = R /\ m = n /\ h = k + 1
      <4>1. ~(h \in 1..Len(runs[q][m]) /\ runs'[q][m][h] = runs[q][m][h])
        BY <1>5, <1>10, <2>1
      <4> QED
        BY <1>6, <4>1
    <3> QED
      BY <3>1, <3>2
  <2>2. CASE AgentOf[o] # AgentOf[n]
    <3>1. o # n /\ m # n
      BY <1>10, <2>2
    <3>2. runs'[r][o] = runs[r][o] /\ runs'[q][m] = runs[q][m]
      BY <1>2, <3>1
    <3> QED
      BY <1>10, <3>2 DEF AttemptInv, OneActive
  <2> QED
    BY <2>1, <2>2
<1>11. OneUnsettled'
  BY <1>8, <1>9 DEF OneUnsettled, Unsettled
<1>12. OneActive'
  BY <1>10 DEF OneActive
<1> QED
  BY <1>7, <1>11, <1>12 DEF AttemptInv

\* A change of an attempt: no attempt becomes active or unsettled.
LEMMA ChangeKeepsAttempts ==
    ASSUME PlanType, AttemptInv, NEW r \in Revs, NEW n \in Nodes, NEW g \in DOMAIN runs[r][n],
           NEW b \in Attempt, Change(r, n, g, b), Evolves(runs[r][n][g], b), plan' = plan
    PROVE  AttemptInv'
<1>0. runs \in [Revs -> [Nodes -> Seq(Attempt)]]
  BY DEF PlanType
<1>1. /\ runs' \in [Revs -> [Nodes -> Seq(Attempt)]]
      /\ \A q \in Revs, m \in Nodes : Len(runs'[q][m]) = Len(runs[q][m])
      /\ runs'[r][n][g] = b
      /\ \A q \in Revs, m \in Nodes : \A h \in 1..Len(runs[q][m]) :
                q # r \/ m # n \/ h # g => runs'[q][m][h] = runs[q][m][h]
  <2>1. Becomes(r, n, g, b)
    BY ChangeRuns
  <2> QED
    BY <2>1 DEF Becomes
<1>2. ASSUME NEW q \in Revs, NEW m \in Nodes, NEW h \in 1..Len(runs[q][m])
      PROVE  /\ Unsettled(runs'[q][m][h]) => Unsettled(runs[q][m][h])
             /\ runs'[q][m][h].state = "active" => runs[q][m][h].state = "active"
  <2>1. CASE q = r /\ m = n /\ h = g
    BY <1>1, <2>1 DEF Evolves
  <2>2. CASE q # r \/ m # n \/ h # g
    <3>1. runs'[q][m][h] = runs[q][m][h]
      BY <1>1, <2>2
    <3> QED
      BY <3>1
  <2> QED
    BY <2>1, <2>2
<1>3. \A q \in Revs, m \in Nodes : q > plan'.rev => runs'[q][m] = <<>>
  <2> SUFFICES ASSUME NEW q \in Revs, NEW m \in Nodes, q > plan.rev
               PROVE  runs'[q][m] = <<>>
    OBVIOUS
  <2>1. runs[q][m] = <<>> /\ runs'[q][m] \in Seq(Attempt)
    BY <1>1 DEF AttemptInv, FutureEmpty
  <2>2. Len(runs'[q][m]) = 0
    BY <1>1, <2>1
  <2> QED
    BY <2>1, <2>2
<1>4. ASSUME NEW q \in Revs, NEW m \in Nodes, NEW h \in 1..Len(runs'[q][m]), h < Len(runs'[q][m])
      PROVE  ~Unsettled(runs'[q][m][h])
  <2>1. Len(runs'[q][m]) = Len(runs[q][m])
    BY <1>1
  <2> QED
    BY <1>2, <1>4, <2>1 DEF AttemptInv, OneUnsettled
<1>5. ASSUME NEW q \in Revs, NEW p \in Revs, NEW m \in Nodes, NEW h \in 1..Len(runs'[q][m]),
             NEW i \in 1..Len(runs'[p][m]), Unsettled(runs'[q][m][h]), Unsettled(runs'[p][m][i])
      PROVE  q = p /\ h = i
  <2>1. Len(runs'[q][m]) = Len(runs[q][m]) /\ Len(runs'[p][m]) = Len(runs[p][m])
    BY <1>1
  <2>2. Unsettled(runs[q][m][h]) /\ Unsettled(runs[p][m][i])
    BY <1>2, <1>5, <2>1
  <2> QED
    BY <2>1, <2>2 DEF AttemptInv, OneUnsettled
<1>6. ASSUME NEW q \in Revs, NEW p \in Revs, NEW o \in Nodes, NEW m \in Nodes,
             NEW h \in 1..Len(runs'[q][o]), NEW i \in 1..Len(runs'[p][m]), AgentOf[o] = AgentOf[m],
             runs'[q][o][h].state = "active", runs'[p][m][i].state = "active"
      PROVE  q = p /\ o = m /\ h = i
  <2>1. Len(runs'[q][o]) = Len(runs[q][o]) /\ Len(runs'[p][m]) = Len(runs[p][m])
    BY <1>1
  <2>2. runs[q][o][h].state = "active" /\ runs[p][m][i].state = "active"
    BY <1>2, <1>6, <2>1
  <2> QED
    BY <1>6, <2>1, <2>2 DEF AttemptInv, OneActive
<1>7. OneUnsettled'
  BY <1>4, <1>5 DEF OneUnsettled, Unsettled
<1>8. OneActive'
  BY <1>6 DEF OneActive
<1> QED
  BY <1>3, <1>7, <1>8 DEF AttemptInv, FutureEmpty

\* Every step that is not an admission by message keeps it.
LEMMA AttemptsKept ==
    ASSUME ~Messages, PlanInv, AttemptInv, Next
    PROVE  AttemptInv'
<1>0. PlanType /\ GateInv /\ plan.rev \in Revs /\ plan.rev \in Nat
  BY DEF PlanInv, PlanType, Revs
<1>1. ASSUME NEW n \in Nodes, Admit(n), plan'.rev = plan.rev, Readiness(n, FALSE)
      PROVE  AttemptInv'
  <2>1. Now(n) = <<>> /\ ~PriorUnsettled(n) /\ ActiveAgentRuns(AgentOf[n]) = {}
    BY <1>1 DEF Readiness
  <2>2. Len(Now(n)) < MaxAttempts
    BY <2>1, PlanConstants
  <2> QED
    BY <1>0, <1>1, <2>1, <2>2, AdmitKeepsAttempts
<1>2. CASE AttemptStep \/ \E n \in Nodes : AcceptResult(n)
  <2>1. AttemptChanges /\ plan' = plan
    BY <1>0, <1>2, AttemptLife
  <2>2. PICK r \in Revs, n \in Nodes : \E g \in DOMAIN runs[r][n], b \in Attempt :
          Change(r, n, g, b) /\ Evolves(runs[r][n][g], b)
    BY <2>1 DEF AttemptChanges
  <2> QED
    BY <1>0, <2>1, <2>2, ChangeKeepsAttempts
<1>3. CASE \/ Sweep \/ Advance \/ \E m \in Controls : SetMode(m)
           \/ ProposeCandidate \/ TaskDrift \/ Crash
  <2>1. runs' = runs /\ plan'.rev = plan.rev
    BY <1>0, <1>3 DEF Sweep, Advance, SweepBegin, SetMode, ProposeCandidate, TaskDrift, Crash, PlanType
  <2> QED
    BY <1>0, <2>1, SameAttempts
<1>4. CASE SweepReconcile \/ SweepEvaluate \/ Startup
  <2>1. runs' = runs
    BY <1>4 DEF SweepReconcile, SweepEvaluate, Startup
  <2>2. plan' = plan \/ plan' = Started(Nodes)
    BY <1>4 DEF SweepReconcile, SweepEvaluate, Startup, Reconcile
  <2>3. plan'.rev = plan.rev
    BY <1>0, <2>2 DEF Started, PlanType
  <2> QED
    BY <1>0, <2>1, <2>3, SameAttempts
<1>5. CASE SweepAdmit
  <2> DEFINE n == Head(sweep.queue)
  <2>1. Admit(n) /\ plan' = [plan EXCEPT !.state = "running"]
    BY <1>5 DEF SweepAdmit
  <2>2. Readiness(n, FALSE)
    BY <1>5 DEF SweepAdmit, SweepInv, PlanInv
  <2> HIDE DEF n
  <2>3. plan'.rev = plan.rev
    BY <1>0, <2>1 DEF PlanType
  <2>4. CASE n \in Nodes
    BY <1>1, <2>1, <2>2, <2>3, <2>4
  <2>5. CASE n \notin Nodes
    <3>1. runs \in [Revs -> [Nodes -> Seq(Attempt)]]
      BY <1>0 DEF PlanType
    <3>2. runs' = [runs EXCEPT ![plan.rev] = [runs[plan.rev] EXCEPT ![n] = Append(runs[plan.rev][n], NewAttempt)]]
      BY <2>1 DEF Admit
    <3>3. [runs[plan.rev] EXCEPT ![n] = Append(runs[plan.rev][n], NewAttempt)] = runs[plan.rev]
      BY <1>0, <2>5, <3>1
    <3>4. runs' = runs
      BY <1>0, <3>1, <3>2, <3>3
    <3> QED
      BY <1>0, <2>3, <3>4, SameAttempts
  <2> QED
    BY <2>4, <2>5
<1>6. ASSUME NEW n \in Nodes, ManualDispatch(n) \/ MemberMessage(n)
      PROVE  AttemptInv'
  BY <1>1, <1>6 DEF ManualDispatch, MemberMessage
<1>7. ASSUME NEW n \in Nodes, Retry(n)
      PROVE  AttemptInv'
  <2>1. plan'.rev = plan.rev
    BY <1>0, <1>7, SettleTypes DEF Retry
  <2>2. CASE runs' = runs
    BY <1>0, <2>1, <2>2, SameAttempts
  <2>3. CASE Admit(n) /\ Retryable(Latest(n)) /\ Readiness(n, TRUE)
    <3>1. ~PriorUnsettled(n) /\ ActiveAgentRuns(AgentOf[n]) = {} /\ Cardinality(PlanAttempts) < MaxAttempts
      BY <2>3 DEF Readiness
    <3>2. Len(Now(n)) < MaxAttempts
      BY <1>0, <3>1, BudgetBoundsNode
    <3> QED
      BY <1>0, <2>1, <2>3, <3>1, <3>2, AdmitKeepsAttempts
  <2> QED
    BY <1>7, <2>2, <2>3 DEF Retry
<1>8. CASE ActivateCandidate
  <2>1. runs' = runs /\ plan'.rev = plan.rev + 1 /\ plan.rev < MaxRev
    BY <1>0, <1>8 DEF ActivateCandidate, PlanType
  <2>2. plan'.rev \in Revs
    BY <1>0, <2>1, PlanConstants DEF Revs
  <2> QED
    BY <1>0, <2>1, <2>2, SameAttempts
<1> QED
  BY <1>2, <1>3, <1>4, <1>5, <1>6, <1>7, <1>8 DEF Next, SweepStep

\* A set all of whose elements are equal.
LEMMA AtMostOne ==
    ASSUME NEW S, \A a, b \in S : a = b
    PROVE  Cardinality(S) <= 1
<1>1. CASE S = {}
  BY <1>1, FS_EmptySet
<1>2. ASSUME NEW a \in S
      PROVE  Cardinality(S) <= 1
  <2>1. S = {a}
    BY <1>2
  <2> QED
    BY <2>1, FS_Singleton
<1> QED
  BY <1>1, <1>2

\* As long as no member admits a Run by message, a Task never has two attempts that may be
\* at work, over all revisions and generations, and an Agent never two active governed Runs.
THEOREM OneAttempt ==
    ASSUME ~Messages
    PROVE  Spec => []OneAttemptPerTask
<1>1. Init => AttemptInv
  <2> SUFFICES ASSUME Init
               PROVE  AttemptInv
    OBVIOUS
  <2>1. \A r \in Revs, n \in Nodes : runs[r][n] = <<>> /\ Len(runs[r][n]) = 0
    BY DEF Init
  <2> QED
    BY <2>1 DEF AttemptInv, FutureEmpty, OneUnsettled, OneActive
<1>2. PlanInv /\ AttemptInv /\ [Next]_vars => AttemptInv'
  <2>1. PlanInv /\ AttemptInv /\ UNCHANGED vars => AttemptInv'
    BY DEF vars, AttemptInv, FutureEmpty, OneUnsettled, OneActive, Unsettled
  <2> QED
    BY <2>1, AttemptsKept
<1>3. PlanInv /\ AttemptInv => OneAttemptPerTask
  <2> SUFFICES ASSUME PlanInv, AttemptInv
               PROVE  OneAttemptPerTask
    OBVIOUS
  <2>0. \A r \in Revs, n \in Nodes : DOMAIN runs[r][n] = 1..Len(runs[r][n])
    BY DEF PlanInv, PlanType
  <2>1. ASSUME NEW n \in Nodes
        PROVE  Cardinality({a \in Revs \X (1..MaxAttempts) :
                 a[2] \in DOMAIN runs[a[1]][n] /\ Unsettled(runs[a[1]][n][a[2]])}) <= 1
    <3> DEFINE S == {a \in Revs \X (1..MaxAttempts) :
                 a[2] \in DOMAIN runs[a[1]][n] /\ Unsettled(runs[a[1]][n][a[2]])}
    <3>1. ASSUME NEW a \in S, NEW b \in S
          PROVE  a = b
      <4>1. a = <<a[1], a[2]>> /\ b = <<b[1], b[2]>> /\ a[1] \in Revs /\ b[1] \in Revs
        BY <3>1
      <4>2. a[1] = b[1] /\ a[2] = b[2]
        BY <2>0, <4>1 DEF AttemptInv, OneUnsettled
      <4> QED
        BY <4>1, <4>2
    <3> HIDE DEF S
    <3>2. Cardinality(S) <= 1
      BY <3>1, AtMostOne
    <3> QED
      BY <3>2 DEF S
  <2>2. ASSUME NEW n \in Nodes
        PROVE  Cardinality(ActiveAgentRuns(AgentOf[n])) <= 1
    <3>1. ASSUME NEW a \in ActiveAgentRuns(AgentOf[n]), NEW b \in ActiveAgentRuns(AgentOf[n])
          PROVE  a = b
      <4>1. /\ a = <<a[1], a[2], a[3]>> /\ b = <<b[1], b[2], b[3]>>
            /\ a[1] \in Revs /\ b[1] \in Revs /\ a[2] \in Nodes /\ b[2] \in Nodes
        BY <3>1 DEF ActiveAgentRuns
      <4>2. /\ AgentOf[a[2]] = AgentOf[n] /\ a[3] \in 1..Len(runs[a[1]][a[2]])
            /\ runs[a[1]][a[2]][a[3]].state = "active"
            /\ AgentOf[b[2]] = AgentOf[n] /\ b[3] \in 1..Len(runs[b[1]][b[2]])
            /\ runs[b[1]][b[2]][b[3]].state = "active"
        BY <2>0, <3>1, <4>1 DEF ActiveAgentRuns, ActiveIn
      <4>3. a[1] = b[1] /\ a[2] = b[2] /\ a[3] = b[3]
        BY <4>1, <4>2 DEF AttemptInv, OneActive
      <4> QED
        BY <4>1, <4>3
    <3> QED
      BY <3>1, AtMostOne
  <2> QED
    BY <2>1, <2>2 DEF OneAttemptPerTask
<1> QED
  BY <1>1, <1>2, <1>3, PlanInvariant, PTL DEF Spec
=============================================================================
