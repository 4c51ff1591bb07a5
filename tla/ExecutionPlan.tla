--------------------------- MODULE ExecutionPlan ---------------------------
(***************************************************************************)
(* One approved Execution Plan of Central: its nodes are Tasks joined by    *)
(* gated edges.  The scheduler sweep, a human dispatch, a member message    *)
(* and a human retry admit governed Runs; settlement projects the Runs and  *)
(* retains gate proofs; a Task edit pauses the plan; a superseding revision *)
(* is proposed and adopted (src/apps/server/src/execution).                 *)
(*                                                                          *)
(* Central is one JavaScript thread: every operation is one step, and the   *)
(* sweep is a chain of transactions that nothing but a crash interrupts.    *)
(***************************************************************************)
EXTENDS Naturals, Sequences, FiniteSets, SequencesExt

CONSTANTS
    Nodes,           \* node keys; a node has one Task in every revision
    Order,           \* the topological order of the nodes, a sequence
    Edges,           \* records [from, to, gate]
    AgentOf,         \* the Agent of each node
    MaxConcurrency,  \* policy.maxConcurrency
    MaxAttempts,     \* policy.budget.maxRunAttempts
    MaxRev,          \* bound: revisions of the plan
    MaxResults,      \* bound: standing Results one Run proposes
    Controls,        \* modes that members choose
    Messages,        \* members address governed Tasks by message
    Drift,           \* members edit governed Tasks
    Failures         \* Runs fail, and Central crashes

Gates == {"accepted_result", "verified_output"}
Modes == {"manual", "supervised", "automatic"}
Revs == 1..MaxRev

ValidPlan ==
    /\ IsFiniteSet(Nodes) /\ MaxAttempts \in Nat \ {0} /\ MaxRev \in Nat \ {0}
    /\ MaxResults \in Nat /\ Controls \subseteq Modes
    /\ Edges \subseteq [from : Nodes, to : Nodes, gate : Gates]
    /\ ToSet(Order) = Nodes /\ Len(Order) = Cardinality(Nodes)
    /\ \A e \in Edges : \E i, j \in 1..Len(Order) :
          i < j /\ Order[i] = e.from /\ Order[j] = e.to

ASSUME PlanAssumption == ValidPlan

VARIABLES
    plan,      \* [state, rev]
    mode,      \* the scheduler mode of the plan
    runs,      \* revision -> node -> attempts, one per dispatch generation
    proofs,    \* retained gate proofs; gen 0 is a carried one
    node,      \* the projection of the current revision's nodes
    cand,      \* the superseding candidate: "none", "fresh" or "stale"
    sweep,     \* the scheduler sweep under way
    up         \* Central runs

vars == <<plan, mode, runs, proofs, node, cand, sweep, up>>

Absent == [state |-> "absent", gen |-> 0]
Pending == [state |-> "blocked", gen |-> 0]
Resting == [pc |-> "idle", queue |-> <<>>, left |-> 0, max |-> 0]

Attempt == [state : {"active", "completed", "failed", "unknown"},
            acked : BOOLEAN,       \* the ambiguity was acknowledged
            open : 0..MaxResults,  \* its standing proposed Results
            accepted : BOOLEAN,    \* one of its Results was accepted
            verified : BOOLEAN]    \* the required receipts passed

NewAttempt == [state |-> "active", acked |-> FALSE, open |-> 0,
               accepted |-> FALSE, verified |-> FALSE]

TypeOK ==
    /\ plan \in [state : {"approved", "running", "paused"}, rev : Revs]
    /\ mode \in Modes
    /\ DOMAIN runs = Revs
    /\ \A r \in Revs : DOMAIN runs[r] = Nodes
    /\ \A r \in Revs, n \in Nodes : \A g \in DOMAIN runs[r][n] :
          runs[r][n][g] \in Attempt
    /\ proofs \subseteq [rev : Revs, node : Nodes, gate : Gates,
                         gen : 0..MaxAttempts]
    /\ node \in [Nodes -> [state : {"absent", "blocked", "ready", "dispatched",
                                    "awaiting_result", "failed", "outcome_unknown"},
                           gen : 0..MaxAttempts]]
    /\ cand \in {"none", "fresh", "stale"}
    /\ sweep.pc \in {"idle", "reconcile", "evaluate", "admit"}
    /\ up \in BOOLEAN

Init ==
    /\ plan = [state |-> "approved", rev |-> 1]
    /\ mode = "automatic"
    /\ runs = [r \in Revs |-> [n \in Nodes |-> <<>>]]
    /\ proofs = {}
    /\ node = [n \in Nodes |-> Absent]
    /\ cand = "none"
    /\ sweep = Resting
    /\ up = TRUE

-----------------------------------------------------------------------------
(* What admission reads.                                                     *)

Now(n) == runs[plan.rev][n]                \* the intents of the current revision

Schedulable == plan.state \in {"approved", "running"}

Proven(r, n, gate) ==
    \E p \in proofs : p.rev = r /\ p.node = n /\ p.gate = gate

Adopted(r, n) == \E gate \in Gates : Proven(r, n, gate)

\* Mutant: a proof of another gate is enough.
UngatedDependencyReady(n) ==
    \A e \in Edges : e.to = n => Adopted(plan.rev, e.from)

DependencyReady(n) ==
    \A e \in Edges : e.to = n => Proven(plan.rev, e.from, e.gate)

\* A Run that may still be working: it blocks another attempt at its Task.
Unsettled(a) == a.state = "active" \/ (a.state = "unknown" /\ ~a.acked)

\* Mutant: the attempts of superseded revisions are forgotten.
NoPriorUnsettled(n) == FALSE

PriorUnsettled(n) ==
    \E r \in 1..(plan.rev - 1) : \E g \in DOMAIN runs[r][n] :
        Unsettled(runs[r][n][g])

ActiveIn(r, n) == {g \in DOMAIN runs[r][n] : runs[r][n][g].state = "active"}

ActivePlanRuns ==
    {a \in Nodes \X (1..MaxAttempts) : a[2] \in ActiveIn(plan.rev, a[1])}

ActiveAgentRuns(agent) ==
    {a \in Revs \X Nodes \X (1..MaxAttempts) :
        AgentOf[a[2]] = agent /\ a[3] \in ActiveIn(a[1], a[2])}

PlanAttempts ==
    {a \in Nodes \X (1..MaxAttempts) : a[2] \in DOMAIN Now(a[1])}

\* evaluateExecutionReadiness of the frozen snapshot.
Readiness(n, retry) ==
    /\ Schedulable
    /\ retry \/ (Now(n) = <<>> /\ ~Adopted(plan.rev, n))
    /\ ~PriorUnsettled(n)
    /\ DependencyReady(n)
    /\ Cardinality(PlanAttempts) < MaxAttempts
    /\ Cardinality(ActivePlanRuns) < MaxConcurrency
    /\ ActiveAgentRuns(AgentOf[n]) = {}

Admit(n) == runs' = [runs EXCEPT ![plan.rev][n] = Append(@, NewAttempt)]

-----------------------------------------------------------------------------
(* Settlement and gate proofs.                                               *)

Latest(n) == Now(n)[Len(Now(n))]

NeedsVerified(n) == \E e \in Edges : e.from = n /\ e.gate = "verified_output"

Standing(a) == a.open + (IF a.accepted THEN 1 ELSE 0)

\* The materializer throws: two Results stand for the completed Run.
AmbiguousEvidence(n) ==
    /\ Now(n) # <<>>
    /\ Latest(n).state = "completed"
    /\ NeedsVerified(n)
    /\ ~Proven(plan.rev, n, "verified_output")
    /\ Standing(Latest(n)) > 1

Proof(n, gate) ==
    [rev |-> plan.rev, node |-> n, gate |-> gate, gen |-> Len(Now(n))]

\* The proofs the materializers retain for the latest intent of a node.
Materialized(n) ==
    IF Now(n) = <<>> \/ Latest(n).state # "completed" THEN {}
    ELSE {Proof(n, gate) : gate \in
            (IF Latest(n).accepted THEN {"accepted_result"} ELSE {}) \cup
            (IF /\ NeedsVerified(n)
                /\ ~Proven(plan.rev, n, "verified_output")
                /\ Standing(Latest(n)) = 1
                /\ Latest(n).verified
             THEN {"verified_output"} ELSE {})}

settleRun == [active |-> "dispatched", completed |-> "awaiting_result",
              failed |-> "failed", unknown |-> "outcome_unknown"]

Existing(view) == [n \in Nodes |-> IF view[n] = Absent THEN Pending ELSE view[n]]

\* The projection of one node after its settlement.
Settled(view, n) ==
    IF Now(n) # <<>>
    THEN [state |-> settleRun[Latest(n).state], gen |-> Len(Now(n))]
    ELSE IF plan.state = "paused" THEN Pending ELSE view[n]

Started(ns) ==
    IF plan.state = "approved" /\ \E n \in ns : Now(n) # <<>>
    THEN [plan EXCEPT !.state = "running"] ELSE plan

\* reconcile and reconcileOne over a set of nodes, in one transaction.
Reconcile(ns) ==
    /\ \A n \in ns : ~AmbiguousEvidence(n)
    /\ proofs' = proofs \cup UNION {Materialized(n) : n \in ns}
    /\ plan' = Started(ns)
    /\ node' = [n \in Nodes |-> IF n \in ns THEN Settled(Existing(node), n)
                                ELSE Existing(node)[n]]

-----------------------------------------------------------------------------
(* The scheduler sweep.                                                      *)

Free == up /\ sweep = Resting

\* Mutant: a node found blocked once is not listed again.
ForgetfulCandidates(m) ==
    IF mode # m \/ ~Schedulable THEN <<>>
    ELSE SelectSeq(Order, LAMBDA n : node[n] = Absent)

\* The nodes of a plan in mode m that are not dispatched and not adopted.
Candidates(m) ==
    IF mode # m \/ ~Schedulable THEN <<>>
    ELSE SelectSeq(Order, LAMBDA n : node[n].gen = 0 /\ ~Adopted(plan.rev, n))

\* The candidates are listed before the settlement that opens the sweep.
SweepBegin(m, max) ==
    /\ Free
    /\ node' = Existing(node)
    /\ sweep' = [pc |-> "reconcile", queue |-> Candidates(m), left |-> 0, max |-> max]
    /\ UNCHANGED <<plan, mode, runs, proofs, cand, up>>

\* The timer's sweep settles every plan and lists the automatic ones.
Sweep == SweepBegin("automatic", Cardinality(Nodes) + 1)

\* An owner's advance of a supervised plan admits at most one candidate.
Advance == mode = "supervised" /\ SweepBegin("supervised", 1)

\* A throw of the settlement ends the sweep.
SweepReconcile ==
    /\ sweep.pc = "reconcile"
    /\ IF \E n \in Nodes : AmbiguousEvidence(n)
       THEN sweep' = Resting /\ UNCHANGED <<plan, proofs, node>>
       ELSE /\ Reconcile(Nodes)
            /\ sweep' = IF sweep.queue = <<>> THEN Resting ELSE
                 [sweep EXCEPT !.pc = "evaluate", !.left = Len(sweep.queue)]
    /\ UNCHANGED <<mode, runs, cand, up>>

\* The head's readiness is projected; a candidate that is not ready goes to
\* the back of the queue, and a round without an admission ends the sweep.
SweepEvaluate ==
    /\ sweep.pc = "evaluate"
    /\ LET n == Head(sweep.queue) ready == Readiness(n, FALSE) IN
       /\ node' = [node EXCEPT ![n] =
              [state |-> IF ready THEN "ready" ELSE "blocked", gen |-> 0]]
       /\ sweep' = IF ready THEN [sweep EXCEPT !.pc = "admit"]
                   ELSE IF sweep.left = 1 THEN Resting
                   ELSE [sweep EXCEPT !.queue = Append(Tail(@), n), !.left = @ - 1]
    /\ UNCHANGED <<plan, mode, runs, proofs, cand, up>>

\* Admission and settlement of the ready candidate; then the next round.
SweepAdmit ==
    /\ sweep.pc = "admit"
    /\ LET n == Head(sweep.queue) IN
       /\ Admit(n)
       /\ node' = [node EXCEPT ![n] = [state |-> "dispatched", gen |-> 1]]
       /\ plan' = [plan EXCEPT !.state = "running"]
       /\ sweep' = IF Len(sweep.queue) = 1 \/ sweep.max = 1 THEN Resting
                   ELSE [sweep EXCEPT !.pc = "reconcile", !.queue = Tail(@),
                                      !.left = 0, !.max = @ - 1]
    /\ UNCHANGED <<mode, proofs, cand, up>>

-----------------------------------------------------------------------------
(* Commands of members and of the Tech Lead Agent.                           *)

SetMode(m) ==
    /\ Free /\ m # mode
    /\ mode' = m
    /\ node' = Existing(node)
    /\ UNCHANGED <<plan, runs, proofs, cand, sweep, up>>

ManualDispatch(n) ==
    /\ Free /\ mode = "manual"
    /\ node[n].gen = 0 /\ Readiness(n, FALSE)
    /\ Admit(n)
    /\ node' = Existing(node)
    /\ UNCHANGED <<plan, mode, proofs, cand, sweep, up>>

\* A message that mentions the Agent of a governed Task: admission without
\* the readiness of the scheduler, and without a projection.
MemberMessage(n) ==
    /\ Free /\ Messages
    /\ Schedulable /\ Now(n) = <<>> /\ DependencyReady(n)
    /\ Admit(n)
    /\ UNCHANGED <<plan, mode, proofs, node, cand, sweep, up>>

Retryable(a) == a.state = "failed" \/ (a.state = "unknown" /\ a.acked)

\* The client's pins name the projection it read: a settlement that changes
\* the projection refuses the retry, and stays.
Retry(n) ==
    /\ Free /\ Now(n) # <<>> /\ ~AmbiguousEvidence(n)
    /\ Reconcile({n})
    /\ LET granted == /\ node'[n] = node[n]
                      /\ Retryable(Latest(n))
                      /\ ~Adopted(plan.rev, n)
                      /\ Readiness(n, TRUE)
       IN IF granted THEN Admit(n) ELSE UNCHANGED runs
    /\ UNCHANGED <<mode, cand, sweep, up>>

\* A candidate freezes the revisions of the root and of every Task.
ProposeCandidate ==
    /\ Free /\ cand = "none" /\ plan.rev < MaxRev
    /\ cand' = "fresh"
    /\ UNCHANGED <<plan, mode, runs, proofs, node, sweep, up>>

Carried == {[p EXCEPT !.rev = plan.rev + 1, !.gen = 0] :
               p \in {q \in proofs : q.rev = plan.rev}}

\* Adoption carries every adopted gate and leaves the state of the plan.
ActivateCandidate ==
    /\ Free /\ cand = "fresh"
    /\ plan' = [plan EXCEPT !.rev = @ + 1]
    /\ proofs' = proofs \cup Carried
    /\ node' = [n \in Nodes |-> Absent]
    /\ cand' = "none"
    /\ UNCHANGED <<mode, runs, sweep, up>>

-----------------------------------------------------------------------------
(* Tasks, Runs and Results.                                                  *)

Outdated == IF cand = "none" THEN "none" ELSE "stale"

\* A member edits or pauses a Task: the trigger pauses the plan.
TaskDrift ==
    /\ Free /\ Drift /\ Schedulable
    /\ plan' = [plan EXCEPT !.state = "paused"]
    /\ cand' = Outdated
    /\ UNCHANGED <<mode, runs, proofs, node, sweep, up>>

Change(r, n, g, attempt) == runs' = [runs EXCEPT ![r][n][g] = attempt]

RunEnds(r, n, g) ==
    /\ Free /\ runs[r][n][g].state = "active"
    /\ \E s \in {"completed"} \cup (IF Failures THEN {"failed", "unknown"} ELSE {}) :
          Change(r, n, g, [runs[r][n][g] EXCEPT !.state = s])
    /\ UNCHANGED <<plan, mode, proofs, node, cand, sweep, up>>

AcknowledgeAmbiguity(r, n, g) ==
    /\ Free /\ runs[r][n][g].state = "unknown" /\ ~runs[r][n][g].acked
    /\ Change(r, n, g, [runs[r][n][g] EXCEPT !.acked = TRUE])
    /\ cand' = Outdated
    /\ UNCHANGED <<plan, mode, proofs, node, sweep, up>>

\* The Agent of a completed Run proposes a Result: the Task's revision moves.
ProposeResult(r, n, g) ==
    LET a == runs[r][n][g] IN
    /\ Free /\ a.state = "completed" /\ Standing(a) < MaxResults
    /\ Change(r, n, g, [a EXCEPT !.open = @ + 1])
    /\ cand' = Outdated
    /\ UNCHANGED <<plan, mode, proofs, node, sweep, up>>

\* Only a Result of the latest completed attempt of the current revision is
\* accepted, for a node whose acceptance an edge waits for, and only when no
\* Result of the Task is.
AcceptResult(n) ==
    /\ \E e \in Edges : e.from = n /\ e.gate = "accepted_result"
    /\ Free /\ Now(n) # <<>> /\ Latest(n).state = "completed" /\ Latest(n).open > 0
    /\ ~\E r \in Revs : \E g \in DOMAIN runs[r][n] : runs[r][n][g].accepted
    /\ Change(plan.rev, n, Len(Now(n)),
              [Latest(n) EXCEPT !.open = @ - 1, !.accepted = TRUE])
    /\ cand' = Outdated
    /\ UNCHANGED <<plan, mode, proofs, node, sweep, up>>

RejectResult(r, n, g) ==
    /\ Free /\ Failures /\ runs[r][n][g].open > 0
    /\ Change(r, n, g, [runs[r][n][g] EXCEPT !.open = @ - 1])
    /\ cand' = Outdated
    /\ UNCHANGED <<plan, mode, proofs, node, sweep, up>>

VerificationPasses(r, n, g) ==
    /\ Free /\ runs[r][n][g].state = "completed" /\ ~runs[r][n][g].verified
    /\ Change(r, n, g, [runs[r][n][g] EXCEPT !.verified = TRUE])
    /\ UNCHANGED <<plan, mode, proofs, node, cand, sweep, up>>

\* Central dies, in the middle of a sweep too; a supervised advance is one
\* transaction.
Crash ==
    /\ up /\ Failures /\ sweep.max # 1
    /\ up' = FALSE /\ sweep' = Resting
    /\ UNCHANGED <<plan, mode, runs, proofs, node, cand>>

\* Startup settles before anything else; a throw is the end of the startup.
Startup ==
    /\ ~up
    /\ Reconcile(Nodes)
    /\ up' = TRUE
    /\ UNCHANGED <<mode, runs, cand, sweep>>

AttemptStep ==
    \E r \in Revs, n \in Nodes : \E g \in DOMAIN runs[r][n] :
        \/ RunEnds(r, n, g) \/ AcknowledgeAmbiguity(r, n, g)
        \/ ProposeResult(r, n, g) \/ RejectResult(r, n, g)
        \/ VerificationPasses(r, n, g)

SweepStep == SweepReconcile \/ SweepEvaluate \/ SweepAdmit

Next ==
    \/ Sweep \/ Advance \/ SweepStep
    \/ \E m \in Controls : SetMode(m)
    \/ \E n \in Nodes : ManualDispatch(n) \/ MemberMessage(n) \/ Retry(n) \/ AcceptResult(n)
    \/ ProposeCandidate \/ ActivateCandidate
    \/ TaskDrift \/ AttemptStep \/ Crash \/ Startup

Spec == Init /\ [][Next]_vars

\* The timer keeps sweeping, whoever may adopt a candidate does, and work goes
\* on: Runs end, Results are proposed, accepted and verified.
Work ==
    \/ \E n \in Nodes : AcceptResult(n)
    \/ \E r \in Revs, n \in Nodes : \E g \in DOMAIN runs[r][n] :
          \/ RunEnds(r, n, g) \/ VerificationPasses(r, n, g)
          \/ Standing(runs[r][n][g]) = 0 /\ ProposeResult(r, n, g)

Fairness ==
    /\ WF_vars(SweepStep) /\ SF_vars(Sweep) /\ WF_vars(Startup)
    /\ SF_vars(ActivateCandidate) /\ SF_vars(ProposeCandidate) /\ SF_vars(Work)

-----------------------------------------------------------------------------
(* Properties.                                                               *)

\* No Run of a node exists before every incoming edge of its revision is
\* proven, whichever of the four admission paths created it.
DependenciesMet ==
    \A r \in Revs, e \in Edges :
        runs[r][e.to] # <<>> => Proven(r, e.from, e.gate)

\* A Task never has two attempts that may be at work, over all revisions and
\* generations, and an Agent never two active governed Runs.
OneAttemptPerTask ==
    /\ \A n \in Nodes :
          Cardinality({a \in Revs \X (1..MaxAttempts) :
              a[2] \in DOMAIN runs[a[1]][n] /\ Unsettled(runs[a[1]][n][a[2]])}) <= 1
    /\ \A n \in Nodes : Cardinality(ActiveAgentRuns(AgentOf[n])) <= 1

\* A proof stands on the attempt it names: the last one of its node, completed,
\* with an accepted Result or with passed receipts; a carried proof stands on
\* such a proof of the revision before.
ProofsStand ==
    \A p \in proofs :
        IF p.gen = 0 THEN p.rev > 1 /\ Proven(p.rev - 1, p.node, p.gate)
        ELSE LET seq == runs[p.rev][p.node] IN
             /\ p.gen = Len(seq) /\ seq[p.gen].state = "completed"
             /\ p.gate = "accepted_result" => seq[p.gen].accepted
             /\ p.gate = "verified_output" => seq[p.gen].verified

\* Supersession strands no adopted gate: what was proven of a Task in the
\* revision before is proven in the current one.
GatesCarried ==
    \A p \in proofs : p.rev < plan.rev => Proven(plan.rev, p.node, p.gate)

\* The gates of a plan, over every path of admission, settlement and supersession.
GatesKept == TypeOK /\ DependenciesMet /\ ProofsStand /\ GatesCarried

\* An automatic plan whose Results are accepted and verified runs every node.
PlanCompletes == \A n \in Nodes : <>(runs[plan.rev][n] # <<>> \/ Adopted(plan.rev, n))

\* A startup comes to its end.
StartupCompletes == ~up ~> up

=============================================================================
