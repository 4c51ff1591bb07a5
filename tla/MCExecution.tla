----------------------------- MODULE MCExecution -----------------------------
(* Execution plans on small instances: a fork with edits, failures and a       *)
(* second revision ("fork"), whose constants the cfg gives; and, over a second *)
(* set of variables, a join whose mode members change and whose Tasks they     *)
(* address by message ("modes"), the same join left to the scheduler           *)
(* ("automatic"), and a pair whose first node may propose two Results          *)
(* ("pair"). part says which of them a behaviour is about; the rest rests.     *)
EXTENDS ExecutionPlan, TLC

CONSTANTS n1, n2, n3, x, y

VARIABLES part, jplan, jmode, jruns, jproofs, jnode, jcand, jsweep, jup

joinVars == <<jplan, jmode, jruns, jproofs, jnode, jcand, jsweep, jup>>

ThreeNodes == <<n1, n2, n3>>
ForkEdges == {[from |-> n1, to |-> n2, gate |-> "verified_output"],
              [from |-> n1, to |-> n3, gate |-> "accepted_result"]}
JoinEdges == {[from |-> n1, to |-> n3, gate |-> "verified_output"],
              [from |-> n2, to |-> n3, gate |-> "accepted_result"]}
PairEdges == {[from |-> n1, to |-> n2, gate |-> "verified_output"]}
ThreeAgents == (n1 :> x) @@ (n2 :> x) @@ (n3 :> y)

Moded == INSTANCE ExecutionPlan WITH
    Nodes <- {n1, n2, n3}, Order <- ThreeNodes, Edges <- JoinEdges, AgentOf <- ThreeAgents,
    MaxConcurrency <- 2, MaxAttempts <- 3, MaxRev <- 1, MaxResults <- 1,
    Controls <- {"manual", "supervised", "automatic"}, Messages <- TRUE,
    Drift <- FALSE, Failures <- FALSE,
    plan <- jplan, mode <- jmode, runs <- jruns, proofs <- jproofs, node <- jnode,
    cand <- jcand, sweep <- jsweep, up <- jup

Automatic == INSTANCE ExecutionPlan WITH
    Nodes <- {n1, n2, n3}, Order <- ThreeNodes, Edges <- JoinEdges, AgentOf <- ThreeAgents,
    MaxConcurrency <- 2, MaxAttempts <- 3, MaxRev <- 1, MaxResults <- 1,
    Controls <- {}, Messages <- FALSE, Drift <- FALSE, Failures <- FALSE,
    plan <- jplan, mode <- jmode, runs <- jruns, proofs <- jproofs, node <- jnode,
    cand <- jcand, sweep <- jsweep, up <- jup

Pair == INSTANCE ExecutionPlan WITH
    Nodes <- {n1, n2}, Order <- <<n1, n2>>, Edges <- PairEdges, AgentOf <- (n1 :> x) @@ (n2 :> y),
    MaxConcurrency <- 2, MaxAttempts <- 3, MaxRev <- 1, MaxResults <- 2,
    Controls <- {}, Messages <- FALSE, Drift <- FALSE, Failures <- TRUE,
    plan <- jplan, mode <- jmode, runs <- jruns, proofs <- jproofs, node <- jnode,
    cand <- jcand, sweep <- jsweep, up <- jup

ASSUME Moded!ValidPlan /\ Automatic!ValidPlan /\ Pair!ValidPlan

PartInit == part \in {"fork", "modes", "automatic"} /\ Init /\ Moded!Init

PartNext ==
    /\ \/ part = "fork" /\ Next /\ UNCHANGED joinVars
       \/ part = "modes" /\ Moded!Next /\ UNCHANGED vars
       \/ part = "automatic" /\ Automatic!Next /\ UNCHANGED vars
    /\ UNCHANGED part

\* The fairness is that of the plan left to the scheduler, which the liveness property
\* is about.
PartSpec == PartInit /\ [][PartNext]_<<part, vars, joinVars>> /\ Automatic!Fairness

\* The pair, for the startup of Central: the process is started again, the timer sweeps
\* and work goes on.
PairSpec ==
    /\ part = "pair" /\ Init /\ Pair!Init
    /\ [][Pair!Next /\ UNCHANGED <<part, vars>>]_<<part, vars, joinVars>>
    /\ WF_joinVars(Pair!Startup) /\ WF_joinVars(Pair!SweepStep) /\ SF_joinVars(Pair!Sweep)
    /\ SF_joinVars(Pair!Work)

-----------------------------------------------------------------------------
\* An automatic plan whose Results are accepted and verified runs every node; and where
\* members change the mode and address Tasks by message while the scheduler sweeps, no
\* attempt that the scheduler or a step of the plan made was allowed past a closed gate.
PlanRuns ==
    /\ part = "automatic" => Automatic!PlanCompletes
    /\ [](part = "modes" => Moded!GatesKept)

\* A startup comes to its end.
StartupEnds == Pair!StartupCompletes
=============================================================================
