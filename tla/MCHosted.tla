------------------------------ MODULE MCHosted ------------------------------
(* Hosted Runs on small instances: two Runs of one Agent with a slot for each, *)
(* one crash or shutdown and one callback that rejects ("busy", whose          *)
(* constants the cfg gives); and, over a second set of variables, two Runs of  *)
(* two Agents that compete for one slot ("full").  part says which of them a   *)
(* behaviour is about; the other one rests.                                    *)
EXTENDS HostedRun, TLC

CONSTANTS r1, r2

VARIABLES part, frun, finv, fasked, fpresence, fdue, fup, factive, fpc, fcalling, fdrains,
          fnote, faborted, fcalls, fcrashes, ffailures

fullVars == <<frun, finv, fasked, fpresence, fdue, fup, factive, fpc, fcalling, fdrains,
              fnote, faborted, fcalls, fcrashes, ffailures>>

\* Both Runs are of one Agent; each has its own.
OneAgent == (r1 :> "a") @@ (r2 :> "a")
TwoAgents == (r1 :> "a") @@ (r2 :> "b")

Full == INSTANCE HostedRun WITH
    Runs <- {r1, r2}, AgentOf <- TwoAgents, maximumConcurrency <- 1,
    MaxCrashes <- 0, MaxFailures <- 0,
    run <- frun, inv <- finv, asked <- fasked, presence <- fpresence, due <- fdue, up <- fup,
    active <- factive, pc <- fpc, calling <- fcalling, drains <- fdrains, note <- fnote,
    aborted <- faborted, calls <- fcalls, crashes <- fcrashes, failures <- ffailures

ASSUME Full!HostedAssumption

PartInit == part \in {"busy", "full"} /\ Init /\ Full!Init

\* A step of the one part or of the other.
Either(busy, full) ==
    \/ busy /\ part = "busy" /\ UNCHANGED <<part, fullVars>>
    \/ full /\ part = "full" /\ UNCHANGED <<part, vars>>

PartNext == Either(Next, Full!Next)

all == <<part, vars, fullVars>>

\* Fairness and Full!Fairness, action by action: no action of the part that rests is
\* ever enabled, so that the fairness of both together is the fairness of each.
PartFairness ==
    /\ WF_all(Either(Drain, Full!Drain))
    /\ \A r \in Runs :
         /\ WF_all(Either(WorkerGoesOn(r), Full!WorkerGoesOn(r)))
         /\ WF_all(Either(Enqueue(r), Full!Enqueue(r)))
         /\ WF_all(Either(Notified(r), Full!Notified(r)))
    /\ WF_all(Either(ProcessGoesOn, Full!ProcessGoesOn))

PartSpec == PartInit /\ [][PartNext]_all /\ PartFairness

-----------------------------------------------------------------------------
\* Every created Run ends: no wake-up of drain is lost to a busy Agent, a failing
\* callback, a crash or a shutdown, nor to a scheduler whose only slot is taken, which
\* is never given to a second Run.
RunsEnd ==
    /\ \A r \in Runs : run[r] = "queued" \/ frun[r] = "queued" ~> Terminal(r) \/ Full!Terminal(r)
    /\ []Full!CallsBounded
=============================================================================
