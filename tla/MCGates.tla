------------------------------- MODULE MCGates -------------------------------
(* The two gates of the Bridge on four callers each. They share no state, so  *)
(* a behaviour is one of the agent gate or one of the resource gate: part     *)
(* says which, and the other gate stays as nobody has called it.              *)
EXTENDS AgentExecutionGate, ResourceGate, TLC

CONSTANTS c1, c2, c3, c4, a1, a2

VARIABLE part

\* Three callers share an Agent.
MCAgentOf == (c1 :> a1) @@ (c2 :> a1) @@ (c3 :> a1) @@ (c4 :> a2)

\* c1 works in a Workspace that contains the one of c2, c4 shares the Agent of
\* c1 and the Workspace of c3.
MCClaimAgent == (c1 :> "a") @@ (c2 :> "b") @@ (c3 :> "c") @@ (c4 :> "a")
MCWorkspaceOf == (c1 :> "repo") @@ (c2 :> "repo/sub") @@ (c3 :> "docs") @@ (c4 :> "docs")
MCContains == {<<w, w>> : w \in {"repo", "repo/sub", "docs"}} \cup {<<"repo", "repo/sub">>}

BothInit == part \in {"agent", "resource"} /\ Init /\ ClaimInit

AgentNext == part = "agent" /\ Next /\ UNCHANGED <<part, claimVars>>

ResourceNext == part = "resource" /\ ClaimNext /\ UNCHANGED <<part, vars>>

\* No fair action is enabled in the gate nobody called.
BothSpec ==
  /\ BothInit /\ [][AgentNext \/ ResourceNext]_<<part, vars, claimVars>>
  /\ Fairness /\ ClaimFairness

-----------------------------------------------------------------------------
\* A caller that waits at either gate gets it or leaves, even if nobody's context ever
\* ends and whoever else comes and goes (release, schedule, remove).
WaitersServed == WaiterServed /\ ClaimServed
=============================================================================
