----------------------------- MODULE ResourceGate -----------------------------
(***************************************************************************)
(* delivery.ResourceGate and MappedExecutionGate of the Bridge: callers    *)
(* that use the same Agent, or Workspaces one of which contains the other, *)
(* exclude each other; earlier conflicting waiters keep priority without   *)
(* blocking independent ones.                                              *)
(*                                                                         *)
(* A claim is a goroutine's call of Acquire with its LocalResource.  The   *)
(* slice g.waiting is in order of arrival and only searched, so it is kept *)
(* as its order: of each waiting claim, the claims before it.              *)
(***************************************************************************)
EXTENDS Naturals

CONSTANTS
  Claims,       \* goroutines
  ClaimAgent,   \* LocalResource.AgentID of each claim
  WorkspaceOf,  \* LocalResource.Workspace of each claim
  Contains      \* the pairs <<parent, child>> of pathContains, physical aliases included

VARIABLES
  granted,  \* g.active
  waiting,  \* g.waiting: each waiting claim with the ones before it
  ended,    \* claims whose context has ended
  stage     \* where the claim is

claimVars == <<granted, waiting, ended, stage>>

\* The claims in g.waiting.
Pending == DOMAIN waiting

\* "select": waiting for ready or Done; "recheck": MappedExecutionGate looks at the
\* Workspace again; "holding": Acquire returned the release function; "remove":
\* about to release unused.
ClaimTypeOK ==
  /\ granted \subseteq Claims
  /\ Pending \subseteq Claims
  /\ waiting \in [Pending -> SUBSET Pending]
  /\ ended \subseteq Claims
  /\ stage \in [Claims -> {"idle", "select", "recheck", "holding", "remove"}]

ClaimInit ==
  /\ granted = {}
  /\ waiting = [c \in {} |-> {}]
  /\ ended = {}
  /\ stage = [c \in Claims |-> "idle"]

\* Seeded defect: containment is looked at in one direction only.
conflictOneWay(c, d) ==
  ClaimAgent[c] = ClaimAgent[d] \/ <<WorkspaceOf[c], WorkspaceOf[d]>> \in Contains

resourcesConflict(c, d) ==
  \/ ClaimAgent[c] = ClaimAgent[d]
  \/ <<WorkspaceOf[c], WorkspaceOf[d]>> \in Contains
  \/ <<WorkspaceOf[d], WorkspaceOf[c]>> \in Contains

\* Seeded defect: earlier waiters have no priority.
StartableAnyOrder(act, q) ==
  {c \in DOMAIN q : \A d \in act : ~resourcesConflict(c, d)}

\* schedule starts a waiter that conflicts with no active claim and with no earlier
\* waiter: when its turn comes, an earlier waiter is either pending or just started.
Startable(act, q) ==
  {c \in DOMAIN q : /\ \A d \in act : ~resourcesConflict(c, d)
                    /\ \A d \in q[c] : ~resourcesConflict(c, d)}

\* append(items[:i], items[i+1:]...), for every claim of the set S.
removeWaiters(q, S) == [c \in DOMAIN q \ S |-> q[c] \ S]

schedule(act, q) ==
  /\ granted' = act \cup Startable(act, q)
  /\ waiting' = removeWaiters(q, Startable(act, q))

\* append(g.waiting, w)
Enqueued(c) == [d \in Pending \cup {c} |-> IF d = c THEN Pending ELSE waiting[d]]

EndClaim(c) ==
  /\ stage[c] # "idle"
  /\ c \notin ended
  /\ ended' = ended \cup {c}
  /\ UNCHANGED <<granted, waiting, stage>>

\* Acquire with a live context and a Workspace that is still the registered one,
\* up to the select.
Claim(c) ==
  /\ stage[c] = "idle"
  /\ schedule(granted, Enqueued(c))
  /\ stage' = [stage EXCEPT ![c] = "select"]
  /\ UNCHANGED ended

\* case <-w.ready
ClaimReady(c) ==
  /\ stage[c] = "select"
  /\ c \in granted
  /\ stage' = [stage EXCEPT ![c] = IF c \in ended THEN "remove" ELSE "recheck"]
  /\ UNCHANGED <<granted, waiting, ended>>

\* case <-ctx.Done(), which select may choose although the waiter is active
ClaimDone(c) ==
  /\ stage[c] = "select"
  /\ c \in ended
  /\ stage' = [stage EXCEPT ![c] = "remove"]
  /\ UNCHANGED <<granted, waiting, ended>>

\* MappedExecutionGate: the Workspace's identity may have changed while waiting.
Recheck(c) ==
  /\ stage[c] = "recheck"
  /\ \E next \in {"holding", "remove"} : stage' = [stage EXCEPT ![c] = next]
  /\ UNCHANGED <<granted, waiting, ended>>

\* Seeded defect: nobody is scheduled after a removal.
removeOnly(c) ==
  /\ stage[c] \in {"holding", "remove"}
  /\ granted' = granted \ {c}
  /\ waiting' = removeWaiters(waiting, {c})
  /\ stage' = [stage EXCEPT ![c] = "idle"]
  /\ ended' = ended \ {c}

\* remove, by a holder or by a caller that gives up; the flag of the waiter says
\* whether it is active by now.
remove(c) ==
  /\ stage[c] \in {"holding", "remove"}
  /\ IF c \in granted
     THEN schedule(granted \ {c}, waiting)
     ELSE schedule(granted, removeWaiters(waiting, {c}))
  /\ stage' = [stage EXCEPT ![c] = "idle"]
  /\ ended' = ended \ {c}

ClaimStep(c) == ClaimReady(c) \/ ClaimDone(c) \/ Recheck(c) \/ remove(c)

ClaimNext == \E c \in Claims : Claim(c) \/ EndClaim(c) \/ ClaimStep(c)

ClaimSpec == ClaimInit /\ [][ClaimNext]_claimVars

-----------------------------------------------------------------------------
(* Properties *)

\* Two claims that hold the gate together use different Agents and Workspaces
\* neither of which contains the other (resourcesConflict), whatever leaves the
\* queue meanwhile.
HoldersDisjoint ==
  \A c, d \in Claims :
    stage[c] = "holding" /\ stage[d] = "holding" /\ c # d => ~resourcesConflict(c, d)

\* Nobody waits for nothing: a waiter conflicts with an active claim or with an
\* earlier waiter, so independent Agents and Workspaces are not blocked, and every
\* active or waiting claim is one whose call will release it.
WaitersBlocked ==
  /\ \A c \in Pending : \E d \in granted \cup waiting[c] : resourcesConflict(c, d)
  /\ \A c \in granted \cup Pending : stage[c] # "idle"

\* The gate keeps conflicting callers apart, and only them (schedule, remove).
ResourceGateKept == HoldersDisjoint /\ WaitersBlocked

\* "Earlier conflicting waiters keep priority" (resource_gate.go): whoever becomes
\* active, a claim that just came included, leaves no earlier conflicting waiter behind.
NoOvertaking ==
  [][\A c \in granted' \ granted : \A d \in Pending :
       /\ resourcesConflict(c, d)
       /\ c \in Pending => d \in waiting[c]
       => d \notin Pending']_claimVars

\* Goroutines go on, and a Runtime invocation ends: the deferred release runs.
ClaimFairness == \A c \in Claims : WF_claimVars(ClaimStep(c))

\* A claim that waits becomes active or leaves, although later claims that do not
\* conflict with it pass.
ClaimServed == \A c \in Claims : stage[c] = "select" ~> stage[c] # "select"
=============================================================================
