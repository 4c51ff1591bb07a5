---------------------------- MODULE Integration ----------------------------
(***************************************************************************)
(* Exact-target integration.  A human approves a verified candidate for one *)
(* local branch; Central admits at most one unsettled operation per target  *)
(* (repository-integration-service.ts); the owner's Bridge moves the branch *)
(* with Git's compare-and-set, keeping an intent and a receipt file of its  *)
(* own (admission/integration.go), and returns the receipt to Central,      *)
(* which turns a success into the integrated_commit materialization.        *)
(* The owner of the repository moves the same branch whenever he likes.     *)
(***************************************************************************)
EXTENDS Naturals, FiniteSets

CONSTANTS
    Nodes,       \* plan nodes with a candidate
    Ops,         \* approval operations; each has one repository operation
    Targets,     \* pairs of repository and branch
    TargetOf,    \* [Nodes -> Targets]
    Expected,    \* [Nodes -> commits]: the target commit the plan names
    Candidate,   \* [Nodes -> commits]: the sealed candidate
    FastForward, \* the nodes whose candidate strictly descends from Expected
    Foreign,     \* commits the owner may put on a target by himself
    Revocable,   \* whether grants and Devices are revoked, plans superseded
    MaxMoves,    \* bound on the owner's moves
    MaxFaults,   \* bound on crashes and lost requests
    None

Commits == {Expected[n] : n \in Nodes} \cup {Candidate[n] : n \in Nodes} \cup Foreign
Outcomes == {"succeeded", "failed", "canceled", "outcome_unknown"}

ASSUME IntegrationAssumption ==
    /\ TargetOf \in [Nodes -> Targets]
    /\ FastForward \subseteq {n \in Nodes : Candidate[n] # Expected[n]}
    /\ MaxMoves \in Nat /\ MaxFaults \in Nat /\ Revocable \in BOOLEAN
    /\ None \notin Nodes \cup Ops \cup Outcomes

VARIABLES
    plan,       \* "live" (approved or running) or "stale"
    device,     \* "active" or "revoked"
    granted,    \* nodes with a valid owner-local integrate grant
    verified,   \* nodes with a verified_output materialization
    approval,   \* Ops -> None or the node the operation integrates
    lock,       \* repository_integration_locks: Targets -> None or an operation
    receipts,   \* integration_receipts of Central: Ops -> None or an outcome
    integrated, \* integrated_commit materialization: Nodes -> None or an operation
    intent,     \* operations whose intent file exists on the Bridge
    journal,    \* receipt files of the Bridge: Ops -> None or an outcome
    pc,         \* None or the Execute that runs: [at, op, err]
    target,     \* Targets -> the commit of the branch
    checkedOut, \* targets that are checked out in a worktree
    effect,     \* history: Ops -> how often the operation moved its target
    reached,    \* history: Targets -> commits the branch has been at
    rewound,    \* history: targets the owner took back to an earlier commit
    moves, faults

central == <<plan, device, verified, approval, lock, receipts, integrated>>
files == <<intent, journal>>
branch == <<target, effect, reached, rewound>>
env == <<granted, checkedOut, moves, faults>>
vars == <<central, files, pc, branch, env>>

TypeOK ==
    /\ plan \in {"live", "stale"} /\ device \in {"active", "revoked"}
    /\ granted \subseteq Nodes /\ verified \subseteq Nodes
    /\ approval \in [Ops -> Nodes \cup {None}]
    /\ lock \in [Targets -> Ops \cup {None}]
    /\ receipts \in [Ops -> Outcomes \cup {None}]
    /\ integrated \in [Nodes -> Ops \cup {None}]
    /\ intent \subseteq Ops /\ journal \in [Ops -> Outcomes \cup {None}]
    /\ pc \in [at : {"fresh", "recover", "cas", "check", "update", "confirm",
                     "inspect", "retain"},
               op : Ops, err : {"none", "failed", "canceled"}] \cup {None}
    /\ target \in [Targets -> Commits]
    /\ checkedOut \subseteq Targets
    /\ effect \in [Ops -> Nat] /\ reached \in [Targets -> SUBSET Commits]
    /\ rewound \subseteq Targets
    /\ moves \in 0..MaxMoves /\ faults \in 0..MaxFaults

Init ==
    /\ plan = "live" /\ device = "active"
    /\ granted = Nodes /\ verified = {}
    /\ approval = [o \in Ops |-> None] /\ lock = [t \in Targets |-> None]
    /\ receipts = [o \in Ops |-> None] /\ integrated = [n \in Nodes |-> None]
    /\ intent = {} /\ journal = [o \in Ops |-> None]
    /\ pc = None
    /\ target \in [Targets -> {Expected[n] : n \in Nodes}]
    /\ checkedOut \in SUBSET Targets
    /\ effect = [o \in Ops |-> 0] /\ reached = [t \in Targets |-> {target[t]}]
    /\ rewound = {}
    /\ moves = 0 /\ faults = 0

-----------------------------------------------------------------------------
(* Central                                                                 *)

\* The verified_output materialization of a node appears; it is never removed.
Verify(n) ==
    /\ n \notin verified
    /\ verified' = verified \cup {n}
    /\ UNCHANGED <<plan, device, approval, lock, receipts, integrated, files, pc,
                   branch, env>>

\* candidateContext and the conditions of approve: the plan is approved or
\* running at its current revision, the candidate is the verified one and
\* exactly one ready integrate grant names the target.
approvable(n) == plan = "live" /\ n \in verified /\ n \in granted

\* approve, one transaction: a known operation is returned or conflicts; else
\* the approval, the operation and the lock of the target are inserted.
Approve(o, n) ==
    /\ approval[o] = None /\ approvable(n)
    /\ lock[TargetOf[n]] = None                    \* INTEGRATION_TARGET_BUSY
    /\ approval' = [approval EXCEPT ![o] = n]
    /\ lock' = [lock EXCEPT ![TargetOf[n]] = o]
    /\ UNCHANGED <<plan, device, verified, receipts, integrated, files, pc, branch, env>>

\* requireOwner and requireMaterialization of the routes of the Device.
mayAccess(o) == approval[o] # None /\ device = "active" /\ approval[o] \in verified

\* The succeeded receipts of the operations of a node.
evidence(n) == {o \in Ops : approval[o] = n /\ receipts[o] = "succeeded"}

\* IntegratedCommitMaterializer.reconcile; two succeeded operations are
\* ambiguous evidence and it throws.
Reconcile(n) ==
    /\ integrated[n] = None
    /\ \E o \in Ops : evidence(n) = {o} /\ integrated' = [integrated EXCEPT ![n] = o]
    /\ UNCHANGED <<plan, device, verified, approval, lock, receipts, files, pc,
                   branch, env>>

SupersedePlan ==
    /\ Revocable /\ plan = "live" /\ plan' = "stale"
    /\ UNCHANGED <<device, verified, approval, lock, receipts, integrated, files, pc,
                   branch, env>>

RevokeDevice ==
    /\ Revocable /\ device = "active" /\ device' = "revoked"
    /\ UNCHANGED <<plan, verified, approval, lock, receipts, integrated, files, pc,
                   branch, env>>

-----------------------------------------------------------------------------
(* The owner and his repository                                            *)

OwnerMoves(t, c) ==
    /\ moves < MaxMoves /\ moves' = moves + 1
    /\ c # target[t]
    /\ target' = [target EXCEPT ![t] = c]
    /\ reached' = [reached EXCEPT ![t] = @ \cup {c}]
    /\ rewound' = IF c \in reached[t] THEN rewound \cup {t} ELSE rewound
    /\ UNCHANGED <<central, files, pc, effect, granted, checkedOut, faults>>

OwnerChecksOut(t) ==
    /\ moves < MaxMoves /\ moves' = moves + 1
    /\ checkedOut' = IF t \in checkedOut THEN checkedOut \ {t} ELSE checkedOut \cup {t}
    /\ UNCHANGED <<central, files, pc, branch, granted, faults>>

\* The grant of a node is revoked, or its time or the operation's deadline ends.
RevokeGrant(n) ==
    /\ Revocable /\ n \in granted /\ granted' = granted \ {n}
    /\ UNCHANGED <<central, files, pc, branch, checkedOut, moves, faults>>

-----------------------------------------------------------------------------
(* GovernedIntegrationCoordinator.Execute.  The process holds the ownership *)
(* lock of the data directory, so one Execute runs at a time.               *)

step(at) == [pc EXCEPT !.at = at]
node == approval[pc.op]
current == target[TargetOf[node]]

\* The admission is fetched and compared with the journal of the Bridge.
Get(o) ==
    /\ pc = None /\ mayAccess(o)
    /\ pc' = [at |-> IF journal[o] # None THEN "retain"
                     ELSE IF o \in intent THEN "recover" ELSE "fresh",
              op |-> o, err |-> "none"]
    /\ UNCHANGED <<central, files, branch, env>>

\* retainTerminal: the receipt file is created before it is sent.  A receipt
\* that exists with other content is a conflict and ends the Execute.
SettleLocal(outcome) ==
    /\ IF journal[pc.op] = None
       THEN journal' = [journal EXCEPT ![pc.op] = outcome] /\ pc' = step("retain")
       ELSE journal' = journal /\ pc' = None
    /\ UNCHANGED <<central, intent, branch, env>>

\* The source is unavailable, or CheckIntegrationGrant refuses.
Refuse == pc # None /\ pc.at = "fresh" /\ SettleLocal("failed")

PutIntent ==
    /\ pc # None /\ pc.at = "fresh" /\ node \in granted
    /\ intent' = intent \cup {pc.op}
    /\ pc' = step("cas")
    /\ UNCHANGED <<central, journal, branch, env>>

\* Mutant: a target that left the expected commit counts as the candidate.
TrustingRecovery ==
    /\ pc # None /\ pc.at = "recover"
    /\ \/ current # Expected[node] /\ SettleLocal("succeeded")
       \/ current = Expected[node] /\ pc' = step("cas")
          /\ UNCHANGED <<central, files, branch, env>>

\* recoverOrExecute: an intent without a receipt.  Only the exact target is
\* inspected, which may fail.
recoverOrExecute ==
    /\ pc # None /\ pc.at = "recover"
    /\ \/ SettleLocal("outcome_unknown") /\ current \notin {Candidate[node], Expected[node]}
       \/ SettleLocal("outcome_unknown") /\ faults < MaxFaults  \* source or target unreadable
       \/ current = Candidate[node] /\ SettleLocal("succeeded")
       \/ current = Expected[node] /\ pc' = step("cas")
          /\ UNCHANGED <<central, files, branch, env>>

\* executeCAS checks the grant again, immediately before the effect.
executeCAS ==
    /\ pc # None /\ pc.at = "cas"
    /\ IF node \in granted
       THEN pc' = step("check") /\ UNCHANGED <<central, files, branch, env>>
       ELSE SettleLocal("failed")

\* IntegrateExactTarget up to update-ref: the target, the worktrees, the sealed
\* bundle, ancestry and cancellation.
IntegrateExactTarget ==
    /\ pc # None /\ pc.at = "check"
    /\ \/ /\ \/ current # Expected[node]
             \/ TargetOf[node] \in checkedOut
             \/ node \notin FastForward
          /\ SettleLocal("failed")
       \/ faults < MaxFaults /\ \E outcome \in {"failed", "canceled"} : SettleLocal(outcome)
       \/ /\ current = Expected[node] /\ TargetOf[node] \notin checkedOut
          /\ node \in FastForward
          /\ pc' = step("update") /\ UNCHANGED <<central, files, branch, env>>

moveTo(o, n) ==
    /\ target' = [target EXCEPT ![TargetOf[n]] = Candidate[n]]
    /\ reached' = [reached EXCEPT ![TargetOf[n]] = @ \cup {Candidate[n]}]
    /\ effect' = [effect EXCEPT ![o] = @ + 1] /\ UNCHANGED rewound

\* Mutant: the update does not name the old commit.
ForcedUpdate ==
    /\ pc # None /\ pc.at = "update"
    /\ moveTo(pc.op, node) /\ pc' = step("confirm")
    /\ UNCHANGED <<central, files, env>>

\* git update-ref target candidate expected.  The command may report an error
\* although the write was made, when a cancellation ends the process.
updateRef ==
    /\ pc # None /\ pc.at = "update"
    /\ \/ /\ current = Expected[node] /\ moveTo(pc.op, node)
          /\ \/ pc' = step("confirm")
             \/ faults < MaxFaults /\ pc' = [pc EXCEPT !.at = "inspect", !.err = "canceled"]
       \/ /\ \/ current # Expected[node] /\ pc' = [pc EXCEPT !.at = "inspect", !.err = "failed"]
             \/ /\ faults < MaxFaults
                /\ \E e \in {"failed", "canceled"} :
                       pc' = [pc EXCEPT !.at = "inspect", !.err = e]
          /\ UNCHANGED branch
    /\ UNCHANGED <<central, files, env>>

\* confirmIntegrationTarget, after an update that succeeded.
confirmIntegrationTarget ==
    /\ pc # None /\ pc.at = "confirm"
    /\ \/ current = Candidate[node] /\ SettleLocal("succeeded")
       \/ (current # Candidate[node] \/ faults < MaxFaults) /\ SettleLocal("outcome_unknown")

\* After an update that reported an error: the target alone decides, and
\* integrationFailure names the outcome.
inspectTarget ==
    /\ pc # None /\ pc.at = "inspect"
    /\ \/ current = Candidate[node] /\ SettleLocal("succeeded")
       \/ current = Expected[node] /\ SettleLocal(pc.err)
       \/ current \notin {Candidate[node], Expected[node]} /\ SettleLocal("failed")
       \/ faults < MaxFaults /\ SettleLocal("outcome_unknown")

\* RepositoryIntegrationService.retain, one transaction: the receipt is kept
\* once, and the lock of its operation goes.
Retain ==
    /\ pc # None /\ pc.at = "retain" /\ mayAccess(pc.op)
    /\ receipts[pc.op] \in {None, journal[pc.op]}  \* else INTEGRATION_RECEIPT_CONFLICT
    /\ receipts' = [receipts EXCEPT ![pc.op] = journal[pc.op]]
    /\ lock' = [t \in Targets |-> IF lock[t] = pc.op THEN None ELSE lock[t]]
    /\ pc' = None
    /\ UNCHANGED <<plan, device, verified, approval, integrated, files, branch, env>>

\* The request is refused: the Device was revoked since.
RetainRefused ==
    /\ pc # None /\ pc.at = "retain" /\ ~mayAccess(pc.op)
    /\ pc' = None /\ UNCHANGED <<central, files, branch, env>>

\* The process dies, or a request to Central does not arrive.
Crash ==
    /\ pc # None /\ faults < MaxFaults
    /\ faults' = faults + 1 /\ pc' = None
    /\ UNCHANGED <<central, files, branch, granted, checkedOut, moves>>

-----------------------------------------------------------------------------
Execute ==
    \/ Refuse \/ PutIntent \/ recoverOrExecute \/ executeCAS \/ IntegrateExactTarget
    \/ updateRef \/ confirmIntegrationTarget \/ inspectTarget
    \/ Retain \/ RetainRefused

Next ==
    \/ \E n \in Nodes : Verify(n) \/ Reconcile(n) \/ RevokeGrant(n)
    \/ \E o \in Ops, n \in Nodes : Approve(o, n)
    \/ \E o \in Ops : Get(o)
    \/ Execute \/ Crash \/ SupersedePlan \/ RevokeDevice
    \/ \E t \in Targets : OwnerChecksOut(t) \/ \E c \in Commits : OwnerMoves(t, c)

Spec == Init /\ [][Next]_vars

-----------------------------------------------------------------------------
unsettled(t) == {o \in Ops : approval[o] # None /\ receipts[o] = None
                             /\ TargetOf[approval[o]] = t}

\* The lock of a target is held by its one unsettled operation, and by nothing
\* when there is none (approve, retain).
LockIsUnsettled == \A t \in Targets :
    unsettled(t) = IF lock[t] = None THEN {} ELSE {lock[t]}

\* A step of the Bridge moves a branch only from the commit the human approved
\* to the verified candidate, for the operation that holds the target at
\* Central, and never once the operation has a receipt (IntegrateExactTarget).
TargetMovesExactly ==
    \A o \in Ops : effect'[o] # effect[o] =>
        LET n == approval[o] t == TargetOf[n] IN
        /\ n \in verified /\ lock[t] = o /\ journal[o] = None
        /\ target[t] = Expected[n] /\ target'[t] = Candidate[n]

\* A receipt of success is true: the branch has been at the candidate
\* (recoverOrExecute, confirmIntegrationTarget, inspectTarget).
SucceededIsTrue == \A o \in Ops :
    journal[o] = "succeeded" => Candidate[approval[o]] \in reached[TargetOf[approval[o]]]

\* Central never keeps another outcome than the receipt file of the Bridge, and
\* an integrated node rests on a success that the branch has seen (retain,
\* IntegratedCommitMaterializer).
IntegratedIsReal ==
    /\ \A o \in Ops : receipts[o] # None => receipts[o] = journal[o]
    /\ \A n \in Nodes : integrated[n] # None =>
          Candidate[n] \in reached[TargetOf[n]] /\ journal[integrated[n]] = "succeeded"

\* "Cancellation racing a completed CAS cannot rewrite success": an operation
\* that is recorded as canceled has not moved the branch, unless the owner took
\* the branch back and the Bridge could no longer see that it had (inspectTarget,
\* recoverOrExecute).
CanceledIsTrue == \A o \in Ops : journal[o] = "canceled" =>
    effect[o] = 0 \/ TargetOf[approval[o]] \in rewound

\* What Central and the Bridge record of an integration is true of the branch,
\* and a target is locked exactly as long as its operation is unsettled.
IntegrationTrue ==
    /\ TypeOK /\ LockIsUnsettled /\ SucceededIsTrue /\ IntegratedIsReal
    /\ CanceledIsTrue

\* No step moves a branch for an operation otherwise than exactly (updateRef).
BranchMovesExactly == [][TargetMovesExactly]_vars

=============================================================================
