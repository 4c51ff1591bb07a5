# TLA+ models of ConveneWire

ConveneWire lets people and agents work in shared Rooms. *Central* (`apps/server`,
TypeScript over SQLite) keeps Rooms, Tasks, Runs, Discussions and execution plans. A
*Bridge* (`bridge`, Go) runs on a member's device, keeps a WebSocket to Central and
executes the Runs of its Agents with local Runtimes. Two Centrals can be *peers*. This
directory models the parts in which the most can go wrong without a test noticing, checks
them with TLC on small instances, and proves the most important results with TLAPS for
every instance.

- [Inventory](#inventory)
- [Modules and code](#modules-and-code)
- [What the runs check](#what-the-runs-check)
- [Bounds](#bounds), [Fairness](#fairness), [Seeded defects](#seeded-defects)
- [What is proved](#what-is-proved), [What is only model-checked](#what-is-only-model-checked)
- [Findings and observations](#findings-and-observations)
- [What is not modelled](#what-is-not-modelled), [Plan](#plan)

## Inventory

| Component | State | Operations | Hard because | Correct if |
|---|---|---|---|---|
| Run rows (`run/run-repository.ts`) | state, event log, Delivery, cancellation intent | applyEvent, requestCancellation, expiry | Central's verdicts and the Bridge's events share one sequence | one history, one verdict |
| Delivery, cancellation (`run/delivery-service.ts`, `cancellation-service.ts`) | rows above, timers | dispatch, accept, cancel, sweep, resend | at-least-once commands, deadlines | one start, a canceled Run does not execute, cancellations end |
| Bridge messages, registry (`http/bridge-socket-routes.ts`, `bridge/bridge-connection-registry.ts`) | sockets, epochs | hello, heartbeat, run.*, supersede, revoke | stale sockets, rejected messages | events applied once, in order |
| Bridge client, inbox, handler, executor (`bridge/internal/connection`, `delivery`) | record and tombstone files, workers | dial, recover, Accept, Handle, cancel | reader, worker, shutdown and crashes race | nothing admitted is forgotten, the first outcome stands |
| Execution gates (`agent_execution_gate.go`, `resource_gate.go`) | holders, waiters | Acquire, release | waiters leave while selected | exclusion, order, no lost gate |
| Tasks, retries, replies (`task/`, `run/`, `app.ts`) | Task, Results, intents | control, complete, retry, hand-off, route | workers, crashes, older clients | a closed Task has no work left; every mention is routed once |
| Discussions (`discussion/`) | Waves, Turns, quorum, budget | start, settle, control, expire, recover | many Runs, lost callbacks, restart | a Wave closes once, on its quorum |
| Hosted Runs (`run/hosted-*.ts`) | intents, active Map | enqueue, drain, dispatch, settle, recover | five parties settle a Run in two transactions each | one provider call, Run and intent agree |
| Execution plans (`execution/`) | nodes, attempts, gate proofs, revisions | sweep, dispatch, message, retry, settle, supersede | four admission paths, revisions, crashes | a Run starts behind proven gates, one attempt per Task |
| Peers (`peer/`, `bridge/internal/peer`) | membership, journal, grants | join, leave, deliver, settle, export, accept | two nodes, replays, lost answers | one membership, one process, bilateral exports |
| Repository evidence (`integration`, `admission`) | intents, receipts, branches | capture, verify, integrate | crash between an effect and its receipt | receipts are true |
| Artifacts (`artifact/`) | rows, files, quota | prepare, chunk, seal, bind | files outside transactions | a sealed content is whole |
| Pairing (`security/`) | sessions, Devices | claim, poll, decide, install | lost and late answers | one Device of the Bridge the Owner saw |
| Memory (`memory/`) | checkpoints, leases, entries | reduce, commit, rebase, promote | leases run out while awaiting | lossless, reduced once |
| Remote evidence (`remote/`) | operations, observations | observe, attest, adopt, request | what was checked is gone when it is used | an adoption rests on passing records |

Central calls a Bridge only with commands on the WebSocket (`run.requested`,
`run.cancel_requested`); the Bridge answers with numbered events. Neither side trusts the
other's memory: Central resends commands until its rows say they were answered, the
Bridge replays its record on every connection. Inside the Bridge the reader of the socket
and one worker per Run share the inbox, the tombstones and the gates. Inside Central,
Discussions, plans and Tasks create Runs and are told when a Run ends.

`hazards` in `PROJECT.json` lists what this makes hard to test, with the line where it
bites and the properties that watch it.

## Modules and code

    RunStates          vocabulary of one Run: states, events, messages
      BridgeSocket     connections, epochs, registry, bytes in flight
        CentralRun     Central's rows and handlers
        BridgeRun      the Bridge's inbox, reader, worker, recovery
          RunDelivery  both sides over the socket; properties
    RunLifecycle       what a Run promises to the Room (abstract)
    AgentExecutionGate, ResourceGate
    TaskWork, ReplyRouting (with RunLineage)
    DiscussionWave
    HostedRun, ExecutionPlan
    PeerJoin, PeerRun, PeerExport
    Verification, Integration, ArtifactPublication
    DevicePairing, RollingMemory, MemoryEntries
    RemoteProvider     RemoteEvidence and RemoteEgress, side by side
    EvidenceParts      Integration, Verification and ArtifactPublication, side by side
    CentralParts       DevicePairing, RemoteProvider and RollingMemory, side by side
    PeerParts          PeerRun, PeerJoin and PeerExport, side by side
    MC*, *.cfg         instances for TLC
    *Proofs            theorems

The exact lines are in `map` of `PROJECT.json`. Operators keep the names of the code.
Central is one JavaScript thread over SQLite, so what happens between two awaits is one
action, or one action per transaction where a crash may come between them.

**CentralRun.** `hub` holds the Run's row, its log of applied events (the sequence number
is the position), its Delivery row and its cancellation intent. `applyEvent`,
`requestCancellation`, `dispatch`, `accept`, `sweep` compute new rows and the commands
written, the actions apply them. Deadlines are read as "may have passed". `Discussion`
says whether the Run is a Turn of a Discussion, which adds the Wave's deadline, the
cancellation of the Discussion and its recovery. `run.reply`, `run.activity` and
`run.output_delta` are one kind of event, `reply`.

**BridgeRun.** The record file is `rec` (state and events, numbered from 2: sequence 1 is
`run.accepted`), the tombstone file `tomb`. The worker (`wk`) moves through the positions
of `Handler.Handle`, `runNew` and `RuntimeExecutor.executeAdapter`; a step ends wherever
the reader or a crash could intervene: between every check of the tombstone and what it
guards, between persisting an event and sending it. The reader executes
`ReplayCanceledRun` itself (`owner = "reader"`) and stages a tombstone for a live worker in
two steps. Whether a report can still be written depends on its context: the
connection's, the worker's own, or a detached one. `started` counts Runtime invocations
and exists only for the properties.

**BridgeSocket.** Every dial gets a durable epoch and its own FIFO socket. Sockets are
superseded, closed by Central while frames still arrive (`draining`), and lose what was
in flight. `conn` distinguishes an error that was reported (`failing`: the reader still
reads, contexts are alive) from the canceled context (`closing`).

**AgentExecutionGate, ResourceGate.** What happens under the mutex is one step; a `select`
may take `ctx.Done()` although the waiter is already ready. `ResourceGate` includes
`MappedExecutionGate`'s second look at the Workspace; the comparison of paths is the
constant relation `Contains`. The slice `g.waiting` is only searched in order, so it is kept
as its order: of each waiting claim, the claims before it.

**HostedRun.** Runs, invocation intents, the Map of active workers (a sequence in
insertion order) and the position of each worker between its awaits. `settleFromRun` and
`recovered` are the tables of `HostedInvocationRepository`. Cancel, the deadline, a
credential revocation, shutdown and the executor each write the Run and its intent in two
transactions; `CrashAt...` actions end the process between them.

**ExecutionPlan.** One approved plan: attempts per revision and node, retained gate
proofs, the projection of the nodes, the superseding candidate and the scheduler sweep.
`Readiness` is `evaluateExecutionReadiness` of the frozen snapshot, `Materialized` the two
materializers, `Reconcile` the settlement. A sweep is a chain of transactions; only a
crash comes between them.

**TaskWork, ReplyRouting.** Lifecycle, completion, Results, retries, acknowledgements and
hand-offs of one Task; the routing intent of a reply, its workers and their recovery.
`RunLineage` holds the recursive depth and chain of a Run.

**DiscussionWave.** First the pure policy (budget ledger, decision, choice of members), then
the orchestrator: plan, Runs, bindings, barrier, seal, controls, recovery. The recovery
closes the Wave of a canceled Discussion member by member (`EndCanceled`, `SettleCanceled`,
`CloseCanceledWave`), as the code does, since Central can stop between any two writes.
Policy and Waves are one module because TLC keeps the value of a constant definition from
an extended module when that module is instantiated a second time with other constants,
and `MCDiscussions` does that.

**PeerJoin, PeerRun, PeerExport.** Both sides of a membership with its four files, of a
delivered Run with its immutable journal, and of an exported Agent with both append-only
histories. Lineages of grants and acceptances are numbered as they begin, so the current
grant is the last entry with the highest number. A call of the Owner first persists its write
and then comes to `LocalChange`; in between (`owed`) the worker and its children go on under
what was written. The calls about grants and trust hold the console's mutex throughout, the
departure does not. `installAcceptanceSnapshot` compares the histories and installs the
acceptances in one step; the code does it in two, of which the second is a compare-and-set
on the revision that was compared. `PeerParts` puts the three side by side.

**Verification, Integration, ArtifactPublication.** Journals, receipts and Git's
compare-and-set on the Bridge against Central's rows; files and rows of uploads. The quota of
a Team is that of its publications: contents imported with remote evidence
(`retainContent`) are added to the rows without a look at it and are not in the module.

**DevicePairing, RollingMemory, MemoryEntries.** See the heads of the modules. A sweep of the
reducer lists the pending Rooms up to four times its own limit (`PendingLimit`) before it
leaves out the degraded ones that wait; with the one or two Rooms of the run that limit
never binds, in the theorems it may.

**RemoteProvider** puts two modules side by side that share no variable. `RemoteEvidence`
has the durable operations of observations, what is retained of them, the provider's own
records and the calls that wait on it; an answer, error or timeout of a call may be any, so
it covers whatever its requests come to. A node is dispatched by the scheduler, which looks
at adopted outputs (`Dispatch`), or by a member's message, which does not
(`DispatchByMessage`). `RemoteEgress` is one request: resolved, pinned, connected, compared,
written, answered or refused. An answer, a redirect too, leaves the socket open until the
response closes (`Responds`, `ResponseClosed`); a request that fails or is aborted destroys
it.

The components share little state, so the MC modules put several instances side by side
and a variable `part` says which of them a behaviour is about; the others rest. A property
names the part whose promise it is.

## What the runs check

`tlc -workers 2 -config X.cfg M` in this directory.

| Run | Module | Shows |
|---|---|---|
| `delivery` | RunDelivery | one Run over two connections: the Runtime starts at most once; a canceled Run does not execute; Central's log is the Bridge's as far as it got, but for one verdict of its own; no sequence gap on a connection the Bridge keeps; no tombstone outlives its cancellation; the first outcome and Central's verdict are final; the whole implements `RunLifecycle` |
| `progress` | RunDelivery | every admitted Run settles or asks for input, every cancellation is resolved, without the help of a deadline |
| `gates` | MCGates | both gates: exclusion, order, no lost gate, no starvation, no deadlock |
| `tasks` | MCTasks | a Task that is over has no work left and stays over; retries are authorized (`TaskKept`, `ClosedTaskStays`); the same under PATCH and with hand-offs, and mentions are routed exactly once (`HandoffsSound`), after a restart too |
| `discussions` | MCDiscussions | barriers, quorums, budget and privacy of a Discussion with a private participant (`DiscussionKept`) and under three other policies (`PoliciesKept`); what is settled stays (`SettledStays`) |
| `hosted` | MCHosted | one provider call per Run, Run and intent agree, every Run ends, also where two Agents compete for the only slot (`RunsEnd`) |
| `execution` | MCExecution | gates and attempts of a fork with edits, failures and two revisions; a join under every mode and by message keeps its gates, and the join left to the scheduler runs every node (`PlanRuns`) |
| `peers` | MCPeers | one membership with receipts in order, one process per Run, bilateral exports, and what a step may never undo |
| `evidence` | MCEvidence | what is recorded of an integration is true of the branch (`IntegrationTrue`) and branches move exactly (`BranchMovesExactly`); receipts are true of the process and uploads are whole (`EvidenceWhole`), and no step takes either back |
| `central` | MCCentral | one Device per pairing, of the Bridge the Owner saw (`PairingSound`); evidence of a remote provider is retained once and proven, and requests go where the policy lets them (`RemoteSound`); memory is lossless (`MemoryLossless`); no pairing is lost or installed after a cancel, no lease that runs is lost and nothing is retained under a revoked binding (`CentralStepsKept`) |
| `discussion_cancel`, `exec_startup` | RunDelivery, MCExecution | the findings below: TLC must find a violation |

The refinement `ImplementsLifecycle` maps the abstract execution to `started` and the
worker's position and the verdict to Central's terminal state. It says more than the
invariants: `completed` is only said of an execution that took place and is over, and
after `canceled` nothing starts any more.

`CHECK_DEADLOCK FALSE` where the system may stop: a settled Run with its bounded
connections used up, a Task that is over, a plan whose nodes are done, a counter of faults
that is used up. `gates` checks for deadlock.

## Bounds

- `MaxEpoch = 2` connections: a loss, a crash or a restart on either side, followed by a
  recovery, with the old socket's bytes arriving late. The last connection does not break
  by itself, which makes progress a question about the code and not about the network.
- `MaxDown = 2` commands in flight: a request or a resend behind a cancellation.
  `MaxReplies` content events: one between working and the outcome is enough to lose,
  repeat or reorder it. `MaxUp`: the Bridge reads a command only while at most that many
  reports are in flight; recoveries and reports are not limited by it.
- One Run. Others share its connection, which may fail at any time, and its gate, where
  it may wait for any time.
- Gates: four callers, three of one Agent; two nested Workspaces, a shared one and a
  shared Agent. A caller calls again and again.
- Hosted Runs: two of one Agent with a slot for each, one crash and one rejecting callback;
  and two of two Agents with one slot, so that a drain ends because the scheduler is full.
- Plans: three nodes, two Agents, two revisions, two or three attempts. Two revisions
  are what supersession needs, three nodes a fork or a join.
- Discussions: two or three participants, two or three Waves, one control, crash, loss
  and question each. Tasks: two or three Runs, replies two mentions deep.
- Peers: two operations, two sockets, two grants; evidence: two operations on one branch
  that its owner moves twice (away and back), two faults, two profiles, two publishers;
  memory: four messages, two workers.
- Pairing: a session bound to a member, a join request and an invite, two attempts of two
  Bridges of which one is in sight, one fault: enough for a second claim of a row, a
  new pairing of a paired Bridge and an answer lost between any two steps.
- Remote evidence: one commit, its check and the attestation of its inputs, two callers
  with a call each, two control revisions and two moments: enough for two sessions that
  wait for one operation, an operation asked under an earlier revision and an adoption
  repeated later. One request at a time, answers of up to two addresses.
- What the runs leave to the proofs: the Run of `delivery` is outside a Discussion, so no
  deadline of a Wave ends it (`SettledIsFinal`, `LogIsRecord` hold for both); no pairing
  session of `central` is private (`PairingIsSound`); `SettledStays` is checked where no
  quorum closes a Wave (`SettledAlwaysStays`; the parts of `PoliciesKept` have one); not
  every participant of a Discussion is private, which `create` allows where no final output
  is asked for (`DiscussionIsKept`).
- `peers` is checked up to the names of Rooms, which nothing orders, and starts with the first
  of two configurations. The Host takes away one Room or the membership, once; in `restarts`
  neither.
- `Max...` constants of faults, changes and lapses bound how often the environment
  interferes, never what the code does in answer.

The theorems hold for every value of their modules' constants.

## Fairness

- *RunDelivery*: weak fairness of the worker's and the reader's steps (goroutines run), of
  the end of a failed connection, of the dial (`Client.Run` retries for ever), of the
  reader noticing a closed socket, of Central receiving what has arrived, and of the
  resend of commands not answered (the one second timer and the heartbeat). Nothing is
  assumed of users, crashes, deadlines or retryable errors of a preparation, and of the
  Runtime only that an invocation ends.
- *Gates*: a caller goes on, and a holder releases (the release function is deferred).
- *HostedRun*: promises settle and queued microtasks run; a process that exits is started
  again. *ReplyRouting*: workers go on, Central is started again and recovers.
- *ExecutionPlan* (only for the plan left to the scheduler): the sweep's own steps and
  startup are weakly fair; the timer's sweep, the adoption of a candidate and the work of
  Agents and reviewers are strongly fair, because they compete with each other for the
  thread.

## Seeded defects

Each property has an operator, marked as a mutant or seeded defect and placed before the
definition it would replace, that changes the code as a plausible mistake would: an event
applied twice, a cancellation that ignores the Delivery row, a recovery that overlooks
accepted records, a waiter that leaves without passing the gate on, a proof of another
gate taken for the one that is asked for. `mutants` in `PROJECT.json` pairs them with the
property that TLC finds violated. The specifications do not use them.

## What is proved

TLAPS checks every proof from nothing: `tlapm RunDeliveryProofs.tla` and so on. The
theorems hold for every value of the constants that the named assumptions admit:
`MaxEpoch >= 1`, `MaxDown >= 2`, any `MaxReplies` and `MaxUp`; any callers, Agents,
Workspaces and relation `Contains`; any Runs, limit, number of crashes and failures; any
finite plan whose order is topological; any number of Peer events and deaths;
any join operations, browser entries and connections of a Peer; any Rooms, configurations,
grants, acceptances, lapses and restarts of an export; any nodes, operations,
branches, commits and moves of their owner; any profiles, calls and changes of a
verification; any publishers, publications, contents of at least one byte and chunks of at
least one; any Agents, commands and budgets of a Task; any roster of two to five participants, policy
that `resolvePolicy` lets through and number of controls, crashes, losses and questions of a
Discussion; any sessions, join requests,
codes, Bridges and attempts; any operations, checks and callers of remote evidence, of a
node with or without inputs, and any requests, addresses and answers of the name service; any finite
set of Rooms, any workers, messages, sizes and limits of the rolling memory, with and
without rebases. The assumptions say that the parts of a vocabulary are
different things, that bounds are numbers and that `None` (`Missing` of a
publication) is no member of what it stands beside; nothing else.

| Theorem | Module | States | Needs |
|---|---|---|---|
| `Invariant`, `TypeCorrect` | RunDeliveryProofs | `IInv`, `TypeOK` | itself |
| `StartsOnce` | RunDeliveryProofs | `AtMostOneStart` | `IInv` |
| `FirstOutcome` | RunDeliveryProofs | `FirstOutcomeStands` | `IInv` |
| `SettledIsFinal` | RunDeliveryProofs | `SettledRunIsFinal` | `IInv` |
| `FenceIsReleased` | RunDeliveryProofs | `FenceReleased` | `FenceInv` |
| `LogIsRecord` | RunDeliveryProofs | `HistoryAgrees` | `HistoryInv` |
| `CanceledDoesNotRun` | RunDeliveryProofs | `CanceledNeverRuns`, for a Run outside a Discussion | `HistoryInv` |
| `LifecycleImplemented` | RunDeliveryProofs | `ImplementsLifecycle`, for a Run outside a Discussion | `HistoryInv` |
| `NoGapIsMet` | RunDeliveryProofs | `NoSequenceGap` | `GapInv`, `RegistryInv` |
| `AgentGate`, `ServedInOrder` | GateProofs | `AgentGateKept`, `FirstComeFirstServed` | `GateInv` |
| `GateOfResources`, `PriorityKept` | GateProofs | `ResourceGateKept`, `NoOvertaking` | the holders' and waiters' invariant |
| `ProviderIsCalledOnce`, `SchedulerIsConsistent` | HostedRunProofs | `ProviderCalledOnce`, `SchedulerConsistent` | `HostedInv` |
| `GatesAreKept` | ExecutionPlanProofs | `GatesKept` | `PlanInv` |
| `OneAttempt` | ExecutionPlanProofs | `OneAttemptPerTask`, without admission by message | `PlanInv`, `AttemptInv` |
| `PeerRunIsFaithful` | PeerProofs | `PeerRunFaithful` | `PeerInv` |
| `EndsAlwaysStand` | PeerProofs | `EndsStand`, a conjunct of `PeerStepsKept` | `PeerInv` |
| `MembershipIsKept` | PeerProofs | `MembershipKept` | `JoinInv` |
| `WithdrawalAlwaysStands` | PeerProofs | `WithdrawalStands`, a conjunct of `PeerStepsKept` | `JoinInv` |
| `ExportsAreBilateral` | PeerProofs | `ExportsBilateral` | `ExportInv` |
| `PeerSteps` | PeerProofs | `PeerStepsKept` | `PeerInv`, `JoinInv`, `ExportInv` |
| `IntegrationIsTrue`, `BranchMoves` | EvidenceProofs | `IntegrationTrue`, `BranchMovesExactly` | `IntegrationInv` |
| `VerificationIsTrue` | EvidenceProofs | `VerificationTrue`, a conjunct of `EvidenceWhole` | `VerificationInv` |
| `PublicationIsTrue` | EvidenceProofs | `PublicationTrue`, a conjunct of `EvidenceWhole` | `PublicationInv` |
| `EvidenceSteps` | EvidenceProofs | `EvidenceStepsKept` | `VerificationInv`, `PublicationInv` |
| `TaskIsKept`, `ClosedStays` | TaskWorkProofs | `TaskKept`, `ClosedTaskStays` | `TaskInv` |
| `DiscussionIsKept`, `SettledAlwaysStays` | TaskWorkProofs | `DiscussionKept`, `SettledStays` | `WaveInv` |
| `PairingIsSound`, `PairingSteps` | CentralProofs | `PairingSound`, `PairingStepsKept` (a conjunct of `CentralStepsKept`) | `PairingInv` |
| `RemoteIsSound` | CentralProofs | `RemoteSound` | `RemoteInv`, `EgressInv` |
| `RollingIsTrue` | CentralProofs | `RollingTrue`, a conjunct of `MemoryLossless` | `RollingInv` |
| `CentralSteps` | CentralProofs | `CentralStepsKept` | `PairingInv`, `RollingInv`, `RemoteInv` |

So every safety property of the runs `delivery`, `gates`, `discussions`, `hosted`,
`execution` and `peers` is proved (`PoliciesKept` of other policies is an instance of
`DiscussionIsKept`), of `tasks` what is about one Task, of `evidence` all but the quota of publications and of `central` what is
about a pairing, a remote provider or the rolling memory. A module whose properties are proved is extended
by the module of its run, so that TLC checks the same definitions and evaluates the same
assumptions. The arguments:

- **`IInv == TypeOK /\ ExecInv`.** `AtMostOneStart` is not inductive: it says nothing of a
  second worker on its way to the Runtime. `ExecInv` adds that a worker short of the start
  holds a fresh record whose Runtime was not invoked, that only fresh records get to the
  gate, that an invoked Run's record can never look fresh again, and that no worker
  survives its connection.
- **`FenceInv`** follows a tombstone: whoever is between staging it and the outcome it is
  for has a position at which the tombstone is cleared (`Clears`), and on a connection that
  is up a tombstone without such a party fences a record that is not terminal.
- **`HistoryInv`** is an invariant over the messages in flight. `RecordInv` says which
  events a record may hold, `PositionInv` what the worker's position says of the record,
  `CommandInv` where a request can be (a Delivery row, the socket, the worker), `WireInv`
  that whatever is in flight repeats the record or answers for a Run the Bridge does not
  know and will never be asked to run, `VerdictInv` what Central's own verdicts rest on.
  `LogIsRecord` follows event by event; `CanceledDoesNotRun` because `canceled` is only
  recorded of a terminal record or of a Run the Bridge will never admit.
- **The refinement** maps the execution to `ExecOf` and the verdict to `VerdictOf`; each
  action of the Bridge starts, continues or ends an execution or leaves it alone, each
  handler of Central gives the verdict once or leaves it alone.
- **`GapInv`**: on a live connection the bytes in flight are chained (each continues or
  repeats what is before it and Central's log), and cover what the worker will still
  refer to. `RegistryInv` says the registered socket is one the Bridge dialled.
- **`GateInv`** of the Agent gate: a queued waiter stands in its queue once and is not
  ready; a waiter in no queue was selected; an owner is unique and its gate active; a taken
  gate has an owner. The resource gate rests on the symmetry of `resourcesConflict` and on
  `g.waiting` being a strict order.
- **`HostedInv`**: `RowOK` relates a Run, its intent, the calls made, its abort signal and the
  position of its worker; `ActiveInv` says the entries of the Map are of different Agents
  and every worker has one; `DownInv` that a process that is down has no worker.
- **`PlanInv`**: `PlanType`; `SweepInv`, which remembers across the two transactions of an
  admission that what is about to be admitted was found ready; `GateInv`, the three gate
  properties together, which need each other (a carried proof stands on a proof that must
  never be taken back). **`AttemptInv`**: revisions to come have no attempts, only the last
  attempt of a node in a revision may be unsettled, and active attempts are of different
  Agents.
- **`PeerInv`**: `JournalOK` says what the journal of the Participant may hold (a denial is
  of a Run that never starts, a final event and a settlement are the retained outcome, a
  known outcome is of a process that is gone); `HostOK` that the Host's log is the journal
  as far as it got and that a conclusion about a delivered Run has its reason there;
  `Places` what the position of either goroutine is worth: before the claim nothing was
  started, an execution has no outcome yet, the sweeper only reports. `StartsOnce` alone
  is not inductive, since it does not know that a worker at its claim finds nothing
  started. Both goroutines share the journal, so the proof rests on what no step takes
  back of it (`Grows`): what a position says survives a step of the other goroutine.
- **`JoinInv`**: the invitation names the one operation it was consumed for and keeps the
  name for ever, even revoked (`InvitationOK`), so that a repeated claim makes no second
  member; the position of that operation tells which of its four files are written
  (`FilesOK`), and no other operation gets past the claim; what a departure recorded
  locally stays behind it (`LeavingOK`). `OneMembership` and `ReceiptsInOrder` alone are not
  inductive: they do not know that an operation which holds an answer of the Host is the
  one the invitation names, nor that its pending file is still there. A step of the
  Participant leaves the Host's rows alone and most steps of the Host leave the files
  alone; the claim and the departure are the two that meet both.
- **`ExportInv`**: both histories only grow and are carried whole, so everything is said of
  prefixes: the Host's copy and a request on its way are prefixes of the Participant's
  grants (`GrantsOK`, `WireOK`), what the Participant holds of the acceptances and an answer
  on its way are prefixes of the Host's (`AcceptsOK`, `WireOK`). `HostCopyTrue` alone is not
  inductive: it knows neither what a late request carries nor that no two grants have one
  key, which is why what the Host does not know yet is exactly what follows its copy
  (`NewGrantsContinue`). Revisions of a lineage increase (`Increasing`) because a write
  continues the last of them. `ViewOK` says that an Owner whose expected revision is the
  store's has read what it holds, and `ConnectorOK` that a worker that is not canceled runs
  under the grants and the trust of the store, of a connection that is active, unless a call
  has yet to come to `LocalChange`.
- **`IntegrationInv`**: `LockHeld` says pointwise that the lock of a branch and the one
  unsettled operation on it name each other; `Recorded` that approval, intent, journal and
  receipt came in this order; `Executing` what the position of `Execute` is worth. That a
  receipt is true of the branch needs the past of the branch, and `Branches` knows it only
  as long as the lock keeps other operations away: an operation that moved its branch and
  has no receipt finds it at the expected commit only if the owner took it back, which the
  history variable `rewound` remembers. Without it the invariant is false, and TLC
  shows it: the owner resets his branch between the update and its confirmation, and
  `recoverOrExecute` records `canceled` of an operation that had its effect.
- **`VerificationInv`**: what Central keeps of a profile was journaled, logged and admitted,
  in this order (`EndingsTrue`), and an ending in the journal is the classification of what
  was seen of the process; `Verifying` says what the position of `VerifyCaptured` is worth:
  before the start nothing is journaled, from the log on there is an ending. A receipt
  never replaces another, so an output that was materialized keeps resting on receipts
  that passed. A plan may require no profile at all: `VerifyCaptured` then returns at once
  and nothing is ever materialized.
- **`PublicationInv`** relates the files of Central to its rows across the crash between
  them. `Interrupted` says what is on disk of the one request whose rows are still to be
  written: its chunk follows the acknowledged bytes, or its blob is there. `BlobsWhole` says
  more than `SealedIsWhole`, of blobs no row names yet, which a second publication of the
  same content finds and trusts. `Stored` is `AcknowledgedIsStored` for one row, its upload
  and its blob, so that a handler is one of few kinds of step: rows move and no blob is made
  (`FilesKeep`), files change and no row does (`RowsKeep`), one row moves and the files stay
  (`OneRow`). A roll-back under a capture lease may leave a live row without its upload, but
  only of a publication that is due. `PublisherTrue` says of each publisher what the answer
  on its way promises; a chunk it asks for has bytes, without which a request at the end of
  an upload whose bytes are in the blob would be written after wrong bytes. `OneArtifact`
  counts; the invariant says instead that no two Artifacts name the same publication.
- **`TaskInv`**: the row agrees with its Runs and Results (`RowOK`, `RunsOK`, `ResultsOK`).
  That a completed Task keeps a Result about the definition it still has rests on
  `CompletionResultValid`, the trigger that every update of lifecycle, definition or
  completion meets, and on Results never changing what they are about. `Settled` needs every
  way a Run is created to ask whether the Task is open. `HandoffService.createChild` does
  not, and the PATCH of older clients closes a Task whose ambiguous Runs nobody
  acknowledged, so it is stated without these two. The rest of `TaskKept` is proved with
  them.
- **`PairingInv`**: `BoundRows` says a session, join request or invite never changes the attempt it
  is bound to, so that a projection the Owner looked at stays right although the approval
  names no attempt; `DevicesMade` that a Device exists exactly for the attempt of a row that
  came to the state which makes it, so that a repeated claim, poll or decision makes no
  second one; `Approvals` that an order to approve, and an approved row, are of a Bridge in
  sight; `Attempting` that an attempt with a result has its Device, that an attempt that
  writes is the current one of a Bridge without credential and that the current attempt is
  not canceled. The operations of Central are all moves of one row (`RowMove`), those of
  the Console moves of the disk and the epoch (`ConsoleMove`); the invariant is shown once
  for each kind and every operation is shown to be such a move.
- **`RemoteInv`**: the provider's record of an operation never changes once it is there, so
  what a waiting call was given (`CallsKnow`) is still that record when the call retains it,
  whatever another session, a timeout or a stop of Central did to the operation in the
  meantime; and a settled row is never reopened, so what an adoption rests on
  (`AdoptionRests`) is not taken back. `RetainedOnce` alone is not inductive: it does not
  know where the answer in the hands of a call comes from. Only commits have a bundle, which
  is why nothing but a commit is ever validated by Git. **`EgressInv`**: `PinHeld` says that
  the pin of a request that connects was allowed under its scheme, that from the connection
  on the peer of its socket is that pin, and (`SocketHeld`) that an open socket is of a
  request that connects or was written to. Evidence and requests share no variable
  (`RemoteProvider`).
- **`RollingInv`**: `ReducedOnce` is not inductive, for it does not say that a new checkpoint
  begins where all the old ones have ended: `CheckpointsBelow` does, because a commit never
  moves the cursor back and an incremental one begins at it. `LatestCovers` walks a chain of
  parents with a recursive function; the invariant says instead (`Covered`) that some
  function satisfies its equations and gives the cursor's messages for the latest
  checkpoint, which one appended checkpoint extends (`CoveringGrows`), and a chain has only
  one such function (`CoveringUnique`, from the well-foundedness of the numbers). `InHand`
  says that what a worker reduces is an interval that is not empty and that a rebase
  continues nothing, and `OneReducer` that a generation of a Room is in the hands of one
  worker, since every lease takes a generation beyond those handed out. `LeaseSafe` follows
  from `OneReducer`: whoever commits or records a failure names the generation of the row.
- **`WaveInv`** says of each Wave by itself (`WaveOK`) that a Turn is queued only with its Run and
  has no second one, that a Wave closed with members at work has the seal its policy asks for and that a private
  member completed only what was released; of the sequence of Waves (`OrderOK`) that only the
  last may be open or a finalization; and ties the row of the Discussion to that last Wave:
  `StandingOK` (which states go with an open Wave, and that an active Discussion has none
  only while Central is at the steps that will plan one), `BoundOK` (where no Turn is left
  without its Run) and `Charged` (the budget used is the number of closed contribution
  Waves). `BarrierOrRest` alone is not inductive, for it says nothing of a Discussion whose
  planning was cut short; `ChargedOnce` is not, for a cancellation closes a Wave without a
  charge and a quorum may still settle it afterwards, so `Charged` speaks of canceled
  Discussions with an open Wave too. Every action relates a Wave to what becomes of it by
  `Later`, which is `SettledKept`.

## What is only model-checked

- The liveness properties (`AdmittedRunSettles`, `CancellationResolves`, `WaitersServed`,
  `RoutedAfterRestart`, `RunsEnd`, `PlanRuns`): liveness under fairness and ENABLED are out
  of the prover's reach.
- `CanceledNeverRuns` and the refinement for the Run of a Discussion: false there, see
  the findings. `OneAttemptPerTask` where members admit Runs by message: see the
  observations.
- `HandoffsSound`: the routing of replies rests on what `RunLineage` computes, which is
  recursive, and induction over data is out of reach.
- What `EvidenceWhole` says of the quota (`QuotaHeld`): its sums over sets need induction
  over data.
- What `MemoryLossless` says of long-term memory: its pages and contexts are sorted with
  `SetToSortSeq`, and that a finite set has a sorted sequence needs induction over data.

## Findings and observations

1. `discussion_cancel`: `DiscussionRecoveryService.closeCanceledWaves` records a queued
   managed Run as `canceled` although a Delivery exists; the Bridge may be executing it.
   `CancellationService.cancel` guards against exactly that.
2. `exec_startup`: a second Result that does not supersede the first makes the
   materializer throw inside the startup settlement, which no handler catches: Central
   does not start, at every start.

Observations that no run states, met while modelling:

- `RunRepository.expireQueued` expires a queued Run although its Delivery was sent and its
  Runtime may execute; the documentation asks for `outcome_unknown`.
- The acknowledgement (sequence 1) of a cancellation of a Run the Bridge never admitted,
  arriving after Central's deadline, is rejected and closes the Device's socket.
- `ReplayCanceledRun` answers `canceled` for a missing record, where the documentation says
  missing records fail closed. `CancellationResolves` needs what the code does.
- A worker whose report fails because of a cancellation leaves the map of active Runs
  before the connection is closed. A second cancel command read in that window is
  answered with an outcome whose `run.accepted` was not sent; Central rejects it and
  closes a socket that is being closed anyway. `NoSequenceGap` is therefore stated for a
  connection that has not failed.
- A message to the Agent of a governed Task admits its Run without the scheduler's
  readiness: neither an attempt of a superseded revision nor another Run of the Agent
  keeps it back. `OneAttempt` assumes that no member does so. Nor does an adopted output of
  a remote provider: `createRunsForMessage` and `admit` insert the dispatch intent without a
  look at adoptions, and no trigger of the table looks at them. That an adopted node is not
  dispatched (`SchedulerSparesAdopted`) is therefore said of the scheduler only; no document
  says more.
- A request to a remote provider may be over while its socket is open: a redirect is
  rejected at once, bodies that are not wanted are dropped unread, and the timer of
  `withTimeout` is cleared without an abort. The agent is destroyed when the response closes,
  which is up to the provider. `UnwrittenClosed` is about requests that wrote nothing.
- A canceled Discussion whose Wave is still open can be closed by a quorum: the callback of
  a Run that ends afterwards goes through `quorumSealIfReady` and `advanceSettledWave`, none of
  which looks at the state of the Discussion, and `closeReadyWaveAndApply` writes the decision
  and, where it says so, a next Wave. The documentation lists "immediate user cancellation"
  first in the priority of decisions. The model keeps what the code does; `DiscussionKept`
  and `SettledStays` hold of such a Discussion as well.

## What is not modelled

Everything marked `not_modelled` in `PROJECT.json`, with the reason: governed delivery on
the Bridge, repository workspaces, local consents, the Console, desktop hand-off,
lifecycle controller and trust rotation, Runtime adapters, Workspace leases, persistence,
Rooms and MCP, authentication, local node, relay, web client and contracts. Inside the
modelled parts: contents of messages and their validation, digests and signatures, the
context frozen into a Delivery, redaction, provisioning, and everything else the notes of
the components name.

## Plan

1. Proofs of the parts of `MemoryEntries` that do not sort, with the inductive invariant
   first checked by TLC.
2. Models of governed delivery (the possible-start marker), Workspace leases and the rest
   of the Run repository's projections.
3. Two Runs on one connection, for the errors of one Run that close the connection of the
   other.
