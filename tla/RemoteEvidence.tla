--------------------------- MODULE RemoteEvidence ---------------------------
(***************************************************************************)
(* Evidence of a remote provider for one node of an execution plan         *)
(* (apps/server/src/remote): the owner asks Central to observe a commit,   *)
(* the CI checks of that commit and, for a node with inputs, what inputs   *)
(* the remote producer consumed; an explicit adoption then stands for the  *)
(* verified output of the node.                                            *)
(*                                                                         *)
(* Every observation is a durable operation.  A call of it checks the      *)
(* plan, the binding and the dispatch, and then waits on the provider      *)
(* (lookup, create, bundle) and on Git; what it checked may be gone when   *)
(* it retains the answer.  The tables' triggers are checked in the         *)
(* retaining transaction, and they belong to the retaining actions here.   *)
(***************************************************************************)
EXTENDS Integers, FiniteSets

CONSTANTS
    Nil,
    Callers,           \* Web sessions of the owner
    CommitOps,          \* observations of a commit; each names the source it mints
    CIOps, AttestOps,   \* observations of a check, and of the inputs, of a source
    Checks,             \* the checks that map to a required verification profile
    SourceOf,           \* the commit observation a CI observation or attestation is about
    CheckOf,            \* the check a CI observation is about
    AdoptOps,           \* adoption operations
    HasInputs,          \* whether the node declares inputs, all bound by one edge each
    MaxCalls,           \* bound: calls in flight
    MaxControl, MaxTime \* bounds of the plan's control revision and of the clock

Ops == CommitOps \cup CIOps \cup AttestOps
Terminal == {"succeeded", "failed"}
Pending == {"planned", "outcome_unknown"}

\* What the provider may hold under an operation: a record with the identity Central asked
\* for, or one of something else.
Effects(o) == {"foreign"} \cup
    IF o \in CIOps THEN {"passed", "failed"} ELSE IF o \in CommitOps THEN {"good", "bad"} ELSE {"good"}

Records == {"foreign", "passed", "failed", "good", "bad"}

ASSUME EvidenceAssumption ==
    /\ Nil \notin Records
    /\ CommitOps \cap CIOps = {} /\ CommitOps \cap AttestOps = {} /\ CIOps \cap AttestOps = {}
    /\ SourceOf \in [CIOps \cup AttestOps -> CommitOps]
    /\ CheckOf \in [CIOps -> Checks]
    /\ HasInputs \in BOOLEAN
    /\ MaxCalls \in Nat /\ MaxControl \in Nat \ {0} /\ MaxTime \in Nat

VARIABLES
    now,        \* the clock of the requests
    control,    \* the plan's control revision
    active,     \* the plan is approved or running
    bound,      \* the owner has bound a provider to the node's repository
    revoked,    \* the binding has a revocation
    intent,     \* the node's dispatch intent, by who had it admitted
    upstream,   \* the producers of the node's inputs have adopted outputs
    op,         \* durable: the operations, with the control revision they were asked under
    obs,        \* durable: the observation, receipt or attestation retained for an operation
    effect,     \* the provider's record for an operation
    call,       \* calls in flight, by session and operation
    adoption,   \* durable: the adoption of the node
    answer      \* how each adoption operation was answered last

remoteVars == <<now, control, active, bound, revoked, intent, upstream, op, obs, effect, call, adoption, answer>>
plan == <<now, control, active, bound, revoked, intent, upstream>>

Idle == [phase |-> "idle", got |-> Nil]
Absent == [state |-> "absent", ctl |-> 0]
InFlight == {k \in Callers \X Ops : call[k].phase # "idle"}

RemoteInit ==
    /\ now = 0 /\ control = 1 /\ active = TRUE /\ bound = FALSE /\ revoked = FALSE /\ intent = "none"
    /\ upstream = FALSE
    /\ op = [o \in Ops |-> Absent]
    /\ obs = [o \in Ops |-> Nil]
    /\ effect = [o \in Ops |-> Nil]
    /\ call = [k \in Callers \X Ops |-> Idle]
    /\ adoption = Nil
    /\ answer = [d \in AdoptOps |-> "none"]

-----------------------------------------------------------------------------
(* What surrounds the evidence.                                            *)

Tick == /\ now < MaxTime /\ now' = now + 1
        /\ UNCHANGED <<control, active, bound, revoked, intent, upstream, op, obs, effect, call, adoption, answer>>

\* A control of the plan: it is stopped, or paused and resumed, under a new revision.
ControlPlan(on) ==
    /\ control < MaxControl /\ active
    /\ control' = control + 1 /\ active' = on
    /\ UNCHANGED <<now, bound, revoked, intent, upstream, op, obs, effect, call, adoption, answer>>

\* The outputs that the node's inputs are bound to are adopted.
ProducersAdopted ==
    /\ ~upstream /\ upstream' = TRUE
    /\ UNCHANGED <<now, control, active, bound, revoked, intent, op, obs, effect, call, adoption, answer>>

\* One transaction admits a Run of the node and inserts the intent: the plan is current, the
\* node has no intent and what its inputs are bound to is adopted.
Admits(by) ==
    /\ active /\ intent = "none" /\ (HasInputs => upstream)
    /\ intent' = by
    /\ UNCHANGED <<now, control, active, bound, revoked, upstream, op, obs, effect, call, adoption, answer>>

\* Mutant: the scheduler's admission looks for an earlier intent only, not for an adopted
\* output.
Dispatch_Readopted == Admits("scheduler")

\* admitScheduled: in the same transaction readiness finds an attempt also in an adopted
\* output.
Dispatch == adoption = Nil /\ Admits("scheduler")

\* createRunsForMessage: a member's message to the node's Task.  A node that has an intent
\* answers with its Run; nothing here looks at adopted outputs.
DispatchByMessage == Admits("message")

\* RemoteProviderBindingService.create: a binding of the repository to the provider and of
\* its checks to verification profiles; a repetition finds it.
Bind ==
    /\ ~bound /\ bound' = TRUE
    /\ UNCHANGED <<now, control, active, revoked, intent, upstream, op, obs, effect, call, adoption, answer>>

\* RemoteProviderBindingService.revoke: once; a repetition is answered and changes nothing.
Revoke ==
    /\ bound /\ ~revoked /\ revoked' = TRUE
    /\ UNCHANGED <<now, control, active, bound, intent, upstream, op, obs, effect, call, adoption, answer>>

-----------------------------------------------------------------------------
(* The operations' rows.                                                   *)

\* markOutcomeUnknown, markFailed and the last update of a retaining transaction: they
\* touch a row only while it is planned or outcome_unknown.
SetState(o, to) == IF op[o].state \in Pending THEN [op EXCEPT ![o].state = to] ELSE op

Ends(k) == call' = [call EXCEPT ![k] = Idle]
Goes(k, phase, got) == call' = [call EXCEPT ![k] = [phase |-> phase, got |-> got]]

\* A call ends with an error, its operation marked.
Marks(k, to) == op' = SetState(k[2], to) /\ Ends(k)

-----------------------------------------------------------------------------
(* A call.                                                                 *)

\* requireContext: the plan is current under the revision the command names, and the
\* binding is not revoked.
Context == active /\ bound /\ ~revoked

\* A source can be asked about when it is retained.
HasSource(o) == obs[SourceOf[o]] # Nil

\* The in-flight map of commits and checks, by session and command: a call whose key is in
\* flight waits for the answer of that one.
JoinsObservation(s, o) == <<s, o>> \in InFlight

\* The in-flight map of attestations, by operation.
JoinsAttestation(o) == \E t \in Callers : <<t, o>> \in InFlight

\* planOperation: the row is inserted, or found.  One that was asked under another
\* control revision has another request digest, and conflicts.
Planned(o) ==
    IF op[o].state = "absent" THEN [op EXCEPT ![o] = [state |-> "planned", ctl |-> control]] ELSE op

\* replayCommit, replayCI: a settled operation is answered from its row, an open one of the
\* same request goes to the provider.
MayObserve(o) == op[o].state = "absent" \/ (op[o].ctl = control /\ op[o].state \in Pending)

\* The row is there, and the call goes to the provider.
Asks(s, o) ==
    /\ Cardinality(InFlight) < MaxCalls
    /\ MayObserve(o)
    /\ op' = Planned(o)
    /\ Goes(<<s, o>>, "lookup", Nil)
    /\ UNCHANGED <<plan, obs, effect, adoption, answer>>

\* observeCommit, of a node that only the graph feeds and that was not dispatched.
ObserveCommit(s, o) ==
    /\ o \in CommitOps /\ ~JoinsObservation(s, o)
    /\ Context /\ intent = "none"
    /\ Asks(s, o)

\* observeCI, of a check that maps to a required profile, about a retained source.
ObserveCI(s, o) ==
    /\ o \in CIOps /\ ~JoinsObservation(s, o)
    /\ Context /\ HasSource(o)
    /\ Asks(s, o)

\* observe, the attestation of the inputs of a retained source whose producers are adopted.
ObserveInputs(s, o) ==
    /\ o \in AttestOps /\ ~JoinsAttestation(o)
    /\ Context /\ HasSource(o) /\ intent = "none" /\ HasInputs /\ upstream
    /\ Asks(s, o)

\* What a failed request leaves: an unknown outcome for commits and checks whatever the
\* error was; for attestations only when the error says so, and a failure otherwise.
FailsWith(k, unknown) ==
    Marks(k, IF k[2] \in AttestOps /\ ~unknown THEN "failed" ELSE "outcome_unknown")

\* The phase that follows the provider's answer: commits have a bundle to fetch.
Answered(k, got) == Goes(k, IF k[2] \in CommitOps THEN "bundle" ELSE "answered", got)

\* lookupOrCreate, the GET by operation.
Lookup(k) ==
    /\ call[k].phase = "lookup"
    /\ \/ effect[k[2]] # Nil /\ Answered(k, effect[k[2]])
       \/ effect[k[2]] = Nil /\ Goes(k, "create", Nil)
    /\ UNCHANGED <<plan, op, obs, effect, adoption, answer>>

\* The POST reaches the provider, which keeps one record by operation.
Create(k) ==
    /\ call[k].phase = "create"
    /\ \E e \in Effects(k[2]) :
        effect' = IF effect[k[2]] = Nil THEN [effect EXCEPT ![k[2]] = e] ELSE effect
    /\ Goes(k, "created", Nil)
    /\ UNCHANGED <<plan, op, obs, adoption, answer>>

\* The answer to the POST.
Created(k) ==
    /\ call[k].phase = "created"
    /\ Answered(k, effect[k[2]])
    /\ UNCHANGED <<plan, op, obs, effect, adoption, answer>>

\* The POST was reset, or refused: the client raises an error that says the outcome is
\* unknown.
CreateLost(k) ==
    /\ call[k].phase \in {"create", "created"}
    /\ FailsWith(k, TRUE)
    /\ UNCHANGED <<plan, obs, effect, adoption, answer>>

\* Any other error of the client: no credential, a lookup that is refused, an answer that
\* is malformed, too large or cut short, no bundle; and the timeout, which wins the race
\* against the request whatever the request was doing and does not say that the outcome is
\* unknown.
CallFails(k) ==
    /\ call[k].phase \in {"lookup", "create", "created", "bundle"}
    /\ FailsWith(k, FALSE)
    /\ UNCHANGED <<plan, obs, effect, adoption, answer>>

\* The record is of another operation, repository, commit, check or input than the command.
Foreign(k) == call[k].got = "foreign"

\* The bundle is read and the record's identity is compared with the command.
Bundle(k) ==
    /\ call[k].phase = "bundle"
    /\ \/ Foreign(k) /\ Marks(k, "failed")
       \/ ~Foreign(k) /\ Goes(k, "validate", call[k].got) /\ UNCHANGED op
    /\ UNCHANGED <<plan, obs, effect, adoption, answer>>

\* Git refuses the bundle, or cannot be run.
ValidateFails(k) ==
    /\ call[k].phase = "validate"
    /\ Marks(k, "failed")
    /\ UNCHANGED <<plan, obs, effect, adoption, answer>>

\* The triggers and keys of the retained rows: the operation is open; for imports and
\* receipts the binding is not revoked; a source has one attestation.
MayRetain(o) ==
    /\ op[o].state \in Pending
    /\ o \notin AttestOps => ~revoked
    /\ o \in AttestOps => \A p \in AttestOps : SourceOf[p] = SourceOf[o] => obs[p] = Nil

Retains(k) ==
    /\ obs' = [obs EXCEPT ![k[2]] = call[k].got]
    /\ op' = SetState(k[2], "succeeded")

\* Git accepts the bundle.  The blobs are imported, and one transaction retains contents,
\* artifacts, observation and source, or finds them retained; one that is refused marks
\* the operation.
RetainCommit(k) ==
    /\ call[k].phase = "validate" /\ call[k].got = "good"
    /\ \/ obs[k[2]] # Nil /\ UNCHANGED <<obs, op>>
       \/ obs[k[2]] = Nil /\ MayRetain(k[2]) /\ Retains(k)
       \/ obs[k[2]] = Nil /\ ~MayRetain(k[2]) /\ op' = SetState(k[2], "failed") /\ UNCHANGED obs
    /\ Ends(k)
    /\ UNCHANGED <<plan, effect, adoption, answer>>

\* The answer about a check: one transaction retains the receipt, with a proof when it
\* passed, or finds it retained; one that is refused leaves the operation open.
RetainCheck(k) ==
    /\ k[2] \in CIOps /\ call[k].phase = "answered"
    /\ \/ Foreign(k) /\ op' = SetState(k[2], "failed") /\ UNCHANGED obs
       \/ ~Foreign(k) /\ obs[k[2]] = Nil /\ MayRetain(k[2]) /\ Retains(k)
       \/ ~Foreign(k) /\ (obs[k[2]] # Nil \/ ~MayRetain(k[2])) /\ UNCHANGED <<obs, op>>
    /\ Ends(k)
    /\ UNCHANGED <<plan, effect, adoption, answer>>

\* The answer about the inputs.
RetainAttestation(k) ==
    /\ k[2] \in AttestOps /\ call[k].phase = "answered"
    /\ \/ Foreign(k) /\ op' = SetState(k[2], "failed") /\ UNCHANGED obs
       \/ ~Foreign(k) /\ obs[k[2]] = Nil /\ MayRetain(k[2]) /\ Retains(k)
       \/ ~Foreign(k) /\ (obs[k[2]] # Nil \/ ~MayRetain(k[2])) /\ UNCHANGED <<obs, op>>
    /\ Ends(k)
    /\ UNCHANGED <<plan, effect, adoption, answer>>

\* Central stops: the calls are gone, the rows stay.
CentralStops ==
    /\ InFlight # {}
    /\ call' = [k \in Callers \X Ops |-> Idle]
    /\ UNCHANGED <<plan, op, obs, effect, adoption, answer>>

-----------------------------------------------------------------------------
(* The adoption.                                                           *)

\* The proofs of a source: its receipts that passed.
ProofRows(src) == {o \in CIOps : SourceOf[o] = src /\ obs[o] = "passed"}

\* One proof for each required profile, and no other.
ProofSet(src) ==
    /\ Checks # {}
    /\ \A c \in Checks : Cardinality({o \in ProofRows(src) : CheckOf[o] = c}) = 1

\* reuseInputs: a node with inputs needs the attestation of the source, which names the
\* producers' adopted outputs.
InputsAttested(src) == HasInputs => upstream /\ \E o \in AttestOps : SourceOf[o] = src /\ obs[o] # Nil

\* What adoptVerified and the trigger of the adoptions check: the plan is current, still
\* under the control revision that the source was observed under; no revocation and no
\* dispatch; the source; the attestation; the proofs.
Adoptable(src) ==
    /\ Context /\ intent = "none"
    /\ obs[src] # Nil /\ op[src].state = "succeeded" /\ op[src].ctl = control
    /\ InputsAttested(src) /\ ProofSet(src)

\* The sealed record: every field of it takes part in the comparison of a repetition.
Sealed(d, src) == [op |-> d, source |-> src, proofs |-> ProofRows(src), ctl |-> control, at |-> now]

\* adoptVerified of an operation that is not retained yet.
Adopt(d, src) ==
    /\ Adoptable(src) /\ adoption = Nil
    /\ adoption' = Sealed(d, src)
    /\ answer' = [answer EXCEPT ![d] = "adopted"]
    /\ UNCHANGED <<plan, op, obs, effect, call>>

\* The command of a retained adoption again, after its answer was lost.
AdoptAgain(d, src) ==
    /\ Adoptable(src) /\ adoption # Nil /\ adoption.op = d /\ adoption.source = src
    /\ answer' = [answer EXCEPT ![d] = IF adoption = Sealed(d, src) THEN "adopted" ELSE "conflict"]
    /\ UNCHANGED <<plan, op, obs, effect, call, adoption>>

-----------------------------------------------------------------------------
Step(k) ==
    \/ Lookup(k) \/ Create(k) \/ Created(k) \/ CreateLost(k) \/ CallFails(k)
    \/ Bundle(k) \/ ValidateFails(k) \/ RetainCommit(k) \/ RetainCheck(k)
    \/ RetainAttestation(k)

RemoteNext ==
    \/ Tick \/ Bind \/ ProducersAdopted \/ Dispatch \/ DispatchByMessage \/ Revoke \/ CentralStops
    \/ \E on \in BOOLEAN : ControlPlan(on)
    \/ \E s \in Callers, o \in Ops : ObserveCommit(s, o) \/ ObserveCI(s, o) \/ ObserveInputs(s, o)
    \/ \E k \in Callers \X Ops : Step(k)
    \/ \E d \in AdoptOps, src \in CommitOps : Adopt(d, src) \/ AdoptAgain(d, src)

RemoteSpec == RemoteInit /\ [][RemoteNext]_remoteVars

-----------------------------------------------------------------------------
Phases == {"idle", "lookup", "create", "created", "bundle", "validate", "answered"}

RemoteTypeOK ==
    /\ now \in 0..MaxTime /\ control \in 1..MaxControl
    /\ {active, bound, revoked, upstream} \subseteq BOOLEAN
    /\ intent \in {"none", "scheduler", "message"}
    /\ op \in [Ops -> [state : {"absent"} \cup Pending \cup Terminal, ctl : 0..MaxControl]]
    /\ obs \in [Ops -> Records \cup {Nil}] /\ effect \in [Ops -> Records \cup {Nil}]
    /\ \A o \in Ops : effect[o] \in {Nil} \cup Effects(o)
    /\ call \in [Callers \X Ops -> [phase : Phases, got : Records \cup {Nil}]]
    /\ answer \in [AdoptOps -> {"none", "adopted", "conflict"}]

\* An operation has succeeded exactly when its observation is retained, and what is retained
\* is the record the provider has under that operation, of the identity that was asked for:
\* also when two sessions wait on the provider for one operation, one of them is told that
\* the bundle is bad or times out, or Central stops in between
\* (RemoteEvidenceRepository.retainCommit, retainCI, markFailed).
RetainedOnce ==
    \A o \in Ops :
        /\ (op[o].state = "succeeded") <=> (obs[o] # Nil)
        /\ obs[o] # Nil => obs[o] = effect[o] /\ obs[o] \notin {"foreign", "bad"}

\* No source and no receipt is retained under a revoked binding, although the calls that
\* were waiting on the provider saw it in force; and nothing is adopted from then on
\* (the triggers of 0078 and 0082).
RevokedNoEvidence ==
    revoked => /\ \A o \in CommitOps \cup CIOps : obs'[o] = obs[o]
               /\ adoption' = adoption

\* An adopted output rests on the passing record the provider holds for every required
\* check of the adopted commit, observed under the control revision it was adopted under
\* (RemoteEvidenceAdoptionService.adoptVerified).
AdoptionProven ==
    adoption # Nil =>
        /\ effect[adoption.source] = "good"
        /\ op[adoption.source].ctl = adoption.ctl
        /\ \A c \in Checks : \E o \in adoption.proofs :
            CheckOf[o] = c /\ SourceOf[o] = adoption.source /\ effect[o] = "passed"

\* The scheduler and an adoption exclude each other: neither overtakes the other between its
\* check and its write (existingAttempt; the trigger of the adoptions).  Nothing is said of a
\* member's message, which may have an adopted node run after all.
SchedulerSparesAdopted == ~(intent = "scheduler" /\ adoption # Nil)

\* Evidence is retained once, as the provider holds it, and an adoption rests on passing
\* records and is never the scheduler's to run.
RemoteEvidenceTrue == RemoteTypeOK /\ RetainedOnce /\ AdoptionProven /\ SchedulerSparesAdopted
=============================================================================
