------------------------------ MODULE TaskWork ------------------------------
(***************************************************************************)
(* One ordinary (not default) Task of Central with the Runs made for it,   *)
(* the Results proposed for it and the commands its Owner gives: the       *)
(* definition, control and block commands of AgentTaskService, the PATCH   *)
(* kept for older clients, the Runs a message, a retry or a hand-off       *)
(* creates, the acknowledgement of an ambiguous outcome, and the proposal  *)
(* and review of Results.  Every action is one request, which Central      *)
(* serves in one immediate SQLite transaction.                             *)
(*                                                                         *)
(* A command carries the Task revision its sender saw and an operation     *)
(* identity; a stale or repeated command writes nothing, so only commands  *)
(* on the current revision are steps here.  The identity of a retry is     *)
(* kept, because a retry does not advance the revision.  How a Run         *)
(* executes is the subject of RunDelivery and HostedRun: here it is active *)
(* until it has ended in one of the ways the Task tells apart.             *)
(***************************************************************************)
EXTENDS Naturals, Sequences, FiniteSets, Functions, RunLineage

CONSTANTS
    Agents,             \* the Agents of the Room
    Operations,         \* identities of retry commands
    AllowAgentMentions, \* the Room policy: may Agents hand work to Agents
    MaxMentionDepth,    \* the Room policy: how deep a chain of hand-offs gets
    CompatibilityPatch, \* do older clients PATCH the Task
    MaxRuns,            \* bound: Runs of the Task
    MaxResults,         \* bound: Results of the Task
    MaxRevision,        \* bound: Task revision
    MaxAttempts         \* bound: largest budget of Run attempts

ASSUME TaskWorkAssumption ==
    /\ AllowAgentMentions \in BOOLEAN /\ CompatibilityPatch \in BOOLEAN
    /\ {MaxMentionDepth, MaxRuns, MaxResults, MaxRevision, MaxAttempts} \subseteq Nat
    /\ MaxAttempts > 0 /\ MaxRevision > 0
    /\ None \notin Nat \cup Operations

VARIABLES
    task,       \* the agent_tasks row
    runs,       \* runs in attempt order: the position is the attempt number
    acked,      \* Runs with a row in run_ambiguity_acknowledgements
    results     \* task_results in version order

vars == <<task, runs, acked, results>>

Lifecycles == {"draft", "ready", "active", "review", "completed", "canceled"}
TerminalLifecycles == {"completed", "canceled"}
Policies == {"owner_confirmed", "accepted_result_required"}
RunStates == {"active", "completed", "failed", "outcome_unknown"}

TypeOK ==
    /\ task \in [lifecycle : Lifecycles, scheduling : {"enabled", "paused"},
                 policy : Policies, revision : 1..MaxRevision,
                 definition : 1..MaxRevision, maxAttempts : 1..MaxAttempts,
                 attempts : 0..MaxRuns, timeSpent : BOOLEAN,
                 completion : 1..MaxResults \cup {None}, blocks : 0..1,
                 assigned : SUBSET Agents]
    /\ runs \in Seq([agent : Agents, trigger : 1..MaxRuns, parent : 1..MaxRuns \cup {None},
                     retryOf : 1..MaxRuns \cup {None}, operation : Operations \cup {None},
                     state : RunStates])
    /\ task.attempts = Len(runs)
    /\ acked \subseteq DOMAIN runs
    /\ results \in Seq([state : {"proposed", "accepted", "rejected", "superseded"},
                        definition : 1..MaxRevision, covers : BOOLEAN])

Init ==
    /\ \E lifecycle \in {"draft", "ready"}, policy \in Policies, assigned \in SUBSET Agents :
         task = [lifecycle |-> lifecycle, scheduling |-> "enabled", policy |-> policy,
                 revision |-> 1, definition |-> 1, maxAttempts |-> MaxAttempts,
                 attempts |-> 0, timeSpent |-> FALSE, completion |-> None,
                 blocks |-> 0, assigned |-> assigned]
    /\ runs = <<>> /\ acked = {} /\ results = <<>>

-----------------------------------------------------------------------------
(* What the Task's commands ask of its row and of its Runs. *)

\* hasActiveWork, for the Runs of the Task.
HasActiveWork == \E r \in DOMAIN runs : runs[r].state = "active"

\* hasUnacknowledgedAmbiguity
HasUnacknowledgedAmbiguity ==
    \E r \in DOMAIN runs \ acked : runs[r].state = "outcome_unknown"

\* isRunTaskRunnable: the lifecycle, the scheduling state and both budgets.
Runnable ==
    /\ task.lifecycle \in {"ready", "active", "review"}
    /\ task.scheduling = "enabled"
    /\ task.attempts < task.maxAttempts
    /\ ~task.timeSpent

\* Mutant: a completed Task may be made active again.
MayTransitionReopening(from, to) ==
    \/ from = "completed" /\ to = "active"
    \/ from = "ready" /\ to \in {"active", "canceled"}
    \/ from \in {"active", "review"} /\ to \in {"review", "completed", "canceled"}

\* allowedLifecycleTransitions
MayTransition(from, to) ==
    \/ from = "draft"  /\ to \in {"ready", "canceled"}
    \/ from = "ready"  /\ to \in {"draft", "active", "canceled"}
    \/ from = "active" /\ to \in {"review", "completed", "canceled"}
    \/ from = "review" /\ to \in {"active", "completed", "canceled"}

\* The trigger on the completion Result, fired by every update that names the
\* lifecycle, the completion policy or the completion Result, of the row t.
CompletionResultValid(t) ==
    /\ t.completion # None =>
         /\ results[t.completion].state = "accepted"
         /\ results[t.completion].definition = t.definition
         /\ t.lifecycle = "completed" => results[t.completion].covers
    /\ t.lifecycle = "completed" /\ t.policy = "accepted_result_required" =>
         t.completion # None

\* Every mutation advances the Task revision by one.
Advance(t) == task' = [t EXCEPT !.revision = @ + 1] /\ task.revision < MaxRevision

-----------------------------------------------------------------------------
(* Commands of the Task Owner on the Task itself. *)

\* updateDefinition: title, goal or criteria (changed), policy, both budgets
\* (timeSpent: the time the Runs took exhausts the new one) and assignments.
UpdateDefinition(changed, policy, maxAttempts, timeSpent, assigned) ==
    LET t == [task EXCEPT !.definition = IF changed THEN @ + 1 ELSE @,
                          !.policy = policy, !.maxAttempts = maxAttempts,
                          !.timeSpent = timeSpent, !.assigned = assigned]
    IN  /\ timeSpent => \E r \in DOMAIN runs : runs[r].state # "active"
        /\ CompletionResultValid(t)
        /\ Advance(t)
        /\ UNCHANGED <<runs, acked, results>>

\* What the service asks before a control command: the transition, and the
\* fences before a terminal state.  task.lifecycle: the command names no state.
ControlAllowed(lifecycle) ==
    lifecycle # task.lifecycle =>
      /\ MayTransition(task.lifecycle, lifecycle)
      /\ lifecycle \in TerminalLifecycles => ~HasActiveWork /\ ~HasUnacknowledgedAmbiguity
      /\ lifecycle = "completed" => task.policy # "accepted_result_required"

\* updateControl: a lifecycle state, a scheduling state, or both.
UpdateControl(lifecycle, scheduling) ==
    /\ ControlAllowed(lifecycle)
    /\ LET t == [task EXCEPT !.lifecycle = lifecycle, !.scheduling = scheduling]
       IN  CompletionResultValid(t) /\ Advance(t)
    /\ UNCHANGED <<runs, acked, results>>

AddBlock ==
    /\ task.lifecycle \notin TerminalLifecycles
    /\ task.blocks = 0                           \* bound: one open block
    /\ Advance([task EXCEPT !.blocks = 1])
    /\ UNCHANGED <<runs, acked, results>>

ResolveBlock ==
    /\ task.blocks = 1
    /\ Advance([task EXCEPT !.blocks = 0])
    /\ UNCHANGED <<runs, acked, results>>

\* lifecycleState, applied to a legacy state or, when the PATCH names none, to
\* the legacy state the row holds (legacyState of its lifecycle).
LifecycleState(state) ==
    IF state \in {"working", "blocked", "active"} THEN "active"
    ELSE IF state \in {"review", "completed", "canceled"} THEN state ELSE "ready"

\* What AgentTaskService.update asks before a PATCH.
PatchAllowed(state) ==
    /\ state \in TerminalLifecycles /\ task.lifecycle \notin TerminalLifecycles =>
         ~HasActiveWork
    /\ state = "completed" /\ state # task.lifecycle =>
         task.policy # "accepted_result_required"

\* The PATCH of older clients: a legacy state, or task.lifecycle when the
\* request names no state, and perhaps a new title or goal.
PatchTask(state, changed) ==
    /\ CompatibilityPatch
    /\ PatchAllowed(state)
    /\ LET t == [task EXCEPT !.lifecycle = LifecycleState(state),
                             !.definition = IF changed THEN @ + 1 ELSE @]
       IN  CompletionResultValid(t) /\ Advance(t)
    /\ UNCHANGED <<runs, acked, results>>

-----------------------------------------------------------------------------
(* Runs: created by messages, retries and hand-offs. *)

NewRun(agent, trigger, parent, retryOf, operation) ==
    [agent |-> agent, trigger |-> trigger, parent |-> parent, retryOf |-> retryOf,
     operation |-> operation, state |-> "active"]

\* createRuns: the rows are inserted and a trigger counts each one.
CreateRuns(new) ==
    /\ Len(runs) + Len(new) <= MaxRuns
    /\ runs' = runs \o new
    /\ task' = [task EXCEPT !.attempts = @ + Len(new)]
    /\ UNCHANGED <<acked, results>>

\* What the message is stored under: a Task that takes work, and assigned Agents.
MessageAccepted(mentions) == Runnable /\ Range(mentions) \subseteq task.assigned

\* A member's message that mentions Agents, stored and routed in one transaction.
MessageRuns(mentions) ==
    /\ MessageAccepted(mentions)
    /\ CreateRuns([i \in DOMAIN mentions |->
                     NewRun(mentions[i], Len(runs) + 1, None, None, None)])

\* createRetry: a new attempt of the same Agent, with a trigger message of its own.
CreateRetry(parent, operation) ==
    /\ \A r \in DOMAIN runs : runs[r].operation # operation
    /\ runs[parent].state \in {"failed", "outcome_unknown"}
    /\ runs[parent].state = "outcome_unknown" => parent \in acked
    /\ Runnable
    /\ runs[parent].agent \in task.assigned
    /\ CreateRuns(<<NewRun(runs[parent].agent, Len(runs) + 1, None, parent, operation)>>)

\* acknowledgeAmbiguity
AcknowledgeAmbiguity(r) ==
    /\ runs[r].state = "outcome_unknown"
    /\ r \notin acked
    /\ acked' = acked \cup {r}
    /\ Advance(task)
    /\ UNCHANGED <<runs, results>>

\* HandoffService.createChild, reached from the MCP tool and from the Agents a
\* reply mentions.  It asks neither for the state of the Task nor for its budget.
Handoff(parent, agent) ==
    /\ AllowAgentMentions
    /\ agent \in task.assigned
    /\ LineageAllows(runs, parent, agent, MaxMentionDepth)
    /\ TriggerFree(runs, runs[parent].trigger, agent)
    /\ CreateRuns(<<NewRun(agent, runs[parent].trigger, parent, None, None)>>)

\* A Run ends, and the trigger adds its duration, which may exhaust the budget.
RunEnds(r, state) ==
    /\ runs[r].state = "active"
    /\ runs' = [runs EXCEPT ![r].state = state]
    /\ \E spent \in BOOLEAN : task' = [task EXCEPT !.timeSpent = @ \/ spent]
    /\ UNCHANGED <<acked, results>>

-----------------------------------------------------------------------------
(* Results: proposed, reviewed, and completing the Task. *)

\* ResultRepository.create.  covers: the outcome can complete a Task and every
\* required criterion has a satisfied claim with Artifact evidence.
ProposeResult(covers, supersedes) ==
    /\ task.lifecycle \in {"active", "review"}
    /\ Len(results) < MaxResults
    /\ supersedes # None => results[supersedes].state \in {"proposed", "rejected"}
    /\ results' = Append([i \in DOMAIN results |->
                            IF i = supersedes THEN [results[i] EXCEPT !.state = "superseded"]
                            ELSE results[i]],
                         [state |-> "proposed", definition |-> task.definition,
                          covers |-> covers])
    /\ Advance(task)
    /\ UNCHANGED <<runs, acked>>

\* Mutant: the active work of the Task is not asked for.
CompletableBusy(result) ==
    /\ results[result].covers
    /\ task.lifecycle \in {"active", "review"}
    /\ ~HasUnacknowledgedAmbiguity

\* requireCompletable
Completable(result) ==
    /\ results[result].covers
    /\ task.lifecycle \in {"active", "review"}
    /\ ~HasActiveWork /\ ~HasUnacknowledgedAmbiguity
    /\ task.blocks = 0

\* ResultRepository.review
ReviewResult(result, decision, completeTask) ==
    /\ results[result].state = "proposed"
    /\ completeTask => decision = "accepted" /\ Completable(result)
    /\ decision = "accepted" => results[result].definition = task.definition
    /\ results' = [results EXCEPT ![result].state = decision]
    /\ Advance(IF completeTask
               THEN [task EXCEPT !.lifecycle = "completed", !.completion = result]
               ELSE task)
    /\ UNCHANGED <<runs, acked>>

-----------------------------------------------------------------------------
MaxMentions == 2    \* bound: Agents one message mentions
MentionLists == {s \in UNION {[1..n -> Agents] : n \in 1..MaxMentions} : IsInjective(s)}

Next ==
    \/ \E changed \in BOOLEAN, policy \in Policies, maxAttempts \in 1..MaxAttempts,
          timeSpent \in BOOLEAN, assigned \in SUBSET Agents :
            UpdateDefinition(changed, policy, maxAttempts, timeSpent, assigned)
    \/ \E lifecycle \in Lifecycles, scheduling \in {"enabled", "paused"} :
          UpdateControl(lifecycle, scheduling)
    \/ AddBlock \/ ResolveBlock
    \/ \E state \in {"open", "working", "blocked", "review", "completed", "canceled",
                     task.lifecycle}, changed \in BOOLEAN : PatchTask(state, changed)
    \/ \E mentions \in MentionLists : MessageRuns(mentions)
    \/ \E r \in DOMAIN runs :
          \/ \E operation \in Operations : CreateRetry(r, operation)
          \/ \E agent \in Agents : Handoff(r, agent)
          \/ AcknowledgeAmbiguity(r)
          \/ \E state \in RunStates \ {"active"} : RunEnds(r, state)
    \/ \E covers \in BOOLEAN, supersedes \in DOMAIN results \cup {None} :
          ProposeResult(covers, supersedes)
    \/ \E result \in DOMAIN results, decision \in {"accepted", "rejected"},
          completeTask \in BOOLEAN : ReviewResult(result, decision, completeTask)

Spec == Init /\ [][Next]_vars

-----------------------------------------------------------------------------
(* Properties *)

\* A completed or canceled Task has no Run still going, and no Run whose
\* outcome nobody knows and nobody acknowledged (the active-work and ambiguity
\* fences of updateControl and requireCompletable).
TerminalTaskSettled ==
    task.lifecycle \in TerminalLifecycles => ~HasActiveWork /\ ~HasUnacknowledgedAmbiguity

\* The Result a Task was completed with was accepted, covers the criteria and
\* is about the definition the Task still has, whatever the Owner edits later;
\* a Task that requires a Result is never complete without one.
CompletionJustified ==
    /\ task.completion # None =>
         /\ results[task.completion].state = "accepted"
         /\ results[task.completion].covers
         /\ results[task.completion].definition = task.definition
    /\ task.lifecycle = "completed" /\ task.policy = "accepted_result_required" =>
         task.completion # None

\* A Run whose outcome is unknown was retried only once its ambiguity was
\* acknowledged, and a retry command, however often it is repeated, made one Run.
RetriesAuthorized ==
    \A r \in DOMAIN runs : runs[r].retryOf # None =>
      /\ runs[runs[r].retryOf].state \in {"failed", "outcome_unknown"}
      /\ runs[runs[r].retryOf].state = "outcome_unknown" => runs[r].retryOf \in acked
      /\ \A q \in DOMAIN runs : runs[q].operation = runs[r].operation => q = r

\* A chain of hand-offs visits no Agent twice and is no deeper than the Room
\* allows, so that replies that mention each other come to an end.
HandoffsEnd ==
    \A r \in DOMAIN runs :
      /\ Cardinality(LineageAgents(runs, r)) = Cardinality(Lineage(runs, r))
      /\ Cardinality(Lineage(runs, r)) <= MaxMentionDepth + 1

\* A step that never reopens a completed or canceled Task, nor turns it from one
\* into the other.
Closed == task.lifecycle \in TerminalLifecycles => task'.lifecycle = task.lifecycle

\* What the commands on a Task promise (updateControl, requireCompletable,
\* createRetry).  The PATCH of older clients and a hand-off between Agents, which
\* asks for no state of the Task, do not keep TerminalTaskSettled.
TaskKept ==
    /\ TypeOK /\ CompletionJustified /\ RetriesAuthorized
    /\ ~CompatibilityPatch /\ ~AllowAgentMentions => TerminalTaskSettled

\* Without the PATCH of older clients a Task that is over stays as it ended
\* (allowedLifecycleTransitions, requireCompletable).
ClosedTaskStays == [][~CompatibilityPatch => Closed]_vars

=============================================================================
