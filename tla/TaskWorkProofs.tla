--------------------------- MODULE TaskWorkProofs ---------------------------
(***************************************************************************)
(* Proofs about TaskWork for any Agents, retry commands, Room policy and    *)
(* number of Runs, Results and revisions: a Task is completed only with a   *)
(* Result that was accepted for the definition it still has, an ambiguous   *)
(* Run is retried only once it was acknowledged, and a Task that is over    *)
(* has no work left and stays over.                                         *)
(*                                                                          *)
(* Then about DiscussionWave for any roster, policy and bounds: a           *)
(* Discussion has one open Wave or rests, closes a Wave early only with its *)
(* quorum, charges every Wave once, keeps a private Result private, and     *)
(* never changes what a Wave has settled.                                   *)
(***************************************************************************)
EXTENDS TaskWork, DiscussionWave, FiniteSetTheorems, TLAPS

-----------------------------------------------------------------------------
(* The inductive invariant                                                 *)

TaskType ==
  [lifecycle : Lifecycles, scheduling : {"enabled", "paused"}, policy : Policies,
   revision : 1..MaxRevision, definition : 1..MaxRevision, maxAttempts : 1..MaxAttempts,
   attempts : 0..MaxRuns, timeSpent : BOOLEAN, completion : 1..MaxResults \cup {None},
   blocks : 0..1, assigned : SUBSET Agents]
RunType ==
  [agent : Agents, trigger : 1..MaxRuns, parent : 1..MaxRuns \cup {None},
   retryOf : 1..MaxRuns \cup {None}, operation : Operations \cup {None}, state : RunStates]
ResultType ==
  [state : {"proposed", "accepted", "rejected", "superseded"}, definition : 1..MaxRevision,
   covers : BOOLEAN]

\* The row of the Task agrees with its Runs and Results, and its definition is not newer
\* than the row.
RowOK ==
  /\ task \in TaskType /\ task.attempts = Len(runs)
  /\ task.definition <= task.revision
  /\ task.completion # None => task.completion \in DOMAIN results

\* A retry names the Run it repeats and the command that asked for it.
RunsOK ==
  /\ runs \in Seq(RunType) /\ acked \subseteq DOMAIN runs
  /\ \A r \in DOMAIN runs : runs[r].retryOf # None =>
        runs[r].retryOf \in DOMAIN runs /\ runs[r].operation # None

ResultsOK == results \in Seq(ResultType) /\ Len(results) <= MaxResults

Settled == ~CompatibilityPatch /\ ~AllowAgentMentions => TerminalTaskSettled

TaskInv ==
  RowOK /\ RunsOK /\ ResultsOK /\ CompletionJustified /\ RetriesAuthorized /\ Settled

\* The invariant is what the run checks, and what makes it inductive.
LEMMA InvKept == TaskInv => TaskKept
BY DEF TaskInv, TaskKept, RowOK, RunsOK, ResultsOK, Settled, TypeOK, TaskType, RunType,
       ResultType

\* A new Task satisfies it.
LEMMA InitOK == Init => TaskInv
<1> SUFFICES ASSUME Init PROVE TaskInv
  OBVIOUS
<1>1. runs = <<>> /\ acked = {} /\ results = <<>> BY DEF Init
<1>2. PICK lifecycle \in {"draft", "ready"}, policy \in Policies, assigned \in SUBSET Agents :
        task = [lifecycle |-> lifecycle, scheduling |-> "enabled", policy |-> policy,
                revision |-> 1, definition |-> 1, maxAttempts |-> MaxAttempts,
                attempts |-> 0, timeSpent |-> FALSE, completion |-> None,
                blocks |-> 0, assigned |-> assigned]
  BY DEF Init
<1>3. RunsOK /\ ResultsOK BY <1>1, TaskWorkAssumption DEF RunsOK, ResultsOK
<1>4. RowOK BY <1>1, <1>2, TaskWorkAssumption DEF RowOK, TaskType, Lifecycles
<1>5. CompletionJustified /\ RetriesAuthorized /\ Settled
  BY <1>1, <1>2 DEF CompletionJustified, RetriesAuthorized, Settled, TerminalTaskSettled,
                    TerminalLifecycles
<1> QED BY <1>3, <1>4, <1>5 DEF TaskInv
-----------------------------------------------------------------------------
(* Steps on the row of the Task                                            *)

\* A row that a command leaves behind is justified by the Results as they are, and is over
\* only if it was before or nothing is left to do.
LEMMA RowStep ==
  ASSUME TaskInv, UNCHANGED <<runs, acked, results>>,
         task' \in TaskType, task'.attempts = task.attempts,
         task'.completion = task.completion, task'.definition <= task'.revision,
         task.completion # None => results[task.completion].definition = task'.definition,
         task'.lifecycle = "completed" /\ task'.policy = "accepted_result_required"
           => task.completion # None,
         ~CompatibilityPatch /\ task'.lifecycle \in TerminalLifecycles =>
           \/ task.lifecycle \in TerminalLifecycles
           \/ ~HasActiveWork /\ ~HasUnacknowledgedAmbiguity
  PROVE  TaskInv'
<1>1. RowOK' BY DEF TaskInv, RowOK
<1>2. RunsOK' /\ ResultsOK' BY DEF TaskInv, RunsOK, ResultsOK
<1>3. CompletionJustified' BY DEF TaskInv, CompletionJustified
<1>4. RetriesAuthorized' BY DEF TaskInv, RetriesAuthorized
<1>5. Settled'
  BY DEF TaskInv, Settled, TerminalTaskSettled, HasActiveWork, HasUnacknowledgedAmbiguity
<1> QED BY <1>1, <1>2, <1>3, <1>4, <1>5 DEF TaskInv

\* A row whose revision advances keeps its type.
LEMMA AdvanceTyped ==
  ASSUME NEW t \in TaskType, t.revision = task.revision, Advance(t)
  PROVE  task' \in TaskType
<1>1. task.revision + 1 \in 1..MaxRevision
  BY TaskWorkAssumption DEF Advance, TaskType
<1>2. task' = [t EXCEPT !.revision = task.revision + 1]
  BY DEF Advance
<1> DEFINE v == task.revision + 1
<1>3. v \in 1..MaxRevision /\ task' = [t EXCEPT !.revision = v] BY <1>1, <1>2
<1> HIDE DEF v
<1> QED BY <1>3 DEF TaskType

\* The commands of the Owner on the row, and the PATCH of older clients.
LEMMA UpdateDefinitionKeeps ==
  ASSUME TaskInv, NEW changed \in BOOLEAN, NEW policy \in Policies,
         NEW maxAttempts \in 1..MaxAttempts, NEW timeSpent \in BOOLEAN,
         NEW assigned \in SUBSET Agents,
         UpdateDefinition(changed, policy, maxAttempts, timeSpent, assigned)
  PROVE  TaskInv'
<1> DEFINE d == IF changed THEN task.definition + 1 ELSE task.definition
<1> DEFINE t == [task EXCEPT !.definition = d, !.policy = policy, !.maxAttempts = maxAttempts,
                             !.timeSpent = timeSpent, !.assigned = assigned]
<1>1. task \in TaskType /\ task.definition <= task.revision /\ task.revision < MaxRevision
  BY DEF TaskInv, RowOK, UpdateDefinition, Advance
<1>2. d \in 1..(task.revision + 1)
  BY <1>1 DEF TaskType
<1>3. /\ task' = [t EXCEPT !.revision = @ + 1] /\ CompletionResultValid(t)
      /\ UNCHANGED <<runs, acked, results>>
  BY <1>1 DEF UpdateDefinition, Advance, TaskType
<1> HIDE DEF d
<1>4. /\ task'.definition = d /\ task'.policy = policy /\ task'.maxAttempts = maxAttempts
      /\ task'.timeSpent = timeSpent /\ task'.assigned = assigned
      /\ task'.revision = task.revision + 1
      /\ task'.lifecycle = task.lifecycle /\ task'.attempts = task.attempts
      /\ task'.completion = task.completion
      /\ t.definition = d /\ t.policy = policy /\ t.lifecycle = task.lifecycle
      /\ t.completion = task.completion
  BY <1>1, <1>3 DEF TaskType
<1>5. task' \in TaskType
  <2>1. d \in 1..MaxRevision BY <1>1, <1>2, TaskWorkAssumption DEF TaskType
  <2>2. t \in TaskType /\ t.revision = task.revision BY <1>1, <1>2, <2>1 DEF TaskType
  <2>3. Advance(t) BY <1>1, <1>3 DEF Advance
  <2> QED BY <2>2, <2>3, AdvanceTyped
<1>6. task'.definition <= task'.revision
  BY <1>1, <1>2, <1>4 DEF TaskType
<1> HIDE DEF t
<1>7. /\ task.completion # None => results[task.completion].definition = task'.definition
      /\ task'.lifecycle = "completed" /\ task'.policy = "accepted_result_required"
           => task.completion # None
  BY <1>3, <1>4 DEF CompletionResultValid
<1> QED BY <1>3, <1>4, <1>5, <1>6, <1>7, RowStep

\* updateControl
LEMMA UpdateControlKeeps ==
  ASSUME TaskInv, NEW lifecycle \in Lifecycles, NEW scheduling \in {"enabled", "paused"},
         UpdateControl(lifecycle, scheduling)
  PROVE  TaskInv'
<1> DEFINE t == [task EXCEPT !.lifecycle = lifecycle, !.scheduling = scheduling]
<1>1. task \in TaskType /\ task.definition <= task.revision /\ task.revision < MaxRevision
  BY DEF TaskInv, RowOK, UpdateControl, Advance
<1>2. /\ task' = [t EXCEPT !.revision = @ + 1] /\ CompletionResultValid(t)
      /\ UNCHANGED <<runs, acked, results>>
  BY DEF UpdateControl, Advance
<1>3. /\ task'.definition = task.definition /\ task'.policy = task.policy
      /\ task'.revision = task.revision + 1
      /\ task'.lifecycle = lifecycle /\ task'.attempts = task.attempts
      /\ task'.completion = task.completion
      /\ t.definition = task.definition /\ t.policy = task.policy /\ t.lifecycle = lifecycle
      /\ t.completion = task.completion
  BY <1>1, <1>2 DEF TaskType
<1>4. task' \in TaskType /\ task'.definition <= task'.revision
  <2>1. t \in TaskType /\ t.revision = task.revision BY <1>1 DEF TaskType
  <2>2. Advance(t) BY <1>1, <1>2 DEF Advance
  <2>3. task' \in TaskType BY <2>1, <2>2, AdvanceTyped
  <2> QED BY <1>1, <1>3, <2>3 DEF TaskType
<1> HIDE DEF t
<1>5. /\ task.completion # None => results[task.completion].definition = task'.definition
      /\ task'.lifecycle = "completed" /\ task'.policy = "accepted_result_required"
           => task.completion # None
  BY <1>2, <1>3 DEF CompletionResultValid
<1>6. task'.lifecycle \in TerminalLifecycles =>
        task.lifecycle \in TerminalLifecycles \/ (~HasActiveWork /\ ~HasUnacknowledgedAmbiguity)
  BY <1>3 DEF UpdateControl, ControlAllowed
<1> QED BY <1>2, <1>3, <1>4, <1>5, <1>6, RowStep

\* The PATCH, which the promise about Tasks that are over leaves out.
LEMMA PatchKeeps ==
  ASSUME TaskInv, NEW state, NEW changed \in BOOLEAN, PatchTask(state, changed)
  PROVE  TaskInv'
<1> DEFINE d == IF changed THEN task.definition + 1 ELSE task.definition
<1> DEFINE l == LifecycleState(state)
<1> DEFINE t == [task EXCEPT !.lifecycle = l, !.definition = d]
<1>1. task \in TaskType /\ task.definition <= task.revision /\ task.revision < MaxRevision
      /\ CompatibilityPatch
  BY DEF TaskInv, RowOK, PatchTask, Advance
<1>2. d \in 1..(task.revision + 1) /\ l \in Lifecycles
  BY <1>1 DEF TaskType, LifecycleState, Lifecycles
<1>3. /\ task' = [t EXCEPT !.revision = @ + 1] /\ CompletionResultValid(t)
      /\ UNCHANGED <<runs, acked, results>>
  BY <1>1 DEF PatchTask, Advance, TaskType
<1> HIDE DEF d, l
<1>4. /\ task'.definition = d /\ task'.policy = task.policy
      /\ task'.revision = task.revision + 1
      /\ task'.lifecycle = l /\ task'.attempts = task.attempts
      /\ task'.completion = task.completion
      /\ t.definition = d /\ t.policy = task.policy /\ t.lifecycle = l
      /\ t.completion = task.completion
  BY <1>1, <1>3 DEF TaskType
<1>5. task' \in TaskType
  <2>1. d \in 1..MaxRevision BY <1>1, <1>2, TaskWorkAssumption DEF TaskType
  <2>2. t \in TaskType /\ t.revision = task.revision BY <1>1, <1>2, <2>1 DEF TaskType
  <2>3. Advance(t) BY <1>1, <1>3 DEF Advance
  <2> QED BY <2>2, <2>3, AdvanceTyped
<1>6. task'.definition <= task'.revision
  BY <1>1, <1>2, <1>4 DEF TaskType
<1> HIDE DEF t
<1>7. /\ task.completion # None => results[task.completion].definition = task'.definition
      /\ task'.lifecycle = "completed" /\ task'.policy = "accepted_result_required"
           => task.completion # None
  BY <1>3, <1>4 DEF CompletionResultValid
<1> QED BY <1>1, <1>3, <1>4, <1>5, <1>6, <1>7, RowStep

\* addBlock and resolveBlock
LEMMA BlockKeeps ==
  ASSUME TaskInv, AddBlock \/ ResolveBlock
  PROVE  TaskInv'
<1>1. task \in TaskType /\ task.definition <= task.revision
  BY DEF TaskInv, RowOK
<1>2. PICK b \in 0..1 : Advance([task EXCEPT !.blocks = b])
  BY DEF AddBlock, ResolveBlock
<1>3. UNCHANGED <<runs, acked, results>> BY DEF AddBlock, ResolveBlock
<1>4. /\ task'.definition = task.definition /\ task'.policy = task.policy
      /\ task'.revision = task.revision + 1 /\ task.revision < MaxRevision
      /\ task'.lifecycle = task.lifecycle /\ task'.attempts = task.attempts
      /\ task'.completion = task.completion
  BY <1>1, <1>2 DEF TaskType, Advance
<1>5. task' \in TaskType
  <2> DEFINE t == [task EXCEPT !.blocks = b]
  <2>1. t \in TaskType /\ t.revision = task.revision BY <1>1 DEF TaskType
  <2> QED BY <1>2, <2>1, AdvanceTyped
<1>6. task'.definition <= task'.revision
  BY <1>1, <1>4 DEF TaskType
<1>7. /\ task.completion # None => results[task.completion].definition = task'.definition
      /\ task'.lifecycle = "completed" /\ task'.policy = "accepted_result_required"
           => task.completion # None
  BY <1>4 DEF TaskInv, CompletionJustified
<1> QED BY <1>3, <1>4, <1>5, <1>6, <1>7, RowStep
-----------------------------------------------------------------------------
(* Steps on the Runs                                                       *)

\* The new row retries a Run that may be retried, for a command nobody gave before.
MayRetry(row) ==
  /\ row.retryOf \in DOMAIN runs /\ row.operation \in Operations
  /\ \A q \in DOMAIN runs : runs[q].operation # row.operation
  /\ runs[row.retryOf].state \in {"failed", "outcome_unknown"}
  /\ runs[row.retryOf].state = "outcome_unknown" => row.retryOf \in acked

\* Runs that are added begin active and retry nothing, or one is added that may retry the
\* Run it names. A Task that is over gets no Run, unless Agents hand work to Agents.
LEMMA AddedRunsKeep ==
  ASSUME TaskInv, NEW new \in Seq(RunType), CreateRuns(new),
         \A i \in 1..Len(new) :
           /\ new[i].state = "active"
           /\ \/ new[i].retryOf = None /\ new[i].operation = None
              \/ Len(new) = 1 /\ MayRetry(new[i]),
         AllowAgentMentions \/ task.lifecycle \notin TerminalLifecycles
  PROVE  TaskInv'
<1> USE TaskWorkAssumption
<1> DEFINE m == Len(runs)
<1>1. /\ runs \in Seq(RunType) /\ task \in TaskType /\ m \in Nat /\ Len(new) \in Nat
      /\ task.attempts = m /\ DOMAIN runs = 1..m
  BY DEF TaskInv, RowOK, RunsOK
<1>2. /\ runs' = runs \o new /\ m + Len(new) <= MaxRuns
      /\ task' = [task EXCEPT !.attempts = @ + Len(new)] /\ UNCHANGED <<acked, results>>
  BY DEF CreateRuns
<1>3. /\ runs' \in Seq(RunType) /\ Len(runs') = m + Len(new)
      /\ DOMAIN runs' = 1..(m + Len(new))
      /\ \A r \in 1..m : runs'[r] = runs[r]
      /\ \A r \in (m + 1)..(m + Len(new)) : runs'[r] = new[r - m]
  BY <1>1, <1>2
<1>4. \A r \in DOMAIN runs' :
        \/ r \in DOMAIN runs /\ runs'[r] = runs[r]
        \/ /\ r \notin DOMAIN runs /\ runs'[r].state = "active"
           /\ \/ runs'[r].retryOf = None /\ runs'[r].operation = None
              \/ /\ MayRetry(runs'[r])
                 /\ \A q \in DOMAIN runs' \ DOMAIN runs : q = r
  <2> SUFFICES ASSUME NEW r \in 1..(m + Len(new)), r \notin 1..m
               PROVE  /\ runs'[r].state = "active"
                      /\ \/ runs'[r].retryOf = None /\ runs'[r].operation = None
                         \/ /\ MayRetry(runs'[r])
                            /\ \A q \in DOMAIN runs' \ DOMAIN runs : q = r
    BY <1>1, <1>3
  <2>1. r - m \in 1..Len(new) /\ r \in (m + 1)..(m + Len(new)) BY <1>1
  <2>2. runs'[r] = new[r - m] BY <1>3, <2>1
  <2>3. Len(new) = 1 => \A q \in DOMAIN runs' \ DOMAIN runs : q = r BY <1>1, <1>3, <2>1
  <2> QED BY <2>1, <2>2, <2>3
<1>5. DOMAIN runs \subseteq DOMAIN runs' BY <1>1, <1>3
<1>6. /\ task'.attempts = Len(runs') /\ task'.lifecycle = task.lifecycle
      /\ task'.policy = task.policy /\ task'.definition = task.definition
      /\ task'.revision = task.revision /\ task'.completion = task.completion
  BY <1>1, <1>2, <1>3 DEF TaskType
<1>7. task' \in TaskType
  <2> DEFINE k == task.attempts + Len(new)
  <2>1. k \in 0..MaxRuns /\ task' = [task EXCEPT !.attempts = k] BY <1>1, <1>2
  <2> HIDE DEF k
  <2> QED BY <1>1, <2>1 DEF TaskType
<1> HIDE DEF m
<1>8. RowOK' BY <1>2, <1>6, <1>7 DEF TaskInv, RowOK
<1>9. RunsOK'
  <2>1. acked' \subseteq DOMAIN runs' BY <1>2, <1>5 DEF TaskInv, RunsOK
  <2>2. ASSUME NEW r \in DOMAIN runs', runs'[r].retryOf # None
        PROVE  runs'[r].retryOf \in DOMAIN runs' /\ runs'[r].operation # None
    <3>1. CASE r \in DOMAIN runs BY <1>4, <1>5, <2>2, <3>1 DEF TaskInv, RunsOK
    <3>2. CASE r \notin DOMAIN runs BY <1>4, <1>5, <2>2, <3>2 DEF MayRetry
    <3> QED BY <3>1, <3>2
  <2> QED BY <1>3, <2>1, <2>2 DEF RunsOK
<1>10. ResultsOK' BY <1>2 DEF TaskInv, ResultsOK
<1>11. CompletionJustified' BY <1>2, <1>6 DEF TaskInv, CompletionJustified
<1>12. RetriesAuthorized'
  <2> SUFFICES ASSUME NEW r \in DOMAIN runs', runs'[r].retryOf # None
               PROVE  /\ runs'[runs'[r].retryOf].state \in {"failed", "outcome_unknown"}
                      /\ runs'[runs'[r].retryOf].state = "outcome_unknown"
                           => runs'[r].retryOf \in acked'
                      /\ \A q \in DOMAIN runs' : runs'[q].operation = runs'[r].operation => q = r
    BY DEF RetriesAuthorized
  <2>1. CASE r \in DOMAIN runs
    <3>1. runs'[r] = runs[r] /\ runs[r].retryOf \in DOMAIN runs /\ runs[r].operation # None
      BY <1>4, <2>1 DEF TaskInv, RunsOK
    <3>2. runs'[runs[r].retryOf] = runs[runs[r].retryOf] BY <1>4, <1>5, <3>1
    <3>3. ASSUME NEW q \in DOMAIN runs', runs'[q].operation = runs'[r].operation PROVE q = r
      <4>1. CASE q \in DOMAIN runs
        BY <1>4, <2>1, <3>1, <3>3, <4>1 DEF TaskInv, RetriesAuthorized
      <4>2. CASE q \notin DOMAIN runs
        BY <1>4, <2>1, <3>1, <3>3, <4>2 DEF MayRetry
      <4> QED BY <4>1, <4>2
    <3> QED BY <1>2, <2>1, <3>1, <3>2, <3>3 DEF TaskInv, RetriesAuthorized
  <2>2. CASE r \notin DOMAIN runs
    <3>1. MayRetry(runs'[r]) /\ \A q \in DOMAIN runs' \ DOMAIN runs : q = r
      BY <1>4, <2>2
    <3>2. runs'[runs'[r].retryOf] = runs[runs'[r].retryOf]
      BY <1>4, <1>5, <3>1 DEF MayRetry
    <3>3. \A q \in DOMAIN runs' : runs'[q].operation = runs'[r].operation => q = r
      BY <1>4, <3>1 DEF MayRetry
    <3> QED BY <1>2, <3>1, <3>2, <3>3 DEF MayRetry
  <2> QED BY <2>1, <2>2
<1>13. Settled'
  BY <1>6 DEF Settled, TerminalTaskSettled
<1> QED BY <1>8, <1>9, <1>10, <1>11, <1>12, <1>13 DEF TaskInv

\* A member's message
LEMMA MessageKeeps ==
  ASSUME TaskInv, NEW mentions \in MentionLists, MessageRuns(mentions)
  PROVE  TaskInv'
<1> USE TaskWorkAssumption
<1> DEFINE new == [i \in DOMAIN mentions |-> NewRun(mentions[i], Len(runs) + 1, None, None, None)]
<1>1. PICK n \in 1..MaxMentions : mentions \in [1..n -> Agents]
  BY DEF MentionLists
<1>2. n \in Nat \ {0} BY DEF MaxMentions
<1>3. CreateRuns(new) /\ task.lifecycle \in {"ready", "active", "review"}
  BY DEF MessageRuns, MessageAccepted, Runnable
<1>4. Len(runs) \in Nat BY DEF TaskInv, RunsOK
<1>5. DOMAIN new = 1..n /\ Len(new) = n BY <1>1, <1>2
<1>6. Len(runs) + 1 \in 1..MaxRuns BY <1>2, <1>3, <1>4, <1>5 DEF CreateRuns
<1>7. \A i \in 1..n : new[i] \in RunType
  BY <1>1, <1>6 DEF NewRun, RunType, RunStates
<1>8. \A i \in 1..n : new[i].state = "active" /\ new[i].retryOf = None /\ new[i].operation = None
  BY <1>1 DEF NewRun
<1>9. new \in Seq(RunType) BY <1>2, <1>5, <1>7
<1> HIDE DEF new
<1> QED BY <1>3, <1>5, <1>8, <1>9, AddedRunsKeep DEF TerminalLifecycles

\* A hand-off
LEMMA HandoffKeeps ==
  ASSUME TaskInv, NEW parent \in DOMAIN runs, NEW agent \in Agents, Handoff(parent, agent)
  PROVE  TaskInv'
<1> USE TaskWorkAssumption
<1> DEFINE row == NewRun(agent, runs[parent].trigger, parent, None, None)
<1> DEFINE new == <<row>>
<1>1. CreateRuns(new) /\ AllowAgentMentions BY DEF Handoff
<1>2. runs \in Seq(RunType) /\ Len(runs) \in Nat /\ parent \in 1..Len(runs)
      /\ Len(runs) <= MaxRuns
  BY DEF TaskInv, RunsOK, RowOK, TaskType
<1>3. runs[parent].trigger \in 1..MaxRuns /\ parent \in 1..MaxRuns
  <2>1. runs[parent] \in RunType BY <1>2
  <2> QED BY <1>2, <2>1 DEF RunType
<1>4. row \in RunType BY <1>3 DEF NewRun, RunType, RunStates
<1>5. row.state = "active" /\ row.retryOf = None /\ row.operation = None BY DEF NewRun
<1> HIDE DEF row
<1>6. new \in Seq(RunType) /\ Len(new) = 1 /\ new[1] = row BY <1>4
<1> HIDE DEF new
<1> QED BY <1>1, <1>5, <1>6, AddedRunsKeep

\* createRetry
LEMMA RetryKeeps ==
  ASSUME TaskInv, NEW parent \in DOMAIN runs, NEW operation \in Operations,
         CreateRetry(parent, operation)
  PROVE  TaskInv'
<1> USE TaskWorkAssumption
<1> DEFINE row == NewRun(runs[parent].agent, Len(runs) + 1, None, parent, operation)
<1> DEFINE new == <<row>>
<1>1. CreateRuns(new) /\ task.lifecycle \in {"ready", "active", "review"}
  BY DEF CreateRetry, Runnable
<1>2. runs \in Seq(RunType) /\ Len(runs) \in Nat /\ parent \in 1..Len(runs)
  BY DEF TaskInv, RunsOK
<1>3. Len(runs) + 1 <= MaxRuns BY <1>1, <1>2 DEF CreateRuns
<1>4. runs[parent] \in RunType BY <1>2
<1>5. runs[parent].agent \in Agents BY <1>4 DEF RunType
<1>6. Len(runs) + 1 \in 1..MaxRuns /\ parent \in 1..MaxRuns BY <1>2, <1>3
<1>7. row \in RunType BY <1>5, <1>6 DEF NewRun, RunType, RunStates
<1>8. row.state = "active" /\ row.retryOf = parent /\ row.operation = operation
  BY DEF NewRun
<1> HIDE DEF row
<1>9. MayRetry(row) BY <1>8 DEF MayRetry, CreateRetry
<1>10. new \in Seq(RunType) /\ Len(new) = 1 /\ new[1] = row BY <1>7
<1> HIDE DEF new
<1> QED BY <1>1, <1>8, <1>9, <1>10, AddedRunsKeep DEF TerminalLifecycles

\* acknowledgeAmbiguity
LEMMA AcknowledgeKeeps ==
  ASSUME TaskInv, NEW r \in DOMAIN runs, AcknowledgeAmbiguity(r)
  PROVE  TaskInv'
<1>1. /\ task \in TaskType /\ Advance(task) /\ acked' = acked \cup {r}
      /\ UNCHANGED <<runs, results>>
  BY DEF TaskInv, RowOK, AcknowledgeAmbiguity
<1>2. task' \in TaskType BY <1>1, AdvanceTyped
<1>3. /\ task'.attempts = task.attempts /\ task'.lifecycle = task.lifecycle
      /\ task'.policy = task.policy /\ task'.definition = task.definition
      /\ task'.revision = task.revision + 1 /\ task'.completion = task.completion
  BY <1>1 DEF TaskType, Advance
<1>4. RowOK' BY <1>1, <1>2, <1>3 DEF TaskInv, RowOK, TaskType
<1>5. RunsOK' BY <1>1 DEF TaskInv, RunsOK
<1>6. ResultsOK' /\ CompletionJustified'
  BY <1>1, <1>3 DEF TaskInv, ResultsOK, CompletionJustified
<1>7. RetriesAuthorized' BY <1>1 DEF TaskInv, RetriesAuthorized
<1>8. Settled'
  BY <1>1, <1>3 DEF TaskInv, Settled, TerminalTaskSettled, HasActiveWork,
                    HasUnacknowledgedAmbiguity
<1> QED BY <1>4, <1>5, <1>6, <1>7, <1>8 DEF TaskInv

\* A Run ends: it was active, so that nobody has retried it, and its Task is not over.
LEMMA EndKeeps ==
  ASSUME TaskInv, NEW r \in DOMAIN runs, NEW state \in RunStates \ {"active"},
         RunEnds(r, state)
  PROVE  TaskInv'
<1>1. /\ runs \in Seq(RunType) /\ task \in TaskType /\ runs[r].state = "active"
      /\ runs' = [runs EXCEPT ![r].state = state] /\ UNCHANGED <<acked, results>>
  BY DEF TaskInv, RowOK, RunsOK, RunEnds
<1>2. PICK spent \in BOOLEAN : task' = [task EXCEPT !.timeSpent = @ \/ spent]
  BY DEF RunEnds
<1>3. /\ task'.attempts = task.attempts /\ task'.lifecycle = task.lifecycle
      /\ task'.policy = task.policy /\ task'.definition = task.definition
      /\ task'.revision = task.revision /\ task'.completion = task.completion
  BY <1>1, <1>2 DEF TaskType
<1>4. task' \in TaskType
  <2> DEFINE b == task.timeSpent \/ spent
  <2>1. task' = [task EXCEPT !.timeSpent = b] BY <1>2
  <2>2. b \in BOOLEAN OBVIOUS
  <2> HIDE DEF b
  <2> QED BY <1>1, <2>1, <2>2 DEF TaskType
<1>5. /\ runs' \in Seq(RunType) /\ Len(runs') = Len(runs) /\ DOMAIN runs' = DOMAIN runs
  <2>1. runs[r] \in RunType BY <1>1
  <2>2. [runs[r] EXCEPT !.state = state] \in RunType BY <2>1 DEF RunType
  <2> QED BY <1>1, <2>2
<1>6. \A q \in DOMAIN runs :
        /\ runs'[q].operation = runs[q].operation /\ runs'[q].retryOf = runs[q].retryOf
        /\ q # r => runs'[q] = runs[q]
  <2> SUFFICES ASSUME NEW q \in DOMAIN runs
               PROVE  /\ runs'[q].operation = runs[q].operation
                      /\ runs'[q].retryOf = runs[q].retryOf
                      /\ q # r => runs'[q] = runs[q]
    OBVIOUS
  <2>1. runs[q] \in RunType BY <1>1
  <2> QED BY <1>1, <2>1 DEF RunType
<1>7. RowOK' BY <1>1, <1>3, <1>4, <1>5 DEF TaskInv, RowOK
<1>8. RunsOK' BY <1>1, <1>5, <1>6 DEF TaskInv, RunsOK
<1>9. ResultsOK' /\ CompletionJustified'
  BY <1>1, <1>3 DEF TaskInv, ResultsOK, CompletionJustified
<1>10. RetriesAuthorized'
  <2> SUFFICES ASSUME NEW p \in DOMAIN runs', runs'[p].retryOf # None
               PROVE  /\ runs'[runs'[p].retryOf].state \in {"failed", "outcome_unknown"}
                      /\ runs'[runs'[p].retryOf].state = "outcome_unknown"
                           => runs'[p].retryOf \in acked'
                      /\ \A q \in DOMAIN runs' : runs'[q].operation = runs'[p].operation => q = p
    BY DEF RetriesAuthorized
  <2>1. p \in DOMAIN runs /\ runs[p].retryOf # None /\ runs'[p].retryOf = runs[p].retryOf
        /\ runs[p].retryOf \in DOMAIN runs
    BY <1>5, <1>6 DEF TaskInv, RunsOK
  <2>2. runs[runs[p].retryOf].state \in {"failed", "outcome_unknown"}
    BY <2>1 DEF TaskInv, RetriesAuthorized
  <2>3. runs'[runs[p].retryOf] = runs[runs[p].retryOf] BY <1>1, <1>6, <2>1, <2>2
  <2>4. \A q \in DOMAIN runs' : runs'[q].operation = runs'[p].operation => q = p
    BY <1>5, <1>6, <2>1 DEF TaskInv, RetriesAuthorized
  <2> QED BY <1>1, <2>1, <2>2, <2>3, <2>4 DEF TaskInv, RetriesAuthorized
<1>11. Settled'
  BY <1>1, <1>3 DEF TaskInv, Settled, TerminalTaskSettled, HasActiveWork
<1> QED BY <1>7, <1>8, <1>9, <1>10, <1>11 DEF TaskInv

-----------------------------------------------------------------------------
(* Steps on the Results                                                    *)

\* A Result is proposed: it supersedes none that was accepted.
LEMMA ProposeKeeps ==
  ASSUME TaskInv, NEW covers \in BOOLEAN, NEW supersedes \in DOMAIN results \cup {None},
         ProposeResult(covers, supersedes)
  PROVE  TaskInv'
<1> USE TaskWorkAssumption
<1>1. /\ task \in TaskType /\ Advance(task) /\ UNCHANGED <<runs, acked>>
      /\ results \in Seq(ResultType) /\ Len(results) \in Nat /\ Len(results) < MaxResults
      /\ DOMAIN results = 1..Len(results)
  BY DEF TaskInv, RowOK, ResultsOK, ProposeResult
<1> DEFINE old == [i \in DOMAIN results |->
                     IF i = supersedes THEN [results[i] EXCEPT !.state = "superseded"]
                     ELSE results[i]]
<1> DEFINE new == [state |-> "proposed", definition |-> task.definition, covers |-> covers]
<1>2. results' = Append(old, new) BY DEF ProposeResult
<1>3. \A i \in DOMAIN results : old[i] \in ResultType
  <2> SUFFICES ASSUME NEW i \in DOMAIN results PROVE old[i] \in ResultType
    OBVIOUS
  <2>1. results[i] \in ResultType BY <1>1
  <2>2. [results[i] EXCEPT !.state = "superseded"] \in ResultType BY <2>1 DEF ResultType
  <2> QED BY <2>1, <2>2
<1>4. \A i \in DOMAIN results : results[i].state = "accepted" => old[i] = results[i]
  BY DEF ProposeResult
<1>5. new \in ResultType BY <1>1 DEF TaskType, ResultType
<1>6. old \in [1..Len(results) -> ResultType] BY <1>1, <1>3
<1> HIDE DEF old, new
<1>7. old \in Seq(ResultType) /\ Len(old) = Len(results) BY <1>1, <1>6
<1>8. /\ results' \in Seq(ResultType) /\ Len(results') = Len(results) + 1
      /\ DOMAIN results \subseteq DOMAIN results'
      /\ \A i \in DOMAIN results : results'[i] = old[i]
  BY <1>1, <1>2, <1>5, <1>7
<1>9. task' \in TaskType BY <1>1, AdvanceTyped
<1>10. /\ task'.attempts = task.attempts /\ task'.lifecycle = task.lifecycle
       /\ task'.policy = task.policy /\ task'.definition = task.definition
       /\ task'.revision = task.revision + 1 /\ task'.completion = task.completion
  BY <1>1 DEF TaskType, Advance
<1>11. RowOK' BY <1>1, <1>8, <1>9, <1>10 DEF TaskInv, RowOK, TaskType
<1>12. RunsOK' /\ RetriesAuthorized' BY <1>1 DEF TaskInv, RunsOK, RetriesAuthorized
<1>13. ResultsOK' BY <1>1, <1>8 DEF ResultsOK
<1>14. CompletionJustified'
  BY <1>4, <1>8, <1>10 DEF TaskInv, RowOK, CompletionJustified
<1>15. Settled'
  BY <1>1, <1>10 DEF TaskInv, Settled, TerminalTaskSettled, HasActiveWork,
                     HasUnacknowledgedAmbiguity
<1> QED BY <1>11, <1>12, <1>13, <1>14, <1>15 DEF TaskInv

\* A Result is reviewed: it was proposed, so that it is not the one the Task rests on, and
\* it completes only a Task with nothing left to do.
LEMMA ReviewKeeps ==
  ASSUME TaskInv, NEW result \in DOMAIN results, NEW decision \in {"accepted", "rejected"},
         NEW completeTask \in BOOLEAN, ReviewResult(result, decision, completeTask)
  PROVE  TaskInv'
<1> USE TaskWorkAssumption
<1> DEFINE t == [task EXCEPT !.lifecycle = "completed", !.completion = result]
<1>1. /\ task \in TaskType /\ UNCHANGED <<runs, acked>>
      /\ results \in Seq(ResultType) /\ Len(results) \in Nat /\ Len(results) <= MaxResults
      /\ result \in 1..Len(results) /\ results[result].state = "proposed"
      /\ results' = [results EXCEPT ![result].state = decision]
  BY DEF TaskInv, RowOK, ResultsOK, ReviewResult
<1>2. /\ completeTask => Advance(t) /\ decision = "accepted" /\ Completable(result)
      /\ ~completeTask => Advance(task)
      /\ decision = "accepted" => results[result].definition = task.definition
  BY DEF ReviewResult
<1>3. results[result] \in ResultType BY <1>1
<1>4. [results[result] EXCEPT !.state = decision] \in ResultType BY <1>3 DEF ResultType
<1>5. /\ results' \in Seq(ResultType) /\ Len(results') = Len(results)
      /\ DOMAIN results' = DOMAIN results
      /\ \A i \in DOMAIN results : i # result => results'[i] = results[i]
      /\ results'[result] = [results[result] EXCEPT !.state = decision]
  BY <1>1, <1>4
<1>6. /\ results'[result].state = decision /\ results'[result].covers = results[result].covers
      /\ results'[result].definition = results[result].definition
  BY <1>3, <1>5 DEF ResultType
<1>7. t \in TaskType /\ t.revision = task.revision
  <2>1. result \in 1..MaxResults \cup {None} BY <1>1
  <2> QED BY <1>1, <2>1 DEF TaskType, Lifecycles
<1>8. task' \in TaskType BY <1>1, <1>2, <1>7, AdvanceTyped
<1>9. /\ task'.attempts = task.attempts /\ task'.policy = task.policy
      /\ task'.definition = task.definition /\ task'.revision = task.revision + 1
      /\ completeTask => task'.completion = result /\ task'.lifecycle = "completed"
      /\ ~completeTask => task'.completion = task.completion
                          /\ task'.lifecycle = task.lifecycle
  BY <1>1, <1>2 DEF TaskType, Advance
<1> HIDE DEF t
<1>10. RowOK' BY <1>1, <1>5, <1>8, <1>9 DEF TaskInv, RowOK, TaskType
<1>11. RunsOK' /\ RetriesAuthorized' BY <1>1 DEF TaskInv, RunsOK, RetriesAuthorized
<1>12. ResultsOK' BY <1>1, <1>5 DEF ResultsOK
<1>13. CompletionJustified'
  <2>1. CASE completeTask
    <3>1. results'[result].covers BY <1>2, <1>6, <2>1, Zenon DEF Completable
    <3>2. results'[result].state = "accepted" /\ results'[result].definition = task'.definition
          /\ task'.completion = result /\ result # None
      BY <1>1, <1>2, <1>6, <1>9, <2>1
    <3> QED BY <3>1, <3>2, Zenon DEF CompletionJustified
  <2>2. CASE ~completeTask
    <3>1. task.completion # None => task.completion \in DOMAIN results
                                    /\ task.completion # result
      BY <1>1 DEF TaskInv, RowOK, CompletionJustified
    <3> QED BY <1>5, <1>9, <2>2, <3>1 DEF TaskInv, CompletionJustified
  <2> QED BY <2>1, <2>2
<1>14. Settled'
  <2>1. HasActiveWork' = HasActiveWork
        /\ HasUnacknowledgedAmbiguity' = HasUnacknowledgedAmbiguity
    BY <1>1 DEF HasActiveWork, HasUnacknowledgedAmbiguity
  <2> QED BY <1>2, <1>9, <2>1 DEF TaskInv, Settled, TerminalTaskSettled, Completable
<1> QED BY <1>10, <1>11, <1>12, <1>13, <1>14 DEF TaskInv

-----------------------------------------------------------------------------
(* The theorems                                                            *)

\* Every request keeps the invariant.
LEMMA StepOK == TaskInv /\ [Next]_vars => TaskInv'
<1> SUFFICES ASSUME TaskInv, [Next]_vars PROVE TaskInv'
  OBVIOUS
<1>1. CASE \E changed \in BOOLEAN, policy \in Policies, maxAttempts \in 1..MaxAttempts,
              timeSpent \in BOOLEAN, assigned \in SUBSET Agents :
                UpdateDefinition(changed, policy, maxAttempts, timeSpent, assigned)
  BY <1>1, UpdateDefinitionKeeps
<1>2. CASE \E lifecycle \in Lifecycles, scheduling \in {"enabled", "paused"} :
             UpdateControl(lifecycle, scheduling)
  BY <1>2, UpdateControlKeeps
<1>3. CASE AddBlock \/ ResolveBlock BY <1>3, BlockKeeps
<1>4. CASE \E state \in {"open", "working", "blocked", "review", "completed", "canceled",
                         task.lifecycle}, changed \in BOOLEAN : PatchTask(state, changed)
  BY <1>4, PatchKeeps
<1>5. CASE \E mentions \in MentionLists : MessageRuns(mentions) BY <1>5, MessageKeeps
<1>6. CASE \E r \in DOMAIN runs :
             \/ \E operation \in Operations : CreateRetry(r, operation)
             \/ \E agent \in Agents : Handoff(r, agent)
             \/ AcknowledgeAmbiguity(r)
             \/ \E state \in RunStates \ {"active"} : RunEnds(r, state)
  BY <1>6, RetryKeeps, HandoffKeeps, AcknowledgeKeeps, EndKeeps
<1>7. CASE \E covers \in BOOLEAN, supersedes \in DOMAIN results \cup {None} :
             ProposeResult(covers, supersedes)
  BY <1>7, ProposeKeeps
<1>8. CASE \E result \in DOMAIN results, decision \in {"accepted", "rejected"},
              completeTask \in BOOLEAN : ReviewResult(result, decision, completeTask)
  BY <1>8, ReviewKeeps
<1>9. CASE UNCHANGED vars
  BY <1>9 DEF vars, TaskInv, RowOK, RunsOK, ResultsOK, CompletionJustified,
              RetriesAuthorized, Settled, TerminalTaskSettled, HasActiveWork,
              HasUnacknowledgedAmbiguity
<1> QED BY <1>1, <1>2, <1>3, <1>4, <1>5, <1>6, <1>7, <1>8, <1>9 DEF Next

\* For any Agents, commands, budgets and number of Runs, Results and revisions: the Result a
\* Task was completed with was accepted, covers its criteria and is about the definition it
\* still has; an ambiguous Run was retried only once acknowledged and once for a command;
\* and, without PATCH and hand-offs, a Task that is over has no work left.
THEOREM TaskIsKept == Spec => []TaskKept
<1>1. Init => TaskInv BY InitOK
<1>2. TaskInv /\ [Next]_vars => TaskInv' BY StepOK
<1>3. TaskInv => TaskKept BY InvKept
<1> QED BY <1>1, <1>2, <1>3, PTL DEF Spec

\* For any Agents, commands and budgets no command but the PATCH of older clients reopens a
\* Task that is over, or turns a completed one into a canceled one.
THEOREM ClosedStays == Spec => ClosedTaskStays
<1>1. Init => TaskInv BY InitOK
<1>2. TaskInv /\ [Next]_vars => TaskInv' BY StepOK
<1>3. TaskInv /\ [Next]_vars => [~CompatibilityPatch => Closed]_vars
  <2> SUFFICES ASSUME TaskInv, Next, ~CompatibilityPatch,
                      task.lifecycle \in TerminalLifecycles
               PROVE  task'.lifecycle = task.lifecycle
    BY DEF Closed
  <2>1. task \in TaskType BY DEF TaskInv, RowOK
  <2>2. ASSUME NEW t \in TaskType, t.lifecycle = task.lifecycle, Advance(t)
        PROVE  task'.lifecycle = task.lifecycle
    BY <2>2 DEF Advance, TaskType
  <2>3. CASE \E changed \in BOOLEAN, policy \in Policies, maxAttempts \in 1..MaxAttempts,
                timeSpent \in BOOLEAN, assigned \in SUBSET Agents :
                  UpdateDefinition(changed, policy, maxAttempts, timeSpent, assigned)
    BY <2>1, <2>3 DEF UpdateDefinition, Advance, TaskType
  <2>4. CASE \E lifecycle \in Lifecycles, scheduling \in {"enabled", "paused"} :
               UpdateControl(lifecycle, scheduling)
    BY <2>1, <2>4 DEF UpdateControl, ControlAllowed, MayTransition, Advance, TaskType,
                     TerminalLifecycles
  <2>5. CASE AddBlock \/ ResolveBlock
    BY <2>1, <2>5 DEF AddBlock, ResolveBlock, Advance, TaskType
  <2>6. ASSUME NEW state, NEW changed, PatchTask(state, changed) PROVE FALSE
    BY <2>6 DEF PatchTask
  <2>7. CASE \E mentions \in MentionLists : MessageRuns(mentions)
    BY <2>1, <2>7 DEF MessageRuns, CreateRuns, TaskType
  <2>8. CASE \E r \in DOMAIN runs :
               \/ \E operation \in Operations : CreateRetry(r, operation)
               \/ \E agent \in Agents : Handoff(r, agent)
               \/ AcknowledgeAmbiguity(r)
               \/ \E state \in RunStates \ {"active"} : RunEnds(r, state)
    BY <2>1, <2>8 DEF CreateRetry, Handoff, CreateRuns, AcknowledgeAmbiguity, RunEnds,
                     Advance, TaskType
  <2>9. CASE \E covers \in BOOLEAN, supersedes \in DOMAIN results \cup {None} :
               ProposeResult(covers, supersedes)
    BY <2>1, <2>9 DEF ProposeResult, Advance, TaskType
  <2>10. CASE \E result \in DOMAIN results, decision \in {"accepted", "rejected"},
                 completeTask \in BOOLEAN : ReviewResult(result, decision, completeTask)
    <3>1. PICK result \in DOMAIN results, decision \in {"accepted", "rejected"},
               completeTask \in BOOLEAN : ReviewResult(result, decision, completeTask)
      BY <2>10
    <3>2. ~completeTask BY <3>1 DEF ReviewResult, Completable, TerminalLifecycles
    <3>3. Advance(task) BY <3>1, <3>2 DEF ReviewResult
    <3> QED BY <2>1, <2>2, <3>3
  <2> QED BY <2>3, <2>4, <2>5, <2>6, <2>7, <2>8, <2>9, <2>10 DEF Next
<1> QED BY <1>1, <1>2, <1>3, PTL DEF Spec, ClosedTaskStays

-----------------------------------------------------------------------------
(* Discussions: the inductive invariant                                    *)

Wave ==
  [phase : {"contribution", "finalization"},
   state : {"open", "completed", "partial", "failed", "canceled"},
   members : SUBSET Participants, sealed : SUBSET Participants,
   turn : UNION {[m -> Turns] : m \in SUBSET Participants},
   run : UNION {[m -> Runs] : m \in SUBSET Participants}]

PlannedIn(v) == \E a \in v.members : v.turn[a].state = "planned"

\* A Turn at work is bound unless it is planned, and a Wave with a planned Turn is open
\* and nobody has begun to work in it.
BindingOK(v) ==
  /\ \A a \in v.members :
       /\ v.turn[a].state = "queued" => v.turn[a].bound
       /\ v.turn[a].state = "planned" => ~v.turn[a].bound
       /\ v.run[a].made <= 1
  /\ PlannedIn(v) =>
       /\ v.state = "open"
       /\ \A a \in v.members :
            /\ v.turn[a].state # "completed"
            /\ v.run[a].state \notin {"working", "input_required", "completed"}

\* What SealFaithful and PrivateReleased say of one Wave.
SealOK(v) ==
  /\ v.state = "open" => v.sealed = {}
  /\ v.sealed # {} \/ (v.state # "open" /\ \E a \in v.members : Live(v.turn[a])) =>
       /\ v.sealed \subseteq Completed(v.turn)
       /\ Cardinality(v.sealed) >= QuorumMin
       /\ RequiredRolesAvailable(v.sealed)
PrivateOK(v) ==
  \A a \in v.members \cap Private :
    v.turn[a].state = "completed" => v.run[a].released /\ v.phase = "contribution"

Shaped(v) ==
  /\ v \in Wave /\ v.members # {} /\ v.sealed \subseteq v.members
  /\ v.turn \in [v.members -> Turns] /\ v.run \in [v.members -> Runs]
WaveOK(v) == Shaped(v) /\ BindingOK(v) /\ SealOK(v) /\ PrivateOK(v)

\* u is what has become of the Wave v.
Later(v, u) ==
  /\ u.phase = v.phase /\ u.members = v.members
  /\ v.state # "open" => u.state = v.state /\ u.sealed = v.sealed
  /\ \A a \in v.members : ~Live(v.turn[a]) => u.turn[a] = v.turn[a]

WavesOK == waves \in Seq(Wave) /\ waves # <<>> /\ \A w \in DOMAIN waves : WaveOK(waves[w])

\* The Wave at the end is the only one that can be open or a finalization.
OrderOK ==
  \A w \in DOMAIN waves : waves[w].state = "open" \/ waves[w].phase = "finalization" =>
    w = Len(waves)

LastWave == waves[Len(waves)]
AtWork == LastWave.state = "open"

\* Where nothing is left to be bound.
BoundOK ==
  pc.at \in {"up", "goal", "advance", "settle"} \/ disc.state \in TerminalDiscussionStates
    => \A w \in DOMAIN waves : ~PlannedIn(waves[w])

\* What the row of the Discussion says of the last Wave, whatever Central is in.
StandingOK ==
  /\ LastWave.phase = "finalization" => disc.state \in TerminalDiscussionStates \cup {"finalizing"}
  /\ disc.state = "finalizing" => AtWork /\ LastWave.phase = "finalization"
  /\ disc.state = "stop_requested" => AtWork
  /\ disc.state \in RestingStates \cup {"completed", "terminated"} => ~AtWork
  /\ disc.state = "active" /\ ~AtWork => pc.at \in {"goal", "down", "canceled", "due", "replan"}
  /\ pc.at = "goal" => disc.state = "active" /\ ~AtWork

\* The budget counts the contribution Waves that were closed and charged.
Charged ==
  /\ disc.state # "canceled" \/ AtWork =>
       disc.budget.used = IF LastWave.phase = "contribution" /\ ~AtWork
                          THEN Len(waves) ELSE Len(waves) - 1
  /\ AtWork /\ LastWave.phase = "contribution" =>
       disc.budget.used < disc.budget.lease /\ disc.budget.used < RegularTurnLimit
  /\ disc.budget.used <= disc.budget.lease /\ disc.budget.used <= RegularTurnLimit
  /\ Len(waves) <= RegularTurnLimit + (IF LastWave.phase = "contribution" THEN 0 ELSE 1)

PcType ==
  [at : {"up", "down", "goal", "bind", "canceled", "due", "replan", "reconcile",
         "advance", "settle"},
   then : {"up", "reconcile", "advance"}, affected : BOOLEAN, turns : 0..20, closing : Nat]
PcOK ==
  /\ pc \in PcType
  /\ pc.at = "goal" => pc.turns \in 1..2
  /\ pc.closing \in 0..Len(waves)
  /\ pc.closing # 0 /\ waves[pc.closing].state = "open" => disc.state = "canceled"

RestOK ==
  /\ eligible \subseteq Participants
  /\ clock \in [soft : BOOLEAN, wave : BOOLEAN, discussion : BOOLEAN]
  /\ left \in [controls : Nat, crashes : Nat, losses : Nat, asks : Nat]

WaveInv ==
  /\ disc \in Discussions /\ PcOK /\ RestOK
  /\ WavesOK /\ OrderOK /\ OneLiveTurnPerAgent
  /\ BoundOK /\ StandingOK /\ Charged

-----------------------------------------------------------------------------
(* Lemmas on the policy                                                    *)

\* The constants that bound a Discussion are numbers that leave room for a first Wave.
LEMMA PolicyNumbers ==
  /\ RegularTurnLimit \in Nat /\ RegularTurnLimit >= 1 /\ RegularTurnLimit < HardMax
  /\ HardMax \in Nat /\ InitialLease \in Nat /\ InitialLease >= 1 /\ AutomaticMax \in Nat
  /\ QuorumMin \in Nat /\ PlateauWindow \in Nat /\ PlateauWindow >= 1
BY DiscussionPolicyAssumption, DiscussionWaveAssumption DEF RegularTurnLimit

\* What decideDiscussion decides, as far as the Waves are concerned.
DecisionOK(d, b) ==
  \/ /\ d.action = "continue" /\ d.state = "active" /\ ~HardBoundary(b)
     /\ d.grant <=> LeaseBoundary(b)
     /\ d.grant => b.lease < AutomaticMax
  \/ d.action = "finalize" /\ d.state = "finalizing" /\ ~d.grant
  \/ /\ d.action \notin {"continue", "finalize"} /\ d.state \in RestingStates
     /\ ~d.grant

\* decideDiscussion continues only before the hard boundary, with a lease or a grant of one.
LEMMA DecideOK ==
  ASSUME NEW p, NEW b, NEW intent, NEW asked \in BOOLEAN, NEW failed \in BOOLEAN
  PROVE  DecisionOK(Decide(p, b, intent, asked, failed), b)
<1> DEFINE d == Decide(p, b, intent, asked, failed)
           granted == [Decision("continue", "active", Nothing) EXCEPT !.grant = TRUE]
<1>1. \/ HardBoundary(b) /\ d = Decision("finalize", "finalizing", "hard_budget_exhausted")
      \/ d = WaitHuman("input_required")
      \/ d = Decision("pause", "paused", "user_paused")
      \/ d = Decision("finalize", "finalizing", "user_requested_finish")
      \/ d = WaitHuman("runtime_failure")
      \/ d = Decision("finalize", "finalizing", "goal_satisfied")
      \/ d = WaitHuman("discussion_plateau")
      \/ d = Decision("finalize", "finalizing", "discussion_plateau")
      \/ ~HardBoundary(b) /\ LeaseBoundary(b) /\ b.lease < AutomaticMax /\ d = granted
      \/ d = Decision("wait_human", "awaiting_extension", "soft_budget_exhausted")
      \/ /\ ~HardBoundary(b) /\ ~LeaseBoundary(b)
         /\ d = Decision("continue", "active", Nothing)
  <2> HIDE DEF granted
  <2>1. CASE HardBoundary(b) BY <2>1 DEF Decide
  <2>2. CASE ~HardBoundary(b) /\ asked BY <2>2 DEF Decide
  <2>3. CASE ~HardBoundary(b) /\ ~asked /\ intent = "pause" BY <2>3 DEF Decide
  <2>4. CASE ~HardBoundary(b) /\ ~asked /\ intent \in {"finish", "stop_after_turn"}
    BY <2>4 DEF Decide
  <2>5. CASE ~HardBoundary(b) /\ ~asked /\ intent \notin {"pause", "finish", "stop_after_turn"}
    <3>1. d = IF failed THEN WaitHuman("runtime_failure")
              ELSE IF AllowAutomaticFinish /\ p.goal /\ ReviewSatisfied(p)
                THEN Decision("finalize", "finalizing", "goal_satisfied")
              ELSE IF p.plateau >= PlateauWindow
                THEN IF p.high \/ ~ReviewSatisfied(p)
                     THEN WaitHuman("discussion_plateau")
                     ELSE Decision("finalize", "finalizing", "discussion_plateau")
              ELSE IF LeaseBoundary(b)
                THEN IF b.lease < AutomaticMax /\ p.novel
                     THEN granted
                     ELSE Decision("wait_human", "awaiting_extension", "soft_budget_exhausted")
              ELSE Decision("continue", "active", Nothing)
      BY <2>5 DEF Decide, granted
    <3> QED BY <3>1, <2>5
  <2> QED BY <2>1, <2>2, <2>3, <2>4, <2>5
<1>2. /\ granted.action = "continue" /\ granted.state = "active" /\ granted.grant = TRUE
  BY DEF Decision
<1> HIDE DEF d
<1>3. DecisionOK(d, b)
  BY <1>1, <1>2 DEF DecisionOK, Decision, WaitHuman, RestingStates
<1> QED BY <1>3 DEF d

\* An intent is taken at once: it never continues.
LEMMA IntentDecides ==
  ASSUME NEW p, NEW b, NEW action \in {"finish", "stop_after_turn", "pause"}
  PROVE  LET d == Decide(p, b, action, FALSE, FALSE)
         IN d.action # "finalize" => d.state = "paused"
BY DEF Decide, Decision, WaitHuman

\* A budget stays a budget.
LEMMA BudgetTypes ==
  ASSUME NEW b \in Budgets, NEW over \in BOOLEAN, NEW turns \in 1..2
  PROVE  /\ RecordTurnUsage(b, over) \in Budgets
         /\ AutomaticLease(b) \in Budgets
         /\ ResumeBudget(b, turns) \in Budgets
BY PolicyNumbers DEF Budgets, RecordTurnUsage, AutomaticLease, ResumeBudget, UserLease,
       LeaseEnd, AtMost, AtLeast

\* A grant of the policy carries a Discussion past the end of its lease.
LEMMA AutomaticLeaseGrants ==
  ASSUME NEW b \in Budgets, ~HardBoundary(b), b.used = b.lease, b.lease < AutomaticMax
  PROVE  /\ AutomaticLease(b).used = b.used /\ AutomaticLease(b).over = b.over
         /\ b.used < AutomaticLease(b).lease
BY PolicyNumbers DEF Budgets, AutomaticLease, LeaseEnd, AtMost, AtLeast, HardBoundary

\* A resumed Discussion that is not at the hard boundary has a lease.
LEMMA ResumeGrants ==
  ASSUME NEW b \in Budgets, NEW turns \in 1..2, b.used <= b.lease
  PROVE  LET r == ResumeBudget(b, turns)
         IN /\ r.used = b.used /\ b.used <= r.lease /\ (HardBoundary(r) <=> HardBoundary(b))
            /\ ~HardBoundary(r) => r.used < r.lease /\ r.used < RegularTurnLimit
<1>1. CASE LeaseBoundary(b) /\ ~HardBoundary(b)
  BY <1>1, PolicyNumbers DEF Budgets, ResumeBudget, UserLease, LeaseEnd, AtMost, AtLeast,
     HardBoundary, LeaseBoundary
<1>2. CASE ~(LeaseBoundary(b) /\ ~HardBoundary(b))
  BY <1>2, PolicyNumbers DEF Budgets, ResumeBudget, HardBoundary, LeaseBoundary
<1> QED BY <1>1, <1>2

\* evaluateWaveProgress returns a progress snapshot.
LEMMA EvaluationsTyped ==
  ASSUME NEW p \in Progress, NEW successes, NEW q \in Evaluations(p, successes)
  PROVE  q \in Progress
<1>1. CASE successes = {}
  <2>1. AtMost(p.plateau + 1, PlateauWindow) \in 0..PlateauWindow
    BY PolicyNumbers DEF Progress, AtMost
  <2>2. q = [goal |-> FALSE, plateau |-> AtMost(p.plateau + 1, PlateauWindow), high |-> p.high,
             approved |-> p.approved /\ ~p.goal, novel |-> FALSE]
    BY <1>1 DEF Evaluations
  <2> QED BY <2>1, <2>2 DEF Progress
<1>2. CASE successes # {}
  BY <1>2 DEF Evaluations
<1> QED BY <1>1, <1>2

\* The members chosen for a contribution Wave are some of the candidates.
LEMMA SelectionsOK ==
  ASSUME NEW candidates, candidates # {}, NEW s \in Selections(candidates)
  PROVE  s \subseteq candidates /\ s # {}
BY DEF Selections

\* The first of the candidates in the order of the roster is one of them.
LEMMA FirstIsCandidate ==
  ASSUME NEW candidates \in SUBSET Participants, candidates # {}
  PROVE  FirstOf(candidates) \in candidates
<1> DEFINE P(i) == i \in DOMAIN Roster /\ Roster[i] \in candidates
<1>1. /\ Roster \in Seq(Participants) /\ Len(Roster) \in 2..5
      /\ DOMAIN Roster = 1..Len(Roster)
  BY DiscussionPolicyAssumption
<1>2. \E i : P(i)
  BY DEF Participants, Range
<1>3. \E i \in DOMAIN Roster : Roster[i] \in candidates
                                 /\ \A j \in 1..(i - 1) : Roster[j] \notin candidates
  <2>1. CASE P(1) BY <2>1, <1>1
  <2>2. CASE ~P(1) /\ P(2) BY <2>2, <1>1
  <2>3. CASE ~P(1) /\ ~P(2) /\ P(3) BY <2>3, <1>1
  <2>4. CASE ~P(1) /\ ~P(2) /\ ~P(3) /\ P(4) BY <2>4, <1>1
  <2>5. CASE ~P(1) /\ ~P(2) /\ ~P(3) /\ ~P(4) /\ P(5) BY <2>5, <1>1
  <2>6. P(1) \/ P(2) \/ P(3) \/ P(4) \/ P(5)
    <3>1. PICK i : P(i) BY <1>2
    <3>2. i \in 1..Len(Roster) BY <3>1, <1>1
    <3>3. i \in {1, 2, 3, 4, 5} BY <3>2, <1>1
    <3> QED BY <3>1, <3>3
  <2> QED BY <2>1, <2>2, <2>3, <2>4, <2>5, <2>6
<1> QED BY <1>3 DEF FirstOf

\* So is the one that finalizes.
LEMMA FinalizerOK ==
  ASSUME NEW candidates \in SUBSET Participants, candidates # {}
  PROVE  Finalizer(candidates) \in candidates
BY FirstIsCandidate DEF Finalizer

-----------------------------------------------------------------------------
(* Lemmas on the sequence of Waves                                         *)

\* ws is what has become of the Waves.
Evolves(ws) ==
  /\ ws \in Seq(Wave) /\ Len(ws) = Len(waves)
  /\ \A w \in DOMAIN waves : WaveOK(ws[w]) /\ Later(waves[w], ws[w])

\* Nothing has become of a Wave that did not change.
LEMMA LaterSame == ASSUME NEW v PROVE Later(v, v)
BY DEF Later

\* The Waves are a sequence with a last one.
LEMMA LastOfWaves ==
  ASSUME WavesOK
  PROVE  /\ Len(waves) \in Nat \ {0} /\ DOMAIN waves = 1..Len(waves)
         /\ Len(waves) \in DOMAIN waves /\ WaveOK(LastWave)
<1>1. waves \in Seq(Wave) /\ waves # <<>> BY DEF WavesOK
<1>2. Len(waves) \in Nat \ {0} /\ DOMAIN waves = 1..Len(waves) BY <1>1
<1> QED BY <1>2 DEF WavesOK, LastWave

\* A change of one Wave.
LEMMA TouchEvolves ==
  ASSUME WavesOK, NEW w \in DOMAIN waves, NEW u, WaveOK(u), Later(waves[w], u)
  PROVE  LET ws == [waves EXCEPT ![w] = u]
         IN /\ Evolves(ws) /\ ws[w] = u
            /\ \A v \in DOMAIN waves : v # w => ws[v] = waves[v]
<1> DEFINE ws == [waves EXCEPT ![w] = u]
<1>1. waves \in Seq(Wave) /\ u \in Wave BY DEF WavesOK, WaveOK, Shaped
<1>2. ws \in Seq(Wave) /\ Len(ws) = Len(waves) BY <1>1
<1>3. /\ ws[w] = u
      /\ \A v \in DOMAIN waves : v # w => ws[v] = waves[v]
  BY <1>1
<1>4. \A v \in DOMAIN waves : WaveOK(ws[v]) /\ Later(waves[v], ws[v])
  BY <1>3, LaterSame DEF WavesOK
<1> QED BY <1>2, <1>3, <1>4 DEF Evolves

\* A Wave that evolves keeps its settled Turns, so fewer are at work in it.
LEMMA FewerLive ==
  ASSUME NEW v, NEW u, Later(v, u), NEW a \in u.members, Live(u.turn[a])
  PROVE  a \in v.members /\ Live(v.turn[a])
BY DEF Later

\* What holds of Waves that evolve.
LEMMA EvolvedKeeps ==
  ASSUME WavesOK, OneLiveTurnPerAgent, Evolves(waves')
  PROVE  /\ WavesOK' /\ OneLiveTurnPerAgent' /\ SettledKept
         /\ DOMAIN waves' = DOMAIN waves /\ Len(waves') = Len(waves)
<1>1. /\ Len(waves) \in Nat \ {0} /\ DOMAIN waves = 1..Len(waves)
  BY LastOfWaves
<1>2. waves' \in Seq(Wave) /\ Len(waves') = Len(waves) /\ DOMAIN waves' = DOMAIN waves
  BY <1>1 DEF Evolves
<1>3. \A w \in DOMAIN waves : WaveOK(waves'[w]) /\ Later(waves[w], waves'[w])
  BY DEF Evolves
<1>4. WavesOK' BY <1>1, <1>2, <1>3 DEF WavesOK
<1>5. OneLiveTurnPerAgent'
  BY <1>2, <1>3, FewerLive DEF OneLiveTurnPerAgent
<1>6. SettledKept BY <1>2, <1>3 DEF SettledKept, Later
<1> QED BY <1>2, <1>4, <1>5, <1>6

\* What holds when a Wave for participants without a Turn at work is added to them.
LEMMA AddedKeeps ==
  ASSUME WavesOK, OneLiveTurnPerAgent, NEW ws, Evolves(ws), NEW v, WaveOK(v),
         v.members \cap LiveAgents(ws) = {}, waves' = Append(ws, v)
  PROVE  /\ WavesOK' /\ OneLiveTurnPerAgent' /\ SettledKept
         /\ Len(waves') = Len(waves) + 1 /\ waves'[Len(waves')] = v
         /\ DOMAIN waves' = 1..(Len(waves) + 1)
         /\ \A w \in DOMAIN waves : w \in DOMAIN waves' /\ waves'[w] = ws[w]
<1>1. /\ Len(waves) \in Nat \ {0} /\ DOMAIN waves = 1..Len(waves)
  BY LastOfWaves
<1>2. ws \in Seq(Wave) /\ Len(ws) = Len(waves) /\ v \in Wave
  BY DEF Evolves, WaveOK, Shaped
<1>3. /\ waves' \in Seq(Wave) /\ Len(waves') = Len(waves) + 1
      /\ waves'[Len(waves) + 1] = v /\ DOMAIN waves' = 1..(Len(waves) + 1)
      /\ \A w \in DOMAIN waves : w \in DOMAIN waves' /\ waves'[w] = ws[w]
  BY <1>1, <1>2
<1>4. \A w \in DOMAIN waves : WaveOK(waves'[w]) /\ Later(waves[w], waves'[w])
  BY <1>3 DEF Evolves
<1>5. \A w \in DOMAIN waves' : w \in DOMAIN waves \/ w = Len(waves) + 1 BY <1>1, <1>3
<1>6. WavesOK'
  <2>1. \A w \in DOMAIN waves' : WaveOK(waves'[w]) BY <1>3, <1>4, <1>5
  <2>2. waves' # <<>> BY <1>1, <1>3
  <2> QED BY <1>3, <2>1, <2>2 DEF WavesOK
<1>7. OneLiveTurnPerAgent'
  <2>1. \A w \in DOMAIN waves : \A a \in ws[w].members :
          Live(ws[w].turn[a]) => a \in LiveAgents(ws)
    BY <1>1, <1>2 DEF LiveAgents
  <2>2. \A w \in DOMAIN waves :
          {a \in ws[w].members : Live(ws[w].turn[a])}
            \cap {a \in v.members : Live(v.turn[a])} = {}
    BY <2>1
  <2>3. \A x, y \in DOMAIN waves : x # y =>
          {a \in ws[x].members : Live(ws[x].turn[a])}
            \cap {a \in ws[y].members : Live(ws[y].turn[a])} = {}
    BY <1>4, <1>3, FewerLive DEF OneLiveTurnPerAgent
  <2> SUFFICES ASSUME NEW x \in DOMAIN waves', NEW y \in DOMAIN waves', x # y
               PROVE  {a \in waves'[x].members : Live(waves'[x].turn[a])}
                        \cap {a \in waves'[y].members : Live(waves'[y].turn[a])} = {}
    BY DEF OneLiveTurnPerAgent
  <2>4. CASE x \in DOMAIN waves /\ y \in DOMAIN waves BY <2>4, <2>3, <1>3
  <2>5. CASE x \in DOMAIN waves /\ y = Len(waves) + 1 BY <2>5, <2>2, <1>3
  <2>6. CASE x = Len(waves) + 1 /\ y \in DOMAIN waves BY <2>6, <2>2, <1>3
  <2> QED BY <1>5, <2>4, <2>5, <2>6
<1>8. SettledKept BY <1>3, <1>4 DEF SettledKept, Later
<1> QED BY <1>3, <1>6, <1>7, <1>8

-----------------------------------------------------------------------------
(* Lemmas on one Wave                                                      *)

\* A Wave that was planned: with its Runs, nothing in it is left to be bound.
LEMMA PlannedWaveOK ==
  ASSUME NEW phase \in {"contribution", "finalization"}, NEW members \in SUBSET Participants,
         members # {}, NEW now \in BOOLEAN
  PROVE  LET v == WavePlan(phase, members, now)
         IN /\ WaveOK(v) /\ v.state = "open" /\ v.phase = phase /\ v.members = members
            /\ now => ~PlannedIn(v)
<1> DEFINE v == WavePlan(phase, members, now)
<1>1. /\ v.phase = phase /\ v.state = "open" /\ v.members = members /\ v.sealed = {}
      /\ v.turn = [a \in members |-> NewTurn(now)] /\ v.run = [a \in members |-> WaveRun(now)]
  BY DEF WavePlan
<1>2. NewTurn(now) \in Turns /\ WaveRun(now) \in Runs
  BY DEF NewTurn, WaveRun, Turns, Runs
<1>3. v.turn \in [members -> Turns] /\ v.run \in [members -> Runs]
  BY <1>1, <1>2
<1>4. v \in Wave
  <2>1. v.turn \in UNION {[m -> Turns] : m \in SUBSET Participants} BY <1>3
  <2>2. v.run \in UNION {[m -> Runs] : m \in SUBSET Participants} BY <1>3
  <2> HIDE DEF v
  <2>3. v = [phase |-> v.phase, state |-> v.state, members |-> v.members, sealed |-> v.sealed,
             turn |-> v.turn, run |-> v.run]
    BY DEF v, WavePlan
  <2> QED BY <1>1, <2>1, <2>2, <2>3 DEF Wave
<1>5. Shaped(v) BY <1>1, <1>3, <1>4 DEF Shaped
<1>6. BindingOK(v)
  BY <1>1 DEF BindingOK, PlannedIn, NewTurn, WaveRun
<1>7. SealOK(v) /\ PrivateOK(v)
  BY <1>1 DEF SealOK, PrivateOK, NewTurn
<1>8. now => ~PlannedIn(v) BY <1>1 DEF PlannedIn, NewTurn
<1> QED BY <1>1, <1>5, <1>6, <1>7, <1>8 DEF WaveOK

\* A Wave with other Turns, Runs, state or seal.
WaveWith(v, turn, run, state, sealed) ==
  [v EXCEPT !.turn = turn, !.run = run, !.state = state, !.sealed = sealed]

\* It is the record of a Wave.
LEMMA ShapedWith ==
  ASSUME NEW v, Shaped(v), NEW turn \in [v.members -> Turns], NEW run \in [v.members -> Runs],
         NEW state \in {"open", "completed", "partial", "failed", "canceled"},
         NEW sealed \in SUBSET v.members
  PROVE  LET u == WaveWith(v, turn, run, state, sealed)
         IN /\ Shaped(u) /\ u.phase = v.phase /\ u.members = v.members
            /\ u.turn = turn /\ u.run = run /\ u.state = state /\ u.sealed = sealed
<1> DEFINE u == WaveWith(v, turn, run, state, sealed)
<1>1. v \in Wave BY DEF Shaped
<1>2. /\ u.phase = v.phase /\ u.members = v.members
      /\ u.turn = turn /\ u.run = run /\ u.state = state /\ u.sealed = sealed
  BY <1>1 DEF Wave, WaveWith
<1>3. /\ v.members \in SUBSET Participants /\ sealed \in SUBSET Participants
      /\ v.phase \in {"contribution", "finalization"}
  BY <1>1 DEF Wave
<1>4. /\ turn \in UNION {[m -> Turns] : m \in SUBSET Participants}
      /\ run \in UNION {[m -> Runs] : m \in SUBSET Participants}
  BY <1>3
<1> DEFINE T == UNION {[m -> Turns] : m \in SUBSET Participants}
           R == UNION {[m -> Runs] : m \in SUBSET Participants}
           S == {"open", "completed", "partial", "failed", "canceled"}
           P == SUBSET Participants
           K == [phase : {"contribution", "finalization"}, state : S, members : P, sealed : P,
                 turn : T, run : R]
<1>5. turn \in T /\ run \in R /\ state \in S /\ sealed \in P /\ v \in K
  BY <1>1, <1>3, <1>4 DEF Wave
<1>6. u \in K
  <2> HIDE DEF T, R, S, P
  <2> QED BY <1>5 DEF WaveWith
<1>7. u \in Wave BY <1>6 DEF Wave
<1> QED BY <1>2, <1>7 DEF Shaped

\* The same, one field at a time.
LEMMA ShapedTurn ==
  ASSUME NEW v, Shaped(v), NEW turn \in [v.members -> Turns]
  PROVE  LET u == [v EXCEPT !.turn = turn]
         IN /\ Shaped(u) /\ u.phase = v.phase /\ u.members = v.members
            /\ u.turn = turn /\ u.run = v.run /\ u.state = v.state /\ u.sealed = v.sealed
<1>1. /\ v.run \in [v.members -> Runs] /\ v.sealed \in SUBSET v.members /\ v \in Wave
  BY DEF Shaped
<1>2. v.state \in {"open", "completed", "partial", "failed", "canceled"} BY <1>1 DEF Wave
<1>3. [v EXCEPT !.turn = turn]
        = WaveWith(v, turn, v.run, v.state, v.sealed)
  BY <1>1 DEF Wave, WaveWith
<1> DEFINE w == WaveWith(v, turn, v.run, v.state, v.sealed)
<1>4. /\ Shaped(w) /\ w.phase = v.phase /\ w.members = v.members
      /\ w.turn = turn /\ w.run = v.run /\ w.state = v.state /\ w.sealed = v.sealed
  BY <1>1, <1>2, ShapedWith
<1> QED BY <1>3, <1>4

\* The same, for the Runs of a Wave.
LEMMA ShapedRun ==
  ASSUME NEW v, Shaped(v), NEW run \in [v.members -> Runs]
  PROVE  LET u == [v EXCEPT !.run = run]
         IN /\ Shaped(u) /\ u.phase = v.phase /\ u.members = v.members
            /\ u.turn = v.turn /\ u.run = run /\ u.state = v.state /\ u.sealed = v.sealed
<1>1. /\ v.turn \in [v.members -> Turns] /\ v.sealed \in SUBSET v.members /\ v \in Wave
  BY DEF Shaped
<1>2. v.state \in {"open", "completed", "partial", "failed", "canceled"} BY <1>1 DEF Wave
<1>3. [v EXCEPT !.run = run]
        = WaveWith(v, v.turn, run, v.state, v.sealed)
  BY <1>1 DEF Wave, WaveWith
<1> DEFINE w == WaveWith(v, v.turn, run, v.state, v.sealed)
<1>4. /\ Shaped(w) /\ w.phase = v.phase /\ w.members = v.members
      /\ w.turn = v.turn /\ w.run = run /\ w.state = v.state /\ w.sealed = v.sealed
  BY <1>1, <1>2, ShapedWith
<1> QED BY <1>3, <1>4

\* Settling more Turns of a Wave keeps its seal faithful.
LEMMA SealKept ==
  ASSUME NEW v, NEW u, Later(v, u), SealOK(v), Shaped(v), Shaped(u),
         u.state = v.state, u.sealed = v.sealed
  PROVE  SealOK(u)
<1>1. \A a \in u.members : Live(u.turn[a]) => a \in v.members /\ Live(v.turn[a])
  BY FewerLive
<1>2. Completed(v.turn) \subseteq Completed(u.turn)
  <2>1. DOMAIN v.turn = v.members /\ DOMAIN u.turn = v.members BY DEF Shaped, Later
  <2>2. \A a \in v.members : v.turn[a].state = "completed" => ~Live(v.turn[a])
    BY DEF Live, TerminalTurnStates
  <2> QED BY <2>1, <2>2 DEF Completed, Later
<1> QED BY <1>1, <1>2 DEF SealOK

\* settleTurn leaves a settled Turn alone and settles one by its Run; the Result of a private
\* participant counts only when it was released.
LEMMA SettleOK ==
  ASSUME WavesOK, NEW w \in DOMAIN waves, NEW a \in waves[w].members
  PROVE  LET t == waves[w].turn[a] s == Settle(w, a)
         IN /\ s \in Turns
            /\ s = t \/ (Live(t) /\ s.state \in TerminalTurnStates)
            /\ s.state = "completed" /\ t.state # "completed" =>
                 /\ waves[w].run[a].state = "completed"
                 /\ a \in Private => waves[w].run[a].released /\ waves[w].phase = "contribution"
<1> DEFINE v == waves[w]
           t == v.turn[a]
           s == Settle(w, a)
           o == Outcome(w, a)
<1>1. /\ t \in Turns /\ v.run[a] \in Runs
  BY DEF WavesOK, WaveOK, Shaped
<1>2. /\ o \in TerminalTurnStates
      /\ o = "completed" =>
           /\ v.run[a].state = "completed"
           /\ a \in Private => v.run[a].released /\ v.phase = "contribution"
  BY DEF Outcome, TerminalTurnStates
<1>3. CASE Live(t) /\ ~Awaiting(w, a)
  <2>1. s = [t EXCEPT !.state = o, !.asked = v.run[a].asked /\ o # "completed"]
    BY <1>3 DEF Settle
  <2>2. v.run[a].asked \in BOOLEAN BY <1>1 DEF Runs
  <2> HIDE DEF s, o, t, v
  <2>3. s \in Turns /\ s.state = o
    BY <1>1, <1>2, <2>1, <2>2 DEF Turns, TerminalTurnStates
  <2> QED BY <1>2, <1>3, <2>3 DEF s, o, t, v
<1>4. CASE ~(Live(t) /\ ~Awaiting(w, a))
  <2>1. s = t BY <1>4 DEF Settle
  <2> QED BY <2>1, <1>1
<1> QED BY <1>3, <1>4

\* The Wave with the Turns that onRunTerminal has settled.
LEMMA SettledWaveOK ==
  ASSUME WavesOK, NEW w \in DOMAIN waves, NEW a \in waves[w].members
  PROVE  LET v == waves[w] turn == SettledTurns(w, a) u == [v EXCEPT !.turn = turn]
         IN /\ turn \in [v.members -> Turns]
            /\ WaveOK(u) /\ Later(v, u) /\ u.turn = turn /\ u.run = v.run
            /\ u.state = v.state /\ u.sealed = v.sealed /\ u.phase = v.phase /\ u.members = v.members
            /\ PlannedIn(u) => PlannedIn(v)
<1> DEFINE v == waves[w]
           turn == SettledTurns(w, a)
           u == [v EXCEPT !.turn = turn]
<1>1. WaveOK(v) /\ Shaped(v) BY DEF WavesOK, WaveOK
<1>2. DOMAIN turn = v.members /\ \A b \in v.members : turn[b] = v.turn[b] \/ turn[b] = Settle(w, b)
  BY DEF SettledTurns
<1>3. \A b \in v.members : v.turn[b] \in Turns BY <1>1 DEF Shaped
<1>4. \A b \in v.members :
        /\ turn[b] \in Turns
        /\ turn[b] = v.turn[b] \/ (Live(v.turn[b]) /\ turn[b].state \in TerminalTurnStates)
        /\ turn[b].state = "completed" /\ v.turn[b].state # "completed" =>
             /\ v.run[b].state = "completed"
             /\ b \in Private => v.run[b].released /\ v.phase = "contribution"
  BY <1>2, <1>3, SettleOK
<1>5. turn = [b \in v.members |-> turn[b]] BY DEF SettledTurns
<1>6. turn \in [v.members -> Turns] BY <1>4, <1>5
<1>7. /\ Shaped(u) /\ u.phase = v.phase /\ u.members = v.members
      /\ u.turn = turn /\ u.run = v.run /\ u.state = v.state /\ u.sealed = v.sealed
  BY <1>1, <1>6, ShapedTurn
<1> HIDE DEF u, turn, v
<1>8. Later(v, u) BY <1>4, <1>7 DEF Later
<1>9. PlannedIn(u) => PlannedIn(v)
  BY <1>4, <1>7 DEF PlannedIn, TerminalTurnStates
<1>10. BindingOK(u)
  <2>1. \A b \in u.members :
          /\ u.turn[b].state = "queued" => u.turn[b].bound
          /\ u.turn[b].state = "planned" => ~u.turn[b].bound
          /\ u.run[b].made <= 1
    BY <1>1, <1>4, <1>7 DEF BindingOK, WaveOK, TerminalTurnStates
  <2>2. ASSUME PlannedIn(u) PROVE u.state = "open" /\ \A b \in u.members :
            /\ u.turn[b].state # "completed"
            /\ u.run[b].state \notin {"working", "input_required", "completed"}
    BY <2>2, <1>1, <1>4, <1>7, <1>9 DEF BindingOK, WaveOK
  <2> QED BY <2>1, <2>2 DEF BindingOK
<1>11. SealOK(u) BY <1>1, <1>7, <1>8, SealKept DEF WaveOK
<1>12. PrivateOK(u)
  BY <1>1, <1>4, <1>7 DEF PrivateOK, WaveOK
<1> QED BY <1>6, <1>7, <1>8, <1>9, <1>10, <1>11, <1>12 DEF WaveOK, u, turn, v

\* A Wave whose Turns are all settled closes as waveCloseState says.
LEMMA ClosedWaveOK ==
  ASSUME NEW v, WaveOK(v), AllSettled(v.turn)
  PROVE  LET u == WaveWith(v, v.turn, v.run, CloseState(v.turn), v.sealed)
         IN /\ WaveOK(u) /\ (v.state = "open" => Later(v, u)) /\ u.state # "open"
            /\ u.phase = v.phase /\ u.members = v.members /\ u.turn = v.turn
            /\ u.run = v.run /\ u.sealed = v.sealed /\ ~PlannedIn(u)
<1> DEFINE c == CloseState(v.turn)
           u == WaveWith(v, v.turn, v.run, c, v.sealed)
<1>1. c \in {"completed", "canceled", "partial", "failed"} BY DEF CloseState
<1>2. Shaped(v) /\ v.turn \in [v.members -> Turns] /\ v.run \in [v.members -> Runs]
      /\ v.sealed \in SUBSET v.members
  BY DEF WaveOK, Shaped
<1> HIDE DEF c
<1>3. /\ Shaped(u) /\ u.phase = v.phase /\ u.members = v.members /\ u.turn = v.turn
      /\ u.run = v.run /\ u.state = c /\ u.sealed = v.sealed
  BY <1>1, <1>2, ShapedWith
<1> HIDE DEF u
<1>4. \A a \in v.members : ~Live(v.turn[a]) BY <1>2 DEF AllSettled
<1>5. ~PlannedIn(v) /\ ~PlannedIn(u)
  BY <1>3, <1>4 DEF PlannedIn, Live, TerminalTurnStates
<1>6. BindingOK(u) BY <1>3, <1>5 DEF BindingOK, WaveOK
<1>7. SealOK(u) BY <1>1, <1>3, <1>4 DEF SealOK, WaveOK
<1>8. PrivateOK(u) BY <1>3 DEF PrivateOK, WaveOK
<1>9. v.state = "open" => Later(v, u) BY <1>3 DEF Later
<1> QED BY <1>1, <1>3, <1>5, <1>6, <1>7, <1>8, <1>9 DEF WaveOK, u, c

\* A quorum seals an open Wave with the members that completed.
LEMMA SealedWaveOK ==
  ASSUME NEW v, WaveOK(v), v.state = "open", Quorum,
         Cardinality(Completed(v.turn)) >= QuorumMin, RequiredRolesAvailable(Completed(v.turn))
  PROVE  LET u == WaveWith(v, v.turn, v.run, "partial", Completed(v.turn))
         IN /\ WaveOK(u) /\ Later(v, u) /\ u.state # "open"
            /\ u.phase = v.phase /\ u.members = v.members /\ u.turn = v.turn
            /\ u.run = v.run /\ ~PlannedIn(u)
<1> DEFINE c == Completed(v.turn)
           u == WaveWith(v, v.turn, v.run, "partial", c)
<1>1. Shaped(v) /\ v.turn \in [v.members -> Turns] /\ v.run \in [v.members -> Runs]
      /\ c \in SUBSET v.members
  BY DEF WaveOK, Shaped, Completed
<1>2. c # {}
  <2>1. QuorumMin > 0 /\ QuorumMin \in Nat BY PolicyNumbers DEF Quorum
  <2>2. Cardinality({}) = 0 BY FS_EmptySet
  <2> QED BY <2>1, <2>2
<1>3. \E a \in v.members : v.turn[a].state = "completed" BY <1>1, <1>2 DEF Completed
<1> HIDE DEF c
<1>4. /\ Shaped(u) /\ u.phase = v.phase /\ u.members = v.members /\ u.turn = v.turn
      /\ u.run = v.run /\ u.state = "partial" /\ u.sealed = c
  BY <1>1, ShapedWith
<1> HIDE DEF u
<1>5. ~PlannedIn(v) BY <1>3 DEF WaveOK, BindingOK
<1>6. ~PlannedIn(u) BY <1>4, <1>5 DEF PlannedIn
<1>7. BindingOK(u) BY <1>4, <1>6 DEF BindingOK, WaveOK
<1>8. SealOK(u) BY <1>4 DEF SealOK, c
<1>9. PrivateOK(u) BY <1>4 DEF PrivateOK, WaveOK
<1>10. Later(v, u) BY <1>4 DEF Later
<1> QED BY <1>4, <1>6, <1>7, <1>8, <1>9, <1>10 DEF WaveOK, u, c

-----------------------------------------------------------------------------
(* Steps that leave the row of the Discussion and the state of its Waves   *)

\* Waves that do not change have evolved.
LEMMA StandingEvolves == ASSUME WavesOK PROVE Evolves(waves)
BY LaterSame DEF WavesOK, Evolves

\* Members of Waves work and are settled, and Central goes on to another place.
LEMMA QuietStep ==
  ASSUME WaveInv, Evolves(waves'), disc' = disc, RestOK', pc' \in PcType,
         \/ pc'.closing = pc.closing \/ pc'.closing = 0
         \/ pc'.closing \in DOMAIN waves /\ disc.state = "canceled",
         \A w \in DOMAIN waves :
           /\ waves'[w].state = waves[w].state
           /\ PlannedIn(waves'[w]) => PlannedIn(waves[w]),
         pc'.at \in {"up", "advance", "settle"} =>
           pc'.at = pc.at \/ \A w \in DOMAIN waves : ~PlannedIn(waves[w]),
         disc.state = "active" /\ ~AtWork =>
           pc'.at \in {"goal", "down", "canceled", "due", "replan"},
         pc'.at = "goal" => pc' = pc
  PROVE  WaveInv' /\ SettledKept
<1>1. /\ WavesOK' /\ OneLiveTurnPerAgent' /\ SettledKept
      /\ DOMAIN waves' = DOMAIN waves /\ Len(waves') = Len(waves)
  BY EvolvedKeeps DEF WaveInv
<1>2. \A w \in DOMAIN waves : waves'[w].state = waves[w].state /\ waves'[w].phase = waves[w].phase
  BY DEF Evolves, Later
<1>3. /\ Len(waves) \in Nat \ {0} /\ DOMAIN waves = 1..Len(waves) /\ Len(waves) \in DOMAIN waves
  BY LastOfWaves DEF WaveInv
<1>4. LastWave'.state = LastWave.state /\ LastWave'.phase = LastWave.phase /\ (AtWork' <=> AtWork)
  BY <1>1, <1>2, <1>3 DEF LastWave, AtWork
<1>5. OrderOK' BY <1>1, <1>2 DEF OrderOK, WaveInv
<1>6. BoundOK'
  <2>1. \A w \in DOMAIN waves' : PlannedIn(waves'[w]) => PlannedIn(waves[w]) BY <1>1
  <2>2. pc'.at \in {"up", "goal", "advance", "settle"} \/ disc'.state \in TerminalDiscussionStates
          => \A w \in DOMAIN waves : ~PlannedIn(waves[w])
    BY DEF BoundOK, WaveInv
  <2> QED BY <1>1, <2>1, <2>2 DEF BoundOK
<1>7. StandingOK' BY <1>4 DEF StandingOK, WaveInv
<1>8. Charged' BY <1>1, <1>4 DEF Charged, WaveInv
<1>9. PcOK'
  <2>1. pc'.closing \in 0..Len(waves') BY <1>1, <1>3 DEF PcOK, WaveInv
  <2>2. pc'.closing # 0 /\ waves'[pc'.closing].state = "open" => disc'.state = "canceled"
    <3>1. CASE disc.state = "canceled" BY <3>1
    <3>2. CASE pc'.closing = 0 BY <3>2
    <3>3. CASE pc'.closing = pc.closing /\ pc'.closing # 0
      <4>1. pc.closing \in DOMAIN waves BY <3>3, <2>1, <1>1, <1>3
      <4> QED BY <3>3, <4>1, <1>2 DEF PcOK, WaveInv
    <3> QED BY <3>1, <3>2, <3>3
  <2>3. pc'.at = "goal" => pc'.turns \in 1..2 BY DEF PcOK, WaveInv
  <2> QED BY <2>1, <2>2, <2>3 DEF PcOK
<1> QED BY <1>1, <1>5, <1>6, <1>7, <1>8, <1>9 DEF WaveInv

\* One member of a Wave works or is settled, and Central stays where it is.
LEMMA MemberStep ==
  ASSUME WaveInv, NEW w \in DOMAIN waves, NEW u, WaveOK(u), Later(waves[w], u),
         u.state = waves[w].state, PlannedIn(u) => PlannedIn(waves[w]),
         waves' = [waves EXCEPT ![w] = u], disc' = disc, pc' = pc, RestOK'
  PROVE  WaveInv' /\ SettledKept
<1>1. Evolves(waves') /\ waves'[w] = u /\ \A v \in DOMAIN waves : v # w => waves'[v] = waves[v]
  BY TouchEvolves DEF WaveInv
<1>2. \A v \in DOMAIN waves :
        /\ waves'[v].state = waves[v].state
        /\ PlannedIn(waves'[v]) => PlannedIn(waves[v])
  BY <1>1
<1>3. disc.state = "active" /\ ~AtWork =>
        pc'.at \in {"goal", "down", "canceled", "due", "replan"}
  BY DEF StandingOK, WaveInv
<1>4. pc' \in PcType BY DEF PcOK, WaveInv
<1> QED BY <1>1, <1>2, <1>3, <1>4, QuietStep

\* No Wave changes, and Central goes on to another place.
LEMMA PlaceStep ==
  ASSUME WaveInv, waves' = waves, disc' = disc, RestOK', pc' \in PcType,
         \/ pc'.closing = pc.closing \/ pc'.closing = 0
         \/ pc'.closing \in DOMAIN waves /\ disc.state = "canceled",
         pc'.at \in {"up", "advance", "settle"} =>
           pc'.at = pc.at \/ \A w \in DOMAIN waves : ~PlannedIn(waves[w]),
         disc.state = "active" /\ ~AtWork =>
           pc'.at \in {"goal", "down", "canceled", "due", "replan"},
         pc'.at = "goal" => pc' = pc
  PROVE  WaveInv' /\ SettledKept
<1>1. Evolves(waves') BY StandingEvolves DEF WaveInv, Evolves
<1> QED BY <1>1, QuietStep

\* The Run of a member comes to be r.
LEMMA RunStep ==
  ASSUME WaveInv, NEW w \in DOMAIN waves, NEW a \in waves[w].members, NEW r \in Runs,
         r.made <= 1, waves[w].run[a].released => r.released,
         PlannedIn(waves[w]) => r.state \notin {"working", "input_required", "completed"},
         waves' = [waves EXCEPT ![w].run[a] = r], disc' = disc, pc' = pc, RestOK'
  PROVE  WaveInv' /\ SettledKept
<1> DEFINE v == waves[w]
           run == [v.run EXCEPT ![a] = r]
           u == [v EXCEPT !.run = run]
<1>1. WaveOK(v) /\ Shaped(v) BY DEF WaveInv, WavesOK, WaveOK
<1>2. run \in [v.members -> Runs] /\ run[a] = r /\ \A b \in v.members : b # a => run[b] = v.run[b]
  BY <1>1 DEF Shaped
<1>3. /\ Shaped(u) /\ u.phase = v.phase /\ u.members = v.members
      /\ u.turn = v.turn /\ u.run = run /\ u.state = v.state /\ u.sealed = v.sealed
  <2> HIDE DEF run, v
  <2> QED BY <1>1, <1>2, ShapedRun
<1>4. waves' = [waves EXCEPT ![w] = u]
  BY DEF WaveInv, WavesOK
<1> HIDE DEF u, run, v
<1>5. Later(v, u) BY <1>3 DEF Later
<1>6. PlannedIn(u) <=> PlannedIn(v) BY <1>3 DEF PlannedIn
<1>7. BindingOK(u) BY <1>1, <1>2, <1>3, <1>6 DEF BindingOK, WaveOK, v
<1>8. SealOK(u) BY <1>1, <1>3, <1>5, SealKept DEF WaveOK
<1>9. PrivateOK(u) BY <1>1, <1>2, <1>3 DEF PrivateOK, WaveOK, v
<1> QED BY <1>3, <1>4, <1>5, <1>6, <1>7, <1>8, <1>9, MemberStep DEF WaveOK, v

\* The steps of a Run, of its cancellation and of its release.
LEMMA RunStepsKeep ==
  ASSUME WaveInv, NEW w \in DOMAIN waves, NEW a \in waves[w].members,
         \/ OnRunInputRequired(w, a) \/ CancelRun(w, a) \/ RunWorks(w, a) \/ RunAsks(w, a)
         \/ Release(w, a) \/ \E state \in Endings, reply \in BOOLEAN : MemberRunEnds(w, a, state, reply)
  PROVE  WaveInv' /\ SettledKept
<1> DEFINE x == waves[w].run[a]
<1>1. x \in Runs /\ x.made <= 1 BY DEF WaveInv, WavesOK, WaveOK, Shaped, BindingOK
<1>2. waves \in Seq(Wave) /\ waves[w].run \in [waves[w].members -> Runs] /\ waves[w] \in Wave
  BY DEF WaveInv, WavesOK, WaveOK, Shaped
<1>3. pc.at = "up" => ~PlannedIn(waves[w]) BY DEF WaveInv, BoundOK
<1>4. ASSUME NEW s \in {"outcome_unknown", "canceled", "working"}, pc.at = "up",
             waves' = [waves EXCEPT ![w].run[a].state = s], disc' = disc, pc' = pc, RestOK'
      PROVE  WaveInv' /\ SettledKept
  <2> DEFINE r == [x EXCEPT !.state = s]
  <2>1. r \in Runs /\ r.made = x.made /\ r.released = x.released
    BY <1>1 DEF Runs, TerminalRunStates
  <2>2. waves' = [waves EXCEPT ![w].run[a] = r] BY <1>4, <1>2
  <2> HIDE DEF r
  <2>3. r.made <= 1 /\ (waves[w].run[a].released => r.released) BY <1>1, <2>1
  <2> QED BY <1>3, <1>4, <2>1, <2>2, <2>3, RunStep
<1>5. RestOK /\ (<<eligible, clock, left>>' = <<eligible, clock, left>> => RestOK')
  BY DEF WaveInv, RestOK
<1>6. CASE OnRunInputRequired(w, a) BY <1>4, <1>5, <1>6 DEF OnRunInputRequired
<1>7. CASE CancelRun(w, a) BY <1>4, <1>5, <1>7 DEF CancelRun
<1>8. CASE RunWorks(w, a) BY <1>4, <1>5, <1>8 DEF RunWorks
<1>9. CASE RunAsks(w, a)
  <2> DEFINE r == [x EXCEPT !.state = "input_required", !.asked = TRUE]
  <2>1. r \in Runs /\ r.made = x.made /\ r.released = x.released
    BY <1>1 DEF Runs
  <2>2. waves' = [waves EXCEPT ![w].run[a] = r] BY <1>9, <1>2 DEF RunAsks
  <2>3. RestOK' BY <1>5, <1>9 DEF RunAsks, RestOK
  <2> HIDE DEF r
  <2>4. r.made <= 1 /\ (waves[w].run[a].released => r.released) BY <1>1, <2>1
  <2>5. pc.at = "up" /\ disc' = disc /\ pc' = pc BY <1>9 DEF RunAsks
  <2> QED BY <1>3, <2>1, <2>2, <2>3, <2>4, <2>5, RunStep
<1>10. CASE Release(w, a)
  <2> DEFINE r == [x EXCEPT !.released = TRUE]
  <2>1. r \in Runs /\ r.made = x.made /\ r.released
    BY <1>1 DEF Runs
  <2>2. waves' = [waves EXCEPT ![w].run[a] = r] BY <1>10, <1>2 DEF Release
  <2> HIDE DEF r
  <2> QED BY <1>1, <1>3, <1>5, <1>10, <2>1, <2>2, RunStep DEF Release
<1>11. CASE \E state \in Endings, reply \in BOOLEAN : MemberRunEnds(w, a, state, reply)
  <2>1. PICK state \in Endings, reply \in BOOLEAN : MemberRunEnds(w, a, state, reply) BY <1>11
  <2>2. state \in {"completed", "failed", "canceled"} BY DiscussionWaveAssumption
  <2> DEFINE r == [x EXCEPT !.state = state, !.reply = reply]
  <2>3. r \in Runs /\ r.made = x.made /\ r.released = x.released
    BY <1>1, <2>2 DEF Runs, TerminalRunStates
  <2>4. /\ pc.at = "up" /\ UNCHANGED <<disc, eligible, clock, pc, left>>
        /\ waves' = [waves EXCEPT ![w].run[a].state = state, ![w].run[a].reply = reply]
    BY <2>1, Zenon DEF MemberRunEnds
  <2>5. waves' = [waves EXCEPT ![w].run[a] = r] BY <2>4, <1>2
  <2> HIDE DEF r
  <2>6. r.made <= 1 /\ (waves[w].run[a].released => r.released) BY <1>1, <2>3
  <2>7. pc.at = "up" /\ disc' = disc /\ pc' = pc /\ RestOK' BY <1>5, <2>4
  <2> QED BY <1>3, <2>3, <2>5, <2>6, <2>7, RunStep
<1> QED BY <1>6, <1>7, <1>8, <1>9, <1>10, <1>11

\* The Turn of a member is bound or stays, and its Run comes to be r.
LEMMA BindOK ==
  ASSUME WavesOK, NEW w \in DOMAIN waves, NEW a \in waves[w].members,
         NEW t \in Turns, NEW r \in Runs,
         t = waves[w].turn[a] \/ (Live(waves[w].turn[a]) /\ t.state = "queued" /\ t.bound),
         r.made <= 1, waves[w].run[a].released => r.released,
         PlannedIn(waves[w]) => r.state \notin {"working", "input_required", "completed"}
  PROVE  LET v == waves[w]
             u == WaveWith(v, [v.turn EXCEPT ![a] = t], [v.run EXCEPT ![a] = r], v.state, v.sealed)
         IN /\ WaveOK(u) /\ Later(v, u) /\ u.state = v.state
            /\ PlannedIn(u) => PlannedIn(v)
<1> DEFINE v == waves[w]
           turn == [v.turn EXCEPT ![a] = t]
           run == [v.run EXCEPT ![a] = r]
           u == WaveWith(v, turn, run, v.state, v.sealed)
<1>1. WaveOK(v) /\ Shaped(v) BY DEF WavesOK, WaveOK
<1>2. /\ run \in [v.members -> Runs] /\ run[a] = r /\ \A b \in v.members : b # a => run[b] = v.run[b]
      /\ turn \in [v.members -> Turns] /\ turn[a] = t
      /\ \A b \in v.members : b # a => turn[b] = v.turn[b]
  BY <1>1 DEF Shaped
<1>3. v.state \in {"open", "completed", "partial", "failed", "canceled"} /\ v.sealed \in SUBSET v.members
  BY <1>1 DEF Shaped, Wave
<1>4. /\ Shaped(u) /\ u.phase = v.phase /\ u.members = v.members
      /\ u.turn = turn /\ u.run = run /\ u.state = v.state /\ u.sealed = v.sealed
  <2> HIDE DEF run, turn, v
  <2> QED BY <1>1, <1>2, <1>3, ShapedWith
<1>5. /\ t = v.turn[a] \/ (Live(v.turn[a]) /\ t.state = "queued" /\ t.bound)
      /\ r.made <= 1 /\ (v.run[a].released => r.released) /\ a \in v.members
      /\ PlannedIn(v) => r.state \notin {"working", "input_required", "completed"}
  OBVIOUS
<1> HIDE DEF u, run, turn, v
<1>6. Later(v, u) BY <1>2, <1>4, <1>5 DEF Later
<1>7. PlannedIn(u) => PlannedIn(v) BY <1>2, <1>4, <1>5 DEF PlannedIn
<1>8. BindingOK(u)
  <2>1. \A b \in u.members :
          /\ u.turn[b].state = "queued" => u.turn[b].bound
          /\ u.turn[b].state = "planned" => ~u.turn[b].bound
          /\ u.run[b].made <= 1
    BY <1>1, <1>2, <1>4, <1>5 DEF BindingOK, WaveOK
  <2>2. ASSUME PlannedIn(u) PROVE u.state = "open" /\ \A b \in u.members :
            /\ u.turn[b].state # "completed"
            /\ u.run[b].state \notin {"working", "input_required", "completed"}
    BY <2>2, <1>1, <1>2, <1>4, <1>5, <1>7 DEF BindingOK, WaveOK
  <2> QED BY <2>1, <2>2 DEF BindingOK
<1>9. SealOK(u) BY <1>1, <1>4, <1>6, SealKept DEF WaveOK
<1>10. PrivateOK(u) BY <1>1, <1>2, <1>4, <1>5 DEF PrivateOK, WaveOK
<1> QED BY <1>4, <1>6, <1>7, <1>8, <1>9, <1>10 DEF WaveOK, u, run, turn, v

\* ensureRun creates the Run of a planned Turn, or binds the one that is there.
LEMMA EnsureRunKeeps ==
  ASSUME WaveInv, NEW w \in DOMAIN waves, NEW a \in waves[w].members, EnsureRun(w, a)
  PROVE  WaveInv' /\ SettledKept
<1> DEFINE x == waves[w].run[a]
           y == waves[w].turn[a]
<1>1. /\ waves \in Seq(Wave) /\ waves[w].run \in [waves[w].members -> Runs] /\ waves[w] \in Wave
      /\ waves[w].turn \in [waves[w].members -> Turns] /\ WaveOK(waves[w])
  BY DEF WaveInv, WavesOK, WaveOK, Shaped
<1>2. x \in Runs /\ x.made <= 1 /\ y \in Turns
  BY <1>1 DEF WaveOK, Shaped, BindingOK
<1>3. y.state = "planned" /\ PlannedIn(waves[w]) BY DEF EnsureRun, Unbound, PlannedIn
<1>4. x.state \notin {"working", "input_required", "completed"}
  BY <1>1, <1>3 DEF WaveOK, BindingOK
<1>5. UNCHANGED <<disc, eligible, clock, pc, left>> /\ RestOK'
  BY DEF EnsureRun, WaveInv, RestOK
<1>6. CASE CreateRun(w, a)
  <2> DEFINE r == [x EXCEPT !.state = "queued", !.made = 1]
  <2>1. x.made = 0 BY <1>6 DEF CreateRun
  <2>2. r \in Runs /\ r.made = 1 /\ r.released = x.released /\ r.state = "queued"
    <3>1. 1 \in 0..2 OBVIOUS
    <3>2. r \in Runs BY <1>2, <3>1 DEF Runs
    <3>3. r.made = 1 /\ r.state = "queued" BY <1>2 DEF Runs
    <3>4. r.released = x.released BY <1>2 DEF Runs
    <3> QED BY <3>2, <3>3, <3>4
  <2>3. waves' = [waves EXCEPT ![w].run[a] = r]
    <3>1. waves' = [waves EXCEPT ![w].run[a] = [x EXCEPT !.state = "queued", !.made = x.made + 1]]
      BY <1>1, <1>6 DEF CreateRun
    <3>2. x.made + 1 = 1 BY <2>1
    <3> QED BY <3>1, <3>2
  <2> HIDE DEF r
  <2>4. r.made <= 1 /\ (waves[w].run[a].released => r.released) BY <2>2
  <2> QED BY <1>5, <2>2, <2>3, <2>4, RunStep
<1>7. CASE BindTurnRun(w, a)
  <2> DEFINE v == waves[w]
             t == [y EXCEPT !.state = "queued", !.bound = TRUE]
             u == WaveWith(v, [v.turn EXCEPT ![a] = t], [v.run EXCEPT ![a] = x], v.state, v.sealed)
  <2>1. t \in Turns /\ t.state = "queued" /\ t.bound BY <1>2 DEF Turns
  <2>2. Live(y) BY <1>3 DEF Live, TerminalTurnStates
  <2>3. waves' = [waves EXCEPT ![w] = u]
    <3>1. waves' = [waves EXCEPT ![w] = [v EXCEPT !.turn = [v.turn EXCEPT ![a] = t]]]
      BY <1>1, <1>7 DEF BindTurnRun
    <3>2. [v.run EXCEPT ![a] = x] = v.run BY <1>1
    <3>3. u = [v EXCEPT !.turn = [v.turn EXCEPT ![a] = t]]
      BY <1>1, <3>2 DEF WaveWith, Wave
    <3> QED BY <3>1, <3>3
  <2>4. WavesOK BY DEF WaveInv
  <2>5. /\ WaveOK(u) /\ Later(v, u) /\ u.state = v.state /\ (PlannedIn(u) => PlannedIn(v))
    <3> HIDE DEF t
    <3> QED BY <2>1, <2>2, <2>4, <1>2, <1>4, BindOK
  <2> HIDE DEF u
  <2> QED BY <1>5, <2>3, <2>5, MemberStep
<1> QED BY <1>6, <1>7 DEF EnsureRun

\* At its deadline a member is bound and its Run ends.
LEMMA ExpireKeeps ==
  ASSUME WaveInv, NEW w \in DOMAIN waves, NEW a \in waves[w].members, Expire(w, a)
  PROVE  WaveInv' /\ SettledKept
<1> DEFINE v == waves[w]
           x == v.run[a]
           y == v.turn[a]
           s == IF x.state \in {"none", "queued"} THEN "expired" ELSE "outcome_unknown"
           r == [x EXCEPT !.state = s, !.made = 1]
           t == [y EXCEPT !.state = IF y.state = "planned" THEN "queued" ELSE y.state, !.bound = TRUE]
           u == WaveWith(v, [v.turn EXCEPT ![a] = t], [v.run EXCEPT ![a] = r], v.state, v.sealed)
<1>1. /\ waves \in Seq(Wave) /\ v.run \in [v.members -> Runs] /\ v \in Wave
      /\ v.turn \in [v.members -> Turns] /\ WaveOK(v) /\ WavesOK
  BY DEF WaveInv, WavesOK, WaveOK, Shaped
<1>2. x \in Runs /\ y \in Turns
  BY <1>1
<1>3. UNCHANGED <<disc, eligible, clock, pc, left>> /\ RestOK'
  <2>1. UNCHANGED <<disc, eligible, clock, pc, left>> BY Zenon DEF Expire
  <2> QED BY <2>1 DEF WaveInv, RestOK
<1>4. r \in Runs /\ r.made <= 1 /\ (x.released => r.released)
      /\ r.state \notin {"working", "input_required", "completed"}
  <2>1. 1 \in 0..2 /\ s \in {"expired", "outcome_unknown"} OBVIOUS
  <2> HIDE DEF s
  <2>2. r \in Runs BY <1>2, <2>1 DEF Runs, TerminalRunStates
  <2>3. r.made = 1 /\ r.state = s BY <1>2 DEF Runs
  <2>4. r.released = x.released BY <1>2 DEF Runs
  <2> QED BY <2>1, <2>2, <2>3, <2>4
<1>5. t \in Turns BY <1>2 DEF Turns
<1>6. t = y \/ (Live(y) /\ t.state = "queued" /\ t.bound)
  <2>1. CASE y.state = "planned" BY <2>1, <1>2 DEF Live, TerminalTurnStates, Turns
  <2>2. CASE y.state # "planned"
    <3>1. y.bound
      <4>1. \A b \in Before(w, a) \cup {a} : ~Stranded(w, b) BY Zenon DEF Expire
      <4> QED BY <1>1, <1>2, <2>2, <4>1
            DEF Stranded, Live, TerminalTurnStates, Turns, WaveOK, BindingOK
    <3>2. y.bound = TRUE BY <1>2, <3>1 DEF Turns
    <3> QED BY <1>2, <2>2, <3>2 DEF Turns
  <2> QED BY <2>1, <2>2
<1>7. waves' = [waves EXCEPT ![w] = u]
  <2>1. waves' = [waves EXCEPT ![w] = [v EXCEPT !.run = [v.run EXCEPT ![a] = r],
                                                !.turn = [v.turn EXCEPT ![a] = t]]]
    <3>1. waves' = [waves EXCEPT ![w].run[a] = r, ![w].turn[a] = t]
      BY <1>1 DEF Expire
    <3> HIDE DEF r, t
    <3> QED BY <3>1, <1>1 DEF Wave
  <2>2. u = [v EXCEPT !.run = [v.run EXCEPT ![a] = r], !.turn = [v.turn EXCEPT ![a] = t]]
    <3> HIDE DEF r, t
    <3> QED BY <1>1 DEF WaveWith, Wave
  <2> QED BY <2>1, <2>2
<1>8. /\ WaveOK(u) /\ Later(v, u) /\ u.state = v.state /\ (PlannedIn(u) => PlannedIn(v))
  <2> HIDE DEF t, r
  <2> QED BY <1>1, <1>4, <1>5, <1>6, BindOK
<1> HIDE DEF u
<1> QED BY <1>3, <1>7, <1>8, MemberStep

\* Or the pass over the due Waves throws at a Turn that was settled before it had a Run.
LEMMA ExpireThrowsKeeps ==
  ASSUME WaveInv, NEW w \in DOMAIN waves, NEW a \in waves[w].members, ExpireThrows(w, a)
  PROVE  WaveInv' /\ SettledKept
<1> DEFINE v == waves[w]
           x == v.run[a]
           s == IF x.state = "none" THEN "queued" ELSE x.state
           r == [x EXCEPT !.state = s, !.made = 1]
           u == WaveWith(v, [v.turn EXCEPT ![a] = v.turn[a]], [v.run EXCEPT ![a] = r], v.state, v.sealed)
<1>1. /\ waves \in Seq(Wave) /\ v.run \in [v.members -> Runs] /\ v \in Wave
      /\ v.turn \in [v.members -> Turns] /\ WaveOK(v) /\ WavesOK
  BY DEF WaveInv, WavesOK, WaveOK, Shaped
<1>2. x \in Runs /\ v.turn[a] \in Turns
  BY <1>1
<1>3. UNCHANGED <<disc, eligible, clock, left>> /\ RestOK'
  BY DEF ExpireThrows, WaveInv, RestOK
<1>4. /\ r \in Runs /\ r.made <= 1 /\ (x.released => r.released)
      /\ PlannedIn(v) => r.state \notin {"working", "input_required", "completed"}
  <2>1. 1 \in 0..2 OBVIOUS
  <2>2. /\ s \in {"none", "queued", "working", "input_required"} \cup TerminalRunStates
        /\ PlannedIn(v) => s \notin {"working", "input_required", "completed"}
    BY <1>1, <1>2 DEF Runs, WaveOK, BindingOK
  <2> HIDE DEF s
  <2>3. r \in Runs BY <1>2, <2>1, <2>2 DEF Runs
  <2>4. r.made = 1 /\ r.state = s BY <1>2 DEF Runs
  <2>5. r.released = x.released BY <1>2 DEF Runs
  <2> QED BY <2>2, <2>3, <2>4, <2>5
<1>5. waves' = [waves EXCEPT ![w] = u]
  <2>1. waves' = [waves EXCEPT ![w] = [v EXCEPT !.run = [v.run EXCEPT ![a] = r]]]
    <3>1. waves' = [waves EXCEPT ![w].run[a] = r] BY <1>1 DEF ExpireThrows
    <3> HIDE DEF r
    <3> QED BY <3>1, <1>1 DEF Wave
  <2>2. [v.turn EXCEPT ![a] = v.turn[a]] = v.turn BY <1>1
  <2>3. u = [v EXCEPT !.run = [v.run EXCEPT ![a] = r]]
    <3> HIDE DEF r
    <3> QED BY <1>1, <2>2 DEF WaveWith, Wave
  <2> QED BY <2>1, <2>3
<1>6. /\ WaveOK(u) /\ Later(v, u) /\ u.state = v.state /\ (PlannedIn(u) => PlannedIn(v))
  <2> HIDE DEF r
  <2> QED BY <1>1, <1>2, <1>4, BindOK
<1> HIDE DEF u
<1>7. CASE pc' = pc BY <1>3, <1>5, <1>6, <1>7, MemberStep
<1>8. CASE pc' = At("down")
  <2>1. Evolves(waves') /\ waves'[w] = u /\ \A z \in DOMAIN waves : z # w => waves'[z] = waves[z]
    BY <1>1, <1>5, <1>6, TouchEvolves
  <2>2. \A z \in DOMAIN waves :
          /\ waves'[z].state = waves[z].state
          /\ PlannedIn(waves'[z]) => PlannedIn(waves[z])
    BY <1>6, <2>1
  <2>3. pc' \in PcType /\ pc'.closing = pc.closing /\ pc'.at = "down"
    BY <1>8 DEF At, PcType, PcOK, WaveInv
  <2> QED BY <1>3, <2>1, <2>2, <2>3, QuietStep
<1> QED BY <1>7, <1>8 DEF ExpireThrows

\* closeCanceledWaves ends the Run of a member.
LEMMA EndCanceledKeeps ==
  ASSUME WaveInv, NEW a, EndCanceled(a)
  PROVE  WaveInv' /\ SettledKept
<1> DEFINE w == pc.closing
           x == waves[w].run[a]
           s == IF x.state = "queued" THEN "canceled" ELSE "outcome_unknown"
           r == [x EXCEPT !.state = s]
<1>1. w # 0 /\ a \in waves[w].members BY DEF EndCanceled, NextCanceled
<1>2. w \in DOMAIN waves
  BY <1>1, LastOfWaves DEF WaveInv, PcOK
<1>3. /\ waves \in Seq(Wave) /\ waves[w].run \in [waves[w].members -> Runs] /\ waves[w] \in Wave
      /\ x \in Runs /\ x.made <= 1
  BY <1>1, <1>2 DEF WaveInv, WavesOK, WaveOK, Shaped, BindingOK
<1>4. UNCHANGED <<disc, eligible, clock, pc, left>> /\ RestOK'
  BY DEF EndCanceled, WaveInv, RestOK
<1>5. /\ r \in Runs /\ r.made = x.made /\ r.released = x.released /\ r.state = s
  BY <1>3 DEF Runs, TerminalRunStates
<1>6. waves' = [waves EXCEPT ![w].run[a] = r] BY <1>3 DEF EndCanceled
<1>7. s \notin {"working", "input_required", "completed"} OBVIOUS
<1> HIDE DEF r, s
<1>8. r.made <= 1 /\ (waves[w].run[a].released => r.released) BY <1>3, <1>5
<1> HIDE DEF x, w
<1> QED BY <1>1, <1>2, <1>4, <1>5, <1>6, <1>7, <1>8, RunStep

\* The open Wave is the last one.
LEMMA OpenIsLast ==
  ASSUME WaveInv
  PROVE  /\ \A w \in OpenWaves : w = Len(waves) /\ w \in DOMAIN waves
         /\ OpenWaves # {} <=> AtWork
         /\ OpenWaves # {} => Open = Len(waves)
<1>1. Len(waves) \in DOMAIN waves BY LastOfWaves DEF WaveInv
<1>2. \A w \in OpenWaves : w = Len(waves) /\ w \in DOMAIN waves
  BY DEF OpenWaves, WaveInv, OrderOK
<1>3. OpenWaves # {} <=> AtWork BY <1>1, <1>2 DEF OpenWaves, AtWork, LastWave
<1>4. OpenWaves # {} => Open \in OpenWaves BY DEF Open
<1> QED BY <1>2, <1>3, <1>4

\* Central stops, starts, and passes from one phase of its start to the next.
LEMMA PhasesKeep ==
  ASSUME WaveInv,
         Crash \/ Restart \/ NothingDue \/ NothingToPlan \/ BindingDone \/ Serve
  PROVE  WaveInv' /\ SettledKept
<1>1. pc \in PcType /\ RestOK BY DEF WaveInv, PcOK
<1>2. Len(waves) \in DOMAIN waves BY LastOfWaves DEF WaveInv
<1>3. CASE Crash
  <2>1. /\ pc' = [at |-> "down", then |-> "up", affected |-> FALSE, turns |-> 0, closing |-> 0]
        /\ UNCHANGED <<disc, waves>>
    BY <1>3 DEF Crash
  <2>2. RestOK' BY <1>1, <1>3 DEF Crash, RestOK
  <2>3. pc' \in PcType /\ pc'.at = "down" /\ pc'.closing = 0 BY <2>1 DEF PcType
  <2> QED BY <2>1, <2>2, <2>3, PlaceStep
<1>4. CASE Restart
  <2> DEFINE c == IF disc.state = "canceled" /\ OpenWaves # {} THEN Open ELSE 0
  <2>1. /\ pc' = [at |-> "canceled", then |-> "advance", affected |-> FALSE, turns |-> 0, closing |-> c]
        /\ UNCHANGED <<disc, waves, eligible, clock, left>>
    BY <1>4 DEF Restart
  <2>2. RestOK' BY <1>1, <2>1 DEF RestOK
  <2>3. c = 0 \/ (c \in DOMAIN waves /\ disc.state = "canceled")
    BY <1>2, OpenIsLast
  <2>4. c \in Nat BY <2>3, LastOfWaves DEF WaveInv
  <2> HIDE DEF c
  <2>5. pc' \in PcType /\ pc'.at = "canceled" /\ pc'.closing = c BY <2>1, <2>4 DEF PcType
  <2> QED BY <2>1, <2>2, <2>3, <2>5, PlaceStep
<1>5. CASE NothingDue
  <2>1. pc' = At("replan") /\ UNCHANGED <<disc, waves, eligible, clock, left>>
    BY <1>5 DEF NothingDue
  <2>2. RestOK' BY <1>1, <2>1 DEF RestOK
  <2>3. pc' \in PcType /\ pc'.at = "replan" /\ pc'.closing = pc.closing BY <1>1, <2>1 DEF PcType, At
  <2> QED BY <2>1, <2>2, <2>3, PlaceStep
<1>6. CASE NothingToPlan
  <2>1. pc' = At("reconcile") /\ UNCHANGED <<disc, waves, eligible, clock, left>> /\ ~NeedsPlan
    BY <1>6 DEF NothingToPlan
  <2>2. RestOK' BY <1>1, <2>1 DEF RestOK
  <2>3. pc' \in PcType /\ pc'.at = "reconcile" /\ pc'.closing = pc.closing
    BY <1>1, <2>1 DEF PcType, At
  <2>4. ~(disc.state = "active" /\ ~AtWork) BY <2>1, OpenIsLast DEF NeedsPlan
  <2> QED BY <2>1, <2>2, <2>3, <2>4, PlaceStep
<1>7. CASE BindingDone
  <2>1. /\ pc' = At(pc.then) /\ UNCHANGED <<disc, waves, eligible, clock, left>> /\ pc.at = "bind"
        /\ \A w \in DOMAIN waves : Unbound(w) = {}
    BY <1>7 DEF BindingDone
  <2>2. RestOK' BY <1>1, <2>1 DEF RestOK
  <2>3. pc' \in PcType /\ pc'.at \in {"up", "reconcile", "advance"} /\ pc'.closing = pc.closing
    BY <1>1, <2>1 DEF PcType, At
  <2>4. \A w \in DOMAIN waves : ~PlannedIn(waves[w]) BY <2>1 DEF Unbound, PlannedIn
  <2>5. ~(disc.state = "active" /\ ~AtWork) BY <2>1 DEF WaveInv, StandingOK
  <2> QED BY <2>1, <2>2, <2>3, <2>4, <2>5, PlaceStep
<1>8. CASE Serve
  <2>1. /\ pc' = [at |-> "up", then |-> "up", affected |-> FALSE, turns |-> 0, closing |-> 0]
        /\ UNCHANGED <<disc, waves, eligible, clock, left>> /\ pc.at = "settle"
    BY <1>8 DEF Serve
  <2>2. RestOK' BY <1>1, <2>1 DEF RestOK
  <2>3. pc' \in PcType /\ pc'.at = "up" /\ pc'.closing = 0 BY <2>1 DEF PcType
  <2>4. \A w \in DOMAIN waves : ~PlannedIn(waves[w]) BY <2>1 DEF WaveInv, BoundOK
  <2>5. ~(disc.state = "active" /\ ~AtWork) BY <2>1 DEF WaveInv, StandingOK
  <2> QED BY <2>1, <2>2, <2>3, <2>4, <2>5, PlaceStep
<1> QED BY <1>3, <1>4, <1>5, <1>6, <1>7, <1>8

\* Deadlines pass and participants lose their eligibility.
LEMMA SurroundingsKeep ==
  ASSUME WaveInv,
         \/ SoftDeadline \/ WaveDeadline \/ DiscussionDeadline
         \/ \E a \in Participants : LoseEligibility(a)
  PROVE  WaveInv' /\ SettledKept
<1>1. pc \in PcType /\ RestOK BY DEF WaveInv, PcOK
<1>2. UNCHANGED <<disc, waves, pc>>
  BY DEF SoftDeadline, WaveDeadline, DiscussionDeadline, LoseEligibility
<1>3. RestOK'
  <2>1. CASE SoftDeadline BY <1>1, <2>1 DEF SoftDeadline, RestOK
  <2>2. CASE WaveDeadline BY <1>1, <2>2 DEF WaveDeadline, RestOK
  <2>3. CASE DiscussionDeadline
    <3> DEFINE ends == OpenWaves # {} /\ waves[Open].phase = "contribution"
    <3>1. /\ clock' = [soft |-> clock.soft \/ ends, wave |-> clock.wave \/ ends, discussion |-> TRUE]
          /\ UNCHANGED <<eligible, left>>
      BY <2>3 DEF DiscussionDeadline
    <3>2. ends \in BOOLEAN OBVIOUS
    <3> HIDE DEF ends
    <3> QED BY <1>1, <3>1, <3>2 DEF RestOK
  <2>4. CASE \E a \in Participants : LoseEligibility(a) BY <1>1, <2>4 DEF LoseEligibility, RestOK
  <2> QED BY <2>1, <2>2, <2>3, <2>4
<1>4. disc.state = "active" /\ ~AtWork => pc.at \in {"goal", "down", "canceled", "due", "replan"}
  BY DEF WaveInv, StandingOK
<1> QED BY <1>1, <1>2, <1>3, <1>4, PlaceStep

\* A Wave that is closed has nothing left to be bound, and only the last one can be open.
LEMMA ClosedIsBound ==
  ASSUME WaveInv, NEW w \in DOMAIN waves, PlannedIn(waves[w])
  PROVE  w = Len(waves) /\ AtWork
BY DEF WaveInv, WavesOK, WaveOK, BindingOK, OrderOK, AtWork, LastWave

\* reconcileDiscussion gives up the planned Turns of participants that are not eligible.
LEMMA ReconcileKeeps ==
  ASSUME WaveInv, Reconcile
  PROVE  WaveInv' /\ SettledKept
<1> DEFINE over == disc.state \in TerminalDiscussionStates
           lost == IF over \/ OpenWaves = {} THEN {} ELSE Unbound(Open) \ eligible
           v == waves[Open]
           turn == [a \in v.members |->
                      IF a \in lost THEN [v.turn[a] EXCEPT !.state = "failed"] ELSE v.turn[a]]
           u == [v EXCEPT !.turn = turn]
<1>1. /\ waves' = IF lost = {} THEN waves ELSE [waves EXCEPT ![Open].turn = turn]
      /\ pc' = [pc EXCEPT !.at = IF over THEN "settle" ELSE "bind",
                          !.then = "advance", !.affected = (lost # {})]
      /\ UNCHANGED <<disc, eligible, clock, left>> /\ pc.at = "reconcile"
  BY DEF Reconcile
<1>2. pc \in PcType /\ RestOK BY DEF WaveInv, PcOK
<1>3. /\ pc' \in PcType /\ pc'.closing = pc.closing /\ pc'.at \in {"settle", "bind"}
      /\ pc'.at = "settle" => over
  <2>1. (lost # {}) \in BOOLEAN OBVIOUS
  <2> HIDE DEF lost, over
  <2> QED BY <1>1, <1>2, <2>1 DEF PcType
<1>4. RestOK' BY <1>1, <1>2 DEF RestOK
<1>5. ~(disc.state = "active" /\ ~AtWork) BY <1>1 DEF WaveInv, StandingOK
<1>6. pc'.at = "settle" => \A w \in DOMAIN waves : ~PlannedIn(waves[w])
  BY <1>3 DEF WaveInv, BoundOK
<1>7. CASE lost = {}
  BY <1>1, <1>3, <1>4, <1>5, <1>6, <1>7, PlaceStep
<1>8. CASE lost # {}
  <2>1. OpenWaves # {} /\ lost \subseteq Unbound(Open) BY <1>8
  <2>2. Open \in DOMAIN waves /\ Open \in OpenWaves
    BY <2>1 DEF Open, OpenWaves
  <2>3. waves \in Seq(Wave) /\ WavesOK /\ WaveOK(v) /\ Shaped(v) /\ v.turn \in [v.members -> Turns]
    BY <2>2 DEF WaveInv, WavesOK, WaveOK, Shaped
  <2>4. \A a \in lost : a \in v.members /\ v.turn[a].state = "planned"
    BY <2>1 DEF Unbound
  <2>5. waves' = [waves EXCEPT ![Open] = u] BY <1>1, <1>8, <2>3
  <2> HIDE DEF lost
  <2>6. turn \in [v.members -> Turns]
    <3>1. \A a \in v.members : [v.turn[a] EXCEPT !.state = "failed"] \in Turns
      BY <2>3 DEF Turns, TerminalTurnStates
    <3> QED BY <2>3, <3>1
  <2>7. \A a \in v.members :
          /\ a \in lost => turn[a].state = "failed" /\ v.turn[a].state = "planned"
          /\ a \notin lost => turn[a] = v.turn[a]
    BY <2>3, <2>4 DEF Turns
  <2>8. /\ Shaped(u) /\ u.phase = v.phase /\ u.members = v.members
        /\ u.turn = turn /\ u.run = v.run /\ u.state = v.state /\ u.sealed = v.sealed
    <3> HIDE DEF turn, v
    <3> QED BY <2>3, <2>6, ShapedTurn
  <2> HIDE DEF u, turn, v
  <2>9. Later(v, u) BY <2>7, <2>8 DEF Later, Live, TerminalTurnStates
  <2>10. PlannedIn(u) => PlannedIn(v) BY <2>7, <2>8 DEF PlannedIn
  <2>11. BindingOK(u)
    <3>1. \A b \in u.members :
            /\ u.turn[b].state = "queued" => u.turn[b].bound
            /\ u.turn[b].state = "planned" => ~u.turn[b].bound
            /\ u.run[b].made <= 1
      BY <2>3, <2>7, <2>8 DEF BindingOK, WaveOK
    <3>2. ASSUME PlannedIn(u) PROVE u.state = "open" /\ \A b \in u.members :
              /\ u.turn[b].state # "completed"
              /\ u.run[b].state \notin {"working", "input_required", "completed"}
      BY <3>2, <2>3, <2>7, <2>8, <2>10 DEF BindingOK, WaveOK
    <3> QED BY <3>1, <3>2 DEF BindingOK
  <2>12. SealOK(u) BY <2>3, <2>8, <2>9, SealKept DEF WaveOK
  <2>13. PrivateOK(u) BY <2>3, <2>7, <2>8 DEF PrivateOK, WaveOK
  <2>14. WaveOK(u) BY <2>8, <2>11, <2>12, <2>13 DEF WaveOK
  <2>15. Evolves(waves') /\ waves'[Open] = u /\ \A z \in DOMAIN waves : z # Open => waves'[z] = waves[z]
    BY <2>2, <2>3, <2>5, <2>9, <2>14, TouchEvolves DEF v
  <2>16. \A z \in DOMAIN waves :
          /\ waves'[z].state = waves[z].state
          /\ PlannedIn(waves'[z]) => PlannedIn(waves[z])
    BY <2>8, <2>10, <2>15 DEF v
  <2> QED BY <1>1, <1>3, <1>4, <1>5, <1>6, <2>15, <2>16, QuietStep
<1> QED BY <1>7, <1>8

\* The last Wave closes and the Discussion rests or is over.
LEMMA RestStep ==
  ASSUME WaveInv, AtWork, NEW u, WaveOK(u), Later(LastWave, u), u.state # "open",
         waves' = [waves EXCEPT ![Len(waves)] = u],
         disc' \in Discussions, RestOK', pc' \in PcType, pc'.at # "goal",
         pc'.closing = pc.closing \/ pc'.closing = 0,
         disc'.state \in RestingStates \cup TerminalDiscussionStates,
         u.phase = "finalization" => disc'.state \in TerminalDiscussionStates,
         disc'.state # "canceled" =>
           disc'.budget.used = IF u.phase = "contribution" THEN Len(waves) ELSE Len(waves) - 1,
         disc'.budget.used <= disc'.budget.lease, disc'.budget.used <= RegularTurnLimit
  PROVE  WaveInv' /\ SettledKept
<1>1. /\ Len(waves) \in Nat \ {0} /\ DOMAIN waves = 1..Len(waves) /\ Len(waves) \in DOMAIN waves
      /\ WavesOK /\ OneLiveTurnPerAgent
  BY LastOfWaves DEF WaveInv
<1>2. /\ Evolves(waves') /\ waves'[Len(waves)] = u
      /\ \A z \in DOMAIN waves : z # Len(waves) => waves'[z] = waves[z]
  BY <1>1, TouchEvolves DEF LastWave
<1>3. /\ WavesOK' /\ OneLiveTurnPerAgent' /\ SettledKept
      /\ DOMAIN waves' = DOMAIN waves /\ Len(waves') = Len(waves)
  BY <1>1, <1>2, EvolvedKeeps
<1>4. LastWave' = u /\ ~AtWork' /\ u.phase = LastWave.phase
  BY <1>2, <1>3 DEF LastWave, AtWork, Later
<1>5. \A z \in DOMAIN waves' : waves'[z].state # "open"
  BY <1>2, <1>3 DEF WaveInv, OrderOK
<1>6. OrderOK'
  BY <1>2, <1>3, <1>5 DEF WaveInv, OrderOK
<1>7. BoundOK'
  <2>1. \A z \in DOMAIN waves' : ~PlannedIn(waves'[z])
    BY <1>3, <1>5 DEF WavesOK, WaveOK, BindingOK
  <2> QED BY <2>1 DEF BoundOK
<1>8. StandingOK'
  BY <1>4 DEF StandingOK, RestingStates, TerminalDiscussionStates
<1>9. Charged'
  <2>1. u.phase \in {"contribution", "finalization"} BY DEF WaveOK, Shaped, Wave
  <2> QED BY <1>1, <1>3, <1>4, <2>1, PolicyNumbers DEF Charged, WaveInv
<1>10. PcOK'
  <2>1. pc'.closing \in 0..Len(waves') BY <1>1, <1>3 DEF PcOK, WaveInv
  <2>2. pc'.closing # 0 => pc'.closing \in DOMAIN waves' BY <2>1, <1>1, <1>3
  <2> QED BY <2>1, <2>2, <1>5 DEF PcOK
<1> QED BY <1>3, <1>6, <1>7, <1>8, <1>9, <1>10 DEF WaveInv

\* A Wave is opened after Waves that are closed.
LEMMA OpenStep ==
  ASSUME WaveInv, LastWave.phase = "contribution", NEW ws, Evolves(ws),
         \A w \in DOMAIN waves : ws[w].state # "open",
         NEW v, WaveOK(v), v.state = "open", v.members \cap LiveAgents(ws) = {},
         waves' = Append(ws, v), disc' \in Discussions, RestOK', pc' \in PcType,
         pc'.at # "goal", pc'.closing = pc.closing \/ pc'.closing = 0,
         pc'.at \in {"up", "advance", "settle"} => ~PlannedIn(v),
         \/ /\ v.phase = "contribution" /\ disc'.state = "active"
            /\ disc'.budget.used < disc'.budget.lease /\ disc'.budget.used < RegularTurnLimit
         \/ /\ v.phase = "finalization" /\ disc'.state = "finalizing"
            /\ disc'.budget.used <= disc'.budget.lease /\ disc'.budget.used <= RegularTurnLimit,
         disc'.budget.used = Len(waves)
  PROVE  WaveInv' /\ SettledKept
<1>1. /\ Len(waves) \in Nat \ {0} /\ DOMAIN waves = 1..Len(waves) /\ Len(waves) \in DOMAIN waves
      /\ WavesOK /\ OneLiveTurnPerAgent
  BY LastOfWaves DEF WaveInv
<1>2. /\ WavesOK' /\ OneLiveTurnPerAgent' /\ SettledKept
      /\ Len(waves') = Len(waves) + 1 /\ waves'[Len(waves')] = v
      /\ DOMAIN waves' = 1..(Len(waves) + 1)
      /\ \A w \in DOMAIN waves : w \in DOMAIN waves' /\ waves'[w] = ws[w]
  BY <1>1, AddedKeeps
<1>3. LastWave' = v /\ AtWork' BY <1>2 DEF LastWave, AtWork
<1>4. \A w \in DOMAIN waves' : w \in DOMAIN waves \/ w = Len(waves') BY <1>1, <1>2
<1>5. \A w \in DOMAIN waves : waves'[w].state # "open" /\ waves'[w].phase = "contribution"
  <2>1. \A w \in DOMAIN waves : waves[w].phase = "contribution"
    <3>1. \A w \in DOMAIN waves : waves[w].phase = "finalization" => w = Len(waves)
      BY DEF WaveInv, OrderOK
    <3>2. \A w \in DOMAIN waves : waves[w].phase \in {"contribution", "finalization"}
      BY <1>1 DEF WavesOK, WaveOK, Shaped, Wave
    <3> QED BY <3>1, <3>2 DEF LastWave
  <2> QED BY <1>2, <2>1 DEF Evolves, Later
<1>6. OrderOK' BY <1>4, <1>5 DEF OrderOK
<1>7. BoundOK'
  <2>1. \A w \in DOMAIN waves : ~PlannedIn(waves'[w])
    BY <1>2, <1>5 DEF WavesOK, WaveOK, BindingOK
  <2> QED BY <1>2, <1>4, <2>1 DEF BoundOK, TerminalDiscussionStates
<1>8. StandingOK' BY <1>3 DEF StandingOK, RestingStates, TerminalDiscussionStates
<1>9. Charged'
  <2> DEFINE b == disc'.budget n == Len(waves)
  <2>1. n \in Nat \ {0} /\ b.used \in Nat /\ b.lease \in Nat /\ RegularTurnLimit \in Nat /\ b.used = n
    BY <1>1, PolicyNumbers DEF Discussions, Budgets
  <2>2. LastWave' = v /\ AtWork' /\ Len(waves') = n + 1 BY <1>2, <1>3
  <2> HIDE DEF n
  <2>3. CASE v.phase = "contribution"
    <3>1. b.used < b.lease /\ b.used < RegularTurnLimit BY <2>3
    <3>2. /\ b.used = Len(waves') - 1 /\ b.used <= b.lease /\ b.used <= RegularTurnLimit
          /\ Len(waves') <= RegularTurnLimit + 0
      BY <2>1, <2>2, <3>1
    <3> QED BY <2>2, <2>3, <3>1, <3>2 DEF Charged
  <2>4. CASE v.phase = "finalization"
    <3>1. b.used <= b.lease /\ b.used <= RegularTurnLimit BY <2>4
    <3>2. b.used = Len(waves') - 1 /\ Len(waves') <= RegularTurnLimit + 1
      BY <2>1, <2>2, <3>1
    <3> QED BY <2>2, <2>4, <3>1, <3>2 DEF Charged
  <2> QED BY <2>3, <2>4
<1>10. PcOK'
  <2>1. pc'.closing \in 0..Len(waves) BY <1>1 DEF PcOK, WaveInv
  <2>2. pc'.closing # 0 => pc'.closing \in DOMAIN waves BY <2>1, <1>1
  <2>3. pc'.closing \in 0..Len(waves') BY <2>1, <1>1, <1>2
  <2> QED BY <2>2, <2>3, <1>5 DEF PcOK
<1> QED BY <1>2, <1>6, <1>7, <1>8, <1>9, <1>10 DEF WaveInv

\* The clock of a Wave that opens is a clock.
LEMMA ClockTyped ==
  ASSUME RestOK, NEW phase
  PROVE  /\ ClockOfWave(phase) \in [soft : BOOLEAN, wave : BOOLEAN, discussion : BOOLEAN]
<1> DEFINE past == phase = "contribution" /\ clock.discussion
<1>1. past \in BOOLEAN OBVIOUS
<1>2. ClockOfWave(phase) = [clock EXCEPT !.soft = past, !.wave = past] BY DEF ClockOfWave
<1> HIDE DEF past
<1> QED BY <1>1, <1>2 DEF RestOK

\* The charge of a Wave keeps the budget within the lease and the limit.
LEMMA ChargedBudget ==
  ASSUME WaveInv, AtWork, LastWave.phase = "contribution"
  PROVE  LET b == RecordTurnUsage(disc.budget, clock.discussion)
         IN /\ b \in Budgets /\ b.used = Len(waves) /\ b.used <= b.lease /\ b.used <= RegularTurnLimit
<1>1. disc.budget \in Budgets /\ clock.discussion \in BOOLEAN
  BY DEF WaveInv, Discussions, RestOK
<1>2. Len(waves) \in Nat BY LastOfWaves DEF WaveInv
<1>3. /\ disc.budget.used = Len(waves) - 1 /\ disc.budget.used < disc.budget.lease
      /\ disc.budget.used < RegularTurnLimit
  BY DEF WaveInv, Charged
<1>4. RegularTurnLimit \in Nat BY PolicyNumbers
<1> QED BY <1>1, <1>2, <1>3, <1>4 DEF RecordTurnUsage, Budgets

\* What decideDiscussion says of a budget within the lease and the limit.
LEMMA DecidedBudget ==
  ASSUME NEW b \in Budgets, b.used <= b.lease, b.used <= RegularTurnLimit,
         NEW d, DecisionOK(d, b), NEW c,
         c = IF d.grant THEN AutomaticLease(b) ELSE b
  PROVE  /\ c \in Budgets /\ c.used = b.used /\ c.used <= c.lease
         /\ d.action = "continue" => c.used < c.lease /\ c.used < RegularTurnLimit
<1>1. b.used \in Nat /\ b.lease \in Nat /\ RegularTurnLimit \in Nat
  BY PolicyNumbers DEF Budgets
<1>2. CASE d.grant
  <2>1. ~HardBoundary(b) /\ LeaseBoundary(b) /\ b.lease < AutomaticMax
    BY <1>2, Zenon DEF DecisionOK
  <2>2. b.used = b.lease BY <1>1, <2>1 DEF LeaseBoundary
  <2>3. c = AutomaticLease(b) BY <1>2
  <2>4. c.used = b.used /\ b.used < c.lease BY <2>1, <2>2, <2>3, AutomaticLeaseGrants
  <2>5. c \in Budgets
    <3>1. 1 \in 1..2 /\ TRUE \in BOOLEAN OBVIOUS
    <3> QED BY <2>3, <3>1, BudgetTypes
  <2>6. b.used < RegularTurnLimit BY <1>1, <2>1 DEF HardBoundary
  <2>7. c.lease \in Nat BY <2>5 DEF Budgets
  <2> QED BY <1>1, <2>4, <2>5, <2>6, <2>7
<1>3. CASE ~d.grant
  <2>1. c = b BY <1>3
  <2>2. d.action = "continue" => ~HardBoundary(b) /\ ~LeaseBoundary(b)
    BY <1>3, Zenon DEF DecisionOK
  <2>3. d.action = "continue" => b.used < b.lease /\ b.used < RegularTurnLimit
    BY <1>1, <2>2 DEF HardBoundary, LeaseBoundary
  <2> QED BY <2>1, <2>3
<1> QED BY <1>2, <1>3

\* The Agents with a Turn at work, told from the Turns alone.
LEMMA LiveAgentsSame ==
  ASSUME NEW vs, NEW ws, DOMAIN vs = DOMAIN ws,
         \A w \in DOMAIN vs : ws[w].members = vs[w].members /\ ws[w].turn = vs[w].turn
  PROVE  LiveAgents(ws) = LiveAgents(vs)
BY DEF LiveAgents

\* closeReadyWaveAndApply: u is the last Wave, closed.
LEMMA AdvanceSettledKeeps ==
  ASSUME WaveInv, AtWork, LastWave.phase = "contribution",
         NEW turn, NEW accepted \in SUBSET LastWave.members, NEW sealed \in BOOLEAN,
         NEW now \in BOOLEAN, NEW u, WaveOK(u), Later(LastWave, u), u.state # "open",
         u = WaveWith(LastWave, turn, LastWave.run, IF sealed THEN "partial" ELSE CloseState(turn),
                      IF sealed THEN accepted ELSE {}),
         u.turn = turn,
         AdvanceSettledWave(Len(waves), turn, accepted, sealed, now),
         UNCHANGED <<eligible, left>>, pc' \in PcType, pc'.at # "goal",
         pc'.closing = pc.closing \/ pc'.closing = 0,
         pc'.at \in {"up", "advance", "settle"} => now
  PROVE  WaveInv' /\ SettledKept
<1> DEFINE n == Len(waves)
           settled == [waves EXCEPT ![n].turn = turn]
           closed == [settled EXCEPT ![n].state = IF sealed THEN "partial" ELSE CloseState(turn),
                                     ![n].sealed = IF sealed THEN accepted ELSE {}]
           next == NextEligible(settled)
           successes == accepted \cap Completed(turn)
           used == RecordTurnUsage(disc.budget, clock.discussion)
           asked == \E a \in accepted : turn[a].asked
           failed == successes = {}
           decision(p) == Decide(p, used, disc.requested, asked, failed)
           stays(p) == decision(p).action = "continue"
                        /\ (next = {} \/ ~RequiredRolesAvailable(next))
           finalizes(p) == decision(p).action = "finalize"
           hard(p) == finalizes(p) /\ decision(p).reason = "hard_budget_exhausted"
           budget(p) == IF decision(p).grant /\ ~stays(p) THEN AutomaticLease(used) ELSE used
           state(p) == CASE stays(p) -> "waiting_human"
                         [] finalizes(p) /\ next = {} ->
                              IF decision(p).reason = "hard_budget_exhausted"
                              THEN "terminated" ELSE "completed"
                         [] OTHER -> decision(p).state
           row(p) == [state |-> state(p), requested |-> Nothing, progress |-> p,
                      budget |-> budget(p), hard |-> hard(p)]
<1>1. PICK p \in Evaluations(disc.progress, successes) :
        /\ disc' = row(p)
        /\ \/ /\ ~(decision(p).action = "continue" /\ ~stays(p)) /\ ~(finalizes(p) /\ next # {})
              /\ waves' = closed /\ UNCHANGED clock
           \/ /\ decision(p).action = "continue" /\ ~stays(p)
              /\ \E members \in Selections(next) :
                   waves' = Append(closed, WavePlan("contribution", members, now))
              /\ clock' = ClockOfWave("contribution")
           \/ /\ finalizes(p) /\ next # {}
              /\ waves' = Append(closed, WavePlan("finalization", {Finalizer(next)}, now))
              /\ clock' = ClockOfWave("finalization")
  BY ZenonT(60) DEF AdvanceSettledWave
<1>2. /\ n \in Nat \ {0} /\ DOMAIN waves = 1..n /\ n \in DOMAIN waves /\ waves \in Seq(Wave)
      /\ WavesOK /\ WaveOK(LastWave) /\ RestOK /\ LastWave = waves[n] /\ LastWave \in Wave
  BY LastOfWaves DEF WaveInv, WavesOK, WaveOK, Shaped, LastWave
<1>3. closed = [waves EXCEPT ![n] = u]
  <2> DEFINE s1 == IF sealed THEN "partial" ELSE CloseState(turn)
             s2 == IF sealed THEN accepted ELSE {}
  <2>1. u = WaveWith(waves[n], turn, waves[n].run, s1, s2) BY <1>2
  <2>2. closed = [settled EXCEPT ![n].state = s1, ![n].sealed = s2] OBVIOUS
  <2> HIDE DEF s1, s2
  <2>3. waves[n] \in Wave BY <1>2
  <2>4. WaveWith(waves[n], turn, waves[n].run, s1, s2)
          = [[[waves[n] EXCEPT !.turn = turn] EXCEPT !.state = s1] EXCEPT !.sealed = s2]
    BY <2>3 DEF Wave, WaveWith
  <2> QED BY <1>2, <2>1, <2>2, <2>4
<1>4. Evolves(closed) /\ closed[n] = u /\ \A z \in DOMAIN waves : z # n => closed[z] = waves[z]
  <2>1. Later(waves[n], u) BY <1>2
  <2> HIDE DEF closed, n
  <2> QED BY <1>2, <1>3, <2>1, TouchEvolves
<1>5. \A z \in DOMAIN waves : closed[z].state # "open"
  BY <1>4 DEF WaveInv, OrderOK
<1>6. LiveAgents(closed) = LiveAgents(settled)
  <2>1. DOMAIN settled = DOMAIN waves /\ DOMAIN closed = DOMAIN waves BY <1>2
  <2>2. u.members = LastWave.members BY DEF Later
  <2>3. settled[n].members = LastWave.members /\ settled[n].turn = turn
    BY <1>2 DEF Wave
  <2>4. \A z \in DOMAIN waves : z # n => settled[z] = waves[z] BY <1>2
  <2>5. \A z \in DOMAIN settled : closed[z].members = settled[z].members /\ closed[z].turn = settled[z].turn
    BY <1>4, <2>1, <2>2, <2>3, <2>4
  <2> HIDE DEF closed, settled
  <2> QED BY <2>1, <2>5, LiveAgentsSame
<1>7. next \in SUBSET Participants /\ next \cap LiveAgents(closed) = {}
  BY <1>2, <1>6 DEF NextEligible, RestOK
<1>8. /\ used \in Budgets /\ used.used = n /\ used.used <= used.lease
      /\ used.used <= RegularTurnLimit
  BY ChargedBudget
<1>9. p \in Progress
  BY EvaluationsTyped DEF WaveInv, Discussions
<1>10. asked \in BOOLEAN /\ failed \in BOOLEAN OBVIOUS
<1> HIDE DEF closed, settled, next, used, asked, failed, successes
<1>11. DecisionOK(decision(p), used) BY <1>10, DecideOK
<1> DEFINE d == decision(p) c == IF d.grant THEN AutomaticLease(used) ELSE used
<1>12. /\ c \in Budgets /\ c.used = n /\ c.used <= c.lease /\ c.used <= RegularTurnLimit
       /\ d.action = "continue" => c.used < c.lease /\ c.used < RegularTurnLimit
  <2> HIDE DEF d
  <2> QED BY <1>8, <1>11, DecidedBudget DEF d
<1>13. budget(p) \in {c, used} /\ (~stays(p) => budget(p) = c)
  OBVIOUS
<1>14. hard(p) \in BOOLEAN OBVIOUS
<1>15. /\ d.action = "continue" => d.state = "active"
       /\ d.action = "finalize" => d.state = "finalizing"
       /\ d.action \notin {"continue", "finalize"} => d.state \in RestingStates
  BY <1>11, Zenon DEF DecisionOK
<1>16. /\ stays(p) => state(p) = "waiting_human"
       /\ ~stays(p) /\ finalizes(p) /\ next = {} => state(p) \in {"terminated", "completed"}
       /\ ~stays(p) /\ ~(finalizes(p) /\ next = {}) => state(p) = d.state
  OBVIOUS
<1> DEFINE go == stays(p) fin == finalizes(p) st == state(p) bd == budget(p) hd == hard(p)
<1>17. disc' = [state |-> st, requested |-> Nothing, progress |-> p, budget |-> bd, hard |-> hd]
  BY <1>1
<1>18. go <=> d.action = "continue" /\ (next = {} \/ ~RequiredRolesAvailable(next)) OBVIOUS
<1>19. fin <=> d.action = "finalize" OBVIOUS
<1>20. \/ /\ ~(d.action = "continue" /\ ~go) /\ ~(fin /\ next # {})
          /\ waves' = closed /\ clock' = clock
       \/ /\ d.action = "continue" /\ ~go
          /\ \E members \in Selections(next) :
               waves' = Append(closed, WavePlan("contribution", members, now))
          /\ clock' = ClockOfWave("contribution")
       \/ /\ fin /\ next # {}
          /\ waves' = Append(closed, WavePlan("finalization", {Finalizer(next)}, now))
          /\ clock' = ClockOfWave("finalization")
  BY <1>1
<1>21. /\ go => st = "waiting_human"
       /\ ~go /\ fin /\ next = {} => st \in {"terminated", "completed"}
       /\ ~go /\ ~(fin /\ next = {}) => st = d.state
  BY <1>16
<1>22. bd \in {c, used} /\ (~go => bd = c) /\ hd \in BOOLEAN BY <1>13, <1>14
<1> HIDE DEF d, go, fin, st, bd, hd, c, decision, stays, finalizes, hard, budget, state, row
<1>23. /\ bd \in Budgets /\ bd.used = n /\ bd.used <= bd.lease /\ bd.used <= RegularTurnLimit
  BY <1>8, <1>12, <1>22
<1>24. st \in {"active", "finalizing"} \cup RestingStates \cup TerminalDiscussionStates
  BY <1>15, <1>18, <1>19, <1>21 DEF RestingStates, TerminalDiscussionStates
<1>25. disc' \in Discussions /\ disc'.state = st /\ disc'.budget = bd
  BY <1>9, <1>17, <1>22, <1>23, <1>24 DEF Discussions
<1>26. RestOK'
  <2>1. clock' \in [soft : BOOLEAN, wave : BOOLEAN, discussion : BOOLEAN]
    BY <1>2, <1>20, ClockTyped DEF RestOK
  <2> QED BY <1>2, <2>1 DEF RestOK
<1>27. LastWave.phase = u.phase BY DEF Later
<1>28. CASE /\ ~(d.action = "continue" /\ ~go) /\ ~(fin /\ next # {})
            /\ waves' = closed
  <2>1. st \in RestingStates \cup TerminalDiscussionStates
    BY <1>15, <1>18, <1>19, <1>21, <1>28 DEF RestingStates, TerminalDiscussionStates
  <2>2. waves' = [waves EXCEPT ![Len(waves)] = u] BY <1>3, <1>28
  <2> QED BY <1>23, <1>25, <1>26, <1>27, <2>1, <2>2, RestStep
<1>29. CASE /\ d.action = "continue" /\ ~go
            /\ \E members \in Selections(next) :
                 waves' = Append(closed, WavePlan("contribution", members, now))
  <2>1. PICK members \in Selections(next) :
          waves' = Append(closed, WavePlan("contribution", members, now))
    BY <1>29
  <2> DEFINE v == WavePlan("contribution", members, now)
  <2>2. next # {} BY <1>18, <1>29
  <2>3. members \in SUBSET Participants /\ members # {} /\ members \cap LiveAgents(closed) = {}
    BY <1>7, <2>2, SelectionsOK
  <2>4. /\ WaveOK(v) /\ v.state = "open" /\ v.phase = "contribution" /\ v.members = members
        /\ now => ~PlannedIn(v)
    BY <2>3, PlannedWaveOK
  <2>5. waves' = Append(closed, v) BY <2>1
  <2> HIDE DEF v
  <2>6. disc'.state = "active" BY <1>15, <1>19, <1>21, <1>25, <1>29
  <2>7. bd.used < bd.lease /\ bd.used < RegularTurnLimit BY <1>12, <1>22, <1>29
  <2> QED BY <1>4, <1>5, <1>23, <1>25, <1>26, <2>3, <2>4, <2>5, <2>6, <2>7, OpenStep
<1>30. CASE /\ fin /\ next # {}
            /\ waves' = Append(closed, WavePlan("finalization", {Finalizer(next)}, now))
  <2> DEFINE members == {Finalizer(next)} v == WavePlan("finalization", members, now)
  <2>3. members \in SUBSET Participants /\ members # {} /\ members \cap LiveAgents(closed) = {}
    BY <1>7, <1>30, FinalizerOK
  <2> HIDE DEF members
  <2>4. /\ WaveOK(v) /\ v.state = "open" /\ v.phase = "finalization" /\ v.members = members
        /\ now => ~PlannedIn(v)
    BY <2>3, PlannedWaveOK
  <2>5. waves' = Append(closed, v) BY <1>30 DEF members
  <2> HIDE DEF v
  <2>6. disc'.state = "finalizing" BY <1>15, <1>18, <1>19, <1>21, <1>25, <1>30
  <2> QED BY <1>4, <1>5, <1>23, <1>25, <1>26, <2>3, <2>4, <2>5, <2>6, OpenStep
<1> QED BY <1>20, <1>28, <1>29, <1>30

\* What has become of a Wave, in two steps.
LEMMA LaterTrans ==
  ASSUME NEW v, NEW x, NEW u, Later(v, x), Later(x, u)
  PROVE  Later(v, u)
BY DEF Later

\* advanceReadyWave: the Turns of the last Wave are settled; x is that Wave with them.
LEMMA AdvanceReadyKeeps ==
  ASSUME WaveInv, AtWork, NEW turn, NEW now \in BOOLEAN,
         turn \in [LastWave.members -> Turns], AllSettled(turn),
         WaveOK([LastWave EXCEPT !.turn = turn]),
         Later(LastWave, [LastWave EXCEPT !.turn = turn]),
         AdvanceReadyWave(Len(waves), turn, now),
         UNCHANGED <<eligible, left>>, pc' \in PcType, pc'.at # "goal",
         pc'.closing = pc.closing \/ pc'.closing = 0,
         pc'.at \in {"up", "advance", "settle"} => now
  PROVE  WaveInv' /\ SettledKept
<1> DEFINE n == Len(waves)
           v == LastWave
           x == [v EXCEPT !.turn = turn]
           u == WaveWith(x, x.turn, x.run, CloseState(x.turn), x.sealed)
           c == CloseState(turn)
<1>1. /\ n \in Nat \ {0} /\ n \in DOMAIN waves /\ waves \in Seq(Wave) /\ RestOK
      /\ WaveOK(v) /\ v \in Wave /\ v = waves[n] /\ v.state = "open" /\ Shaped(v)
  BY LastOfWaves DEF WaveInv, WavesOK, WaveOK, Shaped, LastWave, AtWork
<1>2. /\ x.turn = turn /\ x.run = v.run /\ x.state = v.state /\ x.sealed = v.sealed
      /\ x.phase = v.phase /\ x.members = v.members
  <2> HIDE DEF v
  <2> QED BY <1>1, ShapedTurn
<1>3. WaveOK(x) /\ Later(v, x) OBVIOUS
<1>4. /\ WaveOK(u) /\ Later(x, u) /\ u.state # "open" /\ u.phase = v.phase /\ u.turn = turn
  <2> HIDE DEF x
  <2> QED BY <1>1, <1>2, <1>3, ClosedWaveOK
<1>5. Later(v, u)
  <2> HIDE DEF x, u, v
  <2> QED BY <1>3, <1>4, LaterTrans
<1>6. v.sealed = {} BY <1>1 DEF WaveOK, SealOK
<1>7. u = WaveWith(v, turn, v.run, c, {})
  <2>1. u = WaveWith(x, turn, v.run, c, {}) BY <1>2, <1>6
  <2> HIDE DEF u, c
  <2> QED BY <1>1, <2>1 DEF WaveWith, Wave
<1>8. [waves EXCEPT ![n].turn = turn, ![n].state = c] = [waves EXCEPT ![n] = u]
  <2>1. u = [[v EXCEPT !.turn = turn] EXCEPT !.state = c]
    <3> HIDE DEF c, u
    <3> QED BY <1>1, <1>6, <1>7 DEF WaveWith, Wave
  <2> HIDE DEF c, u
  <2> QED BY <1>1, <2>1
<1> HIDE DEF u, x
<1>9. CASE /\ disc.state \in TerminalDiscussionStates
           /\ waves' = [waves EXCEPT ![n].turn = turn, ![n].state = c]
           /\ UNCHANGED <<disc, clock>>
  <2>1. disc.state = "canceled" BY <1>9 DEF WaveInv, StandingOK, TerminalDiscussionStates
  <2>2. RestOK' BY <1>1, <1>9 DEF RestOK
  <2>3. disc'.budget.used <= disc'.budget.lease /\ disc'.budget.used <= RegularTurnLimit
    BY <1>9 DEF WaveInv, Charged
  <2>4. waves' = [waves EXCEPT ![Len(waves)] = u] BY <1>8, <1>9
  <2>5. disc' \in Discussions /\ disc'.state = "canceled" BY <1>9, <2>1 DEF WaveInv
  <2> HIDE DEF v, c
  <2> QED BY <1>4, <1>5, <2>2, <2>3, <2>4, <2>5, RestStep DEF v, TerminalDiscussionStates
<1>10. CASE /\ disc.state \notin TerminalDiscussionStates
            /\ waves[n].phase = "finalization"
            /\ disc' = [disc EXCEPT !.state = IF disc.hard THEN "terminated" ELSE "completed",
                                    !.requested = Nothing]
            /\ waves' = [waves EXCEPT ![n].turn = turn, ![n].state = c]
            /\ UNCHANGED clock
  <2>1. /\ disc' \in Discussions /\ disc'.state \in {"terminated", "completed"}
        /\ disc'.budget = disc.budget
    BY <1>10 DEF WaveInv, Discussions, TerminalDiscussionStates
  <2>2. RestOK' BY <1>1, <1>10 DEF RestOK
  <2>3. /\ disc'.budget.used <= disc'.budget.lease /\ disc'.budget.used <= RegularTurnLimit
        /\ disc'.budget.used = Len(waves) - 1
    BY <1>1, <1>10, <2>1 DEF WaveInv, Charged
  <2>4. waves' = [waves EXCEPT ![Len(waves)] = u] BY <1>8, <1>10
  <2>5. u.phase = "finalization" BY <1>1, <1>4, <1>10
  <2> HIDE DEF v, c
  <2> QED BY <1>4, <1>5, <2>1, <2>2, <2>3, <2>4, <2>5, RestStep DEF v, TerminalDiscussionStates
<1>11. CASE /\ waves[n].phase = "contribution"
            /\ AdvanceSettledWave(n, turn, waves[n].members, FALSE, now)
  <2>1. u = WaveWith(v, turn, v.run, IF FALSE THEN "partial" ELSE CloseState(turn),
                     IF FALSE THEN v.members ELSE {})
    BY <1>7
  <2>2. v.phase = "contribution" /\ AdvanceSettledWave(Len(waves), turn, v.members, FALSE, now)
    BY <1>1, <1>11
  <2>3. v.members \in SUBSET v.members /\ FALSE \in BOOLEAN OBVIOUS
  <2> HIDE DEF v, c
  <2> QED BY <1>4, <1>5, <2>1, <2>2, <2>3, AdvanceSettledKeeps DEF v
<1> QED BY <1>9, <1>10, <1>11 DEF AdvanceReadyWave

\* onRunTerminalWithinTransaction, whoever calls it.
LEMMA SettleAndAdvanceKeeps ==
  ASSUME WaveInv, NEW w \in DOMAIN waves, NEW a \in waves[w].members, pc.at # "goal",
         SettleAndAdvance(w, a), UNCHANGED <<eligible, pc, left>>
  PROVE  WaveInv' /\ SettledKept
<1> DEFINE v == waves[w]
           turn == SettledTurns(w, a)
           x == [v EXCEPT !.turn = turn]
<1>1. /\ turn \in [v.members -> Turns]
      /\ WaveOK(x) /\ Later(v, x) /\ x.turn = turn /\ x.run = v.run
      /\ x.state = v.state /\ x.sealed = v.sealed /\ x.phase = v.phase /\ x.members = v.members
      /\ PlannedIn(x) => PlannedIn(v)
  BY SettledWaveOK DEF WaveInv
<1>2. /\ waves \in Seq(Wave) /\ v \in Wave /\ WaveOK(v) /\ RestOK /\ pc \in PcType
  BY DEF WaveInv, WavesOK, WaveOK, Shaped, PcOK
<1>3. v.state = "open" => w = Len(waves) /\ v = LastWave /\ AtWork
  BY DEF WaveInv, OrderOK, LastWave, AtWork
<1>4. /\ pc' \in PcType /\ pc'.at # "goal" /\ pc'.closing = pc.closing BY <1>2
<1>5. [waves EXCEPT ![w].turn = turn] = [waves EXCEPT ![w] = x]
  <2> HIDE DEF turn
  <2> QED BY <1>2
<1>6. CASE /\ waves' = [waves EXCEPT ![w].turn = turn]
           /\ UNCHANGED <<disc, clock>>
  <2>1. RestOK' BY <1>2, <1>6 DEF RestOK
  <2>2. waves' = [waves EXCEPT ![w] = x] BY <1>5, <1>6
  <2>3. pc' = pc /\ disc' = disc BY <1>6
  <2> HIDE DEF x, turn
  <2> QED BY <1>1, <2>1, <2>2, <2>3, MemberStep
<1>7. CASE /\ v.state = "open" /\ AllSettled(turn)
           /\ AdvanceReadyWave(w, turn, TRUE)
  <2>1. /\ turn \in [LastWave.members -> Turns] /\ WaveOK([LastWave EXCEPT !.turn = turn])
        /\ Later(LastWave, [LastWave EXCEPT !.turn = turn])
        /\ AdvanceReadyWave(Len(waves), turn, TRUE)
    BY <1>1, <1>3, <1>7
  <2>2. AtWork /\ AllSettled(turn) BY <1>3, <1>7
  <2> HIDE DEF x, turn, v
  <2> QED BY <1>4, <2>1, <2>2, AdvanceReadyKeeps
<1>8. CASE /\ v.state = "open" /\ Sealable(w, turn)
           /\ AdvanceSettledWave(w, turn, Completed(turn), TRUE, TRUE)
  <2> DEFINE u == WaveWith(x, x.turn, x.run, "partial", Completed(x.turn))
  <2>1. /\ Quorum /\ v.phase = "contribution" /\ Cardinality(Completed(turn)) >= QuorumMin
        /\ RequiredRolesAvailable(Completed(turn))
    BY <1>8 DEF Sealable
  <2>2. /\ WaveOK(u) /\ Later(x, u) /\ u.state # "open" /\ u.turn = turn
    <3> HIDE DEF x, turn
    <3> QED BY <1>1, <1>8, <2>1, SealedWaveOK
  <2>3. Later(v, u)
    <3> HIDE DEF x, u, v, turn
    <3> QED BY <1>1, <2>2, LaterTrans
  <2>4. u = WaveWith(v, turn, v.run, "partial", Completed(turn))
    <3>1. u = WaveWith(x, turn, v.run, "partial", Completed(turn)) BY <1>1
    <3> HIDE DEF u, turn
    <3> QED BY <1>2, <3>1 DEF WaveWith, Wave
  <2>5. Completed(turn) \in SUBSET v.members
    <3> HIDE DEF turn
    <3> QED BY <1>1 DEF Completed
  <2>6. /\ u = WaveWith(LastWave, turn, LastWave.run,
                        IF TRUE THEN "partial" ELSE CloseState(turn),
                        IF TRUE THEN Completed(turn) ELSE {})
        /\ Completed(turn) \in SUBSET LastWave.members /\ Later(LastWave, u)
        /\ LastWave.phase = "contribution" /\ AtWork
        /\ AdvanceSettledWave(Len(waves), turn, Completed(turn), TRUE, TRUE)
    BY <1>3, <1>8, <2>1, <2>3, <2>4, <2>5
  <2>7. TRUE \in BOOLEAN OBVIOUS
  <2> HIDE DEF u, turn, x, v
  <2> QED BY <1>4, <2>2, <2>6, <2>7, AdvanceSettledKeeps
<1> QED BY <1>6, <1>7, <1>8 DEF SettleAndAdvance

\* A Run that ended is applied: by its callback, the sweep, the recovery, or on the way to
\* close a canceled Discussion.
LEMMA SettlingKeeps ==
  ASSUME WaveInv,
         \/ \E m \in Members : OnRunTerminal(m[1], m[2]) \/ RecoverSettled(m[1], m[2])
         \/ \E a \in Participants : SettleCanceled(a)
  PROVE  WaveInv' /\ SettledKept
<1>1. \A m \in Members : m[1] \in DOMAIN waves /\ m[2] \in waves[m[1]].members
  BY DEF Members
<1>2. ASSUME NEW m \in Members, OnRunTerminal(m[1], m[2]) \/ RecoverSettled(m[1], m[2])
      PROVE  WaveInv' /\ SettledKept
  <2>1. /\ pc.at # "goal" /\ SettleAndAdvance(m[1], m[2]) /\ UNCHANGED <<eligible, pc, left>>
    BY <1>2 DEF OnRunTerminal, RecoverSettled
  <2> QED BY <1>1, <2>1, SettleAndAdvanceKeeps
<1>3. ASSUME NEW a \in Participants, SettleCanceled(a)
      PROVE  WaveInv' /\ SettledKept
  <2>1. /\ pc.at = "canceled" /\ pc.closing # 0 /\ a \in waves[pc.closing].members
        /\ SettleAndAdvance(pc.closing, a) /\ UNCHANGED <<eligible, pc, left>>
    BY <1>3 DEF SettleCanceled, NextCanceled
  <2>2. pc.closing \in DOMAIN waves
    <3>1. pc.closing \in 0..Len(waves) BY DEF WaveInv, PcOK
    <3>2. Len(waves) \in Nat /\ DOMAIN waves = 1..Len(waves) BY LastOfWaves DEF WaveInv
    <3> QED BY <2>1, <3>1, <3>2
  <2> QED BY <2>1, <2>2, SettleAndAdvanceKeeps
<1> QED BY <1>2, <1>3

\* A Wave the reconciliation settled is closed.
LEMMA AdvanceAffectedKeeps ==
  ASSUME WaveInv, AdvanceAffected
  PROVE  WaveInv' /\ SettledKept
<1>1. pc \in PcType /\ RestOK /\ pc.at = "advance" /\ UNCHANGED <<eligible, left>>
  BY DEF WaveInv, PcOK, AdvanceAffected
<1>2. CASE /\ OpenWaves # {} /\ AllSettled(waves[Open].turn)
           /\ AdvanceReadyWave(Open, waves[Open].turn, FALSE)
           /\ pc' = [pc EXCEPT !.at = "bind", !.affected = FALSE]
  <2>1. AtWork /\ Open = Len(waves) /\ waves[Open] = LastWave
    BY <1>2, OpenIsLast DEF LastWave
  <2>2. WaveOK(LastWave) /\ LastWave \in Wave /\ LastWave.turn \in [LastWave.members -> Turns]
    BY LastOfWaves DEF WaveInv, WaveOK, Shaped
  <2>3. [LastWave EXCEPT !.turn = LastWave.turn] = LastWave BY <2>2 DEF Wave
  <2>4. /\ WaveOK([LastWave EXCEPT !.turn = LastWave.turn])
        /\ Later(LastWave, [LastWave EXCEPT !.turn = LastWave.turn])
    BY <2>2, <2>3, LaterSame
  <2>5. AllSettled(LastWave.turn) /\ AdvanceReadyWave(Len(waves), LastWave.turn, FALSE)
    BY <1>2, <2>1
  <2>6. pc' \in PcType /\ pc'.at = "bind" /\ pc'.closing = pc.closing
    BY <1>1, <1>2 DEF PcType
  <2>7. FALSE \in BOOLEAN OBVIOUS
  <2> QED BY <1>1, <2>1, <2>2, <2>4, <2>5, <2>6, <2>7, AdvanceReadyKeeps
<1>3. CASE pc' = At("settle") /\ UNCHANGED <<disc, waves, clock>>
  <2>1. RestOK' BY <1>1, <1>3 DEF RestOK
  <2>2. pc' \in PcType /\ pc'.at = "settle" /\ pc'.closing = pc.closing
    BY <1>1, <1>3 DEF PcType, At
  <2>3. \A w \in DOMAIN waves : ~PlannedIn(waves[w]) BY <1>1 DEF WaveInv, BoundOK
  <2>4. ~(disc.state = "active" /\ ~AtWork) BY <1>1 DEF WaveInv, StandingOK
  <2> QED BY <1>3, <2>1, <2>2, <2>3, <2>4, PlaceStep
<1> QED BY <1>2, <1>3 DEF AdvanceAffected

\* closeCanceledWaves closes the Wave whose members it has gone through.
LEMMA CloseCanceledWaveKeeps ==
  ASSUME WaveInv, CloseCanceledWave
  PROVE  WaveInv' /\ SettledKept
<1> DEFINE n == pc.closing
           v == waves[n]
           u == WaveWith(v, v.turn, v.run, CloseState(v.turn), v.sealed)
<1>1. /\ pc \in PcType /\ RestOK /\ n \in 0..Len(waves)
      /\ pc' = [pc EXCEPT !.at = "due", !.closing = 0]
      /\ UNCHANGED <<disc, eligible, clock, left>>
  BY DEF WaveInv, PcOK, CloseCanceledWave
<1>2. RestOK' BY <1>1 DEF RestOK
<1>3. pc' \in PcType /\ pc'.at = "due" /\ pc'.closing = 0 BY <1>1 DEF PcType
<1>4. CASE n # 0 /\ v.state = "open"
  <2>1. n \in DOMAIN waves
    <3>1. Len(waves) \in Nat /\ DOMAIN waves = 1..Len(waves) BY LastOfWaves DEF WaveInv
    <3> QED BY <1>1, <1>4, <3>1
  <2>2. n = Len(waves) /\ v = LastWave /\ AtWork /\ disc.state = "canceled"
    BY <1>4, <2>1 DEF WaveInv, PcOK, OrderOK, LastWave, AtWork
  <2>3. /\ waves \in Seq(Wave) /\ WaveOK(v) /\ v \in Wave
    BY <2>1 DEF WaveInv, WavesOK, WaveOK, Shaped
  <2>4. AllSettled(v.turn) /\ waves' = [waves EXCEPT ![n].state = CloseState(v.turn)]
    BY <1>4 DEF CloseCanceledWave
  <2>5. /\ WaveOK(u) /\ Later(v, u) /\ u.state # "open" /\ u.phase = v.phase
    <3> HIDE DEF v
    <3> QED BY <1>4, <2>3, <2>4, ClosedWaveOK
  <2>6. waves' = [waves EXCEPT ![n] = u]
    <3> DEFINE c == CloseState(v.turn)
    <3>1. waves' = [waves EXCEPT ![n].state = c] /\ u = WaveWith(v, v.turn, v.run, c, v.sealed)
      BY <2>4
    <3> HIDE DEF c, u
    <3>2. u = [v EXCEPT !.state = c] BY <2>3, <3>1 DEF WaveWith, Wave
    <3> QED BY <2>1, <2>3, <3>1, <3>2
  <2>7. /\ disc' \in Discussions /\ disc'.state = "canceled"
        /\ disc'.budget.used <= disc'.budget.lease /\ disc'.budget.used <= RegularTurnLimit
    BY <1>1, <2>2 DEF WaveInv, Charged
  <2>8. waves' = [waves EXCEPT ![Len(waves)] = u] /\ Later(LastWave, u) BY <2>2, <2>5, <2>6
  <2> HIDE DEF u, v, n
  <2> QED BY <1>2, <1>3, <2>2, <2>5, <2>7, <2>8, RestStep DEF TerminalDiscussionStates
<1>5. CASE ~(n # 0 /\ v.state = "open")
  <2>1. waves' = waves BY <1>5 DEF CloseCanceledWave
  <2>2. disc' = disc BY <1>1
  <2> HIDE DEF n, v
  <2> QED BY <1>2, <1>3, <2>1, <2>2, PlaceStep
<1> QED BY <1>4, <1>5

\* Only the row of the Discussion changes, and the place of Central.
LEMMA RowOnlyStep ==
  ASSUME WaveInv, waves' = waves, disc.state # "canceled", disc' \in Discussions, RestOK',
         pc' \in PcType, pc'.at = "goal" => pc'.turns \in 1..2, pc'.closing = pc.closing,
         \/ pc'.at \in {"bind", "reconcile"} /\ disc'.state \notin TerminalDiscussionStates
         \/ \A w \in DOMAIN waves : ~PlannedIn(waves[w]),
         StandingOK',
         disc'.budget.used = disc.budget.used, disc'.budget.used <= disc'.budget.lease,
         AtWork => disc'.budget = disc.budget
  PROVE  WaveInv' /\ SettledKept
<1>1. /\ Len(waves) \in Nat \ {0} /\ DOMAIN waves = 1..Len(waves) /\ WavesOK /\ OneLiveTurnPerAgent
      /\ OrderOK
  BY LastOfWaves DEF WaveInv
<1>2. Evolves(waves') BY <1>1, StandingEvolves DEF Evolves
<1>3. WavesOK' /\ OneLiveTurnPerAgent' /\ SettledKept BY <1>1, <1>2, EvolvedKeeps
<1>4. OrderOK' BY <1>1 DEF OrderOK
<1>5. LastWave' = LastWave /\ (AtWork' <=> AtWork) BY DEF LastWave, AtWork
<1>6. BoundOK' BY DEF BoundOK, PlannedIn
<1>7. Charged' BY <1>5 DEF Charged, WaveInv
<1>8. PcOK'
  <2>1. pc'.closing \in 0..Len(waves') /\ ~(pc'.closing # 0 /\ waves'[pc'.closing].state = "open")
    BY DEF WaveInv, PcOK
  <2> QED BY <2>1 DEF PcOK
<1> QED BY <1>3, <1>4, <1>6, <1>7, <1>8 DEF WaveInv

\* A Discussion without an open Wave that is not over has used what its Waves say.
LEMMA Planless ==
  ASSUME WaveInv, ~AtWork, disc.state \in RestingStates \cup {"active"}
  PROVE  /\ LastWave.phase = "contribution" /\ disc.budget.used = Len(waves)
         /\ disc.budget.used <= disc.budget.lease /\ disc.budget.used <= RegularTurnLimit
         /\ disc.budget \in Budgets /\ \A w \in DOMAIN waves : ~PlannedIn(waves[w])
         /\ \A w \in DOMAIN waves : waves[w].state # "open"
<1>1. LastWave.phase \in {"contribution", "finalization"}
  BY LastOfWaves DEF WaveInv, WaveOK, Shaped, Wave
<1>2. LastWave.phase = "contribution"
  BY <1>1 DEF WaveInv, StandingOK, RestingStates, TerminalDiscussionStates
<1>3. /\ disc.budget.used = Len(waves)
      /\ disc.budget.used <= disc.budget.lease /\ disc.budget.used <= RegularTurnLimit
  BY <1>2 DEF WaveInv, Charged, RestingStates
<1>4. \A w \in DOMAIN waves : ~PlannedIn(waves[w]) BY ClosedIsBound
<1>5. \A w \in DOMAIN waves : waves[w].state # "open" BY DEF WaveInv, OrderOK, AtWork, LastWave
<1> QED BY <1>2, <1>3, <1>4, <1>5 DEF WaveInv, Discussions

\* A row that rests or is over.
LEMMA RestRowStep ==
  ASSUME WaveInv, ~AtWork, disc.state \in RestingStates \cup {"active"}, waves' = waves,
         disc' \in Discussions, RestOK', pc' \in PcType, pc'.at # "goal", pc'.closing = pc.closing,
         disc'.state \in RestingStates \cup {"completed", "terminated"},
         disc'.budget.used = disc.budget.used, disc'.budget.used <= disc'.budget.lease
  PROVE  WaveInv' /\ SettledKept
<1>1. /\ LastWave.phase = "contribution" /\ \A w \in DOMAIN waves : ~PlannedIn(waves[w])
  BY Planless
<1>2. LastWave' = LastWave /\ (AtWork' <=> AtWork) BY DEF LastWave, AtWork
<1>3. StandingOK' BY <1>1, <1>2 DEF StandingOK, RestingStates
<1>4. disc.state # "canceled" BY DEF RestingStates
<1> QED BY <1>1, <1>3, <1>4, RowOnlyStep

\* What a row with another state, budget and reason is.
LEMMA RowTyped ==
  ASSUME disc \in Discussions, NEW b \in Budgets, NEW h \in BOOLEAN,
         NEW s \in {"active", "stop_requested", "finalizing"} \cup RestingStates
                     \cup TerminalDiscussionStates
  PROVE  /\ Row(s, b, h) \in Discussions /\ Row(s, b, h).state = s /\ Row(s, b, h).budget = b
BY DEF Row, Discussions

\* planContinuation, with a lease.
LEMMA PlanContinuationKeeps ==
  ASSUME WaveInv, ~AtWork, disc.state \in RestingStates \cup {"active"},
         NEW budget \in Budgets, budget.used = disc.budget.used,
         budget.used < budget.lease, budget.used < RegularTurnLimit,
         NEW then \in {"up", "reconcile"}, PlanContinuation(budget, then),
         eligible' = eligible,
         left' \in [controls : Nat, crashes : Nat, losses : Nat, asks : Nat]
  PROVE  WaveInv' /\ SettledKept
<1> DEFINE next == NextEligible(waves)
<1>1. /\ disc \in Discussions /\ RestOK /\ pc \in PcType /\ WavesOK
  BY DEF WaveInv, PcOK
<1>2. /\ LastWave.phase = "contribution" /\ disc.budget.used = Len(waves)
      /\ \A w \in DOMAIN waves : waves[w].state # "open"
  BY Planless
<1>3. next \in SUBSET Participants /\ next \cap LiveAgents(waves) = {}
  BY <1>1 DEF NextEligible, RestOK
<1>4. Evolves(waves) BY <1>1, StandingEvolves
<1>5. FALSE \in BOOLEAN OBVIOUS
<1>6. CASE /\ disc' = Row("waiting_human", budget, FALSE)
           /\ pc' = At(then)
           /\ UNCHANGED <<waves, clock>>
  <2>1. /\ disc' \in Discussions /\ disc'.state = "waiting_human" /\ disc'.budget = budget
    BY <1>1, <1>5, <1>6, RowTyped DEF RestingStates
  <2>2. pc' \in PcType /\ pc'.at # "goal" /\ pc'.closing = pc.closing BY <1>1, <1>6 DEF At, PcType
  <2>3. RestOK' BY <1>1, <1>6 DEF RestOK
  <2>4. budget.used <= budget.lease BY DEF Budgets
  <2> QED BY <1>6, <2>1, <2>2, <2>3, <2>4, RestRowStep DEF RestingStates
<1>7. ASSUME next # {}, disc' = Row("active", budget, FALSE),
             NEW members \in Selections(next),
             waves' = Append(waves, WavePlan("contribution", members, FALSE)),
             clock' = ClockOfWave("contribution"), pc' = Binding(then)
      PROVE  WaveInv' /\ SettledKept
  <2> DEFINE v == WavePlan("contribution", members, FALSE)
  <2>1. /\ disc' \in Discussions /\ disc'.state = "active" /\ disc'.budget = budget
    <3>1. Row("active", budget, FALSE) \in Discussions BY <1>1, <1>5, RowTyped
    <3>2. Row("active", budget, FALSE).state = "active" BY <1>1 DEF Row, Discussions
    <3>3. Row("active", budget, FALSE).budget = budget BY <1>1, <1>5, RowTyped
    <3> QED BY <1>7, <3>1, <3>2, <3>3, Zenon
  <2>2. pc' \in PcType /\ pc'.at = "bind" /\ pc'.closing = pc.closing
    BY <1>1, <1>7 DEF Binding, PcType
  <2>3. RestOK'
    <3>1. clock' \in [soft : BOOLEAN, wave : BOOLEAN, discussion : BOOLEAN]
      BY <1>1, <1>7, ClockTyped
    <3> QED BY <1>1, <3>1 DEF RestOK
  <2>4. members \in SUBSET Participants /\ members # {} /\ members \cap LiveAgents(waves) = {}
    <3> HIDE DEF next
    <3> QED BY <1>3, <1>7, SelectionsOK
  <2>5. /\ WaveOK(v) /\ v.state = "open" /\ v.phase = "contribution" /\ v.members = members
    BY <1>5, <2>4, PlannedWaveOK
  <2>6. waves' = Append(waves, v) BY <1>7
  <2> HIDE DEF v, next
  <2> QED BY <1>2, <1>4, <2>1, <2>2, <2>3, <2>4, <2>5, <2>6, OpenStep
<1> QED BY <1>6, <1>7, Zenon DEF PlanContinuation

\* planFinalization.
LEMMA PlanFinalizationKeeps ==
  ASSUME WaveInv, ~AtWork, disc.state \in RestingStates \cup {"active"},
         NEW budget \in Budgets, budget.used = disc.budget.used, budget.used <= budget.lease,
         NEW hard \in BOOLEAN, NEW then \in {"up", "reconcile"},
         PlanFinalization(budget, hard, then), eligible' = eligible,
         left' \in [controls : Nat, crashes : Nat, losses : Nat, asks : Nat]
  PROVE  WaveInv' /\ SettledKept
<1> DEFINE next == NextEligible(waves) \ Private
           members == {Finalizer(next)}
<1>1. /\ disc \in Discussions /\ RestOK /\ pc \in PcType /\ WavesOK
  BY DEF WaveInv, PcOK
<1>2. /\ LastWave.phase = "contribution" /\ disc.budget.used = Len(waves)
      /\ \A w \in DOMAIN waves : waves[w].state # "open"
  BY Planless
<1>3. next \in SUBSET Participants /\ next \cap LiveAgents(waves) = {}
  BY <1>1 DEF NextEligible, RestOK
<1>4. Evolves(waves) BY <1>1, StandingEvolves
<1>5. FALSE \in BOOLEAN OBVIOUS
<1>6. CASE /\ disc' = Row(IF hard THEN "terminated" ELSE "completed", budget, hard)
           /\ pc' = At(then)
           /\ UNCHANGED <<waves, clock>>
  <2>1. /\ disc' \in Discussions /\ disc'.state \in {"terminated", "completed"} /\ disc'.budget = budget
    BY <1>1, <1>6, RowTyped DEF TerminalDiscussionStates
  <2>2. pc' \in PcType /\ pc'.at # "goal" /\ pc'.closing = pc.closing BY <1>1, <1>6 DEF At, PcType
  <2>3. RestOK' BY <1>1, <1>6 DEF RestOK
  <2> QED BY <1>6, <2>1, <2>2, <2>3, RestRowStep
<1>7. CASE /\ next # {} /\ disc' = Row("finalizing", budget, hard)
           /\ waves' = Append(waves, WavePlan("finalization", {Finalizer(next)}, FALSE))
           /\ clock' = ClockOfWave("finalization") /\ pc' = Binding(then)
  <2> DEFINE v == WavePlan("finalization", members, FALSE)
  <2>1. /\ disc' \in Discussions /\ disc'.state = "finalizing" /\ disc'.budget = budget
    BY <1>1, <1>7, RowTyped
  <2>2. pc' \in PcType /\ pc'.at = "bind" /\ pc'.closing = pc.closing
    BY <1>1, <1>7 DEF Binding, PcType
  <2>3. RestOK'
    <3>1. clock' \in [soft : BOOLEAN, wave : BOOLEAN, discussion : BOOLEAN]
      BY <1>1, <1>7, ClockTyped
    <3> QED BY <1>1, <3>1 DEF RestOK
  <2>4. members \in SUBSET Participants /\ members # {} /\ members \cap LiveAgents(waves) = {}
    <3> HIDE DEF next
    <3> QED BY <1>3, <1>7, FinalizerOK
  <2>5. waves' = Append(waves, v) BY <1>7
  <2> HIDE DEF members, next
  <2>6. /\ WaveOK(v) /\ v.state = "open" /\ v.phase = "finalization" /\ v.members = members
    BY <1>5, <2>4, PlannedWaveOK
  <2> HIDE DEF v
  <2>7. budget.used <= RegularTurnLimit
    BY Planless
  <2> QED BY <1>2, <1>4, <2>1, <2>2, <2>3, <2>4, <2>5, <2>6, <2>7, OpenStep
<1> QED BY <1>6, <1>7, Zenon DEF PlanFinalization

\* What continue and adjust_goal resume with.
LEMMA ResumeKeeps ==
  ASSUME WaveInv, ~AtWork, disc.state \in RestingStates \cup {"active"},
         NEW turns \in 1..2, Resume(ResumeBudget(disc.budget, turns)), eligible' = eligible,
         left' \in [controls : Nat, crashes : Nat, losses : Nat, asks : Nat]
  PROVE  WaveInv' /\ SettledKept
<1> DEFINE b == ResumeBudget(disc.budget, turns)
<1>1. /\ disc.budget \in Budgets /\ disc.budget.used <= disc.budget.lease
  BY Planless
<1>2. b \in Budgets
  <2>1. TRUE \in BOOLEAN OBVIOUS
  <2> QED BY <1>1, <2>1, BudgetTypes
<1>3. /\ b.used = disc.budget.used /\ b.used <= b.lease
      /\ ~HardBoundary(b) => b.used < b.lease /\ b.used < RegularTurnLimit
  BY <1>1, ResumeGrants
<1>4. TRUE \in BOOLEAN /\ "up" \in {"up", "reconcile"} OBVIOUS
<1>5. \/ PlanFinalization(b, TRUE, "up")
      \/ ~HardBoundary(b) /\ PlanContinuation(b, "up")
  BY DEF Resume
<1> HIDE DEF b
<1> QED BY <1>2, <1>3, <1>4, <1>5, PlanFinalizationKeeps, PlanContinuationKeeps

\* The controls of a member, and the plan that adjust_goal goes on to.
LEMMA ControlKeeps ==
  ASSUME WaveInv, Control \/ PlanAfterGoal
  PROVE  WaveInv' /\ SettledKept
<1>1. /\ disc \in Discussions /\ RestOK /\ pc \in PcType /\ PcOK /\ disc.budget \in Budgets
      /\ disc.budget.used <= disc.budget.lease
      /\ disc.progress \in Progress
  BY DEF WaveInv, PcOK, Charged, Discussions
<1> DEFINE Left == [controls : Nat, crashes : Nat, losses : Nat, asks : Nat]
<1>2. Controllable /\ Spend => left' \in Left
  BY <1>1 DEF Controllable, Spend, RestOK
<1>3. Controllable => disc.state # "canceled" /\ pc.at = "up"
                        /\ \A w \in DOMAIN waves : ~PlannedIn(waves[w])
  BY DEF Controllable, TerminalDiscussionStates, WaveInv, BoundOK
<1>4. (LastWave' = LastWave /\ (AtWork' <=> AtWork)) \/ waves' # waves BY DEF LastWave, AtWork
<1>5. TRUE \in BOOLEAN /\ FALSE \in BOOLEAN OBVIOUS
<1>6. CASE CancelDiscussion
  <2>1. /\ Controllable /\ Spend /\ disc' = Row("canceled", disc.budget, FALSE)
        /\ UNCHANGED <<waves, eligible, clock, pc>>
    BY <1>6 DEF CancelDiscussion
  <2>2. disc' \in Discussions /\ disc'.state = "canceled" /\ disc'.budget = disc.budget
    BY <1>1, <1>5, <2>1, RowTyped DEF TerminalDiscussionStates
  <2>3. RestOK' BY <1>1, <1>2, <2>1 DEF RestOK
  <2>4. StandingOK'
    BY <1>3, <1>4, <2>1, <2>2 DEF StandingOK, RestingStates, TerminalDiscussionStates
  <2>5. pc' \in PcType /\ pc'.at = "up" /\ pc'.closing = pc.closing BY <1>1, <1>3, <2>1
  <2> QED BY <1>1, <1>3, <2>1, <2>2, <2>3, <2>4, <2>5, RowOnlyStep
<1>7. ASSUME NEW action \in {"finish", "stop_after_turn", "pause"}, RequestAction(action)
      PROVE  WaveInv' /\ SettledKept
  <2>1. /\ Controllable /\ Spend /\ UNCHANGED <<waves, eligible, clock, pc>>
        /\ disc.state # "finalizing" /\ OpenWaves # {}
        /\ disc' = [disc EXCEPT !.state = "stop_requested", !.requested = action, !.hard = FALSE]
    BY <1>7 DEF RequestAction
  <2>2. disc' \in Discussions /\ disc'.state = "stop_requested" /\ disc'.budget = disc.budget
    BY <1>1, <2>1 DEF Discussions
  <2>3. RestOK' BY <1>1, <1>2, <2>1 DEF RestOK
  <2>4. AtWork BY <2>1, OpenIsLast
  <2>5. LastWave.phase # "finalization"
    BY <2>1, <2>4 DEF WaveInv, StandingOK, Controllable, TerminalDiscussionStates
  <2>6. StandingOK'
    BY <1>3, <1>4, <2>1, <2>2, <2>4, <2>5 DEF StandingOK, RestingStates, TerminalDiscussionStates
  <2>7. pc' \in PcType /\ pc'.at = "up" /\ pc'.closing = pc.closing BY <1>1, <1>3, <2>1
  <2> QED BY <1>1, <1>3, <2>1, <2>2, <2>3, <2>6, <2>7, RowOnlyStep
<1>8. ASSUME NEW action \in {"finish", "stop_after_turn", "pause"}, DecideNow(action)
      PROVE  WaveInv' /\ SettledKept
  <2> DEFINE d == Decide(disc.progress, disc.budget, action, FALSE, FALSE)
             hard == d.reason = "hard_budget_exhausted"
  <2>1. /\ Controllable /\ Spend /\ eligible' = eligible
        /\ disc.state # "finalizing" /\ OpenWaves = {}
    BY <1>8 DEF DecideNow
  <2>2. \/ PlanFinalization(disc.budget, hard, "up")
        \/ /\ d.action # "finalize" /\ disc' = Row(d.state, disc.budget, FALSE)
           /\ UNCHANGED <<waves, clock, pc>>
    BY <1>8 DEF DecideNow
  <2>3. hard \in BOOLEAN OBVIOUS
  <2>4. d.action # "finalize" => d.state = "paused" BY IntentDecides
  <2> HIDE DEF hard, d
  <2>5. ~AtWork BY <2>1, OpenIsLast
  <2>6. disc.state \in RestingStates \cup {"active"}
    BY <1>1, <2>1, <2>5 DEF Discussions, Controllable, WaveInv, StandingOK
  <2>7. CASE PlanFinalization(disc.budget, hard, "up")
    <3>1. "up" \in {"up", "reconcile"} OBVIOUS
    <3>2. left' \in Left BY <1>2, <2>1
    <3> QED BY <1>1, <2>1, <2>3, <2>5, <2>6, <2>7, <3>1, <3>2, PlanFinalizationKeeps
  <2>8. CASE /\ d.action # "finalize" /\ disc' = Row(d.state, disc.budget, FALSE)
             /\ UNCHANGED <<waves, clock, pc>>
    <3>1. d.state = "paused" BY <2>4, <2>8
    <3>2. disc' \in Discussions /\ disc'.state = "paused" /\ disc'.budget = disc.budget
      BY <1>1, <1>5, <2>8, <3>1, RowTyped DEF RestingStates
    <3>3. RestOK' BY <1>1, <1>2, <2>1, <2>8 DEF RestOK
    <3>4. pc' \in PcType /\ pc'.at = "up" /\ pc'.closing = pc.closing BY <1>1, <1>3, <2>1, <2>8
    <3> QED BY <1>1, <2>5, <2>6, <2>8, <3>2, <3>3, <3>4, RestRowStep DEF RestingStates
  <2> QED BY <2>2, <2>7, <2>8
<1>9. ASSUME NEW turns \in 1..2, Continue(turns)
      PROVE  WaveInv' /\ SettledKept
  <2>1. /\ Controllable /\ Spend /\ eligible' = eligible
        /\ disc.state \in RestingStates /\ OpenWaves = {}
        /\ Resume(ResumeBudget(disc.budget, turns))
    BY <1>9 DEF Continue
  <2>2. ~AtWork /\ left' \in Left BY <1>2, <2>1, OpenIsLast
  <2> QED BY <2>1, <2>2, ResumeKeeps
<1>10. ASSUME NEW turns \in 1..2, AdjustGoal(turns)
       PROVE  WaveInv' /\ SettledKept
  <2>1. /\ Controllable /\ Spend /\ UNCHANGED <<waves, eligible, clock>>
        /\ disc.state \in RestingStates /\ OpenWaves = {}
        /\ disc' = Row("active", disc.budget, FALSE)
        /\ pc' = [pc EXCEPT !.at = "goal", !.turns = turns]
    BY <1>10 DEF AdjustGoal
  <2>2. ~AtWork BY <2>1, OpenIsLast
  <2>3. LastWave.phase = "contribution" BY <2>1, <2>2, Planless
  <2>4. disc' \in Discussions /\ disc'.state = "active" /\ disc'.budget = disc.budget
    <3>1. Row("active", disc.budget, FALSE) \in Discussions BY <1>1, <1>5, RowTyped
    <3> QED BY <1>1, <2>1, <3>1 DEF Row, Discussions
  <2>5. RestOK' BY <1>1, <1>2, <2>1 DEF RestOK
  <2>6. /\ pc' \in PcType /\ pc'.at = "goal" /\ pc'.closing = pc.closing /\ pc'.turns \in 1..2
    <3>1. turns \in 0..20 OBVIOUS
    <3> QED BY <1>1, <2>1, <3>1 DEF PcType
  <2>7. StandingOK'
    BY <1>4, <2>1, <2>2, <2>3, <2>4, <2>6 DEF StandingOK, RestingStates, TerminalDiscussionStates
  <2> QED BY <1>1, <1>3, <2>1, <2>4, <2>5, <2>6, <2>7, RowOnlyStep
<1>11. CASE PlanAfterGoal
  <2>1. /\ pc.at = "goal" /\ Resume(ResumeBudget(disc.budget, pc.turns)) /\ UNCHANGED <<eligible, left>>
    BY <1>11 DEF PlanAfterGoal
  <2>2. pc.turns \in 1..2 BY <1>1, <2>1 DEF PcOK
  <2>3. disc.state = "active" /\ ~AtWork BY <2>1 DEF WaveInv, StandingOK
  <2>4. left' \in Left BY <1>1, <2>1 DEF RestOK
  <2> QED BY <2>1, <2>2, <2>3, <2>4, ResumeKeeps
<1> QED BY <1>6, <1>7, <1>8, <1>9, <1>10, <1>11 DEF Control

\* recoverActiveWithoutWave.
LEMMA ReplanKeeps ==
  ASSUME WaveInv, Replan
  PROVE  WaveInv' /\ SettledKept
<1> DEFINE over == disc.budget.over \/ clock.discussion
           elapsed == [disc.budget EXCEPT !.over = over]
           d == Decide(disc.progress, elapsed, Nothing, FALSE, FALSE)
           budget == IF d.grant THEN AutomaticLease(elapsed) ELSE elapsed
           hard == d.reason = "hard_budget_exhausted"
<1>1. /\ NeedsPlan /\ UNCHANGED <<eligible, left>>
      /\ \/ d.action = "continue" /\ PlanContinuation(budget, "reconcile")
         \/ d.action = "finalize" /\ PlanFinalization(budget, hard, "reconcile")
         \/ /\ d.action \notin {"continue", "finalize"} /\ disc' = Row(d.state, budget, FALSE)
            /\ pc' = At("reconcile") /\ UNCHANGED <<waves, clock>>
  <2>1. [disc.budget EXCEPT !.over = @ \/ clock.discussion] = elapsed OBVIOUS
  <2> QED BY <2>1, Zenon DEF Replan
<1>2. ~AtWork /\ disc.state \in RestingStates \cup {"active"} BY <1>1, OpenIsLast DEF NeedsPlan
<1>3. /\ disc \in Discussions /\ RestOK /\ pc \in PcType BY DEF WaveInv, PcOK
<1>4. /\ disc.budget \in Budgets /\ disc.budget.used <= disc.budget.lease
      /\ disc.budget.used <= RegularTurnLimit
  BY <1>2, Planless
<1>5. over \in BOOLEAN OBVIOUS
<1>6. elapsed \in Budgets /\ elapsed.used = disc.budget.used /\ elapsed.lease = disc.budget.lease
  <2> HIDE DEF over
  <2> QED BY <1>4, <1>5 DEF Budgets
<1>7. TRUE \in BOOLEAN /\ FALSE \in BOOLEAN /\ "reconcile" \in {"up", "reconcile"} OBVIOUS
<1> HIDE DEF elapsed, over
<1>8. DecisionOK(d, elapsed) BY <1>7, DecideOK
<1>9. hard \in BOOLEAN OBVIOUS
<1>10. d.action \notin {"continue", "finalize"} => d.state \in RestingStates
  BY <1>8, Zenon DEF DecisionOK
<1> HIDE DEF d, hard
<1>11. /\ budget \in Budgets /\ budget.used = disc.budget.used /\ budget.used <= budget.lease
       /\ d.action = "continue" => budget.used < budget.lease /\ budget.used < RegularTurnLimit
  BY <1>4, <1>6, <1>8, DecidedBudget
<1> HIDE DEF budget
<1>12. left' \in [controls : Nat, crashes : Nat, losses : Nat, asks : Nat] /\ eligible' = eligible
  BY <1>1, <1>3 DEF RestOK
<1>13. CASE d.action = "continue" /\ PlanContinuation(budget, "reconcile")
  BY <1>2, <1>7, <1>11, <1>12, <1>13, PlanContinuationKeeps
<1>14. CASE d.action = "finalize" /\ PlanFinalization(budget, hard, "reconcile")
  BY <1>2, <1>7, <1>9, <1>11, <1>12, <1>14, PlanFinalizationKeeps
<1>15. CASE /\ d.action \notin {"continue", "finalize"} /\ disc' = Row(d.state, budget, FALSE)
            /\ pc' = At("reconcile") /\ UNCHANGED <<waves, clock>>
  <2>1. d.state \in RestingStates BY <1>10, <1>15
  <2>2. disc' \in Discussions /\ disc'.state = d.state /\ disc'.budget = budget
    <3>1. Row(d.state, budget, FALSE) \in Discussions BY <1>3, <1>7, <1>11, <2>1, RowTyped
    <3> QED BY <1>3, <1>15, <3>1 DEF Row, Discussions
  <2>3. RestOK' BY <1>1, <1>3, <1>15 DEF RestOK
  <2>4. pc' \in PcType /\ pc'.at = "reconcile" /\ pc'.closing = pc.closing
    BY <1>3, <1>15 DEF At, PcType
  <2> QED BY <1>2, <1>11, <1>15, <2>1, <2>2, <2>3, <2>4, RestRowStep
<1> QED BY <1>1, <1>13, <1>14, <1>15

\* The first Wave is planned with its Runs.
LEMMA WaveInvHolds == ASSUME WaveInit PROVE WaveInv
<1> DEFINE v == WavePlan("contribution", Participants, TRUE)
<1>1. Participants # {} /\ Participants \in SUBSET Participants
  BY DiscussionPolicyAssumption DEF Participants, Range
<1>2. "contribution" \in {"contribution", "finalization"} /\ TRUE \in BOOLEAN OBVIOUS
<1>3. /\ WaveOK(v) /\ v.state = "open" /\ v.phase = "contribution" /\ ~PlannedIn(v)
  <2>1. ~PlannedIn(v) BY DEF PlannedIn, WavePlan, NewTurn
  <2>2. WaveOK(v) BY <1>1, <1>2, PlannedWaveOK
  <2>3. v.state = "open" /\ v.phase = "contribution" BY DEF WavePlan
  <2> QED BY <2>1, <2>2, <2>3
<1>4. waves = <<v>> BY DEF WaveInit
<1>5. v \in Wave BY <1>3 DEF WaveOK, Shaped
<1> HIDE DEF v
<1>6. /\ waves \in Seq(Wave) /\ Len(waves) = 1 /\ DOMAIN waves = {1} /\ waves[1] = v /\ waves # <<>>
  BY <1>4, <1>5
<1>7. WavesOK BY <1>3, <1>6 DEF WavesOK
<1>8. OrderOK /\ OneLiveTurnPerAgent BY <1>6 DEF OrderOK, OneLiveTurnPerAgent
<1>9. LastWave = v /\ AtWork BY <1>3, <1>6 DEF LastWave, AtWork
<1>10. /\ disc = [state |-> "active", hard |-> FALSE, requested |-> Nothing, progress |-> NoProgress,
                  budget |-> [used |-> 0, lease |-> InitialLease, over |-> FALSE]]
       /\ pc = [at |-> "up", then |-> "up", affected |-> FALSE, turns |-> 0, closing |-> 0]
  BY DEF WaveInit
<1>11. disc \in Discussions
  <2>1. NoProgress \in Progress
    <3>1. 0 \in 0..PlateauWindow BY PolicyNumbers
    <3> QED BY <3>1 DEF NoProgress, Progress
  <2>2. [used |-> 0, lease |-> InitialLease, over |-> FALSE] \in Budgets
    BY PolicyNumbers DEF Budgets
  <2> QED BY <1>10, <2>1, <2>2 DEF Discussions
<1>12. PcOK BY <1>6, <1>10 DEF PcOK, PcType
<1>13. RestOK BY DiscussionWaveAssumption DEF WaveInit, RestOK
<1>14. BoundOK BY <1>3, <1>6 DEF BoundOK
<1>15. StandingOK BY <1>3, <1>9, <1>10 DEF StandingOK, RestingStates
<1>16. Charged BY <1>3, <1>6, <1>9, <1>10, PolicyNumbers DEF Charged
<1> QED BY <1>7, <1>8, <1>11, <1>12, <1>13, <1>14, <1>15, <1>16 DEF WaveInv

\* Every step keeps the invariant and what was settled.
LEMMA WaveStep == ASSUME WaveInv, [WaveNext]_waveVars PROVE WaveInv' /\ SettledKept
<1>1. \A m \in Members : m[1] \in DOMAIN waves /\ m[2] \in waves[m[1]].members
  BY DEF Members
<1>2. ASSUME NEW m \in Members, OnRunInputRequired(m[1], m[2]) PROVE WaveInv' /\ SettledKept
  BY <1>1, <1>2, RunStepsKeep
<1>3. ASSUME NEW m \in Members, OnRunTerminal(m[1], m[2]) \/ RecoverSettled(m[1], m[2])
      PROVE  WaveInv' /\ SettledKept
  BY <1>3, SettlingKeeps
<1>4. ASSUME NEW m \in Members, Expire(m[1], m[2]) PROVE WaveInv' /\ SettledKept
  BY <1>1, <1>4, ExpireKeeps
<1>5. ASSUME NEW m \in Members, ExpireThrows(m[1], m[2]) PROVE WaveInv' /\ SettledKept
  BY <1>1, <1>5, ExpireThrowsKeeps
<1>6. ASSUME NEW m \in Members, EnsureRun(m[1], m[2]) PROVE WaveInv' /\ SettledKept
  BY <1>1, <1>6, EnsureRunKeeps
<1>7. CASE Control \/ PlanAfterGoal BY <1>7, ControlKeeps
<1>8. CASE Planning BY <1>6, <1>7, <1>8, PhasesKeep DEF Planning
<1>9. CASE Crash \/ Restart BY <1>9, PhasesKeep
<1>10. CASE Recovery
  <2>1. CASE CloseCanceledWave BY <2>1, CloseCanceledWaveKeeps
  <2>2. CASE NothingDue \/ NothingToPlan \/ Serve BY <2>2, PhasesKeep
  <2>3. CASE Replan BY <2>3, ReplanKeeps
  <2>4. CASE Reconcile BY <2>4, ReconcileKeeps
  <2>5. CASE AdvanceAffected BY <2>5, AdvanceAffectedKeeps
  <2>6. CASE \E a \in Participants : EndCanceled(a) BY <2>6, EndCanceledKeeps
  <2>7. CASE \E a \in Participants : SettleCanceled(a) BY <2>7, SettlingKeeps
  <2> QED BY <1>3, <1>10, <2>1, <2>2, <2>3, <2>4, <2>5, <2>6, <2>7 DEF Recovery
<1>11. CASE Environment
  <2>1. ASSUME NEW m \in Members,
               \/ RunWorks(m[1], m[2]) \/ RunAsks(m[1], m[2]) \/ Release(m[1], m[2])
               \/ CancelRun(m[1], m[2])
               \/ \E state \in Endings, reply \in BOOLEAN : MemberRunEnds(m[1], m[2], state, reply)
        PROVE  WaveInv' /\ SettledKept
    BY <1>1, <2>1, RunStepsKeep
  <2> QED BY <1>11, <2>1, SurroundingsKeep DEF Environment
<1>12. CASE WaveDeadline BY <1>12, SurroundingsKeep
<1>13. CASE UNCHANGED waveVars
  <2>1. UNCHANGED <<disc, waves, eligible, clock, pc, left>> BY <1>13 DEF waveVars
  <2>2. pc \in PcType /\ RestOK BY DEF WaveInv, PcOK
  <2>3. RestOK' BY <2>1, <2>2 DEF RestOK
  <2>4. disc.state = "active" /\ ~AtWork => pc.at \in {"goal", "down", "canceled", "due", "replan"}
    BY DEF WaveInv, StandingOK
  <2> QED BY <2>1, <2>2, <2>3, <2>4, PlaceStep
<1> QED BY <1>2, <1>3, <1>4, <1>5, <1>7, <1>8, <1>9, <1>10, <1>11, <1>12, <1>13
        DEF WaveNext, Expiry

\* The invariant has the barrier of a Discussion.
LEMMA InvBarrier == ASSUME WaveInv PROVE BarrierKept
<1>1. /\ Len(waves) \in DOMAIN waves /\ WavesOK
      /\ \A w \in DOMAIN waves : waves[w] \in Wave /\ Shaped(waves[w]) /\ BindingOK(waves[w])
  BY LastOfWaves DEF WaveInv, WavesOK, WaveOK, Shaped
<1>2. WaveTypeOK
  <2>1. \A w \in DOMAIN waves :
         /\ waves[w].phase \in {"contribution", "finalization"}
         /\ waves[w].state \in {"open", "completed", "partial", "failed", "canceled"}
         /\ waves[w].members \in (SUBSET Participants) \ {{}}
         /\ waves[w].sealed \in SUBSET waves[w].members
         /\ waves[w].turn \in [waves[w].members -> Turns]
         /\ waves[w].run \in [waves[w].members -> Runs]
    <3> SUFFICES ASSUME NEW w \in DOMAIN waves
                 PROVE  /\ waves[w].phase \in {"contribution", "finalization"}
                        /\ waves[w].state \in {"open", "completed", "partial", "failed", "canceled"}
                        /\ waves[w].members \in (SUBSET Participants) \ {{}}
                        /\ waves[w].sealed \in SUBSET waves[w].members
                        /\ waves[w].turn \in [waves[w].members -> Turns]
                        /\ waves[w].run \in [waves[w].members -> Runs]
      OBVIOUS
    <3> DEFINE v == waves[w]
    <3>1. v \in Wave /\ Shaped(v) BY <1>1
    <3> HIDE DEF v
    <3>2. /\ v.phase \in {"contribution", "finalization"}
          /\ v.state \in {"open", "completed", "partial", "failed", "canceled"}
          /\ v.members \in SUBSET Participants
      BY <3>1 DEF Wave
    <3>3. /\ v.members # {} /\ v.sealed \in SUBSET v.members /\ v.turn \in [v.members -> Turns]
          /\ v.run \in [v.members -> Runs]
      BY <3>1 DEF Shaped
    <3>4. v.members \in (SUBSET Participants) \ {{}} BY <3>2, <3>3
    <3> QED BY <3>2, <3>3, <3>4, Zenon DEF v
  <2>2. disc \in Discussions /\ pc \in PcType /\ RestOK BY DEF WaveInv, PcOK
  <2> QED BY <2>1, <2>2 DEF WaveTypeOK, PcType, RestOK
<1>3. BarrierOrRest
  <2>1. OpenWaves \subseteq {Len(waves)} BY OpenIsLast
  <2>2. OpenWaves # {} <=> AtWork BY OpenIsLast
  <2>3. OpenWaves # {} => waves[Open] = LastWave BY OpenIsLast DEF LastWave
  <2>4. LastWave.phase \in {"contribution", "finalization"} BY <1>1 DEF Wave, LastWave
  <2>5. ASSUME pc.at = "up"
        PROVE  /\ disc.state \in {"active", "stop_requested"} =>
                    OpenWaves # {} /\ waves[Open].phase = "contribution"
               /\ disc.state = "finalizing" =>
                    OpenWaves # {} /\ waves[Open].phase = "finalization"
               /\ disc.state \in RestingStates \cup {"completed", "terminated"} => OpenWaves = {}
    BY <2>2, <2>3, <2>4, <2>5 DEF WaveInv, StandingOK, TerminalDiscussionStates
  <2> QED BY <2>1, <2>5 DEF BarrierOrRest
<1>4. RunPerTurn
  <2>1. \A w \in DOMAIN waves : \A a \in waves[w].members :
          /\ waves[w].turn[a].state \in {"planned", "queued"} \cup TerminalTurnStates
          /\ waves[w].run[a].made <= 1
          /\ waves[w].turn[a].state = "queued" => waves[w].turn[a].bound
    BY <1>1 DEF Shaped, BindingOK, Turns
  <2>2. pc.at = "up" => \A w \in DOMAIN waves : \A a \in waves[w].members :
          waves[w].turn[a].state # "planned"
    BY DEF WaveInv, BoundOK, PlannedIn
  <2> QED BY <2>1, <2>2 DEF RunPerTurn, Live
<1>5. FinalOnce BY DEF FinalOnce, WaveInv, OrderOK, StandingOK, LastWave
<1> QED BY <1>2, <1>3, <1>4, <1>5 DEF BarrierKept

\* It has what a quorum may close, and what a private participant gives.
LEMMA InvQuorum == ASSUME WaveInv PROVE QuorumSound /\ PrivateReleased
<1>1. \A w \in DOMAIN waves : SealOK(waves[w]) /\ PrivateOK(waves[w])
  BY DEF WaveInv, WavesOK, WaveOK
<1>2. SealFaithful BY <1>1 DEF SealFaithful, SealOK
<1>3. PrivateReleased BY <1>1 DEF PrivateReleased, PrivateOK
<1> QED BY <1>2, <1>3 DEF QuorumSound, WaveInv

\* It has the charges: the contribution Waves that are closed are those the budget counts.
LEMMA InvCharged == ASSUME WaveInv PROVE ChargedOnce
<1> DEFINE n == Len(waves)
           k == IF LastWave.phase = "contribution" /\ ~AtWork THEN n ELSE n - 1
           S == {w \in DOMAIN waves : waves[w].phase = "contribution" /\ waves[w].state # "open"}
<1>1. /\ n \in Nat \ {0} /\ DOMAIN waves = 1..n /\ n \in DOMAIN waves
      /\ \A w \in DOMAIN waves : waves[w].phase \in {"contribution", "finalization"}
  BY LastOfWaves DEF WaveInv, WavesOK, WaveOK, Shaped, Wave
<1>2. \A w \in DOMAIN waves : w # n => waves[w].phase = "contribution" /\ waves[w].state # "open"
  BY <1>1 DEF WaveInv, OrderOK
<1>3. n \in S <=> LastWave.phase = "contribution" /\ ~AtWork BY <1>1 DEF LastWave, AtWork
<1>4. S = 1..k
  <2>1. \A w \in DOMAIN waves : w # n => w \in S BY <1>2
  <2>2. S \subseteq 1..n BY <1>1
  <2>3. CASE n \in S
    <3>1. k = n BY <1>3, <2>3
    <3> HIDE DEF S, n, k
    <3> QED BY <1>1, <2>1, <2>2, <2>3, <3>1
  <2>4. CASE n \notin S
    <3>1. k = n - 1 BY <1>3, <2>4
    <3> HIDE DEF S, n, k
    <3>2. 1..k \subseteq 1..n /\ n \notin 1..k /\ \A w \in 1..n : w # n => w \in 1..k
      BY <1>1, <3>1
    <3>3. \A w \in 1..k : w \in S BY <1>1, <2>1, <3>2
    <3>4. \A w \in S : w \in 1..k BY <2>2, <2>4, <3>2
    <3> QED BY <3>3, <3>4
  <2> QED BY <2>3, <2>4
<1>5. Cardinality(S) = k
  <2>1. k \in Nat BY <1>1
  <2> HIDE DEF S, k
  <2> QED BY <1>4, <2>1, FS_Interval
<1>6. disc.state # "canceled" => disc.budget.used = Cardinality(S)
  BY <1>5 DEF WaveInv, Charged
<1>7. \A w \in OpenWaves : waves[w].phase = "contribution" =>
         disc.budget.used < disc.budget.lease /\ disc.budget.used < RegularTurnLimit
  BY OpenIsLast DEF WaveInv, Charged, LastWave, OpenWaves, AtWork
<1>8. Len(waves) <= HardMax
  <2>1. Len(waves) <= RegularTurnLimit + 0 \/ Len(waves) <= RegularTurnLimit + 1
    BY DEF WaveInv, Charged
  <2> QED BY <1>1, <2>1, PolicyNumbers
<1> QED BY <1>6, <1>7, <1>8 DEF ChargedOnce

\* The inductive invariant of a Discussion holds of every behaviour.
LEMMA WaveInvAlways == WaveSpec => []WaveInv
BY WaveInvHolds, WaveStep, PTL DEF WaveSpec

\* A Discussion has one open Wave or rests, one Run for a Turn and one conclusion, closes a
\* Wave early only with the quorum its mode asks for, charges every Wave once and uses a
\* private Result only when its owner released it, for any roster, policy and bounds.
THEOREM DiscussionIsKept == WaveSpec => []DiscussionKept
<1>1. WaveInv => DiscussionKept BY InvBarrier, InvQuorum, InvCharged DEF DiscussionKept
<1> QED BY <1>1, WaveInvAlways, PTL

\* No step changes a closed Wave, its seal or a settled Turn.
THEOREM SettledAlwaysStays == WaveSpec => SettledStays
<1>1. WaveInv /\ [WaveNext]_waveVars => [SettledKept]_waveVars BY WaveStep
<1> QED BY <1>1, WaveInvAlways, PTL DEF WaveSpec, SettledStays
=============================================================================
