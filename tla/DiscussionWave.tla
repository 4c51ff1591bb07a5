---------------------------- MODULE DiscussionWave ----------------------------
(***************************************************************************)
(* One Discussion: Waves of parallel Runs, each a barrier that closes when *)
(* its members are settled (or, with a quorum, when enough of them are),   *)
(* the decision taken at the barrier, and the next Wave or the             *)
(* finalization it opens.                                                  *)
(*                                                                         *)
(* The Runs end on their own and the callback of an ended Run may come     *)
(* twice, late or never.  onRunTerminal and create are one transaction     *)
(* each; a control of a member writes the plan, each Run and each binding  *)
(* of a Run to its Turn by itself, and Central can stop between any two of *)
(* them.  recover works through its phases before anything is served.      *)
(*                                                                         *)
(* The pure part of the orchestrator comes first: the budget ledger, the   *)
(* policy engine, the effect of a Wave on the progress snapshot and the    *)
(* choice of the members of a Wave.                                        *)
(***************************************************************************)
EXTENDS Naturals, Sequences, FiniteSets, SequencesExt

CONSTANTS
    Roster,             \* the participants in the order of their ordinals
    ReviewMode,         \* the last participant is the reviewer
    RequireReviewer,    \* finishing needs the approval of the reviewer
    Primary,            \* the participant assigned to the Task as primary, or Nothing
    Focused,            \* participantSelectionMode is question_focused
    FocusLimit,
    AllowAutomaticFinish,
    InitialLease, AutomaticMax, HardMax, Reserve, PlateauWindow,
    Nothing

Participants == Range(Roster)

\* resolvePolicy and the checks of create.
ASSUME DiscussionPolicyAssumption ==
    /\ Roster \in Seq(Participants) /\ Len(Roster) \in 2..5 /\ Cardinality(Participants) = Len(Roster)
    /\ {ReviewMode, RequireReviewer, Focused, AllowAutomaticFinish} \subseteq BOOLEAN
    /\ RequireReviewer => ReviewMode
    /\ FocusLimit \in 2..5
    /\ Primary \in Participants \cup {Nothing} /\ Nothing \notin Participants
    /\ InitialLease \in 1..12 /\ AutomaticMax \in InitialLease..30
    /\ HardMax \in (AutomaticMax + 1)..50
    /\ Reserve \in 1..3 /\ Reserve < HardMax
    /\ PlateauWindow \in 1..6

Reviewer == IF ReviewMode THEN Last(Roster) ELSE Nothing

\* The lower of two numbers, and the higher.
AtMost(a, b) == IF a <= b THEN a ELSE b
AtLeast(a, b) == IF a >= b THEN a ELSE b

-----------------------------------------------------------------------------
(***************************************************************************)
(* budget-ledger.ts.  A budget counts the Waves used, the Wave the lease   *)
(* ends at, and whether the duration of the Discussion, as it was when the *)
(* budget was last written, has reached its maximum.                       *)
(***************************************************************************)
Budgets == [used : Nat, lease : Nat, over : BOOLEAN]

\* Waves that may be used before the reserve of the finalization.
RegularTurnLimit == HardMax - Reserve

HardBoundary(b) == b.used >= RegularTurnLimit \/ b.over

LeaseBoundary(b) == b.used >= b.lease

RecordTurnUsage(b, over) == [used |-> b.used + 1, lease |-> b.lease, over |-> over]

\* The lease after a grant of `turns`, up to boundary.
LeaseEnd(b, turns, boundary) == AtMost(AtLeast(b.lease, b.used) + turns, boundary)

AutomaticLease(b) ==
    [b EXCEPT !.lease = LeaseEnd(b, InitialLease, AtMost(AutomaticMax, RegularTurnLimit))]

UserLease(b, turns) == [b EXCEPT !.lease = LeaseEnd(b, turns, RegularTurnLimit)]

\* prepareResumeBudget: a lease is extended only when it has ended.
ResumeBudget(b, turns) ==
    IF LeaseBoundary(b) /\ ~HardBoundary(b) THEN UserLease(b, turns) ELSE b

-----------------------------------------------------------------------------
(***************************************************************************)
(* discussion-policy-engine.ts.  A progress snapshot keeps what the policy *)
(* reads of it.                                                            *)
(***************************************************************************)
Progress == [goal : BOOLEAN, plateau : 0..PlateauWindow, high : BOOLEAN,
             approved : BOOLEAN, novel : BOOLEAN]

NoProgress == [goal |-> FALSE, plateau |-> 0, high |-> FALSE, approved |-> FALSE, novel |-> FALSE]

Decision(action, state, reason) ==
    [action |-> action, state |-> state, reason |-> reason, grant |-> FALSE]

WaitHuman(reason) == Decision("wait_human", "waiting_human", reason)

ReviewSatisfied(p) == RequireReviewer => p.approved

\* decideDiscussion, for an intent other than cancel.
Decide(p, b, intent, inputRequired, failed) ==
    CASE HardBoundary(b) -> Decision("finalize", "finalizing", "hard_budget_exhausted")
      [] inputRequired /\ ~HardBoundary(b) -> WaitHuman("input_required")
      [] OTHER ->
         CASE intent = "pause" -> Decision("pause", "paused", "user_paused")
           [] intent \in {"finish", "stop_after_turn"} ->
                Decision("finalize", "finalizing", "user_requested_finish")
           [] OTHER ->
              IF failed THEN WaitHuman("runtime_failure")
              ELSE IF AllowAutomaticFinish /\ p.goal /\ ReviewSatisfied(p)
                THEN Decision("finalize", "finalizing", "goal_satisfied")
              ELSE IF p.plateau >= PlateauWindow
                THEN IF p.high \/ ~ReviewSatisfied(p)
                     THEN WaitHuman("discussion_plateau")
                     ELSE Decision("finalize", "finalizing", "discussion_plateau")
              ELSE IF LeaseBoundary(b)
                THEN IF b.lease < AutomaticMax /\ p.novel
                     THEN [Decision("continue", "active", Nothing) EXCEPT !.grant = TRUE]
                     ELSE Decision("wait_human", "awaiting_extension", "soft_budget_exhausted")
              ELSE Decision("continue", "active", Nothing)

(***************************************************************************)
(* evaluateWaveProgress, as the snapshots it can return for the members    *)
(* that succeeded: without one nothing is learned and no question changes; *)
(* a goal is satisfied only without a question of high importance; an      *)
(* approval that the reviewer does not repeat lapses when anything the     *)
(* projection shows has changed.                                           *)
(***************************************************************************)
Evaluations(p, successes) ==
    IF successes = {}
    THEN {[goal |-> FALSE, plateau |-> AtMost(p.plateau + 1, PlateauWindow), high |-> p.high,
           approved |-> p.approved /\ ~p.goal, novel |-> FALSE]}
    ELSE {q \in Progress :
            /\ q.goal => ~q.high
            /\ q.plateau = IF q.novel THEN 0 ELSE AtMost(p.plateau + 1, PlateauWindow)
            /\ \/ Reviewer \in successes
               \/ q.approved =>
                    /\ p.approved /\ ~q.novel
                    /\ q.goal = p.goal /\ q.high = p.high}

-----------------------------------------------------------------------------
(* discussion-participant-selector.ts *)

FirstOf(candidates) ==
    Roster[CHOOSE i \in DOMAIN Roster :
             /\ Roster[i] \in candidates
             /\ \A j \in 1..(i - 1) : Roster[j] \notin candidates]

\* The only member of a finalization Wave.
Finalizer(candidates) ==
    IF Reviewer \in candidates THEN Reviewer
    ELSE IF Primary \in candidates THEN Primary
    ELSE FirstOf(candidates)

\* The sets of members a contribution Wave can be given: which questions are open
\* and who reported them is left open, a required reviewer always belongs.
Selections(candidates) ==
    {candidates} \cup
    {s \in SUBSET candidates :
       /\ Focused /\ s # {} /\ Cardinality(s) <= FocusLimit
       /\ ReviewMode => Reviewer \in s}

RequiredRolesAvailable(candidates) == ReviewMode => Reviewer \in candidates

-----------------------------------------------------------------------------
(* The Waves.                                                              *)

CONSTANTS
    Private,        \* participants whose output stays with their owner
    QuorumMin,      \* quorumMinimumCompleted, 0 for all_settled
    Endings,        \* bound: the ways a Run at work can end
    MaxControls,    \* bound: controls of members
    MaxCrashes,     \* bound: stops of Central
    MaxLosses,      \* bound: participants that lose their eligibility
    MaxAsks,        \* bound: Runs that ask for input
    Lasting         \* bound: the Discussion can reach its maximum duration

Quorum == QuorumMin > 0

\* create lets every participant be private when no final output is asked for.
ASSUME DiscussionWaveAssumption ==
    /\ Private \subseteq Participants
    /\ QuorumMin \in 0..Len(Roster) /\ QuorumMin # 1
    /\ Quorum => Private = {}
    /\ Endings \subseteq {"completed", "failed", "canceled"}
    /\ {MaxControls, MaxCrashes, MaxLosses, MaxAsks} \subseteq Nat /\ Lasting \in BOOLEAN

VARIABLES
    disc,       \* the row of the Discussion
    waves,      \* its Waves, in order, with their Turns and Runs
    eligible,   \* participants that eligibleParticipants accepts now
    clock,      \* which deadlines have passed
    pc,         \* what the event loop of Central is in
    left        \* what the bounds leave

waveVars == <<disc, waves, eligible, clock, pc, left>>

TerminalDiscussionStates == {"completed", "canceled", "terminated"}
TerminalTurnStates == {"completed", "failed", "canceled"}
TerminalRunStates == {"completed", "failed", "canceled", "expired", "outcome_unknown"}
RestingStates == {"awaiting_extension", "waiting_human", "paused"}

Discussions ==
    [state : {"active", "stop_requested", "finalizing"} \cup RestingStates
               \cup TerminalDiscussionStates,
     hard : BOOLEAN,        \* stateReason is hard_budget_exhausted
     requested : {"finish", "stop_after_turn", "pause", Nothing},
     progress : Progress, budget : Budgets]

Turns == [state : {"planned", "queued"} \cup TerminalTurnStates,
          bound : BOOLEAN,  \* the Turn has a runId
          asked : BOOLEAN]  \* terminalReason is input_required

\* A Run is found by its orchestrationKey, the Turn; "working" stands for every
\* state after the acceptance, and for a queued Run a peer has a receipt of.
Runs == [state : {"none", "queued", "working", "input_required"} \cup TerminalRunStates,
         asked : BOOLEAN, reply : BOOLEAN, released : BOOLEAN, made : 0..2]

WaveTypeOK ==
    /\ disc \in Discussions
    /\ \A w \in DOMAIN waves :
         /\ waves[w].phase \in {"contribution", "finalization"}
         /\ waves[w].state \in {"open", "completed", "partial", "failed", "canceled"}
         /\ waves[w].members \in (SUBSET Participants) \ {{}}
         /\ waves[w].sealed \in SUBSET waves[w].members
         /\ waves[w].turn \in [waves[w].members -> Turns]
         /\ waves[w].run \in [waves[w].members -> Runs]
    /\ eligible \subseteq Participants
    /\ clock \in [soft : BOOLEAN, wave : BOOLEAN, discussion : BOOLEAN]
    /\ pc \in [at : {"up", "down", "goal", "bind", "canceled", "due", "replan", "reconcile",
                     "advance", "settle"},
               then : {"up", "reconcile", "advance"}, affected : BOOLEAN, turns : 0..20,
               closing : Nat]    \* the Wave that closeCanceledWaves is at, or 0
    /\ left \in [controls : Nat, crashes : Nat, losses : Nat, asks : Nat]

-----------------------------------------------------------------------------
OpenWaves == {w \in DOMAIN waves : waves[w].state = "open"}
Open == CHOOSE w \in OpenWaves : TRUE

Live(t) == t.state \notin TerminalTurnStates

\* eligibleParticipantsForNextWave: an Agent with a Turn that is not settled, in
\* any earlier Wave, is left out.
LiveAgents(ws) == UNION {{a \in ws[w].members : Live(ws[w].turn[a])} : w \in DOMAIN ws}

NextEligible(ws) == eligible \ LiveAgents(ws)

NewTurn(now) == [state |-> IF now THEN "queued" ELSE "planned", bound |-> now, asked |-> FALSE]
WaveRun(now) == [state |-> IF now THEN "queued" ELSE "none", asked |-> FALSE, reply |-> FALSE,
                released |-> FALSE, made |-> IF now THEN 1 ELSE 0]

\* buildWavePlan; with `now` the Runs are created and bound in the same transaction.
WavePlan(phase, members, now) ==
    [phase |-> phase, state |-> "open", members |-> members, sealed |-> {},
     turn |-> [a \in members |-> NewTurn(now)], run |-> [a \in members |-> WaveRun(now)]]

\* A contribution Wave does not outlast the Discussion.
ClockOfWave(phase) ==
    LET past == phase = "contribution" /\ clock.discussion
    IN [clock EXCEPT !.soft = past, !.wave = past]

\* waveCloseState
CloseState(turn) ==
    CASE \A a \in DOMAIN turn : turn[a].state = "completed" -> "completed"
      [] \A a \in DOMAIN turn : turn[a].state = "canceled" -> "canceled"
      [] OTHER -> IF \E a \in DOMAIN turn : turn[a].state = "completed" THEN "partial" ELSE "failed"

WaveInit ==
    /\ disc = [state |-> "active", hard |-> FALSE, requested |-> Nothing, progress |-> NoProgress,
               budget |-> [used |-> 0, lease |-> InitialLease, over |-> FALSE]]
    /\ eligible = Participants
    /\ waves = <<WavePlan("contribution", Participants, TRUE)>>
    /\ clock = [soft |-> FALSE, wave |-> FALSE, discussion |-> FALSE]
    /\ pc = [at |-> "up", then |-> "up", affected |-> FALSE, turns |-> 0, closing |-> 0]
    /\ left = [controls |-> MaxControls, crashes |-> MaxCrashes, losses |-> MaxLosses,
               asks |-> MaxAsks]

-----------------------------------------------------------------------------
(* WaveSettlementService *)

\* settlePrivate: the Turn of a private Run that completed waits for its owner.
Awaiting(w, a) ==
    LET v == waves[w] r == v.run[a]
    IN /\ a \in Private /\ r.state = "completed" /\ ~r.released
       /\ v.state = "open" /\ v.phase = "contribution"
       /\ ~clock.wave /\ disc.requested = Nothing /\ disc.state = "active"

Outcome(w, a) ==
    LET v == waves[w] r == v.run[a]
        canceled == r.state = "canceled" \/ (a \in Private /\ disc.state = "canceled")
        successful == /\ r.state = "completed" /\ ~canceled
                      /\ IF a \in Private
                         THEN r.released /\ v.state = "open" /\ v.phase = "contribution"
                         ELSE r.reply
    IN IF successful THEN "completed" ELSE IF canceled THEN "canceled" ELSE "failed"

\* Mutant: a Turn that is settled is settled again.
SettleAlways(w, a) ==
    IF ~Awaiting(w, a)
    THEN [waves[w].turn[a] EXCEPT !.state = Outcome(w, a), !.asked = waves[w].run[a].asked]
    ELSE waves[w].turn[a]

\* settleTurn leaves a Turn that is settled alone.
Settle(w, a) ==
    IF Live(waves[w].turn[a]) /\ ~Awaiting(w, a)
    THEN [waves[w].turn[a] EXCEPT !.state = Outcome(w, a),
                                  !.asked = waves[w].run[a].asked /\ Outcome(w, a) # "completed"]
    ELSE waves[w].turn[a]

\* The Turns of a Wave after onRunTerminal(a) has settled: with a quorum every
\* member whose Run has ended.
SettledTurns(w, a) ==
    [b \in waves[w].members |->
       IF /\ b = a \/ (Quorum /\ waves[w].state = "open")
          /\ waves[w].turn[b].bound /\ waves[w].run[b].state \in TerminalRunStates
       THEN Settle(w, b) ELSE waves[w].turn[b]]

AllSettled(turn) == \A a \in DOMAIN turn : ~Live(turn[a])

Completed(turn) == {a \in DOMAIN turn : turn[a].state = "completed"}

\* Mutant: the seal does not ask for the required reviewer.
SealableWithoutReviewer(w, turn) ==
    /\ Quorum /\ waves[w].phase = "contribution" /\ clock.soft
    /\ Cardinality(Completed(turn)) >= QuorumMin

\* quorumSealIfReady
Sealable(w, turn) ==
    /\ Quorum /\ waves[w].phase = "contribution" /\ clock.soft
    /\ Cardinality(Completed(turn)) >= QuorumMin
    /\ RequiredRolesAvailable(Completed(turn))

-----------------------------------------------------------------------------
(* Closing a Wave *)

\* closeReadyWaveAndApply and the rest of advanceSettledWave: the turns of w are
\* `turn`, the accepted ones `accepted`, and the Runs of a next Wave are created
\* at once or by the reconciliation that follows.
AdvanceSettledWave(w, turn, accepted, sealed, now) ==
    LET settled == [waves EXCEPT ![w].turn = turn]
        closed == [settled EXCEPT ![w].state = IF sealed THEN "partial" ELSE CloseState(turn),
                                  ![w].sealed = IF sealed THEN accepted ELSE {}]
        next == NextEligible(settled)
        successes == accepted \cap Completed(turn)
        used == RecordTurnUsage(disc.budget, clock.discussion)
        asked == \E a \in accepted : turn[a].asked
    IN \E progress \in Evaluations(disc.progress, successes) :
         LET decision == Decide(progress, used, disc.requested, asked, successes = {})
             stays == decision.action = "continue"
                      /\ (next = {} \/ ~RequiredRolesAvailable(next))
             finalizes == decision.action = "finalize"
             budget == IF decision.grant /\ ~stays THEN AutomaticLease(used) ELSE used
             state == CASE stays -> "waiting_human"
                        [] finalizes /\ next = {} ->
                             IF decision.reason = "hard_budget_exhausted"
                             THEN "terminated" ELSE "completed"
                        [] OTHER -> decision.state
             row == [state |-> state, requested |-> Nothing, progress |-> progress, budget |-> budget,
                     hard |-> finalizes /\ decision.reason = "hard_budget_exhausted"]
         IN /\ disc' = row
            /\ \/ /\ ~(decision.action = "continue" /\ ~stays) /\ ~(finalizes /\ next # {})
                  /\ waves' = closed /\ UNCHANGED clock
               \/ /\ decision.action = "continue" /\ ~stays
                  /\ \E members \in Selections(next) :
                       waves' = Append(closed, WavePlan("contribution", members, now))
                  /\ clock' = ClockOfWave("contribution")
               \/ /\ finalizes /\ next # {}
                  /\ waves' = Append(closed, WavePlan("finalization", {Finalizer(next)}, now))
                  /\ clock' = ClockOfWave("finalization")

\* advanceReadyWave, for a Wave whose Turns are all settled.
AdvanceReadyWave(w, turn, now) ==
    LET closed == [waves EXCEPT ![w].turn = turn, ![w].state = CloseState(turn)]
    IN \/ /\ disc.state \in TerminalDiscussionStates
          /\ waves' = closed
          /\ UNCHANGED <<disc, clock>>
       \/ /\ disc.state \notin TerminalDiscussionStates
          /\ waves[w].phase = "finalization"
          /\ disc' = [disc EXCEPT !.state = IF disc.hard THEN "terminated" ELSE "completed",
                                  !.requested = Nothing]
          /\ waves' = closed
          /\ UNCHANGED clock
       \/ /\ disc.state \notin TerminalDiscussionStates
          /\ waves[w].phase = "contribution"
          /\ AdvanceSettledWave(w, turn, waves[w].members, FALSE, now)

\* onRunTerminalWithinTransaction for the Turn of a in Wave w.
SettleAndAdvance(w, a) ==
    LET turn == SettledTurns(w, a)
    IN \/ /\ \/ waves[w].state # "open"
             \/ ~AllSettled(turn) /\ ~Sealable(w, turn)
          /\ waves' = [waves EXCEPT ![w].turn = turn]
          /\ UNCHANGED <<disc, clock>>
       \/ /\ waves[w].state = "open" /\ AllSettled(turn)
          /\ AdvanceReadyWave(w, turn, TRUE)
       \/ /\ waves[w].state = "open" /\ ~AllSettled(turn) /\ Sealable(w, turn)
          /\ AdvanceSettledWave(w, turn, Completed(turn), TRUE, TRUE)

\* The callback of a Run that ended: after its event, again for a duplicate, or
\* from the sweep of the open Waves.
OnRunTerminal(w, a) ==
    /\ pc.at = "up"
    /\ waves[w].turn[a].bound /\ waves[w].run[a].state \in TerminalRunStates
    /\ SettleAndAdvance(w, a)
    /\ UNCHANGED <<eligible, pc, left>>

\* onRunInputRequired: a Wave cannot wait for an answer.
OnRunInputRequired(w, a) ==
    /\ pc.at = "up"
    /\ waves[w].turn[a].bound /\ waves[w].run[a].state = "input_required"
    /\ waves' = [waves EXCEPT ![w].run[a].state = "outcome_unknown"]
    /\ UNCHANGED <<disc, eligible, clock, pc, left>>

-----------------------------------------------------------------------------
(* Planning a Wave: persistWavePlan, then the reconciliation binds its Runs *)

At(where) == [pc EXCEPT !.at = where]
Binding(then) == [pc EXCEPT !.at = "bind", !.then = then]

Row(state, budget, hard) ==
    [disc EXCEPT !.state = state, !.requested = Nothing, !.budget = budget, !.hard = hard]

\* planContinuation; `then` is where the caller goes on.
PlanContinuation(budget, then) ==
    LET next == NextEligible(waves)
    IN \/ /\ next = {} \/ ~RequiredRolesAvailable(next)
          /\ disc' = Row("waiting_human", budget, FALSE)
          /\ pc' = At(then)
          /\ UNCHANGED <<waves, clock>>
       \/ /\ next # {} /\ RequiredRolesAvailable(next)
          /\ disc' = Row("active", budget, FALSE)
          /\ \E members \in Selections(next) :
               waves' = Append(waves, WavePlan("contribution", members, FALSE))
          /\ clock' = ClockOfWave("contribution")
          /\ pc' = Binding(then)

\* planFinalization: without a participant whose output is shared, a fallback
\* conclusion ends the Discussion.
PlanFinalization(budget, hard, then) ==
    LET next == NextEligible(waves) \ Private
    IN \/ /\ next = {}
          /\ disc' = Row(IF hard THEN "terminated" ELSE "completed", budget, hard)
          /\ pc' = At(then)
          /\ UNCHANGED <<waves, clock>>
       \/ /\ next # {}
          /\ disc' = Row("finalizing", budget, hard)
          /\ waves' = Append(waves, WavePlan("finalization", {Finalizer(next)}, FALSE))
          /\ clock' = ClockOfWave("finalization")
          /\ pc' = Binding(then)

\* What continue and adjust_goal do once the budget is known.
Resume(budget) ==
    \/ HardBoundary(budget) /\ PlanFinalization(budget, TRUE, "up")
    \/ ~HardBoundary(budget) /\ PlanContinuation(budget, "up")

-----------------------------------------------------------------------------
(* control *)

Spend == left' = [left EXCEPT !.controls = @ - 1]

Controllable == pc.at = "up" /\ left.controls > 0 /\ disc.state \notin TerminalDiscussionStates

CancelDiscussion ==
    /\ Controllable
    /\ disc' = Row("canceled", disc.budget, FALSE)
    /\ Spend
    /\ UNCHANGED <<waves, eligible, clock, pc>>

\* requestAction: with a Wave open the action waits for its barrier.
RequestAction(action) ==
    /\ Controllable /\ disc.state # "finalizing" /\ OpenWaves # {}
    /\ disc' = [disc EXCEPT !.state = "stop_requested", !.requested = action, !.hard = FALSE]
    /\ Spend
    /\ UNCHANGED <<waves, eligible, clock, pc>>

\* Without one it is decided at once.
DecideNow(action) ==
    /\ Controllable /\ disc.state # "finalizing" /\ OpenWaves = {}
    /\ LET decision == Decide(disc.progress, disc.budget, action, FALSE, FALSE)
       IN \/ /\ decision.action = "finalize"
             /\ PlanFinalization(disc.budget, decision.reason = "hard_budget_exhausted", "up")
          \/ /\ decision.action # "finalize"
             /\ disc' = Row(decision.state, disc.budget, FALSE)
             /\ UNCHANGED <<waves, clock, pc>>
    /\ Spend
    /\ UNCHANGED eligible

Continue(turns) ==
    /\ Controllable /\ disc.state \in RestingStates /\ OpenWaves = {}
    /\ Resume(ResumeBudget(disc.budget, turns))
    /\ Spend
    /\ UNCHANGED eligible

\* adjust_goal commits the goal and the state before it plans.
AdjustGoal(turns) ==
    /\ Controllable /\ disc.state \in RestingStates /\ OpenWaves = {}
    /\ disc' = Row("active", disc.budget, FALSE)
    /\ pc' = [pc EXCEPT !.at = "goal", !.turns = turns]
    /\ Spend
    /\ UNCHANGED <<waves, eligible, clock>>

PlanAfterGoal ==
    /\ pc.at = "goal"
    /\ Resume(ResumeBudget(disc.budget, pc.turns))
    /\ UNCHANGED <<eligible, left>>

\* The route cancels the Runs of a canceled Discussion; one that was never accepted
\* ends at once.
CancelRun(w, a) ==
    /\ pc.at = "up" /\ disc.state = "canceled"
    /\ waves[w].state = "open" /\ Live(waves[w].turn[a]) /\ waves[w].run[a].state = "queued"
    /\ waves' = [waves EXCEPT ![w].run[a].state = "canceled"]
    /\ UNCHANGED <<disc, eligible, clock, pc, left>>

-----------------------------------------------------------------------------
(* reconcileDiscussion: ensureRun for every planned Turn *)

Unbound(w) == {a \in waves[w].members : waves[w].turn[a].state = "planned"}

\* createRuns commits the Run under the key of its Turn ...
CreateRun(w, a) ==
    /\ waves[w].run[a].made = 0
    /\ waves' = [waves EXCEPT ![w].run[a].state = "queued", ![w].run[a].made = @ + 1]

\* ... and bindTurnRun the Run found by that key.
BindTurnRun(w, a) ==
    /\ waves[w].run[a].made > 0
    /\ waves' = [waves EXCEPT ![w].turn[a].state = "queued", ![w].turn[a].bound = TRUE]

EnsureRun(w, a) ==
    /\ pc.at = "bind" /\ a \in Unbound(w)
    /\ CreateRun(w, a) \/ BindTurnRun(w, a)
    /\ UNCHANGED <<disc, eligible, clock, pc, left>>

BindingDone ==
    /\ pc.at = "bind"
    /\ \A w \in DOMAIN waves : Unbound(w) = {}
    /\ pc' = At(pc.then)
    /\ UNCHANGED <<disc, waves, eligible, clock, left>>

-----------------------------------------------------------------------------
(* Deadlines: DiscussionRecoveryService.expireDueWaves, from the sweep and from
   recover *)

Due == pc.at \in {"up", "due"} /\ clock.wave /\ OpenWaves # {}

\* A Turn settled before it had a Run; ensureRun cannot bind one to it.
Stranded(w, a) == ~waves[w].turn[a].bound /\ ~Live(waves[w].turn[a])

Position(a) == CHOOSE i \in DOMAIN Roster : Roster[i] = a
Before(w, a) == {b \in waves[w].members : Position(b) < Position(a)}

\* A member whose Run has not ended: expired if nobody accepted it.
Expire(w, a) ==
    /\ Due /\ w \in OpenWaves
    /\ \A b \in Before(w, a) \cup {a} : ~Stranded(w, b)
    /\ waves[w].run[a].state \notin TerminalRunStates
    /\ LET run == waves[w].run[a] turn == waves[w].turn[a]
           end == IF run.state \in {"none", "queued"} THEN "expired" ELSE "outcome_unknown"
           state == IF turn.state = "planned" THEN "queued" ELSE turn.state
       IN waves' = [waves EXCEPT ![w].run[a] = [run EXCEPT !.state = end, !.made = 1],
                                 ![w].turn[a] = [turn EXCEPT !.state = state, !.bound = TRUE]]
    /\ UNCHANGED <<disc, eligible, clock, pc, left>>

\* The loop reaches such a Turn: a Run is created, binding it throws, and the
\* pass ends there; during recover that ends the start of Central.
ExpireThrows(w, a) ==
    /\ Due /\ w \in OpenWaves /\ Stranded(w, a)
    /\ \A b \in Before(w, a) : ~Stranded(w, b) /\ waves[w].run[b].state \in TerminalRunStates
    /\ LET run == waves[w].run[a] state == IF run.state = "none" THEN "queued" ELSE run.state
       IN waves' = [waves EXCEPT ![w].run[a] = [run EXCEPT !.state = state, !.made = 1]]
    /\ pc' = IF pc.at = "due" THEN At("down") ELSE pc
    /\ UNCHANGED <<disc, eligible, clock, left>>

-----------------------------------------------------------------------------
(* recover *)

Crash ==
    /\ pc.at # "down" /\ left.crashes > 0
    /\ pc' = [at |-> "down", then |-> "up", affected |-> FALSE, turns |-> 0, closing |-> 0]
    /\ left' = [left EXCEPT !.crashes = @ - 1]
    /\ UNCHANGED <<disc, waves, eligible, clock>>

Restart ==
    /\ pc.at = "down"
    /\ pc' = [at |-> "canceled", then |-> "advance", affected |-> FALSE, turns |-> 0,
              closing |-> IF disc.state = "canceled" /\ OpenWaves # {} THEN Open ELSE 0]
    /\ UNCHANGED <<disc, waves, eligible, clock, left>>

(***************************************************************************)
(* closeCanceledWaves goes through the members of the Wave a canceled       *)
(* Discussion left open, in order: what a Run came to is recorded, or that  *)
(* it is not known, and applied by onRunTerminal.  It does not look at the  *)
(* Discussion again, should a quorum have closed the Wave on the way.  A    *)
(* Turn without a Run would be canceled as it is; a canceled Discussion has *)
(* none.                                                                    *)
(***************************************************************************)
NextCanceled(a) ==
    /\ pc.at = "canceled" /\ pc.closing # 0
    /\ a \in waves[pc.closing].members /\ Live(waves[pc.closing].turn[a])
    /\ \A b \in Before(pc.closing, a) : ~Live(waves[pc.closing].turn[b])

EndCanceled(a) ==
    /\ NextCanceled(a) /\ waves[pc.closing].turn[a].bound
    /\ waves[pc.closing].run[a].state \notin TerminalRunStates
    /\ waves' = [waves EXCEPT ![pc.closing].run[a].state =
                    IF @ = "queued" THEN "canceled" ELSE "outcome_unknown"]
    /\ UNCHANGED <<disc, eligible, clock, pc, left>>

SettleCanceled(a) ==
    /\ NextCanceled(a) /\ waves[pc.closing].turn[a].bound
    /\ waves[pc.closing].run[a].state \in TerminalRunStates
    /\ SettleAndAdvance(pc.closing, a)
    /\ UNCHANGED <<eligible, pc, left>>

CloseCanceledWave ==
    /\ pc.at = "canceled"
    /\ pc.closing # 0 => AllSettled(waves[pc.closing].turn)
    /\ waves' = IF pc.closing # 0 /\ waves[pc.closing].state = "open"
                THEN [waves EXCEPT ![pc.closing].state = CloseState(waves[pc.closing].turn)]
                ELSE waves
    /\ pc' = [pc EXCEPT !.at = "due", !.closing = 0]
    /\ UNCHANGED <<disc, eligible, clock, left>>

\* Committed outcomes are applied, due quorums first and the rest last.
RecoverSettled(w, a) ==
    /\ \/ pc.at = "due" /\ (clock.wave \/ (Quorum /\ clock.soft))
       \/ pc.at = "settle"
    /\ w \in OpenWaves
    /\ waves[w].turn[a].bound /\ waves[w].run[a].state \in TerminalRunStates
    /\ SettleAndAdvance(w, a)
    /\ UNCHANGED <<eligible, pc, left>>

NothingDue ==
    /\ pc.at = "due" /\ (OpenWaves = {} \/ ~clock.wave)
    /\ pc' = At("replan")
    /\ UNCHANGED <<disc, waves, eligible, clock, left>>

\* Mutant: an active Discussion is planned for although its Wave is open.
NeedsPlanAlways == disc.state = "active"

NeedsPlan == disc.state = "active" /\ OpenWaves = {}

\* recoverActiveWithoutWave: adjust_goal was cut short.
Replan ==
    /\ pc.at = "replan" /\ NeedsPlan
    /\ LET elapsed == [disc.budget EXCEPT !.over = @ \/ clock.discussion]
           decision == Decide(disc.progress, elapsed, Nothing, FALSE, FALSE)
           budget == IF decision.grant THEN AutomaticLease(elapsed) ELSE elapsed
       IN \/ decision.action = "continue" /\ PlanContinuation(budget, "reconcile")
          \/ /\ decision.action = "finalize"
             /\ PlanFinalization(budget, decision.reason = "hard_budget_exhausted", "reconcile")
          \/ /\ decision.action \notin {"continue", "finalize"}
             /\ disc' = Row(decision.state, budget, FALSE)
             /\ pc' = At("reconcile")
             /\ UNCHANGED <<waves, clock>>
    /\ UNCHANGED <<eligible, left>>

NothingToPlan ==
    /\ pc.at = "replan" /\ ~NeedsPlan
    /\ pc' = At("reconcile")
    /\ UNCHANGED <<disc, waves, eligible, clock, left>>

\* reconcileDiscussion: a planned Turn of a participant that is not eligible any
\* more fails without a Run.
Reconcile ==
    LET lost == IF disc.state \in TerminalDiscussionStates \/ OpenWaves = {} THEN {}
                ELSE Unbound(Open) \ eligible
    IN /\ pc.at = "reconcile"
       /\ waves' = IF lost = {} THEN waves
                   ELSE [waves EXCEPT ![Open].turn = [a \in waves[Open].members |->
                           IF a \in lost THEN [waves[Open].turn[a] EXCEPT !.state = "failed"]
                           ELSE waves[Open].turn[a]]]
       /\ pc' = [pc EXCEPT !.at = IF disc.state \in TerminalDiscussionStates THEN "settle" ELSE "bind",
                           !.then = "advance", !.affected = (lost # {})]
       /\ UNCHANGED <<disc, eligible, clock, left>>

\* A Wave this has settled is closed, if the same pass reaches it.
AdvanceAffected ==
    /\ pc.at = "advance"
    /\ \/ /\ pc.affected /\ OpenWaves # {} /\ AllSettled(waves[Open].turn)
          /\ AdvanceReadyWave(Open, waves[Open].turn, FALSE)
          /\ pc' = [pc EXCEPT !.at = "bind", !.affected = FALSE]
       \/ /\ ~(pc.affected /\ OpenWaves # {} /\ AllSettled(waves[Open].turn))
          /\ pc' = At("settle")
          /\ UNCHANGED <<disc, waves, clock>>
    /\ UNCHANGED <<eligible, left>>

Serve ==
    /\ pc.at = "settle"
    /\ \A w \in OpenWaves, a \in Participants :
         (/\ a \in waves[w].members
          /\ Live(waves[w].turn[a]) /\ waves[w].run[a].state \in TerminalRunStates)
           => Awaiting(w, a)
    /\ pc' = [at |-> "up", then |-> "up", affected |-> FALSE, turns |-> 0, closing |-> 0]
    /\ UNCHANGED <<disc, waves, eligible, clock, left>>

-----------------------------------------------------------------------------
(* What happens around the orchestrator *)

RunWorks(w, a) ==
    /\ pc.at = "up" /\ waves[w].turn[a].bound /\ waves[w].run[a].state = "queued"
    /\ waves' = [waves EXCEPT ![w].run[a].state = "working"]
    /\ UNCHANGED <<disc, eligible, clock, pc, left>>

RunAsks(w, a) ==
    /\ pc.at = "up" /\ left.asks > 0 /\ waves[w].run[a].state = "working"
    /\ waves' = [waves EXCEPT ![w].run[a].state = "input_required", ![w].run[a].asked = TRUE]
    /\ left' = [left EXCEPT !.asks = @ - 1]
    /\ UNCHANGED <<disc, eligible, clock, pc>>

MemberRunEnds(w, a, state, reply) ==
    /\ pc.at = "up" /\ waves[w].run[a].state = "working"
    /\ reply => state = "completed"
    /\ waves' = [waves EXCEPT ![w].run[a].state = state, ![w].run[a].reply = reply]
    /\ UNCHANGED <<disc, eligible, clock, pc, left>>

\* The owner releases the Result of a private Run before the deadline of its Wave.
Release(w, a) ==
    /\ pc.at = "up" /\ a \in Private
    /\ waves[w].run[a].state = "completed" /\ ~waves[w].run[a].released
    /\ waves[w].state = "open" /\ ~clock.wave
    /\ waves' = [waves EXCEPT ![w].run[a].released = TRUE]
    /\ UNCHANGED <<disc, eligible, clock, pc, left>>

\* A participant is disabled, leaves the Room, or its grant of a peer ends; nothing
\* of the kind happens within a step of the event loop.
LoseEligibility(a) ==
    /\ pc.at \in {"up", "down"} /\ left.losses > 0 /\ a \in eligible
    /\ eligible' = eligible \ {a}
    /\ left' = [left EXCEPT !.losses = @ - 1]
    /\ UNCHANGED <<disc, waves, clock, pc>>

SoftDeadline ==
    /\ Quorum /\ OpenWaves # {} /\ ~clock.soft
    /\ clock' = [clock EXCEPT !.soft = TRUE]
    /\ UNCHANGED <<disc, waves, eligible, pc, left>>

WaveDeadline ==
    /\ OpenWaves # {} /\ ~clock.wave
    /\ clock' = [clock EXCEPT !.soft = TRUE, !.wave = TRUE]
    /\ UNCHANGED <<disc, waves, eligible, pc, left>>

DiscussionDeadline ==
    /\ Lasting /\ ~clock.discussion
    /\ LET ends == OpenWaves # {} /\ waves[Open].phase = "contribution"
       IN clock' = [soft |-> clock.soft \/ ends, wave |-> clock.wave \/ ends, discussion |-> TRUE]
    /\ UNCHANGED <<disc, waves, eligible, pc, left>>

-----------------------------------------------------------------------------
Members == {m \in (DOMAIN waves) \X Participants : m[2] \in waves[m[1]].members}

Control ==
    \/ CancelDiscussion
    \/ \E action \in {"finish", "stop_after_turn", "pause"} : RequestAction(action) \/ DecideNow(action)
    \/ \E turns \in 1..2 : Continue(turns) \/ AdjustGoal(turns)

Sweep ==
    \E m \in Members :
      /\ m[1] \in OpenWaves
      /\ OnRunTerminal(m[1], m[2]) \/ OnRunInputRequired(m[1], m[2])

Expiry == \E m \in Members : Expire(m[1], m[2])

Planning == PlanAfterGoal \/ BindingDone \/ \E m \in Members : EnsureRun(m[1], m[2])

Recovery ==
    \/ CloseCanceledWave \/ NothingDue \/ Replan \/ NothingToPlan \/ Reconcile \/ AdvanceAffected \/ Serve
    \/ \E m \in Members : RecoverSettled(m[1], m[2])
    \/ \E a \in Participants : EndCanceled(a) \/ SettleCanceled(a)

Environment ==
    \/ \E m \in Members :
         \/ RunWorks(m[1], m[2]) \/ RunAsks(m[1], m[2]) \/ Release(m[1], m[2])
         \/ CancelRun(m[1], m[2])
         \/ \E state \in Endings, reply \in BOOLEAN :
              MemberRunEnds(m[1], m[2], state, reply)
    \/ \E a \in Participants : LoseEligibility(a)
    \/ SoftDeadline \/ DiscussionDeadline

WaveNext ==
    \/ Control
    \/ \E m \in Members : OnRunTerminal(m[1], m[2]) \/ OnRunInputRequired(m[1], m[2])
    \/ Expiry \/ \E m \in Members : ExpireThrows(m[1], m[2])
    \/ Planning
    \/ Crash \/ Restart \/ Recovery
    \/ Environment \/ WaveDeadline

WaveSpec == WaveInit /\ [][WaveNext]_waveVars

-----------------------------------------------------------------------------
(* Properties *)

(***************************************************************************)
(* At most one Wave is open, the last one.  Once Central serves, a         *)
(* Discussion that is at work has it and one that rests or has ended has   *)
(* not: no crash in the middle of a control leaves a Discussion active     *)
(* with nothing that could ever move it (recover, reconcileDiscussion).    *)
(***************************************************************************)
BarrierOrRest ==
    /\ OpenWaves \subseteq {Len(waves)}
    /\ pc.at = "up" =>
         /\ disc.state \in {"active", "stop_requested"} =>
              OpenWaves # {} /\ waves[Open].phase = "contribution"
         /\ disc.state = "finalizing" => OpenWaves # {} /\ waves[Open].phase = "finalization"
         /\ disc.state \in RestingStates \cup {"completed", "terminated"} => OpenWaves = {}

(***************************************************************************)
(* An Agent never has two Turns at work, although a quorum closes a Wave   *)
(* while late members of it still run (eligibleParticipantsForNextWave).   *)
(***************************************************************************)
OneLiveTurnPerAgent ==
    \A v, w \in DOMAIN waves :
      v # w => {a \in waves[v].members : Live(waves[v].turn[a])}
                 \cap {a \in waves[w].members : Live(waves[w].turn[a])} = {}

(***************************************************************************)
(* Every barrier is charged to the budget once, whichever callback, sweep  *)
(* or recovery applies it, and a Wave is open only within the lease and    *)
(* before the reserve: the finalization can always be paid for.            *)
(***************************************************************************)
ChargedOnce ==
    /\ disc.state # "canceled" =>
         disc.budget.used = Cardinality({w \in DOMAIN waves :
                               waves[w].phase = "contribution" /\ waves[w].state # "open"})
    /\ \A w \in OpenWaves : waves[w].phase = "contribution" =>
         disc.budget.used < disc.budget.lease /\ disc.budget.used < RegularTurnLimit
    /\ Len(waves) <= HardMax

(***************************************************************************)
(* What was decided from a Wave stays what the Wave says: a closed Wave,   *)
(* its seal and a settled Turn never change, late results of members       *)
(* outside the quorum included.                                            *)
(***************************************************************************)
SettledKept ==
    \A w \in DOMAIN waves :
      /\ w \in DOMAIN waves'
      /\ waves[w].state # "open" =>
           waves'[w].state = waves[w].state /\ waves'[w].sealed = waves[w].sealed
      /\ \A a \in waves[w].members :
           ~Live(waves[w].turn[a]) => waves'[w].turn[a] = waves[w].turn[a]

(***************************************************************************)
(* A Wave closed with members still at work is sealed with members that    *)
(* completed, enough of them, and with every role the mode requires.       *)
(***************************************************************************)
SealFaithful ==
    \A w \in DOMAIN waves :
      (waves[w].sealed # {}
         \/ (waves[w].state # "open" /\ \E a \in waves[w].members : Live(waves[w].turn[a])))
        => /\ waves[w].sealed \subseteq Completed(waves[w].turn)
           /\ Cardinality(waves[w].sealed) >= QuorumMin
           /\ RequiredRolesAvailable(waves[w].sealed)

(***************************************************************************)
(* However often planning is cut short and resumed, a Turn has one Run,    *)
(* and a Turn at work that has none is being bound (ensureRun).            *)
(***************************************************************************)
RunPerTurn ==
    \A w \in DOMAIN waves, a \in Participants :
      a \in waves[w].members =>
        /\ waves[w].run[a].made <= 1
        /\ pc.at = "up" /\ Live(waves[w].turn[a]) => waves[w].turn[a].bound

(***************************************************************************)
(* A Discussion is concluded once: a finalization is the last Wave, no     *)
(* Turn of it is ever taken back, and a Discussion that rests has none.    *)
(***************************************************************************)
FinalOnce ==
    \A w \in DOMAIN waves : waves[w].phase = "finalization" =>
      /\ w = Len(waves)
      /\ disc.state \in TerminalDiscussionStates \cup {"finalizing"}

(***************************************************************************)
(* The Result of a private participant enters the Discussion only when its *)
(* owner has released it, whether a callback, the sweep, the deadline or   *)
(* the recovery of a canceled Discussion settles the Turn.                 *)
(***************************************************************************)
PrivateReleased ==
    \A w \in DOMAIN waves : \A a \in waves[w].members \cap Private :
      waves[w].turn[a].state = "completed" =>
        waves[w].run[a].released /\ waves[w].phase = "contribution"

(***************************************************************************)
(* The barrier of a Discussion, whoever applies it: one open Wave or rest, *)
(* one Run for a Turn, one conclusion.                                     *)
(***************************************************************************)
BarrierKept == WaveTypeOK /\ BarrierOrRest /\ RunPerTurn /\ FinalOnce

(***************************************************************************)
(* A quorum closes a Wave with what the mode asks for, and the members it  *)
(* leaves behind are not asked again while they are at work.               *)
(***************************************************************************)
QuorumSound == SealFaithful /\ OneLiveTurnPerAgent

(***************************************************************************)
(* What a Discussion promises: its barrier, its quorum, a budget charged   *)
(* once a Wave and the privacy of its participants.                        *)
(***************************************************************************)
DiscussionKept == BarrierKept /\ QuorumSound /\ ChargedOnce /\ PrivateReleased

\* No step changes a closed Wave, its seal or a settled Turn, whatever arrives late.
SettledStays == [][SettledKept]_waveVars
=============================================================================
