------------------------------- MODULE MCTasks -------------------------------
(* The work of a Task and the routing of replies, on small instances. They    *)
(* share no state here, so a behaviour is one of a Task under its Owner       *)
(* ("owner", the module this one extends, with the constants of tasks.cfg),   *)
(* of a Task that older clients PATCH ("patch"), of the attempts and          *)
(* hand-offs of several Agents ("attempts"), or of the routing of replies     *)
(* ("replies"): part says which, and the rest stays as it was.                *)
EXTENDS TaskWork

CONSTANTS a1, a2, a3, op1, op2

VARIABLES part, task2, runs2, acked2, results2,
          chain, intents, dispatched, workers, phase, faults

copyVars == <<task2, runs2, acked2, results2>>
replyVars == <<chain, intents, dispatched, workers, phase, faults>>

Patched == INSTANCE TaskWork WITH
    Agents <- {a1}, Operations <- {op1}, AllowAgentMentions <- FALSE, MaxMentionDepth <- 1,
    CompatibilityPatch <- TRUE, MaxRuns <- 1, MaxResults <- 2, MaxRevision <- 5,
    MaxAttempts <- 1, task <- task2, runs <- runs2, acked <- acked2, results <- results2

Attempts == INSTANCE TaskWork WITH
    Agents <- {a1, a2}, Operations <- {op1, op2}, AllowAgentMentions <- TRUE,
    MaxMentionDepth <- 1, CompatibilityPatch <- FALSE, MaxRuns <- 3, MaxResults <- 0,
    MaxRevision <- 2, MaxAttempts <- 2,
    task <- task2, runs <- runs2, acked <- acked2, results <- results2

Replies == INSTANCE ReplyRouting WITH
    Agents <- {a1, a2, a3}, MaxMentionDepth <- 2, MaxRuns <- 4, MaxReplies <- 2,
    MaxFaults <- 2, runs <- chain

ASSUME
    /\ Patched!TaskWorkAssumption /\ Attempts!TaskWorkAssumption
    /\ Replies!ReplyRoutingAssumption

\* The row of a Task nobody works on.
Untouched(t) ==
    t.assigned = {} /\ t.lifecycle = "draft" /\ t.policy = "owner_confirmed"

PartInit ==
    /\ part \in {"owner", "patch", "attempts", "replies"}
    /\ Init /\ (part # "owner" => Untouched(task))
    /\ \/ part \in {"owner", "replies"} /\ Patched!Init /\ Untouched(task2)
       \/ part = "patch" /\ Patched!Init
       \/ part = "attempts" /\ Attempts!Init
    /\ Replies!Init
    /\ part # "replies" => chain[1].agent = a1 /\ ~chain[1].discussion

PartNext ==
    /\ \/ part = "owner" /\ Next /\ UNCHANGED <<copyVars, replyVars>>
       \/ part = "patch" /\ Patched!Next /\ UNCHANGED <<vars, replyVars>>
       \/ part = "attempts" /\ Attempts!Next /\ UNCHANGED <<vars, replyVars>>
       \/ part = "replies" /\ Replies!Next /\ UNCHANGED <<vars, copyVars>>
    /\ UNCHANGED part

\* No fair action of the routing is enabled before the first reply.
PartSpec ==
    /\ PartInit /\ [][PartNext]_<<part, vars, copyVars, replyVars>>
    /\ Replies!Fairness

-----------------------------------------------------------------------------
\* What a Task promises holds under the PATCH of older clients and with hand-offs between
\* Agents too, except for TerminalTaskSettled; chains of hand-offs end; and a reply's
\* hand-offs are neither lost nor made twice (routeAgentReplyMentions,
\* completeReplyRoutingIntent), whatever crashes, failing dispatches and second workers of
\* the same Run come between.
HandoffsSound ==
    /\ part = "patch" => Patched!TaskKept
    /\ part = "attempts" => Attempts!TaskKept /\ Attempts!HandoffsEnd
    /\ Replies!TypeOK /\ Replies!NothingLost /\ Replies!NothingTwice

\* A reply whose routing was cut short is routed in the end (startup recovery).
RoutedAfterRestart == Replies!RoutedAfterRestart
=============================================================================
