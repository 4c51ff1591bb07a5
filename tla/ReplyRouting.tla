---------------------------- MODULE ReplyRouting ----------------------------
(***************************************************************************)
(* From the reply of an Agent to the Runs of the Agents it mentions.  One  *)
(* transaction stores the reply with a routing intent; a worker of Central *)
(* then creates a child Run for each mentioned Agent, dispatches the       *)
(* children and marks the intent completed.  Workers of several replies    *)
(* run at the same time, a dispatch can throw, and Central can stop        *)
(* between any two of these steps; at startup it routes every intent still *)
(* pending before it serves anything.                                      *)
(***************************************************************************)
EXTENDS Naturals, Sequences, FiniteSets, RunLineage

CONSTANTS
    Agents,
    MaxMentionDepth,    \* the Room policy
    MaxRuns,            \* bound: Runs
    MaxReplies,         \* bound: replies of all Runs
    MaxFaults           \* bound: crashes and failing dispatches

ReplyRoutingAssumption ==
    /\ {MaxMentionDepth, MaxRuns, MaxReplies, MaxFaults} \subseteq Nat
    /\ Cardinality(Agents) < MaxRuns      \* one Run of each Agent, and room

VARIABLES
    runs,       \* Runs in the order they were created
    intents,    \* run_reply_routing_intents, in the order of the replies
    dispatched, \* Runs handed to the delivery or the executor of their Agent
    workers,    \* routeAgentReplyMentions calls that have not returned
    phase,      \* of Central: "serving", "recovering" or "down"
    faults

vars == <<runs, intents, dispatched, workers, phase, faults>>

\* A worker handles the intents it found pending when it began, in order; of the
\* first one it has still to create `create` and to dispatch `send`.
Workers == [run : 1..MaxRuns, queue : Seq(1..MaxReplies), begun : BOOLEAN,
            create : Seq(Agents), send : Seq(1..MaxRuns)]

TypeOK ==
    /\ runs \in Seq([agent : Agents, trigger : 1..MaxRuns, parent : 1..MaxRuns \cup {None},
                     discussion : BOOLEAN])
    /\ intents \in Seq([run : DOMAIN runs, mentions : Seq(Agents), state : {"pending", "completed"}])
    /\ dispatched \subseteq DOMAIN runs
    /\ workers \subseteq Workers
    /\ phase \in {"serving", "recovering", "down"}
    /\ phase = "recovering" => Cardinality(workers) <= 1
    /\ faults \in 0..MaxFaults

\* A member's message started the first Run, for an Agent or for a Discussion turn.
Init ==
    /\ \E agent \in Agents, discussion \in BOOLEAN :
         runs = <<[agent |-> agent, trigger |-> 1, parent |-> None, discussion |-> discussion]>>
    /\ intents = <<>> /\ dispatched = {1} /\ workers = {}
    /\ phase = "serving" /\ faults = 0

-----------------------------------------------------------------------------
\* listPendingReplyRoutingIntents(run)
PendingOf(run) ==
    SelectSeq([i \in DOMAIN intents |-> i],
              LAMBDA i : intents[i].run = run /\ intents[i].state = "pending")

\* A worker that starts on the intents pending for run.
NewWorker(run, queue) ==
    [run |-> run, queue |-> queue, begun |-> FALSE, create |-> <<>>, send |-> <<>>]

Without(w) == workers \ {w}

\* applyReply: the reply event, its message and the intent are one transaction;
\* routing starts in the same turn of the event loop.
Reply(run, mentions) ==
    /\ phase = "serving"
    /\ run \in dispatched
    /\ Len(intents) < MaxReplies
    /\ intents' = Append(intents, [run |-> run, mentions |-> mentions, state |-> "pending"])
    /\ workers' = workers \cup {NewWorker(run, Append(PendingOf(run), Len(intents) + 1))}
    /\ UNCHANGED <<runs, dispatched, phase, faults>>

\* The loop of routeAgentReplyMentions turns to the next intent; a Run of a
\* Discussion turn has nothing to create.
BeginIntent(w) ==
    /\ w.queue # <<>> /\ ~w.begun
    /\ workers' = Without(w) \cup
         {[w EXCEPT !.begun = TRUE,
                    !.create = IF runs[w.run].discussion THEN <<>>
                               ELSE intents[Head(w.queue)].mentions]}
    /\ UNCHANGED <<runs, intents, dispatched, phase, faults>>

\* The child of w.run for this Agent, made by this reply or by an earlier one.
ChildrenFor(w, agent) ==
    {r \in DOMAIN runs : runs[r].parent = w.run /\ runs[r].agent = agent}

\* Mutant: nothing keeps an Agent from a second Run for the trigger.
CreateChildAgain(w) ==
    /\ w.create # <<>>
    /\ Len(runs) < MaxRuns
    /\ runs' = Append(runs, [agent |-> Head(w.create), trigger |-> runs[w.run].trigger,
                             parent |-> w.run, discussion |-> FALSE])
    /\ workers' = Without(w) \cup {[w EXCEPT !.create = Tail(@),
                                            !.send = Append(@, Len(runs) + 1)]}
    /\ UNCHANGED <<intents, dispatched, phase, faults>>

\* createFromReply for the next mentioned Agent: a new child; or the child that
\* exists; or, past the bounds of the lineage or with the Agent already at work
\* on the same trigger, nothing.
CreateChild(w) ==
    LET agent == Head(w.create)
        free  == /\ LineageAllows(runs, w.run, agent, MaxMentionDepth)
                 /\ TriggerFree(runs, runs[w.run].trigger, agent)
        child == IF free THEN {Len(runs) + 1} ELSE ChildrenFor(w, agent)
    IN  /\ w.create # <<>>
        /\ Len(runs) < MaxRuns
        /\ runs' = IF free
                   THEN Append(runs, [agent |-> agent, trigger |-> runs[w.run].trigger,
                                      parent |-> w.run, discussion |-> FALSE])
                   ELSE runs
        /\ \E send \in IF child = {} THEN {w.send} ELSE {Append(w.send, c) : c \in child} :
             workers' = Without(w) \cup {[w EXCEPT !.create = Tail(@), !.send = send]}
        /\ UNCHANGED <<intents, dispatched, phase, faults>>

\* await dispatchRun(child)
DispatchChild(w) ==
    /\ w.create = <<>> /\ w.send # <<>>
    /\ dispatched' = dispatched \cup {Head(w.send)}
    /\ workers' = Without(w) \cup {[w EXCEPT !.send = Tail(@)]}
    /\ UNCHANGED <<runs, intents, phase, faults>>

\* completeReplyRoutingIntent, and the next intent of the loop.
CompleteIntent(w) ==
    /\ w.begun /\ w.create = <<>> /\ w.send = <<>>
    /\ intents' = [intents EXCEPT ![Head(w.queue)].state = "completed"]
    /\ workers' = IF Len(w.queue) = 1 THEN Without(w)
                  ELSE Without(w) \cup {NewWorker(w.run, Tail(w.queue))}
    /\ UNCHANGED <<runs, dispatched, phase, faults>>

\* A dispatch throws: the worker ends, and the intent stays pending.  While
\* Central starts, the exception ends the startup.
DispatchFails(w) ==
    /\ w.create = <<>> /\ w.send # <<>>
    /\ faults < MaxFaults
    /\ workers' = Without(w)
    /\ phase' = IF phase = "recovering" THEN "down" ELSE phase
    /\ faults' = faults + 1
    /\ UNCHANGED <<runs, intents, dispatched>>

Crash ==
    /\ phase # "down"
    /\ faults < MaxFaults
    /\ phase' = "down"
    /\ workers' = {}
    /\ faults' = faults + 1
    /\ UNCHANGED <<runs, intents, dispatched>>

Restart ==
    /\ phase = "down"
    /\ phase' = "recovering"
    /\ UNCHANGED <<runs, intents, dispatched, workers, faults>>

\* Mutant: startup leaves the pending intents alone.
RecoverNothing ==
    /\ phase = "recovering"
    /\ phase' = "serving"
    /\ UNCHANGED <<runs, intents, dispatched, workers, faults>>

\* Startup routes the Runs with pending intents one after the other, awaiting
\* each, and then serves.
Recover ==
    /\ phase = "recovering" /\ workers = {}
    /\ LET pending == {intents[i].run : i \in {j \in DOMAIN intents : intents[j].state = "pending"}}
       IN  IF pending = {}
           THEN phase' = "serving" /\ UNCHANGED workers
           ELSE /\ \E run \in pending : workers' = {NewWorker(run, PendingOf(run))}
                /\ UNCHANGED phase
    /\ UNCHANGED <<runs, intents, dispatched, faults>>

-----------------------------------------------------------------------------
MaxMentions == 2    \* bound: Agents one reply mentions
\* A reply may mention any Agent but its author, each once.
Mentions(run) ==
    {s \in UNION {[1..n -> Agents \ {runs[run].agent}] : n \in 0..MaxMentions} :
       \A i, j \in DOMAIN s : s[i] = s[j] => i = j}

WorkerStep(w) ==
    BeginIntent(w) \/ CreateChild(w) \/ DispatchChild(w) \/ CompleteIntent(w)

Next ==
    \/ \E run \in DOMAIN runs : \E mentions \in Mentions(run) : Reply(run, mentions)
    \/ \E w \in workers : WorkerStep(w) \/ DispatchFails(w)
    \/ Crash \/ Restart \/ Recover

\* The event loop runs every worker on, and Central is restarted when it is down.
Fairness ==
    /\ WF_vars(\E w \in workers : WorkerStep(w))
    /\ WF_vars(Restart) /\ WF_vars(Recover)

Spec == Init /\ [][Next]_vars /\ Fairness

-----------------------------------------------------------------------------
(* Properties *)

\* When an intent is completed, each Agent the reply mentions and the lineage
\* allows has a Run on the trigger, and the child of this Run was dispatched:
\* no crash, failing dispatch or second worker loses a hand-off.
NothingLost ==
    \A i \in DOMAIN intents : \A k \in DOMAIN intents[i].mentions :
      LET run == intents[i].run
          agent == intents[i].mentions[k]
      IN  /\ intents[i].state = "completed" /\ ~runs[run].discussion
          /\ LineageAllows(runs, run, agent, MaxMentionDepth)
          => \E r \in DOMAIN runs :
               /\ runs[r].trigger = runs[run].trigger /\ runs[r].agent = agent
               /\ runs[r].parent = run => r \in dispatched

\* Routing a reply again after a restart, or in two workers at once, never makes
\* a second Run of an Agent for the same trigger, and a Discussion turn makes none.
NothingTwice ==
    \A q, r \in DOMAIN runs :
      /\ runs[q].trigger = runs[r].trigger /\ runs[q].agent = runs[r].agent => q = r
      /\ runs[r].parent = q => ~runs[q].discussion

\* A reply whose routing was cut short by a crash or a failing dispatch is routed
\* in the end once Central has stopped and starts again, even if the startup
\* itself fails a few times.
RoutedAfterRestart ==
    \A i \in 1..MaxReplies :
      (phase = "down" /\ i \in DOMAIN intents) ~>
        (i \in DOMAIN intents /\ intents[i].state = "completed")
=============================================================================
