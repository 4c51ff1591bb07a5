----------------------------- MODULE RunLineage -----------------------------
(***************************************************************************)
(* The lineage of hand-offs between Runs, as HandoffService walks it, for  *)
(* a sequence of Runs with an agent, the message that triggered them and a *)
(* parent: the earlier Run that handed the work on, or None.               *)
(***************************************************************************)
EXTENDS Naturals, FiniteSets

CONSTANT None

\* The Runs from r up to the Run a message or a retry made.
Lineage(runs, r) ==
    LET up[q \in DOMAIN runs] ==
          IF runs[q].parent = None THEN {q} ELSE {q} \cup up[runs[q].parent]
    IN  up[r]

LineageAgents(runs, r) == {runs[q].agent : q \in Lineage(runs, r)}

maximumUniqueAgents == 5

\* What createChild asks of the lineage of the parent: its depth, that the
\* Agent is not in it yet, and the number of Agents in it.
LineageAllows(runs, parent, agent, maxDepth) ==
    /\ Cardinality(Lineage(runs, parent)) - 1 < maxDepth
    /\ agent \notin LineageAgents(runs, parent)
    /\ Cardinality(LineageAgents(runs, parent)) < maximumUniqueAgents

\* The UNIQUE (trigger_message_id, target_agent_id) constraint of runs.
TriggerFree(runs, trigger, agent) ==
    \A r \in DOMAIN runs : runs[r].trigger = trigger => runs[r].agent # agent
=============================================================================
