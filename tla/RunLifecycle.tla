----------------------------- MODULE RunLifecycle -----------------------------
(***************************************************************************)
(* What a Run promises to the Room that watches it, without queues,        *)
(* sockets, inboxes and recoveries: an execution that begins at most once  *)
(* and a verdict that is given at most once.                               *)
(*   - completed is said of an execution that took place and is over;      *)
(*   - canceled is said only when nothing executes and nothing ever will.  *)
(* The other verdicts (failed, expired, outcome_unknown) promise nothing   *)
(* about the execution: Central may give up on a Run it cannot see.        *)
(***************************************************************************)

VARIABLES
  exec,     \* "idle", "running", or "over": never (again) to run
  ran,      \* the execution has begun
  verdict   \* "open", or the terminal state shown to the Room

lifecycleVars == <<exec, ran, verdict>>

Init ==
  /\ exec = "idle"
  /\ ran = FALSE
  /\ verdict = "open"

Start ==
  /\ exec = "idle"
  /\ ~ran
  /\ exec' = "running"
  /\ ran' = TRUE
  /\ UNCHANGED verdict

End ==
  /\ exec = "running"
  /\ exec' = "over"
  /\ UNCHANGED <<ran, verdict>>

Complete ==
  /\ verdict = "open"
  /\ exec = "over" /\ ran
  /\ verdict' = "completed"
  /\ UNCHANGED <<exec, ran>>

Cancel ==
  /\ verdict = "open"
  /\ exec # "running"
  /\ exec' = "over"
  /\ verdict' = "canceled"
  /\ UNCHANGED ran

GiveUp ==
  /\ verdict = "open"
  /\ verdict' \in {"failed", "expired", "outcome_unknown"}
  /\ UNCHANGED <<exec, ran>>

Next == Start \/ End \/ Complete \/ Cancel \/ GiveUp

Spec == Init /\ [][Next]_lifecycleVars
=============================================================================
