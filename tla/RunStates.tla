------------------------------ MODULE RunStates ------------------------------
(***************************************************************************)
(* Vocabulary of one managed Run, shared by Central (TypeScript,           *)
(* apps/server/src/run) and by the Bridge (Go, bridge/internal/delivery):  *)
(* the Run states of Central, the states of the Bridge's inbox record, the *)
(* sequenced events and the messages of the Bridge WebSocket.              *)
(*                                                                         *)
(* The models follow ONE Run.  Other Runs of the same Device share only    *)
(* its connection and its execution gate with it, and both of these may    *)
(* behave in every way the other Runs can make them behave: the connection *)
(* may drop at any moment and the gate may keep the Run waiting.           *)
(***************************************************************************)
EXTENDS Naturals, Sequences

\* Central: no event is applied to a Run in one of these states.
terminalStates == {"completed", "failed", "canceled", "expired", "outcome_unknown"}

RunState == {"queued", "delivered", "working", "input_required"} \cup terminalStates

\* "reply" stands for the three event types that carry content and leave the
\* Run's state alone: run.reply, run.activity and run.output_delta.
EventKind == RunState \cup {"reply"}

\* Bridge: the persisted result of an execution is authoritative from here on.
isTerminalState ==
  {"input_required", "completed", "failed", "canceled", "outcome_unknown"}

\* Bridge: no cancellation can change the record any more.
isCancellationTerminalState ==
  {"completed", "failed", "canceled", "outcome_unknown"}

\* "none": the inbox holds no record of the Run.
InboxState == {"none", "preparing", "accepted", "working"} \cup isTerminalState

(* Bridge to Central.  An event is identified by its sequence number.      *)
Hello     == [seq |-> 0, kind |-> "hello"]
Accepted  == [seq |-> 1, kind |-> "delivered"]
\* cancellationTombstoneStatus: "canceled" for a Run the inbox never recorded.
TombstoneStatus == [seq |-> 1, kind |-> "canceled"]

UpMessage == [seq : Nat, kind : EventKind \cup {"hello"}]

(* Central to Bridge. *)
DownMessage == {"run.requested", "run.cancel_requested"}
=============================================================================
