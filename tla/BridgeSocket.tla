----------------------------- MODULE BridgeSocket -----------------------------
(***************************************************************************)
(* The WebSocket between one Bridge and Central: connection epochs, the    *)
(* registry of the Device's current connection (BridgeConnectionRegistry)  *)
(* and the bytes in flight.                                                *)
(*                                                                         *)
(* Every dial of the Bridge takes the next durable epoch and a socket of   *)
(* its own.  A socket is FIFO in each direction; what is in flight when    *)
(* the socket is torn down may still arrive or be lost, and bytes of an    *)
(* older socket may reach Central after a newer one has registered.        *)
(***************************************************************************)
EXTENDS RunStates, Integers

CONSTANTS
  MaxEpoch,   \* bound: number of connections the Bridge makes
  MaxDown     \* bound: commands in flight from Central to the Bridge

ASSUME EpochAssumption == MaxEpoch \in Nat \ {0}
ASSUME DownAssumption == MaxDown \in Nat /\ MaxDown >= 2

Epochs == 1 .. MaxEpoch

VARIABLES
  epoch,   \* Bridge, durable: the last connection epoch taken
  conn,    \* Bridge: "down", "up", "failing" (an error was reported), or "closing"
           \* (the context is canceled, reader and workers are waited for)
  sk,      \* Central: state of the socket of each epoch
  reg,     \* Central, volatile: epoch registered for the Device, 0 if none
  up,      \* in flight, Bridge to Central, per socket
  down     \* in flight, Central to Bridge, on the Bridge's current socket

socketVars == <<epoch, conn, sk, reg, up, down>>

\* "open": dialed; "registered": hello accepted; "draining": Central has called
\* close() but goes on receiving frames; "closed": Central saw the close event.
SocketState == {"none", "open", "registered", "draining", "closed"}

LiveSocket == {"open", "registered", "draining"}

SocketTypeOK ==
  /\ epoch \in 0 .. MaxEpoch
  /\ conn \in {"down", "up", "failing", "closing"}
  /\ sk \in [Epochs -> SocketState]
  /\ reg \in 0 .. MaxEpoch
  /\ up \in [Epochs -> Seq(UpMessage)]
  /\ down \in Seq(DownMessage)

SocketInit ==
  /\ epoch = 0
  /\ conn = "down"
  /\ sk = [e \in Epochs |-> "none"]
  /\ reg = 0
  /\ up = [e \in Epochs |-> << >>]
  /\ down = << >>

\* The value of up after the Bridge wrote msgs to its current socket.
Written(msgs) ==
  IF epoch \in Epochs /\ sk[epoch] \in LiveSocket
  THEN [up EXCEPT ![epoch] = @ \o msgs]
  ELSE up

\* The value of down after BridgeConnectionRegistry.send of msgs on the socket
\* registered as r; a socket the Bridge has left, or Central is closing, loses them.
Sent(r, s, msgs) ==
  IF r # 0 /\ r = epoch /\ conn = "up" /\ s[r] = "registered"
  THEN down \o msgs
  ELSE down

\* The last connection of the bounded behaviour is the stable one.
MayBreak(e) == e < MaxEpoch

\* Central receives the close event of socket e: what was in flight is lost.
SeesClose(e) ==
  /\ sk[e] \in LiveSocket
  /\ MayBreak(e) \/ sk[e] = "draining"
  /\ sk' = [sk EXCEPT ![e] = "closed"]
  /\ up' = [up EXCEPT ![e] = << >>]
  /\ reg' = IF reg = e THEN 0 ELSE reg
  /\ UNCHANGED <<epoch, conn, down>>

\* The Bridge's reader fails and reads no more, or a heartbeat cannot be written.
Drop ==
  /\ conn = "up"
  /\ MayBreak(epoch) \/ sk[epoch] \in {"draining", "closed"}
  /\ conn' = "failing"
  /\ down' \in {down, << >>}
  /\ UNCHANGED <<epoch, sk, reg, up>>

\* A worker or the reader of the Bridge ended; its error ends the connection.
Ends(ok) ==
  conn' = IF ok \/ conn # "up" THEN conn ELSE "failing"

\* connectOnce returns with the first error: its deferred cancelConnection.
CancelConnection ==
  /\ conn = "failing"
  /\ conn' = "closing"
  /\ UNCHANGED <<epoch, sk, reg, up, down>>
=============================================================================
