------------------------------- MODULE MCPeers -------------------------------
(* Two Centrals as peers, on small instances: joining and leaving ("join"), a  *)
(* Run at the other side ("run"), an Agent exported again and again            *)
(* ("exports"), its scope over two Rooms ("scopes"), and the Participant's     *)
(* core restarted with another configuration ("restarts"). The constants of   *)
(* peers.cfg bound the three parts about exports.                              *)
EXTENDS PeerParts, TLC

CONSTANTS o1, o2, e1, s1, s2, r1, r2, c1, c2

VARIABLE part

Exports == INSTANCE PeerExport WITH
    Rooms <- {r1}, Configs <- {c1}, MaxTrust <- 0, MaxEpochs <- 0

Scopes == INSTANCE PeerExport WITH
    Configs <- {c1}, MaxAccepts <- 1, MaxTrust <- 0, MaxLapses <- 0, MaxEpochs <- 0

Restarts == INSTANCE PeerExport WITH
    Rooms <- {r1}, MaxAccepts <- 1, MaxLapses <- 0, MaxRevokes <- 0

PartInit ==
    /\ JoinInit /\ Init
    /\ \/ part \in {"join", "run", "exports"} /\ Exports!ExportInit
       \/ part = "scopes" /\ Scopes!ExportInit
       \* Nothing orders configurations: which of the two runs first does not matter.
       \/ part = "restarts" /\ Restarts!ExportInit /\ cfg = c1

PartNext ==
    /\ \/ part = "join" /\ JoinNext /\ UNCHANGED <<vars, exportVars>>
       \/ part = "run" /\ Next /\ UNCHANGED <<joinVars, exportVars>>
       \/ part = "exports" /\ Exports!ExportNext /\ UNCHANGED <<joinVars, vars>>
       \/ part = "scopes" /\ Scopes!ExportNext /\ UNCHANGED <<joinVars, vars>>
       \/ part = "restarts" /\ Restarts!ExportNext /\ UNCHANGED <<joinVars, vars>>
    /\ UNCHANGED part

allVars == <<part, joinVars, vars, exportVars>>

PartSpec == PartInit /\ [][PartNext]_allVars

\* The two Rooms occur in "scopes" only, and nothing orders them.
Symmetry == Permutations({r1, r2})
=============================================================================
