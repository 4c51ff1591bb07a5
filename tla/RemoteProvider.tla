--------------------------- MODULE RemoteProvider ---------------------------
(***************************************************************************)
(* Central and a remote provider: the evidence Central retains of it       *)
(* (RemoteEvidence) and the requests by which Central asks for it          *)
(* (RemoteEgress).  Every answer, error or timeout of a call of the        *)
(* evidence may come of any course of its requests, so the two run side by *)
(* side and share no variable.                                             *)
(***************************************************************************)
EXTENDS RemoteEvidence, RemoteEgress

\* Either side takes its steps; what the calls and the requests do is in no order.
ProviderSpec == RemoteSpec /\ EgressSpec

\* Evidence is retained once, as the provider holds it; an adoption rests on passing
\* records and the scheduler never runs its node; a request goes only to an allowed address
\* and leaves no unused socket (retainCommit, retainCI, adoptVerified, existingAttempt,
\* connectPinnedSocket).
RemoteSound == RemoteEvidenceTrue /\ EgressTrue
=============================================================================
