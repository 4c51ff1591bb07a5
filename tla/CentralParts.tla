---------------------------- MODULE CentralParts ----------------------------
(***************************************************************************)
(* Parts of Central beside the Runs that run side by side in one server    *)
(* and share no variable: the pairing of Devices (DevicePairing), a remote *)
(* provider (RemoteProvider) and the rolling memory of Rooms               *)
(* (RollingMemory).                                                        *)
(***************************************************************************)
EXTENDS DevicePairing, RemoteProvider, RollingMemory

\* Devices pair, the workers of the rolling memory lease and providers are called in no
\* order.
CentralSpec == Spec /\ RollingSpec /\ RemoteSpec

\* No worker loses a lease that still runs to another worker (acquireLease,
\* recordFailure), no call that waited retains or adopts anything under a binding
\* revoked meanwhile (the triggers of 0078 and 0082), and a canceled pairing installs
\* nothing while a pairing a Bridge has is not lost (finishEnrollment,
\* installReEnrollmentLocked).
CentralStepsKept ==
  [][/\ [CanceledNeverInstalls /\ PairingKept]_vars
     /\ [LeaseSafe]_rollingVars
     /\ [RevokedNoEvidence]_remoteVars]_<<vars, rollingVars, remoteVars>>
=============================================================================
