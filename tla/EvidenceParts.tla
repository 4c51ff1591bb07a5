--------------------------- MODULE EvidenceParts ---------------------------
(***************************************************************************)
(* The evidence a governed Run leaves behind: the integration of its        *)
(* candidate (Integration), the verification of its work (Verification)    *)
(* and the publication of its Artifacts (ArtifactPublication), which share  *)
(* no variable.                                                            *)
(***************************************************************************)
EXTENDS Integration, Verification, ArtifactPublication

\* Verifiers and publishers step in no order.
CollectionSpec == VerifySpec /\ PublishSpec

\* A verifier starts only under a grant that stands and never again once its end is
\* journaled (VerifyCaptured, runVerification), and an upload never goes backwards, nor
\* leaves the state it has settled in, whatever arrives late (advanceReceived, seal, bind).
EvidenceStepsKept ==
  [][/\ [StartsAuthorized]_verifyVars
     /\ [NeverBackwards]_publishVars]_<<verifyVars, publishVars>>
=============================================================================
