----------------------------- MODULE MCEvidence -----------------------------
(* The evidence a governed Run leaves, on small instances: the integration   *)
(* of its candidate into a branch its owner moves on and back ("integrate"),  *)
(* the capture and verification of its work, which its caller may repeat      *)
(* ("verify"), the publication of its Artifacts by two publishers of one      *)
(* publication ("publish"), these three of the module this one extends, with  *)
(* the constants of evidence.cfg, and two publications of one content         *)
(* ("shared") and of two contents under a quota ("quota").                    *)
EXTENDS EvidenceParts

CONSTANTS n1, o1, o2, t1, base, x, p1, p2, c1, c2, k1, k2, d1, d2

VARIABLE part

OneNode == {n1}
TwoOps == {o1, o2}
OneTarget == [n \in OneNode |-> t1]
ExpectedCommit == [n \in OneNode |-> base]
SealedCandidate == [n \in OneNode |-> c1]
TwoProfiles == <<p1, p2>>
Second == {p2}
Two == {c1, c2}
OneKey == [c \in Two |-> k1]
TwoKeys == [c \in Two |-> IF c = c1 THEN k1 ELSE k2]
OneContent == [k \in {k1} |-> d1]
SameContent == [k \in {k1, k2} |-> d1]
TwoContents == [k \in {k1, k2} |-> IF k = k1 THEN d1 ELSE d2]
SizeOne == [d \in {d1} |-> 2]
SizeTwo == [d \in {d1, d2} |-> 2]

Shared == INSTANCE ArtifactPublication WITH
    Keys <- {k1, k2}, KeyOf <- TwoKeys, ContentOf <- SameContent, ChunkBytes <- 2,
    CaptureKeys <- {k2}, MaxStarts <- 2

Quota == INSTANCE ArtifactPublication WITH
    Keys <- {k1, k2}, Contents <- {d1, d2}, KeyOf <- TwoKeys, ContentOf <- TwoContents,
    Size <- SizeTwo, ChunkBytes <- 2, MaxBytes <- 3, MaxStarts <- 2, Late <- FALSE

PartInit ==
    /\ \/ part \in {"integrate", "verify", "publish"} /\ PublishInit
       \/ part = "shared" /\ Shared!PublishInit
       \/ part = "quota" /\ Quota!PublishInit
    /\ VerifyInit
    /\ Init /\ (part # "integrate" => checkedOut = {})

PartNext ==
    /\ \/ part = "integrate" /\ Next /\ UNCHANGED <<verifyVars, publishVars>>
       \/ part = "verify" /\ VerifyNext /\ UNCHANGED <<vars, publishVars>>
       \/ part = "publish" /\ PublishNext /\ UNCHANGED <<vars, verifyVars>>
       \/ part = "shared" /\ Shared!PublishNext /\ UNCHANGED <<vars, verifyVars>>
       \/ part = "quota" /\ Quota!PublishNext /\ UNCHANGED <<vars, verifyVars>>
    /\ UNCHANGED part

partVars == <<part, vars, verifyVars, publishVars>>

PartSpec == PartInit /\ [][PartNext]_partVars

-----------------------------------------------------------------------------
\* Completed work is captured, a receipt is the journaled end of a process, and a verified
\* output rests on processes that really passed. A content with a row has its whole blob,
\* acknowledged bytes are stored, one publication is one Artifact and the quota holds,
\* whoever shares bytes and whatever crashes.
EvidenceWhole ==
    /\ VerificationTrue
    /\ part = "publish" => PublicationTrue
    /\ part = "shared" => Shared!PublicationTrue
    /\ part = "quota" => Quota!QuotaHeld
=============================================================================
