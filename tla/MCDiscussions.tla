---------------------------- MODULE MCDiscussions ----------------------------
(* Discussions on small instances. part says under which policy the behaviour *)
(* runs: two participants of whom one keeps its output to its owner, with     *)
(* controls, crashes and questions ("private", the module this one extends,   *)
(* with the constants of discussions.cfg); and, over a second set of          *)
(* variables, two participants that share everything and may lose their       *)
(* eligibility ("shared"), three participants and Waves that a quorum of two  *)
(* closes ("quorum"), or closes only with the reviewer ("review").            *)
EXTENDS DiscussionWave

CONSTANTS a1, a2, a3

VARIABLES part, disc2, waves2, eligible2, clock2, pc2, left2

copyVars == <<disc2, waves2, eligible2, clock2, pc2, left2>>

TwoAgents == <<a1, a2>>

Shared == INSTANCE DiscussionWave WITH
    HardMax <- 3, Private <- {}, Endings <- {}, MaxLosses <- 1,
    disc <- disc2, waves <- waves2, eligible <- eligible2, clock <- clock2, pc <- pc2, left <- left2

Quorate == INSTANCE DiscussionWave WITH
    Roster <- <<a1, a2, a3>>, Private <- {}, QuorumMin <- 2, MaxAsks <- 0, Lasting <- FALSE,
    disc <- disc2, waves <- waves2, eligible <- eligible2, clock <- clock2, pc <- pc2, left <- left2

Reviewed == INSTANCE DiscussionWave WITH
    Roster <- <<a1, a2, a3>>, ReviewMode <- TRUE, RequireReviewer <- TRUE, Private <- {},
    QuorumMin <- 2, MaxControls <- 0, MaxAsks <- 0,
    disc <- disc2, waves <- waves2, eligible <- eligible2, clock <- clock2, pc <- pc2, left <- left2

ASSUME
    /\ Shared!DiscussionPolicyAssumption /\ Shared!DiscussionWaveAssumption
    /\ Quorate!DiscussionPolicyAssumption /\ Quorate!DiscussionWaveAssumption
    /\ Reviewed!DiscussionPolicyAssumption /\ Reviewed!DiscussionWaveAssumption

PartInit ==
    /\ WaveInit
    /\ \/ part \in {"private", "shared"} /\ Shared!WaveInit
       \/ part = "quorum" /\ Quorate!WaveInit
       \/ part = "review" /\ Reviewed!WaveInit

PartNext ==
    /\ \/ part = "private" /\ WaveNext /\ UNCHANGED copyVars
       \/ part = "shared" /\ Shared!WaveNext /\ UNCHANGED waveVars
       \/ part = "quorum" /\ Quorate!WaveNext /\ UNCHANGED waveVars
       \/ part = "review" /\ Reviewed!WaveNext /\ UNCHANGED waveVars
    /\ UNCHANGED part

PartSpec == PartInit /\ [][PartNext]_<<part, waveVars, copyVars>>

-----------------------------------------------------------------------------
\* What a Discussion promises holds under the other policies too: with participants that
\* come to be ineligible, with a quorum that closes a Wave over members at work
\* (quorumSealIfReady, eligibleParticipantsForNextWave), and with a reviewer it needs.
PoliciesKept ==
    /\ part = "shared" => Shared!DiscussionKept
    /\ part = "quorum" => Quorate!DiscussionKept
    /\ part = "review" => Reviewed!DiscussionKept
=============================================================================
