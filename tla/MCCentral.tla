------------------------------ MODULE MCCentral ------------------------------
(* Parts of Central beside the Runs, on small instances: the pairing of a    *)
(* Device over a session, a join request and a code ("pair"), evidence       *)
(* observed at a remote provider of a node with inputs ("evidence"), the     *)
(* requests sent to it ("egress") and the rolling memory of a Room           *)
(* ("rolling"), of the module this one extends, with the constants of        *)
(* central.cfg, and the long-term memory of a Room ("memory").               *)
EXTENDS CentralParts, TLC

CONSTANTS s1, j1, i1, b1, b2, a1, a2, w1, w2, m1, u1, e1,
          c1, c2, k1, ci1, at1, d1, x, r1, g1, g2, g3, g4

VARIABLES part,
    revision, entries, events, candidate, fence, seen, planned, cursor, known

memoryVars == <<revision, entries, events, candidate, fence, seen, planned, cursor, known>>

Bytes4 == [n \in 1..4 |-> IF n = 2 THEN 2 ELSE 1]
Source == [o \in {ci1, at1} |-> k1]
Check == [o \in {ci1} |-> x]

Memory == INSTANCE MemoryEntries WITH
    Scopes <- {m1}, Candidates <- {e1}, Runs <- {u1}, Priorities <- {0, 1}, ActiveLimit <- 2,
    TombstoneLimit <- 1, PageLimit <- 1, MaxEntries <- 3, view <- known

ASSUME Memory!LimitsAssumption

PartInit ==
    /\ part \in {"pair", "rolling", "memory", "evidence", "egress"}
    /\ Init /\ RollingInit /\ Memory!Init /\ RemoteInit /\ EgressInit

PartNext ==
    /\ \/ /\ part = "pair" /\ Next
          /\ UNCHANGED <<rollingVars, memoryVars, remoteVars, egressVars>>
       \/ /\ part = "rolling" /\ RollingNext
          /\ UNCHANGED <<vars, memoryVars, remoteVars, egressVars>>
       \/ /\ part = "memory" /\ Memory!Next
          /\ UNCHANGED <<vars, rollingVars, remoteVars, egressVars>>
       \/ /\ part = "evidence" /\ RemoteNext
          /\ UNCHANGED <<vars, rollingVars, memoryVars, egressVars>>
       \/ /\ part = "egress" /\ EgressNext
          /\ UNCHANGED <<vars, rollingVars, memoryVars, remoteVars>>
    /\ UNCHANGED part

partVars == <<part, vars, rollingVars, memoryVars, remoteVars, egressVars>>

PartSpec == PartInit /\ [][PartNext]_partVars

\* Attempts are interchangeable.
Interchangeable == Permutations({a1, a2})

-----------------------------------------------------------------------------
\* Checkpoints cover a Room's messages without a gap and reduce none twice; a fence shows
\* the memory the Run was created with, a cursor loses no change, an entry has one
\* successor and a candidate becomes memory once.
MemoryLossless ==
    /\ part = "rolling" => RollingTrue
    /\ part = "memory" =>
         /\ Memory!TypeOK /\ Memory!FenceFaithful /\ Memory!PlanStable
         /\ Memory!CursorLossless /\ Memory!OneSuccessor /\ Memory!PromotedOnce
=============================================================================
