--------------------------- MODULE EvidenceProofs ---------------------------
(***************************************************************************)
(* Proofs about Integration, Verification and ArtifactPublication.  For     *)
(* any nodes, operations, branches, commits and number of faults and of     *)
(* moves of the owner: what Central and the Bridge record of an integration *)
(* is true of the branch, and the Bridge moves a branch only from the       *)
(* approved commit to the candidate, for the operation that holds its lock. *)
(* For any profiles, calls and number of faults and changes: what Central   *)
(* keeps of a verification is true of the processes that ran, and a process *)
(* starts only under a grant that stands and never again once it has ended. *)
(* For any publishers, publications and contents: what Central keeps of an  *)
(* upload is whole and stored, and one publication is one Artifact.         *)
(***************************************************************************)
EXTENDS EvidenceParts, FiniteSetTheorems, TLAPS

-----------------------------------------------------------------------------
(* The inductive invariant                                                 *)
(*                                                                         *)
(* The lock is stated pointwise.  The receipt of success needs the branch,  *)
(* whose past is known as long as the operation is unsettled: its lock      *)
(* keeps every other operation from the branch, so that only the owner can  *)
(* have brought it back to the expected commit.                             *)

open(o) == approval[o] # None /\ receipts[o] = None
branchOf(o) == TargetOf[approval[o]]

LockHeld ==
  /\ \A t \in Targets : lock[t] # None => open(lock[t]) /\ branchOf(lock[t]) = t
  /\ \A o \in Ops : open(o) => lock[branchOf(o)] = o

\* What is recorded about an operation was admitted, in this order.
Recorded ==
  /\ \A o \in Ops : approval[o] # None => approval[o] \in verified
  /\ \A o \in Ops : receipts[o] # None => receipts[o] = journal[o]
  /\ \A o \in Ops : o \in intent \/ journal[o] # None => approval[o] # None
  /\ \A o \in Ops : effect[o] > 0 => o \in intent
  /\ \A n \in Nodes : integrated[n] # None =>
        approval[integrated[n]] = n /\ receipts[integrated[n]] = "succeeded"

\* An operation that moved its branch and has no receipt yet: the branch is not back at
\* the expected commit, unless the owner took it there.
Moved(o) ==
  /\ approval[o] \in FastForward
  /\ Expected[approval[o]] \in reached[branchOf(o)]
  /\ target[branchOf(o)] = Expected[approval[o]] => branchOf(o) \in rewound

Branches ==
  /\ \A t \in Targets : target[t] \in reached[t]
  /\ \A o \in Ops : effect[o] > 0 /\ journal[o] = None => Moved(o)
  /\ SucceededIsTrue
  /\ CanceledIsTrue

\* The position of the Execute that runs.
Executing ==
  pc # None =>
    /\ approval[pc.op] # None
    /\ pc.at = "fresh" => pc.op \notin intent
    /\ pc.at \notin {"fresh", "retain"} => pc.op \in intent
    /\ pc.at = "retain" <=> journal[pc.op] # None
    /\ pc.at = "update" => approval[pc.op] \in FastForward
    /\ pc.at = "inspect" => pc.err # "none"
    /\ pc.at \in {"cas", "check", "update"} =>
          effect[pc.op] = 0 \/ branchOf(pc.op) \in rewound

IntegrationInv == TypeOK /\ LockHeld /\ Recorded /\ Branches /\ Executing
-----------------------------------------------------------------------------
(* The invariant                                                           *)

\* The invariant holds before anything is approved.
LEMMA InitOK == Init => IntegrationInv
<1> SUFFICES ASSUME Init PROVE IntegrationInv
  OBVIOUS
<1>1. TypeOK
  BY IntegrationAssumption DEF Init, TypeOK, Commits
<1>2. LockHeld /\ Recorded /\ Executing
  BY IntegrationAssumption DEF Init, LockHeld, Recorded, Executing, open
<1>3. Branches
  BY IntegrationAssumption DEF Init, Branches, SucceededIsTrue, CanceledIsTrue, Outcomes
<1> QED
  BY <1>1, <1>2, <1>3 DEF IntegrationInv

\* Every step keeps the types.
LEMMA Types == TypeOK /\ Executing /\ [Next]_vars => TypeOK'
<1> SUFFICES ASSUME TypeOK, Executing, [Next]_vars PROVE TypeOK'
  OBVIOUS
<1> USE IntegrationAssumption
<1> DEFINE Positions == {"fresh", "recover", "cas", "check", "update", "confirm", "inspect",
                         "retain"}
<1> DEFINE PcType == [at : Positions, op : Ops, err : {"none", "failed", "canceled"}]
<1>1. pc \in PcType \cup {None} BY DEF TypeOK
<1>2. pc # None => \A a \in Positions : step(a) \in PcType
  BY <1>1 DEF step
<1>3. ASSUME NEW end \in Outcomes, pc # None, SettleLocal(end) PROVE TypeOK'
  <2>1. journal' \in [Ops -> Outcomes \cup {None}] BY <1>1, <1>3 DEF SettleLocal, TypeOK
  <2>2. pc' \in PcType \cup {None} BY <1>2, <1>3 DEF SettleLocal
  <2> QED BY <2>1, <2>2, <1>3 DEF SettleLocal, TypeOK, central, files, branch, env
<1>4. CASE \E n \in Nodes : Verify(n) \/ Reconcile(n) \/ RevokeGrant(n)
  BY <1>4 DEF Verify, Reconcile, RevokeGrant, evidence, TypeOK, central, files, branch, env
<1>5. CASE \E o \in Ops, n \in Nodes : Approve(o, n)
  BY <1>5 DEF Approve, TypeOK, files, branch, env
<1>6. CASE \E o \in Ops : Get(o)
  <2>1. PICK o \in Ops : Get(o) BY <1>6
  <2> DEFINE a == IF journal[o] # None THEN "retain"
                  ELSE IF o \in intent THEN "recover" ELSE "fresh"
  <2>2. a \in Positions OBVIOUS
  <2>3. pc' = [at |-> a, op |-> o, err |-> "none"] BY <2>1 DEF Get
  <2> HIDE DEF a
  <2>4. pc' \in PcType BY <2>2, <2>3
  <2> QED BY <2>1, <2>4 DEF Get, TypeOK, central, files, branch, env
<1>7. CASE Refuse BY <1>3, <1>7 DEF Refuse, Outcomes
<1>8. CASE PutIntent
  <2>1. pc' \in PcType BY <1>2, <1>8 DEF PutIntent
  <2>2. intent' \subseteq Ops BY <1>1, <1>8 DEF PutIntent, TypeOK
  <2> QED BY <1>8, <2>1, <2>2 DEF PutIntent, TypeOK, central, branch, env
<1>9. ASSUME NEW a \in Positions, pc # None, pc' = step(a), UNCHANGED <<central, files, branch, env>>
      PROVE TypeOK'
  <2>1. pc' \in PcType BY <1>2, <1>9
  <2> QED BY <1>9, <2>1 DEF TypeOK, central, files, branch, env
<1>10. CASE recoverOrExecute BY <1>3, <1>9, <1>10 DEF recoverOrExecute, Outcomes
<1>11. CASE executeCAS BY <1>3, <1>9, <1>11 DEF executeCAS, Outcomes
<1>12. CASE IntegrateExactTarget BY <1>3, <1>9, <1>12 DEF IntegrateExactTarget, Outcomes
<1>13. CASE updateRef
  <2>1. pc # None /\ UNCHANGED <<central, files, env>> BY <1>13 DEF updateRef
  <2>2. pc' \in PcType BY <1>1, <1>2, <1>13 DEF updateRef
  <2>3. CASE UNCHANGED branch BY <2>1, <2>2, <2>3 DEF TypeOK, central, files, branch, env
  <2>4. CASE current = Expected[node] /\ moveTo(pc.op, node)
    <3>1. node \in Nodes BY <1>1, <2>1 DEF TypeOK, Executing, node
    <3>2. Candidate[node] \in Commits BY <3>1 DEF Commits
    <3> QED BY <1>1, <2>1, <2>2, <2>4, <3>1, <3>2 DEF moveTo, TypeOK, central, files, env
  <2> QED BY <1>13, <2>3, <2>4 DEF updateRef
<1>14. CASE confirmIntegrationTarget BY <1>3, <1>14 DEF confirmIntegrationTarget, Outcomes
<1>15. CASE inspectTarget
  <2>1. pc # None /\ pc.err \in Outcomes BY <1>1, <1>15 DEF inspectTarget, Executing, Outcomes
  <2> QED BY <1>3, <1>15, <2>1 DEF inspectTarget, Outcomes
<1>16. CASE Retain
  BY <1>1, <1>16 DEF Retain, TypeOK, files, branch, env
<1>17. CASE RetainRefused \/ Crash
  BY <1>17 DEF RetainRefused, Crash, TypeOK, central, files, branch, env
<1>18. CASE SupersedePlan \/ RevokeDevice
  BY <1>18 DEF SupersedePlan, RevokeDevice, TypeOK, files, branch, env
<1>19. CASE \E t \in Targets : OwnerChecksOut(t) \/ \E c \in Commits : OwnerMoves(t, c)
  BY <1>19 DEF OwnerChecksOut, OwnerMoves, TypeOK, central, files, branch
<1>20. CASE UNCHANGED vars
  BY <1>20 DEF vars, TypeOK, central, files, branch, env
<1> QED
  BY <1>4, <1>5, <1>6, <1>7, <1>8, <1>10, <1>11, <1>12, <1>13, <1>14, <1>15, <1>16, <1>17,
     <1>18, <1>19, <1>20 DEF Next, Execute

\* The rest of the invariant, after a step whose types are known to be right.
RestOfInv == LockHeld /\ Recorded /\ Branches /\ Executing

\* Where the Execute that runs is, and its operation.
LEMMA Running ==
  ASSUME IntegrationInv, pc # None
  PROVE  /\ pc.op \in Ops /\ node \in Nodes /\ TargetOf[node] \in Targets
         /\ pc.at \in {"fresh", "recover", "cas", "check", "update", "confirm", "inspect",
                       "retain"}
         /\ node = approval[pc.op] /\ current = target[TargetOf[node]]
         /\ branchOf(pc.op) = TargetOf[node]
         /\ pc.err \in {"none", "failed", "canceled"}
BY IntegrationAssumption DEF IntegrationInv, TypeOK, Executing, node, current, branchOf

\* A receipt file that is created keeps the invariant if what it says is true: of a success,

\* that the branch is at the candidate, and of a cancellation, that the branch was not moved.
LEMMA SettleKeeps ==
  ASSUME IntegrationInv, pc # None, NEW end \in Outcomes, SettleLocal(end),
         pc.at # "retain",
         end = "succeeded" => current = Candidate[node],
         end = "canceled" => effect[pc.op] = 0 \/ TargetOf[node] \in rewound
  PROVE  RestOfInv'
<1> USE IntegrationAssumption
<1>1. /\ pc.op \in Ops /\ node \in Nodes /\ TargetOf[node] \in Targets
      /\ node = approval[pc.op] /\ current = target[TargetOf[node]]
      /\ branchOf(pc.op) = TargetOf[node]
  BY Running
<1>2. TypeOK /\ journal[pc.op] = None
  BY DEF IntegrationInv, Executing
<1>3. /\ journal' = [journal EXCEPT ![pc.op] = end] /\ pc' = step("retain")
      /\ UNCHANGED <<plan, device, verified, approval, lock, receipts, integrated, intent,
                     target, effect, reached, rewound>>
  BY <1>2 DEF SettleLocal, central, branch
<1>4. journal'[pc.op] = end /\ end # None
      /\ \A o \in Ops : o # pc.op => journal'[o] = journal[o]
  BY <1>1, <1>2, <1>3 DEF TypeOK
<1>5. LockHeld'
  BY <1>3 DEF IntegrationInv, LockHeld, open, branchOf
<1>6. Recorded'
  BY <1>1, <1>2, <1>3, <1>4 DEF IntegrationInv, Recorded, Executing
<1>7. Branches'
  <2>1. \A t \in Targets : target[t] \in reached[t] BY DEF IntegrationInv, Branches
  <2>2. (\A o \in Ops : effect[o] > 0 /\ journal[o] = None => Moved(o))'
    BY <1>3, <1>4 DEF IntegrationInv, Branches, Moved, branchOf
  <2>3. SucceededIsTrue'
    BY <1>1, <1>3, <1>4, <2>1 DEF IntegrationInv, Branches, SucceededIsTrue
  <2>4. CanceledIsTrue'
    BY <1>1, <1>3, <1>4 DEF IntegrationInv, Branches, CanceledIsTrue
  <2> QED BY <1>3, <2>1, <2>2, <2>3, <2>4 DEF Branches
<1>8. Executing'
  <2>1. pc'.at = "retain" /\ pc'.op = pc.op BY <1>2, <1>3 DEF TypeOK, step
  <2> QED BY <1>1, <1>3, <1>4, <2>1 DEF IntegrationInv, Executing
<1> QED BY <1>5, <1>6, <1>7, <1>8 DEF RestOfInv

\* Going on to another position keeps the invariant if the position may be entered.
LEMMA GoingOnKeeps ==
  ASSUME IntegrationInv, pc # None, pc.at \notin {"fresh", "retain"},
         NEW a \in {"cas", "check", "update"}, pc' = step(a),
         UNCHANGED <<central, files, branch, env>>,
         a = "update" => node \in FastForward,
         effect[pc.op] = 0 \/ TargetOf[node] \in rewound
  PROVE  RestOfInv'
<1>1. pc.op \in Ops /\ node = approval[pc.op] /\ branchOf(pc.op) = TargetOf[node]
  BY Running
<1>2. pc'.at = a /\ pc'.op = pc.op
  BY DEF IntegrationInv, TypeOK, step
<1>3. UNCHANGED <<plan, device, verified, approval, lock, receipts, integrated, intent, journal,
                  target, effect, reached, rewound>>
  BY DEF central, files, branch
<1>4. (LockHeld /\ Recorded /\ Branches)'
  BY <1>3 DEF IntegrationInv, LockHeld, Recorded, Branches, Moved, SucceededIsTrue,
              CanceledIsTrue, open, branchOf
<1>5. Executing'
  BY <1>1, <1>2, <1>3 DEF IntegrationInv, Executing, branchOf
<1> QED BY <1>4, <1>5 DEF RestOfInv

\* The Execute ends, or does not move, and nothing it depends on changes.
LEMMA IdleKeeps ==
  ASSUME IntegrationInv, pc' \in {None, pc},
         UNCHANGED <<approval, lock, receipts, integrated, files, branch>>,
         verified \subseteq verified'
  PROVE  RestOfInv'
<1>1. UNCHANGED <<approval, lock, receipts, integrated, intent, journal, target, effect,
                  reached, rewound>>
  BY DEF files, branch
<1>2. LockHeld' /\ Branches'
  BY <1>1 DEF IntegrationInv, LockHeld, Branches, Moved, SucceededIsTrue, CanceledIsTrue,
              open, branchOf
<1>3. Recorded'
  BY <1>1 DEF IntegrationInv, Recorded
<1>4. Executing'
  BY <1>1 DEF IntegrationInv, Executing, branchOf
<1> QED BY <1>2, <1>3, <1>4 DEF RestOfInv

\* approve: the operation is new, so nothing is recorded of it, and its target is free.
LEMMA ApproveKeeps ==
  ASSUME IntegrationInv, NEW o \in Ops, NEW n \in Nodes, Approve(o, n)
  PROVE  RestOfInv'
<1> USE IntegrationAssumption
<1>1. TypeOK /\ TargetOf[n] \in Targets BY DEF IntegrationInv
<1>2. /\ approval[o] = None /\ lock[TargetOf[n]] = None /\ n \in verified
      /\ approval' = [approval EXCEPT ![o] = n]
      /\ lock' = [lock EXCEPT ![TargetOf[n]] = o]
      /\ UNCHANGED <<verified, receipts, integrated, intent, journal, pc, target, effect,
                     reached, rewound>>
  BY DEF Approve, approvable, files, branch
<1>3. approval'[o] = n /\ \A q \in Ops : q # o => approval'[q] = approval[q]
  BY <1>1, <1>2 DEF TypeOK
<1>4. lock'[TargetOf[n]] = o /\ \A t \in Targets : t # TargetOf[n] => lock'[t] = lock[t]
  BY <1>1, <1>2 DEF TypeOK
<1>5. o \notin intent /\ journal[o] = None /\ receipts[o] = None /\ ~(effect[o] > 0)
  BY <1>2 DEF IntegrationInv, Recorded
<1>6. LockHeld'
  <2>1. ASSUME NEW t \in Targets, lock'[t] # None
        PROVE  open(lock[t])' /\ branchOf(lock[t])' = t
    <3>1. CASE t = TargetOf[n] BY <1>2, <1>3, <1>4, <1>5, <3>1 DEF open, branchOf
    <3>2. CASE t # TargetOf[n]
      <4>1. lock'[t] = lock[t] /\ lock[t] \in Ops /\ open(lock[t]) /\ branchOf(lock[t]) = t
        BY <1>1, <1>4, <2>1, <3>2 DEF IntegrationInv, LockHeld, TypeOK
      <4>2. lock[t] # o BY <1>2, <4>1 DEF open
      <4> QED BY <1>2, <1>3, <4>1, <4>2 DEF open, branchOf
    <3> QED BY <3>1, <3>2
  <2>2. ASSUME NEW q \in Ops, open(q)' PROVE lock'[TargetOf[approval'[q]]] = q
    <3>1. CASE q = o BY <1>3, <1>4, <3>1
    <3>2. CASE q # o
      <4>1. approval'[q] = approval[q] /\ open(q)
        BY <1>2, <1>3, <2>2, <3>2 DEF open
      <4>2. approval[q] \in Nodes /\ TargetOf[approval[q]] \in Targets
            /\ lock[TargetOf[approval[q]]] = q
        BY <1>1, <4>1 DEF IntegrationInv, LockHeld, TypeOK, open, branchOf
      <4>3. TargetOf[approval[q]] # TargetOf[n] BY <1>2, <4>2
      <4> QED BY <1>4, <4>1, <4>2, <4>3
    <3> QED BY <3>1, <3>2
  <2> QED BY <2>1, <2>2 DEF LockHeld, branchOf
<1>7. Recorded'
  <2>1. \A m \in Nodes : integrated[m] # None => integrated[m] \in Ops /\ integrated[m] # o
    BY <1>1, <1>5 DEF IntegrationInv, Recorded, TypeOK, Outcomes
  <2> QED BY <1>2, <1>3, <1>5, <2>1 DEF IntegrationInv, Recorded
<1>8. Branches'
  BY <1>2, <1>3, <1>5 DEF IntegrationInv, Branches, Moved, SucceededIsTrue, CanceledIsTrue,
                          branchOf, Outcomes
<1>9. Executing'
  <2>1. pc # None => pc.op \in Ops /\ pc.op # o
    BY <1>2, Running DEF IntegrationInv, Executing
  <2> QED BY <1>2, <1>3, <2>1 DEF IntegrationInv, Executing, branchOf
<1> QED BY <1>6, <1>7, <1>8, <1>9 DEF RestOfInv

\* The Execute that begins continues where the journal says.
LEMMA GetKeeps ==
  ASSUME IntegrationInv, NEW o \in Ops, Get(o)
  PROVE  RestOfInv'
<1> DEFINE a == IF journal[o] # None THEN "retain"
                ELSE IF o \in intent THEN "recover" ELSE "fresh"
<1>1. /\ a = "retain" <=> journal[o] # None
      /\ a = "fresh" => o \notin intent
      /\ a = "recover" => o \in intent
      /\ a \in {"retain", "recover", "fresh"}
  OBVIOUS
<1>2. pc' = [at |-> a, op |-> o, err |-> "none"] /\ approval[o] # None
  BY DEF Get, mayAccess
<1>3. UNCHANGED <<verified, approval, lock, receipts, integrated, intent, journal, target,
                  effect, reached, rewound>>
  BY DEF Get, central, files, branch
<1> HIDE DEF a
<1>4. pc'.at = a /\ pc'.op = o BY <1>2
<1>5. Executing' BY <1>1, <1>2, <1>3, <1>4 DEF Executing
<1>6. (LockHeld /\ Recorded /\ Branches)'
  BY <1>3 DEF IntegrationInv, LockHeld, Recorded, Branches, Moved, SucceededIsTrue,
              CanceledIsTrue, open, branchOf
<1> QED BY <1>5, <1>6 DEF RestOfInv

\* The intent of an operation is created before anything can have moved.
LEMMA PutIntentKeeps ==
  ASSUME IntegrationInv, PutIntent
  PROVE  RestOfInv'
<1>1. /\ pc.op \in Ops /\ pc # None /\ pc.at = "fresh" /\ pc'.at = "cas" /\ pc'.op = pc.op
      /\ pc.op \notin intent /\ approval[pc.op] # None /\ journal[pc.op] = None
  BY Running DEF IntegrationInv, TypeOK, Executing, PutIntent, step
<1>2. /\ intent' = intent \cup {pc.op}
      /\ UNCHANGED <<verified, approval, lock, receipts, integrated, journal, target,
                     effect, reached, rewound>>
  BY DEF PutIntent, central, branch
<1>3. effect[pc.op] = 0
  BY <1>1 DEF IntegrationInv, Recorded, TypeOK
<1>4. LockHeld' /\ Branches'
  BY <1>2 DEF IntegrationInv, LockHeld, Branches, Moved, SucceededIsTrue,
              CanceledIsTrue, open, branchOf
<1>5. Recorded'
  BY <1>1, <1>2 DEF IntegrationInv, Recorded
<1>6. Executing'
  BY <1>1, <1>2, <1>3 DEF Executing
<1> QED BY <1>4, <1>5, <1>6 DEF RestOfInv

\* retain: the receipt of Central is the receipt file, and the lock goes with it.
LEMMA RetainKeeps ==
  ASSUME IntegrationInv, Retain
  PROVE  RestOfInv'
<1> USE IntegrationAssumption
<1>1. /\ TypeOK /\ pc # None /\ pc.op \in Ops /\ journal[pc.op] # None
  BY Running DEF IntegrationInv, Executing, Retain
<1>2. /\ receipts' = [receipts EXCEPT ![pc.op] = journal[pc.op]]
      /\ lock' = [t \in Targets |-> IF lock[t] = pc.op THEN None ELSE lock[t]]
      /\ receipts[pc.op] \in {None, journal[pc.op]}
      /\ pc' = None
      /\ UNCHANGED <<verified, approval, integrated, intent, journal, target, effect,
                     reached, rewound>>
  BY DEF Retain, files, branch
<1>3. receipts'[pc.op] = journal[pc.op] /\ \A o \in Ops : o # pc.op => receipts'[o] = receipts[o]
  BY <1>1, <1>2 DEF TypeOK
<1>4. \A t \in Targets : \/ lock[t] = pc.op /\ lock'[t] = None
                         \/ lock[t] # pc.op /\ lock'[t] = lock[t]
  BY <1>2
<1>5. LockHeld'
  <2>1. ASSUME NEW t \in Targets, lock'[t] # None
        PROVE  open(lock[t])' /\ branchOf(lock[t])' = t
    <3>1. lock'[t] = lock[t] /\ lock[t] # pc.op /\ lock[t] \in Ops
      BY <1>1, <1>4, <2>1 DEF TypeOK
    <3> QED BY <1>2, <1>3, <2>1, <3>1 DEF IntegrationInv, LockHeld, open, branchOf
  <2>2. ASSUME NEW q \in Ops, open(q)' PROVE lock'[TargetOf[approval'[q]]] = q
    <3>1. q # pc.op BY <1>1, <1>3, <2>2 DEF open
    <3>2. open(q) /\ approval'[q] = approval[q] BY <1>2, <1>3, <2>2, <3>1 DEF open
    <3>3. approval[q] \in Nodes /\ TargetOf[approval[q]] \in Targets
          /\ lock[TargetOf[approval[q]]] = q
      BY <1>1, <3>2 DEF IntegrationInv, LockHeld, TypeOK, open, branchOf
    <3> QED BY <1>4, <3>1, <3>2, <3>3
  <2> QED BY <2>1, <2>2 DEF LockHeld, branchOf
<1>6. Recorded'
  <2>1. \A n \in Nodes : integrated[n] # None => integrated[n] \in Ops
    BY <1>1 DEF TypeOK
  <2>2. \A o \in Ops : receipts'[o] # None => receipts'[o] = journal[o]
    BY <1>3 DEF IntegrationInv, Recorded
  <2>3. ASSUME NEW n \in Nodes, integrated[n] # None
        PROVE  approval[integrated[n]] = n /\ receipts'[integrated[n]] = "succeeded"
    <3>1. /\ integrated[n] \in Ops /\ approval[integrated[n]] = n
          /\ receipts[integrated[n]] = "succeeded" /\ None # "succeeded"
      BY <2>1, <2>3 DEF IntegrationInv, Recorded, Outcomes
    <3> QED BY <1>2, <1>3, <3>1
  <2> QED BY <1>2, <2>2, <2>3 DEF IntegrationInv, Recorded
<1>7. Branches' /\ Executing'
  BY <1>2 DEF IntegrationInv, Branches, Moved, SucceededIsTrue, CanceledIsTrue, Executing,
              branchOf
<1> QED BY <1>5, <1>6, <1>7 DEF RestOfInv

\* reconcile: the one success of a node becomes its integrated commit.
LEMMA ReconcileKeeps ==
  ASSUME IntegrationInv, NEW n \in Nodes, Reconcile(n)
  PROVE  RestOfInv'
<1>1. PICK o \in Ops : evidence(n) = {o} /\ integrated' = [integrated EXCEPT ![n] = o]
  BY DEF Reconcile
<1>2. UNCHANGED <<verified, approval, lock, receipts, intent, journal, pc, target, effect,
                  reached, rewound>>
  BY DEF Reconcile, files, branch
<1>3. approval[o] = n /\ receipts[o] = "succeeded" BY <1>1 DEF evidence
<1>4. integrated'[n] = o /\ \A m \in Nodes : m # n => integrated'[m] = integrated[m]
  BY <1>1 DEF IntegrationInv, TypeOK
<1>5. Recorded' BY <1>2, <1>3, <1>4 DEF IntegrationInv, Recorded
<1>6. (LockHeld /\ Branches /\ Executing)'
  BY <1>2 DEF IntegrationInv, LockHeld, Branches, Moved, SucceededIsTrue,
              CanceledIsTrue, Executing, open, branchOf
<1> QED BY <1>5, <1>6 DEF RestOfInv

\* While an operation is unsettled nothing but its own Execute moves its branch for an

\* operation: the lock of the branch is its own.
LEMMA LockExcludes ==
  ASSUME IntegrationInv, NEW o \in Ops, NEW q \in Ops,
         approval[o] # None, journal[o] = None, approval[q] # None, journal[q] = None,
         branchOf(o) = branchOf(q)
  PROVE  o = q /\ lock[branchOf(o)] = o
BY DEF IntegrationInv, LockHeld, Recorded, open

\* The compare-and-set of Git keeps the invariant, whether or not it reports an error.
LEMMA UpdateKeeps ==
  ASSUME IntegrationInv, updateRef
  PROVE  RestOfInv'
<1> USE IntegrationAssumption
<1> DEFINE o == pc.op  n == node  t == TargetOf[node]
<1>1. /\ pc # None /\ pc.at = "update" /\ TypeOK
      /\ UNCHANGED <<verified, approval, lock, receipts, integrated, intent, journal>>
  BY DEF IntegrationInv, updateRef, central, files
<1>2. /\ o \in Ops /\ n \in Nodes /\ t \in Targets /\ n = approval[o]
      /\ current = target[t] /\ branchOf(o) = t
  BY <1>1, Running
<1>3. /\ o \in intent /\ journal[o] = None /\ n \in FastForward /\ n # None
  BY <1>1, <1>2 DEF IntegrationInv, Executing
<1>4. /\ pc'.op = o
      /\ \/ pc'.at = "confirm"
         \/ pc'.at = "inspect" /\ pc'.err # "none"
  BY <1>1 DEF updateRef, step, TypeOK
<1>5. LockHeld'
  BY <1>1 DEF IntegrationInv, LockHeld, open, branchOf
<1>6. Executing'
  BY <1>1, <1>2, <1>3, <1>4 DEF Executing
<1>7. CASE UNCHANGED branch
  BY <1>1, <1>5, <1>6, <1>7 DEF IntegrationInv, RestOfInv, Recorded, Branches, Moved,
                               SucceededIsTrue, CanceledIsTrue, branch, branchOf
<1>8. CASE current = Expected[node] /\ moveTo(pc.op, node)
  <2>1. /\ target' = [target EXCEPT ![t] = Candidate[n]]
        /\ reached' = [reached EXCEPT ![t] = @ \cup {Candidate[n]}]
        /\ effect' = [effect EXCEPT ![o] = @ + 1] /\ rewound' = rewound
        /\ target[t] = Expected[n]
    BY <1>2, <1>8 DEF moveTo
  <2> HIDE DEF o, n, t
  <2>2. /\ target'[t] = Candidate[n] /\ \A s \in Targets : s # t => target'[s] = target[s]
        /\ reached'[t] = reached[t] \cup {Candidate[n]}
        /\ \A s \in Targets : s # t => reached'[s] = reached[s]
        /\ \A q \in Ops : q # o => effect'[q] = effect[q]
    BY <1>1, <1>2, <2>1 DEF TypeOK
  <2>3. \A s \in Targets : target'[s] \in reached'[s] /\ reached[s] \subseteq reached'[s]
    BY <1>2, <2>2 DEF IntegrationInv, Branches
  <2>4. Recorded'
    BY <1>1, <1>3, <2>2 DEF IntegrationInv, Recorded
  <2>5. ASSUME NEW q \in Ops, effect'[q] > 0, journal'[q] = None PROVE Moved(q)'
    <3>1. CASE q = o
      <4>1. Candidate[n] # Expected[n] BY <1>3
      <4>2. Expected[n] \in reached'[t] BY <1>2, <2>1, <2>3 DEF IntegrationInv, Branches
      <4> QED BY <1>1, <1>2, <1>3, <2>2, <3>1, <4>1, <4>2 DEF Moved, branchOf
    <3>2. CASE q # o
      <4>1. effect[q] > 0 /\ journal[q] = None BY <1>1, <2>2, <2>5, <3>2
      <4>2. Moved(q) /\ approval[q] # None
        BY <4>1 DEF IntegrationInv, Branches, Recorded
      <4>3. approval[q] \in Nodes /\ TargetOf[approval[q]] \in Targets
        BY <1>1, <4>2 DEF TypeOK
      <4>4. TargetOf[approval[q]] # t
        BY <1>2, <1>3, <3>2, <4>1, <4>2, LockExcludes DEF branchOf
      <4> QED BY <1>1, <2>1, <2>2, <4>2, <4>3, <4>4 DEF Moved, branchOf
    <3> QED BY <3>1, <3>2
  <2>6. SucceededIsTrue'
    <3>1. ASSUME NEW q \in Ops, journal'[q] = "succeeded"
          PROVE  Candidate[approval'[q]] \in reached'[TargetOf[approval'[q]]]
      <4>1. journal[q] = "succeeded" /\ approval'[q] = approval[q] /\ journal[q] # None
        BY <1>1, <3>1 DEF Outcomes
      <4>2. approval[q] \in Nodes /\ TargetOf[approval[q]] \in Targets
        BY <1>1, <4>1 DEF IntegrationInv, Recorded, TypeOK
      <4> QED BY <2>3, <4>1, <4>2 DEF IntegrationInv, Branches, SucceededIsTrue
    <3> QED BY <3>1 DEF SucceededIsTrue
  <2>7. CanceledIsTrue'
    <3>1. journal[o] # "canceled" BY <1>3 DEF Outcomes
    <3> QED BY <1>1, <2>1, <2>2, <3>1 DEF IntegrationInv, Branches, CanceledIsTrue
  <2> QED BY <1>5, <1>6, <2>3, <2>4, <2>5, <2>6, <2>7 DEF RestOfInv, Branches
<1> QED BY <1>7, <1>8 DEF updateRef

\* The owner moves the branch: a commit it has been at is one it is taken back to.
LEMMA OwnerKeeps ==
  ASSUME IntegrationInv, NEW t \in Targets, NEW c \in Commits, OwnerMoves(t, c)
  PROVE  RestOfInv'
<1> USE IntegrationAssumption
<1>1. /\ TypeOK /\ target' = [target EXCEPT ![t] = c]
      /\ reached' = [reached EXCEPT ![t] = @ \cup {c}]
      /\ UNCHANGED <<verified, approval, lock, receipts, integrated, intent, journal, pc, effect>>
  BY DEF IntegrationInv, OwnerMoves, central, files
<1>2. rewound \subseteq rewound' /\ (c \in reached[t] => t \in rewound')
  BY DEF OwnerMoves
<1>3. /\ target'[t] = c /\ \A s \in Targets : s # t => target'[s] = target[s]
      /\ reached'[t] = reached[t] \cup {c}
      /\ \A s \in Targets : s # t => reached'[s] = reached[s]
  BY <1>1 DEF TypeOK
<1>4. LockHeld' /\ Recorded'
  BY <1>1 DEF IntegrationInv, LockHeld, Recorded, open, branchOf
<1>5. Executing'
  BY <1>1, <1>2 DEF IntegrationInv, Executing, branchOf
<1>6. \A s \in Targets : target'[s] \in reached'[s] /\ reached[s] \subseteq reached'[s]
  BY <1>3 DEF IntegrationInv, Branches
<1>7. ASSUME NEW q \in Ops, effect'[q] > 0, journal'[q] = None PROVE Moved(q)'
  <2>1. effect[q] > 0 /\ journal[q] = None BY <1>1, <1>7
  <2>2. Moved(q) /\ approval[q] # None BY <2>1 DEF IntegrationInv, Branches, Recorded
  <2>3. approval[q] \in Nodes /\ TargetOf[approval[q]] \in Targets BY <1>1, <2>2 DEF TypeOK
  <2> QED BY <1>1, <1>2, <1>3, <2>2, <2>3 DEF Moved, branchOf
<1>8. SucceededIsTrue'
  <2>1. ASSUME NEW q \in Ops, journal'[q] = "succeeded"
        PROVE  Candidate[approval'[q]] \in reached'[TargetOf[approval'[q]]]
    <3>1. journal[q] = "succeeded" /\ approval'[q] = approval[q] /\ journal[q] # None
      BY <1>1, <2>1 DEF Outcomes
    <3>2. approval[q] \in Nodes /\ TargetOf[approval[q]] \in Targets
      BY <1>1, <3>1 DEF IntegrationInv, Recorded, TypeOK
    <3> QED BY <1>6, <3>1, <3>2 DEF IntegrationInv, Branches, SucceededIsTrue
  <2> QED BY <2>1 DEF SucceededIsTrue
<1>9. CanceledIsTrue'
  BY <1>1, <1>2 DEF IntegrationInv, Branches, CanceledIsTrue
<1> QED BY <1>4, <1>5, <1>6, <1>7, <1>8, <1>9 DEF RestOfInv, Branches

\* Every step keeps the invariant.
LEMMA StepOK == IntegrationInv /\ [Next]_vars => IntegrationInv'
<1> SUFFICES ASSUME IntegrationInv, [Next]_vars PROVE IntegrationInv'
  OBVIOUS
<1>1. TypeOK' BY Types DEF IntegrationInv
<1>2. RestOfInv'
  <2> DEFINE Truthful(end) ==
        /\ end = "succeeded" => current = Candidate[node]
        /\ end = "canceled" => effect[pc.op] = 0 \/ TargetOf[node] \in rewound
  <2>1. ASSUME pc # None, pc.at # "retain", NEW end \in Outcomes, SettleLocal(end),
               Truthful(end)
        PROVE  RestOfInv'
    BY <2>1, SettleKeeps
  <2>2. Truthful("failed") /\ Truthful("outcome_unknown") OBVIOUS
  <2>3. current = Candidate[node] => Truthful("succeeded") OBVIOUS
  <2>4. effect[pc.op] = 0 \/ TargetOf[node] \in rewound => Truthful("canceled") OBVIOUS
  <2> HIDE DEF Truthful
  <2>5. pc # None /\ pc.at \in {"recover", "inspect"} /\ current = Expected[node]
          => effect[pc.op] = 0 \/ TargetOf[node] \in rewound
    <3> SUFFICES ASSUME pc # None, pc.at \in {"recover", "inspect"}, current = Expected[node]
                 PROVE  effect[pc.op] = 0 \/ TargetOf[node] \in rewound
      OBVIOUS
    <3>1. /\ pc.op \in Ops /\ node = approval[pc.op] /\ current = target[TargetOf[node]]
          /\ branchOf(pc.op) = TargetOf[node] /\ journal[pc.op] = None
      BY Running DEF IntegrationInv, Executing
    <3>2. effect[pc.op] \in Nat BY <3>1 DEF IntegrationInv, TypeOK
    <3>3. effect[pc.op] > 0 => Moved(pc.op) BY <3>1 DEF IntegrationInv, Branches
    <3> QED BY <3>1, <3>2, <3>3 DEF Moved
  <2>6. pc # None /\ pc.at \in {"cas", "check"}
          => effect[pc.op] = 0 \/ TargetOf[node] \in rewound
    BY DEF IntegrationInv, Executing, branchOf, node
  <2>7. CASE \E n \in Nodes : Verify(n) \/ RevokeGrant(n)
    BY <2>7, IdleKeeps DEF Verify, RevokeGrant, central
  <2>8. CASE \E n \in Nodes : Reconcile(n) BY <2>8, ReconcileKeeps
  <2>9. CASE \E o \in Ops, n \in Nodes : Approve(o, n) BY <2>9, ApproveKeeps
  <2>10. CASE \E o \in Ops : Get(o) BY <2>10, GetKeeps
  <2>11. CASE Refuse BY <2>1, <2>2, <2>11 DEF Refuse, Outcomes
  <2>12. CASE PutIntent BY <2>12, PutIntentKeeps
  <2>13. CASE recoverOrExecute
    BY <2>1, <2>2, <2>3, <2>5, <2>13, GoingOnKeeps DEF recoverOrExecute, Outcomes
  <2>14. CASE executeCAS
    BY <2>1, <2>2, <2>6, <2>14, GoingOnKeeps DEF executeCAS, Outcomes
  <2>15. CASE IntegrateExactTarget
    BY <2>1, <2>2, <2>4, <2>6, <2>15, GoingOnKeeps DEF IntegrateExactTarget, Outcomes
  <2>16. CASE updateRef BY <2>16, UpdateKeeps
  <2>17. CASE confirmIntegrationTarget
    BY <2>1, <2>2, <2>3, <2>17 DEF confirmIntegrationTarget, Outcomes
  <2>18. CASE inspectTarget
    <3>1. pc # None /\ pc.at = "inspect" /\ pc.err \in {"failed", "canceled"}
      BY <2>18, Running DEF inspectTarget, IntegrationInv, Executing
    <3>2. current = Expected[node] => Truthful(pc.err) BY <2>2, <2>4, <2>5, <3>1
    <3> QED BY <2>1, <2>2, <2>3, <2>18, <3>1, <3>2 DEF inspectTarget, Outcomes
  <2>19. CASE Retain BY <2>19, RetainKeeps
  <2>20. CASE RetainRefused \/ Crash
    BY <2>20, IdleKeeps DEF RetainRefused, Crash, central
  <2>21. CASE SupersedePlan \/ RevokeDevice
    BY <2>21, IdleKeeps DEF SupersedePlan, RevokeDevice
  <2>22. CASE \E t \in Targets : OwnerChecksOut(t)
    BY <2>22, IdleKeeps DEF OwnerChecksOut, central
  <2>23. CASE \E t \in Targets, c \in Commits : OwnerMoves(t, c) BY <2>23, OwnerKeeps
  <2>24. CASE UNCHANGED vars BY <2>24, IdleKeeps DEF vars, central
  <2> QED
    BY <2>7, <2>8, <2>9, <2>10, <2>11, <2>12, <2>13, <2>14, <2>15, <2>16, <2>17, <2>18,
       <2>19, <2>20, <2>21, <2>22, <2>23, <2>24 DEF Next, Execute
<1> QED BY <1>1, <1>2 DEF IntegrationInv, RestOfInv

\* The invariant says what the runs check of every state.
LEMMA InvImpliesTrue == IntegrationInv => IntegrationTrue
<1> SUFFICES ASSUME IntegrationInv PROVE IntegrationTrue
  OBVIOUS
<1> USE IntegrationAssumption
<1>1. TypeOK /\ SucceededIsTrue /\ CanceledIsTrue BY DEF IntegrationInv, Branches
<1>2. LockIsUnsettled
  <2> SUFFICES ASSUME NEW t \in Targets
               PROVE  unsettled(t) = IF lock[t] = None THEN {} ELSE {lock[t]}
    BY DEF LockIsUnsettled
  <2>1. \A o \in Ops : o \in unsettled(t) <=> open(o) /\ branchOf(o) = t
    BY DEF unsettled, open, branchOf
  <2>2. CASE lock[t] = None
    <3>1. \A o \in Ops : o \notin unsettled(t)
      BY <2>1, <2>2 DEF IntegrationInv, LockHeld
    <3> QED BY <2>2, <3>1 DEF unsettled
  <2>3. CASE lock[t] # None
    <3>1. lock[t] \in Ops BY <1>1, <2>3 DEF TypeOK
    <3>2. lock[t] \in unsettled(t) BY <2>1, <2>3, <3>1 DEF IntegrationInv, LockHeld
    <3>3. \A o \in Ops : o \in unsettled(t) => o = lock[t]
      BY <2>1 DEF IntegrationInv, LockHeld
    <3> QED BY <2>3, <3>1, <3>2, <3>3 DEF unsettled
  <2> QED BY <2>2, <2>3
<1>3. IntegratedIsReal
  <2>1. ASSUME NEW n \in Nodes, integrated[n] # None
        PROVE  Candidate[n] \in reached[TargetOf[n]] /\ journal[integrated[n]] = "succeeded"
    <3>1. /\ integrated[n] \in Ops /\ approval[integrated[n]] = n
          /\ receipts[integrated[n]] = "succeeded" /\ "succeeded" # None
      BY <1>1, <2>1 DEF IntegrationInv, Recorded, TypeOK, Outcomes
    <3>2. journal[integrated[n]] = "succeeded" BY <3>1 DEF IntegrationInv, Recorded
    <3> QED BY <1>1, <3>1, <3>2 DEF SucceededIsTrue
  <2> QED BY <2>1 DEF IntegrationInv, Recorded, IntegratedIsReal
<1> QED BY <1>1, <1>2, <1>3 DEF IntegrationTrue

\* For any nodes, operations, branches and commits, however the owner moves his branch and
\* wherever the Bridge dies: a target is locked exactly as long as its operation is
\* unsettled, a success is of a branch that was at the candidate, an integrated node rests
\* on one, and a canceled operation moved nothing unless the owner took the branch back.
THEOREM IntegrationIsTrue == Spec => []IntegrationTrue
<1>1. Init => IntegrationInv BY InitOK
<1>2. IntegrationInv /\ [Next]_vars => IntegrationInv' BY StepOK
<1>3. IntegrationInv => IntegrationTrue BY InvImpliesTrue
<1> QED BY <1>1, <1>2, <1>3, PTL DEF Spec

\* For any nodes, operations, branches and commits the Bridge moves a branch only from the
\* approved commit to the verified candidate, while the operation holds the lock of the
\* target at Central and before it has a receipt.
THEOREM BranchMoves == Spec => BranchMovesExactly
<1>1. Init => IntegrationInv BY InitOK
<1>2. IntegrationInv /\ [Next]_vars => IntegrationInv' BY StepOK
<1>3. IntegrationInv /\ [Next]_vars => [TargetMovesExactly]_vars
  <2> SUFFICES ASSUME IntegrationInv, Next, NEW o \in Ops, effect'[o] # effect[o]
               PROVE  LET n == approval[o] t == TargetOf[n] IN
                      /\ n \in verified /\ lock[t] = o /\ journal[o] = None
                      /\ target[t] = Expected[n] /\ target'[t] = Candidate[n]
    BY DEF TargetMovesExactly
  <2>1. updateRef /\ moveTo(pc.op, node) /\ current = Expected[node]
    <3>1. ASSUME NEW s, SettleLocal(s) PROVE effect' = effect
      BY <3>1 DEF SettleLocal, branch
    <3>2. recoverOrExecute \/ executeCAS \/ IntegrateExactTarget \/ Refuse
            \/ confirmIntegrationTarget \/ inspectTarget => effect' = effect
      BY <3>1 DEF recoverOrExecute, executeCAS, IntegrateExactTarget, Refuse,
                  confirmIntegrationTarget, inspectTarget, branch
    <3>3. PutIntent \/ Retain \/ RetainRefused \/ Crash \/ SupersedePlan \/ RevokeDevice
            => effect' = effect
      BY DEF PutIntent, Retain, RetainRefused, Crash, SupersedePlan, RevokeDevice, branch
    <3>4. \A n \in Nodes : Verify(n) \/ Reconcile(n) \/ RevokeGrant(n) => effect' = effect
      BY DEF Verify, Reconcile, RevokeGrant, branch
    <3>5. \A q \in Ops, n \in Nodes : Approve(q, n) => effect' = effect
      BY DEF Approve, branch
    <3>6. \A q \in Ops : Get(q) => effect' = effect
      BY DEF Get, branch
    <3>7. \A t \in Targets, c \in Commits : OwnerMoves(t, c) => effect' = effect
      BY DEF OwnerMoves
    <3>8. \A t \in Targets : OwnerChecksOut(t) => effect' = effect
      BY DEF OwnerChecksOut, branch
    <3>9. updateRef BY <3>2, <3>3, <3>4, <3>5, <3>6, <3>7, <3>8 DEF Next, Execute
    <3> QED BY <3>9 DEF updateRef, branch
  <2>2. pc # None /\ pc.at = "update" BY <2>1 DEF updateRef
  <2>3. /\ pc.op \in Ops /\ node \in Nodes /\ TargetOf[node] \in Targets
        /\ node = approval[pc.op] /\ current = target[TargetOf[node]]
        /\ branchOf(pc.op) = TargetOf[node]
    BY <2>2, Running
  <2>4. approval[pc.op] # None /\ journal[pc.op] = None
    BY <2>2 DEF IntegrationInv, Executing
  <2>5. pc.op = o BY <2>1, <2>3 DEF moveTo, IntegrationInv, TypeOK
  <2>6. approval[o] \in verified /\ lock[TargetOf[node]] = o
    BY <2>3, <2>4, <2>5, LockExcludes DEF IntegrationInv, Recorded
  <2>7. target'[TargetOf[node]] = Candidate[node]
    BY <2>1, <2>3 DEF moveTo, IntegrationInv, TypeOK
  <2> QED BY <2>1, <2>3, <2>4, <2>5, <2>6, <2>7
<1> QED BY <1>1, <1>2, <1>3, PTL DEF Spec, BranchMovesExactly

-----------------------------------------------------------------------------
(* Verification: the inductive invariant                                   *)
(*                                                                         *)
(* What is retained of a profile was journaled, logged and admitted, in     *)
(* this order, and what is journaled of a process is how the process that   *)
(* was seen is classified.  The position of the Bridge tells how far the    *)
(* profile at hand has come.                                                *)

\* A journaled ending is the classification of what was seen.
TrueEnding(p, r) == r.outcome = outcome(p, r.seen)

EndingsTrue == \A p \in Ids :
  /\ terminal[p] # Nothing => TrueEnding(p, terminal[p]) /\ ran[p] > 0
  /\ file[p] # Nothing => file[p] = terminal[p] /\ p \in logged
  /\ p \in logged => p \in operation
  /\ kept[p] # Nothing => file[p] # Nothing /\ kept[p] = file[p].outcome

\* What the position of VerifyCaptured is worth.
Verifying ==
  job # Nothing /\ job.at # "seal" =>
    /\ required \in Ids /\ job.i \in 1..Len(Profiles)
    /\ job.at \in {"begin", "start"} => terminal[required] = Nothing
    /\ job.at \in {"start", "record"} => required \in operation
    /\ job.at = "record" => /\ job.res \in Endings /\ TrueEnding(required, job.res)
                            /\ ran[required] > 0
    /\ job.at \in {"publish", "put", "retain"} => terminal[required] # Nothing
    /\ job.at = "put" => required \in logged
    /\ job.at = "retain" => file[required] # Nothing

OutputPassed == output => \A p \in Ids : kept[p] = "passed"

VerificationInv ==
  VerifyTypeOK /\ CompletedIsSealed /\ EndingsTrue /\ Verifying /\ OutputPassed

JobType == [at : Steps, i : 0..Len(Profiles), res : Endings \cup {Nothing}]

\* What is known of the required profiles.
LEMMA ProfileFacts ==
  /\ Len(Profiles) \in Nat
  /\ \A i \in 1..Len(Profiles) : Profiles[i] \in Ids
  /\ Ids # {} => 1 \in 1..Len(Profiles)
<1>1. Len(Profiles) \in Nat BY VerificationAssumption
<1>2. \A i \in 1..Len(Profiles) : Profiles[i] \in Ids BY DEF Ids
<1>3. Ids # {} => 1 \in 1..Len(Profiles) BY <1>1 DEF Ids
<1> QED BY <1>1, <1>2, <1>3

\* Whatever was seen of a process has one classification, and what passed was spawned,

\* succeeded and was not cut short (RunInRoot, runBrowser).
LEMMA Classified ==
  ASSUME NEW p, NEW s \in Observations
  PROVE  /\ outcome(p, s) \in Results /\ exitCode(p, s) \in {Nothing, 0, 1}
         /\ outcome(p, s) = "passed" =>
              /\ s.spawned /\ s.zero /\ ~s.truncated /\ ~s.expired /\ ~s.canceled
              /\ p \in Browsers => ~s.dirty
<1>1. RunInRoot(s) \in Results /\ (RunInRoot(s) = "passed" =>
        s.spawned /\ s.zero /\ ~s.truncated /\ ~s.expired /\ ~s.canceled)
  BY DEF RunInRoot, Results
<1>2. runBrowser(s) \in Results /\ (runBrowser(s) = "passed" =>
        s.spawned /\ s.zero /\ ~s.truncated /\ ~s.expired /\ ~s.canceled /\ ~s.dirty)
  BY DEF runBrowser, Results
<1>3. exitCode(p, s) \in {Nothing, 0, 1} BY DEF exitCode
<1> QED BY <1>1, <1>2, <1>3 DEF outcome

\* It contains what the verification promises.
LEMMA VerificationInvTrue == VerificationInv => VerificationTrue
<1> SUFFICES ASSUME VerificationInv PROVE VerificationTrue OBVIOUS
<1> USE DEF VerificationInv
<1>1. ReceiptIsTerminal BY DEF EndingsTrue, ReceiptIsTerminal
<1>2. VerifiedIsTrue
  <2> SUFFICES ASSUME output, NEW p \in Ids
               PROVE  /\ terminal[p] # Nothing
                      /\ terminal[p].seen.spawned /\ terminal[p].seen.zero
                      /\ ~terminal[p].seen.truncated /\ ~terminal[p].seen.expired
                      /\ ~terminal[p].seen.canceled
                      /\ p \in Browsers => ~terminal[p].seen.dirty
    BY DEF VerifiedIsTrue
  <2>1. kept[p] = "passed" /\ kept[p] # Nothing
    BY VerificationAssumption DEF OutputPassed, Results
  <2>2. terminal[p] # Nothing /\ terminal[p].outcome = "passed"
    BY <2>1 DEF EndingsTrue
  <2>3. terminal[p] \in Endings BY <2>2 DEF VerifyTypeOK
  <2>4. terminal[p].seen \in Observations BY <2>3 DEF Endings
  <2>5. outcome(p, terminal[p].seen) = "passed" BY <2>2 DEF EndingsTrue, TrueEnding
  <2> QED BY <2>2, <2>4, <2>5, Classified
<1> QED BY <1>1, <1>2 DEF VerificationTrue

\* It holds of a Run whose Agent has just finished.
LEMMA VerifyInitOK == VerifyInit => VerificationInv
<1> SUFFICES ASSUME VerifyInit PROVE VerificationInv OBVIOUS
<1> USE VerificationAssumption DEF VerifyInit
<1>1. VerifyTypeOK
  <2>1. calls \in 0..Calls /\ losses \in 0..MaxLosses /\ changes \in 0..MaxChanges OBVIOUS
  <2>2. /\ terminal \in [Ids -> Endings \cup {Nothing}] /\ file \in [Ids -> Endings \cup {Nothing}]
        /\ kept \in [Ids -> Results \cup {Nothing}] /\ ran \in [Ids -> Nat]
        /\ profile \in [Ids -> {"registered", "changed", "revoked"}]
    BY Zenon
  <2> QED BY <2>1, <2>2 DEF VerifyTypeOK
<1>2. CompletedIsSealed BY DEF CompletedIsSealed
<1>3. EndingsTrue BY DEF EndingsTrue
<1>4. Verifying BY DEF Verifying
<1>5. OutputPassed BY DEF OutputPassed
<1> QED BY <1>1, <1>2, <1>3, <1>4, <1>5 DEF VerificationInv

\* A step that leaves journals and receipts alone and brings the Bridge to no profile.
LEMMA OutsideKeeps ==
  ASSUME VerificationInv, VerifyTypeOK', CompletedIsSealed',
         UNCHANGED <<terminal, file, logged, operation, kept, ran, output>>,
         job' = Nothing \/ job'.at = "seal" \/ job' = job
  PROVE  VerificationInv'
<1> USE DEF VerificationInv
<1>1. EndingsTrue' BY DEF EndingsTrue
<1>2. OutputPassed' BY DEF OutputPassed
<1>3. Verifying' BY DEF Verifying, required
<1> QED BY <1>1, <1>2, <1>3

\* The capture, the end of the Run, what is refused and what the owner changes
LEMMA OutsideSteps ==
  ASSUME VerificationInv, CaptureCompleted \/ captureOutcomeUnknown \/ Seal \/ refused \/ Complete \/ Change
  PROVE  VerificationInv'
<1> USE DEF VerificationInv
<1>1. UNCHANGED <<terminal, file, logged, operation, kept, ran, output>>
  BY DEF CaptureCompleted, captureOutcomeUnknown, Seal, refused, Complete, Change,
         verificationRows, journals
<1>2. CompletedIsSealed'
  BY DEF CaptureCompleted, captureOutcomeUnknown, Seal, refused, Complete, Change,
         verificationRows, CompletedIsSealed
<1>3. job' \in {Nothing, job, [at |-> "seal", i |-> 0, res |-> Nothing]}
  BY DEF CaptureCompleted, captureOutcomeUnknown, Seal, refused, Complete, Change
<1>4. job' \in JobType \cup {Nothing}
  <2>1. [at |-> "seal", i |-> 0, res |-> Nothing] \in JobType
    BY ProfileFacts DEF JobType, Steps
  <2> QED BY <1>3, <2>1 DEF VerifyTypeOK, JobType
<1>5. /\ run' \in {"finished", "captured", "completed", "unknown"}
      /\ lease' \in BOOLEAN /\ capture' \in {Nothing, "begun", "sealed"}
  BY DEF CaptureCompleted, captureOutcomeUnknown, Seal, refused, Complete, Change,
         verificationRows, VerifyTypeOK
<1>6. /\ approved' \in BOOLEAN /\ grant' \subseteq {"capture", "verify"} /\ late' \in BOOLEAN
      /\ profile' \in [Ids -> {"registered", "changed", "revoked"}]
  BY DEF CaptureCompleted, captureOutcomeUnknown, Seal, refused, Complete, Change, Revoke,
         Replace, EndGrant, Supersede, Expire, verificationRows, owner, VerifyTypeOK
<1>7. calls' \in 0..Calls /\ losses' \in 0..MaxLosses /\ changes' \in 0..MaxChanges
  BY VerificationAssumption
     DEF CaptureCompleted, captureOutcomeUnknown, Seal, refused, Complete, Change, Works,
         owner, VerifyTypeOK
<1>8. VerifyTypeOK' BY <1>1, <1>4, <1>5, <1>6, <1>7 DEF VerifyTypeOK, JobType
<1> QED BY <1>1, <1>2, <1>3, <1>8, OutsideKeeps

\* At a profile: what is known of the Bridge's position.
LEMMA AtProfile ==
  ASSUME VerificationInv, job # Nothing, job.at # "seal"
  PROVE  /\ job \in JobType /\ required \in Ids /\ job.i \in 1..Len(Profiles)
BY DEF VerificationInv, VerifyTypeOK, Verifying, JobType

\* A step of the Bridge that only changes its position, within the same profile.
LEMMA GotoMoves ==
  ASSUME VerificationInv, job # Nothing, job.at # "seal", NEW x \in Steps, goto(x)
  PROVE  /\ job' \in JobType /\ job'.at = x /\ job'.i = job.i /\ required' = required
<1>1. job \in JobType BY AtProfile
<1>2. job' = [job EXCEPT !.at = x] BY DEF goto
<1>3. job' \in JobType /\ job'.at = x /\ job'.i = job.i BY <1>1, <1>2 DEF JobType
<1> QED BY <1>3 DEF required

\* The types after a step of the verification.
LEMMA VerifyingTypes ==
  ASSUME VerifyTypeOK, UNCHANGED <<run, lease, approved, capture, owner>>,
         job' \in JobType \cup {Nothing}, operation' \subseteq Ids, logged' \subseteq Ids,
         terminal' \in [Ids -> Endings \cup {Nothing}], file' \in [Ids -> Endings \cup {Nothing}],
         kept' \in [Ids -> Results \cup {Nothing}], output' \in BOOLEAN, ran' \in [Ids -> Nat],
         calls' \in 0..Calls, losses' \in 0..MaxLosses
  PROVE  VerifyTypeOK'
BY DEF VerifyTypeOK, owner, JobType

\* VerifyCaptured: the first profile, where there is one.
LEMMA VerifyCapturedKeeps ==
  ASSUME VerificationInv, VerifyCaptured
  PROVE  VerificationInv'
<1> USE DEF VerificationInv
<1>1. /\ UNCHANGED <<run, verificationRows, owner, journals, ran, losses>>
      /\ calls < Calls /\ calls' = calls + 1
      /\ job' = Nothing \/ (Ids # {} /\ job' = [at |-> "look", i |-> 1, res |-> Nothing])
  BY DEF VerifyCaptured
<1>2. job' \in JobType \cup {Nothing}
  BY <1>1, ProfileFacts DEF JobType, Steps
<1>3. calls' \in 0..Calls BY <1>1, VerificationAssumption DEF VerifyTypeOK
<1>4. VerifyTypeOK'
  BY <1>1, <1>2, <1>3, VerifyingTypes DEF VerifyTypeOK, verificationRows, journals
<1>5. CompletedIsSealed' /\ EndingsTrue' /\ OutputPassed'
  BY <1>1 DEF CompletedIsSealed, EndingsTrue, OutputPassed, verificationRows, journals
<1>6. Verifying' BY <1>1, ProfileFacts DEF Verifying, required
<1> QED BY <1>4, <1>5, <1>6

\* look, begin and publish: from one position of a profile to the next
LEMMA LookingKeeps ==
  ASSUME VerificationInv, look \/ begin \/ publish
  PROVE  VerificationInv'
<1> USE DEF VerificationInv
<1>1. /\ job # Nothing /\ job.at \in {"look", "begin", "publish"}
      /\ UNCHANGED <<run, lease, approved, capture, kept, output, owner, journals, ran, calls, losses>>
  BY DEF look, begin, publish, at, verificationRows
<1>2. PICK x \in {"retain", "publish", "begin", "start", "put"} : goto(x)
  BY DEF look, begin, publish
<1>3. job \in JobType /\ required \in Ids /\ job.i \in 1..Len(Profiles) BY <1>1, AtProfile
<1>4. job' \in JobType /\ job'.at = x /\ job'.i = job.i /\ required' = required
  BY <1>1, <1>2, GotoMoves DEF Steps
<1>5. /\ operation' \in {operation, operation \cup {required}}
      /\ logged' = logged \/ (logged' = logged \cup {required} /\ required \in operation)
  BY DEF look, begin, publish, verificationRows
<1>6. VerifyTypeOK'
  <2>1. operation' \subseteq Ids /\ logged' \subseteq Ids BY <1>3, <1>5 DEF VerifyTypeOK
  <2> QED BY <1>1, <1>4, <2>1, VerifyingTypes DEF VerifyTypeOK, journals
<1>7. CompletedIsSealed' BY <1>1 DEF CompletedIsSealed
<1>8. EndingsTrue' BY <1>1, <1>5 DEF EndingsTrue, journals
<1>9. OutputPassed' BY <1>1 DEF OutputPassed
<1>10. /\ x \in {"begin", "start"} => terminal[required] = Nothing
       /\ x = "start" => required \in operation'
       /\ x \in {"publish", "put", "retain"} => terminal[required] # Nothing
       /\ x = "put" => required \in logged'
       /\ x = "retain" => file[required] # Nothing
  <2>1. CASE look
    <3>1. \/ x = "retain" /\ file[required] # Nothing
          \/ x = "publish" /\ terminal[required] # Nothing
          \/ x = "begin" /\ terminal[required] = Nothing
      <4>1. \/ file[required] # Nothing /\ goto("retain")
            \/ terminal[required] # Nothing /\ goto("publish")
            \/ terminal[required] = Nothing /\ goto("begin")
        BY <2>1 DEF look
      <4>2. \A y \in Steps : goto(y) => y = x
        BY <1>1, <1>4, GotoMoves
      <4> QED BY <4>1, <4>2 DEF Steps
    <3>2. file[required] # Nothing => terminal[required] # Nothing
      BY <1>3 DEF EndingsTrue
    <3> QED BY <3>1, <3>2
  <2>2. CASE begin
    <3>1. goto("start") /\ job.at = "begin" /\ required \in operation'
      BY <2>2 DEF begin, at
    <3>2. x = "start" BY <1>1, <1>4, <3>1, GotoMoves DEF Steps
    <3> QED BY <1>1, <3>1, <3>2 DEF Verifying
  <2>3. CASE publish
    <3>1. goto("put") /\ job.at = "publish" /\ required \in logged'
      BY <2>3 DEF publish, at
    <3>2. x = "put" BY <1>1, <1>4, <3>1, GotoMoves DEF Steps
    <3> QED BY <1>1, <3>1, <3>2 DEF Verifying
  <2> QED BY <2>1, <2>2, <2>3
<1>11. Verifying' BY <1>1, <1>3, <1>4, <1>10 DEF Verifying, journals
<1> QED BY <1>6, <1>7, <1>8, <1>9, <1>11

\* A process runs, and its end is what is to be recorded.
LEMMA StartKeeps ==
  ASSUME VerificationInv, start
  PROVE  VerificationInv'
<1> USE DEF VerificationInv
<1>1. /\ job # Nothing /\ job.at = "start" /\ ran' = [ran EXCEPT ![required] = @ + 1]
      /\ UNCHANGED <<run, verificationRows, owner, journals, calls, losses>>
  BY DEF start, at
<1>2. PICK s \in Observations :
        job' = [job EXCEPT !.at = "record",
                           !.res = [outcome |-> outcome(required, s), exit |-> exitCode(required, s),
                                    seen |-> s, late |-> late]]
  BY Zenon DEF start
<1> DEFINE r == [outcome |-> outcome(required, s), exit |-> exitCode(required, s),
                 seen |-> s, late |-> late]
<1>3. job \in JobType /\ required \in Ids /\ job.i \in 1..Len(Profiles) BY <1>1, AtProfile
<1>4. r \in Endings /\ TrueEnding(required, r)
  BY Classified DEF Endings, TrueEnding, VerifyTypeOK
<1>5. job' \in JobType /\ job'.at = "record" /\ job'.i = job.i /\ job'.res = r
  <2>1. job' = [job EXCEPT !.at = "record", !.res = r] BY <1>2
  <2> HIDE DEF r
  <2> QED BY <1>3, <1>4, <2>1 DEF JobType, Steps
<1> HIDE DEF r
<1>6. required' = required BY <1>5 DEF required
<1>7. /\ ran' \in [Ids -> Nat] /\ ran'[required] > 0 /\ \A p \in Ids : ran[p] > 0 => ran'[p] > 0
  BY <1>1, <1>3 DEF VerifyTypeOK
<1>8. VerifyTypeOK'
  BY <1>1, <1>5, <1>7, VerifyingTypes DEF VerifyTypeOK, verificationRows, journals
<1>9. CompletedIsSealed' /\ OutputPassed'
  BY <1>1 DEF CompletedIsSealed, OutputPassed, verificationRows
<1>10. EndingsTrue' BY <1>1, <1>7 DEF EndingsTrue, verificationRows, journals
<1>11. required \in operation' BY <1>1 DEF Verifying, verificationRows
<1>12. Verifying' BY <1>3, <1>4, <1>5, <1>6, <1>7, <1>11 DEF Verifying
<1> QED BY <1>8, <1>9, <1>10, <1>12

\* The end of a process enters the journal once.
LEMMA RecordEnds ==
  ASSUME VerificationInv, record
  PROVE  VerificationInv'
<1> USE DEF VerificationInv
<1>1. /\ job # Nothing /\ job.at = "record" /\ terminal[required] \in {Nothing, job.res}
      /\ terminal' = [terminal EXCEPT ![required] = job.res]
      /\ job' = [job EXCEPT !.at = "publish", !.res = Nothing]
      /\ UNCHANGED <<run, verificationRows, owner, file, ran, calls, losses>>
  BY DEF record, at
<1>2. job \in JobType /\ required \in Ids /\ job.i \in 1..Len(Profiles) BY <1>1, AtProfile
<1>3. job' \in JobType /\ job'.at = "publish" /\ job'.i = job.i BY <1>1, <1>2 DEF JobType, Steps
<1>4. required' = required BY <1>3 DEF required
<1>5. job.res \in Endings /\ TrueEnding(required, job.res) /\ ran[required] > 0 /\ job.res # Nothing
  BY <1>1, VerificationAssumption DEF Verifying
<1>6. /\ terminal' \in [Ids -> Endings \cup {Nothing}] /\ terminal'[required] = job.res
      /\ \A p \in Ids : p # required => terminal'[p] = terminal[p]
      /\ \A p \in Ids : terminal[p] # Nothing => terminal'[p] = terminal[p]
  BY <1>1, <1>2, <1>5 DEF VerifyTypeOK
<1>7. VerifyTypeOK'
  BY <1>1, <1>3, <1>6, VerifyingTypes DEF VerifyTypeOK, verificationRows
<1>8. CompletedIsSealed' /\ OutputPassed'
  BY <1>1 DEF CompletedIsSealed, OutputPassed, verificationRows
<1>9. EndingsTrue'
  <2> SUFFICES ASSUME NEW p \in Ids
               PROVE  /\ terminal'[p] # Nothing => TrueEnding(p, terminal'[p]) /\ ran'[p] > 0
                      /\ file'[p] # Nothing => file'[p] = terminal'[p] /\ p \in logged'
                      /\ p \in logged' => p \in operation'
                      /\ kept'[p] # Nothing => file'[p] # Nothing /\ kept'[p] = file'[p].outcome
    BY DEF EndingsTrue, TrueEnding
  <2>1. terminal'[p] # Nothing => TrueEnding(p, terminal'[p]) /\ ran'[p] > 0
    BY <1>1, <1>5, <1>6 DEF EndingsTrue
  <2>2. file'[p] # Nothing => file'[p] = terminal'[p] /\ p \in logged'
    BY <1>1, <1>6 DEF EndingsTrue, verificationRows
  <2> QED BY <1>1, <2>1, <2>2 DEF EndingsTrue, verificationRows
<1>10. Verifying' BY <1>2, <1>3, <1>4, <1>5, <1>6 DEF Verifying
<1> QED BY <1>7, <1>8, <1>9, <1>10

\* The receipt of the journal is the end that was recorded.
LEMMA PutKeeps ==
  ASSUME VerificationInv, put
  PROVE  VerificationInv'
<1> USE DEF VerificationInv
<1>1. /\ job # Nothing /\ job.at = "put" /\ goto("retain")
      /\ file' = [file EXCEPT ![required] = terminal[required]]
      /\ UNCHANGED <<run, verificationRows, owner, terminal, ran, calls, losses>>
  BY DEF put, at
<1>2. job \in JobType /\ required \in Ids /\ job.i \in 1..Len(Profiles) BY <1>1, AtProfile
<1>3. job' \in JobType /\ job'.at = "retain" /\ job'.i = job.i /\ required' = required
  BY <1>1, GotoMoves DEF Steps
<1>4. terminal[required] # Nothing /\ required \in logged BY <1>1 DEF Verifying
<1>5. /\ file' \in [Ids -> Endings \cup {Nothing}] /\ file'[required] = terminal[required]
      /\ \A p \in Ids : p # required => file'[p] = file[p]
      /\ \A p \in Ids : file[p] # Nothing => file'[p] = file[p]
  BY <1>1, <1>2 DEF VerifyTypeOK, EndingsTrue
<1>6. VerifyTypeOK'
  BY <1>1, <1>3, <1>5, VerifyingTypes DEF VerifyTypeOK, verificationRows
<1>7. CompletedIsSealed' /\ OutputPassed'
  BY <1>1 DEF CompletedIsSealed, OutputPassed, verificationRows
<1>8. EndingsTrue'
  <2> SUFFICES ASSUME NEW p \in Ids
               PROVE  /\ terminal'[p] # Nothing => TrueEnding(p, terminal'[p]) /\ ran'[p] > 0
                      /\ file'[p] # Nothing => file'[p] = terminal'[p] /\ p \in logged'
                      /\ p \in logged' => p \in operation'
                      /\ kept'[p] # Nothing => file'[p] # Nothing /\ kept'[p] = file'[p].outcome
    BY DEF EndingsTrue, TrueEnding
  <2>1. file'[p] # Nothing => file'[p] = terminal'[p] /\ p \in logged'
    BY <1>1, <1>4, <1>5 DEF EndingsTrue, verificationRows
  <2>2. kept'[p] # Nothing => file'[p] # Nothing /\ kept'[p] = file'[p].outcome
    BY <1>1, <1>5 DEF EndingsTrue, verificationRows
  <2> QED BY <1>1, <2>1, <2>2 DEF EndingsTrue, verificationRows
<1>9. Verifying' BY <1>1, <1>2, <1>3, <1>4, <1>5 DEF Verifying
<1> QED BY <1>6, <1>7, <1>8, <1>9

\* A receipt Central keeps is the journaled one, and never replaces another.
LEMMA KeptGrows ==
  ASSUME VerificationInv, job # Nothing, job.at = "retain",
         kept[required] \in {Nothing, file[required].outcome},
         kept' = [kept EXCEPT ![required] = file[required].outcome],
         UNCHANGED <<run, lease, approved, capture, operation, logged, output, owner, journals, ran>>
  PROVE  kept' \in [Ids -> Results \cup {Nothing}] /\ EndingsTrue' /\ OutputPassed'
<1> USE DEF VerificationInv
<1>1. job \in JobType /\ required \in Ids BY AtProfile
<1>2. file[required] # Nothing BY DEF Verifying
<1>3. file[required] \in Endings BY <1>1, <1>2 DEF VerifyTypeOK
<1>4. file[required].outcome \in Results BY <1>3 DEF Endings
<1>5. /\ kept' \in [Ids -> Results \cup {Nothing}] /\ kept'[required] = file[required].outcome
      /\ \A p \in Ids : p # required => kept'[p] = kept[p]
      /\ \A p \in Ids : kept[p] # Nothing => kept'[p] = kept[p]
  BY <1>1, <1>4 DEF VerifyTypeOK
<1>6. EndingsTrue'
  <2> SUFFICES ASSUME NEW p \in Ids
               PROVE  /\ terminal'[p] # Nothing => TrueEnding(p, terminal'[p]) /\ ran'[p] > 0
                      /\ file'[p] # Nothing => file'[p] = terminal'[p] /\ p \in logged'
                      /\ p \in logged' => p \in operation'
                      /\ kept'[p] # Nothing => file'[p] # Nothing /\ kept'[p] = file'[p].outcome
    BY DEF EndingsTrue, TrueEnding
  <2>1. kept'[p] # Nothing => file'[p] # Nothing /\ kept'[p] = file'[p].outcome
    BY <1>2, <1>5 DEF EndingsTrue, journals
  <2> QED BY <2>1 DEF EndingsTrue, journals
<1>7. OutputPassed' BY <1>5, VerificationAssumption DEF OutputPassed, Results
<1> QED BY <1>5, <1>6, <1>7

\* retain, and on to the next profile
LEMMA RetainsKeep ==
  ASSUME VerificationInv, retain
  PROVE  VerificationInv'
<1> USE DEF VerificationInv
<1>1. /\ job # Nothing /\ job.at = "retain" /\ kept[required] \in {Nothing, file[required].outcome}
      /\ kept' = [kept EXCEPT ![required] = file[required].outcome]
      /\ UNCHANGED <<run, lease, approved, capture, operation, logged, output, owner, journals,
                     ran, calls, losses>>
  BY DEF retain, at
<1>2. \/ job' = Nothing
      \/ job.i # Len(Profiles) /\ job' = [at |-> "look", i |-> job.i + 1, res |-> Nothing]
  BY DEF retain, advance
<1>3. job \in JobType /\ required \in Ids /\ job.i \in 1..Len(Profiles) BY <1>1, AtProfile
<1>4. kept' \in [Ids -> Results \cup {Nothing}] /\ EndingsTrue' /\ OutputPassed'
  BY <1>1, KeptGrows
<1>5. job.i # Len(Profiles) => job.i + 1 \in 1..Len(Profiles) BY <1>3, ProfileFacts
<1>6. job' \in JobType \cup {Nothing} BY <1>2, <1>5 DEF JobType, Steps
<1>7. VerifyTypeOK' BY <1>1, <1>4, <1>6, VerifyingTypes DEF VerifyTypeOK, journals
<1>8. CompletedIsSealed' BY <1>1 DEF CompletedIsSealed
<1>9. Verifying' BY <1>2, <1>5, ProfileFacts DEF Verifying, required
<1> QED BY <1>4, <1>7, <1>8, <1>9

\* A lost request, after which Central may have the receipt all the same
LEMMA FaultKeeps ==
  ASSUME VerificationInv, Fault
  PROVE  VerificationInv'
<1> USE DEF VerificationInv
<1>1. /\ job # Nothing /\ job' = Nothing /\ losses < MaxLosses /\ losses' = losses + 1
      /\ UNCHANGED <<run, lease, approved, capture, operation, logged, output, owner, journals,
                     ran, calls>>
  BY DEF Fault, MayFail
<1>2. losses' \in 0..MaxLosses BY <1>1, VerificationAssumption DEF VerifyTypeOK
<1>3. CompletedIsSealed' BY <1>1 DEF CompletedIsSealed
<1>4. kept' \in [Ids -> Results \cup {Nothing}] /\ EndingsTrue' /\ OutputPassed'
  <2>1. CASE UNCHANGED kept
    BY <1>1, <2>1 DEF VerifyTypeOK, EndingsTrue, OutputPassed, journals
  <2>2. CASE /\ at("retain") /\ kept[required] = Nothing
             /\ kept' = [kept EXCEPT ![required] = file[required].outcome]
    BY <1>1, <2>2, KeptGrows DEF at
  <2> QED BY <2>1, <2>2 DEF Fault
<1>5. VerifyTypeOK' BY <1>1, <1>2, <1>4, VerifyingTypes DEF VerifyTypeOK, journals
<1>6. Verifying' BY <1>1 DEF Verifying
<1> QED BY <1>3, <1>4, <1>5, <1>6

\* The materialization rests on receipts that passed.
LEMMA MaterializeKeeps ==
  ASSUME VerificationInv, Materialize
  PROVE  VerificationInv'
<1> USE DEF VerificationInv
<1>1. /\ output' = TRUE /\ \A p \in Ids : kept[p] = "passed"
      /\ UNCHANGED <<run, lease, approved, capture, operation, logged, kept, owner, journals,
                     job, ran, calls, losses>>
  BY DEF Materialize, allPassed
<1>2. VerifyTypeOK' BY <1>1, VerifyingTypes DEF VerifyTypeOK, journals, JobType
<1>3. CompletedIsSealed' BY <1>1 DEF CompletedIsSealed
<1>4. EndingsTrue' BY <1>1 DEF EndingsTrue, journals
<1>5. Verifying' BY <1>1 DEF Verifying, required, journals
<1>6. OutputPassed' BY <1>1 DEF OutputPassed
<1> QED BY <1>2, <1>3, <1>4, <1>5, <1>6

-----------------------------------------------------------------------------
(* The theorems about a verification                                       *)

\* Every step of the Bridge, of Central and of the owner keeps the invariant.
LEMMA VerifyStep == VerificationInv /\ [VerifyNext]_verifyVars => VerificationInv'
<1> SUFFICES ASSUME VerificationInv, [VerifyNext]_verifyVars PROVE VerificationInv' OBVIOUS
<1>1. CASE CaptureCompleted \/ captureOutcomeUnknown \/ Seal \/ refused \/ Complete \/ Change
  BY <1>1, OutsideSteps
<1>2. CASE VerifyCaptured BY <1>2, VerifyCapturedKeeps
<1>3. CASE look \/ begin \/ publish BY <1>3, LookingKeeps
<1>4. CASE start BY <1>4, StartKeeps
<1>5. CASE record BY <1>5, RecordEnds
<1>6. CASE put BY <1>6, PutKeeps
<1>7. CASE retain BY <1>7, RetainsKeep
<1>8. CASE Fault BY <1>8, FaultKeeps
<1>9. CASE Materialize BY <1>9, MaterializeKeeps
<1>10. CASE UNCHANGED verifyVars
  <2>1. VerifyTypeOK' /\ CompletedIsSealed'
    BY <1>10 DEF VerificationInv, VerifyTypeOK, CompletedIsSealed, verifyVars,
                 verificationRows, journals, owner
  <2> QED BY <1>10, <2>1, OutsideKeeps DEF verifyVars, verificationRows, journals
<1> QED
  BY <1>1, <1>2, <1>3, <1>4, <1>5, <1>6, <1>7, <1>8, <1>9, <1>10 DEF VerifyNext, Progress

\* For any profiles, calls, losses and changes: completed work is captured, what Central
\* keeps of a profile is the journaled end of a process that ran for an admitted
\* operation, and a verified output rests on processes that really passed (verifyOne,
\* RepositoryVerificationService.retain, VerifiedOutputMaterializer.reconcile).
THEOREM VerificationIsTrue == VerifySpec => []VerificationTrue
<1>1. VerifyInit => VerificationInv BY VerifyInitOK
<1>2. VerificationInv /\ [VerifyNext]_verifyVars => VerificationInv' BY VerifyStep
<1>3. VerificationInv => VerificationTrue BY VerificationInvTrue
<1> QED BY <1>1, <1>2, <1>3, PTL DEF VerifySpec

\* Only the start of a process counts one, and it starts what is admitted and unended.
LEMMA StartsStep == VerificationInv /\ [VerifyNext]_verifyVars => [StartsAuthorized]_verifyVars
<1> SUFFICES ASSUME VerificationInv, VerifyNext PROVE StartsAuthorized OBVIOUS
<1>1. start \/ UNCHANGED ran
  BY DEF VerifyNext, Progress, CaptureCompleted, captureOutcomeUnknown, Seal, refused, Complete,
         Change, VerifyCaptured, look, begin, publish, record, put, retain, Fault, Materialize
<1>2. CASE start
  <2>1. /\ job # Nothing /\ job.at = "start" /\ profile[required] = "registered"
        /\ "verify" \in grant /\ ran' = [ran EXCEPT ![required] = @ + 1]
    BY <1>2 DEF start, at
  <2>2. required \in operation /\ terminal[required] = Nothing
    BY <2>1 DEF VerificationInv, Verifying
  <2>3. \A p \in Ids : ran'[p] # ran[p] => p = required
    BY <2>1 DEF VerificationInv, VerifyTypeOK
  <2> QED BY <2>1, <2>2, <2>3 DEF StartsAuthorized
<1> QED BY <1>1, <1>2 DEF StartsAuthorized

\* For any profiles, calls, losses and changes a verifier starts only for an admitted

\* operation, from a registered profile, under a grant that allows it, and never again
\* once its end is in the journal (verifyOne).
LEMMA StartsAreAuthorized == VerifySpec => [][StartsAuthorized]_verifyVars
<1>1. VerifyInit => VerificationInv BY VerifyInitOK
<1>2. VerificationInv /\ [VerifyNext]_verifyVars => VerificationInv' BY VerifyStep
<1>3. VerificationInv /\ [VerifyNext]_verifyVars => [StartsAuthorized]_verifyVars BY StartsStep
<1> QED BY <1>1, <1>2, <1>3, PTL DEF VerifySpec

-----------------------------------------------------------------------------
(* The publication of Artifacts.                                           *)
(*                                                                         *)
(* PublicationInv relates what Central stores to the request that is        *)
(* between its files and its rows.  A chunk is in the upload before the row *)
(* counts it, and the blob exists before the rows of its seal: a crash      *)
(* there leaves what was acknowledged, and a row never runs ahead of a      *)
(* file.  A blob is only ever made of a file whose digest was right.  Of    *)
(* the publishers it says what an answer still on its way promises, so that *)
(* success means bound however the request was repeated.                    *)

\* A blob is whole as soon as it exists: it is renamed from an upload whose digest was right.
BlobsWhole == \A c \in Contents : blob[c] # Missing => blob[c] = Right(Size[c])

\* What is stored for a row: f is its upload, b the blob of its content of n bytes.
Stored(row, f, b, over, n) ==
  (row # Missing /\ row.state \in Live /\ ~over) =>
    \/ row.received = 0
    \/ f # Missing /\ matches(f, 0, row.received)
    \/ row.received = n /\ b = Right(n)

\* What is written to files of the request whose rows are not.
Interrupted ==
  cur # Missing =>
    /\ cur.op \in {"chunk", "seal"} /\ IsLive(cur.k)
    /\ cur.op = "chunk" =>
         /\ cur.off = pub[cur.k].received /\ cur.off + cur.n <= Sizes(cur.k)
         /\ tmp[cur.k] # Missing /\ matches(tmp[cur.k], 0, cur.off + cur.n)
    /\ cur.op = "seal" => pub[cur.k].received = Sizes(cur.k) /\ blob[ContentOf[cur.k]] # Missing

\* An Artifact names its publication, and a publication one Artifact.
ArtifactsOnce ==
  /\ \A i, j \in DOMAIN arts : arts[i].key = arts[j].key => i = j
  /\ \A k \in Keys : (pub[k] # Missing /\ pub[k].state = "bound") <=> \E i \in DOMAIN arts : arts[i].key = k

\* What holds of the publisher x of the publication k: q is its request, a the answer on its
\* way, w the request whose rows are still to be written, row the row of k.
PublisherTrue(k, x, q, a, w, row) ==
  /\ q # Missing => a = Missing
  /\ q # Missing \/ a # Missing => x.at \in {"prepare", "chunk", "seal", "bind"}
  /\ x.asking => x.at \in {"chunk", "seal", "bind"}
  /\ q = "serving" => w # Missing /\ w.k = k /\ x.at \in {"chunk", "seal"} /\ ~x.asking
  /\ x.at \in {"chunk", "seal", "bind", "done"} => row # Missing
  /\ x.view.received <= Sizes(k)
  /\ x.at = "chunk" => x.view.received < Sizes(k)
  /\ a # Missing /\ a.ok =>
       /\ row # Missing /\ a.received <= Sizes(k) /\ a.state \in States
       /\ x.at = "bind" /\ ~x.asking => row.state = "bound"
  /\ x.at = "done" => row.state = "bound"

\* What every publisher was told and waits for is so, and a request nobody waits for
\* supposes a publication that exists.
Publishing ==
  /\ \A c \in Clients : PublisherTrue(KeyOf[c], client[c], req[c], ans[c], cur, pub[KeyOf[c]])
  /\ \A r \in strays : (r.op # "prepare" => pub[r.k] # Missing) /\ (r.op = "chunk" => r.n > 0)

\* The rows and files of Central.
StoreInv ==
  /\ pub \in [Keys -> {Missing} \cup UploadRows]
  /\ \A k \in Keys : pub[k] # Missing => pub[k].received <= Sizes(k)
  /\ tmp \in [Keys -> {Missing} \cup Seq(BOOLEAN)]
  /\ blob \in [Contents -> {Missing} \cup Seq(BOOLEAN)]
  /\ rows \subseteq Contents /\ arts \in Seq([key : Keys, content : Contents])
  /\ cur \in {Missing} \cup Requests
  /\ SealedIsWhole /\ BlobsWhole /\ AcknowledgedIsStored /\ NoBypass /\ ArtifactsOnce /\ Interrupted

\* The publishers and their requests.
PublisherInv ==
  /\ strays \subseteq Requests /\ client \in [Clients -> Publishers]
  /\ req \in [Clients -> {Missing} \cup {"sent", "serving", "gone"}]
  /\ ans \in [Clients -> {Missing} \cup Answers]
  /\ Publishing

PublicationInv ==
  /\ StoreInv /\ PublisherInv
  /\ due \subseteq Keys /\ sources \subseteq Keys /\ mishaps \in 0..MaxMishaps

\* How the row of a publication moves while no file becomes a blob.
RowMoves(old, new) ==
  \/ new = old
  \/ old = Missing /\ new = Row("prepared", 0)
  \/ /\ old # Missing /\ old.state \in Live
     /\ new = Row("expired", old.received) \/ new = Row("failed", old.received)

\* What an answer a to the request r says is so, and a request that has no answer yet is
\* the one whose rows are still to be written.
TellsTrue(r, a) ==
  /\ a = Missing => r.op \in {"chunk", "seal"} /\ cur' # Missing /\ cur'.k = r.k
  /\ a # Missing /\ a.ok =>
       /\ pub'[r.k] # Missing /\ a.received <= Sizes(r.k) /\ a.state \in States
       /\ r.op = "bind" => pub'[r.k].state = "bound"

\* The declared length of a publication.
LEMMA SizeFacts ==
  ASSUME NEW k \in Keys
  PROVE  ContentOf[k] \in Contents /\ Sizes(k) \in Nat /\ Sizes(k) > 0 /\ Sizes(k) = Size[ContentOf[k]]
BY PublicationAssumption DEF Sizes

\* Files: what the publisher sent is a sequence of bytes.
LEMMA RightFacts ==
  ASSUME NEW n \in Nat
  PROVE  Right(n) \in Seq(BOOLEAN) /\ Len(Right(n)) = n /\ \A i \in 1..n : Right(n)[i] = TRUE
<1>1. Right(n) \in [1..n -> BOOLEAN] BY DEF Right
<1>2. Right(n) \in Seq(BOOLEAN) /\ Len(Right(n)) = n BY <1>1 DEF Right
<1> QED BY <1>2 DEF Right

\* A file that starts with n right bytes.
LEMMA RightPrefix ==
  ASSUME NEW f \in Seq(BOOLEAN), NEW n \in Nat
  PROVE  matches(f, 0, n) <=> Len(f) >= n /\ \A i \in 1..n : f[i]
BY DEF matches

\* The first bytes of a file.
LEMMA CutFacts ==
  ASSUME NEW f \in Seq(BOOLEAN), NEW n \in Nat, n <= Len(f)
  PROVE  /\ SubSeq(f, 1, n) \in Seq(BOOLEAN) /\ Len(SubSeq(f, 1, n)) = n
         /\ \A i \in 1..n : SubSeq(f, 1, n)[i] = f[i]
OBVIOUS

\* A file cut to n bytes keeps n right bytes, and is right as a whole.
LEMMA CutRight ==
  ASSUME NEW f \in Seq(BOOLEAN), NEW n \in Nat, matches(f, 0, n)
  PROVE  matches(SubSeq(f, 1, n), 0, n) /\ SubSeq(f, 1, n) = Right(n)
<1>1. n <= Len(f) /\ \A i \in 1..n : f[i] BY RightPrefix
<1>2. /\ SubSeq(f, 1, n) \in Seq(BOOLEAN) /\ Len(SubSeq(f, 1, n)) = n
      /\ \A i \in 1..n : SubSeq(f, 1, n)[i] = f[i]
  BY <1>1, CutFacts
<1> DEFINE g == SubSeq(f, 1, n)
<1>3. g \in Seq(BOOLEAN) /\ Len(g) = n /\ \A i \in 1..n : g[i] = f[i] BY <1>2
<1> HIDE DEF g
<1>4. \A i \in 1..n : g[i] = TRUE
  <2> SUFFICES ASSUME NEW i \in 1..n PROVE g[i] = TRUE OBVIOUS
  <2>1. f[i] /\ f[i] \in BOOLEAN BY <1>1
  <2>2. f[i] = TRUE BY <2>1
  <2> QED BY <1>3, <2>2
<1>5. g = [i \in 1..n |-> TRUE] BY <1>3, <1>4
<1>6. matches(g, 0, n) BY <1>3, <1>4, RightPrefix
<1> QED BY <1>5, <1>6 DEF g, Right

\* Bytes appended to a file whose first bytes are right.
LEMMA AppendRight ==
  ASSUME NEW f \in Seq(BOOLEAN), NEW n \in Nat, NEW m \in Nat, Len(f) = n, matches(f, 0, n)
  PROVE  f \o Right(m) \in Seq(BOOLEAN) /\ matches(f \o Right(m), 0, n + m)
<1> DEFINE g == Right(m)
<1>1. g \in Seq(BOOLEAN) /\ Len(g) = m /\ \A i \in 1..m : g[i] = TRUE BY RightFacts
<1> HIDE DEF g
<1>2. \A i \in 1..n : f[i] BY RightPrefix
<1>3. f \o g \in Seq(BOOLEAN) /\ Len(f \o g) = n + m BY <1>1
<1>4. \A i \in 1..(n + m) : (f \o g)[i]
  <2> SUFFICES ASSUME NEW i \in 1..(n + m) PROVE (f \o g)[i] OBVIOUS
  <2>1. CASE i <= n
    <3>1. (f \o g)[i] = f[i] BY <1>1, <2>1
    <3>2. f[i] BY <1>2, <2>1
    <3> QED BY <3>1, <3>2
  <2>2. CASE i > n
    <3>1. (f \o g)[i] = g[i - n] BY <1>1, <2>2
    <3>2. g[i - n] = TRUE BY <1>1, <2>2
    <3> QED BY <3>1, <3>2
  <2>3. i <= n \/ i > n OBVIOUS
  <2> QED BY <2>1, <2>2, <2>3, Zenon
<1> DEFINE h == f \o g
           l == n + m
<1>5. h \in Seq(BOOLEAN) /\ Len(h) >= l /\ (\A i \in 1..l : h[i]) /\ l \in Nat BY <1>3, <1>4
<1> HIDE DEF h, l
<1>6. matches(h, 0, l) BY <1>5, RightPrefix
<1> QED BY <1>5, <1>6 DEF g, h, l

\* After a torn write the bytes before it are still there.
LEMMA TornKeeps ==
  ASSUME NEW f \in Seq(BOOLEAN), NEW n \in Nat, NEW torn \in Seq(BOOLEAN), matches(f, 0, n)
  PROVE  /\ SubSeq(f, 1, n) \o torn \in Seq(BOOLEAN)
         /\ matches(SubSeq(f, 1, n) \o torn, 0, n)
<1> DEFINE g == SubSeq(f, 1, n)
<1>1. n <= Len(f) BY RightPrefix
<1>2. g \in Seq(BOOLEAN) /\ Len(g) = n BY <1>1, CutFacts
<1>3. matches(g, 0, n) BY CutRight
<1> HIDE DEF g
<1>4. \A i \in 1..n : g[i] BY <1>2, <1>3, RightPrefix
<1>5. g \o torn \in Seq(BOOLEAN) /\ Len(g \o torn) >= n /\ \A i \in 1..n : (g \o torn)[i] = g[i]
  BY <1>2
<1>6. \A i \in 1..n : (g \o torn)[i] BY <1>4, <1>5
<1>7. matches(g \o torn, 0, n) BY <1>5, <1>6, RightPrefix
<1> QED BY <1>5, <1>7 DEF g

\* Fewer bytes of a right start are right.
LEMMA ShorterRight ==
  ASSUME NEW f \in Seq(BOOLEAN), NEW n \in Nat, NEW m \in Nat, n <= m, matches(f, 0, m)
  PROVE  matches(f, 0, n)
BY RightPrefix

\* A row of a publication.
LEMMA RowFacts ==
  ASSUME NEW s \in States, NEW n \in Nat
  PROVE  /\ Row(s, n) \in UploadRows /\ Row(s, n).state = s /\ Row(s, n).received = n
         /\ Row(s, n) # Missing
<1>1. Row(s, n) \in UploadRows BY DEF Row, UploadRows
<1>2. Row(s, n).state = s /\ Row(s, n).received = n BY DEF Row
<1> QED BY <1>1, <1>2, PublicationAssumption

\* A row is a record of a state and a number of bytes.
LEMMA PubFacts ==
  ASSUME StoreInv, NEW k \in Keys, pub[k] # Missing
  PROVE  /\ pub[k] \in UploadRows /\ pub[k].state \in States /\ pub[k].received \in Nat
         /\ pub[k].received <= Sizes(k) /\ pub[k] = Row(pub[k].state, pub[k].received)
<1>1. pub[k] \in UploadRows /\ pub[k].received <= Sizes(k) BY DEF StoreInv
<1>2. pub[k].state \in States /\ pub[k].received \in Nat BY <1>1 DEF UploadRows
<1>3. pub[k] = Row(pub[k].state, pub[k].received) BY <1>1 DEF UploadRows, Row
<1> QED BY <1>1, <1>2, <1>3

\* AcknowledgedIsStored, key by key.
LEMMA StoredNow ==
  AcknowledgedIsStored <=>
    \A k \in Keys : Stored(pub[k], tmp[k], blob[ContentOf[k]], k \in due, Sizes(k))
BY DEF AcknowledgedIsStored, Stored, IsLive

\* The same of the next state.
LEMMA StoredNext ==
  AcknowledgedIsStored' <=>
    \A k \in Keys : Stored(pub'[k], tmp'[k], blob'[ContentOf[k]], k \in due', Sizes(k))
BY DEF AcknowledgedIsStored, Stored, IsLive, matches, Right, Sizes

\* What a move of a row keeps.
LEMMA RowMoveFacts ==
  ASSUME StoreInv, NEW k \in Keys, NEW new, RowMoves(pub[k], new)
  PROVE  /\ new \in {Missing} \cup UploadRows
         /\ new # Missing => new.received <= Sizes(k)
         /\ pub[k] # Missing =>
              /\ new # Missing /\ new.received = pub[k].received
              /\ pub[k].state \in {"expired", "failed", "bound", "sealed"} => new.state = pub[k].state
         /\ new # Missing /\ new.state \in {"sealed", "bound"} => new = pub[k]
<1>1. CASE new = pub[k] BY <1>1 DEF StoreInv
<1>2. CASE pub[k] = Missing /\ new = Row("prepared", 0)
  <2>1. /\ new \in UploadRows /\ new.state = "prepared" /\ new.received = 0 /\ new # Missing
    <3>1. "prepared" \in States BY DEF States, Live
    <3> QED BY <1>2, <3>1, RowFacts
  <2>2. Sizes(k) \in Nat BY SizeFacts
  <2> QED BY <1>2, <2>1, <2>2
<1>3. CASE /\ pub[k] # Missing /\ pub[k].state \in Live
           /\ new = Row("expired", pub[k].received) \/ new = Row("failed", pub[k].received)
  <2>1. pub[k].received \in Nat /\ pub[k].received <= Sizes(k) BY <1>3, PubFacts
  <2>2. "expired" \in States /\ "failed" \in States BY DEF States
  <2>3. /\ new \in UploadRows /\ new.state \in {"expired", "failed"}
        /\ new.received = pub[k].received /\ new # Missing
    BY <1>3, <2>1, <2>2, RowFacts
  <2>4. pub[k].state \in {"prepared", "receiving"} BY <1>3 DEF Live
  <2> QED BY <1>3, <2>1, <2>3, <2>4
<1> QED BY <1>1, <1>2, <1>3 DEF RowMoves

\* A request that ends without a blob, an Artifact or an interrupted write.
LEMMA FilesKeep ==
  ASSUME StoreInv, cur = Missing, UNCHANGED <<blob, rows, arts, cur, due>>,
         pub' \in [Keys -> {Missing} \cup UploadRows], tmp' \in [Keys -> {Missing} \cup Seq(BOOLEAN)],
         \A k \in Keys : RowMoves(pub[k], pub'[k]),
         \A k \in Keys : Stored(pub'[k], tmp'[k], blob[ContentOf[k]], k \in due, Sizes(k))
  PROVE  StoreInv' /\ NeverBackwards
<1>1. \A k \in Keys :
         /\ pub'[k] # Missing => pub'[k].received <= Sizes(k)
         /\ pub[k] # Missing =>
              /\ pub'[k] # Missing /\ pub'[k].received = pub[k].received
              /\ pub[k].state \in {"expired", "failed", "bound", "sealed"} => pub'[k].state = pub[k].state
         /\ pub'[k] # Missing /\ pub'[k].state \in {"sealed", "bound"} => pub'[k] = pub[k]
  BY RowMoveFacts
<1>2. NeverBackwards
  <2> SUFFICES ASSUME NEW k \in Keys, pub[k] # Missing
               PROVE  /\ pub'[k] # Missing /\ pub'[k].received >= pub[k].received
                      /\ (pub[k].state \in {"expired", "failed", "bound"} => pub'[k].state = pub[k].state)
                      /\ (pub[k].state = "sealed" => pub'[k].state \in {"sealed", "bound"})
    BY DEF NeverBackwards
  <2>1. pub[k].received \in Nat BY PubFacts
  <2>2. pub'[k].received >= pub[k].received BY <1>1, <2>1
  <2> QED BY <1>1, <2>2
<1>3. AcknowledgedIsStored' BY StoredNext
<1>4. SealedIsWhole'
  <2>1. \A c \in rows : blob[c] = Right(Size[c]) BY DEF StoreInv, SealedIsWhole
  <2>2. \A k \in Keys : pub'[k] # Missing /\ pub'[k].state \in {"sealed", "bound"} => ContentOf[k] \in rows
    BY <1>1 DEF StoreInv, SealedIsWhole
  <2> QED BY <2>1, <2>2 DEF SealedIsWhole, Right
<1>5. NoBypass'
  <2>1. \A k \in Keys : pub'[k] # Missing /\ pub'[k].state \in {"sealed", "bound"} =>
          pub'[k].received = Sizes(k)
    BY <1>1 DEF StoreInv, NoBypass
  <2> QED BY <2>1 DEF NoBypass, Sizes
<1>6. ArtifactsOnce'
  <2>1. \A k \in Keys : (pub'[k] # Missing /\ pub'[k].state = "bound") <=> (pub[k] # Missing /\ pub[k].state = "bound")
    BY <1>1
  <2> QED BY <2>1 DEF StoreInv, ArtifactsOnce
<1>7. BlobsWhole' BY DEF StoreInv, BlobsWhole, Right
<1>8. Interrupted' BY DEF Interrupted
<1>9. \A k \in Keys : pub'[k] # Missing => pub'[k].received <= Sizes(k) BY <1>1
<1> QED BY <1>2, <1>3, <1>4, <1>5, <1>6, <1>7, <1>8, <1>9 DEF StoreInv, Sizes

\* One upload changes, and its row with it.
LEMMA OneUpload ==
  ASSUME StoreInv, cur = Missing, UNCHANGED <<blob, rows, arts, cur, due>>, NEW k \in Keys, NEW new, NEW f,
         \/ pub' = pub /\ new = pub[k]
         \/ pub' = [pub EXCEPT ![k] = new],
         RowMoves(pub[k], new), tmp' = [tmp EXCEPT ![k] = f], f \in {Missing} \cup Seq(BOOLEAN),
         Stored(new, f, blob[ContentOf[k]], k \in due, Sizes(k))
  PROVE  StoreInv' /\ NeverBackwards
<1>1. /\ pub \in [Keys -> {Missing} \cup UploadRows] /\ tmp \in [Keys -> {Missing} \cup Seq(BOOLEAN)]
      /\ AcknowledgedIsStored
  BY DEF StoreInv
<1>2. new \in {Missing} \cup UploadRows BY RowMoveFacts
<1>3. pub' \in [Keys -> {Missing} \cup UploadRows] BY <1>1, <1>2, Zenon
<1>4. tmp' \in [Keys -> {Missing} \cup Seq(BOOLEAN)] BY <1>1, Zenon
<1>5. /\ pub'[k] = new /\ \A j \in Keys : j # k => pub'[j] = pub[j]
      /\ tmp'[k] = f /\ \A j \in Keys : j # k => tmp'[j] = tmp[j]
  BY <1>1, Zenon
<1>6. \A j \in Keys : RowMoves(pub[j], pub'[j])
  <2> SUFFICES ASSUME NEW j \in Keys PROVE RowMoves(pub[j], pub'[j]) OBVIOUS
  <2>1. CASE j = k BY <1>5, <2>1, Zenon
  <2>2. CASE j # k
    <3>1. pub'[j] = pub[j] BY <1>5, <2>2
    <3> QED BY <3>1 DEF RowMoves
  <2> QED BY <2>1, <2>2
<1>7. \A j \in Keys : Stored(pub'[j], tmp'[j], blob[ContentOf[j]], j \in due, Sizes(j))
  <2> SUFFICES ASSUME NEW j \in Keys
               PROVE  Stored(pub'[j], tmp'[j], blob[ContentOf[j]], j \in due, Sizes(j))
    OBVIOUS
  <2>1. CASE j = k BY <1>5, <2>1, Zenon
  <2>2. CASE j # k
    <3>1. Stored(pub[j], tmp[j], blob[ContentOf[j]], j \in due, Sizes(j)) BY <1>1, StoredNow
    <3>2. pub'[j] = pub[j] /\ tmp'[j] = tmp[j] BY <1>5, <2>2
    <3> QED BY <3>1, <3>2, Zenon
  <2> QED BY <2>1, <2>2
<1> QED BY <1>3, <1>4, <1>6, <1>7, FilesKeep

\* Nothing changes.
LEMMA NothingMoves ==
  ASSUME StoreInv, cur = Missing, UNCHANGED due, Keep
  PROVE  StoreInv' /\ NeverBackwards
<1>1. UNCHANGED <<pub, tmp, blob, rows, arts, cur, due>> BY DEF Keep, publishFiles
<1>2. /\ pub' \in [Keys -> {Missing} \cup UploadRows] /\ tmp' \in [Keys -> {Missing} \cup Seq(BOOLEAN)]
      /\ AcknowledgedIsStored
  BY <1>1 DEF StoreInv
<1>3. \A k \in Keys : RowMoves(pub[k], pub'[k]) BY <1>1 DEF RowMoves
<1>4. \A k \in Keys : Stored(pub[k], tmp[k], blob[ContentOf[k]], k \in due, Sizes(k)) BY <1>2, StoredNow
<1>5. \A k \in Keys : Stored(pub'[k], tmp'[k], blob[ContentOf[k]], k \in due, Sizes(k)) BY <1>1, <1>4
<1> QED BY <1>1, <1>2, <1>3, <1>5, FilesKeep

\* A row that is closed.
LEMMA ClosedRow ==
  ASSUME StoreInv, NEW k \in Keys, pub[k] # Missing, NEW s \in States
  PROVE  Closed(k, s) = [pub EXCEPT ![k] = Row(s, pub[k].received)]
<1>1. pub[k] \in UploadRows BY PubFacts
<1>2. [pub[k] EXCEPT !.state = s] = Row(s, pub[k].received) BY <1>1 DEF UploadRows, Row
<1>3. Closed(k, s) = [pub EXCEPT ![k] = [pub[k] EXCEPT !.state = s]] BY Zenon DEF Closed
<1> QED BY <1>2, <1>3

\* A request closes an upload and throws: under a capture lease the row stays.
LEMMA ThrowKeeps ==
  ASSUME StoreInv, cur = Missing, UNCHANGED due, NEW k \in Keys, IsLive(k), NEW s \in {"expired", "failed"},
         NEW f \in {Missing} \cup Seq(BOOLEAN), Throw(k, Closed(k, s), [tmp EXCEPT ![k] = f]),
         Stored(pub[k], f, blob[ContentOf[k]], k \in due, Sizes(k))
  PROVE  StoreInv' /\ NeverBackwards
<1>1. pub[k] # Missing /\ pub[k].state \in Live BY DEF IsLive
<1>2. s \in States BY DEF States
<1>3. Closed(k, s) = [pub EXCEPT ![k] = Row(s, pub[k].received)] BY <1>1, <1>2, ClosedRow
<1>4. UNCHANGED <<blob, rows, arts, cur, due>> /\ tmp' = [tmp EXCEPT ![k] = f] BY DEF Throw
<1>5. CASE k \in CaptureKeys
  <2>1. pub' = pub BY <1>5 DEF Throw
  <2>2. RowMoves(pub[k], pub[k]) BY DEF RowMoves
  <2> QED BY <1>4, <2>1, <2>2, OneUpload
<1>6. CASE k \notin CaptureKeys
  <2> DEFINE new == Row(s, pub[k].received)
  <2>1. pub' = [pub EXCEPT ![k] = new] BY <1>3, <1>6 DEF Throw
  <2>2. RowMoves(pub[k], new) BY <1>1 DEF RowMoves
  <2>3. pub[k].received \in Nat BY <1>1, PubFacts
  <2>4. new.state = s BY <1>2, <2>3, RowFacts
  <2> HIDE DEF new
  <2>5. Stored(new, f, blob[ContentOf[k]], k \in due, Sizes(k)) BY <2>4 DEF Stored, Live
  <2> QED BY <1>4, <2>1, <2>2, <2>5, OneUpload
<1> QED BY <1>5, <1>6

\* A request touches an upload and leaves its row.
LEMMA TouchKeeps ==
  ASSUME StoreInv, cur = Missing, UNCHANGED due, NEW k \in Keys,
         NEW f \in {Missing} \cup Seq(BOOLEAN), Throw(k, pub, [tmp EXCEPT ![k] = f]),
         Stored(pub[k], f, blob[ContentOf[k]], k \in due, Sizes(k))
  PROVE  StoreInv' /\ NeverBackwards
<1>1. UNCHANGED <<blob, rows, arts, cur, due>> /\ tmp' = [tmp EXCEPT ![k] = f] /\ pub' = pub
  BY DEF Throw
<1>2. RowMoves(pub[k], pub[k]) BY DEF RowMoves
<1> QED BY <1>1, <1>2, OneUpload

\* requireWritable refuses.
LEMMA RefuseWriteKeeps ==
  ASSUME StoreInv, cur = Missing, UNCHANGED due, NEW k \in Keys, RefuseWrite(k)
  PROVE  StoreInv' /\ NeverBackwards
<1>1. CASE k \in due /\ IsLive(k)
  <2>1. Throw(k, Closed(k, "expired"), [tmp EXCEPT ![k] = Missing]) BY <1>1 DEF RefuseWrite
  <2>2. Stored(pub[k], Missing, blob[ContentOf[k]], k \in due, Sizes(k)) BY <1>1 DEF Stored
  <2> QED BY <1>1, <2>1, <2>2, ThrowKeeps
<1>2. CASE ~(k \in due /\ IsLive(k))
  <2>1. Keep BY <1>2 DEF RefuseWrite
  <2> QED BY <2>1, NothingMoves
<1> QED BY <1>1, <1>2

\* The upload as a file that exists.
LEMMA UploadFile ==
  ASSUME StoreInv, NEW k \in Keys
  PROVE  /\ tmp[k] \in {Missing} \cup Seq(BOOLEAN) /\ ensureUpload(tmp[k]) \in Seq(BOOLEAN)
         /\ tmp[k] # Missing => ensureUpload(tmp[k]) = tmp[k]
         /\ tmp[k] = Missing => ensureUpload(tmp[k]) = <<>>
<1>1. tmp[k] \in {Missing} \cup Seq(BOOLEAN) BY DEF StoreInv
<1>2. CASE tmp[k] = Missing BY <1>1, <1>2 DEF ensureUpload
<1>3. CASE tmp[k] # Missing
  <2>1. ensureUpload(tmp[k]) = tmp[k] BY <1>3 DEF ensureUpload
  <2> QED BY <1>1, <1>3, <2>1
<1> QED BY <1>2, <1>3

\* Bytes are missing: the upload fails, unless the blob has them.
LEMMA FailMissingKeeps ==
  ASSUME StoreInv, cur = Missing, UNCHANGED due, NEW k \in Keys, IsLive(k), BytesMissing(k), FailMissing(k)
  PROVE  StoreInv' /\ NeverBackwards
<1> DEFINE f == ensureUpload(tmp[k])
<1>1. f \in Seq(BOOLEAN) /\ (tmp[k] # Missing => f = tmp[k]) BY UploadFile
<1>2. Throw(k, Closed(k, "failed"), [tmp EXCEPT ![k] = f]) BY DEF FailMissing
<1>3. Len(f) < pub[k].received BY DEF BytesMissing
<1>4. Stored(pub[k], tmp[k], blob[ContentOf[k]], k \in due, Sizes(k)) BY StoredNow DEF StoreInv
<1>5. pub[k] # Missing /\ pub[k].received \in Nat BY PubFacts DEF IsLive
<1> HIDE DEF f
<1>6. Len(f) \in Nat BY <1>1
<1>7. pub[k].received # 0 BY <1>3, <1>5, <1>6
<1>8. ~(tmp[k] # Missing /\ matches(tmp[k], 0, pub[k].received))
  <2> SUFFICES ASSUME tmp[k] # Missing, matches(tmp[k], 0, pub[k].received) PROVE FALSE OBVIOUS
  <2>1. f = tmp[k] BY <1>1
  <2>2. Len(f) >= pub[k].received BY <1>1, <1>5, <2>1, RightPrefix
  <2> QED BY <1>3, <1>5, <1>6, <2>2
<1>9. Stored(pub[k], f, blob[ContentOf[k]], k \in due, Sizes(k)) BY <1>4, <1>7, <1>8 DEF Stored
<1>10. f \in {Missing} \cup Seq(BOOLEAN) BY <1>1
<1> QED BY <1>2, <1>9, <1>10, ThrowKeeps

\* What is beyond the acknowledged bytes is cut off.
LEMMA CutUpload ==
  ASSUME StoreInv, NEW k \in Keys, pub[k] # Missing, ~BytesMissing(k)
  PROVE  /\ reconcileTemporarySize(k) \in Seq(BOOLEAN)
         /\ Len(reconcileTemporarySize(k)) = pub[k].received
         /\ Stored(pub[k], reconcileTemporarySize(k), blob[ContentOf[k]], k \in due, Sizes(k))
         /\ tmp[k] # Missing /\ matches(tmp[k], 0, pub[k].received) =>
              reconcileTemporarySize(k) = Right(pub[k].received)
<1> DEFINE f == ensureUpload(tmp[k])
           n == pub[k].received
           g == SubSeq(f, 1, n)
<1>1. f \in Seq(BOOLEAN) /\ (tmp[k] # Missing => f = tmp[k]) BY UploadFile
<1>2. n \in Nat BY PubFacts
<1>3. ~(Len(f) < n) BY DEF BytesMissing
<1>4. reconcileTemporarySize(k) = g BY <1>3 DEF reconcileTemporarySize
<1>5. Stored(pub[k], tmp[k], blob[ContentOf[k]], k \in due, Sizes(k)) BY StoredNow DEF StoreInv
<1> HIDE DEF f
<1>6. n <= Len(f) BY <1>1, <1>2, <1>3
<1>7. g \in Seq(BOOLEAN) /\ Len(g) = n BY <1>1, <1>2, <1>6, CutFacts
<1>8. ASSUME tmp[k] # Missing, matches(tmp[k], 0, n) PROVE matches(g, 0, n) /\ g = Right(n)
  <2>1. matches(f, 0, n) BY <1>1, <1>8
  <2> QED BY <1>1, <1>2, <2>1, CutRight
<1>9. g # Missing BY <1>7, PublicationAssumption
<1>10. Stored(pub[k], g, blob[ContentOf[k]], k \in due, Sizes(k)) BY <1>5, <1>8, <1>9 DEF Stored
<1> HIDE DEF g
<1> QED BY <1>4, <1>7, <1>8, <1>10

\* expireDueUploads, key by key: what is due and live expires and its file goes.
LEMMA SweepFacts ==
  ASSUME StoreInv
  PROVE  /\ Swept \in [Keys -> {Missing} \cup UploadRows]
         /\ SweptFiles \in [Keys -> {Missing} \cup Seq(BOOLEAN)]
         /\ \A k \in Keys :
              /\ RowMoves(pub[k], Swept[k]) /\ RowMoves(pub[k], pub[k])
              /\ Stored(Swept[k], SweptFiles[k], blob[ContentOf[k]], k \in due, Sizes(k))
              /\ Stored(pub[k], SweptFiles[k], blob[ContentOf[k]], k \in due, Sizes(k))
              /\ pub[k] = Missing => Swept[k] = Missing
              /\ Swept[k] # Missing /\ Swept[k].state \in Live => Swept[k] = pub[k] /\ SweptFiles[k] = tmp[k]
<1>1. \A k \in Keys : Swept[k] = IF k \in expireDueUploads THEN Row("expired", pub[k].received) ELSE pub[k]
  BY DEF Swept
<1>2. \A k \in Keys : SweptFiles[k] = IF k \in expireDueUploads THEN Missing ELSE tmp[k] BY DEF SweptFiles
<1>3. \A k \in Keys : k \in expireDueUploads => k \in due /\ IsLive(k) BY DEF expireDueUploads
<1>4. \A k \in Keys :
        /\ Swept[k] \in {Missing} \cup UploadRows /\ SweptFiles[k] \in {Missing} \cup Seq(BOOLEAN)
        /\ RowMoves(pub[k], Swept[k]) /\ RowMoves(pub[k], pub[k])
        /\ Stored(Swept[k], SweptFiles[k], blob[ContentOf[k]], k \in due, Sizes(k))
        /\ Stored(pub[k], SweptFiles[k], blob[ContentOf[k]], k \in due, Sizes(k))
        /\ pub[k] = Missing => Swept[k] = Missing
        /\ Swept[k] # Missing /\ Swept[k].state \in Live => Swept[k] = pub[k] /\ SweptFiles[k] = tmp[k]
  <2> TAKE k \in Keys
  <2>1. RowMoves(pub[k], pub[k]) BY DEF RowMoves
  <2>2. CASE k \in expireDueUploads
    <3>1. k \in due /\ pub[k] # Missing /\ pub[k].state \in Live BY <1>3, <2>2 DEF IsLive
    <3>2. Swept[k] = Row("expired", pub[k].received) /\ SweptFiles[k] = Missing BY <1>1, <1>2, <2>2
    <3>3. RowMoves(pub[k], Swept[k]) BY <3>1, <3>2 DEF RowMoves
    <3>4. Swept[k] \in UploadRows /\ Swept[k].state = "expired"
      <4>1. "expired" \in States BY DEF States
      <4>2. pub[k].received \in Nat BY <3>1, PubFacts
      <4> QED BY <3>2, <4>1, <4>2, RowFacts
    <3>5. /\ Stored(Swept[k], SweptFiles[k], blob[ContentOf[k]], k \in due, Sizes(k))
          /\ Stored(pub[k], SweptFiles[k], blob[ContentOf[k]], k \in due, Sizes(k))
      BY <3>1 DEF Stored
    <3>6. "expired" \notin Live BY DEF Live
    <3> QED BY <2>1, <3>1, <3>2, <3>3, <3>4, <3>5, <3>6
  <2>3. CASE k \notin expireDueUploads
    <3>1. Swept[k] = pub[k] /\ SweptFiles[k] = tmp[k] BY <1>1, <1>2, <2>3
    <3>2. Stored(pub[k], tmp[k], blob[ContentOf[k]], k \in due, Sizes(k)) BY StoredNow DEF StoreInv
    <3>3. pub[k] \in {Missing} \cup UploadRows /\ tmp[k] \in {Missing} \cup Seq(BOOLEAN) BY DEF StoreInv
    <3> QED BY <2>1, <3>1, <3>2, <3>3
  <2> QED BY <2>2, <2>3
<1>5. Swept \in [Keys -> {Missing} \cup UploadRows] BY <1>4 DEF Swept
<1>6. SweptFiles \in [Keys -> {Missing} \cup Seq(BOOLEAN)] BY <1>4 DEF SweptFiles
<1> QED BY <1>4, <1>5, <1>6

\* prepareContent refuses: what was swept stays swept, or rolls back with its capture.
LEMMA SweepKeeps ==
  ASSUME StoreInv, cur = Missing, UNCHANGED <<blob, rows, arts, cur, due>>,
         pub' = pub \/ pub' = Swept, tmp' = SweptFiles
  PROVE  StoreInv' /\ NeverBackwards
<1>1. pub \in [Keys -> {Missing} \cup UploadRows] BY DEF StoreInv
<1>2. pub' \in [Keys -> {Missing} \cup UploadRows] /\ tmp' \in [Keys -> {Missing} \cup Seq(BOOLEAN)]
  BY <1>1, SweepFacts
<1>3. \A k \in Keys : RowMoves(pub[k], pub'[k]) BY SweepFacts
<1>4. \A k \in Keys : Stored(pub'[k], tmp'[k], blob[ContentOf[k]], k \in due, Sizes(k)) BY SweepFacts
<1> QED BY <1>2, <1>3, <1>4, FilesKeep

\* After the sweep one upload is opened.
LEMMA SweepAndOpen ==
  ASSUME StoreInv, cur = Missing, UNCHANGED <<blob, rows, arts, cur, due>>, NEW k \in Keys, NEW new,
         NEW f \in {Missing} \cup Seq(BOOLEAN), pub' = [Swept EXCEPT ![k] = new],
         tmp' = [SweptFiles EXCEPT ![k] = f], RowMoves(pub[k], new),
         Stored(new, f, blob[ContentOf[k]], k \in due, Sizes(k))
  PROVE  StoreInv' /\ NeverBackwards
<1>1. /\ Swept \in [Keys -> {Missing} \cup UploadRows]
      /\ SweptFiles \in [Keys -> {Missing} \cup Seq(BOOLEAN)]
      /\ \A j \in Keys : /\ RowMoves(pub[j], Swept[j])
                         /\ Stored(Swept[j], SweptFiles[j], blob[ContentOf[j]], j \in due, Sizes(j))
  BY SweepFacts
<1> DEFINE p == Swept
           t == SweptFiles
<1>2. new \in {Missing} \cup UploadRows BY RowMoveFacts
<1>3. pub' = [p EXCEPT ![k] = new] /\ tmp' = [t EXCEPT ![k] = f] OBVIOUS
<1>4. /\ p \in [Keys -> {Missing} \cup UploadRows] /\ t \in [Keys -> {Missing} \cup Seq(BOOLEAN)]
      /\ \A j \in Keys : /\ RowMoves(pub[j], p[j])
                         /\ Stored(p[j], t[j], blob[ContentOf[j]], j \in due, Sizes(j))
  BY <1>1
<1> HIDE DEF p, t
<1>5. pub' \in [Keys -> {Missing} \cup UploadRows] BY <1>2, <1>3, <1>4, Zenon
<1>6. tmp' \in [Keys -> {Missing} \cup Seq(BOOLEAN)] BY <1>3, <1>4, Zenon
<1>7. /\ pub'[k] = new /\ \A j \in Keys : j # k => pub'[j] = p[j]
      /\ tmp'[k] = f /\ \A j \in Keys : j # k => tmp'[j] = t[j]
  BY <1>3, <1>4, Zenon
<1>8. \A j \in Keys : /\ RowMoves(pub[j], pub'[j])
                      /\ Stored(pub'[j], tmp'[j], blob[ContentOf[j]], j \in due, Sizes(j))
  <2> SUFFICES ASSUME NEW j \in Keys
               PROVE  /\ RowMoves(pub[j], pub'[j])
                      /\ Stored(pub'[j], tmp'[j], blob[ContentOf[j]], j \in due, Sizes(j))
    OBVIOUS
  <2>1. CASE j = k BY <1>7, <2>1, Zenon
  <2>2. CASE j # k BY <1>4, <1>7, <2>2, Zenon
  <2> QED BY <2>1, <2>2
<1> QED BY <1>5, <1>6, <1>8, FilesKeep

\* What Central answers of a row.
LEMMA ViewFacts ==
  ASSUME NEW k \in Keys, NEW row \in UploadRows, row.received <= Sizes(k)
  PROVE  /\ View(row) \in Answers /\ View(row) # Missing /\ View(row).ok /\ View(row).state = row.state
         /\ View(row).received = row.received /\ row.state \in States
<1>1. row.state \in States /\ row.received \in Nat BY DEF UploadRows
<1>2. ContentOf[k] \in Contents /\ Sizes(k) \in Nat /\ Sizes(k) = Size[ContentOf[k]] BY SizeFacts
<1>3. row.received \in 0..Size[ContentOf[k]] BY <1>1, <1>2
<1>4. row.received \in UNION {0..Size[c] : c \in Contents} BY <1>2, <1>3
<1>5. View(row) \in Answers BY <1>1, <1>4, Zenon DEF View, Answers
<1>6. View(row).ok /\ View(row).state = row.state /\ View(row).received = row.received BY DEF View
<1> QED BY <1>1, <1>5, <1>6, PublicationAssumption

\* A refusal is an answer.
LEMMA RefusedFacts ==
  ASSUME NEW k \in Keys
  PROVE  Refused # Missing /\ ~Refused.ok
<1>1. ContentOf[k] \in Contents /\ Size[ContentOf[k]] \in Nat BY SizeFacts
<1>2. 0 \in 0..Size[ContentOf[k]] BY <1>1
<1>3. 0 \in UNION {0..Size[c] : c \in Contents} BY <1>1, <1>2
<1>4. Refused \in Answers BY <1>3, Zenon DEF Refused, Answers
<1>5. Refused.ok = FALSE BY DEF Refused
<1> QED BY <1>4, <1>5, PublicationAssumption

\* A refusal says nothing of the publication.
LEMMA RefusalTells ==
  ASSUME NEW r \in Requests, NEW a, a = Refused
  PROVE  TellsTrue(r, a)
<1>1. r.k \in Keys BY DEF Requests
<1>2. a # Missing /\ ~a.ok BY <1>1, RefusedFacts
<1> QED BY <1>2 DEF TellsTrue

\* An answer that shows the row the publication now has.
LEMMA RowTells ==
  ASSUME StoreInv', NEW r \in Requests, NEW a, NEW row, pub'[r.k] = row, row # Missing, a = View(row),
         r.op = "bind" => row.state = "bound"
  PROVE  TellsTrue(r, a)
<1>1. r.k \in Keys BY DEF Requests
<1>2. /\ pub' \in [Keys -> {Missing} \cup UploadRows]
      /\ \A k \in Keys : pub'[k] # Missing => pub'[k].received <= Sizes(k)
  BY DEF StoreInv, Sizes
<1>3. row \in UploadRows /\ row.received <= Sizes(r.k) BY <1>1, <1>2
<1>4. /\ a # Missing /\ a.ok /\ a.state = row.state /\ a.received = row.received /\ row.state \in States
  BY <1>1, <1>3, ViewFacts
<1>5. a.received <= Sizes(r.k) /\ a.state \in States BY <1>3, <1>4
<1> QED BY <1>4, <1>5 DEF TellsTrue

\* An upload that is opened when it was not there has nothing that was acknowledged.
LEMMA EnsureStored ==
  ASSUME StoreInv, NEW k \in Keys
  PROVE  Stored(pub[k], ensureUpload(tmp[k]), blob[ContentOf[k]], k \in due, Sizes(k))
<1>1. Stored(pub[k], tmp[k], blob[ContentOf[k]], k \in due, Sizes(k)) BY StoredNow DEF StoreInv
<1>2. CASE tmp[k] # Missing
  <2>1. ensureUpload(tmp[k]) = tmp[k] BY <1>2, UploadFile
  <2> QED BY <1>1, <2>1
<1>3. CASE tmp[k] = Missing BY <1>1, <1>3 DEF Stored
<1> QED BY <1>2, <1>3

\* prepareContent of a publication that exists.
LEMMA PrepareRetryKeeps ==
  ASSUME StoreInv, cur = Missing, UNCHANGED due, NEW r \in Requests, r.op = "prepare", NEW a,
         prepareRetry(r.k, a)
  PROVE  StoreInv' /\ NeverBackwards /\ TellsTrue(r, a)
<1> DEFINE k == r.k
<1>1. k \in Keys BY DEF Requests
<1>2. UNCHANGED <<blob, rows, arts, cur, due>> /\ pub[k] # Missing BY DEF prepareRetry
<1>3. /\ Swept \in [Keys -> {Missing} \cup UploadRows]
      /\ SweptFiles \in [Keys -> {Missing} \cup Seq(BOOLEAN)] /\ RowMoves(pub[k], Swept[k])
      /\ Swept[k] # Missing /\ Swept[k].state \in Live => Swept[k] = pub[k]
  BY <1>1, SweepFacts
<1>4. Swept[k] # Missing BY <1>1, <1>2, <1>3, RowMoveFacts
<1>5. CASE Swept[k].state \notin Live
  <2>1. a = View(Swept[k]) /\ pub' = Swept /\ tmp' = SweptFiles BY <1>5 DEF prepareRetry
  <2>2. StoreInv' /\ NeverBackwards BY <1>2, <2>1, SweepKeeps
  <2>3. pub'[k] = Swept[k] BY <2>1
  <2>4. TellsTrue(r, a) BY <1>4, <2>1, <2>2, <2>3, RowTells
  <2> QED BY <2>2, <2>4
<1>6. CASE Swept[k].state \in Live /\ CaptureRefused(k)
  <2>1. a = Refused /\ pub' = pub /\ tmp' = SweptFiles BY <1>6 DEF prepareRetry
  <2>2. StoreInv' /\ NeverBackwards BY <1>2, <2>1, SweepKeeps
  <2> QED BY <2>1, <2>2, RefusalTells
<1>7. CASE Swept[k].state \in Live /\ ~CaptureRefused(k)
  <2> DEFINE f == ensureUpload(tmp[k])
             row == Swept[k]
  <2>1. a = View(row) /\ pub' = Swept /\ tmp' = [SweptFiles EXCEPT ![k] = f]
    BY <1>7 DEF prepareRetry
  <2>2. f \in {Missing} \cup Seq(BOOLEAN) BY <1>1, UploadFile
  <2>3. Stored(row, f, blob[ContentOf[k]], k \in due, Sizes(k)) BY <1>1, <1>3, <1>4, <1>7, EnsureStored
  <2>4. Swept = [Swept EXCEPT ![k] = row] BY <1>1, <1>3, Zenon
  <2>5. pub' = [Swept EXCEPT ![k] = row] BY <2>1, <2>4
  <2>6. pub'[k] = row /\ row # Missing /\ RowMoves(pub[k], row) BY <1>3, <1>4, <2>1
  <2> HIDE DEF f, row, k
  <2>7. StoreInv' /\ NeverBackwards BY <1>1, <1>2, <2>1, <2>2, <2>3, <2>5, <2>6, SweepAndOpen
  <2>8. TellsTrue(r, a) BY <2>1, <2>6, <2>7, RowTells DEF k
  <2> QED BY <2>7, <2>8
<1> QED BY <1>5, <1>6, <1>7

\* prepareContent.
LEMMA PrepareKeeps ==
  ASSUME StoreInv, cur = Missing, UNCHANGED due, NEW r \in Requests, r.op = "prepare", NEW a,
         prepareContent(r.k, a)
  PROVE  StoreInv' /\ NeverBackwards /\ TellsTrue(r, a)
<1> DEFINE k == r.k
<1>1. k \in Keys BY DEF Requests
<1>2. CASE prepareRetry(k, a) BY <1>2, PrepareRetryKeeps
<1>3. CASE pub[k] = Missing /\ a = Refused /\ Throw(k, Swept, SweptFiles)
  <2>1. /\ UNCHANGED <<blob, rows, arts, cur, due>> /\ (pub' = pub \/ pub' = Swept) /\ tmp' = SweptFiles
    BY <1>3 DEF Throw
  <2>2. StoreInv' /\ NeverBackwards BY <2>1, SweepKeeps
  <2> QED BY <1>3, <2>2, RefusalTells
<1>4. CASE /\ pub[k] = Missing /\ a = View(Row("prepared", 0))
           /\ pub' = [Swept EXCEPT ![k] = Row("prepared", 0)]
           /\ tmp' = [SweptFiles EXCEPT ![k] = <<>>] /\ UNCHANGED <<blob, rows, arts, cur>>
  <2> DEFINE new == Row("prepared", 0)
  <2>1. new # Missing /\ new.received = 0
    <3>1. "prepared" \in States BY DEF States, Live
    <3> QED BY <3>1, RowFacts
  <2>2. RowMoves(pub[k], new) BY <1>4 DEF RowMoves
  <2>3. pub' = [Swept EXCEPT ![k] = new] /\ a = View(new) BY <1>4
  <2>4. Swept \in [Keys -> {Missing} \cup UploadRows] BY SweepFacts
  <2>5. pub'[k] = new BY <1>1, <2>3, <2>4, Zenon
  <2> HIDE DEF new, k
  <2>6. Stored(new, <<>>, blob[ContentOf[k]], k \in due, Sizes(k)) BY <2>1 DEF Stored
  <2>7. <<>> \in {Missing} \cup Seq(BOOLEAN) OBVIOUS
  <2>8. StoreInv' /\ NeverBackwards BY <1>1, <1>4, <2>2, <2>3, <2>6, <2>7, SweepAndOpen
  <2>9. TellsTrue(r, a) BY <2>1, <2>3, <2>5, <2>8, RowTells DEF k
  <2> QED BY <2>8, <2>9
<1> QED BY <1>2, <1>3, <1>4 DEF prepareContent

\* Files change and no row does.
LEMMA RowsKeep ==
  ASSUME StoreInv, UNCHANGED <<pub, rows, arts>>, cur' \in {Missing} \cup Requests,
         tmp' \in [Keys -> {Missing} \cup Seq(BOOLEAN)], blob' \in [Contents -> {Missing} \cup Seq(BOOLEAN)],
         \A c \in Contents : blob[c] # Missing => blob'[c] = blob[c], BlobsWhole', Interrupted',
         \A k \in Keys : Stored(pub[k], tmp'[k], blob'[ContentOf[k]], k \in due', Sizes(k))
  PROVE  StoreInv' /\ NeverBackwards
<1>1. /\ pub \in [Keys -> {Missing} \cup UploadRows] /\ rows \subseteq Contents
      /\ \A k \in Keys : pub[k] # Missing => pub[k].received <= Sizes(k)
      /\ arts \in Seq([key : Keys, content : Contents])
      /\ SealedIsWhole /\ BlobsWhole /\ NoBypass /\ ArtifactsOnce
  BY DEF StoreInv
<1>2. NeverBackwards
  <2> SUFFICES ASSUME NEW k \in Keys, pub[k] # Missing
               PROVE  /\ pub'[k] # Missing /\ pub'[k].received >= pub[k].received
                      /\ (pub[k].state \in {"expired", "failed", "bound"} => pub'[k].state = pub[k].state)
                      /\ (pub[k].state = "sealed" => pub'[k].state \in {"sealed", "bound"})
    BY DEF NeverBackwards
  <2>1. pub[k].received \in Nat /\ pub' = pub BY PubFacts
  <2> QED BY <2>1
<1>3. AcknowledgedIsStored' BY StoredNext
<1>4. SealedIsWhole'
  <2>1. \A c \in rows : blob[c] = Right(Size[c]) BY <1>1 DEF SealedIsWhole
  <2>2. \A c \in rows : blob'[c] = Right(Size[c])
    <3> SUFFICES ASSUME NEW c \in rows PROVE blob'[c] = Right(Size[c]) OBVIOUS
    <3>1. c \in Contents /\ Size[c] \in Nat BY <1>1, PublicationAssumption
    <3>2. Right(Size[c]) # Missing BY <3>1, RightFacts, PublicationAssumption
    <3> QED BY <2>1, <3>1, <3>2
  <2> QED BY <1>1, <2>2 DEF SealedIsWhole, Right
<1>5. NoBypass' BY <1>1 DEF NoBypass, Sizes
<1>6. ArtifactsOnce' BY <1>1 DEF ArtifactsOnce
<1> QED BY <1>1, <1>2, <1>3, <1>4, <1>5, <1>6 DEF StoreInv, Sizes

\* appendContent writes a chunk: the upload holds it, the row does not count it yet.
LEMMA ChunkWrite ==
  ASSUME StoreInv, cur = Missing, UNCHANGED <<due, pub, blob, rows, arts>>, NEW r \in Requests, r.op = "chunk",
         r.n > 0, IsLive(r.k), r.k \notin due, ~BytesMissing(r.k), r.off = pub[r.k].received,
         r.off + r.n <= Sizes(r.k), cur' = r,
         tmp' = [tmp EXCEPT ![r.k] = reconcileTemporarySize(r.k) \o Right(r.n)]
  PROVE  StoreInv' /\ NeverBackwards
<1> DEFINE k == r.k
           f == reconcileTemporarySize(k)
           g == f \o Right(r.n)
<1>1. k \in Keys /\ r.off \in Nat /\ r.n \in Nat BY DEF Requests
<1>2. pub[k] # Missing /\ pub[k].state \in Live BY DEF IsLive
<1>3. /\ f \in Seq(BOOLEAN) /\ Len(f) = r.off
      /\ Stored(pub[k], f, blob[ContentOf[k]], k \in due, Sizes(k))
  BY <1>1, <1>2, CutUpload
<1>4. tmp' = [tmp EXCEPT ![k] = g] /\ k \notin due /\ r.off = pub[k].received /\ r.off + r.n <= Sizes(k) OBVIOUS
<1>5. /\ tmp \in [Keys -> {Missing} \cup Seq(BOOLEAN)] /\ blob \in [Contents -> {Missing} \cup Seq(BOOLEAN)]
      /\ BlobsWhole /\ AcknowledgedIsStored
  BY DEF StoreInv
<1>6. Sizes(k) \in Nat BY <1>1, SizeFacts
<1> HIDE DEF f, k
<1>7. r.off # Sizes(k) BY <1>1, <1>4, <1>6
<1>8. matches(f, 0, r.off)
  <2>1. CASE r.off = 0
    <3>1. matches(f, 0, 0) <=> Len(f) >= 0 /\ \A i \in 1..0 : f[i] BY <1>3, RightPrefix
    <3>2. Len(f) >= 0 /\ \A i \in 1..0 : f[i] BY <1>3
    <3> QED BY <2>1, <3>1, <3>2
  <2>2. CASE r.off # 0 BY <1>2, <1>3, <1>4, <1>7, <2>2 DEF Stored
  <2> QED BY <2>1, <2>2
<1>9. g \in Seq(BOOLEAN) /\ matches(g, 0, r.off + r.n) BY <1>1, <1>3, <1>8, AppendRight
<1>10. g # Missing BY <1>9, PublicationAssumption
<1> HIDE DEF g
<1>11. matches(g, 0, r.off) BY <1>1, <1>9, ShorterRight
<1>12. tmp' \in [Keys -> {Missing} \cup Seq(BOOLEAN)] BY <1>4, <1>5, <1>9, Zenon
<1>13. tmp'[k] = g /\ \A j \in Keys : j # k => tmp'[j] = tmp[j] BY <1>1, <1>4, <1>5, Zenon
<1>14. \A j \in Keys : Stored(pub[j], tmp'[j], blob'[ContentOf[j]], j \in due', Sizes(j))
  <2> SUFFICES ASSUME NEW j \in Keys
               PROVE  Stored(pub[j], tmp'[j], blob'[ContentOf[j]], j \in due', Sizes(j))
    OBVIOUS
  <2>1. blob' = blob /\ due' = due OBVIOUS
  <2>2. CASE j = k
    <3>1. Stored(pub[k], g, blob[ContentOf[k]], k \in due, Sizes(k)) BY <1>4, <1>10, <1>11 DEF Stored
    <3> QED BY <1>13, <2>1, <2>2, <3>1, Zenon
  <2>3. CASE j # k
    <3>1. Stored(pub[j], tmp[j], blob[ContentOf[j]], j \in due, Sizes(j)) BY <1>5, StoredNow
    <3> QED BY <1>13, <2>1, <2>3, <3>1, Zenon
  <2> QED BY <2>2, <2>3
<1>15. BlobsWhole' BY <1>5 DEF BlobsWhole, Right
<1>16. Interrupted'
  <2>1. pub'[r.k] # Missing /\ pub'[r.k].state \in Live /\ r.off = pub'[r.k].received BY <1>2, <1>4 DEF k
  <2>2. r.off + r.n <= Sizes(r.k) /\ tmp'[r.k] # Missing /\ matches(tmp'[r.k], 0, r.off + r.n)
    BY <1>4, <1>9, <1>10, <1>13 DEF k
  <2>3. cur'.op = "chunk" /\ cur' = r OBVIOUS
  <2> QED BY <2>1, <2>2, <2>3, Zenon DEF Interrupted, IsLive, Live, Sizes, matches
<1>17. /\ \A c \in Contents : blob[c] # Missing => blob'[c] = blob[c]
       /\ blob' \in [Contents -> {Missing} \cup Seq(BOOLEAN)] /\ cur' \in {Missing} \cup Requests
  BY <1>5
<1> QED BY <1>12, <1>14, <1>15, <1>16, <1>17, RowsKeep

\* appendContent.
LEMMA AppendKeeps ==
  ASSUME StoreInv, cur = Missing, UNCHANGED due, NEW r \in Requests, r.op = "chunk", r.n > 0, NEW a,
         pub[r.k] # Missing, appendContent(r, a)
  PROVE  StoreInv' /\ NeverBackwards /\ TellsTrue(r, a)
<1> DEFINE k == r.k
           f == reconcileTemporarySize(k)
           got == pub[k].received
<1>1. k \in Keys /\ pub[k] # Missing BY DEF Requests
<1>2. CASE a = Refused /\ Keep BY <1>2, NothingMoves, RefusalTells
<1>3. CASE a = Refused /\ RefuseWrite(k) BY <1>1, <1>3, RefuseWriteKeeps, RefusalTells
<1>4. CASE ~NotWritable(k) /\ BytesMissing(k) /\ a = Refused /\ FailMissing(k)
  <2>1. IsLive(k) BY <1>4 DEF NotWritable
  <2> QED BY <1>1, <1>4, <2>1, FailMissingKeeps, RefusalTells
<1>5. CASE /\ ~BytesMissing(k) /\ (a = View(pub[k]) \/ a = Refused)
           /\ Throw(k, pub, [tmp EXCEPT ![k] = f])
  <2>1. f \in Seq(BOOLEAN) /\ Stored(pub[k], f, blob[ContentOf[k]], k \in due, Sizes(k))
    BY <1>1, <1>5, CutUpload
  <2>2. f \in {Missing} \cup Seq(BOOLEAN) BY <2>1
  <2>3. StoreInv' /\ NeverBackwards BY <1>1, <1>5, <2>1, <2>2, TouchKeeps
  <2>4. CASE a = Refused BY <2>3, <2>4, RefusalTells
  <2>5. CASE a = View(pub[k])
    <3>1. pub'[k] = pub[k] BY <1>5 DEF Throw
    <3> HIDE DEF f
    <3>2. TellsTrue(r, a) BY <1>1, <2>3, <2>5, <3>1, RowTells
    <3> QED BY <2>3, <3>2
  <2> QED BY <1>5, <2>4, <2>5
<1>6. CASE /\ ~NotWritable(k) /\ ~BytesMissing(k) /\ ~(r.off < got) /\ ~(r.off # got \/ r.off + r.n > Sizes(k))
           /\ a = Missing /\ cur' = r /\ tmp' = [tmp EXCEPT ![k] = f \o Right(r.n)]
           /\ UNCHANGED <<pub, blob, rows, arts>>
  <2>1. IsLive(k) /\ k \notin due BY <1>6 DEF NotWritable
  <2>2. r.off = got /\ r.off + r.n <= Sizes(k)
    <3>1. r.off \in Nat /\ r.n \in Nat /\ Sizes(k) \in Nat BY <1>1, SizeFacts DEF Requests
    <3> QED BY <1>6, <3>1
  <2>3. StoreInv' /\ NeverBackwards BY <1>6, <2>1, <2>2, ChunkWrite
  <2>4. r # Missing BY PublicationAssumption
  <2>5. TellsTrue(r, a) BY <1>6, <2>4 DEF TellsTrue
  <2> QED BY <2>3, <2>5
<1>7. \/ a = Refused /\ Keep
      \/ a = Refused /\ RefuseWrite(k)
      \/ ~NotWritable(k) /\ BytesMissing(k) /\ a = Refused /\ FailMissing(k)
      \/ /\ ~BytesMissing(k) /\ (a = View(pub[k]) \/ a = Refused)
         /\ Throw(k, pub, [tmp EXCEPT ![k] = f])
      \/ /\ ~NotWritable(k) /\ ~BytesMissing(k) /\ ~(r.off < got) /\ ~(r.off # got \/ r.off + r.n > Sizes(k))
         /\ a = Missing /\ cur' = r /\ tmp' = [tmp EXCEPT ![k] = f \o Right(r.n)]
         /\ UNCHANGED <<pub, blob, rows, arts>>
  BY Zenon DEF appendContent
<1> HIDE DEF f, got, k
<1> QED BY <1>2, <1>3, <1>4, <1>5, <1>6, <1>7, Zenon

\* sealContent moves the file: the blob is whole, the rows do not say so yet.
LEMMA SealMove ==
  ASSUME StoreInv, cur = Missing, UNCHANGED <<due, pub, rows, arts>>, NEW k \in Keys, IsLive(k),
         pub[k].received = Sizes(k), NEW f, f = Right(Sizes(k)) \/ blob[ContentOf[k]] # Missing,
         cur' = [op |-> "seal", k |-> k, off |-> 0, n |-> 0], sealBlob(k, f)
  PROVE  StoreInv' /\ NeverBackwards /\ cur' # Missing /\ cur'.k = k
<1> DEFINE c == ContentOf[k]
<1>1. c \in Contents /\ Sizes(k) \in Nat /\ Sizes(k) = Size[c] BY SizeFacts
<1>2. pub[k] # Missing /\ pub[k].state \in Live BY DEF IsLive
<1>3. /\ tmp \in [Keys -> {Missing} \cup Seq(BOOLEAN)] /\ blob \in [Contents -> {Missing} \cup Seq(BOOLEAN)]
      /\ BlobsWhole /\ AcknowledgedIsStored
  BY DEF StoreInv
<1>4. tmp' = [tmp EXCEPT ![k] = Missing] BY DEF sealBlob
<1>5. /\ blob[c] # Missing => blob' = blob
      /\ blob[c] = Missing => blob' = [blob EXCEPT ![c] = f]
  BY DEF sealBlob
<1>6. Right(Size[c]) \in Seq(BOOLEAN) /\ Right(Size[c]) # Missing BY <1>1, RightFacts, PublicationAssumption
<1>7. blob[c] = Missing => f = Right(Size[c]) BY <1>1
<1>8. blob[c] # Missing => blob[c] = Right(Size[c]) BY <1>1, <1>3 DEF BlobsWhole
<1> HIDE DEF c
<1>9. /\ blob' \in [Contents -> {Missing} \cup Seq(BOOLEAN)] /\ blob'[c] = Right(Size[c])
      /\ \A d \in Contents : d # c => blob'[d] = blob[d]
  <2>1. CASE blob[c] # Missing BY <1>3, <1>5, <1>8, <2>1
  <2>2. CASE blob[c] = Missing
    <3>1. blob' = [blob EXCEPT ![c] = f] /\ f = Right(Size[c]) /\ f \in {Missing} \cup Seq(BOOLEAN)
      BY <1>5, <1>6, <1>7, <2>2
    <3>2. blob' \in [Contents -> {Missing} \cup Seq(BOOLEAN)] BY <1>3, <3>1, Zenon
    <3>3. blob'[c] = f /\ \A d \in Contents : d # c => blob'[d] = blob[d] BY <1>1, <1>3, <3>1, Zenon
    <3> QED BY <3>1, <3>2, <3>3
  <2> QED BY <2>1, <2>2
<1>10. \A d \in Contents : blob[d] # Missing => blob'[d] = blob[d] BY <1>8, <1>9
<1>11. \A d \in Contents : blob'[d] # Missing => blob'[d] = Right(Size[d]) BY <1>3, <1>9 DEF BlobsWhole
<1>12. BlobsWhole' BY <1>11 DEF BlobsWhole, Right
<1>13. tmp' \in [Keys -> {Missing} \cup Seq(BOOLEAN)]
  <2>1. Missing \in {Missing} \cup Seq(BOOLEAN) OBVIOUS
  <2> QED BY <1>3, <1>4, <2>1, Zenon
<1>14. \A j \in Keys : j # k => tmp'[j] = tmp[j] BY <1>3, <1>4, Zenon
<1>15. \A j \in Keys : Stored(pub[j], tmp'[j], blob'[ContentOf[j]], j \in due', Sizes(j))
  <2> SUFFICES ASSUME NEW j \in Keys
               PROVE  Stored(pub[j], tmp'[j], blob'[ContentOf[j]], j \in due', Sizes(j))
    OBVIOUS
  <2>1. due' = due OBVIOUS
  <2>2. CASE j = k
    <3>1. pub[j].received = Sizes(j) /\ blob'[ContentOf[j]] = Right(Sizes(j)) BY <1>1, <1>9, <2>2 DEF c
    <3> QED BY <3>1 DEF Stored
  <2>3. CASE j # k
    <3>1. Stored(pub[j], tmp[j], blob[ContentOf[j]], j \in due, Sizes(j)) BY <1>3, StoredNow
    <3>2. tmp'[j] = tmp[j] BY <1>14, <2>3
    <3>3. ContentOf[j] \in Contents /\ Sizes(j) \in Nat BY SizeFacts
    <3>4. Right(Sizes(j)) # Missing BY <3>3, RightFacts, PublicationAssumption
    <3>5. blob[ContentOf[j]] = Right(Sizes(j)) => blob'[ContentOf[j]] = Right(Sizes(j)) BY <1>10, <3>3, <3>4
    <3> QED BY <2>1, <3>1, <3>2, <3>5 DEF Stored
  <2> QED BY <2>2, <2>3
<1> DEFINE q == [op |-> "seal", k |-> k, off |-> 0, n |-> 0]
<1>16. q \in Requests /\ q.op = "seal" /\ q.k = k /\ cur' = q BY DEF Requests
<1> HIDE DEF q
<1>17. Interrupted'
  <2>1. cur'.op = "seal" /\ cur'.k = k BY <1>16
  <2>2. pub'[k] # Missing /\ pub'[k].state \in Live /\ pub'[k].received = Sizes(k) BY <1>2
  <2>3. blob'[ContentOf[k]] # Missing BY <1>6, <1>9 DEF c
  <2> QED BY <2>1, <2>2, <2>3, Zenon DEF Interrupted, IsLive, Live, Sizes
<1>18. cur' \in {Missing} \cup Requests /\ cur' # Missing /\ cur'.k = k BY <1>16, PublicationAssumption
<1>19. StoreInv' /\ NeverBackwards BY <1>9, <1>10, <1>12, <1>13, <1>15, <1>17, <1>18, RowsKeep
<1> QED BY <1>18, <1>19

\* sealContent.
LEMMA SealKeeps ==
  ASSUME StoreInv, cur = Missing, UNCHANGED due, NEW r \in Requests, r.op = "seal", NEW a,
         pub[r.k] # Missing, sealContent(r.k, a)
  PROVE  StoreInv' /\ NeverBackwards /\ TellsTrue(r, a)
<1> DEFINE k == r.k
           there == blob[ContentOf[k]] # Missing
           looked == tmp[k] # Missing \/ ~there \/ pub[k].received # Sizes(k)
           f == IF looked THEN reconcileTemporarySize(k) ELSE Missing
<1>1. k \in Keys /\ pub[k] # Missing BY DEF Requests
<1>2. CASE (a = View(pub[k]) \/ a = Refused) /\ Keep
  <2>1. StoreInv' /\ NeverBackwards BY <1>2, NothingMoves
  <2>2. pub'[k] = pub[k] BY <1>2 DEF Keep
  <2>3. TellsTrue(r, a) BY <1>1, <1>2, <2>1, <2>2, RowTells, RefusalTells
  <2> QED BY <2>1, <2>3
<1>3. CASE a = Refused /\ RefuseWrite(k) BY <1>1, <1>3, RefuseWriteKeeps, RefusalTells
<1>4. CASE ~NotWritable(k) /\ BytesMissing(k) /\ a = Refused /\ FailMissing(k)
  <2>1. IsLive(k) BY <1>4 DEF NotWritable
  <2> QED BY <1>1, <1>4, <2>1, FailMissingKeeps, RefusalTells
<1>5. CASE ~(looked /\ BytesMissing(k)) /\ a = Refused /\ Throw(k, pub, [tmp EXCEPT ![k] = f])
  <2>1. f \in {Missing} \cup Seq(BOOLEAN) /\ Stored(pub[k], f, blob[ContentOf[k]], k \in due, Sizes(k))
    <3>1. CASE looked
      <4>1. ~BytesMissing(k) /\ f = reconcileTemporarySize(k) BY <1>5, <3>1
      <4> QED BY <1>1, <4>1, CutUpload
    <3>2. CASE ~looked
      <4>1. f = Missing /\ tmp[k] = Missing BY <3>2
      <4>2. Stored(pub[k], tmp[k], blob[ContentOf[k]], k \in due, Sizes(k)) BY <1>1, StoredNow DEF StoreInv
      <4> QED BY <4>1, <4>2
    <3> QED BY <3>1, <3>2
  <2> HIDE DEF f, k
  <2>2. StoreInv' /\ NeverBackwards BY <1>1, <1>5, <2>1, TouchKeeps
  <2> QED BY <1>5, <2>2, RefusalTells
<1>6. CASE /\ ~NotWritable(k) /\ ~(looked /\ BytesMissing(k)) /\ ~(pub[k].received # Sizes(k))
           /\ f # Missing /\ ~assertDigest(f, k) /\ a = Refused
           /\ Throw(k, Closed(k, "failed"), [tmp EXCEPT ![k] = Missing])
  <2>1. IsLive(k) /\ k \notin due BY <1>6 DEF NotWritable
  <2>2. ~BytesMissing(k) /\ f = reconcileTemporarySize(k) /\ pub[k].received = Sizes(k) BY <1>6
  <2>3. Stored(pub[k], tmp[k], blob[ContentOf[k]], k \in due, Sizes(k)) BY <1>1, StoredNow DEF StoreInv
  <2>4. f # Right(Sizes(k)) BY <1>6 DEF assertDigest
  <2>5. ~(tmp[k] # Missing /\ matches(tmp[k], 0, pub[k].received)) BY <1>1, <2>2, <2>4, CutUpload
  <2>6. Stored(pub[k], Missing, blob[ContentOf[k]], k \in due, Sizes(k)) BY <2>3, <2>5 DEF Stored
  <2>7. Missing \in {Missing} \cup Seq(BOOLEAN) OBVIOUS
  <2> HIDE DEF f, looked, there, k
  <2>8. StoreInv' /\ NeverBackwards BY <1>1, <1>6, <2>1, <2>6, <2>7, ThrowKeeps
  <2> QED BY <1>6, <2>8, RefusalTells
<1>7. CASE /\ ~NotWritable(k) /\ ~(pub[k].received # Sizes(k)) /\ ~(f # Missing /\ ~assertDigest(f, k))
           /\ a = Missing /\ cur' = [op |-> "seal", k |-> k, off |-> 0, n |-> 0]
           /\ sealBlob(k, f) /\ UNCHANGED <<pub, rows, arts>>
           /\ ~(looked /\ BytesMissing(k))
  <2>1. IsLive(k) /\ pub[k].received = Sizes(k) BY <1>7 DEF NotWritable
  <2>2. f = Right(Sizes(k)) \/ there
    <3>1. CASE f # Missing BY <1>7, <3>1 DEF assertDigest
    <3>2. CASE f = Missing
      <4>1. looked => ~BytesMissing(k) /\ f = reconcileTemporarySize(k) BY <1>7
      <4>2. looked => f \in Seq(BOOLEAN) BY <1>1, <4>1, CutUpload
      <4>3. ~looked BY <3>2, <4>2, PublicationAssumption
      <4> QED BY <4>3
    <3> QED BY <3>1, <3>2
  <2>3. f = Right(Sizes(k)) \/ blob[ContentOf[k]] # Missing BY <2>2
  <2> HIDE DEF f, looked, there, k
  <2>4. StoreInv' /\ NeverBackwards /\ cur' # Missing /\ cur'.k = k BY <1>1, <1>7, <2>1, <2>3, SealMove
  <2>5. TellsTrue(r, a) BY <1>7, <2>4 DEF TellsTrue, k
  <2> QED BY <2>4, <2>5
<1>8. \/ (a = View(pub[k]) \/ a = Refused) /\ Keep
      \/ a = Refused /\ RefuseWrite(k)
      \/ ~NotWritable(k) /\ BytesMissing(k) /\ a = Refused /\ FailMissing(k)
      \/ ~(looked /\ BytesMissing(k)) /\ a = Refused /\ Throw(k, pub, [tmp EXCEPT ![k] = f])
      \/ /\ ~NotWritable(k) /\ ~(looked /\ BytesMissing(k)) /\ ~(pub[k].received # Sizes(k))
         /\ f # Missing /\ ~assertDigest(f, k) /\ a = Refused
         /\ Throw(k, Closed(k, "failed"), [tmp EXCEPT ![k] = Missing])
      \/ /\ ~NotWritable(k) /\ ~(pub[k].received # Sizes(k)) /\ ~(f # Missing /\ ~assertDigest(f, k))
         /\ a = Missing /\ cur' = [op |-> "seal", k |-> k, off |-> 0, n |-> 0]
         /\ sealBlob(k, f) /\ UNCHANGED <<pub, rows, arts>>
         /\ ~(looked /\ BytesMissing(k))
  <2> HIDE DEF f, looked, there
  <2>1. \/ pub[k].state \in {"sealed", "bound"} /\ a = View(pub[k]) /\ Keep
        \/ a = Refused /\ Keep
        \/ a = Refused /\ RefuseWrite(k)
        \/ ~NotWritable(k) /\ looked /\ BytesMissing(k) /\ a = Refused /\ FailMissing(k)
        \/ ~(looked /\ BytesMissing(k)) /\ a = Refused /\ Throw(k, pub, [tmp EXCEPT ![k] = f])
        \/ /\ ~NotWritable(k) /\ ~(looked /\ BytesMissing(k)) /\ ~(pub[k].received # Sizes(k))
           /\ f # Missing /\ ~assertDigest(f, k) /\ a = Refused
           /\ Throw(k, Closed(k, "failed"), [tmp EXCEPT ![k] = Missing])
        \/ /\ ~NotWritable(k) /\ ~(pub[k].received # Sizes(k)) /\ ~(f # Missing /\ ~assertDigest(f, k))
           /\ a = Missing /\ cur' = [op |-> "seal", k |-> k, off |-> 0, n |-> 0]
           /\ sealBlob(k, f) /\ UNCHANGED <<pub, rows, arts>>
           /\ ~(looked /\ BytesMissing(k))
    BY Zenon DEF sealContent, f, looked, there
  <2> QED BY <2>1, Zenon
<1> HIDE DEF f, looked, there, k
<1> QED BY <1>2, <1>3, <1>4, <1>5, <1>6, <1>7, <1>8, Zenon

\* One row moves and the files stay.
LEMMA OneRow ==
  ASSUME StoreInv, NEW k \in Keys, NEW new \in UploadRows, pub[k] # Missing,
         new.received <= Sizes(k), new.received >= pub[k].received, pub[k].state \in Live \cup {"sealed"},
         pub[k].state = "sealed" => new.state \in {"sealed", "bound"},
         pub' = [pub EXCEPT ![k] = new], UNCHANGED <<tmp, blob, due>>, cur' = Missing,
         rows \subseteq rows', rows' \subseteq Contents, \A c \in rows' : blob[c] = Right(Size[c]),
         new.state \in {"sealed", "bound"} => ContentOf[k] \in rows' /\ new.received = Sizes(k),
         Stored(new, tmp[k], blob[ContentOf[k]], k \in due, Sizes(k)),
         arts' \in Seq([key : Keys, content : Contents]), ArtifactsOnce'
  PROVE  StoreInv' /\ NeverBackwards
<1>1. /\ pub \in [Keys -> {Missing} \cup UploadRows] /\ \A j \in Keys : pub[j] # Missing => pub[j].received <= Sizes(j)
      /\ tmp \in [Keys -> {Missing} \cup Seq(BOOLEAN)] /\ blob \in [Contents -> {Missing} \cup Seq(BOOLEAN)]
      /\ SealedIsWhole /\ BlobsWhole /\ AcknowledgedIsStored /\ NoBypass
  BY DEF StoreInv
<1>2. new \in {Missing} \cup UploadRows /\ new # Missing BY PublicationAssumption
<1>3. pub' \in [Keys -> {Missing} \cup UploadRows] BY <1>1, <1>2, Zenon
<1>4. pub'[k] = new /\ \A j \in Keys : j # k => pub'[j] = pub[j] BY <1>1, Zenon
<1>5. \A j \in Keys :
        /\ pub'[j] # Missing => pub'[j].received <= Sizes(j)
        /\ pub'[j] # Missing /\ pub'[j].state \in {"sealed", "bound"} =>
             ContentOf[j] \in rows' /\ pub'[j].received = Sizes(j)
        /\ Stored(pub'[j], tmp'[j], blob'[ContentOf[j]], j \in due', Sizes(j))
  <2> SUFFICES ASSUME NEW j \in Keys
               PROVE  /\ pub'[j] # Missing => pub'[j].received <= Sizes(j)
                      /\ pub'[j] # Missing /\ pub'[j].state \in {"sealed", "bound"} =>
                           ContentOf[j] \in rows' /\ pub'[j].received = Sizes(j)
                      /\ Stored(pub'[j], tmp'[j], blob'[ContentOf[j]], j \in due', Sizes(j))
    OBVIOUS
  <2>1. tmp' = tmp /\ blob' = blob /\ due' = due OBVIOUS
  <2>2. CASE j = k BY <1>4, <2>1, <2>2, Zenon
  <2>3. CASE j # k
    <3>1. pub'[j] = pub[j] BY <1>4, <2>3
    <3>2. Stored(pub[j], tmp[j], blob[ContentOf[j]], j \in due, Sizes(j)) BY <1>1, StoredNow
    <3>3. pub[j] # Missing /\ pub[j].state \in {"sealed", "bound"} =>
             ContentOf[j] \in rows' /\ pub[j].received = Sizes(j)
      BY <1>1 DEF SealedIsWhole, NoBypass
    <3> QED BY <1>1, <2>1, <3>1, <3>2, <3>3, Zenon
  <2> QED BY <2>2, <2>3
<1>6. NeverBackwards
  <2> SUFFICES ASSUME NEW j \in Keys, pub[j] # Missing
               PROVE  /\ pub'[j] # Missing /\ pub'[j].received >= pub[j].received
                      /\ (pub[j].state \in {"expired", "failed", "bound"} => pub'[j].state = pub[j].state)
                      /\ (pub[j].state = "sealed" => pub'[j].state \in {"sealed", "bound"})
    BY DEF NeverBackwards
  <2>1. CASE j = k BY <1>2, <1>4, <2>1 DEF Live
  <2>2. CASE j # k
    <3>1. pub'[j] = pub[j] /\ pub[j].received \in Nat BY <1>4, <2>2, PubFacts
    <3> QED BY <3>1
  <2> QED BY <2>1, <2>2
<1>7. AcknowledgedIsStored' BY <1>5, StoredNext
<1>8. SealedIsWhole'
  <2>1. \A j \in Keys : pub'[j] # Missing /\ pub'[j].state \in {"sealed", "bound"} => ContentOf[j] \in rows' BY <1>5
  <2> QED BY <2>1 DEF SealedIsWhole, Right
<1>9. NoBypass'
  <2>1. \A j \in Keys : pub'[j] # Missing /\ pub'[j].state \in {"sealed", "bound"} => pub'[j].received = Sizes(j) BY <1>5
  <2> QED BY <2>1 DEF NoBypass, Sizes
<1>10. BlobsWhole' BY <1>1 DEF BlobsWhole, Right
<1>11. Interrupted' BY DEF Interrupted
<1>12. \A j \in Keys : pub'[j] # Missing => pub'[j].received <= Sizes(j) BY <1>5
<1>13. /\ tmp' \in [Keys -> {Missing} \cup Seq(BOOLEAN)] /\ blob' \in [Contents -> {Missing} \cup Seq(BOOLEAN)]
       /\ cur' \in {Missing} \cup Requests
  BY <1>1
<1> QED BY <1>3, <1>6, <1>7, <1>8, <1>9, <1>10, <1>11, <1>12, <1>13 DEF StoreInv, Sizes

\* No Artifact is added and no row becomes bound.
LEMMA ArtifactsKeep ==
  ASSUME StoreInv, NEW k \in Keys, NEW new \in UploadRows, pub[k] # Missing, pub[k].state # "bound",
         new.state # "bound", pub' = [pub EXCEPT ![k] = new], UNCHANGED arts
  PROVE  ArtifactsOnce'
<1>1. pub \in [Keys -> {Missing} \cup UploadRows] /\ ArtifactsOnce BY DEF StoreInv
<1>2. pub'[k] = new /\ \A j \in Keys : j # k => pub'[j] = pub[j] BY <1>1, Zenon
<1>3. \A j \in Keys : (pub'[j] # Missing /\ pub'[j].state = "bound") <=> (pub[j] # Missing /\ pub[j].state = "bound")
  BY <1>2
<1> QED BY <1>1, <1>3 DEF ArtifactsOnce

\* bind adds the one Artifact of its publication.
LEMMA ArtifactsGrow ==
  ASSUME StoreInv, NEW k \in Keys, NEW new \in UploadRows, pub[k] # Missing, pub[k].state # "bound",
         new.state = "bound", pub' = [pub EXCEPT ![k] = new],
         arts' = Append(arts, [key |-> k, content |-> ContentOf[k]])
  PROVE  arts' \in Seq([key : Keys, content : Contents]) /\ ArtifactsOnce'
<1> DEFINE new_art == [key |-> k, content |-> ContentOf[k]]
<1>1. pub \in [Keys -> {Missing} \cup UploadRows] /\ ArtifactsOnce /\ arts \in Seq([key : Keys, content : Contents])
  BY DEF StoreInv
<1>2. ContentOf[k] \in Contents BY SizeFacts
<1>3. new_art \in [key : Keys, content : Contents] /\ new_art.key = k BY <1>2
<1>4. arts' = Append(arts, new_art) OBVIOUS
<1> HIDE DEF new_art
<1>5. /\ arts' \in Seq([key : Keys, content : Contents]) /\ Len(arts') = Len(arts) + 1
      /\ arts'[Len(arts) + 1] = new_art /\ \A i \in 1..Len(arts) : arts'[i] = arts[i]
  BY <1>1, <1>3, <1>4
<1>6. DOMAIN arts = 1..Len(arts) /\ DOMAIN arts' = 1..(Len(arts) + 1) /\ Len(arts) \in Nat BY <1>1, <1>5
<1>7. \A i \in DOMAIN arts : arts[i].key # k BY <1>1 DEF ArtifactsOnce
<1>8. pub'[k] = new /\ new # Missing /\ \A j \in Keys : j # k => pub'[j] = pub[j]
  <2>1. pub'[k] = new /\ \A j \in Keys : j # k => pub'[j] = pub[j] BY <1>1, Zenon
  <2> QED BY <2>1, PublicationAssumption
<1>9. \A i, j \in DOMAIN arts' : arts'[i].key = arts'[j].key => i = j
  <2> SUFFICES ASSUME NEW i \in DOMAIN arts', NEW j \in DOMAIN arts', arts'[i].key = arts'[j].key PROVE i = j
    OBVIOUS
  <2>1. \A x \in DOMAIN arts' : \/ x \in DOMAIN arts /\ arts'[x] = arts[x]
                                \/ x = Len(arts) + 1 /\ arts'[x].key = k
    <3> SUFFICES ASSUME NEW x \in DOMAIN arts'
                 PROVE  \/ x \in DOMAIN arts /\ arts'[x] = arts[x]
                        \/ x = Len(arts) + 1 /\ arts'[x].key = k
      OBVIOUS
    <3>1. x \in 1..Len(arts) \/ x = Len(arts) + 1 BY <1>6
    <3> QED BY <1>3, <1>5, <1>6, <3>1
  <2>2. CASE i \in DOMAIN arts /\ arts'[i] = arts[i] /\ j \in DOMAIN arts /\ arts'[j] = arts[j]
    BY <1>1, <2>2 DEF ArtifactsOnce
  <2>3. CASE i \in DOMAIN arts /\ arts'[i] = arts[i] /\ j = Len(arts) + 1 /\ arts'[j].key = k
    BY <1>7, <2>3
  <2>4. CASE j \in DOMAIN arts /\ arts'[j] = arts[j] /\ i = Len(arts) + 1 /\ arts'[i].key = k
    BY <1>7, <2>4
  <2> QED BY <2>1, <2>2, <2>3, <2>4
<1>10. \A j \in Keys : (pub'[j] # Missing /\ pub'[j].state = "bound") <=> \E i \in DOMAIN arts' : arts'[i].key = j
  <2> SUFFICES ASSUME NEW j \in Keys
               PROVE  (pub'[j] # Missing /\ pub'[j].state = "bound") <=> \E i \in DOMAIN arts' : arts'[i].key = j
    OBVIOUS
  <2>1. CASE j = k
    <3>1. arts'[Len(arts) + 1].key = k /\ Len(arts) + 1 \in DOMAIN arts' BY <1>3, <1>5, <1>6
    <3> QED BY <1>8, <2>1, <3>1
  <2>2. CASE j # k
    <3>1. pub'[j] = pub[j] BY <1>8, <2>2
    <3>2. (\E i \in DOMAIN arts : arts[i].key = j) => \E i \in DOMAIN arts' : arts'[i].key = j
      BY <1>5, <1>6
    <3>3. (\E i \in DOMAIN arts' : arts'[i].key = j) => \E i \in DOMAIN arts : arts[i].key = j
      <4> SUFFICES ASSUME NEW i \in DOMAIN arts', arts'[i].key = j PROVE \E x \in DOMAIN arts : arts[x].key = j
        OBVIOUS
      <4>1. i # Len(arts) + 1 BY <1>3, <1>5, <2>2
      <4>2. i \in DOMAIN arts /\ arts'[i] = arts[i] BY <1>5, <1>6, <4>1
      <4> QED BY <4>2
    <3> QED BY <1>1, <3>1, <3>2, <3>3 DEF ArtifactsOnce
  <2> QED BY <2>1, <2>2
<1> QED BY <1>5, <1>9, <1>10 DEF ArtifactsOnce

\* bindArtifact.
LEMMA BindKeeps ==
  ASSUME StoreInv, cur = Missing, UNCHANGED due, NEW r \in Requests, r.op = "bind", NEW a,
         pub[r.k] # Missing, bindArtifact(r.k, a)
  PROVE  StoreInv' /\ NeverBackwards /\ TellsTrue(r, a)
<1> DEFINE k == r.k
<1>1. k \in Keys /\ pub[k] # Missing BY DEF Requests
<1>2. CASE pub[k].state = "bound" /\ a = View(pub[k]) /\ Keep
  <2>1. StoreInv' /\ NeverBackwards BY <1>2, NothingMoves
  <2>2. pub'[k] = pub[k] BY <1>2 DEF Keep
  <2>3. TellsTrue(r, a) BY <1>1, <1>2, <2>1, <2>2, RowTells
  <2> QED BY <2>1, <2>3
<1>3. CASE a = Refused /\ Keep BY <1>3, NothingMoves, RefusalTells
<1>4. CASE /\ pub[k].state = "sealed" /\ a = View(Row("bound", pub[k].received)) /\ pub' = Closed(k, "bound")
           /\ arts' = Append(arts, [key |-> k, content |-> ContentOf[k]]) /\ UNCHANGED <<publishFiles, rows, cur>>
  <2> DEFINE new == Row("bound", pub[k].received)
  <2>1. "bound" \in States BY DEF States
  <2>2. pub[k].received \in Nat /\ pub[k].received <= Sizes(k) BY <1>1, PubFacts
  <2>3. new \in UploadRows /\ new.state = "bound" /\ new.received = pub[k].received /\ new # Missing
    BY <2>1, <2>2, RowFacts
  <2>4. pub' = [pub EXCEPT ![k] = new] BY <1>1, <1>4, <2>1, ClosedRow
  <2>5. /\ UNCHANGED <<tmp, blob, due>> /\ cur' = Missing /\ rows' = rows /\ a = View(new)
    BY <1>4 DEF publishFiles
  <2> HIDE DEF new, k
  <2>6. arts' \in Seq([key : Keys, content : Contents]) /\ ArtifactsOnce'
    <3>1. pub[k].state # "bound" BY <1>4
    <3> QED BY <1>1, <1>4, <2>3, <2>4, <3>1, ArtifactsGrow
  <2>7. /\ rows \subseteq Contents /\ (\A c \in rows : blob[c] = Right(Size[c]))
        /\ ContentOf[k] \in rows /\ pub[k].received = Sizes(k)
    BY <1>1, <1>4 DEF StoreInv, SealedIsWhole, NoBypass
  <2>8. Stored(new, tmp[k], blob[ContentOf[k]], k \in due, Sizes(k)) BY <2>3 DEF Stored, Live
  <2>9. new.received >= pub[k].received BY <2>2, <2>3
  <2>10. StoreInv' /\ NeverBackwards
    BY <1>1, <1>4, <2>2, <2>3, <2>4, <2>5, <2>6, <2>7, <2>8, <2>9, OneRow
  <2>11. pub'[k] = new
    <3>1. pub \in [Keys -> {Missing} \cup UploadRows] BY DEF StoreInv
    <3> QED BY <1>1, <2>4, <3>1, Zenon
  <2>12. TellsTrue(r, a) BY <2>3, <2>5, <2>10, <2>11, RowTells DEF k
  <2> QED BY <2>10, <2>12
<1> QED BY <1>2, <1>3, <1>4, Zenon DEF bindArtifact, boundResult

\* Every handler keeps what Central stores, and answers with what is so.
LEMMA HandlerKeeps ==
  ASSUME StoreInv, cur = Missing, UNCHANGED due, NEW r \in Requests, NEW a, Handler(r, a),
         r.op # "prepare" => pub[r.k] # Missing, r.op = "chunk" => r.n > 0
  PROVE  StoreInv' /\ NeverBackwards /\ TellsTrue(r, a)
<1>1. CASE r.op = "prepare"
  <2>1. prepareContent(r.k, a) BY <1>1 DEF Handler
  <2> QED BY <1>1, <2>1, PrepareKeeps
<1>2. CASE r.op = "chunk"
  <2>1. appendContent(r, a) BY <1>2 DEF Handler
  <2> QED BY <1>2, <2>1, AppendKeeps
<1>3. CASE r.op = "seal"
  <2>1. sealContent(r.k, a) BY <1>3 DEF Handler
  <2> QED BY <1>3, <2>1, SealKeeps
<1>4. CASE r.op = "bind"
  <2>1. bindArtifact(r.k, a) BY <1>4 DEF Handler
  <2> QED BY <1>4, <2>1, BindKeeps
<1>5. CASE r.op = "status"
  <2>1. a = View(pub[r.k]) /\ Keep BY <1>5 DEF Handler
  <2>2. StoreInv' /\ NeverBackwards BY <2>1, NothingMoves
  <2>3. pub'[r.k] = pub[r.k] BY <2>1 DEF Keep
  <2>4. TellsTrue(r, a) BY <1>5, <2>1, <2>2, <2>3, RowTells
  <2> QED BY <2>2, <2>4
<1>6. r.op \in {"prepare", "chunk", "seal", "bind", "status"} BY DEF Requests
<1> QED BY <1>1, <1>2, <1>3, <1>4, <1>5, <1>6

\* A row that goes on as it must leaves a publisher as true as it was.
LEMMA PublisherKeeps ==
  ASSUME NEW k, NEW x, NEW q, NEW a, NEW w, NEW v, NEW row, NEW new, PublisherTrue(k, x, q, a, w, row),
         row # Missing => new # Missing /\ (row.state = "bound" => new.state = "bound"),
         x.at = "done" => row # Missing, v = w \/ q # "serving"
  PROVE  PublisherTrue(k, x, q, a, v, new)
BY DEF PublisherTrue

\* The smaller of two numbers.
LEMMA MinOfTwo ==
  ASSUME NEW m \in Int, NEW n \in Int
  PROVE  Min({m, n}) = IF m <= n THEN m ELSE n
<1> DEFINE x == IF m <= n THEN m ELSE n
<1>1. x \in {m, n} /\ \A y \in {m, n} : x <= y OBVIOUS
<1>2. \A z \in {m, n} : (\A y \in {m, n} : z <= y) => z = x OBVIOUS
<1> HIDE DEF x
<1>3. (CHOOSE z \in {m, n} : \A y \in {m, n} : z <= y) = x BY <1>1, <1>2
<1> QED BY <1>3 DEF Min, x

\* A publisher asks for what it may: its publication exists, and a chunk has bytes.
LEMMA RequestFacts ==
  ASSUME PublisherInv, NEW c \in Clients, client[c].at \in {"prepare", "chunk", "seal", "bind"}
  PROVE  /\ Request(c) \in Requests /\ Request(c).k = KeyOf[c] /\ KeyOf[c] \in Keys
         /\ Request(c).op = IF client[c].asking THEN "status" ELSE client[c].at
         /\ Request(c).op # "prepare" => pub[KeyOf[c]] # Missing
         /\ Request(c).op = "chunk" => Request(c).n > 0
<1> DEFINE x == client[c]
           k == KeyOf[c]
           o == IF x.asking THEN "status" ELSE x.at
           m == Sizes(k) - x.view.received
           n == Min({ChunkBytes, m})
<1>1. k \in Keys /\ ChunkBytes \in Nat \ {0} BY PublicationAssumption
<1>2. x \in Publishers /\ PublisherTrue(k, x, req[c], ans[c], cur, pub[k]) BY DEF PublisherInv, Publishing
<1>3. x.view \in UploadRows /\ x.asking \in BOOLEAN BY <1>2 DEF Publishers
<1>4. x.view.received \in Nat BY <1>3 DEF UploadRows
<1>5. Sizes(k) \in Nat BY <1>1, SizeFacts
<1>6. x.view.received <= Sizes(k) /\ (x.at = "chunk" => x.view.received < Sizes(k)) BY <1>2 DEF PublisherTrue
<1>7. Request(c) = [op |-> o, k |-> k, off |-> x.view.received, n |-> n] BY DEF Request
<1>8. o \in {"prepare", "chunk", "seal", "bind", "status"} OBVIOUS
<1>9. m \in Nat /\ (x.at = "chunk" => m > 0) BY <1>4, <1>5, <1>6
<1>10. o # "prepare" => pub[k] # Missing BY <1>2 DEF PublisherTrue
<1>11. o = "chunk" => x.at = "chunk" OBVIOUS
<1> HIDE DEF m, o, k, x
<1>12. n = IF ChunkBytes <= m THEN ChunkBytes ELSE m BY <1>1, <1>9, MinOfTwo
<1>13. n \in Nat /\ (x.at = "chunk" => n > 0) BY <1>1, <1>9, <1>12
<1> HIDE DEF n
<1>14. Request(c) \in Requests BY <1>1, <1>4, <1>7, <1>8, <1>13 DEF Requests
<1>15. Request(c).op = o /\ Request(c).k = k /\ Request(c).n = n BY <1>7
<1> QED BY <1>1, <1>10, <1>11, <1>13, <1>14, <1>15 DEF o, k, x

\* What a row may do, of the row a publisher or a request names.
LEMMA RowGoesOn ==
  ASSUME NeverBackwards, NEW k \in Keys, pub[k] # Missing
  PROVE  pub'[k] # Missing /\ (pub[k].state = "bound" => pub'[k].state = "bound")
BY DEF NeverBackwards

\* A request nobody waits for still supposes a publication that exists.
LEMMA StraysKeep ==
  ASSUME PublisherInv, NeverBackwards
  PROVE  \A r \in strays : (r.op # "prepare" => pub'[r.k] # Missing) /\ (r.op = "chunk" => r.n > 0)
<1> TAKE r \in strays
<1>1. r.k \in Keys BY DEF PublisherInv, Requests
<1> QED BY <1>1, RowGoesOn DEF PublisherInv, Publishing

\* The rows move under publishers that are not being served.
LEMMA OthersKeep ==
  ASSUME PublisherInv, NeverBackwards, NEW c \in Clients, NEW w, w = cur \/ req[c] # "serving"
  PROVE  PublisherTrue(KeyOf[c], client[c], req[c], ans[c], w, pub'[KeyOf[c]])
<1>1. KeyOf[c] \in Keys BY PublicationAssumption
<1>2. PublisherTrue(KeyOf[c], client[c], req[c], ans[c], cur, pub[KeyOf[c]]) BY DEF PublisherInv, Publishing
<1>3. pub[KeyOf[c]] # Missing => pub'[KeyOf[c]] # Missing /\ (pub[KeyOf[c]].state = "bound" => pub'[KeyOf[c]].state = "bound")
  BY <1>1, RowGoesOn
<1>4. client[c].at = "done" => pub[KeyOf[c]] # Missing BY <1>2 DEF PublisherTrue
<1> QED BY <1>2, <1>3, <1>4, PublisherKeeps

\* A request of a publisher is served.
LEMMA ServeKeeps ==
  ASSUME StoreInv, PublisherInv, NEW c \in Clients, Serve(c)
  PROVE  StoreInv' /\ PublisherInv' /\ NeverBackwards
<1>1. PICK a \in Answers \cup {Missing} :
        /\ Handler(Request(c), a)
        /\ req' = [req EXCEPT ![c] = IF a = Missing THEN "serving" ELSE Missing]
        /\ ans' = [ans EXCEPT ![c] = a]
  BY DEF Serve
<1>2. cur = Missing /\ req[c] = "sent" /\ UNCHANGED <<due, client, strays>> BY DEF Serve
<1> DEFINE x == client[c]
           k == KeyOf[c]
           r == Request(c)
           q == IF a = Missing THEN "serving" ELSE Missing
<1>3. /\ strays \subseteq Requests /\ client \in [Clients -> Publishers]
      /\ req \in [Clients -> {Missing} \cup {"sent", "serving", "gone"}]
      /\ ans \in [Clients -> {Missing} \cup Answers]
      /\ \A d \in Clients : PublisherTrue(KeyOf[d], client[d], req[d], ans[d], cur, pub[KeyOf[d]])
  BY DEF PublisherInv, Publishing
<1>4. req[c] # Missing BY <1>2, PublicationAssumption
<1>5. x.at \in {"prepare", "chunk", "seal", "bind"} BY <1>3, <1>4 DEF PublisherTrue
<1>6. /\ r \in Requests /\ r.k = k /\ k \in Keys /\ r.op = IF x.asking THEN "status" ELSE x.at
      /\ r.op # "prepare" => pub[r.k] # Missing
      /\ r.op = "chunk" => r.n > 0
  BY <1>5, RequestFacts
<1>7. Handler(r, a) BY <1>1
<1> HIDE DEF r
<1>8. StoreInv' /\ NeverBackwards /\ TellsTrue(r, a) BY <1>2, <1>6, <1>7, HandlerKeeps
<1>9. \A d \in Clients : req[d] # "serving" BY <1>2, <1>3 DEF PublisherTrue
<1>10. \A d \in Clients : PublisherTrue(KeyOf[d], client[d], req[d], ans[d], cur', pub'[KeyOf[d]])
  BY <1>8, <1>9, OthersKeep
<1>11. PublisherTrue(k, x, q, a, cur', pub'[k])
  <2>1. PublisherTrue(k, x, req[c], ans[c], cur', pub'[k]) BY <1>10
  <2>2. CASE a = Missing
    <3>1. q = "serving" /\ q # Missing BY <2>2, PublicationAssumption
    <3>2. r.op \in {"chunk", "seal"} /\ cur' # Missing /\ cur'.k = k BY <1>6, <1>8, <2>2 DEF TellsTrue
    <3>3. ~x.asking /\ x.at \in {"chunk", "seal"} BY <1>6, <3>2
    <3> HIDE DEF x, k, q
    <3> QED BY <2>1, <2>2, <3>1, <3>2, <3>3 DEF PublisherTrue
  <2>3. CASE a # Missing
    <3>1. q = Missing BY <2>3
    <3>2. a.ok => /\ pub'[k] # Missing /\ a.received <= Sizes(k) /\ a.state \in States
                  /\ r.op = "bind" => pub'[k].state = "bound"
      BY <1>6, <1>8, <2>3 DEF TellsTrue
    <3>3. x.at = "bind" /\ ~x.asking => r.op = "bind" BY <1>6
    <3> HIDE DEF x, k, q
    <3>4. Missing # "serving" BY PublicationAssumption
    <3> QED BY <1>5, <2>1, <2>3, <3>1, <3>2, <3>3, <3>4 DEF PublisherTrue
  <2> QED BY <2>2, <2>3
<1>12. q \in {Missing} \cup {"sent", "serving", "gone"} /\ a \in {Missing} \cup Answers BY <1>1
<1>13. req' = [req EXCEPT ![c] = q] /\ ans' = [ans EXCEPT ![c] = a] BY <1>1
<1> HIDE DEF q
<1>14. req' \in [Clients -> {Missing} \cup {"sent", "serving", "gone"}] BY <1>3, <1>12, <1>13, Zenon
<1>15. ans' \in [Clients -> {Missing} \cup Answers] BY <1>3, <1>12, <1>13, Zenon
<1>16. /\ req'[c] = q /\ \A d \in Clients : d # c => req'[d] = req[d]
       /\ ans'[c] = a /\ \A d \in Clients : d # c => ans'[d] = ans[d]
  BY <1>3, <1>13, Zenon
<1>17. \A d \in Clients : PublisherTrue(KeyOf[d], client'[d], req'[d], ans'[d], cur', pub'[KeyOf[d]])
  <2> SUFFICES ASSUME NEW d \in Clients
               PROVE  PublisherTrue(KeyOf[d], client'[d], req'[d], ans'[d], cur', pub'[KeyOf[d]])
    OBVIOUS
  <2>1. client' = client BY <1>2
  <2>2. CASE d = c BY <1>11, <1>16, <2>1, <2>2, Zenon
  <2>3. CASE d # c BY <1>10, <1>16, <2>1, <2>3, Zenon
  <2> QED BY <2>2, <2>3
<1>18. \A s \in strays' : (s.op # "prepare" => pub'[s.k] # Missing) /\ (s.op = "chunk" => s.n > 0)
  BY <1>2, <1>8, StraysKeep
<1>19. Publishing' BY <1>17, <1>18, Zenon DEF Publishing, PublisherTrue, Sizes
<1>20. PublisherInv' BY <1>2, <1>3, <1>14, <1>15, <1>19 DEF PublisherInv
<1> QED BY <1>8, <1>20

\* A request arrives that nobody waits for any more.
LEMMA ServeLateKeeps ==
  ASSUME StoreInv, PublisherInv, NEW r, ServeLate(r)
  PROVE  StoreInv' /\ PublisherInv' /\ NeverBackwards
<1>1. PICK a \in Answers \cup {Missing} : Handler(r, a) BY DEF ServeLate
<1>2. cur = Missing /\ r \in strays /\ strays' = strays \ {r} /\ UNCHANGED <<due, client, req, ans>>
  BY DEF ServeLate
<1>3. /\ strays \subseteq Requests /\ client \in [Clients -> Publishers]
      /\ req \in [Clients -> {Missing} \cup {"sent", "serving", "gone"}]
      /\ ans \in [Clients -> {Missing} \cup Answers]
      /\ \A d \in Clients : PublisherTrue(KeyOf[d], client[d], req[d], ans[d], cur, pub[KeyOf[d]])
      /\ \A s \in strays : (s.op # "prepare" => pub[s.k] # Missing) /\ (s.op = "chunk" => s.n > 0)
  BY DEF PublisherInv, Publishing
<1>4. StoreInv' /\ NeverBackwards BY <1>1, <1>2, <1>3, HandlerKeeps
<1>5. \A d \in Clients : req[d] # "serving" BY <1>2, <1>3 DEF PublisherTrue
<1>6. \A d \in Clients : PublisherTrue(KeyOf[d], client[d], req[d], ans[d], cur', pub'[KeyOf[d]])
  BY <1>4, <1>5, OthersKeep
<1>7. \A d \in Clients : PublisherTrue(KeyOf[d], client'[d], req'[d], ans'[d], cur', pub'[KeyOf[d]])
  BY <1>2, <1>6
<1>8. \A s \in strays' : (s.op # "prepare" => pub'[s.k] # Missing) /\ (s.op = "chunk" => s.n > 0)
  BY <1>2, <1>4, StraysKeep
<1>9. Publishing' BY <1>7, <1>8, Zenon DEF Publishing, PublisherTrue, Sizes
<1>10. PublisherInv' BY <1>2, <1>3, <1>9 DEF PublisherInv
<1> QED BY <1>4, <1>10

\* advanceReceived: the row counts the chunk that the upload holds.
LEMMA AdvanceKeeps ==
  ASSUME StoreInv, cur # Missing, cur.op = "chunk", advanceReceived(cur), cur' = Missing, UNCHANGED due
  PROVE  StoreInv' /\ NeverBackwards
<1> DEFINE k == cur.k
           n == cur.off + cur.n
           new == Row("receiving", n)
<1>1. /\ cur \in Requests /\ IsLive(k) /\ cur.off = pub[k].received /\ n <= Sizes(k)
      /\ tmp[k] # Missing /\ matches(tmp[k], 0, n)
  BY DEF StoreInv, Interrupted
<1>2. k \in Keys /\ cur.off \in Nat /\ cur.n \in Nat BY <1>1 DEF Requests
<1>3. n \in Nat /\ n >= pub[k].received BY <1>1, <1>2
<1>4. pub[k] # Missing /\ pub[k].state \in Live BY <1>1 DEF IsLive
<1>5. "receiving" \in States BY DEF States, Live
<1>6. pub' = [pub EXCEPT ![k] = new] /\ UNCHANGED <<tmp, blob, rows, arts>> BY DEF advanceReceived, publishFiles
<1> HIDE DEF n, k
<1>7. new \in UploadRows /\ new.state = "receiving" /\ new.received = n BY <1>3, <1>5, RowFacts
<1> HIDE DEF new
<1>8. Stored(new, tmp[k], blob[ContentOf[k]], k \in due, Sizes(k)) BY <1>1, <1>7 DEF Stored
<1>9. pub[k].state # "bound" /\ pub[k].state # "sealed" BY <1>4 DEF Live
<1>10. ArtifactsOnce' BY <1>2, <1>4, <1>6, <1>7, <1>9, ArtifactsKeep
<1>11. /\ rows \subseteq rows' /\ rows' \subseteq Contents /\ arts' \in Seq([key : Keys, content : Contents])
       /\ \A c \in rows' : blob[c] = Right(Size[c])
  BY <1>6 DEF StoreInv, SealedIsWhole
<1>12. new.received <= Sizes(k) /\ new.received >= pub[k].received BY <1>1, <1>3, <1>7
<1>13. UNCHANGED <<tmp, blob, due>> BY <1>6
<1> QED BY <1>2, <1>4, <1>6, <1>7, <1>8, <1>9, <1>10, <1>11, <1>12, <1>13, OneRow

\* seal of the repository: the rows say what the blob has been since it was moved.
LEMMA SealRowsKeep ==
  ASSUME StoreInv, cur # Missing, cur.op # "chunk", sealRows(cur), cur' = Missing, UNCHANGED due
  PROVE  StoreInv' /\ NeverBackwards
<1> DEFINE k == cur.k
           c == ContentOf[k]
           new == Row("sealed", pub[k].received)
<1>1. cur \in Requests /\ IsLive(k) /\ pub[k].received = Sizes(k) /\ blob[c] # Missing
  BY DEF StoreInv, Interrupted
<1>2. k \in Keys BY <1>1 DEF Requests
<1>3. pub[k] # Missing /\ pub[k].state \in Live BY <1>1 DEF IsLive
<1>4. pub[k].received \in Nat BY <1>2, <1>3, PubFacts
<1>5. "sealed" \in States BY DEF States
<1>6. new \in UploadRows /\ new.state = "sealed" /\ new.received = pub[k].received BY <1>4, <1>5, RowFacts
<1>7. rows' = rows \cup {c} /\ UNCHANGED <<tmp, blob, arts>> /\ pub' = [pub EXCEPT ![k].state = "sealed"]
  BY DEF sealRows, publishFiles
<1>8. Closed(k, "sealed") = [pub EXCEPT ![k] = new] BY <1>2, <1>3, <1>5, ClosedRow
<1>9. pub' = [pub EXCEPT ![k] = new] BY <1>7, <1>8 DEF Closed
<1>10. c \in Contents /\ Sizes(k) \in Nat BY <1>2, SizeFacts
<1>11. blob[c] = Right(Size[c]) BY <1>1, <1>10 DEF StoreInv, BlobsWhole
<1> HIDE DEF new, k
<1>12. Stored(new, tmp[k], blob[ContentOf[k]], k \in due, Sizes(k)) BY <1>6 DEF Stored, Live
<1>13. pub[k].state # "bound" /\ pub[k].state # "sealed" BY <1>3 DEF Live
<1>14. ArtifactsOnce' BY <1>2, <1>3, <1>6, <1>7, <1>9, <1>13, ArtifactsKeep
<1>15. /\ rows \subseteq rows' /\ rows' \subseteq Contents /\ arts' \in Seq([key : Keys, content : Contents])
       /\ \A d \in rows' : blob[d] = Right(Size[d])
  BY <1>7, <1>10, <1>11 DEF StoreInv, SealedIsWhole
<1>16. new.received <= Sizes(k) /\ new.received >= pub[k].received /\ new.received = Sizes(k) BY <1>1, <1>4, <1>6, <1>10
<1>17. UNCHANGED <<tmp, blob, due>> /\ ContentOf[k] \in rows' BY <1>7
<1> QED BY <1>2, <1>3, <1>6, <1>9, <1>12, <1>13, <1>14, <1>15, <1>16, <1>17, OneRow

\* The rows of the request whose files are written, and its answer.
LEMMA CommitKeeps ==
  ASSUME StoreInv, PublisherInv, Commit
  PROVE  StoreInv' /\ PublisherInv' /\ NeverBackwards
<1>1. cur # Missing /\ cur' = Missing /\ UNCHANGED <<due, client, strays>>
  BY DEF Commit
<1>2. StoreInv' /\ NeverBackwards
  <2>1. CASE cur.op = "chunk" BY <1>1, <2>1, AdvanceKeeps DEF Commit
  <2>2. CASE cur.op # "chunk" BY <1>1, <2>2, SealRowsKeep DEF Commit
  <2> QED BY <2>1, <2>2
<1> DEFINE a == View(pub'[cur.k])
<1>3. /\ req' = [c \in Clients |-> IF req[c] = "serving" THEN Missing ELSE req[c]]
      /\ ans' = [c \in Clients |-> IF req[c] = "serving" THEN a ELSE ans[c]]
  BY DEF Commit
<1>4. /\ strays \subseteq Requests /\ client \in [Clients -> Publishers]
      /\ req \in [Clients -> {Missing} \cup {"sent", "serving", "gone"}]
      /\ ans \in [Clients -> {Missing} \cup Answers]
      /\ \A d \in Clients : PublisherTrue(KeyOf[d], client[d], req[d], ans[d], cur, pub[KeyOf[d]])
  BY DEF PublisherInv, Publishing
<1>5. cur.k \in Keys /\ pub[cur.k] # Missing
  <2>1. cur \in Requests /\ IsLive(cur.k) BY <1>1 DEF StoreInv, Interrupted
  <2> QED BY <2>1 DEF Requests, IsLive
<1>6. pub'[cur.k] # Missing BY <1>2, <1>5, RowGoesOn
<1>7. /\ pub' \in [Keys -> {Missing} \cup UploadRows]
      /\ \A k \in Keys : pub'[k] # Missing => pub'[k].received <= Sizes(k)
  BY <1>2 DEF StoreInv, Sizes
<1>8. pub'[cur.k] \in UploadRows /\ pub'[cur.k].received <= Sizes(cur.k) BY <1>5, <1>6, <1>7
<1>9. /\ a \in Answers /\ a # Missing /\ a.ok /\ a.state = pub'[cur.k].state
      /\ a.received = pub'[cur.k].received /\ pub'[cur.k].state \in States
  BY <1>5, <1>8, ViewFacts
<1>10. a.state \in States /\ a.received <= Sizes(cur.k) BY <1>8, <1>9
<1> HIDE DEF a
<1>11. /\ req' \in [Clients -> {Missing} \cup {"sent", "serving", "gone"}]
       /\ ans' \in [Clients -> {Missing} \cup Answers]
  BY <1>3, <1>4, <1>9
<1>12. \A d \in Clients : PublisherTrue(KeyOf[d], client'[d], req'[d], ans'[d], cur', pub'[KeyOf[d]])
  <2> SUFFICES ASSUME NEW d \in Clients
               PROVE  PublisherTrue(KeyOf[d], client[d], req'[d], ans'[d], cur', pub'[KeyOf[d]])
    BY <1>1
  <2>1. CASE req[d] = "serving"
    <3>1. req'[d] = Missing /\ ans'[d] = a BY <1>3, <2>1
    <3>2. PublisherTrue(KeyOf[d], client[d], req[d], ans[d], cur, pub'[KeyOf[d]]) BY <1>2, OthersKeep
    <3>3. cur.k = KeyOf[d] /\ client[d].at \in {"chunk", "seal"} BY <2>1, <3>2 DEF PublisherTrue
    <3>4. PublisherTrue(KeyOf[d], client[d], Missing, a, cur', pub'[KeyOf[d]])
      <4>1. Missing # "serving" BY PublicationAssumption
      <4> QED BY <1>6, <1>9, <1>10, <3>2, <3>3, <4>1 DEF PublisherTrue
    <3> QED BY <3>1, <3>4
  <2>2. CASE req[d] # "serving"
    <3>1. req'[d] = req[d] /\ ans'[d] = ans[d] BY <1>3, <2>2
    <3>2. PublisherTrue(KeyOf[d], client[d], req[d], ans[d], cur', pub'[KeyOf[d]]) BY <1>2, <2>2, OthersKeep
    <3> QED BY <3>1, <3>2
  <2> QED BY <2>1, <2>2
<1>13. \A s \in strays' : (s.op # "prepare" => pub'[s.k] # Missing) /\ (s.op = "chunk" => s.n > 0)
  BY <1>1, <1>2, StraysKeep
<1>14. Publishing' BY <1>12, <1>13, Zenon DEF Publishing, PublisherTrue, Sizes
<1>15. PublisherInv' BY <1>1, <1>4, <1>11, <1>14 DEF PublisherInv
<1> QED BY <1>2, <1>15

\* A row that does not move does not go backwards.
LEMMA RowsStay ==
  ASSUME StoreInv, UNCHANGED pub
  PROVE  NeverBackwards
<1> SUFFICES ASSUME NEW k \in Keys, pub[k] # Missing
             PROVE  /\ pub'[k] # Missing /\ pub'[k].received >= pub[k].received
                    /\ (pub[k].state \in {"expired", "failed", "bound"} => pub'[k].state = pub[k].state)
                    /\ (pub[k].state = "sealed" => pub'[k].state \in {"sealed", "bound"})
  BY DEF NeverBackwards
<1>1. pub[k].received \in Nat BY PubFacts
<1> QED BY <1>1

\* Central stops between the files and the rows: what was acknowledged before is still stored.
LEMMA CentralStopsKeeps ==
  ASSUME StoreInv, PublisherInv, CentralStops
  PROVE  StoreInv' /\ PublisherInv' /\ NeverBackwards
<1>1. cur # Missing /\ cur' = Missing /\ UNCHANGED <<pub, rows, arts, blob, due, client, ans, strays>>
  BY DEF CentralStops, db
<1> DEFINE k == cur.k
<1>2. cur \in Requests /\ cur.op \in {"chunk", "seal"} /\ IsLive(k) BY <1>1 DEF StoreInv, Interrupted
<1>3. k \in Keys /\ cur.off \in Nat /\ cur.n \in Nat BY <1>2 DEF Requests
<1>4. /\ tmp \in [Keys -> {Missing} \cup Seq(BOOLEAN)] /\ blob \in [Contents -> {Missing} \cup Seq(BOOLEAN)]
      /\ BlobsWhole /\ AcknowledgedIsStored
  BY DEF StoreInv
<1>5. \A j \in Keys : Stored(pub[j], tmp[j], blob[ContentOf[j]], j \in due, Sizes(j)) BY <1>4, StoredNow
<1>6. /\ tmp' \in [Keys -> {Missing} \cup Seq(BOOLEAN)]
      /\ \A j \in Keys : Stored(pub[j], tmp'[j], blob[ContentOf[j]], j \in due, Sizes(j))
  <2>1. CASE cur.op = "chunk"
    <3>1. PICK m \in 0..cur.n : \E torn \in [1..m -> BOOLEAN] :
             tmp' = [tmp EXCEPT ![k] = SubSeq(tmp[k], 1, cur.off) \o torn]
      BY <2>1, Zenon DEF CentralStops
    <3>2. PICK torn \in [1..m -> BOOLEAN] : tmp' = [tmp EXCEPT ![k] = SubSeq(tmp[k], 1, cur.off) \o torn]
      BY <3>1
    <3> DEFINE g == SubSeq(tmp[k], 1, cur.off) \o torn
    <3>3. torn \in Seq(BOOLEAN) BY <1>3
    <3>4. cur.off = pub[k].received /\ tmp[k] # Missing /\ matches(tmp[k], 0, cur.off + cur.n)
      BY <1>1, <2>1 DEF StoreInv, Interrupted
    <3>5. tmp[k] \in Seq(BOOLEAN) BY <1>3, <1>4, <3>4
    <3>6. matches(tmp[k], 0, cur.off) BY <1>3, <3>4, <3>5, ShorterRight
    <3>7. g \in Seq(BOOLEAN) /\ matches(g, 0, cur.off) BY <1>3, <3>3, <3>5, <3>6, TornKeeps
    <3>8. tmp' = [tmp EXCEPT ![k] = g] BY <3>2
    <3> HIDE DEF g, k
    <3>9. g \in {Missing} \cup Seq(BOOLEAN) /\ g # Missing BY <3>7, PublicationAssumption
    <3>10. tmp' \in [Keys -> {Missing} \cup Seq(BOOLEAN)] BY <1>4, <3>8, <3>9, Zenon
    <3>11. tmp'[k] = g /\ \A j \in Keys : j # k => tmp'[j] = tmp[j] BY <1>3, <1>4, <3>8, Zenon
    <3>12. Stored(pub[k], g, blob[ContentOf[k]], k \in due, Sizes(k)) BY <3>4, <3>7, <3>9 DEF Stored
    <3>13. \A j \in Keys : Stored(pub[j], tmp'[j], blob[ContentOf[j]], j \in due, Sizes(j))
      <4> SUFFICES ASSUME NEW j \in Keys PROVE Stored(pub[j], tmp'[j], blob[ContentOf[j]], j \in due, Sizes(j))
        OBVIOUS
      <4>1. CASE j = k BY <3>11, <3>12, <4>1, Zenon
      <4>2. CASE j # k BY <1>5, <3>11, <4>2, Zenon
      <4> QED BY <4>1, <4>2
    <3> QED BY <3>10, <3>13
  <2>2. CASE cur.op # "chunk"
    <3>1. tmp' = tmp BY <2>2 DEF CentralStops
    <3> QED BY <1>4, <1>5, <3>1
  <2> QED BY <2>1, <2>2
<1>7. StoreInv' /\ NeverBackwards
  <2>1. BlobsWhole' BY <1>1, <1>4 DEF BlobsWhole, Right
  <2>2. Interrupted' BY <1>1 DEF Interrupted
  <2>3. \A j \in Keys : Stored(pub[j], tmp'[j], blob'[ContentOf[j]], j \in due', Sizes(j)) BY <1>1, <1>6
  <2>4. /\ \A c \in Contents : blob[c] # Missing => blob'[c] = blob[c]
        /\ blob' \in [Contents -> {Missing} \cup Seq(BOOLEAN)] /\ cur' \in {Missing} \cup Requests
    BY <1>1, <1>4
  <2>5. UNCHANGED <<pub, rows, arts>> BY <1>1
  <2> HIDE DEF k
  <2> QED BY <1>6, <2>1, <2>2, <2>3, <2>4, <2>5, RowsKeep
<1>8. /\ strays \subseteq Requests /\ client \in [Clients -> Publishers]
      /\ req \in [Clients -> {Missing} \cup {"sent", "serving", "gone"}]
      /\ ans \in [Clients -> {Missing} \cup Answers]
  BY DEF PublisherInv
<1>9. req' = [c \in Clients |-> IF req[c] = "serving" THEN "gone" ELSE req[c]] BY DEF CentralStops
<1>10. req' \in [Clients -> {Missing} \cup {"sent", "serving", "gone"}] BY <1>8, <1>9
<1>11. \A d \in Clients : PublisherTrue(KeyOf[d], client'[d], req'[d], ans'[d], cur', pub'[KeyOf[d]])
  <2> SUFFICES ASSUME NEW d \in Clients
               PROVE  PublisherTrue(KeyOf[d], client[d], req'[d], ans[d], cur', pub'[KeyOf[d]])
    BY <1>1
  <2>1. CASE req[d] = "serving"
    <3>1. req'[d] = "gone" BY <1>9, <2>1
    <3>2. PublisherTrue(KeyOf[d], client[d], req[d], ans[d], cur, pub'[KeyOf[d]]) BY <1>7, OthersKeep
    <3>3. req[d] # Missing BY <2>1, PublicationAssumption
    <3>4. PublisherTrue(KeyOf[d], client[d], "gone", ans[d], cur', pub'[KeyOf[d]])
      BY <2>1, <3>2, <3>3 DEF PublisherTrue
    <3> QED BY <3>1, <3>4
  <2>2. CASE req[d] # "serving"
    <3>1. req'[d] = req[d] BY <1>9, <2>2
    <3>2. PublisherTrue(KeyOf[d], client[d], req[d], ans[d], cur', pub'[KeyOf[d]]) BY <1>7, <2>2, OthersKeep
    <3> QED BY <3>1, <3>2
  <2> QED BY <2>1, <2>2
<1>12. \A s \in strays' : (s.op # "prepare" => pub'[s.k] # Missing) /\ (s.op = "chunk" => s.n > 0)
  BY <1>1, <1>7, StraysKeep
<1>13. Publishing' BY <1>11, <1>12, Zenon DEF Publishing, PublisherTrue, Sizes
<1>14. PublisherInv' BY <1>1, <1>8, <1>10, <1>13 DEF PublisherInv
<1> QED BY <1>7, <1>14

\* Time runs out for an upload or a lease.
LEMMA TimeKeeps ==
  ASSUME StoreInv, PublisherInv, due \subseteq due',
         UNCHANGED <<pub, rows, arts, tmp, blob, cur, client, req, ans, strays>>
  PROVE  StoreInv' /\ PublisherInv' /\ NeverBackwards
<1>1. NeverBackwards BY RowsStay
<1>2. AcknowledgedIsStored' BY DEF StoreInv, AcknowledgedIsStored, IsLive, matches, Right, Sizes
<1>3. StoreInv' BY <1>2 DEF StoreInv, SealedIsWhole, BlobsWhole, NoBypass, ArtifactsOnce, Interrupted, IsLive, Right, Sizes, matches
<1>4. PublisherInv' BY DEF PublisherInv, Publishing, PublisherTrue, Sizes
<1> QED BY <1>1, <1>3, <1>4

\* One publisher moves, and Central does not.
LEMMA OneMoves ==
  ASSUME StoreInv, PublisherInv, NEW c \in Clients, NEW x \in Publishers,
         NEW q \in {Missing} \cup {"sent", "serving", "gone"}, NEW a \in {Missing} \cup Answers,
         client' = [client EXCEPT ![c] = x], req' = [req EXCEPT ![c] = q], ans' = [ans EXCEPT ![c] = a],
         UNCHANGED Serving, PublisherTrue(KeyOf[c], x, q, a, cur, pub[KeyOf[c]]),
         \/ strays' = strays
         \/ strays' = strays \cup {Request(c)} /\ client[c].at \in {"prepare", "chunk", "seal", "bind"}
  PROVE  StoreInv' /\ PublisherInv' /\ NeverBackwards
<1>1. UNCHANGED <<pub, rows, arts, tmp, blob, due, cur>> BY DEF Serving, db, publishFiles
<1>2. /\ strays \subseteq Requests /\ client \in [Clients -> Publishers]
      /\ req \in [Clients -> {Missing} \cup {"sent", "serving", "gone"}]
      /\ ans \in [Clients -> {Missing} \cup Answers]
      /\ \A d \in Clients : PublisherTrue(KeyOf[d], client[d], req[d], ans[d], cur, pub[KeyOf[d]])
      /\ \A s \in strays : (s.op # "prepare" => pub[s.k] # Missing) /\ (s.op = "chunk" => s.n > 0)
  BY DEF PublisherInv, Publishing
<1>3. StoreInv' /\ NeverBackwards
  <2>1. NeverBackwards BY <1>1, RowsStay
  <2>2. AcknowledgedIsStored' BY <1>1 DEF StoreInv, AcknowledgedIsStored, IsLive, matches, Right, Sizes
  <2>3. StoreInv'
    BY <1>1, <2>2 DEF StoreInv, SealedIsWhole, BlobsWhole, NoBypass, ArtifactsOnce, Interrupted, IsLive, Right, Sizes, matches
  <2> QED BY <2>1, <2>3
<1>4. client' \in [Clients -> Publishers] BY <1>2, Zenon
<1>5. req' \in [Clients -> {Missing} \cup {"sent", "serving", "gone"}] BY <1>2, Zenon
<1>6. ans' \in [Clients -> {Missing} \cup Answers] BY <1>2, Zenon
<1>7. /\ client'[c] = x /\ req'[c] = q /\ ans'[c] = a
      /\ \A d \in Clients : d # c => client'[d] = client[d] /\ req'[d] = req[d] /\ ans'[d] = ans[d]
  BY <1>2, Zenon
<1>8. \A d \in Clients : PublisherTrue(KeyOf[d], client'[d], req'[d], ans'[d], cur', pub'[KeyOf[d]])
  <2> SUFFICES ASSUME NEW d \in Clients
               PROVE  PublisherTrue(KeyOf[d], client'[d], req'[d], ans'[d], cur', pub'[KeyOf[d]])
    OBVIOUS
  <2>1. cur' = cur /\ pub' = pub BY <1>1
  <2>2. CASE d = c BY <1>7, <2>1, <2>2, Zenon
  <2>3. CASE d # c BY <1>2, <1>7, <2>1, <2>3, Zenon
  <2> QED BY <2>2, <2>3
<1>9. /\ strays' \subseteq Requests
      /\ \A s \in strays' : (s.op # "prepare" => pub'[s.k] # Missing) /\ (s.op = "chunk" => s.n > 0)
  <2> SUFFICES ASSUME NEW s \in strays'
               PROVE  s \in Requests /\ (s.op # "prepare" => pub[s.k] # Missing) /\ (s.op = "chunk" => s.n > 0)
    BY <1>1
  <2>1. CASE s \in strays BY <1>2, <2>1
  <2>2. CASE s \notin strays /\ s = Request(c)
    <3>1. client[c].at \in {"prepare", "chunk", "seal", "bind"} BY <2>2
    <3>2. /\ Request(c) \in Requests /\ Request(c).k = KeyOf[c]
          /\ Request(c).op # "prepare" => pub[KeyOf[c]] # Missing
          /\ Request(c).op = "chunk" => Request(c).n > 0
      BY <3>1, RequestFacts
    <3> QED BY <2>2, <3>2
  <2> QED BY <2>1, <2>2
<1>10. Publishing' BY <1>8, <1>9, Zenon DEF Publishing, PublisherTrue, Sizes
<1>11. PublisherInv' BY <1>4, <1>5, <1>6, <1>9, <1>10 DEF PublisherInv
<1> QED BY <1>3, <1>11

\* Where a publisher is after a move.
LEMMA MoveFacts ==
  ASSUME PublisherInv, NEW c \in Clients, NEW to \in {"idle", "prepare", "chunk", "seal", "bind", "done", "error"},
         NEW asking \in BOOLEAN, NEW again \in BOOLEAN, NEW view \in UploadRows,
         Move(c, to, asking, again, view)
  PROVE  \E x \in Publishers : client' = [client EXCEPT ![c] = x] /\ x.at = to /\ x.asking = asking /\ x.view = view
<1> DEFINE y == client[c]
           x == [y EXCEPT !.at = to, !.asking = asking, !.again = again, !.view = view]
<1>1. y \in Publishers BY DEF PublisherInv
<1>2. client' = [client EXCEPT ![c] = x] BY Zenon DEF Move
<1> HIDE DEF y
<1>3. x \in Publishers BY <1>1, Zenon DEF Publishers
<1>4. x.at = to /\ x.asking = asking /\ x.view = view BY <1>1 DEF Publishers
<1> HIDE DEF x
<1> QED BY <1>2, <1>3, <1>4

\* What is known of a publisher.
LEMMA ClientFacts ==
  ASSUME PublisherInv, NEW c \in Clients
  PROVE  /\ client[c] \in Publishers /\ client[c].view \in UploadRows /\ client[c].asking \in BOOLEAN
         /\ PublisherTrue(KeyOf[c], client[c], req[c], ans[c], cur, pub[KeyOf[c]]) /\ KeyOf[c] \in Keys
         /\ req[c] \in {Missing} \cup {"sent", "serving", "gone"} /\ ans[c] \in {Missing} \cup Answers
<1>1. /\ client[c] \in Publishers /\ PublisherTrue(KeyOf[c], client[c], req[c], ans[c], cur, pub[KeyOf[c]])
      /\ req[c] \in {Missing} \cup {"sent", "serving", "gone"} /\ ans[c] \in {Missing} \cup Answers
  BY DEF PublisherInv, Publishing
<1>2. client[c].view \in UploadRows /\ client[c].asking \in BOOLEAN BY <1>1 DEF Publishers
<1> QED BY <1>1, <1>2, PublicationAssumption

\* A publisher that waits for nothing moves to where its publication allows.
LEMMA MoveKeeps ==
  ASSUME StoreInv, PublisherInv, NEW c \in Clients,
         NEW to \in {"idle", "prepare", "chunk", "seal", "bind", "done", "error"},
         NEW asking \in BOOLEAN, NEW again \in BOOLEAN, NEW view \in UploadRows, Move(c, to, asking, again, view),
         req' = [req EXCEPT ![c] = Missing], ans' = [ans EXCEPT ![c] = Missing], UNCHANGED Serving,
         \/ strays' = strays
         \/ strays' = strays \cup {Request(c)} /\ client[c].at \in {"prepare", "chunk", "seal", "bind"},
         asking => to \in {"chunk", "seal", "bind"},
         to \in {"chunk", "seal", "bind", "done"} => pub[KeyOf[c]] # Missing,
         view.received <= Sizes(KeyOf[c]), to = "chunk" => view.received < Sizes(KeyOf[c]),
         to = "done" => pub[KeyOf[c]].state = "bound"
  PROVE  StoreInv' /\ PublisherInv' /\ NeverBackwards
<1>1. PICK x \in Publishers : client' = [client EXCEPT ![c] = x] /\ x.at = to /\ x.asking = asking /\ x.view = view
  <2>1. \E x \in Publishers : client' = [client EXCEPT ![c] = x] /\ x.at = to /\ x.asking = asking /\ x.view = view
    BY MoveFacts
  <2> QED BY <2>1
<1>2. Missing # "serving" BY PublicationAssumption
<1>3. PublisherTrue(KeyOf[c], x, Missing, Missing, cur, pub[KeyOf[c]]) BY <1>1, <1>2 DEF PublisherTrue
<1>4. Missing \in {Missing} \cup {"sent", "serving", "gone"} /\ Missing \in {Missing} \cup Answers OBVIOUS
<1> QED BY <1>1, <1>3, <1>4, OneMoves, Zenon

\* A publisher without a request or an answer.
LEMMA NothingUnderWay ==
  ASSUME PublisherInv, NEW c \in Clients, req[c] = Missing
  PROVE  req = [req EXCEPT ![c] = Missing]
<1>1. req \in [Clients -> {Missing} \cup {"sent", "serving", "gone"}] BY DEF PublisherInv
<1> QED BY <1>1, Zenon

\* The same of its answer.
LEMMA NoAnswer ==
  ASSUME PublisherInv, NEW c \in Clients, ans[c] = Missing
  PROVE  ans = [ans EXCEPT ![c] = Missing]
<1>1. ans \in [Clients -> {Missing} \cup Answers] BY DEF PublisherInv
<1> QED BY <1>1, Zenon

\* Publish or PublishCapture starts.
LEMMA PublishStarts ==
  ASSUME StoreInv, PublisherInv, NEW c \in Clients, Start(c)
  PROVE  StoreInv' /\ PublisherInv' /\ NeverBackwards
<1> DEFINE x == [at |-> "prepare", asking |-> FALSE, again |-> FALSE, view |-> Row("prepared", 0),
                 starts |-> client[c].starts + 1]
<1>1. /\ client[c] \in Publishers /\ PublisherTrue(KeyOf[c], client[c], req[c], ans[c], cur, pub[KeyOf[c]])
      /\ KeyOf[c] \in Keys
  BY ClientFacts
<1>2. client[c].at \in {"idle", "error"} /\ client[c].starts < MaxStarts /\ UNCHANGED <<Serving, req, ans, strays>>
  BY DEF Start, net
<1>3. req[c] = Missing /\ ans[c] = Missing BY <1>1, <1>2 DEF PublisherTrue
<1>4. client' = [client EXCEPT ![c] = x] BY Zenon DEF Start
<1>5. client[c].starts \in 0..MaxStarts BY <1>1 DEF Publishers
<1>6. client[c].starts + 1 \in 0..MaxStarts BY <1>2, <1>5, PublicationAssumption
<1>7. Row("prepared", 0) \in UploadRows /\ Row("prepared", 0).received = 0
  <2>1. "prepared" \in States BY DEF States, Live
  <2> QED BY <2>1, RowFacts
<1>8. x \in Publishers BY <1>6, <1>7 DEF Publishers
<1>9. x.at = "prepare" /\ x.asking = FALSE /\ x.view.received = 0 BY <1>7
<1>10. Sizes(KeyOf[c]) \in Nat BY <1>1, SizeFacts
<1> HIDE DEF x
<1>11. PublisherTrue(KeyOf[c], x, Missing, Missing, cur, pub[KeyOf[c]])
  <2>1. Missing # "serving" /\ 0 <= Sizes(KeyOf[c]) BY <1>10, PublicationAssumption
  <2> QED BY <1>9, <2>1 DEF PublisherTrue
<1>12. req' = [req EXCEPT ![c] = Missing] /\ ans' = [ans EXCEPT ![c] = Missing]
  BY <1>2, <1>3, NothingUnderWay, NoAnswer
<1>13. strays' = strays BY <1>2
<1>14. Missing \in {Missing} \cup {"sent", "serving", "gone"} /\ Missing \in {Missing} \cup Answers OBVIOUS
<1>15. UNCHANGED Serving BY <1>2
<1> QED BY <1>4, <1>8, <1>11, <1>12, <1>13, <1>14, <1>15, OneMoves, Zenon

\* A publisher sends its request.
LEMMA SendKeeps ==
  ASSUME StoreInv, PublisherInv, NEW c \in Clients, Send(c)
  PROVE  StoreInv' /\ PublisherInv' /\ NeverBackwards
<1>1. /\ client[c].at \in {"prepare", "chunk", "seal", "bind"} /\ req[c] = Missing /\ ans[c] = Missing
      /\ req' = [req EXCEPT ![c] = "sent"] /\ UNCHANGED <<Serving, client, ans, strays>>
  BY DEF Send, Idle
<1> DEFINE x == client[c]
<1>2. x \in Publishers /\ PublisherTrue(KeyOf[c], x, req[c], ans[c], cur, pub[KeyOf[c]]) BY ClientFacts
<1>3. client' = [client EXCEPT ![c] = x]
  <2>1. client \in [Clients -> Publishers] BY DEF PublisherInv
  <2> QED BY <1>1, <2>1, Zenon
<1>4. ans' = [ans EXCEPT ![c] = Missing] BY <1>1, NoAnswer
<1> HIDE DEF x
<1>5. PublisherTrue(KeyOf[c], x, "sent", Missing, cur, pub[KeyOf[c]]) BY <1>1, <1>2 DEF PublisherTrue, x
<1>6. "sent" \in {Missing} \cup {"sent", "serving", "gone"} /\ Missing \in {Missing} \cup Answers OBVIOUS
<1>7. strays' = strays /\ UNCHANGED Serving BY <1>1
<1> QED BY <1>1, <1>2, <1>3, <1>4, <1>5, <1>6, <1>7, OneMoves, Zenon

\* Where publishSource goes.
LEMMA SourceFacts ==
  ASSUME NEW c \in Clients, NEW v
  PROVE  /\ publishSource(c, v) \in {"error", "chunk", "seal", "bind"}
         /\ publishSource(c, v) = "chunk" => v.received < Sizes(KeyOf[c])
<1>1. CASE v.state \in {"failed", "expired"}
  <2>1. publishSource(c, v) = "error" BY <1>1, Zenon DEF publishSource, Live
  <2> QED BY <2>1
<1>2. CASE v.state \notin {"failed", "expired"} /\ v.state \in Live
  <2>1. publishSource(c, v) = IF v.received < Sizes(KeyOf[c]) THEN "chunk" ELSE "seal"
    BY <1>2, Zenon DEF publishSource
  <2> QED BY <2>1
<1>3. CASE v.state \notin {"failed", "expired"} /\ v.state \notin Live
  <2>1. publishSource(c, v) = "bind" BY <1>3, Zenon DEF publishSource
  <2> QED BY <2>1
<1> QED BY <1>1, <1>2, <1>3

\* A publisher receives its answer.
LEMMA ReceiveKeeps ==
  ASSUME StoreInv, PublisherInv, NEW c \in Clients, Receive(c)
  PROVE  StoreInv' /\ PublisherInv' /\ NeverBackwards
<1> DEFINE a == ans[c]
           x == client[c]
           k == KeyOf[c]
           row == pub[k]
<1>1. /\ a # Missing /\ ans' = [ans EXCEPT ![c] = Missing] /\ UNCHANGED <<Serving, req, strays>>
      /\ IF x.asking THEN OnStatus(c, a) ELSE OnAnswer(c, a)
  BY DEF Receive
<1>2. /\ x \in Publishers /\ x.view \in UploadRows /\ x.asking \in BOOLEAN /\ k \in Keys
      /\ PublisherTrue(k, x, req[c], a, cur, row) /\ a \in Answers
  BY <1>1, ClientFacts
<1>3. req[c] = Missing BY <1>1, <1>2 DEF PublisherTrue
<1>4. req' = [req EXCEPT ![c] = Missing] BY <1>1, <1>3, NothingUnderWay
<1>5. a.received \in Nat
  <2>1. CASE a = Refused BY <2>1 DEF Refused
  <2>2. CASE a # Refused
    <3>1. a.received \in UNION {0..Size[d] : d \in Contents} BY <1>2, <2>2, Zenon DEF Answers
    <3>2. PICK d \in Contents : a.received \in 0..Size[d] BY <3>1
    <3>3. Size[d] \in Nat BY PublicationAssumption
    <3> QED BY <3>2, <3>3
  <2> QED BY <2>1, <2>2
<1>6. x.view.received <= Sizes(k) /\ (x.at = "chunk" => x.view.received < Sizes(k)) BY <1>2 DEF PublisherTrue
<1>7. a.ok => /\ row # Missing /\ a.received <= Sizes(k) /\ a.state \in States
              /\ x.at = "bind" /\ ~x.asking => row.state = "bound"
  BY <1>1, <1>2 DEF PublisherTrue
<1>8. a.ok => Seen(a) \in UploadRows /\ Seen(a).received = a.received BY <1>5, <1>7, RowFacts DEF Seen
<1>9. strays' = strays /\ UNCHANGED Serving BY <1>1
<1>10. x.asking => x.at \in {"chunk", "seal", "bind"} BY <1>2 DEF PublisherTrue
<1>11. \/ Move(c, "error", FALSE, FALSE, x.view)
       \/ a.ok /\ Move(c, "error", FALSE, FALSE, Seen(a))
       \/ a.ok /\ x.at = "bind" /\ ~x.asking /\ Move(c, "done", FALSE, FALSE, Seen(a))
       \/ a.ok /\ Move(c, publishSource(c, a), FALSE, FALSE, Seen(a))
       \/ /\ a.ok /\ x.asking /\ (x.at = "chunk" => a.received = x.view.received)
          /\ Move(c, x.at, FALSE, TRUE, Seen(a))
  <2>1. CASE x.asking
    <3>1. OnStatus(c, a) BY <1>1, <2>1
    <3> QED BY <2>1, <3>1, Zenon DEF OnStatus
  <2>2. CASE ~x.asking
    <3>1. OnAnswer(c, a) BY <1>1, <2>2
    <3> QED BY <2>2, <3>1, Zenon DEF OnAnswer
  <2> QED BY <2>1, <2>2
<1> DEFINE view == Seen(a)
<1> HIDE DEF a, x, row, view
<1>12. CASE Move(c, "error", FALSE, FALSE, x.view)
  <2>1. x.view.received <= Sizes(KeyOf[c]) BY <1>6
  <2> QED BY <1>1, <1>2, <1>4, <1>9, <1>12, <2>1, MoveKeeps DEF x
<1>13. CASE a.ok /\ Move(c, "error", FALSE, FALSE, view)
  <2>1. view \in UploadRows /\ view.received <= Sizes(KeyOf[c]) BY <1>7, <1>8, <1>13 DEF view
  <2> QED BY <1>1, <1>4, <1>9, <1>13, <2>1, MoveKeeps
<1>14. CASE a.ok /\ x.at = "bind" /\ ~x.asking /\ Move(c, "done", FALSE, FALSE, view)
  <2>1. view \in UploadRows /\ view.received <= Sizes(KeyOf[c]) BY <1>7, <1>8, <1>14 DEF view
  <2>2. pub[KeyOf[c]] # Missing /\ pub[KeyOf[c]].state = "bound" BY <1>7, <1>14 DEF row
  <2> QED BY <1>1, <1>4, <1>9, <1>14, <2>1, <2>2, MoveKeeps
<1>15. CASE a.ok /\ Move(c, publishSource(c, a), FALSE, FALSE, view)
  <2> DEFINE to == publishSource(c, a)
  <2>1. view \in UploadRows /\ view.received <= Sizes(KeyOf[c]) BY <1>7, <1>8, <1>15 DEF view
  <2>2. pub[KeyOf[c]] # Missing BY <1>7, <1>15 DEF row
  <2>3. /\ to \in {"error", "chunk", "seal", "bind"} /\ (to = "chunk" => view.received < Sizes(KeyOf[c]))
    BY <1>8, <1>15, SourceFacts DEF view
  <2>4. Move(c, to, FALSE, FALSE, view) BY <1>15
  <2> HIDE DEF to, k
  <2>5. to \in {"idle", "prepare", "chunk", "seal", "bind", "done", "error"} /\ to # "done" BY <2>3
  <2> QED BY <1>1, <1>4, <1>9, <2>1, <2>2, <2>3, <2>4, <2>5, MoveKeeps
<1>16. CASE /\ a.ok /\ x.asking /\ (x.at = "chunk" => a.received = x.view.received)
            /\ Move(c, x.at, FALSE, TRUE, view)
  <2> DEFINE to == x.at
  <2>1. view \in UploadRows /\ view.received <= Sizes(KeyOf[c]) BY <1>7, <1>8, <1>16 DEF view
  <2>2. pub[KeyOf[c]] # Missing BY <1>7, <1>16 DEF row
  <2>3. to \in {"chunk", "seal", "bind"} BY <1>10, <1>16
  <2>4. to = "chunk" => view.received < Sizes(KeyOf[c]) BY <1>6, <1>8, <1>16 DEF view
  <2>5. Move(c, to, FALSE, TRUE, view) BY <1>16
  <2> HIDE DEF to, k
  <2>6. to \in {"idle", "prepare", "chunk", "seal", "bind", "done", "error"} /\ to # "done" BY <2>3
  <2> QED BY <1>1, <1>4, <1>9, <2>1, <2>2, <2>3, <2>4, <2>5, <2>6, MoveKeeps
<1>17. \/ Move(c, "error", FALSE, FALSE, x.view)
       \/ a.ok /\ Move(c, "error", FALSE, FALSE, view)
       \/ a.ok /\ x.at = "bind" /\ ~x.asking /\ Move(c, "done", FALSE, FALSE, view)
       \/ a.ok /\ Move(c, publishSource(c, a), FALSE, FALSE, view)
       \/ /\ a.ok /\ x.asking /\ (x.at = "chunk" => a.received = x.view.received)
          /\ Move(c, x.at, FALSE, TRUE, view)
  BY <1>11, Zenon DEF view
<1> QED BY <1>12, <1>13, <1>14, <1>15, <1>16, <1>17, Zenon

\* The outcome of a request is unknown: it is sent again, asked about, or given up.
LEMMA UnknownKeeps ==
  ASSUME StoreInv, PublisherInv, NEW c \in Clients, OutcomeUnknown(c), req[c] # Missing \/ ans[c] # Missing,
         req' = [req EXCEPT ![c] = Missing], ans' = [ans EXCEPT ![c] = Missing], UNCHANGED Serving,
         strays' = strays \/ strays' = strays \cup {Request(c)}
  PROVE  StoreInv' /\ PublisherInv' /\ NeverBackwards
<1> DEFINE x == client[c]
           view == x.view
           to == x.at
<1>1. x \in Publishers /\ view \in UploadRows /\ PublisherTrue(KeyOf[c], x, req[c], ans[c], cur, pub[KeyOf[c]])
  BY ClientFacts
<1>2. /\ to \in {"prepare", "chunk", "seal", "bind"} /\ view.received <= Sizes(KeyOf[c])
      /\ to = "chunk" => view.received < Sizes(KeyOf[c])
      /\ to \in {"chunk", "seal", "bind"} => pub[KeyOf[c]] # Missing
  BY <1>1 DEF PublisherTrue
<1>3. \/ strays' = strays
      \/ strays' = strays \cup {Request(c)} /\ client[c].at \in {"prepare", "chunk", "seal", "bind"}
  BY <1>2
<1>4. \/ Move(c, "error", FALSE, FALSE, view)
      \/ Move(c, "prepare", FALSE, TRUE, view)
      \/ to # "prepare" /\ Move(c, to, TRUE, FALSE, view)
  BY Zenon DEF OutcomeUnknown
<1> HIDE DEF view, to, x
<1>5. CASE Move(c, "error", FALSE, FALSE, view) BY <1>1, <1>2, <1>3, <1>5, MoveKeeps
<1>6. CASE Move(c, "prepare", FALSE, TRUE, view) BY <1>1, <1>2, <1>3, <1>6, MoveKeeps
<1>7. CASE to # "prepare" /\ Move(c, to, TRUE, FALSE, view)
  <2>1. to \in {"idle", "prepare", "chunk", "seal", "bind", "done", "error"} /\ to # "done" BY <1>2
  <2>2. to \in {"chunk", "seal", "bind"} BY <1>2, <1>7
  <2> QED BY <1>1, <1>2, <1>3, <1>7, <2>1, <2>2, MoveKeeps
<1> QED BY <1>4, <1>5, <1>6, <1>7

\* The connection breaks.
LEMMA LoseKeeps ==
  ASSUME StoreInv, PublisherInv, NEW c \in Clients, Lose(c)
  PROVE  StoreInv' /\ PublisherInv' /\ NeverBackwards
<1>1. OutcomeUnknown(c) /\ UNCHANGED Serving BY DEF Lose
<1>2. PublisherTrue(KeyOf[c], client[c], req[c], ans[c], cur, pub[KeyOf[c]]) BY ClientFacts
<1>3. CASE /\ req[c] = "sent" /\ ans' = ans /\ req' = [req EXCEPT ![c] = Missing]
           /\ \E l \in {strays} \cup (IF Late THEN {strays \cup {Request(c)}} ELSE {}) : strays' = l
  <2>1. req[c] # Missing BY <1>3, PublicationAssumption
  <2>2. ans[c] = Missing BY <1>2, <2>1 DEF PublisherTrue
  <2>3. ans' = [ans EXCEPT ![c] = Missing] BY <1>3, <2>2, NoAnswer
  <2>4. strays' = strays \/ strays' = strays \cup {Request(c)} BY <1>3
  <2> QED BY <1>1, <1>3, <2>1, <2>3, <2>4, UnknownKeeps
<1>4. CASE ans[c] # Missing /\ ans' = [ans EXCEPT ![c] = Missing] /\ UNCHANGED <<req, strays>>
  <2>1. req[c] = Missing BY <1>2, <1>4 DEF PublisherTrue
  <2>2. req' = [req EXCEPT ![c] = Missing] BY <1>4, <2>1, NothingUnderWay
  <2> QED BY <1>1, <1>4, <2>2, UnknownKeeps
<1> QED BY <1>3, <1>4 DEF Lose

\* Central crashed with the request.
LEMMA GoneKeeps ==
  ASSUME StoreInv, PublisherInv, NEW c \in Clients, Gone(c)
  PROVE  StoreInv' /\ PublisherInv' /\ NeverBackwards
<1>1. /\ req[c] = "gone" /\ OutcomeUnknown(c) /\ req' = [req EXCEPT ![c] = Missing]
      /\ UNCHANGED <<Serving, ans, strays>>
  BY DEF Gone
<1>2. PublisherTrue(KeyOf[c], client[c], req[c], ans[c], cur, pub[KeyOf[c]]) BY ClientFacts
<1>3. req[c] # Missing BY <1>1, PublicationAssumption
<1>4. ans[c] = Missing BY <1>2, <1>3 DEF PublisherTrue
<1>5. ans' = [ans EXCEPT ![c] = Missing] BY <1>1, <1>4, NoAnswer
<1>6. UNCHANGED Serving /\ strays' = strays BY <1>1
<1> QED BY <1>1, <1>3, <1>5, <1>6, UnknownKeeps

\* The first state.
LEMMA PublishInitOK == PublishInit => PublicationInv
<1> SUFFICES ASSUME PublishInit PROVE PublicationInv OBVIOUS
<1>1. /\ pub = [k \in Keys |-> Missing] /\ due = {} /\ sources = Keys
      /\ tmp = [k \in Keys |-> Missing] /\ blob = [c \in Contents |-> Missing]
      /\ rows = {} /\ arts = <<>> /\ cur = Missing /\ strays = {} /\ mishaps = 0
      /\ req = [c \in Clients |-> Missing] /\ ans = [c \in Clients |-> Missing]
  BY DEF PublishInit
<1> DEFINE x == [at |-> "idle", asking |-> FALSE, again |-> FALSE, view |-> Row("prepared", 0), starts |-> 0]
<1>2. client = [c \in Clients |-> x] BY DEF PublishInit
<1>3. Row("prepared", 0) \in UploadRows /\ Row("prepared", 0).received = 0
  <2>1. "prepared" \in States BY DEF States, Live
  <2> QED BY <2>1, RowFacts
<1>4. x \in Publishers BY <1>3, PublicationAssumption DEF Publishers
<1>5. x.at = "idle" /\ x.asking = FALSE /\ x.view.received = 0 BY <1>3
<1> HIDE DEF x
<1>6. StoreInv
  <2>1. arts \in Seq([key : Keys, content : Contents]) /\ DOMAIN arts = {} BY <1>1
  <2>2. \A k \in Keys : pub[k] = Missing BY <1>1
  <2>3. SealedIsWhole BY <1>1, <2>2 DEF SealedIsWhole
  <2>4. BlobsWhole BY <1>1 DEF BlobsWhole
  <2>5. AcknowledgedIsStored BY <2>2 DEF AcknowledgedIsStored, IsLive
  <2>6. NoBypass BY <2>2 DEF NoBypass
  <2>7. ArtifactsOnce BY <2>1, <2>2 DEF ArtifactsOnce
  <2>8. Interrupted BY <1>1 DEF Interrupted
  <2> QED BY <1>1, <2>1, <2>2, <2>3, <2>4, <2>5, <2>6, <2>7, <2>8 DEF StoreInv
<1>7. Publishing
  <2>1. ASSUME NEW c \in Clients
        PROVE  PublisherTrue(KeyOf[c], client[c], req[c], ans[c], cur, pub[KeyOf[c]])
    <3>1. KeyOf[c] \in Keys BY PublicationAssumption
    <3>2. Sizes(KeyOf[c]) \in Nat BY <3>1, SizeFacts
    <3>3. client[c] = x /\ req[c] = Missing /\ ans[c] = Missing /\ Missing # "serving" /\ 0 <= Sizes(KeyOf[c])
      BY <1>1, <1>2, <3>2, PublicationAssumption
    <3> QED BY <1>5, <3>3 DEF PublisherTrue
  <2> QED BY <1>1, <2>1 DEF Publishing
<1>8. PublisherInv BY <1>1, <1>2, <1>4, <1>7 DEF PublisherInv
<1> QED BY <1>1, <1>6, <1>8, PublicationAssumption DEF PublicationInv

\* Faults stay within their bound, and what is due or leased is a publication.
LEMMA BoundsKeep ==
  ASSUME due \subseteq Keys, sources \subseteq Keys, mishaps \in 0..MaxMishaps, PublishNext
  PROVE  due' \subseteq Keys /\ sources' \subseteq Keys /\ mishaps' \in 0..MaxMishaps
<1>1. ASSUME NEW c \in Clients, Publish(c) \/ PublishCapture(c)
      PROVE  UNCHANGED <<due, sources, mishaps>>
  BY <1>1 DEF Publish, PublishCapture, Start, Serving
<1>2. ASSUME NEW c \in Clients, Lose(c)
      PROVE  UNCHANGED <<due, sources>> /\ mishaps < MaxMishaps /\ mishaps' = mishaps + 1
  BY <1>2 DEF Lose, Serving
<1>3. ASSUME NEW c \in Clients, ClientStep(c) PROVE UNCHANGED <<due, sources, mishaps>>
  BY <1>3 DEF ClientStep, Send, Receive, Gone, Serving
<1>4. ASSUME CentralStep PROVE UNCHANGED <<due, sources, mishaps>> BY <1>4 DEF CentralStep, Commit, Serve
<1>5. ASSUME CentralStops
      PROVE  UNCHANGED <<due, sources>> /\ mishaps < MaxMishaps /\ mishaps' = mishaps + 1
  BY <1>5 DEF CentralStops
<1>6. ASSUME NEW r \in strays, ServeLate(r) PROVE UNCHANGED <<due, sources, mishaps>> BY <1>6 DEF ServeLate
<1>7. ASSUME NEW k \in Keys, UploadIsDue(k) \/ LeaseEnds(k)
      PROVE  due' \subseteq due \cup {k} /\ sources' \subseteq sources /\ mishaps' = mishaps
  BY <1>7 DEF UploadIsDue, LeaseEnds
<1>8. mishaps < MaxMishaps => mishaps + 1 \in 0..MaxMishaps BY PublicationAssumption
<1> QED BY <1>1, <1>2, <1>3, <1>4, <1>5, <1>6, <1>7, <1>8 DEF PublishNext

\* Every step keeps the invariant, and no upload goes backwards in it.
LEMMA PublishStep ==
  ASSUME PublicationInv, PublishNext
  PROVE  PublicationInv' /\ NeverBackwards
<1>1. StoreInv /\ PublisherInv /\ due \subseteq Keys /\ sources \subseteq Keys /\ mishaps \in 0..MaxMishaps
  BY DEF PublicationInv
<1>2. due' \subseteq Keys /\ sources' \subseteq Keys /\ mishaps' \in 0..MaxMishaps BY <1>1, BoundsKeep
<1>3. StoreInv' /\ PublisherInv' /\ NeverBackwards
  <2>1. CASE \E c \in Clients : Publish(c) \/ PublishCapture(c)
    BY <1>1, <2>1, PublishStarts DEF Publish, PublishCapture
  <2>2. CASE \E c \in Clients : Lose(c) BY <1>1, <2>2, LoseKeeps
  <2>3. CASE \E c \in Clients : ClientStep(c)
    BY <1>1, <2>3, SendKeeps, ReceiveKeeps, GoneKeeps DEF ClientStep
  <2>4. CASE CentralStep BY <1>1, <2>4, CommitKeeps, ServeKeeps DEF CentralStep
  <2>5. CASE CentralStops BY <1>1, <2>5, CentralStopsKeeps
  <2>6. CASE \E r \in strays : ServeLate(r) BY <1>1, <2>6, ServeLateKeeps
  <2>7. CASE \E k \in Keys : UploadIsDue(k) \/ LeaseEnds(k)
    <3>1. /\ due \subseteq due'
          /\ UNCHANGED <<pub, rows, arts, tmp, blob, cur, client, req, ans, strays>>
      BY <2>7 DEF UploadIsDue, LeaseEnds, db, publishFiles, net
    <3> QED BY <1>1, <3>1, TimeKeeps
  <2> QED BY <2>1, <2>2, <2>3, <2>4, <2>5, <2>6, <2>7 DEF PublishNext
<1> QED BY <1>2, <1>3 DEF PublicationInv

\* Nothing changes while Central and the publishers stand still.
LEMMA PublishStutters ==
  ASSUME PublicationInv, UNCHANGED publishVars
  PROVE  PublicationInv'
<1>1. /\ UNCHANGED <<pub, rows, arts, tmp, blob, cur, client, req, ans, strays>>
      /\ UNCHANGED <<due, sources, mishaps>>
  BY DEF publishVars, db, publishFiles, net
<1>2. StoreInv' /\ PublisherInv' BY <1>1, TimeKeeps DEF PublicationInv
<1> QED BY <1>1, <1>2 DEF PublicationInv

\* ArtifactsOnce says what OneArtifact counts.
LEMMA OneArtifactCounts ==
  ASSUME ArtifactsOnce
  PROVE  OneArtifact
<1> SUFFICES ASSUME NEW k \in Keys
             PROVE  Cardinality({i \in DOMAIN arts : arts[i].key = k})
                      = IF pub[k] # Missing /\ pub[k].state = "bound" THEN 1 ELSE 0
  BY DEF OneArtifact
<1> DEFINE S == {i \in DOMAIN arts : arts[i].key = k}
<1>1. CASE pub[k] # Missing /\ pub[k].state = "bound"
  <2>1. PICK i \in DOMAIN arts : arts[i].key = k BY <1>1 DEF ArtifactsOnce
  <2>2. S = {i} BY <2>1 DEF ArtifactsOnce
  <2>3. Cardinality({i}) = 1 BY FS_Singleton
  <2> QED BY <1>1, <2>2, <2>3
<1>2. CASE ~(pub[k] # Missing /\ pub[k].state = "bound")
  <2>1. S = {} BY <1>2 DEF ArtifactsOnce
  <2>2. Cardinality({}) = 0 BY FS_EmptySet
  <2> QED BY <1>2, <2>1, <2>2
<1> QED BY <1>1, <1>2

\* The invariant says what Central promises of publications.
LEMMA PublicationInvTrue == PublicationInv => PublicationTrue
<1> SUFFICES ASSUME PublicationInv PROVE PublicationTrue OBVIOUS
<1>1. PublishTypeOK BY DEF PublicationInv, StoreInv, PublisherInv, PublishTypeOK
<1>2. OneArtifact BY OneArtifactCounts DEF PublicationInv, StoreInv
<1>3. DoneIsBound
  BY DEF PublicationInv, PublisherInv, Publishing, PublisherTrue, DoneIsBound
<1> QED BY <1>1, <1>2, <1>3 DEF PublicationTrue, PublicationInv, StoreInv

\* For any publishers, publications, contents and number of faults and starts: a content with
\* a row has its whole blob and a sealed publication such a content, what was acknowledged is
\* stored, no publication is sealed without its bytes, one publication is one Artifact and a
\* publisher that returns success has it, whatever crashes and arrives late.
THEOREM PublicationIsTrue == PublishSpec => []PublicationTrue
<1>1. PublishInit => PublicationInv BY PublishInitOK
<1>2. PublicationInv /\ [PublishNext]_publishVars => PublicationInv' BY PublishStep, PublishStutters
<1>3. PublicationInv => PublicationTrue BY PublicationInvTrue
<1> QED BY <1>1, <1>2, <1>3, PTL DEF PublishSpec

\* An upload never goes backwards.
LEMMA UploadsGoOn == PublishSpec => [][NeverBackwards]_publishVars
<1>1. PublishInit => PublicationInv BY PublishInitOK
<1>2. PublicationInv /\ [PublishNext]_publishVars => PublicationInv' BY PublishStep, PublishStutters
<1>3. PublicationInv /\ [PublishNext]_publishVars => [NeverBackwards]_publishVars BY PublishStep
<1> QED BY <1>1, <1>2, <1>3, PTL DEF PublishSpec

\* For any verifiers and publishers: a verifier starts only under a grant that stands and
\* never again once its end is journaled (VerifyCaptured, runVerification), and an upload
\* never goes backwards nor leaves the state it has settled in (advanceReceived, seal, bind).
THEOREM EvidenceSteps == CollectionSpec => EvidenceStepsKept
<1>1. [StartsAuthorized]_verifyVars /\ [NeverBackwards]_publishVars
        => [/\ [StartsAuthorized]_verifyVars
            /\ [NeverBackwards]_publishVars]_<<verifyVars, publishVars>>
  OBVIOUS
<1> QED BY <1>1, StartsAreAuthorized, UploadsGoOn, PTL DEF CollectionSpec, EvidenceStepsKept
=============================================================================
