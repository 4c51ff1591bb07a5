---------------------------- MODULE Verification ----------------------------
(***************************************************************************)
(* What happens to the work of a governed Run whose Agent has finished: the *)
(* Bridge captures the candidate (admission/capture.go), Central seals it   *)
(* as a checkpoint (repository-capture-service.ts), the Bridge runs the     *)
(* owner's verification profiles on it one after the other                  *)
(* (admission/verification.go, internal/verification), Central keeps one    *)
(* receipt per profile (repository-verification-service.ts), and a Run that *)
(* completed with a passed receipt for every required profile is            *)
(* materialized as verified_output.  One Run and its checkpoint.            *)
(***************************************************************************)
EXTENDS Naturals, Sequences, FiniteSets

CONSTANTS
    Profiles,   \* the required profiles, in the order of their identifiers
    Browsers,   \* the profiles that drive a browser instead of a command
    Calls,      \* how often VerifyCaptured is called for the Run
    MaxLosses,  \* bound on crashes and lost requests
    MaxChanges, \* bound on revocations, supersessions and passed deadlines
    Nothing     \* no value

Ids == {Profiles[i] : i \in 1..Len(Profiles)}

\* What can be observed of a process: whether it was spawned, how it exited (or
\* whether the page's steps passed), whether its output was cut off, and whether
\* its time ran out, it was canceled, or a browser could not be cleaned up.
Observations == [spawned : BOOLEAN, zero : BOOLEAN, truncated : BOOLEAN,
                 expired : BOOLEAN, canceled : BOOLEAN, dirty : BOOLEAN]
Results == {"passed", "failed", "timed_out", "canceled", "outcome_unknown"}
\* What is journaled of a process that ended.
Endings == [outcome : Results, exit : {Nothing, 0, 1}, seen : Observations, late : BOOLEAN]

ASSUME VerificationAssumption ==
    /\ Profiles \in Seq(Ids) /\ Nothing \notin Results \cup Endings
    /\ \A i, j \in 1..Len(Profiles) : Profiles[i] = Profiles[j] => i = j
    /\ Browsers \subseteq Ids /\ Calls \in Nat \ {0} /\ MaxLosses \in Nat /\ MaxChanges \in Nat

VARIABLES
    run,       \* "finished" (Agent done), "captured", "completed", "unknown"
    lease,     \* the isolated lease of the Run is active
    approved,  \* the plan is approved or running at this revision
    capture,   \* Central: Nothing, "begun" or "sealed"
    grant,     \* the operations the local Task grant still allows
    profile,   \* Ids -> "registered", "changed" or "revoked"
    late,      \* the deadline of the operations has passed
    operation, \* Central: profiles with an admitted verification operation
    terminal,  \* journal of the Bridge: Ids -> Nothing or the result of a process
    file,      \* journal of the Bridge: Ids -> Nothing or the receipt
    logged,    \* Central: profiles whose log artifact is bound
    kept,      \* Central: Ids -> Nothing or an outcome
    output,    \* the verified_output materialization
    job,       \* Nothing or the step of the Bridge: [at, i, res]
    ran,       \* history: Ids -> number of processes started
    calls, losses, changes

verificationRows == <<lease, approved, capture, operation, logged, kept, output>>
journals == <<terminal, file>>
owner == <<grant, profile, late, changes>>
verifyVars == <<run, verificationRows, owner, journals, job, ran, calls, losses>>

-----------------------------------------------------------------------------
(* Runner.RunInRoot and runBrowser: how a process that ended is classified. *)

RunInRoot(s) ==
    IF s.truncated THEN "failed"
    ELSE IF s.expired THEN "timed_out"
    ELSE IF s.canceled THEN "canceled"
    ELSE IF s.spawned /\ s.zero THEN "passed" ELSE "failed"

runBrowser(s) ==
    IF s.truncated THEN "failed"
    ELSE IF s.canceled THEN "canceled"
    ELSE IF s.expired THEN "timed_out"
    ELSE IF s.dirty THEN "outcome_unknown"
    ELSE IF s.spawned /\ s.zero THEN "passed" ELSE "failed"

outcome(p, s) == IF p \in Browsers THEN runBrowser(s) ELSE RunInRoot(s)

\* The exit code of a receipt: a command's own, a browser's after its outcome.
exitCode(p, s) ==
    IF outcome(p, s) \notin {"passed", "failed"} THEN Nothing
    ELSE IF p \in Browsers THEN (IF outcome(p, s) = "passed" THEN 0 ELSE 1)
    ELSE IF ~s.spawned THEN Nothing
    ELSE IF s.zero THEN 0 ELSE 1

\* matchReceipt of Central.
matchReceipt(r) ==
    /\ ~r.late
    /\ r.outcome = "passed" => r.exit = 0
    /\ r.outcome = "failed" => r.exit # 0
    /\ r.outcome \notin {"passed", "failed"} => r.exit = Nothing

-----------------------------------------------------------------------------
Steps == {"capture", "seal", "look", "begin", "start", "record", "publish", "put", "retain"}

VerifyTypeOK ==
    /\ run \in {"finished", "captured", "completed", "unknown"}
    /\ lease \in BOOLEAN /\ approved \in BOOLEAN /\ capture \in {Nothing, "begun", "sealed"}
    /\ grant \subseteq {"capture", "verify"}
    /\ profile \in [Ids -> {"registered", "changed", "revoked"}]
    /\ late \in BOOLEAN /\ operation \subseteq Ids /\ logged \subseteq Ids
    /\ terminal \in [Ids -> Endings \cup {Nothing}] /\ file \in [Ids -> Endings \cup {Nothing}]
    /\ kept \in [Ids -> Results \cup {Nothing}] /\ output \in BOOLEAN
    /\ job \in [at : Steps, i : 0..Len(Profiles), res : Endings \cup {Nothing}] \cup {Nothing}
    /\ ran \in [Ids -> Nat] /\ calls \in 0..Calls
    /\ losses \in 0..MaxLosses /\ changes \in 0..MaxChanges

VerifyInit ==
    /\ run = "finished" /\ lease = TRUE /\ approved = TRUE /\ capture = Nothing
    /\ grant = {"capture", "verify"} /\ profile = [p \in Ids |-> "registered"]
    /\ late = FALSE /\ operation = {} /\ logged = {}
    /\ terminal = [p \in Ids |-> Nothing] /\ file = [p \in Ids |-> Nothing]
    /\ kept = [p \in Ids |-> Nothing] /\ output = FALSE
    /\ job = Nothing /\ ran = [p \in Ids |-> 0] /\ calls = 0 /\ losses = 0 /\ changes = 0

\* Requests of the Bridge are answered, or the answer or the request is lost.
MayFail == losses < MaxLosses /\ losses' = losses + 1
Works == losses' = losses
at(step) == job # Nothing /\ job.at = step
required == Profiles[job.i]
goto(step) == job' = [job EXCEPT !.at = step]

-----------------------------------------------------------------------------
(* Capture                                                                 *)

\* CaptureCompleted: the grant and the finished process are checked, and
\* Central begins the capture (RepositoryCaptureService.begin), which claims
\* the generation of the workspace while its lease is active.
CaptureCompleted ==
    /\ run = "finished" /\ job = Nothing /\ "capture" \in grant
    /\ lease /\ ~late /\ Works
    /\ capture' = "begun"
    /\ job' = [at |-> "seal", i |-> 0, res |-> Nothing]
    /\ UNCHANGED <<run, lease, approved, operation, logged, kept, output, owner,
                   journals, ran, calls>>

\* The capture fails: the Run ends with an unknown outcome
\* (captureOutcomeUnknownEvent).  The seal may have happened all the same.
captureOutcomeUnknown ==
    /\ run = "finished" /\ (job = Nothing \/ at("seal"))
    /\ \/ "capture" \notin grant \/ ~lease \/ late \/ losses < MaxLosses
    /\ \/ UNCHANGED capture
       \/ at("seal") /\ lease /\ ~late /\ capture = "begun" /\ capture' = "sealed"
    /\ run' = "unknown" /\ job' = Nothing
    /\ UNCHANGED <<lease, approved, operation, logged, kept, output, owner, journals,
                   ran, calls, losses>>

\* RepositoryCaptureService.seal: once, while the lease is active.
Seal ==
    /\ at("seal") /\ lease /\ ~late
    /\ capture' = "sealed" /\ run' = "captured" /\ job' = Nothing
    /\ UNCHANGED <<lease, approved, operation, logged, kept, output, owner, journals,
                   ran, calls, losses>>

-----------------------------------------------------------------------------
(* Verification                                                            *)

\* VerifyCaptured: where no profile is required or the grant is gone, it returns.
VerifyCaptured ==
    /\ run = "captured" /\ job = Nothing /\ calls < Calls /\ calls' = calls + 1
    /\ job' = IF Ids # {} /\ "verify" \in grant
              THEN [at |-> "look", i |-> 1, res |-> Nothing] ELSE Nothing
    /\ UNCHANGED <<run, verificationRows, owner, journals, ran, losses>>

\* Mutant: only the receipt is looked for, not the end of the process.
LookForReceipt ==
    /\ at("look")
    /\ \/ file[required] # Nothing /\ goto("retain")
       \/ file[required] = Nothing /\ profile[required] = "registered" /\ goto("begin")
    /\ UNCHANGED <<run, verificationRows, owner, journals, ran, calls, losses>>

\* verifyOne: the journal decides where the profile continues; a profile that
\* has left no trace is resolved and its candidate checked out.
look ==
    /\ at("look")
    /\ \/ file[required] # Nothing /\ goto("retain")
       \/ file[required] = Nothing /\ terminal[required] # Nothing /\ goto("publish")
       \/ /\ file[required] = Nothing /\ terminal[required] = Nothing
          /\ profile[required] = "registered" /\ goto("begin")
    /\ UNCHANGED <<run, verificationRows, owner, journals, ran, calls, losses>>

\* RepositoryVerificationService.begin; a lost answer is asked for once more.
begin ==
    /\ at("begin")
    /\ required \in operation \/ (approved /\ capture = "sealed" /\ ~late)
    /\ operation' = operation \cup {required}
    /\ goto("start")
    /\ UNCHANGED <<run, lease, approved, capture, logged, kept, output, owner, journals,
                   ran, calls, losses>>

\* The profile is resolved and the grant checked again, and the process runs.
start ==
    /\ at("start") /\ profile[required] = "registered" /\ "verify" \in grant
    /\ \E s \in Observations :
         job' = [job EXCEPT !.at = "record",
                          !.res = [outcome |-> outcome(required, s), exit |-> exitCode(required, s),
                                   seen |-> s, late |-> late]]
    /\ ran' = [ran EXCEPT ![required] = @ + 1]
    /\ UNCHANGED <<run, verificationRows, owner, journals, calls, losses>>

\* Journal.PutTerminal, exclusive: other content is a conflict.
record ==
    /\ at("record") /\ terminal[required] \in {Nothing, job.res}
    /\ terminal' = [terminal EXCEPT ![required] = job.res]
    /\ job' = [job EXCEPT !.at = "publish", !.res = Nothing]
    /\ UNCHANGED <<run, verificationRows, owner, file, ran, calls, losses>>

\* PublishLog under requireActiveLogSource: before the deadline, without a receipt.
publish ==
    /\ at("publish") /\ lease /\ ~late /\ required \in operation /\ kept[required] = Nothing
    /\ logged' = logged \cup {required} /\ goto("put")
    /\ UNCHANGED <<run, lease, approved, capture, operation, kept, output, owner,
                   journals, ran, calls, losses>>

\* verificationReceipt and Journal.PutReceipt.
put ==
    /\ at("put") /\ file[required] \in {Nothing, terminal[required]}
    /\ file' = [file EXCEPT ![required] = terminal[required]] /\ goto("retain")
    /\ UNCHANGED <<run, verificationRows, owner, terminal, ran, calls, losses>>

\* After a profile: the next one, or the end of VerifyCaptured.
advance ==
    job' = IF job.i = Len(Profiles) THEN Nothing
          ELSE [at |-> "look", i |-> job.i + 1, res |-> Nothing]

\* RepositoryVerificationService.retain; the client looks a lost answer up.
retain ==
    /\ at("retain")
    /\ kept[required] = file[required].outcome
       \/ (kept[required] = Nothing /\ matchReceipt(file[required]) /\ required \in logged)
    /\ kept' = [kept EXCEPT ![required] = file[required].outcome]
    /\ advance
    /\ UNCHANGED <<run, lease, approved, capture, operation, logged, output, owner, journals,
                   ran, calls, losses>>

\* Any error ends VerifyCaptured with the profiles that are left; its caller
\* ignores the error.
refused ==
    /\ job # Nothing /\ job.at # "seal"
    /\ \/ at("look") /\ file[required] = Nothing /\ terminal[required] = Nothing
          /\ profile[required] # "registered"
       \/ at("begin") /\ required \notin operation /\ (~approved \/ late)
       \/ at("start") /\ (profile[required] # "registered" \/ "verify" \notin grant)
       \/ at("record") /\ terminal[required] \notin {Nothing, job.res}
       \/ at("publish") /\ late
       \/ at("put") /\ file[required] \notin {Nothing, terminal[required]}
       \/ at("retain") /\ kept[required] = Nothing /\ ~matchReceipt(file[required])
    /\ job' = Nothing
    /\ UNCHANGED <<run, verificationRows, owner, journals, ran, calls, losses>>

\* A request is lost, or a local step fails: the same, without a reason at Central.
Fault ==
    /\ job # Nothing /\ job.at # "seal" /\ MayFail
    /\ \/ UNCHANGED kept
       \/ at("retain") /\ kept[required] = Nothing /\ matchReceipt(file[required])
          /\ kept' = [kept EXCEPT ![required] = file[required].outcome]
    /\ job' = Nothing
    /\ UNCHANGED <<run, lease, approved, capture, operation, logged, output, owner, journals,
                   ran, calls>>

\* GovernedRuntimeRunner.Run after the verification: the Run is reported as
\* completed whatever the receipts say, and its lease ends.
Complete ==
    /\ run = "captured" /\ job = Nothing /\ calls > 0
    /\ run' = "completed" /\ lease' = FALSE
    /\ UNCHANGED <<approved, capture, operation, logged, kept, output, owner, journals,
                   job, ran, calls, losses>>

\* Every required profile has a passed receipt for the checkpoint, and there is one.
allPassed == Ids # {} /\ \A p \in Ids : kept[p] = "passed"

\* VerifiedOutputMaterializer.reconcile.
Materialize ==
    /\ ~output /\ run = "completed" /\ capture = "sealed" /\ allPassed
    /\ output' = TRUE
    /\ UNCHANGED <<run, lease, approved, capture, operation, logged, kept, owner, journals,
                   job, ran, calls, losses>>

-----------------------------------------------------------------------------
(* The world: ProfileStore.Revoke, an executable that is replaced, grants   *)
(* that are revoked, a plan that is superseded, time.                       *)

Revoke(p) == profile[p] # "revoked" /\ profile' = [profile EXCEPT ![p] = "revoked"]
             /\ UNCHANGED <<grant, approved, late>>
Replace(p) == profile[p] = "registered" /\ profile' = [profile EXCEPT ![p] = "changed"]
              /\ UNCHANGED <<grant, approved, late>>
EndGrant == grant # {} /\ grant' = {} /\ UNCHANGED <<profile, approved, late>>
Supersede == approved /\ approved' = FALSE /\ UNCHANGED <<profile, grant, late>>
Expire == ~late /\ late' = TRUE /\ UNCHANGED <<profile, grant, approved>>

Change ==
    /\ changes < MaxChanges /\ changes' = changes + 1
    /\ (\E p \in Ids : Revoke(p) \/ Replace(p)) \/ EndGrant \/ Supersede \/ Expire
    /\ UNCHANGED <<run, lease, capture, operation, logged, kept, output, journals,
                   job, ran, calls, losses>>

Progress ==
    \/ CaptureCompleted \/ Seal \/ VerifyCaptured
    \/ look \/ begin \/ start \/ record \/ publish \/ put \/ retain \/ refused
    \/ Complete \/ Materialize

VerifyNext == Progress \/ captureOutcomeUnknown \/ Fault \/ Change

VerifySpec == VerifyInit /\ [][VerifyNext]_verifyVars
-----------------------------------------------------------------------------
\* "Completed" is reported only for work that Central holds as a checkpoint
\* (GovernedRuntimeRunner.Run).
CompletedIsSealed == run \in {"captured", "completed"} => capture = "sealed"

\* What Central keeps of a profile is the journaled end of a process that ran
\* for an admitted operation, and its log is there (retain, verifyOne).
ReceiptIsTerminal == \A p \in Ids :
    /\ kept[p] # Nothing =>
         /\ file[p] # Nothing /\ file[p] = terminal[p] /\ kept[p] = terminal[p].outcome
         /\ p \in operation /\ p \in logged
    /\ terminal[p] # Nothing => ran[p] > 0

\* A verifier starts only for an operation Central has admitted, from a profile
\* that is still registered, under a grant that still allows it, and never again
\* once its end is in the journal (verifyOne).
StartsAuthorized ==
    \A p \in Ids : ran'[p] # ran[p] =>
        /\ p \in operation /\ terminal[p] = Nothing
        /\ profile[p] = "registered" /\ "verify" \in grant

\* A verified output rests on processes that were spawned, exited zero (or saw
\* every step pass), were not cut off, did not run out of time and were not
\* canceled, for every required profile (VerifiedOutputMaterializer, RunInRoot).
VerifiedIsTrue == output => \A p \in Ids :
    /\ terminal[p] # Nothing
    /\ LET s == terminal[p].seen IN
       s.spawned /\ s.zero /\ ~s.truncated /\ ~s.expired /\ ~s.canceled
       /\ (p \in Browsers => ~s.dirty)

\* Completed work is captured, a receipt is the journaled end of a process, and a
\* verified output rests on processes that really passed.
VerificationTrue ==
    /\ VerifyTypeOK /\ CompletedIsSealed /\ ReceiptIsTerminal /\ VerifiedIsTrue
=============================================================================
