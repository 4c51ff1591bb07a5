---------------------------- MODULE DevicePairing ----------------------------
(***************************************************************************)
(* How a Bridge becomes a Device of a Team: the pairing sessions of the     *)
(* Owner (device-pairing-session-service.ts), the join requests and invites *)
(* kept for older Bridges (bridge-pairing-service.ts), the client of the    *)
(* Bridge (pairing/session.go, enrollment/join.go, pairing.go) and the      *)
(* enrollment of the local Console, which shows the phrase, may be canceled *)
(* and installs the credential.  A secret is the attempt that made it: the  *)
(* poll secret of attempt a is promoted to the credential of Device a.      *)
(***************************************************************************)
EXTENDS Naturals, FiniteSets

CONSTANTS
    Sessions,   \* pairing sessions an Owner may create
    Bound,      \* the sessions bound to a member, which grant client access
    Private,    \* the sessions of an origin with a private CA
    Joins,      \* join requests a Bridge may create
    Invites,    \* one-time pairing codes
    Bridges,
    Trusted,    \* the Bridges whose screen the Owner can see
    Attempts,   \* pairing attempts (identity, operation and poll secret)
    MaxFaults,  \* bound on lost messages, crashes and failed writes
    None

Rows == Sessions \cup Joins \cup Invites

States == {"none", "issued", "claimed", "approved", "consumed",
           "rejected", "canceled", "expired"}
Steps == {"claim", "poll", "won", "link", "lost", "over"}
Actions == {"approve", "reject", "cancel"}

\* What a Bridge keeps of an attempt.
AttemptType ==
    [bridge : Bridges, row : Rows, how : {"link", "code", "join", "invite"},
     recovery : BOOLEAN, step : Steps]

ASSUME DevicePairingAssumption ==
    /\ Bound \subseteq Sessions /\ Private \subseteq Sessions /\ Trusted \subseteq Bridges
    /\ Sessions \cap Joins = {} /\ Sessions \cap Invites = {} /\ Joins \cap Invites = {}
    /\ MaxFaults \in Nat
    /\ None \notin Attempts \cup AttemptType

VARIABLES
    row,      \* Central: Rows -> [state, attempt]
    late,     \* the rows whose ten minutes are over
    devices,  \* Central: Attempts -> number of Devices with this credential
    grants,   \* Central: attempts whose Device has a client access grant
    view,     \* Owner: the attempt in the last projection of a row
    orders,   \* Owner: decisions sent, <<row, action>>
    att,      \* Bridge: Attempts -> None or [bridge, row, how, recovery, step]
    sent,     \* requests that may still arrive, <<"claim" or "poll", attempt>>
    cur,      \* Console: the attempt of the current joinEpoch
    canceled, \* history: attempts canceled on the Console
    cred,     \* disk: the installed Device credential
    cfile,    \* disk: the client access file beside it
    faults

central == <<row, late, devices, grants>>
owner == <<view, orders>>
disk == <<cred, cfile>>
vars == <<central, owner, att, sent, cur, canceled, disk, faults>>

TypeOK ==
    /\ row \in [Rows -> [state : States, attempt : Attempts \cup {None}]]
    /\ late \subseteq Rows /\ devices \in [Attempts -> Nat] /\ grants \subseteq Attempts
    /\ view \in [Rows -> Attempts \cup {None}] /\ orders \subseteq Rows \X Actions
    /\ att \in [Attempts -> AttemptType \cup {None}]
    /\ sent \subseteq {"claim", "poll"} \X Attempts
    /\ cur \in [Bridges -> Attempts \cup {None}] /\ canceled \subseteq Attempts
    /\ cred \in [Bridges -> Attempts \cup {None}] /\ cfile \in [Bridges -> Attempts \cup {None}]
    /\ faults \in 0..MaxFaults

Init ==
    /\ row = [r \in Rows |-> [state |-> "none", attempt |-> None]]
    /\ late = {} /\ devices = [a \in Attempts |-> 0] /\ grants = {}
    /\ view = [r \in Rows |-> None] /\ orders = {}
    /\ att = [a \in Attempts |-> None] /\ sent = {}
    /\ cur = [b \in Bridges |-> None] /\ canceled = {}
    /\ cred = [b \in Bridges |-> None] /\ cfile = [b \in Bridges |-> None]
    /\ faults = 0

Works == UNCHANGED faults
Fails == faults < MaxFaults /\ faults' = faults + 1
step(a, s) == att' = [att EXCEPT ![a].step = s]
waiting(a, s) == att[a] # None /\ att[a].step = s

-----------------------------------------------------------------------------
(* Central and its Owner                                                   *)

\* create and createInvite.
create(r) ==
    /\ r \in Sessions \cup Invites /\ row[r].state = "none"
    /\ row' = [row EXCEPT ![r].state = "issued"]
    /\ UNCHANGED <<late, devices, grants, owner, att, sent, cur, canceled, disk, faults>>

\* expire: only a row that awaits a decision expires.
expire(r) ==
    IF r \in late /\ row[r].state \in {"issued", "claimed"} THEN "expired" ELSE row[r].state

\* get: the Owner's page loads the projection, and the expiry is kept.
get(r) ==
    /\ r \in Sessions /\ row[r].state # "none"
    /\ row' = [row EXCEPT ![r].state = expire(r)]
    /\ view' = [view EXCEPT ![r] = row[r].attempt]
    /\ UNCHANGED <<late, devices, grants, orders, att, sent, cur, canceled, disk, faults>>

\* A Bridge shows its phrase or its code while its own attempt is under way.
Shown(a) == waiting(a, "poll") /\ cur[att[a].bridge] = a

\* The Owner approves the projection only when the phrase on the page is the
\* one on a screen in sight (the Web page and its user).
Order(r, action) ==
    /\ r \in Sessions /\ (view[r] # None \/ (action = "cancel" /\ row[r].state # "none"))
    /\ action = "approve" => att[view[r]].bridge \in Trusted /\ Shown(view[r])
    /\ orders' = orders \cup {<<r, action>>}
    /\ UNCHANGED <<central, view, att, sent, cur, canceled, disk, faults>>

\* approveRow: one Device, whose credential is the claimed poll secret, and for
\* a member binding the client access grant, in the transaction of the approval.
approveRow(r) ==
    /\ row' = [row EXCEPT ![r].state = "approved"]
    /\ devices' = [devices EXCEPT ![row[r].attempt] = @ + 1]
    /\ grants' = IF r \in Bound THEN grants \cup {row[r].attempt} ELSE grants

\* Mutant: the decision does not compare the state it expects.
DecideAgain(r, action) ==
    /\ <<r, action>> \in orders
    /\ \/ action = "approve" /\ expire(r) \in {"claimed", "approved", "consumed"} /\ approveRow(r)
       \/ /\ action # "approve" /\ expire(r) \in {"claimed", "issued"}
          /\ row' = [row EXCEPT ![r].state = IF action = "reject" THEN "rejected" ELSE "canceled"]
          /\ UNCHANGED <<devices, grants>>
    /\ UNCHANGED <<late, owner, att, sent, cur, canceled, disk, faults>>

\* decide: approve and reject expect "claimed"; a decision that finds another
\* state is a conflict, and the expiry it met is rolled back with it.
decide(r, action) ==
    /\ <<r, action>> \in orders
    /\ \/ action = "approve" /\ expire(r) = "claimed" /\ approveRow(r)
       \/ /\ \/ action = "reject" /\ expire(r) = "claimed"
             \/ action = "cancel" /\ expire(r) \in {"issued", "claimed"}
          /\ row' = [row EXCEPT ![r].state = IF action = "reject" THEN "rejected" ELSE "canceled"]
          /\ UNCHANGED <<devices, grants>>
    /\ UNCHANGED <<late, owner, att, sent, cur, canceled, disk, faults>>

\* approveJoinRequest: the Owner types the code shown by a Bridge in sight.
approveJoinRequest(j) ==
    /\ j \in Joins /\ row[j].state = "claimed" /\ j \notin late
    /\ att[row[j].attempt].bridge \in Trusted /\ Shown(row[j].attempt)
    /\ row' = [row EXCEPT ![j].state = "approved"]
    /\ UNCHANGED <<late, devices, grants, owner, att, sent, cur, canceled, disk, faults>>

Deadline(r) ==
    /\ row[r].state # "none" /\ r \notin late /\ late' = late \cup {r}
    /\ UNCHANGED <<row, devices, grants, owner, att, sent, cur, canceled, disk, faults>>

-----------------------------------------------------------------------------
(* Claims: the request of attempt a is processed as often as it arrives.    *)

\* A link carries the session, its secret, its trust and whether a member is
\* bound; a short code carries none of these.
Proven(a) == att[a].how = "link" \/ att[a].row \notin Bound \cup Private

\* claim: the first attempt is bound; its exact repetition is answered again.
claimable(a) == Proven(a) /\ expire(att[a].row) = "issued"
isExactClaim(a) == row[att[a].row].attempt = a /\ Proven(a) /\ expire(att[a].row) # "expired"

claimSession(a) ==
    LET r == att[a].row IN
    /\ r \in Sessions /\ UNCHANGED devices
    /\ \/ claimable(a) /\ row' = [row EXCEPT ![r] = [state |-> "claimed", attempt |-> a]]
       \/ isExactClaim(a) /\ UNCHANGED row

\* createJoinRequest makes the row, its code and the poll token of the Bridge.
createJoinRequest(a) ==
    LET r == att[a].row IN
    /\ r \in Joins /\ row[r].state = "none" /\ UNCHANGED devices
    /\ row' = [row EXCEPT ![r] = [state |-> "claimed", attempt |-> a]]

\* exchange uses up an invite, makes the Device and issues its secret.
exchange(a) ==
    LET r == att[a].row IN
    /\ r \in Invites /\ expire(r) = "issued"
    /\ row' = [row EXCEPT ![r] = [state |-> "consumed", attempt |-> a]]
    /\ devices' = [devices EXCEPT ![a] = @ + 1]

\* The first request of an attempt succeeds.
claim(a) ==
    /\ <<"claim", a>> \in sent
    /\ claimSession(a) \/ createJoinRequest(a) \/ exchange(a)
    /\ UNCHANGED <<late, grants>>

refuseClaim(a) ==
    LET r == att[a].row IN
    /\ <<"claim", a>> \in sent
    /\ \/ r \in Sessions /\ ~claimable(a) /\ ~isExactClaim(a)
       \/ r \in Invites /\ expire(r) # "issued"
    /\ UNCHANGED central

\* claimJoinRequest: the Device is made by the first claim after the approval.
claimJoinRequest(a) ==
    LET r == att[a].row IN
    /\ row[r].attempt = a /\ r \notin late /\ row[r].state \in {"approved", "consumed"}
    /\ row' = [row EXCEPT ![r].state = "consumed"]
    /\ devices' = [devices EXCEPT ![a] = IF row[r].state = "approved" THEN @ + 1 ELSE @]
    /\ UNCHANGED <<late, grants>>

\* poll: an approved session is consumed by the first poll, every later one gets
\* the same answer.
poll(a) ==
    LET r == att[a].row IN
    /\ <<"poll", a>> \in sent
    /\ \/ /\ r \in Sessions /\ row[r].attempt = a /\ row[r].state \in {"approved", "consumed"}
          /\ row' = [row EXCEPT ![r].state = "consumed"]
          /\ UNCHANGED <<late, devices, grants>>
       \/ r \in Joins /\ claimJoinRequest(a)

\* The other answers to a poll: rejected, canceled or expired, or a refusal.
refusePoll(a) ==
    LET r == att[a].row IN
    /\ <<"poll", a>> \in sent
    /\ \/ r \in Sessions /\ expire(r) \in {"rejected", "canceled", "expired"}
          /\ row' = [row EXCEPT ![r].state = expire(r)]
       \/ r \in Joins /\ r \in late /\ UNCHANGED row
    /\ UNCHANGED <<late, devices, grants>>

-----------------------------------------------------------------------------
(* The client of the Bridge                                                *)

\* A Bridge without a credential is paired by link or short code.
startDevicePairing(b, r, how) ==
    /\ r \in Sessions /\ row[r].state # "none" /\ cred[b] = None
    /\ how = "code" \/ (how = "link" /\ r \notin late)

\* A paired Bridge asks for a new identity by link only, and keeps its pairing
\* meanwhile (recovery).
restartDevicePairing(b, r, how) ==
    r \in Sessions /\ how = "link" /\ row[r].state # "none" /\ r \notin late /\ cred[b] # None

\* startEnrollment and restartEnrollment create a join request; the invites are
\* entered on the command line of a Bridge without a credential.
Begin(b, a, r, how) ==
    /\ cur[b] = None /\ att[a] = None
    /\ \/ startDevicePairing(b, r, how)
       \/ restartDevicePairing(b, r, how)
       \/ r \in Joins /\ how = "join" /\ row[r].state = "none"
       \/ r \in Invites /\ how = "invite" /\ row[r].state # "none" /\ cred[b] = None
    /\ att' = [att EXCEPT ![a] = [bridge |-> b, row |-> r, how |-> how,
                                  recovery |-> cred[b] # None, step |-> "claim"]]
    /\ cur' = [cur EXCEPT ![b] = a]
    /\ sent' = sent \cup {<<"claim", a>>}
    /\ UNCHANGED <<central, owner, canceled, disk, faults>>

\* Pair and Join have their claim answered, show the phrase or code and poll.
Claimed(a) ==
    /\ waiting(a, "claim") /\ att[a].how # "invite" /\ claim(a) /\ Works
    /\ step(a, "poll") /\ sent' = sent \cup {<<"poll", a>>}
    /\ UNCHANGED <<owner, cur, canceled, disk>>

\* Exchange has the credential with the answer to its one request.
Exchange(a) ==
    /\ waiting(a, "claim") /\ att[a].how = "invite" /\ claim(a) /\ Works /\ step(a, "won")
    /\ UNCHANGED <<owner, sent, cur, canceled, disk>>

Polled(a) ==
    /\ waiting(a, "poll") /\ poll(a) /\ Works /\ step(a, "won")
    /\ UNCHANGED <<owner, sent, cur, canceled, disk>>

\* A 4xx, or a session that was rejected, canceled or has expired.
Refused(a) ==
    /\ \/ waiting(a, "claim") /\ refuseClaim(a)
       \/ waiting(a, "poll") /\ refusePoll(a)
    /\ step(a, "lost") /\ Works
    /\ UNCHANGED <<owner, sent, cur, canceled, disk>>

\* The request is processed and its answer lost, or it arrives late or twice.
\* SessionClient asks again until the deadline; Join and Exchange give up.
Unanswered(a) ==
    /\ att[a] # None /\ Fails /\ (claim(a) \/ poll(a) \/ refusePoll(a))
    /\ IF att[a].step \in {"claim", "poll"} /\ att[a].how \in {"join", "invite"}
       THEN step(a, "lost") ELSE UNCHANGED att
    /\ UNCHANGED <<owner, sent, cur, canceled, disk>>

\* Pair and Join stop at the deadline: at the top of the loop, or because a
\* failed request cannot be repeated before it.
GiveUp(a) ==
    /\ (waiting(a, "poll") \/ (waiting(a, "claim") /\ Fails)) /\ att[a].row \in late
    /\ waiting(a, "poll") => Works
    /\ step(a, "lost")
    /\ UNCHANGED <<central, owner, sent, cur, canceled, disk>>

-----------------------------------------------------------------------------
(* The Console                                                             *)

\* cancelEnrollment: a new epoch; the goroutine may still hold its result.
cancelEnrollment(b) ==
    /\ cur[b] # None /\ att[cur[b]].step # "link"
    /\ cur' = [cur EXCEPT ![b] = None] /\ canceled' = canceled \cup {cur[b]}
    /\ UNCHANGED <<central, owner, att, sent, disk, faults>>

\* The context of a canceled attempt ends its requests and waits.
Aborted(a) ==
    /\ a \in canceled /\ (waiting(a, "claim") \/ waiting(a, "poll")) /\ step(a, "lost")
    /\ UNCHANGED <<central, owner, sent, cur, canceled, disk, faults>>

\* finishEnrollment drops the result of an epoch that is over.
fenced(a) == waiting(a, "won") /\ cur[att[a].bridge] = a

access(a) == IF att[a].row \in Bound THEN a ELSE None

\* The client access file is linked first and never replaced (saveClientAccess).
saveClientAccess(a) ==
    LET b == att[a].bridge IN
    /\ fenced(a) /\ ~att[a].recovery /\ cred[b] = None
    /\ access(a) # None => cfile[b] = None
    /\ cfile' = [cfile EXCEPT ![b] = IF access(a) # None THEN a ELSE @]
    /\ step(a, "link")
    /\ UNCHANGED <<central, owner, sent, cur, canceled, cred, faults>>

\* Save renames the credential into place.
Save(a) ==
    /\ waiting(a, "link")
    /\ cred' = [cred EXCEPT ![att[a].bridge] = a]
    /\ cur' = [cur EXCEPT ![att[a].bridge] = None] /\ step(a, "over")
    /\ UNCHANGED <<central, owner, sent, canceled, cfile, faults>>

\* installReEnrollmentLocked: everything new is staged in a directory of its own,
\* which one replacement of the configuration selects.
installReEnrollment(a) ==
    LET b == att[a].bridge IN
    /\ fenced(a) /\ att[a].recovery
    /\ cred' = [cred EXCEPT ![b] = a] /\ cfile' = [cfile EXCEPT ![b] = access(a)]
    /\ cur' = [cur EXCEPT ![b] = None] /\ step(a, "over")
    /\ UNCHANGED <<central, owner, sent, canceled, faults>>

\* The end of an attempt without an installation: an error, a conflict on disk,
\* a failed write, or a result of an epoch that is over.
finishEnrollment(a) ==
    LET b == att[a].bridge IN
    /\ \/ waiting(a, "lost") /\ Works
       \/ waiting(a, "won") /\ cur[b] # a /\ Works
       \/ /\ fenced(a) /\ ~att[a].recovery /\ Works
          /\ cred[b] # None \/ (access(a) # None /\ cfile[b] # None)
       \/ (fenced(a) \/ waiting(a, "link")) /\ Fails
    /\ cur' = [cur EXCEPT ![b] = IF @ = a THEN None ELSE @] /\ step(a, "over")
    /\ UNCHANGED <<central, owner, sent, canceled, disk>>

\* The Bridge process ends: its attempts and their secrets are gone.
Crash(b) ==
    /\ Fails /\ cur[b] # None
    /\ cur' = [cur EXCEPT ![b] = None]
    /\ att' = [a \in Attempts |-> IF att[a] # None /\ att[a].bridge = b
                                  THEN [att[a] EXCEPT !.step = "over"] ELSE att[a]]
    /\ UNCHANGED <<central, owner, sent, canceled, disk>>

Client(a) == Claimed(a) \/ Exchange(a) \/ Polled(a) \/ Refused(a) \/ GiveUp(a) \/ Aborted(a)
Install(a) == saveClientAccess(a) \/ Save(a) \/ installReEnrollment(a) \/ finishEnrollment(a)

Next ==
    \/ \E r \in Rows : create(r) \/ get(r) \/ approveJoinRequest(r) \/ Deadline(r)
    \/ \E r \in Rows, action \in Actions : Order(r, action) \/ decide(r, action)
    \/ \E b \in Bridges, a \in Attempts, r \in Rows, how \in {"link", "code", "join", "invite"} :
          Begin(b, a, r, how)
    \/ \E a \in Attempts : Client(a) \/ Install(a) \/ Unanswered(a)
    \/ \E b \in Bridges : cancelEnrollment(b) \/ Crash(b)

Spec == Init /\ [][Next]_vars
-----------------------------------------------------------------------------
(* Properties                                                              *)

\* One pairing makes one Device: whatever is lost, repeated, delayed or raced, a
\* session, join request or invite makes at most one Device, for the attempt it
\* is bound to, and a session has it exactly when it is approved or consumed.
OneDevice ==
    /\ \A a \in Attempts : devices[a] <= 1
    /\ \A a \in Attempts : devices[a] = 1 => att[a] # None /\ row[att[a].row].attempt = a
    /\ \A s \in Sessions : row[s].state \in {"approved", "consumed"} <=>
          \E a \in Attempts : att[a] # None /\ att[a].row = s /\ devices[a] = 1

\* The Owner approves what the Owner saw: a Device of a session or of a join
\* request belongs to a Bridge whose screen showed the phrase or code, although
\* the approval carries neither and reaches Central later (decide, claim).
OnlyTrusted == \A a \in Attempts :
    devices[a] > 0 /\ att[a].row \notin Invites => att[a].bridge \in Trusted

\* The credential a Bridge has installed is that of a Device made for it, and a
\* client access file beside it is that of a grant made with that Device.
InstalledIsReal == \A b \in Bridges :
    /\ cred[b] # None => att[cred[b]].bridge = b /\ devices[cred[b]] = 1
    /\ cfile[b] # None /\ cfile[b] = cred[b] => cred[b] \in grants

\* A canceled attempt never replaces the pairing of a Bridge, even when its
\* approval is already in hand (the joinEpoch fence of finishEnrollment).
CanceledNeverInstalls ==
    \A b \in Bridges : cred'[b] # cred[b] => cred'[b] \notin canceled

\* A pairing is never lost: a Bridge that has a credential keeps one, and the old
\* one stays until the new one is complete.
PairingKept ==
    \A b \in Bridges : cred[b] # None => cred'[b] # None
        /\ (cred'[b] # cred[b] => cfile'[b] = access(cred'[b]))

\* One pairing makes one Device, of a Bridge whose screen the Owner saw, and what
\* a Bridge has installed is real.
PairingSound == TypeOK /\ OneDevice /\ OnlyTrusted /\ InstalledIsReal

\* No step installs a canceled attempt or loses a pairing (finishEnrollment,
\* installReEnrollmentLocked).
PairingStepsKept == [][CanceledNeverInstalls /\ PairingKept]_vars

=============================================================================
