----------------------------- MODULE PeerExport -----------------------------
(***************************************************************************)
(* A Participant exports one of its Agents to a Host's Rooms, the Host's    *)
(* Owner accepts the exact grant, and each side keeps its own append-only   *)
(* history.  The Participant's Exporter writes grants to its private store  *)
(* (bridge/internal/peer), a connector's worker carries the complete        *)
(* history to the Host and brings the Host's decisions back, and the Host   *)
(* keeps grants, acceptances and the Agent's projection                     *)
(* (PeerAuthorizationRepository, PeerAgentService).  Owners decide on what  *)
(* they last read; either side changes its mind while a synchronization is  *)
(* on its way.                                                              *)
(***************************************************************************)
EXTENDS Naturals, Sequences, SequencesExt, FiniteSets

CONSTANTS
    Rooms,        \* Rooms of the Host's Team
    Configs,      \* configurations of the local Agent
    MaxGrants,    \* bound on the grant history
    MaxAccepts,   \* bound on the acceptance history
    MaxTrust,     \* bound on the execution trust's revision
    MaxLapses,    \* bound on grants whose time runs out
    MaxEpochs,    \* bound on restarts of the Participant's core
    MaxRevokes,   \* bound on Rooms and memberships the Host takes away
    Absent        \* no value

ASSUME PeerExportAssumption ==
    {MaxGrants, MaxAccepts, MaxTrust, MaxLapses, MaxEpochs, MaxRevokes} \subseteq Nat

VARIABLES
    exports,    \* the Participant's grants: [id, rev, state, rooms, cfg]
    synced,     \* length of the history its last receipt acknowledged
    accepted,   \* the Host's acceptances that receipt carried
    trust,      \* revision of the execution trust
    cfg,        \* the configuration of the running core
    lapsed,     \* grants, by <<id, rev>>, that have expired
    view,       \* what the Participant's Owner last read: [seen, cfg, fresh], where
                \* fresh stands for the store still having the revision it read
    link,       \* the local membership: "active" or "left"
    worker,     \* Absent or [digest, state]
    wire,       \* the synchronization on its way: Absent or a record
    process,    \* Absent or the approval process of a Runtime child
    owed,       \* calls of the Owner whose write is stored and that have not called
                \* LocalChange yet: of the "console", one at a time, and the "departure"
    grants,     \* the Host's copy of the grant history
    accepts,    \* the Host's acceptances: [id, rev, state, gid, grev, rooms]
    guest,      \* the membership at the Host is active
    access,     \* Rooms the member may enter
    hview,      \* what the Host's Owner last read: [acc, grant]
    agent,      \* the projection of the Agent: [enabled, rooms]
    epochs      \* restarts of the core so far

storeVars == <<exports, synced, accepted, trust, cfg, link>>
runVars == <<worker, process, owed, epochs>>
hostSide == <<grants, accepts, guest, access, agent>>
exportVars == <<storeVars, runVars, hostSide, lapsed, view, hview, wire>>

Key(g) == <<g.id, g.rev>>
Grants == [id : 1..MaxGrants, rev : 1..MaxGrants, state : {"active", "revoked"},
           rooms : (SUBSET Rooms) \ {{}}, cfg : Configs]
Acceptances == [id : 1..MaxAccepts, rev : 1..MaxAccepts, state : {"active", "revoked"},
                gid : 1..MaxGrants, grev : 1..MaxGrants, rooms : (SUBSET Rooms) \ {{}}]
Tail1(s) == s[Len(s)]

ExportTypeOK ==
    /\ exports \in Seq(Grants) /\ grants \in Seq(Grants) /\ Len(exports) <= MaxGrants
    /\ accepts \in Seq(Acceptances) /\ accepted \in Seq(Acceptances)
    /\ synced \in 0..Len(exports) /\ trust \in 0..MaxTrust
    /\ cfg \in Configs /\ link \in {"active", "left"} /\ guest \in BOOLEAN
    /\ access \subseteq Rooms /\ agent.rooms \subseteq Rooms /\ agent.enabled \in BOOLEAN
    /\ epochs \in 0..MaxEpochs /\ owed \subseteq {"console", "departure"}
    /\ worker = Absent \/ worker.state \in {"connecting", "online", "canceled"}

ExportInit ==
    /\ exports = <<>> /\ synced = 0 /\ accepted = <<>> /\ trust = 0
    /\ cfg \in Configs /\ lapsed = {} /\ view = [seen |-> <<<<>>, <<>>, 0>>, cfg |-> cfg, fresh |-> TRUE] /\ link = "active"
    /\ worker = Absent /\ wire = Absent /\ process = Absent /\ owed = {} /\ epochs = 0
    /\ grants = <<>> /\ accepts = <<>> /\ guest = TRUE /\ access = Rooms
    /\ hview = [acc |-> Absent, grant |-> Absent] /\ agent = [enabled |-> FALSE, rooms |-> {}]

-----------------------------------------------------------------------------
(* The Participant's store: every mutation is a compare and swap on its      *)
(* revision, and appends.                                                    *)

\* The revisions of a lineage, by their positions, and the last entry of a log
\* among some positions.
Lineage(log, id) == {i \in DOMAIN log : log[i].id = id}
LastAt(log, at) == log[CHOOSE i \in at : \A j \in at : j <= i]

\* The last revision of the lineage that was begun last.
currentLocalGrant(log) ==
    IF log = <<>> THEN Absent
    ELSE LastAt(log, {i \in DOMAIN log : \A j \in DOMAIN log : log[j].id <= log[i].id})

LiveGrant(g) == g # Absent /\ g.state = "active" /\ Key(g) \notin lapsed

\* Current: the reviewed grant, and only under the configuration reviewed.
currentGrant == LET g == currentLocalGrant(exports) IN link = "active" /\ LiveGrant(g) /\ g.cfg = cfg

\* Mutant: an acceptance of an earlier revision still counts.
LineageAcceptance(room) ==
    LET g == currentLocalGrant(exports)
        a == Tail1(accepted)
    IN  /\ currentGrant /\ accepted # <<>>
        /\ a.state = "active" /\ a.gid = g.id
        /\ room \in g.rooms

\* effectiveAcceptance: the last decision the Host signed names this grant.
effectiveAcceptance(room) ==
    LET g == currentLocalGrant(exports)
        a == Tail1(accepted)
    IN  /\ currentGrant /\ accepted # <<>>
        /\ a.state = "active" /\ a.gid = g.id /\ a.grev = g.rev
        /\ room \in a.rooms /\ room \in g.rooms

Effective(room) == effectiveAcceptance(room)

peerAuthorizationDigest == <<exports, accepted, trust>>

\* The Owner's write is persisted first: the worker and its children go on under it until
\* the call has come to LocalChange.
Persisted(call) == owed' = owed \cup {call} /\ UNCHANGED <<worker, process>>

\* The console's mutex, which a reading and a call hold to their end; a departure takes none.
ConsoleFree == "console" \notin owed

\* Update: the caller's expected revision is the store's, and the next is one up.
Update == view.fresh /\ view' = [view EXCEPT !.fresh = FALSE, !.seen = Absent]
\* A background write takes the revision it read itself.
BackgroundUpdate == view' = [view EXCEPT !.fresh = FALSE, !.seen = Absent]

\* OwnerState and Reviews: the Owner reads the store and the configuration.
OwnerState ==
    /\ ConsoleFree
    /\ view' = [seen |-> peerAuthorizationDigest, cfg |-> cfg, fresh |-> TRUE] /\ view' # view
    /\ UNCHANGED <<storeVars, runVars, hostSide, lapsed, hview, wire>>

\* Prepare, through PrepareReviewed: the configuration is the one reviewed.
PrepareGrant(rooms, replace) ==
    LET previous == currentLocalGrant(exports)
        continue == previous # Absent /\ ~replace
        grant == [id    |-> IF continue THEN previous.id
                            ELSE 1 + Cardinality({exports[i].id : i \in DOMAIN exports}),
                  rev   |-> IF continue THEN previous.rev + 1 ELSE 1,
                  state |-> "active", rooms |-> rooms, cfg |-> cfg]
    IN  /\ ConsoleFree /\ view.cfg = cfg /\ link = "active" /\ Len(exports) < MaxGrants
        /\ previous # Absent /\ previous.state = "revoked" => replace
        /\ Update
        /\ exports' = Append(exports, grant)
        /\ UNCHANGED <<synced, accepted, trust, cfg, link>>
        /\ Persisted("console")
        /\ UNCHANGED <<hostSide, epochs, lapsed, hview, wire>>

\* Withdraw: any lineage's active head, with no Host and no Runtime.
Withdraw(id) ==
    LET previous == LastAt(exports, Lineage(exports, id)) IN
    /\ ConsoleFree /\ Lineage(exports, id) # {} /\ previous.state = "active" /\ Len(exports) < MaxGrants
    /\ Update
    /\ exports' = Append(exports, [previous EXCEPT !.state = "revoked", !.rev = @ + 1])
    /\ UNCHANGED <<synced, accepted, trust, cfg, link>>
    /\ Persisted("console")
    /\ UNCHANGED <<hostSide, epochs, lapsed, hview, wire>>

\* SetExecutionTrust: a revision of its own, retried over background writes.
SetExecutionTrust ==
    /\ ConsoleFree /\ link = "active" /\ trust < MaxTrust
    /\ trust' = trust + 1 /\ BackgroundUpdate
    /\ UNCHANGED <<exports, synced, accepted, cfg, link>>
    /\ Persisted("console")
    /\ UNCHANGED <<hostSide, epochs, lapsed, hview, wire>>

\* The departure of the membership (Departure.Prepare).
LeavePeer ==
    /\ link = "active" /\ link' = "left" /\ BackgroundUpdate
    /\ UNCHANGED <<exports, synced, accepted, trust, cfg>>
    /\ Persisted("departure")
    /\ UNCHANGED <<hostSide, epochs, lapsed, hview, wire>>

\* LocalChange, after the write: a worker of another authorization is canceled together
\* with every approval of the Peer.
LocalChange(call) ==
    /\ call \in owed /\ owed' = owed \ {call}
    /\ IF worker = Absent \/ (link = "active" /\ worker.digest = peerAuthorizationDigest)
       THEN UNCHANGED <<worker, process>>
       ELSE worker' = [worker EXCEPT !.state = "canceled"] /\ process' = Absent
    /\ UNCHANGED <<storeVars, epochs, hostSide, lapsed, view, hview, wire>>

\* A grant's time runs out, on both clocks.
Lapse ==
    /\ Cardinality(lapsed) < MaxLapses
    /\ \E i \in DOMAIN exports : Key(exports[i]) \notin lapsed /\ lapsed' = lapsed \cup {Key(exports[i])}
    /\ UNCHANGED <<storeVars, runVars, hostSide, view, hview, wire>>

-----------------------------------------------------------------------------
(* The connector of one core: its worker and the approvals of its children.  *)

\* reconcile: a worker is started for an active connection, canceled when its
\* authorization changed, and replaced only after it is done.
reconcile ==
    /\ \/ /\ worker = Absent /\ link = "active"
          /\ worker' = [digest |-> peerAuthorizationDigest, state |-> "connecting"]
          /\ UNCHANGED process
       \/ /\ worker # Absent /\ worker.state # "canceled"
          /\ link # "active" \/ worker.digest # peerAuthorizationDigest
          /\ worker' = [worker EXCEPT !.state = "canceled"] /\ process' = Absent
    /\ UNCHANGED <<storeVars, owed, epochs, hostSide, lapsed, view, hview, wire>>

\* runWorker: a connection to the Host opens, is lost, or the worker drains.
runWorker ==
    /\ worker # Absent
    /\ \/ worker.state = "connecting" /\ guest /\ worker' = [worker EXCEPT !.state = "online"]
          /\ UNCHANGED <<process, wire>>
       \/ worker.state = "online" /\ worker' = [worker EXCEPT !.state = "connecting"]
          /\ process' = Absent /\ wire' = Absent
       \/ worker.state = "canceled" /\ worker' = Absent /\ process' = Absent /\ wire' = Absent
    /\ UNCHANGED <<storeVars, owed, epochs, hostSide, lapsed, view, hview>>

\* A restart of the core, perhaps with another configuration (NewSources).
RestartCore(c) ==
    /\ epochs < MaxEpochs /\ epochs' = epochs + 1
    /\ cfg' = c /\ worker' = Absent /\ process' = Absent /\ owed' = {} /\ wire' = Absent
    /\ UNCHANGED <<exports, synced, accepted, trust, link, hostSide, lapsed, view, hview>>

Online == worker # Absent /\ worker.state = "online"

\* Open: a Runtime child begins under an effective grant, and its approvals
\* belong to that binding.
Open(room) ==
    /\ Online /\ process = Absent /\ Effective(room)
    /\ process' = [binding |-> Key(currentLocalGrant(exports)), room |-> room, answer |-> "none"]
    /\ UNCHANGED <<storeVars, worker, owed, epochs, hostSide, lapsed, view, hview, wire>>

\* Decide: the local Owner answers the pending request of that process.
Decide ==
    /\ process # Absent /\ process.answer = "none"
    /\ process' = [process EXCEPT !.answer = "decided"]
    /\ UNCHANGED <<storeVars, worker, owed, epochs, hostSide, lapsed, view, hview, wire>>

\* await: the answer counts only after the authorization was checked again.
await ==
    /\ process # Absent /\ process.answer = "decided"
    /\ IF Effective(process.room) /\ Key(currentLocalGrant(exports)) = process.binding
       THEN process' = [process EXCEPT !.answer = "allowed"]
       ELSE process' = [process EXCEPT !.answer = "refused"]
    /\ UNCHANGED <<storeVars, worker, owed, epochs, hostSide, lapsed, view, hview, wire>>

-----------------------------------------------------------------------------
(* The synchronization: the whole history goes out, a receipt comes back.    *)

\* History: a live head that no longer is current stays at home.
History(log) == LET g == currentLocalGrant(log) IN
    link = "active" /\ g # Absent /\ (LiveGrant(g) => g.cfg = cfg)

\* SyncExports, up to the request.
SyncExports ==
    /\ Online /\ wire = Absent /\ History(exports)
    /\ wire' = [kind |-> "request", offers |-> exports, hist |-> <<>>]
    /\ UNCHANGED <<storeVars, runVars, hostSide, lapsed, view, hview>>

KnownGrant(g) == \E i \in DOMAIN grants : Key(grants[i]) = Key(g)

\* assertActiveScope: a live grant of an active membership, in Rooms it may enter.
assertActiveScope(g) == guest /\ Key(g) \notin lapsed /\ g.rooms \subseteq access

\* recordExport and assertNext for one grant of a history, given what is before
\* it: the same content as the copy, or the next revision of a lineage that is
\* neither revoked nor retired.
recordExport(offers, i) ==
    LET g == offers[i]
        before == Lineage(offers, g.id) \cap 1..(i - 1)
    IN  /\ KnownGrant(g) => \E j \in DOMAIN grants : grants[j] = g
        /\ g.rev = Cardinality(before) + 1
        /\ before = {} => g.state = "active"
        /\ before # {} => /\ LastAt(offers, before).state = "active"
                          /\ g.state = "active" =>
                                 g.id = currentLocalGrant(SubSeq(offers, 1, i - 1)).id

\* The grants of a history that the Host does not have yet, in their order.
NewGrants(offers) ==
    LET new == {i \in DOMAIN offers : ~KnownGrant(offers[i])}
    IN [k \in 1..Cardinality(new) |->
          offers[CHOOSE i \in new : Cardinality({j \in new : j <= i}) = k]]

\* synchronize and synchronizeVerifiedExports, one transaction: the new grants
\* are appended, the head must be the Participant's, and the answer carries the
\* acceptance history.
synchronize ==
    LET offers == wire.offers
        head == currentLocalGrant(offers)
    IN  /\ wire # Absent /\ wire.kind = "request"
        /\ guest
        /\ \A i \in DOMAIN offers : recordExport(offers, i)
        /\ currentLocalGrant(grants \o NewGrants(offers)) = head
        /\ LiveGrant(head) => assertActiveScope(head)
        /\ grants' = grants \o NewGrants(offers)
        /\ wire' = [kind |-> "receipt", offers |-> offers, hist |-> accepts]
        /\ UNCHANGED <<accepts, guest, access, agent, storeVars, runVars, lapsed, view, hview>>

\* The request or its answer is lost, or refused.
Lose ==
    /\ wire # Absent /\ wire' = Absent
    /\ UNCHANGED <<storeVars, runVars, hostSide, lapsed, view, hview>>

\* installAcceptanceSnapshot: only while the history is the one that was sent,
\* and never a shorter list of decisions.
installAcceptanceSnapshot ==
    /\ wire # Absent /\ wire.kind = "receipt" /\ wire' = Absent
    /\ History(exports) /\ exports = wire.offers
    /\ IsPrefix(accepted, wire.hist)
    /\ accepted' = wire.hist /\ synced' = Len(wire.offers) /\ BackgroundUpdate
    /\ UNCHANGED <<exports, trust, cfg, link, runVars, hostSide, lapsed, hview>>

-----------------------------------------------------------------------------
(* The Host's Owner and Rooms.                                               *)

hostGrant == currentLocalGrant(grants)
currentAcceptance == IF accepts = <<>> THEN Absent ELSE Tail1(accepts)

\* listOffers.
listOffers ==
    /\ hostGrant # Absent
    /\ hview' = [acc |-> currentAcceptance, grant |-> hostGrant] /\ hview' # hview
    /\ UNCHANGED <<storeVars, runVars, hostSide, lapsed, view, wire>>

\* recordAcceptance for an active one: of the current grant, within its Rooms.
recordAcceptance(g, rooms) ==
    /\ g = hostGrant /\ g.state = "active" /\ assertActiveScope(g)
    /\ rooms \subseteq g.rooms

\* accept: the grant and the acceptance are the ones the Owner saw; the
\* projection is materialized in the same transaction.
accept(rooms) ==
    LET cur == currentAcceptance
        g == hview.grant
        continuing == cur # Absent /\ cur.state = "active" /\ cur.gid = g.id
        a == [id    |-> IF continuing THEN cur.id
                        ELSE 1 + Cardinality({accepts[i].id : i \in DOMAIN accepts}),
              rev   |-> IF continuing THEN cur.rev + 1 ELSE 1,
              state |-> "active", gid |-> g.id, grev |-> g.rev, rooms |-> rooms]
    IN  /\ g # Absent /\ hview.acc = cur /\ Len(accepts) < MaxAccepts
        /\ recordAcceptance(g, rooms)
        /\ accepts' = Append(accepts, a)
        /\ agent' = [enabled |-> TRUE, rooms |-> agent.rooms \cup rooms]
        /\ UNCHANGED <<grants, guest, access, storeVars, runVars, lapsed, view, hview, wire>>

\* revoke: of the acceptance that is the current one, at the revision seen.
revoke ==
    /\ hview.acc # Absent /\ hview.acc = currentAcceptance /\ hview.acc.state = "active"
    /\ Len(accepts) < MaxAccepts
    /\ accepts' = Append(accepts, [hview.acc EXCEPT !.state = "revoked", !.rev = @ + 1])
    /\ agent' = [agent EXCEPT !.enabled = FALSE]
    /\ UNCHANGED <<grants, guest, access, storeVars, runVars, lapsed, view, hview, wire>>

\* A Room is archived or the member removed from it; the membership is revoked.
RevokeScope ==
    /\ guest /\ Cardinality(Rooms \ access) < MaxRevokes
    /\ \/ \E r \in access : access' = access \ {r} /\ UNCHANGED guest
       \/ guest' = FALSE /\ UNCHANGED access
    /\ UNCHANGED <<grants, accepts, agent, storeVars, runVars, lapsed, view, hview, wire>>

-----------------------------------------------------------------------------
RoomSets == (SUBSET Rooms) \ {{}}
ExportNext ==
    \/ OwnerState \/ SetExecutionTrust \/ LeavePeer \/ Lapse
    \/ \E call \in {"console", "departure"} : LocalChange(call)
    \/ \E rooms \in RoomSets, replace \in BOOLEAN : PrepareGrant(rooms, replace)
    \/ \E id \in 1..MaxGrants : Withdraw(id)
    \/ reconcile \/ runWorker \/ Decide \/ await
    \/ \E c \in Configs : RestartCore(c)
    \/ \E room \in Rooms : Open(room)
    \/ SyncExports \/ synchronize \/ Lose \/ installAcceptanceSnapshot
    \/ listOffers \/ revoke \/ RevokeScope
    \/ \E rooms \in RoomSets : accept(rooms)

ExportSpec == ExportInit /\ [][ExportNext]_exportVars

-----------------------------------------------------------------------------
(* Properties.                                                               *)

\* The Host's copy is always a prefix of what the Participant wrote: a complete
\* history cannot skip a withdrawal or bring two lineages in another order.
HostCopyTrue == IsPrefix(grants, exports)

\* What the Participant holds as effective is one exact decision of the Host: the
\* Host accepted this revision, for this Room, while it was the current grant.
EffectiveIsBilateral ==
    \A r \in Rooms : Effective(r) =>
        LET g == currentLocalGrant(exports) IN
        \E i \in DOMAIN accepts : /\ accepts[i].state = "active" /\ r \in accepts[i].rooms
                                  /\ accepts[i].gid = g.id /\ accepts[i].grev = g.rev

\* No acceptance, in either history, gives a Room that the grant it names did
\* not give.
NoWidening ==
    \A i \in DOMAIN accepts : \E j \in DOMAIN exports :
        /\ Key(exports[j]) = <<accepts[i].gid, accepts[i].grev>>
        /\ accepts[i].rooms \subseteq exports[j].rooms

\* An acceptance is written only for the grant that is current at the Host, so a
\* grant withdrawn there never comes back by an acceptance of an older revision.
AcceptsCurrent ==
    accepts' # accepts /\ Tail1(accepts').state = "active" =>
        <<Tail1(accepts').gid, Tail1(accepts').grev>> = Key(hostGrant)

\* The Participant's Owner never changes a history it did not read: between its
\* reading and the write, no decision of the Host and no grant came in.
OwnerDecidesOnWhatItRead ==
    exports' # exports => view.seen = peerAuthorizationDigest

\* An approval is allowed only for a grant that still stands on both sides of the
\* Participant's store: its lineage is not withdrawn or replaced, and the Host's
\* last known decision names it.
ApprovalStands ==
    process' # Absent /\ process'.answer = "allowed" /\ process.answer # "allowed" =>
        /\ process.binding = Key(currentLocalGrant(exports)) /\ currentLocalGrant(exports).cfg = cfg
        /\ process.binding \notin lapsed
        /\ Tail1(accepted).state = "active"

\* No Runtime child keeps its approvals past its connection, nor past the end of the call
\* in which the Owner changed the authorization of its Peer or left it: in between, the
\* write is stored and the child goes on.
ProcessEndsWithItsEpoch ==
    process # Absent =>
        /\ Online
        /\ \E i \in DOMAIN exports : Key(exports[i]) = process.binding
        /\ ConsoleFree => <<exports, trust>> = <<worker.digest[1], worker.digest[3]>>
        /\ link = "left" => "departure" \in owed

\* What both sides hold of an export agrees: the copy of the Host, what is effective, what
\* was accepted and what a Runtime child may still ask (synchronize, accept, await).
ExportsBilateral ==
    /\ ExportTypeOK /\ HostCopyTrue /\ EffectiveIsBilateral
    /\ NoWidening /\ ProcessEndsWithItsEpoch
=============================================================================
