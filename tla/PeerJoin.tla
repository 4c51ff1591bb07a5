------------------------------ MODULE PeerJoin ------------------------------
(***************************************************************************)
(* A Participant Node joins a Host's Team and leaves it again.  The Host    *)
(* keeps the invitation, the membership and the credentials of the member   *)
(* (PeerMembershipRepository, PeerAdmissionService, PeerHumanEntryService,  *)
(* PeerDepartureService, PeerRuntimeSessions); the Participant keeps a join  *)
(* journal, a Runtime receipt, a separate human receipt and a completion    *)
(* marker in files of their own (bridge/internal/peer).  Its process dies   *)
(* between any two writes and answers of the Host get lost.                 *)
(***************************************************************************)
EXTENDS Naturals, FiniteSets

CONSTANTS
    Ops,       \* join operations of the Owner, each with an intent of its own
    Entries,   \* browser entries of the Owner
    Socks,     \* Runtime connections of the Participant
    None       \* no operation

ASSUME PeerJoinAssumption == None \notin Ops \cup Socks

VARIABLES
    inv,       \* the invitation: [state, op, late]
    member,    \* the membership at the Host: "none", "active", "revoked"
    made,      \* memberships the Host ever created
    gone,      \* the membership expired, on either clock
    acl,       \* room_human_participants holds the member
    binding,   \* the human binding at the Host: "none", "active", "revoked"
    cred,      \* Entry -> "none", "issued", "stale", "used", "revoked"
    session,   \* entries a browser session was issued for
    sock,      \* Runtime connections: "none", "pending", "active", "closed"
    current,   \* the connection the Host uses for the Peer
    pend,      \* operations with a pending file in the join journal
    pc,        \* Op -> the step of ClaimPending and RecordJoined
    runtime,   \* the Runtime receipt of the Participant: [state, op]
    vault,     \* the human receipt: "none", "active"
    done,      \* operations with a completion marker
    dep,       \* the local departure: "none", "pending", "confirmed"
    asked      \* entries the Participant asked the Host for

teamVars == <<inv, member, made, gone, acl, binding, cred, session>>
sockVars == <<sock, current>>
localVars == <<pend, pc, runtime, vault, done, dep, asked>>
joinVars == <<teamVars, sockVars, localVars>>

JoinTypeOK ==
    /\ inv \in [state : {"open", "claimed", "revoked"}, op : Ops \cup {None}, late : BOOLEAN]
    /\ member \in {"none", "active", "revoked"} /\ made \in Nat
    /\ gone \in BOOLEAN /\ acl \in BOOLEAN
    /\ binding \in {"none", "active", "revoked"}
    /\ cred \in [Entries -> {"none", "issued", "stale", "used", "revoked"}]
    /\ session \subseteq Entries /\ asked \subseteq Entries
    /\ sock \in [Socks -> {"none", "pending", "active", "closed"}]
    /\ current \in Socks \cup {None}
    /\ pend \subseteq Ops /\ done \subseteq Ops
    /\ pc \in [Ops -> {"idle", "challenged", "joined", "stored", "bound", "marked"}]
    /\ runtime \in [state : {"none", "active", "left"}, op : Ops \cup {None}]
    /\ vault \in {"none", "active"} /\ dep \in {"none", "pending", "confirmed"}

JoinInit ==
    /\ inv = [state |-> "open", op |-> None, late |-> FALSE]
    /\ member = "none" /\ made = 0 /\ gone = FALSE /\ acl = FALSE /\ binding = "none"
    /\ cred = [e \in Entries |-> "none"] /\ session = {} /\ asked = {}
    /\ sock = [s \in Socks |-> "none"] /\ current = None
    /\ pend = {} /\ pc = [o \in Ops |-> "idle"] /\ done = {}
    /\ runtime = [state |-> "none", op |-> None] /\ vault = "none" /\ dep = "none"

-----------------------------------------------------------------------------
(* The Host.                                                                 *)

requireActiveMembership == member = "active" /\ ~gone

\* What an operation's invitation secret still opens.
requireInvitationSecret ==
    /\ inv.state # "revoked" /\ ~gone
    /\ inv.state = "open" => ~inv.late
    /\ inv.state = "claimed" => requireActiveMembership

\* Mutant: a claimed invitation is claimed once more.
ClaimedAgain(o) ==
    /\ requireInvitationSecret
    /\ member' = "active" /\ made' = made + 1 /\ acl' = TRUE
    /\ inv' = [inv EXCEPT !.state = "claimed", !.op = o]

\* claimVerifiedInvitation: the first claim creates the member with all of its
\* authority; the same operation gets the same answer again.
claimVerifiedInvitation(o) ==
    /\ requireInvitationSecret
    /\ \/ /\ inv.state = "claimed" /\ inv.op = o
          /\ UNCHANGED <<inv, member, made, acl>>
       \/ /\ inv.state = "open" /\ ~inv.late
          /\ member' = "active" /\ made' = made + 1 /\ acl' = TRUE
          /\ inv' = [inv EXCEPT !.state = "claimed", !.op = o]

\* The human binding is issued once and its token is derived again.
humanBinding == binding # "revoked" /\ binding' = "active"

\* claim: the membership and both credentials in one transaction.
claim(o) == claimVerifiedInvitation(o) /\ humanBinding

\* revokeMembership narrows everything in one transaction.
RevokeMembership ==
    /\ member' = "revoked" /\ acl' = FALSE
    /\ binding' = IF binding = "active" THEN "revoked" ELSE binding
    /\ cred' = [e \in Entries |-> IF cred[e] = "none" THEN "none" ELSE "revoked"]

revokeMembership ==
    /\ member = "active" /\ RevokeMembership
    /\ UNCHANGED <<inv, made, gone, session, sockVars, localVars>>

revokeInvitation ==
    /\ inv.state # "revoked"
    /\ inv' = [inv EXCEPT !.state = "revoked"]
    /\ IF member = "active" THEN RevokeMembership ELSE UNCHANGED <<member, acl, binding, cred>>
    /\ UNCHANGED <<made, gone, session, sockVars, localVars>>

\* The clock passes the invitation's or the membership's expiry.
InvitationExpires ==
    /\ ~inv.late /\ inv' = [inv EXCEPT !.late = TRUE]
    /\ UNCHANGED <<member, made, gone, acl, binding, cred, session, sockVars, localVars>>

MembershipExpires ==
    /\ inv.late /\ ~gone /\ gone' = TRUE
    /\ UNCHANGED <<inv, member, made, acl, binding, cred, session, sockVars, localVars>>

activeBinding == binding = "active" /\ requireActiveMembership

\* issue: one short exchange credential per entry operation, replayed as is.
issue(e) ==
    /\ e \in asked /\ cred[e] \in {"none", "issued"}
    /\ activeBinding /\ acl
    /\ cred' = [cred EXCEPT ![e] = "issued"]
    /\ UNCHANGED <<inv, member, made, gone, acl, binding, session, sockVars, localVars>>

ExchangeExpires(e) ==
    /\ cred[e] = "issued" /\ cred' = [cred EXCEPT ![e] = "stale"]
    /\ UNCHANGED <<inv, member, made, gone, acl, binding, session, sockVars, localVars>>

\* consume: the browser trades the exchange for a session, once.
consume(e) ==
    /\ cred[e] = "issued" /\ activeBinding
    /\ cred' = [cred EXCEPT ![e] = "used"]
    /\ session' = session \cup {e}
    /\ UNCHANGED <<inv, member, made, gone, acl, binding, sockVars, localVars>>

\* peerHumanAuthority: what a session may do now.
peerHumanAuthority(e) == e \in session /\ cred[e] = "used" /\ activeBinding

-----------------------------------------------------------------------------
(* Runtime connections at the Host.                                          *)

authenticateMachine == inv.state = "claimed" /\ requireActiveMembership

open(s) ==
    /\ sock[s] = "none" /\ authenticateMachine
    /\ Cardinality({t \in Socks : sock[t] \in {"pending", "active"}}) < 2
    /\ sock' = [sock EXCEPT ![s] = "pending"]
    /\ UNCHANGED <<teamVars, current, localVars>>

\* activate: the newest authenticated connection replaces the older one.
activate(s) ==
    [t \in Socks |-> IF t = s THEN "active"
                     ELSE IF t = current THEN "closed" ELSE sock[t]]

\* receive of the authentication; a session is checked before its message.
receive(s) ==
    /\ sock[s] = "pending" /\ authenticateMachine
    /\ sock' = activate(s) /\ current' = s
    /\ UNCHANGED <<teamVars, localVars>>

\* close: a lost socket, a failed check, the sweep or a bad frame.
close(s) ==
    /\ sock[s] \in {"pending", "active"}
    /\ sock' = [sock EXCEPT ![s] = "closed"]
    /\ current' = IF current = s THEN None ELSE current
    /\ UNCHANGED <<teamVars, localVars>>

-----------------------------------------------------------------------------
(* The Participant.                                                          *)

\* The journal's mutex: one RecordJoined at a time.
Recording == \E o \in Ops : pc[o] \in {"joined", "stored", "bound", "marked"}

\* confirm freezes the intent of the Owner before the first claim.
confirm(o) ==
    /\ pc[o] = "idle" /\ o \notin pend \cup done
    /\ requireInvitationSecret
    /\ pend' = pend \cup {o}
    /\ UNCHANGED <<teamVars, sockVars, pc, runtime, vault, done, dep, asked>>

\* recover answers from a completion, and drops the secret it left behind.
completion(o) ==
    /\ pc[o] = "idle" /\ o \in done \cap pend
    /\ runtime.op = o /\ vault # "none"
    /\ pend' = pend \ {o}
    /\ UNCHANGED <<teamVars, sockVars, pc, runtime, vault, done, dep, asked>>

\* The challenge of the Host fixes the operation that claimed before.
challenge(o) ==
    /\ pc[o] = "idle" /\ o \in pend \ done
    /\ requireInvitationSecret
    /\ inv.op \in {None, o}
    /\ pc' = [pc EXCEPT ![o] = "challenged"]
    /\ UNCHANGED <<teamVars, sockVars, pend, runtime, vault, done, dep, asked>>

\* The claim: the Host commits, and its answer arrives or is lost.
ClaimPending(o) ==
    /\ pc[o] = "challenged"
    /\ \/ /\ claim(o)
          /\ pc' \in {[pc EXCEPT ![o] = "idle"]} \cup
                     (IF Recording THEN {} ELSE {[pc EXCEPT ![o] = "joined"]})
       \/ /\ pc' = [pc EXCEPT ![o] = "idle"]
          /\ UNCHANGED <<inv, member, made, acl, binding>>
    /\ UNCHANGED <<gone, cred, session, sockVars, pend, runtime, vault, done, dep, asked>>

\* Mutant: a fresh answer of the Host makes the local connection active again.
RevivingStore(o) ==
    /\ pc[o] = "joined"
    /\ runtime' = [state |-> "active", op |-> o] /\ pc' = [pc EXCEPT ![o] = "stored"]
    /\ UNCHANGED <<teamVars, sockVars, pend, vault, done, dep, asked>>

\* RecordJoined, first write: a connection that ended is never replaced.
StoreRuntime(o) ==
    /\ pc[o] = "joined"
    /\ \/ /\ runtime.state = "none" \/ (runtime.state = "active" /\ runtime.op = o)
          /\ ~gone
          /\ runtime' = [state |-> "active", op |-> o]
          /\ pc' = [pc EXCEPT ![o] = "stored"]
       \/ /\ (runtime.state # "none" /\ ~(runtime.state = "active" /\ runtime.op = o)) \/ gone
          /\ pc' = [pc EXCEPT ![o] = "idle"] /\ UNCHANGED runtime
    /\ UNCHANGED <<teamVars, sockVars, pend, vault, done, dep, asked>>

\* Second write: the human receipt, on an active connection only.
Bind(o) ==
    /\ pc[o] = "stored"
    /\ IF runtime.state = "active"
       THEN vault' = "active" /\ pc' = [pc EXCEPT ![o] = "bound"]
       ELSE pc' = [pc EXCEPT ![o] = "idle"] /\ UNCHANGED vault
    /\ UNCHANGED <<teamVars, sockVars, pend, runtime, done, dep, asked>>

saveCompletion(o) ==
    /\ pc[o] = "bound"
    /\ done' = done \cup {o} /\ pc' = [pc EXCEPT ![o] = "marked"]
    /\ UNCHANGED <<teamVars, sockVars, pend, runtime, vault, dep, asked>>

\* The last write of RecordJoined: the sensitive file goes.
RemovePending(o) ==
    /\ pc[o] = "marked"
    /\ pend' = pend \ {o} /\ pc' = [pc EXCEPT ![o] = "idle"]
    /\ UNCHANGED <<teamVars, sockVars, runtime, vault, done, dep, asked>>

\* The process dies: what it had not written is gone, its sockets close later.
Dies ==
    /\ \E o \in Ops : pc[o] # "idle"
    /\ pc' = [o \in Ops |-> "idle"]
    /\ UNCHANGED <<teamVars, sockVars, pend, runtime, vault, done, dep, asked>>

\* Prepare: the local fence and the frozen operation in one write.
Prepare ==
    /\ runtime.state # "none" /\ dep = "none"
    /\ runtime' = [runtime EXCEPT !.state = "left"] /\ dep' = "pending"
    /\ UNCHANGED <<teamVars, sockVars, pend, pc, vault, done, asked>>

\* leave at the Host: expiry never prevents narrowing.
leave ==
    /\ dep = "pending" /\ member # "none"
    /\ IF member = "active" THEN RevokeMembership ELSE UNCHANGED <<member, acl, binding, cred>>
    /\ UNCHANGED <<inv, made, gone, session>>

\* Synchronize: the Host commits, and its receipt arrives or is lost.
Synchronize ==
    /\ leave /\ dep' \in {dep, "confirmed"}
    /\ UNCHANGED <<sockVars, pend, pc, runtime, vault, done, asked>>

LoadForEntry == runtime.state = "active" /\ vault = "active" /\ ~gone

\* The request is sent after a last look at the local state.
HumanEntry(e) ==
    /\ e \notin asked /\ LoadForEntry
    /\ asked' = asked \cup {e}
    /\ UNCHANGED <<teamVars, sockVars, pend, pc, runtime, vault, done, dep>>

-----------------------------------------------------------------------------
JoinNext ==
    \/ revokeMembership \/ revokeInvitation \/ InvitationExpires \/ MembershipExpires
    \/ \E e \in Entries : issue(e) \/ ExchangeExpires(e) \/ consume(e) \/ HumanEntry(e)
    \/ \E s \in Socks : open(s) \/ receive(s) \/ close(s)
    \/ \E o \in Ops : \/ confirm(o) \/ completion(o) \/ challenge(o) \/ ClaimPending(o)
                      \/ StoreRuntime(o) \/ Bind(o) \/ saveCompletion(o) \/ RemovePending(o)
    \/ Dies \/ Prepare \/ Synchronize

JoinSpec == JoinInit /\ [][JoinNext]_joinVars

-----------------------------------------------------------------------------
(* Properties.                                                               *)

\* One invitation makes one member, and the Participant's receipt is of the
\* operation the Host consumed it for, over lost answers and rival operations.
OneMembership ==
    /\ made <= 1
    /\ runtime.state # "none" => runtime.op = inv.op

\* The three private files appear in order: a human receipt belongs to a stored
\* Runtime receipt, and a completion vouches for both.
ReceiptsInOrder ==
    /\ vault # "none" => runtime.state # "none"
    /\ done # {} => vault # "none" /\ done = {runtime.op}

\* A membership the Host gave out is never forgotten by the Participant: until
\* its completion is durable the pending intent stays, wherever it dies.
ClaimRecoverable == inv.op # None => inv.op \in pend \cup done

\* Nothing of a member outlives the membership at the Host: bindings, unused
\* exchanges, sessions and Room participation end in the same transaction and
\* none is issued after it.
NothingOutlives ==
    member = "revoked" =>
        /\ binding # "active" /\ ~acl
        /\ \A e \in Entries : cred[e] \notin {"issued", "used"} /\ ~peerHumanAuthority(e)

\* A departure is confirmed only when the Host really ended the membership.
DepartureTrue == dep = "confirmed" => member = "revoked" /\ runtime.state = "left"

\* The Host serves one connection of a Peer: every other is closed or has not
\* authenticated yet.
OneConnection ==
    \A s \in Socks : sock[s] = "active" => current = s

\* One invitation makes one member whose receipts appear in order and can be recovered
\* after a crash, nothing of a member outlives the membership, a confirmed departure is
\* true and the Host serves one connection of a Peer.
MembershipKept ==
    /\ JoinTypeOK /\ OneMembership /\ ReceiptsInOrder /\ ClaimRecoverable
    /\ NothingOutlives /\ DepartureTrue /\ OneConnection

\* Withdrawal is never reversed on either side.
WithdrawalStands ==
    /\ runtime.state = "left" => runtime'.state = "left"
    /\ member = "revoked" => member' = "revoked"
    /\ dep # "none" => dep' # "none"
=============================================================================
