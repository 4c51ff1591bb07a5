---------------------------- MODULE RemoteEgress ----------------------------
(***************************************************************************)
(* How Central reaches a remote provider                                   *)
(* (apps/server/src/remote/remote-provider-egress-policy.ts).  The name of *)
(* the provider is resolved for each request, the whole answer is checked  *)
(* against the address policy and its first address pinned; the socket is  *)
(* connected, its peer compared with the pin, and only then is the request *)
(* written, credential and all.  The name service may answer differently   *)
(* each time, and the signal of the caller's timeout may come at any       *)
(* point.  Requests share neither a socket nor an agent: each is made and  *)
(* ended once.                                                             *)
(***************************************************************************)
EXTENDS Integers, Sequences, FiniteSets

CONSTANTS
    NoAddress,
    Requests,
    Public, Blocked, Loopback,  \* addresses the policy allows, refuses, and allows in tests only
    MaxAnswers,                 \* bound: addresses in an answer of the name service
    TestLoopback                \* the capability that tests hold

Addresses == Public \cup Blocked \cup Loopback

ASSUME EgressAssumption ==
    /\ Public \cap (Blocked \cup Loopback) = {} /\ Blocked \cap Loopback = {}
    /\ TestLoopback \in BOOLEAN /\ MaxAnswers \in Nat

VARIABLES
    request,    \* each request: its phase, whether it is https, and its pin
    socket,     \* the socket of a request: the peer it reached, and whether it is open
    aborted,    \* the signal of the caller's timeout
    written     \* the peers each request was written to, and how

egressVars == <<request, socket, aborted, written>>

NoSocket == [peer |-> NoAddress, open |-> FALSE]
Answers == UNION {[1..n -> Addresses] : n \in 0..MaxAnswers}
Over == {"answered", "refused"}

EgressInit ==
    /\ request = [r \in Requests |-> [phase |-> "idle", secure |-> TRUE, pin |-> NoAddress]]
    /\ socket = [r \in Requests |-> NoSocket]
    /\ aborted = [r \in Requests |-> FALSE]
    /\ written = [r \in Requests |-> {}]

Moves(r, phase) == request' = [request EXCEPT ![r].phase = phase]

\* The transport is called with the binding's origin; a URL with credentials, a fragment or
\* another scheme is refused at once.
Fetch(r, secure) ==
    /\ request[r].phase = "idle"
    /\ request' = [request EXCEPT ![r] = [phase |-> "resolving", secure |-> secure, pin |-> NoAddress]]
    /\ UNCHANGED <<socket, aborted, written>>

\* assertRemoteProviderAddressAllowed.
AddressAllowed(a) == a \in Public \/ (TestLoopback /\ a \in Loopback)

\* Every address of an answer is checked.
AnswerAllowed(answer) == answer # <<>> /\ \A i \in DOMAIN answer : AddressAllowed(answer[i])

\* Plain HTTP is for the loopback address under the tests' capability.
SchemeAllowed(r, pin) == request[r].secure \/ (TestLoopback /\ pin \in Loopback)

\* resolveAndPinRemoteProviderAddress, and the checks between it and the connection.
Resolve(r, answer) ==
    /\ request[r].phase = "resolving"
    /\ request' = [request EXCEPT ![r] =
        IF AnswerAllowed(answer) /\ SchemeAllowed(r, answer[1]) /\ ~aborted[r]
        THEN [@ EXCEPT !.phase = "connecting", !.pin = answer[1]]
        ELSE [@ EXCEPT !.phase = "refused"]]
    /\ UNCHANGED <<socket, aborted, written>>

\* The name service has no answer.
ResolveFails(r) ==
    /\ request[r].phase = "resolving"
    /\ Moves(r, "refused")
    /\ UNCHANGED <<socket, aborted, written>>

\* assertRemoteProviderConnectedPeer.
PeerIsPin(r, peer) == peer = request[r].pin

\* The connect event, with the peer the operating system reached: over HTTP the socket is handed on, over HTTPS it
\* awaits the handshake.
Connected(r, peer) ==
    /\ request[r].phase = "connecting"
    /\ socket' = [socket EXCEPT ![r] = [peer |-> peer, open |-> PeerIsPin(r, peer)]]
    /\ Moves(r, IF ~PeerIsPin(r, peer) THEN "refused"
                ELSE IF request[r].secure THEN "securing" ELSE "ready")
    /\ UNCHANGED <<aborted, written>>

\* The secureConnect event.
Secured(r) ==
    /\ request[r].phase = "securing"
    /\ Moves(r, "ready")
    /\ UNCHANGED <<socket, aborted, written>>

\* fail: the promise settles once and destroys the socket.
Destroys(r) == socket' = [socket EXCEPT ![r].open = FALSE]

\* An error of the socket, of the certificate, or the caller's signal, before the request is
\* written.
ConnectFails(r) ==
    /\ request[r].phase \in {"connecting", "securing"}
    /\ Destroys(r)
    /\ Moves(r, "refused")
    /\ UNCHANGED <<aborted, written>>

\* performRequest writes the request to the socket it was handed, through an agent that has
\* no other connection.
Write(r) ==
    /\ request[r].phase = "ready" /\ ~aborted[r]
    /\ written' = [written EXCEPT ![r] = @ \cup {[to |-> socket[r].peer, secure |-> request[r].secure]}]
    /\ Moves(r, "written")
    /\ UNCHANGED <<socket, aborted>>

\* The head of an answer: the caller has its response, or the error of a redirection or of
\* a malformed head, and the socket is still open.
Responds(r, phase) ==
    /\ request[r].phase = "written"
    /\ Moves(r, phase)
    /\ UNCHANGED <<socket, aborted, written>>

\* The close event of the answer destroys the agent with its socket: when the body was read
\* to its end or thrown away, the caller's signal came, or the provider closed.
ResponseClosed(r) ==
    /\ request[r].phase \in Over /\ socket[r].open
    /\ Destroys(r)
    /\ UNCHANGED <<request, aborted, written>>

\* The error event of the request, which is also what the caller's signal becomes: the agent
\* is destroyed with its socket.
RequestFails(r) ==
    /\ request[r].phase = "written" \/ (request[r].phase = "ready" /\ aborted[r])
    /\ Destroys(r)
    /\ Moves(r, "refused")
    /\ UNCHANGED <<aborted, written>>

\* The caller's timeout; an earlier request of the same call may have used it up.
Abort(r) ==
    /\ request[r].phase \notin Over /\ ~aborted[r]
    /\ aborted' = [aborted EXCEPT ![r] = TRUE]
    /\ UNCHANGED <<request, socket, written>>

Proceeds(r) ==
    \/ \E answer \in Answers : Resolve(r, answer)
    \/ ResolveFails(r)
    \/ \E peer \in Addresses : Connected(r, peer)
    \/ Secured(r) \/ ConnectFails(r) \/ Write(r)
    \/ \E phase \in Over : Responds(r, phase)
    \/ RequestFails(r) \/ ResponseClosed(r)

EgressNext == \E r \in Requests :
    \/ \E secure \in BOOLEAN : Fetch(r, secure)
    \/ Proceeds(r) \/ Abort(r)

EgressSpec == EgressInit /\ [][EgressNext]_egressVars

-----------------------------------------------------------------------------
EgressPhases == Over \cup {"idle", "resolving", "connecting", "securing", "ready", "written"}

EgressTypeOK ==
    /\ request \in [Requests -> [phase : EgressPhases, secure : BOOLEAN, pin : {NoAddress} \cup Addresses]]
    /\ socket \in [Requests -> [peer : {NoAddress} \cup Addresses, open : BOOLEAN]]
    /\ aborted \in [Requests -> BOOLEAN]
    /\ written \in [Requests -> SUBSET [to : Addresses, secure : BOOLEAN]]

\* A request, with the credential in it, is only ever written to an address that the policy
\* allows, and unencrypted only to the loopback address, whatever the name service answered
\* in the end and wherever the connection went (resolveAndPinRemoteProviderAddress,
\* connectPinnedSocket).
WrittenToAllowed ==
    \A r \in Requests : \A w \in written[r] :
        (w.to \in Public /\ w.secure) \/ (TestLoopback /\ w.to \in Loopback)

\* A request that is over without having been written has no open socket, whether the peer
\* was another than the pin, the handshake failed or the signal came between the handshake
\* and the request (connectPinnedSocket's fail, the error event of performRequest).  One that
\* was written may leave its socket open until the answer closes.
UnwrittenClosed ==
    \A r \in Requests : request[r].phase \in Over /\ written[r] = {} => ~socket[r].open

\* Requests go where the policy lets them go, and one that went nowhere leaves no socket.
EgressTrue == EgressTypeOK /\ WrittenToAllowed /\ UnwrittenClosed
=============================================================================
