------------------------ MODULE ArtifactPublication ------------------------
(***************************************************************************)
(* A Bridge publishes a file as an Artifact: prepare, ordered chunks, seal, *)
(* bind (bridge/internal/artifact/publisher.go), over HTTP requests whose   *)
(* answers may be lost and which may arrive after their sender gave up.     *)
(* Central (ArtifactPublicationService, ArtifactContentBindingService)      *)
(* keeps rows in SQLite and bytes in files that no transaction covers, and  *)
(* may crash between the two.  A handler is synchronous, so one request is  *)
(* served at a time; a request that writes a file and then a row is two     *)
(* steps, with the crash between them.  A request under a read_capture      *)
(* lease is one transaction: when it throws, its rows roll back and its     *)
(* file operations stay.                                                    *)
(*                                                                         *)
(* Bytes are BOOLEANs: TRUE is the byte the publisher sent, FALSE is what a *)
(* torn write left.  A publication is named by its idempotency key, which   *)
(* the publisher derives from the content, so a publisher that starts again *)
(* meets its own row.                                                       *)
(***************************************************************************)
EXTENDS Naturals, Sequences, SequencesExt, FiniteSets, FiniteSetsExt

CONSTANTS
    Clients,      \* processes that run Publish
    Keys,         \* publications, by their idempotency keys
    Contents,     \* contents, by their digests
    KeyOf,        \* the publication each client drives
    ContentOf,    \* the content each publication declares
    Size,         \* its length
    ChunkBytes,   \* the longest chunk
    CaptureKeys,  \* publications whose lease is a read_capture lease
    MaxUploads,   \* maximumActiveUploads
    MaxBytes,     \* maximumTeamBytes
    MaxMishaps,   \* bound on lost answers, lost requests and crashes
    MaxStarts,    \* bound on how often each client runs Publish
    Late,         \* whether a request its sender gave up may still arrive
    Expires,      \* whether time runs out for uploads and leases
    Missing       \* no value

VARIABLES
    pub,      \* publication rows: Missing or [state, received]
    due,      \* publications whose fifteen minutes have passed
    sources,  \* publications whose lease is active
    tmp,      \* tmp/<publication>.upload: Missing or its bytes
    blob,     \* sealed/<digest>: Missing or its bytes
    rows,     \* contents with a row in artifact_contents
    arts,     \* canonical Artifacts, in the order of their revisions
    cur,      \* the request whose files are written and whose rows are not
    client,   \* each publisher: [at, asking, again, view, starts]
    req,      \* its request: Missing, "sent", "serving" between files and rows, or
              \* "gone" when Central crashed with it
    ans,      \* the answer on its way to it
    strays,   \* requests nobody waits for any more
    mishaps   \* faults so far

publishFiles == <<tmp, blob>>
db == <<pub, rows, arts>>
net == <<req, ans, strays>>
publishVars == <<db, publishFiles, due, sources, cur, client, net, mishaps>>

Live == {"prepared", "receiving"}
Sizes(k) == Size[ContentOf[k]]
IsLive(k) == pub[k] # Missing /\ pub[k].state \in Live
Right(n) == [i \in 1..n |-> TRUE]
Row(s, n) == [state |-> s, received |-> n]
Refused == [ok |-> FALSE, state |-> "none", received |-> 0]
View(r) == [ok |-> TRUE, state |-> r.state, received |-> r.received]
States == Live \cup {"sealed", "bound", "expired", "failed"}
UploadRows == [state : States, received : Nat]
Answers == {Refused} \cup [ok : {TRUE}, state : States,
                           received : UNION {0..Size[c] : c \in Contents}]
Requests == [op : {"prepare", "chunk", "seal", "bind", "status"}, k : Keys, off : Nat, n : Nat]
Publishers == [at : {"idle", "prepare", "chunk", "seal", "bind", "done", "error"},
               asking : BOOLEAN, again : BOOLEAN, view : UploadRows, starts : 0..MaxStarts]

ASSUME PublicationAssumption ==
    /\ KeyOf \in [Clients -> Keys] /\ ContentOf \in [Keys -> Contents]
    /\ Size \in [Contents -> Nat \ {0}] /\ ChunkBytes \in Nat \ {0}
    /\ CaptureKeys \subseteq Keys /\ Late \in BOOLEAN /\ Expires \in BOOLEAN
    /\ MaxMishaps \in Nat /\ MaxStarts \in Nat
    /\ Missing \notin UploadRows /\ Missing \notin Requests /\ Missing \notin Answers
    /\ Missing \notin Seq(BOOLEAN) /\ Missing \notin {"sent", "serving", "gone"}
-----------------------------------------------------------------------------
(* The blob store. *)

ensureUpload(f) == IF f = Missing THEN <<>> ELSE f
\* digest and assertDigest: the whole file is what was declared.
assertDigest(f, k) == f = Right(Sizes(k))
matches(f, off, n) == Len(f) >= off + n /\ \A i \in off + 1..off + n : f[i]
\* seal: an existing blob wins and the upload f goes; otherwise f is renamed.
sealBlob(k, f) ==
    /\ blob' = IF blob[ContentOf[k]] # Missing THEN blob
               ELSE [blob EXCEPT ![ContentOf[k]] = f]
    /\ tmp' = [tmp EXCEPT ![k] = Missing]

(* Quota: declared bytes of live uploads and bytes of sealed contents. *)
reservedBytes(p) ==
    MapThenSumSet(LAMBDA c : Size[c], rows)
      + MapThenSumSet(Sizes, {k \in Keys : p[k] # Missing /\ p[k].state \in Live})
activeUploadCount(p) == Cardinality({k \in Keys : p[k] # Missing /\ p[k].state \in Live})

(* What a request that throws leaves: the rows p of a request under a       *)
(* capture lease roll back (withCaptureWrite), the files f do not.          *)
Throw(k, p, f) ==
    /\ pub' = IF k \in CaptureKeys THEN pub ELSE p
    /\ tmp' = f
    /\ UNCHANGED <<blob, rows, arts, cur>>
Keep == UNCHANGED <<pub, publishFiles, rows, arts, cur>>
Closed(k, s) == [pub EXCEPT ![k].state = s]

\* requireCurrentCapturePublication: only a capture lease is looked at again.
CaptureRefused(k) == k \in CaptureKeys /\ k \notin sources
\* requireWritable, which expires what is due and discards its upload.
NotWritable(k) == k \in due \/ ~IsLive(k)
RefuseWrite(k) ==
    IF k \in due /\ IsLive(k)
    THEN Throw(k, Closed(k, "expired"), [tmp EXCEPT ![k] = Missing])
    ELSE Keep
\* reconcileTemporarySize: what is beyond the acknowledged bytes is cut off.
reconcileTemporarySize(k) ==
    LET f == ensureUpload(tmp[k])
    IN  SubSeq(f, 1, IF Len(f) < pub[k].received THEN Len(f) ELSE pub[k].received)
BytesMissing(k) == Len(ensureUpload(tmp[k])) < pub[k].received
FailMissing(k) == Throw(k, Closed(k, "failed"), [tmp EXCEPT ![k] = ensureUpload(tmp[k])])
-----------------------------------------------------------------------------
(* The handlers of Central.  Each gives the next files and rows and the     *)
(* answer a, Missing while the rows are still to be written.                *)

expireDueUploads == {k \in due : IsLive(k)}
Swept == [k \in Keys |-> IF k \in expireDueUploads THEN Row("expired", pub[k].received) ELSE pub[k]]
SweptFiles == [k \in Keys |-> IF k \in expireDueUploads THEN Missing ELSE tmp[k]]

prepareRetry(k, a) ==
    /\ pub[k] # Missing
    /\ IF Swept[k].state \notin Live
       THEN a = View(Swept[k]) /\ pub' = Swept /\ tmp' = SweptFiles
       ELSE IF CaptureRefused(k) THEN a = Refused /\ pub' = pub /\ tmp' = SweptFiles
       ELSE /\ a = View(Swept[k]) /\ pub' = Swept
            /\ tmp' = [SweptFiles EXCEPT ![k] = ensureUpload(tmp[k])]
    /\ UNCHANGED <<blob, rows, arts, cur>>

requireActivePublicationSource(k) == k \in sources
OverQuota(k) ==
    \/ activeUploadCount(Swept) >= MaxUploads
    \/ reservedBytes(Swept) + Sizes(k) > MaxBytes
prepareContent(k, a) ==
    \/ prepareRetry(k, a)
    \/ /\ pub[k] = Missing
       /\ IF ~requireActivePublicationSource(k) \/ OverQuota(k)
          THEN a = Refused /\ Throw(k, Swept, SweptFiles)
          ELSE /\ a = View(Row("prepared", 0))
               /\ pub' = [Swept EXCEPT ![k] = Row("prepared", 0)]
               /\ tmp' = [SweptFiles EXCEPT ![k] = <<>>]
               /\ UNCHANGED <<blob, rows, arts, cur>>

\* appendContent up to the write of the chunk.
appendContent(r, a) ==
    LET k == r.k
        f == reconcileTemporarySize(k)
        got == pub[k].received
    IN  IF CaptureRefused(k) THEN a = Refused /\ Keep
        ELSE IF NotWritable(k) THEN a = Refused /\ RefuseWrite(k)
        ELSE IF BytesMissing(k) THEN a = Refused /\ FailMissing(k)
        ELSE IF r.off < got
        THEN /\ a = IF r.off + r.n <= got /\ matches(f, r.off, r.n) THEN View(pub[k]) ELSE Refused
             /\ Throw(k, pub, [tmp EXCEPT ![k] = f])
        ELSE IF r.off # got \/ r.off + r.n > Sizes(k)
        THEN a = Refused /\ Throw(k, pub, [tmp EXCEPT ![k] = f])
        ELSE /\ a = Missing /\ cur' = r
             /\ tmp' = [tmp EXCEPT ![k] = f \o Right(r.n)]
             /\ UNCHANGED <<pub, blob, rows, arts>>

\* Mutant: the offset runs ahead of the chunk.
AdvancePast(r) ==
    /\ pub' = [pub EXCEPT ![r.k] = Row("receiving", r.off + r.n + 2)]
    /\ UNCHANGED <<publishFiles, rows, arts>>
\* advanceReceived: a compare and set on the offset.
advanceReceived(r) ==
    /\ pub' = [pub EXCEPT ![r.k] = Row("receiving", r.off + r.n)]
    /\ UNCHANGED <<publishFiles, rows, arts>>

\* Mutant: the rows are written before the file is moved.
SealRowsFirst(k, a) ==
    IF NotWritable(k) THEN a = Refused /\ Keep
    ELSE /\ a = Missing /\ cur' = [op |-> "seal", k |-> k, off |-> 0, n |-> 0]
         /\ rows' = rows \cup {ContentOf[k]} /\ pub' = Closed(k, "sealed")
         /\ UNCHANGED <<publishFiles, arts>>
\* sealContent up to the move of the file, before which a commit that
\* inspectCommitBundleEnvelope does not take is refused and stays as it is.
sealContent(k, a) ==
    LET sealedAlready == blob[ContentOf[k]] # Missing
        looked == tmp[k] # Missing \/ ~sealedAlready \/ pub[k].received # Sizes(k)
        f == IF looked THEN reconcileTemporarySize(k) ELSE Missing
    IN  IF pub[k].state \in {"sealed", "bound"} THEN a = View(pub[k]) /\ Keep
        ELSE IF CaptureRefused(k) THEN a = Refused /\ Keep
        ELSE IF NotWritable(k) THEN a = Refused /\ RefuseWrite(k)
        ELSE IF sealedAlready /\ ~assertDigest(blob[ContentOf[k]], k) THEN a = Refused /\ Keep
        ELSE IF looked /\ BytesMissing(k) THEN a = Refused /\ FailMissing(k)
        ELSE IF pub[k].received # Sizes(k) THEN a = Refused /\ Throw(k, pub, [tmp EXCEPT ![k] = f])
        ELSE IF f # Missing /\ ~assertDigest(f, k)
        THEN a = Refused /\ Throw(k, Closed(k, "failed"), [tmp EXCEPT ![k] = Missing])
        ELSE \/ a = Refused /\ Throw(k, pub, [tmp EXCEPT ![k] = f])
             \/ /\ a = Missing /\ cur' = [op |-> "seal", k |-> k, off |-> 0, n |-> 0]
                /\ sealBlob(k, f) /\ UNCHANGED <<pub, rows, arts>>
\* seal of the repository: the content's row and the publication's, together.
sealRows(r) ==
    /\ rows' = rows \cup {ContentOf[r.k]}
    /\ pub' = [pub EXCEPT ![r.k].state = "sealed"]
    /\ UNCHANGED <<publishFiles, arts>>

\* boundResult: the Artifact of a publication that is bound already.
boundResult(k) == View(pub[k])
\* bind: the Artifact, its revision and the publication in one transaction.
bindArtifact(k, a) ==
    IF pub[k].state = "bound" THEN a = boundResult(k) /\ Keep
    ELSE IF pub[k].state # "sealed" \/ CaptureRefused(k) THEN a = Refused /\ Keep
    ELSE /\ a = View(Row("bound", pub[k].received))
         /\ pub' = Closed(k, "bound")
         /\ arts' = Append(arts, [key |-> k, content |-> ContentOf[k]])
         /\ UNCHANGED <<publishFiles, rows, cur>>
-----------------------------------------------------------------------------
(* Serving.  A request of a client c is answered; one that arrives late has *)
(* nobody to answer.                                                        *)

Handler(r, a) ==
    CASE r.op = "prepare" -> prepareContent(r.k, a)
      [] r.op = "chunk" -> appendContent(r, a)
      [] r.op = "seal" -> sealContent(r.k, a)
      [] r.op = "bind" -> bindArtifact(r.k, a)
      [] OTHER -> a = View(pub[r.k]) /\ Keep

Request(c) ==
    [op |-> IF client[c].asking THEN "status" ELSE client[c].at, k |-> KeyOf[c],
     off |-> client[c].view.received,
     n |-> Min({ChunkBytes, Sizes(KeyOf[c]) - client[c].view.received})]

Serve(c) ==
    /\ cur = Missing /\ req[c] = "sent"
    /\ \E a \in Answers \cup {Missing} :
         /\ Handler(Request(c), a)
         /\ req' = [req EXCEPT ![c] = IF a = Missing THEN "serving" ELSE Missing]
         /\ ans' = [ans EXCEPT ![c] = a]
    /\ UNCHANGED <<due, sources, client, strays, mishaps>>

ServeLate(r) ==
    /\ cur = Missing /\ r \in strays /\ strays' = strays \ {r}
    /\ \E a \in Answers \cup {Missing} : Handler(r, a)
    /\ UNCHANGED <<due, sources, client, req, ans, mishaps>>

\* The rows of the request whose files are written, and its answer.
Commit ==
    /\ cur # Missing /\ cur' = Missing
    /\ IF cur.op = "chunk" THEN advanceReceived(cur) ELSE sealRows(cur)
    /\ req' = [c \in Clients |-> IF req[c] = "serving" THEN Missing ELSE req[c]]
    /\ ans' = [c \in Clients |-> IF req[c] = "serving" THEN View(pub'[cur.k]) ELSE ans[c]]
    /\ UNCHANGED <<due, sources, client, strays, mishaps>>

\* Central stops between the files and the rows.  Of the chunk it wrote, any
\* prefix may be on disk, and the bytes after it may be anything.
CentralStops ==
    /\ cur # Missing /\ mishaps < MaxMishaps /\ mishaps' = mishaps + 1 /\ cur' = Missing
    /\ IF cur.op = "chunk"
       THEN \E m \in 0..cur.n : \E torn \in [1..m -> BOOLEAN] :
              tmp' = [tmp EXCEPT ![cur.k] = SubSeq(@, 1, cur.off) \o torn]
       ELSE UNCHANGED tmp
    /\ req' = [c \in Clients |-> IF req[c] = "serving" THEN "gone" ELSE req[c]]
    /\ UNCHANGED <<db, blob, due, sources, client, ans, strays>>

UploadIsDue(k) ==
    /\ Expires /\ IsLive(k) /\ k \notin due /\ due' = due \cup {k}
    /\ UNCHANGED <<db, publishFiles, sources, cur, client, net, mishaps>>

LeaseEnds(k) ==
    /\ Expires /\ k \in sources /\ sources' = sources \ {k}
    /\ UNCHANGED <<db, publishFiles, due, cur, client, net, mishaps>>
-----------------------------------------------------------------------------
(* The publisher. *)

Serving == <<db, publishFiles, due, sources, cur>>
Idle(c) == req[c] = Missing /\ ans[c] = Missing
Move(c, at, asking, again, view) ==
    client' = [client EXCEPT ![c] = [@ EXCEPT !.at = at, !.asking = asking, !.again = again,
                                              !.view = view]]

\* A lease that has ended is not given again: its key is the publication's own.
issueReadSource(k) == k \notin CaptureKeys /\ k \in sources
captureLease(k) == k \in CaptureKeys /\ k \in sources

Start(c) ==
    /\ client[c].at \in {"idle", "error"} /\ client[c].starts < MaxStarts
    /\ client' = [client EXCEPT ![c] = [at |-> "prepare", asking |-> FALSE, again |-> FALSE,
                                        view |-> Row("prepared", 0), starts |-> @.starts + 1]]
    /\ UNCHANGED <<Serving, net, mishaps>>
\* Publish captures a file of the Workspace after its lease was given;
\* PublishCapture has the retained bytes of a repository capture.
Publish(c) == issueReadSource(KeyOf[c]) /\ Start(c)
PublishCapture(c) == captureLease(KeyOf[c]) /\ Start(c)

Send(c) ==
    /\ client[c].at \in {"prepare", "chunk", "seal", "bind"} /\ Idle(c)
    /\ req' = [req EXCEPT ![c] = "sent"]
    /\ UNCHANGED <<Serving, client, ans, strays, mishaps>>

\* Where publishSource goes next, from what Central says of the publication.
publishSource(c, v) ==
    CASE v.state \in {"failed", "expired"} -> "error"
      [] v.state \in Live -> IF v.received < Sizes(KeyOf[c]) THEN "chunk" ELSE "seal"
      [] OTHER -> "bind"

Seen(a) == Row(a.state, a.received)

\* The answer to prepare, a chunk, seal or bind.
OnAnswer(c, a) ==
    IF ~a.ok THEN Move(c, "error", FALSE, FALSE, client[c].view)
    ELSE IF client[c].at = "bind" THEN Move(c, "done", FALSE, FALSE, Seen(a))
    ELSE Move(c, publishSource(c, a), FALSE, FALSE, Seen(a))

\* The answer to status: the lost request is sent again only when it is not done.
OnStatus(c, a) ==
    LET at == client[c].at
        same == IF at = "chunk" THEN a.received = client[c].view.received
                ELSE IF at = "seal" THEN a.state \in Live
                ELSE a.state = "bound"
    IN  IF ~a.ok THEN Move(c, "error", FALSE, FALSE, client[c].view)
        ELSE IF same THEN Move(c, at, FALSE, TRUE, Seen(a))
        ELSE IF at = "bind" THEN Move(c, "error", FALSE, FALSE, Seen(a))
        ELSE Move(c, publishSource(c, a), FALSE, FALSE, Seen(a))

Receive(c) ==
    /\ ans[c] # Missing
    /\ IF client[c].asking THEN OnStatus(c, ans[c]) ELSE OnAnswer(c, ans[c])
    /\ ans' = [ans EXCEPT ![c] = Missing]
    /\ UNCHANGED <<Serving, req, strays, mishaps>>

\* retrySameRequest for prepare, status for the others, and the second time an error.
OutcomeUnknown(c) ==
    IF client[c].asking \/ client[c].again THEN Move(c, "error", FALSE, FALSE, client[c].view)
    ELSE IF client[c].at = "prepare" THEN Move(c, "prepare", FALSE, TRUE, client[c].view)
    ELSE Move(c, client[c].at, TRUE, FALSE, client[c].view)

\* The connection breaks: the request is lost, or goes on without its sender,
\* or was served and its answer is lost.
Lose(c) ==
    /\ mishaps < MaxMishaps /\ mishaps' = mishaps + 1
    /\ OutcomeUnknown(c)
    /\ \/ /\ req[c] = "sent" /\ ans' = ans
          /\ \E l \in {strays} \cup (IF Late THEN {strays \cup {Request(c)}} ELSE {}) : strays' = l
          /\ req' = [req EXCEPT ![c] = Missing]
       \/ /\ ans[c] # Missing /\ ans' = [ans EXCEPT ![c] = Missing] /\ UNCHANGED <<req, strays>>
    /\ UNCHANGED Serving

\* Central crashed with the request.
Gone(c) ==
    /\ req[c] = "gone" /\ OutcomeUnknown(c)
    /\ req' = [req EXCEPT ![c] = Missing]
    /\ UNCHANGED <<Serving, ans, strays, mishaps>>
-----------------------------------------------------------------------------
PublishInit ==
    /\ pub = [k \in Keys |-> Missing] /\ due = {} /\ sources = Keys
    /\ tmp = [k \in Keys |-> Missing] /\ blob = [c \in Contents |-> Missing]
    /\ rows = {} /\ arts = <<>> /\ cur = Missing /\ strays = {} /\ mishaps = 0
    /\ client = [c \in Clients |-> [at |-> "idle", asking |-> FALSE, again |-> FALSE,
                                    view |-> Row("prepared", 0), starts |-> 0]]
    /\ req = [c \in Clients |-> Missing] /\ ans = [c \in Clients |-> Missing]

ClientStep(c) == Send(c) \/ Receive(c) \/ Gone(c)
CentralStep == Commit \/ \E c \in Clients : Serve(c)

PublishNext ==
    \/ \E c \in Clients : Publish(c) \/ PublishCapture(c) \/ Lose(c) \/ ClientStep(c)
    \/ CentralStep \/ CentralStops
    \/ \E r \in strays : ServeLate(r)
    \/ \E k \in Keys : UploadIsDue(k) \/ LeaseEnds(k)

PublishSpec == PublishInit /\ [][PublishNext]_publishVars

-----------------------------------------------------------------------------
\* Every variable has its type, and no upload has more bytes than were declared.
PublishTypeOK ==
    /\ pub \in [Keys -> {Missing} \cup UploadRows]
    /\ \A k \in Keys : pub[k] # Missing => pub[k].received <= Sizes(k)
    /\ tmp \in [Keys -> {Missing} \cup Seq(BOOLEAN)]
    /\ blob \in [Contents -> {Missing} \cup Seq(BOOLEAN)]
    /\ due \subseteq Keys /\ sources \subseteq Keys /\ rows \subseteq Contents
    /\ arts \in Seq([key : Keys, content : Contents])
    /\ cur \in {Missing} \cup Requests /\ strays \subseteq Requests /\ mishaps \in 0..MaxMishaps
    /\ client \in [Clients -> Publishers]
    /\ req \in [Clients -> {Missing} \cup {"sent", "serving", "gone"}]
    /\ ans \in [Clients -> {Missing} \cup Answers]

(* Whatever crashed and whichever publications shared the bytes, a content  *)
(* with a row has its whole, right blob, and a sealed or bound publication  *)
(* has such a content (seal: rename, fsync, then the rows).                 *)
SealedIsWhole ==
    /\ \A c \in rows : blob[c] = Right(Size[c])
    /\ \A k \in Keys : pub[k] # Missing /\ pub[k].state \in {"sealed", "bound"} => ContentOf[k] \in rows

(* Bytes that were acknowledged are on disk while the upload can still be   *)
(* used: in the upload, or, after a crash in seal, in the blob.             *)
AcknowledgedIsStored ==
    \A k \in Keys : (IsLive(k) /\ k \notin due) =>
        \/ pub[k].received = 0
        \/ tmp[k] # Missing /\ matches(tmp[k], 0, pub[k].received)
        \/ pub[k].received = Sizes(k) /\ blob[ContentOf[k]] = Right(Sizes(k))

(* Knowing a digest is not enough: a sealed publication was sent its whole  *)
(* content, though the blob may have been there before.                     *)
NoBypass ==
    \A k \in Keys : pub[k] # Missing /\ pub[k].state \in {"sealed", "bound"} => pub[k].received = Sizes(k)

(* One publication is one Artifact, however many publishers, retries and    *)
(* late requests bind it.                                                   *)
OneArtifact ==
    \A k \in Keys :
        Cardinality({i \in DOMAIN arts : arts[i].key = k})
          = IF pub[k] # Missing /\ pub[k].state = "bound" THEN 1 ELSE 0

(* A publisher that returns success has a canonical Artifact.               *)
DoneIsBound == \A c \in Clients : client[c].at = "done" => pub[KeyOf[c]].state = "bound"

\* What Central keeps of publications is whole, stored and bound once.
PublicationTrue ==
    PublishTypeOK /\ SealedIsWhole /\ AcknowledgedIsStored /\ NoBypass /\ OneArtifact /\ DoneIsBound

(* Publications never take more than the quota of a Team, though it is only *)
(* looked at when an upload is prepared.  Contents that the adoption of     *)
(* remote evidence imports (retainContent) are added without a look at it:  *)
(* they are outside this bound, as they are outside this module.            *)
QuotaHeld == activeUploadCount(pub) <= MaxUploads /\ reservedBytes(pub) <= MaxBytes

(* An upload never goes backwards and one that has settled stays settled,   *)
(* whatever arrives late.                                                   *)
NeverBackwards ==
    \A k \in Keys : pub[k] # Missing =>
        /\ pub'[k] # Missing /\ pub'[k].received >= pub[k].received
        /\ (pub[k].state \in {"expired", "failed", "bound"} => pub'[k].state = pub[k].state)
        /\ (pub[k].state = "sealed" => pub'[k].state \in {"sealed", "bound"})
=============================================================================
