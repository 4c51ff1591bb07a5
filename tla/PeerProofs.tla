----------------------------- MODULE PeerProofs -----------------------------
(***************************************************************************)
(* Proofs about two Centrals as peers.  PeerRun, for any number of events   *)
(* and deaths: a delivered Run starts at most one process, the Host's log   *)
(* is the journal as far as it got, a known outcome stands for a process    *)
(* that is gone, and the Host concludes nothing the journal does not bear   *)
(* out.  PeerJoin, for any operations, entries and connections: one         *)
(* membership, whose receipts can be recovered and which leaves nothing.    *)
(* PeerExport, for any Rooms and any lengths of the histories: what is      *)
(* effective is a decision of both sides.                                   *)
(***************************************************************************)
EXTENDS PeerParts, FiniteSetTheorems, WellFoundedInduction, TLAPS

-----------------------------------------------------------------------------
(* The inductive invariant of a Run                                        *)
(*                                                                         *)
(* Journal and Host are changed by either goroutine, by requests and by    *)
(* timers, so what is known of them is stated of the records themselves,   *)
(* and what a position of a goroutine is worth of the position and them.   *)

Event == {"delivered", "working"} \cup Known
Ending == {"none", "delivery_denied", "outcome_unknown"} \cup Known
Position == {"idle", "flush", "posted", "admit", "queue", "claim", "run", "recover",
             "settle", "answered"}

HostType == [run : Live \cup Terminal \cup {"input_required"}, log : Seq(Event),
             deliv : BOOLEAN, settled : Ending,
             cancel : {"none", "requester", "authorization_lost", "deadline"}, due : BOOLEAN]
JournalType == [received : BOOLEAN, started : BOOLEAN, outcome : Ending, last : Nat,
                events : Seq(Event), acked : Nat, settlement : Ending, receipt : BOOLEAN]
ProcType == [pc : Position, cont : {"none", "begin", "run", "settle"}, i : Nat, n : Nat]

PeerType ==
  /\ host \in HostType /\ rights \in {"current", "stale", "revoked"}
  /\ local \in {"active", "left"} /\ jr \in JournalType
  /\ ps \in [Procs -> ProcType]
  /\ live \in BOOLEAN /\ conn \in BOOLEAN /\ up \in BOOLEAN
  /\ child \in {"none", "running", "stopped"} /\ final \in {"none"} \cup Known
  /\ spawns \in Nat /\ deaths \in 0..MaxDeaths /\ emits \in 0..MaxEmits

\* The journal j of a Run that the Participant has started as process c, n times: a
\* denial is of a Run that never starts, the final event is the retained outcome, and so
\* is the settlement, and a known outcome is of a process that is gone.
JournalOK(j, c, n) ==
  /\ n <= 1
  /\ n > 0 \/ c # "none" => j.started
  /\ j.started \/ j.outcome # "none" => j.received
  /\ j.outcome = "delivery_denied" => ~j.started
  /\ j.last > 0 => j.outcome \in Known
  /\ \A k \in 1..Len(j.events) : j.events[k] \in Known => j.events[k] = j.outcome
  /\ j.settlement # "none" => j.settlement = j.outcome /\ j.outcome # "input_required"
  /\ j.outcome \in Known \cup {"delivery_denied"} => c # "running"

\* The log of the Host is a part of the journal j, and what the Host concludes of a Run
\* it delivered has its reason there.
HostOK(h, j) ==
  /\ j.received => h.deliv
  /\ Len(h.log) <= Len(j.events) /\ \A k \in 1..Len(h.log) : h.log[k] = j.events[k]
  /\ j.acked <= Len(h.log)
  /\ h.deliv /\ h.run \in Terminal \ {"outcome_unknown"}
       => /\ j.outcome # "none"
          /\ h.run = j.outcome \/ j.outcome \in {"input_required", "delivery_denied"}
  /\ h.run = "input_required" => j.outcome = "input_required"
  /\ h.settled # "none" => h.settled = j.outcome

Reports(q) == q.pc \in {"flush", "posted"}

\* What the position q of either goroutine says of the journal and the Host.
ProcOK(q, j, h) ==
  /\ q.pc # "idle" => j.received
  /\ Reports(q) => q.cont # "none" /\ q.i > 0 /\ q.n <= Len(j.events)
  /\ q.pc = "posted" => q.i <= Len(h.log)
  /\ Reports(q) /\ q.cont = "settle" => j.outcome # "none"
  /\ q.pc = "settle" => j.settlement # "none"

\* Before the claim nothing was started, and an execution has no outcome yet.
WorkerOK(q, j) ==
  /\ q.pc \in {"admit", "queue", "claim"} \/ (Reports(q) /\ q.cont = "begin") => ~j.started
  /\ q.pc = "run" \/ (Reports(q) /\ q.cont = "run") => j.started /\ j.outcome = "none"

\* The sweeper only reports.
SweeperOK(q) ==
  /\ q.pc \in {"idle", "recover", "flush", "posted", "settle", "answered"}
  /\ Reports(q) => q.cont = "settle"

Places ==
  /\ \A p \in Procs : ProcOK(ps[p], jr, host)
  /\ WorkerOK(ps["worker"], jr)
  /\ SweeperOK(ps["sweeper"])

PeerInv == PeerType /\ JournalOK(jr, child, spawns) /\ HostOK(host, jr) /\ Places

-----------------------------------------------------------------------------
(* The journal *)

\* What no step takes back of a journal.
Grows(j, k) ==
  /\ j.received => k.received
  /\ j.outcome # "none" => k.outcome = j.outcome
  /\ j.settlement # "none" => k.settlement = j.settlement
  /\ Len(j.events) <= Len(k.events)
  /\ \A m \in 1..Len(j.events) : k.events[m] = j.events[m]

\* A change of the journal that starts nothing and ends no execution.
Calm(j, k) ==
  /\ k.started = j.started
  /\ j.started /\ j.outcome = "none" => k.outcome = "none"

\* A journal grows from itself.
LEMMA GrowsReflexive ==
  ASSUME NEW j \in JournalType
  PROVE  Grows(j, j) /\ Calm(j, j)
BY DEF Grows, Calm, JournalType

\* What the Host has of a journal it has of every later one.
LEMMA HostGrows ==
  ASSUME NEW h \in HostType, NEW j \in JournalType, NEW k \in JournalType, HostOK(h, j), Grows(j, k),
         k.received => h.deliv, k.acked <= Len(h.log)
  PROVE  HostOK(h, k)
<1>1. Len(h.log) \in Nat /\ Len(j.events) \in Nat /\ Len(k.events) \in Nat
  BY DEF HostType, JournalType
<1>2. Len(h.log) <= Len(k.events) /\ \A m \in 1..Len(h.log) : h.log[m] = k.events[m]
  BY <1>1 DEF HostOK, Grows
<1>3. j.outcome # "none" => k.outcome = j.outcome
  BY DEF Grows
<1>4. h.settled # "none" => h.settled = k.outcome
  BY <1>3 DEF HostOK
<1>5. h.run = "input_required" => k.outcome = "input_required"
  BY <1>3 DEF HostOK
<1>6. h.deliv /\ h.run \in Terminal \ {"outcome_unknown"}
       => /\ k.outcome # "none"
          /\ h.run = k.outcome \/ k.outcome \in {"input_required", "delivery_denied"}
  BY <1>3 DEF HostOK
<1> QED
  BY <1>2, <1>4, <1>5, <1>6 DEF HostOK

\* Finish of a Run whose process is gone, or of one whose outcome is unknown.
LEMMA FinishKeeps ==
  ASSUME jr \in JournalType, NEW c, NEW s \in Ending \ {"none"}, JournalOK(jr, child, spawns),
         jr.received, c # "none" => jr.started,
         c = "running" => child = "running" /\ s \in {"outcome_unknown", "delivery_denied"}
  PROVE  /\ Finish(s) \in JournalType
         /\ Grows(jr, Finish(s)) /\ Finish(s).started = jr.started
         /\ Finish(s).acked = jr.acked /\ Finish(s).received = jr.received
         /\ JournalOK(Finish(s), c, spawns)
<1> DEFINE k == Finish(s)
<1>1. CASE jr.outcome # "none" \/ (s = "delivery_denied" /\ jr.started)
  <2>1. k = jr
    BY <1>1 DEF Finish
  <2>2. JournalOK(jr, c, spawns)
    BY DEF JournalOK
  <2> QED
    BY <2>1, <2>2, GrowsReflexive
<1>2. CASE ~(jr.outcome # "none" \/ (s = "delivery_denied" /\ jr.started))
  <2> DEFINE l == IF s \in Known THEN Len(jr.events) + 1 ELSE 0
  <2>1. k = [jr EXCEPT !.outcome = s, !.last = l]
    BY <1>2 DEF Finish
  <2>2. Len(jr.events) \in Nat /\ l \in Nat /\ (l > 0 => s \in Known)
    BY DEF JournalType
  <2> HIDE DEF k, l
  <2>3. k \in JournalType
    BY <2>1, <2>2 DEF JournalType
  <2>4. /\ k.outcome = s /\ k.started = jr.started /\ k.acked = jr.acked
        /\ k.received = jr.received /\ k.events = jr.events /\ k.settlement = jr.settlement
        /\ k.last > 0 => s \in Known
    BY <2>1, <2>2 DEF JournalType
  <2>5. jr.outcome = "none" /\ (s = "delivery_denied" => ~jr.started)
    BY <1>2
  <2>6. Grows(jr, k)
    BY <2>2, <2>4, <2>5 DEF Grows
  <2>7. \A m \in 1..Len(k.events) : k.events[m] \in Known => k.events[m] = k.outcome
    <3>1. "none" \notin Known
      BY DEF Known
    <3> QED
      BY <2>4, <2>5, <3>1 DEF JournalOK
  <2>8. k.settlement = "none"
    BY <2>4, <2>5 DEF JournalOK
  <2>9. s \in Known \cup {"delivery_denied"} => c # "running"
    BY <2>5 DEF Known
  <2>10. JournalOK(k, c, spawns)
    BY <2>4, <2>5, <2>7, <2>8, <2>9 DEF JournalOK
  <2> QED
    BY <2>3, <2>4, <2>6, <2>10 DEF k
<1> QED
  BY <1>1, <1>2

\* An event is appended; a final one is the retained outcome.
LEMMA AppendKeeps ==
  ASSUME jr \in JournalType, JournalOK(jr, child, spawns), NEW e \in Event,
         e \in Known => e = jr.outcome
  PROVE  /\ AppendEvent(e) \in JournalType
         /\ Grows(jr, AppendEvent(e)) /\ Calm(jr, AppendEvent(e))
         /\ AppendEvent(e).acked = jr.acked /\ AppendEvent(e).received = jr.received
         /\ AppendEvent(e).outcome = jr.outcome
         /\ JournalOK(AppendEvent(e), child, spawns)
<1> DEFINE k == AppendEvent(e)
           s == Append(jr.events, e)
<1>1. k = [jr EXCEPT !.events = s]
  BY DEF AppendEvent
<1>2. jr.events \in Seq(Event) /\ Len(jr.events) \in Nat
  BY DEF JournalType
<1>3. /\ s \in Seq(Event) /\ Len(s) = Len(jr.events) + 1 /\ s[Len(jr.events) + 1] = e
      /\ \A m \in 1..Len(jr.events) : s[m] = jr.events[m]
  BY <1>2
<1> HIDE DEF k, s
<1>4. k \in JournalType
  BY <1>1, <1>3 DEF JournalType
<1>5. /\ k.outcome = jr.outcome /\ k.started = jr.started /\ k.acked = jr.acked /\ k.last = jr.last
      /\ k.received = jr.received /\ k.events = s /\ k.settlement = jr.settlement
  BY <1>1 DEF JournalType
<1>6. Grows(jr, k) /\ Calm(jr, k)
  BY <1>2, <1>3, <1>5 DEF Grows, Calm
<1>7. \A m \in 1..Len(s) : s[m] \in Known => s[m] = jr.outcome
  <2> SUFFICES ASSUME NEW m \in 1..Len(s), s[m] \in Known
               PROVE  s[m] = jr.outcome
    OBVIOUS
  <2>1. CASE m = Len(jr.events) + 1
    BY <1>3, <2>1
  <2>2. CASE m # Len(jr.events) + 1
    <3>1. m \in 1..Len(jr.events)
      BY <1>2, <1>3, <2>2
    <3> QED
      BY <1>3, <3>1 DEF JournalOK
  <2> QED
    BY <2>1, <2>2
<1>8. JournalOK(k, child, spawns)
  BY <1>5, <1>7 DEF JournalOK
<1> QED
  BY <1>4, <1>5, <1>6, <1>8 DEF k

\* An outcome that is not a question becomes the settlement.
LEMMA PrepareKeeps ==
  ASSUME jr \in JournalType, JournalOK(jr, child, spawns), jr.outcome \notin {"none", "input_required"}
  PROVE  /\ PrepareSettlement \in JournalType
         /\ Grows(jr, PrepareSettlement) /\ Calm(jr, PrepareSettlement)
         /\ PrepareSettlement.acked = jr.acked /\ PrepareSettlement.received = jr.received
         /\ PrepareSettlement.settlement # "none"
         /\ JournalOK(PrepareSettlement, child, spawns)
<1> DEFINE k == PrepareSettlement
           s == IF jr.settlement = "none" THEN jr.outcome ELSE jr.settlement
<1>1. k = [jr EXCEPT !.settlement = s]
  BY DEF PrepareSettlement
<1>2. s = jr.outcome /\ s \in Ending /\ s # "none" /\ (jr.settlement # "none" => s = jr.settlement)
  BY DEF JournalType, JournalOK
<1> HIDE DEF k, s
<1>3. k \in JournalType
  BY <1>1, <1>2 DEF JournalType
<1>4. /\ k.outcome = jr.outcome /\ k.started = jr.started /\ k.acked = jr.acked /\ k.last = jr.last
      /\ k.received = jr.received /\ k.events = jr.events /\ k.settlement = s
  BY <1>1 DEF JournalType
<1>5. Len(jr.events) \in Nat
  BY DEF JournalType
<1>6. Grows(jr, k) /\ Calm(jr, k)
  BY <1>2, <1>4, <1>5 DEF Grows, Calm
<1>7. JournalOK(k, child, spawns)
  BY <1>2, <1>4 DEF JournalOK
<1> QED
  BY <1>2, <1>3, <1>4, <1>6, <1>7 DEF k

\* What the Host has committed is acknowledged.
LEMMA AcknowledgeKeeps ==
  ASSUME jr \in JournalType, host \in HostType, JournalOK(jr, child, spawns), HostOK(host, jr),
         NEW q \in Nat, q <= Len(host.log)
  PROVE  /\ AcknowledgeEvent(q) \in JournalType
         /\ Grows(jr, AcknowledgeEvent(q)) /\ Calm(jr, AcknowledgeEvent(q))
         /\ AcknowledgeEvent(q).acked <= Len(host.log)
         /\ AcknowledgeEvent(q).received = jr.received
         /\ JournalOK(AcknowledgeEvent(q), child, spawns)
<1> DEFINE k == AcknowledgeEvent(q)
           a == IF q > jr.acked THEN q ELSE jr.acked
<1>1. k = [jr EXCEPT !.acked = a]
  BY DEF AcknowledgeEvent
<1>2. a \in Nat /\ a <= Len(host.log)
  BY DEF JournalType, HostOK
<1> HIDE DEF k, a
<1>3. k \in JournalType
  BY <1>1, <1>2 DEF JournalType
<1>4. /\ k.outcome = jr.outcome /\ k.started = jr.started /\ k.acked = a /\ k.last = jr.last
      /\ k.received = jr.received /\ k.events = jr.events /\ k.settlement = jr.settlement
  BY <1>1 DEF JournalType
<1>5. Len(jr.events) \in Nat
  BY DEF JournalType
<1>6. Grows(jr, k) /\ Calm(jr, k)
  BY <1>4, <1>5 DEF Grows, Calm
<1>7. JournalOK(k, child, spawns)
  BY <1>4 DEF JournalOK
<1> QED
  BY <1>2, <1>3, <1>4, <1>6, <1>7 DEF k

-----------------------------------------------------------------------------
(* The Host *)

\* The log of the Host only grows, and an end stands.
HostGoesOn(h, g) ==
  /\ Len(h.log) <= Len(g.log)
  /\ h.run \in Terminal => g.run = h.run

\* cancelKnown ends a Run that was not delivered or whose question nobody answers.
LEMMA CancelKeeps ==
  ASSUME host \in HostType, HostOK(host, jr), NEW cause \in {"requester", "deadline", "authorization_lost"}
  PROVE  /\ cancelKnown(host, cause) \in HostType
         /\ HostOK(cancelKnown(host, cause), jr)
         /\ HostGoesOn(host, cancelKnown(host, cause))
<1> DEFINE g == cancelKnown(host, cause)
<1>0. Len(host.log) \in Nat
  BY DEF HostType
<1>1. CASE host.run \in Terminal
  BY <1>0, <1>1 DEF cancelKnown, HostGoesOn
<1>2. CASE host.run \notin Terminal /\ (~host.deliv \/ host.run = "input_required")
  <2>1. EndOf[cause] \in {"canceled", "expired", "failed"}
    BY DEF EndOf
  <2>2. g = [host EXCEPT !.run = EndOf[cause]]
    BY <1>2 DEF cancelKnown
  <2> HIDE DEF g
  <2>3. g \in HostType
    BY <2>1, <2>2 DEF HostType, Terminal
  <2>4. g.run = EndOf[cause] /\ g.log = host.log /\ g.deliv = host.deliv /\ g.settled = host.settled
    BY <2>2 DEF HostType
  <2>5. HostGoesOn(host, g)
    BY <1>0, <1>2, <2>4 DEF HostGoesOn
  <2>6. HostOK(g, jr)
    BY <1>2, <2>1, <2>4 DEF HostOK
  <2> QED
    BY <2>3, <2>5, <2>6 DEF g
<1>3. CASE host.run \notin Terminal /\ ~(~host.deliv \/ host.run = "input_required")
  <2> DEFINE c == IF host.cancel = "none" THEN cause ELSE host.cancel
  <2>1. c \in {"none", "requester", "authorization_lost", "deadline"}
    BY DEF HostType
  <2>2. g = [host EXCEPT !.cancel = c]
    BY <1>3 DEF cancelKnown
  <2> HIDE DEF g, c
  <2>3. g \in HostType
    BY <2>1, <2>2 DEF HostType
  <2>4. g.run = host.run /\ g.log = host.log /\ g.deliv = host.deliv /\ g.settled = host.settled
    BY <2>2 DEF HostType
  <2>5. HostGoesOn(host, g) /\ HostOK(g, jr)
    BY <1>0, <2>4 DEF HostGoesOn, HostOK
  <2> QED
    BY <2>3, <2>5 DEF g
<1> QED
  BY <1>1, <1>2, <1>3

\* The Host commits the next event of the journal, or answers for one it has.
LEMMA EventKeeps ==
  ASSUME host \in HostType, jr \in JournalType, HostOK(host, jr), JournalOK(jr, child, spawns),
         NEW q \in 1..Len(jr.events)
  PROVE  /\ event(q).host \in HostType
         /\ HostOK(event(q).host, jr)
         /\ HostGoesOn(host, event(q).host)
         /\ event(q).ok => q <= Len(event(q).host.log)
<1> DEFINE g == event(q).host
<1>0. host.log \in Seq(Event) /\ Len(host.log) \in Nat /\ jr.events \in Seq(Event) /\ Len(jr.events) \in Nat
  BY DEF HostType, JournalType
<1>1. CASE q <= Len(host.log)
  <2>1. g = host
    BY <1>1 DEF event
  <2> QED
    BY <1>0, <1>1, <2>1 DEF HostGoesOn
<1>2. CASE q > Len(host.log) /\ Current /\ q = Len(host.log) + 1 /\ Applies(jr.events[q])
  <2> DEFINE e == jr.events[q]
             s == Append(host.log, e)
  <2>1. g = [host EXCEPT !.run = e, !.log = s]
    BY <1>0, <1>2 DEF event
  <2>2. e \in Event
    BY <1>0
  <2>3. /\ s \in Seq(Event) /\ Len(s) = Len(host.log) + 1 /\ s[Len(host.log) + 1] = e
        /\ \A m \in 1..Len(host.log) : s[m] = host.log[m]
    BY <1>0, <2>2
  <2>4. host.run \in Live
    BY <1>2 DEF Current
  <2>5. e \in Known => e = jr.outcome
    BY DEF JournalOK
  <2>6. \A m \in 1..Len(s) : s[m] = jr.events[m]
    BY <1>0, <1>2, <2>3 DEF HostOK
  <2> HIDE DEF g, s, e
  <2>7. g \in HostType
    BY <2>1, <2>2, <2>3 DEF HostType, Event, Known, Live, Terminal
  <2>8. g.run = e /\ g.log = s /\ g.deliv = host.deliv /\ g.settled = host.settled
    BY <2>1 DEF HostType
  <2>9. HostGoesOn(host, g)
    BY <1>0, <2>3, <2>4, <2>8 DEF HostGoesOn, Live, Terminal
  <2>10. e \in Terminal \cup {"input_required"} => e = jr.outcome /\ e # "none"
    BY <2>2, <2>5 DEF Event, Known, Terminal
  <2>11. HostOK(g, jr)
    <3>1. Len(s) <= Len(jr.events) /\ jr.acked <= Len(s)
      BY <1>0, <1>2, <2>3 DEF HostOK, JournalType
    <3> QED
      BY <2>6, <2>8, <2>10, <3>1 DEF HostOK
  <2>12. q <= Len(g.log)
    BY <1>2, <1>0, <2>3, <2>8
  <2> QED
    BY <2>7, <2>9, <2>11, <2>12 DEF g
<1>3. CASE q > Len(host.log) /\ ~(Current /\ q = Len(host.log) + 1 /\ Applies(jr.events[q]))
  <2>1. g = host /\ event(q).ok = FALSE
    BY <1>0, <1>3 DEF event
  <2> QED
    BY <1>0, <2>1 DEF HostGoesOn
<1> QED
  BY <1>0, <1>1, <1>2, <1>3

\* One settlement is retained, the journal's.
LEMMA SettleKeeps ==
  ASSUME host \in HostType, jr \in JournalType, HostOK(host, jr), JournalOK(jr, child, spawns),
         jr.settlement # "none"
  PROVE  /\ settle(jr.settlement) \in HostType
         /\ HostOK(settle(jr.settlement), jr)
         /\ HostGoesOn(host, settle(jr.settlement))
<1> DEFINE g == settle(jr.settlement)
           s == jr.settlement
<1>0. /\ Len(host.log) \in Nat /\ s \in Ending /\ s = jr.outcome /\ s # "none" /\ s # "input_required"
  BY DEF HostType, JournalType, JournalOK
<1>1. CASE host.settled # "none"
  BY <1>0, <1>1 DEF settle, HostGoesOn
<1>2. CASE host.settled = "none"
  <2> DEFINE r == IF host.run \in Terminal THEN host.run
                  ELSE IF s # "delivery_denied" THEN s
                  ELSE IF host.cancel = "none" THEN "failed" ELSE EndOf[host.cancel]
  <2>1. g = [host EXCEPT !.settled = s, !.run = r]
    BY <1>2 DEF settle
  <2>2. host.cancel # "none" => EndOf[host.cancel] \in {"canceled", "expired", "failed"}
    BY DEF HostType, EndOf
  <2>3. /\ host.run \in Terminal => r = host.run
        /\ host.run \notin Terminal =>
              r \in Terminal /\ (r = s \/ s = "delivery_denied")
    BY <1>0, <2>2 DEF Ending, Known, Terminal
  <2>4. r \in Terminal
    BY <2>3
  <2> HIDE DEF g, r
  <2>5. g \in HostType
    BY <1>0, <2>1, <2>4 DEF HostType
  <2>6. g.run = r /\ g.log = host.log /\ g.deliv = host.deliv /\ g.settled = s
    BY <2>1 DEF HostType
  <2>7. HostGoesOn(host, g)
    BY <1>0, <2>3, <2>6 DEF HostGoesOn
  <2>8. HostOK(g, jr)
    <3>1. r # "input_required"
      BY <2>4 DEF Terminal
    <3> QED
      BY <1>0, <2>3, <2>6, <3>1 DEF HostOK
  <2> QED
    BY <2>5, <2>7, <2>8 DEF g
<1> QED
  BY <1>1, <1>2

-----------------------------------------------------------------------------
(* Goroutines *)

\* What a position says stays true of a journal that grows.
LEMMA PlaceStays ==
  ASSUME NEW q \in ProcType, NEW j \in JournalType, NEW k \in JournalType,
         NEW h \in HostType, NEW g \in HostType,
         ProcOK(q, j, h), Grows(j, k), Len(h.log) <= Len(g.log)
  PROVE  ProcOK(q, k, g)
<1>1. /\ Len(h.log) \in Nat /\ Len(g.log) \in Nat /\ Len(j.events) \in Nat /\ Len(k.events) \in Nat
      /\ q.i \in Nat /\ q.n \in Nat
  BY DEF HostType, JournalType, ProcType
<1>2. Reports(q) => q.n <= Len(k.events)
  BY <1>1 DEF ProcOK, Grows
<1>3. q.pc = "posted" => q.i <= Len(g.log)
  BY <1>1 DEF ProcOK
<1> QED
  BY <1>2, <1>3 DEF ProcOK, Grows

\* No goroutine moves, and nothing is started or ended.
LEMMA PlacesStay ==
  ASSUME PeerInv, ps' = ps, jr' \in JournalType, host' \in HostType,
         Grows(jr, jr'), Calm(jr, jr'), Len(host.log) <= Len(host'.log)
  PROVE  Places' /\ ps' \in [Procs -> ProcType]
<1>1. /\ jr \in JournalType /\ host \in HostType /\ ps \in [Procs -> ProcType]
      /\ "worker" \in Procs /\ "sweeper" \in Procs
  BY DEF PeerInv, PeerType, Procs
<1>2. ASSUME NEW p \in Procs
      PROVE  ProcOK(ps[p], jr', host')
  BY <1>1, PlaceStays DEF PeerInv, Places
<1>3. WorkerOK(ps["worker"], jr')
  BY DEF PeerInv, Places, WorkerOK, Calm
<1>4. SweeperOK(ps["sweeper"])
  BY DEF PeerInv, Places
<1> QED
  BY <1>1, <1>2, <1>3, <1>4 DEF Places

\* A goroutine moves to a position that says the truth.
LEMMA PlacesMove ==
  ASSUME PeerInv, NEW p \in Procs, NEW q \in ProcType, ps' = [ps EXCEPT ![p] = q],
         jr' \in JournalType, host' \in HostType,
         Grows(jr, jr'), Len(host.log) <= Len(host'.log),
         ProcOK(q, jr', host'),
         p = "worker" => WorkerOK(q, jr'),
         p = "sweeper" => SweeperOK(q) /\ Calm(jr, jr')
  PROVE  Places' /\ ps' \in [Procs -> ProcType]
<1>1. /\ jr \in JournalType /\ host \in HostType /\ ps \in [Procs -> ProcType]
      /\ "worker" \in Procs /\ "sweeper" \in Procs /\ "worker" # "sweeper"
  BY DEF PeerInv, PeerType, Procs
<1>2. ps' \in [Procs -> ProcType] /\ ps'[p] = q /\ \A x \in Procs : x # p => ps'[x] = ps[x]
  BY <1>1
<1>3. ASSUME NEW x \in Procs
      PROVE  ProcOK(ps'[x], jr', host')
  <2>1. CASE x = p
    BY <1>2, <2>1
  <2>2. CASE x # p
    <3>1. ps'[x] = ps[x] /\ ps[x] \in ProcType /\ ProcOK(ps[x], jr, host)
      BY <1>1, <1>2, <2>2 DEF PeerInv, Places
    <3>2. ProcOK(ps[x], jr', host')
      BY <1>1, <3>1, PlaceStays
    <3> QED
      BY <3>1, <3>2
  <2> QED
    BY <2>1, <2>2
<1>4. CASE p = "worker"
  <2>1. ps'["worker"] = q /\ ps'["sweeper"] = ps["sweeper"]
    BY <1>1, <1>2, <1>4
  <2>2. SweeperOK(ps["sweeper"])
    BY DEF PeerInv, Places
  <2> QED
    BY <1>2, <1>3, <1>4, <2>1, <2>2 DEF Places
<1>5. CASE p = "sweeper"
  <2>1. ps'["sweeper"] = q /\ ps'["worker"] = ps["worker"]
    BY <1>1, <1>2, <1>5
  <2>2. WorkerOK(ps["worker"], jr')
    BY <1>5 DEF PeerInv, Places, WorkerOK, Calm
  <2> QED
    BY <1>2, <1>3, <1>5, <2>1, <2>2 DEF Places
<1> QED
  BY <1>4, <1>5 DEF Procs

\* A goroutine goes on to a position outside a flush.
LEMMA GoesTo ==
  ASSUME PeerInv, NEW p \in Procs, NEW x \in Position \ {"idle", "flush", "posted"}, To(p, x),
         jr' \in JournalType, host' \in HostType,
         Grows(jr, jr'), Len(host.log) <= Len(host'.log), jr'.received,
         x = "settle" => jr'.settlement # "none",
         x \in {"admit", "queue", "claim"} => ~jr'.started,
         x = "run" => jr'.started /\ jr'.outcome = "none",
         p = "sweeper" => x \in {"recover", "settle", "answered"} /\ Calm(jr, jr')
  PROVE  Places' /\ ps' \in [Procs -> ProcType]
<1> DEFINE q == [ps[p] EXCEPT !.pc = x]
<1>1. ps \in [Procs -> ProcType] /\ ps[p] \in ProcType
  BY DEF PeerInv, PeerType
<1>2. ps' = [ps EXCEPT ![p] = q]
  BY <1>1 DEF To
<1>3. q \in ProcType /\ q.pc = x
  BY <1>1 DEF ProcType
<1> HIDE DEF q
<1>4. ~Reports(q)
  BY <1>3 DEF Reports
<1>5. ProcOK(q, jr', host')
  BY <1>3, <1>4 DEF ProcOK
<1>6. WorkerOK(q, jr')
  BY <1>3, <1>4 DEF WorkerOK
<1>7. p = "sweeper" => SweeperOK(q)
  BY <1>3, <1>4 DEF SweeperOK
<1> QED
  BY <1>2, <1>3, <1>5, <1>6, <1>7, PlacesMove

\* A goroutine ends.
LEMMA Stops ==
  ASSUME PeerInv, NEW p \in Procs, Stop(p), jr' \in JournalType, host' \in HostType,
         Grows(jr, jr'), Len(host.log) <= Len(host'.log),
         p = "sweeper" => Calm(jr, jr')
  PROVE  Places' /\ ps' \in [Procs -> ProcType]
<1>1. Idle \in ProcType /\ Idle.pc = "idle" /\ ps' = [ps EXCEPT ![p] = Idle]
  BY DEF Idle, ProcType, Position, Stop
<1>2. ~Reports(Idle)
  BY <1>1 DEF Reports
<1>3. ProcOK(Idle, jr', host') /\ WorkerOK(Idle, jr') /\ SweeperOK(Idle)
  BY <1>1, <1>2 DEF ProcOK, WorkerOK, SweeperOK
<1> QED
  BY <1>1, <1>3, PlacesMove

\* A goroutine starts to send what is not acknowledged of the journal.
LEMMA Flushes ==
  ASSUME PeerInv, NEW p \in Procs, NEW c \in {"begin", "run", "settle"}, StartFlush(p, c, jr'),
         jr' \in JournalType, host' \in HostType,
         Grows(jr, jr'), Len(host.log) <= Len(host'.log), jr'.received,
         c = "begin" => ~jr'.started,
         c = "run" => jr'.started /\ jr'.outcome = "none",
         c = "settle" => jr'.outcome # "none",
         p = "sweeper" => c = "settle" /\ Calm(jr, jr')
  PROVE  Places' /\ ps' \in [Procs -> ProcType]
<1> DEFINE q == [pc |-> "flush", cont |-> c, i |-> jr'.acked + 1, n |-> Len(jr'.events)]
<1>1. ps' = [ps EXCEPT ![p] = q]
  BY DEF StartFlush
<1>2. jr'.acked \in Nat /\ Len(jr'.events) \in Nat
  BY DEF JournalType
<1>3. q \in ProcType
  BY <1>2 DEF ProcType, Position
<1>4. q.pc = "flush" /\ q.cont = c /\ q.i > 0 /\ q.n = Len(jr'.events)
  BY <1>2
<1> HIDE DEF q
<1>5. Reports(q)
  BY <1>4 DEF Reports
<1>6. ProcOK(q, jr', host')
  BY <1>2, <1>4, <1>5 DEF ProcOK
<1>7. WorkerOK(q, jr')
  BY <1>4, <1>5 DEF WorkerOK
<1>8. p = "sweeper" => SweeperOK(q)
  BY <1>4, <1>5 DEF SweeperOK
<1> QED
  BY <1>1, <1>3, <1>6, <1>7, <1>8, PlacesMove

-----------------------------------------------------------------------------
(* Reporting, by either goroutine *)

\* What a step of a goroutine leaves of journal, Host and positions.
Sound ==
  /\ jr \in JournalType /\ host \in HostType /\ ps \in [Procs -> ProcType]
  /\ JournalOK(jr, child, spawns) /\ HostOK(host, jr) /\ Places

\* The parts that most steps leave typed as they were.
Rest ==
  /\ rights \in {"current", "stale", "revoked"} /\ local \in {"active", "left"}
  /\ live \in BOOLEAN /\ conn \in BOOLEAN /\ up \in BOOLEAN
  /\ child \in {"none", "running", "stopped"} /\ final \in {"none"} \cup Known
  /\ spawns \in Nat /\ deaths \in 0..MaxDeaths /\ emits \in 0..MaxEmits

\* The invariant is these two parts.
LEMMA Parts == Sound' /\ Rest' => PeerInv'
BY DEF PeerInv, PeerType, Sound, Rest

\* A position of a goroutine, its type and what it says.
LEMMA Place ==
  ASSUME PeerInv, NEW p \in Procs
  PROVE  /\ p \in {"worker", "sweeper"}
         /\ ps[p] \in ProcType /\ ProcOK(ps[p], jr, host)
         /\ p = "worker" => WorkerOK(ps[p], jr)
         /\ p = "sweeper" => SweeperOK(ps[p])
BY DEF PeerInv, PeerType, Places, Procs

\* The Host went on, and the journal with the positions grew to k.
LEMMA JournalMoves ==
  ASSUME PeerInv, jr' \in JournalType, JournalOK(jr', child', spawns'), Grows(jr, jr'),
         host' \in HostType, HostOK(host', jr), jr'.received => host'.deliv,
         jr'.acked <= Len(host'.log), Places' /\ ps' \in [Procs -> ProcType]
  PROVE  Sound'
<1>1. HostOK(host', jr')
  BY HostGrows DEF PeerInv, PeerType
<1> QED
  BY <1>1 DEF Sound

\* A flush that failed.
LEMMA FlushedKeeps ==
  ASSUME PeerInv, NEW p \in Procs, NEW d \in BOOLEAN, ps[p].pc = "flush", Flushed(p, d),
         host' \in HostType, HostOK(host', jr), HostGoesOn(host, host'),
         child' = child, spawns' = spawns
  PROVE  Sound'
<1>p. /\ ps[p] \in ProcType /\ ProcOK(ps[p], jr, host)
      /\ p = "worker" => WorkerOK(ps[p], jr)
      /\ p = "sweeper" => SweeperOK(ps[p])
      /\ p \in {"worker", "sweeper"}
  BY Place
<1>0. /\ jr \in JournalType /\ host \in HostType /\ JournalOK(jr, child, spawns)
      /\ Len(host.log) <= Len(host'.log) /\ jr.received /\ Reports(ps[p])
      /\ jr.acked <= Len(host'.log) /\ host'.deliv
  BY <1>p DEF PeerInv, PeerType, ProcOK, HostOK, HostGoesOn, Reports
<1>1. Grows(jr, jr) /\ Calm(jr, jr)
  BY <1>0, GrowsReflexive
<1>2. {"run", "recover", "settle"} \subseteq Position \ {"idle", "flush", "posted"}
  BY DEF Position
<1>3. CASE Stop(p) /\ jr' = jr
  <2>1. Places' /\ ps' \in [Procs -> ProcType]
    BY <1>0, <1>1, <1>3, Stops
  <2> QED
    BY <1>0, <1>1, <1>3, <2>1, JournalMoves
<1>4. CASE ps[p].cont = "run" /\ To(p, "run") /\ jr' = jr
  <2>1. p = "worker" /\ jr.started /\ jr.outcome = "none"
    BY <1>0, <1>p, <1>4 DEF SweeperOK, WorkerOK
  <2>2. Places' /\ ps' \in [Procs -> ProcType]
    BY <1>0, <1>1, <1>2, <1>4, <2>1, GoesTo
  <2> QED
    BY <1>0, <1>1, <1>4, <2>2, JournalMoves
<1>5. CASE ps[p].cont = "begin" /\ jr' = Finish("delivery_denied") /\ To(p, "recover")
  <2>1. p = "worker" /\ ~jr.started
    BY <1>0, <1>p, <1>5 DEF SweeperOK, WorkerOK
  <2>2. child = "none"
    BY <1>0, <2>1 DEF JournalOK
  <2>3. "delivery_denied" \in Ending \ {"none"}
    BY DEF Ending
  <2>4. /\ jr' \in JournalType /\ Grows(jr, jr') /\ jr'.acked = jr.acked
        /\ jr'.received = jr.received /\ JournalOK(jr', child, spawns)
    BY <1>0, <1>5, <2>2, <2>3, FinishKeeps
  <2>5. Places' /\ ps' \in [Procs -> ProcType]
    BY <1>0, <1>2, <1>5, <2>1, <2>4, GoesTo
  <2> QED
    BY <1>0, <2>4, <2>5, JournalMoves
<1>6. CASE /\ ps[p].cont = "settle" /\ jr.outcome # "input_required"
           /\ jr' = PrepareSettlement /\ To(p, "settle")
  <2>1. jr.outcome # "none"
    BY <1>0, <1>p, <1>6 DEF ProcOK
  <2>2. /\ jr' \in JournalType /\ Grows(jr, jr') /\ Calm(jr, jr') /\ jr'.acked = jr.acked
        /\ jr'.received = jr.received /\ JournalOK(jr', child, spawns) /\ jr'.settlement # "none"
    BY <1>0, <1>6, <2>1, PrepareKeeps
  <2>3. Places' /\ ps' \in [Procs -> ProcType]
    BY <1>0, <1>2, <1>6, <2>2, GoesTo
  <2> QED
    BY <1>0, <2>2, <2>3, JournalMoves
<1> QED
  BY <1>3, <1>4, <1>5, <1>6 DEF Flushed

\* PublishRunEvent: a refusal, a lost answer, or the event committed.
LEMMA PublishKeeps ==
  ASSUME PeerInv, NEW p \in Procs, PublishRunEvent(p)
  PROVE  PeerInv' /\ HostGoesOn(host, host')
<1> DEFINE q == ps[p].i
<1>p. /\ ps[p] \in ProcType /\ ProcOK(ps[p], jr, host)
      /\ p = "worker" => WorkerOK(ps[p], jr)
      /\ p = "sweeper" => SweeperOK(ps[p])
  BY Place
<1>0. /\ jr \in JournalType /\ host \in HostType /\ JournalOK(jr, child, spawns) /\ HostOK(host, jr)
      /\ Len(jr.events) \in Nat /\ Len(host.log) \in Nat
      /\ ps[p].pc = "flush" /\ q <= ps[p].n /\ Reports(ps[p])
      /\ child' = child /\ spawns' = spawns
  BY DEF PeerInv, PeerType, PublishRunEvent, Reports, HostType, JournalType
<1>1. q \in 1..Len(jr.events)
  BY <1>p, <1>0 DEF ProcOK, ProcType
<1>2. /\ event(q).host \in HostType
      /\ HostOK(event(q).host, jr)
      /\ HostGoesOn(host, event(q).host)
      /\ event(q).ok => q <= Len(event(q).host.log)
  BY <1>0, <1>1, EventKeeps
<1>3. HostGoesOn(host, host)
  BY <1>0 DEF HostGoesOn
<1>4. (host' = host \/ host' = event(q).host) /\ live' \in BOOLEAN
  BY DEF PublishRunEvent, PeerInv, PeerType
<1>5. host' \in HostType /\ HostOK(host', jr) /\ HostGoesOn(host, host')
  BY <1>0, <1>2, <1>3, <1>4
<1>6. Rest'
  BY <1>4 DEF PublishRunEvent, Rest, PeerInv, PeerType
<1>7. CASE Flushed(p, TRUE) \/ Flushed(p, FALSE)
  <2>1. Sound'
    BY <1>0, <1>5, <1>7, FlushedKeeps
  <2> QED
    BY <1>5, <1>6, <2>1, Parts
<1>8. CASE event(q).ok /\ host' = event(q).host /\ To(p, "posted") /\ jr' = jr
  <2> DEFINE x == [ps[p] EXCEPT !.pc = "posted"]
  <2>1. ps' = [ps EXCEPT ![p] = x]
    BY <1>8 DEF To
  <2>2. x \in ProcType /\ x.pc = "posted" /\ x.cont = ps[p].cont /\ x.i = q /\ x.n = ps[p].n
    BY <1>p DEF ProcType, Position
  <2> HIDE DEF x
  <2>3. Reports(x)
    BY <2>2 DEF Reports
  <2>4. ProcOK(x, jr, host')
    BY <1>p, <1>0, <1>2, <1>8, <2>2, <2>3 DEF ProcOK
  <2>5. (p = "worker" => WorkerOK(x, jr)) /\ (p = "sweeper" => SweeperOK(x))
    BY <1>p, <1>0, <2>2, <2>3 DEF WorkerOK, SweeperOK
  <2>6. Grows(jr, jr') /\ Calm(jr, jr') /\ JournalOK(jr', child', spawns') /\ jr' \in JournalType
    BY <1>0, <1>8, GrowsReflexive
  <2>7. Len(host.log) <= Len(host'.log)
    BY <1>5 DEF HostGoesOn
  <2>8. Places' /\ ps' \in [Procs -> ProcType]
    BY <1>5, <1>8, <2>1, <2>2, <2>4, <2>5, <2>6, <2>7, PlacesMove
  <2>9. Sound'
    BY <1>5, <1>8, <2>6, <2>8 DEF Sound
  <2> QED
    BY <1>5, <1>6, <2>9, Parts
<1> QED
  BY <1>7, <1>8 DEF PublishRunEvent

\* The journal notes the answer and the flush goes on.
LEMMA AcknowledgedKeeps ==
  ASSUME PeerInv, NEW p \in Procs, Acknowledged(p)
  PROVE  PeerInv'
<1> DEFINE q == ps[p].i
           x == [ps[p] EXCEPT !.pc = "flush", !.i = q + 1]
<1>p. /\ ps[p] \in ProcType /\ ProcOK(ps[p], jr, host)
      /\ p = "worker" => WorkerOK(ps[p], jr)
      /\ p = "sweeper" => SweeperOK(ps[p])
  BY Place
<1>0. /\ jr \in JournalType /\ host \in HostType /\ JournalOK(jr, child, spawns) /\ HostOK(host, jr)
      /\ Len(host.log) \in Nat /\ ps[p].pc = "posted" /\ Reports(ps[p])
      /\ child' = child /\ spawns' = spawns /\ host' = host
  BY DEF PeerInv, PeerType, Acknowledged, Reports, HostType, hostVars
<1>1. q \in Nat /\ q <= Len(host.log)
  BY <1>p, <1>0 DEF ProcOK, ProcType
<1>2. /\ jr' \in JournalType /\ Grows(jr, jr') /\ Calm(jr, jr') /\ jr'.acked <= Len(host.log)
      /\ jr'.received = jr.received /\ JournalOK(jr', child, spawns)
  BY <1>0, <1>1, AcknowledgeKeeps DEF Acknowledged
<1>3. ps' = [ps EXCEPT ![p] = x]
  BY <1>p DEF Acknowledged, ProcType
<1>4. x \in ProcType /\ x.pc = "flush" /\ x.cont = ps[p].cont /\ x.i = q + 1 /\ x.n = ps[p].n
  <2>1. "flush" \in Position /\ q + 1 \in Nat
    BY <1>1 DEF Position
  <2> HIDE DEF q
  <2> QED
    BY <1>p, <2>1 DEF ProcType
<1> HIDE DEF x
<1>5. Reports(x)
  BY <1>4 DEF Reports
<1>6. ProcOK(x, jr, host)
  BY <1>p, <1>0, <1>1, <1>4, <1>5 DEF ProcOK
<1>7. ProcOK(x, jr', host')
  BY <1>0, <1>2, <1>4, <1>6, PlaceStays
<1>8. (p = "worker" => WorkerOK(x, jr')) /\ (p = "sweeper" => SweeperOK(x))
  BY <1>p, <1>0, <1>2, <1>4, <1>5 DEF WorkerOK, SweeperOK, Calm
<1>9. Places' /\ ps' \in [Procs -> ProcType]
  <2>1. host' \in HostType /\ Len(host.log) <= Len(host'.log)
    BY <1>0
  <2>2. x \in ProcType
    BY <1>4
  <2>3. jr' \in JournalType /\ Grows(jr, jr') /\ Calm(jr, jr')
    BY <1>2
  <2> QED
    BY <1>3, <1>7, <1>8, <2>1, <2>2, <2>3, PlacesMove
<1>10. Sound'
  BY <1>0, <1>2, <1>9, JournalMoves DEF HostOK
<1>11. Rest'
  BY DEF Acknowledged, Rest, PeerInv, PeerType, hostVars
<1> QED
  BY <1>10, <1>11, Parts

\* A flush that sent everything.
LEMMA FlushEndsKeeps ==
  ASSUME PeerInv, NEW p \in Procs, FlushEnds(p)
  PROVE  PeerInv'
<1>p. /\ ps[p] \in ProcType /\ ProcOK(ps[p], jr, host)
      /\ p = "worker" => WorkerOK(ps[p], jr)
      /\ p = "sweeper" => SweeperOK(ps[p])
      /\ p \in {"worker", "sweeper"}
  BY Place
<1>0. /\ jr \in JournalType /\ host \in HostType /\ JournalOK(jr, child, spawns) /\ HostOK(host, jr)
      /\ Len(host.log) \in Nat /\ ps[p].pc = "flush" /\ Reports(ps[p]) /\ jr.received
      /\ child' = child /\ spawns' = spawns /\ host' = host
      /\ jr.acked <= Len(host.log) /\ host.deliv
  BY <1>p DEF PeerInv, PeerType, FlushEnds, Reports, HostType, hostVars, ProcOK, HostOK
<1>1. Grows(jr, jr) /\ Calm(jr, jr)
  BY <1>0, GrowsReflexive
<1>2. {"run", "admit", "settle"} \subseteq Position \ {"idle", "flush", "posted"}
  BY DEF Position
<1>3. Rest'
  BY DEF FlushEnds, Rest, PeerInv, PeerType, hostVars
<1> SUFFICES Sound'
  BY <1>3, Parts
<1>4. CASE ps[p].cont = "begin" /\ To(p, "admit") /\ jr' = jr
  <2>1. p = "worker" /\ ~jr.started
    BY <1>0, <1>p, <1>4 DEF SweeperOK, WorkerOK
  <2>2. Places' /\ ps' \in [Procs -> ProcType]
    BY <1>0, <1>1, <1>2, <1>4, <2>1, GoesTo
  <2> QED
    BY <1>0, <1>1, <1>4, <2>2, JournalMoves
<1>5. CASE ps[p].cont = "run" /\ To(p, "run") /\ jr' = jr
  <2>1. p = "worker" /\ jr.started /\ jr.outcome = "none"
    BY <1>0, <1>p, <1>5 DEF SweeperOK, WorkerOK
  <2>2. Places' /\ ps' \in [Procs -> ProcType]
    BY <1>0, <1>1, <1>2, <1>5, <2>1, GoesTo
  <2> QED
    BY <1>0, <1>1, <1>5, <2>2, JournalMoves
<1>6. CASE Stop(p) /\ jr' = jr
  <2>1. Places' /\ ps' \in [Procs -> ProcType]
    BY <1>0, <1>1, <1>6, Stops
  <2> QED
    BY <1>0, <1>1, <1>6, <2>1, JournalMoves
<1>7. CASE /\ ps[p].cont = "settle" /\ jr.outcome # "input_required"
           /\ jr' = PrepareSettlement /\ To(p, "settle")
  <2>1. jr.outcome # "none"
    BY <1>0, <1>p, <1>7 DEF ProcOK
  <2>2. /\ jr' \in JournalType /\ Grows(jr, jr') /\ Calm(jr, jr') /\ jr'.acked = jr.acked
        /\ jr'.received = jr.received /\ JournalOK(jr', child, spawns) /\ jr'.settlement # "none"
    BY <1>0, <1>7, <2>1, PrepareKeeps
  <2>3. Places' /\ ps' \in [Procs -> ProcType]
    BY <1>0, <1>2, <1>7, <2>2, GoesTo
  <2> QED
    BY <1>0, <2>2, <2>3, JournalMoves
<1> QED
  BY <1>4, <1>5, <1>6, <1>7 DEF FlushEnds

\* recover: the retained final event joins the journal once, then what is pending is sent.
LEMMA RecoverKeeps ==
  ASSUME PeerInv, NEW p \in Procs, recover(p)
  PROVE  PeerInv'
<1>0. /\ jr \in JournalType /\ host \in HostType /\ JournalOK(jr, child, spawns) /\ HostOK(host, jr)
      /\ Len(host.log) \in Nat /\ Len(jr.events) \in Nat /\ jr.last \in Nat
      /\ child' = child /\ spawns' = spawns /\ host' = host
  BY DEF PeerInv, PeerType, recover, HostType, JournalType, hostVars
<1>1. jr.received /\ jr.acked <= Len(host.log) /\ host.deliv
  BY <1>0, Place DEF ProcOK, HostOK, recover
<1>2. Grows(jr, jr) /\ Calm(jr, jr)
  BY <1>0, GrowsReflexive
<1>3. Rest'
  BY DEF recover, Rest, PeerInv, PeerType, hostVars
<1> SUFFICES Sound'
  BY <1>3, Parts
<1>4. CASE Stop(p) /\ jr' = jr
  <2>1. Places' /\ ps' \in [Procs -> ProcType]
    BY <1>0, <1>2, <1>4, Stops
  <2> QED
    BY <1>0, <1>1, <1>2, <1>4, <2>1, JournalMoves
<1>5. CASE jr.settlement # "none" /\ To(p, "settle") /\ jr' = jr
  <2>1. "settle" \in Position \ {"idle", "flush", "posted"}
    BY DEF Position
  <2>2. Places' /\ ps' \in [Procs -> ProcType]
    BY <1>0, <1>1, <1>2, <1>5, <2>1, GoesTo
  <2> QED
    BY <1>0, <1>1, <1>2, <1>5, <2>2, JournalMoves
<1>6. CASE /\ jr.outcome # "none"
           /\ jr' = IF jr.last > Len(jr.events) THEN AppendEvent(jr.outcome) ELSE jr
           /\ StartFlush(p, "settle", jr')
  <2>1. /\ jr' \in JournalType /\ Grows(jr, jr') /\ Calm(jr, jr') /\ jr'.acked = jr.acked
        /\ jr'.received = jr.received /\ jr'.outcome = jr.outcome /\ JournalOK(jr', child, spawns)
    <3>1. CASE jr.last > Len(jr.events)
      <4>1. jr.outcome \in Known /\ jr.outcome \in Event
        BY <1>0, <3>1 DEF JournalOK, Event
      <4>2. jr' = AppendEvent(jr.outcome)
        BY <1>6, <3>1
      <4> QED
        BY <1>0, <4>1, <4>2, AppendKeeps
    <3>2. CASE ~(jr.last > Len(jr.events))
      BY <1>0, <1>2, <1>6, <3>2
    <3> QED
      BY <3>1, <3>2
  <2>2. Places' /\ ps' \in [Procs -> ProcType]
    <3>1. host' \in HostType /\ Len(host.log) <= Len(host'.log) /\ jr'.received /\ jr'.outcome # "none"
      <4>1. jr.outcome # "none"
        BY <1>6
      <4> QED
        BY <1>0, <1>1, <2>1, <4>1
    <3>2. StartFlush(p, "settle", jr')
      BY <1>6
    <3> QED
      BY <2>1, <3>1, <3>2, Flushes
  <2> QED
    BY <1>0, <1>1, <2>1, <2>2, JournalMoves
<1> QED
  BY <1>4, <1>5, <1>6 DEF recover

\* The settlement reaches the Host or not, and its answer comes or not.
LEMMA SettleRunKeeps ==
  ASSUME PeerInv, NEW p \in Procs, SettleRun(p)
  PROVE  PeerInv' /\ HostGoesOn(host, host')
<1>0. /\ jr \in JournalType /\ host \in HostType /\ JournalOK(jr, child, spawns) /\ HostOK(host, jr)
      /\ Len(host.log) \in Nat /\ jr' = jr /\ child' = child /\ spawns' = spawns
  BY DEF PeerInv, PeerType, SettleRun, HostType
<1>1. jr.received /\ jr.settlement # "none"
  BY <1>0, Place DEF ProcOK, SettleRun
<1>2. Grows(jr, jr) /\ Calm(jr, jr)
  BY <1>0, GrowsReflexive
<1>3. Rest'
  BY DEF SettleRun, Rest, PeerInv, PeerType
<1>4. host' \in HostType /\ HostOK(host', jr) /\ HostGoesOn(host, host')
  <2>1. host' = host \/ host' = settle(jr.settlement)
    BY DEF SettleRun
  <2>2. HostGoesOn(host, host)
    BY <1>0 DEF HostGoesOn
  <2> QED
    BY <1>0, <1>1, <2>1, <2>2, SettleKeeps
<1>5. Len(host.log) <= Len(host'.log)
  BY <1>4 DEF HostGoesOn
<1>6. Places' /\ ps' \in [Procs -> ProcType]
  <2>1. "answered" \in Position \ {"idle", "flush", "posted"}
    BY DEF Position
  <2>2. CASE Stop(p)
    BY <1>0, <1>2, <1>4, <1>5, <2>2, Stops
  <2>3. CASE To(p, "answered")
    BY <1>0, <1>1, <1>2, <1>4, <1>5, <2>1, <2>3, GoesTo
  <2> QED
    BY <2>2, <2>3 DEF SettleRun
<1>7. Sound'
  BY <1>0, <1>4, <1>6 DEF Sound
<1> QED
  BY <1>3, <1>4, <1>7, Parts

\* The receipt closes the record.
LEMMA AcknowledgeSettlementKeeps ==
  ASSUME PeerInv, NEW p \in Procs, AcknowledgeSettlement(p)
  PROVE  PeerInv'
<1>0. /\ jr \in JournalType /\ host \in HostType /\ JournalOK(jr, child, spawns) /\ HostOK(host, jr)
      /\ Len(host.log) \in Nat /\ Len(jr.events) \in Nat
      /\ child' = child /\ spawns' = spawns /\ host' = host
  BY DEF PeerInv, PeerType, AcknowledgeSettlement, HostType, JournalType, hostVars
<1>1. /\ jr' \in JournalType /\ jr'.outcome = jr.outcome /\ jr'.started = jr.started
      /\ jr'.acked = jr.acked /\ jr'.last = jr.last /\ jr'.received = jr.received
      /\ jr'.events = jr.events /\ jr'.settlement = jr.settlement
  BY <1>0 DEF AcknowledgeSettlement, JournalType
<1>2. Grows(jr, jr') /\ Calm(jr, jr')
  BY <1>0, <1>1 DEF Grows, Calm
<1>3. JournalOK(jr', child', spawns')
  BY <1>0, <1>1 DEF JournalOK
<1>4. Places' /\ ps' \in [Procs -> ProcType]
  <2>1. host' \in HostType /\ Len(host.log) <= Len(host'.log)
    BY <1>0
  <2>2. Stop(p)
    BY DEF AcknowledgeSettlement
  <2> QED
    BY <1>1, <1>2, <2>1, <2>2, Stops
<1>5. jr'.acked <= Len(host'.log) /\ (jr'.received => host'.deliv)
  BY <1>0, <1>1 DEF HostOK
<1>6. Sound'
  BY <1>0, <1>1, <1>2, <1>3, <1>4, <1>5, JournalMoves
<1>7. Rest'
  BY DEF AcknowledgeSettlement, Rest, PeerInv, PeerType, hostVars
<1> QED
  BY <1>6, <1>7, Parts

\* Every step of a report keeps the invariant and what the Host concluded.
LEMMA ReportKeeps ==
  ASSUME PeerInv, NEW p \in Procs, Report(p)
  PROVE  PeerInv' /\ HostGoesOn(host, host')
<1>1. HostGoesOn(host, host)
  BY DEF HostGoesOn, PeerInv, PeerType, HostType
<1>2. CASE PublishRunEvent(p)
  BY <1>2, PublishKeeps
<1>3. CASE SettleRun(p)
  BY <1>3, SettleRunKeeps
<1>4. CASE Acknowledged(p)
  <2>1. host' = host
    BY <1>4 DEF Acknowledged, hostVars
  <2> QED
    BY <1>1, <1>4, <2>1, AcknowledgedKeeps
<1>5. CASE FlushEnds(p)
  <2>1. host' = host
    BY <1>5 DEF FlushEnds, hostVars
  <2> QED
    BY <1>1, <1>5, <2>1, FlushEndsKeeps
<1>6. CASE recover(p)
  <2>1. host' = host
    BY <1>6 DEF recover, hostVars
  <2> QED
    BY <1>1, <1>6, <2>1, RecoverKeeps
<1>7. CASE AcknowledgeSettlement(p)
  <2>1. host' = host
    BY <1>7 DEF AcknowledgeSettlement, hostVars
  <2> QED
    BY <1>1, <1>7, <2>1, AcknowledgeSettlementKeeps
<1> QED
  BY <1>2, <1>3, <1>4, <1>5, <1>6, <1>7 DEF Report

-----------------------------------------------------------------------------
(* The worker *)

\* The worker goes on to x after a change of the journal.
LEMMA WorkerGoes ==
  ASSUME PeerInv, NEW x \in Position \ {"idle", "flush", "posted"}, To("worker", x),
         host' = host, jr' \in JournalType, Grows(jr, jr'), JournalOK(jr', child', spawns'),
         jr'.acked = jr.acked, jr'.received, jr.received,
         x # "settle",
         x \in {"admit", "queue", "claim"} => ~jr'.started,
         x = "run" => jr'.started /\ jr'.outcome = "none"
  PROVE  Sound'
<1>0. /\ host' \in HostType /\ HostOK(host', jr) /\ Len(host.log) \in Nat /\ "worker" \in Procs
  BY DEF PeerInv, PeerType, HostType, Procs
<1>1. Len(host.log) <= Len(host'.log) /\ jr'.acked <= Len(host'.log) /\ host'.deliv
  BY <1>0 DEF HostOK
<1>2. Places' /\ ps' \in [Procs -> ProcType]
  BY <1>0, <1>1, GoesTo
<1> QED
  BY <1>0, <1>1, <1>2, JournalMoves

\* The worker ends with the outcome s, of a process that is gone or in doubt.
LEMMA WorkerFinishes ==
  ASSUME PeerInv, NEW s \in Ending \ {"none"}, jr.received,
         jr' = Finish(s), To("worker", "recover"), host' = host, spawns' = spawns,
         child' # "none" => jr.started,
         child' = "running" => child = "running" /\ s \in {"outcome_unknown", "delivery_denied"}
  PROVE  Sound'
<1>0. jr \in JournalType /\ JournalOK(jr, child, spawns)
  BY DEF PeerInv, PeerType
<1>1. /\ jr' \in JournalType /\ Grows(jr, jr') /\ jr'.acked = jr.acked
      /\ jr'.received = jr.received /\ JournalOK(jr', child', spawns')
  <2>1. ASSUME NEW c, c # "none" => jr.started,
               c = "running" => child = "running" /\ s \in {"outcome_unknown", "delivery_denied"}
        PROVE  /\ Finish(s) \in JournalType /\ Grows(jr, Finish(s)) /\ Finish(s).acked = jr.acked
               /\ Finish(s).received = jr.received /\ JournalOK(Finish(s), c, spawns)
    BY <1>0, <2>1, FinishKeeps
  <2>2. /\ Finish(s) \in JournalType /\ Grows(jr, Finish(s)) /\ Finish(s).acked = jr.acked
        /\ Finish(s).received = jr.received /\ JournalOK(Finish(s), child', spawns)
    BY <2>1
  <2> QED
    BY <2>2
<1>2. "recover" \in Position \ {"idle", "flush", "posted"}
  BY DEF Position
<1> QED
  BY <1>1, <1>2, WorkerGoes

\* The worker starts to send, before the claim or during the execution.
LEMMA WorkerFlushes ==
  ASSUME PeerInv, NEW c \in {"begin", "run"}, StartFlush("worker", c, jr'),
         host' = host, jr' \in JournalType, Grows(jr, jr'), JournalOK(jr', child', spawns'),
         jr'.acked = jr.acked, jr'.received, jr.received,
         c = "begin" => ~jr'.started,
         c = "run" => jr'.started /\ jr'.outcome = "none"
  PROVE  Sound'
<1>0. /\ host' \in HostType /\ HostOK(host', jr) /\ Len(host.log) \in Nat /\ "worker" \in Procs
  BY DEF PeerInv, PeerType, HostType, Procs
<1>1. Len(host.log) <= Len(host'.log) /\ jr'.acked <= Len(host'.log) /\ host'.deliv
  BY <1>0 DEF HostOK
<1>2. Places' /\ ps' \in [Procs -> ProcType]
  <2>1. c \in {"begin", "run", "settle"} /\ c # "settle"
    OBVIOUS
  <2> QED
    BY <1>0, <1>1, <2>1, Flushes
<1> QED
  BY <1>0, <1>1, <1>2, JournalMoves

\* The worker stops and leaves the record alone.
LEMMA WorkerStops ==
  ASSUME PeerInv, Stop("worker"), host' = host, jr' = jr, child' = child, spawns' = spawns
  PROVE  Sound'
<1>0. /\ jr' \in JournalType /\ host' \in HostType /\ HostOK(host', jr') /\ Len(host.log) <= Len(host'.log)
      /\ "worker" \in Procs /\ JournalOK(jr', child', spawns')
  BY DEF PeerInv, PeerType, HostType, Procs
<1>1. Grows(jr, jr')
  BY <1>0, GrowsReflexive
<1>2. Places' /\ ps' \in [Procs -> ProcType]
  BY <1>0, <1>1, Stops
<1> QED
  BY <1>0, <1>2 DEF Sound

\* What the position of the worker says.
LEMMA Worker ==
  ASSUME PeerInv
  PROVE  /\ ps["worker"].pc # "idle" => jr.received
         /\ WorkerOK(ps["worker"], jr)
         /\ jr \in JournalType /\ JournalOK(jr, child, spawns)
         /\ Grows(jr, jr)
<1>1. "worker" \in Procs /\ jr \in JournalType
  BY DEF PeerInv, PeerType, Procs
<1> QED
  BY <1>1, Place, GrowsReflexive DEF PeerInv, Places, ProcOK

\* serveRuns recovers what has an outcome, gives up what was claimed, and delivers the rest.
LEMMA ServeKeeps ==
  ASSUME PeerInv, serveRuns
  PROVE  PeerInv'
<1>0. jr.received /\ host' = host /\ child' = child /\ spawns' = spawns
  BY DEF serveRuns, hostVars
<1>1. jr \in JournalType /\ JournalOK(jr, child, spawns) /\ Grows(jr, jr)
  BY Worker
<1>2. Rest'
  BY DEF serveRuns, Rest, PeerInv, PeerType, hostVars
<1> SUFFICES Sound'
  BY <1>2, Parts
<1>3. CASE To("worker", "recover") /\ jr' = jr
  <2>1. "recover" \in Position \ {"idle", "flush", "posted"}
    BY DEF Position
  <2> QED
    BY <1>0, <1>1, <1>3, <2>1, WorkerGoes
<1>4. CASE jr' = Finish("outcome_unknown") /\ To("worker", "recover")
  <2>1. "outcome_unknown" \in Ending \ {"none"}
    BY DEF Ending
  <2>2. child' # "none" => jr.started
    BY <1>0, <1>1 DEF JournalOK
  <2> QED
    BY <1>0, <1>4, <2>1, <2>2, WorkerFinishes
<1>5. CASE /\ ~jr.started
           /\ jr' = (IF jr.events = <<>> THEN AppendEvent("delivered") ELSE jr)
           /\ StartFlush("worker", "begin", jr')
  <2>1. "delivered" \in Event /\ "delivered" \notin Known
    BY DEF Event, Known
  <2>2. /\ AppendEvent("delivered") \in JournalType /\ Grows(jr, AppendEvent("delivered"))
        /\ Calm(jr, AppendEvent("delivered")) /\ AppendEvent("delivered").acked = jr.acked
        /\ AppendEvent("delivered").received = jr.received
        /\ JournalOK(AppendEvent("delivered"), child, spawns)
    BY <1>1, <2>1, AppendKeeps
  <2>3. jr' = AppendEvent("delivered") \/ jr' = jr
    BY <1>5
  <2>4. /\ jr' \in JournalType /\ Grows(jr, jr') /\ jr'.acked = jr.acked
        /\ jr'.received /\ ~jr'.started /\ JournalOK(jr', child', spawns')
    BY <1>0, <1>1, <1>5, <2>2, <2>3 DEF Calm
  <2>5. StartFlush("worker", "begin", jr')
    BY <1>5
  <2> QED
    BY <1>0, <2>4, <2>5, WorkerFlushes
<1> QED
  BY <1>3, <1>4, <1>5 DEF serveRuns

\* Before the claim nothing was started, so a denial or a cancellation ends the Run unstarted.
LEMMA RecheckKeeps ==
  ASSUME PeerInv, NEW from \in {"admit", "queue"}, NEW to \in {"queue", "claim"}, Recheck(from, to)
  PROVE  PeerInv'
<1>0. host' = host /\ child' = child /\ spawns' = spawns /\ ps["worker"].pc = from
  BY DEF Recheck, hostVars
<1>1. /\ jr \in JournalType /\ JournalOK(jr, child, spawns) /\ Grows(jr, jr)
      /\ jr.received /\ ~jr.started
  BY <1>0, Worker DEF WorkerOK
<1>2. child = "none"
  BY <1>1 DEF JournalOK
<1>3. Rest'
  BY DEF Recheck, Rest, PeerInv, PeerType, hostVars
<1> SUFFICES Sound'
  BY <1>3, Parts
<1>4. CASE To("worker", to) /\ jr' = jr
  <2>1. to \in Position \ {"idle", "flush", "posted"} /\ to # "settle" /\ to # "run"
    BY DEF Position
  <2> QED
    BY <1>0, <1>1, <1>4, <2>1, WorkerGoes
<1>5. CASE Stop("worker") /\ jr' = jr
  BY <1>0, <1>5, WorkerStops
<1>6. CASE jr' = Finish("delivery_denied") /\ To("worker", "recover")
  <2>1. "delivery_denied" \in Ending \ {"none"}
    BY DEF Ending
  <2> QED
    BY <1>0, <1>1, <1>2, <1>6, <2>1, WorkerFinishes
<1>7. CASE jr' = Finish("canceled") /\ To("worker", "recover")
  <2>1. "canceled" \in Ending \ {"none"}
    BY DEF Ending, Known
  <2> QED
    BY <1>0, <1>1, <1>2, <1>7, <2>1, WorkerFinishes
<1> QED
  BY <1>4, <1>5, <1>6, <1>7 DEF Recheck

\* The claim is the only start, and it finds nothing started.
LEMMA ClaimKeeps ==
  ASSUME PeerInv, beforeInvoke
  PROVE  PeerInv'
<1>0. host' = host /\ ps["worker"].pc = "claim"
  BY DEF beforeInvoke, hostVars
<1>1. /\ jr \in JournalType /\ JournalOK(jr, child, spawns) /\ jr.received /\ ~jr.started
      /\ Len(jr.events) \in Nat /\ spawns \in Nat
  BY <1>0, Worker DEF WorkerOK, JournalType, PeerInv, PeerType
<1>2. child = "none" /\ spawns = 0
  BY <1>1 DEF JournalOK
<1>3. CASE /\ jr.outcome = "none" /\ jr' = Begin /\ To("worker", "run")
           /\ child' = "running" /\ spawns' = spawns + 1
  <2>1. jr' = [jr EXCEPT !.started = TRUE]
    BY <1>1, <1>3 DEF Begin
  <2>2. /\ jr' \in JournalType /\ jr'.outcome = jr.outcome /\ jr'.started
        /\ jr'.acked = jr.acked /\ jr'.last = jr.last /\ jr'.received = jr.received
        /\ jr'.events = jr.events /\ jr'.settlement = jr.settlement
    BY <1>1, <2>1 DEF JournalType
  <2>3. Grows(jr, jr')
    BY <1>1, <2>2 DEF Grows
  <2>4. spawns' = 1 /\ spawns' <= 1
    BY <1>2, <1>3
  <2>5. "none" \notin Known
    BY DEF Known
  <2>6. JournalOK(jr', child', spawns')
    BY <1>1, <1>3, <2>2, <2>4, <2>5 DEF JournalOK
  <2>7. "run" \in Position \ {"idle", "flush", "posted"}
    BY DEF Position
  <2>8. Sound'
    BY <1>0, <1>1, <1>3, <2>2, <2>3, <2>6, <2>7, WorkerGoes
  <2>9. Rest'
    BY <1>3, <2>4 DEF beforeInvoke, Rest, PeerInv, PeerType, hostVars
  <2> QED
    BY <2>8, <2>9, Parts
<1>4. CASE jr' = Finish("delivery_denied") /\ To("worker", "recover") /\ child' = child /\ spawns' = spawns
  <2>1. "delivery_denied" \in Ending \ {"none"}
    BY DEF Ending
  <2>2. Sound'
    BY <1>0, <1>1, <1>2, <1>4, <2>1, WorkerFinishes
  <2>3. Rest'
    BY <1>4 DEF beforeInvoke, Rest, PeerInv, PeerType, hostVars
  <2> QED
    BY <2>2, <2>3, Parts
<1> QED
  BY <1>3, <1>4 DEF beforeInvoke

\* An emit appends to the journal of an execution without an outcome.
LEMMA EmitKeeps ==
  ASSUME PeerInv, emit
  PROVE  PeerInv'
<1>0. /\ host' = host /\ child' = child /\ spawns' = spawns /\ ps["worker"].pc = "run"
      /\ jr' = AppendEvent("working") /\ StartFlush("worker", "run", jr')
  BY DEF emit, hostVars
<1>1. /\ jr \in JournalType /\ JournalOK(jr, child, spawns)
      /\ jr.received /\ jr.started /\ jr.outcome = "none"
  BY <1>0, Worker DEF WorkerOK
<1>2. "working" \in Event /\ "working" \notin Known
  BY DEF Event, Known
<1>3. /\ jr' \in JournalType /\ Grows(jr, jr') /\ Calm(jr, jr') /\ jr'.acked = jr.acked
      /\ jr'.received = jr.received /\ jr'.outcome = jr.outcome /\ JournalOK(jr', child, spawns)
  BY <1>0, <1>1, <1>2, AppendKeeps
<1>4. jr'.started /\ jr'.outcome = "none" /\ jr'.received
  BY <1>1, <1>3 DEF Calm
<1>5. StartFlush("worker", "run", jr') /\ JournalOK(jr', child', spawns')
  BY <1>0, <1>3
<1>6. Sound'
  BY <1>0, <1>1, <1>3, <1>4, <1>5, WorkerFlushes
<1>7. emits' \in 0..MaxEmits
  BY PeerRunAssumption DEF emit, PeerInv, PeerType
<1>8. Rest'
  BY <1>7 DEF emit, Rest, PeerInv, PeerType, hostVars
<1> QED
  BY <1>6, <1>8, Parts

\* The outcome of an execution is known only when its process is gone.
LEMMA ExecuteKeeps ==
  ASSUME PeerInv, execute
  PROVE  PeerInv'
<1>0. /\ host' = host /\ spawns' = spawns /\ ps["worker"].pc = "run" /\ To("worker", "recover")
  BY DEF execute, hostVars
<1>1. /\ jr \in JournalType /\ JournalOK(jr, child, spawns)
      /\ jr.received /\ jr.started /\ jr.outcome = "none"
  BY <1>0, Worker DEF WorkerOK
<1>2. PICK stopped \in BOOLEAN : \E s \in Outcome(stopped) :
          /\ jr' = Finish(s)
          /\ child' = IF stopped THEN "stopped" ELSE child
  BY DEF execute
<1>3. PICK s \in Outcome(stopped) : jr' = Finish(s) /\ child' = IF stopped THEN "stopped" ELSE child
  BY <1>2
<1>4. s \in Ending \ {"none"}
  <2>1. final \in {"none"} \cup Known
    BY DEF PeerInv, PeerType
  <2> QED
    BY <2>1, <1>3 DEF Outcome, Ending, Known
<1>5. child' = "running" => child = "running" /\ s \in {"outcome_unknown", "delivery_denied"}
  <2>1. CASE stopped
    BY <1>3, <2>1
  <2>2. CASE ~stopped
    BY <1>3, <2>2 DEF Outcome
  <2> QED
    BY <2>1, <2>2
<1>6. Sound'
  BY <1>0, <1>1, <1>3, <1>4, <1>5, WorkerFinishes
<1>7. child' \in {"none", "running", "stopped"}
  BY <1>3 DEF PeerInv, PeerType
<1>8. Rest'
  BY <1>7 DEF execute, Rest, PeerInv, PeerType, hostVars
<1> QED
  BY <1>6, <1>8, Parts

-----------------------------------------------------------------------------
(* The Host on its own, polls, the sweeper, connections and death *)

\* The Host changes alone.
LEMMA HostMoves ==
  ASSUME PeerInv, host' \in HostType, HostOK(host', jr), HostGoesOn(host, host'),
         UNCHANGED <<jr, ps, child, spawns>>
  PROVE  Sound'
<1>1. jr' \in JournalType /\ Grows(jr, jr') /\ Calm(jr, jr') /\ JournalOK(jr', child', spawns')
  BY GrowsReflexive DEF PeerInv, PeerType
<1>2. Len(host.log) <= Len(host'.log)
  BY DEF HostGoesOn
<1>3. Places' /\ ps' \in [Procs -> ProcType]
  BY <1>1, <1>2, PlacesStay
<1> QED
  BY <1>1, <1>3 DEF Sound

\* What the Host does on its own keeps the invariant and every end.
LEMMA HostKeeps ==
  ASSUME PeerInv, cancel \/ sweep \/ DeadlinePasses
  PROVE  PeerInv' /\ HostGoesOn(host, host')
<1>0. host \in HostType /\ HostOK(host, jr) /\ Len(host.log) \in Nat
  BY DEF PeerInv, PeerType, HostType
<1>1. UNCHANGED <<rights, local, jr, ps, live, child, final, conn, up, spawns, deaths, emits>>
  BY DEF cancel, sweep, DeadlinePasses
<1>2. Rest'
  BY <1>1 DEF Rest, PeerInv, PeerType
<1>3. ASSUME NEW cause \in {"requester", "deadline", "authorization_lost"},
             host' = cancelKnown(host, cause)
      PROVE  host' \in HostType /\ HostOK(host', jr) /\ HostGoesOn(host, host')
  BY <1>0, <1>3, CancelKeeps
<1>4. host' \in HostType /\ HostOK(host', jr) /\ HostGoesOn(host, host')
  <2>1. CASE cancel
    BY <1>3, <2>1 DEF cancel
  <2>2. CASE sweep
    <3>1. CASE host' = [host EXCEPT !.run = "outcome_unknown"]
      <4>1. host' \in HostType
        BY <1>0, <3>1 DEF HostType, Terminal
      <4>2. /\ host'.run = "outcome_unknown" /\ host'.log = host.log /\ host'.deliv = host.deliv
            /\ host'.settled = host.settled
        BY <1>0, <3>1 DEF HostType
      <4>3. host.run \notin Terminal
        BY <2>2 DEF sweep, Live, Terminal
      <4> QED
        BY <1>0, <4>1, <4>2, <4>3 DEF HostOK, HostGoesOn
    <3>2. CASE host' = cancelKnown(host, IF host.due THEN "deadline" ELSE "authorization_lost")
      <4>1. CASE host.due
        BY <1>3, <3>2, <4>1
      <4>2. CASE ~host.due
        BY <1>3, <3>2, <4>2
      <4> QED
        BY <4>1, <4>2
    <3> QED
      BY <2>2, <3>1, <3>2 DEF sweep
  <2>3. CASE DeadlinePasses
    <3>1. host' \in HostType
      BY <1>0, <2>3 DEF HostType, DeadlinePasses
    <3>2. /\ host'.run = host.run /\ host'.log = host.log /\ host'.deliv = host.deliv
          /\ host'.settled = host.settled
      BY <1>0, <2>3 DEF HostType, DeadlinePasses
    <3> QED
      BY <1>0, <3>1, <3>2 DEF HostOK, HostGoesOn
  <2> QED
    BY <2>1, <2>2, <2>3
<1>5. Sound'
  BY <1>1, <1>4, HostMoves
<1> QED
  BY <1>2, <1>4, <1>5, Parts

\* A poll commits the delivery and hands the Run over, or ends it.
LEMMA PollKeeps ==
  ASSUME PeerInv, PollRuns
  PROVE  PeerInv' /\ HostGoesOn(host, host')
<1>0. /\ host \in HostType /\ HostOK(host, jr) /\ Len(host.log) \in Nat /\ host.run \in Live
      /\ jr \in JournalType /\ JournalOK(jr, child, spawns) /\ Len(jr.events) \in Nat
      /\ ps' = ps /\ child' = child /\ spawns' = spawns
  BY DEF PeerInv, PeerType, HostType, JournalType, PollRuns
<1>1. Rest'
  BY DEF PollRuns, Rest, PeerInv, PeerType
<1>2. CASE /\ host' = [host EXCEPT !.deliv = TRUE]
           /\ jr' \in {jr, [jr EXCEPT !.received = TRUE]}
  <2>1. host' \in HostType
    BY <1>0, <1>2 DEF HostType
  <2>2. /\ host'.run = host.run /\ host'.log = host.log /\ host'.deliv = TRUE
        /\ host'.settled = host.settled
    BY <1>0, <1>2 DEF HostType
  <2>3. host.run \notin Terminal \cup {"input_required"}
    BY <1>0 DEF Live, Terminal
  <2>4. HostOK(host', jr) /\ HostGoesOn(host, host')
    BY <1>0, <2>2, <2>3 DEF HostOK, HostGoesOn
  <2>5. /\ jr' \in JournalType /\ jr'.outcome = jr.outcome /\ jr'.started = jr.started
        /\ jr'.acked = jr.acked /\ jr'.last = jr.last /\ (jr.received => jr'.received)
        /\ jr'.events = jr.events /\ jr'.settlement = jr.settlement
    <3>1. CASE jr' = jr
      BY <1>0, <3>1
    <3>2. CASE jr' = [jr EXCEPT !.received = TRUE]
      BY <1>0, <3>2 DEF JournalType
    <3> QED
      BY <1>2, <3>1, <3>2
  <2>6. Grows(jr, jr') /\ Calm(jr, jr')
    BY <1>0, <2>5 DEF Grows, Calm
  <2>7. JournalOK(jr', child', spawns')
    BY <1>0, <2>5 DEF JournalOK
  <2>8. Len(host.log) <= Len(host'.log) /\ jr'.acked <= Len(host'.log)
    BY <1>0, <2>2, <2>5 DEF HostOK
  <2>9. Places' /\ ps' \in [Procs -> ProcType]
    BY <1>0, <2>1, <2>5, <2>6, <2>8, PlacesStay
  <2>10. Sound'
    BY <2>1, <2>2, <2>4, <2>5, <2>6, <2>7, <2>8, <2>9, JournalMoves
  <2> QED
    BY <1>1, <2>4, <2>10, Parts
<1>3. CASE host' = cancelKnown(host, "authorization_lost") /\ jr' = jr
  <2>1. host' \in HostType /\ HostOK(host', jr) /\ HostGoesOn(host, host')
    BY <1>0, <1>3, CancelKeeps
  <2>2. Sound'
    BY <1>0, <1>3, <2>1, HostMoves
  <2> QED
    BY <1>1, <2>1, <2>2, Parts
<1> QED
  BY <1>2, <1>3 DEF PollRuns

\* The sweeper denies what never started and reports what has an outcome.
LEMMA SweeperKeeps ==
  ASSUME PeerInv, recoverPeerRuns
  PROVE  PeerInv'
<1>0. /\ host \in HostType /\ HostOK(host, jr) /\ Len(host.log) \in Nat /\ "sweeper" \in Procs
      /\ jr \in JournalType /\ JournalOK(jr, child, spawns) /\ jr.received
      /\ host' = host /\ child' = child /\ spawns' = spawns /\ To("sweeper", "recover")
  BY DEF PeerInv, PeerType, HostType, recoverPeerRuns, Procs, hostVars
<1>1. Rest'
  BY DEF recoverPeerRuns, Rest, PeerInv, PeerType, hostVars
<1>2. /\ jr' \in JournalType /\ Grows(jr, jr') /\ Calm(jr, jr') /\ jr'.acked = jr.acked
      /\ jr'.received /\ JournalOK(jr', child', spawns')
  <2>1. CASE Denial
    <3>1. jr' = Finish("delivery_denied") /\ ~jr.started
      BY <2>1 DEF recoverPeerRuns, Denial
    <3>2. child = "none"
      BY <1>0, <3>1 DEF JournalOK
    <3>3. "delivery_denied" \in Ending \ {"none"}
      BY DEF Ending
    <3>4. /\ Finish("delivery_denied") \in JournalType /\ Grows(jr, Finish("delivery_denied"))
          /\ Finish("delivery_denied").started = jr.started
          /\ Finish("delivery_denied").acked = jr.acked
          /\ Finish("delivery_denied").received = jr.received
          /\ JournalOK(Finish("delivery_denied"), child, spawns)
      BY <1>0, <3>2, <3>3, FinishKeeps
    <3> QED
      BY <1>0, <3>1, <3>4 DEF Calm
  <2>2. CASE ~Denial
    <3>1. jr' = jr
      BY <2>2 DEF recoverPeerRuns
    <3> QED
      BY <1>0, <3>1, GrowsReflexive
  <2> QED
    BY <2>1, <2>2
<1>3. Len(host.log) <= Len(host'.log) /\ jr'.acked <= Len(host'.log) /\ host'.deliv /\ host' \in HostType
  BY <1>0, <1>2 DEF HostOK
<1>4. "recover" \in Position \ {"idle", "flush", "posted"}
  BY DEF Position
<1>5. Places' /\ ps' \in [Procs -> ProcType]
  BY <1>0, <1>2, <1>3, <1>4, GoesTo
<1>6. Sound'
  BY <1>0, <1>2, <1>3, <1>5, JournalMoves
<1> QED
  BY <1>1, <1>6, Parts

\* Connections, rights and a final status leave the records alone.
LEMMA QuietKeeps ==
  ASSUME PeerInv, UNCHANGED <<host, jr, ps, child, spawns>>, Rest'
  PROVE  PeerInv'
<1>1. host' \in HostType /\ HostOK(host', jr) /\ HostGoesOn(host, host')
  BY DEF PeerInv, PeerType, HostType, HostGoesOn
<1>2. Sound'
  BY <1>1, HostMoves
<1> QED
  BY <1>2, Parts

\* A death ends both goroutines, and the next core finds their process gone.
LEMMA DeathKeeps ==
  ASSUME PeerInv, Death \/ Restart
  PROVE  PeerInv'
<1>0. /\ host \in HostType /\ HostOK(host, jr) /\ Len(host.log) \in Nat
      /\ jr \in JournalType /\ JournalOK(jr, child, spawns) /\ ps \in [Procs -> ProcType]
      /\ host' = host /\ jr' = jr /\ spawns' = spawns /\ Places
  BY DEF PeerInv, PeerType, HostType, Death, Restart, hostVars
<1>1. CASE Death
  <2>1. ps' = [p \in Procs |-> Idle] /\ child' = child
    BY <1>1 DEF Death
  <2>2. Idle \in ProcType /\ Idle.pc = "idle"
    BY DEF Idle, ProcType, Position
  <2>3. ~Reports(Idle)
    BY <2>2 DEF Reports
  <2>4. ProcOK(Idle, jr, host) /\ WorkerOK(Idle, jr) /\ SweeperOK(Idle)
    BY <2>2, <2>3 DEF ProcOK, WorkerOK, SweeperOK
  <2>5. "worker" \in Procs /\ "sweeper" \in Procs
    BY DEF Procs
  <2>6. ps' \in [Procs -> ProcType] /\ \A p \in Procs : ps'[p] = Idle
    BY <2>1, <2>2
  <2>7. Places'
    BY <1>0, <2>4, <2>5, <2>6 DEF Places
  <2>8. Sound'
    BY <1>0, <2>1, <2>6, <2>7 DEF Sound
  <2>9. deaths' \in 0..MaxDeaths
    BY <1>1, PeerRunAssumption DEF Death, PeerInv, PeerType
  <2>10. Rest'
    BY <1>1, <2>9 DEF Death, Rest, PeerInv, PeerType, hostVars
  <2> QED
    BY <2>8, <2>10, Parts
<1>2. CASE Restart
  <2>1. ps' = ps /\ child' = IF child = "running" THEN "stopped" ELSE child
    BY <1>2 DEF Restart
  <2>2. child' \in {"none", "stopped"} /\ (child' # "none" => child # "none")
    BY <2>1 DEF PeerInv, PeerType
  <2>3. JournalOK(jr, child', spawns)
    BY <1>0, <2>2 DEF JournalOK
  <2>4. Places'
    BY <1>0, <2>1 DEF Places
  <2>5. Sound'
    BY <1>0, <2>1, <2>3, <2>4 DEF Sound
  <2>6. Rest'
    BY <1>2, <2>2 DEF Restart, Rest, PeerInv, PeerType, hostVars
  <2> QED
    BY <2>5, <2>6, Parts
<1> QED
  BY <1>1, <1>2

-----------------------------------------------------------------------------
(* The invariant and what follows from it *)

\* A Run starts out queued, with an empty journal and no process.
LEMMA InitPeer == Init => PeerInv
<1> SUFFICES ASSUME Init PROVE PeerInv
  OBVIOUS
<1>1. PeerType
  <2>1. Idle \in ProcType
    BY DEF Idle, ProcType, Position
  <2>2. host \in HostType
    BY DEF Init, HostType, Live, Ending
  <2>3. jr \in JournalType
    BY DEF Init, JournalType, Ending
  <2> QED
    <3>1. ps \in [Procs -> ProcType]
      BY <2>1 DEF Init
    <3>2. deaths \in 0..MaxDeaths /\ emits \in 0..MaxEmits /\ spawns \in Nat
      BY PeerRunAssumption DEF Init
    <3>3. /\ rights \in {"current", "stale", "revoked"} /\ local \in {"active", "left"}
          /\ live \in BOOLEAN /\ conn \in BOOLEAN /\ up \in BOOLEAN
          /\ child \in {"none", "running", "stopped"} /\ final \in {"none"} \cup Known
      BY DEF Init
    <3> QED
      BY <2>2, <2>3, <3>1, <3>2, <3>3 DEF PeerType
<1>2. JournalOK(jr, child, spawns)
  BY DEF Init, JournalOK, Known
<1>3. HostOK(host, jr)
  BY DEF Init, HostOK, Terminal
<1>4. Places
  <2>1. ps["worker"] = Idle /\ ps["sweeper"] = Idle /\ \A p \in Procs : ps[p] = Idle
    BY DEF Init, Procs
  <2>2. Idle.pc = "idle" /\ ~Reports(Idle)
    BY DEF Idle, Reports
  <2> QED
    BY <2>1, <2>2 DEF Places, ProcOK, WorkerOK, SweeperOK
<1> QED
  BY <1>1, <1>2, <1>3, <1>4 DEF PeerInv

\* Every step keeps the invariant, the log of the Host and an end it came to.
LEMMA NextPeer ==
  ASSUME PeerInv, [Next]_vars
  PROVE  PeerInv' /\ HostGoesOn(host, host')
<1>0. HostGoesOn(host, host)
  BY DEF HostGoesOn, PeerInv, PeerType, HostType
<1>1. CASE cancel \/ sweep \/ DeadlinePasses
  BY <1>1, HostKeeps
<1>2. CASE \E p \in Procs : Report(p)
  BY <1>2, ReportKeeps
<1>3. CASE PollRuns
  BY <1>3, PollKeeps
<1>4. CASE Execution
  <2>1. CASE serveRuns \/ Recheck("admit", "queue") \/ Recheck("queue", "claim") \/ beforeInvoke \/ emit \/ execute
    <3>1. host' = host
      BY <2>1 DEF serveRuns, Recheck, beforeInvoke, emit, execute, hostVars
    <3> QED
      BY <1>0, <2>1, <3>1, ServeKeeps, RecheckKeeps, ClaimKeeps, EmitKeeps, ExecuteKeeps
  <2>2. CASE \E s \in Known : emitFinal(s)
    <3>1. UNCHANGED <<host, jr, ps, child, spawns>>
      BY <2>2 DEF emitFinal, hostVars
    <3>2. Rest'
      BY <2>2 DEF emitFinal, hostVars, Rest, PeerInv, PeerType
    <3> QED
      BY <1>0, <3>1, <3>2, QuietKeeps
  <2> QED
    BY <1>4, <2>1, <2>2 DEF Execution
<1>5. CASE recoverPeerRuns
  <2>1. host' = host
    BY <1>5 DEF recoverPeerRuns, hostVars
  <2> QED
    BY <1>0, <1>5, <2>1, SweeperKeeps
<1>6. CASE Death \/ Restart
  <2>1. host' = host
    BY <1>6 DEF Death, Restart, hostVars
  <2> QED
    BY <1>0, <1>6, <2>1, DeathKeeps
<1>7. CASE LoseRights("stale") \/ LoseRights("revoked") \/ Leave
  <2>1. UNCHANGED <<host, jr, ps, child, spawns>>
    BY <1>7 DEF LoseRights, Leave, hostVars
  <2>2. Rest'
    BY <1>7 DEF LoseRights, Leave, hostVars, Rest, PeerInv, PeerType
  <2> QED
    BY <1>0, <2>1, <2>2, QuietKeeps
<1>8. CASE watch \/ ConnectRuntime \/ closeWithCause
  <2>1. UNCHANGED <<host, jr, ps, child, spawns>>
    BY <1>8 DEF watch, ConnectRuntime, closeWithCause, hostVars
  <2>2. Rest'
    BY <1>8 DEF watch, ConnectRuntime, closeWithCause, hostVars, Rest, PeerInv, PeerType
  <2> QED
    BY <1>0, <2>1, <2>2, QuietKeeps
<1>9. CASE UNCHANGED vars
  <2>1. UNCHANGED <<host, jr, ps, child, spawns>>
    BY <1>9 DEF vars
  <2>2. Rest'
    BY <1>9 DEF vars, Rest, PeerInv, PeerType
  <2> QED
    BY <1>0, <2>1, <2>2, QuietKeeps
<1> QED
  BY <1>1, <1>2, <1>3, <1>4, <1>5, <1>6, <1>7, <1>8, <1>9 DEF Next

\* The invariant implies what the runs check.
LEMMA PeerInvFaithful == PeerInv => PeerRunFaithful
<1> SUFFICES ASSUME PeerInv PROVE PeerRunFaithful
  OBVIOUS
<1>0. /\ host \in HostType /\ jr \in JournalType /\ ps \in [Procs -> ProcType] /\ spawns \in Nat
      /\ Len(host.log) \in Nat /\ Len(jr.events) \in Nat /\ jr.acked \in Nat
      /\ jr.events \in Seq(Event) /\ host.log \in Seq(Event)
      /\ JournalOK(jr, child, spawns) /\ HostOK(host, jr)
  BY DEF PeerInv, PeerType, HostType, JournalType
<1>1. TypeOK
  <2>1. jr.acked \in 0..Len(jr.events) /\ spawns \in 0..2
    BY <1>0 DEF HostOK, JournalOK
  <2>2. \A p \in Procs : ps[p].pc \in Position
    BY <1>0 DEF ProcType
  <2>3. /\ host.run \in Live \cup Terminal \cup {"input_required"}
        /\ host.cancel \in {"none", "requester", "authorization_lost", "deadline"}
        /\ host.settled \in Ending
        /\ {host.deliv, host.due, jr.received, jr.started, jr.receipt} \subseteq BOOLEAN
        /\ jr.outcome \in Ending
    BY <1>0 DEF HostType, JournalType
  <2> QED
    BY <1>0, <2>1, <2>2, <2>3 DEF TypeOK, PeerInv, PeerType, Event, Ending, Position
<1>2. StartsOnce
  BY <1>0 DEF StartsOnce, JournalOK
<1>3. EvidenceAgrees
  <2>1. Len(host.log) <= Len(jr.events) /\ \A k \in 1..Len(host.log) : host.log[k] = jr.events[k]
    BY <1>0 DEF HostOK
  <2>2. IsPrefix(host.log, jr.events)
    <3>1. SubSeq(jr.events, 1, Len(host.log)) = host.log
      BY <1>0, <2>1
    <3> QED
      BY <2>1, <3>1 DEF IsPrefix
  <2> QED
    BY <1>0, <2>2 DEF EvidenceAgrees, HostOK
<1>4. OutcomeAfterProcess
  BY <1>0 DEF OutcomeAfterProcess, JournalOK
<1>5. HostConcludes
  BY <1>0 DEF HostConcludes, HostOK, JournalOK
<1> QED
  BY <1>1, <1>2, <1>3, <1>4, <1>5 DEF PeerRunFaithful

\* A delivered Peer Run starts at most one process over lost answers, reconnections and
\* deaths; what the Host has committed is what the Participant retained, and its
\* conclusion is the journal's (event, settle, Finish, beforeInvoke).
THEOREM PeerRunIsFaithful == Spec => []PeerRunFaithful
<1>1. Init => PeerInv
  BY InitPeer
<1>2. PeerInv /\ [Next]_vars => PeerInv'
  BY NextPeer
<1>3. PeerInv => PeerRunFaithful
  BY PeerInvFaithful
<1> QED
  BY <1>1, <1>2, <1>3, PTL DEF Spec

\* A Run the Host brought to an end keeps that end: no event, settlement, cancellation or
\* sweep that comes later moves it.
THEOREM EndsAlwaysStand == Spec => [][EndsStand]_vars
<1>1. Init => PeerInv
  BY InitPeer
<1>2. PeerInv /\ [Next]_vars => PeerInv'
  BY NextPeer
<1>3. PeerInv /\ [Next]_vars => [EndsStand]_vars
  BY NextPeer DEF HostGoesOn, EndsStand
<1> QED
  BY <1>1, <1>2, <1>3, PTL DEF Spec

-----------------------------------------------------------------------------
(* Joining and leaving: the inductive invariant                            *)
(*                                                                         *)
(* The invitation names the one operation it was consumed for and keeps the *)
(* name for ever; that operation's position tells which of the four files   *)
(* of the Participant are written.                                          *)

Writing == {"joined", "stored", "bound", "marked"}

\* The invitation and the membership it made.
InvitationOK ==
  /\ inv.state = "open" => inv.op = None
  /\ inv.state = "claimed" => inv.op # None
  /\ inv.op = None <=> member = "none"
  /\ member = "none" => made = 0
  /\ made <= 1

\* The files, by the position of the operation that writes them.
FilesOK ==
  /\ runtime.state # "none" => runtime.op = inv.op /\ inv.op # None
  /\ \A o \in Ops : pc[o] # "idle" => o \in pend
  /\ \A o \in Ops : pc[o] \in Writing => inv.op = o
  /\ \A o \in Ops : pc[o] \in {"stored", "bound", "marked"} => runtime.state # "none"
  /\ \A o \in Ops : pc[o] \in {"bound", "marked"} => vault = "active"
  /\ \A o \in Ops : pc[o] = "marked" => o \in done
  /\ ReceiptsInOrder
  /\ ClaimRecoverable

LeavingOK ==
  /\ NothingOutlives
  /\ dep # "none" => runtime.state = "left"
  /\ DepartureTrue

JoinInv == JoinTypeOK /\ InvitationOK /\ FilesOK /\ LeavingOK /\ OneConnection

\* It contains what the join promises.
LEMMA JoinInvKept == JoinInv => MembershipKept
BY DEF JoinInv, MembershipKept, InvitationOK, FilesOK, LeavingOK, OneMembership

\* It holds of an open invitation.
LEMMA JoinInitOK == JoinInit => JoinInv
<1> SUFFICES ASSUME JoinInit PROVE JoinInv OBVIOUS
<1> USE PeerJoinAssumption DEF JoinInit
<1>1. JoinTypeOK BY DEF JoinTypeOK
<1>2. InvitationOK BY DEF InvitationOK
<1>3. FilesOK BY DEF FilesOK, ReceiptsInOrder, ClaimRecoverable, Writing
<1>4. LeavingOK BY DEF LeavingOK, NothingOutlives, DepartureTrue
<1>5. OneConnection BY DEF OneConnection
<1> QED BY <1>1, <1>2, <1>3, <1>4, <1>5 DEF JoinInv

\* Where the Host's rows stand still, so does what is known of them.
LEMMA TeamStays ==
  ASSUME JoinInv, UNCHANGED teamVars
  PROVE  InvitationOK' /\ NothingOutlives'
BY DEF JoinInv, InvitationOK, LeavingOK, NothingOutlives, peerHumanAuthority, activeBinding,
       requireActiveMembership, teamVars

\* Where no connection moves, one is still served.
LEMMA ConnectionsStay ==
  ASSUME JoinInv, UNCHANGED sockVars
  PROVE  OneConnection'
BY DEF JoinInv, OneConnection, sockVars

\* Where the Participant's files stand still and the invitation keeps its operation.
LEMMA FilesStay ==
  ASSUME JoinInv, UNCHANGED localVars, inv'.op = inv.op
  PROVE  FilesOK'
BY DEF JoinInv, FilesOK, ReceiptsInOrder, ClaimRecoverable, localVars

-----------------------------------------------------------------------------
(* The Host                                                                *)

\* Everything of a member ends in the transaction that ends the membership.
LEMMA RevokedNothing ==
  ASSUME JoinTypeOK, RevokeMembership
  PROVE  /\ NothingOutlives' /\ member' = "revoked" /\ acl' \in BOOLEAN
         /\ binding' \in {"none", "active", "revoked"}
         /\ cred' \in [Entries -> {"none", "issued", "stale", "used", "revoked"}]
<1>1. /\ member' = "revoked" /\ acl' = FALSE /\ binding' # "active"
      /\ binding' \in {"none", "active", "revoked"}
  BY DEF RevokeMembership, JoinTypeOK
<1>2. cred' \in [Entries -> {"none", "revoked"}] BY DEF RevokeMembership
<1>3. \A e \in Entries : cred'[e] \notin {"issued", "used"} BY <1>2
<1>4. cred' \in [Entries -> {"none", "issued", "stale", "used", "revoked"}] BY <1>2
<1>5. NothingOutlives'
  BY <1>1, <1>3 DEF NothingOutlives, peerHumanAuthority
<1> QED BY <1>1, <1>4, <1>5

\* revokeMembership, revokeInvitation and the expiries
LEMMA NarrowingKeeps ==
  ASSUME JoinInv, revokeMembership \/ revokeInvitation \/ InvitationExpires \/ MembershipExpires
  PROVE  JoinInv'
<1> USE DEF JoinInv
<1>1. UNCHANGED <<sockVars, localVars>>
  BY DEF revokeMembership, revokeInvitation, InvitationExpires, MembershipExpires
<1>2. OneConnection' BY <1>1, ConnectionsStay
<1>3. /\ inv'.op = inv.op /\ inv'.state \in {inv.state, "revoked"} /\ made' = made
      /\ inv' \in [state : {"open", "claimed", "revoked"}, op : Ops \cup {None}, late : BOOLEAN]
  BY DEF revokeMembership, revokeInvitation, InvitationExpires, MembershipExpires, JoinTypeOK
<1>4. FilesOK' BY <1>1, <1>3, FilesStay
<1>5. \/ member = "active" /\ RevokeMembership
      \/ UNCHANGED <<member, acl, binding, cred>>
  BY DEF revokeMembership, revokeInvitation, InvitationExpires, MembershipExpires
<1>6. session' = session /\ gone' \in BOOLEAN
  BY DEF revokeMembership, revokeInvitation, InvitationExpires, MembershipExpires, JoinTypeOK
<1>7. CASE member = "active" /\ RevokeMembership
  <2>1. /\ NothingOutlives' /\ member' = "revoked" /\ acl' \in BOOLEAN
        /\ binding' \in {"none", "active", "revoked"}
        /\ cred' \in [Entries -> {"none", "issued", "stale", "used", "revoked"}]
    BY <1>7, RevokedNothing
  <2>2. JoinTypeOK' BY <1>1, <1>3, <1>6, <2>1 DEF JoinTypeOK, sockVars, localVars
  <2>3. InvitationOK' BY <1>3, <1>7, <2>1 DEF InvitationOK
  <2>4. LeavingOK' BY <1>1, <2>1 DEF LeavingOK, DepartureTrue, localVars
  <2> QED BY <1>2, <1>4, <2>2, <2>3, <2>4
<1>8. CASE UNCHANGED <<member, acl, binding, cred>>
  <2>1. JoinTypeOK' BY <1>1, <1>3, <1>6, <1>8 DEF JoinTypeOK, sockVars, localVars
  <2>2. InvitationOK' BY <1>3, <1>8 DEF InvitationOK
  <2>3. LeavingOK'
    BY <1>1, <1>6, <1>8 DEF LeavingOK, DepartureTrue, localVars, NothingOutlives,
                            peerHumanAuthority, activeBinding
  <2> QED BY <1>2, <1>4, <2>1, <2>2, <2>3
<1> QED BY <1>5, <1>7, <1>8

\* issue, consume and the expiry of an exchange
LEMMA EntriesKeep ==
  ASSUME JoinInv, NEW e \in Entries, issue(e) \/ ExchangeExpires(e) \/ consume(e)
  PROVE  JoinInv'
<1> USE DEF JoinInv
<1>1. UNCHANGED <<inv, member, made, gone, acl, binding, sockVars, localVars>>
  BY DEF issue, ExchangeExpires, consume
<1>2. \E v \in {"issued", "stale", "used"} : cred' = [cred EXCEPT ![e] = v]
  BY DEF issue, ExchangeExpires, consume
<1>3. session' \subseteq Entries BY DEF issue, ExchangeExpires, consume, JoinTypeOK
<1>4. member = "active" \/ (cred[e] = "issued" /\ cred' = [cred EXCEPT ![e] = "stale"])
  BY DEF issue, ExchangeExpires, consume, activeBinding, requireActiveMembership
<1>5. JoinTypeOK'
  <2>1. cred' \in [Entries -> {"none", "issued", "stale", "used", "revoked"}]
    BY <1>2 DEF JoinTypeOK
  <2> QED BY <1>1, <1>3, <2>1 DEF JoinTypeOK, sockVars, localVars
<1>6. InvitationOK' BY <1>1 DEF InvitationOK
<1>7. FilesOK' BY <1>1, FilesStay
<1>8. NothingOutlives'
  BY <1>1, <1>4 DEF LeavingOK, NothingOutlives, peerHumanAuthority, activeBinding, JoinTypeOK
<1>9. LeavingOK' BY <1>1, <1>8 DEF LeavingOK, DepartureTrue, localVars
<1> QED BY <1>1, <1>5, <1>6, <1>7, <1>9, ConnectionsStay

\* open, receive and close: the newest authenticated connection is the one.
LEMMA SocketsKeep ==
  ASSUME JoinInv, NEW s \in Socks, open(s) \/ receive(s) \/ close(s)
  PROVE  JoinInv'
<1> USE PeerJoinAssumption DEF JoinInv
<1>1. UNCHANGED <<teamVars, localVars>> BY DEF open, receive, close
<1>2. /\ sock' \in [Socks -> {"none", "pending", "active", "closed"}]
      /\ current' \in Socks \cup {None}
  BY DEF open, receive, close, activate, JoinTypeOK
<1>3. OneConnection' BY DEF open, receive, close, activate, OneConnection, JoinTypeOK
<1>4. JoinTypeOK' BY <1>1, <1>2 DEF JoinTypeOK, teamVars, localVars
<1>5. InvitationOK' /\ NothingOutlives' BY <1>1, TeamStays
<1>6. FilesOK' BY <1>1, FilesStay DEF teamVars
<1>7. LeavingOK' BY <1>1, <1>5 DEF LeavingOK, DepartureTrue, localVars, teamVars
<1> QED BY <1>3, <1>4, <1>5, <1>6, <1>7

-----------------------------------------------------------------------------
(* The Participant                                                         *)

\* A step on the Participant's files alone keeps the rest.
LEMMA LocalKeeps ==
  ASSUME JoinInv, UNCHANGED <<teamVars, sockVars>>, FilesOK',
         pend' \subseteq Ops, done' \subseteq Ops, asked' \subseteq Entries,
         pc' \in [Ops -> {"idle", "challenged", "joined", "stored", "bound", "marked"}],
         runtime' \in [state : {"none", "active", "left"}, op : Ops \cup {None}],
         vault' \in {"none", "active"}, dep' \in {"none", "pending"} \/ dep' = dep,
         dep' # "none" => runtime'.state = "left"
  PROVE  JoinInv'
<1>1. InvitationOK' /\ NothingOutlives' /\ OneConnection' BY TeamStays, ConnectionsStay
<1>2. JoinTypeOK' BY DEF JoinInv, JoinTypeOK, teamVars, sockVars
<1>3. LeavingOK' BY <1>1 DEF JoinInv, LeavingOK, DepartureTrue, teamVars
<1> QED BY <1>1, <1>2, <1>3 DEF JoinInv

\* What is known of the files.
LEMMA FileTypes ==
  ASSUME JoinInv
  PROVE  /\ pend \subseteq Ops /\ done \subseteq Ops /\ asked \subseteq Entries
         /\ pc \in [Ops -> {"idle", "challenged", "joined", "stored", "bound", "marked"}]
         /\ runtime \in [state : {"none", "active", "left"}, op : Ops \cup {None}]
         /\ vault \in {"none", "active"} /\ inv.op \in Ops \cup {None}
         /\ dep # "none" => runtime.state = "left"
BY DEF JoinInv, JoinTypeOK, LeavingOK

\* confirm, completion and challenge, up to the claim
LEMMA AskingKeeps ==
  ASSUME JoinInv, NEW o \in Ops, confirm(o) \/ completion(o) \/ challenge(o)
  PROVE  JoinInv'
<1>1. /\ UNCHANGED <<teamVars, sockVars>>
      /\ UNCHANGED <<runtime, vault, done, dep, asked>> /\ inv' = inv
  BY DEF confirm, completion, challenge, teamVars
<1>2. /\ pend' \subseteq Ops
      /\ pc' \in [Ops -> {"idle", "challenged", "joined", "stored", "bound", "marked"}]
  BY FileTypes DEF confirm, completion, challenge
<1>3. FilesOK'
  <2>1. \A q \in Ops : pc'[q] = pc[q] \/ (q = o /\ pc'[q] = "challenged" /\ q \in pend')
    BY FileTypes DEF confirm, completion, challenge
  <2>2. \A q \in Ops : q \in pend /\ q \notin pend' => pc[q] = "idle" /\ pc' = pc /\ q \in done
    BY DEF confirm, completion, challenge
  <2>3. \A q \in Ops : pc'[q] # "idle" => q \in pend'
    BY <2>1, <2>2 DEF JoinInv, FilesOK
  <2>4. ReceiptsInOrder' BY <1>1 DEF JoinInv, FilesOK, ReceiptsInOrder
  <2>5. ClaimRecoverable' BY <1>1, <2>2, FileTypes DEF JoinInv, FilesOK, ClaimRecoverable
  <2> QED BY <1>1, <2>1, <2>3, <2>4, <2>5 DEF JoinInv, FilesOK, Writing
<1> QED BY <1>1, <1>2, <1>3, FileTypes, LocalKeeps

\* What the Host does with a claim: the first one makes the membership, the operation that
\* made it gets the same answer again.
LEMMA ClaimMakes ==
  ASSUME JoinInv, NEW o \in Ops, claim(o)
  PROVE  /\ inv'.op = o /\ inv.op \in {None, o} /\ member \in {"none", "active"} /\ member' = "active"
         /\ inv' \in [state : {"open", "claimed", "revoked"}, op : Ops \cup {None}, late : BOOLEAN]
         /\ inv'.state = "claimed" /\ made' <= 1 /\ made' \in Nat /\ acl' \in BOOLEAN
         /\ binding' = "active"
<1> USE PeerJoinAssumption DEF JoinInv
<1>1. binding' = "active" BY DEF claim, humanBinding
<1>2. CASE inv.state = "claimed" /\ inv.op = o /\ UNCHANGED <<inv, member, made, acl>>
  BY <1>1, <1>2 DEF claim, claimVerifiedInvitation, requireInvitationSecret,
                    requireActiveMembership, JoinTypeOK, InvitationOK
<1>3. CASE /\ inv.state = "open" /\ member' = "active" /\ made' = made + 1 /\ acl' = TRUE
           /\ inv' = [inv EXCEPT !.state = "claimed", !.op = o]
  <2>1. inv.op = None /\ member = "none" /\ made = 0 BY <1>3 DEF InvitationOK
  <2>2. inv \in [state : {"open", "claimed", "revoked"}, op : Ops \cup {None}, late : BOOLEAN]
    BY DEF JoinTypeOK
  <2>3. inv'.op = o /\ inv'.state = "claimed" /\ inv'.late = inv.late BY <1>3, <2>2
  <2>4. inv' \in [state : {"open", "claimed", "revoked"}, op : Ops \cup {None}, late : BOOLEAN]
    BY <1>3, <2>2
  <2>5. made' = 1 BY <1>3, <2>1
  <2> QED BY <1>1, <1>3, <2>1, <2>3, <2>4, <2>5
<1> QED BY <1>2, <1>3 DEF claim, claimVerifiedInvitation

\* The claim, whether or not its answer arrives
LEMMA JoinClaimKeeps ==
  ASSUME JoinInv, NEW o \in Ops, ClaimPending(o)
  PROVE  JoinInv'
<1> USE PeerJoinAssumption
<1>1. /\ pc[o] = "challenged"
      /\ UNCHANGED <<gone, cred, session, sockVars, pend, runtime, vault, done, dep, asked>>
  BY DEF ClaimPending
<1>2. o \in pend BY <1>1 DEF JoinInv, FilesOK
<1>3. CASE claim(o) /\ pc' \in {[pc EXCEPT ![o] = "idle"], [pc EXCEPT ![o] = "joined"]}
  <2>1. /\ inv'.op = o /\ inv.op \in {None, o} /\ member \in {"none", "active"} /\ member' = "active"
        /\ inv' \in [state : {"open", "claimed", "revoked"}, op : Ops \cup {None}, late : BOOLEAN]
        /\ inv'.state = "claimed" /\ made' <= 1 /\ made' \in Nat /\ acl' \in BOOLEAN
        /\ binding' = "active"
    BY <1>3, ClaimMakes
  <2>2. /\ pc' \in [Ops -> {"idle", "challenged", "joined", "stored", "bound", "marked"}]
        /\ pc'[o] \in {"idle", "joined"} /\ \A q \in Ops : q # o => pc'[q] = pc[q]
    BY <1>3, FileTypes
  <2>3. JoinTypeOK' BY <1>1, <2>1, <2>2 DEF JoinInv, JoinTypeOK, sockVars
  <2>4. InvitationOK' BY <2>1 DEF InvitationOK
  <2>5. FilesOK'
    <3>1. runtime'.state # "none" => runtime'.op = inv'.op /\ inv'.op # None
      BY <1>1, <2>1 DEF JoinInv, FilesOK
    <3>2. \A q \in Ops : pc'[q] # "idle" => q \in pend'
      BY <1>1, <1>2, <2>2 DEF JoinInv, FilesOK
    <3>3. \A q \in Ops : pc'[q] \in Writing => inv'.op = q
      BY <2>1, <2>2 DEF JoinInv, FilesOK, Writing
    <3>4. \A q \in Ops : pc'[q] \in {"stored", "bound", "marked"} => pc'[q] = pc[q]
      BY <2>2
    <3>5. ReceiptsInOrder' BY <1>1 DEF JoinInv, FilesOK, ReceiptsInOrder
    <3>6. ClaimRecoverable' BY <1>1, <1>2, <2>1 DEF ClaimRecoverable
    <3> QED BY <1>1, <3>1, <3>2, <3>3, <3>4, <3>5, <3>6 DEF JoinInv, FilesOK
  <2>6. LeavingOK'
    <3>1. NothingOutlives' BY <2>1 DEF NothingOutlives
    <3>2. dep # "confirmed" BY <2>1 DEF JoinInv, LeavingOK, DepartureTrue
    <3> QED BY <1>1, <3>1, <3>2 DEF JoinInv, LeavingOK, DepartureTrue
  <2> QED BY <1>1, <2>3, <2>4, <2>5, <2>6, ConnectionsStay DEF JoinInv
<1>4. CASE pc' = [pc EXCEPT ![o] = "idle"] /\ UNCHANGED <<inv, member, made, acl, binding>>
  <2>1. UNCHANGED teamVars BY <1>1, <1>4 DEF teamVars
  <2>2. /\ pc' \in [Ops -> {"idle", "challenged", "joined", "stored", "bound", "marked"}]
        /\ \A q \in Ops : pc'[q] \in {"idle", pc[q]}
    BY <1>4, FileTypes
  <2>3. ReceiptsInOrder' /\ ClaimRecoverable'
    BY <1>1, <1>4 DEF JoinInv, FilesOK, ReceiptsInOrder, ClaimRecoverable
  <2>4. FilesOK' BY <1>1, <1>4, <2>2, <2>3 DEF JoinInv, FilesOK, Writing
  <2> QED BY <1>1, <2>1, <2>2, <2>4, FileTypes, LocalKeeps
<1> QED BY <1>3, <1>4 DEF ClaimPending

\* The four writes of RecordJoined
LEMMA RecordKeeps ==
  ASSUME JoinInv, NEW o \in Ops, StoreRuntime(o) \/ Bind(o) \/ saveCompletion(o) \/ RemovePending(o)
  PROVE  JoinInv'
<1> USE PeerJoinAssumption
<1> DEFINE PcType == [Ops -> {"idle", "challenged", "joined", "stored", "bound", "marked"}]
<1>0. UNCHANGED <<teamVars, sockVars>> /\ inv' = inv /\ dep' = dep /\ asked' = asked
  BY DEF StoreRuntime, Bind, saveCompletion, RemovePending, teamVars
<1>1. pc[o] \in Writing /\ inv.op = o /\ o \in pend /\ o # None
  BY DEF StoreRuntime, Bind, saveCompletion, RemovePending, JoinInv, FilesOK, Writing
<1>2. \A q \in Ops : pc[q] \in Writing => q = o BY <1>1 DEF JoinInv, FilesOK
<1>3. CASE StoreRuntime(o)
  <2>1. /\ pc[o] = "joined" /\ UNCHANGED <<pend, vault, done>> BY <1>3 DEF StoreRuntime
  <2>2. CASE /\ runtime.state = "none" \/ (runtime.state = "active" /\ runtime.op = o)
             /\ runtime' = [state |-> "active", op |-> o] /\ pc' = [pc EXCEPT ![o] = "stored"]
    <3>1. /\ pc' \in PcType /\ pc'[o] = "stored" /\ \A q \in Ops : q # o => pc'[q] = pc[q]
          /\ runtime' \in [state : {"none", "active", "left"}, op : Ops \cup {None}]
          /\ runtime'.state = "active" /\ runtime'.op = o
      BY <2>2, FileTypes
    <3>2. dep = "none" BY <2>2, FileTypes
    <3>3. done = {} \/ done = {o}
      BY <1>1 DEF JoinInv, FilesOK, ReceiptsInOrder
    <3>4. ReceiptsInOrder'
      BY <2>1, <2>2, <3>1, <3>3 DEF JoinInv, FilesOK, ReceiptsInOrder
    <3>5. ClaimRecoverable' BY <1>0, <2>1 DEF JoinInv, FilesOK, ClaimRecoverable
    <3>6. FilesOK'
      BY <1>0, <1>1, <1>2, <2>1, <3>1, <3>4, <3>5 DEF JoinInv, FilesOK, Writing
    <3> QED BY <1>0, <2>1, <3>1, <3>2, <3>6, FileTypes, LocalKeeps
  <2>3. CASE pc' = [pc EXCEPT ![o] = "idle"] /\ UNCHANGED runtime
    <3>1. pc' \in PcType /\ \A q \in Ops : pc'[q] \in {"idle", pc[q]} BY <2>3, FileTypes
    <3>2. ReceiptsInOrder' /\ ClaimRecoverable'
      BY <1>0, <2>1, <2>3 DEF JoinInv, FilesOK, ReceiptsInOrder, ClaimRecoverable
    <3>3. FilesOK' BY <1>0, <2>1, <2>3, <3>1, <3>2 DEF JoinInv, FilesOK, Writing
    <3> QED BY <1>0, <2>1, <2>3, <3>1, <3>3, FileTypes, LocalKeeps
  <2> QED BY <1>3, <2>2, <2>3 DEF StoreRuntime
<1>4. CASE Bind(o)
  <2>1. pc[o] = "stored" /\ UNCHANGED <<pend, runtime, done>> BY <1>4 DEF Bind
  <2>2. CASE runtime.state = "active" /\ vault' = "active" /\ pc' = [pc EXCEPT ![o] = "bound"]
    <3>1. pc' \in PcType /\ pc'[o] = "bound" /\ \A q \in Ops : q # o => pc'[q] = pc[q]
      BY <2>2, FileTypes
    <3>2. ReceiptsInOrder' /\ ClaimRecoverable'
      BY <1>0, <2>1, <2>2 DEF JoinInv, FilesOK, ReceiptsInOrder, ClaimRecoverable
    <3>3. FilesOK'
      BY <1>0, <1>1, <1>2, <2>1, <2>2, <3>1, <3>2 DEF JoinInv, FilesOK, Writing
    <3> QED BY <1>0, <2>1, <2>2, <3>1, <3>3, FileTypes, LocalKeeps
  <2>3. CASE pc' = [pc EXCEPT ![o] = "idle"] /\ UNCHANGED vault
    <3>1. pc' \in PcType /\ \A q \in Ops : pc'[q] \in {"idle", pc[q]} BY <2>3, FileTypes
    <3>2. ReceiptsInOrder' /\ ClaimRecoverable'
      BY <1>0, <2>1, <2>3 DEF JoinInv, FilesOK, ReceiptsInOrder, ClaimRecoverable
    <3>3. FilesOK' BY <1>0, <2>1, <2>3, <3>1, <3>2 DEF JoinInv, FilesOK, Writing
    <3> QED BY <1>0, <2>1, <2>3, <3>1, <3>3, FileTypes, LocalKeeps
  <2> QED BY <1>4, <2>2, <2>3 DEF Bind
<1>5. CASE saveCompletion(o)
  <2>1. /\ pc[o] = "bound" /\ UNCHANGED <<pend, runtime, vault>>
        /\ done' = done \cup {o} /\ pc' = [pc EXCEPT ![o] = "marked"]
    BY <1>5 DEF saveCompletion
  <2>2. pc' \in PcType /\ pc'[o] = "marked" /\ \A q \in Ops : q # o => pc'[q] = pc[q]
    BY <2>1, FileTypes
  <2>3. runtime.state # "none" /\ runtime.op = o /\ vault = "active"
    BY <1>1, <2>1 DEF JoinInv, FilesOK
  <2>4. done' = {o} BY <2>1, <2>3 DEF JoinInv, FilesOK, ReceiptsInOrder
  <2>5. ReceiptsInOrder' BY <2>1, <2>3, <2>4 DEF ReceiptsInOrder
  <2>6. ClaimRecoverable' BY <1>0, <1>1, <2>1 DEF ClaimRecoverable
  <2>7. FilesOK'
    BY <1>0, <1>1, <1>2, <2>1, <2>2, <2>3, <2>5, <2>6 DEF JoinInv, FilesOK, Writing
  <2> QED BY <1>0, <2>1, <2>2, <2>4, <2>7, FileTypes, LocalKeeps
<1>6. CASE RemovePending(o)
  <2>1. /\ pc[o] = "marked" /\ UNCHANGED <<done, runtime, vault>>
        /\ pend' = pend \ {o} /\ pc' = [pc EXCEPT ![o] = "idle"]
    BY <1>6 DEF RemovePending
  <2>2. pc' \in PcType /\ pc'[o] = "idle" /\ \A q \in Ops : q # o => pc'[q] = pc[q]
    BY <2>1, FileTypes
  <2>3. o \in done BY <2>1 DEF JoinInv, FilesOK
  <2>4. ReceiptsInOrder' BY <2>1 DEF JoinInv, FilesOK, ReceiptsInOrder
  <2>5. ClaimRecoverable' BY <1>0, <1>1, <2>1, <2>3 DEF ClaimRecoverable
  <2>6. FilesOK' BY <1>0, <2>1, <2>2, <2>4, <2>5 DEF JoinInv, FilesOK, Writing
  <2> QED BY <1>0, <2>1, <2>2, <2>6, FileTypes, LocalKeeps
<1> QED BY <1>3, <1>4, <1>5, <1>6

\* The death of the process, the departure and the requests of a browser
LEMMA LeavingKeeps ==
  ASSUME JoinInv, Dies \/ Prepare \/ Synchronize \/ \E e \in Entries : HumanEntry(e)
  PROVE  JoinInv'
<1>1. CASE Dies
  <2>1. /\ UNCHANGED <<teamVars, sockVars, pend, runtime, vault, done, dep, asked>>
        /\ pc' = [o \in Ops |-> "idle"] /\ inv' = inv
    BY <1>1 DEF Dies, teamVars
  <2>2. ReceiptsInOrder' /\ ClaimRecoverable'
    BY <2>1 DEF JoinInv, FilesOK, ReceiptsInOrder, ClaimRecoverable
  <2>3. FilesOK' BY <2>1, <2>2 DEF JoinInv, FilesOK, Writing
  <2> QED BY <2>1, <2>3, FileTypes, LocalKeeps
<1>2. CASE Prepare
  <2>1. /\ UNCHANGED <<teamVars, sockVars, pend, pc, vault, done, asked>> /\ inv' = inv
        /\ runtime.state # "none" /\ runtime' = [runtime EXCEPT !.state = "left"]
        /\ dep' = "pending"
    BY <1>2 DEF Prepare, teamVars
  <2>2. /\ runtime' \in [state : {"none", "active", "left"}, op : Ops \cup {None}]
        /\ runtime'.state = "left" /\ runtime'.op = runtime.op
    BY <2>1, FileTypes
  <2>3. ReceiptsInOrder' /\ ClaimRecoverable'
    BY <2>1, <2>2 DEF JoinInv, FilesOK, ReceiptsInOrder, ClaimRecoverable
  <2>4. FilesOK' BY <2>1, <2>2, <2>3 DEF JoinInv, FilesOK
  <2> QED BY <2>1, <2>2, <2>4, FileTypes, LocalKeeps
<1>3. CASE Synchronize
  <2>1. /\ dep = "pending" /\ member # "none" /\ dep' \in {dep, "confirmed"}
        /\ UNCHANGED <<inv, made, gone, session, sockVars, pend, pc, runtime, vault, done, asked>>
    BY <1>3 DEF Synchronize, leave
  <2>2. /\ NothingOutlives' /\ member' = "revoked" /\ acl' \in BOOLEAN
        /\ binding' \in {"none", "active", "revoked"}
        /\ cred' \in [Entries -> {"none", "issued", "stale", "used", "revoked"}]
    <3>1. CASE member = "active" /\ RevokeMembership
      BY <3>1, RevokedNothing DEF JoinInv
    <3>2. CASE member # "active" /\ UNCHANGED <<member, acl, binding, cred>>
      BY <2>1, <3>2, TeamStays DEF JoinInv, JoinTypeOK, teamVars
    <3> QED BY <1>3, <3>1, <3>2 DEF Synchronize, leave
  <2>3. JoinTypeOK' BY <2>1, <2>2 DEF JoinInv, JoinTypeOK, sockVars
  <2>4. InvitationOK' BY <2>1, <2>2 DEF JoinInv, InvitationOK
  <2>5. ReceiptsInOrder' /\ ClaimRecoverable'
    BY <2>1 DEF JoinInv, FilesOK, ReceiptsInOrder, ClaimRecoverable
  <2>6. FilesOK' BY <2>1, <2>5 DEF JoinInv, FilesOK
  <2>7. LeavingOK' BY <2>1, <2>2 DEF JoinInv, LeavingOK, DepartureTrue
  <2> QED BY <2>1, <2>3, <2>4, <2>6, <2>7, ConnectionsStay DEF JoinInv
<1>4. CASE \E e \in Entries : HumanEntry(e)
  <2>1. /\ UNCHANGED <<teamVars, sockVars, pend, pc, runtime, vault, done, dep>> /\ inv' = inv
        /\ asked' \subseteq Entries
    BY <1>4, FileTypes DEF HumanEntry, teamVars
  <2>2. ReceiptsInOrder' /\ ClaimRecoverable'
    BY <2>1 DEF JoinInv, FilesOK, ReceiptsInOrder, ClaimRecoverable
  <2>3. FilesOK' BY <2>1, <2>2 DEF JoinInv, FilesOK
  <2> QED BY <2>1, <2>3, FileTypes, LocalKeeps
<1> QED BY <1>1, <1>2, <1>3, <1>4

-----------------------------------------------------------------------------
(* The theorems about a membership                                         *)

\* Every step of either side keeps the invariant.
LEMMA JoinStep == JoinInv /\ [JoinNext]_joinVars => JoinInv'
<1> SUFFICES ASSUME JoinInv, [JoinNext]_joinVars PROVE JoinInv' OBVIOUS
<1>1. CASE revokeMembership \/ revokeInvitation \/ InvitationExpires \/ MembershipExpires
  BY <1>1, NarrowingKeeps
<1>2. ASSUME NEW e \in Entries, issue(e) \/ ExchangeExpires(e) \/ consume(e) \/ HumanEntry(e)
      PROVE  JoinInv'
  BY <1>2, EntriesKeep, LeavingKeeps
<1>3. ASSUME NEW s \in Socks, open(s) \/ receive(s) \/ close(s) PROVE JoinInv'
  BY <1>3, SocketsKeep
<1>4. ASSUME NEW o \in Ops, \/ confirm(o) \/ completion(o) \/ challenge(o) \/ ClaimPending(o)
                            \/ StoreRuntime(o) \/ Bind(o) \/ saveCompletion(o) \/ RemovePending(o)
      PROVE  JoinInv'
  BY <1>4, AskingKeeps, JoinClaimKeeps, RecordKeeps
<1>5. CASE Dies \/ Prepare \/ Synchronize BY <1>5, LeavingKeeps
<1>6. CASE UNCHANGED joinVars
  <2>1. UNCHANGED <<teamVars, sockVars, localVars>> /\ inv' = inv
    BY <1>6 DEF joinVars, teamVars
  <2>2. FilesOK' BY <2>1, FilesStay
  <2> QED BY <2>1, <2>2, FileTypes, LocalKeeps DEF localVars
<1> QED BY <1>1, <1>2, <1>3, <1>4, <1>5, <1>6 DEF JoinNext

\* For any operations, entries and connections, over lost answers, deaths and expiry: one
\* invitation makes one member, the Participant's receipts are of the operation it was
\* consumed for, appear in order and can be recovered, nothing of a member outlives the
\* membership, and the Host serves one connection (claimVerifiedInvitation, RecordJoined).
THEOREM MembershipIsKept == JoinSpec => []MembershipKept
<1>1. JoinInit => JoinInv BY JoinInitOK
<1>2. JoinInv /\ [JoinNext]_joinVars => JoinInv' BY JoinStep
<1>3. JoinInv => MembershipKept BY JoinInvKept
<1> QED BY <1>1, <1>2, <1>3, PTL DEF JoinSpec

\* A withdrawal is never reversed, by no late answer, repeated claim or recovery
\* (claimVerifiedInvitation, StoreRuntime, Departure.Prepare).
LEMMA WithdrawalStep == JoinInv /\ [JoinNext]_joinVars => [WithdrawalStands]_joinVars
<1> SUFFICES ASSUME JoinInv, JoinNext PROVE WithdrawalStands OBVIOUS
<1>1. runtime.state = "left" => runtime'.state = "left"
  <2>1. runtime \in [state : {"none", "active", "left"}, op : Ops \cup {None}] BY FileTypes
  <2>2. UNCHANGED runtime \/ Prepare \/ \E o \in Ops : StoreRuntime(o)
    BY DEF JoinNext, revokeMembership, revokeInvitation, InvitationExpires, MembershipExpires,
           issue, ExchangeExpires, consume, HumanEntry, open, receive, close, confirm,
           completion, challenge, ClaimPending, Bind, saveCompletion, RemovePending, Dies,
           Synchronize, localVars
  <2> QED BY <2>1, <2>2 DEF Prepare, StoreRuntime
<1>2. member = "revoked" => member' = "revoked"
  <2>1. ASSUME NEW o \in Ops, claim(o) PROVE member # "revoked" BY <2>1, ClaimMakes
  <2>2. member' = member \/ RevokeMembership \/ \E o \in Ops : claim(o)
    BY DEF JoinNext, revokeMembership, revokeInvitation, InvitationExpires, MembershipExpires,
           issue, ExchangeExpires, consume, HumanEntry, open, receive, close, confirm,
           completion, challenge, ClaimPending, StoreRuntime, Bind, saveCompletion,
           RemovePending, Dies, Prepare, Synchronize, leave, teamVars
  <2> QED BY <2>1, <2>2 DEF RevokeMembership
<1>3. dep # "none" => dep' # "none"
  <2>1. dep' = dep \/ dep' = "pending" \/ dep' = "confirmed"
    BY DEF JoinNext, revokeMembership, revokeInvitation, InvitationExpires, MembershipExpires,
           issue, ExchangeExpires, consume, HumanEntry, open, receive, close, confirm,
           completion, challenge, ClaimPending, StoreRuntime, Bind, saveCompletion,
           RemovePending, Dies, Prepare, Synchronize, leave, localVars
  <2> QED BY <2>1
<1> QED BY <1>1, <1>2, <1>3 DEF WithdrawalStands

\* For any operations, entries and connections a withdrawal is never reversed on either side.
THEOREM WithdrawalAlwaysStands == JoinSpec => [][WithdrawalStands]_joinVars
<1>1. JoinInit => JoinInv BY JoinInitOK
<1>2. JoinInv /\ [JoinNext]_joinVars => JoinInv' BY JoinStep
<1>3. JoinInv /\ [JoinNext]_joinVars => [WithdrawalStands]_joinVars BY WithdrawalStep
<1> QED BY <1>1, <1>2, <1>3, PTL DEF JoinSpec

-----------------------------------------------------------------------------
(* The inductive invariant of an export                                    *)
(*                                                                         *)
(* Every history is append-only and carried whole, so all of it is said of *)
(* prefixes: of the grants, the copy of the Host and a request on its way; *)
(* of the acceptances, the snapshot the Participant holds and an answer.   *)

Prefix(s, t) == Len(s) <= Len(t) /\ \A i \in 1..Len(s) : s[i] = t[i]

\* Lineages are numbered as they begin, and their revisions as they are written.
Numbered(log) ==
  /\ \A i \in DOMAIN log : log[i].id \in 1..i /\ log[i].rev \in 1..i
  /\ \E k \in Nat : {log[i].id : i \in DOMAIN log} = 1..k

\* No two entries have one key.
Increasing(log) ==
  \A i, j \in DOMAIN log : i < j /\ log[i].id = log[j].id => log[i].rev < log[j].rev

GrantsOK ==
  /\ exports \in Seq(Grants) /\ Len(exports) <= MaxGrants
  /\ Numbered(exports) /\ Increasing(exports)
  /\ grants \in Seq(Grants) /\ Prefix(grants, exports)
  /\ synced \in 0..Len(exports)

AcceptsOK ==
  /\ accepts \in Seq(Acceptances) /\ Numbered(accepts)
  /\ accepted \in Seq(Acceptances) /\ Prefix(accepted, accepts)
  /\ NoWidening

WireOK ==
  wire # Absent =>
    /\ wire.offers \in Seq(Grants) /\ Prefix(wire.offers, exports)
    /\ wire.hist \in Seq(Acceptances) /\ Prefix(wire.hist, accepts)

\* An Owner whose expected revision is that of the store has read what it holds.
ViewOK ==
  /\ view = [seen |-> view.seen, cfg |-> view.cfg, fresh |-> view.fresh]
  /\ view.fresh => view.seen = peerAuthorizationDigest

\* A worker that is not canceled runs under the grants and the trust of the store, and of
\* a connection that is active, once the calls that changed them have ended.
ConnectorOK ==
  /\ worker # Absent =>
       /\ worker = [digest |-> worker.digest, state |-> worker.state]
       /\ worker.state \in {"connecting", "online", "canceled"}
       /\ worker.state # "canceled" /\ ConsoleFree => worker.digest[1] = exports /\ worker.digest[3] = trust
       /\ worker.state # "canceled" /\ link = "left" => "departure" \in owed
  /\ process # Absent =>
       /\ process = [binding |-> process.binding, room |-> process.room, answer |-> process.answer]
       /\ Online /\ \E i \in DOMAIN exports : Key(exports[i]) = process.binding

RestingOK ==
  /\ trust \in 0..MaxTrust /\ cfg \in Configs /\ link \in {"active", "left"}
  /\ owed \subseteq {"console", "departure"}
  /\ guest \in BOOLEAN /\ access \subseteq Rooms
  /\ agent \in [enabled : BOOLEAN, rooms : SUBSET Rooms] /\ epochs \in 0..MaxEpochs

ExportInv == GrantsOK /\ AcceptsOK /\ WireOK /\ ViewOK /\ ConnectorOK /\ RestingOK

-----------------------------------------------------------------------------
(* Lemmas on histories                                                     *)

\* A set of numbers that is bounded and not empty has a greatest member.
LEMMA GreatestPosition ==
  ASSUME NEW n \in Nat, NEW T \in SUBSET (0..n), T # {}
  PROVE  \E m \in T : \A k \in T : k <= m
<1> DEFINE U == {n - k : k \in T}
           R == {ss \in Nat \X Nat : ss[1] < ss[2]}
<1>1. \A k \in T : n - k \in Nat OBVIOUS
<1>2. U \subseteq Nat /\ U # {} BY <1>1
<1>3. IsWellFoundedOn(R, Nat) BY NatLessThanWellFounded, Zenon DEF OpToRel
<1>4. PICK u \in U : \A v \in U : ~(<<v, u>> \in R)
  <2> HIDE DEF U, R
  <2> QED BY <1>2, <1>3, WFMin
<1>5. \A v \in U : ~(v < u) BY <1>2, <1>4
<1>6. PICK m \in T : u = n - m OBVIOUS
<1>7. \A k \in T : n - k \in U OBVIOUS
<1> HIDE DEF U
<1>8. \A k \in T : k <= m BY <1>5, <1>6, <1>7
<1> QED BY <1>8

\* LastAt is the entry at the last of the positions.
LEMMA LastOfPositions ==
  ASSUME NEW log, NEW n \in Nat, NEW at \in SUBSET (1..n), at # {}
  PROVE  \E i \in at : LastAt(log, at) = log[i] /\ \A j \in at : j <= i
<1>0. at \in SUBSET (0..n) OBVIOUS
<1>1. \E i \in at : \A j \in at : j <= i BY <1>0, GreatestPosition
<1> DEFINE last == CHOOSE i \in at : \A j \in at : j <= i
<1>2. last \in at /\ \A j \in at : j <= last BY <1>1
<1>3. LastAt(log, at) = log[last] BY DEF LastAt
<1> QED BY <1>2, <1>3

\* A prefix of a prefix is a prefix, and what is appended changes no prefix.
LEMMA PrefixGrows ==
  ASSUME NEW S, NEW s \in Seq(S), NEW t \in Seq(S), Prefix(s, t), NEW x \in S
  PROVE  Prefix(s, Append(t, x)) /\ Append(t, x) \in Seq(S)
BY DEF Prefix

\* A concatenation has the entries of both, in their order.
LEMMA Concatenated ==
  ASSUME NEW S, NEW s \in Seq(S), NEW t \in Seq(S)
  PROVE  /\ s \o t \in Seq(S) /\ Len(s \o t) = Len(s) + Len(t)
         /\ \A i \in 1..Len(s) : (s \o t)[i] = s[i]
         /\ \A i \in (Len(s) + 1)..(Len(s) + Len(t)) : (s \o t)[i] = t[i - Len(s)]
OBVIOUS

\* The current grant is the last entry of the lineage with the highest number.
LEMMA CurrentOfLog ==
  ASSUME NEW log \in Seq(Grants), log # <<>>
  PROVE  \E i \in DOMAIN log :
           /\ currentLocalGrant(log) = log[i]
           /\ \A j \in DOMAIN log : log[j].id <= log[i].id
           /\ \A j \in DOMAIN log : log[j].id = log[i].id => j <= i
<1> DEFINE n == Len(log)
           ids == {log[j].id : j \in DOMAIN log}
           at == {i \in DOMAIN log : \A j \in DOMAIN log : log[j].id <= log[i].id}
<1>1. n \in Nat /\ DOMAIN log = 1..n /\ n # 0 OBVIOUS
<1>2. \A i \in DOMAIN log : log[i].id \in 1..MaxGrants
  <2>1. \A i \in DOMAIN log : log[i] \in Grants BY <1>1
  <2> QED BY <2>1 DEF Grants
<1>3. MaxGrants \in Nat BY PeerExportAssumption
<1>4. ids \in SUBSET (0..MaxGrants) /\ ids # {} BY <1>1, <1>2, <1>3
<1>5. PICK h \in ids : \A k \in ids : k <= h
  <2> HIDE DEF ids
  <2> QED BY <1>3, <1>4, GreatestPosition
<1>6. PICK p \in DOMAIN log : log[p].id = h OBVIOUS
<1>7. p \in at BY <1>5, <1>6
<1>8. at \in SUBSET (1..n) /\ at # {} BY <1>1, <1>7
<1>9. PICK i \in at : LastAt(log, at) = log[i] /\ \A j \in at : j <= i
  <2> HIDE DEF at, n
  <2> QED BY <1>1, <1>8, LastOfPositions
<1>10. currentLocalGrant(log) = log[i] BY <1>9 DEF currentLocalGrant
<1>11. ASSUME NEW j \in DOMAIN log, log[j].id = log[i].id PROVE j <= i
  <2>1. j \in at BY <1>11
  <2> QED BY <1>9, <2>1
<1> QED BY <1>10, <1>11

IdsOf(log) == {log[i].id : i \in DOMAIN log}

\* The lineages of a numbered log are counted by their numbers.
LEMMA IdsCounted ==
  ASSUME NEW S, NEW log \in Seq(S), Numbered(log)
  PROVE  /\ Cardinality(IdsOf(log)) \in 0..Len(log)
         /\ IdsOf(log) = 1..Cardinality(IdsOf(log))
<1>1. PICK k \in Nat : IdsOf(log) = 1..k BY DEF Numbered, IdsOf
<1>2. Cardinality(1..k) = k BY <1>1, FS_Interval
<1>3. k <= Len(log)
  <2>1. CASE k = 0 BY <2>1
  <2>2. CASE k # 0
    <3>0. k \in IdsOf(log) BY <1>1, <2>2
    <3>1. PICK i \in DOMAIN log : log[i].id = k BY <3>0 DEF IdsOf
    <3> QED BY <3>1 DEF Numbered
  <2> QED BY <2>1, <2>2
<1> QED BY <1>1, <1>2, <1>3

\* An entry of a lineage that was begun, or the first of the next one, keeps the numbers.
LEMMA NumberedGrows ==
  ASSUME NEW S, NEW log \in Seq(S), Numbered(log), NEW x \in S,
         \/ x.id \in IdsOf(log) /\ x.rev \in 1..(Len(log) + 1)
         \/ x.id = 1 + Cardinality(IdsOf(log)) /\ x.rev = 1
  PROVE  /\ Numbered(Append(log, x))
         /\ x.id \in 1..(Len(log) + 1) /\ x.rev \in 1..(Len(log) + 1)
<1> DEFINE n == Len(log)
           c == Cardinality(IdsOf(log))
           new == Append(log, x)
<1>1. n \in Nat /\ DOMAIN log = 1..n OBVIOUS
<1>2. c \in 0..n /\ IdsOf(log) = 1..c BY IdsCounted
<1>3. DOMAIN new = 1..(n + 1) /\ new[n + 1] = x /\ \A i \in 1..n : new[i] = log[i] OBVIOUS
<1> HIDE DEF n, c, new
<1>4. x.id \in 1..(n + 1) /\ x.rev \in 1..(n + 1) BY <1>1, <1>2 DEF n, c
<1>5. \A i \in DOMAIN new : new[i].id \in 1..i /\ new[i].rev \in 1..i
  <2> SUFFICES ASSUME NEW i \in 1..(n + 1) PROVE new[i].id \in 1..i /\ new[i].rev \in 1..i
    BY <1>3
  <2>1. CASE i = n + 1 BY <1>3, <1>4, <2>1
  <2>2. CASE i # n + 1
    <3>1. i \in 1..n BY <1>1, <2>2
    <3> QED BY <1>1, <1>3, <3>1 DEF Numbered
  <2> QED BY <2>1, <2>2
<1>6. {new[i].id : i \in DOMAIN new} = IdsOf(log) \cup {x.id}
  <2>1. \A i \in 1..n : i \in 1..(n + 1) BY <1>1
  <2>2. n + 1 \in 1..(n + 1) BY <1>1
  <2>3. \A i \in 1..(n + 1) : i \in 1..n \/ i = n + 1 BY <1>1
  <2> QED BY <1>1, <1>3, <2>1, <2>2, <2>3 DEF IdsOf
<1>7. \E k \in Nat : {new[i].id : i \in DOMAIN new} = 1..k
  <2>1. CASE x.id \in IdsOf(log)
    <3>1. IdsOf(log) \cup {x.id} = 1..c BY <1>2, <2>1
    <3> QED BY <1>2, <1>1, <1>6, <3>1
  <2>2. CASE x.id = 1 + c
    <3>1. (1..c) \cup {x.id} = 1..(c + 1) BY <1>1, <1>2, <2>2
    <3>2. c + 1 \in Nat BY <1>1, <1>2
    <3> QED BY <1>2, <1>6, <3>1, <3>2
  <2> QED BY <2>1, <2>2 DEF c
<1> QED BY <1>4, <1>5, <1>7 DEF Numbered, n, new

\* An entry whose revision is above those of its lineage has a key of its own.
LEMMA IncreasingGrows ==
  ASSUME NEW S, NEW log \in Seq(S), Increasing(log), NEW x \in S,
         \A i \in DOMAIN log : log[i].id = x.id => log[i].rev < x.rev
  PROVE  Increasing(Append(log, x))
<1> DEFINE n == Len(log)
           new == Append(log, x)
<1>1. n \in Nat /\ DOMAIN log = 1..n OBVIOUS
<1>2. DOMAIN new = 1..(n + 1) /\ new[n + 1] = x /\ \A i \in 1..n : new[i] = log[i] OBVIOUS
<1> HIDE DEF n, new
<1> SUFFICES ASSUME NEW i \in 1..(n + 1), NEW j \in 1..(n + 1), i < j, new[i].id = new[j].id
             PROVE  new[i].rev < new[j].rev
  BY <1>2 DEF Increasing, new
<1>3. i \in 1..n /\ new[i] = log[i] BY <1>1, <1>2
<1>4. CASE j = n + 1 BY <1>1, <1>2, <1>3, <1>4
<1>5. CASE j # n + 1
  <2>1. j \in 1..n /\ new[j] = log[j] BY <1>1, <1>2, <1>5
  <2> QED BY <1>1, <1>3, <2>1 DEF Increasing
<1> QED BY <1>4, <1>5

\* What the Host appends of a history continues its copy.
LEMMA NewGrantsContinue ==
  ASSUME NEW offers \in Seq(Grants), GrantsOK, Prefix(offers, exports)
  PROVE  /\ grants \o NewGrants(offers) \in Seq(Grants)
         /\ Prefix(grants \o NewGrants(offers), exports)
<1> DEFINE m == Len(grants)
           n == Len(offers)
           new == {i \in DOMAIN offers : ~KnownGrant(offers[i])}
           c == Cardinality(new)
           at(k) == CHOOSE i \in new : Cardinality({j \in new : j <= i}) = k
           tail == NewGrants(offers)
<1>1. /\ m \in Nat /\ n \in Nat /\ Len(exports) \in Nat /\ m <= Len(exports) /\ n <= Len(exports)
      /\ DOMAIN grants = 1..m /\ DOMAIN offers = 1..n /\ DOMAIN exports = 1..Len(exports)
      /\ \A i \in 1..m : grants[i] = exports[i]
      /\ \A i \in 1..n : offers[i] = exports[i]
      /\ grants \in Seq(Grants)
  BY DEF GrantsOK, Prefix
<1>2. tail = [k \in 1..c |-> offers[at(k)]] BY DEF NewGrants
<1>3. \A i \in 1..n : offers[i] \in Grants OBVIOUS
<1>4. ASSUME NEW i \in 1..n PROVE KnownGrant(offers[i]) <=> i <= m
  <2>1. CASE i <= m
    <3>1. i \in DOMAIN grants /\ Key(grants[i]) = Key(offers[i]) BY <1>1, <2>1
    <3> QED BY <2>1, <3>1 DEF KnownGrant
  <2>2. CASE ~(i <= m)
    <3> SUFFICES ASSUME NEW j \in DOMAIN grants, Key(grants[j]) = Key(offers[i]) PROVE FALSE
      BY <2>2 DEF KnownGrant
    <3>1. j \in DOMAIN exports /\ i \in DOMAIN exports /\ j < i BY <1>1, <2>2
    <3>2. exports[j].id = exports[i].id /\ exports[j].rev = exports[i].rev BY <1>1, <3>1 DEF Key
    <3>3. exports[j].rev < exports[i].rev BY <3>1, <3>2 DEF GrantsOK, Increasing
    <3>4. exports[i].rev \in Nat BY <3>1 DEF GrantsOK, Numbered
    <3> QED BY <3>2, <3>3, <3>4
  <2> QED BY <2>1, <2>2
<1>5. new = (m + 1)..n BY <1>1, <1>4
<1> HIDE DEF new, tail, m, n
<1>6. c \in Nat /\ (c > 0 => m + c = n)
  <2>1. m + 1 \in Int /\ n \in Int BY <1>1
  <2>2. c = IF m + 1 > n THEN 0 ELSE n - (m + 1) + 1 BY <1>5, <2>1, FS_Interval
  <2> HIDE DEF c
  <2> QED BY <1>1, <2>2
<1>7. ASSUME NEW k \in 1..c PROVE at(k) = m + k /\ m + k \in 1..n
  <2>1. m + k \in new /\ m + k \in 1..n BY <1>1, <1>5, <1>6
  <2>2. ASSUME NEW i \in new PROVE Cardinality({j \in new : j <= i}) = i - m
    <3>1. {j \in new : j <= i} = (m + 1)..i BY <1>1, <1>5
    <3>2. i \in Int /\ m + 1 \in Int /\ m + 1 <= i BY <1>1, <1>5
    <3>3. Cardinality((m + 1)..i) = i - m BY <1>1, <3>2, FS_Interval
    <3> QED BY <3>1, <3>3
  <2>3. \A i \in new : i \in Int BY <1>1, <1>5
  <2>4. \E i \in new : Cardinality({j \in new : j <= i}) = k BY <1>1, <1>6, <2>1, <2>2
  <2>5. at(k) \in new /\ Cardinality({j \in new : j <= at(k)}) = k BY <2>4
  <2> HIDE DEF at, c
  <2>6. PICK p : p = at(k) OBVIOUS
  <2>7. p \in Int /\ p - m = k BY <2>2, <2>3, <2>5, <2>6
  <2>8. p = m + k BY <1>1, <1>6, <2>7
  <2> QED BY <2>1, <2>6, <2>8
<1> HIDE DEF c, at
<1>8. tail = [k \in 1..c |-> exports[m + k]] BY <1>1, <1>2, <1>7
<1>9. \A k \in 1..c : exports[m + k] \in Grants BY <1>1, <1>3, <1>7
<1>10. tail \in Seq(Grants) /\ Len(tail) = c BY <1>6, <1>8, <1>9
<1>11. m + c <= Len(exports) BY <1>1, <1>6
<1> DEFINE all == grants \o tail
<1>12. /\ all \in Seq(Grants) /\ Len(all) = m + c
       /\ \A i \in 1..m : all[i] = grants[i]
       /\ \A i \in (m + 1)..(m + c) : all[i] = tail[i - m]
  <2>1. grants \in Seq(Grants) /\ tail \in Seq(Grants) BY <1>1, <1>10
  <2>2. /\ all \in Seq(Grants) /\ Len(all) = Len(grants) + Len(tail)
        /\ \A i \in 1..Len(grants) : all[i] = grants[i]
        /\ \A i \in (Len(grants) + 1)..(Len(grants) + Len(tail)) : all[i] = tail[i - Len(grants)]
    BY <2>1, Concatenated, Zenon
  <2> HIDE DEF all
  <2> QED BY <1>10, <2>2 DEF m
<1> HIDE DEF all
<1>13. ASSUME NEW i \in 1..(m + c) PROVE all[i] = exports[i]
  <2>1. CASE i <= m BY <1>1, <1>12, <2>1
  <2>2. CASE ~(i <= m)
    <3>1. i \in (m + 1)..(m + c) /\ i - m \in 1..c /\ m + (i - m) = i BY <1>1, <1>6, <2>2
    <3>2. all[i] = tail[i - m] BY <1>12, <3>1
    <3>3. tail[i - m] = exports[m + (i - m)] BY <1>8, <3>1
    <3> QED BY <3>1, <3>2, <3>3
  <2> QED BY <2>1, <2>2
<1>14. Prefix(all, exports) BY <1>11, <1>12, <1>13 DEF Prefix
<1> QED BY <1>12, <1>14 DEF all, tail

-----------------------------------------------------------------------------
(* What a step leaves alone                                                *)

\* The parts of the invariant that a step does not touch.
LEMMA PartsStay ==
  ASSUME ExportInv
  PROVE  /\ UNCHANGED <<exports, grants, synced>> => GrantsOK'
         /\ UNCHANGED <<accepts, accepted, exports>> => AcceptsOK'
         /\ UNCHANGED <<wire, exports, accepts>> => WireOK'
         /\ UNCHANGED <<view, exports, accepted, trust>> => ViewOK'
         /\ UNCHANGED <<worker, process, owed, link, exports, trust>> => ConnectorOK'
         /\ UNCHANGED <<trust, cfg, link, owed, guest, access, agent, epochs>> => RestingOK'
<1>1. UNCHANGED <<exports, grants, synced>> => GrantsOK' BY DEF ExportInv, GrantsOK
<1>2. UNCHANGED <<accepts, accepted, exports>> => AcceptsOK' BY DEF ExportInv, AcceptsOK, NoWidening
<1>3. UNCHANGED <<wire, exports, accepts>> => WireOK' BY DEF ExportInv, WireOK
<1>4. UNCHANGED <<view, exports, accepted, trust>> => ViewOK'
  BY DEF ExportInv, ViewOK, peerAuthorizationDigest
<1>5. UNCHANGED <<worker, process, owed, link, exports, trust>> => ConnectorOK'
  BY DEF ExportInv, ConnectorOK, Online, ConsoleFree
<1>6. UNCHANGED <<trust, cfg, link, owed, guest, access, agent, epochs>> => RestingOK'
  BY DEF ExportInv, RestingOK
<1> QED BY <1>1, <1>2, <1>3, <1>4, <1>5, <1>6

\* A write takes the Owner's reading from it.
LEMMA WriteEndsReading ==
  ASSUME ExportInv, BackgroundUpdate
  PROVE  ViewOK'
BY DEF BackgroundUpdate, ExportInv, ViewOK

\* A write that is stored leaves the worker and its children as they are: what it owes
\* them is noted.
LEMMA PersistedKeeps ==
  ASSUME ExportInv, NEW call \in {"console", "departure"}, Persisted(call),
         call = "console" => UNCHANGED link,
         call = "departure" => UNCHANGED trust /\ UNCHANGED exports,
         \A j \in DOMAIN exports : j \in DOMAIN exports' /\ exports'[j] = exports[j]
  PROVE  ConnectorOK' /\ owed' \subseteq {"console", "departure"}
<1>1. /\ UNCHANGED <<worker, process>> /\ owed' = owed \cup {call}
      /\ owed' \subseteq {"console", "departure"}
  BY DEF Persisted, ExportInv, RestingOK
<1>2. Online' = Online BY <1>1 DEF Online
<1>3. process' # Absent =>
        /\ process' = [binding |-> process'.binding, room |-> process'.room, answer |-> process'.answer]
        /\ Online' /\ \E i \in DOMAIN exports' : Key(exports'[i]) = process'.binding
  BY <1>1, <1>2 DEF ExportInv, ConnectorOK, Key
<1>4. worker' # Absent =>
        /\ worker' = [digest |-> worker'.digest, state |-> worker'.state]
        /\ worker'.state \in {"connecting", "online", "canceled"}
        /\ worker'.state # "canceled" /\ ConsoleFree' => worker'.digest[1] = exports' /\ worker'.digest[3] = trust'
        /\ worker'.state # "canceled" /\ link' = "left" => "departure" \in owed'
  <2>1. CASE call = "console" BY <1>1, <2>1 DEF ExportInv, ConnectorOK, ConsoleFree
  <2>2. CASE call = "departure" BY <1>1, <2>2 DEF ExportInv, ConnectorOK, ConsoleFree
  <2> QED BY <2>1, <2>2
<1> QED BY <1>1, <1>3, <1>4 DEF ConnectorOK, Key

\* LocalChange: a worker that goes on is of what the store holds.
LEMMA LocalChangeKeeps ==
  ASSUME ExportInv, NEW call \in {"console", "departure"}, LocalChange(call)
  PROVE  ExportInv'
<1>1. /\ UNCHANGED <<exports, synced, accepted, trust, cfg, link, epochs, grants, accepts, guest,
                     access, agent, view, wire>>
      /\ owed' = owed \ {call}
  BY DEF LocalChange, storeVars, hostSide
<1>2. ConnectorOK'
  <2>1. CASE worker = Absent /\ UNCHANGED <<worker, process>>
    BY <1>1, <2>1 DEF ExportInv, ConnectorOK, Online
  <2>2. CASE worker # Absent /\ link = "active" /\ worker.digest = peerAuthorizationDigest
             /\ UNCHANGED <<worker, process>>
    <3>1. worker.digest[1] = exports /\ worker.digest[3] = trust BY <2>2 DEF peerAuthorizationDigest
    <3> QED BY <1>1, <2>2, <3>1 DEF ExportInv, ConnectorOK, Online
  <2>3. CASE worker # Absent /\ worker' = [worker EXCEPT !.state = "canceled"] /\ process' = Absent
    BY <2>3 DEF ExportInv, ConnectorOK, Online
  <2> QED BY <2>1, <2>2, <2>3 DEF LocalChange
<1>3. RestingOK' BY <1>1 DEF ExportInv, RestingOK
<1> QED BY <1>1, <1>2, <1>3, PartsStay DEF ExportInv

-----------------------------------------------------------------------------
(* The Participant's writes                                                *)

\* A grant with a key of its own is appended to the history.
LEMMA GrantAppended ==
  ASSUME ExportInv, NEW g, exports' = Append(exports, g), Len(exports) < MaxGrants,
         \/ g.id \in IdsOf(exports) /\ g.rev \in 1..(Len(exports) + 1)
         \/ g.id = 1 + Cardinality(IdsOf(exports)) /\ g.rev = 1,
         \A i \in DOMAIN exports : exports[i].id = g.id => exports[i].rev < g.rev,
         g = [id |-> g.id, rev |-> g.rev, state |-> g.state, rooms |-> g.rooms, cfg |-> g.cfg],
         g.state \in {"active", "revoked"}, g.rooms \in RoomSets, g.cfg \in Configs,
         Update, Persisted("console"),
         UNCHANGED <<synced, accepted, trust, cfg, link, hostSide, epochs, lapsed, hview, wire>>
  PROVE  ExportInv'
<1>1. exports \in Seq(Grants) /\ Numbered(exports) /\ Increasing(exports) /\ Len(exports) \in Nat
      /\ Prefix(grants, exports) /\ grants \in Seq(Grants) /\ synced \in 0..Len(exports)
  BY DEF ExportInv, GrantsOK
<1>2. UNCHANGED <<grants, accepts, guest, access, agent>> BY DEF hostSide
<1>3. g.id \in 1..MaxGrants /\ g.rev \in 1..MaxGrants
  <2>1. MaxGrants \in Nat BY PeerExportAssumption
  <2>2. \A i \in DOMAIN exports : i \in 1..Len(exports) BY <1>1
  <2>3. Cardinality(IdsOf(exports)) \in 0..Len(exports)
        /\ IdsOf(exports) = 1..Cardinality(IdsOf(exports))
    BY <1>1, IdsCounted
  <2> QED BY <1>1, <2>1, <2>3
<1>4. g \in Grants BY <1>3 DEF Grants, RoomSets
<1>5. Numbered(exports') BY <1>1, <1>4, NumberedGrows
<1>6. Increasing(exports') BY <1>1, <1>4, IncreasingGrows
<1>7. /\ exports' \in Seq(Grants) /\ Len(exports') = Len(exports) + 1
      /\ \A i \in 1..Len(exports) : exports'[i] = exports[i]
  BY <1>1, <1>4
<1>8. \A s \in Seq(Grants) : Prefix(s, exports) => Prefix(s, exports')
  BY <1>1, <1>4, PrefixGrows
<1>9. GrantsOK'
  <2>1. Len(exports') <= MaxGrants /\ synced' \in 0..Len(exports')
    BY <1>1, <1>7, PeerExportAssumption
  <2> QED BY <1>1, <1>2, <1>5, <1>6, <1>7, <1>8, <2>1 DEF GrantsOK
<1>10. AcceptsOK'
  <2>1. NoWidening'
    <3>1. \A j \in DOMAIN exports : j \in DOMAIN exports' /\ exports'[j] = exports[j]
      BY <1>1, <1>7
    <3> QED BY <1>2, <3>1 DEF ExportInv, AcceptsOK, NoWidening
  <2> QED BY <1>2, <2>1 DEF ExportInv, AcceptsOK
<1>11. WireOK' BY <1>2, <1>8 DEF ExportInv, WireOK
<1>12. ViewOK' BY WriteEndsReading DEF Update, BackgroundUpdate
<1>13. ConnectorOK' /\ owed' \subseteq {"console", "departure"}
  <2>1. \A j \in DOMAIN exports : j \in DOMAIN exports' /\ exports'[j] = exports[j]
    BY <1>1, <1>7
  <2> QED BY <2>1, PersistedKeeps
<1>14. RestingOK' BY <1>2, <1>13 DEF ExportInv, RestingOK
<1> QED BY <1>9, <1>10, <1>11, <1>12, <1>13, <1>14 DEF ExportInv

\* Prepare appends the next revision of the current grant or the first of a new one.
LEMMA PrepareGrantKeeps ==
  ASSUME ExportInv, NEW rooms \in RoomSets, NEW replace \in BOOLEAN, PrepareGrant(rooms, replace)
  PROVE  ExportInv'
<1> DEFINE previous == currentLocalGrant(exports)
           continue == previous # Absent /\ ~replace
           new == 1 + Cardinality({exports[i].id : i \in DOMAIN exports})
           g == [id |-> IF continue THEN previous.id ELSE new,
                 rev |-> IF continue THEN previous.rev + 1 ELSE 1,
                 state |-> "active", rooms |-> rooms, cfg |-> cfg]
<1>1. /\ exports' = Append(exports, g) /\ Len(exports) < MaxGrants /\ Update /\ Persisted("console")
      /\ UNCHANGED <<synced, accepted, trust, cfg, link, hostSide, epochs, lapsed, hview, wire>>
  BY DEF PrepareGrant
<1>2. exports \in Seq(Grants) /\ Numbered(exports) /\ Increasing(exports) /\ Len(exports) \in Nat
      /\ DOMAIN exports = 1..Len(exports)
  BY DEF ExportInv, GrantsOK
<1>3. \A i \in DOMAIN exports : exports[i].id \in 1..i /\ exports[i].rev \in 1..i
  BY <1>2 DEF Numbered
<1>4. CASE continue
  <2>1. exports # <<>> BY <1>4 DEF currentLocalGrant
  <2>2. PICK i \in DOMAIN exports :
           /\ previous = exports[i]
           /\ \A j \in DOMAIN exports : exports[j].id = exports[i].id => j <= i
    BY <1>2, <2>1, CurrentOfLog
  <2> HIDE DEF previous
  <2>3. g.id = exports[i].id /\ g.rev = exports[i].rev + 1 BY <1>4, <2>2
  <2>4. g.id \in IdsOf(exports) BY <2>3 DEF IdsOf
  <2>5. g.rev \in 1..(Len(exports) + 1) BY <1>2, <1>3, <2>2, <2>3
  <2>6. ASSUME NEW j \in DOMAIN exports, exports[j].id = g.id PROVE exports[j].rev < g.rev
    <3>1. j <= i /\ exports[j].id = exports[i].id BY <2>2, <2>3, <2>6
    <3>2. j = i \/ exports[j].rev < exports[i].rev BY <1>2, <3>1 DEF Increasing
    <3> QED BY <1>2, <1>3, <2>2, <2>3, <3>2
  <2> DEFINE h == g
  <2>7. /\ h = [id |-> h.id, rev |-> h.rev, state |-> h.state, rooms |-> h.rooms, cfg |-> h.cfg]
        /\ h.state \in {"active", "revoked"} /\ h.rooms \in RoomSets /\ h.cfg \in Configs
    BY DEF ExportInv, RestingOK
  <2> HIDE DEF g, h
  <2> QED BY <1>1, <2>4, <2>5, <2>6, <2>7, GrantAppended DEF h
<1>5. CASE ~continue
  <2>1. g.id = new /\ g.rev = 1 BY <1>5
  <2>2. new = 1 + Cardinality(IdsOf(exports)) BY DEF IdsOf
  <2>3. Cardinality(IdsOf(exports)) \in Nat /\ IdsOf(exports) = 1..Cardinality(IdsOf(exports))
    BY <1>2, IdsCounted
  <2> HIDE DEF new
  <2>4. \A j \in DOMAIN exports : exports[j].id # g.id
    <3>1. \A j \in DOMAIN exports : exports[j].id \in IdsOf(exports) BY DEF IdsOf
    <3>2. new \notin IdsOf(exports) BY <2>2, <2>3
    <3> QED BY <2>1, <3>1, <3>2
  <2>5. /\ g = [id |-> g.id, rev |-> g.rev, state |-> g.state, rooms |-> g.rooms, cfg |-> g.cfg]
        /\ g.state \in {"active", "revoked"} /\ g.rooms \in RoomSets /\ g.cfg \in Configs
    BY DEF ExportInv, RestingOK
  <2> HIDE DEF g
  <2> QED BY <1>1, <2>1, <2>2, <2>4, <2>5, GrantAppended
<1> QED BY <1>4, <1>5

\* Withdraw appends the revocation of a lineage's last revision.
LEMMA WithdrawKeeps ==
  ASSUME ExportInv, NEW id \in 1..MaxGrants, Withdraw(id)
  PROVE  ExportInv'
<1> DEFINE at == Lineage(exports, id)
           previous == LastAt(exports, at)
           g == [previous EXCEPT !.state = "revoked", !.rev = @ + 1]
<1>1. /\ at # {} /\ exports' = Append(exports, g) /\ Len(exports) < MaxGrants /\ Update /\ Persisted("console")
      /\ UNCHANGED <<synced, accepted, trust, cfg, link, hostSide, epochs, lapsed, hview, wire>>
  BY DEF Withdraw
<1>2. exports \in Seq(Grants) /\ Numbered(exports) /\ Increasing(exports) /\ Len(exports) \in Nat
      /\ DOMAIN exports = 1..Len(exports)
  BY DEF ExportInv, GrantsOK
<1>3. \A i \in DOMAIN exports : exports[i].id \in 1..i /\ exports[i].rev \in 1..i
  BY <1>2 DEF Numbered
<1>4. at \in SUBSET (1..Len(exports)) /\ (\A i \in at : i \in DOMAIN exports /\ exports[i].id = id)
      /\ \A i \in DOMAIN exports : exports[i].id = id => i \in at
  BY <1>2 DEF Lineage
<1> HIDE DEF at
<1>5. PICK i \in at : previous = exports[i] /\ \A j \in at : j <= i
  BY <1>1, <1>2, <1>4, LastOfPositions
<1>6. i \in DOMAIN exports /\ exports[i].id = id /\ previous \in Grants BY <1>2, <1>4, <1>5
<1> HIDE DEF previous
<1>7. /\ g.id = id /\ g.rev = exports[i].rev + 1
      /\ g = [id |-> g.id, rev |-> g.rev, state |-> g.state, rooms |-> g.rooms, cfg |-> g.cfg]
      /\ g.state \in {"active", "revoked"} /\ g.rooms \in RoomSets /\ g.cfg \in Configs
  <2>1. /\ previous = [id |-> previous.id, rev |-> previous.rev, state |-> previous.state,
                      rooms |-> previous.rooms, cfg |-> previous.cfg]
        /\ previous.rooms \in RoomSets /\ previous.cfg \in Configs
    BY <1>6 DEF Grants, RoomSets
  <2>2. g = [id |-> previous.id, rev |-> previous.rev + 1, state |-> "revoked",
             rooms |-> previous.rooms, cfg |-> previous.cfg]
    <3>1. PICK r : r = previous.rev + 1 OBVIOUS
    <3>2. g = [previous EXCEPT !.state = "revoked", !.rev = r] BY <3>1
    <3> HIDE DEF g
    <3>3. g = [id |-> previous.id, rev |-> r, state |-> "revoked",
               rooms |-> previous.rooms, cfg |-> previous.cfg]
      BY <2>1, <3>2
    <3> QED BY <3>1, <3>3
  <2> HIDE DEF g
  <2> QED BY <1>5, <1>6, <2>1, <2>2
<1> HIDE DEF g
<1>8. g.id \in IdsOf(exports) BY <1>6, <1>7 DEF IdsOf
<1>9. g.rev \in 1..(Len(exports) + 1) BY <1>2, <1>3, <1>6, <1>7
<1>10. ASSUME NEW j \in DOMAIN exports, exports[j].id = g.id PROVE exports[j].rev < g.rev
  <2>1. j \in at /\ j <= i BY <1>4, <1>5, <1>7, <1>10
  <2>2. j = i \/ exports[j].rev < exports[i].rev BY <1>2, <1>6, <1>7, <1>10, <2>1 DEF Increasing
  <2> QED BY <1>2, <1>3, <1>6, <1>7, <2>2
<1> QED BY <1>1, <1>7, <1>8, <1>9, <1>10, GrantAppended

\* The trust's revision and the departure leave the history as it is.
LEMMA TrustAndLeaveKeep ==
  ASSUME ExportInv, SetExecutionTrust \/ LeavePeer
  PROVE  ExportInv'
<1>1. /\ UNCHANGED <<exports, synced, accepted, grants, accepts, guest, access, agent, wire, epochs, cfg>>
      /\ BackgroundUpdate
      /\ trust' \in 0..MaxTrust /\ link' \in {"active", "left"}
  BY PeerExportAssumption DEF SetExecutionTrust, LeavePeer, hostSide, ExportInv, RestingOK
<1>2. GrantsOK' /\ AcceptsOK' /\ WireOK' BY <1>1, PartsStay
<1>3. ViewOK' BY <1>1, WriteEndsReading
<1>4. ConnectorOK' /\ owed' \subseteq {"console", "departure"}
  <2>1. \/ Persisted("console") /\ UNCHANGED link
        \/ Persisted("departure") /\ UNCHANGED trust
    BY DEF SetExecutionTrust, LeavePeer
  <2> QED BY <1>1, <2>1, PersistedKeeps
<1>5. RestingOK' BY <1>1, <1>4 DEF ExportInv, RestingOK
<1> QED BY <1>2, <1>3, <1>4, <1>5 DEF ExportInv

\* Reading, expiry, and the Host's Owner reading.
LEMMA ReadingKeeps ==
  ASSUME ExportInv, OwnerState \/ Lapse \/ listOffers
  PROVE  ExportInv'
<1>1. UNCHANGED <<exports, synced, accepted, trust, cfg, link, worker, process, owed, epochs, grants,
                  accepts, guest, access, agent, wire>>
  BY DEF OwnerState, Lapse, listOffers, storeVars, runVars, hostSide
<1>2. ViewOK'
  <2>1. CASE OwnerState BY <1>1, <2>1 DEF OwnerState, ViewOK, peerAuthorizationDigest
  <2>2. CASE Lapse \/ listOffers
    <3>1. UNCHANGED view BY <2>2 DEF Lapse, listOffers
    <3> QED BY <1>1, <3>1, PartsStay
  <2> QED BY <2>1, <2>2
<1> QED BY <1>1, <1>2, PartsStay DEF ExportInv

-----------------------------------------------------------------------------
(* The connector, the synchronization and the Host                         *)

\* The worker and the approvals of its children change, and nothing they are about.
LEMMA ConnectorKeeps ==
  ASSUME ExportInv, reconcile \/ runWorker \/ Decide \/ await \/ \E room \in Rooms : Open(room)
  PROVE  ExportInv'
<1>1. /\ UNCHANGED <<exports, synced, accepted, trust, cfg, link, owed, epochs, grants, accepts, guest,
                     access, agent, view>>
      /\ UNCHANGED wire \/ wire' = Absent
  BY DEF reconcile, runWorker, Decide, await, Open, storeVars, hostSide
<1>2. WireOK' BY <1>1 DEF ExportInv, WireOK
<1>3. ConnectorOK'
  <2>1. CASE reconcile
    <3>1. CASE worker = Absent /\ link = "active" /\ worker' = [digest |-> peerAuthorizationDigest, state |-> "connecting"]
               /\ UNCHANGED process
      <4>1. process' = Absent BY <3>1 DEF ExportInv, ConnectorOK, Online
      <4> QED BY <1>1, <3>1, <4>1 DEF ConnectorOK, ConsoleFree, peerAuthorizationDigest
    <3>2. CASE worker # Absent /\ worker' = [worker EXCEPT !.state = "canceled"] /\ process' = Absent
      BY <3>2 DEF ExportInv, ConnectorOK, Online
    <3> QED BY <2>1, <3>1, <3>2 DEF reconcile
  <2>2. CASE runWorker
    <3>1. CASE worker # Absent /\ worker.state = "connecting"
               /\ worker' = [worker EXCEPT !.state = "online"] /\ UNCHANGED process
      <4>1. process' = Absent BY <3>1 DEF ExportInv, ConnectorOK, Online
      <4> QED BY <1>1, <3>1, <4>1 DEF ExportInv, ConnectorOK, ConsoleFree
    <3>2. CASE worker # Absent /\ worker.state = "online"
               /\ worker' = [worker EXCEPT !.state = "connecting"] /\ process' = Absent
      BY <1>1, <3>2 DEF ExportInv, ConnectorOK, ConsoleFree
    <3>3. CASE worker' = Absent /\ process' = Absent BY <3>3 DEF ConnectorOK
    <3> QED BY <2>2, <3>1, <3>2, <3>3 DEF runWorker
  <2>3. CASE Decide \/ await
    <3>1. UNCHANGED worker /\ process # Absent /\ \E x : process' = [process EXCEPT !.answer = x]
      BY <2>3 DEF Decide, await
    <3>2. PICK x : process' = [process EXCEPT !.answer = x] BY <3>1
    <3>3. process' = [binding |-> process.binding, room |-> process.room, answer |-> x]
      BY <3>1, <3>2 DEF ExportInv, ConnectorOK
    <3> QED BY <1>1, <3>1, <3>3 DEF ExportInv, ConnectorOK, ConsoleFree, Online
  <2>4. ASSUME NEW room \in Rooms, Open(room) PROVE ConnectorOK'
    <3>1. /\ UNCHANGED worker /\ Online
          /\ process' = [binding |-> Key(currentLocalGrant(exports)), room |-> room, answer |-> "none"]
      BY <2>4 DEF Open
    <3>2. exports # <<>>
      BY <2>4 DEF Open, Effective, effectiveAcceptance, currentGrant, LiveGrant, currentLocalGrant
    <3>3. PICK i \in DOMAIN exports : currentLocalGrant(exports) = exports[i]
      BY <3>2, CurrentOfLog DEF ExportInv, GrantsOK
    <3>4. \E j \in DOMAIN exports : Key(exports[j]) = Key(currentLocalGrant(exports)) BY <3>3
    <3> HIDE DEF Key
    <3>5. process' = [binding |-> process'.binding, room |-> process'.room, answer |-> process'.answer]
          /\ process'.binding = Key(currentLocalGrant(exports))
      BY <3>1
    <3>6. Online' BY <3>1 DEF Online
    <3>7. \E j \in DOMAIN exports' : Key(exports'[j]) = process'.binding BY <1>1, <3>4, <3>5
    <3>8. (Key(exports[1]))' = Key(exports'[1]) BY DEF Key
    <3> QED BY <1>1, <3>1, <3>5, <3>6, <3>7 DEF ExportInv, ConnectorOK, ConsoleFree, Key
  <2> QED BY <2>1, <2>2, <2>3, <2>4
<1> QED BY <1>1, <1>2, <1>3, PartsStay DEF ExportInv

\* A restart ends the worker, its approvals and what was on its way.
LEMMA RestartCoreKeeps ==
  ASSUME ExportInv, NEW c \in Configs, RestartCore(c)
  PROVE  ExportInv'
<1>1. /\ UNCHANGED <<exports, synced, accepted, trust, link, grants, accepts, guest, access, agent, view>>
      /\ wire' = Absent /\ worker' = Absent /\ process' = Absent /\ owed' = {}
      /\ cfg' \in Configs /\ epochs' = epochs + 1 /\ epochs < MaxEpochs
  BY DEF RestartCore, hostSide
<1>2. GrantsOK' /\ AcceptsOK' /\ ViewOK' BY <1>1, PartsStay
<1>3. WireOK' /\ ConnectorOK' BY <1>1 DEF WireOK, ConnectorOK
<1>4. RestingOK' BY <1>1, PeerExportAssumption DEF ExportInv, RestingOK
<1> QED BY <1>2, <1>3, <1>4 DEF ExportInv

\* A synchronization carries the whole history and brings decisions back.
LEMMA SynchronizationKeeps ==
  ASSUME ExportInv, SyncExports \/ synchronize \/ Lose \/ installAcceptanceSnapshot
  PROVE  ExportInv'
<1>1. UNCHANGED <<exports, trust, cfg, link, worker, process, owed, epochs, accepts, guest, access, agent>>
  BY DEF SyncExports, synchronize, Lose, installAcceptanceSnapshot, storeVars, runVars, hostSide
<1>2. ConnectorOK' /\ RestingOK' BY <1>1, PartsStay
<1>3. CASE SyncExports
  <2>1. /\ UNCHANGED <<synced, accepted, grants, view>>
        /\ wire' = [kind |-> "request", offers |-> exports, hist |-> <<>>]
    BY <1>3 DEF SyncExports, storeVars, hostSide
  <2>2. wire'.offers = exports /\ wire'.hist = <<>> BY <2>1
  <2>3. Prefix(exports, exports) /\ Prefix(<<>>, accepts) /\ <<>> \in Seq(Acceptances)
    BY DEF Prefix, ExportInv, GrantsOK, AcceptsOK
  <2>4. WireOK' BY <1>1, <2>2, <2>3 DEF WireOK, ExportInv, GrantsOK
  <2> QED BY <1>1, <1>2, <2>1, <2>4, PartsStay DEF ExportInv
<1>4. CASE synchronize
  <2>1. /\ UNCHANGED <<synced, accepted, view>> /\ wire # Absent
        /\ wire' = [kind |-> "receipt", offers |-> wire.offers, hist |-> accepts]
        /\ grants' = grants \o NewGrants(wire.offers)
    BY <1>4 DEF synchronize, storeVars
  <2>2. wire.offers \in Seq(Grants) /\ Prefix(wire.offers, exports)
    BY <2>1 DEF ExportInv, WireOK
  <2>3. grants' \in Seq(Grants) /\ Prefix(grants', exports)
    BY <2>1, <2>2, NewGrantsContinue DEF ExportInv
  <2>4. GrantsOK' BY <1>1, <2>1, <2>3 DEF ExportInv, GrantsOK
  <2>5. wire'.offers = wire.offers /\ wire'.hist = accepts BY <2>1
  <2>6. Prefix(accepts, accepts) /\ accepts \in Seq(Acceptances)
    BY DEF Prefix, ExportInv, AcceptsOK
  <2>7. WireOK' BY <1>1, <2>2, <2>5, <2>6 DEF WireOK
  <2> QED BY <1>1, <1>2, <2>1, <2>4, <2>7, PartsStay DEF ExportInv
<1>5. CASE Lose
  <2>1. UNCHANGED <<synced, accepted, grants, view>> /\ wire' = Absent
    BY <1>5 DEF Lose, storeVars, hostSide
  <2>2. WireOK' BY <2>1 DEF WireOK
  <2> QED BY <1>1, <1>2, <2>1, <2>2, PartsStay DEF ExportInv
<1>6. CASE installAcceptanceSnapshot
  <2>1. /\ UNCHANGED grants /\ wire # Absent /\ wire' = Absent /\ BackgroundUpdate
        /\ accepted' = wire.hist /\ synced' = Len(exports)
    BY <1>6 DEF installAcceptanceSnapshot, hostSide
  <2>2. synced' \in 0..Len(exports) BY <2>1 DEF ExportInv, GrantsOK
  <2>3. GrantsOK' BY <1>1, <2>1, <2>2 DEF ExportInv, GrantsOK
  <2>4. accepted' \in Seq(Acceptances) /\ Prefix(accepted', accepts)
    BY <2>1 DEF ExportInv, WireOK
  <2>5. AcceptsOK' BY <1>1, <2>4 DEF ExportInv, AcceptsOK, NoWidening
  <2>6. WireOK' BY <2>1 DEF WireOK
  <2> QED BY <1>2, <2>1, <2>3, <2>5, <2>6, WriteEndsReading DEF ExportInv
<1> QED BY <1>3, <1>4, <1>5, <1>6

\* A Room or the membership is taken away.
LEMMA RevokeScopeKeeps ==
  ASSUME ExportInv, RevokeScope
  PROVE  ExportInv'
<1>1. UNCHANGED <<exports, synced, accepted, trust, cfg, link, worker, process, owed, epochs, grants,
                  accepts, agent, view, wire>>
  BY DEF RevokeScope, storeVars, runVars
<1>2. guest' \in BOOLEAN /\ access' \subseteq Rooms BY DEF RevokeScope, ExportInv, RestingOK
<1>3. RestingOK' BY <1>1, <1>2 DEF ExportInv, RestingOK
<1> QED BY <1>1, <1>3, PartsStay DEF ExportInv

\* A decision on a grant of the Participant's history is appended.
LEMMA DecisionAppended ==
  ASSUME ExportInv, NEW a, accepts' = Append(accepts, a), Len(accepts) < MaxAccepts,
         \/ a.id \in IdsOf(accepts) /\ a.rev \in 1..(Len(accepts) + 1)
         \/ a.id = 1 + Cardinality(IdsOf(accepts)) /\ a.rev = 1,
         a = [id |-> a.id, rev |-> a.rev, state |-> a.state, gid |-> a.gid, grev |-> a.grev,
              rooms |-> a.rooms],
         a.state \in {"active", "revoked"}, a.gid \in 1..MaxGrants, a.grev \in 1..MaxGrants,
         a.rooms \in RoomSets,
         \E j \in DOMAIN exports : /\ Key(exports[j]) = <<a.gid, a.grev>>
                                   /\ a.rooms \subseteq exports[j].rooms,
         agent' \in [enabled : BOOLEAN, rooms : SUBSET Rooms],
         UNCHANGED <<grants, guest, access, storeVars, runVars, lapsed, view, hview, wire>>
  PROVE  ExportInv'
<1>1. accepts \in Seq(Acceptances) /\ Numbered(accepts) /\ Len(accepts) \in Nat
      /\ DOMAIN accepts = 1..Len(accepts)
  BY DEF ExportInv, AcceptsOK
<1>2. UNCHANGED <<exports, synced, accepted, trust, cfg, link, worker, process, owed, epochs, grants,
                  guest, access, view, wire>>
  BY DEF storeVars, runVars
<1>3. a.id \in 1..MaxAccepts /\ a.rev \in 1..MaxAccepts
  <2>1. MaxAccepts \in Nat BY PeerExportAssumption
  <2>2. Cardinality(IdsOf(accepts)) \in 0..Len(accepts)
        /\ IdsOf(accepts) = 1..Cardinality(IdsOf(accepts))
    BY <1>1, IdsCounted
  <2> QED BY <1>1, <2>1, <2>2
<1>4. a \in Acceptances BY <1>3 DEF Acceptances, RoomSets
<1>5. Numbered(accepts') BY <1>1, <1>4, NumberedGrows
<1>6. /\ accepts' \in Seq(Acceptances) /\ DOMAIN accepts' = 1..(Len(accepts) + 1)
      /\ accepts'[Len(accepts) + 1] = a
      /\ \A i \in 1..Len(accepts) : accepts'[i] = accepts[i]
  BY <1>1, <1>4
<1>7. \A s \in Seq(Acceptances) : Prefix(s, accepts) => Prefix(s, accepts')
  BY <1>1, <1>4, PrefixGrows
<1>8. NoWidening'
  <2> SUFFICES ASSUME NEW i \in DOMAIN accepts'
               PROVE  \E j \in DOMAIN exports :
                        /\ Key(exports[j]) = <<accepts'[i].gid, accepts'[i].grev>>
                        /\ accepts'[i].rooms \subseteq exports[j].rooms
    BY <1>2 DEF NoWidening, Key
  <2>1. CASE i = Len(accepts) + 1 BY <1>6, <2>1
  <2>2. CASE i # Len(accepts) + 1
    <3>1. i \in DOMAIN accepts /\ accepts'[i] = accepts[i] BY <1>1, <1>6, <2>2
    <3> QED BY <3>1 DEF ExportInv, AcceptsOK, NoWidening
  <2> QED BY <2>1, <2>2
<1>9. AcceptsOK' BY <1>2, <1>5, <1>6, <1>7, <1>8 DEF ExportInv, AcceptsOK
<1>10. WireOK' BY <1>2, <1>7 DEF ExportInv, WireOK
<1>11. RestingOK' BY <1>2 DEF ExportInv, RestingOK
<1> QED BY <1>2, <1>9, <1>10, <1>11, PartsStay DEF ExportInv

\* accept: the decision is of the current grant, and within its Rooms.
LEMMA AcceptKeeps ==
  ASSUME ExportInv, NEW rooms \in RoomSets, accept(rooms)
  PROVE  ExportInv'
<1> DEFINE cur == currentAcceptance
           g == hview.grant
           continuing == cur # Absent /\ cur.state = "active" /\ cur.gid = g.id
           new == 1 + Cardinality({accepts[i].id : i \in DOMAIN accepts})
           a == [id |-> IF continuing THEN cur.id ELSE new,
                 rev |-> IF continuing THEN cur.rev + 1 ELSE 1,
                 state |-> "active", gid |-> g.id, grev |-> g.rev, rooms |-> rooms]
<1>1. /\ accepts' = Append(accepts, a) /\ Len(accepts) < MaxAccepts /\ recordAcceptance(g, rooms)
      /\ g # Absent /\ agent' = [enabled |-> TRUE, rooms |-> agent.rooms \cup rooms]
      /\ UNCHANGED <<grants, guest, access, storeVars, runVars, lapsed, view, hview, wire>>
  BY DEF accept
<1>2. g = hostGrant /\ rooms \subseteq g.rooms BY <1>1 DEF recordAcceptance
<1>3. PICK j \in DOMAIN exports : g = exports[j]
  <2>1. grants \in Seq(Grants) /\ exports \in Seq(Grants) /\ Prefix(grants, exports)
    BY DEF ExportInv, GrantsOK
  <2>2. grants # <<>> BY <1>1, <1>2 DEF hostGrant, currentLocalGrant
  <2>3. PICK i \in DOMAIN grants : g = grants[i] BY <1>2, <2>1, <2>2, CurrentOfLog DEF hostGrant
  <2>4. i \in DOMAIN exports /\ exports[i] = grants[i] BY <2>1 DEF Prefix
  <2> QED BY <2>3, <2>4
<1>4. g.id \in 1..MaxGrants /\ g.rev \in 1..MaxGrants
  <2>1. exports[j] \in Grants BY DEF ExportInv, GrantsOK
  <2> QED BY <1>3, <2>1 DEF Grants
<1> HIDE DEF g
<1>5. agent' \in [enabled : BOOLEAN, rooms : SUBSET Rooms]
  BY <1>1 DEF ExportInv, RestingOK, RoomSets
<1>6. /\ a = [id |-> a.id, rev |-> a.rev, state |-> a.state, gid |-> a.gid, grev |-> a.grev,
              rooms |-> a.rooms]
      /\ a.state = "active" /\ a.gid = g.id /\ a.grev = g.rev /\ a.rooms = rooms
  OBVIOUS
<1>7. \/ a.id \in IdsOf(accepts) /\ a.rev \in 1..(Len(accepts) + 1)
      \/ a.id = 1 + Cardinality(IdsOf(accepts)) /\ a.rev = 1
  <2>1. CASE continuing
    <3>1. accepts # <<>> /\ cur = accepts[Len(accepts)] BY <2>1 DEF currentAcceptance, Tail1
    <3>2. accepts \in Seq(Acceptances) /\ Len(accepts) \in DOMAIN accepts /\ Len(accepts) \in Nat
      BY <3>1 DEF ExportInv, AcceptsOK
    <3>3. accepts[Len(accepts)].rev \in 1..Len(accepts) BY <3>2 DEF ExportInv, AcceptsOK, Numbered
    <3>4. a.id = accepts[Len(accepts)].id /\ a.rev = accepts[Len(accepts)].rev + 1 BY <2>1, <3>1
    <3> HIDE DEF a
    <3> QED BY <3>2, <3>3, <3>4 DEF IdsOf
  <2>2. CASE ~continuing
    <3>1. a.id = new /\ a.rev = 1 BY <2>2
    <3> QED BY <3>1 DEF IdsOf
  <2> QED BY <2>1, <2>2
<1>8. Key(exports[j]) = <<g.id, g.rev>> /\ rooms \subseteq exports[j].rooms BY <1>2, <1>3 DEF Key
<1> HIDE DEF a
<1> QED BY <1>1, <1>4, <1>5, <1>6, <1>7, <1>8, DecisionAppended

\* revoke: the decision that stands is appended once more, as revoked.
LEMMA RevokeKeeps ==
  ASSUME ExportInv, revoke
  PROVE  ExportInv' /\ Tail1(accepts').state = "revoked"
<1> DEFINE n == Len(accepts)
           b == accepts[n]
           a == [b EXCEPT !.state = "revoked", !.rev = @ + 1]
<1>1. accepts # <<>> /\ hview.acc = b BY DEF revoke, currentAcceptance, Tail1
<1>2. /\ accepts' = Append(accepts, a) /\ n < MaxAccepts
      /\ agent' = [agent EXCEPT !.enabled = FALSE]
      /\ UNCHANGED <<grants, guest, access, storeVars, runVars, lapsed, view, hview, wire>>
  BY <1>1 DEF revoke
<1>3. accepts \in Seq(Acceptances) /\ n \in DOMAIN accepts /\ n \in Nat /\ b \in Acceptances
  BY <1>1 DEF ExportInv, AcceptsOK
<1>4. b.rev \in 1..n /\ b.id \in IdsOf(accepts)
  BY <1>3 DEF ExportInv, AcceptsOK, Numbered, IdsOf
<1>5. \E j \in DOMAIN exports : Key(exports[j]) = <<b.gid, b.grev>> /\ b.rooms \subseteq exports[j].rooms
  BY <1>3 DEF ExportInv, AcceptsOK, NoWidening
<1>6. /\ b = [id |-> b.id, rev |-> b.rev, state |-> b.state, gid |-> b.gid, grev |-> b.grev,
              rooms |-> b.rooms]
      /\ b.gid \in 1..MaxGrants /\ b.grev \in 1..MaxGrants /\ b.rooms \in RoomSets
  BY <1>3 DEF Acceptances, RoomSets
<1> HIDE DEF b
<1>7. a = [id |-> b.id, rev |-> b.rev + 1, state |-> "revoked", gid |-> b.gid, grev |-> b.grev,
           rooms |-> b.rooms]
  <2>1. PICK r : r = b.rev + 1 OBVIOUS
  <2>2. a = [b EXCEPT !.state = "revoked", !.rev = r] BY <2>1
  <2> HIDE DEF a
  <2>3. a = [id |-> b.id, rev |-> r, state |-> "revoked", gid |-> b.gid, grev |-> b.grev,
             rooms |-> b.rooms]
    BY <1>6, <2>2
  <2> QED BY <2>1, <2>3
<1> HIDE DEF a
<1>8. /\ a = [id |-> a.id, rev |-> a.rev, state |-> a.state, gid |-> a.gid, grev |-> a.grev,
              rooms |-> a.rooms]
      /\ a.state = "revoked" /\ a.gid = b.gid /\ a.grev = b.grev /\ a.rooms = b.rooms
      /\ a.id = b.id /\ a.rev = b.rev + 1
  BY <1>7
<1>9. agent' \in [enabled : BOOLEAN, rooms : SUBSET Rooms] BY <1>2 DEF ExportInv, RestingOK
<1>10. a.rev \in 1..(n + 1) BY <1>3, <1>4, <1>8
<1>11. ExportInv' BY <1>2, <1>4, <1>5, <1>6, <1>8, <1>9, <1>10, DecisionAppended
<1>12. Tail1(accepts') = a
  <2>1. a \in Acceptances
    <3>1. accepts' \in Seq(Acceptances) BY <1>11 DEF ExportInv, AcceptsOK
    <3> QED BY <1>2, <1>3, <3>1
  <2> QED BY <1>2, <1>3, <2>1 DEF Tail1
<1> QED BY <1>8, <1>11, <1>12

-----------------------------------------------------------------------------
(* The theorems about an export                                            *)

\* The initial states satisfy the invariant.
LEMMA ExportInitOK == ExportInit => ExportInv
<1> SUFFICES ASSUME ExportInit PROVE ExportInv OBVIOUS
<1>1. /\ exports = <<>> /\ synced = 0 /\ accepted = <<>> /\ trust = 0 /\ cfg \in Configs
      /\ view = [seen |-> <<<<>>, <<>>, 0>>, cfg |-> cfg, fresh |-> TRUE] /\ link = "active"
      /\ worker = Absent /\ wire = Absent /\ process = Absent /\ owed = {} /\ epochs = 0
      /\ grants = <<>> /\ accepts = <<>> /\ guest = TRUE /\ access = Rooms
      /\ agent = [enabled |-> FALSE, rooms |-> {}]
  BY DEF ExportInit
<1>2. \A S : <<>> \in Seq(S) OBVIOUS
<1>3. Len(<<>>) = 0 /\ DOMAIN <<>> = {} OBVIOUS
<1>4. Numbered(<<>>)
  <2>1. {<<>>[i].id : i \in DOMAIN <<>>} = 1..0 BY <1>3
  <2> QED BY <1>3, <2>1 DEF Numbered
<1>5. Increasing(<<>>) /\ Prefix(<<>>, <<>>) BY <1>3 DEF Increasing, Prefix
<1>6. GrantsOK BY <1>1, <1>2, <1>3, <1>4, <1>5, PeerExportAssumption DEF GrantsOK
<1>7. AcceptsOK BY <1>1, <1>2, <1>3, <1>4, <1>5 DEF AcceptsOK, NoWidening
<1>8. WireOK /\ ConnectorOK BY <1>1 DEF WireOK, ConnectorOK
<1>9. ViewOK BY <1>1 DEF ViewOK, peerAuthorizationDigest
<1>10. RestingOK BY <1>1, PeerExportAssumption DEF RestingOK
<1> QED BY <1>6, <1>7, <1>8, <1>9, <1>10 DEF ExportInv

\* Every step of either side keeps the invariant.
LEMMA ExportStep == ExportInv /\ [ExportNext]_exportVars => ExportInv'
<1> SUFFICES ASSUME ExportInv, [ExportNext]_exportVars PROVE ExportInv' OBVIOUS
<1>1. CASE OwnerState \/ Lapse \/ listOffers BY <1>1, ReadingKeeps
<1>2. CASE SetExecutionTrust \/ LeavePeer BY <1>2, TrustAndLeaveKeep
<1>3. ASSUME NEW rooms \in RoomSets, NEW replace \in BOOLEAN, PrepareGrant(rooms, replace)
      PROVE  ExportInv'
  BY <1>3, PrepareGrantKeeps
<1>4. ASSUME NEW id \in 1..MaxGrants, Withdraw(id) PROVE ExportInv' BY <1>4, WithdrawKeeps
<1>5. CASE reconcile \/ runWorker \/ Decide \/ await \/ \E room \in Rooms : Open(room)
  BY <1>5, ConnectorKeeps
<1>6. ASSUME NEW c \in Configs, RestartCore(c) PROVE ExportInv' BY <1>6, RestartCoreKeeps
<1>7. CASE SyncExports \/ synchronize \/ Lose \/ installAcceptanceSnapshot
  BY <1>7, SynchronizationKeeps
<1>8. CASE revoke BY <1>8, RevokeKeeps
<1>9. CASE RevokeScope BY <1>9, RevokeScopeKeeps
<1>10. ASSUME NEW rooms \in RoomSets, accept(rooms) PROVE ExportInv' BY <1>10, AcceptKeeps
<1>11. ASSUME NEW call \in {"console", "departure"}, LocalChange(call) PROVE ExportInv'
  BY <1>11, LocalChangeKeeps
<1>12. CASE UNCHANGED exportVars
  <2>1. UNCHANGED <<exports, synced, accepted, trust, cfg, link, worker, process, owed, epochs, grants,
                    accepts, guest, access, agent, view, wire>>
    BY <1>12 DEF exportVars, storeVars, runVars, hostSide
  <2> QED BY <2>1, PartsStay DEF ExportInv
<1> QED
  BY <1>1, <1>2, <1>3, <1>4, <1>5, <1>6, <1>7, <1>8, <1>9, <1>10, <1>11, <1>12 DEF ExportNext

\* What the invariant says of an export.
LEMMA ExportInvBilateral == ExportInv => ExportsBilateral
<1> SUFFICES ASSUME ExportInv PROVE ExportsBilateral OBVIOUS
<1>1. ExportTypeOK
  BY DEF ExportInv, GrantsOK, AcceptsOK, ConnectorOK, RestingOK, ExportTypeOK
<1>2. HostCopyTrue
  <2>1. grants \in Seq(Grants) /\ exports \in Seq(Grants) /\ Prefix(grants, exports)
    BY DEF ExportInv, GrantsOK
  <2> QED BY <2>1 DEF HostCopyTrue, IsPrefix, Prefix
<1>3. EffectiveIsBilateral
  <2> SUFFICES ASSUME NEW r \in Rooms, Effective(r)
               PROVE  \E i \in DOMAIN accepts :
                        /\ accepts[i].state = "active" /\ r \in accepts[i].rooms
                        /\ accepts[i].gid = currentLocalGrant(exports).id
                        /\ accepts[i].grev = currentLocalGrant(exports).rev
    BY DEF EffectiveIsBilateral
  <2> DEFINE n == Len(accepted)
  <2>1. /\ accepted # <<>> /\ accepted[n].state = "active" /\ r \in accepted[n].rooms
        /\ accepted[n].gid = currentLocalGrant(exports).id
        /\ accepted[n].grev = currentLocalGrant(exports).rev
    BY DEF Effective, effectiveAcceptance, Tail1
  <2>2. accepted \in Seq(Acceptances) /\ accepts \in Seq(Acceptances) /\ Prefix(accepted, accepts)
    BY DEF ExportInv, AcceptsOK
  <2>3. n \in 1..n /\ n \in DOMAIN accepts /\ accepts[n] = accepted[n] BY <2>1, <2>2 DEF Prefix
  <2> HIDE DEF n
  <2> QED BY <2>1, <2>3
<1>4. NoWidening BY DEF ExportInv, AcceptsOK
<1>5. ProcessEndsWithItsEpoch
  BY DEF ExportInv, ConnectorOK, Online, ProcessEndsWithItsEpoch
<1> QED BY <1>1, <1>2, <1>3, <1>4, <1>5 DEF ExportsBilateral

\* For any Rooms, configurations and bounds, over lost and late synchronizations, restarts and
\* either Owner changing its mind: the Host's copy is a prefix of the Participant's grants, what
\* is effective is one exact acceptance of the Host, no acceptance is wider than its grant, and
\* no approval outlives its connection or its authorization (synchronize, accept, await).
THEOREM ExportsAreBilateral == ExportSpec => []ExportsBilateral
<1>1. ExportInit => ExportInv BY ExportInitOK
<1>2. ExportInv /\ [ExportNext]_exportVars => ExportInv' BY ExportStep
<1>3. ExportInv => ExportsBilateral BY ExportInvBilateral
<1> QED BY <1>1, <1>2, <1>3, PTL DEF ExportSpec

\* An acceptance names the grant that is current at the Host, the Owner changes only the history
\* it read, and an approval is allowed only while it stands (recordAcceptance, Update, await).
LEMMA ExportSteps ==
  ExportInv /\ [ExportNext]_exportVars
    => [AcceptsCurrent /\ OwnerDecidesOnWhatItRead /\ ApprovalStands]_exportVars
<1> SUFFICES ASSUME ExportInv, ExportNext
             PROVE  AcceptsCurrent /\ OwnerDecidesOnWhatItRead /\ ApprovalStands
  OBVIOUS
<1>1. AcceptsCurrent
  <2>1. UNCHANGED accepts \/ revoke \/ \E rooms \in RoomSets : accept(rooms)
    BY DEF ExportNext, OwnerState, SetExecutionTrust, LeavePeer, Lapse, PrepareGrant, Withdraw,
           LocalChange, reconcile, runWorker, Decide, await, RestartCore, Open, SyncExports, synchronize, Lose,
           installAcceptanceSnapshot, listOffers, RevokeScope, hostSide
  <2>2. CASE UNCHANGED accepts BY <2>2 DEF AcceptsCurrent
  <2>3. CASE revoke BY <2>3, RevokeKeeps DEF AcceptsCurrent
  <2>4. ASSUME NEW rooms \in RoomSets, accept(rooms) PROVE AcceptsCurrent
    <3>1. PICK a : /\ accepts' = Append(accepts, a)
                   /\ a.gid = hview.grant.id /\ a.grev = hview.grant.rev
      <4> DEFINE a == [id |-> IF currentAcceptance # Absent /\ currentAcceptance.state = "active"
                                 /\ currentAcceptance.gid = hview.grant.id
                              THEN currentAcceptance.id
                              ELSE 1 + Cardinality({accepts[i].id : i \in DOMAIN accepts}),
                       rev |-> IF currentAcceptance # Absent /\ currentAcceptance.state = "active"
                                  /\ currentAcceptance.gid = hview.grant.id
                               THEN currentAcceptance.rev + 1 ELSE 1,
                       state |-> "active", gid |-> hview.grant.id, grev |-> hview.grant.rev,
                       rooms |-> rooms]
      <4>1. accepts' = Append(accepts, a) BY <2>4 DEF accept
      <4>2. a.gid = hview.grant.id /\ a.grev = hview.grant.rev OBVIOUS
      <4> HIDE DEF a
      <4> QED BY <4>1, <4>2
    <3>2. hview.grant = hostGrant BY <2>4 DEF accept, recordAcceptance
    <3>3. accepts \in Seq(Acceptances) /\ accepts' \in Seq(Acceptances)
      <4>1. ExportInv' BY <2>4, AcceptKeeps
      <4> QED BY <4>1 DEF ExportInv, AcceptsOK
    <3>4. Tail1(accepts') = a BY <3>1, <3>3 DEF Tail1
    <3> QED BY <3>1, <3>2, <3>4 DEF AcceptsCurrent, Key
  <2> QED BY <2>1, <2>2, <2>3, <2>4
<1>2. OwnerDecidesOnWhatItRead
  <2>1. \/ UNCHANGED exports
        \/ \E rooms \in RoomSets, replace \in BOOLEAN : PrepareGrant(rooms, replace)
        \/ \E id \in 1..MaxGrants : Withdraw(id)
    BY DEF ExportNext, OwnerState, SetExecutionTrust, LeavePeer, Lapse, accept, revoke,
           LocalChange, reconcile, runWorker, Decide, await, RestartCore, Open, SyncExports, synchronize, Lose,
           installAcceptanceSnapshot, listOffers, RevokeScope, storeVars
  <2>2. UNCHANGED exports \/ view.fresh BY <2>1 DEF PrepareGrant, Withdraw, Update
  <2> QED BY <2>2 DEF ExportInv, ViewOK, OwnerDecidesOnWhatItRead
<1>3. ApprovalStands
  <2>1. \/ UNCHANGED process \/ process' = Absent
        \/ Decide \/ await \/ \E room \in Rooms : Open(room)
    BY DEF ExportNext, OwnerState, SetExecutionTrust, LeavePeer, Lapse, PrepareGrant, Withdraw,
           Persisted, LocalChange, reconcile, runWorker, RestartCore, SyncExports, synchronize, Lose,
           installAcceptanceSnapshot, listOffers, RevokeScope, accept, revoke, runVars
  <2>2. CASE UNCHANGED process \/ process' = Absent BY <2>2 DEF ApprovalStands
  <2>3. CASE Decide
    <3>1. process # Absent /\ process' = [process EXCEPT !.answer = "decided"] BY <2>3 DEF Decide
    <3>2. process'.answer = "decided" BY <3>1 DEF ExportInv, ConnectorOK
    <3> QED BY <3>2 DEF ApprovalStands
  <2>4. ASSUME NEW room \in Rooms, Open(room) PROVE ApprovalStands
    <3>1. process'.answer = "none" BY <2>4 DEF Open
    <3> QED BY <3>1 DEF ApprovalStands
  <2>5. CASE await
    <3>1. CASE Effective(process.room) /\ Key(currentLocalGrant(exports)) = process.binding
      BY <3>1 DEF ApprovalStands, Effective, effectiveAcceptance, currentGrant, LiveGrant
    <3>2. CASE ~(Effective(process.room) /\ Key(currentLocalGrant(exports)) = process.binding)
      <4>1. process # Absent /\ process' = [process EXCEPT !.answer = "refused"]
        BY <2>5, <3>2 DEF await
      <4>2. process'.answer = "refused" BY <4>1 DEF ExportInv, ConnectorOK
      <4> QED BY <4>2 DEF ApprovalStands
    <3> QED BY <3>1, <3>2
  <2> QED BY <2>1, <2>2, <2>3, <2>4, <2>5
<1> QED BY <1>1, <1>2, <1>3

-----------------------------------------------------------------------------
(* The three side by side *)

\* For any instance of the three parts: ends of Runs and withdrawals are never reversed,
\* acceptances name the current grant, the Owner changes only the history it read, and an
\* approval is allowed only while it stands (settle, leave, recordAcceptance, Update, await).
THEOREM PeerSteps == PeersSpec => PeerStepsKept
<1> DEFINE ExportsKept == AcceptsCurrent /\ OwnerDecidesOnWhatItRead /\ ApprovalStands
<1>1. [EndsStand]_vars /\ [WithdrawalStands]_joinVars /\ [ExportsKept]_exportVars
        => [/\ [EndsStand]_vars
            /\ [WithdrawalStands]_joinVars
            /\ [ExportsKept]_exportVars]_<<vars, joinVars, exportVars>>
  OBVIOUS
<1>2. ExportSpec => [][ExportsKept]_exportVars
  <2>1. ExportInit => ExportInv BY ExportInitOK
  <2>2. ExportInv /\ [ExportNext]_exportVars => ExportInv' BY ExportStep
  <2>3. ExportInv /\ [ExportNext]_exportVars => [ExportsKept]_exportVars BY ExportSteps
  <2> HIDE DEF ExportsKept
  <2> QED BY <2>1, <2>2, <2>3, PTL DEF ExportSpec
<1> QED BY <1>1, <1>2, EndsAlwaysStand, WithdrawalAlwaysStands, PTL DEF PeersSpec, PeerStepsKept
=============================================================================
