--------------------------- MODULE RollingMemory ---------------------------
(***************************************************************************)
(* The rolling memory of Rooms: memory-reducer-scheduler.ts over           *)
(* rolling-room-memory-repository.ts.  Server processes that share the     *)
(* database sweep the Rooms whose newest message lies beyond their latest  *)
(* checkpoint, take a lease on one, read an interval of its messages, wait *)
(* for the reducer and commit what it wrote as the next checkpoint.  While *)
(* they wait, messages arrive, the lease runs out, another process takes   *)
(* the Room, or the process dies.                                          *)
(*                                                                         *)
(* Abstracted: a lease token is fresh, as the generation it comes with is, *)
(* so "my token and my generation" is "held, at my generation".  The       *)
(* clock is three events: a lease runs out, thirty quiet seconds pass      *)
(* (cooled), and everything else.  Summaries are left out: a checkpoint is *)
(* the interval it was made from.                                          *)
(***************************************************************************)
EXTENDS Integers, Sequences, FiniteSets, SequencesExt

CONSTANTS
  Rooms,
  Workers,        \* the server processes that sweep
  MaxMessages,    \* bound: messages a Room receives
  Size,           \* bytes of the message with this sequence number
  ByteLimit,      \* reducerInputUtf8ByteLimit
  Limit,          \* defaultIncrementalMessageLimit
  RebaseLimit,    \* defaultRebaseMessageLimit
  SweepLimit,     \* Rooms a sweep drains (8)
  MaxGenerations, \* bound: generations of a Room in which faults happen
  Rebases         \* whether drainRoom is also called with rebase

ASSUME MemoryAssumption ==
  /\ IsFiniteSet(Rooms)
  /\ MaxMessages \in Nat /\ ByteLimit \in Nat
  /\ Limit \in Nat \ {0} /\ RebaseLimit \in Nat \ {0}
  /\ SweepLimit \in Nat \ {0} /\ MaxGenerations \in Nat
  /\ Size \in [1..MaxMessages -> Nat]
  /\ Rebases \in BOOLEAN

VARIABLES
  room,       \* rolling_room_state, a row for each Room
  ckpts,      \* rolling_room_checkpoints of each Room, in commit order
  worker      \* what each server process is doing

rollingVars == <<room, ckpts, worker>>

\* A worker that sweeps nothing.
Resting == [at |-> "idle", queue |-> <<>>, gen |-> 0,
         work |-> [parent |-> 0, from |-> 0, through |-> 0, rebase |-> FALSE]]

\* A Room begins disabled with nothing to do: migration 0033's trigger.
RollingInit ==
  /\ room = [r \in Rooms |->
       [mode |-> "disabled", latest |-> 0, through |-> 0, desired |-> 0,
        gen |-> 0, held |-> FALSE, expired |-> FALSE, cooled |-> TRUE]]
  /\ ckpts = [r \in Rooms |-> <<>>]
  /\ worker = [w \in Workers |-> Resting]

-----------------------------------------------------------------------------
(* What the repository does to a row. *)

\* enable: whatever mode the Room is in, its failure forgotten.
Woken(s) ==
  [s EXCEPT !.mode = IF s.latest = 0 THEN "backfilling" ELSE "ready", !.cooled = FALSE]

\* enableAll: every disabled Room.
Enabled(s) == IF s.mode = "disabled" THEN Woken(s) ELSE s

\* listPending: work is whatever the desired cursor is ahead by.
Behind(s) == s.mode # "disabled" /\ s.desired > s.through

\* Mutant: a lease is taken over although it still runs.
MayLeaseHeld(s) == Behind(s)

\* acquireLease: free, or held beyond its time.
MayLease(s) == Behind(s) /\ (~s.held \/ s.expired)

Leased(s) ==
  [s EXCEPT !.gen = @ + 1, !.held = TRUE, !.expired = FALSE,
            !.cooled = FALSE]

\* The fence a commit must pass: this lease, and not run out.
LeaseValid(s, gen) == s.gen = gen /\ s.held /\ ~s.expired

\* Mutant: the commit looks at the watermarks only.
MutCommitAllowed(s, gen, work) ==
  work.through \in s.through .. s.desired

\* commitCheckpoint's conditions, the sequence of its early errors.
CommitAllowed(s, gen, work) ==
  /\ LeaseValid(s, gen)
  /\ work.through \in s.through .. s.desired
  /\ IF work.rebase THEN work.from = 0
     ELSE work.parent = s.latest /\ work.from = s.through

Committed(s, work, id) ==
  [s EXCEPT !.mode = "ready", !.latest = id, !.through = work.through,
            !.held = FALSE, !.expired = FALSE, !.cooled = FALSE]

\* recordFailure is fenced by the lease, but not by its time.
MayFail(s, gen) == s.gen = gen /\ s.held

Failed(s) ==
  [s EXCEPT !.mode = "degraded", !.held = FALSE, !.expired = FALSE,
            !.cooled = FALSE]

-----------------------------------------------------------------------------
(* planWork: which interval a lease reduces. *)

\* The messages that fit with every one before them.
Fitting(from, to) ==
  LET Bytes[n \in 0..MaxMessages] ==
        IF n <= from THEN 0 ELSE Bytes[n - 1] + Size[n]
  IN  {n \in (from + 1)..to : Bytes[n] <= ByteLimit}

\* The last message that fits.
FitsThrough(from, to) ==
  LET fit == Fitting(from, to)
  IN  IF fit = {} THEN from ELSE CHOOSE n \in fit : \A m \in fit : m <= n

Lesser(a, b) == IF a < b THEN a ELSE b

\* The plan of a lease; the interval is empty when no message fits.
PlanWork(s, rebase) ==
  LET from == IF rebase THEN 0 ELSE s.through
      to == FitsThrough(from, Lesser(s.desired,
              from + (IF rebase THEN RebaseLimit ELSE Limit)))
  IN  [parent |-> IF rebase THEN 0 ELSE s.latest,
       from |-> from, through |-> to, rebase |-> rebase]

\* The plan throws: nothing fits, or a bounded rebase ends before the latest.
PlanThrows(s, work) ==
  \/ work.through = work.from
  \/ work.rebase /\ work.through < s.through

-----------------------------------------------------------------------------
(* The Rooms' side. *)

\* Faults stop with the generation that reaches the bound.
MayFault(r) == room[r].gen < MaxGenerations

\* A message is appended; the trigger advances the watermark and, with it,
\* the time of the row's last change.
Message(r) ==
  /\ room[r].desired < MaxMessages
  /\ room' = [room EXCEPT ![r].desired = @ + 1, ![r].cooled = FALSE]
  /\ UNCHANGED <<ckpts, worker>>

\* The repository's enable, for one Room.
Enable(r) ==
  /\ room' = [room EXCEPT ![r] = Woken(@)]
  /\ UNCHANGED <<ckpts, worker>>

\* disable drops the lease, not the generation.  (Bound: only a leased Room,
\* the case in which a worker is overtaken, is disabled.)
Disable(r) ==
  /\ room[r].mode # "disabled" /\ room[r].held /\ MayFault(r)
  /\ room' = [room EXCEPT ![r].mode = "disabled", ![r].held = FALSE,
                          ![r].expired = FALSE, ![r].cooled = FALSE]
  /\ UNCHANGED <<ckpts, worker>>

\* The live worker, if any, that holds the lease of a Room.
Holder(r) ==
  {w \in Workers : /\ worker[w].at = "reduce"
                   /\ Head(worker[w].queue) = r
                   /\ worker[w].gen = room[r].gen}

\* A minute passes on a lease: the worker is slow, or it is gone.
LeaseRunsOut(r) ==
  /\ room[r].held /\ ~room[r].expired
  /\ Holder(r) = {} \/ MayFault(r)
  /\ room' = [room EXCEPT ![r].expired = TRUE, ![r].cooled = TRUE]
  /\ UNCHANGED <<ckpts, worker>>

\* Thirty seconds pass since the row last changed.
Cool(r) ==
  /\ ~room[r].cooled
  /\ room' = [room EXCEPT ![r].cooled = TRUE]
  /\ UNCHANGED <<ckpts, worker>>

-----------------------------------------------------------------------------
(* The sweep. *)

\* How many Rooms a sweep lists before it leaves out the degraded ones.
PendingLimit == Lesser(100, 4 * SweepLimit)

Backlog(s) == s.desired - s.through

\* listPending: Rooms with work, the longest backlog first; ties go by time of change and
\* id, any order here.
Listings(rows) ==
  LET pending == {r \in Rooms : Behind(rows[r])}
  IN  {listed \in SUBSET pending :
         /\ Cardinality(listed) = Lesser(Cardinality(pending), PendingLimit)
         /\ \A r \in listed, p \in pending \ listed : Backlog(rows[r]) >= Backlog(rows[p])}

\* Of the listed Rooms the degraded ones only when they have cooled, in that order.
OrdersOf(rows, listed) ==
  LET eligible == {r \in listed : rows[r].mode # "degraded" \/ rows[r].cooled}
      ordered == {q \in SetToSeqs(eligible) :
                    \A i, j \in 1..Cardinality(eligible) :
                      i < j => Backlog(rows[q[i]]) >= Backlog(rows[q[j]])}
  IN  {SubSeq(q, 1, Lesser(Len(q), SweepLimit)) : q \in ordered}

SweepOrders(rows) == UNION {OrdersOf(rows, listed) : listed \in Listings(rows)}

\* sweep enables every Room, then lists what is pending.
Sweep(w) ==
  /\ worker[w].at = "idle"
  /\ LET rows == [r \in Rooms |-> Enabled(room[r])]
     IN  \E q \in SweepOrders(rows) :
           /\ q # <<>>
           /\ room' = rows
           /\ worker' = [worker EXCEPT ![w].at = "drain", ![w].queue = q]
  /\ UNCHANGED ckpts

\* The worker after it is done with the head of its queue.
Advance(me) ==
  LET rest == Tail(me.queue)
  IN  IF rest = <<>> THEN Resting ELSE [Resting EXCEPT !.at = "drain", !.queue = rest]

\* drainRoom up to its await: the lease, the plan, the reducer is called.  A
\* plan that throws is recorded in the same breath.
Drain(w, rebase) ==
  /\ worker[w].at = "drain"
  /\ rebase => MayFault(Head(worker[w].queue))
  /\ LET r == Head(worker[w].queue)
         s == Leased(room[r])
         work == PlanWork(s, rebase)
     IN  IF ~MayLease(room[r])
         THEN /\ worker' = [worker EXCEPT ![w] = Advance(@)]
              /\ UNCHANGED room
         ELSE IF PlanThrows(s, work)
         THEN /\ MayFault(r)
              /\ room' = [room EXCEPT ![r] = Failed(s)]
              /\ worker' = [worker EXCEPT ![w] = Advance(@)]
         ELSE /\ room' = [room EXCEPT ![r] = s]
              /\ worker' = [worker EXCEPT ![w].at = "reduce",
                              ![w].gen = s.gen, ![w].work = work]
  /\ UNCHANGED ckpts

\* Anything in the try block throws: the failure is recorded under the lease,
\* and when the lease is no longer ours that throws too and ends the sweep.
RecordFailure(w) ==
  LET me == worker[w]
      r == Head(me.queue)
  IN  IF MayFail(room[r], me.gen)
      THEN /\ room' = [room EXCEPT ![r] = Failed(@)]
           /\ worker' = [worker EXCEPT ![w] = Advance(@)]
      ELSE /\ worker' = [worker EXCEPT ![w] = Resting]
           /\ UNCHANGED room

\* The reducer answers with an output that validates, and it is committed.
\* Its suggestions go to the candidate sink next, whose errors are swallowed
\* (MemoryEntries models the sink).
Reduced(w) ==
  /\ worker[w].at = "reduce"
  /\ LET me == worker[w]
         r == Head(me.queue)
         id == Len(ckpts[r]) + 1
     IN  IF CommitAllowed(room[r], me.gen, me.work)
         THEN /\ ckpts' = [ckpts EXCEPT ![r] = Append(@, me.work)]
              /\ room' = [room EXCEPT ![r] = Committed(@, me.work, id)]
              /\ worker' = [worker EXCEPT ![w] = Advance(@)]
         ELSE /\ RecordFailure(w)
              /\ UNCHANGED ckpts

\* The reducer fails, or its output is out of bounds.
ReduceFails(w) ==
  /\ worker[w].at = "reduce"
  /\ MayFault(Head(worker[w].queue))
  /\ RecordFailure(w)
  /\ UNCHANGED ckpts

\* A server process dies; its lease stays in the database.  (Between two
\* Rooms it holds none, and its death there leaves nothing behind.)
ProcessDies(w) ==
  /\ worker[w].at = "reduce"
  /\ MayFault(Head(worker[w].queue))
  /\ worker' = [worker EXCEPT ![w] = Resting]
  /\ UNCHANGED <<room, ckpts>>

RollingNext ==
  \/ \E r \in Rooms : \/ Message(r) \/ Enable(r) \/ Disable(r)
                      \/ LeaseRunsOut(r) \/ Cool(r)
  \/ \E w \in Workers :
       \/ Sweep(w) \/ Reduced(w) \/ ReduceFails(w) \/ ProcessDies(w)
       \/ \E rebase \in IF Rebases THEN BOOLEAN ELSE {FALSE} : Drain(w, rebase)

RollingSpec == RollingInit /\ [][RollingNext]_rollingVars

-----------------------------------------------------------------------------
(* Properties. *)

\* A checkpoint, made or to be made: what it continues and the interval it covers.
Intervals == [parent : Nat, from : Nat, through : Nat, rebase : BOOLEAN]

RoomRows ==
  [mode : {"disabled", "backfilling", "ready", "degraded"}, latest : Nat, through : Nat,
   desired : 0..MaxMessages, gen : Nat, held : BOOLEAN, expired : BOOLEAN, cooled : BOOLEAN]

Reducers == [at : {"idle", "drain", "reduce"}, queue : Seq(Rooms), gen : Nat, work : Intervals]

\* Every variable has its type and every row meets the CHECKs of migration
\* 0033: a lease time belongs to a lease, a cursor to a checkpoint, and no
\* cursor is beyond the watermark.
RollingTypeOK ==
  /\ room \in [Rooms -> RoomRows] /\ ckpts \in [Rooms -> Seq(Intervals)]
  /\ worker \in [Workers -> Reducers]
  /\ \A r \in Rooms :
       /\ room[r].through <= room[r].desired /\ room[r].latest <= Len(ckpts[r])
       /\ room[r].through = 0 <=> room[r].latest = 0
       /\ room[r].expired => room[r].held

\* The chain of parents behind a Room's latest checkpoint covers exactly its
\* messages up to the cursor: no message was skipped between two intervals
\* although leases ran out, workers died and rebases started over.
LatestCovers ==
  \A r \in Rooms :
    LET Covers[i \in 0..Len(ckpts[r])] ==
          IF i = 0 THEN {}
          ELSE LET c == ckpts[r][i]
               IN  (IF c.parent < i THEN Covers[c.parent] ELSE {})
                     \cup ((c.from + 1)..c.through)
    IN  Covers[room[r].latest] = 1..room[r].through

\* No message is reduced by two incremental checkpoints, so a slow worker
\* cannot put a second opinion of an interval beside the one that counts.
ReducedOnce ==
  \A r \in Rooms : \A i, j \in 1..Len(ckpts[r]) :
    (i < j /\ ~ckpts[r][i].rebase /\ ~ckpts[r][j].rebase)
      => ckpts[r][i].through <= ckpts[r][j].from

\* Every message is reduced, in order and once.
RollingTrue == RollingTypeOK /\ LatestCovers /\ ReducedOnce

\* While a worker reduces a Room under a lease that still runs, no other
\* worker's step takes that lease away: neither a take-over nor the recorded
\* failure of a worker that lost the Room before.
LeaseSafe ==
  \A r \in Rooms : \A w \in Holder(r) :
    (room[r].held /\ ~room[r].expired /\ worker'[w] = worker[w])
      => \/ room'[r].held /\ room'[r].gen = room[r].gen
         \/ room'[r].mode = "disabled"

=============================================================================
