--------------------------- MODULE MemoryEntries ---------------------------
(***************************************************************************)
(* Long-term memory: the entries Members keep for a Room or a Task         *)
(* (long-term-memory-service.ts over memory-entry-repository.ts), the      *)
(* candidates a reducer suggests and a Member accepts or rejects           *)
(* (memory-candidate-service.ts), and the two readers that depend on the   *)
(* scope's revision numbers: a client that pages through the changes after *)
(* its cursor, and the context of a Run, which is planned again for every  *)
(* delivery, however late, and must show the memory of the moment the Run  *)
(* was created (context-planner.ts).                                       *)
(*                                                                         *)
(* The server runs each operation as one transaction on one thread, so an  *)
(* operation is one step; what interleaves are the Members, the reducer,   *)
(* the Runs and the readers.  Content and provenance are abstracted to an  *)
(* entry's priority class; checks of roles, lengths and provenance refuse  *)
(* and change nothing.                                                     *)
(***************************************************************************)
EXTENDS Integers, Sequences, FiniteSets, SequencesExt

CONSTANTS
  Scopes,          \* Rooms and Tasks that own memory
  Candidates,      \* suggestions, by fingerprint
  Runs,            \* Runs that capture a fence
  None,
  Priorities,      \* classes of entry types, 0 first
  ActiveLimit,     \* active entries in a context (16)
  TombstoneLimit,  \* inactive entries in a context (8)
  PageLimit,       \* rows of a page of changes
  MaxEntries       \* bound: entries ever created

LimitsAssumption ==
  /\ Priorities \subseteq Nat /\ Priorities # {}
  /\ ActiveLimit \in Nat /\ TombstoneLimit \in Nat
  /\ PageLimit \in Nat \ {0} /\ MaxEntries \in Nat

VARIABLES
  revision,   \* memory_revision of each Room, long_term_memory_revision of each Task
  entries,    \* memory_entries, in order of creation
  events,     \* memory_entry_lifecycle_events, written by triggers
  candidate,  \* memory_candidates: state and linked entry
  fence,      \* run_context_fences: the revision a Run captured
  seen,       \* history: the entries' states when the Run captured it
  planned,    \* the memory the Run's first planned context carried
  cursor,     \* a client's cursor in each scope
  view        \* what that client believes of each entry

vars == <<revision, entries, events, candidate, fence, seen, planned,
          cursor, view>>

store == <<revision, entries, events>>
runs == <<fence, seen, planned>>
client == <<cursor, view>>

Ids == 1..Len(entries)
InScope(s) == {i \in Ids : entries[i].scope = s}

Init ==
  /\ revision = [s \in Scopes |-> 0]
  /\ entries = <<>>
  /\ events = {}
  /\ candidate = [c \in Candidates |-> [state |-> "absent", memory |-> 0]]
  /\ fence = [u \in Runs |-> None]
  /\ seen = [u \in Runs |-> None]
  /\ planned = [u \in Runs |-> None]
  /\ cursor = [s \in Scopes |-> 0]
  /\ view = [s \in Scopes |-> <<>>]

-----------------------------------------------------------------------------
(* The repository's writes. *)

\* What the triggers note of an entry's new state.
Event(i, e) == [id |-> i, scope |-> e.scope, rev |-> e.rev, state |-> e.state]

\* create advances the scope by two when it also closes a predecessor.
Step(sup) == IF sup = 0 THEN 1 ELSE 2

\* A replacement names an active entry of the same scope.
MaySupersede(s, sup) ==
  sup = 0 \/ (sup \in InScope(s) /\ entries[sup].state = "active")

\* MemoryEntryRepository.create: the new entry takes the newest revision and
\* its predecessor, closed, the one before.
CreateEntry(s, pri, sup, origin) ==
  LET rev == revision[s] + Step(sup)
      new == [scope |-> s, pri |-> pri, state |-> "active", rev |-> rev,
              supersedes |-> sup, origin |-> origin]
      closed == IF sup = 0 THEN entries
                ELSE [entries EXCEPT ![sup].state = "superseded",
                                     ![sup].rev = rev - 1]
      id == Len(entries) + 1
  IN  /\ id <= MaxEntries
      /\ MaySupersede(s, sup)
      /\ revision' = [revision EXCEPT ![s] = rev]
      /\ entries' = Append(closed, new)
      /\ events' = events \cup {Event(id, new)}
           \cup (IF sup = 0 THEN {} ELSE {Event(sup, closed[sup])})

\* createRoom and createTask of a Member.
Create(s, pri, sup) ==
  /\ CreateEntry(s, pri, sup, None)
  /\ UNCHANGED <<candidate, runs, client>>

\* retract: a retracted entry is returned as it is, a superseded one refused.
Retract(i) ==
  /\ entries[i].state = "active"
  /\ LET s == entries[i].scope
         closed == [entries[i] EXCEPT !.state = "retracted",
                                      !.rev = revision[s] + 1]
     IN  /\ revision' = [revision EXCEPT ![s] = @ + 1]
         /\ entries' = [entries EXCEPT ![i] = closed]
         /\ events' = events \cup {Event(i, closed)}
  /\ UNCHANGED <<candidate, runs, client>>

-----------------------------------------------------------------------------
(* Candidates. *)

\* persistOne: a fingerprint that is there already is left alone.
Suggest(c) ==
  /\ candidate[c].state = "absent"
  /\ candidate' = [candidate EXCEPT ![c].state = "pending"]
  /\ UNCHANGED <<store, runs, client>>

\* accept: the entry and the link are one transaction; accepted again answers
\* with the candidate as it is, rejected is refused.
Accept(c, s, pri) ==
  /\ candidate[c].state = "pending"
  /\ CreateEntry(s, pri, 0, c)
  /\ candidate' = [candidate EXCEPT ![c] = [state |-> "accepted",
                                            memory |-> Len(entries) + 1]]
  /\ UNCHANGED <<runs, client>>

\* reject, with the same early answers.
Reject(c) ==
  /\ candidate[c].state = "pending"
  /\ candidate' = [candidate EXCEPT ![c].state = "rejected"]
  /\ UNCHANGED <<store, runs, client>>

-----------------------------------------------------------------------------
(* The context of a Run. *)

States(s) == [i \in InScope(s) |-> entries[i].state]

\* The row the trigger writes with the Run.
Capture(u, s) ==
  /\ fence[u] = None
  /\ fence' = [fence EXCEPT ![u] = [scope |-> s, rev |-> revision[s]]]
  /\ seen' = [seen EXCEPT ![u] = States(s)]
  /\ UNCHANGED <<store, candidate, planned, client>>

\* The newest event of each entry up to a revision.
LatestEvents(s, rev) ==
  LET upTo == {v \in events : v.scope = s /\ v.rev <= rev}
  IN  {v \in upTo : \A w \in upTo : w.id = v.id => w.rev <= v.rev}

StatesAt(s, rev) ==
  [i \in {v.id : v \in LatestEvents(s, rev)} |->
     (CHOOSE v \in LatestEvents(s, rev) : v.id = i).state]

\* The first n of a set of events, in an order.
First(n, set, Before(_, _)) ==
  LET q == SetToSortSeq(set, Before)
  IN  {q[k] : k \in 1..(IF Len(q) < n THEN Len(q) ELSE n)}

\* contextScopeAtRevision: the active entries by priority, newest first, and
\* the newest closed ones; complete says whether every active one is there.
ContextScope(s, rev) ==
  LET latest == LatestEvents(s, rev)
      active == {v \in latest : v.state = "active"}
      pri(v) == entries[v.id].pri
      Newer(v, w) == v.rev > w.rev
      Before(v, w) == pri(v) < pri(w) \/ (pri(v) = pri(w) /\ Newer(v, w))
  IN  [rev |-> rev,
       complete |-> Cardinality(active) <= ActiveLimit,
       entries |-> First(ActiveLimit, active, Before)
                     \cup First(TombstoneLimit, latest \ active, Newer)]

\* plan, for the first delivery of the Run; later ones are compared with it.
Plan(u) ==
  /\ fence[u] # None /\ planned[u] = None
  /\ planned' = [planned EXCEPT ![u] =
                   ContextScope(fence[u].scope, fence[u].rev)]
  /\ UNCHANGED <<store, candidate, fence, seen, client>>

-----------------------------------------------------------------------------
(* A client that follows a scope. *)

\* list: the entries changed after the cursor, in order of revision.
Page(s) ==
  LET new == {i \in InScope(s) : entries[i].rev > cursor[s]}
      q == SetToSortSeq(new, LAMBDA i, j : entries[i].rev < entries[j].rev)
  IN  SubSeq(q, 1, IF Len(q) < PageLimit THEN Len(q) ELSE PageLimit)

\* The client applies a page and moves its cursor to the page's last row.
Read(s) ==
  LET page == Page(s)
      got == {page[k] : k \in 1..Len(page)}
  IN  /\ page # <<>>
      /\ view' = [view EXCEPT ![s] =
           [i \in (DOMAIN @) \cup got |->
              IF i \in got THEN entries[i].state ELSE @[i]]]
      /\ cursor' = [cursor EXCEPT ![s] = entries[Last(page)].rev]
      /\ UNCHANGED <<store, candidate, runs>>

Next ==
  \/ \E s \in Scopes, pri \in Priorities :
       \/ \E sup \in 0..MaxEntries : Create(s, pri, sup)
       \/ \E c \in Candidates : Accept(c, s, pri)
  \/ \E i \in Ids : Retract(i)
  \/ \E c \in Candidates : Suggest(c) \/ Reject(c)
  \/ \E u \in Runs : Plan(u) \/ \E s \in Scopes : Capture(u, s)
  \/ \E s \in Scopes : Read(s)

Spec == Init /\ [][Next]_vars

-----------------------------------------------------------------------------
(* Properties. *)

\* Every variable has its type, and no two entries, nor two events, of a scope
\* share a revision: the UNIQUE constraints of migrations 0032 and 0033, which
\* would otherwise refuse the write.
TypeOK ==
  /\ revision \in [Scopes -> Nat]
  /\ \A i \in Ids : /\ entries[i].state \in {"active", "superseded", "retracted"}
                    /\ entries[i].rev \in 1..revision[entries[i].scope]
  /\ \A i, j \in Ids : (i # j /\ entries[i].scope = entries[j].scope)
                         => entries[i].rev # entries[j].rev
  /\ \A v, w \in events : (v.scope = w.scope /\ v.rev = w.rev) => v = w
  /\ \A c \in Candidates :
       candidate[c].state \in {"absent", "pending", "accepted", "rejected"}

\* What the events say of a fence is what the memory was when the Run was
\* created, whatever was replaced, retracted or accepted since.
FenceFaithful ==
  \A u \in Runs : fence[u] # None
    => StatesAt(fence[u].scope, fence[u].rev) = seen[u]

\* A Run's context is planned again for each delivery, and every plan carries
\* the memory the first one did.
PlanStable ==
  \A u \in Runs : planned[u] # None
    => planned[u] = ContextScope(fence[u].scope, fence[u].rev)

\* A cursor read loses nothing: a client knows the present state of every
\* entry whose last change is not after its cursor, whatever happened between
\* two of its pages.
CursorLossless ==
  \A s \in Scopes : \A i \in InScope(s) :
    entries[i].rev <= cursor[s]
      => i \in DOMAIN view[s] /\ view[s][i] = entries[i].state

\* An entry has one successor when it is superseded and none otherwise: two
\* Members who replace the same entry cannot both succeed.
OneSuccessor ==
  \A i \in Ids :
    Cardinality({j \in Ids : entries[j].supersedes = i})
      = IF entries[i].state = "superseded" THEN 1 ELSE 0

\* A candidate becomes memory once, by its acceptance, and the entry it is
\* linked to is the one it became; a reducer that suggests it again and a
\* Member who retries the review change nothing.
PromotedOnce ==
  \A c \in Candidates :
    {i \in Ids : entries[i].origin = c}
      = IF candidate[c].state = "accepted" THEN {candidate[c].memory} ELSE {}
=============================================================================
