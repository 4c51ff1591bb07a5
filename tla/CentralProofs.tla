---------------------------- MODULE CentralProofs ----------------------------
(***************************************************************************)
(* Proofs about DevicePairing, RemoteProvider and RollingMemory.  For any   *)
(* sessions, join requests, codes, Bridges, attempts and number of faults:  *)
(* one pairing makes at most one Device, of a Bridge whose screen the Owner *)
(* saw, what a Bridge has installed is real, and no late answer takes a     *)
(* pairing back.  For any operations, checks and callers: evidence of a     *)
(* remote provider is retained once, as the provider holds it, and an       *)
(* adoption rests on records that passed and never stands beside a          *)
(* dispatch.  For any requests and addresses: a request is written only     *)
(* where the policy lets it go.  For any Rooms, workers, messages and       *)
(* limits: checkpoints cover a Room without a gap and reduce no message     *)
(* twice, and no worker loses a lease that still runs.                      *)
(***************************************************************************)
EXTENDS CentralParts, FiniteSetTheorems, WellFoundedInduction, TLAPS

-----------------------------------------------------------------------------
(* The inductive invariant                                                 *)
(*                                                                         *)
(* A Device exists exactly for the attempt a row is bound to, once the row  *)
(* has come to the state that makes it.  That the Owner approves what the   *)
(* Owner saw rests on the binding: a row never changes the attempt it is    *)
(* bound to, so a view that shows one stays right.                          *)

\* The row has made its Device: a session when it is approved, the others when consumed.
Made(r) ==
  \/ r \in Sessions /\ row[r].state \in {"approved", "consumed"}
  \/ r \notin Sessions /\ row[r].state = "consumed"

\* A row is bound to the attempt that claimed it, and the attempt knows the row.
BoundRows ==
  /\ \A r \in Rows : row[r].attempt # None =>
        att[row[r].attempt] # None /\ att[row[r].attempt].row = r
  /\ \A r \in Rows : row[r].state \in {"none", "issued"} => row[r].attempt = None
  /\ \A r \in Rows : row[r].state \in {"claimed", "approved", "consumed"} =>
        row[r].attempt # None
  /\ \A r \in Rows : view[r] # None => view[r] = row[r].attempt

DevicesMade ==
  /\ \A a \in Attempts : devices[a] \in {0, 1}
  /\ \A a \in Attempts : devices[a] = 1 <=>
        att[a] # None /\ row[att[a].row].attempt = a /\ Made(att[a].row)
  /\ \A a \in Attempts : devices[a] = 1 /\ att[a].row \in Bound => a \in grants

\* An order to approve is for the attempt the row is bound to, of a Bridge in sight.
Approvals ==
  /\ \A r \in Rows : <<r, "approve">> \in orders =>
        /\ r \in Sessions /\ row[r].attempt # None
        /\ att[row[r].attempt].bridge \in Trusted
  /\ \A r \in Rows \ Invites : row[r].state \in {"approved", "consumed"} =>
        att[row[r].attempt].bridge \in Trusted

\* An attempt with a result in hand has its Device; one that writes is the current one.
Attempting ==
  /\ \A a \in Attempts : att[a] # None =>
        /\ att[a].how = "invite" <=> att[a].row \in Invites
        /\ att[a].step \in {"won", "link"} => devices[a] = 1
        /\ att[a].step = "link" => cur[att[a].bridge] = a /\ cred[att[a].bridge] = None
  /\ \A b \in Bridges : cur[b] # None =>
        att[cur[b]] # None /\ att[cur[b]].bridge = b /\ cur[b] \notin canceled
  /\ \A a \in canceled : att[a] # None

\* What is on the disk of a Bridge.
Installed ==
  /\ \A b \in Bridges : cred[b] # None =>
        att[cred[b]] # None /\ att[cred[b]].bridge = b /\ devices[cred[b]] = 1
  /\ \A b \in Bridges : cfile[b] # None =>
        att[cfile[b]] # None /\ att[cfile[b]].row \in Bound /\ devices[cfile[b]] = 1

PairingInv == TypeOK /\ BoundRows /\ DevicesMade /\ Approvals /\ Attempting /\ Installed
-----------------------------------------------------------------------------
(* What the parts of a step do                                             *)

RowType == [state : States, attempt : Attempts \cup {None}]

\* The attempts stay what they are, except for how far they got.
SameAttempts ==
  /\ att' \in [Attempts -> AttemptType \cup {None}]
  /\ \A a \in Attempts :
       /\ att'[a] = None <=> att[a] = None
       /\ att[a] # None => /\ att'[a].bridge = att[a].bridge /\ att'[a].row = att[a].row
                           /\ att'[a].how = att[a].how /\ att'[a].recovery = att[a].recovery

\* Going on is such a change, of one attempt.
LEMMA StepSame ==
  ASSUME TypeOK, NEW a \in Attempts, att[a] # None, NEW s \in Steps, step(a, s)
  PROVE  /\ SameAttempts /\ att'[a].step = s
         /\ \A q \in Attempts : q # a => att'[q] = att[q]
<1> USE DevicePairingAssumption
<1>1. att \in [Attempts -> AttemptType \cup {None}] /\ att' = [att EXCEPT ![a].step = s]
  BY DEF TypeOK, step
<1>2. att[a] \in AttemptType BY <1>1
<1> DEFINE n == [att[a] EXCEPT !.step = s]
<1>3. /\ n \in AttemptType /\ n.step = s /\ n.bridge = att[a].bridge /\ n.row = att[a].row
      /\ n.how = att[a].how /\ n.recovery = att[a].recovery
  BY <1>2 DEF AttemptType
<1>4. n # None BY <1>3
<1>5. att' = [att EXCEPT ![a] = n] BY <1>1
<1> HIDE DEF n
<1>6. /\ att' \in [Attempts -> AttemptType \cup {None}] /\ att'[a] = n
      /\ \A q \in Attempts : q # a => att'[q] = att[q]
  BY <1>1, <1>3, <1>5
<1> QED BY <1>3, <1>4, <1>6 DEF SameAttempts

\* The projection of a row never makes a decision: it may only have expired.
LEMMA ExpireCases ==
  ASSUME NEW r
  PROVE  \/ expire(r) = row[r].state
         \/ expire(r) = "expired" /\ row[r].state \in {"issued", "claimed"}
BY DEF expire

\* A new value n of a row r, with the Device and the grant it makes.
NewMade(r, n) ==
  \/ r \in Sessions /\ n.state \in {"approved", "consumed"}
  \/ r \notin Sessions /\ n.state = "consumed"

RowMove(r, n) ==
  /\ n \in RowType /\ row' = [row EXCEPT ![r] = n]
  /\ row[r].attempt # None => n.attempt = row[r].attempt
  /\ n.attempt # None => att[n.attempt] # None /\ att[n.attempt].row = r
  /\ n.state \in {"none", "issued"} => n.attempt = None
  /\ n.state \in {"claimed", "approved", "consumed"} => n.attempt # None
  /\ r \notin Invites /\ n.state \in {"approved", "consumed"} =>
       att[n.attempt].bridge \in Trusted
  /\ Made(r) => NewMade(r, n)
  /\ devices' \in [Attempts -> Nat]
  /\ \A a \in Attempts : \/ NewMade(r, n) /\ a = n.attempt /\ devices'[a] = 1
                         \/ ~(NewMade(r, n) /\ a = n.attempt) /\ devices'[a] = devices[a]
  /\ grants \subseteq grants' /\ grants' \subseteq Attempts
  /\ NewMade(r, n) /\ r \in Bound => n.attempt \in grants'

\* A move of one row keeps what is known of rows, Devices and approvals, and unmakes nothing.
LEMMA RowMoveKeeps ==
  ASSUME PairingInv, SameAttempts, NEW r \in Rows, NEW n, RowMove(r, n), orders' = orders,
         view' \in [Rows -> Attempts \cup {None}],
         \A q \in Rows : view'[q] = view[q] \/ view'[q] = row[q].attempt
  PROVE  /\ BoundRows' /\ DevicesMade' /\ Approvals'
         /\ row' \in [Rows -> RowType]
         /\ \A a \in Attempts : devices[a] = 1 => devices'[a] = 1
<1> USE DevicePairingAssumption
<1>1. /\ row \in [Rows -> RowType] /\ att \in [Attempts -> AttemptType \cup {None}]
      /\ row' = [row EXCEPT ![r] = n] /\ n \in RowType
  BY DEF PairingInv, TypeOK, RowMove, RowType
<1>2. /\ row' \in [Rows -> RowType] /\ row'[r] = n
      /\ \A q \in Rows : q # r => row'[q] = row[q]
  BY <1>1
<1>3. \A q \in Rows : /\ row[q].attempt \in Attempts \cup {None}
                      /\ row'[q].attempt \in Attempts \cup {None}
  BY <1>1, <1>2 DEF RowType
<1>4. \A q \in Rows : row[q].attempt # None => row'[q].attempt = row[q].attempt
  BY <1>2 DEF RowMove
<1>5. BoundRows'
  <2>1. \A q \in Rows : row'[q].attempt # None =>
          att'[row'[q].attempt] # None /\ att'[row'[q].attempt].row = q
    BY <1>2, <1>3 DEF RowMove, SameAttempts, PairingInv, BoundRows
  <2>2. \A q \in Rows : row'[q].state \in {"none", "issued"} => row'[q].attempt = None
    BY <1>2 DEF RowMove, PairingInv, BoundRows
  <2>3. \A q \in Rows : row'[q].state \in {"claimed", "approved", "consumed"} =>
          row'[q].attempt # None
    BY <1>2 DEF RowMove, PairingInv, BoundRows
  <2>4. \A q \in Rows : view'[q] # None => view'[q] = row'[q].attempt
    BY <1>4 DEF PairingInv, BoundRows
  <2> QED BY <2>1, <2>2, <2>3, <2>4 DEF BoundRows
<1>6. \A a \in Attempts : devices[a] = 1 => devices'[a] = 1
  BY DEF RowMove
<1>7. DevicesMade'
  <2>1. \A a \in Attempts : devices'[a] \in {0, 1}
    BY DEF RowMove, PairingInv, DevicesMade
  <2>2. ASSUME NEW a \in Attempts
        PROVE  devices'[a] = 1 <=>
                 att'[a] # None /\ row'[att'[a].row].attempt = a /\ Made(att[a].row)'
    <3>1. CASE NewMade(r, n) /\ a = n.attempt
      <4>1. devices'[a] = 1 /\ att[a] # None /\ att[a].row = r BY <3>1 DEF RowMove
      <4>2. att'[a] # None /\ att'[a].row = r BY <4>1 DEF SameAttempts
      <4>3. Made(r)' BY <1>2, <3>1 DEF Made, NewMade
      <4> QED BY <1>2, <3>1, <4>1, <4>2, <4>3
    <3>2. CASE ~(NewMade(r, n) /\ a = n.attempt)
      <4>1. devices'[a] = devices[a] BY <3>2 DEF RowMove
      <4>2. CASE att[a] = None
        BY <4>1, <4>2 DEF SameAttempts, PairingInv, DevicesMade
      <4>3. CASE att[a] # None
        <5>1. att'[a] # None /\ att'[a].row = att[a].row BY <4>3 DEF SameAttempts
        <5>2. att[a].row \in Rows BY <1>1, <4>3 DEF AttemptType
        <5>3. CASE att[a].row # r
          <6>1. row'[att[a].row] = row[att[a].row] BY <1>2, <5>2, <5>3
          <6>2. Made(att[a].row)' <=> Made(att[a].row)
            BY <5>1, <6>1 DEF Made
          <6> QED BY <4>1, <4>3, <5>1, <6>1, <6>2 DEF PairingInv, DevicesMade
        <5>4. CASE att[a].row = r
          <6>1. ~(row'[r].attempt = a /\ Made(att[a].row)')
            BY <1>2, <3>2, <5>1, <5>4 DEF Made, NewMade
          <6>2. ~(row[r].attempt = a /\ Made(r))
            BY <3>2 DEF RowMove
          <6> QED BY <4>1, <4>3, <5>1, <5>4, <6>1, <6>2 DEF PairingInv, DevicesMade
        <5> QED BY <5>3, <5>4
      <4> QED BY <4>2, <4>3
    <3> QED BY <3>1, <3>2
  <2>3. ASSUME NEW a \in Attempts, devices'[a] = 1, att'[a].row \in Bound PROVE a \in grants'
    <3>1. CASE NewMade(r, n) /\ a = n.attempt
      BY <2>3, <3>1 DEF RowMove, SameAttempts
    <3>2. CASE ~(NewMade(r, n) /\ a = n.attempt)
      <4>1. devices[a] = 1 /\ att[a] # None BY <2>3, <3>2 DEF RowMove, PairingInv, DevicesMade
      <4> QED BY <2>3, <4>1 DEF RowMove, SameAttempts, PairingInv, DevicesMade
    <3> QED BY <3>1, <3>2
  <2> QED BY <2>1, <2>2, <2>3 DEF DevicesMade
<1>8. Approvals'
  <2>1. ASSUME NEW q \in Rows, <<q, "approve">> \in orders'
        PROVE  /\ q \in Sessions /\ row'[q].attempt # None
               /\ att'[row'[q].attempt].bridge \in Trusted
    <3>1. q \in Sessions /\ row[q].attempt # None /\ att[row[q].attempt].bridge \in Trusted
      BY <2>1 DEF PairingInv, Approvals
    <3>2. att[row[q].attempt] # None BY <3>1 DEF PairingInv, BoundRows
    <3> QED BY <1>3, <1>4, <3>1, <3>2 DEF SameAttempts
  <2>2. ASSUME NEW q \in Rows \ Invites, row'[q].state \in {"approved", "consumed"}
        PROVE  att'[row'[q].attempt].bridge \in Trusted
    <3>1. row'[q].attempt \in Attempts /\ att[row'[q].attempt].bridge \in Trusted
      BY <1>2, <1>3, <2>2 DEF RowMove, PairingInv, BoundRows, Approvals
    <3>2. att[row'[q].attempt] # None
      BY <1>2, <2>2 DEF RowMove, PairingInv, BoundRows
    <3> QED BY <3>1, <3>2 DEF SameAttempts
  <2> QED BY <2>1, <2>2 DEF Approvals
<1> QED BY <1>2, <1>5, <1>6, <1>7, <1>8

-----------------------------------------------------------------------------
(* The operations of Central are such moves                                *)

\* What is known of a row and of an attempt.
LEMMA RowFacts ==
  ASSUME PairingInv, NEW r \in Rows
  PROVE  /\ row[r] \in RowType /\ row[r].state \in States
         /\ row[r].attempt \in Attempts \cup {None}
         /\ row[r].attempt # None =>
              /\ row[r].attempt \in Attempts
              /\ att[row[r].attempt] # None /\ att[row[r].attempt].row = r
BY DEF PairingInv, TypeOK, BoundRows, RowType

\* A row whose Device is made has it; one whose is not has none.
LEMMA MadeFacts ==
  ASSUME PairingInv, NEW r \in Rows, row[r].attempt # None
  PROVE  /\ Made(r) => devices[row[r].attempt] = 1
         /\ ~Made(r) => devices[row[r].attempt] = 0
         /\ Made(r) /\ r \in Bound => row[r].attempt \in grants
BY RowFacts DEF PairingInv, DevicesMade

\* A change of the state of a row that makes no Device.
LEMMA StateMove ==
  ASSUME PairingInv, NEW r \in Rows, NEW s \in States \ {"none", "issued"},
         row' = [row EXCEPT ![r].state = s], UNCHANGED <<devices, grants>>,
         s \in {"claimed", "approved", "consumed"} => row[r].attempt # None,
         r \notin Invites /\ s \in {"approved", "consumed"} =>
           att[row[r].attempt].bridge \in Trusted,
         Made(r) <=> \/ r \in Sessions /\ s \in {"approved", "consumed"}
                     \/ r \notin Sessions /\ s = "consumed"
  PROVE  \E n : RowMove(r, n)
<1> DEFINE n == [row[r] EXCEPT !.state = s]
<1>1. row[r] \in RowType /\ row[r].state \in States BY RowFacts
<1>2. n \in RowType /\ n.state = s /\ n.attempt = row[r].attempt
  BY <1>1 DEF RowType
<1>3. row' = [row EXCEPT ![r] = n] OBVIOUS
<1> HIDE DEF n
<1>4. Made(r) <=> NewMade(r, n) BY <1>2 DEF NewMade
<1>5. row[r].attempt # None => att[row[r].attempt] # None /\ att[row[r].attempt].row = r
  BY RowFacts
<1>6. Made(r) => devices[row[r].attempt] = 1 /\ (r \in Bound => row[r].attempt \in grants)
  <2>1. Made(r) => row[r].attempt # None
    BY DEF Made, PairingInv, BoundRows
  <2> QED BY <2>1, MadeFacts
<1>7. devices' \in [Attempts -> Nat] /\ grants' = grants /\ grants \subseteq Attempts
  BY DEF PairingInv, TypeOK
<1>8. RowMove(r, n)
  BY <1>2, <1>3, <1>4, <1>5, <1>6, <1>7 DEF RowMove
<1> QED BY <1>8

\* create and createInvite
LEMMA CreateMoves ==
  ASSUME PairingInv, NEW r \in Rows, create(r)
  PROVE  \E n : RowMove(r, n)
<1> DEFINE n == [row[r] EXCEPT !.state = "issued"]
<1>1. /\ row[r] \in RowType /\ row[r].state = "none" /\ row[r].attempt = None
      /\ UNCHANGED <<devices, grants>>
  BY RowFacts DEF create, PairingInv, BoundRows
<1>2. n \in RowType /\ n.state = "issued" /\ n.attempt = None
  BY <1>1 DEF RowType, States
<1>3. row' = [row EXCEPT ![r] = n] BY DEF create
<1> HIDE DEF n
<1>4. ~Made(r) /\ ~NewMade(r, n) BY <1>1, <1>2 DEF Made, NewMade
<1>5. devices' \in [Attempts -> Nat] /\ grants \subseteq Attempts
  BY <1>1 DEF PairingInv, TypeOK
<1>6. RowMove(r, n) BY <1>1, <1>2, <1>3, <1>4, <1>5 DEF RowMove
<1> QED BY <1>6

\* A row is bound to an attempt: by a claim, a join request or an exchange.
LEMMA BindMoves ==
  ASSUME PairingInv, NEW a \in Attempts, att[a] # None, NEW r \in Rows, att[a].row = r,
         row[r].attempt = None, NEW s \in {"claimed", "consumed"},
         row' = [row EXCEPT ![r] = [state |-> s, attempt |-> a]],
         s = "consumed" => r \in Invites,
         ~Made(r),
         devices' = IF s = "consumed" THEN [devices EXCEPT ![a] = @ + 1] ELSE devices,
         grants' = grants
  PROVE  \E n : RowMove(r, n)
<1> USE DevicePairingAssumption
<1> DEFINE n == [state |-> s, attempt |-> a]
<1>1. n \in RowType /\ n.state = s /\ n.attempt = a BY DEF RowType, States
<1>2. row' = [row EXCEPT ![r] = n] OBVIOUS
<1> HIDE DEF n
<1>3. NewMade(r, n) <=> s = "consumed" BY <1>1 DEF NewMade
<1>4. devices[a] = 0 BY DEF PairingInv, DevicesMade
<1>5. devices \in [Attempts -> Nat] /\ grants \subseteq Attempts BY DEF PairingInv, TypeOK
<1>6. devices' \in [Attempts -> Nat] BY <1>5
<1>7. \A q \in Attempts : \/ s = "consumed" /\ q = a /\ devices'[q] = 1
                          \/ ~(s = "consumed" /\ q = a) /\ devices'[q] = devices[q]
  BY <1>4, <1>5
<1>8. RowMove(r, n) BY <1>1, <1>2, <1>3, <1>5, <1>6, <1>7 DEF RowMove
<1> QED BY <1>8

\* A Device is made of the attempt a row is bound to, with its grant.
LEMMA MakeMoves ==
  ASSUME PairingInv, NEW r \in Rows \ Invites, row[r].attempt # None, ~Made(r),
         NEW s \in {"approved", "consumed"}, r \notin Sessions => s = "consumed",
         att[row[r].attempt].bridge \in Trusted,
         row' = [row EXCEPT ![r].state = s],
         devices' = [devices EXCEPT ![row[r].attempt] = @ + 1],
         grants' = IF r \in Bound THEN grants \cup {row[r].attempt} ELSE grants
  PROVE  \E n : RowMove(r, n)
<1> DEFINE n == [row[r] EXCEPT !.state = s]
<1> DEFINE a == row[r].attempt
<1>1. row[r] \in RowType /\ a \in Attempts /\ att[a] # None /\ att[a].row = r
  BY RowFacts
<1>2. n \in RowType /\ n.state = s /\ n.attempt = a
  BY <1>1 DEF RowType, States
<1>3. row' = [row EXCEPT ![r] = n] OBVIOUS
<1>4. devices[a] = 0 BY MadeFacts
<1>5. devices \in [Attempts -> Nat] /\ grants \subseteq Attempts BY DEF PairingInv, TypeOK
<1>6. grants \subseteq grants' /\ grants' \subseteq Attempts /\ (r \in Bound => a \in grants')
  BY <1>1, <1>5
<1>7. devices' = [devices EXCEPT ![a] = @ + 1] OBVIOUS
<1> HIDE DEF n, a
<1>8. /\ devices' \in [Attempts -> Nat] /\ devices'[a] = 1
      /\ \A q \in Attempts : q # a => devices'[q] = devices[q]
  BY <1>1, <1>4, <1>5, <1>7
<1>9. NewMade(r, n) BY <1>2 DEF NewMade
<1>10. att[a].bridge \in Trusted /\ (row[r].attempt # None => n.attempt = row[r].attempt)
  BY <1>2 DEF a
<1>11. RowMove(r, n) BY <1>1, <1>2, <1>3, <1>6, <1>8, <1>9, <1>10 DEF RowMove
<1> QED BY <1>11

\* What an operation of Central does to rows, Devices and grants.
CentralMove == (\E r \in Rows : \E n : RowMove(r, n)) \/ UNCHANGED <<row, devices, grants>>

\* What is known of an attempt.
LEMMA AttemptFacts ==
  ASSUME PairingInv, NEW a \in Attempts, att[a] # None
  PROVE  /\ att[a] \in AttemptType /\ att[a].row \in Rows /\ att[a].bridge \in Bridges
         /\ att[a].step \in Steps
BY DEF PairingInv, TypeOK, AttemptType

\* A row that takes the state it has stays as it is.
LEMMA SameState ==
  ASSUME PairingInv, NEW r \in Rows, row' = [row EXCEPT ![r].state = row[r].state]
  PROVE  row' = row
<1>1. row \in [Rows -> RowType] /\ row[r] \in RowType BY RowFacts DEF PairingInv, TypeOK, RowType
<1>2. [row[r] EXCEPT !.state = row[r].state] = row[r] BY <1>1 DEF RowType
<1>3. row' = [row EXCEPT ![r] = row[r]] BY <1>2
<1> QED BY <1>1, <1>3

\* get
LEMMA GetMoves ==
  ASSUME PairingInv, NEW r \in Rows, get(r)
  PROVE  CentralMove
<1>1. row' = [row EXCEPT ![r].state = expire(r)] /\ UNCHANGED <<devices, grants>> BY DEF get
<1>2. CASE expire(r) = row[r].state
  BY <1>1, <1>2, SameState DEF CentralMove
<1>3. CASE expire(r) = "expired" /\ row[r].state \in {"issued", "claimed"}
  <2>1. row' = [row EXCEPT ![r].state = "expired"] /\ ~Made(r) BY <1>1, <1>3 DEF Made
  <2>2. \E n : RowMove(r, n) BY <1>1, <2>1, StateMove DEF States
  <2> QED BY <2>2 DEF CentralMove
<1> QED BY <1>2, <1>3, ExpireCases

\* decide
LEMMA DecideMoves ==
  ASSUME PairingInv, NEW r \in Rows, NEW action \in Actions, decide(r, action)
  PROVE  CentralMove
<1> USE DevicePairingAssumption
<1>1. CASE action = "approve" /\ expire(r) = "claimed" /\ approveRow(r)
  <2>1. row[r].state = "claimed" BY <1>1, ExpireCases
  <2>2. /\ r \in Sessions /\ row[r].attempt # None /\ att[row[r].attempt].bridge \in Trusted
        /\ r \notin Invites
    BY <1>1 DEF decide, PairingInv, Approvals
  <2>3. ~Made(r) BY <2>1 DEF Made
  <2>4. /\ row' = [row EXCEPT ![r].state = "approved"]
        /\ devices' = [devices EXCEPT ![row[r].attempt] = @ + 1]
        /\ grants' = IF r \in Bound THEN grants \cup {row[r].attempt} ELSE grants
    BY <1>1 DEF approveRow
  <2>5. \E n : RowMove(r, n) BY <2>2, <2>3, <2>4, MakeMoves
  <2> QED BY <2>5 DEF CentralMove
<1>2. ASSUME NEW s \in {"rejected", "canceled"}, row' = [row EXCEPT ![r].state = s],
             expire(r) \in {"issued", "claimed"}, UNCHANGED <<devices, grants>>
      PROVE  CentralMove
  <2>1. row[r].state \in {"issued", "claimed"} BY <1>2, ExpireCases
  <2>2. ~Made(r) BY <2>1 DEF Made
  <2>3. \E n : RowMove(r, n) BY <1>2, <2>2, StateMove DEF States
  <2> QED BY <2>3 DEF CentralMove
<1> QED BY <1>1, <1>2 DEF decide

\* approveJoinRequest
LEMMA JoinMoves ==
  ASSUME PairingInv, NEW r \in Rows, approveJoinRequest(r)
  PROVE  CentralMove
<1> USE DevicePairingAssumption
<1>1. /\ r \in Joins /\ r \notin Sessions /\ row[r].state = "claimed" /\ UNCHANGED <<devices, grants>>
      /\ row' = [row EXCEPT ![r].state = "approved"] /\ att[row[r].attempt].bridge \in Trusted
  BY DEF approveJoinRequest
<1>2. ~Made(r) /\ row[r].attempt # None BY <1>1 DEF Made, PairingInv, BoundRows
<1>3. \E n : RowMove(r, n) BY <1>1, <1>2, StateMove DEF States
<1> QED BY <1>3 DEF CentralMove

\* claim, createJoinRequest and exchange; an exchange has made the Device.
LEMMA ClaimMoves ==
  ASSUME PairingInv, NEW a \in Attempts, att[a] # None, claim(a)
  PROVE  CentralMove /\ (att[a].row \in Invites => devices'[a] = 1)
<1> USE DevicePairingAssumption
<1> DEFINE r == att[a].row
<1>1. r \in Rows BY AttemptFacts
<1>2. grants' = grants BY DEF claim
<1>3. CASE claimSession(a)
  <2>1. r \in Sessions /\ r \notin Invites /\ devices' = devices BY <1>3 DEF claimSession
  <2>2. CASE claimable(a) /\ row' = [row EXCEPT ![r] = [state |-> "claimed", attempt |-> a]]
    <3>1. row[r].state = "issued" BY <2>2, ExpireCases DEF claimable
    <3>2. row[r].attempt = None /\ ~Made(r)
      BY <1>1, <3>1 DEF PairingInv, BoundRows, Made
    <3> HIDE DEF r
    <3>3. att[a].row = r BY DEF r
    <3>4. \E n : RowMove(r, n)
      BY <1>1, <1>2, <2>1, <2>2, <3>2, <3>3, BindMoves
    <3> QED BY <1>1, <2>1, <3>3, <3>4 DEF CentralMove
  <2>3. CASE UNCHANGED row BY <1>2, <2>1, <2>3 DEF CentralMove
  <2> QED BY <1>3, <2>2, <2>3 DEF claimSession
<1>4. CASE createJoinRequest(a)
  <2>1. /\ r \in Joins /\ r \notin Invites /\ row[r].state = "none" /\ devices' = devices
        /\ row' = [row EXCEPT ![r] = [state |-> "claimed", attempt |-> a]]
    BY <1>4 DEF createJoinRequest
  <2>2. row[r].attempt = None /\ ~Made(r)
    BY <1>1, <2>1 DEF PairingInv, BoundRows, Made
  <2> HIDE DEF r
  <2>3. att[a].row = r BY DEF r
  <2>4. \E n : RowMove(r, n)
    BY <1>1, <1>2, <2>1, <2>2, <2>3, BindMoves
  <2> QED BY <1>1, <2>1, <2>3, <2>4 DEF CentralMove
<1>5. CASE exchange(a)
  <2>1. /\ r \in Invites /\ expire(r) = "issued"
        /\ row' = [row EXCEPT ![r] = [state |-> "consumed", attempt |-> a]]
        /\ devices' = [devices EXCEPT ![a] = @ + 1]
    BY <1>5 DEF exchange
  <2>2. row[r].state = "issued" BY <2>1, ExpireCases
  <2>3. row[r].attempt = None /\ ~Made(r)
    BY <1>1, <2>2 DEF PairingInv, BoundRows, Made
  <2>4. devices[a] = 0 /\ devices \in [Attempts -> Nat]
    BY <2>3 DEF PairingInv, DevicesMade, TypeOK
  <2>5. devices'[a] = 1 BY <2>1, <2>4
  <2> HIDE DEF r
  <2>6. att[a].row = r BY DEF r
  <2>7. \E n : RowMove(r, n)
    BY <1>1, <1>2, <2>1, <2>3, <2>6, BindMoves
  <2> QED BY <1>1, <2>5, <2>7 DEF CentralMove
<1> QED BY <1>3, <1>4, <1>5 DEF claim

\* poll and claimJoinRequest answer with a Device that is made.
LEMMA PollMoves ==
  ASSUME PairingInv, NEW a \in Attempts, att[a] # None, poll(a)
  PROVE  CentralMove /\ devices'[a] = 1
<1> USE DevicePairingAssumption
<1> DEFINE r == att[a].row
<1>1. r \in Rows BY AttemptFacts
<1>2. CASE /\ r \in Sessions /\ row[r].attempt = a /\ row[r].state \in {"approved", "consumed"}
           /\ row' = [row EXCEPT ![r].state = "consumed"]
           /\ UNCHANGED <<late, devices, grants>>
  <2>1. Made(r) /\ row[r].attempt # None BY <1>2 DEF Made
  <2>2. att[row[r].attempt].bridge \in Trusted BY <1>1, <1>2 DEF PairingInv, Approvals
  <2>3. devices'[a] = 1 BY <1>1, <1>2, <2>1, MadeFacts
  <2> HIDE DEF r
  <2>4. \E n : RowMove(r, n) BY <1>1, <1>2, <2>1, <2>2, StateMove DEF States
  <2> QED BY <1>1, <2>3, <2>4 DEF CentralMove
<1>3. CASE r \in Joins /\ claimJoinRequest(a)
  <2>1. /\ r \in Joins /\ r \notin Sessions /\ r \notin Invites /\ r \notin Bound
        /\ row[r].attempt = a /\ row[r].state \in {"approved", "consumed"}
        /\ row' = [row EXCEPT ![r].state = "consumed"] /\ grants' = grants
    BY <1>3 DEF claimJoinRequest
  <2>2. devices' = [devices EXCEPT ![a] = IF row[r].state = "approved" THEN @ + 1 ELSE @]
    BY <1>3 DEF claimJoinRequest
  <2>3. att[a].bridge \in Trusted /\ row[r].attempt # None
    BY <1>1, <2>1 DEF PairingInv, Approvals
  <2>4. devices \in [Attempts -> Nat] BY DEF PairingInv, TypeOK
  <2>5. CASE row[r].state = "approved"
    <3>1. devices' = [devices EXCEPT ![a] = @ + 1] BY <2>2, <2>5
    <3>2. ~Made(r) BY <2>1, <2>5 DEF Made
    <3>3. devices[a] = 0 BY <1>1, <2>1, <2>3, <3>2, MadeFacts
    <3>4. devices'[a] = 1 BY <2>4, <3>1, <3>3
    <3> HIDE DEF r
    <3>5. \E n : RowMove(r, n) BY <1>1, <2>1, <2>3, <3>1, <3>2, MakeMoves
    <3> QED BY <1>1, <3>4, <3>5 DEF CentralMove
  <2>6. CASE row[r].state = "consumed"
    <3>1. devices' = [devices EXCEPT ![a] = devices[a]] BY <2>2, <2>6
    <3>2. devices' = devices BY <2>4, <3>1
    <3>3. Made(r) BY <2>1, <2>6 DEF Made
    <3>4. devices'[a] = 1 BY <1>1, <2>1, <2>3, <3>2, <3>3, MadeFacts
    <3> HIDE DEF r
    <3>5. \E n : RowMove(r, n) BY <1>1, <2>1, <2>3, <3>2, <3>3, StateMove DEF States
    <3> QED BY <1>1, <3>4, <3>5 DEF CentralMove
  <2> QED BY <2>1, <2>5, <2>6
<1> QED BY <1>2, <1>3 DEF poll

\* The refusals of a poll.
LEMMA RefuseMoves ==
  ASSUME PairingInv, NEW a \in Attempts, att[a] # None, refusePoll(a)
  PROVE  CentralMove
<1> DEFINE r == att[a].row
<1>1. r \in Rows /\ UNCHANGED <<devices, grants>> BY AttemptFacts DEF refusePoll
<1>2. CASE /\ expire(r) \in {"rejected", "canceled", "expired"}
           /\ row' = [row EXCEPT ![r].state = expire(r)]
  <2>1. PICK s \in {"rejected", "canceled", "expired"} : s = expire(r) BY <1>2
  <2>2. ~Made(r) BY <1>2, ExpireCases DEF Made
  <2>3. row' = [row EXCEPT ![r].state = s] BY <1>2, <2>1
  <2> HIDE DEF r
  <2>4. \E n : RowMove(r, n) BY <1>1, <2>1, <2>2, <2>3, StateMove DEF States
  <2> QED BY <1>1, <2>4 DEF CentralMove
<1>3. CASE UNCHANGED row BY <1>1, <1>3 DEF CentralMove
<1> QED BY <1>2, <1>3 DEF refusePoll

\* Whatever Central does keeps what is known of rows, Devices and approvals.
LEMMA CentralKeeps ==
  ASSUME PairingInv, SameAttempts, CentralMove, orders' = orders,
         view' \in [Rows -> Attempts \cup {None}],
         \A q \in Rows : view'[q] = view[q] \/ view'[q] = row[q].attempt
  PROVE  /\ BoundRows' /\ DevicesMade' /\ Approvals'
         /\ row' \in [Rows -> RowType] /\ devices' \in [Attempts -> Nat]
         /\ grants' \subseteq Attempts
         /\ \A a \in Attempts : devices[a] = 1 => devices'[a] = 1
<1> USE DevicePairingAssumption
<1>1. CASE \E r \in Rows : \E n : RowMove(r, n)
  <2>1. PICK r \in Rows : \E n : RowMove(r, n) BY <1>1
  <2>2. PICK n : RowMove(r, n) BY <2>1
  <2>3. devices' \in [Attempts -> Nat] /\ grants' \subseteq Attempts BY <2>2 DEF RowMove
  <2> QED BY <2>2, <2>3, RowMoveKeeps
<1>2. CASE UNCHANGED <<row, devices, grants>>
  <2>1. /\ row' \in [Rows -> RowType] /\ devices' \in [Attempts -> Nat] /\ grants' \subseteq Attempts
        /\ row \in [Rows -> RowType]
    BY <1>2 DEF PairingInv, TypeOK, RowType
  <2>2. \A q \in Rows : row[q].attempt \in Attempts \cup {None} BY <2>1 DEF RowType
  <2>3. BoundRows' BY <1>2, <2>2 DEF BoundRows, PairingInv, SameAttempts
  <2>4. DevicesMade'
    <3>1. ASSUME NEW a \in Attempts
          PROVE  devices'[a] = 1 <=>
                   att'[a] # None /\ row'[att'[a].row].attempt = a /\ Made(att[a].row)'
      <4>1. CASE att[a] = None
        BY <1>2, <4>1 DEF SameAttempts, PairingInv, DevicesMade
      <4>2. CASE att[a] # None
        <5>1. att'[a] # None /\ att'[a].row = att[a].row BY <4>2 DEF SameAttempts
        <5>2. Made(att[a].row)' <=> Made(att[a].row) BY <1>2, <5>1 DEF Made
        <5>3. devices'[a] = devices[a] /\ row'[att'[a].row].attempt = row[att[a].row].attempt
          BY <1>2, <5>1
        <5>4. devices[a] = 1 <=> row[att[a].row].attempt = a /\ Made(att[a].row)
          BY <4>2 DEF PairingInv, DevicesMade
        <5> QED BY <5>1, <5>2, <5>3, <5>4
      <4> QED BY <4>1, <4>2
    <3>2. ASSUME NEW a \in Attempts, devices'[a] = 1, att'[a].row \in Bound PROVE a \in grants'
      <4>1. devices[a] = 1 /\ att[a] # None BY <1>2, <3>2 DEF PairingInv, DevicesMade
      <4> QED BY <1>2, <3>2, <4>1 DEF SameAttempts, PairingInv, DevicesMade
    <3> QED BY <1>2, <3>1, <3>2 DEF PairingInv, DevicesMade
  <2>5. Approvals'
    <3>1. ASSUME NEW q \in Rows, <<q, "approve">> \in orders'
          PROVE  /\ q \in Sessions /\ row'[q].attempt # None
                 /\ att'[row'[q].attempt].bridge \in Trusted
      BY <1>2, <2>2, <3>1 DEF PairingInv, Approvals, BoundRows, SameAttempts
    <3>2. ASSUME NEW q \in Rows \ Invites, row'[q].state \in {"approved", "consumed"}
          PROVE  att'[row'[q].attempt].bridge \in Trusted
      BY <1>2, <2>2, <3>2 DEF PairingInv, Approvals, BoundRows, SameAttempts
    <3> QED BY <3>1, <3>2 DEF Approvals
  <2> QED BY <1>2, <2>1, <2>3, <2>4, <2>5
<1> QED BY <1>1, <1>2 DEF CentralMove

-----------------------------------------------------------------------------
(* The steps that leave the Console and the disk alone                     *)

\* An attempt goes on without a result, or with one whose Device is made.
GoesOn(a) ==
  \/ att'[a] = att[a]
  \/ att[a] # None /\ att'[a].step \notin {"won", "link"}
  \/ att[a] # None /\ att'[a].step = "won" /\ devices'[a] = 1

\* A step of Central or of a Bridge's client keeps the invariant.
LEMMA ClientKeeps ==
  ASSUME PairingInv, SameAttempts, CentralMove, late' \subseteq Rows, orders' = orders,
         view' \in [Rows -> Attempts \cup {None}],
         \A q \in Rows : view'[q] = view[q] \/ view'[q] = row[q].attempt,
         \A a \in Attempts : GoesOn(a),
         sent' \subseteq {"claim", "poll"} \X Attempts, faults' \in 0..MaxFaults,
         UNCHANGED <<cur, canceled, disk>>
  PROVE  PairingInv'
<1> USE DevicePairingAssumption
<1>1. /\ BoundRows' /\ DevicesMade' /\ Approvals'
      /\ row' \in [Rows -> RowType] /\ devices' \in [Attempts -> Nat]
      /\ grants' \subseteq Attempts
      /\ \A a \in Attempts : devices[a] = 1 => devices'[a] = 1
  BY CentralKeeps
<1>2. /\ cur' = cur /\ canceled' = canceled /\ cred' = cred /\ cfile' = cfile BY DEF disk
<1>3. /\ cur \in [Bridges -> Attempts \cup {None}] /\ cred \in [Bridges -> Attempts \cup {None}]
      /\ cfile \in [Bridges -> Attempts \cup {None}] /\ canceled \subseteq Attempts
      /\ orders \subseteq Rows \X Actions
  BY DEF PairingInv, TypeOK
<1>4. att' \in [Attempts -> AttemptType \cup {None}] BY DEF SameAttempts
<1>5. TypeOK' BY <1>1, <1>2, <1>3, <1>4 DEF TypeOK, RowType
<1>6. Attempting'
  <2>1. ASSUME NEW a \in Attempts, att'[a] # None
        PROVE  /\ att'[a].how = "invite" <=> att'[a].row \in Invites
               /\ att'[a].step \in {"won", "link"} => devices'[a] = 1
               /\ att'[a].step = "link" => cur'[att'[a].bridge] = a /\ cred'[att'[a].bridge] = None
    <3>1. /\ att[a] # None /\ att'[a].how = att[a].how /\ att'[a].row = att[a].row
          /\ att'[a].bridge = att[a].bridge
      BY <2>1 DEF SameAttempts
    <3>2. GoesOn(a) OBVIOUS
    <3> QED BY <1>1, <1>2, <3>1, <3>2 DEF GoesOn, PairingInv, Attempting
  <2>2. ASSUME NEW b \in Bridges, cur'[b] # None
        PROVE  att'[cur'[b]] # None /\ att'[cur'[b]].bridge = b /\ cur'[b] \notin canceled'
    BY <1>2, <1>3, <2>2 DEF SameAttempts, PairingInv, Attempting
  <2>3. \A a \in canceled' : att'[a] # None
    BY <1>2, <1>3 DEF SameAttempts, PairingInv, Attempting
  <2> QED BY <2>1, <2>2, <2>3 DEF Attempting
<1>7. Installed'
  <2>1. ASSUME NEW b \in Bridges, cred'[b] # None
        PROVE  att'[cred'[b]] # None /\ att'[cred'[b]].bridge = b /\ devices'[cred'[b]] = 1
    BY <1>1, <1>2, <1>3, <2>1 DEF SameAttempts, PairingInv, Installed
  <2>2. ASSUME NEW b \in Bridges, cfile'[b] # None
        PROVE  att'[cfile'[b]] # None /\ att'[cfile'[b]].row \in Bound /\ devices'[cfile'[b]] = 1
    BY <1>1, <1>2, <1>3, <2>2 DEF SameAttempts, PairingInv, Installed
  <2> QED BY <2>1, <2>2 DEF Installed
<1> QED BY <1>1, <1>5, <1>6, <1>7 DEF PairingInv

\* The attempts as they are
LEMMA AttemptsStay ==
  ASSUME PairingInv, UNCHANGED att
  PROVE  SameAttempts /\ \A a \in Attempts : GoesOn(a)
BY DEF PairingInv, TypeOK, SameAttempts, GoesOn

\* One attempt that goes on
LEMMA AttemptGoes ==
  ASSUME PairingInv, NEW a \in Attempts, att[a] # None, NEW s \in Steps \ {"link"}, step(a, s),
         s = "won" => devices'[a] = 1
  PROVE  SameAttempts /\ \A q \in Attempts : GoesOn(q)
<1>1. /\ SameAttempts /\ att'[a].step = s
      /\ \A q \in Attempts : q # a => att'[q] = att[q]
  BY StepSame DEF PairingInv
<1> QED BY <1>1 DEF GoesOn

\* The types of what a step leaves alone or counts
LEMMA Counted ==
  ASSUME PairingInv
  PROVE  /\ late \subseteq Rows /\ view \in [Rows -> Attempts \cup {None}]
         /\ sent \subseteq {"claim", "poll"} \X Attempts
         /\ faults \in 0..MaxFaults
         /\ Works \/ Fails => faults' \in 0..MaxFaults
BY DevicePairingAssumption DEF PairingInv, TypeOK, Works, Fails

-----------------------------------------------------------------------------
(* The operations of Central and of its Owner                              *)

\* create, get, decide, approveJoinRequest and the deadline
LEMMA CentralOps ==
  ASSUME PairingInv, NEW r \in Rows,
         \/ create(r) \/ get(r) \/ approveJoinRequest(r) \/ Deadline(r)
         \/ \E action \in Actions : decide(r, action)
  PROVE  PairingInv'
<1>1. /\ UNCHANGED <<orders, att, sent, cur, canceled, disk, faults>>
      /\ late' \subseteq Rows
  BY Counted DEF create, get, approveJoinRequest, Deadline, decide, owner
<1>2. CentralMove
  <2>1. CASE create(r) BY <2>1, CreateMoves DEF CentralMove
  <2>2. CASE get(r) BY <2>2, GetMoves
  <2>3. CASE approveJoinRequest(r) BY <2>3, JoinMoves
  <2>4. CASE Deadline(r) BY <2>4 DEF Deadline, CentralMove
  <2>5. CASE \E action \in Actions : decide(r, action) BY <2>5, DecideMoves
  <2> QED BY <2>1, <2>2, <2>3, <2>4, <2>5
<1>3. /\ view' \in [Rows -> Attempts \cup {None}]
      /\ \A q \in Rows : view'[q] = view[q] \/ view'[q] = row[q].attempt
  <2>1. CASE get(r)
    <3>1. row[r].attempt \in Attempts \cup {None} BY RowFacts
    <3> QED BY <2>1, <3>1, Counted DEF get
  <2>2. CASE UNCHANGED view BY <2>2, Counted
  <2> QED BY <2>1, <2>2 DEF create, approveJoinRequest, Deadline, decide, owner
<1>4. SameAttempts /\ \A a \in Attempts : GoesOn(a) BY <1>1, AttemptsStay
<1>5. sent' \subseteq {"claim", "poll"} \X Attempts /\ faults' \in 0..MaxFaults
  BY <1>1, Counted
<1> QED BY <1>1, <1>2, <1>3, <1>4, <1>5, ClientKeeps

\* Whoever saw the phrase saw the attempt the row is bound to.
LEMMA OrderKeeps ==
  ASSUME PairingInv, NEW r \in Rows, NEW action \in Actions, Order(r, action)
  PROVE  PairingInv'
<1>1. /\ UNCHANGED <<central, view, att, sent, cur, canceled, disk, faults>>
      /\ orders' = orders \cup {<<r, action>>}
  BY DEF Order
<1>2. /\ row' = row /\ late' = late /\ devices' = devices /\ grants' = grants /\ view' = view
      /\ att' = att /\ sent' = sent /\ cur' = cur /\ canceled' = canceled /\ cred' = cred
      /\ cfile' = cfile /\ faults' = faults
  BY <1>1 DEF central, disk
<1>3. orders' \subseteq Rows \X Actions BY <1>1 DEF PairingInv, TypeOK
<1>4. TypeOK' BY <1>2, <1>3 DEF PairingInv, TypeOK
<1>5. BoundRows' BY <1>2 DEF PairingInv, BoundRows
<1>6. DevicesMade' BY <1>2 DEF PairingInv, DevicesMade, Made
<1>7. Approvals'
  <2>1. ASSUME NEW q \in Rows, <<q, "approve">> \in orders'
        PROVE  q \in Sessions /\ row[q].attempt # None /\ att[row[q].attempt].bridge \in Trusted
    <3>1. CASE <<q, "approve">> \in orders BY <3>1 DEF PairingInv, Approvals
    <3>2. CASE q = r /\ action = "approve"
      <4>1. r \in Sessions /\ view[r] # None /\ att[view[r]].bridge \in Trusted
        BY <3>2 DEF Order
      <4> QED BY <3>2, <4>1 DEF PairingInv, BoundRows
    <3> QED BY <1>1, <2>1, <3>1, <3>2
  <2> QED BY <1>2, <2>1 DEF PairingInv, Approvals
<1>8. Attempting' BY <1>2 DEF PairingInv, Attempting
<1>9. Installed' BY <1>2 DEF PairingInv, Installed
<1> QED BY <1>4, <1>5, <1>6, <1>7, <1>8, <1>9 DEF PairingInv

-----------------------------------------------------------------------------
(* The requests of the Bridge                                              *)

\* Where the Owner's page and the Console stand still
LEMMA RequestKeeps ==
  ASSUME PairingInv, SameAttempts, CentralMove, late' = late, UNCHANGED owner,
         \A a \in Attempts : GoesOn(a), sent' \subseteq {"claim", "poll"} \X Attempts,
         Works \/ Fails, UNCHANGED <<cur, canceled, disk>>
  PROVE  PairingInv'
<1>1. /\ late' \subseteq Rows /\ orders' = orders /\ view' = view
      /\ view' \in [Rows -> Attempts \cup {None}] /\ faults' \in 0..MaxFaults
  BY Counted DEF owner
<1> QED BY <1>1, ClientKeeps

\* Pair, Join and Exchange, to their answer, refusal or end
LEMMA ClientOps ==
  ASSUME PairingInv, NEW a \in Attempts, Client(a)
  PROVE  PairingInv'
<1> USE DEF waiting
<1>1. CASE Claimed(a)
  <2>1. att[a] # None /\ claim(a) /\ step(a, "poll") /\ Works /\ UNCHANGED <<owner, cur, canceled, disk>>
    BY <1>1 DEF Claimed
  <2>2. CentralMove /\ late' = late BY <2>1, ClaimMoves DEF claim
  <2>3. SameAttempts /\ \A q \in Attempts : GoesOn(q) BY <2>1, AttemptGoes DEF Steps
  <2>4. sent' \subseteq {"claim", "poll"} \X Attempts BY <1>1, Counted DEF Claimed
  <2> QED BY <2>1, <2>2, <2>3, <2>4, RequestKeeps
<1>2. CASE Exchange(a)
  <2>1. /\ att[a] # None /\ att[a].how = "invite" /\ claim(a) /\ step(a, "won") /\ Works
        /\ UNCHANGED <<owner, sent, cur, canceled, disk>>
    BY <1>2 DEF Exchange
  <2>2. att[a].row \in Invites BY <2>1 DEF PairingInv, Attempting
  <2>3. CentralMove /\ late' = late /\ devices'[a] = 1 BY <2>1, <2>2, ClaimMoves DEF claim
  <2>4. SameAttempts /\ \A q \in Attempts : GoesOn(q) BY <2>1, <2>3, AttemptGoes DEF Steps
  <2> QED BY <2>1, <2>3, <2>4, Counted, RequestKeeps
<1>3. CASE Polled(a)
  <2>1. /\ att[a] # None /\ poll(a) /\ step(a, "won") /\ Works
        /\ UNCHANGED <<owner, sent, cur, canceled, disk>>
    BY <1>3 DEF Polled
  <2>2. CentralMove /\ late' = late /\ devices'[a] = 1
    BY <2>1, PollMoves DEF poll, claimJoinRequest
  <2>3. SameAttempts /\ \A q \in Attempts : GoesOn(q) BY <2>1, <2>2, AttemptGoes DEF Steps
  <2> QED BY <2>1, <2>2, <2>3, Counted, RequestKeeps
<1>4. CASE Refused(a)
  <2>1. /\ att[a] # None /\ (refuseClaim(a) \/ refusePoll(a)) /\ step(a, "lost") /\ Works
        /\ UNCHANGED <<owner, sent, cur, canceled, disk>>
    BY <1>4 DEF Refused
  <2>2. CentralMove /\ late' = late
    BY <2>1, RefuseMoves DEF refuseClaim, refusePoll, central, CentralMove
  <2>3. SameAttempts /\ \A q \in Attempts : GoesOn(q) BY <2>1, AttemptGoes DEF Steps
  <2> QED BY <2>1, <2>2, <2>3, Counted, RequestKeeps
<1>5. CASE GiveUp(a) \/ Aborted(a)
  <2>1. /\ att[a] # None /\ step(a, "lost") /\ UNCHANGED <<central, owner, sent, cur, canceled, disk>>
        /\ Works \/ Fails
    BY <1>5 DEF GiveUp, Aborted, Works
  <2>2. CentralMove /\ late' = late BY <2>1 DEF central, CentralMove
  <2>3. SameAttempts /\ \A q \in Attempts : GoesOn(q) BY <2>1, AttemptGoes DEF Steps
  <2> QED BY <2>1, <2>2, <2>3, Counted, RequestKeeps
<1> QED BY <1>1, <1>2, <1>3, <1>4, <1>5 DEF Client

\* A request whose answer is lost, or that arrives late or twice
LEMMA UnansweredKeeps ==
  ASSUME PairingInv, NEW a \in Attempts, Unanswered(a)
  PROVE  PairingInv'
<1>1. /\ att[a] # None /\ Fails /\ (claim(a) \/ poll(a) \/ refusePoll(a))
      /\ UNCHANGED <<owner, sent, cur, canceled, disk>>
      /\ step(a, "lost") \/ UNCHANGED att
  BY DEF Unanswered
<1>2. CentralMove BY <1>1, ClaimMoves, PollMoves, RefuseMoves
<1>3. late' = late BY <1>1 DEF claim, poll, claimJoinRequest, refusePoll
<1>4. SameAttempts /\ \A q \in Attempts : GoesOn(q)
  BY <1>1, AttemptGoes, AttemptsStay DEF Steps
<1> QED BY <1>1, <1>2, <1>3, <1>4, Counted, RequestKeeps

-----------------------------------------------------------------------------
(* The Console                                                             *)

\* A new attempt is one that no row, order, view or file knows.
LEMMA BeginKeeps ==
  ASSUME PairingInv, NEW b \in Bridges, NEW a \in Attempts, NEW r \in Rows,
         NEW how \in {"link", "code", "join", "invite"}, Begin(b, a, r, how)
  PROVE  PairingInv'
<1> USE DevicePairingAssumption
<1> DEFINE n == [bridge |-> b, row |-> r, how |-> how, recovery |-> cred[b] # None,
                 step |-> "claim"]
<1>1. /\ row' = row /\ late' = late /\ devices' = devices /\ grants' = grants
      /\ view' = view /\ orders' = orders /\ canceled' = canceled /\ cred' = cred
      /\ cfile' = cfile /\ faults' = faults
  BY DEF Begin, central, owner, disk
<1>2. /\ cur[b] = None /\ att[a] = None /\ att' = [att EXCEPT ![a] = n]
      /\ cur' = [cur EXCEPT ![b] = a] /\ sent' = sent \cup {<<"claim", a>>}
  BY DEF Begin
<1>3. how = "invite" <=> r \in Invites
  BY DEF Begin, startDevicePairing, restartDevicePairing
<1>4. n \in AttemptType BY DEF AttemptType, Steps
<1>5. n # None BY <1>4
<1>6. n.bridge = b /\ n.row = r /\ n.how = how /\ n.step = "claim" OBVIOUS
<1> HIDE DEF n
<1>7. /\ att \in [Attempts -> AttemptType \cup {None}] /\ cur \in [Bridges -> Attempts \cup {None}]
      /\ cred \in [Bridges -> Attempts \cup {None}] /\ cfile \in [Bridges -> Attempts \cup {None}]
      /\ canceled \subseteq Attempts /\ sent \subseteq {"claim", "poll"} \X Attempts
  BY DEF PairingInv, TypeOK
<1>8. /\ att' \in [Attempts -> AttemptType \cup {None}] /\ att'[a] = n
      /\ \A q \in Attempts : q # a => att'[q] = att[q]
  BY <1>2, <1>4, <1>7
<1>9. /\ cur' \in [Bridges -> Attempts \cup {None}] /\ cur'[b] = a
      /\ \A c \in Bridges : c # b => cur'[c] = cur[c]
  BY <1>2, <1>7
<1>10. sent' \subseteq {"claim", "poll"} \X Attempts BY <1>2, <1>7
<1>11. TypeOK' BY <1>1, <1>8, <1>9, <1>10 DEF PairingInv, TypeOK
<1>12. \A q \in Rows : row[q].attempt # a /\ row[q].attempt \in Attempts \cup {None}
  BY <1>2, RowFacts
<1>13. BoundRows' BY <1>1, <1>8, <1>12 DEF PairingInv, BoundRows
<1>14. DevicesMade'
  <2>1. devices[a] = 0 BY <1>2 DEF PairingInv, DevicesMade
  <2>2. ASSUME NEW q \in Attempts
        PROVE  devices'[q] = 1 <=>
                 att'[q] # None /\ row'[att'[q].row].attempt = q /\ Made(att[q].row)'
    <3>1. CASE q = a BY <1>1, <1>6, <1>8, <1>12, <2>1, <3>1
    <3>2. CASE q # a
      <4>1. att'[q] = att[q] BY <1>8, <3>2
      <4>2. Made(att[q].row)' <=> Made(att[q].row) BY <1>1, <4>1 DEF Made
      <4>3. devices'[q] = devices[q] /\ row'[att'[q].row].attempt = row[att[q].row].attempt
        BY <1>1, <4>1
      <4>4. devices[q] = 1 <=> att[q] # None /\ row[att[q].row].attempt = q /\ Made(att[q].row)
        BY DEF PairingInv, DevicesMade
      <4> QED BY <4>1, <4>2, <4>3, <4>4
    <3> QED BY <3>1, <3>2
  <2>3. ASSUME NEW q \in Attempts, devices'[q] = 1, att'[q].row \in Bound PROVE q \in grants'
    BY <1>1, <1>8, <2>1, <2>3 DEF PairingInv, DevicesMade
  <2> QED BY <1>1, <2>2, <2>3 DEF PairingInv, DevicesMade
<1>15. Approvals'
  <2>1. ASSUME NEW q \in Rows, <<q, "approve">> \in orders'
        PROVE  /\ q \in Sessions /\ row'[q].attempt # None
               /\ att'[row'[q].attempt].bridge \in Trusted
    BY <1>1, <1>8, <1>12, <2>1 DEF PairingInv, Approvals
  <2>2. ASSUME NEW q \in Rows \ Invites, row'[q].state \in {"approved", "consumed"}
        PROVE  att'[row'[q].attempt].bridge \in Trusted
    <3>1. row[q].attempt # None BY <1>1, <2>2 DEF PairingInv, BoundRows
    <3> QED BY <1>1, <1>8, <1>12, <2>2, <3>1 DEF PairingInv, Approvals
  <2> QED BY <2>1, <2>2 DEF Approvals
<1>16. Attempting'
  <2>1. ASSUME NEW q \in Attempts, att'[q] # None
        PROVE  /\ att'[q].how = "invite" <=> att'[q].row \in Invites
               /\ att'[q].step \in {"won", "link"} => devices'[q] = 1
               /\ att'[q].step = "link" => cur'[att'[q].bridge] = q /\ cred'[att'[q].bridge] = None
    <3>1. CASE q = a BY <1>3, <1>6, <1>8, <3>1
    <3>2. CASE q # a
      <4>1. att'[q] = att[q] /\ att[q] # None BY <1>8, <2>1, <3>2
      <4>2. att[q].bridge \in Bridges BY <4>1, AttemptFacts
      <4>3. att[q].step = "link" => cur[att[q].bridge] = q
        BY <4>1 DEF PairingInv, Attempting
      <4>4. att[q].step = "link" => cur'[att[q].bridge] = q
        BY <1>2, <1>9, <4>2, <4>3
      <4> QED BY <1>1, <4>1, <4>4 DEF PairingInv, Attempting
    <3> QED BY <3>1, <3>2
  <2>2. ASSUME NEW c \in Bridges, cur'[c] # None
        PROVE  att'[cur'[c]] # None /\ att'[cur'[c]].bridge = c /\ cur'[c] \notin canceled'
    <3>1. CASE c = b
      <4>1. a \notin canceled BY <1>2 DEF PairingInv, Attempting
      <4> QED BY <1>1, <1>5, <1>6, <1>8, <1>9, <3>1, <4>1
    <3>2. CASE c # b
      <4>1. cur'[c] = cur[c] /\ cur[c] \in Attempts /\ att[cur[c]] # None
        BY <1>7, <1>9, <2>2, <3>2 DEF PairingInv, Attempting
      <4>2. att'[cur[c]] = att[cur[c]] BY <1>2, <1>8, <4>1
      <4> QED BY <1>1, <2>2, <4>1, <4>2 DEF PairingInv, Attempting
    <3> QED BY <3>1, <3>2
  <2>3. \A q \in canceled' : att'[q] # None
    BY <1>1, <1>2, <1>7, <1>8 DEF PairingInv, Attempting
  <2> QED BY <2>1, <2>2, <2>3 DEF Attempting
<1>17. Installed'
  <2>1. \A c \in Bridges : cred[c] # a /\ cfile[c] # a
    BY <1>2 DEF PairingInv, Installed
  <2> QED BY <1>1, <1>7, <1>8, <2>1 DEF PairingInv, Installed
<1> QED BY <1>11, <1>13, <1>14, <1>15, <1>16, <1>17 DEF PairingInv

\* Where Central stands still, the Console has to keep only its own part.
LEMMA ConsoleKeeps ==
  ASSUME PairingInv, SameAttempts, UNCHANGED <<central, owner, sent>>, faults' \in 0..MaxFaults,
         cur' \in [Bridges -> Attempts \cup {None}], canceled' \subseteq Attempts,
         cred' \in [Bridges -> Attempts \cup {None}], cfile' \in [Bridges -> Attempts \cup {None}],
         Attempting', Installed'
  PROVE  PairingInv'
<1>1. /\ row' = row /\ late' = late /\ devices' = devices /\ grants' = grants
      /\ view' = view /\ orders' = orders /\ sent' = sent
  BY DEF central, owner
<1>2. CentralMove BY <1>1 DEF CentralMove
<1>3. view' \in [Rows -> Attempts \cup {None}] BY <1>1, Counted
<1>4. BoundRows' /\ DevicesMade' /\ Approvals' BY <1>1, <1>2, <1>3, CentralKeeps
<1>5. TypeOK' BY <1>1 DEF SameAttempts, PairingInv, TypeOK
<1> QED BY <1>4, <1>5 DEF PairingInv

\* What is on the disk stays real while the Devices do.
LEMMA DiskStays ==
  ASSUME PairingInv, SameAttempts, devices' = devices, NEW b \in Bridges
  PROVE  /\ cred[b] # None =>
              /\ cred[b] \in Attempts /\ att'[cred[b]] # None
              /\ att'[cred[b]].bridge = b /\ devices'[cred[b]] = 1
         /\ cfile[b] # None =>
              /\ cfile[b] \in Attempts /\ att'[cfile[b]] # None
              /\ att'[cfile[b]].row \in Bound /\ devices'[cfile[b]] = 1
<1>1. cred[b] \in Attempts \cup {None} /\ cfile[b] \in Attempts \cup {None}
  BY DEF PairingInv, TypeOK
<1> QED BY <1>1 DEF PairingInv, Installed, SameAttempts

\* What a step of the Console does: attempts end or begin to write, an epoch is
\* over or stays, and what is written is the result of an attempt.
ConsoleMove ==
  /\ \A a \in Attempts : att[a] # None =>
       /\ att'[a] = att[a] \/ att'[a].step = "over" \/ (att'[a].step = "link" /\ devices[a] = 1)
       /\ att'[a].step = "link" => cur'[att[a].bridge] = a /\ cred'[att[a].bridge] = None
  /\ \A b \in Bridges : cur'[b] = None \/ (cur'[b] = cur[b] /\ cur[b] \notin canceled')
  /\ \A b \in Bridges : cred'[b] # cred[b] =>
       /\ cred'[b] \in Attempts /\ att[cred'[b]] # None
       /\ att[cred'[b]].bridge = b /\ devices[cred'[b]] = 1
  /\ \A b \in Bridges : cfile'[b] # cfile[b] /\ cfile'[b] # None =>
       /\ cfile'[b] \in Attempts /\ att[cfile'[b]] # None
       /\ att[cfile'[b]].row \in Bound /\ devices[cfile'[b]] = 1
  /\ cur' \in [Bridges -> Attempts \cup {None}] /\ canceled' \subseteq Attempts
  /\ cred' \in [Bridges -> Attempts \cup {None}] /\ cfile' \in [Bridges -> Attempts \cup {None}]
  /\ \A a \in canceled' : att[a] # None

\* Such a step keeps the invariant.
LEMMA ConsoleMoveKeeps ==
  ASSUME PairingInv, SameAttempts, UNCHANGED <<central, owner, sent>>, Works \/ Fails, ConsoleMove
  PROVE  PairingInv'
<1>1. devices' = devices /\ faults' \in 0..MaxFaults BY Counted DEF central
<1>2. Attempting'
  <2>1. ASSUME NEW a \in Attempts, att'[a] # None
        PROVE  /\ att'[a].how = "invite" <=> att'[a].row \in Invites
               /\ att'[a].step \in {"won", "link"} => devices'[a] = 1
               /\ att'[a].step = "link" => cur'[att'[a].bridge] = a /\ cred'[att'[a].bridge] = None
    <3>1. /\ att[a] # None /\ att'[a].how = att[a].how /\ att'[a].row = att[a].row
          /\ att'[a].bridge = att[a].bridge
      BY <2>1 DEF SameAttempts
    <3> QED BY <1>1, <3>1 DEF ConsoleMove, PairingInv, Attempting
  <2>2. ASSUME NEW b \in Bridges, cur'[b] # None
        PROVE  att'[cur'[b]] # None /\ att'[cur'[b]].bridge = b /\ cur'[b] \notin canceled'
    <3>1. cur'[b] = cur[b] /\ cur[b] \notin canceled' BY <2>2 DEF ConsoleMove
    <3>2. cur[b] \in Attempts /\ att[cur[b]] # None /\ att[cur[b]].bridge = b
      BY <2>2, <3>1 DEF PairingInv, TypeOK, Attempting
    <3> QED BY <3>1, <3>2 DEF SameAttempts
  <2>3. \A a \in canceled' : att'[a] # None BY DEF SameAttempts, ConsoleMove
  <2> QED BY <2>1, <2>2, <2>3 DEF Attempting
<1>3. Installed'
  <2>1. ASSUME NEW b \in Bridges, cred'[b] # None
        PROVE  att'[cred'[b]] # None /\ att'[cred'[b]].bridge = b /\ devices'[cred'[b]] = 1
    BY <1>1, <2>1, DiskStays DEF ConsoleMove, SameAttempts
  <2>2. ASSUME NEW b \in Bridges, cfile'[b] # None
        PROVE  att'[cfile'[b]] # None /\ att'[cfile'[b]].row \in Bound /\ devices'[cfile'[b]] = 1
    BY <1>1, <2>2, DiskStays DEF ConsoleMove, SameAttempts
  <2> QED BY <2>1, <2>2 DEF Installed
<1> QED BY <1>1, <1>2, <1>3, ConsoleKeeps DEF ConsoleMove

\* What is known of the Console and of the disk.
LEMMA ConsoleFacts ==
  ASSUME PairingInv
  PROVE  /\ cur \in [Bridges -> Attempts \cup {None}] /\ canceled \subseteq Attempts
         /\ cred \in [Bridges -> Attempts \cup {None}]
         /\ cfile \in [Bridges -> Attempts \cup {None}]
         /\ \A a \in canceled : att[a] # None
         /\ \A b \in Bridges : cur[b] # None =>
              cur[b] \in Attempts /\ att[cur[b]] # None /\ att[cur[b]].bridge = b
              /\ cur[b] \notin canceled
         /\ \A a \in Attempts : att[a] # None /\ att[a].step = "link" =>
              /\ cur[att[a].bridge] = a /\ cred[att[a].bridge] = None /\ devices[a] = 1
              /\ att[a].bridge \in Bridges
         /\ \A a \in Attempts : att[a] # None /\ att[a].step = "won" => devices[a] = 1
<1>1. \A a \in Attempts : att[a] # None => att[a].bridge \in Bridges BY AttemptFacts
<1> QED BY <1>1 DEF PairingInv, TypeOK, Attempting

\* cancelEnrollment
LEMMA CancelKeeps ==
  ASSUME PairingInv, NEW b \in Bridges, cancelEnrollment(b)
  PROVE  PairingInv'
<1> USE DevicePairingAssumption
<1>1. /\ UNCHANGED <<central, owner, sent>> /\ att' = att /\ cred' = cred /\ cfile' = cfile
      /\ Works /\ cur[b] # None /\ att[cur[b]].step # "link"
      /\ cur' = [cur EXCEPT ![b] = None] /\ canceled' = canceled \cup {cur[b]}
  BY DEF cancelEnrollment, disk, Works
<1>2. SameAttempts BY <1>1, AttemptsStay
<1>3. /\ cur' \in [Bridges -> Attempts \cup {None}] /\ cur'[b] = None
      /\ \A c \in Bridges : c # b => cur'[c] = cur[c]
  BY <1>1, ConsoleFacts
<1>4. cur[b] \in Attempts /\ att[cur[b]] # None /\ att[cur[b]].bridge = b
  BY <1>1, ConsoleFacts
<1>5. canceled' \subseteq Attempts /\ \A a \in canceled' : att[a] # None
  BY <1>1, <1>4, ConsoleFacts
<1>6. \A c \in Bridges : cur'[c] = None \/ (cur'[c] = cur[c] /\ cur[c] \notin canceled')
  BY <1>1, <1>3, <1>4, ConsoleFacts
<1>7. \A a \in Attempts : att[a] # None /\ att[a].step = "link" =>
        cur'[att[a].bridge] = a /\ cred'[att[a].bridge] = None
  BY <1>1, <1>3, ConsoleFacts
<1>8. ConsoleMove BY <1>1, <1>3, <1>5, <1>6, <1>7, ConsoleFacts DEF ConsoleMove
<1> QED BY <1>1, <1>2, <1>8, ConsoleMoveKeeps

\* saveClientAccess
LEMMA AccessKeeps ==
  ASSUME PairingInv, NEW a \in Attempts, saveClientAccess(a)
  PROVE  PairingInv'
<1> USE DevicePairingAssumption
<1> DEFINE b == att[a].bridge
<1>1. /\ UNCHANGED <<central, owner, sent>> /\ cur' = cur /\ cred' = cred /\ canceled' = canceled
      /\ Works /\ att[a] # None /\ att[a].step = "won" /\ cur[b] = a /\ cred[b] = None
      /\ cfile' = [cfile EXCEPT ![b] = IF access(a) # None THEN a ELSE @]
      /\ step(a, "link")
  BY DEF saveClientAccess, fenced, waiting, Works
<1>2. /\ SameAttempts /\ att'[a].step = "link"
      /\ \A q \in Attempts : q # a => att'[q] = att[q]
  BY <1>1, StepSame DEF PairingInv, Steps
<1>3. b \in Bridges BY <1>1, AttemptFacts
<1>4. devices[a] = 1 BY <1>1, ConsoleFacts
<1>5. access(a) # None => att[a].row \in Bound BY DEF access
<1> HIDE DEF b
<1>6. /\ cfile' \in [Bridges -> Attempts \cup {None}]
      /\ \A c \in Bridges : cfile'[c] # cfile[c] => c = b /\ cfile'[c] = a /\ access(a) # None
  BY <1>1, <1>3, ConsoleFacts
<1>7. \A q \in Attempts : att[q] # None =>
       /\ att'[q] = att[q] \/ att'[q].step = "over" \/ (att'[q].step = "link" /\ devices[q] = 1)
       /\ att'[q].step = "link" => cur'[att[q].bridge] = q /\ cred'[att[q].bridge] = None
  BY <1>1, <1>2, <1>4, ConsoleFacts DEF b
<1>8. ConsoleMove BY <1>1, <1>4, <1>5, <1>6, <1>7, ConsoleFacts DEF ConsoleMove
<1> QED BY <1>1, <1>2, <1>8, ConsoleMoveKeeps

\* The steps of an attempt that ends: with its epoch, and perhaps installed.
LEMMA EndKeeps ==
  ASSUME PairingInv, NEW a \in Attempts, att[a] # None, step(a, "over"),
         UNCHANGED <<central, owner, sent, canceled>>, Works \/ Fails,
         cur' = [cur EXCEPT ![att[a].bridge] = IF @ = a THEN None ELSE @],
         \/ cred' = cred
         \/ devices[a] = 1 /\ cur[att[a].bridge] = a /\ cred' = [cred EXCEPT ![att[a].bridge] = a],
         \/ cfile' = cfile
         \/ devices[a] = 1 /\ cfile' = [cfile EXCEPT ![att[a].bridge] = access(a)]
  PROVE  PairingInv'
<1> USE DevicePairingAssumption
<1> DEFINE b == att[a].bridge
<1>1. /\ SameAttempts /\ att'[a].step = "over"
      /\ \A q \in Attempts : q # a => att'[q] = att[q]
  BY StepSame DEF PairingInv, Steps
<1>2. b \in Bridges BY AttemptFacts
<1>3. access(a) = None \/ (access(a) = a /\ att[a].row \in Bound) BY DEF access
<1>4. /\ cur' = [cur EXCEPT ![b] = IF @ = a THEN None ELSE @] /\ canceled' = canceled
      /\ cred' = cred \/ (devices[a] = 1 /\ cur[b] = a /\ cred' = [cred EXCEPT ![b] = a])
      /\ cfile' = cfile \/ (devices[a] = 1 /\ cfile' = [cfile EXCEPT ![b] = access(a)])
      /\ att[a].bridge = b
  OBVIOUS
<1> HIDE DEF b
<1>5. /\ cur' \in [Bridges -> Attempts \cup {None}]
      /\ \A c \in Bridges : cur'[c] = IF cur[c] = a /\ c = b THEN None ELSE cur[c]
  BY <1>2, <1>4, ConsoleFacts
<1>6. /\ cred' \in [Bridges -> Attempts \cup {None}]
      /\ \A c \in Bridges : cred'[c] # cred[c] =>
           c = b /\ cred'[c] = a /\ devices[a] = 1 /\ cur[b] = a
  BY <1>2, <1>4, ConsoleFacts
<1>7. /\ cfile' \in [Bridges -> Attempts \cup {None}]
      /\ \A c \in Bridges : cfile'[c] # cfile[c] /\ cfile'[c] # None =>
           c = b /\ cfile'[c] = a /\ devices[a] = 1 /\ att[a].row \in Bound
  BY <1>2, <1>3, <1>4, ConsoleFacts
<1>8. ASSUME NEW q \in Attempts, att[q] # None
      PROVE /\ att'[q] = att[q] \/ att'[q].step = "over"
            /\ att'[q].step = "link" => cur'[att[q].bridge] = q /\ cred'[att[q].bridge] = None
  <2>1. CASE q = a BY <1>1, <2>1
  <2>2. CASE q # a
    <3>1. att'[q] = att[q] BY <1>1, <2>2
    <3>2. CASE att[q].step = "link"
      <4>1. cur[att[q].bridge] = q /\ cred[att[q].bridge] = None /\ att[q].bridge \in Bridges
        BY <1>8, <3>2, ConsoleFacts
      <4>2. cur'[att[q].bridge] = q BY <1>5, <2>2, <4>1
      <4>3. cred'[att[q].bridge] = None BY <1>6, <2>2, <4>1
      <4> QED BY <3>1, <4>2, <4>3
    <3> QED BY <3>1, <3>2
  <2> QED BY <2>1, <2>2
<1>9. \A c \in Bridges : cur'[c] = None \/ (cur'[c] = cur[c] /\ cur[c] \notin canceled')
  BY <1>4, <1>5, ConsoleFacts
<1>10. ConsoleMove
  BY <1>4, <1>5, <1>6, <1>7, <1>8, <1>9, ConsoleFacts DEF ConsoleMove
<1> QED BY <1>1, <1>10, ConsoleMoveKeeps

\* finishEnrollment, with or without an installation
LEMMA InstallOps ==
  ASSUME PairingInv, NEW a \in Attempts, Install(a)
  PROVE  PairingInv'
<1> USE DEF waiting, fenced
<1>1. CASE saveClientAccess(a) BY <1>1, AccessKeeps
<1>2. CASE Save(a)
  <2>1. /\ att[a] # None /\ att[a].step = "link" /\ step(a, "over") /\ Works
        /\ UNCHANGED <<central, owner, sent, canceled>> /\ cfile' = cfile
        /\ cred' = [cred EXCEPT ![att[a].bridge] = a]
        /\ cur' = [cur EXCEPT ![att[a].bridge] = None]
    BY <1>2 DEF Save, Works
  <2>2. cur[att[a].bridge] = a /\ devices[a] = 1 BY <2>1, ConsoleFacts
  <2>3. cur' = [cur EXCEPT ![att[a].bridge] = IF @ = a THEN None ELSE @] BY <2>1, <2>2
  <2> QED BY <2>1, <2>2, <2>3, EndKeeps
<1>3. CASE installReEnrollment(a)
  <2>1. /\ att[a] # None /\ att[a].step = "won" /\ step(a, "over") /\ Works
        /\ UNCHANGED <<central, owner, sent, canceled>> /\ cur[att[a].bridge] = a
        /\ cred' = [cred EXCEPT ![att[a].bridge] = a]
        /\ cfile' = [cfile EXCEPT ![att[a].bridge] = access(a)]
        /\ cur' = [cur EXCEPT ![att[a].bridge] = None]
    BY <1>3 DEF installReEnrollment, Works
  <2>2. devices[a] = 1 BY <2>1, ConsoleFacts
  <2>3. cur' = [cur EXCEPT ![att[a].bridge] = IF @ = a THEN None ELSE @] BY <2>1
  <2> QED BY <2>1, <2>2, <2>3, EndKeeps
<1>4. CASE finishEnrollment(a)
  <2>1. /\ att[a] # None /\ step(a, "over") /\ (Works \/ Fails) /\ cred' = cred /\ cfile' = cfile
        /\ UNCHANGED <<central, owner, sent, canceled>>
        /\ cur' = [cur EXCEPT ![att[a].bridge] = IF @ = a THEN None ELSE @]
    BY <1>4 DEF finishEnrollment, disk
  <2> QED BY <2>1, EndKeeps
<1> QED BY <1>1, <1>2, <1>3, <1>4 DEF Install

\* The end of the Bridge process
LEMMA CrashKeeps ==
  ASSUME PairingInv, NEW b \in Bridges, Crash(b)
  PROVE  PairingInv'
<1> USE DevicePairingAssumption
<1>1. /\ Fails /\ UNCHANGED <<central, owner, sent>> /\ canceled' = canceled /\ cred' = cred
      /\ cfile' = cfile /\ cur' = [cur EXCEPT ![b] = None]
      /\ att' = [a \in Attempts |-> IF att[a] # None /\ att[a].bridge = b
                                    THEN [att[a] EXCEPT !.step = "over"] ELSE att[a]]
  BY DEF Crash, disk
<1>2. ASSUME NEW a \in Attempts
      PROVE  \/ att'[a] = att[a] /\ att'[a] \in AttemptType \cup {None}
                /\ (att[a] # None => att[a].bridge # b)
             \/ /\ att[a] # None /\ att'[a] \in AttemptType /\ att'[a].step = "over"
                /\ att'[a].bridge = att[a].bridge /\ att'[a].row = att[a].row
                /\ att'[a].how = att[a].how /\ att'[a].recovery = att[a].recovery
  <2>1. CASE att[a] # None /\ att[a].bridge = b
    <3>1. att'[a] = [att[a] EXCEPT !.step = "over"] BY <1>1, <2>1
    <3>2. att[a] \in AttemptType BY <2>1, AttemptFacts
    <3> QED BY <2>1, <3>1, <3>2 DEF AttemptType, Steps
  <2>2. CASE ~(att[a] # None /\ att[a].bridge = b)
    BY <1>1, <2>2 DEF PairingInv, TypeOK
  <2> QED BY <2>1, <2>2
<1>3. att' \in [Attempts -> AttemptType \cup {None}] BY <1>1, <1>2
<1>4. SameAttempts BY <1>2, <1>3 DEF SameAttempts
<1>5. /\ cur' \in [Bridges -> Attempts \cup {None}] /\ cur'[b] = None
      /\ \A c \in Bridges : c # b => cur'[c] = cur[c]
  BY <1>1, ConsoleFacts
<1>6. \A a \in Attempts : att[a] # None =>
       /\ att'[a] = att[a] \/ att'[a].step = "over"
       /\ att'[a].step = "link" => cur'[att[a].bridge] = a /\ cred'[att[a].bridge] = None
  BY <1>1, <1>2, <1>5, ConsoleFacts
<1>7. ConsoleMove BY <1>1, <1>5, <1>6, ConsoleFacts DEF ConsoleMove
<1> QED BY <1>1, <1>4, <1>7, ConsoleMoveKeeps

-----------------------------------------------------------------------------
(* The theorems                                                            *)

\* It holds before the first session, join request or invite.
LEMMA PairingInit == Init => PairingInv
<1> SUFFICES ASSUME Init PROVE PairingInv OBVIOUS
<1> USE DevicePairingAssumption DEF Init
<1>1. \A r \in Rows : row[r] = [state |-> "none", attempt |-> None] OBVIOUS
<1>2. \A r \in Rows : row[r] \in RowType /\ row[r].state = "none" /\ row[r].attempt = None
  BY <1>1 DEF RowType, States
<1>3. row \in [Rows -> RowType] BY <1>2
<1>4. TypeOK BY <1>3 DEF TypeOK, RowType
<1>5. BoundRows BY <1>2 DEF BoundRows
<1>6. DevicesMade BY DEF DevicesMade
<1>7. Approvals BY <1>2 DEF Approvals
<1>8. Attempting BY DEF Attempting
<1>9. Installed BY DEF Installed
<1> QED BY <1>4, <1>5, <1>6, <1>7, <1>8, <1>9 DEF PairingInv

\* Every step keeps it.
LEMMA PairingStep == PairingInv /\ [Next]_vars => PairingInv'
<1> SUFFICES ASSUME PairingInv, [Next]_vars PROVE PairingInv' OBVIOUS
<1>1. ASSUME NEW r \in Rows, create(r) \/ get(r) \/ approveJoinRequest(r) \/ Deadline(r)
      PROVE  PairingInv'
  BY <1>1, CentralOps
<1>2. ASSUME NEW r \in Rows, NEW action \in Actions, Order(r, action) \/ decide(r, action)
      PROVE  PairingInv'
  BY <1>2, CentralOps, OrderKeeps
<1>3. ASSUME NEW b \in Bridges, NEW a \in Attempts, NEW r \in Rows,
             NEW how \in {"link", "code", "join", "invite"}, Begin(b, a, r, how)
      PROVE  PairingInv'
  BY <1>3, BeginKeeps
<1>4. ASSUME NEW a \in Attempts, Client(a) \/ Install(a) \/ Unanswered(a) PROVE PairingInv'
  BY <1>4, ClientOps, InstallOps, UnansweredKeeps
<1>5. ASSUME NEW b \in Bridges, cancelEnrollment(b) \/ Crash(b) PROVE PairingInv'
  BY <1>5, CancelKeeps, CrashKeeps
<1>6. CASE UNCHANGED vars
  <2>1. /\ row' = row /\ late' = late /\ devices' = devices /\ grants' = grants /\ view' = view
        /\ orders' = orders /\ att' = att /\ sent' = sent /\ cur' = cur /\ canceled' = canceled
        /\ cred' = cred /\ cfile' = cfile /\ faults' = faults
    BY <1>6 DEF vars, central, owner, disk
  <2>2. TypeOK' BY <2>1 DEF PairingInv, TypeOK
  <2>3. BoundRows' BY <2>1 DEF PairingInv, BoundRows
  <2>4. DevicesMade' BY <2>1 DEF PairingInv, DevicesMade, Made
  <2>5. Approvals' BY <2>1 DEF PairingInv, Approvals
  <2>6. Attempting' BY <2>1 DEF PairingInv, Attempting
  <2>7. Installed' BY <2>1 DEF PairingInv, Installed
  <2> QED BY <2>2, <2>3, <2>4, <2>5, <2>6, <2>7 DEF PairingInv
<1> QED BY <1>1, <1>2, <1>3, <1>4, <1>5, <1>6 DEF Next

\* It is an invariant of the pairing.
LEMMA PairingInvHolds == Spec => []PairingInv
BY PairingInit, PairingStep, PTL DEF Spec

\* It contains what the pairing promises.
LEMMA InvSound == PairingInv => PairingSound
<1> SUFFICES ASSUME PairingInv PROVE PairingSound OBVIOUS
<1> USE DevicePairingAssumption
<1>1. \A a \in Attempts : devices[a] \in {0, 1} BY DEF PairingInv, DevicesMade
<1>2. \A a \in Attempts : devices[a] = 1 =>
        att[a] # None /\ att[a].row \in Rows /\ row[att[a].row].attempt = a /\ Made(att[a].row)
  BY AttemptFacts DEF PairingInv, DevicesMade
<1>3. OneDevice
  <2>1. ASSUME NEW s \in Sessions
        PROVE  row[s].state \in {"approved", "consumed"} <=>
                 \E a \in Attempts : att[a] # None /\ att[a].row = s /\ devices[a] = 1
    <3>1. s \in Rows BY DEF Rows
    <3>2. ASSUME row[s].state \in {"approved", "consumed"}
          PROVE  \E a \in Attempts : att[a] # None /\ att[a].row = s /\ devices[a] = 1
      <4>1. row[s].attempt # None /\ Made(s) BY <3>1, <3>2 DEF Made, PairingInv, BoundRows
      <4> QED BY <3>1, <4>1, RowFacts, MadeFacts
    <3>3. ASSUME NEW a \in Attempts, att[a] # None, att[a].row = s, devices[a] = 1
          PROVE  row[s].state \in {"approved", "consumed"}
      BY <1>2, <3>3 DEF Made
    <3> QED BY <3>2, <3>3
  <2> QED BY <1>1, <1>2, <2>1 DEF OneDevice
<1>4. OnlyTrusted
  <2>1. ASSUME NEW a \in Attempts, devices[a] > 0, att[a].row \notin Invites
        PROVE  att[a].bridge \in Trusted
    <3>1. devices[a] = 1 BY <1>1, <2>1
    <3>2. att[a].row \in Rows \ Invites /\ row[att[a].row].attempt = a /\ Made(att[a].row)
      BY <1>2, <2>1, <3>1
    <3> QED BY <3>2 DEF Made, PairingInv, Approvals
  <2> QED BY <2>1 DEF OnlyTrusted
<1>5. InstalledIsReal
  <2>1. ASSUME NEW b \in Bridges, cfile[b] # None, cfile[b] = cred[b] PROVE cred[b] \in grants
    <3>1. cred[b] \in Attempts BY <2>1 DEF PairingInv, TypeOK
    <3> QED BY <2>1, <3>1 DEF PairingInv, Installed, DevicesMade
  <2> QED BY <2>1 DEF InstalledIsReal, PairingInv, Installed
<1> QED BY <1>3, <1>4, <1>5 DEF PairingSound, PairingInv

\* One pairing makes one Device, of a Bridge whose screen the Owner saw, whatever is
\* lost, repeated or raced; what a Bridge has installed is real (decide, claim, poll,
\* finishEnrollment).
THEOREM PairingIsSound == Spec => []PairingSound
BY PairingInvHolds, InvSound, PTL

\* What a step does to the installed credential.
LEMMA StepKept == PairingInv /\ [Next]_vars => [CanceledNeverInstalls /\ PairingKept]_vars
<1> SUFFICES ASSUME PairingInv, Next PROVE CanceledNeverInstalls /\ PairingKept OBVIOUS
<1> USE DevicePairingAssumption
<1>1. CASE cred' = cred BY <1>1 DEF CanceledNeverInstalls, PairingKept
<1>2. ASSUME NEW a \in Attempts, Save(a) PROVE CanceledNeverInstalls /\ PairingKept
  <2>1. att[a] # None /\ att[a].step = "link" /\ cred' = [cred EXCEPT ![att[a].bridge] = a]
        /\ canceled' = canceled
    BY <1>2 DEF Save, waiting
  <2>2. cur[att[a].bridge] = a /\ cred[att[a].bridge] = None /\ att[a].bridge \in Bridges
    BY <2>1, ConsoleFacts
  <2>3. a \notin canceled BY <2>2, ConsoleFacts
  <2>4. \A b \in Bridges : cred'[b] = cred[b] \/ (cred[b] = None /\ cred'[b] = a)
    BY <2>1, <2>2, ConsoleFacts
  <2> QED BY <2>3, <2>4 DEF CanceledNeverInstalls, PairingKept
<1>3. ASSUME NEW a \in Attempts, installReEnrollment(a) PROVE CanceledNeverInstalls /\ PairingKept
  <2>1. /\ att[a] # None /\ cur[att[a].bridge] = a /\ cred' = [cred EXCEPT ![att[a].bridge] = a]
        /\ cfile' = [cfile EXCEPT ![att[a].bridge] = access(a)]
    BY <1>3 DEF installReEnrollment, fenced, waiting
  <2>2. att[a].bridge \in Bridges BY <2>1, AttemptFacts
  <2>3. a \notin canceled BY <2>1, <2>2, ConsoleFacts
  <2>4. \A b \in Bridges : cred'[b] = cred[b] \/ (cred'[b] = a /\ cfile'[b] = access(a))
    BY <2>1, <2>2, ConsoleFacts
  <2> QED BY <2>3, <2>4 DEF CanceledNeverInstalls, PairingKept
<1>4. ASSUME NEW a \in Attempts, Client(a) \/ Unanswered(a) PROVE cred' = cred
  BY <1>4 DEF Client, Unanswered, Claimed, Exchange, Polled, Refused, GiveUp, Aborted, disk
<1>5. ASSUME NEW a \in Attempts, saveClientAccess(a) \/ finishEnrollment(a) PROVE cred' = cred
  BY <1>5 DEF saveClientAccess, finishEnrollment, disk
<1>6. ASSUME NEW b \in Bridges, cancelEnrollment(b) \/ Crash(b) PROVE cred' = cred
  BY <1>6 DEF cancelEnrollment, Crash, disk
<1>7. ASSUME NEW r \in Rows, create(r) \/ get(r) \/ approveJoinRequest(r) \/ Deadline(r)
      PROVE  cred' = cred
  BY <1>7 DEF create, get, approveJoinRequest, Deadline, disk
<1>8. ASSUME NEW r \in Rows, NEW action \in Actions, Order(r, action) \/ decide(r, action)
      PROVE  cred' = cred
  BY <1>8 DEF Order, decide, disk
<1>9. ASSUME NEW b \in Bridges, NEW a \in Attempts, NEW r \in Rows,
             NEW how \in {"link", "code", "join", "invite"}, Begin(b, a, r, how)
      PROVE  cred' = cred
  BY <1>9 DEF Begin, disk
<1> QED BY <1>1, <1>2, <1>3, <1>4, <1>5, <1>6, <1>7, <1>8, <1>9 DEF Next, Install

\* A canceled attempt never installs its credential, and a Bridge that is paired stays so
\* until a complete new pairing replaces it (the joinEpoch fence, installReEnrollmentLocked).
THEOREM PairingSteps == Spec => PairingStepsKept
BY PairingInvHolds, StepKept, PTL DEF Spec, PairingStepsKept

-----------------------------------------------------------------------------
(* Remote evidence: the inductive invariant                                *)
(*                                                                         *)
(* The provider's record of an operation never changes once it is there, so *)
(* what a waiting call was given is still that record when the call         *)
(* retains it, whatever became of the operation in the meantime.            *)

\* What a call waiting on the provider knows.
CallsKnow == \A k \in Callers \X Ops :
  /\ call[k].got # Nil => call[k].got = effect[k[2]]
  /\ call[k].phase = "created" => effect[k[2]] # Nil
  /\ call[k].phase \in {"bundle", "validate", "answered"} => call[k].got # Nil
  /\ call[k].phase = "validate" => call[k].got # "foreign"
  /\ call[k].phase \in {"bundle", "validate"} => k[2] \in CommitOps

\* What an adoption rests on, none of which is taken back.
AdoptionRests ==
  adoption # Nil =>
    /\ adoption.source \in CommitOps /\ op[adoption.source].state = "succeeded"
    /\ adoption.proofs \subseteq CIOps

RemoteInv ==
  /\ RemoteTypeOK /\ RetainedOnce /\ CallsKnow /\ AdoptionRests /\ AdoptionProven
  /\ SchedulerSparesAdopted

\* The kinds of operations are different, and the provider's records with them.
LEMMA KindsDiffer ==
  /\ \A o \in Ops : Effects(o) \subseteq Records /\ Nil \notin Effects(o)
  /\ \A o \in CIOps : "bad" \notin Effects(o) /\ "good" \notin Effects(o)
  /\ \A o \in CommitOps : Effects(o) = {"foreign", "good", "bad"} /\ o \notin CIOps /\ o \notin AttestOps
  /\ \A o \in AttestOps : Effects(o) = {"foreign", "good"}
<1>1. \A o \in CIOps : Effects(o) = {"foreign", "passed", "failed"} BY DEF Effects
<1>2. \A o \in CommitOps : Effects(o) = {"foreign", "good", "bad"} /\ o \notin CIOps /\ o \notin AttestOps
  BY EvidenceAssumption DEF Effects
<1>3. \A o \in AttestOps : Effects(o) = {"foreign", "good"} BY EvidenceAssumption DEF Effects
<1> QED BY <1>1, <1>2, <1>3, EvidenceAssumption DEF Ops, Records

\* It contains what the evidence promises.
LEMMA RemoteInvTrue == RemoteInv => RemoteEvidenceTrue
BY DEF RemoteInv, RemoteEvidenceTrue

\* It holds before anything was observed.
LEMMA RemoteInitOK == RemoteInit => RemoteInv
<1> SUFFICES ASSUME RemoteInit PROVE RemoteInv OBVIOUS
<1> USE EvidenceAssumption DEF RemoteInit
<1>1. RemoteTypeOK
  <2>1. now \in 0..MaxTime /\ control \in 1..MaxControl /\ 0 \in 0..MaxControl OBVIOUS
  <2>2. /\ {active, bound, revoked, upstream} \subseteq BOOLEAN
        /\ intent \in {"none", "scheduler", "message"}
    OBVIOUS
  <2>3. Absent \in [state : {"absent"} \cup Pending \cup Terminal, ctl : 0..MaxControl]
    BY <2>1 DEF Absent
  <2>4. Idle \in [phase : Phases, got : Records \cup {Nil}] BY DEF Idle, Phases
  <2>5. op \in [Ops -> [state : {"absent"} \cup Pending \cup Terminal, ctl : 0..MaxControl]]
    BY <2>3, Zenon
  <2>6. obs \in [Ops -> Records \cup {Nil}] /\ effect \in [Ops -> Records \cup {Nil}] BY Zenon
  <2>7. call \in [Callers \X Ops -> [phase : Phases, got : Records \cup {Nil}]] BY <2>4, Zenon
  <2>8. answer \in [AdoptOps -> {"none", "adopted", "conflict"}] BY Zenon
  <2>9. \A o \in Ops : effect[o] \in {Nil} \cup Effects(o) BY Zenon
  <2> QED BY <2>1, <2>2, <2>5, <2>6, <2>7, <2>8, <2>9, Zenon DEF RemoteTypeOK
<1>2. RetainedOnce BY DEF RetainedOnce, Absent
<1>3. CallsKnow BY DEF CallsKnow, Idle
<1>4. AdoptionRests /\ AdoptionProven /\ SchedulerSparesAdopted
  BY DEF AdoptionRests, AdoptionProven, SchedulerSparesAdopted
<1> QED BY <1>1, <1>2, <1>3, <1>4 DEF RemoteInv

\* What stands of the evidence while the rows of the operations and the provider's records
\* only grow.
LEMMA RowsGrow ==
  ASSUME RemoteInv, UNCHANGED <<adoption, intent>>,
         \A o \in Ops : op[o].state = "succeeded" => op'[o] = op[o],
         \A o \in Ops : effect[o] # Nil => effect'[o] = effect[o]
  PROVE  AdoptionRests' /\ AdoptionProven' /\ SchedulerSparesAdopted'
<1> USE DEF RemoteInv
<1>1. AdoptionRests'
  BY DEF AdoptionRests, Ops
<1>2. SchedulerSparesAdopted' BY DEF SchedulerSparesAdopted
<1>3. AdoptionProven'
  <2> SUFFICES ASSUME adoption # Nil
               PROVE  /\ effect'[adoption.source] = "good"
                      /\ op'[adoption.source].ctl = adoption.ctl
                      /\ \A c \in Checks : \E o \in adoption.proofs :
                           CheckOf[o] = c /\ SourceOf[o] = adoption.source /\ effect'[o] = "passed"
    BY DEF AdoptionProven
  <2>1. adoption.source \in Ops /\ adoption.proofs \subseteq Ops
        /\ op[adoption.source].state = "succeeded"
    BY DEF AdoptionRests, Ops
  <2>2. Nil # "good" /\ Nil # "passed" BY EvidenceAssumption DEF Records
  <2>3. effect[adoption.source] = "good" /\ op[adoption.source].ctl = adoption.ctl
    BY DEF AdoptionProven
  <2>4. \A o \in adoption.proofs : effect[o] = "passed" => effect'[o] = "passed"
    BY <2>1, <2>2
  <2>5. \A c \in Checks : \E o \in adoption.proofs :
           CheckOf[o] = c /\ SourceOf[o] = adoption.source /\ effect[o] = "passed"
    BY DEF AdoptionProven
  <2> QED BY <2>1, <2>2, <2>3, <2>4, <2>5
<1> QED BY <1>1, <1>2, <1>3

\* The clock, controls, bindings, revocations and dispatches
LEMMA SurroundingsKeep ==
  ASSUME RemoteInv,
         Tick \/ Bind \/ ProducersAdopted \/ Dispatch \/ DispatchByMessage \/ Revoke
           \/ \E on \in BOOLEAN : ControlPlan(on)
  PROVE  RemoteInv'
<1> USE DEF RemoteInv
<1>1. UNCHANGED <<op, obs, effect, call, adoption, answer>>
  BY DEF Tick, Bind, ProducersAdopted, Dispatch, DispatchByMessage, Admits, Revoke, ControlPlan
<1>2. intent' = intent \/ adoption = Nil \/ intent' = "message"
  BY DEF Tick, Bind, ProducersAdopted, Dispatch, DispatchByMessage, Admits, Revoke, ControlPlan
<1>3. now' \in 0..MaxTime /\ control' \in 1..MaxControl
  BY EvidenceAssumption
     DEF Tick, Bind, ProducersAdopted, Dispatch, DispatchByMessage, Admits, Revoke, ControlPlan, RemoteTypeOK
<1>4. /\ {active', bound', revoked', upstream'} \subseteq BOOLEAN
      /\ intent' \in {"none", "scheduler", "message"}
  BY DEF Tick, Bind, ProducersAdopted, Dispatch, DispatchByMessage, Admits, Revoke, ControlPlan, RemoteTypeOK
<1>5. RemoteTypeOK' BY <1>1, <1>3, <1>4 DEF RemoteTypeOK
<1>6. RetainedOnce' /\ CallsKnow' /\ AdoptionRests' /\ AdoptionProven'
  BY <1>1 DEF RetainedOnce, CallsKnow, AdoptionRests, AdoptionProven
<1>7. SchedulerSparesAdopted' BY <1>1, <1>2 DEF SchedulerSparesAdopted
<1> QED BY <1>5, <1>6, <1>7

\* One call moves on: what it was given is what the provider has.
LEMMA CallGoes ==
  ASSUME RemoteInv, NEW k \in Callers \X Ops,
         NEW c \in [phase : Phases, got : Records \cup {Nil}],
         call' = [call EXCEPT ![k] = c],
         \A o \in Ops : effect[o] # Nil => effect'[o] = effect[o],
         c.got # Nil => c.got = effect'[k[2]],
         c.phase = "created" => effect'[k[2]] # Nil,
         c.phase \in {"bundle", "validate", "answered"} => c.got # Nil,
         c.phase = "validate" => c.got # "foreign",
         c.phase \in {"bundle", "validate"} => k[2] \in CommitOps
  PROVE  call' \in [Callers \X Ops -> [phase : Phases, got : Records \cup {Nil}]] /\ CallsKnow'
<1>1. call \in [Callers \X Ops -> [phase : Phases, got : Records \cup {Nil}]]
  BY DEF RemoteInv, RemoteTypeOK
<1>2. call' \in [Callers \X Ops -> [phase : Phases, got : Records \cup {Nil}]]
  BY <1>1, Zenon
<1>3. call'[k] = c BY <1>1, Zenon
<1>4. \A l \in Callers \X Ops : l # k => call'[l] = call[l] BY <1>1, Zenon
<1>5. ASSUME NEW l \in Callers \X Ops
      PROVE  /\ call'[l].got # Nil => call'[l].got = effect'[l[2]]
             /\ call'[l].phase = "created" => effect'[l[2]] # Nil
             /\ call'[l].phase \in {"bundle", "validate", "answered"} => call'[l].got # Nil
             /\ call'[l].phase = "validate" => call'[l].got # "foreign"
             /\ call'[l].phase \in {"bundle", "validate"} => l[2] \in CommitOps
  <2>1. CASE l = k BY <2>1, <1>3
  <2>2. CASE l # k
    <3>1. call'[l] = call[l] /\ l[2] \in Ops BY <2>2, <1>4
    <3>2. /\ call[l].got # Nil => call[l].got = effect[l[2]]
          /\ call[l].phase = "created" => effect[l[2]] # Nil
          /\ call[l].phase \in {"bundle", "validate", "answered"} => call[l].got # Nil
          /\ call[l].phase = "validate" => call[l].got # "foreign"
          /\ call[l].phase \in {"bundle", "validate"} => l[2] \in CommitOps
      BY DEF RemoteInv, CallsKnow
    <3>3. effect[l[2]] # Nil => effect'[l[2]] = effect[l[2]] BY <3>1
    <3> HIDE DEF RemoteInv
    <3> QED BY <3>1, <3>2, <3>3
  <2> QED BY <2>1, <2>2
<1>6. CallsKnow' BY <1>5 DEF CallsKnow
<1> QED BY <1>2, <1>6

\* The call that ends is idle again.
LEMMA CallEnds ==
  ASSUME RemoteInv, NEW k \in Callers \X Ops, Ends(k), effect' = effect
  PROVE  call' \in [Callers \X Ops -> [phase : Phases, got : Records \cup {Nil}]] /\ CallsKnow'
<1>1. Idle \in [phase : Phases, got : Records \cup {Nil}] /\ Idle.got = Nil /\ Idle.phase = "idle"
  BY DEF Idle, Phases
<1>2. call' = [call EXCEPT ![k] = Idle] BY DEF Ends
<1>3. \A o \in Ops : effect[o] # Nil => effect'[o] = effect[o] OBVIOUS
<1>4. /\ Idle.phase # "created" /\ Idle.phase # "validate"
      /\ Idle.phase \notin {"bundle", "validate", "answered"} /\ Idle.phase \notin {"bundle", "validate"}
  BY <1>1
<1> HIDE DEF Ends, Idle
<1> QED BY <1>1, <1>2, <1>3, <1>4, CallGoes

\* A row of an operation is settled or left open; the others and the revisions stay.
LEMMA StateSet ==
  ASSUME RemoteInv, NEW o \in Ops, NEW to \in Terminal \cup {"outcome_unknown"},
         op' = SetState(o, to)
  PROVE  /\ op' \in [Ops -> [state : {"absent"} \cup Pending \cup Terminal, ctl : 0..MaxControl]]
         /\ \A p \in Ops : op[p].state = "succeeded" => op'[p] = op[p]
         /\ \A p \in Ops : p # o => op'[p] = op[p]
         /\ op[o].state \in Pending => op'[o].state = to
         /\ op[o].state \notin Pending => op'[o] = op[o]
<1> DEFINE R == [state : {"absent"} \cup Pending \cup Terminal, ctl : 0..MaxControl]
<1>1. op \in [Ops -> R] BY DEF RemoteInv, RemoteTypeOK
<1>2. "succeeded" \notin Pending BY DEF Pending
<1>3. CASE op[o].state \notin Pending
  <2>1. op' = op BY <1>3 DEF SetState
  <2> QED BY <2>1, <1>1, <1>3
<1>4. CASE op[o].state \in Pending
  <2>1. op' = [op EXCEPT ![o].state = to] BY <1>4 DEF SetState
  <2>2. op[o] \in R BY <1>1
  <2>3. to \in {"absent"} \cup Pending \cup Terminal BY DEF Pending
  <2>4. [op[o] EXCEPT !.state = to] \in R /\ [op[o] EXCEPT !.state = to].state = to BY <2>2, <2>3
  <2>5. op' = [op EXCEPT ![o] = [op[o] EXCEPT !.state = to]] BY <2>1, Zenon
  <2> HIDE DEF R
  <2>6. op' \in [Ops -> R] BY <2>5, <2>4, <1>1, Zenon
  <2>7. \A p \in Ops : p # o => op'[p] = op[p] BY <2>5, <1>1, Zenon
  <2>8. op'[o].state = to BY <2>5, <2>4, <1>1, Zenon
  <2>9. op[o].state # "succeeded" BY <1>4, <1>2, Zenon
  <2> QED BY <2>6, <2>7, <2>8, <2>9, <1>4, Zenon DEF R
<1> QED BY <1>3, <1>4

\* What a step leaves that retains nothing: no operation succeeds by it.
LEMMA NothingRetained ==
  ASSUME RemoteInv, obs' = obs,
         \A p \in Ops : op'[p].state = "succeeded" <=> op[p].state = "succeeded",
         \A p \in Ops : effect[p] # Nil => effect'[p] = effect[p]
  PROVE  RetainedOnce'
<1>1. \A p \in Ops :
        /\ (op[p].state = "succeeded") <=> (obs[p] # Nil)
        /\ obs[p] # Nil => obs[p] = effect[p] /\ obs[p] \notin {"foreign", "bad"}
  BY DEF RemoteInv, RetainedOnce
<1>2. \A p \in Ops :
        /\ (op'[p].state = "succeeded") <=> (obs'[p] # Nil)
        /\ obs'[p] # Nil => obs'[p] = effect'[p] /\ obs'[p] \notin {"foreign", "bad"}
  BY <1>1
<1> QED BY <1>2 DEF RetainedOnce

\* An operation ends without having succeeded, and its call with it.
LEMMA MarksKeep ==
  ASSUME RemoteInv, NEW k \in Callers \X Ops, NEW to \in {"failed", "outcome_unknown"},
         op' = SetState(k[2], to), Ends(k), UNCHANGED <<plan, obs, effect, adoption, answer>>
  PROVE  RemoteInv'
<1>1. k[2] \in Ops /\ to \in Terminal \cup {"outcome_unknown"} /\ to # "succeeded" BY DEF Terminal
<1>2. call' \in [Callers \X Ops -> [phase : Phases, got : Records \cup {Nil}]] /\ CallsKnow'
  BY CallEnds
<1>3. /\ op' \in [Ops -> [state : {"absent"} \cup Pending \cup Terminal, ctl : 0..MaxControl]]
      /\ \A p \in Ops : op[p].state = "succeeded" => op'[p] = op[p]
      /\ \A p \in Ops : p # k[2] => op'[p] = op[p]
      /\ op[k[2]].state \in Pending => op'[k[2]].state = to
      /\ op[k[2]].state \notin Pending => op'[k[2]] = op[k[2]]
  BY <1>1, StateSet
<1>4. \A p \in Ops : op'[p].state = "succeeded" <=> op[p].state = "succeeded"
  BY <1>1, <1>3 DEF Pending
<1>5. \A p \in Ops : effect[p] # Nil => effect'[p] = effect[p] OBVIOUS
<1>6. RetainedOnce' BY <1>4, <1>5, NothingRetained
<1>7. UNCHANGED <<adoption, intent>> BY DEF plan
<1>8. AdoptionRests' /\ AdoptionProven' /\ SchedulerSparesAdopted' BY <1>3, <1>5, <1>7, RowsGrow
<1>9. RemoteTypeOK' BY <1>2, <1>3 DEF RemoteInv, RemoteTypeOK, plan
<1> QED BY <1>2, <1>6, <1>8, <1>9 DEF RemoteInv

\* A call that waits moves on and nothing else changes but the provider's records.
LEMMA WaitKeeps ==
  ASSUME RemoteInv, NEW k \in Callers \X Ops,
         NEW c \in [phase : Phases, got : Records \cup {Nil}],
         call' = [call EXCEPT ![k] = c],
         effect' \in [Ops -> Records \cup {Nil}],
         \A o \in Ops : effect'[o] \in {Nil} \cup Effects(o),
         \A o \in Ops : effect[o] # Nil => effect'[o] = effect[o],
         c.got # Nil => c.got = effect'[k[2]],
         c.phase = "created" => effect'[k[2]] # Nil,
         c.phase \in {"bundle", "validate", "answered"} => c.got # Nil,
         c.phase = "validate" => c.got # "foreign",
         c.phase \in {"bundle", "validate"} => k[2] \in CommitOps,
         UNCHANGED <<plan, op, obs, adoption, answer>>
  PROVE  RemoteInv'
<1>1. call' \in [Callers \X Ops -> [phase : Phases, got : Records \cup {Nil}]] /\ CallsKnow'
  BY CallGoes
<1>2. \A p \in Ops : op'[p].state = "succeeded" <=> op[p].state = "succeeded" OBVIOUS
<1>3. RetainedOnce' BY <1>2, NothingRetained
<1>4. UNCHANGED <<adoption, intent>> BY DEF plan
<1>5. \A o \in Ops : op[o].state = "succeeded" => op'[o] = op[o] OBVIOUS
<1>6. AdoptionRests' /\ AdoptionProven' /\ SchedulerSparesAdopted' BY <1>4, <1>5, RowsGrow
<1>7. RemoteTypeOK' BY <1>1 DEF RemoteInv, RemoteTypeOK, plan
<1> QED BY <1>1, <1>3, <1>6, <1>7 DEF RemoteInv

\* observeCommit, observeCI and the attestation's observe: the row is there, the call waits.
LEMMA AsksKeeps ==
  ASSUME RemoteInv, NEW s \in Callers, NEW o \in Ops, Asks(s, o)
  PROVE  RemoteInv'
<1> DEFINE k == <<s, o>>
           c == [phase |-> "lookup", got |-> Nil]
           R == [state : {"absent"} \cup Pending \cup Terminal, ctl : 0..MaxControl]
           n == [state |-> "planned", ctl |-> control]
<1>1. k \in Callers \X Ops OBVIOUS
<1>2. c \in [phase : Phases, got : Records \cup {Nil}] /\ c.got = Nil /\ c.phase = "lookup"
  BY DEF Phases
<1>3. call' = [call EXCEPT ![k] = c] /\ UNCHANGED <<plan, obs, effect, adoption, answer>>
  BY DEF Asks, Goes
<1>4. op \in [Ops -> R] BY DEF RemoteInv, RemoteTypeOK
<1>5. control \in 0..MaxControl BY EvidenceAssumption DEF RemoteInv, RemoteTypeOK
<1>6. n \in R /\ n.state = "planned" BY <1>5 DEF Pending
<1>7. op' = op \/ (op[o].state = "absent" /\ op' = [op EXCEPT ![o] = n]) BY DEF Asks, Planned
<1> HIDE DEF k, c, R, n
<1>8. op' \in [Ops -> R] BY <1>4, <1>6, <1>7, Zenon
<1>9. \A p \in Ops : op'[p] = op[p] \/ (op[p].state = "absent" /\ op'[p].state = "planned")
  <2> SUFFICES ASSUME NEW p \in Ops
               PROVE  op'[p] = op[p] \/ (op[p].state = "absent" /\ op'[p].state = "planned")
    OBVIOUS
  <2>1. CASE op' = op BY <2>1
  <2>2. CASE op[o].state = "absent" /\ op' = [op EXCEPT ![o] = n]
    <3>1. op'[o] = n BY <2>2, <1>4, Zenon
    <3>2. p # o => op'[p] = op[p] BY <2>2, <1>4, Zenon
    <3> QED BY <3>1, <3>2, <2>2, <1>6
  <2> QED BY <2>1, <2>2, <1>7
<1>10. \A p \in Ops : op[p].state = "succeeded" => op'[p] = op[p] BY <1>9
<1>11. \A p \in Ops : op'[p].state = "succeeded" <=> op[p].state = "succeeded" BY <1>9
<1>12. \A p \in Ops : effect[p] # Nil => effect'[p] = effect[p] BY <1>3
<1>13. call' \in [Callers \X Ops -> [phase : Phases, got : Records \cup {Nil}]] /\ CallsKnow'
  <2>1. /\ c.phase # "created" /\ c.phase # "validate" /\ c.phase \notin {"bundle", "validate", "answered"}
        /\ c.phase \notin {"bundle", "validate"}
    BY <1>2
  <2> QED BY <2>1, <1>1, <1>2, <1>3, <1>12, CallGoes
<1>14. RetainedOnce' BY <1>3, <1>11, <1>12, NothingRetained
<1>15. UNCHANGED <<adoption, intent>> BY <1>3 DEF plan
<1>16. AdoptionRests' /\ AdoptionProven' /\ SchedulerSparesAdopted' BY <1>10, <1>12, <1>15, RowsGrow
<1>17. RemoteTypeOK' BY <1>3, <1>8, <1>13 DEF RemoteInv, RemoteTypeOK, plan, R
<1> QED BY <1>13, <1>14, <1>16, <1>17 DEF RemoteInv

\* lookupOrCreate: the GET, the POST and its answer
LEMMA ProviderKeeps ==
  ASSUME RemoteInv, NEW k \in Callers \X Ops, Lookup(k) \/ Create(k) \/ Created(k)
  PROVE  RemoteInv'
<1>1. /\ effect \in [Ops -> Records \cup {Nil}] /\ \A o \in Ops : effect[o] \in {Nil} \cup Effects(o)
      /\ k[2] \in Ops
  BY DEF RemoteInv, RemoteTypeOK
<1>2. ASSUME NEW g \in Records, g = effect[k[2]], Answered(k, g), effect' = effect,
             UNCHANGED <<plan, op, obs, adoption, answer>>
      PROVE  RemoteInv'
  <2>1. PICK ph \in {"bundle", "answered"} :
          /\ ph = "bundle" => k[2] \in CommitOps
          /\ call' = [call EXCEPT ![k] = [phase |-> ph, got |-> g]]
    BY <1>2 DEF Answered, Goes
  <2> DEFINE c == [phase |-> ph, got |-> g]
  <2>2. /\ c \in [phase : Phases, got : Records \cup {Nil}] /\ c.got = g
        /\ c.phase \in {"bundle", "answered"} /\ c.phase = ph
    BY DEF Phases
  <2>3. c.phase # "created" /\ c.phase # "validate" BY <2>2
  <2>4. g # Nil BY EvidenceAssumption
  <2>5. call' = [call EXCEPT ![k] = c] BY <2>1
  <2>6. c.phase \in {"bundle", "validate"} => k[2] \in CommitOps BY <2>1, <2>2, <2>3
  <2>7. c.got # Nil => c.got = effect'[k[2]] BY <2>2, <1>2
  <2>8. \A o \in Ops : effect[o] # Nil => effect'[o] = effect[o] BY <1>2
  <2> HIDE DEF c
  <2> QED BY <1>1, <1>2, <2>2, <2>3, <2>4, <2>5, <2>6, <2>7, <2>8, WaitKeeps
<1>3. ASSUME NEW ph \in {"create", "created"}, Goes(k, ph, Nil),
             effect' \in [Ops -> Records \cup {Nil}],
             \A o \in Ops : effect'[o] \in {Nil} \cup Effects(o),
             \A o \in Ops : effect[o] # Nil => effect'[o] = effect[o],
             ph = "created" => effect'[k[2]] # Nil,
             UNCHANGED <<plan, op, obs, adoption, answer>>
      PROVE  RemoteInv'
  <2> DEFINE c == [phase |-> ph, got |-> Nil]
  <2>1. c \in [phase : Phases, got : Records \cup {Nil}] /\ c.got = Nil /\ c.phase = ph BY DEF Phases
  <2>2. call' = [call EXCEPT ![k] = c] BY <1>3 DEF Goes
  <2>3. /\ c.phase # "validate" /\ c.phase \notin {"bundle", "validate", "answered"}
        /\ c.phase \notin {"bundle", "validate"}
    BY <2>1
  <2> HIDE DEF c
  <2> QED BY <1>3, <2>1, <2>2, <2>3, WaitKeeps
<1>4. CASE Lookup(k)
  <2>1. UNCHANGED <<plan, op, obs, effect, adoption, answer>> BY <1>4 DEF Lookup
  <2>2. CASE effect[k[2]] # Nil /\ Answered(k, effect[k[2]])
    <3>1. effect[k[2]] \in Records BY <1>1, <2>2
    <3> QED BY <1>2, <2>1, <2>2, <3>1
  <2>3. CASE Goes(k, "create", Nil) BY <1>1, <1>3, <2>1, <2>3
  <2> QED BY <1>4, <2>2, <2>3 DEF Lookup
<1>5. CASE Create(k)
  <2>1. PICK e \in Effects(k[2]) :
          effect' = IF effect[k[2]] = Nil THEN [effect EXCEPT ![k[2]] = e] ELSE effect
    BY <1>5 DEF Create
  <2>2. e \in Records /\ e # Nil BY <1>1, KindsDiffer
  <2>3. /\ effect' \in [Ops -> Records \cup {Nil}]
        /\ \A o \in Ops : effect'[o] \in {Nil} \cup Effects(o)
        /\ \A o \in Ops : effect[o] # Nil => effect'[o] = effect[o]
        /\ effect'[k[2]] # Nil
    <3>1. CASE effect[k[2]] # Nil
      <4>1. effect' = effect BY <3>1, <2>1
      <4> QED BY <4>1, <3>1, <1>1
    <3>2. CASE effect[k[2]] = Nil
      <4>1. effect' = [effect EXCEPT ![k[2]] = e] BY <3>2, <2>1
      <4>2. effect'[k[2]] = e /\ \A o \in Ops : o # k[2] => effect'[o] = effect[o]
        BY <4>1, <1>1, Zenon
      <4>3. effect' \in [Ops -> Records \cup {Nil}] BY <4>1, <1>1, <2>2
      <4>4. \A o \in Ops : effect'[o] \in {Nil} \cup Effects(o)
        <5> SUFFICES ASSUME NEW o \in Ops PROVE effect'[o] \in {Nil} \cup Effects(o) OBVIOUS
        <5>1. CASE o = k[2] BY <5>1, <4>2
        <5>2. CASE o # k[2] BY <5>2, <4>2, <1>1
        <5> QED BY <5>1, <5>2
      <4> QED BY <4>2, <4>3, <4>4, <3>2, <2>2
    <3> QED BY <3>1, <3>2
  <2>4. Goes(k, "created", Nil) /\ UNCHANGED <<plan, op, obs, adoption, answer>> BY <1>5 DEF Create
  <2> QED BY <1>3, <2>3, <2>4
<1>6. CASE Created(k)
  <2>1. effect[k[2]] # Nil BY <1>6 DEF Created, RemoteInv, CallsKnow
  <2>2. effect[k[2]] \in Records BY <1>1, <2>1
  <2>3. Answered(k, effect[k[2]]) /\ UNCHANGED <<plan, op, obs, effect, adoption, answer>>
    BY <1>6 DEF Created
  <2> QED BY <1>2, <2>2, <2>3
<1> QED BY <1>4, <1>5, <1>6

\* A request that fails, a bundle that is refused or is of something else
LEMMA ErrorsKeep ==
  ASSUME RemoteInv, NEW k \in Callers \X Ops,
         CreateLost(k) \/ CallFails(k) \/ ValidateFails(k) \/ Bundle(k)
  PROVE  RemoteInv'
<1>1. ASSUME NEW to \in {"failed", "outcome_unknown"}, Marks(k, to),
             UNCHANGED <<plan, obs, effect, adoption, answer>>
      PROVE  RemoteInv'
  BY <1>1, MarksKeep DEF Marks
<1>2. ASSUME NEW u \in BOOLEAN, FailsWith(k, u), UNCHANGED <<plan, obs, effect, adoption, answer>>
      PROVE  RemoteInv'
  <2>1. CASE k[2] \in AttestOps /\ ~u
    <3>1. Marks(k, "failed") BY <1>2, <2>1 DEF FailsWith
    <3> QED BY <1>1, <1>2, <3>1
  <2>2. CASE ~(k[2] \in AttestOps /\ ~u)
    <3>1. Marks(k, "outcome_unknown") BY <1>2, <2>2 DEF FailsWith
    <3> QED BY <1>1, <1>2, <3>1
  <2> QED BY <2>1, <2>2
<1>3. CASE CreateLost(k) BY <1>2, <1>3 DEF CreateLost
<1>4. CASE CallFails(k) BY <1>2, <1>4 DEF CallFails
<1>5. CASE ValidateFails(k) BY <1>1, <1>5 DEF ValidateFails
<1>6. CASE Bundle(k)
  <2>1. CASE Marks(k, "failed") BY <1>1, <1>6, <2>1 DEF Bundle
  <2>2. CASE ~Foreign(k) /\ Goes(k, "validate", call[k].got) /\ UNCHANGED op
    <3> DEFINE g == call[k].got
               c == [phase |-> "validate", got |-> g]
    <3>1. /\ effect \in [Ops -> Records \cup {Nil}]
          /\ \A o \in Ops : effect[o] \in {Nil} \cup Effects(o)
          /\ g \in Records \cup {Nil}
      BY DEF RemoteInv, RemoteTypeOK
    <3>2. call[k].phase = "bundle" BY <1>6 DEF Bundle
    <3>3. g # Nil /\ g = effect[k[2]] BY <3>2 DEF RemoteInv, CallsKnow
    <3>4. g # "foreign" BY <2>2 DEF Foreign
    <3>5. k[2] \in CommitOps BY <3>2 DEF RemoteInv, CallsKnow
    <3>6. call' = [call EXCEPT ![k] = c] BY <2>2 DEF Goes
    <3>7. UNCHANGED <<plan, op, obs, effect, adoption, answer>> BY <1>6, <2>2 DEF Bundle
    <3> HIDE DEF g
    <3>8. c \in [phase : Phases, got : Records \cup {Nil}] /\ c.got = g /\ c.phase = "validate"
      BY <3>1 DEF Phases
    <3>9. \A o \in Ops : effect[o] # Nil => effect'[o] = effect[o] BY <3>7
    <3> HIDE DEF c
    <3> QED BY <3>1, <3>3, <3>4, <3>5, <3>6, <3>7, <3>8, <3>9, WaitKeeps
  <2> QED BY <1>6, <2>1, <2>2 DEF Bundle
<1> QED BY <1>3, <1>4, <1>5, <1>6

\* The transaction that retains what the call was given, under an operation still open.
LEMMA RetainsKeeps ==
  ASSUME RemoteInv, NEW k \in Callers \X Ops, Retains(k), Ends(k),
         op[k[2]].state \in Pending, call[k].got # Nil, call[k].got \notin {"foreign", "bad"},
         UNCHANGED <<plan, effect, adoption, answer>>
  PROVE  RemoteInv'
<1> DEFINE o == k[2]
           g == call[k].got
<1>1. o \in Ops /\ "succeeded" \in Terminal \cup {"outcome_unknown"} BY DEF Terminal
<1>2. op' = SetState(o, "succeeded") /\ obs' = [obs EXCEPT ![o] = g] BY DEF Retains
<1>3. g = effect[o] /\ g # Nil BY DEF RemoteInv, CallsKnow
<1>4. g \notin {"foreign", "bad"} /\ op[o].state \in Pending OBVIOUS
<1>5. g \in Records \cup {Nil} /\ obs \in [Ops -> Records \cup {Nil}] BY DEF RemoteInv, RemoteTypeOK
<1>6. call' \in [Callers \X Ops -> [phase : Phases, got : Records \cup {Nil}]] /\ CallsKnow'
  BY CallEnds
<1> HIDE DEF o, g
<1>7. /\ op' \in [Ops -> [state : {"absent"} \cup Pending \cup Terminal, ctl : 0..MaxControl]]
      /\ \A p \in Ops : op[p].state = "succeeded" => op'[p] = op[p]
      /\ \A p \in Ops : p # o => op'[p] = op[p]
      /\ op'[o].state = "succeeded"
  BY <1>1, <1>2, <1>4, StateSet
<1>8. obs' \in [Ops -> Records \cup {Nil}] BY <1>2, <1>5
<1>9. obs'[o] = g /\ \A p \in Ops : p # o => obs'[p] = obs[p] BY <1>1, <1>2, <1>5, Zenon
<1>10. RetainedOnce'
  <2>1. \A p \in Ops :
          /\ (op[p].state = "succeeded") <=> (obs[p] # Nil)
          /\ obs[p] # Nil => obs[p] = effect[p] /\ obs[p] \notin {"foreign", "bad"}
    BY DEF RemoteInv, RetainedOnce
  <2>2. ASSUME NEW p \in Ops
        PROVE  /\ (op'[p].state = "succeeded") <=> (obs'[p] # Nil)
               /\ obs'[p] # Nil => obs'[p] = effect[p] /\ obs'[p] \notin {"foreign", "bad"}
    <3>1. CASE p = o BY <3>1, <1>3, <1>4, <1>7, <1>9
    <3>2. CASE p # o
      <4>1. op'[p] = op[p] /\ obs'[p] = obs[p] BY <3>2, <1>7, <1>9
      <4> QED BY <4>1, <2>1
    <3> QED BY <3>1, <3>2
  <2> QED BY <2>2 DEF RetainedOnce
<1>11. UNCHANGED <<adoption, intent>> BY DEF plan
<1>12. \A p \in Ops : effect[p] # Nil => effect'[p] = effect[p] OBVIOUS
<1>13. AdoptionRests' /\ AdoptionProven' /\ SchedulerSparesAdopted' BY <1>7, <1>11, <1>12, RowsGrow
<1>14. RemoteTypeOK' BY <1>6, <1>7, <1>8 DEF RemoteInv, RemoteTypeOK, plan
<1> QED BY <1>6, <1>10, <1>13, <1>14 DEF RemoteInv

\* retainCommit, retainCI and the attestation's retain
LEMMA RetainKeeps ==
  ASSUME RemoteInv, NEW k \in Callers \X Ops,
         RetainCommit(k) \/ RetainCheck(k) \/ RetainAttestation(k)
  PROVE  RemoteInv'
<1>1. Ends(k) /\ UNCHANGED <<plan, effect, adoption, answer>>
  BY DEF RetainCommit, RetainCheck, RetainAttestation
<1>2. call[k].phase \in {"validate", "answered"}
  BY DEF RetainCommit, RetainCheck, RetainAttestation
<1>3. call[k].got # Nil /\ call[k].got = effect[k[2]] BY <1>2 DEF RemoteInv, CallsKnow
<1>4. call[k].got \in Effects(k[2])
  BY <1>3 DEF RemoteInv, RemoteTypeOK
<1>5. CASE UNCHANGED <<obs, op>>
  <2>1. call' \in [Callers \X Ops -> [phase : Phases, got : Records \cup {Nil}]] /\ CallsKnow'
    BY <1>1, CallEnds
  <2>2. RemoteTypeOK' BY <1>1, <1>5, <2>1 DEF RemoteInv, RemoteTypeOK, plan
  <2>3. RetainedOnce' /\ AdoptionRests' /\ AdoptionProven' /\ SchedulerSparesAdopted'
    BY <1>1, <1>5 DEF RemoteInv, RetainedOnce, AdoptionRests, AdoptionProven, SchedulerSparesAdopted, plan
  <2> QED BY <2>1, <2>2, <2>3 DEF RemoteInv
<1>6. CASE op' = SetState(k[2], "failed") /\ obs' = obs BY <1>1, <1>6, MarksKeep
<1>7. CASE MayRetain(k[2]) /\ Retains(k)
  <2>1. op[k[2]].state \in Pending BY <1>7 DEF MayRetain
  <2>2. call[k].got \notin {"foreign", "bad"}
    <3>1. CASE RetainCommit(k) BY <3>1 DEF RetainCommit
    <3>2. CASE (RetainCheck(k) \/ RetainAttestation(k)) /\ ~Foreign(k)
      <4>1. k[2] \in CIOps \/ k[2] \in AttestOps BY <3>2 DEF RetainCheck, RetainAttestation
      <4>2. "bad" \notin Effects(k[2]) BY <4>1, KindsDiffer
      <4> QED BY <4>2, <3>2, <1>4 DEF Foreign
    <3>3. CASE (RetainCheck(k) \/ RetainAttestation(k)) /\ Foreign(k)
      <4>1. op' = SetState(k[2], "failed") BY <3>3 DEF RetainCheck, RetainAttestation
      <4>2. op' = SetState(k[2], "succeeded") BY <1>7 DEF Retains
      <4>3. k[2] \in Ops OBVIOUS
      <4>4. op'[k[2]].state = "failed"
        BY <4>1, <4>3, <2>1, StateSet DEF Terminal
      <4>5. op'[k[2]].state = "succeeded"
        BY <4>2, <4>3, <2>1, StateSet DEF Terminal
      <4> QED BY <4>4, <4>5
    <3> QED BY <3>1, <3>2, <3>3
  <2> QED BY <1>1, <1>3, <1>7, <2>1, <2>2, RetainsKeeps
<1> QED BY <1>5, <1>6, <1>7 DEF RetainCommit, RetainCheck, RetainAttestation

\* Central stops: the waiting calls are gone.
LEMMA StopsKeep ==
  ASSUME RemoteInv, CentralStops
  PROVE  RemoteInv'
<1>1. UNCHANGED <<plan, op, obs, effect, adoption, answer>> BY DEF CentralStops
<1>2. call' = [k \in Callers \X Ops |-> Idle] BY DEF CentralStops
<1>3. Idle \in [phase : Phases, got : Records \cup {Nil}] BY DEF Idle, Phases
<1>4. call' \in [Callers \X Ops -> [phase : Phases, got : Records \cup {Nil}]]
  BY <1>2, <1>3, Zenon
<1>5. \A k \in Callers \X Ops : call'[k].phase = "idle" /\ call'[k].got = Nil BY <1>2 DEF Idle
<1>6. CallsKnow' BY <1>5 DEF CallsKnow
<1>7. RemoteTypeOK' BY <1>1, <1>4 DEF RemoteInv, RemoteTypeOK, plan
<1>8. RetainedOnce' /\ AdoptionRests' /\ AdoptionProven' /\ SchedulerSparesAdopted'
  BY <1>1 DEF RemoteInv, RetainedOnce, AdoptionRests, AdoptionProven, SchedulerSparesAdopted, plan
<1> QED BY <1>6, <1>7, <1>8 DEF RemoteInv

\* adoptVerified: the proof rows are receipts that passed, one for every required check.
LEMMA AdoptKeeps ==
  ASSUME RemoteInv, NEW d \in AdoptOps, NEW src \in CommitOps, Adopt(d, src) \/ AdoptAgain(d, src)
  PROVE  RemoteInv'
<1>1. UNCHANGED <<plan, op, obs, effect, call>> BY DEF Adopt, AdoptAgain
<1>2. answer \in [AdoptOps -> {"none", "adopted", "conflict"}] BY DEF RemoteInv, RemoteTypeOK
<1>3. \E a \in {"none", "adopted", "conflict"} : answer' = [answer EXCEPT ![d] = a]
  BY DEF Adopt, AdoptAgain
<1>4. answer' \in [AdoptOps -> {"none", "adopted", "conflict"}] BY <1>2, <1>3, Zenon
<1>5. RemoteTypeOK' BY <1>1, <1>4 DEF RemoteInv, RemoteTypeOK, plan
<1>6. RetainedOnce' /\ CallsKnow' BY <1>1 DEF RemoteInv, RetainedOnce, CallsKnow
<1>7. AdoptionRests' /\ AdoptionProven' /\ SchedulerSparesAdopted'
  <2>1. CASE AdoptAgain(d, src)
    <3>1. UNCHANGED <<adoption, intent>> BY <2>1 DEF AdoptAgain, plan
    <3> QED BY <1>1, <3>1 DEF RemoteInv, AdoptionRests, AdoptionProven, SchedulerSparesAdopted
  <2>2. CASE Adopt(d, src)
    <3>1. Adoptable(src) /\ adoption' = Sealed(d, src) BY <2>2 DEF Adopt
    <3>2. /\ intent = "none" /\ obs[src] # Nil /\ op[src].state = "succeeded" /\ op[src].ctl = control
          /\ ProofSet(src)
      BY <3>1 DEF Adoptable
    <3>3. /\ adoption'.source = src /\ adoption'.proofs = ProofRows(src) /\ adoption'.ctl = control
      BY <3>1 DEF Sealed
    <3>4. ProofRows(src) \subseteq CIOps BY DEF ProofRows
    <3>5. src \in Ops /\ CIOps \subseteq Ops BY DEF Ops
    <3>6. AdoptionRests' BY <1>1, <3>2, <3>3, <3>4 DEF AdoptionRests
    <3>7. SchedulerSparesAdopted' BY <1>1, <3>2 DEF SchedulerSparesAdopted, plan
    <3>8. effect[src] = "good"
      <4>1. obs[src] = effect[src] /\ obs[src] \notin {"foreign", "bad"}
        BY <3>2, <3>5 DEF RemoteInv, RetainedOnce
      <4>2. effect[src] \in {Nil} \cup Effects(src) BY <3>5 DEF RemoteInv, RemoteTypeOK
      <4>3. Effects(src) = {"foreign", "good", "bad"} BY KindsDiffer
      <4> QED BY <4>1, <4>2, <4>3, <3>2
    <3>9. ASSUME NEW c \in Checks
          PROVE  \E o \in ProofRows(src) : CheckOf[o] = c /\ SourceOf[o] = src /\ effect[o] = "passed"
      <4>1. Cardinality({o \in ProofRows(src) : CheckOf[o] = c}) = 1 BY <3>2 DEF ProofSet
      <4>2. {o \in ProofRows(src) : CheckOf[o] = c} # {}
        <5>1. Cardinality({}) = 0 BY FS_EmptySet
        <5> QED BY <4>1, <5>1
      <4>3. PICK o \in ProofRows(src) : CheckOf[o] = c BY <4>2
      <4>4. o \in CIOps /\ SourceOf[o] = src /\ obs[o] = "passed" BY DEF ProofRows
      <4>5. obs[o] # Nil BY <4>4, EvidenceAssumption DEF Records
      <4>6. effect[o] = "passed" BY <4>4, <4>5, <3>5 DEF RemoteInv, RetainedOnce
      <4> QED BY <4>3, <4>4, <4>6
    <3>10. AdoptionProven' BY <1>1, <3>2, <3>3, <3>8, <3>9 DEF AdoptionProven
    <3> QED BY <3>6, <3>7, <3>10
  <2> QED BY <2>1, <2>2
<1> QED BY <1>5, <1>6, <1>7 DEF RemoteInv

\* Every step preserves the invariant.
LEMMA RemoteStep == RemoteInv /\ [RemoteNext]_remoteVars => RemoteInv'
<1> SUFFICES ASSUME RemoteInv, [RemoteNext]_remoteVars PROVE RemoteInv' OBVIOUS
<1>1. CASE UNCHANGED remoteVars
  <2>1. RemoteTypeOK' BY <1>1 DEF RemoteInv, RemoteTypeOK, remoteVars
  <2>2. RetainedOnce' /\ CallsKnow' /\ AdoptionRests' /\ AdoptionProven' /\ SchedulerSparesAdopted'
    BY <1>1 DEF RemoteInv, RetainedOnce, CallsKnow, AdoptionRests, AdoptionProven, SchedulerSparesAdopted, remoteVars
  <2> QED BY <2>1, <2>2 DEF RemoteInv
<1>2. CASE Tick \/ Bind \/ ProducersAdopted \/ Dispatch \/ DispatchByMessage \/ Revoke
           \/ \E on \in BOOLEAN : ControlPlan(on)
  BY <1>2, SurroundingsKeep
<1>3. CASE CentralStops BY <1>3, StopsKeep
<1>4. CASE \E s \in Callers, o \in Ops : ObserveCommit(s, o) \/ ObserveCI(s, o) \/ ObserveInputs(s, o)
  BY <1>4, AsksKeeps DEF ObserveCommit, ObserveCI, ObserveInputs
<1>5. CASE \E k \in Callers \X Ops : Step(k)
  BY <1>5, ProviderKeeps, ErrorsKeep, RetainKeeps DEF Step
<1>6. CASE \E d \in AdoptOps, src \in CommitOps : Adopt(d, src) \/ AdoptAgain(d, src)
  BY <1>6, AdoptKeeps
<1> QED BY <1>1, <1>2, <1>3, <1>4, <1>5, <1>6 DEF RemoteNext

\* The invariant holds in every reachable state.
LEMMA RemoteInvHolds == RemoteSpec => []RemoteInv
BY RemoteInitOK, RemoteStep, PTL DEF RemoteSpec

\* Under a revoked binding no step retains a commit or a check, or adopts.
LEMMA RevokedKeeps == RemoteInv /\ [RemoteNext]_remoteVars => [RevokedNoEvidence]_remoteVars
<1> SUFFICES ASSUME RemoteInv, RemoteNext, revoked PROVE
        (\A o \in CommitOps \cup CIOps : obs'[o] = obs[o]) /\ adoption' = adoption
  BY DEF RevokedNoEvidence
<1>1. CASE obs' = obs /\ adoption' = adoption BY <1>1
<1>2. CASE Tick \/ Bind \/ ProducersAdopted \/ Dispatch \/ DispatchByMessage \/ Revoke \/ CentralStops
           \/ \E on \in BOOLEAN : ControlPlan(on)
  BY <1>1, <1>2 DEF Tick, Bind, ProducersAdopted, Dispatch, DispatchByMessage, Admits, Revoke, ControlPlan, CentralStops
<1>3. CASE \E s \in Callers, o \in Ops : ObserveCommit(s, o) \/ ObserveCI(s, o) \/ ObserveInputs(s, o)
  BY <1>1, <1>3 DEF ObserveCommit, ObserveCI, ObserveInputs, Asks
<1>4. CASE \E d \in AdoptOps, src \in CommitOps : Adopt(d, src) \/ AdoptAgain(d, src)
  BY <1>4, <1>1 DEF Adopt, AdoptAgain, Adoptable, Context
<1>5. ASSUME NEW k \in Callers \X Ops, Step(k)
      PROVE  (\A o \in CommitOps \cup CIOps : obs'[o] = obs[o]) /\ adoption' = adoption
  <2>1. adoption' = adoption
    BY <1>5 DEF Step, Lookup, Create, Created, CreateLost, CallFails, Bundle, ValidateFails,
                RetainCommit, RetainCheck, RetainAttestation
  <2>2. obs' = obs \/ (MayRetain(k[2]) /\ Retains(k))
    BY <1>5 DEF Step, Lookup, Create, Created, CreateLost, CallFails, Bundle, ValidateFails,
                RetainCommit, RetainCheck, RetainAttestation
  <2>3. CASE MayRetain(k[2]) /\ Retains(k)
    <3>1. k[2] \in AttestOps BY <2>3 DEF MayRetain
    <3>2. \A o \in CommitOps \cup CIOps : o # k[2] /\ o \in Ops BY <3>1, EvidenceAssumption DEF Ops
    <3>3. obs \in [Ops -> Records \cup {Nil}] BY DEF RemoteInv, RemoteTypeOK
    <3>4. obs' = [obs EXCEPT ![k[2]] = call[k].got] BY <2>3 DEF Retains
    <3>5. \A o \in CommitOps \cup CIOps : obs'[o] = obs[o] BY <3>2, <3>3, <3>4
    <3> QED BY <3>5, <2>1
  <2> QED BY <2>1, <2>2, <2>3
<1> QED BY <1>2, <1>3, <1>4, <1>5 DEF RemoteNext

\* No source and no receipt is retained, and nothing is adopted, once the binding is revoked,
\* although the waiting calls saw it in force (the triggers of 0078 and 0082).
LEMMA NothingOnceRevoked == RemoteSpec => [][RevokedNoEvidence]_remoteVars
BY RemoteInvHolds, RevokedKeeps, PTL DEF RemoteSpec

-----------------------------------------------------------------------------
(* Requests to the provider: the inductive invariant                       *)
(*                                                                         *)
(* What the policy allowed of an answer is the pin, and from the connection *)
(* on the peer of the socket is that pin.  A request is only answered after *)
(* it was written, so that one which was not has met the errors that        *)
(* destroy its socket.                                                      *)

\* Where a request may go: encrypted to a public address, or to loopback under the tests'
\* capability.
Permitted(to, secure) == (to \in Public /\ secure) \/ (TestLoopback /\ to \in Loopback)

\* What the phase of a request says of its socket and of what it wrote.
SocketHeld(q, k, w) ==
  /\ q.phase \in {"idle", "resolving"} => ~k.open
  /\ q.phase = "written" => w # {}
  /\ q.phase \in Over /\ w = {} => ~k.open

\* What it says of its pin, and of the peer of the socket.
PinHeld ==
  /\ \A r \in Requests : request[r].phase \in {"connecting", "securing", "ready"} =>
        request[r].pin \in Addresses /\ Permitted(request[r].pin, request[r].secure)
  /\ \A r \in Requests : request[r].phase \in {"securing", "ready"} =>
        socket[r].peer = request[r].pin
  /\ \A r \in Requests : SocketHeld(request[r], socket[r], written[r])

EgressInv == EgressTypeOK /\ WrittenToAllowed /\ PinHeld

\* It contains what the requests promise.
LEMMA EgressInvTrue == EgressInv => EgressTrue
BY DEF EgressInv, EgressTrue, PinHeld, SocketHeld, UnwrittenClosed

\* It holds before anything is sent.
LEMMA EgressInitOK == EgressInit => EgressInv
<1> SUFFICES ASSUME EgressInit PROVE EgressInv OBVIOUS
<1> DEFINE q == [phase |-> "idle", secure |-> TRUE, pin |-> NoAddress]
<1>1. /\ request = [r \in Requests |-> q] /\ socket = [r \in Requests |-> NoSocket]
      /\ aborted = [r \in Requests |-> FALSE] /\ written = [r \in Requests |-> {}]
  BY DEF EgressInit
<1>2. /\ q \in [phase : EgressPhases, secure : BOOLEAN, pin : {NoAddress} \cup Addresses]
      /\ q.phase = "idle"
  BY DEF EgressPhases, Over
<1>3. /\ NoSocket \in [peer : {NoAddress} \cup Addresses, open : BOOLEAN]
      /\ NoSocket.open = FALSE
  BY DEF NoSocket
<1> HIDE DEF q
<1>4. EgressTypeOK BY <1>1, <1>2, <1>3, Zenon DEF EgressTypeOK
<1>5. WrittenToAllowed BY <1>1 DEF WrittenToAllowed
<1>6. \A r \in Requests : request[r].phase = "idle" /\ socket[r].open = FALSE
  BY <1>1, <1>2, <1>3
<1>7. PinHeld BY <1>6 DEF PinHeld, SocketHeld, Over
<1> QED BY <1>4, <1>5, <1>7 DEF EgressInv

\* One request and its socket move; what was written so far stays.
LEMMA RequestMoves ==
  ASSUME EgressInv, NEW r \in Requests,
         NEW q \in [phase : EgressPhases, secure : BOOLEAN, pin : {NoAddress} \cup Addresses],
         NEW k \in [peer : {NoAddress} \cup Addresses, open : BOOLEAN],
         request' = [request EXCEPT ![r] = q], socket' = [socket EXCEPT ![r] = k],
         aborted' \in [Requests -> BOOLEAN],
         written' \in [Requests -> SUBSET [to : Addresses, secure : BOOLEAN]],
         WrittenToAllowed',
         q.phase \in {"connecting", "securing", "ready"} =>
            q.pin \in Addresses /\ Permitted(q.pin, q.secure),
         q.phase \in {"securing", "ready"} => k.peer = q.pin,
         \A p \in Requests : p # r => written'[p] = written[p],
         SocketHeld(q, k, written'[r])
  PROVE  EgressInv'
<1>1. /\ request \in [Requests -> [phase : EgressPhases, secure : BOOLEAN, pin : {NoAddress} \cup Addresses]]
      /\ socket \in [Requests -> [peer : {NoAddress} \cup Addresses, open : BOOLEAN]]
  BY DEF EgressInv, EgressTypeOK
<1>2. /\ request' \in [Requests -> [phase : EgressPhases, secure : BOOLEAN, pin : {NoAddress} \cup Addresses]]
      /\ socket' \in [Requests -> [peer : {NoAddress} \cup Addresses, open : BOOLEAN]]
  BY <1>1, Zenon
<1>3. request'[r] = q /\ socket'[r] = k BY <1>1, Zenon
<1>4. \A p \in Requests : p # r => request'[p] = request[p] /\ socket'[p] = socket[p]
  BY <1>1, Zenon
<1>5. ASSUME NEW p \in Requests
      PROVE  /\ request'[p].phase \in {"connecting", "securing", "ready"} =>
                  request'[p].pin \in Addresses /\ Permitted(request'[p].pin, request'[p].secure)
             /\ request'[p].phase \in {"securing", "ready"} => socket'[p].peer = request'[p].pin
             /\ SocketHeld(request'[p], socket'[p], written'[p])
  <2>1. CASE p = r BY <2>1, <1>3
  <2>2. CASE p # r
    <3>1. request'[p] = request[p] /\ socket'[p] = socket[p] /\ written'[p] = written[p]
      BY <2>2, <1>4
    <3>2. /\ request[p].phase \in {"connecting", "securing", "ready"} =>
                request[p].pin \in Addresses /\ Permitted(request[p].pin, request[p].secure)
          /\ request[p].phase \in {"securing", "ready"} => socket[p].peer = request[p].pin
          /\ SocketHeld(request[p], socket[p], written[p])
      BY DEF EgressInv, PinHeld
    <3> QED BY <3>1, <3>2
  <2> QED BY <2>1, <2>2
<1>6. PinHeld' BY <1>5 DEF PinHeld, Permitted, SocketHeld
<1>7. EgressTypeOK' BY <1>2 DEF EgressTypeOK
<1> QED BY <1>6, <1>7 DEF EgressInv

\* What the invariant says of one request.
LEMMA RequestFacts ==
  ASSUME EgressInv, NEW r \in Requests
  PROVE  /\ request[r] \in [phase : EgressPhases, secure : BOOLEAN, pin : {NoAddress} \cup Addresses]
         /\ socket[r] \in [peer : {NoAddress} \cup Addresses, open : BOOLEAN]
         /\ request[r].phase \in {"connecting", "securing", "ready"} =>
               request[r].pin \in Addresses /\ Permitted(request[r].pin, request[r].secure)
         /\ request[r].phase \in {"securing", "ready"} => socket[r].peer = request[r].pin
         /\ SocketHeld(request[r], socket[r], written[r])
<1>1. /\ request[r] \in [phase : EgressPhases, secure : BOOLEAN, pin : {NoAddress} \cup Addresses]
      /\ socket[r] \in [peer : {NoAddress} \cup Addresses, open : BOOLEAN]
  BY DEF EgressInv, EgressTypeOK
<1> QED BY <1>1 DEF EgressInv, PinHeld

\* The request keeps its pin and goes to another phase; its socket stays or is destroyed.
LEMMA PhaseMoves ==
  ASSUME EgressInv, NEW r \in Requests, NEW ph \in EgressPhases, Moves(r, ph),
         socket' = socket \/ Destroys(r), UNCHANGED aborted,
         written' \in [Requests -> SUBSET [to : Addresses, secure : BOOLEAN]], WrittenToAllowed',
         ph \notin {"idle", "resolving", "connecting", "securing"},
         \A p \in Requests : p # r => written'[p] = written[p],
         ph = "ready" => request[r].phase = "securing" /\ socket' = socket,
         ph = "written" => written'[r] # {},
         ph \in Over /\ written'[r] = {} => Destroys(r) \/ request[r].phase = "resolving"
  PROVE  EgressInv'
<1> DEFINE q == [request[r] EXCEPT !.phase = ph]
           k == [socket[r] EXCEPT !.open = FALSE]
           Q == [phase : EgressPhases, secure : BOOLEAN, pin : {NoAddress} \cup Addresses]
           K == [peer : {NoAddress} \cup Addresses, open : BOOLEAN]
<1>1. /\ request \in [Requests -> Q] /\ socket \in [Requests -> K] /\ aborted \in [Requests -> BOOLEAN]
  BY DEF EgressInv, EgressTypeOK
<1>2. request[r] \in Q /\ socket[r] \in K BY <1>1
<1>3. q \in Q /\ q.phase = ph /\ q.pin = request[r].pin /\ q.secure = request[r].secure BY <1>2
<1>4. k \in K /\ k.open = FALSE BY <1>2
<1>5. request' = [request EXCEPT ![r] = q] BY Zenon DEF Moves
<1>6. aborted' \in [Requests -> BOOLEAN] BY <1>1
<1>7. /\ request[r].phase \in {"connecting", "securing", "ready"} =>
           request[r].pin \in Addresses /\ Permitted(request[r].pin, request[r].secure)
      /\ request[r].phase \in {"securing", "ready"} => socket[r].peer = request[r].pin
      /\ request[r].phase = "resolving" => ~socket[r].open
  BY RequestFacts DEF SocketHeld
<1> HIDE DEF q, k
<1>8. q.phase \in {"connecting", "securing", "ready"} =>
        q.pin \in Addresses /\ Permitted(q.pin, q.secure)
  BY <1>3, <1>7
<1>9. CASE Destroys(r)
  <2>1. socket' = [socket EXCEPT ![r] = k] BY <1>9, Zenon DEF Destroys, k
  <2>2. q.phase \in {"securing", "ready"} => k.peer = q.pin
    <3>1. k.peer = socket[r].peer BY <1>2 DEF k
    <3> QED BY <3>1, <1>3, <1>7
  <2>3. SocketHeld(q, k, written'[r]) BY <1>3, <1>4 DEF SocketHeld
  <2> QED BY <1>3, <1>4, <1>5, <1>6, <1>8, <2>1, <2>2, <2>3, RequestMoves
<1>10. CASE ~Destroys(r)
  <2>1. socket' = [socket EXCEPT ![r] = socket[r]] BY <1>1, <1>10
  <2>2. q.phase \in {"securing", "ready"} => socket[r].peer = q.pin BY <1>3, <1>7
  <2>3. SocketHeld(q, socket[r], written'[r]) BY <1>3, <1>7, <1>10 DEF SocketHeld
  <2> QED BY <1>2, <1>3, <1>5, <1>6, <1>8, <2>1, <2>2, <2>3, RequestMoves
<1> QED BY <1>9, <1>10

\* What was written is unchanged by most steps.
LEMMA WrittenStays ==
  ASSUME EgressInv, UNCHANGED written
  PROVE  /\ written' \in [Requests -> SUBSET [to : Addresses, secure : BOOLEAN]]
         /\ WrittenToAllowed'
         /\ \A p \in Requests : written'[p] = written[p]
BY DEF EgressInv, EgressTypeOK, WrittenToAllowed

\* A request begins.
LEMMA BeginsKeep ==
  ASSUME EgressInv, NEW r \in Requests, NEW secure \in BOOLEAN, Fetch(r, secure)
  PROVE  EgressInv'
<1> DEFINE q == [phase |-> "resolving", secure |-> secure, pin |-> NoAddress]
<1>1. /\ q \in [phase : EgressPhases, secure : BOOLEAN, pin : {NoAddress} \cup Addresses]
      /\ q.phase = "resolving"
  BY DEF EgressPhases
<1>2. /\ request[r].phase = "idle" /\ request' = [request EXCEPT ![r] = q]
      /\ UNCHANGED <<socket, aborted, written>>
  BY DEF Fetch
<1> HIDE DEF q
<1>3. socket[r] \in [peer : {NoAddress} \cup Addresses, open : BOOLEAN] /\ ~socket[r].open
  BY <1>2, RequestFacts DEF SocketHeld
<1>4. socket' = [socket EXCEPT ![r] = socket[r]] /\ aborted' \in [Requests -> BOOLEAN]
  BY <1>2 DEF EgressInv, EgressTypeOK
<1>5. /\ written' \in [Requests -> SUBSET [to : Addresses, secure : BOOLEAN]]
      /\ WrittenToAllowed' /\ \A p \in Requests : written'[p] = written[p]
  BY <1>2, WrittenStays
<1>6. SocketHeld(q, socket[r], written'[r]) BY <1>1, <1>3 DEF SocketHeld, Over
<1> QED BY <1>1, <1>2, <1>3, <1>4, <1>5, <1>6, RequestMoves

\* resolveAndPinRemoteProviderAddress: every address of the answer is allowed, the first is
\* the pin.
LEMMA ResolveKeeps ==
  ASSUME EgressInv, NEW r \in Requests, NEW names \in Answers, Resolve(r, names)
  PROVE  EgressInv'
<1> DEFINE ok == AnswerAllowed(names) /\ SchemeAllowed(r, names[1]) /\ ~aborted[r]
<1>1. request[r].phase = "resolving" /\ UNCHANGED <<socket, aborted, written>> BY DEF Resolve
<1>2. /\ written' \in [Requests -> SUBSET [to : Addresses, secure : BOOLEAN]]
      /\ WrittenToAllowed' /\ \A p \in Requests : written'[p] = written[p]
  BY <1>1, WrittenStays
<1>3. CASE ~ok
  <2>1. request' = [request EXCEPT ![r] = [request[r] EXCEPT !.phase = "refused"]]
    BY <1>3, Zenon DEF Resolve
  <2>2. Moves(r, "refused") BY <2>1, Zenon DEF Moves
  <2>3. "refused" \in EgressPhases /\ "refused" \notin {"idle", "resolving", "connecting", "securing"}
    BY DEF EgressPhases, Over
  <2> QED BY <1>1, <1>2, <2>2, <2>3, PhaseMoves
<1>4. CASE ok
  <2> DEFINE q == [request[r] EXCEPT !.phase = "connecting", !.pin = names[1]]
             Q == [phase : EgressPhases, secure : BOOLEAN, pin : {NoAddress} \cup Addresses]
  <2>1. request' = [request EXCEPT ![r] = q] BY <1>4, Zenon DEF Resolve
  <2>2. request[r] \in Q /\ socket[r] \in [peer : {NoAddress} \cup Addresses, open : BOOLEAN]
    BY RequestFacts
  <2>3. names # <<>> /\ \A i \in DOMAIN names : AddressAllowed(names[i]) BY <1>4 DEF AnswerAllowed
  <2>4. PICK n \in 0..MaxAnswers : names \in [1..n -> Addresses] BY DEF Answers
  <2>5. 1 \in DOMAIN names
    <3>1. n # 0
      <4>1. SUFFICES ASSUME n = 0 PROVE FALSE OBVIOUS
      <4>2. names \in [{} -> Addresses] BY <2>4, <4>1
      <4>3. names = <<>> BY <4>2
      <4> QED BY <4>3, <2>3
    <3> QED BY <3>1, <2>4, EgressAssumption
  <2>6. AddressAllowed(names[1]) BY <2>3, <2>5
  <2>7. names[1] \in Addresses BY <2>6 DEF AddressAllowed, Addresses
  <2>8. Permitted(names[1], request[r].secure)
    BY <1>4, <2>6, EgressAssumption DEF AddressAllowed, SchemeAllowed, Permitted
  <2>9. "connecting" \in EgressPhases BY DEF EgressPhases
  <2>10. /\ q \in Q /\ q.phase = "connecting" /\ q.pin = names[1] /\ q.secure = request[r].secure
    BY <2>2, <2>7, <2>9
  <2>11. socket' = [socket EXCEPT ![r] = socket[r]] /\ aborted' \in [Requests -> BOOLEAN]
    BY <1>1 DEF EgressInv, EgressTypeOK
  <2> HIDE DEF q
  <2>12. q.phase \notin {"securing", "ready"} /\ SocketHeld(q, socket[r], written'[r])
    BY <2>10 DEF SocketHeld, Over
  <2>13. q.pin \in Addresses /\ Permitted(q.pin, q.secure) BY <2>7, <2>8, <2>10
  <2> QED BY <1>2, <2>1, <2>2, <2>10, <2>11, <2>12, <2>13, RequestMoves
<1> QED BY <1>3, <1>4

\* connectPinnedSocket: the peer is compared with the pin.
LEMMA ConnectedKeeps ==
  ASSUME EgressInv, NEW r \in Requests, NEW peer \in Addresses, Connected(r, peer)
  PROVE  EgressInv'
<1> DEFINE ph == IF ~PeerIsPin(r, peer) THEN "refused"
                 ELSE IF request[r].secure THEN "securing" ELSE "ready"
           q == [request[r] EXCEPT !.phase = ph]
           k == [peer |-> peer, open |-> PeerIsPin(r, peer)]
           Q == [phase : EgressPhases, secure : BOOLEAN, pin : {NoAddress} \cup Addresses]
<1>1. /\ request[r].phase = "connecting" /\ UNCHANGED <<aborted, written>>
      /\ socket' = [socket EXCEPT ![r] = k] /\ Moves(r, ph)
  BY DEF Connected
<1>2. /\ request[r] \in Q
      /\ request[r].pin \in Addresses /\ Permitted(request[r].pin, request[r].secure)
  BY <1>1, RequestFacts
<1>3. ph \in EgressPhases /\ ph \in {"refused", "securing", "ready"} BY DEF EgressPhases, Over
<1>4. ph # "refused" => peer = request[r].pin BY DEF PeerIsPin
<1>5. ph = "refused" => peer # request[r].pin BY DEF PeerIsPin
<1>6. request' = [request EXCEPT ![r] = q] BY <1>1, Zenon DEF Moves
<1>7. /\ k \in [peer : {NoAddress} \cup Addresses, open : BOOLEAN] /\ k.peer = peer
      /\ k.open = (peer = request[r].pin)
  BY DEF PeerIsPin
<1> HIDE DEF ph, k
<1>8. q \in Q /\ q.phase = ph /\ q.pin = request[r].pin /\ q.secure = request[r].secure
  BY <1>2, <1>3
<1> HIDE DEF q
<1>9. q.pin \in Addresses /\ Permitted(q.pin, q.secure) BY <1>2, <1>8
<1>10. q.phase \in {"securing", "ready"} => k.peer = q.pin BY <1>4, <1>7, <1>8
<1>11. SocketHeld(q, k, written'[r]) BY <1>3, <1>5, <1>7, <1>8 DEF SocketHeld, Over
<1>12. aborted' \in [Requests -> BOOLEAN] BY <1>1 DEF EgressInv, EgressTypeOK
<1>13. /\ written' \in [Requests -> SUBSET [to : Addresses, secure : BOOLEAN]]
       /\ WrittenToAllowed' /\ \A p \in Requests : written'[p] = written[p]
  BY <1>1, WrittenStays
<1> QED BY <1>1, <1>6, <1>7, <1>8, <1>9, <1>10, <1>11, <1>12, <1>13, RequestMoves

\* performRequest: what is written goes to the peer, which is the pin.
LEMMA WriteKeeps ==
  ASSUME EgressInv, NEW r \in Requests, Write(r)
  PROVE  EgressInv'
<1> DEFINE e == [to |-> socket[r].peer, secure |-> request[r].secure]
           E == [to : Addresses, secure : BOOLEAN]
<1>1. /\ request[r].phase = "ready" /\ Moves(r, "written") /\ UNCHANGED <<socket, aborted>>
      /\ written' = [written EXCEPT ![r] = @ \cup {e}]
  BY DEF Write
<1>2. /\ request[r].secure \in BOOLEAN /\ socket[r].peer \in Addresses
      /\ Permitted(socket[r].peer, request[r].secure)
  BY <1>1, RequestFacts
<1>3. e \in E /\ e.to = socket[r].peer /\ e.secure = request[r].secure BY <1>2
<1> HIDE DEF e
<1>4. written \in [Requests -> SUBSET E] BY DEF EgressInv, EgressTypeOK
<1>5. written' \in [Requests -> SUBSET E] BY <1>1, <1>3, <1>4
<1>6. /\ written'[r] = written[r] \cup {e}
      /\ \A p \in Requests : p # r => written'[p] = written[p]
  BY <1>1, <1>4, Zenon
<1>7. Permitted(e.to, e.secure) BY <1>2, <1>3
<1>8. \A p \in Requests : \A w \in written[p] : Permitted(w.to, w.secure)
  BY DEF EgressInv, WrittenToAllowed, Permitted
<1>9. \A p \in Requests : \A w \in written'[p] : Permitted(w.to, w.secure) BY <1>6, <1>7, <1>8
<1>10. WrittenToAllowed' BY <1>9 DEF WrittenToAllowed, Permitted
<1>11. /\ "written" \in EgressPhases /\ "written" \notin Over
       /\ "written" \notin {"idle", "resolving", "connecting", "securing"} /\ written'[r] # {}
  BY <1>6 DEF EgressPhases, Over
<1> QED BY <1>1, <1>5, <1>6, <1>10, <1>11, PhaseMoves

\* A handshake, an error or the head of an answer
LEMMA EndsKeep ==
  ASSUME EgressInv, NEW r \in Requests,
         ResolveFails(r) \/ Secured(r) \/ ConnectFails(r) \/ RequestFails(r)
           \/ \E phase \in Over : Responds(r, phase)
  PROVE  EgressInv'
<1>1. UNCHANGED <<aborted, written>>
  BY DEF ResolveFails, Secured, ConnectFails, RequestFails, Responds
<1>2. /\ written' \in [Requests -> SUBSET [to : Addresses, secure : BOOLEAN]]
      /\ WrittenToAllowed' /\ \A p \in Requests : written'[p] = written[p]
  BY <1>1, WrittenStays
<1>3. /\ {"ready", "refused", "answered"} \subseteq EgressPhases
      /\ "ready" \notin Over /\ Over = {"answered", "refused"}
  BY DEF EgressPhases, Over
<1>4. CASE ResolveFails(r)
  <2>1. Moves(r, "refused") /\ socket' = socket /\ request[r].phase = "resolving"
    BY <1>4 DEF ResolveFails
  <2> QED BY <1>1, <1>2, <1>3, <2>1, PhaseMoves
<1>5. CASE Secured(r)
  <2>1. Moves(r, "ready") /\ socket' = socket /\ request[r].phase = "securing" BY <1>5 DEF Secured
  <2> QED BY <1>1, <1>2, <1>3, <2>1, PhaseMoves
<1>6. CASE ConnectFails(r) \/ RequestFails(r)
  <2>1. Moves(r, "refused") /\ Destroys(r) BY <1>6 DEF ConnectFails, RequestFails
  <2> QED BY <1>1, <1>2, <1>3, <2>1, PhaseMoves
<1>7. CASE \E phase \in Over : Responds(r, phase)
  <2>1. PICK phase \in Over : Moves(r, phase) /\ socket' = socket /\ request[r].phase = "written"
    BY <1>7 DEF Responds
  <2>2. /\ phase \in EgressPhases /\ phase \notin {"ready", "written"}
        /\ phase \notin {"idle", "resolving", "connecting", "securing"}
    BY <1>3
  <2>3. written'[r] # {} BY <1>2, <2>1, RequestFacts DEF SocketHeld
  <2> QED BY <1>1, <1>2, <2>1, <2>2, <2>3, PhaseMoves
<1> QED BY <1>4, <1>5, <1>6, <1>7

\* The answer closes.
LEMMA ClosedKeeps ==
  ASSUME EgressInv, NEW r \in Requests, ResponseClosed(r)
  PROVE  EgressInv'
<1> DEFINE k == [socket[r] EXCEPT !.open = FALSE]
<1>1. request[r].phase \in Over /\ Destroys(r) /\ UNCHANGED <<request, aborted, written>>
  BY DEF ResponseClosed
<1>2. /\ written' \in [Requests -> SUBSET [to : Addresses, secure : BOOLEAN]]
      /\ WrittenToAllowed' /\ \A p \in Requests : written'[p] = written[p]
  BY <1>1, WrittenStays
<1>3. /\ request[r] \in [phase : EgressPhases, secure : BOOLEAN, pin : {NoAddress} \cup Addresses]
      /\ k \in [peer : {NoAddress} \cup Addresses, open : BOOLEAN] /\ k.open = FALSE
  BY RequestFacts
<1>4. socket' = [socket EXCEPT ![r] = k] BY <1>1, Zenon DEF Destroys
<1> HIDE DEF k
<1>5. request' = [request EXCEPT ![r] = request[r]] /\ aborted' \in [Requests -> BOOLEAN]
  BY <1>1 DEF EgressInv, EgressTypeOK
<1>6. request[r].phase \notin {"connecting", "securing", "ready", "written"} BY <1>1 DEF Over
<1>7. SocketHeld(request[r], k, written'[r]) BY <1>3, <1>6 DEF SocketHeld
<1> QED BY <1>2, <1>3, <1>4, <1>5, <1>6, <1>7, RequestMoves

\* Every step of a request preserves the invariant.
LEMMA EgressStep == EgressInv /\ [EgressNext]_egressVars => EgressInv'
<1> SUFFICES ASSUME EgressInv, [EgressNext]_egressVars PROVE EgressInv' OBVIOUS
<1>1. CASE UNCHANGED egressVars
  BY <1>1 DEF egressVars, EgressInv, EgressTypeOK, WrittenToAllowed, PinHeld, SocketHeld, Permitted
<1>2. ASSUME NEW r \in Requests, Abort(r)
      PROVE  EgressInv'
  <2>1. UNCHANGED <<request, socket, written>> /\ aborted' = [aborted EXCEPT ![r] = TRUE]
    BY <1>2 DEF Abort
  <2>2. aborted' \in [Requests -> BOOLEAN] BY <2>1 DEF EgressInv, EgressTypeOK
  <2> QED BY <2>1, <2>2 DEF EgressInv, EgressTypeOK, WrittenToAllowed, PinHeld, SocketHeld, Permitted
<1>3. ASSUME NEW r \in Requests, Proceeds(r)
      PROVE  EgressInv'
  BY <1>3, ResolveKeeps, ConnectedKeeps, WriteKeeps, EndsKeep, ClosedKeeps DEF Proceeds
<1>4. ASSUME NEW r \in Requests, \E secure \in BOOLEAN : Fetch(r, secure)
      PROVE  EgressInv'
  BY <1>4, BeginsKeep
<1> QED BY <1>1, <1>2, <1>3, <1>4 DEF EgressNext

\* The invariant of the requests holds in every reachable state.
LEMMA EgressInvHolds == EgressSpec => []EgressInv
BY EgressInitOK, EgressStep, PTL DEF EgressSpec

\* Evidence of the provider is retained once and as the provider holds it, an adoption rests
\* on passing records observed under its own control revision, the scheduler and an adoption
\* exclude each other (retainCommit, retainCI, adoptVerified, existingAttempt), and a request
\* is only ever written to an address the policy allows, one that is not written leaving no
\* open socket (connectPinnedSocket).
THEOREM RemoteIsSound == ProviderSpec => []RemoteSound
BY RemoteInvHolds, RemoteInvTrue, EgressInvHolds, EgressInvTrue, PTL DEF ProviderSpec, RemoteSound

-----------------------------------------------------------------------------
(* The rolling memory: the inductive invariant                             *)
(*                                                                         *)
(* No checkpoint reaches beyond the cursor, what a worker has in hand is an *)
(* interval that is not empty, and a generation of a Room is in the hands   *)
(* of one worker.  What a chain of parents covers is a function that an     *)
(* appended checkpoint extends, and a chain has one such function.          *)

\* A set of numbers that is bounded has a greatest member.
LEMMA Greatest ==
  ASSUME NEW to \in Nat, NEW T \in SUBSET (0..to), T # {}
  PROVE  \E n \in T : \A m \in T : m <= n
<1> DEFINE U == {to - n : n \in T}
           R == {ss \in Nat \X Nat : ss[1] < ss[2]}
<1>1. \A n \in T : to - n \in Nat OBVIOUS
<1>2. U \subseteq Nat /\ U # {} BY <1>1
<1>3. IsWellFoundedOn(R, Nat) BY NatLessThanWellFounded, Zenon DEF OpToRel
<1>4. PICK u \in U : \A v \in U : ~(<<v, u>> \in R)
  <2> HIDE DEF U, R
  <2> QED BY <1>2, <1>3, WFMin
<1>5. \A v \in U : ~(v < u) BY <1>2, <1>4
<1>6. PICK n \in T : u = to - n OBVIOUS
<1>7. \A m \in T : to - m \in U OBVIOUS
<1> HIDE DEF U
<1>8. \A m \in T : m <= n BY <1>5, <1>6, <1>7
<1> QED BY <1>8

\* The interval of a plan ends where it begins or after it, and not beyond its limit.
LEMMA FitsBetween ==
  ASSUME NEW from \in Nat, NEW to \in Nat
  PROVE  FitsThrough(from, to) \in Nat /\ FitsThrough(from, to) >= from
<1> DEFINE fit == Fitting(from, to)
<1>1. fit \subseteq (from + 1)..to BY DEF Fitting
<1> HIDE DEF fit
<1>2. CASE fit = {}
  <2>1. FitsThrough(from, to) = from BY <1>2 DEF FitsThrough, fit
  <2> QED BY <2>1
<1>3. CASE fit # {}
  <2>1. fit \in SUBSET (0..to) BY <1>1
  <2>2. \E n \in fit : \A m \in fit : m <= n BY <1>3, <2>1, Greatest
  <2>3. FitsThrough(from, to) = CHOOSE n \in fit : \A m \in fit : m <= n
    BY <1>3 DEF FitsThrough, fit
  <2>4. FitsThrough(from, to) \in fit BY <2>2, <2>3
  <2>5. FitsThrough(from, to) \in (from + 1)..to BY <1>1, <2>4
  <2> HIDE DEF FitsThrough
  <2> QED BY <2>5
<1> QED BY <1>2, <1>3

\* f says which messages each checkpoint of cs covers with its parents.
Covering(cs, f) ==
  \A i \in 0..Len(cs) :
    f[i] = IF i = 0 THEN {}
           ELSE (IF cs[i].parent < i THEN f[cs[i].parent] ELSE {}) \cup ((cs[i].from + 1)..cs[i].through)

\* The chain behind the latest checkpoint covers what the cursor says.
Covered ==
  \A r \in Rooms : \E f \in [0..Len(ckpts[r]) -> SUBSET Nat] :
    Covering(ckpts[r], f) /\ f[room[r].latest] = 1..room[r].through

\* No checkpoint reaches beyond the cursor.
CheckpointsBelow ==
  \A r \in Rooms : \A i \in 1..Len(ckpts[r]) : ckpts[r][i].through <= room[r].through

\* What a worker between lease and commit has in hand.
InHand ==
  /\ \A w \in Workers : worker[w].at \in {"drain", "reduce"} => worker[w].queue # <<>>
  /\ \A w \in Workers : worker[w].at = "reduce" =>
       /\ worker[w].gen <= room[Head(worker[w].queue)].gen
       /\ worker[w].work.through > worker[w].work.from
       /\ worker[w].work.rebase => worker[w].work.parent = 0

\* A generation of a Room belongs to one worker.
OneReducer ==
  \A v, w \in Workers :
    (/\ worker[v].at = "reduce" /\ worker[w].at = "reduce"
     /\ Head(worker[v].queue) = Head(worker[w].queue) /\ worker[v].gen = worker[w].gen) => v = w

RollingInv ==
  RollingTypeOK /\ ReducedOnce /\ Covered /\ CheckpointsBelow /\ InHand /\ OneReducer

\* A step of the rows that makes no checkpoint: cursors stay, generations grow.
LEMMA RowsKeep ==
  ASSUME RollingInv, UNCHANGED ckpts, room' \in [Rooms -> RoomRows],
         \A r \in Rooms : /\ room'[r].latest = room[r].latest /\ room'[r].through = room[r].through
                          /\ room'[r].desired >= room[r].desired /\ room'[r].gen >= room[r].gen
                          /\ room'[r].expired => room'[r].held
  PROVE  /\ \A r \in Rooms :
              /\ room'[r].through <= room'[r].desired /\ room'[r].latest <= Len(ckpts'[r])
              /\ room'[r].through = 0 <=> room'[r].latest = 0
              /\ room'[r].expired => room'[r].held
         /\ ReducedOnce' /\ Covered' /\ CheckpointsBelow'
<1>1. /\ room \in [Rooms -> RoomRows]
      /\ \A r \in Rooms : /\ room[r].through <= room[r].desired /\ room[r].latest <= Len(ckpts[r])
                          /\ room[r].through = 0 <=> room[r].latest = 0
  BY DEF RollingInv, RollingTypeOK
<1>2. \A r \in Rooms : /\ room[r].through \in Nat /\ room[r].desired \in Int
                       /\ room'[r].desired \in Int
  BY <1>1 DEF RoomRows
<1>3. \A r \in Rooms :
        /\ room'[r].through <= room'[r].desired /\ room'[r].latest <= Len(ckpts'[r])
        /\ room'[r].through = 0 <=> room'[r].latest = 0
  BY <1>1, <1>2
<1>4. ReducedOnce' BY DEF RollingInv, ReducedOnce
<1>5. Covered'
  <2>1. \A r \in Rooms : \E f \in [0..Len(ckpts[r]) -> SUBSET Nat] :
          Covering(ckpts[r], f) /\ f[room[r].latest] = 1..room[r].through
    BY DEF RollingInv, Covered
  <2>2. \A r \in Rooms : \E f \in [0..Len(ckpts'[r]) -> SUBSET Nat] :
          Covering(ckpts'[r], f) /\ f[room'[r].latest] = 1..room'[r].through
    BY <2>1
  <2> QED BY <2>2 DEF Covered, Covering
<1>6. CheckpointsBelow'
  <2>1. \A r \in Rooms : \A i \in 1..Len(ckpts[r]) : ckpts[r][i].through <= room[r].through
    BY DEF RollingInv, CheckpointsBelow
  <2>2. \A r \in Rooms : \A i \in 1..Len(ckpts'[r]) : ckpts'[r][i].through <= room'[r].through
    BY <2>1
  <2> QED BY <2>2 DEF CheckpointsBelow
<1> QED BY <1>3, <1>4, <1>5, <1>6

\* The workers stay while generations grow.
LEMMA WorkersStay ==
  ASSUME RollingInv, UNCHANGED worker, room' \in [Rooms -> RoomRows],
         \A r \in Rooms : room'[r].gen >= room[r].gen
  PROVE  InHand' /\ OneReducer'
<1>1. room \in [Rooms -> RoomRows] /\ worker \in [Workers -> Reducers]
  BY DEF RollingInv, RollingTypeOK
<1>2. \A r \in Rooms : room[r].gen \in Nat /\ room'[r].gen \in Nat BY <1>1 DEF RoomRows
<1>3. ASSUME NEW w \in Workers, worker[w].at = "reduce"
      PROVE  worker[w].gen <= room'[Head(worker[w].queue)].gen
  <2>1. /\ worker[w].queue # <<>> /\ worker[w].gen <= room[Head(worker[w].queue)].gen
    BY <1>3 DEF RollingInv, InHand
  <2>2. worker[w].queue \in Seq(Rooms) /\ worker[w].gen \in Nat BY <1>1 DEF Reducers
  <2> DEFINE h == Head(worker[w].queue)
  <2>3. h \in Rooms BY <2>1, <2>2
  <2>4. worker[w].gen <= room[h].gen BY <2>1
  <2> HIDE DEF h
  <2>5. room'[h].gen >= room[h].gen /\ room[h].gen \in Nat /\ room'[h].gen \in Nat BY <1>2, <2>3
  <2>6. worker[w].gen <= room'[h].gen BY <2>2, <2>4, <2>5
  <2> QED BY <2>6 DEF h
<1>4. InHand' BY <1>3 DEF RollingInv, InHand
<1>5. OneReducer' BY DEF RollingInv, OneReducer
<1> QED BY <1>4, <1>5

\* One worker moves.
LEMMA WorkerMoves ==
  ASSUME RollingInv, NEW w \in Workers, NEW m \in Reducers, worker' = [worker EXCEPT ![w] = m],
         room' \in [Rooms -> RoomRows], \A r \in Rooms : room'[r].gen >= room[r].gen,
         m.at \in {"drain", "reduce"} => m.queue # <<>>,
         m.at = "reduce" =>
           /\ m.gen <= room'[Head(m.queue)].gen
           /\ m.work.through > m.work.from /\ (m.work.rebase => m.work.parent = 0)
           /\ \A v \in Workers : worker[v].at = "reduce" /\ Head(worker[v].queue) = Head(m.queue)
                => v = w \/ worker[v].gen # m.gen
  PROVE  worker' \in [Workers -> Reducers] /\ InHand' /\ OneReducer'
<1>1. room \in [Rooms -> RoomRows] /\ worker \in [Workers -> Reducers]
  BY DEF RollingInv, RollingTypeOK
<1>2. \A r \in Rooms : room[r].gen \in Nat /\ room'[r].gen \in Nat BY <1>1 DEF RoomRows
<1>3. worker' \in [Workers -> Reducers] BY <1>1, Zenon
<1>4. worker'[w] = m /\ \A v \in Workers : v # w => worker'[v] = worker[v] BY <1>1, Zenon
<1>5. ASSUME NEW v \in Workers
      PROVE  /\ worker'[v].at \in {"drain", "reduce"} => worker'[v].queue # <<>>
             /\ worker'[v].at = "reduce" =>
                  /\ worker'[v].gen <= room'[Head(worker'[v].queue)].gen
                  /\ worker'[v].work.through > worker'[v].work.from
                  /\ worker'[v].work.rebase => worker'[v].work.parent = 0
  <2>1. CASE v = w BY <2>1, <1>4
  <2>2. CASE v # w
    <3>1. worker'[v] = worker[v] BY <1>4, <2>2
    <3>2. /\ worker[v].at \in {"drain", "reduce"} => worker[v].queue # <<>>
          /\ worker[v].at = "reduce" =>
               /\ worker[v].gen <= room[Head(worker[v].queue)].gen
               /\ worker[v].work.through > worker[v].work.from
               /\ worker[v].work.rebase => worker[v].work.parent = 0
      BY DEF RollingInv, InHand
    <3>3. worker[v].queue \in Seq(Rooms) /\ worker[v].gen \in Nat BY <1>1 DEF Reducers
    <3>4. worker[v].at = "reduce" => Head(worker[v].queue) \in Rooms BY <3>2, <3>3
    <3>5. worker[v].at = "reduce" => worker[v].gen <= room'[Head(worker[v].queue)].gen
      <4> SUFFICES ASSUME worker[v].at = "reduce"
                   PROVE  worker[v].gen <= room'[Head(worker[v].queue)].gen
        OBVIOUS
      <4> DEFINE h == Head(worker[v].queue)
      <4>1. h \in Rooms /\ worker[v].gen <= room[h].gen BY <3>2, <3>4
      <4> HIDE DEF h
      <4>2. room'[h].gen >= room[h].gen /\ room[h].gen \in Nat /\ room'[h].gen \in Nat BY <1>2, <4>1
      <4>3. worker[v].gen <= room'[h].gen BY <3>3, <4>1, <4>2
      <4> QED BY <4>3 DEF h
    <3> QED BY <3>1, <3>2, <3>5
  <2> QED BY <2>1, <2>2
<1>6. InHand' BY <1>5 DEF InHand
<1>7. OneReducer'
  <2>1. ASSUME NEW v \in Workers, NEW u \in Workers,
               worker'[v].at = "reduce", worker'[u].at = "reduce",
               Head(worker'[v].queue) = Head(worker'[u].queue), worker'[v].gen = worker'[u].gen
        PROVE  v = u
    <3>1. CASE v # w /\ u # w BY <3>1, <2>1, <1>4 DEF RollingInv, OneReducer
    <3>2. CASE v = w /\ u # w BY <3>2, <2>1, <1>4
    <3>3. CASE v # w /\ u = w BY <3>3, <2>1, <1>4
    <3> QED BY <3>1, <3>2, <3>3
  <2> QED BY <2>1 DEF OneReducer
<1> QED BY <1>3, <1>6, <1>7

\* One row changes, and no checkpoint is made.
LEMMA RowChanges ==
  ASSUME RollingInv, NEW r \in Rooms, NEW s \in RoomRows, room' = [room EXCEPT ![r] = s],
         UNCHANGED ckpts, s.latest = room[r].latest, s.through = room[r].through,
         s.desired >= room[r].desired, s.gen >= room[r].gen, s.expired => s.held
  PROVE  /\ room' \in [Rooms -> RoomRows] /\ room'[r] = s
         /\ \A p \in Rooms : room'[p].gen >= room[p].gen
         /\ \A p \in Rooms :
              /\ room'[p].through <= room'[p].desired /\ room'[p].latest <= Len(ckpts'[p])
              /\ room'[p].through = 0 <=> room'[p].latest = 0
              /\ room'[p].expired => room'[p].held
         /\ ReducedOnce' /\ Covered' /\ CheckpointsBelow'
<1>1. room \in [Rooms -> RoomRows] /\ \A p \in Rooms : room[p].expired => room[p].held
  BY DEF RollingInv, RollingTypeOK
<1>2. room' \in [Rooms -> RoomRows] BY <1>1, Zenon
<1>3. room'[r] = s /\ \A p \in Rooms : p # r => room'[p] = room[p] BY <1>1, Zenon
<1>4. \A p \in Rooms : room[p].desired \in Int /\ room[p].gen \in Int BY <1>1 DEF RoomRows
<1>5. \A p \in Rooms :
        /\ room'[p].latest = room[p].latest /\ room'[p].through = room[p].through
        /\ room'[p].desired >= room[p].desired /\ room'[p].gen >= room[p].gen
        /\ room'[p].expired => room'[p].held
  <2> SUFFICES ASSUME NEW p \in Rooms
               PROVE  /\ room'[p].latest = room[p].latest /\ room'[p].through = room[p].through
                      /\ room'[p].desired >= room[p].desired /\ room'[p].gen >= room[p].gen
                      /\ room'[p].expired => room'[p].held
    OBVIOUS
  <2>1. CASE p = r BY <2>1, <1>3
  <2>2. CASE p # r
    <3>1. room'[p] = room[p] BY <2>2, <1>3
    <3> QED BY <3>1, <1>1, <1>4
  <2> QED BY <2>1, <2>2
<1>6. /\ \A p \in Rooms :
           /\ room'[p].through <= room'[p].desired /\ room'[p].latest <= Len(ckpts'[p])
           /\ room'[p].through = 0 <=> room'[p].latest = 0
           /\ room'[p].expired => room'[p].held
      /\ ReducedOnce' /\ Covered' /\ CheckpointsBelow'
  BY <1>2, <1>5, RowsKeep
<1> QED BY <1>2, <1>3, <1>5, <1>6

\* What enable does to a row.
LEMMA WokenRow ==
  ASSUME NEW s \in RoomRows
  PROVE  /\ Woken(s) \in RoomRows
         /\ Woken(s).latest = s.latest /\ Woken(s).through = s.through
         /\ Woken(s).desired = s.desired /\ Woken(s).gen = s.gen
         /\ Woken(s).held = s.held /\ Woken(s).expired = s.expired
<1>1. PICK m \in {"backfilling", "ready"} : Woken(s) = [s EXCEPT !.mode = m, !.cooled = FALSE]
  BY DEF Woken
<1> QED BY <1>1 DEF RoomRows

\* What enableAll does to a row.
LEMMA EnabledRow ==
  ASSUME NEW s \in RoomRows
  PROVE  /\ Enabled(s) \in RoomRows
         /\ Enabled(s).latest = s.latest /\ Enabled(s).through = s.through
         /\ Enabled(s).desired = s.desired /\ Enabled(s).gen = s.gen
         /\ Enabled(s).held = s.held /\ Enabled(s).expired = s.expired
<1>1. Enabled(s) = s \/ Enabled(s) = Woken(s) BY DEF Enabled
<1> QED BY <1>1, WokenRow

\* Messages, enabling, disabling and time change one row.
LEMMA RoomSideKeeps ==
  ASSUME RollingInv, NEW r \in Rooms,
         Message(r) \/ Enable(r) \/ Disable(r) \/ LeaseRunsOut(r) \/ Cool(r)
  PROVE  RollingInv'
<1> DEFINE s == room[r]
<1>1. s \in RoomRows /\ (s.expired => s.held) BY DEF RollingInv, RollingTypeOK
<1>2. UNCHANGED <<ckpts, worker>> BY DEF Message, Enable, Disable, LeaseRunsOut, Cool
<1>3. \E t \in RoomRows :
        /\ room' = [room EXCEPT ![r] = t]
        /\ t.latest = s.latest /\ t.through = s.through /\ t.desired >= s.desired
        /\ t.gen >= s.gen /\ (t.expired => t.held)
  <2>1. CASE Message(r)
    <3> DEFINE t == [s EXCEPT !.desired = @ + 1, !.cooled = FALSE]
    <3>1. room' = [room EXCEPT ![r] = t] BY <2>1, Zenon DEF Message
    <3>2. s.desired + 1 \in 0..MaxMessages BY <1>1, <2>1, MemoryAssumption DEF Message, RoomRows
    <3>3. /\ t \in RoomRows /\ t.latest = s.latest /\ t.through = s.through
          /\ t.desired = s.desired + 1 /\ t.gen = s.gen /\ t.expired = s.expired /\ t.held = s.held
      BY <1>1, <3>2 DEF RoomRows
    <3>4. s.desired \in Int /\ s.gen \in Int BY <1>1 DEF RoomRows
    <3> HIDE DEF t, s
    <3>5. t.desired >= s.desired /\ t.gen >= s.gen BY <3>3, <3>4
    <3> QED BY <3>1, <3>3, <3>5, <1>1
  <2>2. CASE Enable(r)
    <3>1. room' = [room EXCEPT ![r] = Woken(s)] BY <2>2, Zenon DEF Enable
    <3>2. s.desired \in Int /\ s.gen \in Int BY <1>1 DEF RoomRows
    <3> HIDE DEF s
    <3> DEFINE t == Woken(s)
    <3>3. /\ t \in RoomRows /\ t.latest = s.latest /\ t.through = s.through
          /\ t.desired = s.desired /\ t.gen = s.gen /\ t.held = s.held /\ t.expired = s.expired
      BY <1>1, WokenRow
    <3> HIDE DEF t
    <3>4. t.desired >= s.desired /\ t.gen >= s.gen BY <3>2, <3>3
    <3>5. room' = [room EXCEPT ![r] = t] BY <3>1 DEF t
    <3> QED BY <3>3, <3>4, <3>5, <1>1
  <2>3. CASE Disable(r)
    <3> DEFINE t == [s EXCEPT !.mode = "disabled", !.held = FALSE, !.expired = FALSE, !.cooled = FALSE]
    <3>1. room' = [room EXCEPT ![r] = t] BY <2>3, Zenon DEF Disable
    <3>2. /\ t \in RoomRows /\ t.latest = s.latest /\ t.through = s.through
          /\ t.desired = s.desired /\ t.gen = s.gen /\ t.expired = FALSE
      BY <1>1 DEF RoomRows
    <3>3. s.desired \in Int /\ s.gen \in Int BY <1>1 DEF RoomRows
    <3> HIDE DEF t, s
    <3>4. t.desired >= s.desired /\ t.gen >= s.gen BY <3>2, <3>3
    <3> QED BY <3>1, <3>2, <3>4
  <2>4. CASE LeaseRunsOut(r)
    <3> DEFINE t == [s EXCEPT !.expired = TRUE, !.cooled = TRUE]
    <3>1. room' = [room EXCEPT ![r] = t] /\ s.held BY <2>4, Zenon DEF LeaseRunsOut
    <3>2. /\ t \in RoomRows /\ t.latest = s.latest /\ t.through = s.through
          /\ t.desired = s.desired /\ t.gen = s.gen /\ t.held = s.held
      BY <1>1 DEF RoomRows
    <3>3. s.desired \in Int /\ s.gen \in Int BY <1>1 DEF RoomRows
    <3> HIDE DEF t, s
    <3>4. t.desired >= s.desired /\ t.gen >= s.gen BY <3>2, <3>3
    <3> QED BY <3>1, <3>2, <3>4
  <2>5. CASE Cool(r)
    <3> DEFINE t == [s EXCEPT !.cooled = TRUE]
    <3>1. room' = [room EXCEPT ![r] = t] BY <2>5, Zenon DEF Cool
    <3>2. /\ t \in RoomRows /\ t.latest = s.latest /\ t.through = s.through
          /\ t.desired = s.desired /\ t.gen = s.gen /\ t.held = s.held /\ t.expired = s.expired
      BY <1>1 DEF RoomRows
    <3>3. s.desired \in Int /\ s.gen \in Int BY <1>1 DEF RoomRows
    <3> HIDE DEF t, s
    <3>4. t.desired >= s.desired /\ t.gen >= s.gen BY <3>2, <3>3
    <3> QED BY <3>1, <3>2, <3>4, <1>1
  <2> QED BY <2>1, <2>2, <2>3, <2>4, <2>5
<1>4. PICK t \in RoomRows :
        /\ room' = [room EXCEPT ![r] = t]
        /\ t.latest = s.latest /\ t.through = s.through /\ t.desired >= s.desired
        /\ t.gen >= s.gen /\ (t.expired => t.held)
  BY <1>3
<1>5. /\ room' \in [Rooms -> RoomRows]
      /\ \A p \in Rooms : room'[p].gen >= room[p].gen
      /\ \A p \in Rooms :
           /\ room'[p].through <= room'[p].desired /\ room'[p].latest <= Len(ckpts'[p])
           /\ room'[p].through = 0 <=> room'[p].latest = 0
           /\ room'[p].expired => room'[p].held
      /\ ReducedOnce' /\ Covered' /\ CheckpointsBelow'
  BY <1>2, <1>4, RowChanges
<1>6. InHand' /\ OneReducer' BY <1>2, <1>5, WorkersStay
<1>7. RollingTypeOK' BY <1>2, <1>5 DEF RollingInv, RollingTypeOK
<1> QED BY <1>5, <1>6, <1>7 DEF RollingInv

\* A worker that sweeps nothing, and one that goes on with the rest of its queue.
LEMMA AdvanceFacts ==
  ASSUME NEW m \in Reducers, m.queue # <<>>
  PROVE  /\ Resting \in Reducers /\ Resting.at = "idle"
         /\ Advance(m) \in Reducers /\ Advance(m).at \in {"idle", "drain"}
         /\ Advance(m).at = "drain" => Advance(m).queue # <<>>
<1>1. Resting \in Reducers /\ Resting.at = "idle"
  BY DEF Resting, Reducers, Intervals
<1>2. m.queue \in Seq(Rooms) BY DEF Reducers
<1>3. Tail(m.queue) \in Seq(Rooms) BY <1>2
<1>4. CASE Tail(m.queue) = <<>>
  <2>1. Advance(m) = Resting BY <1>4 DEF Advance
  <2> QED BY <1>1, <2>1
<1>5. CASE Tail(m.queue) # <<>>
  <2>1. Advance(m) = [Resting EXCEPT !.at = "drain", !.queue = Tail(m.queue)] BY <1>5 DEF Advance
  <2> DEFINE rest == Tail(m.queue)
  <2>2. rest \in Seq(Rooms) /\ rest # <<>> BY <1>3, <1>5
  <2> HIDE DEF rest
  <2>3. /\ [Resting EXCEPT !.at = "drain", !.queue = rest] \in Reducers
        /\ [Resting EXCEPT !.at = "drain", !.queue = rest].at = "drain"
        /\ [Resting EXCEPT !.at = "drain", !.queue = rest].queue = rest
    BY <1>1, <2>2 DEF Reducers
  <2>4. Advance(m) = [Resting EXCEPT !.at = "drain", !.queue = rest] BY <2>1 DEF rest
  <2>5. Advance(m) \in Reducers /\ Advance(m).at = "drain" /\ Advance(m).queue = rest
    BY <2>3, <2>4, Zenon
  <2> QED BY <1>1, <2>2, <2>5
<1> QED BY <1>1, <1>4, <1>5

\* The rows keep their cursors and a worker comes to rest or goes on with its queue.
LEMMA WorkerLeaves ==
  ASSUME RollingInv, NEW w \in Workers, worker[w].queue # <<>>, UNCHANGED ckpts,
         \/ UNCHANGED room
         \/ \E r \in Rooms, s \in RoomRows :
              /\ room' = [room EXCEPT ![r] = s]
              /\ s.latest = room[r].latest /\ s.through = room[r].through
              /\ s.desired = room[r].desired /\ s.gen >= room[r].gen /\ (s.expired => s.held),
         \/ worker' = [worker EXCEPT ![w] = Resting]
         \/ worker' = [worker EXCEPT ![w] = Advance(@)]
  PROVE  RollingInv'
<1>1. room \in [Rooms -> RoomRows] /\ worker[w] \in Reducers BY DEF RollingInv, RollingTypeOK
<1>2. /\ room' \in [Rooms -> RoomRows]
      /\ \A p \in Rooms : room'[p].gen >= room[p].gen
      /\ \A p \in Rooms :
           /\ room'[p].through <= room'[p].desired /\ room'[p].latest <= Len(ckpts'[p])
           /\ room'[p].through = 0 <=> room'[p].latest = 0
           /\ room'[p].expired => room'[p].held
      /\ ReducedOnce' /\ Covered' /\ CheckpointsBelow'
  <2>1. CASE UNCHANGED room
    <3>1. \A p \in Rooms : room[p].gen \in Int /\ room[p].desired \in Int /\ room'[p] = room[p]
      BY <1>1, <2>1 DEF RoomRows
    <3>2. \A p \in Rooms : room'[p].gen >= room[p].gen /\ room'[p].desired >= room[p].desired
      BY <3>1
    <3>3. \A p \in Rooms : /\ room'[p].latest = room[p].latest /\ room'[p].through = room[p].through
                           /\ room'[p].expired => room'[p].held
      BY <2>1 DEF RollingInv, RollingTypeOK
    <3>4. room' \in [Rooms -> RoomRows] BY <1>1, <2>1
    <3>5. \A p \in Rooms : /\ room'[p].latest = room[p].latest /\ room'[p].through = room[p].through
                           /\ room'[p].desired >= room[p].desired /\ room'[p].gen >= room[p].gen
                           /\ room'[p].expired => room'[p].held
      BY <3>2, <3>3
    <3>6. /\ \A p \in Rooms :
               /\ room'[p].through <= room'[p].desired /\ room'[p].latest <= Len(ckpts'[p])
               /\ room'[p].through = 0 <=> room'[p].latest = 0
               /\ room'[p].expired => room'[p].held
          /\ ReducedOnce' /\ Covered' /\ CheckpointsBelow'
      BY <3>4, <3>5, RowsKeep
    <3> QED BY <3>2, <3>4, <3>6
  <2>2. CASE ~UNCHANGED room
    <3>1. PICK r \in Rooms, s \in RoomRows :
            /\ room' = [room EXCEPT ![r] = s]
            /\ s.latest = room[r].latest /\ s.through = room[r].through
            /\ s.desired = room[r].desired /\ s.gen >= room[r].gen /\ (s.expired => s.held)
      BY <2>2
    <3>2. room[r].desired \in Int BY <1>1 DEF RoomRows
    <3>3. s.desired >= room[r].desired BY <3>1, <3>2
    <3> QED BY <3>1, <3>3, RowChanges
  <2> QED BY <2>1, <2>2
<1>3. PICK m \in Reducers : /\ worker' = [worker EXCEPT ![w] = m] /\ m.at \in {"idle", "drain"}
                            /\ m.at = "drain" => m.queue # <<>>
  <2>1. CASE worker' = [worker EXCEPT ![w] = Resting] BY <1>1, <2>1, AdvanceFacts
  <2>2. CASE worker' = [worker EXCEPT ![w] = Advance(@)]
    <3>1. worker' = [worker EXCEPT ![w] = Advance(worker[w])] BY <2>2, Zenon
    <3> QED BY <1>1, <3>1, AdvanceFacts
  <2> QED BY <2>1, <2>2
<1>4. m.at # "reduce" /\ (m.at \in {"drain", "reduce"} => m.queue # <<>>) BY <1>3
<1>5. worker' \in [Workers -> Reducers] /\ InHand' /\ OneReducer'
  BY <1>2, <1>3, <1>4, WorkerMoves
<1>6. RollingTypeOK' BY <1>2, <1>5 DEF RollingInv, RollingTypeOK
<1> QED BY <1>2, <1>5, <1>6 DEF RollingInv

\* What a lease and a recorded failure do to a row.
LEMMA LeasedRow ==
  ASSUME NEW s \in RoomRows
  PROVE  /\ Leased(s) \in RoomRows
         /\ Leased(s).latest = s.latest /\ Leased(s).through = s.through
         /\ Leased(s).desired = s.desired /\ Leased(s).gen = s.gen + 1
         /\ Leased(s).held = TRUE /\ Leased(s).expired = FALSE
<1>1. s.gen + 1 \in Nat BY DEF RoomRows
<1> QED BY <1>1 DEF Leased, RoomRows

\* A recorded failure keeps the generation and the cursor, and gives the lease up.
LEMMA FailedRow ==
  ASSUME NEW s \in RoomRows
  PROVE  /\ Failed(s) \in RoomRows
         /\ Failed(s).latest = s.latest /\ Failed(s).through = s.through
         /\ Failed(s).desired = s.desired /\ Failed(s).gen = s.gen
         /\ Failed(s).held = FALSE /\ Failed(s).expired = FALSE
BY DEF Failed, RoomRows

\* A worker in hand has a Room at the head of its queue.
LEMMA HeadRoom ==
  ASSUME RollingInv, NEW w \in Workers, worker[w].at \in {"drain", "reduce"}
  PROVE  /\ worker[w] \in Reducers /\ worker[w].queue # <<>> /\ Head(worker[w].queue) \in Rooms
         /\ room[Head(worker[w].queue)] \in RoomRows
<1>1. worker[w] \in Reducers /\ room \in [Rooms -> RoomRows] BY DEF RollingInv, RollingTypeOK
<1>2. worker[w].queue \in Seq(Rooms) BY <1>1 DEF Reducers
<1>3. worker[w].queue # <<>> BY DEF RollingInv, InHand
<1>4. Head(worker[w].queue) \in Rooms BY <1>2, <1>3
<1> QED BY <1>1, <1>3, <1>4

\* A worker whose reduction failed, and one whose process dies.
LEMMA FailureKeeps ==
  ASSUME RollingInv, NEW w \in Workers, worker[w].at = "reduce", UNCHANGED ckpts,
         RecordFailure(w) \/ (worker' = [worker EXCEPT ![w] = Resting] /\ UNCHANGED room)
  PROVE  RollingInv'
<1> DEFINE r == Head(worker[w].queue)
<1>1. worker[w].queue # <<>> /\ r \in Rooms /\ room[r] \in RoomRows BY HeadRoom
<1>2. CASE RecordFailure(w) /\ MayFail(room[r], worker[w].gen)
  <2>1. /\ room' = [room EXCEPT ![r] = Failed(room[r])]
        /\ worker' = [worker EXCEPT ![w] = Advance(@)]
    BY <1>2, Zenon DEF RecordFailure
  <2> HIDE DEF r
  <2> DEFINE s == Failed(room[r])
  <2>2. /\ s \in RoomRows /\ s.latest = room[r].latest /\ s.through = room[r].through
        /\ s.desired = room[r].desired /\ s.gen = room[r].gen /\ s.expired = FALSE
    BY <1>1, FailedRow
  <2>3. room' = [room EXCEPT ![r] = s] BY <2>1
  <2> HIDE DEF s
  <2>4. room[r].gen \in Int BY <1>1 DEF RoomRows
  <2>5. s.gen >= room[r].gen BY <2>2, <2>4
  <2>6. \E p \in Rooms, t \in RoomRows :
          /\ room' = [room EXCEPT ![p] = t]
          /\ t.latest = room[p].latest /\ t.through = room[p].through
          /\ t.desired = room[p].desired /\ t.gen >= room[p].gen /\ (t.expired => t.held)
    BY <1>1, <2>2, <2>3, <2>5
  <2> QED BY <1>1, <2>1, <2>6, WorkerLeaves
<1>3. CASE ~(RecordFailure(w) /\ MayFail(room[r], worker[w].gen))
  <2>1. worker' = [worker EXCEPT ![w] = Resting] /\ UNCHANGED room
    BY <1>3 DEF RecordFailure
  <2> HIDE DEF r
  <2> QED BY <1>1, <2>1, WorkerLeaves
<1> QED BY <1>2, <1>3

\* The work a lease plans: an interval, and a rebase continues nothing.
LEMMA PlanFacts ==
  ASSUME NEW s \in RoomRows, NEW rebase \in BOOLEAN
  PROVE  /\ PlanWork(s, rebase) \in Intervals
         /\ PlanWork(s, rebase).rebase = rebase
         /\ rebase => PlanWork(s, rebase).parent = 0
         /\ ~PlanThrows(s, PlanWork(s, rebase))
              => PlanWork(s, rebase).through > PlanWork(s, rebase).from
<1> DEFINE from == IF rebase THEN 0 ELSE s.through
           parent == IF rebase THEN 0 ELSE s.latest
           limit == Lesser(s.desired, from + (IF rebase THEN RebaseLimit ELSE Limit))
           to == FitsThrough(from, limit)
<1>1. /\ s.through \in Nat /\ s.latest \in Nat /\ s.desired \in Nat BY DEF RoomRows
<1>2. from \in Nat /\ parent \in Nat /\ (rebase => parent = 0) BY <1>1
<1>3. (IF rebase THEN RebaseLimit ELSE Limit) \in Nat BY MemoryAssumption
<1>4. limit \in Nat BY <1>1, <1>2, <1>3 DEF Lesser
<1>5. PlanWork(s, rebase) = [parent |-> parent, from |-> from, through |-> to, rebase |-> rebase]
  BY Zenon DEF PlanWork
<1> HIDE DEF from, parent, limit
<1>6. to \in Nat /\ to >= from BY <1>2, <1>4, FitsBetween
<1> HIDE DEF to
<1>7. PlanWork(s, rebase) \in Intervals BY <1>2, <1>5, <1>6 DEF Intervals
<1>8. /\ PlanWork(s, rebase).rebase = rebase /\ PlanWork(s, rebase).parent = parent
      /\ PlanWork(s, rebase).through = to /\ PlanWork(s, rebase).from = from
  BY <1>5
<1>9. ~PlanThrows(s, PlanWork(s, rebase)) => to # from BY <1>8 DEF PlanThrows
<1> QED BY <1>2, <1>6, <1>7, <1>8, <1>9

\* drainRoom up to its await.
LEMMA DrainKeeps ==
  ASSUME RollingInv, NEW w \in Workers, NEW rebase \in BOOLEAN, Drain(w, rebase)
  PROVE  RollingInv'
<1> DEFINE r == Head(worker[w].queue)
           s == Leased(room[r])
           work == PlanWork(s, rebase)
<1>1. worker[w].at = "drain" /\ UNCHANGED ckpts BY DEF Drain
<1>2. /\ worker[w] \in Reducers /\ worker[w].queue # <<>>
      /\ r \in Rooms /\ room[r] \in RoomRows
  BY <1>1, HeadRoom
<1>3. \/ worker' = [worker EXCEPT ![w] = Advance(@)] /\ UNCHANGED room
      \/ room' = [room EXCEPT ![r] = Failed(s)] /\ worker' = [worker EXCEPT ![w] = Advance(@)]
      \/ /\ ~PlanThrows(s, work) /\ room' = [room EXCEPT ![r] = s]
         /\ worker' = [worker EXCEPT ![w].at = "reduce", ![w].gen = s.gen, ![w].work = work]
  BY Zenon DEF Drain
<1>4. room[r].gen \in Nat BY <1>2 DEF RoomRows
<1>5. /\ s \in RoomRows /\ s.latest = room[r].latest /\ s.through = room[r].through
      /\ s.desired = room[r].desired /\ s.gen = room[r].gen + 1 /\ s.expired = FALSE
  <2> HIDE DEF r
  <2> QED BY <1>2, LeasedRow
<1>6. CASE worker' = [worker EXCEPT ![w] = Advance(@)] /\ UNCHANGED room
  BY <1>1, <1>2, <1>6, WorkerLeaves
<1>7. CASE room' = [room EXCEPT ![r] = Failed(s)] /\ worker' = [worker EXCEPT ![w] = Advance(@)]
  <2> HIDE DEF r, s
  <2> DEFINE t == Failed(s)
  <2>1. /\ t \in RoomRows /\ t.latest = room[r].latest /\ t.through = room[r].through
        /\ t.desired = room[r].desired /\ t.gen = room[r].gen + 1 /\ t.expired = FALSE
    BY <1>5, FailedRow
  <2>2. room' = [room EXCEPT ![r] = t] BY <1>7
  <2> HIDE DEF t
  <2>3. t.gen >= room[r].gen BY <1>4, <2>1
  <2>4. \E p \in Rooms, u \in RoomRows :
          /\ room' = [room EXCEPT ![p] = u]
          /\ u.latest = room[p].latest /\ u.through = room[p].through
          /\ u.desired = room[p].desired /\ u.gen >= room[p].gen /\ (u.expired => u.held)
    BY <1>2, <2>1, <2>2, <2>3
  <2> QED BY <1>1, <1>2, <1>7, <2>4, WorkerLeaves
<1>8. CASE /\ ~PlanThrows(s, work) /\ room' = [room EXCEPT ![r] = s]
           /\ worker' = [worker EXCEPT ![w].at = "reduce", ![w].gen = s.gen, ![w].work = work]
  <2> DEFINE m == [worker[w] EXCEPT !.at = "reduce", !.gen = s.gen, !.work = work]
  <2>1. worker' = [worker EXCEPT ![w] = m] BY <1>8, Zenon
  <2>2. /\ work \in Intervals /\ work.rebase = rebase /\ (rebase => work.parent = 0)
        /\ work.through > work.from
    <3> HIDE DEF s
    <3> QED BY <1>5, <1>8, PlanFacts
  <2>3. s.gen \in Nat BY <1>5 DEF RoomRows
  <2> HIDE DEF s, work
  <2>4. /\ m \in Reducers /\ m.at = "reduce" /\ m.queue = worker[w].queue
        /\ m.gen = s.gen /\ m.work = work
    BY <1>2, <2>2, <2>3 DEF Reducers
  <2>5. Head(m.queue) = r BY <2>4
  <2> HIDE DEF m
  <2>6. \A v \in Workers : worker[v].at = "reduce" /\ Head(worker[v].queue) = r
          => worker[v].gen # s.gen
    <3> SUFFICES ASSUME NEW v \in Workers, worker[v].at = "reduce", Head(worker[v].queue) = r
                 PROVE  worker[v].gen # s.gen
      OBVIOUS
    <3>1. worker[v].gen <= room[r].gen BY DEF RollingInv, InHand
    <3>2. worker[v] \in Reducers BY DEF RollingInv, RollingTypeOK
    <3>3. worker[v].gen \in Nat BY <3>2 DEF Reducers
    <3> HIDE DEF r
    <3> QED BY <1>4, <1>5, <3>1, <3>3
  <2> HIDE DEF r
  <2>7. s.desired >= room[r].desired /\ s.gen >= room[r].gen
    <3>1. room[r].desired \in Int BY <1>2 DEF RoomRows
    <3> QED BY <1>4, <1>5, <3>1
  <2>8. /\ room' \in [Rooms -> RoomRows] /\ room'[r] = s
        /\ \A p \in Rooms : room'[p].gen >= room[p].gen
        /\ \A p \in Rooms :
             /\ room'[p].through <= room'[p].desired /\ room'[p].latest <= Len(ckpts'[p])
             /\ room'[p].through = 0 <=> room'[p].latest = 0
             /\ room'[p].expired => room'[p].held
        /\ ReducedOnce' /\ Covered' /\ CheckpointsBelow'
    BY <1>1, <1>2, <1>5, <1>8, <2>7, RowChanges
  <2>9. /\ m.at \in {"drain", "reduce"} => m.queue # <<>>
        /\ m.gen <= room'[Head(m.queue)].gen
        /\ m.work.through > m.work.from /\ (m.work.rebase => m.work.parent = 0)
        /\ \A v \in Workers : worker[v].at = "reduce" /\ Head(worker[v].queue) = Head(m.queue)
             => v = w \/ worker[v].gen # m.gen
    <3>1. room'[Head(m.queue)] = s BY <2>5, <2>8
    <3>2. m.gen <= room'[Head(m.queue)].gen BY <2>3, <2>4, <3>1
    <3> QED BY <1>2, <2>2, <2>4, <2>5, <2>6, <3>2
  <2>10. worker' \in [Workers -> Reducers] /\ InHand' /\ OneReducer'
    BY <2>1, <2>4, <2>8, <2>9, WorkerMoves
  <2>11. RollingTypeOK' BY <1>1, <2>8, <2>10 DEF RollingInv, RollingTypeOK
  <2> QED BY <2>8, <2>10, <2>11 DEF RollingInv
<1> QED BY <1>3, <1>6, <1>7, <1>8

\* The queue of a sweep is a sequence of Rooms.
LEMMA SweepQueue ==
  ASSUME NEW rows, NEW q \in SweepOrders(rows)
  PROVE  q \in Seq(Rooms)
<1>1. PICK listed \in Listings(rows) : q \in OrdersOf(rows, listed) BY Zenon DEF SweepOrders
<1>2. listed \subseteq Rooms BY Zenon DEF Listings
<1> DEFINE eligible == {r \in listed : rows[r].mode # "degraded" \/ rows[r].cooled}
<1>3. \E p \in SetToSeqs(eligible) : q = SubSeq(p, 1, Lesser(Len(p), SweepLimit))
  BY <1>1, Zenon DEF OrdersOf
<1>4. eligible \subseteq Rooms BY <1>2
<1> HIDE DEF eligible
<1>5. Cardinality(eligible) \in Nat BY <1>4, MemoryAssumption, FS_Subset, FS_CardinalityType
<1>6. PICK p \in SetToSeqs(eligible) : q = SubSeq(p, 1, Lesser(Len(p), SweepLimit)) BY <1>3
<1>7. p \in [1..Cardinality(eligible) -> eligible] BY <1>6 DEF SetToSeqs
<1>8. p \in Seq(Rooms) BY <1>4, <1>5, <1>7
<1>9. Len(p) \in Nat /\ SweepLimit \in Nat BY <1>8, MemoryAssumption
<1>10. Lesser(Len(p), SweepLimit) \in 0..Len(p) BY <1>9 DEF Lesser
<1> QED BY <1>6, <1>8, <1>10

\* A sweep enables the Rooms and takes up its queue.
LEMMA SweepKeeps ==
  ASSUME RollingInv, NEW w \in Workers, Sweep(w)
  PROVE  RollingInv'
<1>1. PICK q \in SweepOrders([r \in Rooms |-> Enabled(room[r])]) :
        /\ q # <<>> /\ room' = [r \in Rooms |-> Enabled(room[r])]
        /\ worker' = [worker EXCEPT ![w].at = "drain", ![w].queue = q]
  BY DEF Sweep
<1>2. q \in Seq(Rooms) BY SweepQueue
<1>3. UNCHANGED ckpts BY DEF Sweep
<1>4. /\ room \in [Rooms -> RoomRows] /\ worker[w] \in Reducers
      /\ \A r \in Rooms : room[r].expired => room[r].held
  BY DEF RollingInv, RollingTypeOK
<1>5. \A r \in Rooms : room'[r] = Enabled(room[r]) BY <1>1
<1>6. \A r \in Rooms : /\ room'[r] \in RoomRows
                       /\ room'[r].latest = room[r].latest /\ room'[r].through = room[r].through
                       /\ room'[r].desired = room[r].desired /\ room'[r].gen = room[r].gen
                       /\ room'[r].expired => room'[r].held
  <2> SUFFICES ASSUME NEW r \in Rooms
               PROVE  /\ room'[r] \in RoomRows
                      /\ room'[r].latest = room[r].latest /\ room'[r].through = room[r].through
                      /\ room'[r].desired = room[r].desired /\ room'[r].gen = room[r].gen
                      /\ room'[r].expired => room'[r].held
    OBVIOUS
  <2>1. room[r] \in RoomRows /\ (room[r].expired => room[r].held) BY <1>4
  <2> QED BY <1>5, <2>1, EnabledRow
<1>7. room' \in [Rooms -> RoomRows]
  <2>1. \A r \in Rooms : Enabled(room[r]) \in RoomRows BY <1>5, <1>6
  <2> QED BY <1>1, <2>1
<1>8. \A r \in Rooms : room[r].desired \in Int /\ room[r].gen \in Int BY <1>4 DEF RoomRows
<1>9. \A r \in Rooms : room'[r].desired >= room[r].desired /\ room'[r].gen >= room[r].gen
  BY <1>6, <1>8
<1>10. /\ \A r \in Rooms :
            /\ room'[r].through <= room'[r].desired /\ room'[r].latest <= Len(ckpts'[r])
            /\ room'[r].through = 0 <=> room'[r].latest = 0
            /\ room'[r].expired => room'[r].held
       /\ ReducedOnce' /\ Covered' /\ CheckpointsBelow'
  BY <1>3, <1>6, <1>7, <1>9, RowsKeep
<1> DEFINE m == [worker[w] EXCEPT !.at = "drain", !.queue = q]
<1>11. worker' = [worker EXCEPT ![w] = m] BY <1>1, Zenon
<1>12. m \in Reducers /\ m.at = "drain" /\ m.queue = q BY <1>2, <1>4 DEF Reducers
<1> HIDE DEF m
<1>13. m.at # "reduce" /\ m.queue # <<>> BY <1>1, <1>12
<1>14. worker' \in [Workers -> Reducers] /\ InHand' /\ OneReducer'
  BY <1>7, <1>9, <1>11, <1>12, <1>13, WorkerMoves
<1>15. RollingTypeOK' BY <1>3, <1>7, <1>10, <1>14 DEF RollingInv, RollingTypeOK
<1> QED BY <1>10, <1>14, <1>15 DEF RollingInv

\* Rooms begin without work and without checkpoints.
LEMMA RollingInitOK == RollingInit => RollingInv
<1> SUFFICES ASSUME RollingInit PROVE RollingInv OBVIOUS
<1> DEFINE s == [mode |-> "disabled", latest |-> 0, through |-> 0, desired |-> 0,
                 gen |-> 0, held |-> FALSE, expired |-> FALSE, cooled |-> TRUE]
<1>1. 0 \in 0..MaxMessages BY MemoryAssumption
<1>2. s \in RoomRows BY <1>1 DEF RoomRows
<1>3. /\ room \in [Rooms -> RoomRows] /\ \A r \in Rooms : room[r] = s
  BY <1>2 DEF RollingInit
<1>4. ckpts \in [Rooms -> Seq(Intervals)] /\ \A r \in Rooms : ckpts[r] = <<>> /\ Len(ckpts[r]) = 0
  BY DEF RollingInit
<1>5. Resting \in Reducers /\ Resting.at = "idle" BY DEF Resting, Reducers, Intervals
<1>6. worker \in [Workers -> Reducers] /\ \A w \in Workers : worker[w].at = "idle"
  BY <1>5 DEF RollingInit
<1>7. \A r \in Rooms : /\ room[r].latest = 0 /\ room[r].through = 0 /\ room[r].desired = 0
                       /\ room[r].expired = FALSE
  BY <1>3
<1>8. RollingTypeOK BY <1>3, <1>4, <1>6, <1>7 DEF RollingTypeOK
<1>9. ReducedOnce /\ CheckpointsBelow BY <1>4 DEF ReducedOnce, CheckpointsBelow
<1>10. InHand /\ OneReducer BY <1>6 DEF InHand, OneReducer
<1>11. Covered
  <2> SUFFICES ASSUME NEW r \in Rooms
               PROVE  \E f \in [0..Len(ckpts[r]) -> SUBSET Nat] :
                        Covering(ckpts[r], f) /\ f[room[r].latest] = 1..room[r].through
    BY DEF Covered
  <2> DEFINE f == [i \in 0..0 |-> {}]
  <2>1. f \in [0..Len(ckpts[r]) -> SUBSET Nat] /\ f[0] = {} BY <1>4
  <2>2. Covering(ckpts[r], f) BY <1>4 DEF Covering
  <2>3. f[room[r].latest] = 1..room[r].through BY <1>7
  <2> QED BY <2>1, <2>2, <2>3
<1> QED BY <1>8, <1>9, <1>10, <1>11 DEF RollingInv

\* A checkpoint appended to a chain extends what it covers.
LEMMA CoveringGrows ==
  ASSUME NEW cs \in Seq(Intervals), NEW c \in Intervals, c.parent <= Len(cs),
         NEW f \in [0..Len(cs) -> SUBSET Nat], Covering(cs, f)
  PROVE  \E g \in [0..Len(Append(cs, c)) -> SUBSET Nat] :
           /\ Covering(Append(cs, c), g)
           /\ g[Len(cs) + 1] = f[c.parent] \cup ((c.from + 1)..c.through)
<1> DEFINE n == Len(cs) + 1
           ds == Append(cs, c)
           new == f[c.parent] \cup ((c.from + 1)..c.through)
           g == [i \in 0..n |-> IF i = n THEN new ELSE f[i]]
<1>1. Len(cs) \in Nat /\ n \in Nat /\ Len(ds) = n /\ ds[n] = c BY DEF n
<1>2. \A i \in 1..Len(cs) : ds[i] = cs[i] /\ cs[i] \in Intervals OBVIOUS
<1>3. c.parent \in Nat /\ c.from \in Nat /\ c.through \in Nat BY DEF Intervals
<1>4. c.parent \in 0..Len(cs) BY <1>1, <1>3
<1>5. new \in SUBSET Nat BY <1>3, <1>4
<1> HIDE DEF new, ds, n
<1>6. n = Len(cs) + 1 BY DEF n
<1>7. \A i \in 0..n : i # n => i \in 0..Len(cs) BY <1>1, <1>6
<1>8. g \in [0..n -> SUBSET Nat] BY <1>5, <1>7
<1>9. g[n] = new /\ \A i \in 0..Len(cs) : g[i] = f[i]
  <2>1. n \in 0..n BY <1>1
  <2>2. \A i \in 0..Len(cs) : i \in 0..n /\ i # n BY <1>1, <1>6
  <2> QED BY <2>1, <2>2
<1> HIDE DEF g
<1>10. ASSUME NEW i \in 0..n
       PROVE  g[i] = IF i = 0 THEN {}
                     ELSE (IF ds[i].parent < i THEN g[ds[i].parent] ELSE {})
                            \cup ((ds[i].from + 1)..ds[i].through)
  <2>1. CASE i = 0
    <3>1. 0 \in 0..Len(cs) BY <1>1
    <3>2. f[0] = {} BY <3>1 DEF Covering
    <3> QED BY <2>1, <3>1, <3>2, <1>9
  <2>2. CASE i = n
    <3>1. i # 0 /\ c.parent < i BY <1>1, <1>4, <1>6, <2>2
    <3>2. g[c.parent] = f[c.parent] BY <1>4, <1>9
    <3>3. g[i] = g[c.parent] \cup ((c.from + 1)..c.through) BY <3>2, <2>2, <1>9 DEF new
    <3> QED BY <3>1, <3>3, <2>2, <1>1
  <2>3. CASE i # 0 /\ i # n
    <3>1. i \in 1..Len(cs) /\ i \in 0..Len(cs) BY <1>1, <1>6, <2>3
    <3>2. ds[i] = cs[i] /\ g[i] = f[i] /\ cs[i].parent \in Nat BY <1>2, <1>9, <3>1 DEF Intervals
    <3>3. f[i] = (IF cs[i].parent < i THEN f[cs[i].parent] ELSE {})
                   \cup ((cs[i].from + 1)..cs[i].through)
      BY <2>3, <3>1 DEF Covering
    <3>4. cs[i].parent < i => g[cs[i].parent] = f[cs[i].parent]
      <4>1. cs[i].parent < i => cs[i].parent \in 0..Len(cs) BY <1>1, <3>1, <3>2
      <4> QED BY <4>1, <1>9
    <3> QED BY <2>3, <3>2, <3>3, <3>4
  <2> QED BY <2>1, <2>2, <2>3
<1>11. Covering(ds, g) BY <1>1, <1>10 DEF Covering
<1>12. g[Len(cs) + 1] = f[c.parent] \cup ((c.from + 1)..c.through) BY <1>6, <1>9 DEF new
<1>13. g \in [0..Len(ds) -> SUBSET Nat] BY <1>1, <1>8
<1> QED BY <1>11, <1>12, <1>13 DEF ds

\* What a commit does to a row.
LEMMA CommittedRow ==
  ASSUME NEW s \in RoomRows, NEW c \in Intervals, NEW id \in Nat
  PROVE  /\ Committed(s, c, id) \in RoomRows
         /\ Committed(s, c, id).latest = id /\ Committed(s, c, id).through = c.through
         /\ Committed(s, c, id).desired = s.desired /\ Committed(s, c, id).gen = s.gen
         /\ Committed(s, c, id).held = FALSE /\ Committed(s, c, id).expired = FALSE
<1> DEFINE x == c.through
<1>1. x \in Nat BY DEF Intervals
<1> HIDE DEF x
<1>2. Committed(s, c, id) = [s EXCEPT !.mode = "ready", !.latest = id, !.through = x,
                              !.held = FALSE, !.expired = FALSE, !.cooled = FALSE]
  BY DEF Committed, x
<1> DEFINE t == [s EXCEPT !.mode = "ready", !.latest = id, !.through = x,
                          !.held = FALSE, !.expired = FALSE, !.cooled = FALSE]
<1>3. /\ t \in RoomRows /\ t.latest = id /\ t.through = x /\ t.desired = s.desired
      /\ t.gen = s.gen /\ t.held = FALSE /\ t.expired = FALSE
  BY <1>1 DEF RoomRows
<1> HIDE DEF t
<1>4. Committed(s, c, id) = t BY <1>2 DEF t
<1> QED BY <1>3, <1>4 DEF x

\* The interval a commit adds to a Room: it begins where the chain it continues ends.
LEMMA CommitInterval ==
  ASSUME RollingInv, NEW w \in Workers, worker[w].at = "reduce", NEW r \in Rooms,
         r = Head(worker[w].queue), CommitAllowed(room[r], worker[w].gen, worker[w].work)
  PROVE  /\ worker[w].work \in Intervals
         /\ worker[w].work.through > 0
         /\ worker[w].work.through >= room[r].through /\ worker[w].work.through <= room[r].desired
         /\ worker[w].work.parent <= Len(ckpts[r])
         /\ ~worker[w].work.rebase => worker[w].work.from = room[r].through
         /\ \E g \in [0..Len(Append(ckpts[r], worker[w].work)) -> SUBSET Nat] :
              /\ Covering(Append(ckpts[r], worker[w].work), g)
              /\ g[Len(ckpts[r]) + 1] = 1..worker[w].work.through
<1> DEFINE c == worker[w].work
           s == room[r]
           cs == ckpts[r]
<1>1. /\ worker[w] \in Reducers /\ s \in RoomRows /\ cs \in Seq(Intervals)
      /\ s.latest <= Len(cs)
  BY DEF RollingInv, RollingTypeOK
<1>2. c \in Intervals BY <1>1 DEF Reducers
<1>3. c.through > c.from /\ (c.rebase => c.parent = 0) BY DEF RollingInv, InHand
<1>4. /\ c.through \in s.through .. s.desired
      /\ c.rebase => c.from = 0
      /\ ~c.rebase => c.parent = s.latest /\ c.from = s.through
  BY DEF CommitAllowed
<1>5. PICK f \in [0..Len(cs) -> SUBSET Nat] : Covering(cs, f) /\ f[s.latest] = 1..s.through
  BY DEF RollingInv, Covered
<1> HIDE DEF c, s, cs
<1>6. /\ c.parent \in Nat /\ c.from \in Nat /\ c.through \in Nat /\ c.rebase \in BOOLEAN
      /\ s.through \in Nat /\ s.desired \in Int /\ s.latest \in Nat /\ Len(cs) \in Nat
  BY <1>1, <1>2 DEF Intervals, RoomRows
<1>7. c.through > 0 /\ c.through >= s.through /\ c.through <= s.desired BY <1>3, <1>4, <1>6
<1>8. c.parent <= Len(cs) BY <1>1, <1>3, <1>4, <1>6
<1>9. PICK g \in [0..Len(Append(cs, c)) -> SUBSET Nat] :
        /\ Covering(Append(cs, c), g)
        /\ g[Len(cs) + 1] = f[c.parent] \cup ((c.from + 1)..c.through)
  BY <1>1, <1>2, <1>5, <1>8, CoveringGrows
<1>10. f[c.parent] \cup ((c.from + 1)..c.through) = 1..c.through
  <2>1. CASE c.rebase
    <3>1. c.parent = 0 /\ c.from = 0 BY <2>1, <1>3, <1>4
    <3>2. 0 \in 0..Len(cs) BY <1>6
    <3>3. f[0] = {} BY <1>5, <3>2 DEF Covering
    <3>4. f[c.parent] = {} /\ (c.from + 1)..c.through = 1..c.through BY <3>1, <3>3
    <3> QED BY <3>4
  <2>2. CASE ~c.rebase
    <3>1. f[c.parent] = 1..s.through /\ c.from = s.through BY <2>2, <1>4, <1>5
    <3>2. (1..s.through) \cup ((s.through + 1)..c.through) = 1..c.through BY <1>6, <1>7
    <3> QED BY <3>1, <3>2
  <2> QED BY <2>1, <2>2
<1>11. g[Len(cs) + 1] = 1..c.through BY <1>9, <1>10
<1>12. \E h \in [0..Len(Append(cs, c)) -> SUBSET Nat] :
         Covering(Append(cs, c), h) /\ h[Len(cs) + 1] = 1..c.through
  BY <1>9, <1>11
<1> QED BY <1>2, <1>4, <1>7, <1>8, <1>12, Zenon DEF c, s, cs

\* A worker goes on with its queue while generations grow.
LEMMA WorkerGoesOn ==
  ASSUME RollingInv, NEW w \in Workers, worker[w].queue # <<>>,
         worker' = [worker EXCEPT ![w] = Advance(worker[w])],
         room' \in [Rooms -> RoomRows], \A r \in Rooms : room'[r].gen >= room[r].gen
  PROVE  worker' \in [Workers -> Reducers] /\ InHand' /\ OneReducer'
<1>1. worker[w] \in Reducers BY DEF RollingInv, RollingTypeOK
<1>2. PICK m \in Reducers : /\ worker' = [worker EXCEPT ![w] = m] /\ m.at \in {"idle", "drain"}
                            /\ m.at = "drain" => m.queue # <<>>
  BY <1>1, AdvanceFacts
<1>3. m.at # "reduce" /\ (m.at \in {"drain", "reduce"} => m.queue # <<>>) BY <1>2
<1> QED BY <1>2, <1>3, WorkerMoves

\* A commit keeps the invariant.
LEMMA CommitKeeps ==
  ASSUME RollingInv, NEW w \in Workers, worker[w].at = "reduce", NEW r \in Rooms,
         r = Head(worker[w].queue), CommitAllowed(room[r], worker[w].gen, worker[w].work),
         ckpts' = [ckpts EXCEPT ![r] = Append(ckpts[r], worker[w].work)],
         room' = [room EXCEPT ![r] = Committed(room[r], worker[w].work, Len(ckpts[r]) + 1)],
         worker' = [worker EXCEPT ![w] = Advance(worker[w])]
  PROVE  RollingInv'
<1> DEFINE c == worker[w].work
           s == room[r]
           cs == ckpts[r]
           t == Committed(s, c, Len(cs) + 1)
           ds == Append(cs, c)
<1>1. /\ room \in [Rooms -> RoomRows] /\ worker \in [Workers -> Reducers]
      /\ ckpts \in [Rooms -> Seq(Intervals)]
      /\ \A p \in Rooms :
           /\ room[p].through <= room[p].desired /\ room[p].latest <= Len(ckpts[p])
           /\ room[p].through = 0 <=> room[p].latest = 0
           /\ room[p].expired => room[p].held
  BY DEF RollingInv, RollingTypeOK
<1>2. /\ c \in Intervals /\ c.through > 0 /\ c.through >= s.through /\ c.through <= s.desired
      /\ ~c.rebase => c.from = s.through
      /\ \E g \in [0..Len(ds) -> SUBSET Nat] :
           Covering(ds, g) /\ g[Len(cs) + 1] = 1..c.through
  BY CommitInterval
<1>3. s \in RoomRows /\ cs \in Seq(Intervals) /\ Len(cs) \in Nat BY <1>1
<1>4. /\ t \in RoomRows /\ t.latest = Len(cs) + 1 /\ t.through = c.through
      /\ t.desired = s.desired /\ t.gen = s.gen /\ t.expired = FALSE
  <2> DEFINE id == Len(cs) + 1
  <2>1. id \in Nat BY <1>3
  <2>2. t = Committed(s, c, id) OBVIOUS
  <2> HIDE DEF c, s, id, t
  <2>3. c \in Intervals BY <1>2
  <2>4. s \in RoomRows BY <1>3
  <2>5. /\ t \in RoomRows /\ t.latest = id /\ t.through = c.through
        /\ t.desired = s.desired /\ t.gen = s.gen /\ t.expired = FALSE
    BY <2>1, <2>2, <2>3, <2>4, CommittedRow
  <2> QED BY <2>5 DEF id
<1>5. /\ ckpts' = [ckpts EXCEPT ![r] = ds] /\ room' = [room EXCEPT ![r] = t] OBVIOUS
<1>6. ds \in Seq(Intervals) /\ Len(ds) = Len(cs) + 1 /\ ds[Len(cs) + 1] = c
      /\ \A i \in 1..Len(cs) : ds[i] = cs[i]
  <2> HIDE DEF c, cs
  <2> QED BY <1>2, <1>3
<1> HIDE DEF c, t, ds
<1>7. room' \in [Rooms -> RoomRows] /\ room'[r] = t /\ \A p \in Rooms : p # r => room'[p] = room[p]
  <2>1. t \in RoomRows BY <1>4
  <2>2. room' \in [Rooms -> RoomRows] BY <1>1, <1>5, <2>1, Zenon
  <2>3. room'[r] = t /\ \A p \in Rooms : p # r => room'[p] = room[p] BY <1>1, <1>5, Zenon
  <2> QED BY <2>2, <2>3
<1>8. /\ ckpts' \in [Rooms -> Seq(Intervals)] /\ ckpts'[r] = ds
      /\ \A p \in Rooms : p # r => ckpts'[p] = ckpts[p]
  <2>1. ds \in Seq(Intervals) BY <1>6
  <2>2. ckpts' \in [Rooms -> Seq(Intervals)] BY <1>1, <1>5, <2>1, Zenon
  <2>3. ckpts'[r] = ds /\ \A p \in Rooms : p # r => ckpts'[p] = ckpts[p] BY <1>1, <1>5, Zenon
  <2> QED BY <2>2, <2>3
<1> HIDE DEF s, cs
<1>9. c.through \in Nat /\ c.from \in Nat /\ s.through \in Nat /\ s.desired \in Int /\ s.gen \in Nat
  BY <1>2, <1>3 DEF Intervals, RoomRows
<1>10. \A p \in Rooms : /\ room'[p].through <= room'[p].desired /\ room'[p].latest <= Len(ckpts'[p])
                        /\ room'[p].through = 0 <=> room'[p].latest = 0
                        /\ room'[p].expired => room'[p].held
  <2> SUFFICES ASSUME NEW p \in Rooms
               PROVE  /\ room'[p].through <= room'[p].desired /\ room'[p].latest <= Len(ckpts'[p])
                      /\ room'[p].through = 0 <=> room'[p].latest = 0
                      /\ room'[p].expired => room'[p].held
    OBVIOUS
  <2>1. CASE p = r
    <3>1. room'[p] = t /\ ckpts'[p] = ds BY <2>1, <1>7, <1>8
    <3>2. t.through <= t.desired /\ t.latest <= Len(ds) /\ t.through # 0 /\ t.latest # 0
      BY <1>2, <1>3, <1>4, <1>6, <1>9
    <3> QED BY <3>1, <3>2, <1>4
  <2>2. CASE p # r
    <3>1. room'[p] = room[p] /\ ckpts'[p] = ckpts[p] BY <2>2, <1>7, <1>8
    <3> QED BY <3>1, <1>1
  <2> QED BY <2>1, <2>2
<1>11. \A p \in Rooms : room'[p].gen >= room[p].gen
  <2> SUFFICES ASSUME NEW p \in Rooms PROVE room'[p].gen >= room[p].gen OBVIOUS
  <2>1. CASE p = r
    <3>1. t.gen >= s.gen BY <1>4, <1>9
    <3> QED BY <2>1, <3>1, <1>7 DEF s
  <2>2. CASE p # r
    <3>1. room'[p] = room[p] /\ room[p].gen \in Int BY <2>2, <1>1, <1>7 DEF RoomRows
    <3> QED BY <3>1
  <2> QED BY <2>1, <2>2
<1>12. \A i \in 1..Len(cs) : cs[i].through <= s.through BY DEF RollingInv, CheckpointsBelow, cs, s
<1>13. \A i \in 1..Len(cs) : cs[i].through \in Nat
  <2>1. \A i \in 1..Len(cs) : cs[i] \in Intervals BY <1>3
  <2> QED BY <2>1 DEF Intervals
<1>14. CheckpointsBelow'
  <2> SUFFICES ASSUME NEW p \in Rooms, NEW i \in 1..Len(ckpts'[p])
               PROVE  ckpts'[p][i].through <= room'[p].through
    BY DEF CheckpointsBelow
  <2>1. CASE p = r
    <3>1. room'[p] = t /\ ckpts'[p] = ds BY <2>1, <1>7, <1>8
    <3>2. CASE i = Len(cs) + 1
      <4>1. ds[i] = c BY <3>2, <1>6
      <4>2. c.through <= t.through BY <1>4, <1>9
      <4> QED BY <3>1, <4>1, <4>2
    <3>3. CASE i # Len(cs) + 1
      <4>1. i \in 1..Len(cs) BY <3>1, <3>3, <1>3, <1>6
      <4>2. ds[i].through = cs[i].through BY <4>1, <1>6
      <4>3. cs[i].through <= c.through BY <4>1, <1>2, <1>9, <1>12, <1>13
      <4> QED BY <3>1, <4>2, <4>3, <1>4
    <3> QED BY <3>2, <3>3
  <2>2. CASE p # r
    <3>1. room'[p] = room[p] /\ ckpts'[p] = ckpts[p] BY <2>2, <1>7, <1>8
    <3> QED BY <3>1 DEF RollingInv, CheckpointsBelow
  <2> QED BY <2>1, <2>2
<1>15. ReducedOnce'
  <2> SUFFICES ASSUME NEW p \in Rooms, NEW i \in 1..Len(ckpts'[p]), NEW j \in 1..Len(ckpts'[p]),
                      i < j, ~ckpts'[p][i].rebase, ~ckpts'[p][j].rebase
               PROVE  ckpts'[p][i].through <= ckpts'[p][j].from
    BY DEF ReducedOnce
  <2>1. CASE p = r
    <3>1. ckpts'[p] = ds BY <2>1, <1>8
    <3>2. i \in 1..Len(cs) BY <3>1, <1>3, <1>6
    <3>3. ds[i] = cs[i] BY <3>2, <1>6
    <3>4. CASE j = Len(cs) + 1
      <4>1. ds[j] = c /\ c.from = s.through BY <3>1, <3>4, <1>2, <1>6
      <4> QED BY <3>1, <3>2, <3>3, <4>1, <1>12
    <3>5. CASE j # Len(cs) + 1
      <4>1. j \in 1..Len(cs) BY <3>1, <3>5, <1>3, <1>6
      <4>2. ds[j] = cs[j] BY <4>1, <1>6
      <4>3. cs[i].through <= cs[j].from
        BY <3>1, <3>2, <3>3, <4>1, <4>2 DEF RollingInv, ReducedOnce, cs
      <4> QED BY <3>1, <3>3, <4>2, <4>3
    <3> QED BY <3>4, <3>5
  <2>2. CASE p # r
    <3>1. ckpts'[p] = ckpts[p] BY <2>2, <1>8
    <3> QED BY <3>1 DEF RollingInv, ReducedOnce
  <2> QED BY <2>1, <2>2
<1>16. Covered'
  <2>1. \A p \in Rooms : \E f \in [0..Len(ckpts'[p]) -> SUBSET Nat] :
          Covering(ckpts'[p], f) /\ f[room'[p].latest] = 1..room'[p].through
    <3> SUFFICES ASSUME NEW p \in Rooms
                 PROVE  \E f \in [0..Len(ckpts'[p]) -> SUBSET Nat] :
                          Covering(ckpts'[p], f) /\ f[room'[p].latest] = 1..room'[p].through
      OBVIOUS
    <3>1. CASE p = r
      <4>1. room'[p] = t /\ ckpts'[p] = ds BY <3>1, <1>7, <1>8
      <4>2. \E g \in [0..Len(ds) -> SUBSET Nat] : Covering(ds, g) /\ g[t.latest] = 1..t.through
        BY <1>2, <1>4
      <4> QED BY <4>1, <4>2
    <3>2. CASE p # r
      <4>1. room'[p] = room[p] /\ ckpts'[p] = ckpts[p] BY <3>2, <1>7, <1>8
      <4>2. \E f \in [0..Len(ckpts[p]) -> SUBSET Nat] :
              Covering(ckpts[p], f) /\ f[room[p].latest] = 1..room[p].through
        BY DEF RollingInv, Covered
      <4> QED BY <4>1, <4>2, Zenon
    <3> QED BY <3>1, <3>2
  <2> QED BY <2>1, Zenon DEF Covered, Covering
<1>17. worker[w].queue # <<>> BY HeadRoom
<1>18. worker' \in [Workers -> Reducers] /\ InHand' /\ OneReducer'
  BY <1>7, <1>11, <1>17, WorkerGoesOn, Zenon
<1>19. RollingTypeOK' BY <1>7, <1>8, <1>10, <1>18, Zenon DEF RollingTypeOK
<1> QED BY <1>14, <1>15, <1>16, <1>18, <1>19 DEF RollingInv

\* The reducer answers: the checkpoint is committed, or the failure recorded.
LEMMA ReducedKeeps ==
  ASSUME RollingInv, NEW w \in Workers, Reduced(w)
  PROVE  RollingInv'
<1> DEFINE r == Head(worker[w].queue)
<1>1. worker[w].at = "reduce" BY DEF Reduced
<1>2. r \in Rooms BY <1>1, HeadRoom
<1>3. CASE CommitAllowed(room[r], worker[w].gen, worker[w].work)
  <2>1. /\ ckpts' = [ckpts EXCEPT ![r] = Append(ckpts[r], worker[w].work)]
        /\ room' = [room EXCEPT ![r] = Committed(room[r], worker[w].work, Len(ckpts[r]) + 1)]
        /\ worker' = [worker EXCEPT ![w] = Advance(worker[w])]
    BY <1>3, Zenon DEF Reduced
  <2> DEFINE p == r
  <2>2. p = Head(worker[w].queue) OBVIOUS
  <2> HIDE DEF p
  <2> QED BY <1>1, <1>2, <1>3, <2>1, CommitKeeps
<1>4. CASE ~CommitAllowed(room[r], worker[w].gen, worker[w].work)
  <2>1. RecordFailure(w) /\ UNCHANGED ckpts BY <1>4, Zenon DEF Reduced
  <2> QED BY <1>1, <2>1, FailureKeeps
<1> QED BY <1>3, <1>4

\* Every step keeps the invariant.
LEMMA RollingStep == RollingInv /\ [RollingNext]_rollingVars => RollingInv'
<1> SUFFICES ASSUME RollingInv, [RollingNext]_rollingVars PROVE RollingInv' OBVIOUS
<1>1. ASSUME NEW r \in Rooms, Message(r) \/ Enable(r) \/ Disable(r) \/ LeaseRunsOut(r) \/ Cool(r)
      PROVE  RollingInv'
  BY <1>1, RoomSideKeeps
<1>2. ASSUME NEW w \in Workers, Sweep(w) PROVE RollingInv' BY <1>2, SweepKeeps
<1>3. ASSUME NEW w \in Workers, Reduced(w) PROVE RollingInv' BY <1>3, ReducedKeeps
<1>4. ASSUME NEW w \in Workers, ReduceFails(w) \/ ProcessDies(w) PROVE RollingInv'
  <2>1. worker[w].at = "reduce" /\ UNCHANGED ckpts BY <1>4 DEF ReduceFails, ProcessDies
  <2>2. RecordFailure(w) \/ (worker' = [worker EXCEPT ![w] = Resting] /\ UNCHANGED room)
    BY <1>4 DEF ReduceFails, ProcessDies
  <2> QED BY <2>1, <2>2, FailureKeeps
<1>5. ASSUME NEW w \in Workers, NEW rebase \in IF Rebases THEN BOOLEAN ELSE {FALSE},
             Drain(w, rebase)
      PROVE  RollingInv'
  <2>1. rebase \in BOOLEAN BY Zenon
  <2> QED BY <1>5, <2>1, DrainKeeps
<1>6. CASE UNCHANGED rollingVars
  <2>1. UNCHANGED <<room, ckpts, worker>> BY <1>6 DEF rollingVars
  <2>2. RollingTypeOK' /\ ReducedOnce' /\ CheckpointsBelow' /\ InHand' /\ OneReducer'
    BY <2>1 DEF RollingInv, RollingTypeOK, ReducedOnce, CheckpointsBelow, InHand, OneReducer
  <2>3. Covered'
    <3>1. Covered BY DEF RollingInv
    <3> QED BY <2>1, <3>1 DEF Covered, Covering
  <2> QED BY <2>2, <2>3 DEF RollingInv
<1>7. CASE RollingNext BY <1>7, <1>1, <1>2, <1>3, <1>4, <1>5, Zenon DEF RollingNext
<1> QED BY <1>6, <1>7

\* The invariant holds in every state.
LEMMA RollingInvHolds == RollingSpec => []RollingInv
BY RollingInitOK, RollingStep, PTL DEF RollingSpec

\* A chain determines what it covers.
LEMMA CoveringUnique ==
  ASSUME NEW cs \in Seq(Intervals), NEW f, NEW g, Covering(cs, f), Covering(cs, g)
  PROVE  \A i \in 0..Len(cs) : f[i] = g[i]
<1> DEFINE D == {i \in 0..Len(cs) : f[i] # g[i]}
           R == {ss \in Nat \X Nat : ss[1] < ss[2]}
<1> SUFFICES ASSUME D # {} PROVE FALSE OBVIOUS
<1>1. IsWellFoundedOn(R, Nat) BY NatLessThanWellFounded, Zenon DEF OpToRel
<1>2. D \subseteq Nat OBVIOUS
<1>3. PICK i \in D : \A j \in D : ~(<<j, i>> \in R)
  <2> HIDE DEF D, R
  <2> QED BY <1>1, <1>2, WFMin
<1>4. \A j \in D : ~(j < i) BY <1>2, <1>3
<1>5. i \in 0..Len(cs) /\ f[i] # g[i] /\ i # 0
  <2>1. 0 \in 0..Len(cs) OBVIOUS
  <2>2. f[0] = {} /\ g[0] = {} BY <2>1 DEF Covering
  <2> QED BY <2>2
<1>6. i \in 1..Len(cs) BY <1>5
<1>7. cs[i] \in Intervals BY <1>6
<1>8. cs[i].parent \in Nat BY <1>7 DEF Intervals
<1>9. cs[i].parent < i => f[cs[i].parent] = g[cs[i].parent]
  <2> SUFFICES ASSUME cs[i].parent < i, f[cs[i].parent] # g[cs[i].parent] PROVE FALSE OBVIOUS
  <2>1. cs[i].parent \in 0..Len(cs) BY <1>6, <1>8
  <2>2. cs[i].parent \in D BY <2>1
  <2> HIDE DEF D
  <2> QED BY <1>4, <2>2
<1>10. /\ f[i] = (IF cs[i].parent < i THEN f[cs[i].parent] ELSE {}) \cup ((cs[i].from + 1)..cs[i].through)
       /\ g[i] = (IF cs[i].parent < i THEN g[cs[i].parent] ELSE {}) \cup ((cs[i].from + 1)..cs[i].through)
  BY <1>5 DEF Covering
<1> HIDE DEF D
<1> QED BY <1>5, <1>9, <1>10

\* The chain of parents behind the latest checkpoint covers the messages up to the cursor.
LEMMA CoversLatest == RollingInv => LatestCovers
<1> SUFFICES ASSUME RollingInv, NEW r \in Rooms
             PROVE  LET Covers[i \in 0..Len(ckpts[r])] ==
                          IF i = 0 THEN {}
                          ELSE LET c == ckpts[r][i]
                               IN  (IF c.parent < i THEN Covers[c.parent] ELSE {})
                                     \cup ((c.from + 1)..c.through)
                    IN  Covers[room[r].latest] = 1..room[r].through
  BY DEF LatestCovers
<1> DEFINE cs == ckpts[r]
           Unfolded(g) == [i \in 0..Len(cs) |->
                             IF i = 0 THEN {}
                             ELSE (IF cs[i].parent < i THEN g[cs[i].parent] ELSE {})
                                    \cup ((cs[i].from + 1)..cs[i].through)]
           Covers[i \in 0..Len(ckpts[r])] ==
             IF i = 0 THEN {}
             ELSE LET c == ckpts[r][i]
                  IN  (IF c.parent < i THEN Covers[c.parent] ELSE {}) \cup ((c.from + 1)..c.through)
<1>1. Covers = CHOOSE g : g = Unfolded(g) BY DEF Covers
<1>2. PICK f \in [0..Len(cs) -> SUBSET Nat] : Covering(cs, f) /\ f[room[r].latest] = 1..room[r].through
  BY DEF RollingInv, Covered
<1>3. cs \in Seq(Intervals) /\ room[r].latest \in 0..Len(cs)
  <2>1. ckpts \in [Rooms -> Seq(Intervals)] /\ room[r] \in RoomRows /\ room[r].latest <= Len(ckpts[r])
    BY DEF RollingInv, RollingTypeOK
  <2>2. room[r].latest \in Nat BY <2>1 DEF RoomRows
  <2> QED BY <2>1, <2>2
<1> HIDE DEF cs, Covers
<1>4. f = Unfolded(f) BY <1>2 DEF Covering
<1>5. Covers = Unfolded(Covers)
  <2> HIDE DEF Unfolded
  <2> QED BY <1>1, <1>4
<1>6. Covering(cs, Covers)
  <2> SUFFICES ASSUME NEW i \in 0..Len(cs)
               PROVE  Covers[i] = IF i = 0 THEN {}
                        ELSE (IF cs[i].parent < i THEN Covers[cs[i].parent] ELSE {})
                               \cup ((cs[i].from + 1)..cs[i].through)
    BY DEF Covering
  <2>1. Covers[i] = Unfolded(Covers)[i] BY <1>5
  <2> QED BY <2>1
<1>7. Covers[room[r].latest] = f[room[r].latest] BY <1>2, <1>3, <1>6, CoveringUnique
<1> QED BY <1>2, <1>7 DEF Covers

\* Every message is reduced, in order and once, however leases run out, workers die and
\* failures are recorded late (commitCheckpoint, recordFailure, planWork): the rows meet the
\* CHECKs of migration 0033, the chain of parents behind the latest checkpoint covers exactly
\* the messages up to the cursor, and no two incremental checkpoints share one.
THEOREM RollingIsTrue == RollingSpec => []RollingTrue
<1>1. RollingInv => RollingTrue BY CoversLatest DEF RollingInv, RollingTrue
<1> QED BY <1>1, RollingInvHolds, PTL

-----------------------------------------------------------------------------
(* The lease of a working reducer                                          *)

\* Changing another row leaves this one.
LEMMA OtherRow ==
  ASSUME RollingInv, NEW r \in Rooms, NEW p \in Rooms, p # r, NEW t,
         room' = [room EXCEPT ![p] = t]
  PROVE  room'[r] = room[r]
<1>1. room \in [Rooms -> RoomRows] BY DEF RollingInv, RollingTypeOK
<1> QED BY <1>1, Zenon

\* Messages, enabling and time leave a lease; disabling ends it by intent.
LEMMA RoomSideLeases ==
  ASSUME RollingInv, NEW r \in Rooms, NEW p \in Rooms, room[r].held,
         Message(p) \/ Enable(p) \/ Disable(p) \/ LeaseRunsOut(p) \/ Cool(p)
  PROVE  \/ room'[r].held /\ room'[r].gen = room[r].gen
         \/ room'[r].mode = "disabled"
<1> DEFINE s == room[p]
<1>1. room \in [Rooms -> RoomRows] /\ s \in RoomRows /\ (s.expired => s.held)
  BY DEF RollingInv, RollingTypeOK
<1>2. PICK t : /\ room' = [room EXCEPT ![p] = t]
               /\ (t.held = s.held /\ t.gen = s.gen) \/ t.mode = "disabled"
  <2>1. CASE Message(p)
    <3>1. room' = [room EXCEPT ![p] = [s EXCEPT !.desired = @ + 1, !.cooled = FALSE]]
      BY <2>1, Zenon DEF Message
    <3>2. /\ [s EXCEPT !.desired = @ + 1, !.cooled = FALSE].held = s.held
          /\ [s EXCEPT !.desired = @ + 1, !.cooled = FALSE].gen = s.gen
      BY <1>1 DEF RoomRows
    <3> QED BY <3>1, <3>2, Zenon
  <2>2. CASE Enable(p)
    <3>1. room' = [room EXCEPT ![p] = Woken(s)] BY <2>2, Zenon DEF Enable
    <3>2. Woken(s).held = s.held /\ Woken(s).gen = s.gen
      <4> HIDE DEF s
      <4> QED BY <1>1, WokenRow
    <3> QED BY <3>1, <3>2, Zenon
  <2>3. CASE Disable(p)
    <3> DEFINE t == [s EXCEPT !.mode = "disabled", !.held = FALSE, !.expired = FALSE, !.cooled = FALSE]
    <3>1. room' = [room EXCEPT ![p] = t] BY <2>3, Zenon DEF Disable
    <3>2. t.mode = "disabled" BY <1>1 DEF RoomRows
    <3> QED BY <3>1, <3>2, Zenon
  <2>4. CASE LeaseRunsOut(p)
    <3> DEFINE t == [s EXCEPT !.expired = TRUE, !.cooled = TRUE]
    <3>1. room' = [room EXCEPT ![p] = t] BY <2>4, Zenon DEF LeaseRunsOut
    <3>2. t.held = s.held /\ t.gen = s.gen BY <1>1 DEF RoomRows
    <3> QED BY <3>1, <3>2, Zenon
  <2>5. CASE Cool(p)
    <3> DEFINE t == [s EXCEPT !.cooled = TRUE]
    <3>1. room' = [room EXCEPT ![p] = t] BY <2>5, Zenon DEF Cool
    <3>2. t.held = s.held /\ t.gen = s.gen BY <1>1 DEF RoomRows
    <3> QED BY <3>1, <3>2, Zenon
  <2> QED BY <2>1, <2>2, <2>3, <2>4, <2>5
<1>3. CASE p = r
  <2>1. room'[r] = t BY <1>1, <1>2, <1>3, Zenon
  <2> QED BY <1>2, <1>3, <2>1
<1>4. CASE p # r
  <2>1. room'[r] = room[r] BY <1>2, <1>4, OtherRow
  <2> QED BY <2>1
<1> QED BY <1>3, <1>4

\* A sweep enables Rooms and takes no lease.
LEMMA SweepLeases ==
  ASSUME RollingInv, NEW r \in Rooms, NEW v \in Workers, room[r].held, Sweep(v)
  PROVE  room'[r].held /\ room'[r].gen = room[r].gen
<1>1. room' = [p \in Rooms |-> Enabled(room[p])] BY DEF Sweep
<1>2. room'[r] = Enabled(room[r]) BY <1>1
<1>3. room[r] \in RoomRows /\ (room[r].expired => room[r].held) BY DEF RollingInv, RollingTypeOK
<1>4. Enabled(room[r]).held = room[r].held /\ Enabled(room[r]).gen = room[r].gen
  BY <1>3, EnabledRow
<1> QED BY <1>2, <1>4

\* A Room is drained only when its lease is free or has run out.
LEMMA DrainLeases ==
  ASSUME RollingInv, NEW r \in Rooms, NEW v \in Workers, NEW rebase \in BOOLEAN,
         room[r].held, ~room[r].expired, Drain(v, rebase)
  PROVE  room'[r].held /\ room'[r].gen = room[r].gen
<1> DEFINE p == Head(worker[v].queue)
<1>1. worker[v].at = "drain" BY DEF Drain
<1>2. p \in Rooms BY <1>1, HeadRoom
<1>3. \/ UNCHANGED room
      \/ MayLease(room[p]) /\ \E t : room' = [room EXCEPT ![p] = t]
  BY Zenon DEF Drain
<1> HIDE DEF p
<1>4. CASE UNCHANGED room BY <1>4
<1>5. CASE MayLease(room[p]) /\ \E t : room' = [room EXCEPT ![p] = t]
  <2>1. p # r BY <1>5 DEF MayLease
  <2>2. room'[r] = room[r] BY <1>2, <1>5, <2>1, OtherRow
  <2> QED BY <2>2
<1> QED BY <1>3, <1>4, <1>5

\* What one worker commits or records as failed is not the lease another one works under.
LEMMA ReductionLeases ==
  ASSUME RollingInv, NEW r \in Rooms, NEW v \in Workers, NEW w \in Holder(r),
         worker'[w] = worker[w], room[r].held,
         Reduced(v) \/ ReduceFails(v) \/ ProcessDies(v)
  PROVE  room'[r].held /\ room'[r].gen = room[r].gen
<1> DEFINE p == Head(worker[v].queue)
<1>1. worker[v].at = "reduce" BY DEF Reduced, ReduceFails, ProcessDies
<1>2. p \in Rooms /\ worker[v] \in Reducers /\ worker[v].queue # <<>> BY <1>1, HeadRoom
<1>3. /\ w \in Workers /\ worker[w].at = "reduce" /\ Head(worker[w].queue) = r
      /\ worker[w].gen = room[r].gen
  BY DEF Holder
<1>4. \/ UNCHANGED room
      \/ /\ room[p].gen = worker[v].gen
         /\ \E t : room' = [room EXCEPT ![p] = t]
         /\ worker' = [worker EXCEPT ![v] = Advance(worker[v])]
  <2>1. CASE RecordFailure(v)
    BY <2>1, Zenon DEF RecordFailure, MayFail
  <2>2. CASE Reduced(v) /\ CommitAllowed(room[p], worker[v].gen, worker[v].work)
    BY <2>2, Zenon DEF Reduced, CommitAllowed, LeaseValid
  <2>3. CASE Reduced(v) /\ ~CommitAllowed(room[p], worker[v].gen, worker[v].work)
    <3>1. RecordFailure(v) BY <2>3, Zenon DEF Reduced
    <3> QED BY <2>1, <3>1
  <2>4. CASE ReduceFails(v) BY <2>1, <2>4 DEF ReduceFails
  <2>5. CASE ProcessDies(v) BY <2>5 DEF ProcessDies
  <2> QED BY <2>2, <2>3, <2>4, <2>5
<1>5. CASE UNCHANGED room BY <1>5
<1>6. CASE /\ room[p].gen = worker[v].gen
           /\ \E t : room' = [room EXCEPT ![p] = t]
           /\ worker' = [worker EXCEPT ![v] = Advance(worker[v])]
  <2>1. v # w
    <3>1. worker \in [Workers -> Reducers] BY DEF RollingInv, RollingTypeOK
    <3>2. worker'[v] = Advance(worker[v]) BY <1>6, <3>1, Zenon
    <3>3. Advance(worker[v]).at # "reduce"
      <4>1. Advance(worker[v]).at \in {"idle", "drain"} BY <1>2, AdvanceFacts
      <4> QED BY <4>1
    <3> QED BY <1>3, <3>2, <3>3
  <2>2. p # r
    <3>1. ASSUME p = r PROVE FALSE
      <4>1. worker[v].gen = worker[w].gen /\ Head(worker[v].queue) = Head(worker[w].queue)
        BY <1>3, <1>6, <3>1
      <4>2. v = w BY <1>1, <1>3, <4>1 DEF RollingInv, OneReducer
      <4> QED BY <2>1, <4>2
    <3> QED BY <3>1
  <2> HIDE DEF p
  <2>3. room'[r] = room[r] BY <1>2, <1>6, <2>2, OtherRow
  <2> QED BY <2>3
<1> QED BY <1>4, <1>5, <1>6

\* While a worker reduces a Room under a lease that still runs, no other worker's step takes
\* the lease away: neither a take-over (acquireLease) nor the recorded failure of a worker
\* that lost the Room before (recordFailure).
LEMMA LeaseIsSafe == RollingSpec => [][LeaseSafe]_rollingVars
<1>1. RollingInv /\ [RollingNext]_rollingVars => [LeaseSafe]_rollingVars
  <2> SUFFICES ASSUME RollingInv, RollingNext, NEW r \in Rooms, NEW w \in Holder(r),
                      room[r].held, ~room[r].expired, worker'[w] = worker[w]
               PROVE  \/ room'[r].held /\ room'[r].gen = room[r].gen
                      \/ room'[r].mode = "disabled"
    BY DEF LeaseSafe
  <2>1. ASSUME NEW p \in Rooms, Message(p) \/ Enable(p) \/ Disable(p) \/ LeaseRunsOut(p) \/ Cool(p)
        PROVE  \/ room'[r].held /\ room'[r].gen = room[r].gen
               \/ room'[r].mode = "disabled"
    BY <2>1, RoomSideLeases
  <2>2. ASSUME NEW v \in Workers, Sweep(v)
        PROVE  room'[r].held /\ room'[r].gen = room[r].gen
    BY <2>2, SweepLeases
  <2>3. ASSUME NEW v \in Workers, Reduced(v) \/ ReduceFails(v) \/ ProcessDies(v)
        PROVE  room'[r].held /\ room'[r].gen = room[r].gen
    BY <2>3, ReductionLeases
  <2>4. ASSUME NEW v \in Workers, NEW rebase \in IF Rebases THEN BOOLEAN ELSE {FALSE},
               Drain(v, rebase)
        PROVE  room'[r].held /\ room'[r].gen = room[r].gen
    <3>1. rebase \in BOOLEAN BY Zenon
    <3> QED BY <2>4, <3>1, DrainLeases
  <2> QED BY <2>1, <2>2, <2>3, <2>4, Zenon DEF RollingNext
<1> QED BY <1>1, RollingInvHolds, PTL DEF RollingSpec

\* No part takes back what another rests on: no worker loses a lease that still runs to
\* another worker (acquireLease, recordFailure), nothing is retained or adopted under a
\* revoked binding (the triggers of 0078 and 0082), and a Bridge that is paired stays so
\* (finishEnrollment, installReEnrollmentLocked).
THEOREM CentralSteps == CentralSpec => CentralStepsKept
<1>1. [CanceledNeverInstalls /\ PairingKept]_vars /\ [LeaseSafe]_rollingVars
      /\ [RevokedNoEvidence]_remoteVars
        => [/\ [CanceledNeverInstalls /\ PairingKept]_vars
            /\ [LeaseSafe]_rollingVars
            /\ [RevokedNoEvidence]_remoteVars]_<<vars, rollingVars, remoteVars>>
  OBVIOUS
<1>2. Spec => [][CanceledNeverInstalls /\ PairingKept]_vars
  BY PairingSteps DEF PairingStepsKept
<1> QED BY <1>1, <1>2, LeaseIsSafe, NothingOnceRevoked, PTL DEF CentralSpec, CentralStepsKept
=============================================================================
