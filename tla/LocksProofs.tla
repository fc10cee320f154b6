---------------------------- MODULE LocksProofs ----------------------------
(* Theorems about Locks, for every number of users, paths and requests.     *)
EXTENDS Locks, FiniteSetTheorems, TLAPS

-----------------------------------------------------------------------------
(* Types.                                                                   *)

\* A handler starts with locals of the right type, and only statements and
\* Start move pc and req.
LEMMA BlankType ==
  ASSUME NEW u \in Users, NEW p \in Paths, now \in 0..MaxTime
  PROVE  Blank(u, p) \in Request
BY LocksAssumption DEF Blank, Request, Expiries

LEMMA DeleteType ==
  ASSUME row \in [Paths -> Row \union {None}], NEW n, DeleteId(n)
  PROVE  row' \in [Paths -> Row \union {None}]
BY DEF DeleteId

LEMMA LifetimeType ==
  ASSUME NEW t \in 0..MaxTime, NEW l \in Lifetimes
  PROVE  t + l \in Expiries
BY DEF Expiries

LEMMA TypeStep == TypeOK /\ [Next]_vars => TypeOK'
<1> SUFFICES ASSUME TypeOK, [Next]_vars PROVE TypeOK'
  OBVIOUS
<1> USE LocksAssumption
<1>1. ASSUME NEW r \in Reqs, Arrive(r) PROVE TypeOK'
  <2>1. ASSUME NEW u \in Users, NEW p \in Paths, NEW ttl \in Lifetimes \union {Never},
               StartAcquire(r, u, p, ttl)
        PROVE  TypeOK'
    <3> DEFINE e == IF ttl = Never THEN Never ELSE now + ttl
    <3>1. e \in Expiries
      BY <2>1, LifetimeType DEF TypeOK, Expiries
    <3>2. Blank(u, p) \in Request /\ fresh \in Nat
      BY BlankType DEF TypeOK
    <3>3. [Blank(u, p) EXCEPT !.expires = e, !.tok = fresh] \in Request
      <4> HIDE DEF e
      <4> QED BY <3>1, <3>2 DEF Request
    <3> QED BY <2>1, <3>3 DEF StartAcquire, Start, TypeOK, Steps
  <2>2. ASSUME NEW u \in Users, NEW p \in Paths, StartRelease(r, u, p) PROVE TypeOK'
    <3> DEFINE t == IF hold[u][p] = None THEN None ELSE hold[u][p].text
    <3>1. t \in Text \union {None}
      BY DEF TypeOK, Told
    <3>2. [Blank(u, p) EXCEPT !.text = t] \in Request
      BY <3>1, BlankType DEF TypeOK, Request
    <3> QED BY <2>2, <3>2 DEF StartRelease, Start, TypeOK, Steps
  <2>3. ASSUME NEW u \in Admins, NEW p \in Paths, StartBreak(r, u, p) PROVE TypeOK'
    BY <2>3, BlankType DEF StartBreak, Start, TypeOK, Steps
  <2> QED BY <1>1, <2>1, <2>2, <2>3 DEF Arrive
<1>2. ASSUME NEW r \in Reqs, Statement(r) PROVE TypeOK'
  <2>1. CASE AcqRead(r)
    <3> DEFINE q == req[r]  l == row[q.path]
    <3>1. q \in Request /\ l \in Row \union {None}
      BY <2>1 DEF AcqRead, TypeOK, Request
    <3>2. CASE l = None /\ Goto(r, "acq_insert") /\ UNCHANGED hold
      BY <2>1, <3>1, <3>2 DEF AcqRead, Goto, TypeOK, Steps
    <3>3. CASE IsLive(l, q.at) /\ Finish(r)
                 /\ hold' = IF l.owner = q.user
                    THEN [hold EXCEPT ![q.user][q.path] =
                           [text |-> [tok |-> l.tok, hashed |-> TRUE],
                            expires |-> l.expires]]
                    ELSE hold
      <4>1. [text |-> [tok |-> l.tok, hashed |-> TRUE], expires |-> l.expires] \in Told
        BY <3>1, <3>3 DEF IsLive, Row, Told, Text
      <4> QED BY <2>1, <3>1, <3>3, <4>1 DEF AcqRead, Finish, TypeOK, Steps, Request
    <3>4. CASE l # None /\ pc' = [pc EXCEPT ![r] = "acq_delete"]
                 /\ req' = [req EXCEPT ![r].id = l.id] /\ UNCHANGED hold
      BY <2>1, <3>1, <3>4 DEF AcqRead, TypeOK, Steps, Request, Row
    <3> QED BY <2>1, <3>2, <3>3, <3>4 DEF AcqRead
  <2>2. CASE AcqDelete(r)
    BY <2>2, DeleteType DEF AcqDelete, Goto, TypeOK, Steps
  <2>3. CASE AcqInsert(r)
    <3> DEFINE q == req[r]
    <3>1. q \in Request
      BY <2>3 DEF AcqInsert, TypeOK
    <3>2. PICK n \in 1..MaxGrants :
            InsertRow(q.path, [id |-> n, owner |-> q.user, tok |-> q.tok,
                               expires |-> q.expires, broken |-> FALSE])
      BY <2>3 DEF AcqInsert
    <3>3. [id |-> n, owner |-> q.user, tok |-> q.tok,
           expires |-> q.expires, broken |-> FALSE] \in Row
      BY <3>1 DEF Request, Row
    <3>4. row' \in [Paths -> Row \union {None}]
      BY <3>2, <3>3 DEF InsertRow, TypeOK
    <3> QED BY <2>3, <3>4 DEF AcqInsert, Goto, TypeOK, Steps
  <2>4. CASE AcqInsertFails(r)
    BY <2>4 DEF AcqInsertFails, Finish, TypeOK, Steps
  <2>5. CASE AcqBack(r)
    <3> DEFINE q == req[r]  l == row[q.path]
    <3>1. q \in Request /\ l \in Row \union {None}
      BY <2>5 DEF AcqBack, TypeOK, Request
    <3>2. l # None => [text |-> [tok |-> q.tok, hashed |-> FALSE],
                       expires |-> l.expires] \in Told
      BY <3>1 DEF Row, Told, Text, Request
    <3> QED BY <2>5, <3>1, <3>2 DEF AcqBack, Finish, TypeOK, Steps, Request
  <2>6. CASE RelRead(r)
    <3>1. req[r] \in Request /\ row[req[r].path] \in Row \union {None}
      BY <2>6 DEF RelRead, TypeOK, Request
    <3>2. CASE MayRelease(req[r], row[req[r].path])
      <4>1. row[req[r].path].id \in Nat
        BY <3>1, <3>2 DEF MayRelease, Row
      <4>2. [req[r] EXCEPT !.id = row[req[r].path].id] \in Request
        BY <3>1, <4>1 DEF Request
      <4> QED BY <2>6, <3>2, <4>2 DEF RelRead, TypeOK, Steps
    <3>3. CASE ~MayRelease(req[r], row[req[r].path])
      BY <2>6, <3>3 DEF RelRead, Finish, TypeOK, Steps
    <3> QED BY <3>2, <3>3
  <2>7. CASE RelDelete(r)
    <3>1. row' \in [Paths -> Row \union {None}]
      BY <2>7, DeleteType DEF RelDelete, TypeOK
    <3>2. hold' \in [Users -> [Paths -> Told \union {None}]]
      BY <2>7 DEF RelDelete, TypeOK, Request
    <3> QED BY <2>7, <3>1, <3>2 DEF RelDelete, Finish, TypeOK, Steps
  <2>8. CASE BrkRead(r)
    <3>1. req[r] \in Request /\ row[req[r].path] \in Row \union {None}
      BY <2>8 DEF BrkRead, TypeOK, Request
    <3> QED BY <2>8, <3>1 DEF BrkRead, Finish, TypeOK, Steps, Request, Row
  <2>9. CASE BrkUpdate(r)
    <3>1. row' \in [Paths -> Row \union {None}]
      <4>1. \A p \in Paths : row[p] # None => [row[p] EXCEPT !.broken = TRUE] \in Row
        BY DEF TypeOK, Row
      <4> QED BY <2>9, <4>1 DEF BrkUpdate, TypeOK
    <3>2. revoked' \subseteq Nat
      BY <2>9 DEF BrkUpdate, TypeOK, Row
    <3> QED BY <2>9, <3>1, <3>2 DEF BrkUpdate, Finish, TypeOK, Steps
  <2> QED BY <1>2, <2>1, <2>2, <2>3, <2>4, <2>5, <2>6, <2>7, <2>8, <2>9 DEF Statement
<1>3. ASSUME NEW u \in Users, NEW ttl \in Lifetimes, Refresh(u, ttl) PROVE TypeOK'
  <2>1. now + ttl \in Expiries
    BY LifetimeType DEF TypeOK
  <2>2. row' \in [Paths -> Row \union {None}]
    <3>1. \A p \in Paths : row[p] # None => [row[p] EXCEPT !.expires = now + ttl] \in Row
      BY <2>1 DEF TypeOK, Row
    <3> QED BY <1>3, <3>1 DEF Refresh, TypeOK, Mine
  <2>3. hold' \in [Users -> [Paths -> Told \union {None}]]
    <3>1. \A p \in Paths : hold[u][p] # None =>
            [hold[u][p] EXCEPT !.expires = now + ttl] \in Told
      BY <2>1 DEF TypeOK, Told
    <3> QED BY <1>3, <3>1 DEF Refresh, TypeOK
  <2> QED BY <1>3, <2>2, <2>3 DEF Refresh, TypeOK
<1>4. CASE Tick
  BY <1>4 DEF Tick, TypeOK
<1>5. CASE UNCHANGED vars
  BY <1>5 DEF vars, TypeOK
<1> QED BY <1>1, <1>2, <1>3, <1>4, <1>5 DEF Next

(* Every variable of the lock service has its type in every reachable state. *)
THEOREM TypeCorrect == Spec => []TypeOK
<1>1. Init => TypeOK
  BY LocksAssumption DEF Init, TypeOK, Steps
<1> QED BY <1>1, TypeStep, PTL DEF Spec

-----------------------------------------------------------------------------
(* On any number of connections.                                            *)

SameLock(p) == row[p] # None /\ row'[p] # None =>
  row'[p].tok = row[p].tok /\ row'[p].owner = row[p].owner

LEMMA OverwriteStep == TypeOK /\ [Next]_vars => \A p \in Paths : SameLock(p)
<1> SUFFICES ASSUME TypeOK, [Next]_vars, NEW p \in Paths PROVE SameLock(p)
  OBVIOUS
<1>1. row \in [Paths -> Row \union {None}] /\ (row[p] # None => row[p] \in Row)
  BY DEF TypeOK
<1>2. CASE UNCHANGED row
  BY <1>2 DEF SameLock
<1>3. ASSUME NEW n, DeleteId(n) PROVE SameLock(p)
  BY <1>3 DEF DeleteId, SameLock
<1>4. ASSUME NEW r \in Reqs, AcqInsert(r) PROVE SameLock(p)
  BY <1>1, <1>4 DEF AcqInsert, InsertRow, SameLock
<1>5. ASSUME NEW r \in Reqs, BrkUpdate(r) PROVE SameLock(p)
  BY <1>1, <1>5 DEF BrkUpdate, SameLock, Row
<1>6. ASSUME NEW u \in Users, NEW ttl \in Lifetimes, Refresh(u, ttl) PROVE SameLock(p)
  BY <1>1, <1>6 DEF Refresh, SameLock, Row
<1>7. ASSUME NEW r \in Reqs, Arrive(r) PROVE UNCHANGED row
  BY <1>7 DEF Arrive, StartAcquire, StartRelease, StartBreak
<1>8. ASSUME NEW r \in Reqs, Statement(r) PROVE SameLock(p)
  BY <1>2, <1>3, <1>4, <1>5, <1>8
     DEF Statement, AcqRead, AcqDelete, AcqInsertFails, AcqBack, RelRead,
         RelDelete, BrkRead
<1>9. CASE Tick \/ UNCHANGED vars
  BY <1>2, <1>9 DEF Tick, vars
<1> QED BY <1>2, <1>6, <1>7, <1>8, <1>9 DEF Next

(* However many handlers race, no statement turns one lock into another: a  *)
(* path changes hands only through a state in which it has no row.          *)
THEOREM NeverOverwritten == Spec => NoOverwrite
<1>1. TypeOK /\ [Next]_vars =>
        [\A p \in Paths : row[p] # None /\ row'[p] # None => row'[p].tok = row[p].tok]_vars
  BY OverwriteStep DEF SameLock
<1> QED BY <1>1, TypeCorrect, PTL DEF Spec, NoOverwrite

\* What covering_lock answers, which the checks of prepare and commit ask.
Covering == [p \in Paths |-> IF IsLive(row[p], now) THEN row[p].owner ELSE None]
TakenOrLost(p) ==
  \/ Covering'[p] = Covering[p]
  \/ Covering[p] = None /\ Covering'[p] \in Users
  \/ Covering[p] \in Users /\ Covering'[p] = None

(* So on any number of connections those checks see a path with no holder   *)
(* between two holders: its holder changes by being taken when there is     *)
(* none and by being lost, which is all that CommitProtocol assumes of it   *)
(* (TakeLock, LoseLock), and never passes from one user to another.         *)
THEOREM HolderIsTakenOrLost == Spec => [][\A p \in Paths : TakenOrLost(p)]_vars
<1>1. ASSUME TypeOK, TypeOK', NEW p \in Paths, SameLock(p)
      PROVE  TakenOrLost(p)
  <2>1. /\ Covering[p] = IF IsLive(row[p], now) THEN row[p].owner ELSE None
        /\ Covering'[p] = IF IsLive(row'[p], now') THEN row'[p].owner ELSE None
    BY DEF Covering
  <2>2. Covering[p] \in Users \union {None} /\ Covering'[p] \in Users \union {None}
    BY <1>1, <2>1 DEF TypeOK, Row, IsLive
  <2>3. Covering[p] # None /\ Covering'[p] # None => Covering'[p] = Covering[p]
    BY <1>1, <2>1 DEF IsLive, SameLock
  <2> QED BY <2>2, <2>3 DEF TakenOrLost
<1>2. TypeOK /\ TypeOK' /\ [Next]_vars => [\A p \in Paths : TakenOrLost(p)]_vars
  BY <1>1, OverwriteStep
<1> QED BY <1>2, TypeCorrect, PTL DEF Spec

-----------------------------------------------------------------------------
(* Requests apart.  While no two requests for one path are in flight, what  *)
(* a handler read about its path still holds at its next statement: others  *)
(* write other paths' rows.  Only a refresh has no path.                    *)

\* A schedule: at most one request for a path is in flight.
OnePerPath == \A r1, r2 \in Reqs :
  pc[r1] # "idle" /\ pc[r2] # "idle" /\ req[r1].path = req[r2].path => r1 = r2
\* A schedule: nobody refreshes a lock that an acquire has judged stale and has
\* yet to delete.
RefreshApart == \A u \in Users, ttl \in Lifetimes :
  Refresh(u, ttl) => ~\E r \in Reqs : pc[r] = "acq_delete" /\ Mine(u, row[req[r].path])

\* What the statements of a handler rely on.  A record that is older than the
\* row it stands for may look fresh again after a refresh.
AcquireHolds(r) ==
  LET q == req[r]  l == row[q.path] IN
  /\ pc[r] = "acq_read" => q.at <= now
  /\ pc[r] = "acq_delete" => l # None /\ l.id = q.id /\ ~IsLive(l, now)
  /\ pc[r] = "acq_insert" => l = None
  /\ pc[r] = "acq_back" => /\ Mine(q.user, l) /\ l.tok = q.tok
                           /\ Believes(q.user, q.path) =>
                                hold[q.user][q.path].expires = l.expires
ReleaseHolds(r) ==
  LET q == req[r]  l == row[q.path] IN
  pc[r] = "rel_delete" => Mine(q.user, l) /\ l.id = q.id
BreakHolds(r) ==
  LET q == req[r]  l == row[q.path] IN
  pc[r] = "brk_update" => l # None /\ ~l.broken /\ l.id = q.id
Holds(r) == AcquireHolds(r) /\ ReleaseHolds(r) /\ BreakHolds(r)

UniqueIds == \A p1, p2 \in Paths :
  row[p1] # None /\ row[p2] # None /\ row[p1].id = row[p2].id => p1 = p2

\* The owner's record tells token and expiry of the row, except between the
\* insert of a new row and its read back.
ReadingBack(u, p) == \E r \in Reqs :
  pc[r] = "acq_back" /\ req[r].user = u /\ req[r].path = p
Agrees(u, p) ==
  Mine(u, row[p]) /\ hold[u][p] # None /\ ~ReadingBack(u, p)
    => hold[u][p].text.tok = row[p].tok /\ hold[u][p].expires = row[p].expires

\* Whoever counts on a lock owns the row.
Owns(u, p) == Believes(u, p) => Mine(u, row[p])

ApartInv ==
  /\ \A r \in Reqs : Holds(r)
  /\ UniqueIds
  /\ \A u \in Users, p \in Paths : Agrees(u, p) /\ Owns(u, p)

\* A statement changes the row and the records of its own path at most, so only
\* these have to be looked at.
LEMMA Elsewhere ==
  ASSUME TypeOK, ApartInv, OnePerPath, NEW r \in Reqs, pc[r] # "idle",
         NEW at \in Paths, req[r].path = at,
         UNCHANGED now, revoked \subseteq revoked',
         NEW step, pc' = [pc EXCEPT ![r] = step],
         \A s \in Reqs \ {r} : req'[s] = req[s],
         step # "idle" => req'[r].path = at,
         \A p \in Paths \ {at} : row'[p] = row[p] /\ \A u \in Users : hold'[u][p] = hold[u][p],
         UniqueIds', Holds(r)',
         \A u \in Users : Agrees(u, at)' /\ Owns(u, at)'
  PROVE  ApartInv'
<1>1. pc'[r] = step /\ \A s \in Reqs \ {r} : pc'[s] = pc[s]
  BY DEF TypeOK
<1>2. ASSUME NEW s \in Reqs \ {r}, pc[s] # "idle"
      PROVE  req[s] \in Request /\ req[s].path \in Paths \ {at} /\ req[s].user \in Users
  BY <1>2 DEF OnePerPath, TypeOK, Request
<1>3. ASSUME NEW u \in Users, NEW p \in Paths \ {at}, Believes(u, p)'
      PROVE  Believes(u, p)
  BY <1>3 DEF Believes
<1>4. ASSUME NEW s \in Reqs \ {r}
      PROVE  Holds(s)'
  <2>1. CASE pc[s] = "idle"
    BY <1>1, <2>1 DEF Holds, AcquireHolds, ReleaseHolds, BreakHolds
  <2>2. CASE pc[s] # "idle"
    <3>1. PICK p \in Paths \ {at}, u \in Users : req[s].path = p /\ req[s].user = u
      BY <1>2, <2>2
    <3>2. row'[p] = row[p] /\ hold'[u][p] = hold[u][p] /\ (Believes(u, p)' => Believes(u, p))
      BY <1>3
    <3>3. Holds(s)
      BY DEF ApartInv
    <3> QED BY <1>1, <3>1, <3>2, <3>3 DEF Holds, AcquireHolds, ReleaseHolds, BreakHolds
  <2> QED BY <2>1, <2>2
<1>5. ASSUME NEW u \in Users, NEW p \in Paths \ {at}
      PROVE  Agrees(u, p)' /\ Owns(u, p)'
  <2>1. ReadingBack(u, p) => ReadingBack(u, p)'
    BY <1>1 DEF ReadingBack
  <2>2. Agrees(u, p) /\ Owns(u, p)
    BY DEF ApartInv
  <2> QED BY <1>3, <2>1, <2>2 DEF Agrees, Owns
<1> QED BY <1>4, <1>5 DEF ApartInv

\* Nobody else is at work on the path of a request in flight.
LEMMA Alone ==
  ASSUME TypeOK, OnePerPath, NEW r \in Reqs, pc[r] # "idle", NEW at, req[r].path = at
  PROVE  /\ pc[r] # "acq_back" => \A u \in Users : ~ReadingBack(u, at)
         /\ \A u \in Users : u # req[r].user => ~ReadingBack(u, at)
BY DEF OnePerPath, ReadingBack

\* A step that leaves rows, records, clock and breaks alone, and the owner's
\* record of the path that it is about.
LEMMA SameRecords ==
  ASSUME ApartInv, NEW at \in Paths, NEW u \in Users,
         UNCHANGED <<now, revoked>>, row'[at] = row[at], hold'[u][at] = hold[u][at],
         ~ReadingBack(u, at)
  PROVE  Agrees(u, at)' /\ Owns(u, at)'
BY DEF ApartInv, Agrees, Owns, Believes

LEMMA ApartArrive ==
  ASSUME TypeOK, ApartInv, NEW r \in Reqs, Arrive(r)
  PROVE  ApartInv'
<1>1. PICK step, q :
        /\ step \in {"acq_read", "rel_read", "brk_read"}
        /\ Start(r, step, q) /\ q.at = now /\ UNCHANGED <<now, row, hold, revoked>>
  <2> DEFINE Starts(step, q) ==
        Start(r, step, q) /\ q.at = now /\ UNCHANGED <<now, row, hold, revoked>>
  <2>1. ASSUME NEW u \in Users, NEW p \in Paths, NEW ttl \in Lifetimes \union {Never},
               StartAcquire(r, u, p, ttl)
        PROVE  \E q : Starts("acq_read", q)
    <3> DEFINE q == [Blank(u, p) EXCEPT
                       !.expires = IF ttl = Never THEN Never ELSE now + ttl,
                       !.tok = fresh]
    <3>1. q.at = now
      BY DEF Blank
    <3>2. Starts("acq_read", q)
      BY <2>1, <3>1 DEF StartAcquire
    <3> QED BY <3>2
  <2>2. ASSUME NEW u \in Users, NEW p \in Paths, StartRelease(r, u, p)
        PROVE  \E q : Starts("rel_read", q)
    <3> DEFINE q == [Blank(u, p) EXCEPT
                       !.text = IF hold[u][p] = None THEN None ELSE hold[u][p].text]
    <3>1. q.at = now
      BY DEF Blank
    <3>2. Starts("rel_read", q)
      BY <2>2, <3>1 DEF StartRelease
    <3> QED BY <3>2
  <2>3. ASSUME NEW u \in Admins, NEW p \in Paths, StartBreak(r, u, p)
        PROVE  \E q : Starts("brk_read", q)
    <3>1. Blank(u, p).at = now
      BY DEF Blank
    <3>2. Starts("brk_read", Blank(u, p))
      BY <2>3, <3>1 DEF StartBreak
    <3> QED BY <3>2
  <2> HIDE DEF Starts
  <2>4. \E step, q : step \in {"acq_read", "rel_read", "brk_read"} /\ Starts(step, q)
    BY <2>1, <2>2, <2>3 DEF Arrive
  <2> QED BY <2>4 DEF Starts
<1>2. /\ pc[r] = "idle" /\ pc'[r] = step /\ req'[r] = q
      /\ \A s \in Reqs \ {r} : pc'[s] = pc[s] /\ req'[s] = req[s]
  BY <1>1 DEF Start, TypeOK
<1>3. now \in Nat
  BY LocksAssumption DEF TypeOK
<1>4. ASSUME NEW s \in Reqs
      PROVE  Holds(s)'
  <2>1. CASE s = r
    BY <1>1, <1>2, <1>3, <2>1 DEF Holds, AcquireHolds, ReleaseHolds, BreakHolds
  <2>2. CASE s # r
    <3>1. Holds(s)
      BY DEF ApartInv
    <3> QED BY <1>1, <1>2, <2>2, <3>1
            DEF Holds, AcquireHolds, ReleaseHolds, BreakHolds, Believes
  <2> QED BY <2>1, <2>2
<1>5. UniqueIds'
  BY <1>1 DEF ApartInv, UniqueIds
<1>6. ASSUME NEW u \in Users, NEW p \in Paths
      PROVE  Agrees(u, p)' /\ Owns(u, p)'
  <2>1. ReadingBack(u, p) => ReadingBack(u, p)'
    BY <1>2 DEF ReadingBack
  <2>2. Agrees(u, p) /\ Owns(u, p)
    BY DEF ApartInv
  <2> QED BY <1>1, <2>1, <2>2 DEF Agrees, Owns, Believes
<1> QED BY <1>4, <1>5, <1>6 DEF ApartInv

LEMMA ApartRead ==
  ASSUME TypeOK, ApartInv, OnePerPath, NEW r \in Reqs,
         AcqRead(r) \/ AcqInsertFails(r) \/ RelRead(r) \/ BrkRead(r), UNCHANGED hold
  PROVE  ApartInv'
<1> DEFINE q == req[r]  l == row[q.path]
<1>1. /\ pc[r] # "idle" /\ pc[r] # "acq_back" /\ q \in Request
      /\ UNCHANGED <<now, row, hold, revoked>>
  BY DEF AcqRead, AcqInsertFails, RelRead, BrkRead, TypeOK
<1>2. PICK x : pc' = [pc EXCEPT ![r] = x]
  BY DEF AcqRead, AcqInsertFails, RelRead, BrkRead, Goto, Finish
<1>3. \A s \in Reqs \ {r} : req'[s] = req[s]
  BY DEF AcqRead, AcqInsertFails, RelRead, BrkRead, Goto, Finish, TypeOK
<1>4. pc'[r] = x
  BY <1>2 DEF TypeOK
<1>5. Holds(r)' /\ (x # "idle" => req'[r].path = q.path)
  <2>1. CASE pc'[r] = "idle" \/ pc'[r] = "acq_read"
    <3>1. pc'[r] # "acq_read"
      BY <1>1, <1>4 DEF AcqRead, AcqInsertFails, RelRead, BrkRead, Goto, Finish, TypeOK
    <3> QED BY <1>4, <2>1, <3>1 DEF Holds, AcquireHolds, ReleaseHolds, BreakHolds
  <2>2. CASE AcqRead(r) /\ pc'[r] = "acq_insert"
    <3>1. l = None /\ req' = req
      BY <2>2 DEF AcqRead, Goto, Finish, TypeOK
    <3> QED BY <1>1, <2>2, <3>1 DEF Holds, AcquireHolds, ReleaseHolds, BreakHolds
  <2>3. CASE AcqRead(r) /\ pc'[r] = "acq_delete"
    <3>1. l # None /\ ~IsLive(l, q.at) /\ req' = [req EXCEPT ![r].id = l.id]
      BY <2>3 DEF AcqRead, Goto, Finish, TypeOK
    <3>2. req'[r].path = q.path /\ req'[r].id = l.id
      BY <1>1, <3>1 DEF Request, TypeOK
    <3>3. q.at <= now /\ q.at \in Nat /\ now \in Nat
      BY <1>1, <2>3, LocksAssumption
         DEF AcqRead, ApartInv, Holds, AcquireHolds, Request, TypeOK
    <3>4. l \in Row /\ (l.expires # Never => l.expires \in Nat)
      BY <1>1, <3>1, LocksAssumption DEF TypeOK, Request, Row, Expiries, Lifetimes
    <3>5. ~IsLive(l, now)
      BY <3>1, <3>3, <3>4 DEF IsLive, Unexpired
    <3> QED BY <1>1, <2>3, <3>1, <3>2, <3>5
             DEF Holds, AcquireHolds, ReleaseHolds, BreakHolds, IsLive
  <2>4. CASE RelRead(r) /\ pc'[r] = "rel_delete"
    <3>1. MayRelease(q, l) /\ req' = [req EXCEPT ![r].id = l.id]
      BY <2>4 DEF RelRead, Finish, TypeOK
    <3>2. req'[r].path = q.path /\ req'[r].id = l.id /\ req'[r].user = q.user
      BY <1>1, <3>1 DEF Request, TypeOK
    <3> QED BY <1>1, <2>4, <3>1, <3>2
             DEF Holds, AcquireHolds, ReleaseHolds, BreakHolds, MayRelease, Mine
  <2>5. CASE BrkRead(r) /\ pc'[r] = "brk_update"
    <3>1. l # None /\ ~l.broken /\ req' = [req EXCEPT ![r].id = l.id]
      BY <2>5 DEF BrkRead, Finish, TypeOK
    <3>2. req'[r].path = q.path /\ req'[r].id = l.id
      BY <1>1, <3>1 DEF Request, TypeOK
    <3> QED BY <1>1, <2>5, <3>1, <3>2 DEF Holds, AcquireHolds, ReleaseHolds, BreakHolds
  <2> QED BY <2>1, <2>2, <2>3, <2>4, <2>5
           DEF AcqRead, AcqInsertFails, RelRead, BrkRead, Goto, Finish, TypeOK
<1>6. UniqueIds'
  BY <1>1 DEF ApartInv, UniqueIds
<1>7. PICK at \in Paths : q.path = at
  BY <1>1 DEF Request
<1>8. \A u \in Users : Agrees(u, at)' /\ Owns(u, at)'
  BY <1>1, <1>7, Alone, SameRecords
<1> QED BY <1>1, <1>2, <1>3, <1>4, <1>5, <1>6, <1>7, <1>8, Elsewhere

\* acquire finds a live lock of the caller's own: the record becomes the row's.
LEMMA ApartAnswer ==
  ASSUME TypeOK, ApartInv, OnePerPath, NEW r \in Reqs, AcqRead(r), ~UNCHANGED hold
  PROVE  ApartInv'
<1> DEFINE q == req[r]  l == row[q.path]
<1>1. /\ Finish(r) /\ IsLive(l, q.at) /\ l.owner = q.user
      /\ hold' = [hold EXCEPT ![q.user][q.path] =
                    [text |-> [tok |-> l.tok, hashed |-> TRUE], expires |-> l.expires]]
      /\ UNCHANGED <<now, row, revoked>>
      /\ pc[r] = "acq_read" /\ q \in Request
  BY DEF AcqRead, TypeOK
<1>2. Holds(r)' /\ pc' = [pc EXCEPT ![r] = "idle"] /\ \A s \in Reqs \ {r} : req'[s] = req[s]
  BY <1>1 DEF Finish, Holds, AcquireHolds, ReleaseHolds, BreakHolds, TypeOK
<1>3. UniqueIds'
  BY <1>1 DEF ApartInv, UniqueIds
<1>4. PICK at \in Paths : q.path = at
  BY <1>1 DEF Request
<1>5. ASSUME NEW u \in Users, NEW p \in Paths, <<u, p>> # <<q.user, at>>
      PROVE  hold'[u][p] = hold[u][p]
  BY <1>1, <1>4, <1>5 DEF TypeOK, Request
<1>6. /\ hold'[q.user][at].text.tok = l.tok
      /\ hold'[q.user][at].expires = l.expires
      /\ Mine(q.user, l)
  BY <1>1, <1>4 DEF TypeOK, Request, IsLive, Mine
<1>7. ASSUME NEW u \in Users
      PROVE  Agrees(u, at)' /\ Owns(u, at)'
  <2>1. CASE u = q.user
    BY <1>1, <1>4, <1>6, <2>1 DEF Agrees, Owns
  <2>2. CASE u # q.user
    BY <1>1, <1>4, <1>5, <2>2, Alone, SameRecords
  <2> QED BY <2>1, <2>2
<1>8. ApartInv'
  BY <1>1, <1>2, <1>3, <1>4, <1>5, <1>7, Elsewhere
<1> QED BY <1>8

\* acquire deletes a row that is not live: nobody counts on it.
LEMMA ApartDelete ==
  ASSUME TypeOK, ApartInv, OnePerPath, NEW r \in Reqs, AcqDelete(r)
  PROVE  ApartInv'
<1> DEFINE q == req[r]
<1>1. /\ pc' = [pc EXCEPT ![r] = "acq_insert"] /\ DeleteId(q.id)
      /\ UNCHANGED <<now, req, hold, revoked>>
      /\ pc[r] = "acq_delete" /\ q \in Request
  BY DEF AcqDelete, Goto, TypeOK
<1>2. PICK at \in Paths : q.path = at
  BY <1>1 DEF Request
<1>3. row[at] # None /\ row[at].id = q.id /\ ~IsLive(row[at], now)
  BY <1>1, <1>2 DEF ApartInv, Holds, AcquireHolds
<1>4. \A p \in Paths : row'[p] = IF p = at THEN None ELSE row[p]
  BY <1>1, <1>3 DEF DeleteId, ApartInv, UniqueIds
<1>5. Holds(r)'
  BY <1>1, <1>2, <1>4 DEF Holds, AcquireHolds, ReleaseHolds, BreakHolds, TypeOK
<1>6. UniqueIds'
  BY <1>4 DEF ApartInv, UniqueIds
<1>7. ASSUME NEW u \in Users
      PROVE  Agrees(u, at)' /\ Owns(u, at)'
  <2>1. ~Mine(u, row'[at])
    BY <1>4 DEF Mine
  <2>2. ~ReadingBack(u, at) /\ Agrees(u, at) /\ Owns(u, at)
    BY <1>1, <1>2, Alone DEF ApartInv
  <2>3. ~Believes(u, at)
    BY <1>3, <2>2 DEF Agrees, Owns, Believes, IsLive, Mine
  <2> QED BY <1>1, <2>1, <2>3 DEF Agrees, Owns, Believes
<1> QED BY <1>1, <1>2, <1>4, <1>5, <1>6, <1>7, Elsewhere

LEMMA ApartInsert ==
  ASSUME TypeOK, ApartInv, OnePerPath, NEW r \in Reqs, AcqInsert(r)
  PROVE  ApartInv'
<1> DEFINE q == req[r]
<1>1. /\ pc' = [pc EXCEPT ![r] = "acq_back"] /\ UNCHANGED <<now, req, hold, revoked>>
      /\ pc[r] = "acq_insert" /\ q \in Request
  BY DEF AcqInsert, Goto, TypeOK
<1>2. PICK at \in Paths, v \in Users : q.path = at /\ q.user = v
  BY <1>1 DEF Request
<1>3. PICK n \in 1..MaxGrants : IsNextId(n) /\ InsertRow(at, [id |-> n, owner |-> v,
                 tok |-> q.tok, expires |-> q.expires, broken |-> FALSE])
  BY <1>2 DEF AcqInsert
<1>4. /\ row[at] = None
      /\ row'[at] # None /\ row'[at].id = n /\ row'[at].owner = v
      /\ row'[at].tok = q.tok /\ ~row'[at].broken
      /\ \A p \in Paths \ {at} : row'[p] = row[p]
  <2> DEFINE l == [id |-> n, owner |-> v, tok |-> q.tok,
                   expires |-> q.expires, broken |-> FALSE]
  <2>1. row[at] = None /\ row' = [row EXCEPT ![at] = l]
    BY <1>3 DEF InsertRow
  <2>2. row'[at] = l /\ \A p \in Paths \ {at} : row'[p] = row[p]
    BY <2>1 DEF TypeOK
  <2>3. l # None
    <3>1. l \in Row
      BY <1>1, <1>3, LocksAssumption DEF Request, Row
    <3> QED BY <3>1, RowAssumption
  <2> QED BY <2>1, <2>2, <2>3
<1>5. \A u \in Users : ~Believes(u, at)'
  BY <1>1, <1>4 DEF ApartInv, Owns, Mine, Believes
<1>6. pc'[r] = "acq_back" /\ Holds(r)'
  BY <1>1, <1>2, <1>4, <1>5 DEF Holds, AcquireHolds, ReleaseHolds, BreakHolds, Mine, TypeOK
<1>7. UniqueIds'
  BY <1>3, <1>4 DEF ApartInv, UniqueIds, IsNextId, Ids
<1>8. ASSUME NEW u \in Users
      PROVE  Agrees(u, at)' /\ Owns(u, at)'
  <2>1. Mine(u, row'[at]) => ReadingBack(u, at)'
    BY <1>1, <1>2, <1>4, <1>6 DEF ReadingBack, Mine
  <2> QED BY <1>5, <2>1 DEF Agrees, Owns
<1> QED BY <1>1, <1>2, <1>4, <1>6, <1>7, <1>8, Elsewhere

LEMMA ApartBack ==
  ASSUME TypeOK, ApartInv, OnePerPath, NEW r \in Reqs, AcqBack(r)
  PROVE  ApartInv'
<1> DEFINE q == req[r]
<1>1. pc[r] = "acq_back" /\ q \in Request /\ Finish(r) /\ UNCHANGED <<now, row, revoked>>
  BY DEF AcqBack, TypeOK
<1>2. Holds(r)' /\ pc' = [pc EXCEPT ![r] = "idle"] /\ \A s \in Reqs \ {r} : req'[s] = req[s]
  BY <1>1 DEF Finish, Holds, AcquireHolds, ReleaseHolds, BreakHolds, TypeOK
<1>3. UniqueIds'
  BY <1>1 DEF ApartInv, UniqueIds
<1>4. PICK at \in Paths, v \in Users : q.path = at /\ q.user = v
  BY <1>1 DEF Request
<1>5. Mine(v, row[at]) /\ row[at].tok = q.tok
  BY <1>1, <1>4 DEF ApartInv, Holds, AcquireHolds
<1>6. /\ hold'[v][at].text.tok = row[at].tok
      /\ hold'[v][at].expires = row[at].expires
      /\ \A u \in Users, p \in Paths : <<u, p>> # <<v, at>> => hold'[u][p] = hold[u][p]
  BY <1>1, <1>4, <1>5 DEF AcqBack, TypeOK, Request, Mine
<1>7. ASSUME NEW u \in Users
      PROVE  Agrees(u, at)' /\ Owns(u, at)'
  <2>1. CASE u = v
    BY <1>1, <1>5, <1>6, <2>1 DEF Agrees, Owns
  <2>2. CASE u # v
    BY <1>1, <1>4, <1>6, <2>2, Alone, SameRecords
  <2> QED BY <2>1, <2>2
<1> QED BY <1>1, <1>2, <1>3, <1>4, <1>6, <1>7, Elsewhere

LEMMA ApartRelease ==
  ASSUME TypeOK, ApartInv, OnePerPath, NEW r \in Reqs, RelDelete(r)
  PROVE  ApartInv'
<1> DEFINE q == req[r]
<1>1. /\ pc[r] = "rel_delete" /\ q \in Request /\ Finish(r) /\ DeleteId(q.id)
      /\ UNCHANGED <<now, revoked>>
  BY DEF RelDelete, TypeOK
<1>2. Holds(r)' /\ pc' = [pc EXCEPT ![r] = "idle"] /\ \A s \in Reqs \ {r} : req'[s] = req[s]
  BY <1>1 DEF Finish, Holds, AcquireHolds, ReleaseHolds, BreakHolds, TypeOK
<1>3. PICK at \in Paths, v \in Users : q.path = at /\ q.user = v
  BY <1>1 DEF Request
<1>4. Mine(v, row[at]) /\ row[at].id = q.id
  BY <1>1, <1>3 DEF ApartInv, Holds, ReleaseHolds
<1>5. \A p \in Paths : row'[p] = IF p = at THEN None ELSE row[p]
  BY <1>1, <1>4 DEF DeleteId, ApartInv, UniqueIds, Mine
<1>6. /\ hold'[v][at] = None
      /\ \A u \in Users, p \in Paths : <<u, p>> # <<v, at>> => hold'[u][p] = hold[u][p]
  BY <1>1, <1>3 DEF RelDelete, TypeOK, Request
<1>7. UniqueIds'
  BY <1>5 DEF ApartInv, UniqueIds
<1>8. ASSUME NEW u \in Users
      PROVE  Agrees(u, at)' /\ Owns(u, at)'
  <2>1. ~Mine(u, row'[at])
    BY <1>5 DEF Mine
  <2>2. ~Believes(u, at)'
    <3>1. CASE u = v
      BY <1>6, <3>1 DEF Believes
    <3>2. CASE u # v
      BY <1>1, <1>4, <1>6, <3>2 DEF ApartInv, Owns, Mine, Believes
    <3> QED BY <3>1, <3>2
  <2> QED BY <2>1, <2>2 DEF Agrees, Owns
<1> QED BY <1>1, <1>2, <1>3, <1>5, <1>6, <1>7, <1>8, Elsewhere

\* The owner of the row that breaks was told that row's token.
LEMMA ApartBreak ==
  ASSUME TypeOK, ApartInv, OnePerPath, NEW r \in Reqs, BrkUpdate(r)
  PROVE  ApartInv'
<1> DEFINE q == req[r]
<1>1. /\ pc[r] = "brk_update" /\ q \in Request /\ Finish(r) /\ UNCHANGED <<now, hold>>
  BY DEF BrkUpdate, TypeOK
<1>2. Holds(r)' /\ pc' = [pc EXCEPT ![r] = "idle"] /\ \A s \in Reqs \ {r} : req'[s] = req[s]
  BY <1>1 DEF Finish, Holds, AcquireHolds, ReleaseHolds, BreakHolds, TypeOK
<1>3. PICK at \in Paths : q.path = at
  BY <1>1 DEF Request
<1>4. row[at] # None /\ row[at].id = q.id
  BY <1>1, <1>3 DEF ApartInv, Holds, BreakHolds
<1>5. {p \in Paths : row[p] # None /\ row[p].id = q.id} = {at}
  BY <1>4 DEF ApartInv, UniqueIds
<1>6. /\ \A p \in Paths \ {at} : row'[p] = row[p]
      /\ row'[at] = [row[at] EXCEPT !.broken = TRUE]
      /\ revoked' = revoked \union {row[at].tok}
  BY <1>5 DEF BrkUpdate
<1>7. row[at] \in Row
  BY <1>4 DEF TypeOK
<1>8. row'[at].broken /\ row'[at].id = row[at].id
  BY <1>6, <1>7 DEF Row
<1>9. UniqueIds'
  <2>1. \A p \in Paths : row'[p] # None => row[p] # None /\ row'[p].id = row[p].id
    BY <1>4, <1>6, <1>8
  <2> SUFFICES ASSUME NEW p1 \in Paths, NEW p2 \in Paths, row'[p1] # None,
                      row'[p2] # None, row'[p1].id = row'[p2].id
               PROVE  p1 = p2
    BY DEF UniqueIds
  <2> QED BY <2>1 DEF ApartInv, UniqueIds
<1>10. ASSUME NEW u \in Users
       PROVE  Agrees(u, at)' /\ Owns(u, at)'
  <2>1. ~Mine(u, row'[at])
    BY <1>8 DEF Mine
  <2>2. ~ReadingBack(u, at) /\ Agrees(u, at) /\ Owns(u, at)
    BY <1>1, <1>3, Alone DEF ApartInv
  <2>3. ~Believes(u, at)'
    BY <1>1, <1>6, <2>2 DEF Agrees, Owns, Believes
  <2> QED BY <2>1, <2>3 DEF Agrees, Owns
<1> QED BY <1>1, <1>2, <1>3, <1>6, <1>9, <1>10, Elsewhere

\* A refresh moves the rows and the records of one user together.
LEMMA ApartRefresh ==
  ASSUME TypeOK, ApartInv, RefreshApart, NEW v \in Users, NEW ttl \in Lifetimes,
         Refresh(v, ttl)
  PROVE  ApartInv'
<1>1. UNCHANGED <<now, pc, req, revoked>>
  BY DEF Refresh
<1>2. ASSUME NEW p \in Paths, Mine(v, row[p])
      PROVE  /\ row[p] # None /\ row'[p] # None /\ row'[p].id = row[p].id
             /\ row'[p].owner = v /\ ~row'[p].broken /\ row'[p].tok = row[p].tok
             /\ row'[p].expires = now + ttl
  <2>1. row[p] \in Row
    BY <1>2 DEF Mine, TypeOK
  <2>2. row'[p] = [row[p] EXCEPT !.expires = now + ttl]
    BY <1>2 DEF Refresh
  <2>3. row'[p] \in Row
    BY <2>1, <2>2, LifetimeType DEF TypeOK, Row
  <2> QED BY <1>2, <2>1, <2>2, <2>3, RowAssumption DEF Mine, Row
<1>3. \A p \in Paths : ~Mine(v, row[p]) => row'[p] = row[p]
  BY DEF Refresh
<1>4. ASSUME NEW p \in Paths, Mine(v, row[p]), hold[v][p] # None
      PROVE  hold'[v][p].text = hold[v][p].text /\ hold'[v][p].expires = now + ttl
  BY <1>4 DEF Refresh, TypeOK, Told
<1>5. \A u \in Users, p \in Paths :
        ~(u = v /\ Mine(v, row[p]) /\ hold[v][p] # None) => hold'[u][p] = hold[u][p]
  BY DEF Refresh, TypeOK
<1>6. \A p \in Paths : row'[p] # None => row[p] # None /\ row'[p].id = row[p].id
  BY <1>2, <1>3
<1>7. UniqueIds'
  <2> SUFFICES ASSUME NEW p1 \in Paths, NEW p2 \in Paths, row'[p1] # None,
                      row'[p2] # None, row'[p1].id = row'[p2].id
               PROVE  p1 = p2
    BY DEF UniqueIds
  <2> QED BY <1>6 DEF ApartInv, UniqueIds
<1>8. \A u \in Users, p \in Paths : Mine(u, row[p]) <=> Mine(u, row'[p])
  BY <1>2, <1>3 DEF Mine
<1>9. ASSUME NEW u \in Users, NEW p \in Paths
      PROVE  Agrees(u, p)' /\ Owns(u, p)'
  <2>1. Agrees(u, p) /\ Owns(u, p) /\ (ReadingBack(u, p)' <=> ReadingBack(u, p))
    BY <1>1 DEF ApartInv, ReadingBack
  <2>2. CASE u = v /\ Mine(v, row[p])
    <3>1. Owns(u, p)'
      BY <1>8, <2>2 DEF Owns
    <3>2. Agrees(u, p)'
      BY <1>2, <1>4, <1>5, <2>1, <2>2 DEF Agrees
    <3> QED BY <3>1, <3>2
  <2>3. CASE ~(u = v /\ Mine(v, row[p]))
    <3>1. hold'[u][p] = hold[u][p] /\ (Believes(u, p)' => Believes(u, p))
      BY <1>1, <1>5, <2>3 DEF Believes
    <3>2. Mine(u, row[p]) => row'[p] = row[p]
      BY <1>3, <2>3 DEF Mine
    <3> QED BY <1>8, <2>1, <3>1, <3>2 DEF Agrees, Owns
  <2> QED BY <2>2, <2>3
<1>10. ASSUME NEW r \in Reqs
       PROVE  Holds(r)'
  <2>1. CASE pc[r] = "idle"
    BY <1>1, <2>1 DEF Holds, AcquireHolds, ReleaseHolds, BreakHolds
  <2>2. CASE pc[r] # "idle"
    <3>1. PICK p \in Paths, u \in Users : req[r].path = p /\ req[r].user = u
      BY <2>2 DEF TypeOK, Request
    <3>2. Holds(r)
      BY DEF ApartInv
    <3>3. pc[r] = "acq_delete" => row'[p] = row[p]
      BY <1>3, <3>1 DEF RefreshApart
    <3>4. pc[r] = "acq_insert" => row'[p] = None
      BY <1>3, <3>1, <3>2 DEF Holds, AcquireHolds, Mine
    <3>5. ASSUME pc[r] = "acq_back"
          PROVE  AcquireHolds(r)'
      <4>1. Mine(u, row[p]) /\ row[p].tok = req[r].tok
            /\ (Believes(u, p) => hold[u][p].expires = row[p].expires)
        BY <3>1, <3>2, <3>5 DEF Holds, AcquireHolds
      <4>2. Mine(u, row'[p]) /\ row'[p].tok = row[p].tok
        BY <1>2, <1>3, <1>8, <4>1
      <4>3. CASE u = v
        <5>1. Believes(u, p)' => hold'[u][p].expires = row'[p].expires
          BY <1>2, <1>4, <1>5, <4>1, <4>3 DEF Believes
        <5> QED BY <1>1, <3>1, <3>5, <4>1, <4>2, <5>1 DEF AcquireHolds
      <4>4. CASE u # v
        <5>1. hold'[u][p] = hold[u][p] /\ row'[p] = row[p]
          BY <1>3, <1>5, <4>1, <4>4 DEF Mine
        <5>2. Believes(u, p)' => hold'[u][p].expires = row'[p].expires
          BY <1>1, <4>1, <5>1 DEF Believes
        <5> QED BY <1>1, <3>1, <3>5, <4>1, <4>2, <5>2 DEF AcquireHolds
      <4> QED BY <4>3, <4>4
    <3>6. AcquireHolds(r)'
      BY <1>1, <3>1, <3>2, <3>3, <3>4, <3>5 DEF Holds, AcquireHolds
    <3>7. ReleaseHolds(r)' /\ BreakHolds(r)'
      BY <1>1, <1>2, <1>3, <1>8, <3>1, <3>2 DEF Holds, ReleaseHolds, BreakHolds, Mine
    <3> QED BY <3>6, <3>7 DEF Holds
  <2> QED BY <2>1, <2>2
<1> QED BY <1>7, <1>9, <1>10 DEF ApartInv

\* Time only takes belief away, and a lock that is not live stays so.
LEMMA ApartTick ==
  ASSUME TypeOK, ApartInv, Tick
  PROVE  ApartInv'
<1>1. now \in Nat /\ now' = now + 1 /\ UNCHANGED <<row, pc, req, hold, revoked>>
  BY LocksAssumption DEF Tick, TypeOK
<1>2. \A e \in Expiries : Unexpired(e, now') => Unexpired(e, now)
  BY <1>1, LocksAssumption DEF Unexpired, Expiries, Lifetimes
<1>3. \A u \in Users, p \in Paths : Believes(u, p)' => Believes(u, p)
  BY <1>1, <1>2 DEF Believes, TypeOK, Told
<1>4. \A p \in Paths : IsLive(row[p], now') => IsLive(row[p], now)
  BY <1>2 DEF IsLive, TypeOK, Row
<1>5. ASSUME NEW r \in Reqs
      PROVE  Holds(r)'
  <2>1. AcquireHolds(r) /\ ReleaseHolds(r) /\ BreakHolds(r)
    BY DEF ApartInv, Holds
  <2>2. ReleaseHolds(r)' /\ BreakHolds(r)'
    BY <1>1, <2>1 DEF ReleaseHolds, BreakHolds, Mine
  <2>3. pc[r] # "idle" => /\ req[r].path \in Paths /\ req[r].user \in Users
                          /\ req[r].at \in Nat
    BY LocksAssumption DEF TypeOK, Request
  <2>4. AcquireHolds(r)'
    BY <1>1, <1>3, <1>4, <2>1, <2>3 DEF AcquireHolds, Mine
  <2> QED BY <2>2, <2>4 DEF Holds
<1>6. UniqueIds'
  BY <1>1 DEF ApartInv, UniqueIds
<1>7. ASSUME NEW u \in Users, NEW p \in Paths
      PROVE  Agrees(u, p)' /\ Owns(u, p)'
  <2>1. Agrees(u, p) /\ Owns(u, p) /\ (ReadingBack(u, p)' <=> ReadingBack(u, p))
    BY <1>1 DEF ApartInv, ReadingBack
  <2> QED BY <1>1, <1>3, <2>1 DEF Agrees, Owns
<1> QED BY <1>5, <1>6, <1>7 DEF ApartInv

LEMMA ApartStep ==
  ASSUME TypeOK, ApartInv, OnePerPath, [RefreshApart]_vars, [Next]_vars
  PROVE  ApartInv'
<1>1. ASSUME NEW r \in Reqs, Statement(r) PROVE ApartInv'
  BY <1>1, ApartRead, ApartAnswer, ApartDelete, ApartInsert, ApartBack,
     ApartRelease, ApartBreak
     DEF Statement, AcqInsertFails, RelRead, BrkRead
<1>2. CASE UNCHANGED vars
  BY <1>2 DEF vars, ApartInv, Holds, AcquireHolds, ReleaseHolds, BreakHolds, UniqueIds,
              ReadingBack, Agrees, Owns, Believes, Mine, IsLive, Unexpired
<1>3. ASSUME NEW u \in Users, NEW ttl \in Lifetimes, Refresh(u, ttl) PROVE ApartInv'
  <2>1. CASE RefreshApart
    BY <1>3, <2>1, ApartRefresh
  <2> QED BY <1>2, <2>1
<1> QED BY <1>1, <1>2, <1>3, ApartArrive, ApartTick DEF Next

LEMMA ApartInvariant ==
  Spec /\ []OnePerPath /\ [][RefreshApart]_vars => [](TypeOK /\ ApartInv)
<1>1. Init => ApartInv
  BY DEF Init, ApartInv, Holds, AcquireHolds, ReleaseHolds, BreakHolds, UniqueIds,
         Agrees, Owns, Believes, Mine
<1>2. TypeOK /\ ApartInv /\ OnePerPath /\ [RefreshApart]_vars /\ [Next]_vars => ApartInv'
  BY ApartStep
<1> QED BY <1>1, <1>2, TypeCorrect, PTL DEF Spec

(* However many connections there are: while requests for one path are not  *)
(* in flight together and no refresh revives a lock that an acquire is      *)
(* about to delete, a lock the server granted stays the client's until it   *)
(* expires, the client releases it, or an administrator breaks it.          *)
THEOREM BelieversApart ==
  Spec /\ []OnePerPath /\ [][RefreshApart]_vars => []BelieversHold
<1>1. TypeOK /\ ApartInv => BelieversHold
  <2> SUFFICES ASSUME TypeOK, ApartInv, NEW u \in Users, NEW p \in Paths, Believes(u, p)
               PROVE  row[p] # None /\ row[p].owner = u /\ IsLive(row[p], now)
    BY DEF BelieversHold
  <2>1. Mine(u, row[p])
    BY DEF ApartInv, Owns
  <2>2. hold[u][p].expires = row[p].expires
    <3>1. CASE ReadingBack(u, p)
      BY <3>1 DEF ApartInv, Holds, AcquireHolds, ReadingBack
    <3>2. CASE ~ReadingBack(u, p)
      BY <2>1, <3>2 DEF ApartInv, Agrees, Believes
    <3> QED BY <3>1, <3>2
  <2> QED BY <2>1, <2>2 DEF Mine, IsLive, Believes
<1> QED BY <1>1, ApartInvariant, PTL

-----------------------------------------------------------------------------
(* Refinement of LockTable.                                                 *)

\* The lock the table shows for a row.
Shown(l) == IF l = None \/ l.broken THEN None
            ELSE [owner |-> l.owner, expires |-> l.expires]
ShownLocks == [p \in Paths |-> Shown(row[p])]

\* LockTable's state as a function of this module's.
TableStep == [Table!TableNext]_(Table!tableVars)

LEMMA ShownIsLock ==
  ASSUME TypeOK, NEW p \in Paths
  PROVE  /\ Shown(row[p]) # None <=> row[p] # None /\ ~row[p].broken
         /\ Shown(row[p]) # None => /\ Shown(row[p]).owner = row[p].owner
                                    /\ Shown(row[p]).expires = row[p].expires
BY RowAssumption DEF Shown, TypeOK, Row

LEMMA UnseenStep ==
  ASSUME UNCHANGED <<now, row, last>>
  PROVE  TableStep
BY DEF TableStep, Table!tableVars

\* Users and paths are named by constants here: Table's actions are opaque.
LEMMA RefineInsert ==
  ASSUME TypeOK, ApartInv, NEW r \in Reqs, AcqInsert(r)
  PROVE  TableStep
<1>1. PICK u \in Users, p \in Paths, e \in Expiries, t \in Nat :
        req[r].user = u /\ req[r].path = p /\ req[r].expires = e /\ req[r].tok = t
  BY DEF AcqInsert, TypeOK, Request
<1>2. PICK n \in 1..MaxGrants :
        InsertRow(p, [id |-> n, owner |-> u, tok |-> t, expires |-> e, broken |-> FALSE])
  BY <1>1 DEF AcqInsert
<1>3. [id |-> n, owner |-> u, tok |-> t, expires |-> e, broken |-> FALSE] # None
  <2>1. [id |-> n, owner |-> u, tok |-> t, expires |-> e, broken |-> FALSE] \in Row
    BY LocksAssumption DEF Row
  <2> QED BY <2>1, RowAssumption
<1>4. ShownLocks[p] = None
  BY <1>2 DEF InsertRow, ShownLocks, Shown
<1>5. ShownLocks' = [ShownLocks EXCEPT ![p] = [owner |-> u, expires |-> e]]
  BY <1>2, <1>3 DEF InsertRow, ShownLocks, Shown, TypeOK
<1>6. Table!Grant(u, p)
  BY <1>1, <1>4, <1>5 DEF Table!Grant, ShownLocks, Shown, AcqInsert, Table!Effect, Effect
<1> QED BY <1>6 DEF TableStep, Table!TableNext

LEMMA RefineDelete ==
  ASSUME TypeOK, ApartInv, NEW r \in Reqs, AcqDelete(r)
  PROVE  TableStep
<1>1. PICK p \in Paths, n \in Nat : req[r].path = p /\ req[r].id = n
  BY DEF AcqDelete, TypeOK, Request
<1>2. row[p] # None /\ row[p].id = n /\ ~IsLive(row[p], now)
  BY <1>1 DEF AcqDelete, ApartInv, Holds, AcquireHolds
<1>3. \A x \in Paths : row'[x] = IF x = p THEN None ELSE row[x]
  BY <1>1, <1>2 DEF AcqDelete, DeleteId, ApartInv, UniqueIds
<1>4. ShownLocks' = [ShownLocks EXCEPT ![p] = None]
  BY <1>3 DEF ShownLocks, Shown
<1>5. CASE row[p].broken
  <2>1. ShownLocks' = ShownLocks
    BY <1>4, <1>5 DEF ShownLocks, Shown
  <2> QED BY <2>1 DEF TableStep, Table!tableVars, ShownLocks, Shown, AcqDelete
<1>6. CASE ~row[p].broken
  <2>1. row[p] \in Row /\ now \in Nat
    BY <1>2, LocksAssumption DEF TypeOK
  <2>2. row[p].expires # Never /\ row[p].expires <= now
    BY <1>2, <1>6, <2>1, LocksAssumption
       DEF IsLive, Unexpired, Row, Expiries, Lifetimes
  <2>3. ShownLocks[p] # None /\ ShownLocks[p].expires = row[p].expires
    BY <1>2, <1>6, ShownIsLock DEF ShownLocks
  <2>4. Table!Lapse(p)
    BY <1>4, <2>2, <2>3 DEF Table!Lapse, Table!Expired, ShownLocks, Shown, AcqDelete
  <2> QED BY <2>4 DEF TableStep, Table!TableNext
<1> QED BY <1>5, <1>6

LEMMA RefineRelease ==
  ASSUME TypeOK, ApartInv, NEW r \in Reqs, RelDelete(r)
  PROVE  TableStep
<1>1. PICK u \in Users, p \in Paths, n \in Nat :
        req[r].user = u /\ req[r].path = p /\ req[r].id = n
  BY DEF RelDelete, TypeOK, Request
<1>2. Mine(u, row[p]) /\ row[p].id = n
  BY <1>1 DEF RelDelete, ApartInv, Holds, ReleaseHolds
<1>3. \A x \in Paths : row'[x] = IF x = p THEN None ELSE row[x]
  BY <1>1, <1>2 DEF RelDelete, DeleteId, ApartInv, UniqueIds, Mine
<1>4. ShownLocks' = [ShownLocks EXCEPT ![p] = None]
  BY <1>3 DEF ShownLocks, Shown
<1>5. ShownLocks[p] # None /\ ShownLocks[p].owner = u
  BY <1>2, ShownIsLock DEF ShownLocks, Mine
<1>6. Table!Release(u, p)
  BY <1>1, <1>4, <1>5
     DEF Table!Release, ShownLocks, Shown, RelDelete, Table!Effect, Effect
<1> QED BY <1>6 DEF TableStep, Table!TableNext

LEMMA RefineBreak ==
  ASSUME TypeOK, ApartInv, NEW r \in Reqs, BrkUpdate(r)
  PROVE  TableStep
<1>1. PICK u \in Users, p \in Paths, n \in Nat :
        req[r].user = u /\ req[r].path = p /\ req[r].id = n
  BY DEF BrkUpdate, TypeOK, Request
<1>2. row[p] # None /\ ~row[p].broken /\ row[p].id = n /\ row[p] \in Row
  BY <1>1 DEF BrkUpdate, ApartInv, Holds, BreakHolds, TypeOK
<1>3. \A x \in Paths : row'[x] = IF x = p THEN [row[x] EXCEPT !.broken = TRUE] ELSE row[x]
  BY <1>1, <1>2 DEF BrkUpdate, ApartInv, UniqueIds
<1>4. row'[p].broken
  BY <1>2, <1>3 DEF Row
<1>5. ShownLocks' = [ShownLocks EXCEPT ![p] = None]
  BY <1>3, <1>4 DEF ShownLocks, Shown
<1>6. ShownLocks[p] # None
  BY <1>2, ShownIsLock DEF ShownLocks
<1>7. Table!Break(u, p)
  BY <1>1, <1>5, <1>6 DEF Table!Break, ShownLocks, Shown, BrkUpdate, Table!Effect, Effect
<1> QED BY <1>7 DEF TableStep, Table!TableNext

LEMMA RefineRefresh ==
  ASSUME TypeOK, NEW u \in Users, NEW ttl \in Lifetimes, Refresh(u, ttl)
  PROVE  TableStep
<1>1. PICK e \in Expiries : now + ttl = e
  BY LifetimeType DEF TypeOK
<1>2. \A p \in Paths : row'[p] = IF Mine(u, row[p]) THEN [row[p] EXCEPT !.expires = e]
                                 ELSE row[p]
  BY <1>1 DEF Refresh
<1>3. ASSUME NEW p \in Paths
      PROVE  Shown(row'[p]) = IF Shown(row[p]) # None /\ Shown(row[p]).owner = u
                              THEN [owner |-> u, expires |-> e] ELSE Shown(row[p])
  <2>1. CASE Mine(u, row[p])
    <3>1. row[p] \in Row /\ [row[p] EXCEPT !.expires = e] \in Row
      BY <2>1 DEF Mine, TypeOK, Row
    <3> QED BY <1>2, <2>1, <3>1, RowAssumption DEF Mine, Shown, Row
  <2>2. CASE ~Mine(u, row[p])
    BY <1>2, <2>2, ShownIsLock DEF Mine
  <2> QED BY <2>1, <2>2
<1>4. ShownLocks' = [p \in Paths |-> IF ShownLocks[p] # None /\ ShownLocks[p].owner = u
                                     THEN [owner |-> u, expires |-> e] ELSE ShownLocks[p]]
  BY <1>3 DEF ShownLocks
<1>5. Table!Refresh(u, e)
  BY <1>4 DEF Table!Refresh, ShownLocks, Shown, Refresh, Table!Effect, Effect
<1> QED BY <1>5 DEF TableStep, Table!TableNext

(* Under the same schedules the handlers implement the lock table: a live   *)
(* lock leaves it only by its owner's release, by a break, or by expiry,    *)
(* and nobody is granted a path that somebody has.                          *)
THEOREM RefinesApart ==
  Spec /\ []OnePerPath /\ [][RefreshApart]_vars => ImplementsTable
<1>1. Init => Table!TableInit
  BY DEF Init, Table!TableInit
<1>2. TypeOK /\ ApartInv /\ [Next]_vars => TableStep
  <2> SUFFICES ASSUME TypeOK, ApartInv, [Next]_vars PROVE TableStep
    OBVIOUS
  <2>1. ASSUME NEW r \in Reqs, Arrive(r) PROVE TableStep
    BY <2>1, UnseenStep DEF Arrive, StartAcquire, StartRelease, StartBreak
  <2>2. ASSUME NEW r \in Reqs, Statement(r) PROVE TableStep
    BY <2>2, UnseenStep, RefineInsert, RefineDelete, RefineRelease, RefineBreak
       DEF Statement, AcqRead, AcqInsertFails, AcqBack, RelRead, BrkRead
  <2>3. CASE Tick
    <3>1. Table!Tick
      BY <2>3 DEF Tick, Table!Tick
    <3> QED BY <3>1 DEF TableStep, Table!TableNext
  <2>4. CASE UNCHANGED vars
    BY <2>4, UnseenStep DEF vars
  <2> QED BY <2>1, <2>2, <2>3, <2>4, RefineRefresh DEF Next
<1> QED BY <1>1, <1>2, ApartInvariant, PTL
           DEF Spec, ImplementsTable, Table!TableSpec, TableStep

-----------------------------------------------------------------------------
(* One connection runs one handler from its first statement to its last.    *)

OneAtATime == \A r1, r2 \in Reqs : pc[r1] # "idle" /\ pc[r2] # "idle" => r1 = r2

LEMMA NobodyElse ==
  ASSUME PoolSize = 1, Cardinality(Busy) < PoolSize
  PROVE  \A r \in Reqs : pc[r] = "idle"
<1>1. IsFiniteSet(Busy)
  BY LocksAssumption, FS_Subset DEF Busy
<1>2. Cardinality(Busy) = 0
  BY <1>1, FS_CardinalityType
<1>3. Busy = {}
  BY <1>1, <1>2, FS_EmptySet
<1> QED BY <1>3 DEF Busy

LEMMA OneConnection ==
  ASSUME PoolSize = 1
  PROVE  Spec => []OnePerPath /\ [][RefreshApart]_vars
<1>1. Init => OneAtATime
  BY DEF Init, OneAtATime
<1>2. ASSUME TypeOK, OneAtATime, [Next]_vars
      PROVE  OneAtATime'
  <2>1. ASSUME NEW r \in Reqs, Arrive(r) PROVE OneAtATime'
    <3>1. Cardinality(Busy) < PoolSize /\ \E step : pc' = [pc EXCEPT ![r] = step]
      BY <2>1 DEF Arrive, StartAcquire, StartRelease, StartBreak, Start
    <3>2. \A s \in Reqs \ {r} : pc'[s] = "idle"
      BY <1>2, <3>1, NobodyElse DEF TypeOK
    <3> QED BY <3>2 DEF OneAtATime
  <2>2. ASSUME NEW r \in Reqs, Statement(r) PROVE OneAtATime'
    <3>1. pc[r] # "idle" /\ \E step : pc' = [pc EXCEPT ![r] = step]
      BY <2>2 DEF Statement, AcqRead, AcqDelete, AcqInsert, AcqInsertFails, AcqBack,
                  RelRead, RelDelete, BrkRead, BrkUpdate, Goto, Finish
    <3> QED BY <1>2, <3>1 DEF TypeOK, OneAtATime
  <2>3. CASE UNCHANGED pc
    BY <1>2, <2>3 DEF OneAtATime
  <2> QED BY <1>2, <2>1, <2>2, <2>3 DEF Next, Refresh, Tick, vars
<1>3. OneAtATime => OnePerPath
  BY DEF OneAtATime, OnePerPath
<1>4. [Next]_vars => [RefreshApart]_vars
  BY NobodyElse DEF RefreshApart, Refresh
<1> QED BY <1>1, <1>2, <1>3, <1>4, TypeCorrect, PTL DEF Spec

(* With one connection, a lock the server granted stays the client's until  *)
(* it expires, the client releases it, or an administrator breaks it.       *)
THEOREM SerialBelievers ==
  ASSUME PoolSize = 1
  PROVE  Spec => []BelieversHold
BY OneConnection, BelieversApart, PTL

(* With one connection the handlers implement the lock table.               *)
THEOREM SerialRefines ==
  ASSUME PoolSize = 1
  PROVE  Spec => ImplementsTable
BY OneConnection, RefinesApart, PTL
=============================================================================
