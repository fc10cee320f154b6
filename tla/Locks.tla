------------------------------- MODULE Locks -------------------------------
(* The lock service of src/server/src/locks.rs and its handlers in          *)
(* api/locks.rs.  A handler borrows one pooled SQLite connection and runs   *)
(* its statements one by one OUTSIDE a transaction, so every statement is   *)
(* an atomic step and handlers on different connections interleave between  *)
(* them.  One repository; ACL checks are left out (every user may write,    *)
(* Admins may break).  `hold' is what the clients recorded in their wc.db.  *)
EXTENDS Naturals, FiniteSets

CONSTANTS
  Users, Admins, Paths,
  Reqs,        \* request slots of the server
  PoolSize,    \* connections of the pool: config.rs B_ARTIFACT_DB_POOL_SIZE
  Ttls,        \* lock lifetimes a client may ask for
  DefaultTtl,
  Never,       \* expires_at IS NULL
  None,        \* no row, no token, nothing
  MaxTime,     \* bound on the clock
  MaxGrants    \* bound on the number of acquire requests

ASSUME LocksAssumption ==
  /\ Admins \subseteq Users
  /\ IsFiniteSet(Reqs)
  /\ PoolSize \in Nat \ {0}
  /\ Ttls \subseteq Nat /\ DefaultTtl \in Nat
  /\ MaxTime \in Nat /\ MaxGrants \in Nat
  /\ Never \notin Nat
  /\ None \notin Nat \union {Never} \union Paths \union Users

VARIABLES
  now,      \* the server's clock
  row,      \* the `locks' table: UNIQUE (repo_id, path), so one row per path
  pc, req,  \* each request's next statement, and its local variables
  fresh,    \* the next token
  hold,     \* the clients' lock records: what the last answer told them
  revoked,  \* tokens whose lock an administrator broke (history)
  last      \* the last effect on the table, and whose request it was (history)

vars == <<now, row, pc, req, fresh, hold, revoked, last>>

Lifetimes == Ttls \union {DefaultTtl}
Expiries == {t + l : t \in 0..MaxTime, l \in Lifetimes} \union {Never}
\* Tokens are drawn at random, and the table keeps only their sha256.  The
\* text a client holds is a token itself, or the hash the table has.
Text == [tok : Nat, hashed : BOOLEAN]

Row == [id : Nat, owner : Users, tok : Nat, expires : Expiries, broken : BOOLEAN]
ASSUME RowAssumption ==
  None \notin Row /\ None \notin [owner : Users, expires : Expiries]
Told == [text : Text, expires : Expiries]
Request == [user : Users, path : Paths, at : 0..MaxTime, expires : Expiries,
            tok : Nat, text : Text \union {None}, id : Nat]

Steps == {"idle", "acq_read", "acq_delete", "acq_insert", "acq_back",
          "rel_read", "rel_delete", "brk_read", "brk_update"}

Busy == {r \in Reqs : pc[r] # "idle"}
NullIsExpired(e, t) == e # Never /\ e > t  \* mutant
Unexpired(e, t) == e # Never => e > t
IsLive(l, t) == l # None /\ ~l.broken /\ Unexpired(l.expires, t)
Ids == {row[p].id : p \in {q \in Paths : row[q] # None}}
\* INTEGER PRIMARY KEY without AUTOINCREMENT: one more than the largest id.
IsNextId(n) == n \notin Ids /\ (\A i \in Ids : i < n) /\ (n = 1 \/ n - 1 \in Ids)
\* sha256_hex(t) = token_hash; a request without a token is not checked.
Opens(text, l) == text # None => ~text.hashed /\ text.tok = l.tok

Effect(op, u, p) == [op |-> op, user |-> u, path |-> p]

Init ==
  /\ now = 0 /\ fresh = 0 /\ last = None /\ revoked = {}
  /\ row = [p \in Paths |-> None]
  /\ pc = [r \in Reqs |-> "idle"]
  /\ req = [r \in Reqs |-> None]
  /\ hold = [u \in Users |-> [p \in Paths |-> None]]

\* A handler runs on a pooled connection from its first statement to its last.
StartKeepsLocals(r, step, q) ==  \* mutant
  /\ pc[r] = "idle"
  /\ Cardinality(Busy) < PoolSize
  /\ pc' = [pc EXCEPT ![r] = step]
  /\ UNCHANGED req
Start(r, step, q) ==
  /\ pc[r] = "idle"
  /\ Cardinality(Busy) < PoolSize
  /\ pc' = [pc EXCEPT ![r] = step]
  /\ req' = [req EXCEPT ![r] = q]

Goto(r, step) == pc' = [pc EXCEPT ![r] = step] /\ UNCHANGED req
Finish(r) == pc' = [pc EXCEPT ![r] = "idle"] /\ req' = [req EXCEPT ![r] = None]

Blank(u, p) == [user |-> u, path |-> p, at |-> now, expires |-> Never,
                tok |-> 0, text |-> None, id |-> 0]

-----------------------------------------------------------------------------
(* acquire: read the row; drop a stale one; insert; read back.              *)
StartAcquire(r, u, p, ttl) ==
  /\ fresh < MaxGrants
  /\ fresh' = fresh + 1
  /\ Start(r, "acq_read", [Blank(u, p) EXCEPT
       !.expires = IF ttl = Never THEN Never ELSE now + ttl,
       !.tok = fresh])
  /\ UNCHANGED <<now, row, hold, revoked, last>>

\* The answer a live lock of one's own gets carries the table's token column.
AcqRead(r) ==
  LET q == req[r]  l == row[q.path] IN
  /\ pc[r] = "acq_read"
  /\ \/ /\ l = None
        /\ Goto(r, "acq_insert")
        /\ UNCHANGED hold
     \/ /\ IsLive(l, q.at)
        /\ Finish(r)
        /\ hold' = IF l.owner = q.user
                   THEN [hold EXCEPT ![q.user][q.path] =
                           [text |-> [tok |-> l.tok, hashed |-> TRUE],
                            expires |-> l.expires]]
                   ELSE hold
     \/ /\ l # None /\ ~IsLive(l, q.at)
        /\ pc' = [pc EXCEPT ![r] = "acq_delete"]
        /\ req' = [req EXCEPT ![r].id = l.id]
        /\ UNCHANGED hold
  /\ UNCHANGED <<now, row, fresh, revoked, last>>

\* DELETE FROM locks WHERE id = ?
DeleteId(n) == row' = [p \in Paths |-> IF row[p] # None /\ row[p].id = n
                                        THEN None ELSE row[p]]

AcqDelete(r) ==
  /\ pc[r] = "acq_delete"
  /\ DeleteId(req[r].id)
  /\ Goto(r, "acq_insert")
  /\ UNCHANGED <<now, fresh, hold, revoked, last>>

\* UNIQUE (repo_id, path) turns an insert over a row into an error.
UpsertRow(p, l) == row' = [row EXCEPT ![p] = l]  \* mutant
InsertRow(p, l) == row[p] = None /\ row' = [row EXCEPT ![p] = l]

AcqInsert(r) ==
  LET q == req[r] IN
  /\ pc[r] = "acq_insert"
  /\ \E n \in 1..MaxGrants :
       /\ IsNextId(n)
       /\ InsertRow(q.path, [id |-> n, owner |-> q.user, tok |-> q.tok,
                             expires |-> q.expires, broken |-> FALSE])
  /\ Goto(r, "acq_back")
  /\ last' = Effect("grant", q.user, q.path)
  /\ UNCHANGED <<now, fresh, hold, revoked>>

AcqInsertFails(r) ==
  /\ pc[r] = "acq_insert"
  /\ row[req[r].path] # None
  /\ Finish(r)
  /\ UNCHANGED <<now, row, fresh, hold, revoked, last>>

\* The answer is the row read back, with the plain token in the token's place.
AcqBack(r) ==
  LET q == req[r]  l == row[q.path] IN
  /\ pc[r] = "acq_back"
  /\ Finish(r)
  /\ hold' = IF l = None THEN hold
             ELSE [hold EXCEPT ![q.user][q.path] =
                     [text |-> [tok |-> q.tok, hashed |-> FALSE],
                      expires |-> l.expires]]
  /\ UNCHANGED <<now, row, fresh, revoked, last>>

-----------------------------------------------------------------------------
(* release: read the row and check it; delete it by id.  The client sends   *)
(* the token it recorded, if it recorded one, and forgets it on success.    *)
StartRelease(r, u, p) ==
  /\ Start(r, "rel_read", [Blank(u, p) EXCEPT
       !.text = IF hold[u][p] = None THEN None ELSE hold[u][p].text])
  /\ UNCHANGED <<now, row, fresh, hold, revoked, last>>

MayReleaseAny(q, l) == l # None /\ ~l.broken /\ Opens(q.text, l)  \* mutant
MayRelease(q, l) == l # None /\ ~l.broken /\ l.owner = q.user /\ Opens(q.text, l)

RelRead(r) ==
  LET q == req[r]  l == row[q.path] IN
  /\ pc[r] = "rel_read"
  /\ IF MayRelease(q, l)
     THEN /\ pc' = [pc EXCEPT ![r] = "rel_delete"]
          /\ req' = [req EXCEPT ![r].id = l.id]
     ELSE Finish(r)
  /\ UNCHANGED <<now, row, fresh, hold, revoked, last>>

RelDelete(r) ==
  LET q == req[r] IN
  /\ pc[r] = "rel_delete"
  /\ DeleteId(q.id)
  /\ Finish(r)
  /\ hold' = [hold EXCEPT ![q.user][q.path] = None]
  /\ last' = Effect("release", q.user, q.path)
  /\ UNCHANGED <<now, fresh, revoked>>

-----------------------------------------------------------------------------
(* break: read the row; mark it broken by id, keeping it as a trace.        *)
StartBreak(r, u, p) ==
  /\ Start(r, "brk_read", Blank(u, p))
  /\ UNCHANGED <<now, row, fresh, hold, revoked, last>>

BrkRead(r) ==
  LET q == req[r]  l == row[q.path] IN
  /\ pc[r] = "brk_read"
  /\ IF l # None /\ ~l.broken
     THEN /\ pc' = [pc EXCEPT ![r] = "brk_update"]
          /\ req' = [req EXCEPT ![r].id = l.id]
     ELSE Finish(r)
  /\ UNCHANGED <<now, row, fresh, hold, revoked, last>>

BrkUpdate(r) ==
  LET q == req[r]
      hit == {p \in Paths : row[p] # None /\ row[p].id = q.id} IN
  /\ pc[r] = "brk_update"
  /\ row' = [p \in Paths |-> IF p \in hit THEN [row[p] EXCEPT !.broken = TRUE]
                             ELSE row[p]]
  /\ revoked' = revoked \union {row[p].tok : p \in hit}
  /\ last' = Effect("break", q.user, q.path)
  /\ Finish(r)
  /\ UNCHANGED <<now, fresh, hold>>

-----------------------------------------------------------------------------
(* refresh: ONE statement moves the expiry of all the caller's unbroken     *)
(* rows, the expired ones too, and the answer tells the new expiry.         *)
Mine(u, l) == l # None /\ l.owner = u /\ ~l.broken

Refresh(u, ttl) ==
  /\ Cardinality(Busy) < PoolSize
  /\ row' = [p \in Paths |-> IF Mine(u, row[p])
                             THEN [row[p] EXCEPT !.expires = now + ttl] ELSE row[p]]
  /\ hold' = [hold EXCEPT ![u] = [p \in Paths |->
                IF Mine(u, row[p]) /\ hold[u][p] # None
                THEN [hold[u][p] EXCEPT !.expires = now + ttl] ELSE hold[u][p]]]
  /\ last' = Effect("refresh", u, None)
  /\ UNCHANGED <<now, pc, req, fresh, revoked>>

Tick == /\ now < MaxTime
        /\ now' = now + 1
        /\ UNCHANGED <<row, pc, req, fresh, hold, revoked, last>>

Arrive(r) ==
  \/ \E u \in Users, p \in Paths :
       \/ \E ttl \in Lifetimes \union {Never} : StartAcquire(r, u, p, ttl)
       \/ StartRelease(r, u, p)
  \/ \E u \in Admins, p \in Paths : StartBreak(r, u, p)

Statement(r) ==
  \/ AcqRead(r) \/ AcqDelete(r) \/ AcqInsert(r) \/ AcqInsertFails(r) \/ AcqBack(r)
  \/ RelRead(r) \/ RelDelete(r)
  \/ BrkRead(r) \/ BrkUpdate(r)

Next ==
  \/ \E r \in Reqs : Arrive(r) \/ Statement(r)
  \/ \E u \in Users, ttl \in Lifetimes : Refresh(u, ttl)
  \/ Tick

Spec == Init /\ [][Next]_vars

-----------------------------------------------------------------------------
(* Every variable has its type (the columns of `locks', the handlers'       *)
(* locals, the rows of the client's wc.db).                                 *)
TypeOK ==
  /\ now \in 0..MaxTime /\ fresh \in Nat /\ revoked \subseteq Nat
  /\ row \in [Paths -> Row \union {None}]
  /\ pc \in [Reqs -> Steps]
  /\ req \in [Reqs -> Request \union {None}]
  /\ \A r \in Reqs : pc[r] # "idle" => req[r] \in Request
  /\ hold \in [Users -> [Paths -> Told \union {None}]]

\* What user u was told and has no reason to doubt: unexpired, not released by
\* u (the client forgets it then), and not broken by an administrator.
Believes(u, p) ==
  /\ hold[u][p] # None
  /\ Unexpired(hold[u][p].expires, now)
  /\ hold[u][p].text.tok \notin revoked

(* A lock the server granted and the client still counts on is the lock the *)
(* table has for that path (rule 1 of locks.rs: one path, one holder).      *)
BelieversHold ==
  \A u \in Users, p \in Paths : Believes(u, p) =>
    /\ row[p] # None
    /\ row[p].owner = u
    /\ IsLive(row[p], now)

(* Nobody overwrites a lock in place: a path changes hands only through     *)
(* having no row, even when acquirers on several connections race.          *)
NoOverwrite ==
  [][\A p \in Paths : row[p] # None /\ row'[p] # None => row'[p].tok = row[p].tok]_vars

(* Section 5.1: the token an acquire answers is the client's proof of       *)
(* ownership.  The owner's recorded token opens the lock it has.            *)
StoredTokenOpens ==
  \A u \in Users, p \in Paths :
    hold[u][p] # None /\ IsLive(row[p], now) /\ row[p].owner = u
      => Opens(hold[u][p].text, row[p])

\* The lock table the rows stand for: a broken row is no lock.
Table == INSTANCE LockTable WITH
  lock <- [p \in Paths |-> IF row[p] = None \/ row[p].broken THEN None
                           ELSE [owner |-> row[p].owner, expires |-> row[p].expires]]

(* With the statements of one handler at a time (PoolSize = 1) the rows     *)
(* implement the lock table: a live lock leaves it only by its owner's      *)
(* release, by a break, or by expiry.                                       *)
ImplementsTable == Table!TableSpec
=============================================================================
