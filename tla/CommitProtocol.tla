--------------------------- MODULE CommitProtocol ---------------------------
(* The two-phase commit of src/server/src/api/commit.rs: `prepare' checks   *)
(* the request and issues a token, `commit' redeems it in one transaction.  *)
(* All checks run statement by statement on a pooled connection, before the *)
(* BEGIN IMMEDIATE transaction, so handlers interleave between them.  One   *)
(* repository; the lock table is seen through LockTable's promise (somebody *)
(* holds a path or nobody does), and blobs are in BlobGC.                   *)
EXTENDS Naturals, FiniteSets

CONSTANTS
  Users, Paths,
  Commits,     \* commit_ids: one per commit a client attempts
  Author,      \* [Commits -> Users]
  Changed,     \* [Commits -> SUBSET Paths], the files of its change list
  Reqs,        \* request slots of the server
  TokenTtl,    \* TOKEN_TTL_SECS
  None,
  MaxTime,     \* bound on the clock
  MaxTokens    \* bound on the tokens issued

ASSUME CommitAssumption ==
  /\ Author \in [Commits -> Users]
  /\ Changed \in [Commits -> SUBSET Paths]
  /\ TokenTtl \in Nat /\ MaxTime \in Nat /\ MaxTokens \in Nat
  /\ None \notin Users \union Nat

VARIABLES
  now,       \* the server's clock
  holder,    \* live lock owner of each path, or None
  head,      \* repos.head_rev
  log,       \* revisions 1..head: whose, by which token, against what
  done,      \* table `commits': commit_id -> rev (0: no row)
  pending,   \* table `pending_commits'
  issued,    \* tokens drawn so far
  given,     \* tokens each client was given, per commit_id
  told,      \* revisions each client was told, per commit_id
  pc, req    \* each request's next statement, and its local variables

vars == <<now, holder, head, log, done, pending, issued, given, told, pc, req>>

Pending == [tok : Nat, cid : Commits, user : Users, base : Nat, expires : Nat]
Revision == [cid : Commits, tok : Nat, user : Users, base : Nat, paths : SUBSET Paths]
\* `as' is the commit_id the request names; `row' the pending row it loaded.
Request == [as : Commits, base : Nat, tok : Nat, left : SUBSET Paths,
            row : Pending \union {None}]

Steps == {"idle", "pre_replay", "pre_head", "pre_paths", "pre_tx",
          "com_replay", "com_find", "com_expiry", "com_head", "com_paths", "com_tx"}

Init ==
  /\ now = 0 /\ head = 0 /\ log = [r \in {} |-> None]
  /\ holder = [p \in Paths |-> None]
  /\ done = [c \in Commits |-> 0]
  /\ pending = {} /\ issued = 0
  /\ given = [c \in Commits |-> {}]
  /\ told = [c \in Commits |-> {}]
  /\ pc = [r \in Reqs |-> "idle"]
  /\ req = [r \in Reqs |-> None]

tables == <<head, log, done, pending, issued>>
clients == <<given, told>>
env == <<now, holder>>

StartKeepsLocals(r, step, q) ==  \* mutant
  /\ pc[r] = "idle"
  /\ pc' = [pc EXCEPT ![r] = step]
  /\ UNCHANGED req
Start(r, step, q) == /\ pc[r] = "idle"
                     /\ pc' = [pc EXCEPT ![r] = step]
                     /\ req' = [req EXCEPT ![r] = q]
Goto(r, step) == pc' = [pc EXCEPT ![r] = step] /\ UNCHANGED req
Finish(r) == pc' = [pc EXCEPT ![r] = "idle"] /\ req' = [req EXCEPT ![r] = None]

Tell(c, rev) == told' = [told EXCEPT ![c] = @ \union {rev}] /\ UNCHANGED given
DropToken(t) == pending' = {q \in pending : q.tok # t}

-----------------------------------------------------------------------------
(* Both handlers start with the idempotent short cut on commit_id.          *)
ReplayHead(r, from, to) ==  \* mutant
  LET c == req[r].as IN
  /\ pc[r] = from
  /\ IF done[c] # 0 THEN Tell(c, head) /\ Finish(r)
                    ELSE UNCHANGED clients /\ Goto(r, to)
  /\ UNCHANGED <<tables, env>>
Replay(r, from, to) ==
  LET c == req[r].as IN
  /\ pc[r] = from
  /\ IF done[c] # 0 THEN Tell(c, done[c]) /\ Finish(r)
                    ELSE UNCHANGED clients /\ Goto(r, to)
  /\ UNCHANGED <<tables, env>>

(* check_paths: every changed file must carry a live lock of the author;    *)
(* one lookup per path.  Directories and the ACL are left out.              *)
MayWrite(c, p) == holder[p] = Author[c]

CheckPath(r, at, next) ==
  LET q == req[r] IN
  /\ pc[r] = at
  /\ \/ /\ q.left = {} /\ Goto(r, next)
     \/ \E p \in q.left :
          \/ /\ MayWrite(q.as, p)
             /\ req' = [req EXCEPT ![r].left = @ \ {p}]
             /\ UNCHANGED pc
          \/ ~MayWrite(q.as, p) /\ Finish(r)
  /\ UNCHANGED <<tables, clients, env>>

-----------------------------------------------------------------------------
(* POST commit/prepare                                                      *)
StartPrepare(r, c, base) ==
  /\ Start(r, "pre_replay", [as |-> c, base |-> base, tok |-> 0,
                             left |-> Changed[c], row |-> None])
  /\ UNCHANGED <<tables, clients, env>>

PreReplay(r) == Replay(r, "pre_replay", "pre_head")

PreHead(r) ==
  /\ pc[r] = "pre_head"
  /\ IF req[r].base # head THEN Finish(r)  \* OUT_OF_DATE
                           ELSE Goto(r, "pre_paths")
  /\ UNCHANGED <<tables, clients, env>>

PrePaths(r) == CheckPath(r, "pre_paths", "pre_tx")

\* One transaction: the commit_id's old token goes, the new one comes.
AddToken(c, row) == pending' = pending \union {row}  \* mutant
Supersede(c, row) == pending' = {q \in pending : q.cid # c} \union {row}

PreTx(r) ==
  LET c == req[r].as IN
  /\ pc[r] = "pre_tx"
  /\ issued < MaxTokens
  /\ Supersede(c, [tok |-> issued, cid |-> c, user |-> Author[c],
                   base |-> req[r].base, expires |-> now + TokenTtl])
  /\ issued' = issued + 1
  /\ given' = [given EXCEPT ![c] = @ \union {issued}]
  /\ Finish(r)
  /\ UNCHANGED <<head, log, done, told, env>>

-----------------------------------------------------------------------------
(* POST commit.  The request names a commit_id and brings a token, one that *)
(* somebody was given, and maybe for another commit_id.                     *)
Tokens == UNION {given[c] : c \in Commits}
StartCommit(r, c, t) ==
  /\ t \in Tokens
  /\ Start(r, "com_replay", [as |-> c, base |-> 0, tok |-> t,
                             left |-> {}, row |-> None])
  /\ UNCHANGED <<tables, clients, env>>

ComReplay(r) == Replay(r, "com_replay", "com_find")

ComFind(r) ==
  LET found == {q \in pending : q.tok = req[r].tok} IN
  /\ pc[r] = "com_find"
  /\ \/ found = {} /\ Finish(r)
     \/ \E q \in found :
          /\ pc' = [pc EXCEPT ![r] = "com_expiry"]
          /\ req' = [req EXCEPT ![r].row = q, ![r].left = Changed[q.cid]]
  /\ UNCHANGED <<tables, clients, env>>

\* A second SELECT for expires_at: by now the row may be gone (an error).
ComExpiry(r) ==
  LET row == req[r].row  found == {q \in pending : q.tok = row.tok} IN
  /\ pc[r] = "com_expiry"
  /\ \/ /\ found # {} /\ row.expires > now /\ row.user = Author[req[r].as]
        /\ Goto(r, "com_head")
        /\ UNCHANGED pending
     \/ /\ found # {} /\ row.expires <= now
        /\ DropToken(row.tok)
        /\ Finish(r)
     \/ /\ found = {} \/ (row.expires > now /\ row.user # Author[req[r].as])
        /\ Finish(r)
        /\ UNCHANGED pending
  /\ UNCHANGED <<head, log, done, issued, clients, env>>

ComHead(r) ==
  LET row == req[r].row IN
  /\ pc[r] = "com_head"
  /\ IF row.base # head
     THEN DropToken(row.tok) /\ Finish(r)  \* OUT_OF_DATE
     ELSE UNCHANGED pending /\ Goto(r, "com_paths")
  /\ UNCHANGED <<head, log, done, issued, clients, env>>

ComPaths(r) == CheckPath(r, "com_paths", "com_tx")

\* apply_commit_tx: head_rev read again inside the transaction.
HeadNotBehind(row) == row.base <= head  \* mutant
HeadUnmoved(row) == row.base = head
\* commits.commit_id is the primary key.
KeyFree(c) == done[c] = 0
TrustEarlierChecks(c, row) == TRUE  \* mutant
CanLand(c, row) == HeadUnmoved(row) /\ KeyFree(c)

ComTx(r) ==
  LET c == req[r].as  row == req[r].row IN
  /\ pc[r] = "com_tx"
  /\ CanLand(c, row)
  /\ head' = head + 1
  /\ log' = [n \in 1..(head + 1) |-> IF n \in DOMAIN log THEN log[n] ELSE
              [cid |-> c, tok |-> row.tok, user |-> row.user, base |-> row.base,
               paths |-> Changed[row.cid]]]
  /\ done' = [done EXCEPT ![c] = head + 1]
  /\ pending' = {q \in pending : q.cid # c}
  /\ Tell(c, head + 1)
  /\ Finish(r)
  /\ UNCHANGED <<issued, env>>

\* The transaction rolls back: OUT_OF_DATE, or the key's error.
ComTxRefused(r) ==
  /\ pc[r] = "com_tx"
  /\ ~CanLand(req[r].as, req[r].row)
  /\ Finish(r)
  /\ UNCHANGED <<tables, clients, env>>

\* The request's next statement answers 409 OUT_OF_DATE.
OutOfDate(r) ==
  \/ pc[r] = "pre_head" /\ req[r].base # head
  \/ pc[r] = "com_head" /\ req[r].row.base # head
  \/ pc[r] = "com_tx" /\ ~HeadUnmoved(req[r].row)

-----------------------------------------------------------------------------
(* The world around the handlers: locks are taken, released, broken or      *)
(* expire; the clock moves; the server crashes and its requests are lost.   *)
TakeLock(u, p) == /\ holder[p] = None
                  /\ holder' = [holder EXCEPT ![p] = u]
                  /\ UNCHANGED <<tables, clients, now, pc, req>>

LoseLock(p) == /\ holder[p] # None
               /\ holder' = [holder EXCEPT ![p] = None]
               /\ UNCHANGED <<tables, clients, now, pc, req>>

Tick == /\ now < MaxTime
        /\ now' = now + 1
        /\ UNCHANGED <<tables, clients, holder, pc, req>>

Crash == /\ pc' = [r \in Reqs |-> "idle"]
         /\ req' = [r \in Reqs |-> None]
         /\ UNCHANGED <<tables, clients, now, holder>>

Arrive(r) == \E c \in Commits :
  \/ \E base \in 0..head : StartPrepare(r, c, base)
  \/ \E t \in Tokens : StartCommit(r, c, t)

Statement(r) ==
  \/ PreReplay(r) \/ PreHead(r) \/ PrePaths(r) \/ PreTx(r)
  \/ ComReplay(r) \/ ComFind(r) \/ ComExpiry(r) \/ ComHead(r) \/ ComPaths(r)
  \/ ComTx(r) \/ ComTxRefused(r)

Next ==
  \/ \E r \in Reqs : Arrive(r) \/ Statement(r)
  \/ \E u \in Users, p \in Paths : TakeLock(u, p)
  \/ \E p \in Paths : LoseLock(p)
  \/ Tick \/ Crash

Spec == Init /\ [][Next]_vars

-----------------------------------------------------------------------------
(* The tables, the clients' answers and the handlers' locals have their     *)
(* types, and revisions are numbered without gaps.                          *)
TypeOK ==
  /\ now \in Nat /\ head \in Nat /\ issued \in Nat
  /\ holder \in [Paths -> Users \union {None}]
  /\ log \in [1..head -> Revision]
  /\ done \in [Commits -> Nat]
  /\ pending \subseteq Pending
  /\ given \in [Commits -> SUBSET Nat] /\ told \in [Commits -> SUBSET Nat]
  /\ pc \in [Reqs -> Steps]
  /\ req \in [Reqs -> Request \union {None}]
  /\ \A r \in Reqs : pc[r] # "idle" => req[r] \in Request
  /\ \A r \in Reqs : pc[r] \in {"com_expiry", "com_head", "com_paths", "com_tx"}
                      => req[r].row \in Pending

(* No lost update: every revision was made against the one right before it, *)
(* whatever prepares and commits were in flight when it landed.             *)
LinearHistory == \A n \in 1..head : log[n].base = n - 1

(* A commit_id lands at most once, under the revision the `commits' table   *)
(* has for it: retries never produce a second revision.                     *)
OneRevisionPerCommit ==
  /\ \A n \in 1..head : done[log[n].cid] = n
  /\ \A c \in Commits : done[c] # 0 => done[c] \in 1..head /\ log[done[c]].cid = c

(* Every answer about a commit_id, first or replayed, names its revision.   *)
AnswersAgree == \A c \in Commits : told[c] \subseteq {done[c]} \ {0}

(* commit.rs: commits are atomic and may be repeated safely.  The whole     *)
(* protocol is a log that each commit_id joins at most once, on top of the  *)
(* last revision.  What joins was prepared by the same author: with its     *)
(* token, which no other revision was made with.  Nothing that was logged   *)
(* changes, and answers, first or repeated, name the commit_id's revision.  *)
Log == INSTANCE CommitLog
ImplementsLog == Log!LogSpec

(* Section 5.3: the token is bound to user, repo, commit_id, base_rev and   *)
(* changes_hash.  What lands under a commit_id was prepared under it.       *)
BoundToCommit == \A n \in 1..head : log[n].tok \in given[log[n].cid]

(* At most one token is redeemable per commit_id, however often the client  *)
(* prepared it.                                                             *)
OneTokenPerCommit == \A q1, q2 \in pending : q1.cid = q2.cid => q1 = q2

(* commit.rs: between prepare and commit locks may change, so the check is  *)
(* repeated and fails closed.  What is about to land is locked by its       *)
(* author.                                                                  *)
LandsLocked == \A r \in Reqs :
  pc[r] = "com_tx" /\ CanLand(req[r].as, req[r].row) =>
    \A p \in Changed[req[r].row.cid] : holder[p] = req[r].row.user

(* commit.rs: a commit may be retried safely over the network.  No request  *)
(* is about to be answered OUT_OF_DATE for a commit_id that has landed.     *)
RetrySafe == \A r \in Reqs : OutOfDate(r) => done[req[r].as] = 0
=============================================================================
