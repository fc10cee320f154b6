------------------------------- MODULE BlobGC -------------------------------
(* Life of the content-addressed blobs of src/server/src/storage: uploads   *)
(* (blob.rs), the commit that references them (api/commit.rs), purge        *)
(* (purge.rs), refcount rebuild and garbage collection (gc.rs, admin.rs).   *)
(* A blob is a file on disk plus a row of `blobs' with a refcount; `gc_queue' *)
(* lists the ones to delete.  Commit and purge are transactions; uploads,   *)
(* prepare's and commit's checks, rebuild and run_due are separate          *)
(* statements and file operations that interleave.  Locks and commit_id are *)
(* in CommitProtocol; one repository.                                       *)
EXTENDS Naturals, FiniteSets, FiniteSetsExt

CONSTANTS
  Hashes, Paths,
  Clients,     \* each makes one commit
  Content,     \* [Clients -> SUBSET (Paths \X Hashes)], the files it commits
  Collectors,  \* concurrent POST /admin/maintenance/gc requests
  PoolSize,    \* B_ARTIFACT_DB_POOL_SIZE: database connections
  TokenTtl, Grace,
  None,
  MaxTime,     \* bound on the clock
  MaxPrepares, \* bound on the prepares of one client
  MaxAdmin,    \* bound on purges and refcount rebuilds
  MaxCrashes   \* bound on server crashes

ASSUME BlobAssumption ==
  /\ IsFiniteSet(Clients) /\ IsFiniteSet(Collectors)
  /\ Content \in [Clients -> SUBSET (Paths \X Hashes)]
  /\ PoolSize \in Nat \ {0} /\ TokenTtl \in Nat /\ Grace \in Nat /\ MaxTime \in Nat
  /\ MaxPrepares \in Nat /\ MaxAdmin \in Nat /\ MaxCrashes \in Nat
  /\ None \notin Nat

VARIABLES
  now, head,
  changes,   \* table `changes': which revision put which blob at which path
  count,     \* blobs.refcount, or None when the blob has no row
  files,     \* blob files on disk
  due,       \* gc_queue.due_at, or None when not queued
  pending,   \* each client's pending_commits row, or None
  cpc, cl,   \* clients: next step, local variables
  gpc, gc,   \* collectors: next step, local variables
  rpc,       \* rebuild_refcount: next statement
  admin, crashes,  \* purges and rebuilds, and server crashes, so far
  asked,     \* <<rev, blob>>: the server asked for the blob, and the revision
             \* landed before its token expired (history)
  hurt       \* blobs that were ever referenced without a row (history)

tables == <<head, changes, count, due, pending>>
history == <<asked, hurt>>
vars == <<now, tables, files, cpc, cl, gpc, gc, rpc, admin, crashes, history>>

Blobs(c) == {x[2] : x \in Content[c]}
\* The definition of refcount: revisions that reference the blob.
RevsOf(chg, h) == {x.rev : x \in {y \in chg : y.hash = h}}
Refs(chg, h) == Cardinality(RevsOf(chg, h))
HasRow(h) == count[h] # None

\* need: blobs still to upload; row: need_blobs of the loaded pending row.
Local == [base : Nat, need : SUBSET Hashes, row : SUBSET Hashes,
          expires : Nat, h : Hashes \union {None}, left : Nat]
ClientSteps == {"off", "pre_head", "pre_need", "pre_tx", "upload", "put_file",
                "put_row", "com_find", "com_need", "com_tx", "done"}
Blank(left) == [base |-> 0, need |-> {}, row |-> {}, expires |-> 0, h |-> None,
                left |-> left]
GcLocal == [at : Nat, list : SUBSET Hashes, h : Hashes \union {None}]
Unlisted == [at |-> 0, list |-> {}, h |-> None]
GcSteps == {"idle", "check", "file", "row", "queue"}

Init ==
  /\ now = 0 /\ head = 0 /\ changes = {} /\ files = {}
  /\ count = [h \in Hashes |-> None]
  /\ due = [h \in Hashes |-> None]
  /\ pending = [c \in Clients |-> None]
  /\ cpc = [c \in Clients |-> "off"]
  /\ cl = [c \in Clients |-> Blank(MaxPrepares)]
  /\ gpc = [g \in Collectors |-> "idle"]
  /\ gc = [g \in Collectors |-> Unlisted]
  /\ rpc = "idle" /\ admin = 0 /\ crashes = 0
  /\ asked = {} /\ hurt = {}

clients == <<cpc, cl>>
collectors == <<gpc, gc>>

\* Where a step leaves a blob referenced without a row, the cache is off.
Hurt(chg, cnt) == {h \in Hashes : cnt[h] = None /\ \E x \in chg : x.hash = h}
NoteHurt == hurt' = hurt \union Hurt(changes', count')

\* A handler holds one pooled connection from its first statement to its answer.
Serving == {c \in Clients : cpc[c] \notin {"off", "upload", "done"}}
Collecting == {g \in Collectors : gpc[g] # "idle"}
FreeConnection ==
  Cardinality(Serving) + Cardinality(Collecting) + (IF rpc = "idle" THEN 0 ELSE 1)
    < PoolSize

Goto(c, step) == cpc' = [cpc EXCEPT ![c] = step]
\* Local variables end with the request, and with the client's attempt.
Forget(c) == cl' = [cl EXCEPT ![c] = Blank(cl[c].left)]
Fail(c) == Goto(c, "off") /\ Forget(c)

-----------------------------------------------------------------------------
(* commit/prepare: the need_blobs are those without a row right now.        *)
Prepare(c) ==
  /\ FreeConnection /\ cpc[c] = "off" /\ cl[c].left > 0
  /\ Goto(c, "pre_head")
  /\ cl' = [cl EXCEPT ![c].base = head, ![c].left = @ - 1]
  /\ UNCHANGED <<now, tables, files, collectors, rpc, admin, crashes, history>>

PreHead(c) ==
  /\ cpc[c] = "pre_head"
  /\ IF cl[c].base = head THEN Goto(c, "pre_need") /\ UNCHANGED cl ELSE Fail(c)
  /\ UNCHANGED <<now, tables, files, collectors, rpc, admin, crashes, history>>

PreNeed(c) ==
  /\ cpc[c] = "pre_need"
  /\ Goto(c, "pre_tx")
  /\ cl' = [cl EXCEPT ![c].need = {h \in Blobs(c) : ~HasRow(h)}]
  /\ UNCHANGED <<now, tables, files, collectors, rpc, admin, crashes, history>>

PreTx(c) ==
  /\ cpc[c] = "pre_tx"
  /\ pending' = [pending EXCEPT ![c] = [base |-> cl[c].base, need |-> cl[c].need,
                                        expires |-> now + TokenTtl]]
  /\ Goto(c, "upload")
  /\ UNCHANGED <<now, head, changes, count, due, files, cl, collectors, rpc,
                 admin, crashes, history>>

-----------------------------------------------------------------------------
(* BlobStore::put: nothing to do when row and file are there; otherwise the *)
(* file is renamed into place, then the row inserted if it is missing.      *)
PutCheck(c) ==
  /\ FreeConnection /\ cpc[c] = "upload"
  /\ \E h \in cl[c].need :
       IF HasRow(h) /\ h \in files
       THEN /\ cl' = [cl EXCEPT ![c].need = @ \ {h}]
            /\ UNCHANGED cpc
       ELSE /\ cl' = [cl EXCEPT ![c].h = h]
            /\ Goto(c, "put_file")
  /\ UNCHANGED <<now, tables, files, collectors, rpc, admin, crashes, history>>

PutFile(c) ==
  /\ cpc[c] = "put_file"
  /\ files' = files \union {cl[c].h}
  /\ Goto(c, "put_row")
  /\ UNCHANGED <<now, tables, cl, collectors, rpc, admin, crashes, history>>

PutRow(c) ==
  LET h == cl[c].h IN
  /\ cpc[c] = "put_row"
  /\ count' = [count EXCEPT ![h] = IF HasRow(h) THEN @ ELSE 0]
  /\ Goto(c, "upload")
  /\ cl' = [cl EXCEPT ![c].need = @ \ {h}, ![c].h = None]
  /\ UNCHANGED <<now, head, changes, due, pending, files, collectors, rpc,
                 admin, crashes, history>>

-----------------------------------------------------------------------------
(* commit: the token's checks, then only need_blobs are looked up again.    *)
ComFind(c) ==
  LET row == pending[c] IN
  /\ FreeConnection /\ cpc[c] = "upload" /\ cl[c].need = {}
  /\ \/ /\ row = None
        /\ Fail(c) /\ UNCHANGED pending
     \/ /\ row # None
        /\ ~(row.expires > now /\ row.base = head)
        /\ pending' = [pending EXCEPT ![c] = None]
        /\ Fail(c)
     \/ /\ row # None
        /\ row.expires > now /\ row.base = head
        /\ Goto(c, "com_need")
        /\ cl' = [cl EXCEPT ![c].row = row.need, ![c].expires = row.expires]
        /\ UNCHANGED pending
  /\ UNCHANGED <<now, head, changes, count, due, files, collectors, rpc,
                 admin, crashes, history>>

ComNeed(c) ==
  /\ cpc[c] = "com_need"
  /\ IF \A h \in cl[c].row : HasRow(h) THEN Goto(c, "com_tx") /\ UNCHANGED cl
                                       ELSE Fail(c)
  /\ UNCHANGED <<now, tables, files, collectors, rpc, admin, crashes, history>>

\* refcount + 1 for each blob the commit references, however many its paths.
UsesEachPath(c, h) == Cardinality({x \in Content[c] : x[2] = h})  \* mutant
Uses(c, h) == IF h \in Blobs(c) THEN 1 ELSE 0
\* The commit takes its blobs out of the queue: the grace period is revocable.
ReviveNothing(c) == due' = due  \* mutant
Revive(c) == due' = [h \in Hashes |-> IF h \in Blobs(c) THEN None ELSE due[h]]

ComTx(c) ==
  /\ cpc[c] = "com_tx"
  /\ cl[c].base = head
  /\ head' = head + 1
  /\ changes' = changes \union
       {[rev |-> head + 1, path |-> x[1], hash |-> x[2]] : x \in Content[c]}
  /\ count' = [h \in Hashes |-> IF HasRow(h) THEN count[h] + Uses(c, h) ELSE None]
  /\ Revive(c)
  /\ pending' = [pending EXCEPT ![c] = None]
  /\ NoteHurt
  /\ asked' = IF cl[c].expires > now
              THEN asked \union {<<head + 1, h>> : h \in cl[c].row} ELSE asked
  /\ Goto(c, "done")
  /\ Forget(c)
  /\ UNCHANGED <<now, files, collectors, rpc, admin, crashes>>

ComTxRefused(c) ==
  /\ cpc[c] = "com_tx"
  /\ cl[c].base # head
  /\ Fail(c)
  /\ UNCHANGED <<now, tables, files, collectors, rpc, admin, crashes, history>>

\* A client may stop at any point: what it uploaded stays behind as orphans.
GiveUp(c) ==
  /\ cpc[c] \notin {"off", "done"}
  /\ Fail(c)
  /\ UNCHANGED <<now, tables, files, collectors, rpc, admin, crashes, history>>
-----------------------------------------------------------------------------
(* enqueue_zero_ref: three statements.                                      *)
DueBefore(grace) == now - grace  \* mutant
DueAt(grace) == now + grace
Enqueue(cnt, d, at) ==
  [h \in Hashes |-> IF cnt[h] = 0 /\ d[h] = None THEN at ELSE d[h]]
DropReferenced(cnt, d) ==
  [h \in Hashes |-> IF cnt[h] # None /\ cnt[h] # 0 THEN None ELSE d[h]]
DropGone(cnt, d) == [h \in Hashes |-> IF cnt[h] = None THEN None ELSE d[h]]

\* UPDATE blobs SET refcount = <definition>, for the blobs hs that have a row.
Recount(chg, hs) ==
  [h \in Hashes |-> IF h \in hs /\ HasRow(h) THEN Refs(chg, h) ELSE count[h]]

(* purge_prefix_tx of one path, in one transaction: its history goes, its   *)
(* blobs are recounted, and EVERY blob with refcount 0 is due at once.      *)
Purge(p) ==
  LET gone == {x \in changes : x.path = p} IN
  /\ FreeConnection /\ admin < MaxAdmin /\ admin' = admin + 1
  /\ changes' = changes \ gone
  /\ count' = Recount(changes', {x.hash : x \in gone})
  /\ due' = DropGone(count', DropReferenced(count', Enqueue(count', due, DueAt(0))))
  /\ NoteHurt
  /\ UNCHANGED <<now, head, pending, files, clients, collectors, rpc, crashes, asked>>

(* POST maintenance/rebuild-refcount: the recount, then the queue, each     *)
(* statement on its own.                                                    *)
RebuildCount ==
  /\ FreeConnection /\ rpc = "idle" /\ admin < MaxAdmin
  /\ admin' = admin + 1
  /\ count' = Recount(changes, Hashes)
  /\ rpc' = "enqueue"
  /\ UNCHANGED <<now, head, changes, due, pending, files, clients, collectors,
                 crashes, history>>

RebuildEnqueue ==
  /\ rpc = "enqueue"
  /\ due' = Enqueue(count, due, DueAt(Grace))
  /\ rpc' = "drop_referenced"
  /\ UNCHANGED <<now, head, changes, count, pending, files, clients, collectors,
                 admin, crashes, history>>

RebuildDropReferenced ==
  /\ rpc = "drop_referenced"
  /\ due' = DropReferenced(count, due)
  /\ rpc' = "drop_gone"
  /\ UNCHANGED <<now, head, changes, count, pending, files, clients, collectors,
                 admin, crashes, history>>

RebuildDropGone ==
  /\ rpc = "drop_gone"
  /\ due' = DropGone(count, due)
  /\ rpc' = "idle"
  /\ UNCHANGED <<now, head, changes, count, pending, files, clients, collectors,
                 admin, crashes, history>>

-----------------------------------------------------------------------------
(* run_due: list the due blobs once; then for each: is an unexpired prepare *)
(* waiting for it?  If not, delete file, row and queue entry, one by one.   *)
GcList(g) ==
  LET list == {h \in Hashes : due[h] # None /\ due[h] <= now} IN
  /\ FreeConnection /\ gpc[g] = "idle" /\ list # {}
  /\ gpc' = [gpc EXCEPT ![g] = "check"]
  /\ gc' = [gc EXCEPT ![g] = [at |-> now, list |-> list, h |-> None]]
  /\ UNCHANGED <<now, tables, files, clients, rpc, admin, crashes, history>>

AwaitedByExpired(h, at) == \E c \in Clients :  \* mutant
  pending[c] # None /\ pending[c].expires <= at /\ h \in pending[c].need
Awaited(h, at) == \E c \in Clients :
  pending[c] # None /\ pending[c].expires > at /\ h \in pending[c].need

GcCheck(g) ==
  /\ gpc[g] = "check"
  /\ \/ /\ gc[g].list = {}
        /\ gpc' = [gpc EXCEPT ![g] = "idle"]
        /\ gc' = [gc EXCEPT ![g] = Unlisted]
     \/ \E h \in gc[g].list :
          IF Awaited(h, gc[g].at)
          THEN /\ gc' = [gc EXCEPT ![g].list = @ \ {h}]
               /\ UNCHANGED gpc
          ELSE /\ gc' = [gc EXCEPT ![g].h = h]
               /\ gpc' = [gpc EXCEPT ![g] = "file"]
  /\ UNCHANGED <<now, tables, files, clients, rpc, admin, crashes, history>>

GcFile(g) ==
  /\ gpc[g] = "file"
  /\ files' = files \ {gc[g].h}
  /\ gpc' = [gpc EXCEPT ![g] = "row"]
  /\ UNCHANGED <<now, tables, gc, clients, rpc, admin, crashes, history>>

GcRow(g) ==
  /\ gpc[g] = "row"
  /\ count' = [count EXCEPT ![gc[g].h] = None]
  /\ gpc' = [gpc EXCEPT ![g] = "queue"]
  /\ UNCHANGED <<now, head, changes, due, pending, files, gc, clients, rpc,
                 admin, crashes, asked>>
  /\ NoteHurt

GcQueue(g) ==
  /\ gpc[g] = "queue"
  /\ due' = [due EXCEPT ![gc[g].h] = None]
  /\ gpc' = [gpc EXCEPT ![g] = "check"]
  /\ gc' = [gc EXCEPT ![g].list = @ \ {gc[g].h}, ![g].h = None]
  /\ UNCHANGED <<now, head, changes, count, pending, files, clients, rpc,
                 admin, crashes, history>>

-----------------------------------------------------------------------------
Tick == /\ now < MaxTime
        /\ now' = now + 1
        /\ UNCHANGED <<tables, files, clients, collectors, rpc, admin, crashes, history>>

\* The server dies between two statements: every request of the moment is lost,
\* tables and files stay.
Crash ==
  /\ crashes < MaxCrashes
  /\ crashes' = crashes + 1
  /\ cpc' = [c \in Clients |-> IF cpc[c] = "done" THEN "done" ELSE "off"]
  /\ cl' = [c \in Clients |-> Blank(cl[c].left)]
  /\ gpc' = [g \in Collectors |-> "idle"]
  /\ gc' = [g \in Collectors |-> Unlisted]
  /\ rpc' = "idle"
  /\ UNCHANGED <<now, tables, files, admin, history>>

ClientStep(c) ==
  \/ Prepare(c) \/ PreHead(c) \/ PreNeed(c) \/ PreTx(c)
  \/ PutCheck(c) \/ PutFile(c) \/ PutRow(c)
  \/ ComFind(c) \/ ComNeed(c) \/ ComTx(c) \/ ComTxRefused(c)
  \/ GiveUp(c)

Collect(g) == GcList(g) \/ GcCheck(g) \/ GcFile(g) \/ GcRow(g) \/ GcQueue(g)

Rebuild == RebuildCount \/ RebuildEnqueue \/ RebuildDropReferenced \/ RebuildDropGone

Next ==
  \/ \E c \in Clients : ClientStep(c)
  \/ \E g \in Collectors : Collect(g)
  \/ \E p \in Paths : Purge(p)
  \/ Rebuild \/ Tick \/ Crash

Spec == Init /\ [][Next]_vars

-----------------------------------------------------------------------------
(* Tables, files and locals have their types.                               *)
TypeOK ==
  /\ now \in Nat /\ head \in Nat /\ admin \in Nat /\ crashes \in Nat
  /\ changes \subseteq [rev : Nat, path : Paths, hash : Hashes]
  /\ count \in [Hashes -> Nat \union {None}]
  /\ due \in [Hashes -> Nat \union {None}]
  /\ files \subseteq Hashes
  /\ pending \in [Clients -> [base : Nat, need : SUBSET Hashes, expires : Nat]
                             \union {None}]
  /\ cpc \in [Clients -> ClientSteps] /\ cl \in [Clients -> Local]
  /\ gpc \in [Collectors -> GcSteps] /\ gc \in [Collectors -> GcLocal]
  /\ rpc \in {"idle", "enqueue", "drop_referenced", "drop_gone"}
  /\ asked \subseteq Nat \X Hashes /\ hurt \subseteq Hashes

(* gc.rs semantic 3: a blob the server asked a client to upload, and that    *)
(* its commit then references while the token is valid, keeps row and file  *)
(* for as long as a change of that revision names it, crashes included.     *)
UploadsKept ==
  \A x \in asked :
    (\E y \in changes : y.rev = x[1] /\ y.hash = x[2])
      => HasRow(x[2]) /\ x[2] \in files

(* Section 3.7 of the design: collection deletes only what no revision and  *)
(* no valid prepare references.  No step takes row or file from a blob that *)
(* a change names (unless it lost its row while referenced before), or that *)
(* a client was asked to upload and still may, whatever landed, was purged  *)
(* or recounted since the collector made its list.                          *)
CollectsGarbage ==
  [][\A h \in Hashes : (HasRow(h) /\ ~HasRow(h)') \/ (h \in files /\ h \notin files')
       => ~Awaited(h, now) /\ (h \in hurt \/ ~\E x \in changes : x.hash = h)]_vars

(* gc.rs semantic 1: refcount caches the number of revisions referencing    *)
(* the blob.  Uploads, commits, purges, rebuilds and collection keep it     *)
(* exact, except for a blob that lost its row while referenced.             *)
CountExact ==
  \A h \in Hashes \ hurt : HasRow(h) => count[h] = Refs(changes, h)

(* gc.rs semantic 4: a blob that a revision references is not in the queue. *)
QueuedAreUnreferenced ==
  \A h \in Hashes \ hurt : due[h] # None => ~\E x \in changes : x.hash = h

(* Section 3.7 of the design: collection deletes what no revision and no    *)
(* prepare references, checked inside its transaction.  So every referenced *)
(* blob has its row.                                                        *)
NoDangling == \A x \in changes : HasRow(x.hash)
=============================================================================
