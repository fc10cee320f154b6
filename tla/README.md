# A verification development for b-artifact

b-artifact is centralized version control for binary assets: a Rust server over
SQLite and a content-addressed blob store, an Electron client with a working copy,
and a web console for administrators. Files are locked before they are changed,
commits have two phases, and administrators can purge history.

This directory holds TLA+ models of the parts where the order of events matters,
the TLC configurations that check them on small instances, and TLAPS proofs for
every value of the constants. Everything is translated from `src/`; `PROJECT.json`
maps each definition to its lines. Checking a module:

    tlc -workers 2 -config Commit.cfg MCCommitProtocol
    tlapm CommitProofs.tla

## 1. The system

| component | code | state | operations |
|---|---|---|---|
| lock service | `server/src/locks.rs`, `api/locks.rs` | table `locks`, UNIQUE (repo, path) | acquire, release, break, refresh, list |
| two-phase commit | `api/commit.rs` | `commits`, `pending_commits`, `repos.head_rev` | prepare, commit |
| path history | `storage/repo.rs` | `changes`, `revisions`, `head_entries` | apply_commit_tx, restore, file_at, list_dir_at |
| purge | `storage/purge.rs`, `api/admin.rs` | all of the above for a prefix | purge_prefix_tx, rebuild_head_tree_tx |
| blobs and GC | `storage/blob.rs`, `storage/gc.rs`, `api/admin.rs` | files, `blobs.refcount`, `gc_queue` | put, rebuild_refcount, enqueue_zero_ref, run_due |
| transfer | `api/transfer.rs` | upload directories, a mutex per upload | missing, put, chunked upload, download |
| connection pool | `storage/pool.rs`, `state.rs` | idle connections, open count, condition variable | get, drop |
| permissions | `acl.rs`, `storage/acl.rs` | prefix rules | evaluate, require |
| sessions | `auth/*`, `api/auth.rs` | sessions, login limiter | login, resolve, revoke, LDAP provisioning |
| administration, read API | `api/admin.rs`, `api/repos.rs` | users, groups, repositories | CRUD, tree, log, diff |
| working copy | `client/src/core/wc.ts`, `db.ts` | `wc.db`: entries, locks, staging | commit, update, lock, unlock, restore |
| scan | `client/src/core/scan.ts` and helpers | mtime cache | scanDisk, computeStatus |
| content cache | `client/src/core/pristine.ts`, `cache.ts` | files by hash | import, ensure, evict |
| main process | `client/src/main/*` | sessions, watchers | IPC handlers |
| renderer, CLI, console | `client/src/renderer`, `cli.ts`, `admin/src` | presentation | - |

**Interaction.** A client request is a handler of the server. It borrows ONE
connection of the pool (4 by default, `B_ARTIFACT_DB_POOL_SIZE`) from its first
statement to its last. Some sequences of statements are `BEGIN IMMEDIATE`
transactions (the landing of a commit, prepare's token, purge); all others are
single auto-committed statements, between which handlers on other connections run.
`commit` calls the lock service's lookup and `apply_commit_tx`, adjusts refcounts
and takes blobs off the GC queue; `purge` rewrites history, releases locks,
recounts blobs and queues them; the collector reads `pending_commits`. The client
calls prepare, uploads what the server asked for, calls commit, and then releases
the locks of the committed files. Nothing runs in the background except the
manifest hash after a commit: GC and refcount rebuild are administrator requests.

**What is hard, and what makes each part correct.**

- *Locks*: check-then-act over several statements; tokens stored as hashes;
  expiry. Correct when a client that was granted a lock and told nothing since has
  it, and when a lock leaves the table only by release, break or expiry.
- *Commit*: retries after lost answers, two commits on the same base, tokens that
  expire, locks that change hands. Correct when history is linear, a commit_id
  lands once and all answers name its revision.
- *Blobs*: the collector races uploads and commits; refcount and queue are caches.
  Correct when nothing referenced is deleted and the caches equal what they cache.
- *History*: old trees are derived from changes, tombstones and HEAD. Correct when
  every old file and listing is what a plain tree per revision would show.
- *Pool*: a mutex, a condition variable and a counter that is also changed without
  the mutex; opening a connection can fail. Correct when it never exceeds its size and
  no waiter is forgotten.
- *Uploads*: sessions on disk, one mutex each in a map whose entries are dropped while
  others wait for them, completion in many steps, crashes. Correct when what is stored
  and served is what was declared, and what was acknowledged is not lost.
- *Permissions*: levels inherited over directories, barriers, three kinds of subjects;
  rules, groups and ids change while requests decide by them. Correct when enforcement,
  preview and every reader agree with the definition.
- *Accounts*: a login is a chain of steps on different connections; sessions outlive
  what their login proved; administrators act on each other. Correct when the lock-out
  bounds guessing, revocation is final and a session is its owner's.
- *Working copy*: a client dying between the server's commit and its own bookkeeping.
  Planned (section 7).

`PROJECT.json` lists these hazards one by one, at their lines.

## 2. Modules

| module | models |
|---|---|
| `LockTable` | the abstract lock table: what the lock service promises |
| `Locks` | the lock service statement by statement, and the clients' lock records |
| `MCLocks` | symmetry for TLC |
| `LocksProofs` | theorems about `Locks` |
| `CommitLog` | the log of revisions that the two-phase commit promises |
| `CommitProtocol` | prepare and commit statement by statement |
| `MCCommitProtocol` | two commits of one user, and one of another who takes locks too |
| `CommitProofs` | theorems about `CommitProtocol` |
| `BlobGC` | blobs: upload, commit, purge, rebuild, collection |
| `MCBlobGC` | two clients sharing one blob |
| `BlobProofs` | theorems about `BlobGC` |
| `PathHistory` | changes, HEAD tree, derived history, restore, purge |
| `MCPathHistory` | small path trees |
| `HistoryProofs` | theorems about `PathHistory` |
| `BoundedPool` | what the connection pool promises |
| `DbPool` | the connection pool: get, drop, failing openings, wake-ups |
| `DbProofs` | theorems about `DbPool` |
| `ChunkUpload` | upload sessions, single PUT and ranged download of one blob |
| `MCChunkUpload` | symmetry for TLC |
| `UploadProofs` | theorems about `ChunkUpload` |
| `AclRules` | the permission engine and the filters of the readers, as functions |
| `Acl` | rules, groups and members, as the administration handlers change them |
| `MCAcl` | nested directories, a tree and a history |
| `AclProofs` | theorems about `Acl` and `AclRules` |
| `Accounts` | logins, limiter, accounts, sessions and their revocation |
| `MCAccounts` | one local name, one directory entry |
| `AccountsProofs` | theorems about `Accounts` |

The modules divide the server by table. `CommitProtocol` sees locks through
`LockTable`'s promise (`holder`: somebody holds a path or nobody does, and this can
change at any moment); `BlobGC` sees commit as two checks and a transaction and
leaves commit_id to `CommitProtocol`; `PathHistory` sees commit and purge as the
transactions they are. `Locks`, `BlobGC` and `Acl` see the pool through
`BoundedPool`'s promise: at most `PoolSize` requests are between their statements,
which `DbProofs` proves of the real one. `ChunkUpload` is the storing of one blob that
`BlobGC` has as `PutCheck`, `PutFile`, `PutRow`; `Acl` extends the functions of `AclRules`.

### Locks

`row` is the table; the UNIQUE constraint is why it has one row per path. `pc` and
`req` are the next statement and the local variables of each request in flight.
One action is one SQL statement: `AcqRead`, `AcqDelete` (a stale row, by the id
read before), `AcqInsert` / `AcqInsertFails` (UNIQUE), `AcqBack` (the read back
that becomes the answer), `RelRead`, `RelDelete`, `BrkRead`, `BrkUpdate`, and
`Refresh`, which is one statement in the code too. `StartX` borrows the
connection: at most `PoolSize` requests are between start and finish. The row id is
`INTEGER PRIMARY KEY` without AUTOINCREMENT, so ids of deleted rows come back
(`IsNextId`); this matters because deletes go by id. `hold` is the `locks` table
of the client's `wc.db`. A token is a number; the table stores its hash, so the
text a client holds is a token or the hash of one (`Text`).

Left out: comments and audit rows, permissions (every user may write, `Admins` may
break), more than one repository (statements name the repository), `list_locks`
(it only reads), and purge's release of the purger's own locks.

### CommitProtocol

`head`, `log` (revisions with the base they were made against), `done` (`commits`),
`pending` (`pending_commits`). `prepare` is `PreReplay`, `PreHead`, `PrePaths`
(one lock lookup per path), `PreTx`; `commit` is `ComReplay`, `ComFind`,
`ComExpiry` (the second SELECT, and the deletion of an expired token), `ComHead`,
`ComPaths`, `ComTx` / `ComTxRefused`. A client may prepare and redeem any number of
times, under any base up to HEAD. `commit` may bring any token that any client was ever
given, under any commit_id, because the handler compares the token with the user and the
repository only: retries, duplicates, lost answers and tokens of another commit_id are all
just that. `Crash` loses the requests in flight
and keeps the tables. `OutOfDate` is the state in which a request's next statement answers
409 OUT_OF_DATE. The look-up of the need_blobs is in `BlobGC`. `CommitLog` is what all this promises: tokens are drawn once; a commit_id
joins the log once, on top of the last revision, with a token drawn for the same author that
no other revision was made with, and with the files that token was drawn for; one answer is
given about it. Under the mapping (`Log`) `PreTx` is `Draw`, `ComTx` is `Land`, and
everything else, replays included, a stutter.

### BlobGC

`count` is `blobs.refcount` (None: no row), `files` the files on disk, `due` the
queue. Clients run prepare, upload, commit; `PutFile` and `PutRow` are separate
because a rename and an INSERT are. Collectors run `run_due`: the list is read once,
then per blob the look at `pending_commits`, the file, the row, the queue entry.
`RebuildCount` and the three statements of `enqueue_zero_ref` run one by one;
inside `Purge` they are in its transaction. `ComFind` joins the token's checks
(find, expiry, head), which `CommitProtocol` has apart. `asked` and `hurt` are
history variables (section 3). Local variables are blank again when a request ends.

Left out: codecs, the hash check of an upload (a blob is its hash) and chunked upload
(a `PutCheck`..`PutRow` at its end), all of which `ChunkUpload` has; the batch limit of
`run_due`, several repositories, deletion of a repository.

### PathHistory

`changes` and `tree` (`head_entries`) are the tables. `plain` is the reference: per
revision what a plain file tree contains after the same changes. `Apply` runs
`apply_commit_tx` over the change list with `EnsureDirs` and `PruneUpward`;
`FileAt`, `ExplicitAlive`, `CoveringTombstone`, `Candidates`, `DirExists`,
`Listable`, `ListedFiles`, `ListedDirs` and `DirAliveAt` are the functions of
`repo.rs`. Prefix ranges compare text, so the constant `StartsWith` says which paths'
text begins with a path's: for `a/b` that includes its sibling `a/bc`.
`ChangesOf` are the changes `to_changes` lets pass, of what exists (or, for an addition, does
not): a file is added where nothing is, modified, deleted or given attributes (`meta`) where a
file is; a directory is deleted where one is, and those of `NamedDirs` are also made, and given
attributes, as such. A `meta` leaves `head_entries` as it is (mode and mtime are not modelled)
and inserts a row into `changes` like every other change, with no content. `Coherent` and
`NotBelowDeleted` are what a disk makes of a list. A list is a set that `Apply` works off in
path order, in which the client sends it; `Commit` lands the list as it is, where a directory's
deletion is one change, as the API allows, or spread over all that is below (`Spread`), as
`wc.ts` does. The server takes both; the client never sends `meta` or mkdir. `Restore`
is `repo::restore`, which no route of the API calls yet; it lands `RestoredFiles` and then `RestoredDirs`.

Three predicates name rows that mislead a reader of the last row of a path. `Touched`: the last
row of a file is a `meta`. `Remade`: a directory's tombstone is followed by another row of the
directory. `Claimed`: a directory got a `meta` when nobody had made it as such. Besides, a sibling's
text may continue a directory's (`StartsWith`). The properties except these where they bite and
nowhere else; section 4 has what happens there.

Left out: sizes, modes, times; the `manifest_hash`; a path that turns from file to directory,
also by a restore; changes of what does not exist (the API takes a deletion or `meta` of a path
that is not there, and a list in an order other than the client's).

### DbPool

`idle` is the number of connections in the mutex's vector, `live` the atomic count, `pc`
where each thread is in `get` or in the drop of a `Pooled`. The mutex is held at `look`
and `full`. Steps under the mutex that nobody else can see are one action (`Take`,
`Reserve`, `Return`); the look at `live` and the wait are two (`Full`, `Wait`), because
`Undo` changes `live` without the mutex and can come between them. `NotifyOne` wakes any
sleeper or nobody. A thread is a runtime worker with at most one connection: every
handler takes its connection inside one closure and no closure takes a second.
Fairness is in section 3.

### ChunkUpload

One session directory per `upload_id` (`dir`: whether meta.json is there, and what is in
each chunk file), the blob's `file` and `row`, and `gen`, which stands for the identity of
the mutex that the map has for a session: `forget_upload` makes the next request take
another. `put_chunk` is `PutWrite`, `PutRename`; `complete_upload` is `CompCheck`,
`CompCopy` per chunk, `CompVerify`, `CompFile`, `CompRow`, `CompRemove`, `Audit`, `Forget`;
`delete_upload` is `DelCheck`, `DelRemove`, `Forget`; `put_blob` is `WholeCheck`, `WholeFile`,
`WholeRow`; a download is `Download` (the row), `Open` (the file, with any range), `Sent`. A
chunk is what the client meant or damaged (`Bodies`); removing a directory can fail half-way
(`Rest`); `Crash` forgets requests and mutexes. The codec decisions of `put` and of
`put_from_file` are constants, because the encoders behind them differ; the run has them
different, which is the hard case. `crossed` is a history variable: a single PUT and a completion
that decided differently were both past their look for the blob.

Left out: `missing`, HEAD, who may upload, the `.assemble` file (it is named after a fresh
id), blobs of other hashes (they share nothing).

### AclRules and Acl

`AclRules` is functions of a set of rules: `pick`, `resolve_layer`, `effective_level` are the
enforced evaluation, `trace` the preview's own walk with `trace_step` (it asks each layer
for itself and does not call `effective_level`), and `tree`, `list_dirs`, `changes`,
`authorize_download` what each reader lets through. A path is the sequence of its
segments, so `prefixes_for_path` is the sequence of its initial parts. Rules come out of the
table in the order of their ids (`by_id`), and `pick` is the loop over them that it is in the code,
as a recursive function: a later rule replaces the best so far when it `beats` it.

`Acl` has the tables `acl_rules`, `groups`, `group_members`. Every handler identifies its caller
first (`Begin`, with the groups of that moment), then loads and authorizes (`PutLoad`,
`UpdateLoad`, `DeleteLoad`, `GroupCount`), then writes. Rule and group ids are row ids that come
back after a deletion.

Left out: listing rules and repositories, the who-can-access report, `check_paths` of lock and commit (the
same evaluation per path), the log.

### Accounts

`users`, `sessions`, the limiter's map, and the directory (who owns which name there). A login is
`Check`, `authenticate`, `record_fail` or `record_success`, `provision` (with the first-administrator
grant in its transaction) or `grant`, `issue`, `Answer`, each on its own connection. A request of
a session is `require_user` and then one transaction: `create_user`, `update_user`, `delete_user`,
`reset_password`, `change_password`; `logout` is atomic because it deletes by the token alone.
`LockEnds` is the passing of `locked_until`; `DirectoryChanges` gives a name to another person.
`guesses`, `ended`, `crossed`, `displaced` and a session's `proof` are history variables.
`displaced` has what a change of an account leaves behind: `provision`, which gives
the account of a name to whoever has that name in the directory now, unless he has one, ends none of the sessions the
account had, nor logins on their way to one; `delete_user` does not see logins on their way.

Left out: what passwords are and how they are hashed, session expiry (like a revocation that
nobody asked for), `local_enabled = false`, display names and e-mail.

## 3. Runs

| run | question | bounds | result |
|---|---|---|---|
| `Locks_serial` | do clients' beliefs hold, do the rows implement the lock table? | 2 users, 2 paths, 1 connection, 3 acquires, clock 0..1 | holds |
| `Locks_pool` | can racing acquirers overwrite a lock? | 2 users, 1 path, 2 connections | holds |
| `Commit` | lost updates, duplicate revisions, several tokens; is it one log with one answer per commit? | 2 commits of one author (a file; directories only), 1 of another who takes locks too, 2 requests in flight, 2 tokens, 1 tick, any number of crashes | holds |
| `Blob_serial` | is what the server asked for kept, and is only garbage collected? | 2 clients sharing a blob over 2 paths, 1 collector, 1 connection, 2 purges or rebuilds, 1 crash, clock 0..2 | holds |
| `Blob_pool` | are refcount and queue exact? | the same with 2 connections, clock 0..1 | holds |
| `Blob_dangling` | does every referenced blob have its row? | 1 connection | **violated** |
| `History` | HEAD, old files and old listings against plain trees | a, a/b, a/b/f, a/bc; 2 contents; 4 revisions of up to 2 changes, 5 rows of `changes`; mkdir and `meta` of a; 1 purge | holds |
| `History_meta` | does file_at answer the content a file had? | the same | **violated** |
| `Pool` | size, lost wake-ups, service under fairness, refinement | 4 threads, 2 connections | holds |
| `Upload` | is what is stored and served what was declared? | 1 session of 2 chunks (the last one shorter), encoders that decide differently, 2 requests, 1 failing removal, 1 crash | holds |
| `Acl` | do enforcement, preview and readers agree; who can change what? | rules at root, a, a/b and the file a/f; 1 user and 1 administrator; 2 groups, 2 rules, none and admin; 1 request | holds |
| `Accounts` | guessing, revocation, ownership, an administrator remains | 2 names, 2 persons, 1 change of the directory, 2 requests, 2 ids, 2 tokens, lock after 2 failures | holds |

Properties in words:

- `BelieversHold`: who was granted a lock that has not expired, was not released by
  its holder and not broken by an administrator, has it in the table.
- `ImplementsTable`: refinement of `LockTable`; `lock` is the row, or None when it is
  marked broken. A deletion of an expired row is a lapse.
- `NoOverwrite` (action property): a path changes hands only through having no row.
- `LinearHistory`: revision n was made against n - 1. `OneRevisionPerCommit`,
  `OneTokenPerCommit`: what idempotence promises.
- `ImplementsLog`: refinement of `CommitLog`. On top of the above it says that nothing logged
  changes, that a revision has the author and files its token was prepared for, that a token
  lands once, and that answers, first or repeated, name the revision of their commit_id
  (`AnswersAgree`).
- `UploadsKept`: a blob that prepare listed as needed, and that the commit then
  references while its token is valid, keeps row and file as long as that revision
  names it. It is stated for blobs the server asked for, because for the others it
  is false (`NoDangling`).
- `CollectsGarbage` (action property): no step takes row or file of a blob that a change names (unless
  it once lost its row while referenced) or that a valid token waits for.
- `CountExact`, `QueuedAreUnreferenced`: refcount equals the number of revisions that
  reference the blob, and no referenced blob waits for deletion, except for blobs
  that were ever referenced without a row (`hurt`): the count of those is off because
  of what `Blob_dangling` shows, and these properties are about everything else.
- `HeadIsPlain`: the HEAD tree has the files of the plain tree with their content,
  its directories, implicit ones included, and its explicit flags.
- `FilesRemembered`: below directories whose tombstones show, `file_at` finds a file in a revision
  exactly when it was there, and its content unless the file is touched. `EveryFileRemembered` is the
  same without any exception, and false. `NoGhosts`: old listings show nothing that was not there, with
  the same exceptions for files, and for directories those of `Readable`. `NothingMissing`: they show
  all that was there, as long as changes are the client's (`ClientsOnly`).
- `NeverTooMany`, `EnoughAwake`, `NobodySleepsAlone`, `KeepsServing`, `EveryoneAnswered`,
  `ImplementsPool`: the count is exact and bounded; while somebody sleeps, as many threads are
  on their way to the idle connections as there are; somebody awake will return or look for one;
  connections keep being given out while anybody waits; when requests stop, all are answered;
  and the whole is a bounded pool.
- `StoredIsDeclared`, `NothingLost`, `Exclusive`, `ServedIsBlob`: a row stands for a file with the
  declared content, in the row's codec unless two writers that decided differently crossed; an
  acknowledged chunk stays until the blob is stored or its owner gives up; two requests are in one
  session's section only when the session is over; every download is the bytes of the blob that its
  range names, with the same exception.
- `LevelIsNearest`, `TraceAgrees`, `ReadersAgree`, `WritesAreDelegated`: the walk up from a path
  finds what the definition from the root down says; the preview explains the enforced level; tree shows
  a file exactly when changes show it and every directory on the way is readable, and the directory list
  is tree's; and only who administers a path, or a
  directory above it, changes anybody's level there.
- `BoundedGuesses`, `AdminRemains`, `RevocationHolds`, `SessionsAreOwned`: between two locks at most
  `max_fails - 1` failures and one per login in flight; an administrator who is not disabled remains
  unless administrators' requests crossed; a revoked token never works again; a session belongs to the
  account and the person its login proved, or is one that `provision` or `delete_user` left behind.

Each property has a mutant in `PROJECT.json`: a small change of one definition, such
as a bug there would make, under which TLC finds the property violated.

**Why the bounds are enough.** Races need two actors, and both of the pool's
orders of any two handlers' statements appear with two requests. Three acquires let
a path be granted, lost and granted again while an id is reused; two tokens are one for each of two
commits that race, of one author or of two, or two for one commit prepared twice, and each token can
be brought for any commit, also by a user it was not given to. Only one of the commits has a file: what
others do about a path reaches a commit through the path's lock, and the other user takes and loses
that at any moment. A crash can come at every point. Clock steps
cover before, at and after an expiry (one tick with a lifetime of one). For history,
the four paths have a directory in a directory, a file at the bottom and, next to the inner
directory, a file whose name continues the directory's, which are the cases that pruning, tombstones
and prefix ranges distinguish; four revisions allow add, delete, add again and one change more.
Two connections and four threads let the pool be full while somebody opens, somebody
fails and two wait. Two chunks of different length let completion stop between them. Two groups
are needed for a tie; two rules for a rule under a barrier; one split request is
enough because the other changes (groups, members) need no second connection; its bound is
discussed in section 4. Two ids and two tokens let an id be given to somebody else and a token
outlive another.

**Deadlock** is not checked where bounded clocks and counters stop a model in the
end, or where a system all of whose clients are idle may stop. `DbPool`, `ChunkUpload`, `Acl` and
`Accounts` never stop, and are checked for it.

**Fairness** is assumed in `DbPool` only: weak fairness of `Proceed(t)` for each thread. The operating
system runs every runnable thread, and a handler ends, because `busy_timeout` bounds its
statements. Nothing is assumed of requests (`Ask`), of spurious wake-ups, or of which branch an
opening takes. The two liveness properties have the premise `Settles`, finitely many spurious
wake-ups, without which a sleeper could be woken for ever in front of a full pool. That a
PARTICULAR waiter is served is not claimed and is false: `std::sync::Mutex` is not fair and
newcomers overtake the woken. The other modules state no liveness: their requests end by
themselves, and nothing but a repeated request of the client makes progress after a failure.

## 4. What the runs found

Kept as runs:

- *Present blobs are not looked up again* (`Blob_dangling`): only the hashes missing at prepare are
  looked up at commit, so a blob that was there may be purged and collected in between, and the
  revision references nothing.
- *An attribute change hides the content* (`History_meta`): `to_changes` gives a file's `meta` no
  `blob_hash` (`commit.rs:67-89`), `apply_commit_tx` inserts the row all the same (`repo.rs:518`), and
  `file_at` answers the last row of the path, whatever its op. A file is added, then only its attributes
  change: at that revision and after it, until the next change of its content, `file_at` has the
  file without a hash. HEAD still shows it. So do listings of old revisions that need not ask
  `file_at`; those that must show the empty hash, and `restore` puts it into HEAD. The client never sends
  `meta`, but prepare and commit accept it.

Stated in the modules as properties that the code does not have. To see the counterexample,
take the named configuration, replace its invariants and properties by the property, and give the
constants as said:

- `StoredTokenOpens` (`Locks_serial`, one path). The idempotent branch of `acquire`
  (`locks.rs:184-199`) returns the row, whose `token` column is the sha256. The client stores
  that (`wc.ts:949`), and its next release fails with a token mismatch. The design (line 754)
  promises an idempotent answer with a usable token.
- `LandsLocked` (`Commit`). The repeated lock check (`commit.rs:476`) precedes the
  transaction at line 504 and is not in it; a lock lost in between does not stop the revision.
- `RetrySafe` (`Commit`). The replay look-up and the head check are separate statements, so
  a retry that overlaps its first attempt can be told OUT_OF_DATE about a commit that landed.
- `BoundToCommit` (`Commit`, 13 states). Section 5.3 of the design binds the token to user, repository,
  commit_id, base and changes (lines 779 and 792). `commit` compares user and repository
  (`commit.rs:447`), and takes base and changes from the token's row, but never compares its
  commit_id with the request's: a token prepared as one commit_id lands as another of the same user,
  and a retry of the first is then OUT_OF_DATE. `ImplementsLog` says what is left.
- `RewriteIsHarmless` (`Upload`).
  `blob.rs` says that a later writer overwrites a file with the same content and no side effect.
  `put` chooses by the size of the bulk encoder's output and `put_from_file` by the stream
  encoder's, which differ by a few bytes, so near the threshold the two choose differently: the
  later rename then leaves a file whose codec is not the row's, and every download decodes it wrongly.
  `StoredIsDeclared` and `ServedIsBlob` except the codec after such a crossing, and nothing else.
- `DownloadsFailClosed` (`Acl`, 4 states). The head of `transfer.rs` (line 17) refuses a download when
  ANY path at HEAD with the content is unreadable. `authorize_download` lets one readable path suffice
  (lines 118-121), and its own comment (88-89) says that. In the run `a/f` and `h` have one content; a user
  kept out of `a` gets it by `h`.

The exceptions of the properties, each taken away in the run that has it:

- `FilesRemembered` without `TombstonesShow` (4 states): `covering_tombstone` looks at the last
  change of an ancestor, and a directory that is deleted and made again hides its own
  tombstone, so files deleted with it reappear in history, and `restore` takes them for real.
- `NoGhosts` without the first conjunct of `Readable` (3 states): `dir_alive_at` passes the bare directory
  path to `prefix_bounds`, which wants the slash (`repo.rs:194`); because of the sibling `a/bc` the listing
  of an old revision shows directory `a/b` before it existed. Without `~Claimed` (4 states): a `meta` of a
  directory that nobody made inserts a row that reads like a mkdir. Without `~Remade`: with five revisions
  and no sibling (6 states), as for `FilesRemembered`.
- `NothingMissing` without the second conjunct of `ClientsOnly` (4 states): a file a/b, then mkdir of a (the
  row of `a` gets the later revision), then a change of a/b: the listing of the first revision lacks `a`.
  Without the third (3 states): `deleted_between` looks below the directory, where a bare tombstone
  leaves no record. The first, that nothing was purged, is needed because the rebuild gives
  directories the `changed_rev` of a remaining file; it takes more revisions than the run has.
- `SessionsAreOwned` without `displaced` (11 states): the directory gives a name to another person,
  whose first login makes `provision` bind the account of that name to him (`provision.rs:52-60`), and
  the sessions of the person before go on, in an account that is no longer his. Also (16 states), an
  account is deleted after a login found it; its id goes to another account, and the login's session
  is that account's.

Seen while modelling, and not kept as runs:

- With two connections `BelieversHold` fails: `acquire` deletes by id the stale row it
  read, and a refresh between the two had made that row live again. Without any refresh
  it fails too, when two acquires of one path overlap: the lock of the first expires before it reads
  its row back, the second deletes that row and inserts its own, and the first answers its client
  with the expiry of the second's lock.
- With two connections `UploadsKept` and `CollectsGarbage` fail: `run_due` looks at `pending_commits`
  and then deletes, and looks at neither refcount nor queue again, so a commit served in between
  loses its blob.
- With a/b in `NamedDirs`, too, `HeadIsPlain` fails after a purge (3 states):
  `rebuild_head_tree_tx` does not restore the implicit parents of explicit directories.
- With two purges `NoGhosts` fails (5 states): the first rebuild gives an explicit directory the
  `changed_rev` of a file below it, the second purge removes that file, and the row keeps a
  revision at which the directory did not exist yet.
- Pool: the notification after a failed opening (`pool.rs:102`, sent without the mutex) can be lost
  between another thread's look at `live` and its wait. It is only a delay: the connection that
  `DbPool::new` opened is never closed, so whoever has it notifies when it comes back. Without
  that first connection (the mutant `ColdInit`) everybody can sleep for ever.
- Uploads: a damaged chunk counts as received, so a resumed upload never sends it again and
  completion fails until the session is deleted; a `complete` whose answer was lost is answered 404
  when repeated; the `.assemble` file is left in `data/tmp` on a mismatch and when the blob was there
  already; an audit that fails after the directory is gone answers 500 for a stored blob.
- Permissions: with two connections and two requests `WritesAreDelegated` fails: PUT and DELETE by id
  act on whatever rule has the id by then (ids come back), which is why the run has one. `changes`
  is said to agree with `tree`, but what is readable below an unreadable directory is in `changes` and not
  in `tree`; `ReadersAgree` says that this is the only difference. Deleting a
  group counts its rules and deletes in two statements, and a rule's subject is never looked up:
  rules of vanished groups and users stay and are inherited by the next owner of the id.
- Accounts: two administrators whose requests cross can demote each other and leave none; a login
  that authenticated before a password reset issues a session that survives it; a login in
  flight that succeeds erases a lock set meanwhile; an id freed between provision and issue
  gets the session of the account that had it. `AdminRemains` is claimed
  outside the first of these crossings (`crossed`). When two accounts exist before the first login, nobody
  becomes administrator by it. `change_password` checks the old password outside the limiter.
- A file that became a directory on disk is committed as additions below a path that
  HEAD still has as a file, and the server accepts it.

## 5. What is proved

Every invariant, action property and refinement that a passing run checks is also the conclusion of a
theorem, for every value of the constants that satisfies the assumptions below. Where a
theorem has a hypothesis, it is one on schedules or on the instance under which the property holds
and without which TLC finds it violated (section 4); where a property has exceptions, they are
in its own statement and the same in the run and in the theorem.

**Assumptions on the constants.** `LocksAssumption`, `RowAssumption`, `CommitAssumption`,
`BlobAssumption`, `HistoryAssumption`, `UploadAssumption`, `AclAssumption`, `AccountsAssumption`, the
`NoneAssumption` of `ChunkUpload` and of `Acl`: the constants have their types, None and Never
are different from the values they stand apart from, and the sets of requests, clients and
collectors are finite. `PoolAssumption`: finitely many threads and a pool of at least one.
`HistoryAssumption` also says that `Parent` and `Ancestors` describe a forest and that `Order` lists
every path once. TLC evaluates all of them in the runs.

**Induction over data.** The induction theorems of the library take an operator as a parameter,
which the provers here cannot instantiate. Proofs about recursive functions and loops (`pick`, `trace`,
`Apply`, `PruneUpward`, the walk over ancestors) therefore use the least counterexample instead:
`Least` says that a non-empty set of numbers has a least element, `UpTo` turns that into induction up
to a bound, and each recursive function is first shown to exist with its defining equation.

`LocksProofs`:
- `TypeCorrect`, by one step per action.
- `NeverOverwritten`: follows from the step alone, and needs no assumption on the pool:
  `InsertRow` is the only statement that puts a row where none was, and no other
  changes a token.
- `HolderIsTakenOrLost`, from the same look at each step: whoever asks `covering_lock` finds a path
  without a holder between two holders. That is the link to `CommitProtocol`, whose `TakeLock` and
  `LoseLock` are these changes.
- `BelieversApart` and `RefinesApart` are for any number of connections, and assume of the schedule
  that no two requests for one path are in flight together (`OnePerPath`), and that nobody refreshes a
  lock that an acquire judged stale and has yet to delete (`RefreshApart`); without either the
  property is false (section 4). The inductive invariant is `ApartInv`: what a request read of its path
  is still so (`Holds`: for a delete by id, the row with that id is still the row it judged), ids
  are unique (`UniqueIds`), a client's record of its lock agrees with the row except while a new one
  is read back (`Agrees`), and believers own the row (`Owns`). The type invariant alone is not
  enough: `RelDelete` deletes by id, ids come back, and only `Holds` with `UniqueIds` says that the id
  is still the caller's row. `Elsewhere` says once that requests for other paths are not disturbed.
- `SerialBelievers` and `SerialRefines`: with `PoolSize = 1` the pool schedules like that by itself.
- The refinement: every action maps to a step of `LockTable` or to a stutter;
  reads and failures stutter, `AcqDelete` is `Lapse` or, for a row marked broken, a stutter.

`CommitProofs` needs no assumption on the number of requests, users or paths:
- `Linear` from the type invariant: only `ComTx` appends, and it compares the base with the
  head inside the transaction. The checks before it are not needed, which is what one
  wants to know.
- `LandsOnce` from the primary key of `commits` (`KeyFree`), `SameAnswer` from it and from the
  fact that `done` never changes once set, `SingleToken` from `Supersede` being one transaction.
- `LandsAsPrepared` assumes nothing of clients, who bring any token under any commit_id: a revision has
  the author of its commit_id and the files of a commit_id of that author whose token it was made with
  (`OfItsAuthor`), and a token lands once (`TokensSpent`). That it is the same commit_id is
  `BoundToCommit`, which is false. The invariant is `TokenInv`: tokens are drawn once and every row, also
  one that a request loaded and that is gone meanwhile, carries what its token was drawn for
  (`TokensGiven`); past `ComExpiry` the row's user is the request's (`RowsVetted`); and a row whose token
  landed is for a base that is no longer HEAD (`SpentBases`), which is why it cannot land again,
  although landing removes the rows of the request's commit_id and not the token's.
- `Refines` (`ImplementsLog`): `LandImplements` for `ComTx`, `DrawImplements` for `PreTx`, `OthersStutter`
  for the rest, which needs
  `Heard` (a landed commit_id has been answered, so a replay adds no answer) and all of the above.
- Of the two properties the code does not have (section 4), what is left: `PatientRetriesAreSafe`,
  `RetrySafe` for clients that have one request about a commit in flight at a time (`OneAtATime`; a
  client that retries after its own time-out does not); and `LandsLockedButForTheGap`, `LandsLocked`
  as long as no author loses the lock of a file between its check in `commit` and the transaction
  (`LocksStay`), which shows that this gap is the only one.

`BlobProofs`:
- `CountsAreExact` and `QueueIsUnreferenced` for any number of connections, clients and collectors.
  They are inductive together with the types and `HurtIsNoted` (a blob referenced without a row is in
  `hurt`). The types carry that revisions are numbered up to `head`, without which a commit could
  meet its own references (`CommitCounts`: landing adds exactly one to what it uses).
- `UploadsAreKept` and `OnlyGarbageIsCollected` (`CollectsGarbage`) are for any number of connections, and
  assume `Quiet`: no prepare, upload or commit is being served while a collector runs. Requests may
  overlap one another, several collectors may run, purges and rebuilds may be half way through beside
  either, and a client between two requests may be anywhere; this is what an administrator who
  collects in a maintenance window gets. Without it both are false (section 4).
  `OneConnectionSuffices`: with `PoolSize = 1` the pool schedules like that by itself. The invariant is
  `Serial`: what a request read is still so, whoever else is served (`Holds`); a collector lists what
  nothing references and deletes of it what nobody waited for when it made its list (`Spares`); a blob
  that an unexpired token waits for has its file if it has its row (`WaitedFor`), and what was asked
  for and landed is out of every collector's reach (`Kept`). Crashes and the clock may come anywhere.

`HistoryProofs` is about any forest of paths and any number of revisions and changes:
- The invariant `HInv` says that `plain`, the plain tree of every revision, is a tree whose
  files are leaves and that the table of changes tells of it (`Told`), that the table has one change per
  revision and path (`Recorded`), and that HEAD has exactly the rows of the last plain tree (`Agree`).
  One change keeps `Agree` (`PutAgrees`, `DeleteAgrees`), hence the list does (`ApplyHasStages`,
  `AfterOneMore`, `ListAgrees`); a landed list leaves the table telling of the new tree too
  (`TellsAfter`), and what clients commit, what `restore` computes and what a purge leaves are such
  lists and tables (`CommitFits`, `RestoreFits`, `PurgedRows`, `RebuiltAgrees`).
- The lists are all that `ChangesOf` allows: attribute changes, mkdirs, deletions with and without what
  is below. Directories may be made again and siblings may have any names. A `meta` keeps `Told` because
  the table tells whether a file was there by rows of any op, and what it held by its last row that is
  no `meta`: hence the exceptions `Touched` and `TombstonesShow` of `FilesRemembered`, and no others.
- `HeadIsExact` and `HistoryIsKept` assume only that nothing is purged or that directories are made
  as such at the top only (`Purgeable`).
- `ListingsAreTrue` (`NoGhosts`) also needs `RowsLast` (one purge, or no mkdir). Its invariant is `Since`:
  what a row says has held since the row's revision. Siblings and misleading rows are exceptions of
  the property for the directories they concern (`Readable`).
- `ListingsAreComplete` (`NothingMissing`) is about histories in which changes were the client's
  (`ClientsOnly`, the premise of the property). Its invariant is `Traced`: a file of an
  old revision is deleted by name later, or is still there and so are the rows on the way to
  it, no younger than that revision (`WayKept`).
- `HistoryIsNotRewritten` has no hypothesis at all: no step changes what `file_at` answers for a
  revision, right or wrong, except that a purge empties it. Rows of later revisions are not read, and
  that is all it takes.

`DbProofs`, for any number of threads and any size of the pool:
- `NeverExceeds`, `WakeUpsKept`, `CompanyKept` and `TypeCorrect` from one inductive invariant, `IInv`.
  The properties are not inductive: `Counted` needs to know who owns a connection (`Owning`);
  that `Wait` loses no wake-up needs `StillEmpty` (who saw the pool full still has the mutex, so
  nobody returned a connection since), which needs `Mutex`; that the unguarded
  notification does no harm needs `FirstStays`, that one connection is always idle or in use.
- The proof counts threads. `Moved` says what one thread's step does to the number of those at
  a set of steps, `Balanced` what a step must satisfy to keep the invariant (`MoveInv`); each
  action is then a line of arithmetic. `NotifyOne` moves two threads (`Swapped`).
- `Refines`: taking or opening a connection is `Lend`, returning it `GiveBack`, everything else
  stutters; `Room` shows that there is one to lend.

`UploadProofs`, for blobs of any size, any chunk size, any number of sessions and requests:
- `AcknowledgedIsKept` (`NothingLost`), `MutexUntilOver` (`Exclusive`) and `TypeCorrect` from one
  invariant: `Progress` (what each step of a handler relies on, and that a session whose mutex was
  ever replaced is over) and `Holders` (two requests under the same mutex are not both inside; nobody
  has a mutex that the map does not have yet). `Exclusive` follows: two requests inside have
  different mutexes, so one was forgotten.
- `WhatIsStored` and `WhatIsServed` assume nothing of the encoders: the content is always what was
  declared, and every answer to any range is those bytes of the blob (`AnswerServes`), decoded
  rightly unless a single PUT and a completion that decided differently crossed. The invariant is
  `Encoded`: without a crossing, writers past their look for the blob all write the same codec, which is
  the row's if there is one (`Apart`), and a download that has read the row opens a file of that
  codec (`Reading`).

`AclProofs`, for any tree of directories, any users, groups and rules:
- `Nearest` (`LevelIsNearest`): the loop of `pick` finds the foremost rule of its kind (`Picks`,
  `ForemostIsLeast`), a layer's answer is its rules' word (`LayerIsWord`), and the first layer that answers
  on the way up is the last one on the way down (`UpIsDown`). `PreviewAgrees` (`TraceAgrees`) follows
  the preview's loop (`Walked`) to the same layer, including the barrier it reports.
- `OnePolicy` (`ReadersAgree`): tree and changes ask the same level of the same path, and tree asks it of
  the directories on the way as well, level by level down (`TreeAndChanges`); `DirsAreTree` for the
  directory list. It is about both directions, and says nothing of downloads (`DownloadsFailClosed`).
- `DelegatedWhenAlone` (`WritesAreDelegated`) is for any number of connections, and assumes that no rule
  is checked while another request has yet to write one (`OneWriter`); without that it is false
  (section 4). The invariant is that what a request checked is still in the tables when it writes
  (`Permitted`). That a write changes no level elsewhere is `SameLevel`: a level depends on the rules at
  the path and above it only. Groups may change and be deleted in between: a request carries its
  caller's groups. `Delegation`: with `PoolSize = 1` the pool schedules like that, for any number of
  requests, which the run (one request) does not show.

`AccountsProofs`, for any number of names, persons, requests and ids:
- `NeverLetInAgain` (`RevocationHolds`): no row of `sessions` has a token that was ever revoked, and new
  tokens are new.
- `AdministratorRemains`: the first login makes an administrator (`FirstIsAdmin`), and whoever acts on
  accounts is one and cannot demote, disable or delete itself (`ActorKeepsRights`). With the property's
  premises that is inductive; it says nothing of crossed requests, after which it is false.
- `GuessesAreBounded`: `Limited` counts, per name, the failures that the limiter has and those on their
  way to it; the bound of the property is that sum when the lock is set.
- `SessionsBelong`: the invariant is `HeldOwned`, the property for sessions and for logins on their way to
  one: each is of the account it proved, or in `displaced`, also while names of the directory
  change hands. The work is in showing that no other step than `provision` and `delete_user` takes an
  account from those who hold its proof (`OwnedOrLost`, `LoginHeld`, `SessionHeld`).

Only model-checked: the liveness of `DbPool` (`KeepsServing`, `EveryoneAnswered`), because liveness
under fairness and ENABLED are out of the prover's reach, and the violations
`Blob_dangling` and `History_meta`, which counterexamples show. The
converse of the hypotheses (that they are needed) is TLC's too.

## 6. What is not modelled

See `components` in `PROJECT.json`. In short: presentation (renderer, console, CLI), I/O
(static files, the LDAP protocol, password hashing, compression), start-up and configuration,
repositories and settings as single-row administration, queries that only read, and the client
beyond what it sends: its working copy, scan and content cache.

## 7. Plan

Done: all modules of section 2, and theorems for each of their safety properties. Next, in the
order of what matters most:

1. The link between `ChunkUpload` and `BlobGC` that is now only argued in section 2: that an upload is a
   storing of a blob as `BlobGC` has it (`PutCheck`, `PutFile`, `PutRow`), as a refinement. The one
   between `Locks` and `CommitProtocol` is `HolderIsTakenOrLost`.
2. Weaker hypotheses on schedules, or what remains true without any, as `WhatIsStored` does for
   uploads: how much of `BelieversHold`, `UploadsKept` and `WritesAreDelegated` a crossing takes away.
3. `WorkingCopy` (`wc.ts`, `db.ts`): commit, update, conflicts, and a client that dies between
   the server's commit and its own bookkeeping, composed with an abstract repository.
4. Content cache and scan: eviction against use, the mtime cache against edits.
