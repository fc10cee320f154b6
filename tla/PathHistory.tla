---------------------------- MODULE PathHistory ----------------------------
(* The path history of src/server/src/storage/repo.rs: `changes' records    *)
(* what each revision changed, `head_entries' is the tree at HEAD, and any  *)
(* older tree is derived from the two.  Commit, restore and purge (purge.rs)*)
(* are transactions.  Sizes, modes and times are left out, so the op `meta' *)
(* leaves head_entries alone and a row in `changes'; locks and tokens are   *)
(* in CommitProtocol.                                                       *)
EXTENDS Naturals, Sequences, FiniteSets, SequencesExt

CONSTANTS
  Paths, Root,
  Parent,      \* [Paths -> Paths \union {Root}]
  Ancestors,   \* [Paths -> SUBSET Paths]: ancestors(path)
  Order,       \* the paths, each once, in the order of their text
  StartsWith,  \* [Paths -> SUBSET Paths]: the paths whose TEXT starts with p's
  Hashes,
  NamedDirs,   \* directories that a commit may add, or give attributes, as such
  Null,        \* the blob_hash of a row that has no content
  None,        \* no row, no answer
  MaxRev,      \* bound on the revisions
  MaxBatch,    \* bound on the changes of one commit
  MaxRows,     \* bound on the rows of `changes'
  MaxPurges    \* bound on the purges

ASSUME HistoryAssumption ==
  /\ Root \notin Paths
  /\ Parent \in [Paths -> Paths \union {Root}]
  /\ Ancestors \in [Paths -> SUBSET Paths]
  /\ \A p \in Paths : Ancestors[p] = IF Parent[p] = Root THEN {}
                       ELSE {Parent[p]} \union Ancestors[Parent[p]]
  /\ \A p \in Paths : p \notin Ancestors[p]
  /\ Order \in Seq(Paths) /\ {Order[i] : i \in DOMAIN Order} = Paths
  /\ \A i, j \in DOMAIN Order : Order[i] = Order[j] => i = j
  /\ StartsWith \in [Paths -> SUBSET Paths]
  /\ \A p, q \in Paths : q = p \/ p \in Ancestors[q] => q \in StartsWith[p]
  /\ NamedDirs \subseteq Paths
  /\ MaxRev \in Nat /\ MaxBatch \in Nat /\ MaxRows \in Nat /\ MaxPurges \in Nat
  /\ Null \notin Hashes /\ None \notin Hashes \union {Null}
  /\ None \notin [kind : {"file", "dir"}, hash : Hashes \union {Null}, rev : Nat,
                  explicit : BOOLEAN]

VARIABLES
  head,
  changes,  \* table `changes', key (rev, path)
  tree,     \* table `head_entries': a row per path, or None
  plain,    \* per revision, what a plain file tree would contain (history)
  purges

vars == <<head, changes, tree, plain, purges>>

Under(d) == IF d = Root THEN Paths ELSE {p \in Paths : d \in Ancestors[p]}
Children(d) == {p \in Paths : Parent[p] = d}

Change(p, op, kind, h) == [path |-> p, op |-> op, kind |-> kind, hash |-> h]
Row(kind, h, rev, explicit) ==
  [kind |-> kind, hash |-> h, rev |-> rev, explicit |-> explicit]
IsFile(t, p) == t[p] # None /\ t[p].kind = "file"
IsDir(t, p) == t[p] # None /\ t[p].kind = "dir"

Without(t, gone) == [p \in Paths |-> IF p \in gone THEN None ELSE t[p]]

-----------------------------------------------------------------------------
(* apply_commit_tx on head_entries, one change after the other.             *)
EnsureDirsNext(t, p, rev) ==  \* mutant
  [a \in Paths |-> IF a \in Ancestors[p] /\ t[a] = None
                   THEN Row("dir", Null, rev + 1, FALSE) ELSE t[a]]
EnsureDirs(t, p, rev) ==
  [a \in Paths |-> IF a \in Ancestors[p] /\ t[a] = None
                   THEN Row("dir", Null, rev, FALSE) ELSE t[a]]

\* From the deepest ancestor up, as long as it is implicit and has no child.
PruneParent(t, p) ==  \* mutant
  LET d == Parent[p] IN
  IF d # Root /\ t[d] # None /\ ~t[d].explicit /\ \A c \in Children(d) : t[c] = None
  THEN Without(t, {d}) ELSE t
PruneUpward(t, p) ==
  LET empty(a) == /\ t[a] # None => ~t[a].explicit
                  /\ \A c \in Children(a) : t[c] # None => c \in Ancestors[p]
  IN Without(t, {a \in Ancestors[p] :
                   \A b \in Ancestors[p] : (b = a \/ a \in Ancestors[b]) => empty(b)})

ApplyChange(t, c, rev) ==
  LET p == c.path IN
  CASE c.op = "add" /\ c.kind = "dir" ->
         [EnsureDirs(t, p, rev) EXCEPT ![p] = Row("dir", Null, rev, TRUE)]
    [] c.op = "delete" /\ c.kind = "dir" ->
         PruneUpward(Without(t, {p} \union Under(p)), p)
    [] c.op \in {"add", "modify"} /\ c.kind = "file" ->
         [EnsureDirs(t, p, rev) EXCEPT ![p] = Row("file", c.hash, rev, FALSE)]
    [] c.op = "delete" /\ c.kind = "file" -> PruneUpward(Without(t, {p}), p)
    [] c.op = "meta" -> t   \* only mode and mtime

\* A change list names a path once, and is worked off in path order.
Apply(t, C, rev) ==
  LET stage[n \in 0 .. Len(Order)] ==
        IF n = 0 THEN t
        ELSE IF \E c \in C : c.path = Order[n]
             THEN ApplyChange(stage[n - 1], CHOOSE c \in C : c.path = Order[n], rev)
             ELSE stage[n - 1]
  IN stage[Len(Order)]

\* A plain file tree, files with their content and the directories made as
\* such, after the same changes.
NoTree == [files |-> [p \in Paths |-> None], dirs |-> {}]
After(v, C) ==
  LET puts(p) == {c \in C : c.path = p /\ c.op \in {"add", "modify"} /\ c.kind = "file"}
      made == {c.path : c \in {x \in C : x.op = "add" /\ x.kind = "dir"}}
      gone == UNION {{c.path} \union Under(c.path) : c \in {x \in C : x.op = "delete"}}
  IN [files |-> [p \in Paths |-> IF puts(p) # {} THEN (CHOOSE c \in puts(p) : TRUE).hash
                                 ELSE IF p \in gone THEN None ELSE v.files[p]],
      dirs |-> (v.dirs \ gone) \union made]

\* What the tree then has: the directories of its entries come with them.
Entries(v) == {p \in Paths : v.files[p] # None} \union v.dirs
PlainDirs(v) == (v.dirs \union UNION {Ancestors[p] : p \in Entries(v)})
                  \ {p \in Paths : v.files[p] # None}

\* The bounds leave room for another commit.
Room == head < MaxRev /\ Cardinality(changes) < MaxRows

\* The changes `first', and then the changes `second'.
Land(first, second) ==
  /\ head' = head + 1
  /\ changes' = changes \union
       {[rev |-> head + 1, path |-> c.path, op |-> c.op, kind |-> c.kind, hash |-> c.hash] :
          c \in first \union second}
  /\ Cardinality(changes') <= MaxRows
  /\ tree' = Apply(Apply(tree, first, head + 1), second, head + 1)
  /\ plain' = Append(plain, After(plain[Len(plain)], first \union second))

-----------------------------------------------------------------------------
(* Derived history: last_change, file_at, dir_explicit_alive, list_dir_at.  *)
Latest(S) == CHOOSE c \in S : \A d \in S : d.rev <= c.rev
RecsOf(p, rev, kinds) == {c \in changes : c.path = p /\ c.rev <= rev /\ c.kind \in kinds}

ParentTombstone(p, own, rev) ==  \* mutant
  LET S == RecsOf(Parent[p], rev, {"dir"}) IN
  S # {} /\ Latest(S).op = "delete" /\ Latest(S).rev > own
CoveringTombstone(p, own, rev) ==
  \E a \in Ancestors[p] :
    LET S == RecsOf(a, rev, {"dir"}) IN
    S # {} /\ Latest(S).op = "delete" /\ Latest(S).rev > own

Alive(p, rev, kind) ==
  LET S == RecsOf(p, rev, {kind}) IN
  S # {} /\ Latest(S).op # "delete" /\ ~CoveringTombstone(p, Latest(S).rev, rev)
FileAt(p, rev) == IF Alive(p, rev, "file") THEN Latest(RecsOf(p, rev, {"file"})).hash
                  ELSE None
ExplicitAlive(p, rev) == Alive(p, rev, "dir")

\* last_changes_under
Candidates(d, rev, kind) ==
  {p \in Under(d) : LET S == RecsOf(p, rev, {"file", "dir"}) IN
     S # {} /\ Latest(S).op # "delete" /\ Latest(S).kind = kind}
DirExists(d, rev) ==
  \/ d = Root \/ ExplicitAlive(d, rev)
  \/ \E p \in Candidates(d, rev, "file") : FileAt(p, rev) # None
  \/ \E p \in Candidates(d, rev, "dir") : ExplicitAlive(p, rev)

ListHead(d) == {p \in Children(d) : tree[p] # None}
DeletedAfterNext(range, rev) ==  \* mutant
  {c.path : c \in {x \in changes : x.op = "delete" /\ x.rev > rev + 1 /\ x.path \in range}}
DeletedBetween(range, rev) ==
  {c.path : c \in {x \in changes : x.op = "delete" /\ x.rev > rev /\ x.path \in range}}

\* Ranges over a text prefix: dir_alive_at passes the path without its `/'.
HeadDirAlive(p, rev) ==  \* mutant
  \/ IsDir(tree, p)
  \/ \E q \in StartsWith[p] : IsFile(tree, q) /\ tree[q].rev <= rev
  \/ ExplicitAlive(p, rev)
DirAliveAt(p, rev) ==
  \/ IsDir(tree, p) /\ tree[p].rev <= rev
  \/ \E q \in StartsWith[p] : IsFile(tree, q) /\ tree[q].rev <= rev
  \/ \E q \in DeletedBetween(StartsWith[p], rev) :
       FileAt(q, rev) # None \/ ExplicitAlive(q, rev)
  \/ ExplicitAlive(p, rev)

\* Files and directories that list_dir_at answers for directory d, rev < head.
Listable(d, rev) ==
  ListHead(d) \union {p \in Children(d) :
     \E q \in DeletedBetween(Under(d), rev) : q = p \/ p \in Ancestors[q]}
ListedFiles(d, rev) ==
  {p \in Listable(d, rev) : (IsFile(tree, p) /\ tree[p].rev <= rev) \/ FileAt(p, rev) # None}
ListedDirs(d, rev) ==
  {p \in Listable(d, rev) \ ListedFiles(d, rev) : DirAliveAt(p, rev)}
ListedHash(p, rev) == IF IsFile(tree, p) /\ tree[p].rev <= rev THEN tree[p].hash
                      ELSE FileAt(p, rev)

-----------------------------------------------------------------------------
Init ==
  /\ head = 0 /\ changes = {} /\ purges = 0
  /\ tree = [p \in Paths |-> None]
  /\ plain = <<NoTree>>   \* plain[rev + 1]

\* Where a file can go: below directories only, and in nothing's place.
Fits(p) == tree[p] = None /\ \A a \in Ancestors[p] : ~IsFile(tree, a)

ChangesOf(p) ==
  {Change(p, "add", "file", h) : h \in IF Fits(p) THEN Hashes ELSE {}}
  \union {Change(p, "modify", "file", h) : h \in IF IsFile(tree, p) THEN Hashes ELSE {}}
  \union (IF IsFile(tree, p) THEN {Change(p, op, "file", Null) : op \in {"delete", "meta"}}
          ELSE {})
  \union (IF IsDir(tree, p) THEN {Change(p, "delete", "dir", Null)} ELSE {})
  \union (IF p \in NamedDirs /\ IsDir(tree, p) THEN {Change(p, "meta", "dir", Null)} ELSE {})
  \union (IF p \in NamedDirs /\ (Fits(p) \/ IsDir(tree, p))
          THEN {Change(p, "add", "dir", Null)} ELSE {})

\* The client names everything below a directory that it deletes.
Spread(C) ==
  LET below == UNION {Under(c.path) : c \in {x \in C : x.op = "delete" /\ x.kind = "dir"}}
  IN {c \in C : c.path \notin below} \union
     {Change(q, "delete", tree[q].kind, Null) : q \in {x \in below : tree[x] # None}}

\* The new files of a commit are together on one disk.
Coherent(C) ==
  \A c, d \in C : c.op = "add" /\ d.path \in Under(c.path)
                    => c.kind = "dir" /\ d.op = "add"
\* A commit does not add below a directory it deletes.
NotBelowDeleted(C) ==
  \A c, d \in C : c.op = "delete" /\ d.path \in Under(c.path) => d.op = "delete"

(* POST commit, of the client or with a directory's deletion as one change. *)
Commit ==
  Room /\ \E P \in {Q \in SUBSET Paths : Q # {} /\ Cardinality(Q) <= MaxBatch} :
  \E f \in [P -> UNION {ChangesOf(p) : p \in P}] :
    LET C == {f[p] : p \in P} IN
    /\ \A p \in P : f[p].path = p
    /\ Coherent(C) /\ NotBelowDeleted(C)
    /\ \E L \in {C, Spread(C)} : Land(L, {})
    /\ UNCHANGED purges

(* restore: what the path held at `source', as a new commit: the files,     *)
(* then the directories.                                                    *)
RestoredFiles(p, source) ==
  LET file(q) == Change(q, IF FileAt(q, head) # None THEN "modify" ELSE "add",
                        "file", FileAt(q, source))
  IN IF FileAt(p, source) # None THEN {file(p)}
     ELSE {file(q) : q \in {x \in Candidates(p, source, "file") : FileAt(x, source) # None}}
RestoredDirs(p, source) ==
  IF FileAt(p, source) # None THEN {}
  ELSE {Change(q, "add", "dir", Null) :
          q \in {x \in {p} \union Candidates(p, source, "dir") : ExplicitAlive(x, source)}}

Restore(p, source) ==
  LET C == RestoredFiles(p, source) \union RestoredDirs(p, source) IN
  /\ Room /\ source <= head
  /\ FileAt(p, source) # None \/ DirExists(p, source)
  /\ C # {}
  \* a type change in the meantime is left out
  /\ \A c \in C :
       /\ \A a \in Ancestors[c.path] : ~IsFile(tree, a)
       /\ tree[c.path] # None => tree[c.path].kind = c.kind
       /\ \A d \in C : d.path \in Under(c.path) => c.kind = "dir"
  /\ Land(RestoredFiles(p, source), RestoredDirs(p, source))
  /\ UNCHANGED purges

(* purge_prefix_tx: the path and everything below leave every revision, and *)
(* rebuild_head_tree_tx derives the directories from the remaining rows.    *)
FirstFile(t, d) ==
  Order[Min({i \in DOMAIN Order : Order[i] \in Under(d) /\ IsFile(t, Order[i])})]
DirRow(t, d) ==
  LET made == IsDir(t, d) /\ t[d].explicit IN
  IF \E f \in Under(d) : IsFile(t, f)
  THEN Row("dir", Null, t[FirstFile(t, d)].rev, made)
  ELSE IF made THEN t[d] ELSE None
RebuildHeadTree(t) == [p \in Paths |-> IF IsFile(t, p) THEN t[p] ELSE DirRow(t, p)]

Purge(p) ==
  LET gone == {p} \union Under(p) IN
  /\ purges < MaxPurges
  /\ purges' = purges + 1
  /\ changes' = {c \in changes : c.path \notin gone}
  /\ tree' = RebuildHeadTree(Without(tree, gone))
  /\ plain' = [n \in DOMAIN plain |-> [files |-> Without(plain[n].files, gone),
                                       dirs |-> plain[n].dirs \ gone]]
  /\ UNCHANGED head

Next ==
  \/ Commit
  \/ \E p \in Paths : (\E source \in 1..head : Restore(p, source)) \/ Purge(p)

Spec == Init /\ [][Next]_vars

-----------------------------------------------------------------------------
(* The rows of the two tables have their types; explicit rows are only      *)
(* directories, and no row names a revision that does not exist.            *)
TypeOK ==
  /\ head \in 0..MaxRev /\ purges \in 0..MaxPurges
  /\ changes \subseteq [rev : 1..head, path : Paths,
                        op : {"add", "modify", "delete", "meta"},
                        kind : {"file", "dir"}, hash : Hashes \union {Null}]
  /\ tree \in [Paths -> {None} \union
       [kind : {"file"}, hash : Hashes \union {Null}, rev : 1..head, explicit : {FALSE}] \union
       [kind : {"dir"}, hash : {Null}, rev : 1..head, explicit : BOOLEAN]]
  /\ plain \in Seq([files : [Paths -> Hashes \union {Null, None}], dirs : SUBSET Paths])
  /\ Len(plain) = head + 1

(* The tree kept in head_entries, with its implicit directories made and    *)
(* pruned as files come and go, is the plain tree after the same changes.   *)
HeadIsPlain ==
  LET v == plain[head + 1] IN
  /\ \A p \in Paths : v.files[p] # None <=> IsFile(tree, p)
  /\ \A p \in Paths : IsFile(tree, p) => tree[p].hash = v.files[p]
  /\ {p \in Paths : IsDir(tree, p)} = PlainDirs(v)
  /\ {p \in Paths : IsDir(tree, p) /\ tree[p].explicit} = v.dirs

-----------------------------------------------------------------------------
(* Rows that mislead whoever reads only the last one of a path.             *)

\* The last row of file p only has its attributes.
Touched(p, rev) ==
  LET S == RecsOf(p, rev, {"file"}) IN S # {} /\ Latest(S).op = "meta"
\* Directory d was deleted as such, and a later row hides that.
Remade(d, rev) ==
  \E x, y \in RecsOf(d, rev, {"dir"}) : x.op = "delete" /\ y.op # "delete" /\ x.rev < y.rev
\* Directory d was given attributes when nobody had made it as such.
Claimed(d, rev) ==
  \E x \in RecsOf(d, rev, {"dir"}) : x.op = "meta" /\ d \notin plain[x.rev + 1].dirs

TombstonesShow(p, rev) == \A a \in Ancestors[p] : ~Remade(a, rev)
\* Nothing at, above or below p misleads, nor does a sibling's name.
Readable(p, rev) ==
  /\ StartsWith[p] = {p} \union Under(p)
  /\ \A d \in Ancestors[p] \union {p} \union Under(p) : ~Remade(d, rev) /\ ~Claimed(d, rev)

(* file_at, `the content of a file at revision N': what the path held then, *)
(* whatever was committed, restored and purged since.                       *)
EveryFileRemembered ==
  \A rev \in 1..head, p \in Paths : FileAt(p, rev) = plain[rev + 1].files[p]

(* What of it is true.  Where no tombstone above the path is hidden by a    *)
(* later row of its directory, file_at finds a file exactly when there was  *)
(* one, and its content, unless the last change only gave it attributes.    *)
FilesRemembered ==
  \A rev \in 1..head, p \in Paths :
    TombstonesShow(p, rev) =>
      /\ FileAt(p, rev) # None <=> plain[rev + 1].files[p] # None
      /\ ~Touched(p, rev) => FileAt(p, rev) = plain[rev + 1].files[p]

(* list_dir_at shows of an old revision only what existed then, with the    *)
(* content it had then (unless it has to ask file_at about a touched file). *)
NoGhosts ==
  \A rev \in 1..(head - 1), d \in Paths \union {Root} :
    LET v == plain[rev + 1] IN
    /\ \A p \in ListedFiles(d, rev) : TombstonesShow(p, rev) =>
         /\ v.files[p] # None
         /\ ListedHash(p, rev) # v.files[p] => Touched(p, rev) /\ ListedHash(p, rev) = Null
    /\ \A p \in ListedDirs(d, rev) : Readable(p, rev) => p \in PlainDirs(v)

\* So far nobody made a directory as such, and who deleted something named
\* what was in it, as the client does; nothing was purged.
ClientsOnly ==
  /\ purges = 0
  /\ \A c \in changes : c.kind = "dir" => c.op \in {"delete", "meta"}
  /\ \A c \in changes : c.op = "delete" =>
       \A q \in Under(c.path) : plain[c.rev].files[q] # None =>
         \E x \in changes : x.path = q /\ x.rev = c.rev /\ x.op = "delete"

(* Section 3.3, and test 3 of repo.rs: the listings of the intermediate     *)
(* revisions are consistent.  What existed in a directory is listed.        *)
NothingMissing ==
  ClientsOnly =>
    \A rev \in 1..(head - 1), d \in Paths \union {Root} :
      LET v == plain[rev + 1] IN
      {p \in Children(d) : v.files[p] # None \/ p \in PlainDirs(v)}
        \subseteq ListedFiles(d, rev) \union ListedDirs(d, rev)
=============================================================================
