----------------------------- MODULE BlobProofs -----------------------------
(* Theorems about BlobGC, for every set of blobs, paths, clients and        *)
(* collectors, every pool size (but where one connection is asked for) and  *)
(* any number of purges, rebuilds and crashes.                              *)
EXTENDS BlobGC, Integers, FiniteSetTheorems, TLAPS

-----------------------------------------------------------------------------
(* The inductive invariant for any number of connections.                   *)

Changes == [rev : Nat, path : Paths, hash : Hashes]
PendingRows == [base : Nat, need : SUBSET Hashes, expires : Nat]
\* The steps at which a handler has chosen its blob.
ClientTypes ==
  /\ cpc \in [Clients -> ClientSteps] /\ cl \in [Clients -> Local]
  /\ \A c \in Clients : cpc[c] \in {"put_file", "put_row"} => cl[c].h \in Hashes
CollectorTypes ==
  /\ gpc \in [Collectors -> GcSteps] /\ gc \in [Collectors -> GcLocal]
  /\ \A g \in Collectors : gpc[g] \in {"file", "row", "queue"} => gc[g].h \in Hashes
\* Revisions are numbered up to head.
TableTypes ==
  /\ head \in Nat
  /\ changes \subseteq Changes /\ \A x \in changes : x.rev \in 1 .. head
  /\ count \in [Hashes -> Nat \union {None}]
  /\ due \in [Hashes -> Nat \union {None}]
  /\ files \subseteq Hashes
  /\ pending \in [Clients -> PendingRows \union {None}]
OtherTypes ==
  /\ now \in Nat /\ admin \in Nat /\ crashes \in Nat
  /\ rpc \in {"idle", "enqueue", "drop_referenced", "drop_gone"}
  /\ asked \subseteq Nat \X Hashes /\ hurt \subseteq Hashes
  /\ \A x \in asked : x[1] <= head
Types == ClientTypes /\ CollectorTypes /\ TableTypes /\ OtherTypes

Referenced(chg, h) == \E x \in chg : x.hash = h
\* A blob that is referenced without a row has been noted.
HurtIsNoted == \A h \in Hashes : ~HasRow(h) /\ Referenced(changes, h) => h \in hurt
IInv == Types /\ HurtIsNoted /\ CountExact /\ QueuedAreUnreferenced

-----------------------------------------------------------------------------
(* The inductive invariant while collection has the server for itself.      *)

\* No prepare, upload or commit is being served while a collector runs.
\* Requests may overlap one another, collectors too, and purge and rebuild
\* both; and a client between two requests may be anywhere.
Quiet == Serving = {} \/ Collecting = {}

\* While a token is valid, a blob it waits for has its file if it has its row:
\* the row is inserted after the file, and no collector deletes either.
WaitedFor ==
  \A c \in Clients : pending[c] # None /\ pending[c].expires > now =>
    \A h \in pending[c].need : HasRow(h) => h \in files
\* What the handler of a request may rely on, whoever else is served.
Holds(c) ==
  /\ pending[c] # None => pending[c].need \subseteq Blobs(c)
  /\ cpc[c] = "pre_tx" =>
       cl[c].need \subseteq {h \in Blobs(c) : HasRow(h) => h \in files}
  /\ cpc[c] = "put_row" => cl[c].h \in files
  /\ cpc[c] \in {"com_need", "com_tx"} =>
       /\ pending[c] # None
       /\ pending[c].need = cl[c].row /\ pending[c].expires = cl[c].expires
  /\ cpc[c] = "com_tx" => \A h \in cl[c].row : HasRow(h)

Unused(h) == h \in hurt \/ ~Referenced(changes, h)
\* A collector lists what nothing references, and deletes of it what nobody
\* waited for when it made its list.
Spares(g) ==
  gpc[g] # "idle" =>
    /\ gc[g].at <= now
    /\ \A h \in gc[g].list : Unused(h)
    /\ gpc[g] \in {"file", "row", "queue"} => gc[g].h \in gc[g].list
    /\ gpc[g] \in {"file", "row"} => ~Awaited(gc[g].h, gc[g].at)

Landed(h) == \E x \in asked : x[2] = h /\ \E y \in changes : y.rev = x[1] /\ y.hash = h
\* A blob that was asked for and landed is out of every collector's reach.
Safe(h) ==
  /\ HasRow(h) /\ count[h] > 0 /\ h \in files /\ due[h] = None
  /\ \A g \in Collecting : h \notin gc[g].list
Kept == \A h \in Hashes : Landed(h) => Safe(h)

Serial ==
  /\ WaitedFor /\ Kept
  /\ \A c \in Clients : Holds(c)
  /\ \A g \in Collectors : Spares(g)

-----------------------------------------------------------------------------
(* References.                                                              *)

\* The definition of refcount is a number, 0 for a blob nothing references.
LEMMA RefsCount ==
  ASSUME NEW n \in Nat, NEW chg, \A x \in chg : x.rev \in 1 .. n, NEW h
  PROVE  /\ IsFiniteSet(RevsOf(chg, h)) /\ Refs(chg, h) \in Nat
         /\ Refs(chg, h) = 0 <=> ~Referenced(chg, h)
<1>1. RevsOf(chg, h) \subseteq 1 .. n
  BY DEF RevsOf
<1>2. IsFiniteSet(1 .. n)
  BY FS_Interval
<1>3. IsFiniteSet(RevsOf(chg, h))
  BY <1>1, <1>2, FS_Subset
<1>4. RevsOf(chg, h) = {} <=> ~Referenced(chg, h)
  BY DEF RevsOf, Referenced
<1> QED BY <1>3, <1>4, FS_CardinalityType, FS_EmptySet DEF Refs

\* What a commit inserts.
Rows(n, c) == {[rev |-> n + 1, path |-> x[1], hash |-> x[2]] : x \in Content[c]}

\* The new revision is one more reference of each of its blobs.
LEMMA CommitCounts ==
  ASSUME NEW n \in Nat, NEW chg, \A x \in chg : x.rev \in 1 .. n,
         NEW c \in Clients, NEW new, new = chg \union Rows(n, c), NEW h
  PROVE  Refs(new, h) = Refs(chg, h) + Uses(c, h)
<1>1. h \in Blobs(c) <=> \E x \in Content[c] : x[2] = h
  BY DEF Blobs
<1>2. CASE h \in Blobs(c)
  <2> DEFINE row(x) == [rev |-> n + 1, path |-> x[1], hash |-> x[2]]
  <2> PICK x \in Content[c] : x[2] = h
    BY <1>1, <1>2
  <2>4. row(x) \in Rows(n, c) /\ row(x).hash = h /\ row(x).rev = n + 1
    BY DEF Rows
  <2>5. \A y \in Rows(n, c) : y.rev = n + 1
    BY DEF Rows
  <2> HIDE DEF row
  <2>1. RevsOf(new, h) = RevsOf(chg, h) \union {n + 1}
    BY <2>4, <2>5 DEF RevsOf
  <2>2. n + 1 \notin RevsOf(chg, h)
    BY DEF RevsOf
  <2>3. Cardinality(RevsOf(new, h)) = Cardinality(RevsOf(chg, h)) + 1
    BY <2>1, <2>2, RefsCount, FS_AddElement
  <2> QED BY <1>2, <2>3 DEF Refs, Uses
<1>3. CASE h \notin Blobs(c)
  <2>1. RevsOf(new, h) = RevsOf(chg, h)
    BY <1>1, <1>3 DEF RevsOf, Rows
  <2>2. Refs(chg, h) \in Nat
    BY RefsCount
  <2> QED BY <1>3, <2>1, <2>2 DEF Refs, Uses
<1> QED BY <1>2, <1>3

\* A recount is exact for every blob whose references it may change.
LEMMA RecountExact ==
  ASSUME NEW chg, NEW hs, NEW h \in Hashes
  PROVE  /\ Recount(chg, hs)[h] = None <=>
              IF h \in hs /\ HasRow(h) THEN Refs(chg, h) = None ELSE count[h] = None
         /\ h \in hs /\ HasRow(h) => Recount(chg, hs)[h] = Refs(chg, h)
         /\ ~(h \in hs /\ HasRow(h)) => Recount(chg, hs)[h] = count[h]
BY DEF Recount

-----------------------------------------------------------------------------
(* Types are kept.                                                          *)

\* Locals that are empty are locals.
LEMMA BlankTypes ==
  /\ \A c \in Clients : ClientTypes => Blank(cl[c].left) \in Local
  /\ \A left \in Nat : Blank(left) \in Local
  /\ Unlisted \in GcLocal
<1>1. \A left \in Nat : Blank(left) \in Local
  BY DEF Blank, Local
<1>2. \A c \in Clients : ClientTypes => cl[c].left \in Nat
  BY DEF ClientTypes, Local
<1> QED BY <1>1, <1>2 DEF Unlisted, GcLocal

LEMMA ClientStepTypes ==
  ASSUME Types, NEW c \in Clients, ClientStep(c)
  PROVE  ClientTypes' /\ CollectorTypes'
<1> USE DEF Types, ClientTypes
<1>1. CollectorTypes'
  BY DEF ClientStep, Prepare, PreHead, PreNeed, PreTx, PutCheck, PutFile, PutRow, ComFind,
     ComNeed, ComTx, ComTxRefused, GiveUp, collectors, CollectorTypes
<1>2. \A d \in Clients \ {c} : cpc'[d] = cpc[d] /\ cl'[d] = cl[d]
  BY DEF ClientStep, Prepare, PreHead, PreNeed, PreTx, PutCheck, PutFile, PutRow, ComFind,
     ComNeed, ComTx, ComTxRefused, GiveUp, Goto, Fail, Forget
<1>3. cpc' \in [Clients -> ClientSteps]
  <2>1. CASE PutCheck(c) \/ ComFind(c) \/ ComNeed(c) \/ PreHead(c)
    BY <2>1 DEF PutCheck, ComFind, ComNeed, PreHead, Goto, Fail, ClientSteps
  <2>2. CASE ~(PutCheck(c) \/ ComFind(c) \/ ComNeed(c) \/ PreHead(c))
    BY <2>2 DEF ClientStep, Prepare, PreNeed, PreTx, PutFile, PutRow, ComTx, ComTxRefused,
       GiveUp, Goto, Fail, ClientSteps
  <2> QED BY <2>1, <2>2
<1>4. cl' \in [Clients -> Local]
  <2>0. cl[c] \in Local
    OBVIOUS
  <2>1. CASE Prepare(c)
    <3>1. cl' = [cl EXCEPT ![c] = [cl[c] EXCEPT !.base = head, !.left = cl[c].left - 1]]
      BY <2>1 DEF Prepare
    <3>2. cl[c].left - 1 \in Nat
      BY <2>0, <2>1 DEF Prepare, Local
    <3>3. [cl[c] EXCEPT !.base = head, !.left = cl[c].left - 1] \in Local
      BY <2>0, <3>2 DEF Local, TableTypes
    <3> QED BY <3>1, <3>3
  <2>2. CASE PreNeed(c)
    <3> DEFINE need == {h \in Blobs(c) : ~HasRow(h)}
    <3>1. need \subseteq Hashes
      BY BlobAssumption DEF Blobs
    <3>2. cl' = [cl EXCEPT ![c].need = need]
      BY <2>2 DEF PreNeed
    <3> HIDE DEF need
    <3> QED BY <2>0, <3>1, <3>2 DEF Local
  <2>3. CASE PutCheck(c)
    <3> PICK h \in cl[c].need : \/ cl' = [cl EXCEPT ![c].need = cl[c].need \ {h}]
                                \/ cl' = [cl EXCEPT ![c].h = h]
      BY <2>3 DEF PutCheck
    <3> QED BY <2>0 DEF Local
  <2>4. CASE PutRow(c)
    <3>1. cl' = [cl EXCEPT ![c] = [cl[c] EXCEPT !.need = cl[c].need \ {cl[c].h}, !.h = None]]
      BY <2>4 DEF PutRow
    <3>2. [cl[c] EXCEPT !.need = cl[c].need \ {cl[c].h}, !.h = None] \in Local
      BY <2>0 DEF Local
    <3> QED BY <3>1, <3>2
  <2>5. CASE ComFind(c)
    <3>1. CASE Fail(c)
      BY <3>1, BlankTypes DEF Fail, Forget
    <3>2. CASE ~Fail(c)
      <4>1. pending[c] # None /\
            cl' = [cl EXCEPT ![c] = [cl[c] EXCEPT !.row = pending[c].need,
                                                  !.expires = pending[c].expires]]
        BY <2>5, <3>2 DEF ComFind
      <4>2. pending[c] \in PendingRows
        BY <4>1 DEF TableTypes
      <4>3. [cl[c] EXCEPT !.row = pending[c].need, !.expires = pending[c].expires] \in Local
        BY <2>0, <4>2 DEF Local, PendingRows
      <4> QED BY <4>1, <4>3
    <3> QED BY <3>1, <3>2
  <2>6. CASE ~(Prepare(c) \/ PreNeed(c) \/ PutCheck(c) \/ PutRow(c) \/ ComFind(c))
    <3>1. UNCHANGED cl \/ Forget(c)
      BY <2>6 DEF ClientStep, PreHead, PreTx, PutFile, ComNeed, ComTx, ComTxRefused, GiveUp, Fail
    <3> QED BY <3>1, BlankTypes DEF Forget
  <2> QED BY <2>1, <2>2, <2>3, <2>4, <2>5, <2>6
<1>5. cpc'[c] \in {"put_file", "put_row"} => cl'[c].h \in Hashes
  <2>1. CASE PutCheck(c)
    <3> PICK h \in cl[c].need :
          IF HasRow(h) /\ h \in files THEN cpc' = cpc
          ELSE cl' = [cl EXCEPT ![c].h = h]
      BY <2>1 DEF PutCheck
    <3>1. h \in Hashes /\ cpc[c] = "upload" /\ cl[c] \in Local
      BY <2>1 DEF PutCheck, Local
    <3> QED BY <3>1 DEF Local
  <2>2. CASE PutFile(c)
    BY <2>2 DEF PutFile, Goto
  <2>3. CASE ~PutCheck(c) /\ ~PutFile(c)
    <3>1. cpc'[c] \notin {"put_file", "put_row"}
      BY <2>3 DEF ClientStep, Prepare, PreHead, PreNeed, PreTx, PutRow, ComFind, ComNeed,
         ComTx, ComTxRefused, GiveUp, Goto, Fail
    <3> QED BY <3>1
  <2> QED BY <2>1, <2>2, <2>3
<1> QED BY <1>1, <1>2, <1>3, <1>4, <1>5

LEMMA CollectTypes ==
  ASSUME Types, NEW g \in Collectors, Collect(g)
  PROVE  ClientTypes' /\ CollectorTypes'
<1> USE DEF Types, CollectorTypes
<1>1. ClientTypes'
  BY DEF Collect, GcList, GcCheck, GcFile, GcRow, GcQueue, clients, ClientTypes
<1>2. \A f \in Collectors \ {g} : gpc'[f] = gpc[f] /\ gc'[f] = gc[f]
  BY DEF Collect, GcList, GcCheck, GcFile, GcRow, GcQueue
<1>3. gc[g] \in GcLocal
  OBVIOUS
<1>4. gpc' \in [Collectors -> GcSteps]
  BY DEF Collect, GcList, GcCheck, GcFile, GcRow, GcQueue, GcSteps
<1>5. gc' \in [Collectors -> GcLocal]
  <2>1. CASE GcList(g)
    BY <2>1 DEF GcList, GcLocal, OtherTypes
  <2>2. CASE GcCheck(g)
    BY <1>3, <2>2, BlankTypes DEF GcCheck, GcLocal
  <2>3. CASE GcQueue(g)
    <3>1. gc' = [gc EXCEPT ![g] = [gc[g] EXCEPT !.list = gc[g].list \ {gc[g].h}, !.h = None]]
      BY <2>3 DEF GcQueue
    <3>2. [gc[g] EXCEPT !.list = gc[g].list \ {gc[g].h}, !.h = None] \in GcLocal
      BY <1>3 DEF GcLocal
    <3> QED BY <3>1, <3>2
  <2>4. CASE GcFile(g) \/ GcRow(g)
    BY <2>4 DEF GcFile, GcRow
  <2> QED BY <2>1, <2>2, <2>3, <2>4 DEF Collect
<1>6. gpc'[g] \in {"file", "row", "queue"} => gc'[g].h \in Hashes
  BY <1>3 DEF Collect, GcList, GcCheck, GcFile, GcRow, GcQueue, GcLocal
<1> QED BY <1>1, <1>2, <1>4, <1>5, <1>6

LEMMA RecountTypes ==
  ASSUME TableTypes, NEW chg, chg \subseteq changes, NEW hs
  PROVE  Recount(chg, hs) \in [Hashes -> Nat \union {None}]
<1>1. \A h \in Hashes : Refs(chg, h) \in Nat
  <2>1. \A x \in chg : x.rev \in 1 .. head
    BY DEF TableTypes
  <2> QED BY <2>1, RefsCount DEF TableTypes
<1> QED BY <1>1 DEF Recount, TableTypes

LEMMA QueueTypes ==
  ASSUME NEW cnt, NEW d \in [Hashes -> Nat \union {None}], NEW at \in Nat
  PROVE  /\ Enqueue(cnt, d, at) \in [Hashes -> Nat \union {None}]
         /\ DropReferenced(cnt, d) \in [Hashes -> Nat \union {None}]
         /\ DropGone(cnt, d) \in [Hashes -> Nat \union {None}]
BY DEF Enqueue, DropReferenced, DropGone

LEMMA ComTxTables ==
  ASSUME Types, NEW c \in Clients, ComTx(c)
  PROVE  TableTypes'
<1> USE DEF Types
<1> DEFINE row(x) == [rev |-> head + 1, path |-> x[1], hash |-> x[2]]
<1>1. head' = head + 1 /\ head \in Nat /\ head' \in Nat
  BY DEF ComTx, TableTypes
<1>2. changes' = changes \union {row(x) : x \in Content[c]}
  BY DEF ComTx
<1>3. \A x \in Content[c] : row(x) \in Changes /\ row(x).rev = head'
  BY <1>1, BlobAssumption DEF Changes
<1> HIDE DEF row
<1>4. changes' \subseteq Changes /\ \A x \in changes' : x.rev \in 1 .. head'
  BY <1>1, <1>2, <1>3 DEF TableTypes
<1>5. count' \in [Hashes -> Nat \union {None}]
  BY DEF ComTx, TableTypes, HasRow, Uses
<1>6. due' \in [Hashes -> Nat \union {None}] /\ pending' \in [Clients -> PendingRows \union {None}]
  BY DEF ComTx, Revive, TableTypes
<1>7. files' \subseteq Hashes
  BY DEF ComTx, TableTypes
<1> QED BY <1>1, <1>4, <1>5, <1>6, <1>7 DEF TableTypes, Changes, PendingRows

LEMMA ClientStepTables ==
  ASSUME Types, NEW c \in Clients, ClientStep(c)
  PROVE  TableTypes' /\ OtherTypes'
<1> USE DEF Types, PendingRows, Changes
<1>1. CASE ComTx(c)
  <2>1. asked' \subseteq Nat \X Hashes /\ \A x \in asked' : x[1] <= head'
    <3>1. cl[c].row \subseteq Hashes /\ head' = head + 1 /\ head \in Nat
      BY <1>1 DEF ComTx, ClientTypes, Local, TableTypes
    <3>2. asked \subseteq Nat \X Hashes /\ \A x \in asked : x[1] \in Nat /\ x[1] <= head
      BY DEF OtherTypes
    <3>3. asked' \subseteq asked \union {<<head + 1, h>> : h \in cl[c].row}
      BY <1>1 DEF ComTx
    <3>4. \A x \in asked' : x \in asked \/ \E h \in cl[c].row : x = <<head + 1, h>>
      BY <3>3
    <3>5. \A x \in asked' : x \in Nat \X Hashes /\ x[1] <= head + 1
      BY <3>1, <3>2, <3>4
    <3> QED BY <3>1, <3>5
  <2>2. hurt' \subseteq Hashes
    BY <1>1 DEF ComTx, NoteHurt, Hurt, OtherTypes
  <2> QED BY <1>1, <2>1, <2>2, ComTxTables DEF ComTx, OtherTypes
<1>2. CASE ~ComTx(c)
  <2>1. OtherTypes' /\ head' = head /\ changes' = changes /\ due' = due
    BY <1>2 DEF ClientStep, Prepare, PreHead, PreNeed, PreTx, PutCheck, PutFile, PutRow,
       ComFind, ComNeed, ComTxRefused, GiveUp, tables, history, OtherTypes
  <2>2. count' \in [Hashes -> Nat \union {None}]
    <3>1. CASE PutRow(c)
      <4>1. cl[c].h \in Hashes /\ count' =
              [count EXCEPT ![cl[c].h] = IF HasRow(cl[c].h) THEN count[cl[c].h] ELSE 0]
        BY <3>1 DEF PutRow, ClientTypes
      <4> QED BY <4>1 DEF TableTypes
    <3>2. CASE ~PutRow(c)
      BY <1>2, <3>2 DEF ClientStep, Prepare, PreHead, PreNeed, PreTx, PutCheck, PutFile,
         ComFind, ComNeed, ComTxRefused, GiveUp, tables, TableTypes
    <3> QED BY <3>1, <3>2
  <2>3. files' \subseteq Hashes
    BY <1>2 DEF ClientStep, Prepare, PreHead, PreNeed, PreTx, PutCheck, PutFile, PutRow,
       ComFind, ComNeed, ComTxRefused, GiveUp, TableTypes, ClientTypes
  <2>4. pending' \in [Clients -> PendingRows \union {None}]
    <3>1. CASE PreTx(c)
      <4>1. [base |-> cl[c].base, need |-> cl[c].need, expires |-> now + TokenTtl] \in PendingRows
        BY BlobAssumption DEF ClientTypes, Local, OtherTypes
      <4> QED BY <3>1, <4>1 DEF PreTx, TableTypes
    <3>2. CASE ComFind(c)
      BY <3>2 DEF ComFind, TableTypes
    <3>3. CASE ~PreTx(c) /\ ~ComFind(c)
      <4>1. pending' = pending
        BY <1>2, <3>3 DEF ClientStep, Prepare, PreHead, PreNeed, PutCheck, PutFile, PutRow,
           ComNeed, ComTxRefused, GiveUp, tables
      <4> QED BY <4>1 DEF TableTypes
    <3> QED BY <3>1, <3>2, <3>3
  <2> QED BY <2>1, <2>2, <2>3, <2>4 DEF TableTypes
<1> QED BY <1>1, <1>2

LEMMA PurgeTypes ==
  ASSUME Types, NEW p \in Paths, Purge(p)
  PROVE  Types'
<1> USE DEF Types
<1>1. ClientTypes' /\ CollectorTypes'
  BY DEF Purge, clients, collectors, ClientTypes, CollectorTypes
<1>2. changes' \subseteq changes /\ UNCHANGED <<now, head, pending, files, rpc, crashes, asked>>
  BY DEF Purge
<1>3. count' \in [Hashes -> Nat \union {None}]
  <2> PICK hs : count' = Recount(changes', hs)
    BY DEF Purge
  <2> QED BY <1>2, RecountTypes
<1>4. due' \in [Hashes -> Nat \union {None}]
  <2>2. DueAt(0) \in Nat
    BY DEF DueAt, OtherTypes
  <2> DEFINE queued == Enqueue(count', due, DueAt(0))
  <2>1. due' = DropGone(count', DropReferenced(count', queued))
    BY DEF Purge
  <2>3. queued \in [Hashes -> Nat \union {None}]
    BY <2>2, QueueTypes DEF TableTypes
  <2> HIDE DEF queued
  <2>4. DropReferenced(count', queued) \in [Hashes -> Nat \union {None}]
    BY <2>2, <2>3, QueueTypes
  <2>5. DropGone(count', DropReferenced(count', queued)) \in [Hashes -> Nat \union {None}]
    BY <2>2, <2>4, QueueTypes
  <2> QED BY <2>1, <2>5
<1>5. hurt' \subseteq Hashes /\ admin' \in Nat
  BY DEF Purge, NoteHurt, Hurt, OtherTypes
<1> QED BY <1>1, <1>2, <1>3, <1>4, <1>5 DEF TableTypes, OtherTypes, Changes, PendingRows

LEMMA RebuildTypes ==
  ASSUME Types, Rebuild
  PROVE  Types'
<1> USE DEF Types
<1>1. ClientTypes' /\ CollectorTypes'
  BY DEF Rebuild, RebuildCount, RebuildEnqueue, RebuildDropReferenced, RebuildDropGone,
     clients, collectors, ClientTypes, CollectorTypes
<1>2. count' \in [Hashes -> Nat \union {None}]
  <2>1. CASE RebuildCount
    BY <2>1, RecountTypes DEF RebuildCount
  <2> QED BY <2>1 DEF Rebuild, RebuildEnqueue, RebuildDropReferenced, RebuildDropGone, TableTypes
<1>3. due' \in [Hashes -> Nat \union {None}]
  <2>1. DueAt(Grace) \in Nat
    BY BlobAssumption DEF DueAt, OtherTypes
  <2>2. due \in [Hashes -> Nat \union {None}]
    BY DEF TableTypes
  <2>3. /\ Enqueue(count, due, DueAt(Grace)) \in [Hashes -> Nat \union {None}]
        /\ DropReferenced(count, due) \in [Hashes -> Nat \union {None}]
        /\ DropGone(count, due) \in [Hashes -> Nat \union {None}]
    BY <2>1, <2>2, QueueTypes
  <2> QED BY <2>2, <2>3 DEF Rebuild, RebuildCount, RebuildEnqueue,
          RebuildDropReferenced, RebuildDropGone
<1>4. UNCHANGED <<head, changes, files, pending>> /\ OtherTypes'
  BY DEF Rebuild, RebuildCount, RebuildEnqueue, RebuildDropReferenced, RebuildDropGone,
     history, OtherTypes
<1> QED BY <1>1, <1>2, <1>3, <1>4 DEF TableTypes, Changes, PendingRows

LEMMA TypesStep == Types /\ [Next]_vars => Types'
<1> SUFFICES ASSUME Types, [Next]_vars PROVE Types'
  OBVIOUS
<1> USE DEF Types
<1>1. ASSUME NEW c \in Clients, ClientStep(c) PROVE Types'
  BY <1>1, ClientStepTypes, ClientStepTables
<1>2. ASSUME NEW g \in Collectors, Collect(g) PROVE Types'
  <2>1. /\ UNCHANGED <<now, head, changes, pending, rpc, admin, crashes, asked>>
        /\ files' \subseteq files
    BY <1>2 DEF Collect, GcList, GcCheck, GcFile, GcRow, GcQueue, tables, history
  <2>2. count' \in [Hashes -> Nat \union {None}] /\ due' \in [Hashes -> Nat \union {None}]
    BY <1>2 DEF Collect, GcList, GcCheck, GcFile, GcRow, GcQueue, tables, TableTypes
  <2>3. hurt' \subseteq Hashes
    BY <1>2 DEF Collect, GcList, GcCheck, GcFile, GcRow, GcQueue, history, NoteHurt, Hurt,
       OtherTypes
  <2> QED BY <1>2, <2>1, <2>2, <2>3, CollectTypes DEF TableTypes, OtherTypes, Changes, PendingRows
<1>3. ASSUME NEW p \in Paths, Purge(p) PROVE Types'
  BY <1>3, PurgeTypes
<1>4. CASE Rebuild
  BY <1>4, RebuildTypes
<1>5. CASE Tick
  BY <1>5 DEF Tick, tables, clients, collectors, history, ClientTypes, CollectorTypes,
     TableTypes, OtherTypes, Changes, PendingRows
<1>6. CASE Crash
  <2>1. ClientTypes' /\ CollectorTypes'
    <3>1. cl' \in [Clients -> Local] /\ gc' \in [Collectors -> GcLocal]
      BY <1>6, BlankTypes DEF Crash
    <3>2. /\ cpc' \in [Clients -> ClientSteps] /\ gpc' \in [Collectors -> GcSteps]
          /\ \A c \in Clients : cpc'[c] \in {"done", "off"}
          /\ \A g \in Collectors : gpc'[g] = "idle"
      BY <1>6 DEF Crash, ClientSteps, GcSteps
    <3> QED BY <3>1, <3>2 DEF ClientTypes, CollectorTypes
  <2> QED BY <1>6, <2>1 DEF Crash, tables, history, TableTypes, OtherTypes, Changes, PendingRows
<1>7. CASE UNCHANGED vars
  BY <1>7 DEF vars, tables, history, ClientTypes, CollectorTypes, TableTypes, OtherTypes,
     Changes, PendingRows
<1> QED BY <1>1, <1>2, <1>3, <1>4, <1>5, <1>6, <1>7 DEF Next

-----------------------------------------------------------------------------
(* Counts and queue agree with the references.                              *)

\* The invariants about one blob.
Exact(h) ==
  /\ ~HasRow(h) /\ Referenced(changes, h) => h \in hurt
  /\ h \notin hurt /\ HasRow(h) => count[h] = Refs(changes, h)
  /\ h \notin hurt /\ due[h] # None => ~Referenced(changes, h)

LEMMA ExactInv ==
  HurtIsNoted /\ CountExact /\ QueuedAreUnreferenced <=> \A h \in Hashes : Exact(h)
BY DEF HurtIsNoted, CountExact, QueuedAreUnreferenced, Exact, Referenced

\* Nothing changes for a blob, or only its queue entry goes.
LEMMA ExactStays ==
  ASSUME NEW h \in Hashes, Exact(h), changes' = changes, count'[h] = count[h],
         due'[h] \in {due[h], None}, hurt' = hurt
  PROVE  Exact(h)'
BY DEF Exact, HasRow

LEMMA PutRowExact ==
  ASSUME Types, NEW c \in Clients, PutRow(c), NEW h \in Hashes, Exact(h)
  PROVE  Exact(h)'
<1>1. changes' = changes /\ due' = due /\ hurt' = hurt
  BY DEF PutRow, history
<1>2. cl[c].h \in Hashes /\ count' =
        [count EXCEPT ![cl[c].h] = IF HasRow(cl[c].h) THEN count[cl[c].h] ELSE 0]
  BY DEF PutRow, Types, ClientTypes
<1>3. CASE count'[h] = count[h]
  BY <1>1, <1>3, ExactStays
<1>4. CASE count'[h] # count[h]
  <2>1. count'[h] = 0 /\ ~HasRow(h)
    BY <1>2, <1>4 DEF Types, TableTypes
  <2>2. h \notin hurt => Refs(changes, h) = 0
    <3>1. h \notin hurt => ~Referenced(changes, h)
      BY <2>1 DEF Exact
    <3> QED BY <3>1, RefsCount DEF Types, TableTypes
  <2> QED BY <1>1, <2>1, <2>2, BlobAssumption DEF Exact, HasRow
<1> QED BY <1>3, <1>4

LEMMA ComTxExact ==
  ASSUME Types, NEW c \in Clients, ComTx(c), NEW h \in Hashes, Exact(h)
  PROVE  Exact(h)'
<1> USE DEF Types
<1>1. changes' = changes \union Rows(head, c)
  BY DEF ComTx, Rows
<1>2. /\ count'[h] = IF HasRow(h) THEN count[h] + Uses(c, h) ELSE None
      /\ due'[h] = IF h \in Blobs(c) THEN None ELSE due[h]
      /\ hurt' = hurt \union Hurt(changes', count')
  BY DEF ComTx, Revive, NoteHurt
<1>3. Refs(changes', h) = Refs(changes, h) + Uses(c, h)
  BY <1>1, CommitCounts DEF TableTypes
<1>4. Referenced(changes', h) => Referenced(changes, h) \/ h \in Blobs(c)
  BY <1>1 DEF Referenced, Blobs, Rows
<1>5. count'[h] = None /\ Referenced(changes', h) => h \in hurt'
  BY <1>2 DEF Hurt, Referenced
<1>6. h \notin hurt' /\ count'[h] # None => count'[h] = Refs(changes', h)
  BY <1>2, <1>3 DEF Exact
<1>7. h \notin hurt' /\ due'[h] # None => ~Referenced(changes', h)
  BY <1>2, <1>4 DEF Exact
<1> QED BY <1>5, <1>6, <1>7 DEF Exact, HasRow

LEMMA PurgeExact ==
  ASSUME Types, NEW p \in Paths, Purge(p), NEW h \in Hashes, Exact(h)
  PROVE  Exact(h)'
<1> USE DEF Types
<1> DEFINE gone == {x \in changes : x.path = p}
           hs == {x.hash : x \in gone}
<1>1. changes' = changes \ gone /\ hurt' = hurt \union Hurt(changes', count')
  BY DEF Purge, NoteHurt
<1>2. count' = Recount(changes', hs)
  BY DEF Purge
<1>3. h \notin hs => RevsOf(changes', h) = RevsOf(changes, h)
  BY <1>1 DEF RevsOf
<1> HIDE DEF hs
<1>4. \A x \in changes' : x.rev \in 1 .. head
  BY <1>1 DEF TableTypes
<1>5. HasRow(h) <=> count'[h] # None
  <2>1. Refs(changes', h) # None
    BY <1>4, RefsCount, BlobAssumption DEF TableTypes
  <2> QED BY <1>2, <2>1, RecountExact DEF HasRow
<1>6. count'[h] = None /\ Referenced(changes', h) => h \in hurt'
  BY <1>1 DEF Hurt, Referenced
<1>7. h \notin hurt' /\ count'[h] # None => count'[h] = Refs(changes', h)
  <2> SUFFICES ASSUME h \notin hurt', HasRow(h) PROVE count'[h] = Refs(changes', h)
    BY <1>5
  <2>1. CASE h \in hs
    BY <1>2, <2>1, RecountExact
  <2>2. CASE h \notin hs
    <3>1. count'[h] = count[h] /\ Refs(changes', h) = Refs(changes, h)
      BY <1>2, <1>3, <2>2, RecountExact DEF Refs
    <3> QED BY <1>1, <3>1 DEF Exact
  <2> QED BY <2>1, <2>2
<1>8. h \notin hurt' /\ due'[h] # None => ~Referenced(changes', h)
  <2> SUFFICES ASSUME h \notin hurt', due'[h] # None PROVE ~Referenced(changes', h)
    OBVIOUS
  <2>1. due' = DropGone(count', DropReferenced(count', Enqueue(count', due, DueAt(0))))
    BY DEF Purge
  <2>2. due[h] # None \/ count'[h] = 0
    BY <2>1 DEF DropGone, DropReferenced, Enqueue
  <2>3. CASE due[h] # None
    BY <1>1, <2>3 DEF Exact, Referenced
  <2>4. CASE count'[h] = 0
    <3>1. Refs(changes', h) = 0
      BY <1>7, <2>4, BlobAssumption
    <3> QED BY <1>4, <3>1, RefsCount DEF TableTypes
  <2> QED BY <2>2, <2>3, <2>4
<1> QED BY <1>6, <1>7, <1>8 DEF Exact, HasRow

LEMMA RebuildExact ==
  ASSUME Types, Rebuild, NEW h \in Hashes, Exact(h)
  PROVE  Exact(h)'
<1> USE DEF Types
<1>0. changes' = changes /\ hurt' = hurt
  BY DEF Rebuild, RebuildCount, RebuildEnqueue, RebuildDropReferenced, RebuildDropGone, history
<1>1. CASE RebuildCount
  <2>1. count' = Recount(changes, Hashes) /\ due' = due
    BY <1>1 DEF RebuildCount
  <2>2. CASE HasRow(h)
    <3>1. count'[h] = Refs(changes, h)
      BY <2>1, <2>2, RecountExact
    <3>2. Refs(changes, h) # None
      BY RefsCount, BlobAssumption DEF TableTypes
    <3> QED BY <1>0, <2>1, <3>1, <3>2 DEF Exact, HasRow
  <2>3. CASE ~HasRow(h)
    <3>1. count'[h] = count[h]
      BY <2>1, <2>3, RecountExact
    <3> QED BY <1>0, <2>1, <3>1, ExactStays
  <2> QED BY <2>2, <2>3
<1>2. CASE RebuildEnqueue
  <2>1. count' = count /\ due'[h] = IF count[h] = 0 /\ due[h] = None THEN DueAt(Grace) ELSE due[h]
    BY <1>2 DEF RebuildEnqueue, Enqueue
  <2>2. h \notin hurt /\ count[h] = 0 => ~Referenced(changes, h)
    <3>1. Refs(changes, h) = 0 <=> ~Referenced(changes, h)
      BY RefsCount DEF TableTypes
    <3> QED BY <3>1, BlobAssumption DEF Exact, HasRow
  <2> QED BY <1>0, <2>1, <2>2 DEF Exact, HasRow
<1>3. CASE RebuildDropReferenced \/ RebuildDropGone
  <2>1. count' = count /\ due'[h] \in {due[h], None}
    BY <1>3 DEF RebuildDropReferenced, RebuildDropGone, DropReferenced, DropGone
  <2> QED BY <1>0, <2>1, ExactStays
<1> QED BY <1>1, <1>2, <1>3 DEF Rebuild

LEMMA CollectExact ==
  ASSUME Types, NEW g \in Collectors, Collect(g), NEW h \in Hashes, Exact(h)
  PROVE  Exact(h)'
<1> USE DEF Types
<1>1. CASE GcRow(g)
  <2>1. /\ changes' = changes /\ due' = due /\ hurt' = hurt \union Hurt(changes', count')
        /\ count'[h] \in {count[h], None}
    BY <1>1 DEF GcRow, NoteHurt, TableTypes
  <2>2. count'[h] = None /\ Referenced(changes', h) => h \in hurt'
    BY <2>1 DEF Hurt, Referenced
  <2> QED BY <2>1, <2>2 DEF Exact, HasRow
<1>2. CASE ~GcRow(g)
  <2>1. changes' = changes /\ count' = count /\ hurt' = hurt /\ due'[h] \in {due[h], None}
    BY <1>2 DEF Collect, GcList, GcCheck, GcFile, GcQueue, tables, history, TableTypes
  <2> QED BY <2>1, ExactStays
<1> QED BY <1>1, <1>2

LEMMA ExactStep ==
  ASSUME Types, [Next]_vars, NEW h \in Hashes, Exact(h)
  PROVE  Exact(h)'
<1>1. ASSUME NEW c \in Clients, ClientStep(c), ~PutRow(c), ~ComTx(c) PROVE Exact(h)'
  <2>1. changes' = changes /\ count' = count /\ due' = due /\ hurt' = hurt
    BY <1>1 DEF ClientStep, Prepare, PreHead, PreNeed, PreTx, PutCheck, PutFile, ComFind,
       ComNeed, ComTxRefused, GiveUp, tables, history
  <2> QED BY <2>1, ExactStays
<1>2. CASE Tick \/ Crash \/ UNCHANGED vars
  <2>1. changes' = changes /\ count' = count /\ due' = due /\ hurt' = hurt
    BY <1>2 DEF Tick, Crash, vars, tables, history
  <2> QED BY <2>1, ExactStays
<1> QED BY <1>1, <1>2, PutRowExact, ComTxExact, PurgeExact, RebuildExact, CollectExact DEF Next

LEMMA InitInv == Init => IInv
<1> SUFFICES ASSUME Init PROVE IInv
  OBVIOUS
<1>1. Types
  <2>1. Blank(MaxPrepares) \in Local
    BY BlobAssumption, BlankTypes
  <2>2. Unlisted \in GcLocal
    BY BlankTypes
  <2>3. ClientTypes /\ CollectorTypes
    BY <2>1, <2>2 DEF Init, ClientTypes, CollectorTypes, ClientSteps, GcSteps
  <2>4. TableTypes /\ OtherTypes
    BY DEF Init, TableTypes, OtherTypes
  <2> QED BY <2>3, <2>4 DEF Types
<1>2. \A h \in Hashes : Exact(h)
  BY DEF Init, Exact, Referenced, HasRow
<1> QED BY <1>1, <1>2, ExactInv DEF IInv

LEMMA InvStep == IInv /\ [Next]_vars => IInv'
<1> SUFFICES ASSUME IInv, [Next]_vars PROVE IInv'
  OBVIOUS
<1>1. Types'
  BY TypesStep DEF IInv
<1>2. \A h \in Hashes : Exact(h)
  BY ExactInv DEF IInv
<1>3. \A h \in Hashes : Exact(h)'
  BY <1>2, ExactStep DEF IInv
<1>4. (HurtIsNoted /\ CountExact /\ QueuedAreUnreferenced)'
  BY <1>3 DEF HurtIsNoted, CountExact, QueuedAreUnreferenced, Exact, Referenced
<1> QED BY <1>1, <1>4 DEF IInv

LEMMA AlwaysInv == Spec => []IInv
BY InitInv, InvStep, PTL DEF Spec

(* Tables, files and the handlers' local variables keep their types.        *)
THEOREM TypeCorrect == Spec => []TypeOK
<1>1. IInv => TypeOK
  BY DEF IInv, Types, ClientTypes, CollectorTypes, TableTypes, OtherTypes, TypeOK, Changes,
     PendingRows
<1> QED BY <1>1, AlwaysInv, PTL

(* refcount is the number of referencing revisions, through uploads,        *)
(* commits, purges, rebuilds, collections and crashes on any number of      *)
(* connections, for every blob that kept its row while referenced.          *)
THEOREM CountsAreExact == Spec => []CountExact
BY AlwaysInv, PTL DEF IInv

(* No blob of which a revision exists waits for deletion, unless it once    *)
(* lost its row while referenced.                                           *)
THEOREM QueueIsUnreferenced == Spec => []QueuedAreUnreferenced
BY AlwaysInv, PTL DEF IInv

-----------------------------------------------------------------------------
(* Collection has the server for itself.                                    *)

\* A client's step is one of a request that is served, and then no collector
\* runs; or it leaves the tables alone, but for dropping its own token.
LEMMA ClientQuiet ==
  ASSUME Quiet, Quiet', Types, NEW c \in Clients, ClientStep(c)
  PROVE  /\ \/ Collecting = {}
            \/ /\ UNCHANGED <<head, changes, count, due, files, asked, hurt>>
               /\ \A d \in Clients : pending'[d] \in {pending[d], None}
         /\ Collecting' = Collecting /\ gpc' = gpc /\ gc' = gc
<1>1. Collecting' = Collecting /\ gpc' = gpc /\ gc' = gc
  BY DEF ClientStep, Prepare, PreHead, PreNeed, PreTx, PutCheck, PutFile, PutRow, ComFind,
     ComNeed, ComTx, ComTxRefused, GiveUp, collectors, Collecting
<1>2. CASE c \in Serving
  BY <1>1, <1>2 DEF Quiet
<1>3. CASE c \notin Serving
  <2>1. UNCHANGED <<head, changes, count, due, files, asked, hurt>>
    BY <1>3 DEF Serving, ClientStep, Prepare, PreHead, PreNeed, PreTx, PutCheck, PutFile,
       PutRow, ComFind, ComNeed, ComTx, ComTxRefused, GiveUp, tables, history
  <2>2. \A d \in Clients : pending'[d] \in {pending[d], None}
    BY <1>3 DEF Serving, ClientStep, Prepare, PreHead, PreNeed, PreTx, PutCheck, PutFile,
       PutRow, ComFind, ComNeed, ComTx, ComTxRefused, GiveUp, tables, Types, TableTypes
  <2> QED BY <1>1, <2>1, <2>2
<1> QED BY <1>2, <1>3

LEMMA CollectQuiet ==
  ASSUME Quiet, Quiet', Types, NEW g \in Collectors, Collect(g)
  PROVE  /\ Serving = {} /\ Serving' = {}
         /\ \A f \in Collectors \ {g} : gpc'[f] = gpc[f] /\ gc'[f] = gc[f]
<1>1. \A f \in Collectors \ {g} : gpc'[f] = gpc[f] /\ gc'[f] = gc[f]
  BY DEF Collect, GcList, GcCheck, GcFile, GcRow, GcQueue, Types, CollectorTypes
<1>2. Serving' = Serving
  BY DEF Collect, GcList, GcCheck, GcFile, GcRow, GcQueue, clients, Serving
<1>3. g \in Collecting \/ g \in Collecting'
  BY DEF Collect, GcList, GcCheck, GcFile, GcRow, GcQueue, Collecting, Types, CollectorTypes
<1> QED BY <1>1, <1>2, <1>3 DEF Quiet

\* What else a step may do to the row, the file and the references of a blob.
LEMMA ClientFiles ==
  ASSUME Types, NEW c \in Clients, ClientStep(c)
  PROVE  /\ files \subseteq files' /\ now' = now /\ changes \subseteq changes'
         /\ \A h \in Hashes : HasRow(h) => HasRow(h)'
         /\ \A h \in Hashes : ~HasRow(h) /\ HasRow(h)' => PutRow(c) /\ cl[c].h = h
<1> USE DEF Types
<1>1. files \subseteq files' /\ now' = now /\ changes \subseteq changes'
  BY DEF ClientStep, Prepare, PreHead, PreNeed, PreTx, PutCheck, PutFile, PutRow, ComFind,
     ComNeed, ComTx, ComTxRefused, GiveUp, tables
<1>2. CASE ComTx(c)
  <2>1. \A h \in Hashes : HasRow(h) => count'[h] = count[h] + Uses(c, h) /\ count[h] \in Nat
    BY <1>2 DEF ComTx, HasRow, TableTypes
  <2>2. \A h \in Hashes : Uses(c, h) \in Nat
    BY DEF Uses
  <2>3. \A h \in Hashes : ~HasRow(h) => count'[h] = None
    BY <1>2 DEF ComTx
  <2> QED BY <1>1, <2>1, <2>2, <2>3, BlobAssumption DEF HasRow
<1>3. CASE PutRow(c)
  BY <1>1, <1>3, BlobAssumption DEF PutRow, HasRow, TableTypes
<1>4. CASE ~ComTx(c) /\ ~PutRow(c)
  <2>1. count' = count
    BY <1>4 DEF ClientStep, Prepare, PreHead, PreNeed, PreTx, PutCheck, PutFile, ComFind,
       ComNeed, ComTxRefused, GiveUp, tables
  <2> QED BY <1>1, <2>1 DEF HasRow
<1> QED BY <1>2, <1>3, <1>4

LEMMA AdminRows ==
  ASSUME Types, Rebuild \/ \E p \in Paths : Purge(p)
  PROVE  /\ UNCHANGED <<now, head, pending, files, cpc, cl, gpc, gc, asked>>
         /\ changes' \subseteq changes /\ hurt \subseteq hurt'
         /\ \A x \in changes' : x.rev \in 1 .. head
         /\ \A h \in Hashes : /\ HasRow(h)' <=> HasRow(h)
                              /\ \/ count'[h] = count[h]
                                 \/ HasRow(h) /\ count'[h] = Refs(changes', h)
<1> USE DEF Types
<1>1. /\ UNCHANGED <<now, head, pending, files, cpc, cl, gpc, gc, asked>>
      /\ changes' \subseteq changes /\ hurt \subseteq hurt'
  BY DEF Rebuild, RebuildCount, RebuildEnqueue, RebuildDropReferenced, RebuildDropGone, Purge,
     clients, collectors, history, NoteHurt
<1>2. \A x \in changes' : x.rev \in 1 .. head
  BY <1>1 DEF TableTypes
<1>3. count' = count \/ \E hs : count' = Recount(changes', hs)
  BY DEF Rebuild, RebuildCount, RebuildEnqueue, RebuildDropReferenced, RebuildDropGone, Purge
<1>4. ASSUME NEW h \in Hashes
      PROVE  /\ HasRow(h)' <=> HasRow(h)
             /\ \/ count'[h] = count[h]
                \/ HasRow(h) /\ count'[h] = Refs(changes', h)
  <2>1. Refs(changes', h) # None
    BY <1>2, RefsCount, BlobAssumption DEF TableTypes
  <2> QED BY <1>3, <2>1, RecountExact DEF HasRow
<1> QED BY <1>1, <1>2, <1>4

-----------------------------------------------------------------------------
(* Uploads are kept.                                                        *)

\* What another request may rely on when a client's request takes a step.
LEMMA OtherHolds ==
  ASSUME IInv, Serial, NEW c \in Clients, ClientStep(c), NEW d \in Clients, d # c
  PROVE  Holds(d)'
<1> USE DEF IInv, Types, Serial
<1>0. Holds(d) /\ Holds(c) /\ Types
  OBVIOUS
<1>1. cpc'[d] = cpc[d] /\ cl'[d] = cl[d] /\ pending'[d] = pending[d]
  BY DEF ClientStep, Prepare, PreHead, PreNeed, PreTx, PutCheck, PutFile, PutRow,
     ComFind, ComNeed, ComTx, ComTxRefused, GiveUp, Goto, Fail, Forget, tables, ClientTypes,
     TableTypes
<1>2. files \subseteq files' /\ \A h \in Hashes : HasRow(h) => HasRow(h)'
  BY ClientFiles
<1>3. \A h \in Hashes : (HasRow(h) => h \in files) => (HasRow(h) => h \in files)'
  <2>1. \A h \in Hashes : ~HasRow(h) /\ HasRow(h)' => h \in files
    BY <1>0, ClientFiles DEF PutRow, Holds
  <2> QED BY <1>2, <2>1
<1>4. cl[d].need \subseteq Hashes /\ cl[d].row \subseteq Hashes
  BY DEF ClientTypes, Local
<1>5. cpc'[d] = "pre_tx" => \A h \in cl'[d].need : h \in Blobs(d) /\ (HasRow(h) => h \in files)'
  BY <1>0, <1>1, <1>3, <1>4 DEF Holds
<1>6. cpc'[d] = "put_row" => cl'[d].h \in files'
  BY <1>0, <1>1, <1>2 DEF Holds
<1>7. cpc'[d] = "com_tx" => \A h \in cl'[d].row : HasRow(h)'
  BY <1>0, <1>1, <1>2, <1>4 DEF Holds
<1> QED BY <1>0, <1>1, <1>5, <1>6, <1>7 DEF Holds

LEMMA OwnHolds ==
  ASSUME IInv, Serial, NEW c \in Clients, ClientStep(c)
  PROVE  Holds(c)'
<1> USE DEF IInv, Types, Serial
<1>0. Holds(c)
  OBVIOUS
<1>1. /\ cpc \in [Clients -> ClientSteps] /\ cl \in [Clients -> Local] /\ cl[c] \in Local
      /\ pending \in [Clients -> PendingRows \union {None}]
  BY DEF ClientTypes, TableTypes
<1>2. CASE PreNeed(c)
  <2>1. cpc'[c] = "pre_tx" /\ cl'[c].need = {h \in Blobs(c) : ~HasRow(h)}
    BY <1>1, <1>2 DEF PreNeed, Goto, Local
  <2> QED BY <1>0, <1>2, <2>1 DEF PreNeed, tables, Holds, HasRow
<1>3. CASE PreTx(c)
  <2>1. cpc'[c] = "upload" /\ pending'[c].need = cl[c].need
    BY <1>1, <1>3 DEF PreTx, Goto
  <2> QED BY <1>0, <1>3, <2>1 DEF PreTx, Holds
<1>4. CASE PutFile(c)
  <2>1. cpc'[c] = "put_row" /\ cl'[c].h \in files'
    BY <1>1, <1>4 DEF PutFile, Goto
  <2> QED BY <1>0, <1>4, <2>1 DEF PutFile, tables, Holds
<1>5. CASE ComFind(c)
  <2>1. \/ cpc'[c] = "off" /\ pending'[c] \in {pending[c], None}
        \/ /\ cpc'[c] = "com_need" /\ pending' = pending /\ pending[c] # None
           /\ cl'[c].row = pending[c].need /\ cl'[c].expires = pending[c].expires
    BY <1>1, <1>5 DEF ComFind, Goto, Fail, Local
  <2> QED BY <1>0, <2>1 DEF Holds
<1>6. CASE ComNeed(c)
  <2>1. count' = count /\ pending' = pending
    BY <1>6 DEF ComNeed, tables
  <2>2. \/ cpc'[c] = "off"
        \/ /\ cpc'[c] = "com_tx" /\ cpc[c] = "com_need" /\ cl' = cl
           /\ \A h \in cl[c].row : HasRow(h)
    BY <1>1, <1>6 DEF ComNeed, Goto, Fail
  <2> QED BY <1>0, <2>1, <2>2 DEF Holds, HasRow
<1>7. CASE ~(PreNeed(c) \/ PreTx(c) \/ PutFile(c) \/ ComFind(c) \/ ComNeed(c))
  <2>1. cpc'[c] \notin {"pre_tx", "put_row", "com_need", "com_tx"}
    <3>1. CASE PutCheck(c)
      BY <1>1, <3>1 DEF PutCheck, Goto
    <3>2. CASE PreHead(c)
      BY <1>1, <3>2 DEF PreHead, Goto, Fail
    <3> QED BY <1>1, <1>7, <3>1, <3>2 DEF ClientStep, Prepare, PutRow,
       ComTx, ComTxRefused, GiveUp, Goto, Fail
  <2>2. pending'[c] \in {pending[c], None}
    BY <1>1, <1>7 DEF ClientStep, Prepare, PreHead, PutCheck, PutRow, ComTx, ComTxRefused,
       GiveUp, tables
  <2> QED BY <1>0, <2>1, <2>2 DEF Holds
<1> QED BY <1>2, <1>3, <1>4, <1>5, <1>6, <1>7

LEMMA ClientWaits ==
  ASSUME IInv, Serial, NEW c \in Clients, ClientStep(c)
  PROVE  WaitedFor'
<1> USE DEF IInv, Types, Serial
<1>1. now' = now /\ files \subseteq files'
  BY DEF ClientStep, Prepare, PreHead, PreNeed, PreTx, PutCheck, PutFile, PutRow, ComFind,
     ComNeed, ComTx, ComTxRefused, GiveUp
<1> SUFFICES ASSUME NEW d \in Clients, pending'[d] # None, pending'[d].expires > now,
                    NEW h \in pending'[d].need, count'[h] # None
             PROVE  h \in files'
  BY <1>1 DEF WaitedFor, HasRow
<1>2. CASE pending'[d] = pending[d]
  <2>1. HasRow(h) => h \in files
    BY <1>2 DEF WaitedFor
  <2>2. h \in Hashes
    BY <1>2 DEF TableTypes, PendingRows
  <2>3. CASE HasRow(h)
    BY <1>1, <2>1, <2>3
  <2>4. CASE ~HasRow(h)
    <3>1. PutRow(c) /\ cl[c].h = h
      BY <2>2, <2>4 DEF ClientStep, Prepare, PreHead, PreNeed, PreTx, PutCheck, PutFile,
         PutRow, ComFind, ComNeed, ComTx, ComTxRefused, GiveUp, tables, HasRow, TableTypes
    <3> QED BY <1>1, <3>1 DEF PutRow, Holds
  <2> QED BY <2>3, <2>4
<1>3. CASE pending'[d] # pending[d]
  <2>1. PreTx(c) /\ d = c
    BY <1>3 DEF ClientStep, Prepare, PreHead, PreNeed, PreTx, PutCheck, PutFile, PutRow,
       ComFind, ComNeed, ComTx, ComTxRefused, GiveUp, tables, TableTypes
  <2>2. pending'[c].need = cl[c].need /\ count' = count
    BY <2>1 DEF PreTx, TableTypes
  <2> QED BY <2>1, <2>2 DEF PreTx, Holds, HasRow
<1> QED BY <1>2, <1>3

LEMMA ClientKeeps ==
  ASSUME Quiet, IInv, Serial, NEW c \in Clients, ClientStep(c), NEW h \in Hashes, Landed(h)'
  PROVE  Safe(h)'
<1> USE DEF IInv, Types, Serial
<1>1. gpc' = gpc /\ gc' = gc /\ now' = now /\ files \subseteq files'
  BY DEF ClientStep, Prepare, PreHead, PreNeed, PreTx, PutCheck, PutFile, PutRow, ComFind,
     ComNeed, ComTx, ComTxRefused, GiveUp, collectors
<1>2. CASE Landed(h)
  <2>1. Safe(h)
    BY <1>2 DEF Kept
  <2>2. due'[h] = None
    BY <2>1 DEF Safe, ClientStep, Prepare, PreHead, PreNeed, PreTx, PutCheck, PutFile, PutRow,
       ComFind, ComNeed, ComTx, ComTxRefused, GiveUp, tables, Revive
  <2>3. count[h] \in Nat /\ count[h] > 0
    BY <2>1 DEF Safe, HasRow, TableTypes
  <2>4. count'[h] \in Nat /\ count'[h] > 0
    <3>1. CASE ComTx(c)
      <4>1. count'[h] = count[h] + Uses(c, h)
        BY <2>1, <3>1 DEF ComTx, Safe
      <4>2. Uses(c, h) \in Nat
        BY DEF Uses
      <4> QED BY <2>3, <4>1, <4>2
    <3>2. CASE ~ComTx(c)
      <4>1. count'[h] = count[h]
        BY <2>1, <3>2 DEF Safe, HasRow, ClientStep, Prepare, PreHead, PreNeed, PreTx, PutCheck,
           PutFile, PutRow, ComFind, ComNeed, ComTxRefused, GiveUp, tables, TableTypes
      <4> QED BY <2>3, <4>1
    <3> QED BY <3>1, <3>2
  <2> QED BY <1>1, <2>1, <2>2, <2>4, BlobAssumption DEF Safe, HasRow, Collecting
<1>3. CASE ~Landed(h)
  <2>1. ComTx(c)
    BY <1>3 DEF Landed, ClientStep, Prepare, PreHead, PreNeed, PreTx, PutCheck, PutFile,
       PutRow, ComFind, ComNeed, ComTxRefused, GiveUp, tables, history
  <2>2. changes' = changes \union Rows(head, c)
    BY <2>1 DEF ComTx, Rows
  <2>3. h \in cl[c].row /\ cl[c].expires > now
    <3> PICK x \in asked' : x[2] = h /\ \E y \in changes' : y.rev = x[1] /\ y.hash = h
      BY DEF Landed
    <3>1. x \notin asked
      <4> SUFFICES ASSUME x \in asked PROVE FALSE
        OBVIOUS
      <4>1. x[1] <= head /\ head \in Nat /\ x[1] \in Nat
        BY DEF OtherTypes, TableTypes
      <4>2. \A y \in Rows(head, c) : y.rev = head + 1
        BY DEF Rows
      <4>3. \A y \in changes' : y.rev = x[1] => y \in changes
        BY <2>2, <4>1, <4>2
      <4> QED BY <1>3, <4>3 DEF Landed
    <3>2. cl[c].expires > now /\ x \in {<<head + 1, b>> : b \in cl[c].row}
      BY <2>1, <3>1 DEF ComTx
    <3> QED BY <3>2
  <2>4. /\ cpc[c] = "com_tx" /\ pending[c] # None /\ pending[c].need = cl[c].row
        /\ pending[c].expires = cl[c].expires /\ HasRow(h) /\ h \in Blobs(c)
    BY <2>1, <2>3 DEF ComTx, Holds
  <2>5. h \in files
    BY <2>3, <2>4 DEF WaitedFor
  <2>6. count'[h] = count[h] + 1 /\ due'[h] = None
    BY <2>1, <2>4 DEF ComTx, Uses, Revive
  <2>7. count[h] \in Nat
    BY <2>4 DEF HasRow, TableTypes
  <2>8. Collecting' = {}
    BY <1>1, <2>4 DEF Quiet, Serving, Collecting
  <2> QED BY <1>1, <2>5, <2>6, <2>7, <2>8, BlobAssumption DEF Safe, HasRow
<1> QED BY <1>2, <1>3

LEMMA ClientSerial ==
  ASSUME Quiet, Quiet', IInv, Serial, NEW c \in Clients, ClientStep(c)
  PROVE  Serial'
<1> USE DEF IInv, Serial
<1>1. \A g \in Collectors : Spares(g)'
  <2> TAKE g \in Collectors
  <2>1. gpc' = gpc /\ gc' = gc /\ now' = now
    BY ClientQuiet, ClientFiles
  <2>2. CASE Collecting = {}
    BY <2>1, <2>2 DEF Spares, Collecting
  <2>3. CASE Collecting # {}
    <3>1. changes' = changes /\ hurt' = hurt /\ \A d \in Clients : pending'[d] \in {pending[d], None}
      BY <2>3, ClientQuiet
    <3>2. \A h, at : Awaited(h, at)' => Awaited(h, at)
      BY <3>1 DEF Awaited
    <3> QED BY <2>1, <3>1, <3>2 DEF Spares, Unused, Referenced
  <2> QED BY <2>2, <2>3
<1>2. Kept'
  BY ClientKeeps DEF Kept
<1>3. \A d \in Clients : Holds(d)'
  BY OtherHolds, OwnHolds
<1> QED BY <1>1, <1>2, <1>3, ClientWaits

\* The collector itself lists unused blobs only, and a blob it means to delete
\* is still on its list.
LEMMA CollectSpares ==
  ASSUME Quiet, Quiet', IInv, Serial, NEW g \in Collectors, Collect(g), NEW f \in Collectors
  PROVE  Spares(f)'
<1> USE DEF IInv, Types, Serial
<1>0. /\ UNCHANGED <<now, changes, pending>> /\ hurt \subseteq hurt'
      /\ \A d \in Collectors \ {g} : gpc'[d] = gpc[d] /\ gc'[d] = gc[d]
  BY CollectQuiet DEF Collect, GcList, GcCheck, GcFile, GcRow, GcQueue, tables, history, NoteHurt
<1>1. \A h, at : Awaited(h, at)' <=> Awaited(h, at)
  BY <1>0 DEF Awaited
<1>2. \A h : Unused(h) => Unused(h)'
  BY <1>0 DEF Unused, Referenced
<1>3. Spares(f) /\ Spares(g)
  OBVIOUS
<1>4. CASE f # g
  BY <1>0, <1>1, <1>2, <1>3, <1>4 DEF Spares
<1>5. CASE f = g
  <2>1. gc \in [Collectors -> GcLocal] /\ gpc \in [Collectors -> GcSteps] /\ gc[g] \in GcLocal
    BY DEF CollectorTypes
  <2>2. CASE GcList(g)
    <3>1. gc'[g] = [at |-> now, list |-> {h \in Hashes : due[h] # None /\ due[h] <= now},
                    h |-> None] /\ gpc'[g] = "check" /\ now \in Nat
      BY <2>1, <2>2 DEF GcList, OtherTypes
    <3>2. \A h \in gc'[g].list : Unused(h)'
      BY <1>0, <3>1 DEF Unused, Referenced, QueuedAreUnreferenced
    <3> QED BY <1>0, <1>5, <3>1, <3>2 DEF Spares
  <2>3. CASE GcCheck(g)
    <3>1. \/ gpc'[g] = "idle"
          \/ /\ gpc'[g] = "check" /\ gc'[g].at = gc[g].at /\ gc'[g].list \subseteq gc[g].list
          \/ /\ gpc'[g] = "file" /\ gc'[g].at = gc[g].at /\ gc'[g].list = gc[g].list
             /\ gc'[g].h \in gc[g].list /\ ~Awaited(gc'[g].h, gc[g].at)
      BY <2>1, <2>3 DEF GcCheck, GcLocal
    <3>2. gpc[g] = "check"
      BY <2>3 DEF GcCheck
    <3>3. CASE gpc'[g] = "idle"
      BY <1>5, <3>3 DEF Spares
    <3>4. CASE gpc'[g] # "idle"
      <4>1. gc'[g].at <= now' /\ \A h \in gc'[g].list : Unused(h)'
        BY <1>0, <1>2, <1>3, <3>1, <3>2, <3>4 DEF Spares
      <4>2. gpc'[g] = "file" => ~Awaited(gc'[g].h, gc'[g].at)
        BY <3>1
      <4>3. gpc'[g] = "file" => ~(Awaited(gc[g].h, gc[g].at)')
        BY <1>0, <4>2 DEF Awaited
      <4> QED BY <1>5, <3>1, <4>1, <4>3 DEF Spares
    <3> QED BY <3>3, <3>4
  <2>4. CASE GcFile(g)
    <3>1. gpc[g] = "file" /\ gpc'[g] = "row" /\ gc' = gc
      BY <2>1, <2>4 DEF GcFile
    <3> QED BY <1>0, <1>1, <1>2, <1>3, <1>5, <3>1 DEF Spares
  <2>5. CASE GcRow(g)
    <3>1. gpc[g] = "row" /\ gpc'[g] = "queue" /\ gc' = gc
      BY <2>1, <2>5 DEF GcRow
    <3> QED BY <1>0, <1>2, <1>3, <1>5, <3>1 DEF Spares
  <2>6. CASE GcQueue(g)
    <3>1. /\ gpc[g] = "queue" /\ gpc'[g] = "check" /\ gc'[g].at = gc[g].at
          /\ gc'[g].list = gc[g].list \ {gc[g].h}
      BY <2>1, <2>6 DEF GcQueue, GcLocal
    <3> QED BY <1>0, <1>2, <1>3, <1>5, <3>1 DEF Spares
  <2> QED BY <2>2, <2>3, <2>4, <2>5, <2>6 DEF Collect
<1> QED BY <1>4, <1>5

\* What a collector's step takes is neither waited for nor referenced.
LEMMA CollectTakes ==
  ASSUME Types, NEW g \in Collectors, Spares(g), Collect(g), NEW h \in Hashes,
         (HasRow(h) /\ ~HasRow(h)') \/ (h \in files /\ h \notin files')
  PROVE  h = gc[g].h /\ h \in gc[g].list /\ ~Awaited(h, now) /\ Unused(h)
<1> USE DEF Types
<1>1. (GcRow(g) \/ GcFile(g)) /\ h = gc[g].h
  BY DEF Collect, GcList, GcCheck, GcFile, GcRow, GcQueue, tables, HasRow, TableTypes
<1>2. h \in gc[g].list /\ ~Awaited(h, gc[g].at) /\ gc[g].at <= now
  BY <1>1 DEF GcRow, GcFile, Spares
<1>3. gc[g].at \in Nat /\ now \in Nat /\
      \A c \in Clients : pending[c] # None => pending[c].expires \in Nat
  BY DEF TableTypes, PendingRows, CollectorTypes, GcLocal, OtherTypes
<1>4. ~Awaited(h, now)
  BY <1>2, <1>3 DEF Awaited
<1>5. Unused(h)
  BY <1>1, <1>2 DEF GcRow, GcFile, Spares
<1> QED BY <1>1, <1>2, <1>4, <1>5

LEMMA CollectSerial ==
  ASSUME Quiet, Quiet', IInv, Serial, NEW g \in Collectors, Collect(g)
  PROVE  Serial'
<1> USE DEF IInv, Types, Serial
<1>0. /\ Serving = {} /\ Serving' = {}
      /\ \A f \in Collectors \ {g} : gpc'[f] = gpc[f] /\ gc'[f] = gc[f]
  BY CollectQuiet
<1>1. UNCHANGED <<now, head, changes, pending, cpc, cl, asked>>
  BY DEF Collect, GcList, GcCheck, GcFile, GcRow, GcQueue, tables, clients, history
<1>2. \A h \in Hashes : HasRow(h)' => HasRow(h)
  BY DEF Collect, GcList, GcCheck, GcFile, GcRow, GcQueue, tables, HasRow, TableTypes
<1>3. \A c \in Clients : Holds(c)'
  <2> TAKE c \in Clients
  <2>1. cpc'[c] \notin {"pre_tx", "put_row", "com_need", "com_tx"}
    BY <1>0 DEF Serving
  <2> QED BY <1>1, <2>1 DEF Holds
<1>4. \A f \in Collectors : Spares(f)'
  BY CollectSpares
<1>5. WaitedFor'
  <2> SUFFICES ASSUME NEW c \in Clients, pending[c] # None, pending[c].expires > now,
                      NEW h \in pending[c].need, HasRow(h)'
               PROVE  h \in files'
    BY <1>1 DEF WaitedFor
  <2>1. h \in Hashes
    BY DEF TableTypes, PendingRows
  <2>2. HasRow(h) /\ h \in files
    BY <1>2, <2>1 DEF WaitedFor
  <2>3. Awaited(h, now)
    BY DEF Awaited
  <2> QED BY <2>1, <2>2, <2>3, CollectTakes
<1>6. Kept'
  <2> SUFFICES ASSUME NEW h \in Hashes, Landed(h)' PROVE Safe(h)'
    BY DEF Kept
  <2>1. Safe(h)
    BY <1>1 DEF Kept, Landed
  <2>2. gpc[g] # "idle" => h \notin gc[g].list
    BY <2>1 DEF Safe, Collecting
  <2>3. HasRow(h)' /\ h \in files'
    <3>1. h \in gc[g].list => gpc[g] = "idle"
      BY <2>2
    <3>2. (HasRow(h) /\ ~HasRow(h)') \/ (h \in files /\ h \notin files') => gpc[g] # "idle"
      BY DEF Collect, GcList, GcCheck, GcFile, GcRow, GcQueue, tables, HasRow
    <3> QED BY <2>1, <3>1, <3>2, CollectTakes DEF Safe
  <2>4. count'[h] = count[h] /\ due'[h] = None
    BY <2>1, <2>3 DEF Collect, GcList, GcCheck, GcFile, GcRow, GcQueue, tables, TableTypes, Safe,
       HasRow
  <2>5. gpc'[g] # "idle" => h \notin gc'[g].list
    <3>1. gc \in [Collectors -> GcLocal] /\ gpc \in [Collectors -> GcSteps] /\ gc[g] \in GcLocal
      BY DEF CollectorTypes
    <3>2. CASE GcList(g)
      <4>1. gc'[g].list = {b \in Hashes : due[b] # None /\ due[b] <= now} /\ gpc'[g] = "check"
        BY <3>1, <3>2 DEF GcList
      <4> QED BY <2>1, <4>1 DEF Safe
    <3>3. CASE GcCheck(g)
      BY <2>2, <3>1, <3>3 DEF GcCheck, GcLocal, Unlisted
    <3>4. CASE GcFile(g) \/ GcRow(g) \/ GcQueue(g)
      BY <2>2, <3>1, <3>4 DEF GcFile, GcRow, GcQueue, GcLocal
    <3> QED BY <3>2, <3>3, <3>4 DEF Collect
  <2>6. \A f \in Collecting' : h \notin gc'[f].list
    BY <1>0, <2>1, <2>5 DEF Safe, Collecting
  <2> QED BY <2>1, <2>3, <2>4, <2>6 DEF Safe
<1> QED BY <1>3, <1>4, <1>5, <1>6

LEMMA AdminSerial ==
  ASSUME IInv, Serial, Rebuild \/ \E p \in Paths : Purge(p)
  PROVE  Serial'
<1> USE DEF IInv, Types, Serial
<1>1. /\ UNCHANGED <<now, head, pending, files, cpc, cl, gpc, gc, asked>>
      /\ changes' \subseteq changes /\ hurt \subseteq hurt'
      /\ \A x \in changes' : x.rev \in 1 .. head
      /\ \A h \in Hashes : HasRow(h)' <=> HasRow(h)
  BY AdminRows
<1>2. \A c \in Clients : Holds(c)'
  <2> TAKE c \in Clients
  <2>1. Holds(c) /\ cl[c].need \subseteq Hashes /\ cl[c].row \subseteq Hashes
    BY DEF ClientTypes, Local
  <2> QED BY <1>1, <2>1 DEF Holds
<1>3. \A g \in Collectors : Spares(g)'
  <2>1. \A h : Unused(h) => Unused(h)'
    BY <1>1 DEF Unused, Referenced
  <2> QED BY <1>1, <2>1 DEF Spares, Awaited
<1>4. WaitedFor'
  BY <1>1 DEF WaitedFor, TableTypes, PendingRows
<1>5. Kept'
  <2> SUFFICES ASSUME NEW h \in Hashes, Landed(h)' PROVE Safe(h)'
    BY DEF Kept
  <2>1. Safe(h) /\ Referenced(changes', h)
    BY <1>1 DEF Kept, Landed, Referenced
  <2>2. Refs(changes', h) \in Nat /\ Refs(changes', h) > 0
    BY <1>1, <2>1, RefsCount DEF TableTypes
  <2>3. count'[h] > 0 /\ count'[h] # None /\ count'[h] # 0
    <3>1. count'[h] = count[h] \/ count'[h] = Refs(changes', h)
      BY AdminRows
    <3> QED BY <2>1, <2>2, <3>1, BlobAssumption DEF Safe, HasRow, TableTypes
  <2>4. due'[h] = None
    <3>1. CASE \E p \in Paths : Purge(p)
      <4>1. due' = DropGone(count', DropReferenced(count', Enqueue(count', due, DueAt(0))))
        BY <3>1 DEF Purge
      <4> QED BY <2>3, <4>1 DEF DropGone, DropReferenced
    <3>2. CASE Rebuild
      <4>1. count[h] # 0
        BY <2>1, BlobAssumption DEF Safe
      <4> QED BY <2>1, <3>2, <4>1 DEF Safe, Rebuild, RebuildCount, RebuildEnqueue,
         RebuildDropReferenced, RebuildDropGone, Enqueue, DropReferenced, DropGone
    <3> QED BY <3>1, <3>2
  <2> QED BY <1>1, <2>1, <2>3, <2>4 DEF Safe, HasRow, Collecting
<1> QED BY <1>2, <1>3, <1>4, <1>5

LEMMA SerialStep == IInv /\ Serial /\ Quiet /\ Quiet' /\ [Next]_vars => Serial'
<1> SUFFICES ASSUME IInv, Serial, Quiet, Quiet', [Next]_vars PROVE Serial'
  OBVIOUS
<1> USE DEF IInv, Types, Serial
<1>1. CASE Tick
  <2>1. /\ now' = now + 1 /\ now \in Nat
        /\ UNCHANGED <<tables, files, clients, collectors, rpc, asked, hurt>>
    BY <1>1 DEF Tick, OtherTypes, history
  <2>2. WaitedFor'
    BY <2>1 DEF WaitedFor, HasRow, tables, TableTypes, PendingRows
  <2>3. \A g \in Collectors : Spares(g)'
    <3>1. \A g \in Collectors : gc[g].at \in Nat
      BY DEF CollectorTypes, GcLocal
    <3> QED BY <2>1, <3>1 DEF Spares, Awaited, Unused, Referenced, tables, collectors
  <2>4. Kept' /\ \A c \in Clients : Holds(c)'
    BY <2>1 DEF Collecting, Kept, Landed, Safe, Holds, HasRow, tables, clients, collectors
  <2> QED BY <2>2, <2>3, <2>4
<1>2. CASE Crash
  <2>1. Collecting' = {} /\ UNCHANGED <<now, tables, files, asked>>
    BY <1>2 DEF Crash, Collecting, history
  <2>2. \A c \in Clients : Holds(c)'
    BY <1>2, <2>1 DEF Crash, Holds, tables
  <2>3. \A g \in Collectors : Spares(g)'
    BY <2>1 DEF Spares, Collecting
  <2>4. WaitedFor' /\ Kept'
    BY <2>1 DEF WaitedFor, Kept, Landed, Safe, HasRow, tables
  <2> QED BY <2>2, <2>3, <2>4
<1>3. CASE UNCHANGED vars
  BY <1>3 DEF vars, tables, clients, collectors, history, Collecting, WaitedFor, Kept, Landed,
     Safe, Holds, HasRow, Spares, Awaited, Unused, Referenced
<1> QED BY <1>1, <1>2, <1>3, ClientSerial, CollectSerial, AdminSerial DEF Next

LEMMA InitSerial == Init => Serial
BY DEF Init, Serial, Collecting, WaitedFor, Kept, Landed, Holds, Spares

LEMMA KeptIsUploadsKept == IInv /\ Serial => UploadsKept
<1> SUFFICES ASSUME IInv, Serial, NEW x \in asked,
                    \E y \in changes : y.rev = x[1] /\ y.hash = x[2]
             PROVE  HasRow(x[2]) /\ x[2] \in files
  BY DEF UploadsKept
<1>1. x[2] \in Hashes
  BY DEF IInv, Types, OtherTypes
<1>2. Landed(x[2])
  BY DEF Landed
<1> QED BY <1>1, <1>2 DEF Serial, Kept, Safe

\* Only a collector deletes, and it deletes garbage.
LEMMA GarbageStep ==
  ASSUME IInv, Serial, [Next]_vars, NEW h \in Hashes,
         (HasRow(h) /\ ~HasRow(h)') \/ (h \in files /\ h \notin files')
  PROVE  ~Awaited(h, now) /\ (h \in hurt \/ ~\E x \in changes : x.hash = h)
<1>0. Types
  BY DEF IInv
<1>1. ~\E c \in Clients : ClientStep(c)
  BY <1>0, ClientFiles
<1>2. ~(Rebuild \/ \E p \in Paths : Purge(p))
  BY <1>0, AdminRows
<1>3. ~(Tick \/ Crash \/ UNCHANGED vars)
  BY DEF Tick, Crash, vars, tables, HasRow
<1>4. PICK g \in Collectors : Collect(g)
  BY <1>1, <1>2, <1>3 DEF Next
<1> QED BY <1>0, <1>4, CollectTakes DEF Serial, Unused, Referenced

(* On any number of connections, as long as no collector runs while a       *)
(* prepare, an upload or a commit is being served: a blob the server asked  *)
(* a client to upload keeps row and file as long as a change of the         *)
(* revision that its valid token landed names it, whatever is purged,       *)
(* recounted, collected or crashes between and beside those requests.       *)
THEOREM UploadsAreKept == Spec /\ []Quiet => []UploadsKept
BY InitSerial, SerialStep, KeptIsUploadsKept, AlwaysInv, PTL DEF Spec

(* Under the same hypothesis a collector takes neither row nor file of a    *)
(* blob that a revision references or a valid token waits for.              *)
THEOREM OnlyGarbageIsCollected == Spec /\ []Quiet => CollectsGarbage
<1>1. IInv /\ Serial /\ [Next]_vars =>
        [\A h \in Hashes : (HasRow(h) /\ ~HasRow(h)') \/ (h \in files /\ h \notin files')
           => ~Awaited(h, now) /\ (h \in hurt \/ ~\E x \in changes : x.hash = h)]_vars
  BY GarbageStep
<1> QED BY <1>1, InitSerial, SerialStep, AlwaysInv, PTL DEF Spec, CollectsGarbage

-----------------------------------------------------------------------------
(* One connection keeps collection apart from everything else.              *)

LEMMA FreeIsAlone ==
  ASSUME PoolSize = 1, FreeConnection
  PROVE  Serving = {} /\ Collecting = {}
<1>1. Serving \subseteq Clients /\ Collecting \subseteq Collectors
  BY DEF Serving, Collecting
<1>2. IsFiniteSet(Serving) /\ IsFiniteSet(Collecting)
  BY <1>1, BlobAssumption, FS_Subset
<1>3. Cardinality(Serving) \in Nat /\ Cardinality(Collecting) \in Nat
  BY <1>2, FS_CardinalityType
<1>4. Cardinality(Serving) = 0 /\ Cardinality(Collecting) = 0
  BY <1>3 DEF FreeConnection
<1> QED BY <1>2, <1>4, FS_EmptySet

LEMMA OneConnection == ASSUME PoolSize = 1 PROVE Spec => []Quiet
<1>1. Init => Quiet
  BY DEF Init, Quiet, Serving
<1>2. Types /\ Quiet /\ [Next]_vars => Quiet'
  <2> SUFFICES ASSUME Types, Quiet, [Next]_vars PROVE Quiet'
    OBVIOUS
  <2> USE DEF Types
  <2>1. ASSUME NEW c \in Clients, ClientStep(c) PROVE Quiet'
    <3>1. Collecting' = Collecting
      BY <2>1 DEF ClientStep, Prepare, PreHead, PreNeed, PreTx, PutCheck, PutFile, PutRow,
         ComFind, ComNeed, ComTx, ComTxRefused, GiveUp, collectors, Collecting
    <3>2. \A d \in Clients \ {c} : cpc'[d] = cpc[d]
      BY <2>1 DEF ClientStep, Prepare, PreHead, PreNeed, PreTx, PutCheck, PutFile, PutRow,
         ComFind, ComNeed, ComTx, ComTxRefused, GiveUp, Goto, Fail, ClientTypes
    <3>3. CASE FreeConnection
      BY <3>1, <3>3, FreeIsAlone DEF Quiet
    <3>4. CASE ~FreeConnection
      <4>1. c \in Serving \/ cpc'[c] = "off"
        BY <2>1, <3>4 DEF Serving, ClientStep, Prepare, PreHead, PreNeed, PreTx, PutCheck,
           PutFile, PutRow, ComFind, ComNeed, ComTx, ComTxRefused, GiveUp, Fail, Goto,
           ClientTypes
      <4>2. Serving = {} => Serving' = {}
        BY <3>2, <4>1 DEF Serving
      <4> QED BY <3>1, <4>2 DEF Quiet
    <3> QED BY <3>3, <3>4
  <2>2. ASSUME NEW g \in Collectors, Collect(g) PROVE Quiet'
    <3>1. Serving' = Serving
      BY <2>2 DEF Collect, GcList, GcCheck, GcFile, GcRow, GcQueue, clients, Serving
    <3>2. g \in Collecting \/ FreeConnection
      BY <2>2 DEF Collect, GcList, GcCheck, GcFile, GcRow, GcQueue, Collecting
    <3>3. Serving = {}
      BY <3>2, FreeIsAlone DEF Quiet
    <3> QED BY <3>1, <3>3 DEF Quiet
  <2>3. CASE (Rebuild \/ \E p \in Paths : Purge(p)) \/ Tick \/ UNCHANGED vars
    <3>1. Serving' = Serving /\ Collecting' = Collecting
      BY <2>3 DEF Rebuild, RebuildCount, RebuildEnqueue, RebuildDropReferenced, RebuildDropGone,
         Purge, Tick, vars, clients, collectors, Serving, Collecting
    <3> QED BY <3>1 DEF Quiet
  <2>4. CASE Crash
    BY <2>4 DEF Crash, Serving, Quiet
  <2> QED BY <2>1, <2>2, <2>3, <2>4 DEF Next
<1> QED BY <1>1, <1>2, AlwaysInv, PTL DEF Spec, IInv

(* So with one connection uploads are kept and only garbage is collected    *)
(* however the requests of clients and administrators are scheduled.        *)
THEOREM OneConnectionSuffices == PoolSize = 1 => (Spec => []UploadsKept /\ CollectsGarbage)
<1> SUFFICES ASSUME PoolSize = 1 PROVE Spec => []UploadsKept /\ CollectsGarbage
  OBVIOUS
<1> QED BY OneConnection, UploadsAreKept, OnlyGarbageIsCollected, PTL
=============================================================================
