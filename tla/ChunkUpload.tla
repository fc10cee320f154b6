---------------------------- MODULE ChunkUpload ----------------------------
(* Uploads and downloads of one blob: the handlers of                       *)
(* src/server/src/api/transfer.rs over BlobStore of storage/blob.rs.  A     *)
(* session is a directory with meta.json and the chunks that arrived;       *)
(* state.rs keeps one mutex per session in a map and drops the entry when   *)
(* the session ends.  Blobs of different hashes share nothing here.  The    *)
(* steps of a handler are its file operations and its SQL statements.       *)
EXTENDS Naturals, Sequences

CONSTANTS
  Uploads,       \* upload_ids
  Requests,      \* requests in flight at the same time
  Size,          \* bytes of the blob
  ChunkSize,     \* bytes of a chunk
  WholeCodec,    \* what choose_codec decides for this blob (put)
  ChunkedCodec,  \* what put_from_file decides for it
  None,
  MaxFailures,   \* bound on failing removals and audit inserts
  MaxCrashes     \* bound on server crashes

Codecs == {"raw", "zstd"}

ASSUME UploadAssumption ==
  /\ Size \in Nat \ {0} /\ ChunkSize \in Nat \ {0}
  /\ WholeCodec \in Codecs /\ ChunkedCodec \in Codecs
  /\ MaxFailures \in Nat /\ MaxCrashes \in Nat

VARIABLES
  dir,   \* each session's directory, or None
  file,  \* the blob file, or None
  row,   \* codec of the blob's row in `blobs', or None
  gen,   \* which mutex the map of upload_locks has for each session
  pc, rq,             \* requests: next step, local variables
  failures, crashes,  \* counted for the bounds
  acked,    \* chunks answered with 204 (history)
  dropped,  \* sessions whose deletion began (history)
  crossed   \* put and put_from_file, of different codecs, were both under way (history)

disk == <<dir, file, row>>
bounds == <<failures, crashes>>
history == <<acked, dropped, crossed>>
vars == <<disk, gen, pc, rq, bounds, history>>

total_chunks == (Size + ChunkSize - 1) \div ChunkSize
Chunks == 0 .. total_chunks - 1
\* A chunk's content is what the client meant to send, or damaged on the way.
Bodies == {"good", "bad"}
Dirs == [meta : BOOLEAN, chunks : [Chunks -> Bodies \union {None}]]
Blobs == [body : Bodies, codec : Codecs]
Answers == [body : Bodies, codec : Codecs, first : Nat, length : Nat, partial : BOOLEAN]

\* Nothing there, or nothing sent, is not something there.
ASSUME NoneAssumption ==
  /\ None \notin Codecs /\ None \notin Bodies
  /\ None \notin Dirs /\ None \notin Blobs /\ None \notin Answers

\* scan_chunks: every n.chunk counts, whatever is in it.
scan_chunks(u) == {n \in Chunks : dir[u] # None /\ dir[u].chunks[n] # None}
read_meta(u) == dir[u] # None /\ dir[u].meta

Ranges == {None} \union ((0 .. Size) \X ((0 .. Size) \union {None}))
parse_range_unclamped(range) ==  \* mutant: no min(size - 1)
  IF range = None \/ range[1] >= Size THEN None
  ELSE LET end == IF range[2] = None THEN Size - 1 ELSE range[2]
       IN IF end < range[1] THEN None ELSE <<range[1], end>>

\* parse_range of `bytes=a-b' (b may be left out), None when it is ignored.
parse_range(range) ==
  IF range = None \/ range[1] >= Size THEN None
  ELSE LET end == IF range[2] = None \/ range[2] > Size - 1 THEN Size - 1 ELSE range[2]
       IN IF end < range[1] THEN None ELSE <<range[1], end>>

(* u: session; n: chunk to write or to copy next; body: content sent, or    *)
(* copied so far; lock: the mutex the request took from the map.            *)
Blank == [u |-> None, n |-> 0, body |-> "good", lock |-> 0,
          codec |-> None, range |-> None, sent |-> None]
Steps == {"out", "put_wait", "put", "rename", "status_wait", "status",
          "comp_wait", "comp", "copy", "verify", "comp_file", "comp_row",
          "comp_remove", "audit", "forget", "leave", "del_wait", "del",
          "del_remove", "whole_file", "whole_row", "open", "send"}
Waiting == {"put_wait", "status_wait", "comp_wait", "del_wait"}
Unlocked == {"out", "whole_file", "whole_row", "open", "send"} \union Waiting

Init ==
  /\ dir = [u \in Uploads |-> None]
  /\ file = None /\ row = None
  /\ gen = [u \in Uploads |-> 0]
  /\ pc = [r \in Requests |-> "out"]
  /\ rq = [r \in Requests |-> Blank]
  /\ failures = 0 /\ crashes = 0
  /\ acked = {} /\ dropped = {} /\ crossed = FALSE

\* put and put_from_file, between their look for the blob and its row.
WholeSteps == {"whole_file", "whole_row"}
ChunkedSteps == {"comp_file", "comp_row"}
\* A request begins one of them while others are at the given steps.
Begins(others) ==
  crossed' = (crossed \/ (WholeCodec # ChunkedCodec /\ \E q \in Requests : pc[q] \in others))

\* Requests in the critical section of session u.
Inside(u) == {r \in Requests : pc[r] \notin Unlocked /\ rq[r].u = u}
Stored == row # None /\ file # None

Goto(r, step) == pc' = [pc EXCEPT ![r] = step]
Return(r) == Goto(r, "out") /\ rq' = [rq EXCEPT ![r] = Blank]
MayFail == failures < MaxFailures /\ failures' = failures + 1
\* remove_dir_all that stops half-way leaves any part of the directory.
Rest(u) == {d \in Dirs : /\ d.meta => dir[u].meta
                         /\ \A n \in Chunks : d.chunks[n] \in {None, dir[u].chunks[n]}}

-----------------------------------------------------------------------------
(* create_upload: nobody else knows the fresh id before the answer.         *)
create_upload(u) ==
  /\ dir[u] = None /\ u \notin dropped
  /\ \A n \in Chunks : <<u, n>> \notin acked
  /\ dir' = [dir EXCEPT ![u] = [meta |-> TRUE, chunks |-> [n \in Chunks |-> None]]]
  /\ UNCHANGED <<file, row, gen, pc, rq, bounds, history>>

\* lock_upload: the request keeps the mutex the map has now.
Call(r, u, step) ==
  /\ pc[r] = "out"
  /\ Goto(r, step)
  /\ \E n \in (IF step = "put_wait" THEN Chunks ELSE {0}),
        body \in (IF step = "put_wait" THEN Bodies ELSE {"good"}) :
       rq' = [rq EXCEPT ![r] = [Blank EXCEPT !.u = u, !.n = n, !.body = body,
                                             !.lock = gen[u]]]
  /\ UNCHANGED <<disk, gen, bounds, history>>

After(step) == CASE step = "put_wait" -> "put" [] step = "status_wait" -> "status"
                 [] step = "comp_wait" -> "comp" [] step = "del_wait" -> "del"

EnterAnyhow(r) ==  \* mutant: a mutex of its own for every request
  /\ pc[r] \in Waiting
  /\ Goto(r, After(pc[r]))
  /\ UNCHANGED <<disk, gen, rq, bounds, history>>

Enter(r) ==
  /\ pc[r] \in Waiting
  /\ \A q \in Inside(rq[r].u) : rq[q].lock # rq[r].lock
  /\ Goto(r, After(pc[r]))
  /\ UNCHANGED <<disk, gen, rq, bounds, history>>

\* No such session, not its owner, a chunk number or length out of range.
Refuse(r) ==
  /\ pc[r] \in {"put", "status", "comp", "del"}
  /\ Return(r)
  /\ UNCHANGED <<disk, gen, bounds, history>>

-----------------------------------------------------------------------------
(* put_chunk: chunk.n.tmp, then a rename over n.chunk.                      *)
PutWrite(r) ==
  /\ pc[r] = "put" /\ read_meta(rq[r].u)
  /\ Goto(r, "rename")
  /\ UNCHANGED <<disk, gen, rq, bounds, history>>

\* Two writers of one chunk.n.tmp mix what they write.
PutRename(r) ==
  LET u == rq[r].u
  IN /\ pc[r] = "rename" /\ dir[u] # None
     /\ \E body \in {rq[r].body} \union (IF Inside(u) = {r} THEN {} ELSE {"bad"}) :
          dir' = [dir EXCEPT ![u].chunks[rq[r].n] = body]
     /\ acked' = acked \union {<<u, rq[r].n>>}
     /\ Return(r)
     /\ UNCHANGED <<file, row, gen, bounds, dropped, crossed>>

\* Another request removed the directory or the file to rename.
PutFails(r) ==
  /\ pc[r] = "rename"
  /\ dir[rq[r].u] = None \/ Inside(rq[r].u) # {r}
  /\ Return(r)
  /\ UNCHANGED <<disk, gen, bounds, history>>

upload_status(r) ==
  /\ pc[r] = "status" /\ read_meta(rq[r].u)
  /\ Return(r)
  /\ UNCHANGED <<disk, gen, bounds, history>>

-----------------------------------------------------------------------------
(* complete_upload                                                          *)

CompCheck(r) ==
  /\ pc[r] = "comp" /\ read_meta(rq[r].u)
  /\ IF scan_chunks(rq[r].u) = Chunks
     THEN Goto(r, "copy") /\ UNCHANGED rq
     ELSE Return(r)
  /\ UNCHANGED <<disk, gen, bounds, history>>

\* Chunk after chunk is appended to a fresh file of data/tmp.
CompCopy(r) ==
  LET u == rq[r].u  n == rq[r].n
  IN /\ pc[r] = "copy"
     /\ IF n \notin scan_chunks(u)
        THEN Return(r)
        ELSE /\ rq' = [rq EXCEPT ![r] = [rq[r] EXCEPT !.n = n + 1,
                            !.body = IF dir[u].chunks[n] = "good" THEN @ ELSE "bad"]]
             /\ IF n + 1 = total_chunks THEN Goto(r, "verify") ELSE UNCHANGED pc
     /\ UNCHANGED <<disk, gen, bounds, history>>

CompVerifyNothing(r) ==  \* mutant: put_from_file(.., None)
  /\ pc[r] = "verify"
  /\ Goto(r, IF Stored THEN "comp_remove" ELSE "comp_file")
  /\ UNCHANGED <<disk, gen, rq, bounds, history>>

\* put_from_file: the recomputed hash must be the declared one; then the
\* blob may be there already.
CompVerify(r) ==
  /\ pc[r] = "verify"
  /\ \/ rq[r].body # "good" /\ Return(r) /\ UNCHANGED crossed
     \/ rq[r].body = "good" /\ Stored /\ Goto(r, "comp_remove") /\ UNCHANGED <<rq, crossed>>
     \/ rq[r].body = "good" /\ ~Stored /\ Goto(r, "comp_file") /\ UNCHANGED rq
        /\ Begins(WholeSteps)
  /\ UNCHANGED <<disk, gen, bounds, acked, dropped>>

CompFileAndClean(r) ==  \* mutant: remove_dir_all before the row is there
  /\ pc[r] = "comp_file"
  /\ file' = [body |-> rq[r].body, codec |-> ChunkedCodec]
  /\ dir' = [dir EXCEPT ![rq[r].u] = None]
  /\ Goto(r, "comp_row")
  /\ UNCHANGED <<row, gen, rq, bounds, history>>

CompFile(r) ==
  /\ pc[r] = "comp_file"
  /\ file' = [body |-> rq[r].body, codec |-> ChunkedCodec]
  /\ Goto(r, "comp_row")
  /\ UNCHANGED <<dir, row, gen, rq, bounds, history>>

\* INSERT OR IGNORE
CompRow(r) ==
  /\ pc[r] = "comp_row"
  /\ row' = IF row = None THEN ChunkedCodec ELSE row
  /\ Goto(r, "comp_remove")
  /\ UNCHANGED <<dir, file, gen, rq, bounds, history>>

\* The result of remove_dir_all is not looked at.
CompRemove(r) ==
  LET u == rq[r].u
  IN /\ pc[r] = "comp_remove"
     /\ Goto(r, "audit")
     /\ \/ /\ dir' = [dir EXCEPT ![u] = None]
           /\ UNCHANGED failures
        \/ /\ dir[u] # None /\ MayFail
           /\ \E d \in Rest(u) : dir' = [dir EXCEPT ![u] = d]
     /\ UNCHANGED <<file, row, gen, rq, crashes, history>>

\* When the audit insert fails the client gets 500 and the mutex stays.
Audit(r) ==
  /\ pc[r] = "audit"
  /\ \/ Goto(r, "forget") /\ UNCHANGED <<rq, failures>>
     \/ MayFail /\ Return(r)
  /\ UNCHANGED <<disk, gen, crashes, history>>

\* forget_upload drops the map's entry while this request still holds the
\* mutex and others may wait for it.
Forget(r) ==
  /\ pc[r] = "forget"
  /\ gen' = [gen EXCEPT ![rq[r].u] = @ + 1]
  /\ Goto(r, "leave")
  /\ UNCHANGED <<disk, rq, bounds, history>>

Leave(r) ==
  /\ pc[r] = "leave"
  /\ Return(r)
  /\ UNCHANGED <<disk, gen, bounds, history>>

-----------------------------------------------------------------------------
(* delete_upload                                                            *)

DelCheck(r) ==
  /\ pc[r] = "del" /\ read_meta(rq[r].u)
  /\ dropped' = dropped \union {rq[r].u}
  /\ Goto(r, "del_remove")
  /\ UNCHANGED <<disk, gen, rq, bounds, acked, crossed>>

DelRemoveAnyhow(r) ==  \* mutant: let _ = remove_dir_all, as complete does
  LET u == rq[r].u
  IN /\ pc[r] = "del_remove"
     /\ Goto(r, "forget")
     /\ \/ dir' = [dir EXCEPT ![u] = None] /\ UNCHANGED failures
        \/ /\ dir[u] # None /\ MayFail
           /\ \E d \in Rest(u) : dir' = [dir EXCEPT ![u] = d]
     /\ UNCHANGED <<file, row, gen, rq, crashes, history>>

\* A failing removal is answered with 500 and the mutex stays in the map.
DelRemove(r) ==
  LET u == rq[r].u
  IN /\ pc[r] = "del_remove"
     /\ \/ /\ dir' = [dir EXCEPT ![u] = None]
           /\ Goto(r, "forget")
           /\ UNCHANGED <<rq, failures>>
        \/ /\ dir[u] # None /\ MayFail
           /\ \E d \in Rest(u) : dir' = [dir EXCEPT ![u] = d]
           /\ Return(r)
     /\ UNCHANGED <<file, row, gen, crashes, history>>

-----------------------------------------------------------------------------
(* put_blob: the body is hashed first; then BlobStore::put.                 *)

WholeCheck(r) ==
  /\ pc[r] = "out" /\ ~Stored
  /\ Goto(r, "whole_file")
  /\ Begins(ChunkedSteps)
  /\ UNCHANGED <<disk, gen, rq, bounds, acked, dropped>>

WholeFile(r) ==
  /\ pc[r] = "whole_file"
  /\ file' = [body |-> "good", codec |-> WholeCodec]
  /\ Goto(r, "whole_row")
  /\ UNCHANGED <<dir, row, gen, rq, bounds, history>>

WholeRow(r) ==
  /\ pc[r] = "whole_row"
  /\ row' = IF row = None THEN WholeCodec ELSE row
  /\ Return(r)
  /\ UNCHANGED <<dir, file, gen, bounds, history>>

-----------------------------------------------------------------------------
(* serve_blob: the row is read, the connection given back, the file opened. *)

Download(r) ==
  /\ pc[r] = "out" /\ row # None
  /\ rq' = [rq EXCEPT ![r].codec = row]
  /\ Goto(r, "open")
  /\ UNCHANGED <<disk, gen, bounds, history>>

\* A raw file is sent from the start of the range, and the HTTP library ends
\* the body at Content-Length; a zstd file is always sent whole.
Open(r) ==
  /\ pc[r] = "open"
  /\ \E range \in Ranges :
       LET part == IF rq[r].codec = "raw" THEN parse_range(range) ELSE None
           first == IF part = None THEN 0 ELSE part[1]
           length == IF part = None THEN Size ELSE part[2] - part[1] + 1
       IN rq' = [rq EXCEPT ![r] = [rq[r] EXCEPT !.range = range,
                   !.sent = IF file = None THEN None
                            ELSE [body |-> file.body, codec |-> file.codec,
                                  first |-> first, length |-> length,
                                  partial |-> part # None]]]
  /\ Goto(r, "send")
  /\ UNCHANGED <<disk, gen, bounds, history>>

Sent(r) ==
  /\ pc[r] = "send"
  /\ Return(r)
  /\ UNCHANGED <<disk, gen, bounds, history>>

-----------------------------------------------------------------------------
\* The process dies: requests and mutexes are gone, the disk stays.
Crash ==
  /\ crashes < MaxCrashes
  /\ crashes' = crashes + 1
  /\ pc' = [r \in Requests |-> "out"]
  /\ rq' = [r \in Requests |-> Blank]
  /\ gen' = [u \in Uploads |-> 0]
  /\ crossed' = (crossed /\ row # None)
  /\ UNCHANGED <<disk, failures, acked, dropped>>

Next ==
  \/ \E u \in Uploads : create_upload(u)
  \/ \E r \in Requests :
       \/ \E u \in Uploads, step \in Waiting : Call(r, u, step)
       \/ Enter(r) \/ Refuse(r)
       \/ PutWrite(r) \/ PutRename(r) \/ PutFails(r) \/ upload_status(r)
       \/ CompCheck(r) \/ CompCopy(r) \/ CompVerify(r) \/ CompFile(r)
       \/ CompRow(r) \/ CompRemove(r) \/ Audit(r) \/ Forget(r) \/ Leave(r)
       \/ DelCheck(r) \/ DelRemove(r)
       \/ WholeCheck(r) \/ WholeFile(r) \/ WholeRow(r)
       \/ Download(r) \/ Open(r) \/ Sent(r)
  \/ Crash

Spec == Init /\ [][Next]_vars

-----------------------------------------------------------------------------
(* Properties                                                               *)

\* The disk and the requests hold what the code can put there, and a session's
\* mutex is held by at most one request.
TypeOK ==
  /\ dir \in [Uploads -> Dirs \union {None}]
  /\ file \in Blobs \union {None}
  /\ row \in Codecs \union {None}
  /\ gen \in [Uploads -> Nat]
  /\ pc \in [Requests -> Steps]
  /\ \A r \in Requests : pc[r] \notin Unlocked => rq[r].u \in Uploads
  /\ \A u \in Uploads : \A r, q \in Inside(u) : rq[r].lock = rq[q].lock => r = q
  /\ acked \subseteq Uploads \X Chunks /\ dropped \subseteq Uploads
  /\ crossed \in BOOLEAN

\* A row of `blobs' stands for a file that holds the declared content, through
\* every interleaving of uploads and every crash.  The file is in the codec the
\* row names, unless put and put_from_file, deciding differently, crossed.
StoredIsDeclared ==
  row # None => /\ file # None /\ file.body = "good"
                /\ file.codec = row \/ crossed

\* blob.rs, `concurrent writers of one blob: rename is atomic, the later one
\* overwrites the file with the same content, no side effect': the file stays
\* what the row says, also when the two encoders decide differently.
RewriteIsHarmless == Stored => file.codec = row

\* A chunk the server acknowledged is on disk until the blob is stored or its
\* owner deletes the session: complete removes the directory last.
NothingLost ==
  \A x \in acked : \/ x[2] \in scan_chunks(x[1])
                   \/ Stored
                   \/ x[1] \in dropped

\* forget_upload lets a newcomer in beside requests that wait for the old
\* mutex; by then the session is over.
Exclusive ==
  \A u \in Uploads : \A r, q \in Inside(u) :
    r # q => dir[u] = None \/ Stored

\* A download answers the bytes of the blob that the range asks for, whatever
\* was uploaded between the SELECT and the open, and decodes them as they are
\* encoded, unless two uploads of different codecs crossed.
ServedIsBlob ==
  \A r \in Requests : pc[r] = "send" =>
    LET sent == rq[r].sent  range == rq[r].range
    IN /\ sent # None
       /\ sent.body = "good" /\ (sent.codec = rq[r].codec \/ crossed)
       /\ LET bytes == sent.first .. sent.first + sent.length - 1
          IN bytes = IF ~sent.partial THEN 0 .. Size - 1
                     ELSE {i \in 0 .. Size - 1 :
                             i >= range[1] /\ (range[2] # None => i <= range[2])}
=============================================================================
