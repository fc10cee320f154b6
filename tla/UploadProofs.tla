---------------------------- MODULE UploadProofs ----------------------------
(* Theorems about ChunkUpload, for every number of sessions and requests,   *)
(* every size of blob and chunk, and any number of failures and crashes.    *)
EXTENDS ChunkUpload, Integers, TLAPS

-----------------------------------------------------------------------------
(* Types: those of TypeOK, and of the requests' local variables.            *)

Local == [u : Uploads \union {None}, n : Nat, body : Bodies, lock : Nat,
          codec : Codecs \union {None}, range : Ranges, sent : Answers \union {None}]
\* Steps at which a request is about a session.
AtSession == (Steps \ Unlocked) \union Waiting

DiskTypes == /\ dir \in [Uploads -> Dirs \union {None}]
             /\ file \in Blobs \union {None}
             /\ row \in Codecs \union {None}
HistoryTypes == acked \subseteq Uploads \X Chunks /\ dropped \subseteq Uploads /\ crossed \in BOOLEAN
RequestTypes ==
  /\ gen \in [Uploads -> Nat]
  /\ pc \in [Requests -> Steps]
  /\ rq \in [Requests -> Local]
  /\ \A r \in Requests : /\ pc[r] \in AtSession => rq[r].u \in Uploads
                         /\ pc[r] \in {"put_wait", "put", "rename"} => rq[r].n \in Chunks
Types == DiskTypes /\ HistoryTypes /\ RequestTypes

\* Request r goes to a step with new local variables, and nobody else moves.
Moves(r, to, loc) == pc' = [pc EXCEPT ![r] = to] /\ rq' = [rq EXCEPT ![r] = loc]
MovesWell(r) ==
  \E to \in Steps, loc \in Local :
    /\ Moves(r, to, loc)
    /\ to \in AtSession => loc.u \in Uploads
    /\ to \in {"put_wait", "put", "rename"} => loc.n \in Chunks

LEMMA BlankType == Blank \in Local
BY DEF Blank, Local, Bodies, Ranges

LEMMA MoveTypes ==
  ASSUME RequestTypes, NEW r \in Requests, MovesWell(r), gen' \in [Uploads -> Nat]
  PROVE  RequestTypes'
<1> PICK to \in Steps, loc \in Local :
      /\ Moves(r, to, loc)
      /\ to \in AtSession => loc.u \in Uploads
      /\ to \in {"put_wait", "put", "rename"} => loc.n \in Chunks
  BY DEF MovesWell
<1>1. pc' \in [Requests -> Steps] /\ rq' \in [Requests -> Local]
  BY DEF Moves, RequestTypes
<1>2. \A q \in Requests : /\ pc'[q] = IF q = r THEN to ELSE pc[q]
                          /\ rq'[q] = IF q = r THEN loc ELSE rq[q]
  BY DEF Moves, RequestTypes
<1> HIDE DEF AtSession, Chunks
<1> QED BY <1>1, <1>2 DEF RequestTypes

\* A request that returns, goes on, or goes on with a new chunk or answer.
LEMMA ReturnMoves ==
  ASSUME NEW r, Return(r)
  PROVE  MovesWell(r)
BY BlankType DEF Return, Goto, MovesWell, Moves, Steps, AtSession, Unlocked, Waiting

LEMMA GotoMoves ==
  ASSUME RequestTypes, NEW r \in Requests, NEW to \in Steps, Goto(r, to), rq' = rq,
         to \in AtSession => pc[r] \in AtSession,
         to \in {"put", "rename"} => pc[r] \in {"put_wait", "put", "rename"},
         to # "put_wait"
  PROVE  MovesWell(r)
<1>1. rq[r] \in Local /\ rq' = [rq EXCEPT ![r] = rq[r]]
  BY DEF RequestTypes
<1>2. Moves(r, to, rq[r])
  BY <1>1 DEF Moves, Goto
<1> HIDE DEF AtSession, Chunks
<1> QED BY <1>1, <1>2 DEF MovesWell, RequestTypes

\* What complete_upload has copied and seen so far.
LEMMA CopyMoves ==
  ASSUME DiskTypes, RequestTypes, NEW r \in Requests, CompCopy(r)
  PROVE  MovesWell(r)
<1>1. CASE rq[r].n \notin scan_chunks(rq[r].u)
  BY <1>1, ReturnMoves DEF CompCopy
<1>2. CASE rq[r].n \in scan_chunks(rq[r].u)
  <2> DEFINE body == IF dir[rq[r].u].chunks[rq[r].n] = "good" THEN rq[r].body ELSE "bad"
  <2> DEFINE loc == [rq[r] EXCEPT !.n = rq[r].n + 1, !.body = body]
             to == IF rq[r].n + 1 = total_chunks THEN "verify" ELSE "copy"
  <2>1. rq[r] \in Local /\ pc[r] = "copy" /\ pc \in [Requests -> Steps] /\ rq[r].u \in Uploads
    BY <1>2 DEF CompCopy, RequestTypes, AtSession, Unlocked, Waiting, Steps
  <2>2. body \in Bodies
    BY <2>1 DEF Local, Bodies
  <2>3. loc \in Local /\ loc.u = rq[r].u
    <3>1. rq[r].n + 1 \in Nat
      BY <2>1 DEF Local
    <3> HIDE DEF body
    <3> QED BY <2>1, <2>2, <3>1 DEF Local
  <2>4. Moves(r, to, loc)
    BY <1>2, <2>1 DEF CompCopy, Moves, Goto, RequestTypes
  <2>5. to \in Steps /\ to \notin {"put_wait", "put", "rename"}
    BY DEF Steps
  <2> HIDE DEF loc, to
  <2> QED BY <2>1, <2>3, <2>4, <2>5 DEF MovesWell
<1> QED BY <1>1, <1>2

\* The part of the blob that a range asks for.
LEMMA PartType ==
  ASSUME NEW range \in Ranges, parse_range(range) # None
  PROVE  /\ parse_range(range)[1] = range[1] /\ range[1] \in 0 .. Size - 1
         /\ parse_range(range)[2] \in range[1] .. Size - 1
         /\ parse_range(range)[2] =
              IF range[2] = None \/ range[2] > Size - 1 THEN Size - 1 ELSE range[2]
<1>1. range \in (0 .. Size) \X ((0 .. Size) \union {None}) /\ range[1] < Size
  BY UploadAssumption DEF parse_range, Ranges
<1>2. Size \in Nat \ {0} /\ range[1] \in 0 .. Size - 1
  BY <1>1, UploadAssumption
<1> DEFINE end == IF range[2] = None \/ range[2] > Size - 1 THEN Size - 1 ELSE range[2]
<1>3. end \in Int /\ end <= Size - 1
  BY <1>1, <1>2
<1>4. end >= range[1] /\ parse_range(range) = <<range[1], end>>
  BY <1>1, <1>2, <1>3 DEF parse_range
<1> QED BY <1>2, <1>3, <1>4

Part(codec, range) == IF codec = "raw" THEN parse_range(range) ELSE None
Answer(codec, range) ==
  LET part == Part(codec, range)
  IN [body |-> file.body, codec |-> file.codec,
      first |-> IF part = None THEN 0 ELSE part[1],
      length |-> IF part = None THEN Size ELSE part[2] - part[1] + 1,
      partial |-> part # None]

LEMMA OpenIs ==
  ASSUME RequestTypes, NEW r \in Requests, Open(r)
  PROVE  \E range \in Ranges :
           Moves(r, "send",
                 [rq[r] EXCEPT !.range = range,
                               !.sent = IF file = None THEN None
                                        ELSE Answer(rq[r].codec, range)])
BY DEF Open, Goto, Moves, Answer, Part

LEMMA AnswerType ==
  ASSUME DiskTypes, file # None, NEW codec, NEW range \in Ranges
  PROVE  Answer(codec, range) \in Answers
<1>1. file.body \in Bodies /\ file.codec \in Codecs
  BY DEF DiskTypes, Blobs
<1>2. CASE Part(codec, range) = None
  BY <1>1, <1>2, UploadAssumption DEF Answer, Answers
<1>3. CASE Part(codec, range) # None
  <2>1. Part(codec, range) = parse_range(range)
    BY <1>3 DEF Part
  <2>2. Part(codec, range)[1] \in Nat /\ Part(codec, range)[2] - Part(codec, range)[1] + 1 \in Nat
    BY <1>3, <2>1, PartType, UploadAssumption
  <2> QED BY <1>1, <1>3, <2>2 DEF Answer, Answers
<1> QED BY <1>2, <1>3

LEMMA OpenMoves ==
  ASSUME DiskTypes, RequestTypes, NEW r \in Requests, Open(r)
  PROVE  MovesWell(r)
<1> PICK range \in Ranges :
      Moves(r, "send", [rq[r] EXCEPT !.range = range,
                                     !.sent = IF file = None THEN None
                                              ELSE Answer(rq[r].codec, range)])
  BY OpenIs
<1> DEFINE sent == IF file = None THEN None ELSE Answer(rq[r].codec, range)
           loc == [rq[r] EXCEPT !.range = range, !.sent = sent]
<1>1. sent \in Answers \union {None}
  BY AnswerType
<1>2. rq[r] \in Local
  BY DEF RequestTypes
<1>3. loc \in Local
  <2> HIDE DEF sent
  <2> QED BY <1>1, <1>2 DEF Local
<1>4. "send" \in Steps /\ "send" \notin AtSession
  BY DEF Steps, AtSession, Unlocked, Waiting
<1> QED BY <1>3, <1>4 DEF MovesWell

LEMMA CallMoves ==
  ASSUME RequestTypes, NEW r \in Requests, NEW u \in Uploads, NEW step \in Waiting,
         Call(r, u, step)
  PROVE  MovesWell(r)
<1> PICK n \in (IF step = "put_wait" THEN Chunks ELSE {0}), body \in Bodies :
      Moves(r, step, [Blank EXCEPT !.u = u, !.n = n, !.body = body, !.lock = gen[u]])
  BY DEF Call, Goto, Moves, Bodies
<1> DEFINE loc == [Blank EXCEPT !.u = u, !.n = n, !.body = body, !.lock = gen[u]]
<1>1. n \in Nat /\ gen[u] \in Nat
  BY DEF RequestTypes, Chunks
<1>2. loc \in Local /\ loc.u = u /\ loc.n = n
  BY <1>1, BlankType DEF Local, Blank
<1>3. step \in Steps
  BY DEF Steps, Waiting
<1>4. step = "put_wait" => n \in Chunks
  OBVIOUS
<1>5. step \notin {"put", "rename"}
  BY DEF Waiting
<1>6. Moves(r, step, loc)
  OBVIOUS
<1> HIDE DEF loc
<1> QED BY <1>2, <1>3, <1>4, <1>5, <1>6 DEF MovesWell

\* Every request's step is such a move.
LEMMA AllMoves ==
  ASSUME DiskTypes, RequestTypes, NEW r \in Requests,
         \/ \E u \in Uploads, step \in Waiting : Call(r, u, step)
         \/ Enter(r) \/ Refuse(r)
         \/ PutWrite(r) \/ PutRename(r) \/ PutFails(r) \/ upload_status(r)
         \/ CompCheck(r) \/ CompCopy(r) \/ CompVerify(r) \/ CompFile(r)
         \/ CompRow(r) \/ CompRemove(r) \/ Audit(r) \/ Forget(r) \/ Leave(r)
         \/ DelCheck(r) \/ DelRemove(r)
         \/ WholeCheck(r) \/ WholeFile(r) \/ WholeRow(r)
         \/ Download(r) \/ Open(r) \/ Sent(r)
  PROVE  MovesWell(r)
<1>1. CASE \E u \in Uploads, step \in Waiting : Call(r, u, step)
  BY <1>1, CallMoves
<1>2. CASE Return(r)
  BY <1>2, ReturnMoves
<1>3. CASE Open(r) \/ CompCopy(r)
  BY <1>3, OpenMoves, CopyMoves
<1>4. CASE Download(r)
  <2> DEFINE loc == [rq[r] EXCEPT !.codec = row]
  <2>1. row \in Codecs \union {None} /\ rq[r] \in Local
    BY DEF DiskTypes, RequestTypes
  <2>2. loc \in Local
    BY <2>1 DEF Local
  <2>3. Moves(r, "open", loc)
    BY <1>4 DEF Download, Goto, Moves
  <2>4. "open" \in Steps /\ "open" \notin AtSession
    BY DEF Steps, AtSession, Unlocked, Waiting
  <2> QED BY <2>2, <2>3, <2>4 DEF MovesWell
<1>5. CASE \E to \in Steps \ Waiting : Goto(r, to) /\ rq' = rq /\ (to \in AtSession => pc[r] \in AtSession)
              /\ (to \in {"put", "rename"} => pc[r] \in {"put_wait", "put"})
  <2>1. "put_wait" \in Waiting
    BY DEF Waiting
  <2> QED BY <1>5, <2>1, GotoMoves
<1>6. \/ \E u \in Uploads, step \in Waiting : Call(r, u, step)
      \/ Return(r) \/ Open(r) \/ CompCopy(r) \/ Download(r)
      \/ \E to \in Steps \ Waiting : Goto(r, to) /\ rq' = rq /\ (to \in AtSession => pc[r] \in AtSession)
              /\ (to \in {"put", "rename"} => pc[r] \in {"put_wait", "put"})
  <2> USE DEF Steps, Waiting, AtSession, Unlocked
  <2>1. CASE Enter(r)
    BY <2>1 DEF Enter, After
  <2>2. CASE PutWrite(r) \/ CompCheck(r) \/ CompVerify(r) \/ CompFile(r) \/ CompRow(r)
    BY <2>2 DEF PutWrite, CompCheck, CompVerify, CompFile, CompRow
  <2>3. CASE CompRemove(r) \/ Audit(r) \/ Forget(r) \/ DelCheck(r) \/ DelRemove(r)
    BY <2>3 DEF CompRemove, Audit, Forget, DelCheck, DelRemove
  <2>4. CASE WholeCheck(r) \/ WholeFile(r)
    BY <2>4 DEF WholeCheck, WholeFile
  <2>5. CASE \/ Refuse(r) \/ PutRename(r) \/ PutFails(r) \/ upload_status(r) \/ Leave(r)
             \/ WholeRow(r) \/ Sent(r)
    BY <2>5 DEF Refuse, PutRename, PutFails, upload_status, Leave, WholeRow, Sent
  <2> QED BY <2>1, <2>2, <2>3, <2>4, <2>5
<1> QED BY <1>1, <1>2, <1>3, <1>4, <1>5, <1>6

\* One step of one request, and what the disk is then.
RequestStep(r) ==
  \/ \E u \in Uploads, step \in Waiting : Call(r, u, step)
  \/ Enter(r) \/ Refuse(r)
  \/ PutWrite(r) \/ PutRename(r) \/ PutFails(r) \/ upload_status(r)
  \/ CompCheck(r) \/ CompCopy(r) \/ CompVerify(r) \/ CompFile(r)
  \/ CompRow(r) \/ CompRemove(r) \/ Audit(r) \/ Forget(r) \/ Leave(r)
  \/ DelCheck(r) \/ DelRemove(r)
  \/ WholeCheck(r) \/ WholeFile(r) \/ WholeRow(r)
  \/ Download(r) \/ Open(r) \/ Sent(r)

LEMMA RestType ==
  ASSUME NEW u, NEW d \in Rest(u)
  PROVE  d \in Dirs
BY DEF Rest

LEMMA DiskTypeStep ==
  ASSUME Types, NEW r \in Requests, RequestStep(r)
  PROVE  DiskTypes'
<1> USE DEF Types, DiskTypes
<1>1. rq[r].body \in Bodies /\ (pc[r] \in AtSession => rq[r].u \in Uploads)
      /\ (pc[r] = "rename" => rq[r].n \in Chunks)
  BY DEF RequestTypes, Local
<1>2. CASE PutRename(r)
  <2> PICK body \in Bodies : dir' = [dir EXCEPT ![rq[r].u].chunks[rq[r].n] = body]
    BY <1>1, <1>2 DEF PutRename, Bodies
  <2>1. dir[rq[r].u] \in Dirs
    BY <1>1, <1>2 DEF PutRename, AtSession, Unlocked, Waiting, Steps
  <2>2. [dir[rq[r].u] EXCEPT !.chunks[rq[r].n] = body] \in Dirs
    BY <2>1 DEF Dirs
  <2> QED BY <1>2, <2>2 DEF PutRename
<1>3. CASE CompRemove(r) \/ DelRemove(r)
  <2>1. \E d \in Dirs \union {None} : dir' = [dir EXCEPT ![rq[r].u] = d]
    BY <1>3, RestType DEF CompRemove, DelRemove
  <2> QED BY <1>3, <2>1 DEF CompRemove, DelRemove
<1>4. CASE CompFile(r) \/ WholeFile(r)
  BY <1>1, <1>4, UploadAssumption DEF CompFile, WholeFile, Blobs, Bodies
<1>5. CASE CompRow(r) \/ WholeRow(r)
  BY <1>5, UploadAssumption DEF CompRow, WholeRow
<1>6. CASE UNCHANGED disk
  BY <1>6 DEF disk
<1>7. \/ PutRename(r) \/ CompRemove(r) \/ DelRemove(r) \/ CompFile(r) \/ WholeFile(r)
      \/ CompRow(r) \/ WholeRow(r) \/ UNCHANGED disk
  BY DEF RequestStep, Call, Enter, Refuse, PutWrite, PutFails, upload_status, CompCheck,
         CompCopy, CompVerify, Audit, Forget, Leave, DelCheck, WholeCheck, Download, Open,
         Sent
<1> QED BY <1>2, <1>3, <1>4, <1>5, <1>6, <1>7

LEMMA BeginsType == ASSUME NEW steps, Begins(steps) PROVE crossed' \in BOOLEAN
BY DEF Begins

LEMMA OtherTypeStep ==
  ASSUME Types, NEW r \in Requests, RequestStep(r)
  PROVE  HistoryTypes' /\ RequestTypes'
<1> USE DEF Types
<1>1. pc[r] \in AtSession => rq[r].u \in Uploads
  BY DEF RequestTypes
<1>2. pc[r] = "rename" => rq[r].n \in Chunks
  BY DEF RequestTypes
<1>3. {"rename", "forget", "del"} \subseteq AtSession
  BY DEF AtSession, Unlocked, Waiting, Steps
<1>4. gen' \in [Uploads -> Nat]
  <2>1. CASE Forget(r)
    BY <1>1, <1>3, <2>1 DEF Forget, RequestTypes
  <2>2. CASE ~Forget(r)
    <3>1. gen' = gen
      BY <2>2 DEF RequestStep, Call, Enter, Refuse, PutWrite, PutRename, PutFails,
           upload_status, CompCheck, CompCopy, CompVerify, CompFile, CompRow, CompRemove,
           Audit, Leave, DelCheck, DelRemove, WholeCheck, WholeFile, WholeRow, Download,
           Open, Sent
    <3> QED BY <3>1 DEF RequestTypes
  <2> QED BY <2>1, <2>2
<1>5. RequestTypes'
  <2>1. MovesWell(r)
    BY AllMoves, Zenon DEF RequestStep
  <2> QED BY <1>4, <2>1, MoveTypes
<1>6. HistoryTypes'
  <2>1. ASSUME PutRename(r) \/ DelCheck(r)
        PROVE  acked' \subseteq Uploads \X Chunks /\ dropped' \subseteq Uploads
    BY <1>1, <1>2, <1>3, <2>1 DEF PutRename, DelCheck, HistoryTypes
  <2>2. ASSUME ~PutRename(r) /\ ~DelCheck(r)
        PROVE  acked' \subseteq Uploads \X Chunks /\ dropped' \subseteq Uploads
    <3>1. acked' = acked /\ dropped' = dropped
      BY <2>2 DEF RequestStep, Call, Enter, Refuse, PutWrite, PutFails, history,
           upload_status, CompCheck, CompCopy, CompVerify, CompFile, CompRow, CompRemove,
           Audit, Forget, Leave, DelRemove, WholeCheck, WholeFile, WholeRow, Download,
           Open, Sent
    <3> QED BY <3>1 DEF HistoryTypes
  <2>3. crossed' \in BOOLEAN
    BY BeginsType, Zenon DEF HistoryTypes, RequestStep, Call, Enter, Refuse, PutWrite, PutRename,
       PutFails, history, upload_status, CompCheck, CompCopy, CompVerify, CompFile, CompRow,
       CompRemove, Audit, Forget, Leave, DelCheck, DelRemove, WholeCheck, WholeFile, WholeRow,
       Download, Open, Sent
  <2> QED BY <2>1, <2>2, <2>3 DEF HistoryTypes
<1> QED BY <1>5, <1>6

LEMMA InitTypes == Init => Types
<1> SUFFICES ASSUME Init PROVE Types
  OBVIOUS
<1>1. HistoryTypes
  BY DEF Init, HistoryTypes
<1> QED BY <1>1, BlankType DEF Init, Types, DiskTypes, RequestTypes, AtSession, Unlocked,
                               Waiting, Steps

LEMMA TypeStep == Types /\ [Next]_vars => Types'
<1> SUFFICES ASSUME Types, [Next]_vars PROVE Types'
  OBVIOUS
<1>1. ASSUME NEW u \in Uploads, create_upload(u) PROVE Types'
  <2>1. [meta |-> TRUE, chunks |-> [n \in Chunks |-> None]] \in Dirs
    BY DEF Dirs
  <2>2. DiskTypes'
    BY <1>1, <2>1 DEF create_upload, Types, DiskTypes
  <2>3. HistoryTypes' /\ RequestTypes'
    BY <1>1 DEF create_upload, Types, HistoryTypes, RequestTypes, history
  <2> QED BY <2>2, <2>3 DEF Types
<1>2. ASSUME NEW r \in Requests, RequestStep(r) PROVE Types'
  BY <1>2, DiskTypeStep, OtherTypeStep DEF Types
<1>3. CASE Crash
  <2>1. RequestTypes'
    BY <1>3, BlankType DEF Crash, RequestTypes, AtSession, Unlocked, Waiting, Steps
  <2>2. DiskTypes' /\ HistoryTypes'
    BY <1>3 DEF Crash, Types, DiskTypes, HistoryTypes, disk, history
  <2> QED BY <2>1, <2>2 DEF Types
<1>4. CASE UNCHANGED vars
  BY <1>4 DEF vars, disk, history, bounds, Types, DiskTypes, HistoryTypes, RequestTypes
<1> QED BY <1>1, <1>2, <1>3, <1>4 DEF Next, RequestStep

-----------------------------------------------------------------------------
(* What only grows, and how far a request is.                               *)

\* A session that needs nobody's mutex any more: its blob is stored, or its
\* owner deleted it.
Over(u) == Stored \/ (dir[u] = None /\ u \in dropped)

\* What a request knows of the disk at its step, and the map's generations of
\* a session's mutex: only the end of a session starts a new one.
Progress ==
  /\ row # None => file # None
  /\ file # None => file.body = "good"
  /\ \A r \in Requests :
       /\ pc[r] \in {"comp_row", "whole_row"} => file # None
       /\ pc[r] = "comp_file" => rq[r].body = "good"
       /\ pc[r] \in {"comp_remove", "audit"} => Stored
       /\ pc[r] = "del_remove" => rq[r].u \in dropped
       /\ pc[r] = "forget" => Over(rq[r].u)
  /\ \A u \in Uploads : gen[u] > 0 => Over(u)

\* Nobody moves but the request that makes the step, and it stays with its
\* session, its mutex, or leaves both.
LEMMA OthersStay ==
  ASSUME Types, NEW r \in Requests, RequestStep(r)
  PROVE  /\ \A q \in Requests : q # r => pc'[q] = pc[q] /\ rq'[q] = rq[q]
         /\ pc' \in [Requests -> Steps] /\ rq' \in [Requests -> Local]
         /\ pc'[r] \in Steps
<1>1. MovesWell(r)
  BY AllMoves, Zenon DEF RequestStep, Types
<1>2. PICK to \in Steps, loc \in Local : Moves(r, to, loc)
  BY <1>1 DEF MovesWell
<1> QED BY <1>2 DEF Moves, Types, RequestTypes

\* By which action a request comes to the steps that matter.
LEMMA Comes ==
  ASSUME Types, NEW r \in Requests, RequestStep(r)
  PROVE  /\ pc'[r] = "comp_row" => CompFile(r)
         /\ pc'[r] = "whole_row" => WholeFile(r)
         /\ pc'[r] = "comp_file" => CompVerify(r)
         /\ pc'[r] = "comp_remove" => CompVerify(r) \/ CompRow(r)
         /\ pc'[r] = "audit" => CompRemove(r)
         /\ pc'[r] = "del_remove" => DelCheck(r)
         /\ pc'[r] = "forget" => Audit(r) \/ DelRemove(r)
<1>1. pc \in [Requests -> Steps]
  BY DEF Types, RequestTypes
<1>2. CASE \E u \in Uploads, step \in Waiting : Call(r, u, step)
  BY <1>1, <1>2 DEF Call, Goto, Waiting
<1>3. CASE Enter(r)
  BY <1>1, <1>3 DEF Enter, After, Goto, Waiting
<1>4. CASE PutWrite(r) \/ CompCheck(r) \/ CompCopy(r) \/ Forget(r) \/ WholeCheck(r)
           \/ Download(r) \/ Open(r)
  BY <1>1, <1>4 DEF PutWrite, CompCheck, CompCopy, Forget, WholeCheck, Download, Open, Goto,
                    Return
<1>5. CASE CompVerify(r) \/ CompFile(r) \/ CompRow(r) \/ CompRemove(r) \/ DelCheck(r)
           \/ DelRemove(r) \/ Audit(r) \/ WholeFile(r)
  BY <1>1, <1>5 DEF CompVerify, CompFile, CompRow, CompRemove, DelCheck, DelRemove, Audit,
                    WholeFile, Goto, Return
<1>6. CASE Return(r)
  BY <1>1, <1>6 DEF Return, Goto
<1>7. \/ Return(r) \/ Enter(r) \/ (\E u \in Uploads, step \in Waiting : Call(r, u, step))
      \/ PutWrite(r) \/ CompCheck(r) \/ CompCopy(r) \/ Forget(r) \/ WholeCheck(r)
      \/ Download(r) \/ Open(r)
      \/ CompVerify(r) \/ CompFile(r) \/ CompRow(r) \/ CompRemove(r) \/ DelCheck(r)
      \/ DelRemove(r) \/ Audit(r) \/ WholeFile(r)
  BY DEF RequestStep, Refuse, PutRename, PutFails, upload_status, Leave, WholeRow, Sent
<1> QED BY <1>2, <1>3, <1>4, <1>5, <1>6, <1>7

\* A file or row of the blob stays, a session that is over stays over, and a
\* session once deleted is not made again.
LEMMA Grows ==
  ASSUME Types, [Next]_vars
  PROVE  /\ file # None => file' # None
         /\ row # None => row' = row
         /\ Stored => Stored'
         /\ dropped \subseteq dropped'
         /\ \A u \in Uploads : Over(u) => Over(u)'
<1>1. file # None => file' # None
  <2>1. file' \in {file} \union Blobs
    <3>1. \A r \in Requests : rq[r].body \in Bodies
      BY DEF Types, RequestTypes, Local
    <3>2. ASSUME NEW r \in Requests, CompFile(r) \/ WholeFile(r) PROVE file' \in Blobs
      BY <3>1, <3>2, UploadAssumption DEF CompFile, WholeFile, Blobs, Bodies
    <3>3. \/ \E r \in Requests : CompFile(r) \/ WholeFile(r)
          \/ file' = file
      BY DEF Next, vars, disk, create_upload, Crash, Call, Enter, Refuse, PutWrite,
             PutRename, PutFails, upload_status, CompCheck, CompCopy, CompVerify, CompRow,
             CompRemove, Audit, Forget, Leave, DelCheck, DelRemove, WholeCheck, WholeRow,
             Download, Open, Sent
    <3> QED BY <3>2, <3>3
  <2> QED BY <2>1, NoneAssumption
<1>2. row # None => row' = row
  BY DEF Next, vars, disk, create_upload, Crash, Call, Enter, Refuse, PutWrite,
         PutRename, PutFails, upload_status, CompCheck, CompCopy, CompVerify, CompFile,
         CompRow, CompRemove, Audit, Forget, Leave, DelCheck, DelRemove, WholeCheck,
         WholeFile, WholeRow, Download, Open, Sent
<1>3. dropped \subseteq dropped'
  BY DEF Next, vars, history, create_upload, Crash, Call, Enter, Refuse, PutWrite,
         PutRename, PutFails, upload_status, CompCheck, CompCopy, CompVerify, CompFile,
         CompRow, CompRemove, Audit, Forget, Leave, DelCheck, DelRemove, WholeCheck,
         WholeFile, WholeRow, Download, Open, Sent
<1>4. ASSUME NEW u \in Uploads, dir[u] = None, u \in dropped
      PROVE  dir'[u] = None
  <2>1. CASE \E v \in Uploads : create_upload(v)
    BY <1>4, <2>1 DEF create_upload, Types, DiskTypes
  <2>2. ASSUME NEW r \in Requests, PutRename(r) \/ CompRemove(r) \/ DelRemove(r)
        PROVE  dir'[u] = None
    BY <1>4, <2>2 DEF PutRename, CompRemove, DelRemove, Types, DiskTypes
  <2>3. \/ dir' = dir
        \/ \E v \in Uploads : create_upload(v)
        \/ \E r \in Requests : PutRename(r) \/ CompRemove(r) \/ DelRemove(r)
    BY DEF Next, vars, disk, Crash, Call, Enter, Refuse, PutWrite,
           PutFails, upload_status, CompCheck, CompCopy, CompVerify, CompFile,
           CompRow, Audit, Forget, Leave, DelCheck, WholeCheck,
           WholeFile, WholeRow, Download, Open, Sent
  <2> QED BY <1>4, <2>1, <2>2, <2>3
<1> QED BY <1>1, <1>2, <1>3, <1>4 DEF Over, Stored

LEMMA ProgressStep == Types /\ Progress /\ [Next]_vars => Progress'
<1> SUFFICES ASSUME Types, Progress, [Next]_vars PROVE Progress'
  OBVIOUS
<1> DEFINE Knows(r) ==
      /\ pc[r] \in {"comp_row", "whole_row"} => file # None
      /\ pc[r] = "comp_file" => rq[r].body = "good"
      /\ pc[r] \in {"comp_remove", "audit"} => Stored
      /\ pc[r] = "del_remove" => rq[r].u \in dropped
      /\ pc[r] = "forget" => Over(rq[r].u)
<1>0. ASSUME NEW q \in Requests, pc'[q] = pc[q], rq'[q] = rq[q]
      PROVE  Knows(q)'
  <2>1. Knows(q)
    BY DEF Progress
  <2>2. pc[q] = "forget" => rq[q].u \in Uploads
    BY DEF Types, RequestTypes, AtSession, Unlocked, Waiting, Steps
  <2> QED BY <1>0, <2>1, <2>2, Grows
<1>1. ASSUME NEW r \in Requests, RequestStep(r)
      PROVE  Progress'
  <2> USE DEF Progress
  <2>1. rq[r].body \in Bodies /\ (pc[r] \in AtSession => rq[r].u \in Uploads)
    BY DEF Types, RequestTypes, Local
  <2>2. {"comp_remove", "audit", "del_remove", "forget"} \subseteq AtSession
    BY DEF AtSession, Unlocked, Waiting, Steps
  <2>3. row' # None => file' # None
    <3>1. CASE CompRow(r) \/ WholeRow(r)
      BY <3>1 DEF CompRow, WholeRow
    <3>2. CASE ~CompRow(r) /\ ~WholeRow(r)
      <4>1. row' = row
        BY <1>1, <3>2 DEF RequestStep, disk, Call, Enter, Refuse, PutWrite,
             PutRename, PutFails, upload_status, CompCheck, CompCopy, CompVerify, CompFile,
             CompRemove, Audit, Forget, Leave, DelCheck, DelRemove, WholeCheck,
             WholeFile, Download, Open, Sent
      <4> QED BY <4>1, Grows
    <3> QED BY <3>1, <3>2
  <2>4. file' # None => file'.body = "good"
    <3>1. CASE CompFile(r) \/ WholeFile(r)
      BY <3>1 DEF CompFile, WholeFile
    <3>2. CASE ~CompFile(r) /\ ~WholeFile(r)
      <4>1. file' = file
        BY <1>1, <3>2 DEF RequestStep, disk, Call, Enter, Refuse, PutWrite,
             PutRename, PutFails, upload_status, CompCheck, CompCopy, CompVerify, CompRow,
             CompRemove, Audit, Forget, Leave, DelCheck, DelRemove, WholeCheck,
             WholeRow, Download, Open, Sent
      <4> QED BY <4>1
    <3> QED BY <3>1, <3>2
  <2>5. Knows(r)'
    <3>0. pc \in [Requests -> Steps] /\ rq \in [Requests -> Local]
      BY DEF Types, RequestTypes
    <3>1. pc'[r] = "comp_row" => file' # None
      <4>1. CompFile(r) => file' \in Blobs
        BY <2>1, UploadAssumption DEF CompFile, Blobs
      <4> QED BY <1>1, <4>1, Comes, NoneAssumption
    <3>2. pc'[r] = "whole_row" => file' # None
      <4>1. WholeFile(r) => file' \in Blobs
        BY UploadAssumption DEF WholeFile, Blobs, Bodies
      <4> QED BY <1>1, <4>1, Comes, NoneAssumption
    <3>3. pc'[r] = "comp_file" => rq'[r].body = "good"
      BY <1>1, <3>0, Comes DEF CompVerify, Return, Goto
    <3>4. pc'[r] = "comp_remove" => Stored'
      <4>1. CompRow(r) => Stored'
        BY NoneAssumption, UploadAssumption DEF CompRow, Stored
      <4>2. CompVerify(r) /\ pc'[r] = "comp_remove" => Stored'
        BY <3>0, Grows DEF CompVerify, Return, Goto
      <4> QED BY <1>1, <4>1, <4>2, Comes
    <3>5. pc'[r] = "audit" => Stored'
      BY <1>1, Comes, Grows DEF CompRemove
    <3>6. pc'[r] = "del_remove" => rq'[r].u \in dropped'
      BY <1>1, Comes DEF DelCheck
    <3>7. pc'[r] = "forget" => Over(rq[r].u)'
      <4>1. CASE Audit(r) /\ pc'[r] = "forget"
        BY <4>1, Grows DEF Audit, Over
      <4>2. CASE DelRemove(r) /\ pc'[r] = "forget"
        <5>1. rq[r].u \in Uploads /\ rq[r].u \in dropped
          BY <2>1, <2>2, <4>2 DEF DelRemove
        <5>2. dir' = [dir EXCEPT ![rq[r].u] = None] /\ rq' = rq
          BY <3>0, <4>2 DEF DelRemove, Return, Goto
        <5>3. dir'[rq[r].u] = None
          BY <5>1, <5>2 DEF Types, DiskTypes
        <5> QED BY <5>1, <5>2, <5>3, Grows DEF Over
      <4> QED BY <1>1, <4>1, <4>2, Comes
    <3> QED BY <3>1, <3>2, <3>3, <3>4, <3>5, <3>6, <3>7
  <2>6. \A q \in Requests : Knows(q)'
    <3>1. \A q \in Requests : q # r => pc'[q] = pc[q] /\ rq'[q] = rq[q]
      BY <1>1, OthersStay
    <3> HIDE DEF Knows
    <3> QED BY <1>0, <2>5, <3>1
  <2>7. ASSUME NEW u \in Uploads, gen'[u] > 0 PROVE Over(u)'
    <3>1. CASE Forget(r) /\ u = rq[r].u
      BY <3>1, Grows DEF Forget
    <3>2. CASE ~(Forget(r) /\ u = rq[r].u)
      <4>1. gen'[u] = gen[u]
        <5>1. CASE Forget(r)
          BY <3>2, <5>1 DEF Forget, Types, RequestTypes
        <5>2. CASE ~Forget(r)
          BY <1>1, <5>2 DEF RequestStep, Call, Enter, Refuse, PutWrite,
             PutRename, PutFails, upload_status, CompCheck, CompCopy, CompVerify, CompRow,
             CompFile, CompRemove, Audit, Leave, DelCheck, DelRemove, WholeCheck,
             WholeFile, WholeRow, Download, Open, Sent
        <5> QED BY <5>1, <5>2
      <4> QED BY <2>7, <4>1, Grows
    <3> QED BY <3>1, <3>2
  <2> QED BY <2>3, <2>4, <2>6, <2>7
<1>2. ASSUME NEW u \in Uploads, create_upload(u) PROVE Progress'
  <2>1. pc' = pc /\ rq' = rq /\ file' = file /\ row' = row /\ gen' = gen
    BY <1>2 DEF create_upload
  <2>2. \A q \in Requests : Knows(q)'
    BY <1>0, <2>1
  <2> QED BY <2>1, <2>2, Grows DEF Progress
<1>3. CASE Crash
  <2>1. file' = file /\ row' = row /\ (\A q \in Requests : pc'[q] = "out")
        /\ \A u \in Uploads : gen'[u] = 0
    BY <1>3 DEF Crash, disk
  <2> QED BY <2>1 DEF Progress
<1>4. CASE UNCHANGED vars
  <2>1. pc' = pc /\ rq' = rq /\ file' = file /\ row' = row /\ gen' = gen
    BY <1>4 DEF vars, disk
  <2>2. \A q \in Requests : Knows(q)'
    BY <1>0, <2>1
  <2> QED BY <2>1, <2>2, Grows DEF Progress
<1> QED BY <1>1, <1>2, <1>3, <1>4 DEF Next, RequestStep

-----------------------------------------------------------------------------
(* Who holds a session's mutex.                                             *)

\* No request has a mutex from the future, and each mutex has one holder.
Holders ==
  /\ \A r \in Requests : pc[r] \in AtSession => rq[r].lock <= gen[rq[r].u]
  /\ \A u \in Uploads : \A r, q \in Inside(u) : rq[r].lock = rq[q].lock => r = q

\* A request comes into a session's section by Enter alone, and takes its
\* mutex from the map by Call.
LEMMA Enters ==
  ASSUME Types, NEW r \in Requests, RequestStep(r)
  PROVE  \/ Enter(r)
         \/ \E u \in Uploads, step \in Waiting : Call(r, u, step)
         \/ pc'[r] \in Unlocked \ Waiting
         \/ /\ pc[r] \notin Unlocked
            /\ rq'[r].u = rq[r].u /\ rq'[r].lock = rq[r].lock
<1>1. pc \in [Requests -> Steps] /\ rq \in [Requests -> Local]
  BY DEF Types, RequestTypes
<1>2. CASE Return(r) \/ WholeCheck(r) \/ WholeFile(r) \/ Download(r) \/ Open(r)
  BY <1>1, <1>2 DEF Return, WholeCheck, WholeFile, Download, Open, Goto, Unlocked, Waiting
<1>3. CASE CompCopy(r)
  <2>1. CASE Return(r)
    BY <1>2, <2>1
  <2>2. CASE ~Return(r)
    <3>1. pc[r] \notin Unlocked
      BY <1>3 DEF CompCopy, Unlocked, Waiting
    <3>2. \E n, body : rq' = [rq EXCEPT ![r] = [rq[r] EXCEPT !.n = n, !.body = body]]
      BY <1>3, <2>2 DEF CompCopy
    <3> QED BY <1>1, <3>1, <3>2 DEF Local
  <2> QED BY <2>1, <2>2
<1>4. CASE \/ PutWrite(r) \/ CompCheck(r) \/ CompVerify(r) \/ CompFile(r) \/ CompRow(r)
           \/ CompRemove(r) \/ Audit(r) \/ Forget(r) \/ DelCheck(r) \/ DelRemove(r)
  <2>1. Return(r) \/ (rq' = rq /\ pc[r] \notin Unlocked)
    BY <1>4 DEF PutWrite, CompCheck, CompVerify, CompFile, CompRow,
                CompRemove, Audit, Forget, DelCheck, DelRemove, Unlocked, Waiting
  <2> QED BY <1>2, <2>1
<1>5. \/ Return(r) \/ Enter(r) \/ (\E u \in Uploads, step \in Waiting : Call(r, u, step))
      \/ WholeCheck(r) \/ WholeFile(r) \/ Download(r) \/ Open(r) \/ CompCopy(r)
      \/ PutWrite(r) \/ CompCheck(r) \/ CompVerify(r) \/ CompFile(r) \/ CompRow(r)
      \/ CompRemove(r) \/ Audit(r) \/ Forget(r) \/ DelCheck(r) \/ DelRemove(r)
  BY DEF RequestStep, Refuse, PutRename, PutFails, upload_status, Leave, WholeRow, Sent
<1> QED BY <1>2, <1>3, <1>4, <1>5

\* The map's mutexes only get newer, but for a crash.
LEMMA Newer ==
  ASSUME Types, NEW r \in Requests, RequestStep(r), NEW u \in Uploads
  PROVE  gen'[u] >= gen[u]
<1>1. gen[u] \in Nat
  BY DEF Types, RequestTypes
<1>2. CASE Forget(r)
  BY <1>1, <1>2 DEF Forget, Types, RequestTypes
<1>3. CASE ~Forget(r)
  <2>1. gen' = gen
    BY <1>3 DEF RequestStep, Call, Enter, Refuse, PutWrite, PutRename, PutFails,
         upload_status, CompCheck, CompCopy, CompVerify, CompFile, CompRow, CompRemove,
         Audit, Leave, DelCheck, DelRemove, WholeCheck, WholeFile, WholeRow, Download,
         Open, Sent
  <2> QED BY <1>1, <2>1
<1> QED BY <1>2, <1>3

LEMMA HoldersStep == Types /\ Holders /\ [Next]_vars => Holders'
<1> SUFFICES ASSUME Types, Holders, [Next]_vars PROVE Holders'
  OBVIOUS
<1> DEFINE Current(r) == pc[r] \in AtSession => rq[r].lock <= gen[rq[r].u]
           Alone(r, q) == (/\ pc[r] \notin Unlocked /\ pc[q] \notin Unlocked
                           /\ rq[r].u = rq[q].u /\ rq[r].lock = rq[q].lock) => r = q
<1>0. Holders <=> (\A r \in Requests : Current(r)) /\ (\A r, q \in Requests :
                     rq[r].u \in Uploads => Alone(r, q))
  BY DEF Holders, Inside
<1>00. Holders' <=> (\A r \in Requests : Current(r)') /\ (\A r, q \in Requests :
                     rq'[r].u \in Uploads => Alone(r, q)')
  BY DEF Holders, Inside
<1>1. ASSUME NEW r \in Requests, RequestStep(r)
      PROVE  Holders'
  <2>0. /\ pc \in [Requests -> Steps] /\ rq \in [Requests -> Local] /\ gen \in [Uploads -> Nat]
        /\ \A q \in Requests : /\ rq[q].lock \in Nat
                               /\ pc[q] \in AtSession => rq[q].u \in Uploads
    BY DEF Types, RequestTypes, Local
  <2>1. \A q \in Requests : q # r => pc'[q] = pc[q] /\ rq'[q] = rq[q]
    BY <1>1, OthersStay
  <2>2. \A u \in Uploads : gen'[u] >= gen[u] /\ gen'[u] \in Nat
    BY <1>1, Newer, OtherTypeStep DEF RequestTypes
  <2>3. ASSUME NEW q \in Requests, q # r PROVE Current(q)'
    <3>1. Current(q)
      BY <1>0
    <3> QED BY <2>0, <2>1, <2>2, <2>3, <3>1
  <2>4. ASSUME NEW q \in Requests, NEW s \in Requests, q # r, s # r,
               rq'[q].u \in Uploads
        PROVE  Alone(q, s)'
    <3>1. Alone(q, s)
      BY <1>0, <2>1, <2>4
    <3> QED BY <2>1, <2>4, <3>1
  <2>5. Steps \ Unlocked \subseteq AtSession /\ Waiting \subseteq Unlocked
        /\ Waiting \subseteq AtSession
    BY DEF AtSession, Unlocked
  <2>6. CASE Enter(r)
    <3>1. /\ pc[r] \in Waiting /\ rq' = rq /\ gen' = gen
          /\ \A q \in Inside(rq[r].u) : rq[q].lock # rq[r].lock
      BY <2>6 DEF Enter
    <3>2. Current(r)'
      BY <1>0, <2>5, <3>1
    <3>3. \A q \in Requests : q # r => Alone(q, r)' /\ Alone(r, q)'
      BY <2>1, <3>1 DEF Inside
    <3> HIDE DEF Current, Alone
    <3>4. \A q \in Requests : Alone(q, q)'
      BY DEF Alone
    <3> QED BY <1>00, <2>3, <2>4, <3>2, <3>3, <3>4
  <2>7. ASSUME NEW u \in Uploads, NEW step \in Waiting, Call(r, u, step)
        PROVE  Holders'
    <3>1. pc'[r] = step /\ rq'[r].u = u /\ rq'[r].lock = gen[u] /\ gen' = gen
      BY <2>0, <2>7 DEF Call, Goto, Blank
    <3>2. Current(r)'
      BY <2>0, <3>1
    <3>3. \A q \in Requests : Alone(q, r)' /\ Alone(r, q)'
      BY <2>5, <3>1
    <3> HIDE DEF Current, Alone
    <3> QED BY <1>00, <2>3, <2>4, <3>2, <3>3
  <2>8. CASE pc'[r] \in Unlocked \ Waiting
    <3>1. Current(r)'
      BY <2>8 DEF AtSession
    <3>2. \A q \in Requests : Alone(q, r)' /\ Alone(r, q)'
      BY <2>8
    <3> HIDE DEF Current, Alone
    <3> QED BY <1>00, <2>3, <2>4, <3>1, <3>2
  <2>9. CASE pc[r] \notin Unlocked /\ rq'[r].u = rq[r].u /\ rq'[r].lock = rq[r].lock
    <3>1. Current(r)' /\ rq[r].u \in Uploads
      <4>1. Current(r) /\ pc[r] \in AtSession
        BY <1>0, <2>0, <2>5, <2>9
      <4> QED BY <2>0, <2>2, <2>9, <4>1
    <3>2. \A q \in Requests : q # r => Alone(q, r)' /\ Alone(r, q)'
      <4>1. \A q \in Requests : rq[q].u \in Uploads => Alone(q, r) /\ Alone(r, q)
        BY <1>0, <3>1
      <4> QED BY <2>1, <2>9, <3>1, <4>1
    <3> HIDE DEF Current, Alone
    <3>3. \A q \in Requests : Alone(q, q)'
      BY DEF Alone
    <3> QED BY <1>00, <2>3, <2>4, <3>1, <3>2, <3>3
  <2> HIDE DEF Current, Alone
  <2> QED BY <1>1, <2>6, <2>7, <2>8, <2>9, Enters
<1>2. CASE UNCHANGED <<pc, rq, gen>>
  BY <1>2 DEF Holders, Inside
<1>3. CASE Crash
  BY <1>3 DEF Holders, Inside, Crash, AtSession, Unlocked, Waiting, Steps
<1>4. (\E u \in Uploads : create_upload(u)) \/ UNCHANGED vars => UNCHANGED <<pc, rq, gen>>
  BY DEF create_upload, vars
<1> QED BY <1>1, <1>2, <1>3, <1>4 DEF Next, RequestStep

-----------------------------------------------------------------------------
(* Acknowledged chunks.                                                     *)

LEMMA KeptStep == Types /\ Progress /\ NothingLost /\ [Next]_vars => NothingLost'
<1> SUFFICES ASSUME Types, Progress, NothingLost, [Next]_vars, NEW x \in acked',
                    ~Stored', x[1] \notin dropped'
             PROVE  x[2] \in scan_chunks(x[1])'
  BY DEF NothingLost
<1> USE DEF Types
<1>0. ~Stored /\ x[1] \notin dropped
  BY Grows
<1>1. ASSUME NEW r \in Requests, PutRename(r) PROVE x[2] \in scan_chunks(x[1])'
  <2> PICK body \in Bodies : dir' = [dir EXCEPT ![rq[r].u].chunks[rq[r].n] = body]
    BY <1>1 DEF PutRename, RequestTypes, Local, Bodies
  <2>1. rq[r].u \in Uploads /\ rq[r].n \in Chunks /\ dir[rq[r].u] \in Dirs
    BY <1>1 DEF PutRename, AtSession, Unlocked, Waiting, Steps, DiskTypes, RequestTypes
  <2>2. \A v \in Uploads : dir'[v] = IF v = rq[r].u
                             THEN [dir[v] EXCEPT !.chunks[rq[r].n] = body] ELSE dir[v]
    BY <2>1 DEF DiskTypes
  <2>3. dir'[rq[r].u] \in Dirs
    BY <2>1, <2>2 DEF Dirs
  <2>31. dir[rq[r].u].chunks \in [Chunks -> Bodies \union {None}]
         /\ dir'[rq[r].u].chunks = [dir[rq[r].u].chunks EXCEPT ![rq[r].n] = body]
    BY <2>1, <2>2 DEF Dirs
  <2>4. dir'[rq[r].u] # None /\ body # None
    BY <2>3, NoneAssumption
  <2>5. \A n \in Chunks : dir'[rq[r].u].chunks[n] =
                            IF n = rq[r].n THEN body ELSE dir[rq[r].u].chunks[n]
    BY <2>1, <2>31
  <2>6. CASE x = <<rq[r].u, rq[r].n>>
    BY <2>1, <2>4, <2>5, <2>6 DEF scan_chunks
  <2>7. CASE x \in acked
    <3>1. x[2] \in Chunks /\ x[1] \in Uploads /\ dir[x[1]] # None
          /\ dir[x[1]].chunks[x[2]] # None
      BY <1>0, <2>7 DEF NothingLost, scan_chunks, HistoryTypes
    <3> QED BY <2>2, <2>4, <2>5, <3>1 DEF scan_chunks
  <2> QED BY <1>1, <2>6, <2>7 DEF PutRename
<1>2. ASSUME x \in acked, dir'[x[1]] = dir[x[1]]
      PROVE  x[2] \in scan_chunks(x[1])'
  BY <1>0, <1>2 DEF NothingLost, scan_chunks
<1>3. ASSUME NEW r \in Requests, CompRemove(r) \/ DelRemove(r), x \in acked
      PROVE  x[2] \in scan_chunks(x[1])'
  <2>1. x[1] # rq[r].u
    BY <1>0, <1>3 DEF CompRemove, DelRemove, Progress
  <2>2. dir'[x[1]] = dir[x[1]]
    BY <1>3, <2>1 DEF CompRemove, DelRemove, DiskTypes, HistoryTypes
  <2> QED BY <1>2, <1>3, <2>2
<1>4. ASSUME NEW u \in Uploads, create_upload(u), x \in acked
      PROVE  x[2] \in scan_chunks(x[1])'
  <2>1. x[2] \in Chunks /\ x = <<x[1], x[2]>> /\ x[1] \in Uploads
    BY <1>4 DEF HistoryTypes
  <2>2. x[1] # u
    BY <1>4, <2>1 DEF create_upload
  <2>3. dir'[x[1]] = dir[x[1]]
    BY <1>4, <2>1, <2>2 DEF create_upload, DiskTypes
  <2> QED BY <1>2, <1>4, <2>3
<1>5. \/ \E u \in Uploads : create_upload(u) /\ acked' = acked
      \/ \E r \in Requests : PutRename(r)
      \/ \E r \in Requests : (CompRemove(r) \/ DelRemove(r)) /\ acked' = acked
      \/ UNCHANGED <<dir, acked>>
  BY DEF Next, vars, disk, history, create_upload, Crash, Call, Enter, Refuse, PutWrite,
         PutFails, upload_status, CompCheck, CompCopy, CompVerify, CompFile,
         CompRow, CompRemove, Audit, Forget, Leave, DelCheck, DelRemove, WholeCheck,
         WholeFile, WholeRow, Download, Open, Sent
<1> QED BY <1>1, <1>2, <1>3, <1>4, <1>5

-----------------------------------------------------------------------------
(* The invariant, and what follows from it whatever the encoders decide.    *)

IInv == Types /\ Progress /\ Holders /\ NothingLost

LEMMA InitInv == Init => IInv
<1> SUFFICES ASSUME Init PROVE IInv
  OBVIOUS
<1>1. Types
  BY InitTypes
<1>2. Progress
  BY DEF Init, Progress
<1>3. Holders
  BY DEF Init, Holders, Inside, AtSession, Unlocked, Waiting
<1>4. NothingLost
  BY DEF Init, NothingLost
<1> QED BY <1>1, <1>2, <1>3, <1>4 DEF IInv

LEMMA AlwaysInv == Spec => []IInv
<1>1. IInv /\ [Next]_vars => IInv'
  BY TypeStep, ProgressStep, HoldersStep, KeptStep DEF IInv
<1> QED BY InitInv, <1>1, PTL DEF Spec

(* Disk, mutexes and requests keep their types, and a session's mutex has   *)
(* one holder at a time.                                                    *)
THEOREM TypeCorrect == Spec => []TypeOK
<1>1. Types /\ Holders => TypeOK
  <2>1. Steps \ Unlocked \subseteq AtSession
    BY DEF AtSession
  <2> QED BY <2>1 DEF Types, DiskTypes, HistoryTypes, RequestTypes, Holders, TypeOK
<1> QED BY <1>1, AlwaysInv, PTL DEF IInv

(* A chunk that was acknowledged stays on disk until the blob is stored or  *)
(* its owner deletes the session, through crashes, half-done removals and   *)
(* mutexes dropped while others wait for them.                              *)
THEOREM AcknowledgedIsKept == Spec => []NothingLost
BY AlwaysInv, PTL DEF IInv

(* Two requests are in the section of one session only when forget_upload   *)
(* has replaced its mutex, and then the session is over.                    *)
THEOREM MutexUntilOver == Spec => []Exclusive
<1>1. IInv => Exclusive
  <2> SUFFICES ASSUME IInv, NEW u \in Uploads, NEW r \in Inside(u), NEW q \in Inside(u),
                      r # q
               PROVE  dir[u] = None \/ Stored
    BY DEF Exclusive
  <2> USE DEF IInv
  <2>1. /\ r \in Requests /\ pc[r] \in AtSession /\ rq[r].u = u
        /\ q \in Requests /\ pc[q] \in AtSession /\ rq[q].u = u
    BY DEF Inside, AtSession, Types, RequestTypes
  <2>2. /\ rq[r].lock \in Nat /\ rq[q].lock \in Nat /\ gen[u] \in Nat
        /\ rq[r].lock <= gen[u] /\ rq[q].lock <= gen[u]
    BY <2>1 DEF Types, RequestTypes, Local, Holders
  <2>3. rq[r].lock # rq[q].lock
    BY DEF Holders
  <2>4. gen[u] > 0
    BY <2>2, <2>3
  <2> QED BY <2>4 DEF Progress, Over
<1> QED BY <1>1, AlwaysInv, PTL

-----------------------------------------------------------------------------
(* What is stored and served, whatever the two encoders decide.             *)

\* The answer a download sends, as ServedIsBlob asks for it.
Serves(loc) ==
  LET sent == loc.sent  range == loc.range
  IN /\ sent # None
     /\ sent.body = "good"
     /\ LET bytes == sent.first .. sent.first + sent.length - 1
        IN bytes = IF ~sent.partial THEN 0 .. Size - 1
                   ELSE {i \in 0 .. Size - 1 :
                           i >= range[1] /\ (range[2] # None => i <= range[2])}

\* The codec of a request that writes the blob.
Writing == WholeSteps \union ChunkedSteps
Codec(step) == IF step \in WholeSteps THEN WholeCodec ELSE ChunkedCodec

\* Unless puts of different codecs crossed, those under way at any time are of
\* one codec, began when there was no row, and what is there is of that codec.
Apart ==
  /\ row # None => file.codec = row
  /\ \A r \in Requests : pc[r] \in Writing =>
       /\ row # None => row = Codec(pc[r])
       /\ pc[r] \in {"whole_row", "comp_row"} => file.codec = Codec(pc[r])
       /\ \A q \in Requests : pc[q] \in Writing => Codec(pc[q]) = Codec(pc[r])
\* A download decodes by the row, and sends the file.
Reading ==
  \A r \in Requests :
    /\ pc[r] = "open" => row # None /\ rq[r].codec = row
    /\ pc[r] = "send" => Serves(rq[r]) /\ (rq[r].sent.codec = rq[r].codec \/ crossed)
Encoded == (Apart \/ crossed) /\ Reading

\* Whatever range is asked for, an answer from a good file is the blob's.
LEMMA AnswerServes ==
  ASSUME Types, NEW loc \in Local, NEW range \in Ranges, file # None,
         file.body = "good"
  PROVE  /\ Serves([loc EXCEPT !.range = range, !.sent = Answer(loc.codec, range)])
         /\ Answer(loc.codec, range).codec = file.codec
<1> DEFINE new == [loc EXCEPT !.range = range, !.sent = Answer(loc.codec, range)]
           answer == Answer(loc.codec, range)
<1>0. Size \in Nat \ {0}
  BY UploadAssumption
<1>1. /\ new.sent = answer /\ new.range = range /\ new.codec = loc.codec
      /\ answer \in Answers
  BY AnswerType DEF Types, Local
<1>2. answer.body = "good" /\ answer.codec = file.codec
  BY DEF Answer
<1>3. answer # None
  BY <1>1, NoneAssumption
<1>4. ASSUME Part(loc.codec, range) = None PROVE Serves(new)
  <2>1. answer.first = 0 /\ answer.length = Size /\ answer.partial = FALSE
    BY <1>4 DEF Answer
  <2> HIDE DEF new, answer
  <2> QED BY <1>0, <1>1, <1>2, <1>3, <2>1 DEF Serves
<1>5. ASSUME Part(loc.codec, range) # None PROVE Serves(new)
  <2>1. Part(loc.codec, range) = parse_range(range)
    BY <1>5 DEF Part
  <2> DEFINE part == parse_range(range)
  <2>2. /\ part[1] = range[1] /\ range[1] \in 0 .. Size - 1 /\ part[2] \in range[1] .. Size - 1
        /\ part[2] = IF range[2] = None \/ range[2] > Size - 1 THEN Size - 1 ELSE range[2]
    BY <1>5, <2>1, PartType
  <2>3. /\ answer.first = range[1] /\ answer.length = part[2] - range[1] + 1
        /\ answer.partial = TRUE
    BY <1>5, <2>1, <2>2 DEF Answer
  <2>4. answer.first .. answer.first + answer.length - 1 =
          {i \in 0 .. Size - 1 : i >= range[1] /\ i <= part[2]}
    <3>1. answer.first + answer.length - 1 = part[2]
      <4> HIDE DEF part, answer
      <4> QED BY <1>0, <2>2, <2>3
    <3> HIDE DEF part, answer
    <3> QED BY <1>0, <2>2, <2>3, <3>1
  <2>5. \A i \in 0 .. Size - 1 : i <= part[2] <=> (range[2] # None => i <= range[2])
    <3>1. range[2] # None => range[2] \in 0 .. Size
      BY <1>5, <2>1 DEF parse_range, Ranges
    <3> HIDE DEF part
    <3> QED BY <1>0, <2>2, <3>1
  <2> HIDE DEF new, answer, part
  <2> QED BY <1>1, <1>2, <1>3, <2>3, <2>4, <2>5 DEF Serves
<1>6. Serves(new)
  BY <1>4, <1>5
<1> QED BY <1>2, <1>6

\* How the steps of a write follow each other.
LEMMA Writes ==
  ASSUME Types, NEW r \in Requests, RequestStep(r)
  PROVE  /\ pc'[r] = "whole_file" => WholeCheck(r)
         /\ pc'[r] = "comp_file" => CompVerify(r) /\ ~Stored /\ Begins(WholeSteps)
         /\ pc'[r] = "whole_row" => WholeFile(r)
         /\ pc'[r] = "comp_row" => CompFile(r)
<1>1. pc \in [Requests -> Steps]
  BY DEF Types, RequestTypes
<1>2. CASE Return(r)
  BY <1>1, <1>2 DEF Return, Goto
<1>3. CASE (\E u \in Uploads, step \in Waiting : Call(r, u, step)) \/ Enter(r)
  BY <1>1, <1>3 DEF Call, Enter, After, Goto, Waiting
<1>4. CASE ~Return(r) /\ ~Enter(r) /\ ~\E u \in Uploads, step \in Waiting : Call(r, u, step)
  <2>1. CASE CompVerify(r)
    BY <1>1, <1>4, <2>1 DEF CompVerify, Goto
  <2>2. CASE ~CompVerify(r)
    BY <1>1, <1>4, <2>2 DEF RequestStep, Refuse, PutWrite, PutRename, PutFails,
       upload_status, CompCheck, CompCopy, CompFile, CompRow, CompRemove, Audit, Forget,
       Leave, DelCheck, DelRemove, WholeCheck, WholeFile, WholeRow, Download, Open, Sent, Goto
  <2> QED BY <2>1, <2>2
<1> QED BY <1>2, <1>3, <1>4

\* Once crossed, always, but for a crash.
LEMMA StaysCrossed ==
  ASSUME Types, NEW r \in Requests, RequestStep(r), crossed
  PROVE  crossed'
BY DEF RequestStep, history, Call, Enter, Refuse, PutWrite, PutRename, PutFails, Begins,
   upload_status, CompCheck, CompCopy, CompVerify, CompFile, CompRow, CompRemove, Audit, Forget,
   Leave, DelCheck, DelRemove, WholeCheck, WholeFile, WholeRow, Download, Open, Sent

LEMMA ApartStep ==
  ASSUME IInv, Apart, NEW r \in Requests, RequestStep(r), ~crossed'
  PROVE  Apart'
<1> USE DEF IInv
<1>0. /\ pc \in [Requests -> Steps] /\ pc' \in [Requests -> Steps] /\ ~crossed
      /\ \A q \in Requests : q # r => pc'[q] = pc[q]
  BY OthersStay, StaysCrossed DEF Types, RequestTypes
<1>1. ASSUME \/ Begins(WholeSteps) /\ pc'[r] = "comp_file"
             \/ Begins(ChunkedSteps) /\ pc'[r] = "whole_file",
             ~Stored, row' = row, file' = file
      PROVE  Apart'
  <2>1. row = None
    BY <1>1 DEF Stored, Progress
  <2>2. \A q \in Requests : q # r /\ pc[q] \in Writing => Codec(pc[q]) = Codec(pc'[r])
    BY <1>0, <1>1 DEF Begins, Codec, Writing, WholeSteps, ChunkedSteps
  <2>3. pc'[r] \notin {"whole_row", "comp_row"}
    BY <1>1
  <2> QED BY <1>0, <1>1, <2>1, <2>2, <2>3 DEF Apart
<1>2. ASSUME CompFile(r) \/ WholeFile(r) PROVE Apart'
  <2>1. /\ pc[r] \in Writing /\ pc'[r] \in Writing /\ Codec(pc'[r]) = Codec(pc[r])
        /\ file'.codec = Codec(pc[r]) /\ row' = row
    BY <1>0, <1>2 DEF CompFile, WholeFile, Goto, Writing, Codec, WholeSteps, ChunkedSteps
  <2>2. \A q \in Requests : pc'[q] \in Writing => pc[q] \in Writing /\ Codec(pc'[q]) = Codec(pc[q])
    BY <1>0, <2>1
  <2>3. \A q \in Requests : pc[q] \in Writing => Codec(pc[q]) = Codec(pc[r])
    BY <2>1 DEF Apart
  <2> HIDE DEF IInv
  <2> QED BY <2>1, <2>2, <2>3 DEF Apart
<1>3. ASSUME CompRow(r) \/ WholeRow(r) PROVE Apart'
  <2>1. /\ pc[r] \in Writing /\ pc[r] \in {"whole_row", "comp_row"} /\ pc'[r] \notin Writing
        /\ row' = (IF row = None THEN Codec(pc[r]) ELSE row) /\ file' = file
    BY <1>0, <1>3 DEF CompRow, WholeRow, Return, Goto, Writing, Codec, WholeSteps, ChunkedSteps
  <2>2. row' = Codec(pc[r]) /\ file.codec = Codec(pc[r])
    BY <2>1 DEF Apart
  <2>3. \A q \in Requests : pc'[q] \in Writing => pc'[q] = pc[q] /\ Codec(pc[q]) = Codec(pc[r])
    BY <1>0, <2>1 DEF Apart
  <2> HIDE DEF IInv
  <2> QED BY <2>1, <2>2, <2>3 DEF Apart
<1>4. ASSUME pc'[r] \notin Writing, row' = row, file' = file PROVE Apart'
  <2>1. \A q \in Requests : pc'[q] \in Writing => pc'[q] = pc[q]
    BY <1>0, <1>4
  <2> QED BY <1>4, <2>1 DEF Apart
<1>5. CASE CompRow(r) \/ WholeRow(r) \/ CompFile(r) \/ WholeFile(r)
  BY <1>2, <1>3, <1>5
<1>6. CASE ~(CompRow(r) \/ WholeRow(r) \/ CompFile(r) \/ WholeFile(r))
  <2>1. row' = row /\ file' = file
    BY <1>6 DEF RequestStep, disk, Call, Enter, Refuse, PutWrite, PutRename, PutFails,
       upload_status, CompCheck, CompCopy, CompVerify, CompRemove, Audit, Forget, Leave,
       DelCheck, DelRemove, WholeCheck, Download, Open, Sent
  <2>2. \/ pc'[r] \notin Writing
        \/ ~Stored /\ Begins(WholeSteps) /\ pc'[r] = "comp_file"
        \/ ~Stored /\ Begins(ChunkedSteps) /\ pc'[r] = "whole_file"
    BY <1>6, Writes DEF Writing, WholeSteps, ChunkedSteps, WholeCheck
  <2> QED BY <1>1, <1>4, <2>1, <2>2
<1> QED BY <1>5, <1>6

LEMMA ReadingStep ==
  ASSUME IInv, Encoded, NEW r \in Requests, RequestStep(r)
  PROVE  Reading'
<1> USE DEF IInv
<1> DEFINE Reads(q) == /\ pc[q] = "open" => row # None /\ rq[q].codec = row
                       /\ pc[q] = "send" => /\ Serves(rq[q])
                                            /\ rq[q].sent.codec = rq[q].codec \/ crossed
<1>0. /\ pc \in [Requests -> Steps] /\ rq \in [Requests -> Local]
      /\ \A q \in Requests : Reads(q)
  BY DEF Types, RequestTypes, Encoded, Reading
<1>1. ASSUME NEW q \in Requests, pc'[q] = pc[q], rq'[q] = rq[q]
      PROVE  Reads(q)'
  <2>1. Reads(q)
    BY <1>0
  <2>2. Serves(rq[q])' <=> Serves(rq[q])
    BY <1>1 DEF Serves
  <2> QED BY <1>1, <2>1, <2>2, Grows, StaysCrossed DEF Next, RequestStep
<1>2. ASSUME Download(r) PROVE Reads(r)'
  <2>1. pc'[r] = "open" /\ rq'[r].codec = row /\ row # None /\ row' = row
    BY <1>0, <1>2 DEF Download, Goto, disk, Local
  <2> QED BY <2>1
<1>3. ASSUME Open(r) PROVE Reads(r)'
  <2> PICK range \in Ranges :
        Moves(r, "send", [rq[r] EXCEPT !.range = range,
                                       !.sent = IF file = None THEN None
                                                ELSE Answer(rq[r].codec, range)])
    BY <1>3, OpenIs DEF Types
  <2>1. row # None /\ rq[r].codec = row /\ crossed' = crossed
    BY <1>0, <1>3 DEF Open, history
  <2>2. file # None /\ file.body = "good" /\ (file.codec = row \/ crossed)
    BY <2>1 DEF Progress, Encoded, Apart
  <2> DEFINE new == [rq[r] EXCEPT !.range = range, !.sent = Answer(rq[r].codec, range)]
  <2>3. Serves(new) /\ Answer(rq[r].codec, range).codec = file.codec
    BY <1>0, <2>2, AnswerServes
  <2>4. rq'[r] = new /\ pc'[r] = "send"
    BY <1>0, <2>2 DEF Moves
  <2>5. new.sent = Answer(rq[r].codec, range) /\ new.codec = rq[r].codec
    BY <1>0 DEF Local
  <2> HIDE DEF new
  <2>6. Serves(rq[r])'
    BY <2>3, <2>4 DEF Serves
  <2> QED BY <2>1, <2>2, <2>3, <2>4, <2>5, <2>6
<1>4. ASSUME ~Download(r), ~Open(r) PROVE Reads(r)'
  <2>1. pc'[r] \notin {"open", "send"}
    <3>1. CASE Return(r)
      BY <1>0, <3>1 DEF Return, Goto
    <3>2. CASE ~Return(r)
      BY <1>0, <1>4, <3>2 DEF RequestStep, Call, Enter, Refuse, PutWrite, PutRename,
         PutFails, upload_status, CompCheck, CompCopy, CompVerify, CompFile, CompRow,
         CompRemove, Audit, Forget, Leave, DelCheck, DelRemove, WholeCheck, WholeFile,
         WholeRow, Sent, Goto, After, Waiting
    <3> QED BY <3>1, <3>2
  <2> QED BY <2>1
<1>5. Reads(r)'
  BY <1>2, <1>3, <1>4
<1>6. \A q \in Requests : q # r => pc'[q] = pc[q] /\ rq'[q] = rq[q]
  BY OthersStay
<1> HIDE DEF Reads, IInv
<1>7. \A q \in Requests : Reads(q)'
  BY <1>1, <1>5, <1>6
<1> QED BY <1>7 DEF Reading, Reads

LEMMA EncodedStep == IInv /\ Encoded /\ [Next]_vars => Encoded'
<1> SUFFICES ASSUME IInv, Encoded, [Next]_vars PROVE Encoded'
  OBVIOUS
<1>1. ASSUME NEW r \in Requests, RequestStep(r) PROVE Encoded'
  <2>1. crossed \in BOOLEAN
    BY DEF IInv, Types, HistoryTypes
  <2>2. CASE crossed'
    BY <1>1, <2>2, ReadingStep DEF Encoded
  <2>3. CASE ~crossed'
    BY <1>1, <2>3, ReadingStep, ApartStep, StaysCrossed DEF Encoded, IInv
  <2> QED BY <2>2, <2>3
<1>2. CASE (\E u \in Uploads : create_upload(u)) \/ UNCHANGED vars
  <2>1. UNCHANGED <<pc, rq, file, row, crossed>>
    BY <1>2 DEF create_upload, vars, history, disk
  <2> QED BY <2>1 DEF Encoded, Apart, Reading, Serves
<1>3. CASE Crash
  <2>1. /\ \A r \in Requests : pc'[r] = "out"
        /\ file' = file /\ row' = row /\ crossed' = (crossed /\ row # None)
    BY <1>3 DEF Crash, disk
  <2>2. Reading'
    BY <2>1 DEF Reading
  <2>3. Apart' \/ crossed'
    BY <2>1 DEF Encoded, Apart, Writing, WholeSteps, ChunkedSteps
  <2> QED BY <2>2, <2>3 DEF Encoded
<1> QED BY <1>1, <1>2, <1>3 DEF Next, RequestStep

LEMMA AlwaysEncoded == Spec => [](IInv /\ Encoded)
<1>1. Init => Encoded
  BY DEF Init, Encoded, Apart, Reading, Writing, WholeSteps, ChunkedSteps
<1> QED BY <1>1, EncodedStep, AlwaysInv, PTL DEF Spec

(* A row stands for a file with the declared content, through every         *)
(* interleaving of uploads and every crash, and whatever the two encoders   *)
(* decide.  The file is in the row's codec, too, unless a put_blob and a    *)
(* complete_upload that decided differently were both past their look for   *)
(* the blob: nothing else makes the row and the file differ.                *)
THEOREM WhatIsStored == Spec => []StoredIsDeclared
<1>1. IInv /\ Encoded => StoredIsDeclared
  BY DEF IInv, Progress, Encoded, Apart, StoredIsDeclared
<1> QED BY <1>1, AlwaysEncoded, PTL

(* A download answers exactly the bytes of the blob that its range asks     *)
(* for, whatever was uploaded between the SELECT and the open, and decodes  *)
(* them rightly unless two such uploads crossed.                            *)
THEOREM WhatIsServed == Spec => []ServedIsBlob
<1>1. IInv /\ Encoded => ServedIsBlob
  BY DEF Encoded, Reading, Serves, ServedIsBlob
<1> QED BY <1>1, AlwaysEncoded, PTL
=============================================================================
