---------------------------- MODULE CommitProofs ----------------------------
(* Theorems about CommitProtocol, for every number of clients, commits and   *)
(* concurrent requests, and any lengths of time.                            *)
EXTENDS CommitProtocol, TLAPS

-----------------------------------------------------------------------------
(* Types.                                                                   *)

LEMMA TellType ==
  ASSUME TypeOK, NEW c \in Commits, NEW rev \in Nat, Tell(c, rev)
  PROVE  told' \in [Commits -> SUBSET Nat] /\ given' = given
BY DEF Tell, TypeOK

LEMMA TypeStart ==
  ASSUME TypeOK, NEW r \in Reqs, Arrive(r)
  PROVE  TypeOK'
<1>1. ASSUME NEW c \in Commits, NEW base \in 0..head, StartPrepare(r, c, base)
      PROVE  TypeOK'
  <2>1. [as |-> c, base |-> base, tok |-> 0, left |-> Changed[c], row |-> None] \in Request
    BY CommitAssumption DEF Request, TypeOK
  <2> QED BY <1>1, <2>1 DEF StartPrepare, Start, TypeOK, Steps, tables, clients, env
<1>2. ASSUME NEW c \in Commits, NEW t \in Tokens, StartCommit(r, c, t)
      PROVE  TypeOK'
  <2>1. [as |-> c, base |-> 0, tok |-> t, left |-> {}, row |-> None] \in Request
    BY DEF Request, TypeOK, Tokens
  <2> QED BY <1>2, <2>1 DEF StartCommit, Start, TypeOK, Steps, tables, clients, env
<1> QED BY <1>1, <1>2 DEF Arrive

LEMMA TypeReplay ==
  ASSUME TypeOK, NEW r \in Reqs, NEW from \in Steps \ {"idle"},
         NEW to \in {"pre_head", "com_find"}, Replay(r, from, to)
  PROVE  TypeOK'
<1>1. req[r] \in Request /\ req[r].as \in Commits
  BY DEF Replay, TypeOK, Request
<1>2. CASE done[req[r].as] # 0
  <2>1. told' \in [Commits -> SUBSET Nat] /\ given' = given
    BY <1>1, <1>2, TellType DEF Replay, TypeOK
  <2> QED BY <1>1, <1>2, <2>1 DEF Replay, Finish, TypeOK, Steps, tables, env
<1>3. CASE done[req[r].as] = 0
  BY <1>1, <1>3 DEF Replay, Goto, TypeOK, Steps, tables, clients, env
<1> QED BY <1>2, <1>3

LEMMA TypeCheckPath ==
  ASSUME TypeOK, NEW r \in Reqs,
         CheckPath(r, "pre_paths", "pre_tx") \/ CheckPath(r, "com_paths", "com_tx")
  PROVE  TypeOK'
<1> DEFINE Passes(p) == req' = [req EXCEPT ![r].left = @ \ {p}] /\ UNCHANGED pc
<1>1. req[r] \in Request /\ UNCHANGED <<tables, clients, env>>
  BY DEF CheckPath, TypeOK
<1>2. CASE Finish(r)
  BY <1>1, <1>2 DEF Finish, TypeOK, Steps, tables, clients, env
<1>3. CASE \/ Goto(r, "pre_tx") /\ pc[r] = "pre_paths"
           \/ Goto(r, "com_tx") /\ pc[r] = "com_paths"
  BY <1>1, <1>3 DEF Goto, TypeOK, Steps, tables, clients, env
<1>4. ASSUME NEW p, Passes(p)
      PROVE  TypeOK'
  <2>1. [req[r] EXCEPT !.left = @ \ {p}] \in Request
    BY <1>1 DEF Request
  <2>2. [req[r] EXCEPT !.left = @ \ {p}].row = req[r].row
    BY <1>1 DEF Request
  <2>3. /\ req' \in [Reqs -> Request \union {None}]
        /\ \A s \in Reqs : req'[s] = IF s = r THEN [req[r] EXCEPT !.left = @ \ {p}]
                                            ELSE req[s]
    BY <1>4, <2>1 DEF TypeOK
  <2>4. \A s \in Reqs : /\ req[s] \in Request => req'[s] \in Request
                        /\ req'[s].row = req[s].row
    BY <2>1, <2>2, <2>3
  <2> QED BY <1>1, <1>4, <2>3, <2>4 DEF TypeOK, tables, clients, env
<1>5. CASE CheckPath(r, "pre_paths", "pre_tx")
  <2>1. pc[r] = "pre_paths"
    BY <1>5 DEF CheckPath
  <2>2. Finish(r) \/ Goto(r, "pre_tx") \/ \E p : Passes(p)
    BY <1>5, Zenon DEF CheckPath
  <2>3. (\E p : Passes(p)) => TypeOK'
    BY <1>4
  <2> QED BY <1>2, <1>3, <2>1, <2>2, <2>3
<1>6. CASE CheckPath(r, "com_paths", "com_tx")
  <2>1. pc[r] = "com_paths"
    BY <1>6 DEF CheckPath
  <2>2. Finish(r) \/ Goto(r, "com_tx") \/ \E p : Passes(p)
    BY <1>6, Zenon DEF CheckPath
  <2>3. (\E p : Passes(p)) => TypeOK'
    BY <1>4
  <2> QED BY <1>2, <1>3, <2>1, <2>2, <2>3
<1> QED BY <1>5, <1>6

LEMMA TypePreTx ==
  ASSUME TypeOK, NEW r \in Reqs, PreTx(r)
  PROVE  TypeOK'
<1> DEFINE c == req[r].as
           new == [tok |-> issued, cid |-> c, user |-> Author[c],
                   base |-> req[r].base, expires |-> now + TokenTtl]
<1>1. req[r] \in Request /\ c \in Commits
  BY DEF PreTx, TypeOK, Request
<1>2. new \in Pending
  BY <1>1, CommitAssumption DEF Pending, TypeOK, Request
<1>3. pending' \subseteq Pending
  BY <1>2 DEF PreTx, Supersede, TypeOK
<1> QED BY <1>1, <1>3 DEF PreTx, Finish, TypeOK, Steps, env

LEMMA TypeComTx ==
  ASSUME TypeOK, NEW r \in Reqs, ComTx(r)
  PROVE  TypeOK'
<1> DEFINE c == req[r].as  row == req[r].row
           new == [cid |-> c, tok |-> row.tok, user |-> row.user, base |-> row.base,
                   paths |-> Changed[row.cid]]
<1>1. req[r] \in Request /\ c \in Commits /\ row \in Pending
  BY DEF ComTx, TypeOK, Request
<1>2. new \in Revision
  BY <1>1, CommitAssumption DEF Pending, Revision
<1>3. log' \in [1..head' -> Revision]
  BY <1>2 DEF ComTx, TypeOK
<1> QED BY <1>1, <1>3 DEF ComTx, Tell, Finish, TypeOK, Steps, env

LEMMA TypeStep == TypeOK /\ [Next]_vars => TypeOK'
<1> SUFFICES ASSUME TypeOK, [Next]_vars PROVE TypeOK'
  OBVIOUS
<1>1. ASSUME NEW r \in Reqs, Statement(r) PROVE TypeOK'
  <2>1. CASE PreReplay(r) \/ ComReplay(r)
    BY <2>1, TypeReplay DEF PreReplay, ComReplay, Steps
  <2>2. CASE PrePaths(r) \/ ComPaths(r)
    BY <2>2, TypeCheckPath DEF PrePaths, ComPaths
  <2>3. CASE PreHead(r)
    BY <2>3 DEF PreHead, Finish, Goto, TypeOK, Steps, tables, clients, env
  <2>4. CASE ComFind(r)
    <3>1. req[r] \in Request
      BY <2>4 DEF ComFind, TypeOK
    <3>2. ASSUME NEW q \in pending,
                 req' = [req EXCEPT ![r].row = q, ![r].left = Changed[q.cid]]
          PROVE  req'[r] \in Request /\ req'[r].row \in Pending
      BY <3>1, <3>2, CommitAssumption DEF TypeOK, Request, Pending
    <3> QED BY <2>4, <3>2 DEF ComFind, Finish, TypeOK, Steps, tables, clients, env
  <2>5. CASE ComExpiry(r)
    BY <2>5 DEF ComExpiry, DropToken, Finish, Goto, TypeOK, Steps, clients, env
  <2>6. CASE ComHead(r)
    <3>1. CASE req[r].row.base # head
      BY <2>6, <3>1 DEF ComHead, DropToken, Finish, TypeOK, Steps, clients, env
    <3>2. CASE req[r].row.base = head
      BY <2>6, <3>2 DEF ComHead, Goto, TypeOK, Steps, clients, env
    <3> QED BY <3>1, <3>2
  <2>7. CASE ComTxRefused(r)
    BY <2>7 DEF ComTxRefused, Finish, TypeOK, Steps, tables, clients, env
  <2> QED BY <1>1, <2>1, <2>2, <2>3, <2>4, <2>5, <2>6, <2>7, TypePreTx, TypeComTx
          DEF Statement
<1>2. ASSUME NEW u \in Users, NEW p \in Paths, TakeLock(u, p) PROVE TypeOK'
  BY <1>2 DEF TakeLock, TypeOK, tables, clients
<1>3. ASSUME NEW p \in Paths, LoseLock(p) PROVE TypeOK'
  BY <1>3 DEF LoseLock, TypeOK, tables, clients
<1>4. CASE Tick
  BY <1>4 DEF Tick, TypeOK, tables, clients
<1>5. CASE Crash
  BY <1>5 DEF Crash, TypeOK, Steps, tables, clients
<1>6. CASE UNCHANGED vars
  BY <1>6 DEF vars, TypeOK
<1> QED BY <1>1, <1>2, <1>3, <1>4, <1>5, <1>6, TypeStart DEF Next

(* The tables, answers and locals have their types; revisions are numbered  *)
(* 1..head without gaps.                                                    *)
THEOREM TypeCorrect == Spec => []TypeOK
<1>1. Init => TypeOK
  BY DEF Init, TypeOK, Steps
<1> QED BY <1>1, TypeStep, PTL DEF Spec

-----------------------------------------------------------------------------
(* Safety.  The four properties are inductive together with the types: the  *)
(* transaction reads head_rev again, the key keeps commit_ids apart, and a  *)
(* replay answers from the table.                                           *)
Safe == LinearHistory /\ OneRevisionPerCommit /\ AnswersAgree /\ OneTokenPerCommit

\* A step that only removes tokens keeps everything.
LEMMA SafeKept ==
  ASSUME Safe, UNCHANGED <<head, log, done, told>>, pending' \subseteq pending
  PROVE  Safe'
BY DEF Safe, LinearHistory, OneRevisionPerCommit, AnswersAgree, OneTokenPerCommit

LEMMA SafeReplay ==
  ASSUME TypeOK, Safe, NEW r \in Reqs, NEW from \in Steps \ {"idle"}, NEW to,
         Replay(r, from, to)
  PROVE  Safe'
<1>1. UNCHANGED <<head, log, done, pending>>
  BY DEF Replay, tables
<1>2. CASE done[req[r].as] # 0
  <2>1. req[r].as \in Commits
    BY DEF Replay, TypeOK, Request
  <2>2. told' = [told EXCEPT ![req[r].as] = @ \union {done[req[r].as]}]
    BY <1>2 DEF Replay, Tell
  <2>3. AnswersAgree'
    BY <1>1, <1>2, <2>1, <2>2 DEF Safe, AnswersAgree, TypeOK
  <2> QED BY <1>1, <2>3 DEF Safe, LinearHistory, OneRevisionPerCommit, OneTokenPerCommit
<1>3. CASE done[req[r].as] = 0
  BY <1>1, <1>3, SafeKept DEF Replay, clients
<1> QED BY <1>2, <1>3

LEMMA SafePreTx ==
  ASSUME TypeOK, Safe, NEW r \in Reqs, PreTx(r)
  PROVE  Safe'
<1> DEFINE c == req[r].as
<1>1. UNCHANGED <<head, log, done, told>>
  BY DEF PreTx
<1>2. PICK new : new.cid = c /\ pending' = {q \in pending : q.cid # c} \union {new}
  BY DEF PreTx, Supersede
<1>3. OneTokenPerCommit'
  BY <1>2 DEF Safe, OneTokenPerCommit
<1> QED BY <1>1, <1>3 DEF Safe, LinearHistory, OneRevisionPerCommit, AnswersAgree

LEMMA SafeComTx ==
  ASSUME TypeOK, Safe, NEW r \in Reqs, ComTx(r)
  PROVE  Safe'
<1> DEFINE c == req[r].as  row == req[r].row
<1>1. c \in Commits /\ row \in Pending /\ head \in Nat
  BY DEF ComTx, TypeOK, Request
<1>2. row.base = head /\ done[c] = 0
  BY DEF ComTx, CanLand, HeadUnmoved, KeyFree
<1>3. /\ head' = head + 1
      /\ DOMAIN log' = 1..(head + 1)
      /\ \A n \in 1..head : log'[n] = log[n]
      /\ log'[head + 1].cid = c /\ log'[head + 1].base = row.base
  BY <1>1 DEF ComTx, TypeOK
<1>4. done' = [done EXCEPT ![c] = head + 1] /\ done \in [Commits -> Nat]
  BY DEF ComTx, TypeOK
<1>5. LinearHistory'
  BY <1>1, <1>2, <1>3 DEF Safe, LinearHistory
<1>6. OneRevisionPerCommit'
  <2>1. \A n \in 1..head : log[n].cid # c /\ log[n].cid \in Commits
    BY <1>1, <1>2 DEF Safe, OneRevisionPerCommit, TypeOK, Revision
  <2>2. \A n \in 1..head' : done'[log'[n].cid] = n
    BY <1>1, <1>3, <1>4, <2>1 DEF Safe, OneRevisionPerCommit
  <2>3. ASSUME NEW d \in Commits, done'[d] # 0
        PROVE  done'[d] \in 1..head' /\ log'[done'[d]].cid = d
    <3>1. CASE d = c
      BY <1>1, <1>3, <1>4, <3>1
    <3>2. CASE d # c
      <4>1. done'[d] = done[d] /\ done[d] \in 1..head /\ log[done[d]].cid = d
        BY <1>4, <2>3, <3>2 DEF Safe, OneRevisionPerCommit
      <4> QED BY <1>1, <1>3, <4>1
    <3> QED BY <3>1, <3>2
  <2> QED BY <2>2, <2>3 DEF OneRevisionPerCommit
<1>7. AnswersAgree'
  <2>1. told' = [told EXCEPT ![c] = @ \union {head + 1}]
    BY DEF ComTx, Tell
  <2> QED BY <1>1, <1>2, <1>4, <2>1 DEF Safe, AnswersAgree, TypeOK
<1>8. OneTokenPerCommit'
  BY DEF ComTx, Safe, OneTokenPerCommit
<1> QED BY <1>5, <1>6, <1>7, <1>8 DEF Safe

LEMMA SafeStep == TypeOK /\ Safe /\ [Next]_vars => Safe'
<1> SUFFICES ASSUME TypeOK, Safe, [Next]_vars PROVE Safe'
  OBVIOUS
<1>1. ASSUME NEW r \in Reqs, Arrive(r) PROVE Safe'
  BY <1>1, SafeKept DEF Arrive, StartPrepare, StartCommit, tables, clients
<1>2. ASSUME NEW r \in Reqs, Statement(r) PROVE Safe'
  <2>1. CASE PreReplay(r) \/ ComReplay(r)
    BY <2>1, SafeReplay DEF PreReplay, ComReplay, Steps
  <2>2. CASE PreHead(r) \/ ComTxRefused(r)
    BY <2>2, SafeKept DEF PreHead, ComTxRefused, tables, clients
  <2>3. CASE PrePaths(r) \/ ComPaths(r) \/ ComFind(r)
    BY <2>3, SafeKept DEF PrePaths, ComPaths, CheckPath, ComFind, tables, clients
  <2>4. CASE ComExpiry(r)
    BY <2>4, SafeKept DEF ComExpiry, DropToken, clients
  <2>5. CASE ComHead(r)
    BY <2>5, SafeKept DEF ComHead, DropToken, clients
  <2> QED BY <1>2, <2>1, <2>2, <2>3, <2>4, <2>5, SafePreTx, SafeComTx DEF Statement
<1>3. CASE (\E u \in Users, p \in Paths : TakeLock(u, p)) \/ (\E p \in Paths : LoseLock(p))
  BY <1>3, SafeKept DEF TakeLock, LoseLock, tables, clients
<1>4. CASE Tick \/ Crash \/ UNCHANGED vars
  BY <1>4, SafeKept DEF Tick, Crash, vars, tables, clients
<1> QED BY <1>1, <1>2, <1>3, <1>4 DEF Next

LEMMA SafeInvariant == Spec => []Safe
<1>1. Init => Safe
  BY DEF Init, Safe, LinearHistory, OneRevisionPerCommit, AnswersAgree, OneTokenPerCommit
<1> QED BY <1>1, SafeStep, TypeCorrect, PTL DEF Spec

(* No lost update: whatever prepares, commits, retries and crashes           *)
(* interleave, a revision is made against its immediate predecessor.        *)
THEOREM Linear == Spec => []LinearHistory
BY SafeInvariant, PTL DEF Safe

(* A commit_id lands in at most one revision, which the commits table names. *)
THEOREM LandsOnce == Spec => []OneRevisionPerCommit
BY SafeInvariant, PTL DEF Safe

(* First answer and every replayed answer name the same revision.           *)
THEOREM SameAnswer == Spec => []AnswersAgree
BY SafeInvariant, PTL DEF Safe

(* Preparing again never leaves two tokens redeemable for one commit_id.    *)
THEOREM SingleToken == Spec => []OneTokenPerCommit
BY SafeInvariant, PTL DEF Safe

-----------------------------------------------------------------------------
(* A token lands what it was drawn for, once.                               *)

Loaded == {"com_expiry", "com_head", "com_paths", "com_tx"}
Vetted == {"com_head", "com_paths", "com_tx"}
\* The rows of `pending_commits', and those that requests have loaded.
Drawn == pending \union {req[r].row : r \in {s \in Reqs : pc[s] \in Loaded}}

\* Every token is drawn for one commit_id, and its row is of that commit_id.
TokensGiven ==
  /\ \A c \in Commits : \A t \in given[c] : t < issued
  /\ \A c, d \in Commits : c # d => given[c] \intersect given[d] = {}
  /\ \A q \in Drawn : q.tok \in given[q.cid] /\ q.user = Author[q.cid]
  /\ \A p, q \in Drawn : p.tok = q.tok => p.base = q.base
\* A request that is past the look at the row's user redeems a token of the
\* author of the commit_id it names, if not of that commit_id.
RowsVetted == \A r \in Reqs : pc[r] \in Vetted => req[r].row.user = Author[req[r].as]
\* A revision is of the author of its commit_id, and of the files of what its
\* token was drawn for, by the same author.
OfItsAuthor ==
  \A n \in 1..head :
    /\ log[n].user = Author[log[n].cid]
    /\ \E d \in Commits : /\ log[n].tok \in given[d] /\ Author[d] = log[n].user
                          /\ log[n].paths = Changed[d]
TokensSpent == \A m, n \in 1..head : log[m].tok = log[n].tok => m = n
\* The row of a token that was spent is against an old head.
SpentBases == \A n \in 1..head : \A q \in Drawn : q.tok = log[n].tok => q.base = log[n].base
TokenInv == TokensGiven /\ RowsVetted /\ OfItsAuthor /\ TokensSpent /\ SpentBases

LEMMA DrawnPending == ASSUME TypeOK PROVE Drawn \subseteq Pending
BY DEF TypeOK, Drawn, Loaded

\* Tokens go, and requests end or go on with the row they have.
LEMMA TokensKept ==
  ASSUME TypeOK, TokenInv, UNCHANGED <<head, log, issued, given>>, Drawn' \subseteq Drawn,
         \A r \in Reqs : \/ pc'[r] \notin Vetted
                         \/ /\ req'[r].as = req[r].as /\ req'[r].row = req[r].row
                            /\ \/ pc[r] \in Vetted
                               \/ req[r].row.user = Author[req[r].as]
  PROVE  TokenInv'
<1>1. TokensGiven'
  BY DEF TokenInv, TokensGiven
<1>2. RowsVetted'
  BY DEF TokenInv, RowsVetted
<1>3. OfItsAuthor' /\ TokensSpent'
  BY DEF TokenInv, OfItsAuthor, TokensSpent
<1>4. SpentBases'
  BY DEF TokenInv, SpentBases
<1> QED BY <1>1, <1>2, <1>3, <1>4 DEF TokenInv

\* What requests have loaded is theirs until they end.
LEMMA DrawnKept ==
  ASSUME pending' \subseteq pending,
         \A r \in Reqs : \/ pc'[r] \notin Loaded
                         \/ pc[r] \in Loaded /\ req'[r].row = req[r].row
  PROVE  Drawn' \subseteq Drawn
BY DEF Drawn

LEMMA TokensMove ==
  ASSUME TypeOK, TokenInv, UNCHANGED <<head, log, issued, given>>, pending' \subseteq pending,
         \A r \in Reqs : \/ pc'[r] \notin Loaded
                         \/ /\ pc[r] \in Loaded
                            /\ req'[r].as = req[r].as /\ req'[r].row = req[r].row
                            /\ \/ pc'[r] \in Vetted => pc[r] \in Vetted
                               \/ req[r].row.user = Author[req[r].as]
  PROVE  TokenInv'
<1>1. Drawn' \subseteq Drawn
  BY DrawnKept
<1>2. \A r \in Reqs : \/ pc'[r] \notin Vetted
                      \/ /\ req'[r].as = req[r].as /\ req'[r].row = req[r].row
                         /\ \/ pc[r] \in Vetted
                            \/ req[r].row.user = Author[req[r].as]
  BY DEF Vetted, Loaded
<1> QED BY <1>1, <1>2, TokensKept

LEMMA TokensFind ==
  ASSUME TypeOK, TokenInv, NEW r \in Reqs, ComFind(r)
  PROVE  TokenInv'
<1>1. UNCHANGED <<tables, clients>>
  BY DEF ComFind
<1>2. \A s \in Reqs \ {r} : pc'[s] = pc[s] /\ req'[s] = req[s]
  BY DEF ComFind, Finish, TypeOK
<1>3. pc'[r] \notin Loaded \/ (pc'[r] = "com_expiry" /\ req'[r].row \in pending)
  <2>1. CASE Finish(r)
    BY <2>1 DEF Finish, TypeOK, Loaded
  <2>2. ASSUME NEW q \in pending,
               req' = [req EXCEPT ![r].row = q, ![r].left = Changed[q.cid]],
               pc' = [pc EXCEPT ![r] = "com_expiry"]
        PROVE  pc'[r] = "com_expiry" /\ req'[r].row \in pending
    <3>1. req[r] \in Request
      BY DEF ComFind, TypeOK
    <3> QED BY <2>2, <3>1 DEF TypeOK, Request
  <2> QED BY <2>1, <2>2 DEF ComFind
<1>4. Drawn' \subseteq Drawn
  BY <1>1, <1>2, <1>3 DEF Drawn, tables
<1>5. \A s \in Reqs : \/ pc'[s] \notin Vetted
                      \/ pc[s] \in Vetted /\ req'[s].as = req[s].as /\ req'[s].row = req[s].row
  BY <1>2, <1>3 DEF Vetted, Loaded
<1> QED BY <1>1, <1>4, <1>5, TokensKept DEF tables, clients

LEMMA TokensDraw ==
  ASSUME TypeOK, TokenInv, NEW r \in Reqs, PreTx(r)
  PROVE  TokenInv'
<1> DEFINE c == req[r].as
           new == [tok |-> issued, cid |-> c, user |-> Author[c],
                   base |-> req[r].base, expires |-> now + TokenTtl]
<1>1. c \in Commits /\ issued \in Nat
  BY DEF PreTx, TypeOK, Request
<1>2. /\ given' = [given EXCEPT ![c] = @ \union {issued}] /\ issued' = issued + 1
      /\ pending' \subseteq pending \union {new}
      /\ UNCHANGED <<head, log>>
  BY DEF PreTx, Supersede
<1>3. \A s \in Reqs : pc'[s] = "idle" \/ (s # r /\ pc'[s] = pc[s] /\ req'[s] = req[s])
  BY DEF PreTx, Finish, TypeOK
<1>4. given'[c] = given[c] \union {issued} /\ \A d \in Commits \ {c} : given'[d] = given[d]
  BY <1>1, <1>2 DEF TypeOK
<1>5. \A d \in Commits : given[d] \subseteq given'[d] /\ given[d] \subseteq Nat
  BY <1>4 DEF TypeOK
<1>6. Drawn' \subseteq Drawn \union {new}
  BY <1>2, <1>3 DEF Drawn, Loaded
<1>7. new.tok = issued /\ new.cid = c /\ new.user = Author[c]
  OBVIOUS
<1> HIDE DEF new
<1>8. \A q \in Drawn : q.cid \in Commits /\ q.tok < issued
  BY DrawnPending DEF TokenInv, TokensGiven, Pending
<1>9. TokensGiven'
  <2>1. \A d \in Commits : \A t \in given'[d] : t < issued'
    BY <1>1, <1>2, <1>4, <1>5 DEF TokenInv, TokensGiven
  <2>2. \A d, e \in Commits : d # e => given'[d] \intersect given'[e] = {}
    BY <1>1, <1>4, <1>5 DEF TokenInv, TokensGiven
  <2>3. \A q \in Drawn' : q.tok \in given'[q.cid] /\ q.user = Author[q.cid]
    BY <1>4, <1>5, <1>6, <1>7, <1>8 DEF TokenInv, TokensGiven
  <2>4. \A p, q \in Drawn' : p.tok = q.tok => p.base = q.base
    BY <1>1, <1>6, <1>7, <1>8 DEF TokenInv, TokensGiven
  <2> QED BY <2>1, <2>2, <2>3, <2>4 DEF TokensGiven
<1>10. RowsVetted'
  BY <1>3 DEF TokenInv, RowsVetted, Vetted
<1>11. OfItsAuthor' /\ TokensSpent'
  BY <1>2, <1>5 DEF TokenInv, OfItsAuthor, TokensSpent
<1>12. SpentBases'
  <2>1. \A n \in 1..head : log[n].tok < issued
    BY DEF TokenInv, OfItsAuthor, TokensGiven
  <2> QED BY <1>1, <1>2, <1>6, <1>7, <2>1 DEF TokenInv, SpentBases
<1> QED BY <1>9, <1>10, <1>11, <1>12 DEF TokenInv

\* The revision that lands.
LEMMA LandedEntry ==
  ASSUME TypeOK, NEW r \in Reqs, ComTx(r)
  PROVE  /\ head' = head + 1 /\ \A n \in 1..head : log'[n] = log[n]
         /\ DOMAIN log' = 1..(head + 1)
         /\ log'[head + 1] = [cid |-> req[r].as, tok |-> req[r].row.tok,
                              user |-> req[r].row.user, base |-> req[r].row.base,
                              paths |-> Changed[req[r].row.cid]]
<1>1. head' = head + 1 /\ head \in Nat /\ DOMAIN log = 1..head
  BY DEF ComTx, TypeOK
<1>2. log' = [n \in 1..(head + 1) |-> IF n \in DOMAIN log THEN log[n] ELSE
               [cid |-> req[r].as, tok |-> req[r].row.tok, user |-> req[r].row.user,
                base |-> req[r].row.base, paths |-> Changed[req[r].row.cid]]]
  BY DEF ComTx
<1> QED BY <1>1, <1>2

LEMMA TokensLand ==
  ASSUME TypeOK, Safe, TokenInv, NEW r \in Reqs, ComTx(r)
  PROVE  TokenInv'
<1> DEFINE row == req[r].row
<1>1. /\ head \in Nat /\ row \in Drawn /\ row.cid \in Commits /\ row.base = head
      /\ row.user = Author[req[r].as] /\ row.user = Author[row.cid]
      /\ row.tok \in given[row.cid]
  <2>1. row \in Drawn
    BY DEF ComTx, Drawn, Loaded
  <2>2. row.user = Author[req[r].as]
    BY DEF ComTx, TokenInv, RowsVetted, Vetted
  <2> QED BY <2>1, <2>2, DrawnPending DEF ComTx, CanLand, HeadUnmoved, TypeOK, Pending,
             TokenInv, TokensGiven
<1>2. /\ head' = head + 1 /\ \A n \in 1..head : log'[n] = log[n]
      /\ log'[head + 1].cid = req[r].as /\ log'[head + 1].user = row.user
      /\ log'[head + 1].paths = Changed[row.cid] /\ log'[head + 1].tok = row.tok
      /\ log'[head + 1].base = row.base
  <2>1. log'[head + 1] = [cid |-> req[r].as, tok |-> row.tok, user |-> row.user,
                          base |-> row.base, paths |-> Changed[row.cid]]
    BY LandedEntry
  <2>2. head' = head + 1 /\ \A n \in 1..head : log'[n] = log[n]
    BY LandedEntry
  <2> HIDE DEF row
  <2> DEFINE last == log'[head + 1]
  <2>3. /\ last.cid = req[r].as /\ last.user = row.user /\ last.paths = Changed[row.cid]
        /\ last.tok = row.tok /\ last.base = row.base
    <3>1. last = [cid |-> req[r].as, tok |-> row.tok, user |-> row.user,
                  base |-> row.base, paths |-> Changed[row.cid]]
      BY <2>1
    <3> HIDE DEF last
    <3> QED BY <3>1
  <2> QED BY <2>2, <2>3
<1>3. \A s \in Reqs : pc'[s] = "idle" \/ (pc'[s] = pc[s] /\ req'[s] = req[s])
  BY DEF ComTx, Finish, TypeOK
<1>4. given' = given /\ issued' = issued /\ pending' \subseteq pending
  BY DEF ComTx, Tell
<1>5. Drawn' \subseteq Drawn
  BY <1>3, <1>4, DrawnKept DEF Loaded
<1>6. \A n \in 1..head' : n \in 1..head \/ n = head + 1
  BY <1>1, <1>2
<1> HIDE DEF row
<1>7. TokensGiven' /\ RowsVetted'
  BY <1>3, <1>4, <1>5 DEF TokenInv, TokensGiven, RowsVetted, Vetted
<1>8. OfItsAuthor'
  <2>1. \A n \in 1..head : /\ log'[n].user = Author[log'[n].cid]
                           /\ \E d \in Commits : /\ log'[n].tok \in given[d]
                                                 /\ Author[d] = log'[n].user
                                                 /\ log'[n].paths = Changed[d]
    BY <1>2 DEF TokenInv, OfItsAuthor
  <2>2. log'[head + 1].user = Author[log'[head + 1].cid]
    BY <1>1, <1>2
  <2>3. \E d \in Commits : /\ log'[head + 1].tok \in given[d]
                           /\ Author[d] = log'[head + 1].user
                           /\ log'[head + 1].paths = Changed[d]
    BY <1>1, <1>2
  <2> QED BY <1>4, <1>6, <2>1, <2>2, <2>3 DEF OfItsAuthor
<1>9. \A n \in 1..head : log[n].tok # row.tok
  <2>1. \A n \in 1..head : log[n].base = n - 1
    BY DEF Safe, LinearHistory
  <2> QED BY <1>1, <2>1 DEF TokenInv, SpentBases
<1>10. TokensSpent'
  BY <1>1, <1>2, <1>6, <1>9 DEF TokenInv, TokensSpent
<1>11. SpentBases'
  <2>1. \A q \in Drawn' : q.tok = row.tok => q.base = row.base
    BY <1>1, <1>5 DEF TokenInv, TokensGiven
  <2> QED BY <1>2, <1>5, <1>6, <2>1 DEF TokenInv, SpentBases
<1> QED BY <1>7, <1>8, <1>10, <1>11 DEF TokenInv

LEMMA TokensStep == TypeOK /\ Safe /\ TokenInv /\ [Next]_vars => TokenInv'
<1> SUFFICES ASSUME TypeOK, Safe, TokenInv, [Next]_vars PROVE TokenInv'
  OBVIOUS
<1> DEFINE Stays(s) == \/ pc'[s] \notin Loaded
                       \/ /\ pc[s] \in Loaded
                          /\ req'[s].as = req[s].as /\ req'[s].row = req[s].row
                          /\ \/ pc'[s] \in Vetted => pc[s] \in Vetted
                             \/ req[s].row.user = Author[req[s].as]
<1>1. ASSUME NEW r \in Reqs, Statement(r) PROVE TokenInv'
  <2>1. CASE PreReplay(r) \/ ComReplay(r)
    <3>1. \A s \in Reqs : Stays(s)
      BY <2>1 DEF PreReplay, ComReplay, Replay, Finish, Goto, TypeOK, Vetted, Loaded
    <3>2. UNCHANGED <<head, log, issued, given, pending>>
      BY <2>1 DEF PreReplay, ComReplay, Replay, Tell, tables, clients
    <3> QED BY <3>1, <3>2, TokensMove
  <2>2. CASE PreHead(r) \/ ComExpiry(r) \/ ComHead(r) \/ ComTxRefused(r)
    <3>1. \A s \in Reqs : Stays(s)
      BY <2>2 DEF PreHead, ComExpiry, ComHead, ComTxRefused, Finish, Goto, TypeOK, Vetted,
         Loaded
    <3>2. UNCHANGED <<head, log, issued, given>> /\ pending' \subseteq pending
      BY <2>2 DEF PreHead, ComExpiry, ComHead, ComTxRefused, DropToken, tables, clients
    <3> QED BY <3>1, <3>2, TokensMove
  <2>3. CASE PrePaths(r) \/ ComPaths(r)
    <3>1. req[r] \in Request /\ UNCHANGED <<tables, clients>>
      BY <2>3 DEF PrePaths, ComPaths, CheckPath, TypeOK
    <3>2. \A s \in Reqs : Stays(s)
      <4>1. CASE UNCHANGED req
        BY <2>3, <4>1 DEF PrePaths, ComPaths, CheckPath, Goto, Finish, TypeOK, Vetted, Loaded
      <4>2. CASE Finish(r)
        BY <4>2 DEF Finish, TypeOK, Loaded, Vetted
      <4>3. ASSUME NEW p, req' = [req EXCEPT ![r].left = @ \ {p}], pc' = pc
            PROVE  \A s \in Reqs : Stays(s)
        BY <3>1, <4>3 DEF TypeOK, Request, Loaded, Vetted
      <4>4. Finish(r) \/ UNCHANGED req \/
            \E p \in req[r].left : req' = [req EXCEPT ![r].left = @ \ {p}] /\ pc' = pc
        BY <2>3 DEF PrePaths, ComPaths, CheckPath, Goto
      <4> HIDE DEF Stays
      <4> QED BY <4>1, <4>2, <4>3, <4>4
    <3> QED BY <3>1, <3>2, TokensMove DEF tables, clients
  <2> QED BY <1>1, <2>1, <2>2, <2>3, TokensFind, TokensDraw, TokensLand DEF Statement
<1>2. ASSUME NEW r \in Reqs, Arrive(r) PROVE TokenInv'
  <2>1. UNCHANGED <<tables, clients>>
    BY <1>2 DEF Arrive, StartPrepare, StartCommit
  <2>2. \A s \in Reqs : Stays(s)
    BY <1>2 DEF Arrive, StartPrepare, StartCommit, Start, TypeOK, Loaded, Vetted
  <2> QED BY <2>1, <2>2, TokensMove DEF tables, clients
<1>3. CASE (\E u \in Users, p \in Paths : TakeLock(u, p)) \/ (\E p \in Paths : LoseLock(p))
           \/ Tick \/ UNCHANGED vars
  <2>1. UNCHANGED <<tables, clients, pc, req>>
    BY <1>3 DEF TakeLock, LoseLock, Tick, vars, tables, clients
  <2> QED BY <2>1, TokensMove DEF tables, clients
<1>4. CASE Crash
  <2>1. UNCHANGED <<tables, clients>> /\ \A s \in Reqs : Stays(s)
    BY <1>4 DEF Crash, Loaded
  <2> QED BY <2>1, TokensMove DEF tables, clients
<1> QED BY <1>1, <1>2, <1>3, <1>4 DEF Next

LEMMA TokensInvariant == Spec => []TokenInv
<1>1. Init => TokenInv
  BY DEF Init, TokenInv, TokensGiven, RowsVetted, OfItsAuthor, TokensSpent, SpentBases, Drawn,
     Loaded, Vetted
<1> QED BY <1>1, TokensStep, TypeCorrect, SafeInvariant, PTL DEF Spec

(* commit does not compare the token's commit_id with the request's: the    *)
(* user is all that is compared, so a client may have what it prepared as   *)
(* one commit_id land as another of its own.  But no more than that: every  *)
(* revision has the author of its commit_id and the files of a prepare of   *)
(* that author, and a token lands once, whatever is superseded, expires, is *)
(* retried or crashes.                                                      *)
THEOREM LandsAsPrepared == Spec => [](OfItsAuthor /\ TokensSpent)
BY TokensInvariant, PTL DEF TokenInv

-----------------------------------------------------------------------------
(* The protocol implements the log.                                         *)

LEMMA LandImplements ==
  ASSUME TypeOK, Safe, TokenInv, TokenInv', NEW r \in Reqs, ComTx(r),
         NEW c \in Commits, c = req[r].as,
         NEW d, d = req[r].row.cid, NEW t, t = req[r].row.tok
  PROVE  d \in Commits /\ t \in UNION {given[x] : x \in Commits} /\ Log!Land(c, d, t)
<1>1. /\ head \in Nat
      /\ d \in Commits /\ t \in given[d] /\ Author[d] = Author[c] /\ req[r].row.user = Author[c]
  <2>1. req[r].row \in Drawn /\ req[r].row.user = Author[c]
    BY DEF ComTx, Drawn, Loaded, Vetted, TokenInv, RowsVetted
  <2> QED BY <2>1, DrawnPending DEF TypeOK, Pending, TokenInv, TokensGiven
<1>2. req[r].row.base = head /\ done[c] = 0
  BY DEF ComTx, CanLand, HeadUnmoved, KeyFree
<1>3. /\ head' = head + 1
      /\ \A n \in 1..head : log'[n] = log[n]
      /\ DOMAIN log = 1..head /\ DOMAIN log' = 1..(head + 1)
      /\ log'[head + 1] = [cid |-> c, tok |-> t, user |-> Author[c], base |-> head,
                           paths |-> Changed[d]]
  BY <1>1, <1>2, LandedEntry DEF TypeOK
<1>4. \A n \in 1..head : log[n].cid # c /\ log[n].tok # t
  <2>1. \A n \in 1..head : done[log[n].cid] = n /\ n # 0
    BY <1>1 DEF Safe, OneRevisionPerCommit
  <2>2. ASSUME NEW n \in 1..head PROVE log[n].tok # t
    <3>1. n \in 1..head' /\ head + 1 \in 1..head' /\ n # head + 1
      BY <1>1, <1>3
    <3> QED BY <1>3, <3>1 DEF TokenInv, TokensSpent
  <2> QED BY <1>2, <2>1, <2>2
<1>5. log' = [n \in 1..(head + 1) |-> IF n <= head THEN log[n] ELSE
               [cid |-> c, tok |-> t, user |-> Author[c], base |-> head, paths |-> Changed[d]]]
  <2>1. log' = [n \in 1..(head + 1) |-> log'[n]]
    BY <1>1, <1>3 DEF ComTx
  <2> QED BY <1>1, <1>3, <2>1
<1>6. told' = [told EXCEPT ![c] = {head + 1}] /\ given' = given
  <2>1. told[c] = {}
    BY <1>1, <1>2 DEF Safe, AnswersAgree
  <2> QED BY <2>1 DEF ComTx, Tell
<1>7. t \in UNION {given[x] : x \in Commits}
  BY <1>1
<1>8. Log!Land(c, d, t)
  BY <1>1, <1>3, <1>4, <1>5, <1>6 DEF Log!Land
<1> QED BY <1>1, <1>7, <1>8

LEMMA DrawImplements ==
  ASSUME TypeOK, TokenInv, NEW r \in Reqs, PreTx(r)
  PROVE  \E d \in Commits : \E t \in given'[d] : Log!Draw(d, t)
<1>1. /\ req[r].as \in Commits /\ issued \in Nat
      /\ given' = [given EXCEPT ![req[r].as] = @ \union {issued}]
      /\ UNCHANGED <<head, log, told>>
  BY DEF PreTx, TypeOK, Request
<1>2. issued \in given'[req[r].as]
  BY <1>1 DEF TypeOK
<1>3. \A c \in Commits : issued \notin given[c]
  BY <1>1 DEF TokenInv, TokensGiven
<1>4. Log!Draw(req[r].as, issued)
  BY <1>1, <1>3 DEF Log!Draw
<1> QED BY <1>1, <1>2, <1>4

\* Who landed has been told.
Heard == \A c \in Commits : done[c] # 0 => done[c] \in told[c]

LEMMA AnswersGrow ==
  ASSUME TypeOK, [Next]_vars, ~\E r \in Reqs : ComTx(r)
  PROVE  /\ done' = done /\ head' = head /\ log' = log
         /\ \A c \in Commits : told'[c] = told[c] \/ (done[c] # 0 /\ told'[c] = told[c] \union {done[c]})
         /\ told' \in [Commits -> SUBSET Nat]
<1>0. told' \in [Commits -> SUBSET Nat]
  BY TypeStep DEF TypeOK
<1>1. ASSUME NEW r \in Reqs, PreReplay(r) \/ ComReplay(r)
      PROVE  \A c \in Commits : told'[c] = told[c] \/ (done[c] # 0 /\ told'[c] = told[c] \union {done[c]})
  <2>1. req[r].as \in Commits
    BY <1>1 DEF PreReplay, ComReplay, Replay, TypeOK, Request
  <2> QED BY <1>1, <2>1 DEF PreReplay, ComReplay, Replay, Tell, clients, TypeOK
<1>2. ASSUME NEW r \in Reqs, Statement(r), ~(PreReplay(r) \/ ComReplay(r)), ~ComTx(r)
      PROVE  told' = told
  BY <1>2 DEF Statement, PreHead, PrePaths, CheckPath, PreTx, ComFind, ComExpiry, ComHead,
     ComPaths, ComTxRefused, clients
<1>3. ASSUME NEW r \in Reqs, Statement(r), ~ComTx(r)
      PROVE  done' = done /\ head' = head /\ log' = log
  BY <1>3 DEF Statement, PreReplay, ComReplay, Replay, PreHead, PrePaths, CheckPath, PreTx,
     ComFind, ComExpiry, ComHead, ComPaths, ComTxRefused, tables
<1>4. CASE ~\E r \in Reqs : Statement(r)
  <2>1. UNCHANGED <<head, log, done, told>>
    BY <1>4 DEF Next, Arrive, StartPrepare, StartCommit, TakeLock, LoseLock, Tick, Crash, vars,
       tables, clients
  <2> QED BY <1>0, <2>1
<1>5. CASE \E r \in Reqs : Statement(r)
  <2> PICK r \in Reqs : Statement(r)
    BY <1>5
  <2>1. ~ComTx(r)
    OBVIOUS
  <2> QED BY <1>0, <1>1, <1>2, <1>3, <2>1
<1> QED BY <1>0, <1>4, <1>5

LEMMA HeardStep == TypeOK /\ Heard /\ [Next]_vars => Heard'
<1> SUFFICES ASSUME TypeOK, Heard, [Next]_vars PROVE Heard'
  OBVIOUS
<1>1. ASSUME NEW r \in Reqs, ComTx(r) PROVE Heard'
  <2>1. /\ done' = [done EXCEPT ![req[r].as] = head + 1]
        /\ told' = [told EXCEPT ![req[r].as] = @ \union {head + 1}]
    BY <1>1 DEF ComTx, Tell
  <2> QED BY <2>1 DEF Heard, TypeOK
<1>2. CASE ~\E r \in Reqs : ComTx(r)
  BY <1>2, AnswersGrow DEF Heard
<1> QED BY <1>1, <1>2

\* Everything else leaves log and answers alone: a replay repeats an answer.
LEMMA OthersStutter ==
  ASSUME TypeOK, Heard, [Next]_vars, ~\E r \in Reqs : ComTx(r) \/ PreTx(r)
  PROVE  UNCHANGED <<head, log, given, told>>
<1>1. head' = head /\ log' = log /\ \A c \in Commits : told'[c] = told[c]
  BY AnswersGrow DEF Heard
<1>2. told' = told
  BY <1>1, AnswersGrow DEF TypeOK
<1>3. given' = given
  <2>1. CASE \E r \in Reqs : Statement(r)
    BY <2>1 DEF Statement, PreReplay, ComReplay, Replay, PreHead, PrePaths, CheckPath,
       ComFind, ComExpiry, ComHead, ComPaths, ComTxRefused, Tell, clients
  <2>2. CASE ~\E r \in Reqs : Statement(r)
    BY <2>2 DEF Next, Arrive, StartPrepare, StartCommit, TakeLock, LoseLock, Tick, Crash, vars,
       clients
  <2> QED BY <2>1, <2>2
<1> QED BY <1>1, <1>2, <1>3

(* Prepares, checks, refusals, retries, expiries and crashes, in whatever   *)
(* order, amount to a log that every commit_id joins at most once and on    *)
(* top of the last revision, with one answer for it, and with a token its   *)
(* author was given and no other revision was made with.                    *)
THEOREM Refines == Spec => ImplementsLog
<1>1. Init => Log!LogInit
  <2>1. [n \in {} |-> None] = [n \in 1..0 |-> 0]
    BY 1..0 = {}
  <2> QED BY <2>1 DEF Init, Log!LogInit
<1>2. TypeOK /\ Safe /\ TokenInv /\ TokenInv' /\ Heard /\ [Next]_vars
      => [Log!LogNext]_(Log!logVars)
  <2> SUFFICES ASSUME TypeOK, Safe, TokenInv, TokenInv', Heard, [Next]_vars
               PROVE  Log!LogNext \/ UNCHANGED Log!logVars
    OBVIOUS
  <2>1. ASSUME NEW r \in Reqs, ComTx(r) PROVE Log!LogNext
    <3> PICK c \in Commits : c = req[r].as
      BY <2>1 DEF ComTx, TypeOK, Request
    <3> PICK d : d = req[r].row.cid
      OBVIOUS
    <3> PICK t : t = req[r].row.tok
      OBVIOUS
    <3>1. d \in Commits /\ t \in UNION {given[x] : x \in Commits} /\ Log!Land(c, d, t)
      BY <2>1, LandImplements
    <3> QED BY <3>1 DEF Log!LogNext
  <2>2. ASSUME NEW r \in Reqs, PreTx(r) PROVE Log!LogNext
    BY <2>2, DrawImplements DEF Log!LogNext
  <2>3. CASE ~\E r \in Reqs : ComTx(r) \/ PreTx(r)
    BY <2>3, OthersStutter DEF Log!logVars
  <2> QED BY <2>1, <2>2, <2>3
<1>3. Init => Heard
  BY DEF Init, Heard
<1>4. Spec => []Heard
  BY <1>3, HeardStep, TypeCorrect, PTL DEF Spec
<1> QED BY <1>1, <1>2, <1>4, TypeCorrect, SafeInvariant, TokensInvariant, PTL
        DEF Spec, ImplementsLog, Log!LogSpec

-----------------------------------------------------------------------------
(* What holds of the two properties the code does not have in general.      *)

\* A client that waits for its answer, or for the server's death, before it
\* sends the next request about the same commit.
OneAtATime ==
  \A r, s \in Reqs : r # s /\ pc[r] # "idle" /\ pc[s] # "idle" => req[r].as # req[s].as

\* Then a request past its replay look-up is about a commit that has not landed.
NotLanded ==
  \A r \in Reqs : pc[r] \notin {"idle", "pre_replay", "com_replay"} => done[req[r].as] = 0

\* Requests that end or go on under the same commit_id, past the look-up.
LEMMA NotLandedKept ==
  ASSUME NotLanded, done' = done,
         \A r \in Reqs : \/ pc'[r] \in {"idle", "pre_replay", "com_replay"}
                         \/ /\ pc[r] \notin {"idle", "pre_replay", "com_replay"}
                            /\ req'[r].as = req[r].as
                         \/ done[req'[r].as] = 0
  PROVE  NotLanded'
BY DEF NotLanded

LEMMA NotLandedStep == TypeOK /\ OneAtATime /\ NotLanded /\ [Next]_vars => NotLanded'
<1> SUFFICES ASSUME TypeOK, OneAtATime, NotLanded, [Next]_vars PROVE NotLanded'
  OBVIOUS
<1>1. ASSUME NEW r \in Reqs, ComTx(r) PROVE NotLanded'
  <2>1. /\ done' = [done EXCEPT ![req[r].as] = head + 1]
        /\ pc' = [pc EXCEPT ![r] = "idle"] /\ req' = [req EXCEPT ![r] = None]
        /\ pc[r] = "com_tx"
    BY <1>1 DEF ComTx, Tell, Finish
  <2>2. \A s \in Reqs \ {r} : pc[s] # "idle" => req[s].as # req[r].as
    BY <2>1 DEF OneAtATime
  <2>3. \A s \in Reqs \ {r} : pc'[s] = pc[s] /\ req'[s] = req[s]
    BY <2>1 DEF TypeOK
  <2>4. pc'[r] = "idle"
    BY <2>1 DEF TypeOK
  <2>5. \A c : c # req[r].as => done'[c] = done[c]
    BY <2>1 DEF TypeOK
  <2> QED BY <2>1, <2>2, <2>3, <2>4, <2>5 DEF NotLanded
<1>2. ASSUME NEW r \in Reqs, PreReplay(r) \/ ComReplay(r) PROVE NotLanded'
  <2>1. done' = done
    BY <1>2 DEF PreReplay, ComReplay, Replay, Tell, tables, clients
  <2>2. \/ pc' = [pc EXCEPT ![r] = "idle"] /\ req' = [req EXCEPT ![r] = None]
        \/ /\ \E to : pc' = [pc EXCEPT ![r] = to]
           /\ req' = req /\ done[req[r].as] = 0
    BY <1>2 DEF PreReplay, ComReplay, Replay, Finish, Goto
  <2> QED BY <2>1, <2>2, NotLandedKept DEF TypeOK
<1>3. ASSUME NEW r \in Reqs, PreHead(r) \/ ComHead(r) \/ ComTxRefused(r) PROVE NotLanded'
  <2>1. done[req[r].as] = 0 /\ done' = done
    BY <1>3 DEF PreHead, ComHead, ComTxRefused, tables, NotLanded
  <2>2. \/ pc' = [pc EXCEPT ![r] = "idle"] /\ req' = [req EXCEPT ![r] = None]
        \/ /\ \E to : pc' = [pc EXCEPT ![r] = to]
           /\ req' = req
    BY <1>3 DEF PreHead, ComHead, ComTxRefused, Finish, Goto
  <2> QED BY <2>1, <2>2, NotLandedKept DEF TypeOK
<1>4. ASSUME NEW r \in Reqs, PrePaths(r) \/ PreTx(r) \/ ComFind(r) \/ ComExpiry(r) \/ ComPaths(r)
      PROVE NotLanded'
  <2>1. done' = done
    BY <1>4 DEF PrePaths, ComPaths, CheckPath, PreTx, ComFind, ComExpiry, tables, clients
  <2>2. done[req[r].as] = 0 /\ req[r] \in Request
    BY <1>4 DEF PrePaths, ComPaths, CheckPath, PreTx, ComFind, ComExpiry, NotLanded, TypeOK
  <2>3. \A s \in Reqs \ {r} : pc'[s] = pc[s] /\ req'[s] = req[s]
    BY <1>4 DEF PrePaths, ComPaths, CheckPath, PreTx, ComFind, ComExpiry, Finish, Goto, TypeOK
  <2>4. pc'[r] = "idle" \/ req'[r].as = req[r].as
    <3>1. CASE PrePaths(r) \/ ComPaths(r)
      <4>1. \/ Finish(r) \/ req' = req
            \/ \E p \in req[r].left : req' = [req EXCEPT ![r].left = @ \ {p}]
        BY <3>1 DEF PrePaths, ComPaths, CheckPath, Goto
      <4> QED BY <2>2, <4>1 DEF Finish, TypeOK, Request
    <3>2. CASE ComFind(r)
      <4>1. Finish(r) \/ \E q : req' = [req EXCEPT ![r].row = q, ![r].left = Changed[q.cid]]
        BY <3>2 DEF ComFind
      <4>2. ASSUME NEW q, req' = [req EXCEPT ![r].row = q, ![r].left = Changed[q.cid]]
            PROVE  req'[r].as = req[r].as
        BY <2>2, <4>2 DEF TypeOK, Request
      <4> QED BY <4>1, <4>2 DEF Finish, TypeOK
    <3>3. CASE PreTx(r) \/ ComExpiry(r)
      BY <3>3 DEF PreTx, ComExpiry, Finish, Goto, TypeOK
    <3> QED BY <1>4, <3>1, <3>2, <3>3
  <2>5. \A s \in Reqs : \/ pc'[s] \in {"idle", "pre_replay", "com_replay"}
                        \/ /\ pc[s] \notin {"idle", "pre_replay", "com_replay"}
                           /\ req'[s].as = req[s].as
                        \/ done[req'[s].as] = 0
    BY <2>2, <2>3, <2>4
  <2> QED BY <2>1, <2>5, NotLandedKept
<1>5. ASSUME NEW r \in Reqs, Arrive(r) PROVE NotLanded'
  <2>1. done' = done
    BY <1>5 DEF Arrive, StartPrepare, StartCommit, tables, clients
  <2>2. \A s \in Reqs : \/ pc'[s] \in {"pre_replay", "com_replay"}
                        \/ pc'[s] = pc[s] /\ req'[s] = req[s]
    BY <1>5 DEF Arrive, StartPrepare, StartCommit, Start, TypeOK
  <2> QED BY <2>1, <2>2, NotLandedKept
<1>6. CASE (\E u \in Users, p \in Paths : TakeLock(u, p)) \/ (\E p \in Paths : LoseLock(p))
           \/ Tick \/ Crash \/ UNCHANGED vars
  BY <1>6, NotLandedKept DEF TakeLock, LoseLock, Tick, Crash, vars, tables, clients
<1> QED BY <1>1, <1>2, <1>3, <1>4, <1>5, <1>6 DEF Next, Statement

(* A client that has one request about a commit in flight at a time is      *)
(* never told OUT_OF_DATE about a commit that has landed, whatever others   *)
(* land meanwhile, however often it prepares, and if the server dies.       *)
THEOREM PatientRetriesAreSafe == Spec /\ []OneAtATime => []RetrySafe
<1>1. Init => NotLanded
  BY DEF Init, NotLanded
<1>2. NotLanded => RetrySafe
  BY DEF NotLanded, RetrySafe, OutOfDate
<1> QED BY <1>1, <1>2, NotLandedStep, TypeCorrect, PTL DEF Spec

\* No author loses the lock of a file of its commit between the check of that
\* file inside commit and the transaction.
Steady ==
  \A r \in Reqs : pc[r] \in {"com_paths", "com_tx"} =>
    \A p \in Changed[req[r].row.cid] : holder[p] = req[r].row.user => holder'[p] = holder[p]
LocksStay == [][Steady]_vars

\* Then what was checked still is so.
Checked ==
  \A r \in Reqs :
    /\ pc[r] \in {"com_expiry", "com_head"} => req[r].left = Changed[req[r].row.cid]
    /\ pc[r] = "com_paths" =>
         \A p \in Changed[req[r].row.cid] \ req[r].left : holder[p] = req[r].row.user
    /\ pc[r] = "com_tx" =>
         \A p \in Changed[req[r].row.cid] : holder[p] = req[r].row.user

\* The request that takes a step.
LEMMA CheckedOwn ==
  ASSUME TypeOK, TokenInv, Checked, NEW r \in Reqs, Statement(r)
  PROVE  /\ pc'[r] \in {"com_expiry", "com_head"} => req'[r].left = Changed[req'[r].row.cid]
         /\ pc'[r] = "com_paths" =>
              \A p \in Changed[req'[r].row.cid] \ req'[r].left : holder[p] = req'[r].row.user
         /\ pc'[r] = "com_tx" =>
              \A p \in Changed[req'[r].row.cid] : holder[p] = req'[r].row.user
<1>1. pc[r] # "idle" /\ req[r] \in Request
  BY DEF Statement, PreReplay, PreHead, PrePaths, PreTx, ComReplay, ComFind, ComExpiry, ComHead,
     ComPaths, ComTx, ComTxRefused, Replay, CheckPath, TypeOK
<1>2. CASE ComFind(r)
  <2>1. CASE Finish(r)
    BY <2>1 DEF Finish, TypeOK
  <2>2. ASSUME NEW q, req' = [req EXCEPT ![r].row = q, ![r].left = Changed[q.cid]],
               pc' = [pc EXCEPT ![r] = "com_expiry"]
        PROVE  pc'[r] = "com_expiry" /\ req'[r].left = Changed[req'[r].row.cid]
    BY <1>1, <2>2 DEF TypeOK, Request
  <2>3. Finish(r) \/ \E q : /\ req' = [req EXCEPT ![r].row = q, ![r].left = Changed[q.cid]]
                           /\ pc' = [pc EXCEPT ![r] = "com_expiry"]
    BY <1>2 DEF ComFind
  <2> QED BY <2>1, <2>2, <2>3
<1>3. CASE ComExpiry(r)
  BY <1>3 DEF ComExpiry, Finish, Goto, TypeOK, Checked
<1>4. CASE ComHead(r)
  BY <1>4 DEF ComHead, Finish, Goto, TypeOK, Checked
<1>5. CASE ComPaths(r)
  <2>1. pc[r] = "com_paths" /\ req[r].row.user = Author[req[r].as]
    BY <1>5 DEF ComPaths, CheckPath, TokenInv, RowsVetted, Vetted
  <2>2. CASE Finish(r)
    BY <2>2 DEF Finish, TypeOK
  <2>3. CASE req[r].left = {} /\ Goto(r, "com_tx")
    BY <2>1, <2>3 DEF Goto, TypeOK, Checked
  <2>4. ASSUME NEW p \in req[r].left, MayWrite(req[r].as, p),
               req' = [req EXCEPT ![r].left = @ \ {p}], pc' = pc
        PROVE  /\ pc'[r] = "com_paths"
               /\ \A o \in Changed[req'[r].row.cid] \ req'[r].left : holder[o] = req'[r].row.user
    <3>1. req'[r].row = req[r].row /\ req'[r].left = req[r].left \ {p}
      BY <1>1, <2>4 DEF TypeOK, Request
    <3> QED BY <2>1, <2>4, <3>1 DEF MayWrite, Checked
  <2>5. \/ Finish(r) \/ (req[r].left = {} /\ Goto(r, "com_tx"))
        \/ \E p \in req[r].left : /\ MayWrite(req[r].as, p)
                                  /\ req' = [req EXCEPT ![r].left = @ \ {p}] /\ pc' = pc
    BY <1>5, Zenon DEF ComPaths, CheckPath
  <2> QED BY <2>2, <2>3, <2>4, <2>5
<1>6. CASE ~(ComFind(r) \/ ComExpiry(r) \/ ComHead(r) \/ ComPaths(r))
  <2>1. pc'[r] \notin {"com_expiry", "com_head", "com_paths", "com_tx"}
    BY <1>1, <1>6 DEF Statement, PreReplay, PreHead, PrePaths, PreTx, ComReplay, ComTx,
       ComTxRefused, Replay, CheckPath, Goto, Finish, TypeOK
  <2> QED BY <2>1
<1> QED BY <1>2, <1>3, <1>4, <1>5, <1>6

LEMMA CheckedStep == TypeOK /\ TokenInv /\ Checked /\ [Next]_vars /\ [Steady]_vars => Checked'
<1> SUFFICES ASSUME TypeOK, TokenInv, Checked, [Next]_vars, [Steady]_vars PROVE Checked'
  OBVIOUS
<1>1. ASSUME NEW r \in Reqs, Statement(r) PROVE Checked'
  <2>1. holder' = holder /\ \A s \in Reqs \ {r} : pc'[s] = pc[s] /\ req'[s] = req[s]
    BY <1>1 DEF Statement, PreReplay, PreHead, PrePaths, PreTx, ComReplay, ComFind, ComExpiry,
       ComHead, ComPaths, ComTx, ComTxRefused, Replay, CheckPath, Goto, Finish, TypeOK, env
  <2> QED BY <1>1, <2>1, CheckedOwn DEF Checked
<1>2. ASSUME NEW r \in Reqs, Arrive(r) PROVE Checked'
  <2>1. /\ holder' = holder
        /\ \A s \in Reqs : \/ pc'[s] \in {"pre_replay", "com_replay"}
                           \/ pc'[s] = pc[s] /\ req'[s] = req[s]
    BY <1>2 DEF Arrive, StartPrepare, StartCommit, Start, TypeOK, env
  <2> QED BY <2>1 DEF Checked
<1>3. CASE (\E u \in Users, p \in Paths : TakeLock(u, p)) \/ (\E p \in Paths : LoseLock(p))
  <2>1. UNCHANGED <<pc, req>>
    BY <1>3 DEF TakeLock, LoseLock
  <2>2. Steady \/ holder' = holder
    BY DEF vars
  <2>3. \A r \in Reqs : pc[r] \in {"com_paths", "com_tx"} =>
          \A p \in Changed[req[r].row.cid] : holder[p] = req[r].row.user => holder'[p] = holder[p]
    BY <2>2 DEF Steady
  <2> QED BY <2>1, <2>3 DEF Checked
<1>4. CASE Tick \/ UNCHANGED vars
  BY <1>4 DEF Tick, vars, Checked
<1>5. CASE Crash
  BY <1>5 DEF Crash, Checked
<1> QED BY <1>1, <1>2, <1>3, <1>4, <1>5 DEF Next

(* The gap between commit's lock check and its transaction is the only one: *)
(* as long as no author loses a lock of its files in there, every revision  *)
(* lands with all its files locked by its author.                           *)
THEOREM LandsLockedButForTheGap == Spec /\ LocksStay => []LandsLocked
<1>1. Init => Checked
  BY DEF Init, Checked
<1>2. Checked => LandsLocked
  BY DEF Checked, LandsLocked
<1> QED BY <1>1, <1>2, CheckedStep, TypeCorrect, TokensInvariant, PTL DEF Spec, LocksStay
=============================================================================
