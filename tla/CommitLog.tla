----------------------------- MODULE CommitLog -----------------------------
(* What the two-phase commit promises.  A token is drawn for a commit_id,   *)
(* once.  The log of revisions is one to which every commit_id is appended  *)
(* at most once, against the revision right before it, with a token that    *)
(* was drawn for its author and that no revision was made with, and with    *)
(* the files of what the token was drawn for.  Every answer about a         *)
(* commit_id names that one revision.  CommitProtocol is the statement by   *)
(* statement implementation: checks, refusals, expired tokens, crashes and  *)
(* repeated answers are steps in which nothing happens here.                *)
EXTENDS Naturals

CONSTANTS
  Commits,
  Author,    \* [Commits -> Users]
  Changed    \* [Commits -> SUBSET Paths]

VARIABLES
  head,      \* revisions so far
  log,       \* revisions 1..head
  given,     \* tokens drawn, per commit_id
  told       \* revisions named in answers, per commit_id

logVars == <<head, log, given, told>>

LogInit ==
  /\ head = 0 /\ log = [n \in 1..0 |-> 0]
  /\ given = [c \in Commits |-> {}] /\ told = [c \in Commits |-> {}]

Draw(d, t) ==
  /\ \A c \in Commits : t \notin given[c]
  /\ given' = [given EXCEPT ![d] = @ \union {t}]
  /\ UNCHANGED <<head, log, told>>

\* Commit_id c lands with what was prepared as d.
Land(c, d, t) ==
  /\ t \in given[d] /\ Author[d] = Author[c]
  /\ \A n \in 1..head : log[n].cid # c /\ log[n].tok # t
  /\ head' = head + 1
  /\ log' = [n \in 1..(head + 1) |-> IF n <= head THEN log[n] ELSE
              [cid |-> c, tok |-> t, user |-> Author[c], base |-> head, paths |-> Changed[d]]]
  /\ told' = [told EXCEPT ![c] = {head + 1}]
  /\ UNCHANGED given

LogNext ==
  \/ \E d \in Commits : \E t \in given'[d] : Draw(d, t)
  \/ \E c, d \in Commits, t \in UNION {given[x] : x \in Commits} : Land(c, d, t)

LogSpec == LogInit /\ [][LogNext]_logVars
=============================================================================
