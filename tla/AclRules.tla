------------------------------ MODULE AclRules ------------------------------
(* The permission engine of src/server/src/acl.rs and the readers of its    *)
(* rule sets in storage/acl.rs and api/: pure functions of a set of rules,  *)
(* a path and a principal.  A path is the sequence of its segments, <<>>    *)
(* the root of the repository, so a prefix is an initial part of it.        *)
EXTENDS Naturals, Sequences, FiniteSets, SequencesExt

CONSTANTS None

\* Level: none < read < write < admin.
Levels == 0 .. 3
Deny == 0
Read == 1
Write == 2
Admin == 3

(* Subject: [kind, id].  Rule: [id, prefix, subject, level, inherit], where *)
(* inherit = FALSE makes the prefix a barrier.  Principal: [id, groups,     *)
(* is_admin].                                                               *)
Everyone == [kind |-> "everyone", id |-> 0]
Group(g) == [kind |-> "group", id |-> g]
User(u) == [kind |-> "user", id |-> u]

rank(subject) == CASE subject.kind = "everyone" -> 0
                   [] subject.kind = "group" -> 1
                   [] subject.kind = "user" -> 2
matches(subject, user) ==
  CASE subject.kind = "everyone" -> TRUE
    [] subject.kind = "group" -> subject.id \in user.groups
    [] subject.kind = "user" -> subject.id = user.id

\* load: the rules of one prefix, in the order of their ids.
by_id(set) == CHOOSE q \in [1 .. Cardinality(set) -> set] :
                \A i, j \in DOMAIN q : i < j => q[i].id < q[j].id
layer(rules, prefix) == by_id({r \in rules : r.prefix = prefix})

pick_highest(rules, user) ==  \* mutant: the higher level wins a tie
  LET above(r, b) == \/ b = None
                     \/ rank(r.subject) > rank(b.subject)
                     \/ rank(r.subject) = rank(b.subject) /\ r.level > b.level
      best[n \in 0 .. Len(rules)] ==
        IF n = 0 THEN None
        ELSE IF matches(rules[n].subject, user) /\ above(rules[n], best[n - 1])
             THEN rules[n] ELSE best[n - 1]
  IN best[Len(rules)]

\* The most specific subject wins, then the lower level, then the older rule.
beats(r, b) ==
  \/ b = None
  \/ rank(r.subject) > rank(b.subject)
  \/ rank(r.subject) = rank(b.subject) /\ r.level < b.level
pick(rules, user) ==
  LET best[n \in 0 .. Len(rules)] ==
        IF n = 0 THEN None
        ELSE IF matches(rules[n].subject, user) /\ beats(rules[n], best[n - 1])
             THEN rules[n] ELSE best[n - 1]
  IN best[Len(rules)]

resolve_layer_hit_only(rules, user) ==  \* mutant: the barrier is forgotten
  LET hit == pick(rules, user) IN IF hit # None THEN hit.level ELSE None

\* A level, or None to go on in the parent directory.
resolve_layer(rules, user) ==
  LET hit == pick(rules, user)
  IN IF hit # None THEN hit.level
     ELSE IF \E i \in DOMAIN rules : ~rules[i].inherit THEN Deny
     ELSE None

\* From the path itself up to the root.
prefixes_for_path(path) ==
  [i \in 1 .. Len(path) + 1 |-> SubSeq(path, 1, Len(path) + 1 - i)]

\* effective_level_by: the first layer with an answer, else none.
first_answer(layers) ==
  LET answers == {i \in DOMAIN layers : layers[i] # None}
  IN IF answers = {} THEN Deny ELSE layers[Min(answers)]
effective_level(rules, path, user) ==
  IF user.is_admin THEN Admin
  ELSE first_answer([i \in 1 .. Len(path) + 1 |->
                       resolve_layer(layer(rules, prefixes_for_path(path)[i]), user)])

at_least(rules, path, user, need) == effective_level(rules, path, user) >= need

\* AclSet::trace, the preview's own walk: what each layer said, until one
\* decides.
trace_step(rules, prefix, user) ==
  LET here == layer(rules, prefix)  hit == pick(here, user)
  IN IF here = <<>> THEN [prefix |-> prefix, outcome |-> "skip", level |-> None]
     ELSE IF hit # None THEN [prefix |-> prefix, outcome |-> "hit", level |-> hit.level]
     ELSE IF \E i \in DOMAIN here : ~here[i].inherit
          THEN [prefix |-> prefix, outcome |-> "barrier", level |-> Deny]
     ELSE [prefix |-> prefix, outcome |-> "miss", level |-> None]
Decided(steps) == steps # <<>> /\ steps[Len(steps)].level # None
trace(rules, path, user) ==
  LET prefixes == prefixes_for_path(path)
      walk[n \in 0 .. Len(prefixes)] ==
        IF n = 0 THEN <<>>
        ELSE IF Decided(walk[n - 1]) THEN walk[n - 1]
        ELSE Append(walk[n - 1], trace_step(rules, prefixes[n], user))
      steps == walk[Len(prefixes)]
  IN IF user.is_admin THEN [level |-> Admin, steps |-> <<>>]
     ELSE [level |-> IF Decided(steps) THEN steps[Len(steps)].level ELSE Deny, steps |-> steps]

-----------------------------------------------------------------------------
(* What the read endpoints answer.  head: [paths -> [kind, hash]], the tree *)
(* at HEAD; history: <<path, hash>> of `changes'.                           *)

Below(prefix, path) == IsPrefix(prefix, path) /\ Len(prefix) < Len(path)
Refused == {}

\* tree: the prefix must be readable; what is not is not opened either.
tree(rules, head, user, prefix, depth) ==
  IF ~at_least(rules, prefix, user, Read) THEN Refused
  ELSE {p \in DOMAIN head :
          /\ Below(prefix, p) /\ Len(p) <= Len(prefix) + depth
          /\ \A n \in Len(prefix) + 1 .. Len(p) :
               at_least(rules, SubSeq(p, 1, n), user, Read)}

\* list_dirs of the admin pages
list_dirs(rules, head, user, prefix) ==
  IF ~at_least(rules, prefix, user, Read) THEN Refused
  ELSE {p \in DOMAIN head : /\ Below(prefix, p) /\ Len(p) = Len(prefix) + 1
                            /\ head[p].kind = "dir"
                            /\ at_least(rules, p, user, Read)}

changes_unfiltered(rules, history, user, prefix) ==  \* mutant: no filter per path
  IF ~at_least(rules, prefix, user, Read) THEN Refused
  ELSE {x \in history : IsPrefix(prefix, x[1])}

\* changes: filtered path by path.
changes(rules, history, user, prefix) ==
  IF ~at_least(rules, prefix, user, Read) THEN Refused
  ELSE {x \in history : IsPrefix(prefix, x[1]) /\ at_least(rules, x[1], user, Read)}

\* authorize_download: one readable path with this content suffices.
authorize_download(rules, head, history, user, hash) ==
  \/ user.is_admin
  \/ \E p \in DOMAIN head : head[p].hash = hash /\ at_least(rules, p, user, Read)
  \/ \E x \in history : x[2] = hash /\ at_least(rules, x[1], user, Read)
=============================================================================
