-------------------------------- MODULE Acl --------------------------------
(* The permission rules of one repository and the groups they name, as the  *)
(* handlers of src/server/src/api/admin.rs change them, and what the read   *)
(* endpoints answer from them.  A handler identifies the caller on one      *)
(* connection, with his groups as they are then; on another it loads the    *)
(* rules, decides, and writes.  The tree at HEAD does not change here.      *)
EXTENDS AclRules

CONSTANTS
  Users, SysAdmins,
  RuleDirs,    \* where rules may be put
  LevelsUsed,  \* the levels that requests give to rules
  HeadTree,        \* [paths -> [kind, hash]], the tree at HEAD
  History,     \* <<path, hash>> that `changes' has, HEAD's included
  Requests,
  PoolSize,
  MaxRuleId,   \* bound on the ids of rules
  MaxGroupId   \* bound on the ids of groups

ASSUME AclAssumption ==
  /\ SysAdmins \subseteq Users /\ LevelsUsed \subseteq Levels
  /\ <<>> \in RuleDirs /\ RuleDirs \union DOMAIN HeadTree \subseteq Seq(STRING)
  /\ \A x \in History : x = <<x[1], x[2]>> /\ x[1] \in Seq(STRING)
  /\ IsFiniteSet(Requests)
  /\ \A p \in DOMAIN HeadTree : \A n \in 1 .. Len(p) - 1 : HeadTree[SubSeq(p, 1, n)].kind = "dir"
  /\ \A p \in DOMAIN HeadTree : HeadTree[p].kind = "file" => <<p, HeadTree[p].hash>> \in History
  /\ \A p \in DOMAIN HeadTree : HeadTree[p].kind # "file" => HeadTree[p].hash = None
  /\ \A x \in History : x[2] # None
  /\ PoolSize \in Nat \ {0} /\ MaxRuleId \in Nat \ {0} /\ MaxGroupId \in Nat

VARIABLES
  rules,    \* table `acl_rules'
  groups,   \* ids of `groups'
  members,  \* `group_members' of each group
  pc, rq    \* requests: next step, local variables

tables == <<rules, groups, members>>
vars == <<tables, pc, rq>>

GroupIds == 1 .. MaxGroupId
\* A rule that names a system administrator changes nothing for him.
Subjects == {Everyone} \union {Group(g) : g \in GroupIds} \union {User(u) : u \in Users \ SysAdmins}
Rules == [id : 1 .. MaxRuleId, prefix : RuleDirs, subject : Subjects,
          level : LevelsUsed \union {Read}, inherit : BOOLEAN]
\* None stands for no rule and for no level.
ASSUME NoneAssumption == None \notin Rules /\ None \notin Levels
Steps == {"out", "put_load", "put", "update_load", "update", "delete_load", "delete",
          "group_count", "group_delete"}

\* load_groups and principal_of
principal(u) == [id |-> u, groups |-> {g \in groups : u \in members[g]},
                 is_admin |-> u \in SysAdmins]

\* An INTEGER PRIMARY KEY gets the id after the largest one there is.
Fresh(ids) == IF ids = {} THEN 1 ELSE Max(ids) + 1
Ids == {r.id : r \in rules}

\* create_repo: everyone may read.
seed_default == {[id |-> 1, prefix |-> <<>>, subject |-> Everyone, level |-> Read,
                  inherit |-> TRUE]}

Blank == [user |-> None, at |-> None]
Init ==
  /\ rules = seed_default
  /\ groups = {} /\ members = [g \in GroupIds |-> {}]
  /\ pc = [r \in Requests |-> "out"]
  /\ rq = [r \in Requests |-> Blank]

Goto(r, step) == pc' = [pc EXCEPT ![r] = step]
Return(r) == Goto(r, "out") /\ rq' = [rq EXCEPT ![r] = Blank]
FreeConnection ==
  Cardinality({r \in Requests : pc[r] \in {"put", "update", "delete", "group_delete"}}) < PoolSize

\* require_user; `at' is the prefix or the id that the request names.
Begin(r, step, u, at) ==
  /\ pc[r] = "out"
  /\ Goto(r, step)
  /\ rq' = [rq EXCEPT ![r] = [user |-> principal(u), at |-> at]]
  /\ UNCHANGED tables

-----------------------------------------------------------------------------
(* put_acl without an id                                                    *)

PutLoad(r) ==
  /\ pc[r] = "put_load" /\ FreeConnection
  /\ IF at_least(rules, rq[r].at, rq[r].user, Admin)
     THEN Goto(r, "put") /\ UNCHANGED rq
     ELSE Return(r)
  /\ UNCHANGED tables

insert_rule(prefix, subject, level, inherit) ==  \* mutant: no ON CONFLICT
  /\ Fresh(Ids) <= MaxRuleId
  /\ rules' = rules \union {[id |-> Fresh(Ids), prefix |-> prefix, subject |-> subject,
                             level |-> level, inherit |-> inherit]}

\* upsert_rule: ON CONFLICT (path_prefix, subject) DO UPDATE.
upsert_rule(prefix, subject, level, inherit) ==
  LET Same == {x \in rules : x.prefix = prefix /\ x.subject = subject}
  IN IF Same # {}
     THEN rules' = (rules \ Same) \union
                     {[x EXCEPT !.level = level, !.inherit = inherit] : x \in Same}
     ELSE /\ Fresh(Ids) <= MaxRuleId
          /\ rules' = rules \union
               {[id |-> Fresh(Ids), prefix |-> prefix, subject |-> subject,
                 level |-> level, inherit |-> inherit]}

\* The subject is not looked up: it may name nobody.
PutWrite(r) ==
  /\ pc[r] = "put"
  /\ \E subject \in Subjects, level \in LevelsUsed, inherit \in BOOLEAN :
       upsert_rule(rq[r].at, subject, level, inherit)
  /\ Return(r)
  /\ UNCHANGED <<groups, members>>

-----------------------------------------------------------------------------
(* put_acl with an id, and delete_acl                                       *)

LoadUnchecked(r, write) ==  \* mutant: the loaded rule's prefix is not required
  /\ FreeConnection
  /\ IF rq[r].at \in Ids THEN Goto(r, write) /\ UNCHANGED rq ELSE Return(r)
  /\ UNCHANGED tables

\* The rule must exist, and the caller must be admin where it applies.
LoadById(r, write) ==
  /\ FreeConnection
  /\ IF \E x \in rules : x.id = rq[r].at /\ at_least(rules, x.prefix, rq[r].user, Admin)
     THEN Goto(r, write) /\ UNCHANGED rq
     ELSE Return(r)
  /\ UNCHANGED tables

UpdateLoad(r) == pc[r] = "update_load" /\ LoadById(r, "update")
DeleteLoad(r) == pc[r] = "delete_load" /\ LoadById(r, "delete")

\* By id alone; without a level in the request, the level it had at the load.
UpdateWrite(r) ==
  /\ pc[r] = "update"
  /\ \E level \in LevelsUsed, inherit \in BOOLEAN :
       rules' = {IF x.id = rq[r].at THEN [x EXCEPT !.level = level, !.inherit = inherit]
                 ELSE x : x \in rules}
  /\ Return(r)
  /\ UNCHANGED <<groups, members>>

\* delete_rule
DeleteWrite(r) ==
  /\ pc[r] = "delete"
  /\ rules' = {x \in rules : x.id # rq[r].at}
  /\ Return(r)
  /\ UNCHANGED <<groups, members>>

-----------------------------------------------------------------------------
(* Groups: create_group, set_members, delete_group                          *)

create_group ==
  /\ Fresh(groups) <= MaxGroupId
  /\ groups' = groups \union {Fresh(groups)}
  /\ UNCHANGED <<rules, members, pc, rq>>

\* A transaction: DELETE, then INSERT of the list.
set_members(g, list) ==
  /\ g \in groups
  /\ members' = [members EXCEPT ![g] = list]
  /\ UNCHANGED <<rules, groups, pc, rq>>

\* No rule may name the group; the count and the DELETE are two statements.
GroupCount(r) ==
  /\ pc[r] = "group_count" /\ FreeConnection
  /\ IF \E x \in rules : x.subject = Group(rq[r].at)
     THEN Return(r)
     ELSE Goto(r, "group_delete") /\ UNCHANGED rq
  /\ UNCHANGED tables

\* ON DELETE CASCADE takes the members.
GroupDelete(r) ==
  /\ pc[r] = "group_delete"
  /\ groups' = groups \ {rq[r].at}
  /\ members' = [members EXCEPT ![rq[r].at] = {}]
  /\ Return(r)
  /\ UNCHANGED rules

Next ==
  \/ \E r \in Requests :
       \/ \E u \in Users, p \in RuleDirs : Begin(r, "put_load", u, p)
       \/ \E u \in Users, id \in 1 .. MaxRuleId :
            Begin(r, "update_load", u, id) \/ Begin(r, "delete_load", u, id)
       \/ \E u \in SysAdmins, g \in groups : Begin(r, "group_count", u, g)
       \/ PutLoad(r) \/ PutWrite(r)
       \/ UpdateLoad(r) \/ UpdateWrite(r) \/ DeleteLoad(r) \/ DeleteWrite(r)
       \/ GroupCount(r) \/ GroupDelete(r)
  \/ create_group
  \/ \E g \in groups, list \in SUBSET (Users \ SysAdmins) : set_members(g, list)

Spec == Init /\ [][Next]_vars

-----------------------------------------------------------------------------
(* Properties                                                               *)

\* One rule per prefix and subject, and per id; members are of groups.
TypeOK ==
  /\ rules \subseteq Rules
  /\ \A x, y \in rules : x.id = y.id \/ <<x.prefix, x.subject>> = <<y.prefix, y.subject>> => x = y
  /\ groups \subseteq GroupIds /\ members \in [GroupIds -> SUBSET Users]
  /\ \A g \in GroupIds \ groups : members[g] = {}
  /\ pc \in [Requests -> Steps]

Quiet == \A r \in Requests : pc[r] = "out"
Asked == RuleDirs \union DOMAIN HeadTree
Callers == {principal(u) : u \in Users}

\* Section 4.2 from the root downwards: a directory passes its level on, and
\* one with a rule for the user, or a barrier, starts anew.  In one directory
\* the user's own rule counts before his groups' before everyone's, and of
\* several groups the lowest level.
Word(prefix, user) ==
  LET of(S) == {x.level : x \in {y \in rules : y.prefix = prefix /\ y.subject \in S}}
      own == of({User(user.id)})  grp == of({Group(g) : g \in user.groups})
      all == of({Everyone})
  IN CASE own # {} -> Min(own)
       [] own = {} /\ grp # {} -> Min(grp)
       [] own = {} /\ grp = {} /\ all # {} -> Min(all)
       [] OTHER -> IF \E x \in rules : x.prefix = prefix /\ ~x.inherit THEN Deny ELSE None
LevelFromRoot(path, user) ==
  LET level[n \in 0 .. Len(path)] ==
        LET word == Word(SubSeq(path, 1, n), user)
        IN IF word # None THEN word ELSE IF n = 0 THEN Deny ELSE level[n - 1]
  IN IF user.is_admin THEN Admin ELSE level[Len(path)]

\* The walk up from a path finds what the definition of the rules says.
LevelIsNearest ==
  Quiet => \A p \in Asked, user \in Callers :
             effective_level(rules, p, user) = LevelFromRoot(p, user)

\* The preview walks by itself, and explains the level that is enforced: its
\* last step is the layer that decides, and no earlier one does.
TraceAgrees ==
  Quiet => \A p \in Asked, user \in Callers :
    LET t == trace(rules, p, user)
    IN /\ t.level = effective_level(rules, p, user)
       /\ \A i \in DOMAIN t.steps : t.steps[i].level # None => i = Len(t.steps)
       /\ \A i \in DOMAIN t.steps : t.steps[i].prefix = SubSeq(p, 1, Len(p) + 1 - i)

\* Three endpoints, one policy: of the files at HEAD, a tree shows those that
\* the changes of its prefix show, less the ones below a directory that the
\* user may not read, and no other; the admin's directory list is the tree's.
ReadersAgree ==
  Quiet => \A user \in Callers, p \in RuleDirs :
    /\ \A depth \in 1 .. 3, f \in DOMAIN HeadTree :
         HeadTree[f].kind = "file" /\ Below(p, f) /\ Len(f) <= Len(p) + depth =>
           (f \in tree(rules, HeadTree, user, p, depth) <=>
              /\ <<f, HeadTree[f].hash>> \in changes(rules, History, user, p)
              /\ \A n \in Len(p) + 1 .. Len(f) - 1 :
                   at_least(rules, SubSeq(f, 1, n), user, Read))
    /\ list_dirs(rules, HeadTree, user, p) =
         {f \in tree(rules, HeadTree, user, p, 1) : HeadTree[f].kind = "dir"}

\* The head of transfer.rs: a download is refused if any path at HEAD that
\* refers to the content may not be read.  False: one readable path suffices,
\* as the comment of authorize_download says.
DownloadsFailClosed ==
  Quiet => \A user \in Callers : \A p \in DOMAIN HeadTree :
    /\ HeadTree[p].kind = "file"
    /\ authorize_download(rules, HeadTree, History, user, HeadTree[p].hash)
    => at_least(rules, p, user, Read)

\* Section 4.3, `configuring a directory takes admin of this directory': where
\* a request changes anybody's level, its caller, with the groups he had when
\* he was identified, was admin of that path or of a directory above it when
\* the row was written.
WritesAreDelegated ==
  [][\A r \in Requests :
       pc[r] \in {"put", "update", "delete"} /\ pc'[r] = "out" =>
         LET InCharge(p) ==
               \E n \in 0 .. Len(p) : at_least(rules, SubSeq(p, 1, n), rq[r].user, Admin)
         IN \A p \in {q \in Asked : ~InCharge(q)}, user \in Callers :
              effective_level(rules', p, user) = effective_level(rules, p, user)]_vars
=============================================================================
