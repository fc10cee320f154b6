----------------------------- MODULE AclProofs -----------------------------
(* Theorems about Acl, for every number of users, groups, rules and         *)
(* requests, and every tree.                                                *)
EXTENDS Acl, FiniteSetTheorems, WellFoundedInduction, TLAPS

-----------------------------------------------------------------------------
(* The inductive invariants.                                                *)

Principals == [id : Users, groups : SUBSET GroupIds, is_admin : BOOLEAN]
Local == [user : Principals \union {None}, at : RuleDirs \union Nat \union {None}]

RulesAt(R, prefix) == {x \in R : x.prefix = prefix}
\* The constraints of `acl_rules'.
GoodRules(R) ==
  /\ R \subseteq Rules
  /\ \A x, y \in R : x.id = y.id \/ <<x.prefix, x.subject>> = <<y.prefix, y.subject>> => x = y
GoodGroups ==
  /\ groups \subseteq GroupIds /\ members \in [GroupIds -> SUBSET Users]
  /\ \A g \in GroupIds \ groups : members[g] = {}
RequestTypes ==
  /\ pc \in [Requests -> Steps] /\ rq \in [Requests -> Local]
  /\ \A r \in Requests : pc[r] \in {"put_load", "put"} => rq[r].at \in RuleDirs
IInv == GoodRules(rules) /\ GoodGroups /\ RequestTypes

\* What holds a connection from a check to a write, and what of it changes rules.
Writing == {"put", "update", "delete", "group_delete"}
Deciding == {"put", "update", "delete"}
\* A schedule: no rule is checked while another request has yet to write one.
OneWriter == \A r, s \in Requests : pc[r] \in Deciding /\ pc[s] \in Deciding => r = s
\* Then what a check saw is in the tables at the write.
Allowed(r) ==
  /\ pc[r] = "put" => at_least(rules, rq[r].at, rq[r].user, Admin)
  /\ pc[r] \in {"update", "delete"} =>
       \E x \in rules : x.id = rq[r].at /\ at_least(rules, x.prefix, rq[r].user, Admin)
Permitted == \A r \in Requests : Allowed(r)
\* With one connection one request at a time holds it.
Alone == \A r, s \in Requests : pc[r] \in Writing /\ pc[s] \in Writing => r = s

-----------------------------------------------------------------------------
(* Ids.                                                                     *)

\* Every non-empty set of natural numbers has a least element.
LEMMA Least ==
  ASSUME NEW S, S \subseteq Nat, S # {}
  PROVE  \E n \in S : \A m \in S : n <= m
<1>1. PICK less : less = OpToRel(<, Nat)
  OBVIOUS
<1>2. \A m, n \in Nat : m < n => <<m, n>> \in less
  BY <1>1 DEF OpToRel
<1>3. PICK n \in S : \A m \in S : ~(<<m, n>> \in less)
  BY <1>1, NatLessThanWellFounded, WFMin
<1>4. \A m \in S : ~(m < n)
  BY <1>2, <1>3
<1> QED BY <1>4

\* Of ids up to a bound, the next one is the number after the largest.
LEMMA FreshIsNew ==
  ASSUME NEW b \in Nat, NEW S, S \subseteq 1 .. b
  PROVE  Fresh(S) \in Nat \ {0} /\ Fresh(S) \notin S
<1>1. CASE S = {}
  BY <1>1 DEF Fresh
<1>2. CASE S # {}
  <2> DEFINE T == {b - n : n \in S}
  <2>1. T \subseteq Nat /\ T # {}
    <3>1. \A n \in S : n \in 1 .. b /\ b - n \in Nat
      OBVIOUS
    <3> QED BY <1>2, <3>1
  <2>2. PICK t \in T : \A k \in T : t <= k
    BY <2>1, Least
  <2>3. PICK x \in S : t = b - x
    OBVIOUS
  <2>4. \A y \in S : x >= y
    <3> TAKE y \in S
    <3>1. b - y \in T
      OBVIOUS
    <3>2. b - x <= b - y
      BY <2>2, <2>3, <3>1
    <3> QED BY <3>2
  <2>5. Max(S) \in S /\ \A y \in S : Max(S) >= y
    BY <2>4 DEF Max
  <2>6. Max(S) \in Nat /\ Max(S) + 1 \notin S
    <3>1. \A y \in S : y \in Nat
      OBVIOUS
    <3> HIDE DEF T
    <3>2. Max(S) \in Nat
      BY <2>5, <3>1
    <3> QED BY <2>5, <3>1, <3>2
  <2>7. Fresh(S) = Max(S) + 1
    BY <1>2 DEF Fresh
  <2> QED BY <2>6, <2>7
<1> QED BY <1>1, <1>2

-----------------------------------------------------------------------------
(* The writes.                                                              *)

LEMMA InsertRule ==
  ASSUME NEW R, GoodRules(R), NEW x \in Rules,
         \A y \in R : y.id # x.id /\ <<y.prefix, y.subject>> # <<x.prefix, x.subject>>
  PROVE  GoodRules(R \union {x})
BY DEF GoodRules

\* `Same' with this level and inheritance.
Changed(R, Same, level, inherit) ==
  (R \ Same) \union {[x EXCEPT !.level = level, !.inherit = inherit] : x \in Same}

\* New levels and barriers leave the keys of the rules alone.
LEMMA ChangeRules ==
  ASSUME NEW R, GoodRules(R), NEW Same \in SUBSET R,
         NEW level \in LevelsUsed, NEW inherit \in BOOLEAN
  PROVE  GoodRules(Changed(R, Same, level, inherit))
<1> DEFINE New(x) == [x EXCEPT !.level = level, !.inherit = inherit]
           To(x) == IF x \in Same THEN New(x) ELSE x
<1>1. \A x \in R : x \in Rules
  BY DEF GoodRules
<1>2. \A x \in R : To(x) \in Rules /\ To(x).id = x.id
                   /\ To(x).prefix = x.prefix /\ To(x).subject = x.subject
  BY <1>1 DEF Rules
<1>3. \A z \in (R \ Same) \union {New(x) : x \in Same} : \E x \in R : z = To(x)
  OBVIOUS
<1> HIDE DEF To
<1>4. \A z \in (R \ Same) \union {New(x) : x \in Same} : z \in Rules
  BY <1>2, <1>3
<1>5. ASSUME NEW y \in (R \ Same) \union {New(x) : x \in Same},
             NEW z \in (R \ Same) \union {New(x) : x \in Same},
             y.id = z.id \/ <<y.prefix, y.subject>> = <<z.prefix, z.subject>>
      PROVE  y = z
  <2>1. PICK v \in R : y = To(v)
    BY <1>3
  <2>2. PICK w \in R : z = To(w)
    BY <1>3
  <2>3. v.id = w.id \/ <<v.prefix, v.subject>> = <<w.prefix, w.subject>>
    BY <1>2, <1>5, <2>1, <2>2
  <2>4. v = w
    BY <2>3 DEF GoodRules
  <2> QED BY <2>1, <2>2, <2>4
<1> QED BY <1>4, <1>5 DEF GoodRules, Changed

\* An upsert keeps the constraints, and touches one prefix only.
LEMMA Upsert ==
  ASSUME GoodRules(rules), NEW prefix \in RuleDirs, NEW subject \in Subjects,
         NEW level \in LevelsUsed, NEW inherit \in BOOLEAN,
         upsert_rule(prefix, subject, level, inherit)
  PROVE  /\ GoodRules(rules')
         /\ \A q : q # prefix => RulesAt(rules', q) = RulesAt(rules, q)
<1> DEFINE Same == {x \in rules : x.prefix = prefix /\ x.subject = subject}
           New(x) == [x EXCEPT !.level = level, !.inherit = inherit]
           row == [id |-> Fresh(Ids), prefix |-> prefix, subject |-> subject,
                   level |-> level, inherit |-> inherit]
<1>0. \A x \in rules : x \in Rules
  BY DEF GoodRules
<1>1. CASE Same # {}
  <2>1. rules' = (rules \ Same) \union {New(x) : x \in Same}
    BY <1>1 DEF upsert_rule
  <2>2. GoodRules(rules')
    <3>1. Same \in SUBSET rules
      OBVIOUS
    <3>2. rules' = Changed(rules, Same, level, inherit)
      BY <2>1 DEF Changed
    <3> HIDE DEF Same
    <3> QED BY <3>1, <3>2, ChangeRules
  <2>3. \A x \in Same : New(x).prefix = prefix /\ x.prefix = prefix
    BY <1>0 DEF Rules
  <2> QED BY <2>1, <2>2, <2>3 DEF RulesAt
<1>2. CASE Same = {}
  <2>1. rules' = rules \union {row} /\ Fresh(Ids) <= MaxRuleId
    BY <1>2 DEF upsert_rule
  <2>2. Ids \subseteq 1 .. MaxRuleId /\ MaxRuleId \in Nat
    BY <1>0, AclAssumption DEF Ids, Rules
  <2>3. Fresh(Ids) \in Nat \ {0} /\ Fresh(Ids) \notin Ids
    BY <2>2, FreshIsNew
  <2>4. Fresh(Ids) \in 1 .. MaxRuleId
    BY <2>1, <2>2, <2>3
  <2>5. row \in Rules
    BY <2>4 DEF Rules
  <2>6. \A y \in rules : y.id # row.id /\ <<y.prefix, y.subject>> # <<row.prefix, row.subject>>
    BY <1>2, <2>3 DEF Ids
  <2>7. row.prefix = prefix
    OBVIOUS
  <2> HIDE DEF row
  <2>8. GoodRules(rules')
    BY <2>1, <2>5, <2>6, InsertRule
  <2> QED BY <2>1, <2>7, <2>8 DEF RulesAt
<1> QED BY <1>1, <1>2

-----------------------------------------------------------------------------
(* The types.                                                               *)

LEMMA PrincipalTypes ==
  ASSUME GoodGroups, NEW u \in Users
  PROVE  principal(u) \in Principals
BY DEF GoodGroups, principal, Principals

LEMMA InitTypes == Init => IInv
<1> SUFFICES ASSUME Init
             PROVE  IInv
  OBVIOUS
<1> USE AclAssumption
<1> DEFINE row == [id |-> 1, prefix |-> <<>>, subject |-> Everyone, level |-> Read,
                   inherit |-> TRUE]
<1>1. row \in Rules
  BY DEF Rules, Subjects
<1>2. rules = {row}
  BY DEF Init, seed_default
<1> HIDE DEF row
<1>3. GoodRules(rules)
  BY <1>1, <1>2 DEF GoodRules
<1>4. GoodGroups
  BY DEF Init, GoodGroups
<1>5. RequestTypes
  BY DEF Init, RequestTypes, Steps, Local, Blank
<1> QED BY <1>3, <1>4, <1>5 DEF IInv

\* A request that moves keeps the types of the requests.
LEMMA Moves ==
  ASSUME RequestTypes, NEW r \in Requests, NEW step \in Steps, NEW loc \in Local,
         Goto(r, step), rq' = [rq EXCEPT ![r] = loc],
         step \in {"put_load", "put"} => loc.at \in RuleDirs
  PROVE  RequestTypes'
BY DEF RequestTypes, Goto

LEMMA Leaves ==
  ASSUME RequestTypes, NEW r \in Requests, Return(r)
  PROVE  RequestTypes'
BY Moves DEF Return, Blank, Local, Steps

LEMMA Stays ==
  ASSUME RequestTypes, NEW r \in Requests, NEW step \in Steps \ {"put_load", "put"},
         Goto(r, step), UNCHANGED rq
  PROVE  RequestTypes'
BY DEF RequestTypes, Goto

LEMMA NextTypes ==
  ASSUME IInv, [Next]_vars
  PROVE  IInv'
<1> USE AclAssumption DEF IInv
<1>0. CASE UNCHANGED vars
  BY <1>0 DEF vars, tables, GoodRules, GoodGroups, RequestTypes
<1>t. ASSUME UNCHANGED tables
      PROVE  GoodRules(rules') /\ GoodGroups'
  BY <1>t DEF tables, GoodRules, GoodGroups
<1>g. ASSUME UNCHANGED <<groups, members>>
      PROVE  GoodGroups'
  BY <1>g DEF GoodGroups
<1>b. ASSUME NEW r \in Requests, NEW u \in Users,
             NEW step \in {"put_load", "update_load", "delete_load", "group_count"},
             NEW at \in RuleDirs \union Nat, Begin(r, step, u, at),
             step = "put_load" => at \in RuleDirs
      PROVE  IInv'
  <2>1. [user |-> principal(u), at |-> at] \in Local
    BY PrincipalTypes DEF Local
  <2>2. RequestTypes'
    BY <1>b, <2>1, Moves DEF Begin, Steps
  <2> QED BY <1>b, <1>t, <2>2 DEF Begin
<1>1. ASSUME NEW r \in Requests, NEW u \in Users, NEW p \in RuleDirs,
             Begin(r, "put_load", u, p)
      PROVE  IInv'
  BY <1>1, <1>b
<1>2. ASSUME NEW r \in Requests, NEW u \in Users, NEW id \in 1 .. MaxRuleId,
             Begin(r, "update_load", u, id) \/ Begin(r, "delete_load", u, id)
      PROVE  IInv'
  BY <1>2, <1>b
<1>3. ASSUME NEW r \in Requests, NEW u \in SysAdmins, NEW g \in groups,
             Begin(r, "group_count", u, g)
      PROVE  IInv'
  <2>1. u \in Users /\ g \in Nat
    BY DEF GoodGroups, GroupIds
  <2> QED BY <1>3, <1>b, <2>1
<1>4. ASSUME NEW r \in Requests, PutLoad(r)
      PROVE  IInv'
  <2>1. CASE Goto(r, "put") /\ UNCHANGED rq
    BY <1>4, <1>t, <2>1 DEF PutLoad, RequestTypes, Goto, Steps
  <2>2. CASE Return(r)
    BY <1>4, <1>t, <2>2, Leaves DEF PutLoad
  <2> QED BY <1>4, <2>1, <2>2 DEF PutLoad
<1>5. ASSUME NEW r \in Requests, PutWrite(r)
      PROVE  IInv'
  <2>1. PICK subject \in Subjects, level \in LevelsUsed, inherit \in BOOLEAN :
             upsert_rule(rq[r].at, subject, level, inherit)
    BY <1>5 DEF PutWrite
  <2>2. PICK prefix \in RuleDirs : prefix = rq[r].at
    BY <1>5 DEF PutWrite, RequestTypes
  <2>3. upsert_rule(prefix, subject, level, inherit)
    BY <2>1, <2>2
  <2>4. GoodRules(rules')
    BY <2>3, Upsert
  <2> QED BY <1>5, <1>g, <2>4, Leaves DEF PutWrite
<1>l. ASSUME NEW r \in Requests, NEW write \in {"update", "delete"}, LoadById(r, write)
      PROVE  IInv'
  <2>1. CASE Goto(r, write) /\ UNCHANGED rq
    BY <1>l, <1>t, <2>1, Stays DEF LoadById, Steps
  <2>2. CASE Return(r)
    BY <1>l, <1>t, <2>2, Leaves DEF LoadById
  <2> QED BY <1>l, <2>1, <2>2 DEF LoadById
<1>6. ASSUME NEW r \in Requests, UpdateLoad(r) \/ DeleteLoad(r)
      PROVE  IInv'
  BY <1>6, <1>l DEF UpdateLoad, DeleteLoad
<1>7. ASSUME NEW r \in Requests, UpdateWrite(r)
      PROVE  IInv'
  <2>1. PICK level \in LevelsUsed, inherit \in BOOLEAN :
          rules' = {IF x.id = rq[r].at THEN [x EXCEPT !.level = level, !.inherit = inherit]
                    ELSE x : x \in rules}
    BY <1>7 DEF UpdateWrite
  <2> DEFINE Same == {x \in rules : x.id = rq[r].at}
  <2>2. rules' = Changed(rules, Same, level, inherit)
    BY <2>1 DEF Changed
  <2>3. Same \in SUBSET rules
    OBVIOUS
  <2> HIDE DEF Same
  <2>4. GoodRules(Changed(rules, Same, level, inherit))
    BY <2>3, ChangeRules
  <2>5. GoodRules(rules')
    BY <2>2, <2>4
  <2> QED BY <1>7, <1>g, <2>5, Leaves DEF UpdateWrite
<1>8. ASSUME NEW r \in Requests, DeleteWrite(r)
      PROVE  IInv'
  <2>1. GoodRules(rules')
    BY <1>8 DEF DeleteWrite, GoodRules
  <2> QED BY <1>8, <1>g, <2>1, Leaves DEF DeleteWrite
<1>9. ASSUME create_group
      PROVE  IInv'
  <2>1. Fresh(groups) \in 1 .. MaxGroupId
    BY <1>9, FreshIsNew DEF create_group, GoodGroups, GroupIds
  <2>2. GoodGroups'
    BY <1>9, <2>1 DEF create_group, GoodGroups, GroupIds
  <2> QED BY <1>9, <2>2 DEF create_group, RequestTypes
<1>10. ASSUME NEW g \in groups, NEW list \in SUBSET (Users \ SysAdmins), set_members(g, list)
       PROVE  IInv'
  <2>1. GoodGroups'
    BY <1>10 DEF set_members, GoodGroups
  <2> QED BY <1>10, <2>1 DEF set_members, RequestTypes
<1>11. ASSUME NEW r \in Requests, GroupCount(r)
       PROVE  IInv'
  <2>1. CASE Return(r)
    BY <1>11, <1>t, <2>1, Leaves DEF GroupCount
  <2>2. CASE Goto(r, "group_delete") /\ UNCHANGED rq
    BY <1>11, <1>t, <2>2, Stays DEF GroupCount, Steps
  <2> QED BY <1>11, <2>1, <2>2 DEF GroupCount
<1>12. ASSUME NEW r \in Requests, GroupDelete(r)
       PROVE  IInv'
  <2>1. GoodGroups'
    BY <1>12 DEF GroupDelete, GoodGroups
  <2> QED BY <1>12, <2>1, Leaves DEF GroupDelete
<1> QED BY <1>0, <1>1, <1>2, <1>3, <1>4, <1>5, <1>6, <1>7, <1>8, <1>9, <1>10, <1>11, <1>12
        DEF Next

LEMMA Invariant == Spec => []IInv
<1>1. Init => IInv
  BY InitTypes
<1>2. IInv /\ [Next]_vars => IInv'
  BY NextTypes
<1> QED BY <1>1, <1>2, PTL DEF Spec

\* The tables keep the constraints of the schema, whatever the interleaving of
\* the requests: one rule per prefix and subject, unique ids, and no members
\* left of a deleted group.
THEOREM TypeCorrect == Spec => []TypeOK
<1>1. IInv => TypeOK
  BY DEF IInv, TypeOK, GoodRules, GoodGroups, RequestTypes
<1> QED BY <1>1, Invariant, PTL

-----------------------------------------------------------------------------
(* What a level depends on.                                                 *)

\* The rules of a path's own directories decide; the others do not matter.
LEMMA SameLevel ==
  ASSUME NEW R, NEW S, NEW path \in Seq(STRING), NEW user,
         \A n \in 0 .. Len(path) :
           RulesAt(R, SubSeq(path, 1, n)) = RulesAt(S, SubSeq(path, 1, n))
  PROVE  effective_level(R, path, user) = effective_level(S, path, user)
<1> DEFINE Layers(T) == [i \in 1 .. Len(path) + 1 |->
                           resolve_layer(layer(T, prefixes_for_path(path)[i]), user)]
<1>1. ASSUME NEW i \in 1 .. Len(path) + 1
      PROVE  layer(R, prefixes_for_path(path)[i]) = layer(S, prefixes_for_path(path)[i])
  <2>1. PICK len \in Nat : len = Len(path)
    OBVIOUS
  <2>2. PICK n \in 0 .. Len(path) : n = Len(path) + 1 - i
    <3>1. i \in 1 .. len + 1
      BY <2>1
    <3>2. len + 1 - i \in 0 .. len
      BY <3>1
    <3> QED BY <2>1, <3>2
  <2>3. prefixes_for_path(path)[i] = SubSeq(path, 1, n)
    BY <2>2 DEF prefixes_for_path
  <2> QED BY <2>3 DEF layer, RulesAt
<1>2. Layers(R) = Layers(S)
  BY <1>1
<1> QED BY <1>2 DEF effective_level

-----------------------------------------------------------------------------
(* Delegation: nobody else decides between the check and the write.          *)

\* While no two requests are between the check of a rule and its write, nobody
\* changes what a request was allowed by.
LEMMA NextPermitted ==
  ASSUME IInv, OneWriter, Permitted, [Next]_vars
  PROVE  Permitted'
<1> USE DEF IInv
<1>0. CASE UNCHANGED vars
  BY <1>0 DEF vars, tables, Permitted, Allowed
<1>s. ASSUME NEW r \in Requests, pc' = [pc EXCEPT ![r] = pc'[r]], Allowed(r)',
             UNCHANGED rules, \A s \in Requests \ {r} : rq'[s] = rq[s]
      PROVE  Permitted'
  <2>1. \A s \in Requests \ {r} : pc'[s] = pc[s]
    BY <1>s DEF RequestTypes
  <2> QED BY <1>s, <2>1 DEF Permitted, Allowed
<1>w. ASSUME NEW r \in Requests, pc[r] \in Deciding, pc' = [pc EXCEPT ![r] = "out"]
      PROVE  Permitted'
  <2>1. \A s \in Requests : pc'[s] \notin Deciding
    BY <1>w DEF OneWriter, Deciding, RequestTypes
  <2> QED BY <2>1 DEF Permitted, Allowed, Deciding
<1>1. ASSUME NEW r \in Requests, NEW u, NEW at,
             NEW step \in {"put_load", "update_load", "delete_load", "group_count"},
             Begin(r, step, u, at)
      PROVE  Permitted'
  <2>1. pc' = [pc EXCEPT ![r] = pc'[r]] /\ pc'[r] = step
    BY <1>1 DEF Begin, Goto, RequestTypes
  <2>2. Allowed(r)'
    BY <2>1 DEF Allowed
  <2> QED BY <1>1, <1>s, <2>1, <2>2 DEF Begin, tables, RequestTypes
<1>r. ASSUME NEW r \in Requests, Return(r), UNCHANGED rules
      PROVE  Permitted'
  <2>1. pc' = [pc EXCEPT ![r] = pc'[r]] /\ pc'[r] = "out"
    BY <1>r DEF Return, Goto, RequestTypes
  <2>2. Allowed(r)'
    BY <2>1 DEF Allowed
  <2> QED BY <1>r, <1>s, <2>1, <2>2 DEF Return, RequestTypes
<1>g. ASSUME NEW r \in Requests, NEW step \in Steps, Goto(r, step), UNCHANGED rq,
             UNCHANGED rules,
             step = "put" => at_least(rules, rq[r].at, rq[r].user, Admin),
             step \in {"update", "delete"} =>
               \E x \in rules : x.id = rq[r].at /\ at_least(rules, x.prefix, rq[r].user, Admin)
      PROVE  Permitted'
  <2>1. pc' = [pc EXCEPT ![r] = pc'[r]] /\ pc'[r] = step
    BY <1>g DEF Goto, RequestTypes
  <2>2. Allowed(r)'
    BY <1>g, <2>1 DEF Allowed
  <2> QED BY <1>g, <1>s, <2>1, <2>2
<1>2. ASSUME NEW r \in Requests, PutLoad(r)
      PROVE  Permitted'
  <2>1. CASE at_least(rules, rq[r].at, rq[r].user, Admin) /\ Goto(r, "put") /\ UNCHANGED rq
    BY <1>2, <1>g, <2>1 DEF PutLoad, tables, Steps
  <2>2. CASE Return(r)
    BY <1>2, <1>r, <2>2 DEF PutLoad, tables
  <2> QED BY <1>2, <2>1, <2>2 DEF PutLoad
<1>3. ASSUME NEW r \in Requests, NEW write \in {"update", "delete"}, LoadById(r, write)
      PROVE  Permitted'
  <2>1. CASE /\ \E x \in rules : x.id = rq[r].at /\ at_least(rules, x.prefix, rq[r].user, Admin)
             /\ Goto(r, write) /\ UNCHANGED rq
    BY <1>3, <1>g, <2>1 DEF LoadById, tables, Steps
  <2>2. CASE Return(r)
    BY <1>3, <1>r, <2>2 DEF LoadById, tables
  <2> QED BY <1>3, <2>1, <2>2 DEF LoadById
<1>4. ASSUME NEW r \in Requests, PutWrite(r) \/ UpdateWrite(r) \/ DeleteWrite(r)
      PROVE  Permitted'
  <2>1. pc[r] \in Deciding /\ Return(r)
    BY <1>4 DEF PutWrite, UpdateWrite, DeleteWrite, Deciding
  <2> QED BY <1>w, <2>1 DEF Return, Goto
<1>5. ASSUME NEW r \in Requests, GroupCount(r)
      PROVE  Permitted'
  <2>1. CASE Return(r)
    BY <1>5, <1>r, <2>1 DEF GroupCount, tables
  <2>2. CASE Goto(r, "group_delete") /\ UNCHANGED rq
    BY <1>5, <1>g, <2>2 DEF GroupCount, tables, Steps
  <2> QED BY <1>5, <2>1, <2>2 DEF GroupCount
<1>6. ASSUME NEW r \in Requests, GroupDelete(r)
      PROVE  Permitted'
  BY <1>6, <1>r DEF GroupDelete
<1>7. ASSUME create_group \/ \E g \in groups, list \in SUBSET (Users \ SysAdmins) :
                               set_members(g, list)
      PROVE  Permitted'
  BY <1>7 DEF create_group, set_members, Permitted, Allowed
<1> QED BY <1>0, <1>1, <1>2, <1>3, <1>4, <1>5, <1>6, <1>7 DEF Next, UpdateLoad, DeleteLoad

\* A write changes the rules of one prefix, one that its caller was admin of.
LEMMA OnePrefix ==
  ASSUME IInv, Permitted, NEW r \in Requests,
         PutWrite(r) \/ UpdateWrite(r) \/ DeleteWrite(r)
  PROVE  \E prefix :
           /\ at_least(rules, prefix, rq[r].user, Admin)
           /\ \A q : q # prefix =>
                RulesAt(rules', q) = RulesAt(rules, q)
<1> USE DEF IInv
<1>1. CASE PutWrite(r)
  <2>1. PICK subject \in Subjects, level \in LevelsUsed, inherit \in BOOLEAN :
             upsert_rule(rq[r].at, subject, level, inherit)
    BY <1>1 DEF PutWrite
  <2>2. PICK prefix \in RuleDirs : prefix = rq[r].at
    BY <1>1 DEF PutWrite, RequestTypes
  <2>3. at_least(rules, prefix, rq[r].user, Admin)
    BY <1>1, <2>2 DEF PutWrite, Permitted, Allowed
  <2>4. upsert_rule(prefix, subject, level, inherit)
    BY <2>1, <2>2
  <2>5. \A q : q # prefix => RulesAt(rules', q) = RulesAt(rules, q)
    BY <2>4, Upsert
  <2> QED BY <2>3, <2>5
<1>2. CASE UpdateWrite(r) \/ DeleteWrite(r)
  <2>1. PICK x \in rules : x.id = rq[r].at /\ at_least(rules, x.prefix, rq[r].user, Admin)
    BY <1>2 DEF UpdateWrite, DeleteWrite, Permitted, Allowed
  <2>2. \A y \in rules : y \in Rules /\ (y.id = rq[r].at => y = x)
    BY <2>1 DEF GoodRules
  <2>3. CASE UpdateWrite(r)
    <3>1. PICK level \in LevelsUsed, inherit \in BOOLEAN :
            rules' = {IF y.id = rq[r].at THEN [y EXCEPT !.level = level, !.inherit = inherit]
                      ELSE y : y \in rules}
      BY <2>3 DEF UpdateWrite
    <3> DEFINE To(y) == IF y.id = rq[r].at
                        THEN [y EXCEPT !.level = level, !.inherit = inherit] ELSE y
    <3>2. \A y \in rules : To(y).prefix = y.prefix /\ (y.prefix # x.prefix => To(y) = y)
      BY <2>2 DEF Rules
    <3>3. rules' = {To(y) : y \in rules}
      BY <3>1
    <3> HIDE DEF To
    <3>4. ASSUME NEW q, q # x.prefix
          PROVE  RulesAt(rules', q) = RulesAt(rules, q)
      BY <3>2, <3>3, <3>4 DEF RulesAt
    <3> QED BY <2>1, <3>4
  <2>4. CASE DeleteWrite(r)
    <3>1. rules' = {y \in rules : y.id # rq[r].at}
      BY <2>4 DEF DeleteWrite
    <3>2. \A q : q # x.prefix => RulesAt(rules', q) = RulesAt(rules, q)
      BY <2>2, <3>1 DEF RulesAt
    <3> QED BY <2>1, <3>2
  <2> QED BY <1>2, <2>3, <2>4
<1> QED BY <1>1, <1>2

\* The write of request r, as the step in which it leaves.
LEMMA WhoWrites ==
  ASSUME IInv, [Next]_vars, NEW r \in Requests,
         pc[r] \in {"put", "update", "delete"}, pc'[r] = "out"
  PROVE  PutWrite(r) \/ UpdateWrite(r) \/ DeleteWrite(r)
<1>1. ASSUME NEW s \in Requests, s # r, NEW step, Goto(s, step)
      PROVE  FALSE
  BY <1>1 DEF Goto, IInv, RequestTypes
<1>2. ~UNCHANGED pc
  OBVIOUS
<1>3. PICK s \in Requests :
        \/ \E u \in Users, p \in RuleDirs : Begin(s, "put_load", u, p)
        \/ \E u \in Users, id \in 1 .. MaxRuleId :
             Begin(s, "update_load", u, id) \/ Begin(s, "delete_load", u, id)
        \/ \E u \in SysAdmins, g \in groups : Begin(s, "group_count", u, g)
        \/ PutLoad(s) \/ PutWrite(s)
        \/ UpdateLoad(s) \/ UpdateWrite(s) \/ DeleteLoad(s) \/ DeleteWrite(s)
        \/ GroupCount(s) \/ GroupDelete(s)
  BY <1>2 DEF Next, create_group, set_members, vars
<1>4. \E step : Goto(s, step)
  BY <1>3 DEF Begin, PutLoad, PutWrite, UpdateLoad, UpdateWrite, DeleteLoad, DeleteWrite,
              LoadById, GroupCount, GroupDelete, Return
<1>5. s = r
  BY <1>1, <1>4
<1> QED BY <1>3, <1>5 DEF Begin, PutLoad, UpdateLoad, DeleteLoad, GroupCount, GroupDelete

\* While no two requests are between the check of put_acl or delete_acl and its
\* write, however many connections there are and whatever else runs, a request
\* changes levels only at and below a directory that its caller, with the groups
\* he had, is admin of when the row is written.
THEOREM DelegatedWhenAlone == Spec /\ []OneWriter => WritesAreDelegated
<1>1. Init => Permitted
  BY DEF Init, Permitted, Allowed
<1>2. IInv /\ OneWriter /\ Permitted /\ [Next]_vars => Permitted'
  BY NextPermitted
<1> DEFINE InCharge(p, r) ==
             \E n \in 0 .. Len(p) : at_least(rules, SubSeq(p, 1, n), rq[r].user, Admin)
           Delegated == \A r \in Requests :
             pc[r] \in {"put", "update", "delete"} /\ pc'[r] = "out" =>
               \A p \in {q \in Asked : ~InCharge(q, r)}, user \in Callers :
                 effective_level(rules', p, user) = effective_level(rules, p, user)
<1>3. ASSUME IInv, Permitted, [Next]_vars
      PROVE  Delegated
  <2> SUFFICES ASSUME NEW r \in Requests, pc[r] \in {"put", "update", "delete"}, pc'[r] = "out",
                      NEW p \in Asked, ~InCharge(p, r), NEW user \in Callers
               PROVE  effective_level(rules', p, user) = effective_level(rules, p, user)
    OBVIOUS
  <2>1. PICK prefix :
          /\ at_least(rules, prefix, rq[r].user, Admin)
          /\ \A q : q # prefix =>
               RulesAt(rules', q) = RulesAt(rules, q)
    BY <1>3, WhoWrites, OnePrefix
  <2>2. \A n \in 0 .. Len(p) : SubSeq(p, 1, n) # prefix
    BY <2>1
  <2>3. p \in Seq(STRING)
    BY AclAssumption DEF Asked
  <2>4. \A n \in 0 .. Len(p) :
          RulesAt(rules', SubSeq(p, 1, n)) = RulesAt(rules, SubSeq(p, 1, n))
    BY <2>1, <2>2
  <2> HIDE DEF InCharge
  <2> QED BY <2>3, <2>4, SameLevel
<1>4. IInv /\ Permitted /\ [Next]_vars => [Delegated]_vars
  BY <1>3
<1>5. [][Delegated]_vars => WritesAreDelegated
  BY DEF WritesAreDelegated
<1> QED BY <1>1, <1>2, <1>4, <1>5, Invariant, PTL DEF Spec

LEMMA Lonely ==
  ASSUME PoolSize = 1, FreeConnection
  PROVE  \A r \in Requests : pc[r] \notin Writing
<1> DEFINE Held == {r \in Requests : pc[r] \in Writing}
<1>1. IsFiniteSet(Held)
  BY AclAssumption, FS_Subset
<1>2. Cardinality(Held) < 1
  BY DEF FreeConnection, Writing
<1>3. Cardinality(Held) \in Nat
  BY <1>1, FS_CardinalityType
<1>4. Cardinality(Held) = 0
  BY <1>2, <1>3
<1>5. Held = {}
  BY <1>1, <1>4, FS_EmptySet
<1> QED BY <1>5

\* One connection runs one handler from its check to its write.
LEMMA OneConnection == PoolSize = 1 => (Spec => []OneWriter)
<1> SUFFICES ASSUME PoolSize = 1
             PROVE  Spec => []OneWriter
  OBVIOUS
<1>1. Init => Alone
  BY DEF Init, Alone, Writing
<1>2. ASSUME IInv, Alone, [Next]_vars
      PROVE  Alone'
  <2> USE DEF IInv
  <2>1. ASSUME NEW r \in Requests, NEW step, Goto(r, step), step \notin Writing \/ FreeConnection
        PROVE  Alone'
    <3>1. \A s \in Requests \ {r} : pc'[s] = pc[s]
      BY <1>2, <2>1 DEF Goto, RequestTypes
    <3>2. pc'[r] = step
      BY <1>2, <2>1 DEF Goto, RequestTypes
    <3> QED BY <1>2, <2>1, <3>1, <3>2, Lonely DEF Alone
  <2>2. ASSUME NEW r \in Requests, Return(r) PROVE Alone'
    BY <2>1, <2>2 DEF Return, Writing
  <2>3. CASE UNCHANGED pc
    BY <1>2, <2>3 DEF Alone
  <2>4. ASSUME NEW r \in Requests, NEW u, NEW at,
               NEW step \in {"put_load", "update_load", "delete_load", "group_count"},
               Begin(r, step, u, at)
        PROVE  Alone'
    BY <2>1, <2>4 DEF Begin, Writing
  <2>5. ASSUME NEW r \in Requests,
               PutLoad(r) \/ UpdateLoad(r) \/ DeleteLoad(r) \/ GroupCount(r)
        PROVE  Alone'
    <3>1. FreeConnection /\ (Return(r) \/ \E step : Goto(r, step))
      BY <2>5 DEF PutLoad, UpdateLoad, DeleteLoad, LoadById, GroupCount
    <3> QED BY <2>1, <2>2, <3>1
  <2>6. ASSUME NEW r \in Requests,
               PutWrite(r) \/ UpdateWrite(r) \/ DeleteWrite(r) \/ GroupDelete(r)
        PROVE  Alone'
    BY <2>2, <2>6 DEF PutWrite, UpdateWrite, DeleteWrite, GroupDelete
  <2> QED BY <1>2, <2>3, <2>4, <2>5, <2>6 DEF Next, create_group, set_members, vars
<1>3. Alone => OneWriter
  BY DEF Alone, OneWriter, Writing, Deciding
<1> QED BY <1>1, <1>2, <1>3, Invariant, PTL DEF Spec

\* With one connection, the check of put_acl and delete_acl and their write are
\* one step for everybody else, and delegation holds of every schedule.
THEOREM Delegation == PoolSize = 1 => (Spec => WritesAreDelegated)
<1> SUFFICES ASSUME PoolSize = 1
             PROVE  Spec => WritesAreDelegated
  OBVIOUS
<1> QED BY OneConnection, DelegatedWhenAlone, PTL

-----------------------------------------------------------------------------
(* The read endpoints.                                                      *)

LEMMA TreeAndChanges ==
  ASSUME NEW user, NEW p \in RuleDirs, NEW depth, NEW f \in DOMAIN HeadTree,
         HeadTree[f].kind = "file", Below(p, f), Len(f) <= Len(p) + depth
  PROVE  f \in tree(rules, HeadTree, user, p, depth) <=>
           /\ <<f, HeadTree[f].hash>> \in changes(rules, History, user, p)
           /\ \A n \in Len(p) + 1 .. Len(f) - 1 : at_least(rules, SubSeq(f, 1, n), user, Read)
<1> DEFINE Row == <<f, HeadTree[f].hash>>
           Opens(n) == at_least(rules, SubSeq(f, 1, n), user, Read)
<1>1. f \in Seq(STRING) /\ p \in Seq(STRING) /\ Len(f) \in Nat /\ Len(p) \in Nat
  BY AclAssumption
<1>2. SubSeq(f, 1, Len(f)) = f /\ IsPrefix(p, f) /\ Len(p) < Len(f)
  BY <1>1 DEF Below
<1>3. Row \in History /\ Row[1] = f
  BY AclAssumption
<1>4. Row \in changes(rules, History, user, p) <=>
      at_least(rules, p, user, Read) /\ at_least(rules, f, user, Read)
  BY <1>2, <1>3 DEF changes, Refused
<1>5. f \in tree(rules, HeadTree, user, p, depth) <=>
      at_least(rules, p, user, Read) /\ \A n \in Len(p) + 1 .. Len(f) : Opens(n)
  BY DEF tree, Refused
<1>6. at_least(rules, f, user, Read) <=> Opens(Len(f))
  BY <1>2
<1>7. Len(p) + 1 .. Len(f) = (Len(p) + 1 .. Len(f) - 1) \union {Len(f)}
  BY <1>1, <1>2
<1> HIDE DEF Row, Opens
<1>8. f \in tree(rules, HeadTree, user, p, depth) <=>
        Row \in changes(rules, History, user, p) /\ \A n \in Len(p) + 1 .. Len(f) - 1 : Opens(n)
  BY <1>4, <1>5, <1>6, <1>7
<1> QED BY <1>8 DEF Row, Opens

LEMMA DirsAreTree ==
  ASSUME NEW user, NEW p \in RuleDirs
  PROVE  list_dirs(rules, HeadTree, user, p) =
           {f \in tree(rules, HeadTree, user, p, 1) : HeadTree[f].kind = "dir"}
<1>1. CASE ~at_least(rules, p, user, Read)
  BY <1>1 DEF list_dirs, tree, Refused
<1>2. CASE at_least(rules, p, user, Read)
  <2>1. p \in Seq(STRING) /\ \A f \in DOMAIN HeadTree : f \in Seq(STRING)
    BY AclAssumption
  <2>2. ASSUME NEW f \in DOMAIN HeadTree, Below(p, f), Len(f) = Len(p) + 1
        PROVE  at_least(rules, f, user, Read) <=>
               \A n \in Len(p) + 1 .. Len(f) : at_least(rules, SubSeq(f, 1, n), user, Read)
    <3>1. SubSeq(f, 1, Len(f)) = f /\ Len(f) \in Nat /\ Len(p) \in Nat
      BY <2>1
    <3>2. Len(f) \in Len(p) + 1 .. Len(f) /\ \A n \in Len(p) + 1 .. Len(f) : n = Len(f)
      BY <2>2, <3>1
    <3>3. ASSUME at_least(rules, f, user, Read), NEW n \in Len(p) + 1 .. Len(f)
          PROVE  at_least(rules, SubSeq(f, 1, n), user, Read)
      BY <3>1, <3>2, <3>3
    <3> QED BY <3>1, <3>2, <3>3
  <2>3. ASSUME NEW f \in DOMAIN HeadTree, Below(p, f)
        PROVE  Len(f) <= Len(p) + 1 <=> Len(f) = Len(p) + 1
    BY <2>1, <2>3 DEF Below
  <2> QED BY <1>2, <2>2, <2>3 DEF list_dirs, tree
<1> QED BY <1>1, <1>2

\* The endpoints follow one policy, for every set of rules, every tree and every
\* history: a tree shows exactly the files at HEAD that the changes of its prefix
\* show and that lie below directories the user may read, and the directory list
\* of the administration is the tree's.
THEOREM OnePolicy == Spec => []ReadersAgree
<1>1. ReadersAgree
  BY TreeAndChanges, DirsAreTree DEF ReadersAgree
<1> QED BY <1>1, PTL

-----------------------------------------------------------------------------
(* A layer of rules.                                                        *)

\* Induction up to a bound, for the property of being in a set.
LEMMA UpTo ==
  ASSUME NEW N \in Nat, NEW S, 0 \in S, \A n \in 0 .. N : n < N /\ n \in S => n + 1 \in S
  PROVE  0 .. N \subseteq S
<1> DEFINE Bad == (0 .. N) \ S
<1>1. SUFFICES ASSUME Bad # {}
               PROVE  FALSE
  OBVIOUS
<1>2. PICK n \in Bad : \A m \in Bad : n <= m
  <2>1. Bad \subseteq Nat
    OBVIOUS
  <2> HIDE DEF Bad
  <2> QED BY <1>1, <2>1, Least
<1>3. n \in 1 .. N /\ n - 1 \in 0 .. N /\ n - 1 < N
  OBVIOUS
<1>4. n - 1 \in S
  <2>1. n - 1 \notin Bad
    BY <1>2, <1>3
  <2> QED BY <1>3, <2>1
<1>5. n \in S
  BY <1>3, <1>4
<1> QED BY <1>5

\* In the order of their ids.
Ordered(q) == \A i, j \in DOMAIN q : i < j => q[i].id < q[j].id
Keyed(S) == \A x, y \in S : x.id = y.id => x = y

LEMMA HasOrder ==
  ASSUME NEW N \in Nat, NEW S, \A x \in S : x.id \in 1 .. N, Keyed(S)
  PROVE  IsFiniteSet(S) /\ \E q \in [1 .. Cardinality(S) -> S] : Ordered(q)
<1> DEFINE T(n) == {x \in S : x.id <= n}
           Can(n) == IsFiniteSet(T(n)) /\ \E q \in [1 .. Cardinality(T(n)) -> T(n)] : Ordered(q)
           Cans == {n \in 0 .. N : Can(n)}
<1>1. Can(0)
  <2>1. T(0) = {}
    OBVIOUS
  <2>2. IsFiniteSet(T(0)) /\ Cardinality(T(0)) = 0
    BY <2>1, FS_EmptySet
  <2> DEFINE q == [i \in 1 .. 0 |-> i]
  <2>3. q \in [1 .. 0 -> T(0)] /\ Ordered(q)
    BY DEF Ordered
  <2> QED BY <2>2, <2>3
<1>2. ASSUME NEW n \in 0 .. N, n < N, n \in Cans
      PROVE  n + 1 \in Cans
  <2>1. /\ n \in Nat /\ n + 1 \in 0 .. N
        /\ IsFiniteSet(T(n))
        /\ \E q \in [1 .. Cardinality(T(n)) -> T(n)] : Ordered(q)
    BY <1>2
  <2>2. CASE \A x \in S : x.id # n + 1
    <3>1. T(n + 1) = T(n)
      BY <2>1, <2>2
    <3> QED BY <2>1, <3>1
  <2>3. ASSUME NEW x \in S, x.id = n + 1
        PROVE  n + 1 \in Cans
    <3>1. T(n + 1) = T(n) \union {x} /\ x \notin T(n)
      BY <2>1, <2>3 DEF Keyed
    <3> PICK q \in [1 .. Cardinality(T(n)) -> T(n)] : Ordered(q)
      BY <2>1
    <3> PICK c : c = Cardinality(T(n))
      OBVIOUS
    <3>2. c \in Nat /\ IsFiniteSet(T(n + 1)) /\ Cardinality(T(n + 1)) = c + 1
      <4> HIDE DEF T
      <4> QED BY <2>1, <3>1, FS_AddElement, FS_CardinalityType
    <3> DEFINE q2 == [i \in 1 .. c + 1 |-> IF i = c + 1 THEN x ELSE q[i]]
    <3>3. q2 \in [1 .. c + 1 -> T(n + 1)]
      <4> HIDE DEF T
      <4> QED BY <3>1, <3>2
    <3>4. Ordered(q2)
      <4> SUFFICES ASSUME NEW i \in 1 .. c + 1, NEW j \in 1 .. c + 1, i < j
                   PROVE  q2[i].id < q2[j].id
        BY DEF Ordered
      <4>0. i \in 1 .. c /\ i # c + 1
        BY <3>2
      <4>1. i \in 1 .. c /\ q2[i] = q[i] /\ q[i] \in T(n)
        <5> HIDE DEF T
        <5> QED BY <3>2, <4>0
      <4>2. CASE j = c + 1
        BY <2>1, <2>3, <4>1, <4>2
      <4>3. CASE j # c + 1
        BY <3>2, <4>1, <4>3 DEF Ordered
      <4> QED BY <4>2, <4>3
    <3> HIDE DEF q2, T
    <3>5. Can(n + 1)
      BY <3>2, <3>3, <3>4
    <3> QED BY <2>1, <3>5
  <2> QED BY <2>2, <2>3
<1>3. N \in Cans
  <2>1. 0 \in Cans
    BY <1>1
  <2> HIDE DEF Cans
  <2> QED BY <1>2, <2>1, UpTo
<1>4. T(N) = S
  OBVIOUS
<1> QED BY <1>3, <1>4

\* load lists every rule of a prefix, and no other.
LEMMA Listed ==
  ASSUME NEW N \in Nat, NEW S, \A x \in S : x.id \in 1 .. N, Keyed(S)
  PROVE  by_id(S) \in Seq(S) /\ \A x \in S : \E i \in 1 .. Len(by_id(S)) : by_id(S)[i] = x
<1> DEFINE q == by_id(S)
<1> PICK c : c = Cardinality(S)
  OBVIOUS
<1>1. IsFiniteSet(S) /\ c \in Nat /\ \E p \in [1 .. c -> S] : Ordered(p)
  BY HasOrder, FS_CardinalityType
<1>2. q \in [1 .. c -> S] /\ Ordered(q)
  BY <1>1 DEF by_id, Ordered
<1> HIDE DEF q
<1>3. \A i, j \in 1 .. c : i # j => q[i] # q[j]
  <2> SUFFICES ASSUME NEW i \in 1 .. c, NEW j \in 1 .. c, i # j, q[i] = q[j]
               PROVE  FALSE
    OBVIOUS
  <2>1. q[i] \in S /\ q[j] \in S /\ q[i].id \in Nat /\ q[j].id \in Nat
    BY <1>2
  <2>2. i < j \/ j < i
    BY <1>1
  <2>3. q[i].id < q[j].id \/ q[j].id < q[i].id
    BY <1>2, <2>2 DEF Ordered
  <2> QED BY <2>1, <2>3
<1>4. q \in Injection(1 .. c, S)
  BY <1>2, <1>3 DEF Injection, IsInjective
<1>5. Cardinality(1 .. c) = Cardinality(S)
  BY <1>1, FS_Interval
<1>6. q \in Surjection(1 .. c, S)
  BY <1>1, <1>4, <1>5, FS_Injection
<1>7. q \in Seq(S) /\ Len(q) = c
  BY <1>1, <1>2
<1>8. \A x \in S : \E i \in 1 .. c : q[i] = x
  BY <1>6 DEF Surjection
<1> QED BY <1>7, <1>8 DEF q

\* The rules of a user's three kinds of subjects.
Hits(S, user) == {x \in S : matches(x.subject, user)}
\* No rule of S decides rather than b.
Foremost(S, b) ==
  \A x \in S : \/ rank(x.subject) < rank(b.subject)
               \/ rank(x.subject) = rank(b.subject) /\ x.level >= b.level

\* pick finds a foremost rule, if one matches at all.
LEMMA Picks ==
  ASSUME NEW S, None \notin S, NEW q \in Seq(S), NEW user,
         \A x \in S : rank(x.subject) \in Nat /\ x.level \in Nat
  PROVE  \/ pick(q, user) = None /\ \A i \in 1 .. Len(q) : ~matches(q[i].subject, user)
         \/ \E i \in 1 .. Len(q) : /\ pick(q, user) = q[i] /\ matches(q[i].subject, user)
                                   /\ Foremost(Hits({q[j] : j \in 1 .. Len(q)}, user), q[i])
<1> DEFINE N == Len(q)
           S0 == S \union {None}
           Step(n, b) == IF matches(q[n].subject, user) /\ beats(q[n], b) THEN q[n] ELSE b
           Upto(n, f) == f[0] = None /\ \A i \in 1 .. n : f[i] = Step(i, f[i - 1])
           Seen(n) == {q[j] : j \in 1 .. n}
           Good(n, b) == \/ b = None /\ \A i \in 1 .. n : ~matches(q[i].subject, user)
                         \/ \E i \in 1 .. n : /\ b = q[i] /\ matches(q[i].subject, user)
                                              /\ Foremost(Hits(Seen(n), user), q[i])
           Can(n) == \E f \in [0 .. n -> S0] : Upto(n, f) /\ Good(n, f[n])
           Cans == {n \in 0 .. N : Can(n)}
<1>1. N \in Nat /\ \A i \in 1 .. N : q[i] \in S
  OBVIOUS
<1>2. Can(0)
  <2> DEFINE f == [i \in 0 .. 0 |-> None]
  <2>1. f \in [0 .. 0 -> S0] /\ f[0] = None
    OBVIOUS
  <2>2. \A i \in 1 .. 0 : FALSE
    OBVIOUS
  <2> HIDE DEF f, Step
  <2>3. Upto(0, f) /\ Good(0, f[0])
    BY <2>1, <2>2
  <2> HIDE DEF Upto, Good
  <2> QED BY <2>1, <2>3
<1>3. ASSUME NEW n \in 0 .. N, n < N, n \in Cans
      PROVE  n + 1 \in Cans
  <2>1. PICK f \in [0 .. n -> S0] : Upto(n, f) /\ Good(n, f[n])
    BY <1>3
  <2>2. PICK m : m = n + 1
    OBVIOUS
  <2>3. n \in Nat /\ m \in 1 .. N /\ m \in 0 .. N /\ q[m] \in S /\ f[n] \in S0
    BY <1>1, <1>3, <2>2
  <2> DEFINE g == [i \in 0 .. m |-> IF i = m THEN Step(m, f[n]) ELSE f[i]]
  <2>4. Step(m, f[n]) \in S0
    BY <2>3
  <2>5. g \in [0 .. m -> S0] /\ g[m] = Step(m, f[n])
    <3> HIDE DEF Step, S0
    <3> QED BY <2>1, <2>2, <2>3, <2>4
  <2>6. Upto(m, g)
    <3> HIDE DEF Step, S0
    <3>1. g[0] = None
      BY <2>1, <2>2, <2>3
    <3>2. ASSUME NEW i \in 1 .. m
          PROVE  g[i] = Step(i, g[i - 1])
      <4>1. i \in 0 .. m /\ i - 1 \in 0 .. n /\ i - 1 \in 0 .. m /\ i - 1 # m
        BY <2>2, <2>3
      <4>2. g[i - 1] = f[i - 1]
        BY <4>1
      <4>3. CASE i = m
        <5>1. i - 1 = n
          BY <2>2, <2>3, <4>3
        <5> QED BY <2>5, <4>2, <4>3, <5>1
      <4>4. CASE i # m
        <5>1. i \in 1 .. n
          BY <2>2, <2>3, <4>4
        <5> QED BY <2>1, <4>1, <4>2, <4>4, <5>1
      <4> QED BY <4>3, <4>4
    <3> QED BY <3>1, <3>2
  <2>7. Good(m, Step(m, f[n]))
    <3> PICK b : b = f[n]
      OBVIOUS
    <3>0. Good(n, b)
      <4> HIDE DEF Good
      <4> QED BY <2>1
    <3>1. \A i \in 1 .. n : i \in 1 .. m /\ i \in 1 .. N
      BY <1>1, <2>2, <2>3
    <3>2. \A i \in 1 .. m : i \in 1 .. n \/ i = m
      BY <2>2, <2>3
    <3>3. Seen(m) = Seen(n) \union {q[m]} /\ Seen(n) \subseteq S
      <4>1. Seen(m) \subseteq Seen(n) \union {q[m]}
        BY <3>2
      <4>2. Seen(n) \subseteq Seen(m)
        BY <3>1
      <4>3. m \in 1 .. m
        BY <2>3
      <4>4. q[m] \in Seen(m)
        BY <4>3
      <4>5. Seen(n) \subseteq S
        BY <1>1, <3>1
      <4> HIDE DEF Seen
      <4> QED BY <4>1, <4>2, <4>4, <4>5
    <3>4. rank(q[m].subject) \in Nat /\ q[m].level \in Nat
      BY <2>3
    <3> HIDE DEF Seen
    <3>5. CASE ~matches(q[m].subject, user)
      <4>1. Step(m, b) = b
        BY <3>5
      <4>2. Hits(Seen(m), user) = Hits(Seen(n), user)
        BY <3>3, <3>5 DEF Hits
      <4> HIDE DEF Step
      <4> QED BY <3>0, <3>1, <3>2, <3>5, <4>1, <4>2
    <3>6. CASE matches(q[m].subject, user) /\ b = None
      <4>1. Step(m, b) = q[m]
        BY <3>6 DEF beats
      <4>2. None \notin {q[i] : i \in 1 .. n}
        BY <1>1, <3>1
      <4>3. \A i \in 1 .. n : ~matches(q[i].subject, user)
        BY <3>0, <3>6, <4>2
      <4>4. Hits(Seen(m), user) \subseteq {q[m]}
        BY <3>3, <4>3 DEF Hits, Seen
      <4>5. Foremost(Hits(Seen(m), user), q[m])
        BY <3>4, <4>4 DEF Foremost
      <4>6. m \in 1 .. m
        BY <2>3
      <4> HIDE DEF Step, S0, N
      <4> QED BY Zenon, <3>6, <4>1, <4>5, <4>6
    <3>7. CASE matches(q[m].subject, user) /\ b # None
      <4>1. PICK i \in 1 .. n : /\ b = q[i] /\ matches(q[i].subject, user)
                                /\ Foremost(Hits(Seen(n), user), q[i])
        BY <3>0, <3>7
      <4>2. i \in 1 .. m /\ q[i] \in S /\ rank(b.subject) \in Nat /\ b.level \in Nat
        BY <1>1, <3>1, <4>1
      <4>3. Hits(Seen(m), user) \subseteq Hits(Seen(n), user) \union {q[m]}
        BY <3>3 DEF Hits
      <4>4. \A x \in Seen(n) : rank(x.subject) \in Nat /\ x.level \in Nat
        BY <3>3
      <4>5. CASE beats(q[m], b)
        <5>1. Step(m, b) = q[m]
          BY <3>7, <4>5
        <5>2. Foremost(Hits(Seen(m), user), q[m])
          BY <3>4, <3>7, <4>1, <4>2, <4>3, <4>4, <4>5 DEF Foremost, beats, Hits
        <5>3. m \in 1 .. m
          BY <2>3
        <5> HIDE DEF Step, S0, N
        <5> QED BY Zenon, <3>7, <5>1, <5>2, <5>3
      <4>6. CASE ~beats(q[m], b)
        <5>1. Step(m, b) = b
          BY <4>6
        <5>2. Foremost(Hits(Seen(m), user), b)
          BY <3>4, <3>7, <4>1, <4>2, <4>3, <4>4, <4>6 DEF Foremost, beats, Hits
        <5> HIDE DEF Step
        <5> QED BY <4>1, <4>2, <5>1, <5>2
      <4> QED BY <4>5, <4>6
    <3> HIDE DEF Good, Step
    <3> QED BY <3>5, <3>6, <3>7
  <2> HIDE DEF g, Upto, Good, Step, S0
  <2>8. Can(m)
    BY <2>5, <2>6, <2>7
  <2> QED BY <2>2, <2>3, <2>8
<1>4. N \in Cans
  <2>1. 0 \in Cans
    BY <1>1, <1>2
  <2>2. 0 .. N \subseteq Cans
    <3> HIDE DEF Cans, N
    <3> QED BY <1>1, <1>3, <2>1, UpTo
  <2> HIDE DEF Cans, N
  <2> QED BY <1>1, <2>2
<1>5. PICK f \in [0 .. N -> S0] : Upto(N, f) /\ Good(N, f[N])
  BY <1>4
<1>6. \E h : h = [n \in 0 .. N |-> IF n = 0 THEN None ELSE Step(n, h[n - 1])]
  <2>1. f = [n \in 0 .. N |-> IF n = 0 THEN None ELSE Step(n, f[n - 1])]
    <3> HIDE DEF Step
    <3> QED BY <1>1, <1>5
  <2> QED BY <2>1
<1> DEFINE best == CHOOSE h : h = [n \in 0 .. N |-> IF n = 0 THEN None ELSE Step(n, h[n - 1])]
<1>7. best = [n \in 0 .. N |-> IF n = 0 THEN None ELSE Step(n, best[n - 1])]
  <2> HIDE DEF Step, N
  <2> QED BY Zenon, <1>6
<1>8. pick(q, user) = best[N]
  BY DEF pick
<1>9. \A n \in 0 .. N : best[n] = f[n]
  <2> DEFINE E == {n \in 0 .. N : best[n] = f[n]}
  <2> HIDE DEF best, Step
  <2>1. 0 \in E
    BY <1>1, <1>5, <1>7
  <2>2. ASSUME NEW n \in 0 .. N, n < N, n \in E
        PROVE  n + 1 \in E
    <3>1. n + 1 \in 1 .. N /\ n + 1 \in 0 .. N /\ n + 1 # 0 /\ (n + 1) - 1 = n
      BY <1>1, <2>2
    <3>2. best[n + 1] = Step(n + 1, best[n])
      BY <1>7, <3>1
    <3> QED BY <1>5, <2>2, <3>1, <3>2
  <2>3. 0 .. N \subseteq E
    <3> HIDE DEF E
    <3> QED BY <1>1, <2>1, <2>2, UpTo
  <2> QED BY <2>3
<1>10. Good(N, pick(q, user))
  <2> HIDE DEF best, Good
  <2> QED BY <1>1, <1>5, <1>8, <1>9
<1> QED BY <1>10

LEMMA LeastIs ==
  ASSUME NEW S, S \subseteq Nat, NEW m \in S, \A k \in S : m <= k
  PROVE  Min(S) = m
<1>1. Min(S) \in S /\ \A k \in S : Min(S) <= k
  BY DEF Min
<1>2. m \in Nat /\ Min(S) \in Nat /\ m <= Min(S) /\ Min(S) <= m
  BY <1>1
<1> QED BY <1>2

\* The subjects that are this user, by rank.
Named(user, n) == CASE n = 2 -> {User(user.id)}
                    [] n = 1 -> {Group(g) : g \in user.groups}
                    [] n = 0 -> {Everyone}

LEMMA SubjectKinds ==
  ASSUME NEW s \in Subjects, NEW user \in Callers
  PROVE  /\ rank(s) \in {0, 1, 2}
         /\ \A n \in {0, 1, 2} : s \in Named(user, n) <=> matches(s, user) /\ rank(s) = n
<1>1. PICK u \in Users : user = principal(u)
  BY DEF Callers
<1>2. /\ s \in Named(user, 0) <=> s = Everyone
      /\ s \in Named(user, 1) <=> \E g \in user.groups : s = Group(g)
      /\ s \in Named(user, 2) <=> s = User(user.id)
  BY DEF Named
<1>3. SUFFICES /\ rank(s) \in {0, 1, 2}
               /\ s = Everyone <=> matches(s, user) /\ rank(s) = 0
               /\ (\E g \in user.groups : s = Group(g)) <=> matches(s, user) /\ rank(s) = 1
               /\ s = User(user.id) <=> matches(s, user) /\ rank(s) = 2
  BY <1>2
<1>4. CASE s = Everyone
  <2>1. s.kind = "everyone" /\ \A x : s # Group(x) /\ s # User(x)
    BY <1>4 DEF Everyone, Group, User
  <2> QED BY <1>4, <2>1 DEF rank, matches
<1>5. ASSUME NEW g \in GroupIds, s = Group(g)
      PROVE  /\ rank(s) \in {0, 1, 2}
             /\ s = Everyone <=> matches(s, user) /\ rank(s) = 0
             /\ (\E x \in user.groups : s = Group(x)) <=> matches(s, user) /\ rank(s) = 1
             /\ s = User(user.id) <=> matches(s, user) /\ rank(s) = 2
  <2>1. s.kind = "group" /\ s # Everyone /\ \A x : s # User(x)
    BY <1>5 DEF Everyone, Group, User
  <2>2. s.id = g /\ \A x : s = Group(x) <=> x = g
    BY <1>5 DEF Group
  <2> QED BY <2>1, <2>2 DEF rank, matches
<1>6. ASSUME NEW v \in Users, s = User(v)
      PROVE  /\ rank(s) \in {0, 1, 2}
             /\ s = Everyone <=> matches(s, user) /\ rank(s) = 0
             /\ (\E x \in user.groups : s = Group(x)) <=> matches(s, user) /\ rank(s) = 1
             /\ s = User(user.id) <=> matches(s, user) /\ rank(s) = 2
  <2>1. s.kind = "user" /\ s # Everyone /\ \A x : s # Group(x)
    BY <1>6 DEF Everyone, Group, User
  <2>2. s.id = v /\ \A x : s = User(x) <=> x = v
    BY <1>6 DEF User
  <2> QED BY <2>1, <2>2 DEF rank, matches
<1> QED BY <1>4, <1>5, <1>6 DEF Subjects

\* The levels that the rules of S have for the subjects of rank n.
LevelsFor(S, user, n) == {x.level : x \in {y \in S : y.subject \in Named(user, n)}}

\* What a foremost rule says is the least level of the first kind of subject
\* that has a rule at all.
LEMMA ForemostIsLeast ==
  ASSUME NEW S, S \subseteq Rules, NEW user \in Callers, NEW h \in S,
         matches(h.subject, user), Foremost(Hits(S, user), h)
  PROVE  \E n \in {0, 1, 2} : /\ LevelsFor(S, user, n) # {}
                              /\ Min(LevelsFor(S, user, n)) = h.level
                              /\ \A k \in {0, 1, 2} : k > n => LevelsFor(S, user, k) = {}
<1> DEFINE n == rank(h.subject)
<1>1. \A x \in S : x.subject \in Subjects /\ x.level \in Nat
  BY AclAssumption DEF Rules, Levels, Read
<1>2. \A x \in S : /\ rank(x.subject) \in {0, 1, 2}
                   /\ \A k \in {0, 1, 2} : x.subject \in Named(user, k) <=>
                                           matches(x.subject, user) /\ rank(x.subject) = k
  BY <1>1, SubjectKinds
<1>3. n \in {0, 1, 2}
  BY <1>2
<1>4. ASSUME NEW k \in {0, 1, 2}, NEW l \in LevelsFor(S, user, k)
      PROVE  \E x \in Hits(S, user) : x.level = l /\ rank(x.subject) = k /\ x \in S
  BY <1>2 DEF LevelsFor, Hits
<1>5. h.level \in LevelsFor(S, user, n)
  BY <1>2, <1>3 DEF LevelsFor
<1>6. ASSUME NEW l \in LevelsFor(S, user, n)
      PROVE  l \in Nat /\ h.level <= l
  <2>1. PICK x \in Hits(S, user) : x.level = l /\ rank(x.subject) = n /\ x \in S
    BY <1>3, <1>4
  <2>2. x.level >= h.level /\ x.level \in Nat /\ h.level \in Nat
    BY <1>1, <1>3, <2>1 DEF Foremost
  <2> QED BY <2>1, <2>2
<1>7. ASSUME NEW k \in {0, 1, 2}, k > n
      PROVE  LevelsFor(S, user, k) = {}
  <2>1. ASSUME NEW l \in LevelsFor(S, user, k)
        PROVE  FALSE
    <3>1. PICK x \in Hits(S, user) : rank(x.subject) = k
      BY <1>4
    <3>2. k < n \/ k = n
      BY <3>1 DEF Foremost
    <3> QED BY <1>3, <1>7, <3>2
  <2> QED BY <2>1
<1>8. Min(LevelsFor(S, user, n)) = h.level
  <2>1. LevelsFor(S, user, n) \subseteq Nat
    BY <1>6
  <2> QED BY <1>5, <1>6, <2>1, LeastIs
<1> HIDE DEF n
<1> QED BY <1>3, <1>5, <1>7, <1>8

\* Word, rank by rank.
LEMMA WordIs ==
  ASSUME NEW prefix, NEW user
  PROVE  /\ \A n \in {0, 1, 2} :
              /\ LevelsFor(RulesAt(rules, prefix), user, n) # {}
              /\ \A k \in {0, 1, 2} : k > n => LevelsFor(RulesAt(rules, prefix), user, k) = {}
              => Word(prefix, user) = Min(LevelsFor(RulesAt(rules, prefix), user, n))
         /\ (\A k \in {0, 1, 2} : LevelsFor(RulesAt(rules, prefix), user, k) = {}) =>
              Word(prefix, user) =
                IF \E x \in rules : x.prefix = prefix /\ ~x.inherit THEN Deny ELSE None
<1> DEFINE Of(T) == {x.level : x \in {y \in rules : y.prefix = prefix /\ y.subject \in T}}
           At(n) == LevelsFor(RulesAt(rules, prefix), user, n)
<1>1. \A n \in {0, 1, 2} : At(n) = Of(Named(user, n))
  BY DEF LevelsFor, RulesAt
<1>2. /\ At(2) = Of({User(user.id)})
      /\ At(1) = Of({Group(g) : g \in user.groups})
      /\ At(0) = Of({Everyone})
  BY <1>1 DEF Named
<1>3. Word(prefix, user) =
        CASE At(2) # {} -> Min(At(2))
          [] At(2) = {} /\ At(1) # {} -> Min(At(1))
          [] At(2) = {} /\ At(1) = {} /\ At(0) # {} -> Min(At(0))
          [] OTHER -> IF \E x \in rules : x.prefix = prefix /\ ~x.inherit THEN Deny ELSE None
  <2> HIDE DEF At
  <2> QED BY <1>2 DEF Word
<1> HIDE DEF At, Of
<1>4. CASE At(2) # {}
  BY <1>3, <1>4 DEF At
<1>5. CASE At(2) = {} /\ At(1) # {}
  BY <1>3, <1>5 DEF At
<1>6. CASE At(2) = {} /\ At(1) = {} /\ At(0) # {}
  BY <1>3, <1>6 DEF At
<1>7. CASE At(2) = {} /\ At(1) = {} /\ At(0) = {}
  BY <1>3, <1>7 DEF At
<1> QED BY <1>4, <1>5, <1>6, <1>7

\* A layer is resolved as its rules, in no order, say.
LEMMA LayerIsWord ==
  ASSUME GoodRules(rules), NEW prefix, NEW user \in Callers
  PROVE  /\ resolve_layer(layer(rules, prefix), user) = Word(prefix, user)
         /\ trace_step(rules, prefix, user).level = Word(prefix, user)
         /\ trace_step(rules, prefix, user).prefix = prefix
         /\ Word(prefix, user) \in Levels \union {None}
<1> DEFINE S == RulesAt(rules, prefix)
           q == layer(rules, prefix)
<1>1. S \subseteq Rules /\ Keyed(S) /\ q = by_id(S)
  BY DEF GoodRules, Keyed, RulesAt, layer
<1>2. \A x \in S : x.id \in 1 .. MaxRuleId /\ x.subject \in Subjects /\ x.level \in Levels
  BY <1>1, AclAssumption DEF Rules, Levels, Read
<1> HIDE DEF q, S
<1>3. q \in Seq(S) /\ \A x \in S : \E i \in 1 .. Len(q) : q[i] = x
  <2>1. MaxRuleId \in Nat /\ \A x \in S : x.id \in 1 .. MaxRuleId
    BY <1>2, AclAssumption
  <2>2. /\ by_id(S) \in Seq(S)
        /\ \A x \in S : \E i \in 1 .. Len(by_id(S)) : by_id(S)[i] = x
    BY <1>1, <2>1, Listed
  <2> QED BY <1>1, <2>2
<1>4. \A i \in 1 .. Len(q) : q[i] \in S
  BY <1>3
<1>5. {q[i] : i \in 1 .. Len(q)} = S
  BY <1>3, <1>4
<1>6. \A x \in S : rank(x.subject) \in Nat /\ x.level \in Nat
  BY <1>2, SubjectKinds DEF Levels
<1>7. None \notin S
  BY <1>1, NoneAssumption
<1>8. (\E i \in DOMAIN q : ~q[i].inherit) <=> (\E x \in rules : x.prefix = prefix /\ ~x.inherit)
  <2>1. (\E i \in DOMAIN q : ~q[i].inherit) <=> (\E x \in S : ~x.inherit)
    BY <1>3, <1>4
  <2> QED BY <2>1 DEF S, RulesAt
<1>9. \/ pick(q, user) = None /\ \A i \in 1 .. Len(q) : ~matches(q[i].subject, user)
      \/ \E i \in 1 .. Len(q) : /\ pick(q, user) = q[i] /\ matches(q[i].subject, user)
                                /\ Foremost(Hits(S, user), q[i])
  BY <1>3, <1>5, <1>6, <1>7, Picks
<1>10. CASE pick(q, user) = None /\ \A i \in 1 .. Len(q) : ~matches(q[i].subject, user)
  <2>1. \A x \in S : ~matches(x.subject, user)
    BY <1>3, <1>10
  <2>2. \A k \in {0, 1, 2} : LevelsFor(S, user, k) = {}
    BY <1>2, <2>1, SubjectKinds DEF LevelsFor
  <2>3. Word(prefix, user) =
          IF \E x \in rules : x.prefix = prefix /\ ~x.inherit THEN Deny ELSE None
    BY <2>2, WordIs DEF S
  <2>4. resolve_layer(q, user) = Word(prefix, user)
    BY <1>8, <1>10, <2>3 DEF resolve_layer
  <2>5. /\ trace_step(rules, prefix, user).level = Word(prefix, user)
        /\ trace_step(rules, prefix, user).prefix = prefix
    <3>1. q = <<>> => ~\E i \in DOMAIN q : ~q[i].inherit
      OBVIOUS
    <3> QED BY <1>8, <1>10, <2>3, <3>1 DEF trace_step, q
  <2> QED BY <2>3, <2>4, <2>5 DEF q, Levels, Deny
<1>11. ASSUME NEW i \in 1 .. Len(q), pick(q, user) = q[i], matches(q[i].subject, user),
              Foremost(Hits(S, user), q[i])
       PROVE  /\ resolve_layer(q, user) = Word(prefix, user)
              /\ trace_step(rules, prefix, user).level = Word(prefix, user)
              /\ trace_step(rules, prefix, user).prefix = prefix
              /\ Word(prefix, user) \in Levels
  <2> PICK h : h = q[i]
    OBVIOUS
  <2>1. h \in S /\ h # None /\ h.level \in Levels /\ q # <<>>
    BY <1>2, <1>3, <1>4, <1>7
  <2>2. \E n \in {0, 1, 2} : /\ LevelsFor(S, user, n) # {}
                             /\ Min(LevelsFor(S, user, n)) = h.level
                             /\ \A k \in {0, 1, 2} : k > n => LevelsFor(S, user, k) = {}
    BY <1>1, <1>11, <2>1, ForemostIsLeast
  <2>3. Word(prefix, user) = h.level
    BY <2>2, WordIs DEF S
  <2>4. resolve_layer(q, user) = h.level
    BY <1>11, <2>1 DEF resolve_layer
  <2>5. /\ trace_step(rules, prefix, user).level = h.level
        /\ trace_step(rules, prefix, user).prefix = prefix
    BY <1>11, <2>1 DEF trace_step, q
  <2> QED BY <2>1, <2>3, <2>4, <2>5
<1> QED BY <1>9, <1>10, <1>11 DEF q

-----------------------------------------------------------------------------
(* The walks.                                                               *)

LEMMA LeastOf ==
  ASSUME NEW S, S \subseteq Nat, S # {}
  PROVE  Min(S) \in S /\ \A k \in S : Min(S) <= k
BY Least DEF Min

\* The directories of a path from below are those from above.
LEMMA PrefixAt ==
  ASSUME NEW path \in Seq(STRING), NEW i \in 1 .. Len(path) + 1
  PROVE  /\ Len(path) + 1 - i \in 0 .. Len(path)
         /\ prefixes_for_path(path)[i] = SubSeq(path, 1, Len(path) + 1 - i)
<1>1. PICK n \in Nat : n = Len(path)
  OBVIOUS
<1>2. i \in 1 .. n + 1 /\ n + 1 - i \in 0 .. n
  BY <1>1
<1> QED BY <1>1, <1>2 DEF prefixes_for_path

\* The nearest directory with an answer, found upwards, is where the walk down
\* last began anew.
LEMMA UpIsDown ==
  ASSUME GoodRules(rules), NEW path \in Seq(STRING), NEW user \in Callers
  PROVE  effective_level(rules, path, user) = LevelFromRoot(path, user)
<1> DEFINE L == Len(path)
           W(n) == Word(SubSeq(path, 1, n), user)
           R(i) == W(L + 1 - i)
           D(n) == {i \in 1 .. L + 1 : R(i) # None /\ i >= L + 1 - n}
           F == [n \in 0 .. L |-> IF D(n) = {} THEN Deny ELSE R(Min(D(n)))]
           Down(n, f) == IF W(n) # None THEN W(n) ELSE IF n = 0 THEN Deny ELSE f[n - 1]
           level == CHOOSE f : f = [n \in 0 .. L |-> Down(n, f)]
<1>1. CASE user.is_admin
  BY <1>1 DEF effective_level, LevelFromRoot
<1>2. L \in Nat
  OBVIOUS
<1>3. ASSUME ~user.is_admin
      PROVE  effective_level(rules, path, user) = F[L]
  <2> DEFINE layers == [i \in 1 .. L + 1 |->
                          resolve_layer(layer(rules, prefixes_for_path(path)[i]), user)]
  <2>1. \A i \in 1 .. L + 1 : layers[i] = R(i)
    BY PrefixAt, LayerIsWord
  <2>2. \A i \in 1 .. L + 1 : i >= L + 1 - L
    BY <1>2
  <2>3. DOMAIN layers = 1 .. L + 1
    OBVIOUS
  <2>4. effective_level(rules, path, user) = first_answer(layers)
    BY <1>3 DEF effective_level
  <2> HIDE DEF layers, R, L
  <2>5. {i \in DOMAIN layers : layers[i] # None} = D(L)
    BY <2>1, <2>2, <2>3
  <2>6. D(L) # {} => layers[Min(D(L))] = R(Min(D(L)))
    <3>1. D(L) \subseteq Nat /\ D(L) \subseteq 1 .. L + 1
      BY <1>2
    <3> HIDE DEF D
    <3> QED BY <2>1, <3>1, LeastOf
  <2> HIDE DEF D
  <2>7. first_answer(layers) = F[L]
    <3>1. L \in 0 .. L
      BY <1>2
    <3>2. F[L] = IF D(L) = {} THEN Deny ELSE R(Min(D(L)))
      BY <3>1
    <3>3. first_answer(layers) = IF D(L) = {} THEN Deny ELSE layers[Min(D(L))]
      <4> HIDE DEF F
      <4> QED BY <2>5 DEF first_answer
    <3> HIDE DEF F
    <3> QED BY <2>6, <3>2, <3>3
  <2> QED BY <2>4, <2>7
<1>4. ASSUME NEW n \in 0 .. L
      PROVE  F[n] = Down(n, F)
  <2>1. n \in Nat /\ L + 1 - n \in 1 .. L + 1 /\ D(n) \subseteq Nat
    BY <1>2
  <2>2. R(L + 1 - n) = W(n)
    <3>1. L + 1 - (L + 1 - n) = n
      BY <1>2, <2>1
    <3> HIDE DEF W, L
    <3> QED BY <3>1
  <2> HIDE DEF R, W, L
  <2>3. CASE W(n) # None
    <3>1. L + 1 - n \in D(n) /\ \A k \in D(n) : L + 1 - n <= k
      BY <2>1, <2>2, <2>3
    <3>2. Min(D(n)) = L + 1 - n
      <4> HIDE DEF D
      <4> QED BY <2>1, <3>1, LeastIs
    <3> HIDE DEF D
    <3> QED BY <2>2, <2>3, <3>1, <3>2
  <2>4. CASE W(n) = None /\ n = 0
    <3>1. D(n) = {}
      BY <1>2, <2>1, <2>2, <2>4
    <3> HIDE DEF D
    <3> QED BY <2>4, <3>1
  <2>5. CASE W(n) = None /\ n # 0
    <3>1. n - 1 \in 0 .. L /\ \A i \in 1 .. L + 1 :
            i >= L + 1 - n <=> i >= L + 1 - (n - 1) \/ i = L + 1 - n
      BY <1>2, <2>1, <2>5
    <3>2. D(n) = D(n - 1)
      BY <2>2, <2>5, <3>1
    <3> HIDE DEF D
    <3> QED BY <2>5, <3>1, <3>2
  <2> QED BY <2>3, <2>4, <2>5
<1>5. level = [n \in 0 .. L |-> Down(n, level)]
  <2>1. F = [n \in 0 .. L |-> Down(n, F)]
    <3> HIDE DEF Down, D, R
    <3> QED BY <1>4
  <2> HIDE DEF F, Down, L
  <2> QED BY <2>1
<1>6. L \in {n \in 0 .. L : level[n] = F[n]}
  <2> DEFINE E == {n \in 0 .. L : level[n] = F[n]}
  <2> HIDE DEF level, W, F, L
  <2>1. 0 \in E
    BY <1>2, <1>4, <1>5
  <2>2. ASSUME NEW n \in 0 .. L, n < L, n \in E
        PROVE  n + 1 \in E
    <3>1. n + 1 \in 0 .. L /\ n + 1 # 0 /\ (n + 1) - 1 = n
      BY <1>2, <2>2
    <3>2. level[n + 1] = Down(n + 1, level) /\ F[n + 1] = Down(n + 1, F)
      BY <1>4, <1>5, <3>1
    <3> QED BY <2>2, <3>1, <3>2
  <2>3. 0 .. L \subseteq E
    <3> HIDE DEF E
    <3> QED BY <1>2, <2>1, <2>2, UpTo
  <2> QED BY <1>2, <2>3
<1>7. ~user.is_admin => LevelFromRoot(path, user) = level[L]
  BY DEF LevelFromRoot
<1> HIDE DEF level, F, L
<1> QED BY <1>1, <1>3, <1>6, <1>7

\* The level that requests are decided by is what the rules mean, read from
\* the root down: for every set of rules, every path and every member of groups.
THEOREM Nearest == Spec => []LevelIsNearest
<1>1. IInv => LevelIsNearest
  <2> SUFFICES ASSUME IInv, NEW p \in Asked, NEW user \in Callers
               PROVE  effective_level(rules, p, user) = LevelFromRoot(p, user)
    BY DEF LevelIsNearest
  <2>1. p \in Seq(STRING)
    BY AclAssumption DEF Asked
  <2> QED BY <2>1, UpIsDown DEF IInv
<1> QED BY <1>1, Invariant, PTL

\* The preview's walk: as far as the first layer that decides, or all the way.
LEMMA Walked ==
  ASSUME GoodRules(rules), NEW path \in Seq(STRING), NEW user \in Callers, ~user.is_admin
  PROVE  LET t == trace(rules, path, user)
             Lay(i) == trace_step(rules, prefixes_for_path(path)[i], user)
             D == {i \in 1 .. Len(path) + 1 : Lay(i).level # None}
             k == IF D = {} THEN Len(path) + 1 ELSE Min(D)
         IN t = [level |-> IF D = {} THEN Deny ELSE Lay(k).level,
                 steps |-> [i \in 1 .. k |-> Lay(i)]]
<1> DEFINE P == prefixes_for_path(path)
           N == Len(P)
           Lay(i) == trace_step(rules, P[i], user)
           D(n) == {i \in 1 .. n : Lay(i).level # None}
           Stop(n) == IF D(n) = {} THEN n ELSE Min(D(n))
           To(k) == [i \in 1 .. k |-> Lay(i)]
           F == [n \in 0 .. N |-> To(Stop(n))]
           Step(n, f) == IF n = 0 THEN <<>> ELSE IF Decided(f[n - 1]) THEN f[n - 1]
                         ELSE Append(f[n - 1], Lay(n))
           walk == CHOOSE f : f = [n \in 0 .. N |-> Step(n, f)]
<1>1. N \in Nat /\ N = Len(path) + 1
  <2>1. PICK m \in Nat : m = Len(path)
    OBVIOUS
  <2>2. P = [i \in 1 .. m + 1 |-> SubSeq(path, 1, m + 1 - i)]
    BY <2>1 DEF prefixes_for_path
  <2> HIDE DEF P
  <2> QED BY <2>1, <2>2
<1> HIDE DEF P, N
<1>2. ASSUME NEW k \in Nat
      PROVE  Len(To(k)) = k /\ To(k) \in Seq({Lay(i) : i \in 1 .. k})
  <2> DEFINE Ls == {Lay(i) : i \in 1 .. k}
  <2>1. To(k) \in [1 .. k -> Ls]
    <3> HIDE DEF Lay
    <3> QED OBVIOUS
  <2> HIDE DEF To, Ls
  <2>2. To(k) \in Seq(Ls) /\ Len(To(k)) = k
    BY <2>1
  <2> QED BY <2>2 DEF Ls
<1>3. ASSUME NEW k \in Nat
      PROVE  Append(To(k), Lay(k + 1)) = To(k + 1)
  <2> HIDE DEF Lay
  <2> QED BY <1>2
<1>4. ASSUME NEW n \in 0 .. N
      PROVE  /\ Stop(n) \in 0 .. n
             /\ D(n) # {} => Stop(n) \in D(n) /\ \A i \in D(n) : Stop(n) <= i
             /\ F[n] = To(Stop(n))
             /\ Decided(F[n]) <=> D(n) # {}
  <2>1. D(n) \subseteq Nat /\ D(n) \subseteq 1 .. n /\ n \in Nat
    BY <1>1
  <2>2. /\ Stop(n) \in 0 .. n
        /\ D(n) # {} => Stop(n) \in D(n) /\ \A i \in D(n) : Stop(n) <= i
    <3> HIDE DEF D
    <3> QED BY <2>1, LeastOf
  <2>3. F[n] = To(Stop(n))
    <3> HIDE DEF To, Stop
    <3> QED OBVIOUS
  <2> PICK k : k = Stop(n)
    OBVIOUS
  <2>4. k \in Nat /\ Len(To(k)) = k /\ (k = 0 => To(k) = <<>>) /\ (k # 0 => To(k) # <<>>)
    <3> HIDE DEF Stop, Lay
    <3> QED BY <1>2, <2>2
  <2>5. k # 0 => To(k)[Len(To(k))] = Lay(k)
    <3> HIDE DEF Stop, Lay
    <3> QED BY <2>4
  <2>6. k # 0 => (Lay(k).level # None <=> D(n) # {})
    <3>1. k # 0 => k \in 1 .. n
      <4> HIDE DEF Stop
      <4> QED BY <2>1, <2>2
    <3> HIDE DEF Stop, Lay
    <3> QED BY <2>2, <3>1
  <2>7. k = 0 => D(n) = {}
    <3> HIDE DEF Stop, D
    <3> QED BY <2>1, <2>2
  <2> HIDE DEF Stop, Lay, D, To
  <2>8. Decided(To(k)) <=> D(n) # {}
    BY <2>4, <2>5, <2>6, <2>7 DEF Decided
  <2> HIDE DEF F
  <2> QED BY <2>2, <2>3, <2>8
<1>5. ASSUME NEW n \in 0 .. N
      PROVE  F[n] = Step(n, F)
  <2>1. CASE n = 0
    <3>1. Stop(n) = 0
      BY <1>4, <2>1
    <3>2. F[n] = To(0)
      <4> HIDE DEF Stop, To
      <4> QED BY <1>4, <3>1
    <3>3. To(0) = <<>>
      OBVIOUS
    <3> HIDE DEF F
    <3> QED BY <2>1, <3>2, <3>3
  <2>2. CASE n # 0
    <3> PICK m : m = n - 1
      OBVIOUS
    <3>1. /\ m \in 0 .. N /\ m \in Nat /\ n = m + 1 /\ n \in Nat
          /\ \A i : i \in 1 .. n <=> i \in 1 .. m \/ i = n
      BY <1>1, <2>2
    <3>2. Step(n, F) = IF Decided(F[m]) THEN F[m] ELSE Append(F[m], Lay(n))
      <4> HIDE DEF F, Lay
      <4> QED BY <2>2
    <3>3. CASE D(m) # {}
      <4> PICK s, t : s = Stop(m) /\ t = Stop(n)
        OBVIOUS
      <4>1. s \in D(m) /\ \A i \in D(m) : s <= i
        <5> HIDE DEF Stop, D
        <5> QED BY <1>4, <3>1, <3>3
      <4>2. D(n) \subseteq D(m) \union {n} /\ D(m) \subseteq D(n)
        <5> HIDE DEF Lay
        <5> QED BY <3>1
      <4>3. s \in 1 .. m /\ D(n) # {}
        <5> HIDE DEF Lay
        <5> QED BY <4>1, <4>2
      <4>4. t \in D(n) /\ \A i \in D(n) : t <= i
        <5> HIDE DEF Stop, D
        <5> QED BY <1>4, <4>3
      <4>5. t <= s /\ t \in 1 .. n /\ t # n
        <5>1. t <= s /\ t \in 1 .. n
          <6> HIDE DEF Lay, Stop
          <6> QED BY <4>1, <4>2, <4>4
        <5> HIDE DEF D, Stop
        <5> QED BY <3>1, <4>3, <5>1
      <4>6. t \in D(m)
        <5> HIDE DEF D, Stop
        <5> QED BY <4>2, <4>4, <4>5
      <4>7. s = t
        <5>1. s <= t
          BY <4>1, <4>6
        <5> HIDE DEF D, Stop
        <5> QED BY <3>1, <4>3, <4>5, <5>1
      <4> HIDE DEF Stop, D, To, F, Step, Lay
      <4> QED BY <1>4, <3>1, <3>2, <3>3, <4>7
    <3>4. CASE D(m) = {}
      <4>1. F[m] = To(m) /\ ~Decided(F[m])
        <5>1. Stop(m) = m
          BY <3>4
        <5> HIDE DEF Stop, D, To, F, Lay
        <5> QED BY <1>4, <3>1, <3>4, <5>1
      <4>2. Stop(n) = n
        <5>1. D(n) \subseteq {n}
          <6> HIDE DEF Lay
          <6> QED BY <3>1, <3>4
        <5> HIDE DEF Stop, D
        <5> QED BY <1>4, <5>1 DEF Stop
      <4>3. F[n] = To(n)
        <5> HIDE DEF Stop, D, To, F, Lay
        <5> QED BY <1>4, <4>2
      <4>4. Append(To(m), Lay(n)) = To(n)
        <5> HIDE DEF To, Lay
        <5> QED BY <1>3, <3>1
      <4> HIDE DEF Stop, D, To, F, Step, Lay
      <4> QED BY <3>2, <4>1, <4>3, <4>4
    <3> HIDE DEF D, F, Step
    <3> QED BY <3>3, <3>4
  <2> HIDE DEF F, Step
  <2> QED BY <2>1, <2>2
<1>6. walk = [n \in 0 .. N |-> Step(n, walk)]
  <2>1. F = [n \in 0 .. N |-> Step(n, F)]
    <3> HIDE DEF Step, To, Stop
    <3> QED BY <1>5
  <2> HIDE DEF F, Step
  <2> QED BY <2>1
<1>7. walk[N] = F[N]
  <2> DEFINE E == {n \in 0 .. N : walk[n] = F[n]}
  <2> HIDE DEF walk, F, Lay
  <2>1. 0 \in E
    BY <1>1, <1>5, <1>6
  <2>2. ASSUME NEW n \in 0 .. N, n < N, n \in E
        PROVE  n + 1 \in E
    <3>1. n + 1 \in 0 .. N /\ n + 1 # 0 /\ (n + 1) - 1 = n
      BY <1>1, <2>2
    <3>2. walk[n + 1] = Step(n + 1, walk) /\ F[n + 1] = Step(n + 1, F)
      BY <1>5, <1>6, <3>1
    <3> QED BY <2>2, <3>1, <3>2
  <2>3. 0 .. N \subseteq E
    <3> HIDE DEF E
    <3> QED BY <1>1, <2>1, <2>2, UpTo
  <2> QED BY <1>1, <2>3
<1>8. trace(rules, path, user) =
        [level |-> IF Decided(walk[N]) THEN walk[N][Len(walk[N])].level ELSE Deny,
         steps |-> walk[N]]
  BY DEF trace, N, P
<1>9. /\ F[N] = To(Stop(N))
      /\ Decided(F[N]) <=> D(N) # {}
      /\ D(N) # {} => Stop(N) \in D(N)
  <2>1. N \in 0 .. N
    BY <1>1
  <2> HIDE DEF F, To, Stop, D
  <2> QED BY <1>4, <2>1
<1>10. Stop(N) \in Nat /\ Len(To(Stop(N))) = Stop(N)
  <2>1. Stop(N) \in 0 .. N
    <3>1. N \in 0 .. N
      BY <1>1
    <3> HIDE DEF F, To, Stop, D
    <3> QED BY <1>4, <3>1
  <2>2. Stop(N) \in Nat
    <3> HIDE DEF Stop
    <3> QED BY <1>1, <2>1
  <2> HIDE DEF Stop, To
  <2> QED BY <1>2, <2>2
<1>11. D(N) # {} => To(Stop(N))[Stop(N)] = Lay(Stop(N))
  <2>1. D(N) # {} => Stop(N) \in 1 .. Stop(N)
    <3> HIDE DEF Stop, Lay
    <3> QED BY <1>9, <1>10
  <2> HIDE DEF Stop, Lay, D
  <2> QED BY <2>1
<1>12. trace(rules, path, user) =
         [level |-> IF D(N) = {} THEN Deny ELSE Lay(Stop(N)).level, steps |-> To(Stop(N))]
  <2> HIDE DEF walk, F, To, Stop, Lay, D
  <2> QED BY <1>7, <1>8, <1>9, <1>10, <1>11
<1>13. trace(rules, path, user) =
         [level |-> IF D(Len(path) + 1) = {} THEN Deny ELSE Lay(Stop(Len(path) + 1)).level,
          steps |-> To(Stop(Len(path) + 1))]
  <2> HIDE DEF To, Stop, Lay, D
  <2> QED BY <1>1, <1>12
<1> QED BY <1>13 DEF P

LEMMA PreviewIsRight ==
  ASSUME GoodRules(rules), NEW p \in Seq(STRING), NEW user \in Callers
  PROVE  /\ trace(rules, p, user).level = effective_level(rules, p, user)
         /\ \A i \in DOMAIN trace(rules, p, user).steps :
              /\ trace(rules, p, user).steps[i].level # None => i = Len(trace(rules, p, user).steps)
              /\ trace(rules, p, user).steps[i].prefix = SubSeq(p, 1, Len(p) + 1 - i)
<1>1. CASE user.is_admin
  BY <1>1 DEF trace, effective_level
<1>2. CASE ~user.is_admin
  <2> DEFINE N == Len(p) + 1
             Lay(i) == trace_step(rules, prefixes_for_path(p)[i], user)
             Res(i) == resolve_layer(layer(rules, prefixes_for_path(p)[i]), user)
             layers == [i \in 1 .. N |-> Res(i)]
             D == {i \in 1 .. N : Lay(i).level # None}
             k == IF D = {} THEN N ELSE Min(D)
             t == trace(rules, p, user)
  <2>1. t = [level |-> IF D = {} THEN Deny ELSE Lay(k).level, steps |-> [i \in 1 .. k |-> Lay(i)]]
    BY <1>2, Walked
  <2>2. N \in Nat /\ D \subseteq Nat /\ D \subseteq 1 .. N
    OBVIOUS
  <2>3. /\ k \in Nat /\ k \in 0 .. N
        /\ D # {} => k = Min(D) /\ k \in D /\ \A i \in D : k <= i
    <3> HIDE DEF D, N
    <3>1. CASE D = {}
      BY <2>2, <3>1
    <3>2. CASE D # {}
      <4>1. Min(D) \in D /\ \A i \in D : Min(D) <= i
        BY <2>2, <3>2, LeastOf
      <4>2. k = Min(D) /\ Min(D) \in 1 .. N
        BY <2>2, <3>2, <4>1
      <4> HIDE DEF k
      <4> QED BY <2>2, <4>1, <4>2
    <3> QED BY <3>1, <3>2
  <2>4. \A i \in 1 .. N : Lay(i).level = Res(i) /\ Lay(i).prefix = SubSeq(p, 1, N - i)
    BY LayerIsWord, PrefixAt
  <2>5. \A i \in 1 .. N : layers[i] = Lay(i).level
    <3> HIDE DEF Lay, Res, N
    <3> QED BY <2>4
  <2>6. effective_level(rules, p, user) = first_answer(layers)
    BY <1>2 DEF effective_level
  <2>7. {i \in DOMAIN layers : layers[i] # None} = D
    <3>1. DOMAIN layers = 1 .. N
      OBVIOUS
    <3> HIDE DEF layers, Lay, Res, N
    <3> QED BY <2>5, <3>1
  <2>8. first_answer(layers) = IF D = {} THEN Deny ELSE layers[Min(D)]
    <3> HIDE DEF layers, D
    <3> QED BY <2>7 DEF first_answer
  <2>9. t.level = effective_level(rules, p, user)
    <3>1. t.level = IF D = {} THEN Deny ELSE Lay(k).level
      <4> HIDE DEF t, D, k, Lay
      <4> QED BY <2>1
    <3>2. D # {} => layers[k] = Lay(k).level
      <4> HIDE DEF layers, D, k, Lay, N
      <4> QED BY <2>2, <2>3, <2>5
    <3> HIDE DEF t, D, k, Lay, layers
    <3> QED BY <2>3, <2>6, <2>8, <3>1, <3>2
  <2>10. t.steps = [i \in 1 .. k |-> Lay(i)]
    <3> HIDE DEF t, D, k, Lay
    <3> QED BY <2>1
  <2>11. DOMAIN t.steps = 1 .. k /\ Len(t.steps) = k
    <3> HIDE DEF t, D, k, Lay
    <3> QED BY <2>3, <2>10
  <2>12. ASSUME NEW i \in 1 .. k
         PROVE  /\ t.steps[i].level # None => i = k
                /\ t.steps[i].prefix = SubSeq(p, 1, N - i)
    <3>1. i \in 1 .. N /\ t.steps[i] = Lay(i)
      <4> HIDE DEF t, D, k, Lay, N
      <4> QED BY <2>2, <2>3, <2>10
    <3>2. Lay(i).level # None => i \in D
      <4> HIDE DEF Lay
      <4> QED BY <3>1
    <3>3. i \in D => i = k
      <4> HIDE DEF D, k
      <4> QED BY <2>3
    <3> HIDE DEF t, D, k, Lay, N
    <3> QED BY <2>4, <3>1, <3>2, <3>3
  <2> HIDE DEF t, k
  <2>13. \A i \in DOMAIN t.steps :
           /\ t.steps[i].level # None => i = Len(t.steps)
           /\ t.steps[i].prefix = SubSeq(p, 1, Len(p) + 1 - i)
    <3>1. ASSUME NEW i \in DOMAIN t.steps
          PROVE  /\ t.steps[i].level # None => i = Len(t.steps)
                 /\ t.steps[i].prefix = SubSeq(p, 1, Len(p) + 1 - i)
      <4>1. i \in 1 .. k /\ Len(t.steps) = k
        BY <2>11
      <4>2. /\ t.steps[i].level # None => i = k
            /\ t.steps[i].prefix = SubSeq(p, 1, N - i)
        BY <2>12, <4>1
      <4> QED BY <4>1, <4>2
    <3> QED BY <3>1
  <2> QED BY <2>9, <2>13 DEF t
<1> QED BY <1>1, <1>2

\* The preview, which walks by itself, shows the level that is enforced, and
\* why: its steps are the directories from the path up to the one that decides.
THEOREM PreviewAgrees == Spec => []TraceAgrees
<1>1. IInv => TraceAgrees
  <2> SUFFICES ASSUME IInv, NEW p \in Asked, NEW user \in Callers
               PROVE  LET t == trace(rules, p, user)
                      IN /\ t.level = effective_level(rules, p, user)
                         /\ \A i \in DOMAIN t.steps :
                              t.steps[i].level # None => i = Len(t.steps)
                         /\ \A i \in DOMAIN t.steps :
                              t.steps[i].prefix = SubSeq(p, 1, Len(p) + 1 - i)
    BY DEF TraceAgrees
  <2>1. p \in Seq(STRING) /\ GoodRules(rules)
    BY AclAssumption DEF Asked, IInv
  <2> QED BY <2>1, PreviewIsRight
<1> QED BY <1>1, Invariant, PTL
=============================================================================
