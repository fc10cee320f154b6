--------------------------- MODULE AccountsProofs ---------------------------
(* Theorems about Accounts, for every number of names, persons, requests,   *)
(* sessions and changes of the directory.                                   *)
EXTENDS Accounts, FiniteSetTheorems, WellFoundedInduction, TLAPS

-----------------------------------------------------------------------------
(* The inductive invariant.                                                 *)

UserRecords ==
  [id : 1 .. MaxUserId, name : Names, source : {"local", "ldap"},
   external_id : Persons \union {None}, is_admin : BOOLEAN, disabled : BOOLEAN]
SessionRecords ==
  [token : Tokens, user : 1 .. MaxUserId, proof : Proofs, delivered : BOOLEAN]
Local ==
  [name : Names \union {None}, proof : Proofs \union {None}, id : 0 .. MaxUserId,
   token : 0 .. MaxTokens]

IdsOf(table) == {u.id : u \in table}
\* The constraints of `users'.
GoodTable(table) ==
  /\ table \subseteq UserRecords
  /\ \A u \in table : u.source = "local" <=> u.external_id = None
  /\ \A u, v \in table : u # v =>
       /\ u.id # v.id /\ u.name # v.name
       /\ u.external_id = v.external_id => u.external_id = None
\* The constraints of `sessions', and that no token is generated twice.
GoodSessions ==
  /\ sessions \subseteq SessionRecords
  /\ \A s \in sessions : s.user \in Ids /\ s.token <= issued
  /\ \A s, t \in sessions : s.token = t.token => s = t

InLogin == {"verify", "fail", "success", "provision", "grant", "issue"}
HasProof == {"success", "provision", "grant", "issue"}
\* What a request knows when it is at a step.
Fits(to, loc) ==
  /\ to \in InLogin => loc.name \in Names
  /\ to \in HasProof => loc.proof \in Proofs
  /\ to = "provision" => loc.proof.source = "ldap"
RequestTypes ==
  /\ pc \in [Requests -> Steps] /\ rq \in [Requests -> Local]
  /\ \A r \in Requests : Fits(pc[r], rq[r])
Counters ==
  /\ limiter \in [Names -> [fails : 0 .. max_fails - 1, locked : BOOLEAN]]
  /\ directory \in [Names -> Persons \union {None}]
  /\ issued \in 0 .. MaxTokens /\ moves \in 0 .. MaxMoves
  /\ guesses \in [Names -> Nat] /\ ended \subseteq 1 .. issued /\ crossed \in BOOLEAN
Types == GoodTable(users) /\ GoodSessions /\ RequestTypes /\ Counters

\* A revoked token is in no row, and will not be generated again.
Revoked == \A s \in sessions : s.token \notin ended
IInv == Types /\ Revoked

At(step, n) == {r \in Requests : pc[r] = step /\ rq[r].name = n}
\* A wrong password is counted by the limiter or by a request on its way to
\* it; while the lock holds, only logins that had passed the check go on.
Guarded(n) ==
  IF limiter[n].locked
  THEN guesses[n] + Cardinality(At("verify", n)) <= max_fails - 1 + Cardinality(Requests)
  ELSE guesses[n] <= limiter[n].fails + Cardinality(At("fail", n))
Limited == \A n \in Names : Guarded(n)

\* Every proof that a session or a login has is its account's, or lost it.
HeldOwned == \A h \in Held : Owned(users, h[1], h[2]) \/ h \in displaced

-----------------------------------------------------------------------------
(* The tables.                                                              *)

\* Every non-empty set of natural numbers has a least element.
LEMMA Least ==
  ASSUME NEW S, S \subseteq Nat, S # {}
  PROVE  \E n \in S : \A m \in S : n <= m
<1>1. PICK less : less = OpToRel(<, Nat)
  OBVIOUS
<1>2. \A m, n \in Nat : m < n => <<m, n>> \in less
  BY <1>1 DEF OpToRel
<1>3. PICK n \in S : \A m \in S : ~(<<m, n>> \in less)
  BY <1>1, NatLessThanWellFounded, WFMin
<1>4. \A m \in S : ~(m < n)
  BY <1>2, <1>3
<1> QED BY <1>4

\* A bounded one has a greatest element.
LEMMA MaxBounds ==
  ASSUME NEW b \in Nat, NEW S, S \subseteq 0 .. b, S # {}
  PROVE  Max(S) \in S /\ \A n \in S : n <= Max(S)
<1> DEFINE T == {b - n : n \in S}
<1>1. T \subseteq Nat /\ T # {}
  <2>1. \A n \in S : n \in 0 .. b /\ b - n \in Nat
    OBVIOUS
  <2> QED BY <2>1
<1>2. PICK t \in T : \A k \in T : t <= k
  BY <1>1, Least
<1>3. PICK x \in S : t = b - x
  OBVIOUS
<1>4. \A y \in S : x >= y
  <2> TAKE y \in S
  <2>1. b - y \in T
    OBVIOUS
  <2>2. b - x <= b - y
    BY <1>2, <1>3, <2>1
  <2> QED BY <2>2
<1>5. Max(S) \in S /\ \A y \in S : Max(S) >= y
  BY <1>4 DEF Max
<1> QED BY <1>5

LEMMA FreshIsNew ==
  ASSUME GoodTable(users)
  PROVE  Fresh \in Nat \ {0} /\ \A u \in users : u.id # Fresh
<1>1. CASE users = {}
  BY <1>1 DEF Fresh
<1>2. CASE users # {}
  <2>5. MaxUserId \in Nat /\ \A u \in users : u.id \in 1 .. MaxUserId
    BY AccountsAssumption DEF GoodTable, UserRecords
  <2>1. Ids \subseteq 0 .. MaxUserId /\ Ids # {} /\ \A i \in Ids : i \in Nat
    BY <1>2, <2>5 DEF Ids
  <2>2. Max(Ids) \in Ids /\ \A n \in Ids : n <= Max(Ids)
    BY <2>1, <2>5, MaxBounds
  <2>3. Max(Ids) \in Nat
    BY <2>1, <2>2
  <2>0. Fresh = Max(Ids) + 1
    BY <1>2 DEF Fresh
  <2>4. \A u \in users : u.id \in Ids
    BY DEF Ids
  <2> QED BY <2>0, <2>2, <2>3, <2>4
<1> QED BY <1>1, <1>2

\* INSERT of an account with a name and a person that no other has.
LEMMA InsertTable ==
  ASSUME GoodTable(users), NEW name \in Names, NEW person \in Persons \union {None},
         NEW source \in {"local", "ldap"}, source = "local" <=> person = None,
         NEW admin \in BOOLEAN, Fresh <= MaxUserId,
         \A u \in users : u.name # name,
         \A u \in users : u.external_id = person => person = None
  PROVE  GoodTable(users \union {NewUser(name, source, person, admin)})
<1> DEFINE new == NewUser(name, source, person, admin)
<1>1. /\ new.id = Fresh /\ new.name = name /\ new.external_id = person
      /\ new.source = source
  BY DEF NewUser
<1>2. new \in UserRecords
  <2>1. Fresh \in 1 .. MaxUserId
    BY FreshIsNew, AccountsAssumption
  <2> QED BY <2>1 DEF NewUser, UserRecords
<1> HIDE DEF new
<1>3. users \union {new} \subseteq UserRecords
  BY <1>2 DEF GoodTable
<1>4. \A u \in users \union {new} : u.source = "local" <=> u.external_id = None
  BY <1>1 DEF GoodTable
<1>5. \A u \in users : /\ u.id # new.id /\ u.name # new.name
                       /\ u.external_id = new.external_id => u.external_id = None
  BY <1>1, FreshIsNew
<1>6. \A u, v \in users : u # v =>
       /\ u.id # v.id /\ u.name # v.name
       /\ u.external_id = v.external_id => u.external_id = None
  BY DEF GoodTable
<1>7. \A u, v \in users \union {new} : u # v =>
       /\ u.id # v.id /\ u.name # v.name
       /\ u.external_id = v.external_id => u.external_id = None
  BY <1>5, <1>6
<1>8. GoodTable(users \union {new})
  BY <1>3, <1>4, <1>7 DEF GoodTable
<1> QED BY <1>8 DEF new

\* UPDATE of one row: id, name and source stay.
LEMMA UpdateTable ==
  ASSUME GoodTable(users), NEW u \in users, NEW new \in UserRecords,
         new.id = u.id, new.name = u.name, new.source = u.source,
         new.source = "local" <=> new.external_id = None,
         \A v \in users \ {u} : v.external_id = new.external_id => new.external_id = None
  PROVE  GoodTable((users \ {u}) \union {new}) /\ IdsOf((users \ {u}) \union {new}) = Ids
BY DEF GoodTable, IdsOf, Ids

LEMMA GrantedTable ==
  ASSUME NEW table, GoodTable(table), NEW id
  PROVE  GoodTable(granted(table, id)) /\ IdsOf(granted(table, id)) = IdsOf(table)
<1> DEFINE new(u) == IF u.id = id THEN [u EXCEPT !.is_admin = TRUE] ELSE u
<1>1. CASE granted(table, id) = table
  BY <1>1
<1>2. CASE granted(table, id) = {new(u) : u \in table}
  <2>1. \A u \in table :
          /\ new(u) \in UserRecords
          /\ new(u).id = u.id /\ new(u).name = u.name /\ new(u).source = u.source
          /\ new(u).external_id = u.external_id
    BY DEF GoodTable, UserRecords
  <2> HIDE DEF new
  <2>2. GoodTable({new(u) : u \in table})
    BY <2>1 DEF GoodTable
  <2>3. IdsOf({new(u) : u \in table}) = IdsOf(table)
    BY <2>1 DEF IdsOf
  <2> QED BY <1>2, <2>2, <2>3
<1> QED BY <1>1, <1>2 DEF granted

\* provision, when no local account has the name.
LEMMA ProvisionedTable ==
  ASSUME GoodTable(users), NEW name \in Names, NEW person \in Persons,
         ~ \E u \in users : u.source = "local" /\ u.name = name,
         Provisioned(name, person).id <= MaxUserId
  PROVE  /\ GoodTable(Provisioned(name, person).table)
         /\ Provisioned(name, person).id \in IdsOf(Provisioned(name, person).table)
         /\ Ids \subseteq IdsOf(Provisioned(name, person).table)
<1> DEFINE bound == {u \in users : u.source = "ldap" /\ u.external_id = person}
<1> DEFINE named == {u \in users : u.source = "ldap" /\ u.name = name}
<1>0. person # None /\ \A u \in users : u.source \in {"local", "ldap"}
  BY AccountsAssumption DEF GoodTable, UserRecords
<1>1. CASE bound # {}
  <2> DEFINE u == CHOOSE u \in bound : TRUE
  <2>2. u \in users
    BY <1>1
  <2> HIDE DEF u
  <2>1. Provisioned(name, person) = [table |-> users, id |-> u.id]
    BY <1>1 DEF Provisioned, u
  <2>3. Provisioned(name, person).table = users /\ Provisioned(name, person).id = u.id
    BY <2>1
  <2> QED BY <2>2, <2>3 DEF IdsOf, Ids
<1>2. CASE bound = {} /\ named # {}
  <2> DEFINE u == CHOOSE u \in named : TRUE
  <2> DEFINE new == [u EXCEPT !.external_id = person]
  <2>1. u \in users /\ u.source = "ldap" /\ u.name = name
    BY <1>2
  <2> HIDE DEF u
  <2>2. Provisioned(name, person) = [table |-> (users \ {u}) \union {new}, id |-> u.id]
    BY <1>2 DEF Provisioned, u
  <2>3. /\ new \in UserRecords /\ new.id = u.id /\ new.name = u.name
        /\ new.source = u.source /\ new.external_id = person
    BY <2>1 DEF GoodTable, UserRecords
  <2>4. \A v \in users \ {u} : v.external_id # person
    BY <1>0, <1>2 DEF GoodTable
  <2>5. GoodTable((users \ {u}) \union {new}) /\ IdsOf((users \ {u}) \union {new}) = Ids
    <3> HIDE DEF new
    <3> QED BY <1>0, <2>1, <2>3, <2>4, UpdateTable
  <2>6. u.id \in Ids
    BY <2>1 DEF Ids
  <2>7. /\ Provisioned(name, person).table = (users \ {u}) \union {new}
        /\ Provisioned(name, person).id = u.id
    BY <2>2
  <2> HIDE DEF new
  <2> QED BY <2>5, <2>6, <2>7
<1>3. CASE bound = {} /\ named = {}
  <2> DEFINE new == NewUser(name, "ldap", person, FALSE)
  <2>1. Provisioned(name, person) = [table |-> users \union {new}, id |-> Fresh]
    BY <1>3 DEF Provisioned
  <2>2. \A u \in users : u.name # name /\ u.external_id # person
    BY <1>0, <1>3 DEF GoodTable
  <2>3. GoodTable(users \union {new})
    <3>1. Fresh <= MaxUserId /\ "ldap" \in {"local", "ldap"} /\ FALSE \in BOOLEAN
          /\ ("ldap" = "local" <=> person = None) /\ person \in Persons \union {None}
      BY <1>0, <2>1
    <3> QED BY <2>2, <3>1, InsertTable
  <2>4. new.id = Fresh
    BY DEF NewUser
  <2> HIDE DEF new
  <2> QED BY <2>1, <2>3, <2>4 DEF IdsOf, Ids
<1> QED BY <1>1, <1>2, <1>3

-----------------------------------------------------------------------------
(* Types are kept.                                                          *)

\* Request r goes to a step with new local variables, and nobody else moves.
Moves(r, to, loc) == pc' = [pc EXCEPT ![r] = to] /\ rq' = [rq EXCEPT ![r] = loc]
MovesWell(r) == \E to \in Steps, loc \in Local : Moves(r, to, loc) /\ Fits(to, loc)

LEMMA MoveTypes ==
  ASSUME RequestTypes, NEW r \in Requests, MovesWell(r)
  PROVE  RequestTypes'
<1> PICK to \in Steps, loc \in Local : Moves(r, to, loc) /\ Fits(to, loc)
  BY DEF MovesWell
<1>1. pc' \in [Requests -> Steps] /\ rq' \in [Requests -> Local]
  BY DEF Moves, RequestTypes
<1>2. \A q \in Requests : /\ pc'[q] = IF q = r THEN to ELSE pc[q]
                          /\ rq'[q] = IF q = r THEN loc ELSE rq[q]
  BY DEF Moves, RequestTypes
<1>3. \A q \in Requests : Fits(pc'[q], rq'[q])
  BY <1>2 DEF RequestTypes
<1> QED BY <1>1, <1>3 DEF RequestTypes

LEMMA BlankType == Blank \in Local
BY AccountsAssumption DEF Blank, Local

LEMMA ReturnMoves ==
  ASSUME NEW r, Return(r)
  PROVE  MovesWell(r)
<1>1. Moves(r, "out", Blank) /\ "out" \in Steps
  BY DEF Return, Goto, Moves, Steps
<1>2. Fits("out", Blank)
  BY DEF Fits, InLogin, HasProof
<1> QED BY <1>1, <1>2, BlankType DEF MovesWell

LEMMA GotoMoves ==
  ASSUME RequestTypes, NEW r \in Requests, NEW to \in Steps, Goto(r, to), rq' = rq,
         Fits(to, rq[r])
  PROVE  MovesWell(r)
<1>1. rq[r] \in Local /\ rq' = [rq EXCEPT ![r] = rq[r]]
  BY DEF RequestTypes
<1> QED BY <1>1 DEF Goto, Moves, MovesWell

LEMMA ProvedMoves ==
  ASSUME RequestTypes, NEW r \in Requests, NEW source, NEW key, NEW id \in 0 .. MaxUserId,
         Proved(r, source, key, id), pc[r] = "verify",
         [source |-> source, key |-> key] \in Proofs
  PROVE  MovesWell(r)
<1> DEFINE loc == [rq[r] EXCEPT !.proof = [source |-> source, key |-> key], !.id = id]
<1>1. rq[r] \in Local /\ rq[r].name \in Names
  BY DEF RequestTypes, Fits, InLogin
<1>2. loc \in Local /\ Fits("success", loc)
  BY <1>1 DEF Local, Fits, InLogin
<1>3. Moves(r, "success", loc)
  BY DEF Proved, Goto, Moves, RequestTypes
<1> HIDE DEF loc
<1> QED BY <1>2, <1>3 DEF MovesWell, Steps

LEMMA AuthenticateMoves ==
  ASSUME GoodTable(users), RequestTypes, Counters, NEW r \in Requests, authenticate(r)
  PROVE  MovesWell(r)
<1> DEFINE n == rq[r].name
<1>0. pc[r] = "verify" /\ n \in Names
  BY DEF authenticate, RequestTypes, Fits, InLogin
<1>1. CASE Return(r)
  BY <1>1, ReturnMoves
<1>2. CASE \E u \in users : Proved(r, "local", n, u.id)
  <2> PICK u \in users : Proved(r, "local", n, u.id)
    BY <1>2
  <2>1. u.id \in 0 .. MaxUserId /\ [source |-> "local", key |-> n] \in Proofs
    BY <1>0, AccountsAssumption DEF GoodTable, UserRecords, Proofs
  <2> HIDE DEF n
  <2> QED BY <1>0, <2>1, ProvedMoves
<1>3. CASE ldap_user(n) # None /\ Proved(r, "ldap", ldap_user(n), 0)
  <2>1. [source |-> "ldap", key |-> ldap_user(n)] \in Proofs /\ 0 \in 0 .. MaxUserId
    BY <1>0, <1>3, AccountsAssumption DEF ldap_user, Counters, Proofs
  <2> QED BY <1>0, <1>3, <2>1, ProvedMoves
<1>4. CASE NotProved(r)
  <2>1. Fits("fail", rq[r])
    BY <1>0 DEF Fits, HasProof
  <2> QED BY <1>4, <2>1, GotoMoves DEF NotProved, Steps
<1> QED BY <1>1, <1>2, <1>3, <1>4 DEF authenticate

LEMMA ProvisionMoves ==
  ASSUME GoodTable(users), RequestTypes, NEW r \in Requests, provision(r)
  PROVE  MovesWell(r) /\ GoodTable(users') /\ Ids \subseteq IdsOf(users')
<1> DEFINE upsert == Provisioned(rq[r].name, rq[r].proof.key)
<1>0. rq[r] \in Local /\ rq[r].name \in Names /\ rq[r].proof \in Proofs
      /\ rq[r].proof.key \in Persons
  BY DEF provision, RequestTypes, Fits, InLogin, HasProof, Proofs
<1>1. CASE Return(r) /\ UNCHANGED users
  BY <1>1, ReturnMoves DEF IdsOf, Ids
<1>2. CASE ~(Return(r) /\ UNCHANGED users)
  <2>1. /\ ~ \E u \in users : u.source = "local" /\ u.name = rq[r].name
        /\ upsert.id <= MaxUserId
        /\ users' = granted(upsert.table, upsert.id)
        /\ rq' = [rq EXCEPT ![r].id = upsert.id]
        /\ Goto(r, "issue")
    BY <1>2 DEF provision
  <2>2. /\ GoodTable(upsert.table) /\ upsert.id \in IdsOf(upsert.table)
        /\ Ids \subseteq IdsOf(upsert.table)
    BY <1>0, <2>1, ProvisionedTable
  <2> DEFINE loc == [rq[r] EXCEPT !.id = upsert.id]
  <2>3. upsert.id \in 0 .. MaxUserId
    BY <2>2, AccountsAssumption DEF GoodTable, UserRecords, IdsOf
  <2> HIDE DEF upsert
  <2>4. loc \in Local /\ Fits("issue", loc)
    BY <1>0, <2>3 DEF Local, Fits, InLogin, HasProof
  <2>5. Moves(r, "issue", loc)
    BY <2>1 DEF Moves, Goto, RequestTypes
  <2> HIDE DEF loc
  <2> QED BY <2>1, <2>2, <2>4, <2>5, GrantedTable DEF MovesWell, Steps
<1> QED BY <1>1, <1>2

LEMMA SessionMoves ==
  ASSUME GoodSessions, RequestTypes, Counters, NEW r \in Requests,
         (\E step \in {"admin", "change"} : require_user(r, step)) \/ issue(r)
  PROVE  MovesWell(r)
<1>0. /\ \A s \in sessions : s.user \in 0 .. MaxUserId /\ s.token \in 0 .. MaxTokens
      /\ issued \in 0 .. MaxTokens
  BY AccountsAssumption DEF GoodSessions, SessionRecords, Tokens, Counters
<1>1. CASE \E step \in {"admin", "change"} : require_user(r, step)
  <2> PICK step \in {"admin", "change"}, s \in sessions :
        /\ Goto(r, step)
        /\ rq' = [rq EXCEPT ![r] = [Blank EXCEPT !.id = s.user, !.token = s.token]]
    BY <1>1 DEF require_user
  <2> DEFINE loc == [Blank EXCEPT !.id = s.user, !.token = s.token]
  <2>1. loc \in Local /\ Fits(step, loc)
    BY <1>0, BlankType DEF Local, Fits, InLogin, HasProof
  <2>2. Moves(r, step, loc)
    BY DEF Moves, Goto
  <2> HIDE DEF loc
  <2> QED BY <2>1, <2>2 DEF MovesWell, Steps
<1>2. CASE issue(r) /\ ~Return(r)
  <2> DEFINE loc == [Blank EXCEPT !.token = issued + 1]
  <2>1. issued + 1 \in 0 .. MaxTokens /\ Goto(r, "resolve") /\ rq' = [rq EXCEPT ![r] = loc]
    BY <1>0, <1>2, AccountsAssumption DEF issue
  <2>2. loc \in Local /\ Fits("resolve", loc)
    BY <2>1, BlankType DEF Local, Fits, InLogin, HasProof
  <2>3. Moves(r, "resolve", loc)
    BY <2>1 DEF Moves, Goto
  <2> HIDE DEF loc
  <2> QED BY <2>2, <2>3 DEF MovesWell, Steps
<1> QED BY <1>1, <1>2, ReturnMoves

LEMMA RequestMoves ==
  ASSUME Types, NEW r \in Requests, Request(r)
  PROVE  MovesWell(r)
<1> USE DEF Types
<1>1. CASE Check(r)
  <2> PICK n \in Names : rq' = [rq EXCEPT ![r].name = n]
    BY <1>1 DEF Check
  <2>1. [rq[r] EXCEPT !.name = n] \in Local /\ Fits("verify", [rq[r] EXCEPT !.name = n])
    BY DEF RequestTypes, Local, Fits, HasProof
  <2>2. Moves(r, "verify", [rq[r] EXCEPT !.name = n])
    BY <1>1 DEF Check, Moves, Goto, RequestTypes
  <2> QED BY <2>1, <2>2 DEF MovesWell, Steps
<1>2. CASE authenticate(r)
  BY <1>2, AuthenticateMoves
<1>3. CASE provision(r)
  BY <1>3, ProvisionMoves
<1>4. CASE (\E step \in {"admin", "change"} : require_user(r, step)) \/ issue(r)
  BY <1>4, SessionMoves
<1>5. CASE record_success(r) \/ grant(r)
  <2>0. rq[r].name \in Names /\ rq[r].proof \in Proofs
    BY <1>5 DEF record_success, grant, RequestTypes, Fits, InLogin, HasProof
  <2>1. PICK to \in {"provision", "grant", "issue"} :
               Goto(r, to) /\ (to = "provision" => rq[r].proof.source = "ldap")
    BY <1>5 DEF record_success, grant
  <2>2. Fits(to, rq[r])
    BY <2>0, <2>1 DEF Fits
  <2>3. rq' = rq
    BY <1>5 DEF record_success, grant
  <2> QED BY <2>1, <2>2, <2>3, GotoMoves DEF Steps
<1>6. CASE logout(r)
  <2>1. rq[r] \in Local /\ pc[r] \in Steps /\ Fits(pc[r], rq[r])
    BY DEF RequestTypes
  <2>2. Moves(r, pc[r], rq[r])
    BY <1>6 DEF logout, Moves, RequestTypes
  <2> QED BY <2>1, <2>2 DEF MovesWell
<1>7. CASE record_fail(r) \/ Answer(r) \/ create_user(r) \/ update_user(r)
           \/ delete_user(r) \/ reset_password(r) \/ change_password(r) \/ GiveUp(r)
  BY <1>7, ReturnMoves DEF record_fail, Answer, create_user, update_user, delete_user,
     reset_password, change_password, GiveUp, Commit
<1> QED BY <1>1, <1>2, <1>3, <1>4, <1>5, <1>6, <1>7 DEF Request

LEMMA UsersStep ==
  ASSUME Types, NEW r \in Requests, Request(r)
  PROVE  GoodTable(users') /\ (~delete_user(r) => Ids \subseteq IdsOf(users'))
<1> USE DEF Types
<1>1. CASE users' = users
  BY <1>1 DEF IdsOf, Ids
<1>2. CASE provision(r)
  BY <1>2, ProvisionMoves
<1>3. CASE grant(r)
  BY <1>3, GrantedTable DEF grant, IdsOf, Ids
<1>4. CASE create_user(r)
  <2> PICK n \in Names, is_admin \in BOOLEAN :
        /\ \A u \in users : u.name # n
        /\ users' = users \union {NewUser(n, "local", None, is_admin)}
    BY <1>4 DEF create_user
  <2>1. Fresh <= MaxUserId /\ None \in Persons \union {None}
    BY <1>4 DEF create_user
  <2>2. GoodTable(users')
    BY <2>1, InsertTable
  <2> QED BY <2>2 DEF IdsOf, Ids
<1>5. CASE update_user(r)
  <2> PICK u \in users, is_admin \in BOOLEAN \union {None}, disabled \in BOOLEAN \union {None} :
        users' = (users \ {u}) \union
            {[u EXCEPT !.is_admin = IF is_admin = None THEN u.is_admin ELSE is_admin,
                       !.disabled = IF disabled = None THEN u.disabled ELSE disabled]}
    BY <1>5 DEF update_user
  <2> DEFINE admin == IF is_admin = None THEN u.is_admin ELSE is_admin
             off == IF disabled = None THEN u.disabled ELSE disabled
             new == [u EXCEPT !.is_admin = admin, !.disabled = off]
  <2>0. u \in UserRecords
    BY DEF GoodTable
  <2>1. admin \in BOOLEAN /\ off \in BOOLEAN
    BY <2>0 DEF UserRecords
  <2>2. users' = (users \ {u}) \union {new}
    OBVIOUS
  <2> HIDE DEF admin, off
  <2>3. /\ new \in UserRecords /\ new.id = u.id /\ new.name = u.name
        /\ new.source = u.source /\ new.external_id = u.external_id
    BY <2>0, <2>1 DEF UserRecords
  <2> HIDE DEF new
  <2>4. /\ new.source = "local" <=> new.external_id = None
        /\ \A v \in users \ {u} : v.external_id = new.external_id => new.external_id = None
    BY <2>3 DEF GoodTable
  <2>5. GoodTable((users \ {u}) \union {new}) /\ IdsOf((users \ {u}) \union {new}) = Ids
    BY <2>3, <2>4, UpdateTable
  <2> QED BY <2>2, <2>5
<1>6. CASE delete_user(r)
  BY <1>6 DEF delete_user, GoodTable
<1> QED BY <1>1, <1>2, <1>3, <1>4, <1>5, <1>6 DEF Request, Check, authenticate, record_fail,
     record_success, issue, Answer, require_user, reset_password, logout, change_password,
     GiveUp, stored

\* Rows of `sessions' go, or change in `delivered' only.
LEMMA RowsStay ==
  ASSUME Types, NEW r \in Requests, Request(r), ~issue(r)
  PROVE  /\ issued' = issued /\ sessions' \subseteq SessionRecords
         /\ \A t \in sessions' : \E s \in sessions :
              s.token = t.token /\ s.user = t.user /\ s.proof = t.proof
         /\ \A s, t \in sessions' : s.token = t.token => s = t
<1> USE DEF Types
<1>1. CASE Answer(r)
  <2> DEFINE new(s) ==
        [s EXCEPT !.delivered = s.delivered \/ (s.token = rq[r].token /\ resolves(s))]
  <2>1. sessions' = {new(s) : s \in sessions} /\ issued' = issued
    BY <1>1 DEF Answer
  <2>2. \A s \in sessions : /\ new(s) \in SessionRecords /\ new(s).token = s.token
                            /\ new(s).user = s.user /\ new(s).proof = s.proof
    BY DEF GoodSessions, SessionRecords
  <2> HIDE DEF new
  <2> QED BY <2>1, <2>2 DEF GoodSessions
<1>2. CASE ~Answer(r)
  <2>1. sessions' \subseteq sessions
    BY <1>2 DEF Request, Check, authenticate, record_fail, record_success, provision, grant,
       issue, require_user, create_user, update_user, delete_user, reset_password, logout,
       change_password, GiveUp, stored, End
  <2>2. issued' = issued
    BY <1>2 DEF Request, Check, authenticate, record_fail, record_success, provision, grant,
       issue, require_user, create_user, update_user, delete_user, reset_password, logout,
       change_password, GiveUp, Commit
  <2> QED BY <2>1, <2>2 DEF GoodSessions
<1> QED BY <1>1, <1>2

\* A token that is revoked was issued.
LEMMA EndedStep ==
  ASSUME IInv, NEW r \in Requests, Request(r)
  PROVE  /\ ended' \subseteq 1 .. issued'
         /\ \A s \in sessions' : s.token \notin ended'
<1> USE DEF IInv, Types
<1>1. \A s \in sessions : s.token \in 1 .. issued
  BY AccountsAssumption DEF GoodSessions, SessionRecords, Tokens, Counters
<1>2. CASE ended' = ended /\ ~issue(r)
  BY <1>2, RowsStay DEF Revoked, Counters
<1>3. CASE issue(r)
  <2>1. ended' = ended
    BY <1>3 DEF issue, history
  <2>2. issued' \in {issued, issued + 1} /\ issued \in Nat /\ ended \subseteq 1 .. issued
    BY <1>3, AccountsAssumption DEF issue, Counters
  <2>3. \A s \in sessions' : s \in sessions \/ s.token = issued + 1
    BY <1>3 DEF issue
  <2>4. issued + 1 \notin ended
    BY <2>2
  <2> QED BY <2>1, <2>2, <2>3, <2>4 DEF Revoked
<1>4. CASE ~issue(r) /\ \E gone \in SUBSET sessions : End(gone)
  <2> PICK gone \in SUBSET sessions : End(gone)
    BY <1>4
  <2>1. \A s \in sessions', g \in gone : s.token # g.token
    BY DEF End, GoodSessions
  <2>2. ended' \subseteq 1 .. issued
    BY <1>1 DEF End, Counters
  <2>3. \A s \in sessions' : s.token \notin ended'
    BY <2>1 DEF End, Revoked
  <2>4. issued' = issued
    BY <1>4, RowsStay
  <2> QED BY <2>2, <2>3, <2>4
<1>5. update_user(r) \/ delete_user(r) \/ reset_password(r) \/ logout(r) \/ change_password(r)
      => \E gone \in SUBSET sessions : End(gone)
  BY DEF update_user, delete_user, reset_password, logout, change_password, Of
<1>6. ~(update_user(r) \/ delete_user(r) \/ reset_password(r) \/ logout(r) \/ change_password(r))
      => ended' = ended
  BY DEF Request, Check, authenticate, record_fail, record_success, provision, grant, issue,
     Answer, require_user, create_user, GiveUp, history
<1> QED BY <1>2, <1>3, <1>4, <1>5, <1>6

LEMMA SessionsStep ==
  ASSUME Types, NEW r \in Requests, Request(r)
  PROVE  GoodSessions'
<1> USE DEF Types
<1>0. GoodSessions' <=> /\ sessions' \subseteq SessionRecords
                        /\ \A s \in sessions' : s.user \in IdsOf(users') /\ s.token <= issued'
                        /\ \A s, t \in sessions' : s.token = t.token => s = t
  BY DEF GoodSessions, Ids, IdsOf, SessionRecords, Tokens, Proofs
<1>1. CASE issue(r)
  <2>1. users' = users /\ \A i : i \in IdsOf(users') <=> i \in Ids
    BY <1>1 DEF issue, IdsOf, Ids
  <2>2. CASE rq[r].id \notin Ids
    <3>1. sessions' = sessions /\ issued' = issued
      BY <1>1, <2>2 DEF issue
    <3> QED BY <1>0, <2>1, <3>1 DEF GoodSessions
  <2>3. CASE rq[r].id \in Ids
    <3> DEFINE new == [token |-> issued + 1, user |-> rq[r].id, proof |-> rq[r].proof,
                       delivered |-> FALSE]
    <3>1. sessions' = sessions \union {new} /\ issued' = issued + 1 /\ issued < MaxTokens
      BY <1>1, <2>3 DEF issue
    <3>2. issued + 1 \in Tokens /\ issued \in Nat
      BY <3>1, AccountsAssumption DEF Counters, Tokens
    <3>3. rq[r].proof \in Proofs
      BY <1>1 DEF issue, RequestTypes, Fits, HasProof
    <3>4. rq[r].id \in 1 .. MaxUserId
      BY <2>3 DEF Ids, GoodTable, UserRecords
    <3>5. new \in SessionRecords /\ new.token = issued + 1 /\ new.user = rq[r].id
      BY <3>2, <3>3, <3>4 DEF SessionRecords
    <3> HIDE DEF new
    <3>6. \A s \in sessions : s.token \in Nat /\ s.token <= issued
      BY DEF GoodSessions, SessionRecords, Tokens
    <3>7. \A s, t \in sessions' : s.token = t.token => s = t
      BY <3>1, <3>2, <3>5, <3>6 DEF GoodSessions
    <3>8. \A s \in sessions' : s.user \in IdsOf(users') /\ s.token <= issued'
      BY <2>1, <2>3, <3>1, <3>2, <3>5, <3>6 DEF GoodSessions
    <3> QED BY <1>0, <3>1, <3>5, <3>7, <3>8 DEF GoodSessions
  <2> QED BY <2>2, <2>3
<1>2. CASE ~issue(r)
  <2>1. \A t \in sessions' : \E s \in sessions : s.token = t.token /\ s.user = t.user
    BY <1>2, RowsStay
  <2>2. \A t \in sessions' : t.user \in Ids /\ t.token <= issued'
    BY <1>2, <2>1, RowsStay DEF GoodSessions
  <2>3. CASE delete_user(r)
    <3> PICK u \in users : users' = users \ {u} /\ End(Of(u.id))
      BY <2>3 DEF delete_user
    <3>1. \A s \in sessions' : s \in sessions /\ s.user # u.id
      BY DEF End, Of
    <3>2. \A s \in sessions' : s.user \in IdsOf(users')
      BY <2>2, <3>1 DEF Ids, IdsOf
    <3> QED BY <1>0, <1>2, <2>2, <3>2, RowsStay
  <2>4. CASE ~delete_user(r)
    BY <1>0, <1>2, <2>2, <2>4, RowsStay, UsersStep
  <2> QED BY <2>3, <2>4
<1> QED BY <1>1, <1>2

LEMMA LimiterStep ==
  ASSUME Types, NEW r \in Requests, Request(r)
  PROVE  /\ limiter' \in [Names -> [fails : 0 .. max_fails - 1, locked : BOOLEAN]]
         /\ guesses' \in [Names -> Nat] /\ issued' \in 0 .. MaxTokens /\ crossed' \in BOOLEAN
<1> USE DEF Types, Counters
<1> USE AccountsAssumption
<1>1. pc[r] \in InLogin => rq[r].name \in Names
  BY DEF RequestTypes, Fits
<1>2. limiter' \in [Names -> [fails : 0 .. max_fails - 1, locked : BOOLEAN]]
  <2>1. CASE record_fail(r)
    <3> DEFINE fails == limiter[rq[r].name].fails + 1
    <3>1. rq[r].name \in Names /\ limiter' =
            [limiter EXCEPT ![rq[r].name] =
               IF fails >= max_fails THEN [fails |-> 0, locked |-> TRUE]
               ELSE [limiter[rq[r].name] EXCEPT !.fails = fails]]
      BY <1>1, <2>1 DEF record_fail, InLogin
    <3> QED BY <3>1
  <2>2. CASE record_success(r)
    BY <1>1, <2>2 DEF record_success, NoFails, InLogin
  <2>3. CASE ~record_fail(r) /\ ~record_success(r)
    <3>1. limiter' = limiter
      BY <2>3 DEF Request, Check, authenticate, provision, grant, issue, Answer, require_user,
         create_user, update_user, delete_user, reset_password, logout, change_password,
         GiveUp, Commit
    <3> QED BY <3>1
  <2> QED BY <2>1, <2>2, <2>3
<1>3. guesses' \in [Names -> Nat]
  <2>1. CASE authenticate(r) \/ record_success(r)
    BY <1>1, <2>1 DEF authenticate, record_success, Proved, NotProved, InLogin
  <2>2. CASE ~authenticate(r) /\ ~record_success(r)
    <3>1. guesses' = guesses
      BY <2>2 DEF Request, Check, record_fail, provision, grant, issue, Answer, require_user,
         create_user, update_user, delete_user, reset_password, logout, change_password,
         GiveUp, Commit, history
    <3> QED BY <3>1
  <2> QED BY <2>1, <2>2
<1>4. issued' \in 0 .. MaxTokens
  <2>1. CASE issue(r)
    BY <2>1 DEF issue
  <2> QED BY <2>1, RowsStay
<1>5. crossed' \in BOOLEAN
  <2>1. CASE create_user(r) \/ update_user(r) \/ delete_user(r) \/ reset_password(r)
    BY <2>1 DEF create_user, update_user, delete_user, reset_password, Commit
  <2>2. CASE ~(create_user(r) \/ update_user(r) \/ delete_user(r) \/ reset_password(r))
    <3>1. crossed' = crossed
      BY <2>2 DEF Request, Check, authenticate, record_fail, record_success, provision, grant,
         issue, Answer, require_user, logout, change_password, GiveUp, history
    <3> QED BY <3>1
  <2> QED BY <2>1, <2>2
<1> QED BY <1>2, <1>3, <1>4, <1>5

LEMMA DirectoryStays ==
  ASSUME NEW r, Request(r)
  PROVE  directory' = directory /\ moves' = moves
BY DEF Request, Check, authenticate, record_fail, record_success, provision, grant, issue,
   Answer, require_user, create_user, update_user, delete_user, reset_password, logout,
   change_password, GiveUp, Commit

LEMMA SurroundingsStep ==
  ASSUME IInv, NEW n \in Names, LockEnds(n) \/ DirectoryChanges(n)
  PROVE  IInv'
<1> USE DEF IInv, Types
<1>1. UNCHANGED <<users, sessions, pc, rq, issued, ended, crossed>>
  BY DEF LockEnds, DirectoryChanges, stored, history
<1>2. Counters'
  <2>1. CASE LockEnds(n)
    BY <2>1 DEF LockEnds, Counters, stored
  <2>2. CASE DirectoryChanges(n)
    <3>1. directory' \in [Names -> Persons \union {None}] /\ moves' \in 0 .. MaxMoves
      BY <2>2, AccountsAssumption DEF DirectoryChanges, Counters
    <3> QED BY <2>2, <3>1 DEF DirectoryChanges, Counters, history
  <2> QED BY <2>1, <2>2
<1>3. GoodTable(users)' /\ GoodSessions' /\ RequestTypes' /\ Revoked'
  BY <1>1 DEF GoodTable, UserRecords, GoodSessions, SessionRecords, Ids, RequestTypes, Local,
     Fits, Revoked, Proofs, Tokens
<1> QED BY <1>2, <1>3

LEMMA InvStep == IInv /\ [Next]_vars => IInv'
<1> SUFFICES ASSUME IInv, [Next]_vars PROVE IInv'
  OBVIOUS
<1>1. ASSUME NEW r \in Requests, Request(r) PROVE IInv'
  <2>1. GoodTable(users)'
    BY <1>1, UsersStep DEF IInv, GoodTable, UserRecords
  <2>2. GoodSessions' /\ RequestTypes'
    BY <1>1, SessionsStep, RequestMoves, MoveTypes DEF IInv, Types
  <2>3. Counters'
    BY <1>1, LimiterStep, DirectoryStays, EndedStep DEF IInv, Types, Counters
  <2>4. Revoked'
    BY <1>1, EndedStep DEF Revoked
  <2> QED BY <2>1, <2>2, <2>3, <2>4 DEF IInv, Types
<1>2. ASSUME NEW n \in Names, LockEnds(n) \/ DirectoryChanges(n) PROVE IInv'
  BY <1>2, SurroundingsStep
<1>3. CASE UNCHANGED vars
  BY <1>3 DEF vars, stored, history, IInv, Types, GoodTable, UserRecords, GoodSessions,
     SessionRecords, Ids, RequestTypes, Local, Fits, Revoked, Proofs, Tokens, Counters
<1> QED BY <1>1, <1>2, <1>3 DEF Next

LEMMA InitInv == Init => IInv
<1> SUFFICES ASSUME Init PROVE IInv
  OBVIOUS
<1> USE AccountsAssumption
<1>1. GoodTable(users)
  <2> DEFINE operator == [id |-> 1, name |-> Operator, source |-> "local",
                          external_id |-> None, is_admin |-> TRUE, disabled |-> FALSE]
  <2>1. users = {} \/ users = {operator}
    BY DEF Init
  <2>2. operator \in UserRecords /\ operator.source = "local" /\ operator.external_id = None
    BY DEF UserRecords
  <2> HIDE DEF operator
  <2> QED BY <2>1, <2>2 DEF GoodTable
<1>2. GoodSessions /\ Revoked
  BY DEF Init, GoodSessions, Revoked
<1>3. RequestTypes
  BY BlankType DEF Init, RequestTypes, Fits, InLogin, HasProof, Steps
<1>4. Counters
  <2>1. NoFails \in [fails : 0 .. max_fails - 1, locked : BOOLEAN]
    BY DEF NoFails
  <2>2. limiter \in [Names -> [fails : 0 .. max_fails - 1, locked : BOOLEAN]]
    BY <2>1 DEF Init
  <2>3. issued \in 0 .. MaxTokens /\ moves \in 0 .. MaxMoves
    BY DEF Init
  <2> QED BY <2>2, <2>3 DEF Init, Counters
<1> QED BY <1>1, <1>2, <1>3, <1>4 DEF IInv, Types

LEMMA AlwaysInv == Spec => []IInv
BY InitInv, InvStep, PTL DEF Spec

-----------------------------------------------------------------------------
(* Types and revocation.                                                    *)

DisplacedType == displaced \subseteq (1 .. MaxUserId) \X Proofs

\* What is lost had an account, and a proof.
LEMMA DisplacedStep ==
  ASSUME IInv, DisplacedType, [Next]_vars
  PROVE  DisplacedType'
<1> USE DEF IInv, Types
<1>1. Lost \subseteq (1 .. MaxUserId) \X Proofs
  <2> SUFFICES ASSUME NEW h \in Held, Owned(users, h[1], h[2])
               PROVE  h \in (1 .. MaxUserId) \X Proofs
    BY DEF Lost
  <2>1. h[1] \in 1 .. MaxUserId
    BY DEF Owned, GoodTable, UserRecords
  <2>2. CASE \E s \in sessions : h = <<s.user, s.proof>>
    BY <2>1, <2>2 DEF GoodSessions, SessionRecords
  <2>3. CASE \E r \in Requests : h = <<rq[r].id, rq[r].proof>>
                                /\ pc[r] \in {"grant", "issue", "success"}
    BY <2>1, <2>3 DEF RequestTypes, Fits, HasProof
  <2> QED BY <2>2, <2>3 DEF Held
<1>2. displaced' \subseteq displaced \union Lost
  BY DEF Next, Request, Check, authenticate, record_fail, record_success, provision, grant,
     issue, Answer, require_user, create_user, update_user, delete_user, reset_password,
     logout, change_password, GiveUp, Keep, Lose, LockEnds, DirectoryChanges, vars
<1> QED BY <1>1, <1>2 DEF DisplacedType

LEMMA DisplacedTyped == Spec => []DisplacedType
<1>1. Init => DisplacedType
  BY DEF Init, DisplacedType
<1> QED BY <1>1, DisplacedStep, AlwaysInv, PTL DEF Spec

(* The tables keep their types and constraints: no step of any two logins   *)
(* or administrators gives two accounts one id, one name or one person of   *)
(* the directory, or leaves a session without its account.                  *)
THEOREM TypeCorrect == Spec => []TypeOK
<1>1. IInv /\ DisplacedType => TypeOK
  <2> SUFFICES ASSUME IInv, DisplacedType PROVE TypeOK
    OBVIOUS
  <2> USE DEF IInv, Types
  <2> USE AccountsAssumption
  <2>1. \A u \in users :
          /\ u.id \in 1 .. MaxUserId /\ u.name \in Names
          /\ u.source = "local" <=> u.external_id = None
          /\ u.source = "ldap" <=> u.external_id \in Persons
          /\ u.is_admin \in BOOLEAN /\ u.disabled \in BOOLEAN
    BY DEF GoodTable, UserRecords
  <2>2. \A s \in sessions : s.token \in Tokens /\ s.user \in Ids /\ s.proof \in Proofs
                           /\ s.delivered \in BOOLEAN
    BY DEF GoodSessions, SessionRecords
  <2>3. \A r \in Requests :
          /\ rq[r].name \in Names \union {None} /\ rq[r].proof \in Proofs \union {None}
          /\ rq[r].id \in 0 .. MaxUserId /\ rq[r].token \in 0 .. MaxTokens
    BY DEF RequestTypes, Local
  <2> QED BY <2>1, <2>2, <2>3 DEF TypeOK, GoodTable, GoodSessions, RequestTypes, Counters,
       DisplacedType
<1> QED BY <1>1, AlwaysInv, DisplacedTyped, PTL

(* A revoked token is never let in again, whatever becomes of its account   *)
(* and whoever gets its id.                                                 *)
THEOREM NeverLetInAgain == Spec => []RevocationHolds
<1>1. IInv => RevocationHolds
  BY DEF IInv, Revoked, RevocationHolds
<1> QED BY <1>1, AlwaysInv, PTL

-----------------------------------------------------------------------------
(* An administrator remains.                                                *)

\* Rows are replaced by rows with the same id and no fewer rights.
Keeps(old, new) ==
  \A u \in old : \E v \in new :
    /\ v.id = u.id
    /\ u.is_admin /\ ~u.disabled => v.is_admin /\ ~v.disabled

LEMMA GrantedKeeps ==
  ASSUME NEW table, GoodTable(table), NEW id
  PROVE  Keeps(table, granted(table, id))
<1> DEFINE new(u) == IF u.id = id THEN [u EXCEPT !.is_admin = TRUE] ELSE u
<1>1. CASE granted(table, id) = table
  BY <1>1 DEF Keeps
<1>2. CASE granted(table, id) = {new(u) : u \in table}
  <2>1. \A u \in table : /\ new(u).id = u.id /\ new(u).disabled = u.disabled
                         /\ u.is_admin => new(u).is_admin
    BY DEF GoodTable, UserRecords
  <2> HIDE DEF new
  <2> QED BY <1>2, <2>1 DEF Keeps
<1> QED BY <1>1, <1>2 DEF granted

LEMMA ProvisionedKeeps ==
  ASSUME GoodTable(users), NEW name, NEW person
  PROVE  Keeps(users, Provisioned(name, person).table)
<1> DEFINE bound == {u \in users : u.source = "ldap" /\ u.external_id = person}
           named == {u \in users : u.source = "ldap" /\ u.name = name}
           table == Provisioned(name, person).table
<1>1. CASE bound # {}
  <2>1. table = users
    BY <1>1 DEF Provisioned
  <2> QED BY <2>1 DEF Keeps
<1>2. CASE bound = {} /\ named # {}
  <2> DEFINE u == CHOOSE u \in named : TRUE
             new == [u EXCEPT !.external_id = person]
  <2>1. table = (users \ {u}) \union {new}
    BY <1>2 DEF Provisioned
  <2>2. u \in users
    BY <1>2
  <2> HIDE DEF u, table
  <2>3. new.id = u.id /\ new.is_admin = u.is_admin /\ new.disabled = u.disabled
    BY <2>2 DEF GoodTable, UserRecords
  <2> HIDE DEF new
  <2>4. Keeps(users, table)
    BY <2>1, <2>3 DEF Keeps
  <2> QED BY <2>4 DEF table
<1>3. CASE bound = {} /\ named = {}
  <2>1. users \subseteq table
    BY <1>3 DEF Provisioned
  <2> HIDE DEF table
  <2>2. Keeps(users, table)
    BY <2>1 DEF Keeps
  <2> QED BY <2>2 DEF table
<1> QED BY <1>1, <1>2, <1>3

\* The first account of the directory becomes an administrator at once.
LEMMA FirstIsAdmin ==
  ASSUME users = {}, first_user_admin, NEW name, NEW person, NEW upsert,
         upsert = Provisioned(name, person)
  PROVE  \E u \in granted(upsert.table, upsert.id) : u.is_admin /\ ~u.disabled
<1> DEFINE new == NewUser(name, "ldap", person, FALSE)
<1>1. upsert = [table |-> {new}, id |-> Fresh]
  BY DEF Provisioned
<1>2. Cardinality({new}) = 1
  BY FS_Singleton
<1>3. new.id = Fresh /\ [new EXCEPT !.is_admin = TRUE].is_admin
      /\ ~[new EXCEPT !.is_admin = TRUE].disabled
  BY DEF NewUser
<1> HIDE DEF new
<1>4. granted({new}, Fresh) = {[new EXCEPT !.is_admin = TRUE]}
  BY <1>2, <1>3 DEF granted
<1>5. upsert.table = {new} /\ upsert.id = Fresh
  BY <1>1
<1> QED BY <1>3, <1>4, <1>5

\* The administrator who acts keeps his own rights.
LEMMA ActorKeepsRights ==
  ASSUME GoodTable(users), NEW r, ~crossed',
         create_user(r) \/ update_user(r) \/ delete_user(r) \/ reset_password(r)
  PROVE  \E u \in users' : u.is_admin /\ ~u.disabled
<1>1. CanAdminister(rq[r].id)
  BY DEF create_user, update_user, delete_user, reset_password, Commit
<1>2. PICK w \in users : w.id = rq[r].id /\ w.is_admin /\ ~w.disabled
  BY <1>1 DEF CanAdminister
<1>3. CASE update_user(r)
  <2> PICK u \in users, is_admin, disabled \in BOOLEAN \union {None} :
        /\ u.id = rq[r].id => is_admin # FALSE /\ disabled # TRUE
        /\ users' = (users \ {u}) \union
            {[u EXCEPT !.is_admin = IF is_admin = None THEN u.is_admin ELSE is_admin,
                       !.disabled = IF disabled = None THEN u.disabled ELSE disabled]}
        /\ End(IF disabled = TRUE THEN Of(u.id) ELSE {})
    BY <1>3, Zenon DEF update_user
  <2>1. CASE u # w
    BY <1>2, <2>1
  <2>2. CASE u = w
    <3> DEFINE admin == IF is_admin = None THEN u.is_admin ELSE is_admin
               off == IF disabled = None THEN u.disabled ELSE disabled
               new == [u EXCEPT !.is_admin = admin, !.disabled = off]
    <3>1. admin /\ ~off
      BY <1>2, <2>2
    <3>2. new \in users'
      OBVIOUS
    <3> HIDE DEF admin, off
    <3>3. new.is_admin = admin /\ new.disabled = off
      BY DEF GoodTable, UserRecords
    <3> QED BY <3>1, <3>2, <3>3
  <2> QED BY <2>1, <2>2
<1> QED BY <1>2, <1>3 DEF create_user, delete_user, reset_password

LEMMA AdminStep == IInv /\ AdminRemains /\ [Next]_vars => AdminRemains'
<1> SUFFICES ASSUME IInv, AdminRemains, [Next]_vars, first_user_admin, users' # {}, ~crossed'
             PROVE  \E u \in users' : u.is_admin /\ ~u.disabled
  <2>1. (\E u \in users' : u.is_admin /\ ~u.disabled) => \E u \in users' : CanAdminister(u.id)'
    BY DEF CanAdminister
  <2> QED BY <2>1 DEF AdminRemains
<1>1. users # {} /\ ~crossed => \E u \in users : u.is_admin /\ ~u.disabled
  BY DEF AdminRemains, CanAdminister
<1>2. CASE \E r \in Requests :
             create_user(r) \/ update_user(r) \/ delete_user(r) \/ reset_password(r)
  BY <1>2, ActorKeepsRights DEF IInv, Types
<1>3. CASE \E r \in Requests : provision(r) /\ users' # users
  <2> PICK r \in Requests : provision(r) /\ users' # users
    BY <1>3
  <2> DEFINE upsert == Provisioned(rq[r].name, rq[r].proof.key)
  <2>1. /\ ~ \E u \in users : u.source = "local" /\ u.name = rq[r].name
        /\ upsert.id <= MaxUserId /\ users' = granted(upsert.table, upsert.id)
        /\ crossed' = crossed
    BY DEF provision, history
  <2>2. CASE users = {}
    BY <2>1, <2>2, FirstIsAdmin
  <2>3. CASE users # {}
    <3>1. rq[r].name \in Names /\ rq[r].proof.key \in Persons
      BY DEF provision, IInv, Types, RequestTypes, Fits, InLogin, HasProof, Proofs
    <3>2. GoodTable(upsert.table)
      BY <2>1, <3>1, ProvisionedTable DEF IInv, Types
    <3>3. Keeps(users, upsert.table) /\ Keeps(upsert.table, users')
      BY <2>1, <3>2, ProvisionedKeeps, GrantedKeeps DEF IInv, Types
    <3> HIDE DEF upsert
    <3> QED BY <1>1, <2>1, <2>3, <3>3 DEF Keeps
  <2> QED BY <2>2, <2>3
<1>4. CASE \E r \in Requests : grant(r)
  <2> PICK r \in Requests : grant(r)
    BY <1>4
  <2>1. Keeps(users, users') /\ crossed' = crossed
    BY GrantedKeeps DEF grant, history, IInv, Types
  <2>2. users # {}
    BY DEF grant, granted
  <2> QED BY <1>1, <2>1, <2>2 DEF Keeps
<1>5. CASE users' = users /\ crossed' = crossed
  BY <1>1, <1>5
<1> QED BY <1>2, <1>3, <1>4, <1>5 DEF Next, Request, Check, authenticate, record_fail,
     record_success, provision, issue, Answer, require_user, logout, change_password,
     GiveUp, LockEnds, DirectoryChanges, vars, stored, history

(* With first_user_admin, an administrator who can log in exists as soon    *)
(* as any account does and as long as no administrator's request commits    *)
(* after he lost his rights.                                                *)
THEOREM AdministratorRemains == Spec => []AdminRemains
<1>1. Init => AdminRemains
  BY DEF Init, AdminRemains, CanAdminister
<1>2. IInv /\ AdminRemains /\ [Next]_vars => AdminRemains'
  BY AdminStep
<1> QED BY <1>1, <1>2, AlwaysInv, PTL DEF Spec

-----------------------------------------------------------------------------
(* The login back-off.                                                      *)

LEMMA AtFinite ==
  ASSUME NEW step, NEW n
  PROVE  /\ IsFiniteSet(At(step, n)) /\ Cardinality(At(step, n)) \in Nat
         /\ Cardinality(Requests) \in Nat
<1>1. At(step, n) \subseteq Requests
  BY DEF At
<1> QED BY <1>1, AccountsAssumption, FS_Subset, FS_CardinalityType

\* The requests at a step change by the one that moves.
LEMMA AtMoves ==
  ASSUME RequestTypes, NEW r \in Requests, NEW to, NEW loc, Moves(r, to, loc),
         NEW step, NEW n
  PROVE  /\ to = step /\ loc.name = n => At(step, n)' = At(step, n) \union {r}
         /\ ~(to = step /\ loc.name = n) => At(step, n)' = At(step, n) \ {r}
<1>1. \A q \in Requests : /\ pc'[q] = IF q = r THEN to ELSE pc[q]
                          /\ rq'[q] = IF q = r THEN loc ELSE rq[q]
  BY DEF Moves, RequestTypes
<1> QED BY <1>1 DEF At

LEMMA AtCounts ==
  ASSUME RequestTypes, NEW r \in Requests, NEW to, NEW loc, Moves(r, to, loc),
         NEW step, NEW n
  PROVE  Cardinality(At(step, n)') =
           IF to = step /\ loc.name = n
           THEN IF r \in At(step, n) THEN Cardinality(At(step, n))
                ELSE Cardinality(At(step, n)) + 1
           ELSE IF r \in At(step, n) THEN Cardinality(At(step, n)) - 1
                ELSE Cardinality(At(step, n))
<1> DEFINE S == At(step, n)
<1>1. IsFiniteSet(S)
  BY AtFinite
<1>2. CASE to = step /\ loc.name = n
  <2>1. At(step, n)' = S \union {r}
    BY <1>2, AtMoves
  <2> HIDE DEF S
  <2>2. Cardinality(S \union {r}) = IF r \in S THEN Cardinality(S) ELSE Cardinality(S) + 1
    BY <1>1, FS_AddElement
  <2> QED BY <1>2, <2>1, <2>2 DEF S
<1>3. CASE ~(to = step /\ loc.name = n)
  <2>1. At(step, n)' = S \ {r}
    BY <1>3, AtMoves
  <2> HIDE DEF S
  <2>2. Cardinality(S \ {r}) = IF r \in S THEN Cardinality(S) - 1 ELSE Cardinality(S)
    BY <1>1, FS_RemoveElement
  <2> QED BY <1>3, <2>1, <2>2 DEF S
<1> QED BY <1>2, <1>3

\* A request that neither starts nor fails a login, and whose failure the
\* limiter has not to count, disturbs no bound.
LEMMA QuietStep ==
  ASSUME RequestTypes, Counters, NEW r \in Requests, NEW to, NEW loc, Moves(r, to, loc),
         NEW n \in Names, Guarded(n), limiter'[n] = limiter[n], guesses'[n] = guesses[n],
         pc[r] = "fail" => rq[r].name # n,
         to \in {"fail", "verify"} => loc.name # n
  PROVE  Guarded(n)'
<1>1. At("fail", n)' = At("fail", n)
  <2>1. r \notin At("fail", n)
    BY DEF At
  <2> QED BY <2>1, AtMoves
<1>2. At("verify", n)' = At("verify", n) \ {r}
  BY AtMoves
<1>3. Cardinality(At("verify", n)') <= Cardinality(At("verify", n))
  BY AtCounts, AtFinite
<1>4. Cardinality(At("verify", n)') \in Nat
  BY <1>2, AtFinite, FS_RemoveElement, FS_CardinalityType
<1>5. guesses[n] \in Nat /\ max_fails \in Nat
  BY AccountsAssumption DEF Counters
<1> QED BY <1>1, <1>3, <1>4, <1>5, AtFinite DEF Guarded

LEMMA CheckLimited ==
  ASSUME IInv, NEW r \in Requests, Check(r), NEW n \in Names, Guarded(n)
  PROVE  Guarded(n)'
<1> USE DEF IInv, Types
<1>1. limiter' = limiter /\ guesses' = guesses /\ pc[r] = "out"
  BY DEF Check, history
<1>2. PICK m \in Names : ~limiter[m].locked /\ rq' = [rq EXCEPT ![r].name = m]
  BY DEF Check
<1> DEFINE loc == [rq[r] EXCEPT !.name = m]
<1>3. Moves(r, "verify", loc) /\ loc.name = m
  BY <1>2 DEF Check, Goto, Moves, RequestTypes, Local
<1> HIDE DEF loc
<1>4. CASE m # n
  BY <1>1, <1>3, <1>4, QuietStep
<1>5. CASE m = n
  <2>1. r \notin At("fail", n)
    BY <1>1 DEF At
  <2>2. At("fail", n)' = At("fail", n)
    BY <1>3, <2>1, AtMoves
  <2> QED BY <1>1, <1>2, <1>5, <2>2 DEF Guarded
<1> QED BY <1>4, <1>5

LEMMA NotProvedLimited ==
  ASSUME IInv, NEW r \in Requests, authenticate(r), NotProved(r), NEW n \in Names, Guarded(n)
  PROVE  Guarded(n)'
<1> USE DEF IInv, Types
<1>1. limiter' = limiter /\ pc[r] = "verify" /\ rq[r].name \in Names
  BY DEF authenticate, RequestTypes, Fits, InLogin
<1>2. guesses' = [guesses EXCEPT ![rq[r].name] = guesses[rq[r].name] + 1]
  BY DEF NotProved
<1>3. Moves(r, "fail", rq[r])
  BY DEF NotProved, Goto, Moves, RequestTypes
<1>4. CASE rq[r].name # n
  <2>1. guesses'[n] = guesses[n]
    BY <1>2, <1>4 DEF Counters
  <2> QED BY <1>1, <1>3, <1>4, <2>1, QuietStep
<1>5. CASE rq[r].name = n
  <2>1. r \in At("verify", n) /\ r \notin At("fail", n)
    BY <1>1, <1>5 DEF At
  <2>3. /\ Cardinality(At("verify", n)') = Cardinality(At("verify", n)) - 1
        /\ Cardinality(At("fail", n)') = Cardinality(At("fail", n)) + 1
    BY <1>3, <1>5, <2>1, AtCounts
  <2>4. guesses'[n] = guesses[n] + 1 /\ guesses[n] \in Nat
    BY <1>1, <1>2, <1>5 DEF Counters
  <2>5. max_fails \in Nat /\ limiter[n].fails \in Nat
    BY AccountsAssumption DEF Counters
  <2> QED BY <1>1, <2>3, <2>4, <2>5, AtFinite DEF Guarded
<1> QED BY <1>4, <1>5

LEMMA FailLimited ==
  ASSUME IInv, NEW r \in Requests, record_fail(r), NEW n \in Names, Guarded(n)
  PROVE  Guarded(n)'
<1> USE DEF IInv, Types
<1> DEFINE fails == limiter[rq[r].name].fails + 1
<1>1. /\ guesses' = guesses /\ pc[r] = "fail" /\ rq[r].name \in Names
      /\ limiter' = [limiter EXCEPT ![rq[r].name] =
                       IF fails >= max_fails THEN [fails |-> 0, locked |-> TRUE]
                       ELSE [limiter[rq[r].name] EXCEPT !.fails = fails]]
  BY DEF record_fail, history, RequestTypes, Fits, InLogin
<1>2. Moves(r, "out", Blank)
  BY DEF record_fail, Return, Goto, Moves
<1>3. CASE rq[r].name # n
  <2>1. limiter'[n] = limiter[n]
    BY <1>1, <1>3 DEF Counters
  <2> QED BY <1>1, <1>2, <1>3, <2>1, QuietStep
<1>4. CASE rq[r].name = n
  <2>1. r \in At("fail", n) /\ r \notin At("verify", n)
    BY <1>1, <1>4 DEF At
  <2>3. /\ Cardinality(At("verify", n)') = Cardinality(At("verify", n))
        /\ Cardinality(At("fail", n)') = Cardinality(At("fail", n)) - 1
    BY <1>2, <2>1, AtCounts
  <2>4. /\ guesses[n] \in Nat /\ max_fails \in Nat /\ limiter[n].fails \in 0 .. max_fails - 1
        /\ limiter[n].locked \in BOOLEAN
    BY AccountsAssumption DEF Counters
  <2>5. limiter'[n] = IF fails >= max_fails THEN [fails |-> 0, locked |-> TRUE]
                      ELSE [limiter[n] EXCEPT !.fails = fails]
    BY <1>1, <1>4 DEF Counters
  <2>6. CASE limiter[n].locked
    <3>1. limiter'[n].locked
      BY <1>4, <2>4, <2>5, <2>6 DEF Counters
    <3> QED BY <1>1, <2>3, <2>6, <3>1 DEF Guarded
  <2>7. CASE ~limiter[n].locked /\ fails < max_fails
    <3>1. ~limiter'[n].locked /\ limiter'[n].fails = limiter[n].fails + 1
      BY <1>4, <2>4, <2>5, <2>7 DEF Counters
    <3> QED BY <1>1, <2>3, <2>4, <2>7, <3>1, AtFinite DEF Guarded
  <2>8. CASE ~limiter[n].locked /\ fails >= max_fails
    <3>1. limiter'[n].locked /\ limiter[n].fails = max_fails - 1
      BY <1>4, <2>4, <2>5, <2>8
    <3>2. Cardinality(At("fail", n)) + Cardinality(At("verify", n)) <= Cardinality(Requests)
      <4>1. /\ At("fail", n) \union At("verify", n) \subseteq Requests
            /\ At("fail", n) \intersect At("verify", n) = {}
        BY DEF At
      <4>2. Cardinality(At("fail", n) \union At("verify", n)) <= Cardinality(Requests)
        BY <4>1, AccountsAssumption, FS_Subset
      <4>3. Cardinality(At("fail", n) \union At("verify", n)) =
              Cardinality(At("fail", n)) + Cardinality(At("verify", n))
              - Cardinality(At("fail", n) \intersect At("verify", n))
        BY AtFinite, FS_Union
      <4>4. Cardinality(At("fail", n) \intersect At("verify", n)) = 0
        BY <4>1, FS_EmptySet
      <4> QED BY <4>2, <4>3, <4>4, AtFinite
    <3> QED BY <1>1, <2>3, <2>4, <2>8, <3>1, <3>2, AtFinite DEF Guarded
  <2> QED BY <1>4, <2>4, <2>6, <2>7, <2>8
<1> QED BY <1>3, <1>4

LEMMA SuccessLimited ==
  ASSUME IInv, NEW r \in Requests, record_success(r), NEW n \in Names, Guarded(n)
  PROVE  Guarded(n)'
<1> USE DEF IInv, Types
<1>1. /\ limiter' = [limiter EXCEPT ![rq[r].name] = NoFails]
      /\ guesses' = [guesses EXCEPT ![rq[r].name] = 0]
      /\ pc[r] = "success" /\ rq[r].name \in Names
  BY DEF record_success, RequestTypes, Fits, InLogin
<1>2. PICK to \in {"provision", "grant", "issue"} : Moves(r, to, rq[r])
  <2>1. rq' = [rq EXCEPT ![r] = rq[r]]
    BY DEF record_success, RequestTypes
  <2> QED BY <2>1 DEF record_success, Goto, Moves
<1>3. CASE rq[r].name # n
  <2>1. limiter'[n] = limiter[n] /\ guesses'[n] = guesses[n]
    BY <1>1, <1>3 DEF Counters
  <2> QED BY <1>1, <1>2, <2>1, QuietStep
<1>4. CASE rq[r].name = n
  <2>1. limiter'[n] = NoFails /\ guesses'[n] = 0
    BY <1>1, <1>4 DEF Counters
  <2>2. At("fail", n)' = At("fail", n) \ {r}
    BY <1>2, AtMoves
  <2>3. Cardinality(At("fail", n)') \in Nat
    BY <2>2, AtFinite, FS_RemoveElement, FS_CardinalityType
  <2> QED BY <2>1, <2>3 DEF Guarded, NoFails
<1> QED BY <1>3, <1>4

LEMMA LimitedStep == IInv /\ Limited /\ [Next]_vars => Limited'
<1> SUFFICES ASSUME IInv, [Next]_vars, Limited, NEW n \in Names PROVE Guarded(n)'
  BY DEF Limited
<1>0. Guarded(n)
  BY DEF Limited
<1>1. ASSUME NEW r \in Requests, Request(r) PROVE Guarded(n)'
  <2>1. CASE Check(r) \/ (authenticate(r) /\ NotProved(r)) \/ record_fail(r) \/ record_success(r)
    BY <1>0, <2>1, CheckLimited, NotProvedLimited, FailLimited, SuccessLimited
  <2>2. CASE ~Check(r) /\ ~(authenticate(r) /\ NotProved(r)) /\ ~record_fail(r)
             /\ ~record_success(r)
    <3>1. limiter' = limiter
      BY <1>1, <2>2 DEF Request, authenticate, provision, grant, issue, Answer, require_user,
         create_user, update_user, delete_user, reset_password, logout, change_password,
         GiveUp, Commit
    <3>2. guesses' = guesses
      BY <1>1, <2>2 DEF Request, authenticate, Proved, provision, grant, issue, Answer,
         require_user, create_user, update_user, delete_user, reset_password, logout,
         change_password, GiveUp, Commit, history
    <3>3. PICK to \in Steps, loc \in Local : Moves(r, to, loc)
      BY <1>1, RequestMoves DEF IInv, MovesWell
    <3>4. CASE logout(r)
      <4>1. pc' = pc /\ rq' = rq
        BY <3>4 DEF logout
      <4>2. At("fail", n)' = At("fail", n) /\ At("verify", n)' = At("verify", n)
        BY <4>1 DEF At
      <4> QED BY <1>0, <3>1, <3>2, <4>2 DEF Guarded
    <3>5. CASE ~logout(r)
      <4>1. pc[r] # "fail" /\ to \notin {"fail", "verify"}
        <5>1. pc' = [pc EXCEPT ![r] = to] /\ pc \in [Requests -> Steps]
          BY <3>3 DEF Moves, IInv, Types, RequestTypes
        <5>2. pc[r] # "fail" /\ pc'[r] \notin {"fail", "verify"}
          BY <1>1, <2>2, <3>5, <5>1 DEF Request, authenticate, Proved, provision, grant, issue,
             Answer, require_user, create_user, update_user, delete_user, reset_password,
             change_password, GiveUp, Commit, Return, Goto
        <5> QED BY <5>1, <5>2
      <4> QED BY <1>0, <3>1, <3>2, <3>3, <4>1, QuietStep DEF IInv, Types
    <3> QED BY <3>4, <3>5
  <2> QED BY <2>1, <2>2
<1>2. ASSUME NEW m \in Names, LockEnds(m) \/ DirectoryChanges(m) PROVE Guarded(n)'
  <2>1. pc' = pc /\ rq' = rq
    BY <1>2 DEF LockEnds, DirectoryChanges
  <2>2. At("fail", n)' = At("fail", n) /\ At("verify", n)' = At("verify", n)
    BY <2>1 DEF At
  <2>3. CASE LockEnds(m) /\ m = n
    <3>1. guesses'[n] = 0 /\ ~limiter'[n].locked /\ limiter'[n].fails \in Nat
      BY <2>3, AccountsAssumption DEF LockEnds, IInv, Types, Counters
    <3> QED BY <2>2, <3>1, AtFinite DEF Guarded
  <2>4. CASE ~(LockEnds(m) /\ m = n)
    <3>1. guesses'[n] = guesses[n] /\ limiter'[n] = limiter[n]
      BY <1>2, <2>4 DEF LockEnds, DirectoryChanges, history, IInv, Types, Counters
    <3> QED BY <1>0, <2>2, <3>1 DEF Guarded
  <2> QED BY <2>3, <2>4
<1>3. CASE UNCHANGED vars
  BY <1>0, <1>3 DEF vars, history, Guarded, At
<1> QED BY <1>1, <1>2, <1>3 DEF Next

(* Between two ends of a lock, or successful logins, max_fails - 1 wrong    *)
(* passwords of a name are tried, and one more for each request in flight.  *)
THEOREM GuessesAreBounded == Spec => []BoundedGuesses
<1>1. Init => Limited
  <2> SUFFICES ASSUME Init, NEW n \in Names PROVE Guarded(n)
    BY DEF Limited
  <2>1. limiter[n] = NoFails /\ guesses[n] = 0
    BY DEF Init
  <2> QED BY <2>1, AtFinite DEF Guarded, NoFails
<1>2. IInv /\ Limited /\ [Next]_vars => Limited'
  BY LimitedStep
<1>3. IInv /\ Limited => BoundedGuesses
  <2> SUFFICES ASSUME IInv, NEW n \in Names, Guarded(n)
               PROVE  guesses[n] <= max_fails - 1 + Cardinality(Requests)
    BY DEF Limited, BoundedGuesses
  <2>1. /\ guesses[n] \in Nat /\ max_fails \in Nat /\ limiter[n].fails \in 0 .. max_fails - 1
    BY AccountsAssumption DEF IInv, Types, Counters
  <2>2. Cardinality(At("fail", n)) <= Cardinality(Requests)
    <3>1. At("fail", n) \subseteq Requests
      BY DEF At
    <3> QED BY <3>1, AccountsAssumption, FS_Subset
  <2> QED BY <2>1, <2>2, AtFinite DEF Guarded
<1> QED BY <1>1, <1>2, <1>3, AlwaysInv, PTL DEF Spec

-----------------------------------------------------------------------------
(* Who a session belongs to.                                                *)

\* Rows keep their id, source, name and person.
Follows(old, new) ==
  \A u \in old : \E v \in new :
    /\ v.id = u.id /\ v.source = u.source /\ v.name = u.name
    /\ v.external_id = u.external_id

LEMMA GrantedFollows ==
  ASSUME NEW table, GoodTable(table), NEW id
  PROVE  Follows(table, granted(table, id))
<1> DEFINE new(u) == IF u.id = id THEN [u EXCEPT !.is_admin = TRUE] ELSE u
<1>1. CASE granted(table, id) = table
  BY <1>1 DEF Follows
<1>2. CASE granted(table, id) = {new(u) : u \in table}
  <2>1. \A u \in table : /\ new(u).id = u.id /\ new(u).source = u.source
                         /\ new(u).name = u.name /\ new(u).external_id = u.external_id
    BY DEF GoodTable, UserRecords
  <2> HIDE DEF new
  <2> QED BY <1>2, <2>1 DEF Follows
<1> QED BY <1>1, <1>2 DEF granted

\* Only provision binds an account anew, and only delete_user removes one.
LEMMA UsersFollow ==
  ASSUME IInv, NEW r \in Requests, Request(r), ~provision(r), ~delete_user(r)
  PROVE  Follows(users, users')
<1> USE DEF IInv, Types
<1>1. CASE users' = users
  BY <1>1 DEF Follows
<1>2. CASE grant(r)
  BY <1>2, GrantedFollows DEF grant
<1>3. CASE create_user(r)
  BY <1>3 DEF create_user, Follows
<1>4. CASE update_user(r)
  <2> PICK u \in users, is_admin \in BOOLEAN \union {None}, disabled \in BOOLEAN \union {None} :
        users' = (users \ {u}) \union
            {[u EXCEPT !.is_admin = IF is_admin = None THEN u.is_admin ELSE is_admin,
                       !.disabled = IF disabled = None THEN u.disabled ELSE disabled]}
    BY <1>4 DEF update_user
  <2> DEFINE admin == IF is_admin = None THEN u.is_admin ELSE is_admin
             off == IF disabled = None THEN u.disabled ELSE disabled
             new == [u EXCEPT !.is_admin = admin, !.disabled = off]
  <2>1. users' = (users \ {u}) \union {new}
    OBVIOUS
  <2> HIDE DEF admin, off
  <2>2. new.id = u.id /\ new.source = u.source /\ new.name = u.name
        /\ new.external_id = u.external_id
    BY DEF GoodTable, UserRecords
  <2> HIDE DEF new
  <2> QED BY <2>1, <2>2 DEF Follows
<1> QED BY <1>1, <1>2, <1>3, <1>4 DEF Request, Check, authenticate, record_fail,
     record_success, issue, Answer, require_user, reset_password, logout, change_password,
     GiveUp, stored

LEMMA OwnedFollows ==
  ASSUME NEW old, NEW new, Follows(old, new), NEW id, NEW proof, Owned(old, id, proof)
  PROVE  Owned(new, id, proof)
BY DEF Owned, Follows

\* An account that a step takes away is marked.
LEMMA OwnedOrLost ==
  ASSUME IInv, NEW r \in Requests, Request(r), NEW h \in Held, h \in Held',
         Owned(users, h[1], h[2]) \/ h \in displaced
  PROVE  Owned(users', h[1], h[2]) \/ h \in displaced'
<1>1. CASE provision(r) \/ delete_user(r)
  BY <1>1 DEF provision, delete_user, Lose, Lost
<1>2. CASE ~provision(r) /\ ~delete_user(r)
  <2>1. Keep
    BY <1>2 DEF Request, Check, authenticate, record_fail, record_success, grant, issue,
       Answer, require_user, create_user, update_user, reset_password, logout,
       change_password, GiveUp
  <2> QED BY <1>2, <2>1, UsersFollow, OwnedFollows DEF Keep
<1> QED BY <1>1, <1>2

\* The account that provision answers is the person's.
LEMMA ProvisionedOwned ==
  ASSUME IInv, NEW r \in Requests, provision(r), pc'[r] = "issue"
  PROVE  Owned(users', rq'[r].id, rq'[r].proof)
<1> DEFINE name == rq[r].name  person == rq[r].proof.key
           upsert == Provisioned(name, person)
           bound == {u \in users : u.source = "ldap" /\ u.external_id = person}
           named == {u \in users : u.source = "ldap" /\ u.name = name}
<1> USE DEF IInv, Types
<1>1. /\ ~ \E u \in users : u.source = "local" /\ u.name = name
      /\ upsert.id <= MaxUserId /\ users' = granted(upsert.table, upsert.id)
      /\ rq' = [rq EXCEPT ![r].id = upsert.id]
  BY DEF provision, Return, Goto, RequestTypes
<1>2. name \in Names /\ person \in Persons /\ rq[r] \in Local /\ rq[r].proof.source = "ldap"
  BY DEF provision, RequestTypes, Fits, InLogin, HasProof, Proofs
<1>3. \E v \in upsert.table : /\ v.id = upsert.id /\ v.source = "ldap"
                              /\ v.external_id = person
  <2>1. CASE bound # {}
    <3> DEFINE u == CHOOSE u \in bound : TRUE
    <3>1. u \in users /\ u.source = "ldap" /\ u.external_id = person
      BY <2>1
    <3> HIDE DEF u
    <3>2. upsert = [table |-> users, id |-> u.id]
      BY <2>1 DEF Provisioned, u
    <3>3. upsert.table = users /\ upsert.id = u.id
      BY <3>2
    <3> QED BY <3>1, <3>3
  <2>2. CASE bound = {} /\ named # {}
    <3> DEFINE u == CHOOSE u \in named : TRUE
               new == [u EXCEPT !.external_id = person]
    <3>1. u \in users /\ u.source = "ldap"
      BY <2>2
    <3> HIDE DEF u
    <3>2. upsert = [table |-> (users \ {u}) \union {new}, id |-> u.id]
      BY <2>2 DEF Provisioned, u
    <3>3. new.id = u.id /\ new.source = u.source /\ new.external_id = person
      BY <3>1 DEF GoodTable, UserRecords
    <3>4. new \in upsert.table /\ upsert.id = u.id
      BY <3>2
    <3> QED BY <3>1, <3>3, <3>4
  <2>3. CASE bound = {} /\ named = {}
    <3> DEFINE new == NewUser(name, "ldap", person, FALSE)
    <3>1. upsert = [table |-> users \union {new}, id |-> Fresh]
      BY <2>3 DEF Provisioned
    <3>2. new \in upsert.table /\ upsert.id = Fresh
      BY <3>1
    <3>3. new.id = Fresh /\ new.source = "ldap" /\ new.external_id = person
      BY DEF NewUser
    <3> QED BY <3>2, <3>3
  <2> QED BY <2>1, <2>2, <2>3
<1>4. GoodTable(upsert.table)
  BY <1>1, <1>2, ProvisionedTable
<1> HIDE DEF upsert
<1>5. Follows(upsert.table, users')
  BY <1>1, <1>4, GrantedFollows
<1>6. \E v \in users' : v.id = upsert.id /\ v.source = "ldap" /\ v.external_id = person
  BY <1>3, <1>5 DEF Follows
<1>7. rq'[r].id = upsert.id /\ rq'[r].proof = rq[r].proof
  BY <1>1, <1>2 DEF Local, RequestTypes
<1> QED BY <1>2, <1>6, <1>7 DEF Owned

\* The steps of a login at which its proof is held.
Holding(to, loc) == to \in {"grant", "issue"} \/ (to = "success" /\ loc.proof.source = "local")

\* What a request holds after its step it held before, or its account
\* answered to it in this step.
LEMMA LoginHeld ==
  ASSUME IInv, NEW r \in Requests, Request(r), NEW q \in Requests, Holding(pc'[q], rq'[q])
  PROVE  \/ <<rq'[q].id, rq'[q].proof>> \in Held
         \/ Owned(users', rq'[q].id, rq'[q].proof)
<1> USE DEF IInv, Types, Holding
<1>1. PICK to \in Steps, loc \in Local : Moves(r, to, loc)
  BY RequestMoves DEF MovesWell
<1>2. /\ q # r => pc'[q] = pc[q] /\ rq'[q] = rq[q]
      /\ q = r => pc'[q] = to /\ rq'[q] = loc
  BY <1>1 DEF Moves, RequestTypes
<1>3. ASSUME Holding(pc[q], rq[q]), rq'[q] = rq[q]
      PROVE  <<rq'[q].id, rq'[q].proof>> \in Held
  BY <1>3 DEF Held
<1>4. CASE q # r \/ logout(r)
  <2>1. pc'[q] = pc[q] /\ rq'[q] = rq[q]
    BY <1>2, <1>4 DEF logout
  <2> QED BY <1>3, <2>1
<1>5. CASE q = r /\ authenticate(r)
  <2>1. ~Return(r) /\ ~NotProved(r) /\ users' = users
    BY <1>5 DEF Return, NotProved, Goto, RequestTypes, authenticate, stored
  <2>2. rq[r] \in Local /\ rq[r].name \in Names
    BY <1>5 DEF authenticate, RequestTypes, Fits, InLogin
  <2>3. CASE \E u \in users : u.name = rq[r].name /\ u.source = "local"
                              /\ Proved(r, "local", rq[r].name, u.id)
    <3> PICK u \in users : u.name = rq[r].name /\ u.source = "local"
                           /\ Proved(r, "local", rq[r].name, u.id)
      BY <2>3
    <3>1. rq'[r] = [rq[r] EXCEPT !.proof = [source |-> "local", key |-> u.name], !.id = u.id]
      BY DEF Proved, RequestTypes
    <3>2. rq'[r].id = u.id /\ rq'[r].proof = [source |-> "local", key |-> u.name]
      BY <2>2, <3>1 DEF Local
    <3> QED BY <1>5, <2>1, <3>2 DEF Owned
  <2>4. CASE Proved(r, "ldap", ldap_user(rq[r].name), 0)
    <3>1. rq'[r].proof.source = "ldap" /\ pc'[r] = "success"
      BY <2>2, <2>4 DEF Proved, Goto, RequestTypes, Local
    <3> QED BY <1>5, <3>1
  <2> QED BY <1>5, <2>1, <2>3, <2>4 DEF authenticate
<1>6. CASE q = r /\ record_success(r)
  <2>1. rq' = rq /\ pc[r] = "success" /\ rq[r].proof.source # "ldap" /\ rq[r].proof \in Proofs
    BY <1>6 DEF record_success, Goto, RequestTypes, Fits, HasProof
  <2>2. rq[r].proof.source = "local"
    BY <2>1 DEF Proofs
  <2> QED BY <1>3, <1>6, <2>1, <2>2
<1>7. CASE q = r /\ grant(r)
  <2>1. rq' = rq /\ pc[r] = "grant"
    BY <1>7 DEF grant
  <2> QED BY <1>3, <1>7, <2>1
<1>8. CASE q = r /\ provision(r)
  <2>1. pc'[r] = "issue"
    BY <1>1, <1>2, <1>8 DEF provision, Return, Goto, RequestTypes
  <2> QED BY <1>8, <2>1, ProvisionedOwned
<1>9. CASE q = r /\ ~logout(r) /\ ~authenticate(r) /\ ~record_success(r) /\ ~grant(r)
           /\ ~provision(r)
  <2>1. pc'[r] \notin {"success", "grant", "issue"}
    BY <1>1, <1>2, <1>9 DEF Request, Check, record_fail, issue, Answer,
       require_user, create_user, update_user, delete_user, reset_password, change_password,
       GiveUp, Commit, Return, Goto, RequestTypes
  <2> QED BY <1>9, <2>1
<1> QED BY <1>4, <1>5, <1>6, <1>7, <1>8, <1>9

\* A session's proof was in the table, or its login held it.
LEMMA SessionHeld ==
  ASSUME IInv, NEW r \in Requests, Request(r), NEW t \in sessions'
  PROVE  <<t.user, t.proof>> \in Held
<1>1. CASE issue(r)
  <2>1. t \in sessions \/ (t.user = rq[r].id /\ t.proof = rq[r].proof)
    BY <1>1 DEF issue
  <2> QED BY <1>1, <2>1 DEF issue, Held
<1>2. CASE ~issue(r)
  <2> PICK s \in sessions : s.user = t.user /\ s.proof = t.proof
    BY <1>2, RowsStay DEF IInv
  <2> QED BY DEF Held
<1> QED BY <1>1, <1>2

LEMMA OwnedStep == IInv /\ HeldOwned /\ [Next]_vars => HeldOwned'
<1> SUFFICES ASSUME IInv, HeldOwned, [Next]_vars PROVE HeldOwned'
  OBVIOUS
<1>1. ASSUME NEW r \in Requests, Request(r) PROVE HeldOwned'
  <2> SUFFICES ASSUME NEW h \in Held'
               PROVE  Owned(users', h[1], h[2]) \/ h \in displaced'
    BY DEF HeldOwned
  <2>1. CASE h \in Held
    BY <1>1, <2>1, OwnedOrLost DEF HeldOwned
  <2>2. CASE \E t \in sessions' : h = <<t.user, t.proof>>
    BY <1>1, <2>1, <2>2, SessionHeld
  <2>3. CASE \E q \in Requests : Holding(pc'[q], rq'[q]) /\ h = <<rq'[q].id, rq'[q].proof>>
    <3> PICK q \in Requests : Holding(pc'[q], rq'[q]) /\ h = <<rq'[q].id, rq'[q].proof>>
      BY <2>3
    <3>1. h \in Held \/ Owned(users', rq'[q].id, rq'[q].proof)
      BY <1>1, LoginHeld
    <3>2. h[1] = rq'[q].id /\ h[2] = rq'[q].proof
      OBVIOUS
    <3> QED BY <2>1, <3>1, <3>2
  <2> QED BY <2>2, <2>3 DEF Held, Holding
<1>2. CASE (\E n \in Names : LockEnds(n) \/ DirectoryChanges(n)) \/ UNCHANGED vars
  <2>1. UNCHANGED <<users, sessions, pc, rq, displaced>>
    BY <1>2 DEF LockEnds, DirectoryChanges, vars, stored
  <2> QED BY <2>1 DEF HeldOwned, Held
<1> QED BY <1>1, <1>2 DEF Next

(* A session belongs to the account, and to the person of the directory,    *)
(* that its login proved, through every interleaving of logins with         *)
(* administrators and with changes of the directory.  Those that provision  *)
(* itself leaves to another person, and a login whose account is deleted    *)
(* under it, are the only exceptions.                                       *)
THEOREM SessionsBelong == Spec => []SessionsAreOwned
<1>1. Init => HeldOwned
  BY DEF Init, HeldOwned, Held
<1>2. HeldOwned => SessionsAreOwned
  BY DEF HeldOwned, Held, SessionsAreOwned
<1> QED BY <1>1, <1>2, OwnedStep, AlwaysInv, PTL DEF Spec
=============================================================================
