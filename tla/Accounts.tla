------------------------------ MODULE Accounts ------------------------------
(* Accounts, logins and sessions: the table `users', the table `sessions'   *)
(* and the login limiter, as src/server/src/api/auth.rs, auth/*.rs and the  *)
(* user handlers of api/admin.rs change them.  A login takes up to six      *)
(* steps, each on a connection of its own; a request of a session first     *)
(* identifies its caller and then runs one transaction.  Passwords are not  *)
(* state: a login either proves the password of that moment or does not.    *)
EXTENDS Integers, FiniteSets, FiniteSetsExt

CONSTANTS
  None,
  Names,       \* usernames
  Persons,     \* external ids of the directory
  Directory,   \* [Names -> Persons and None], its entries at the start
  Operator,    \* the name that --create-admin is given, if it is
  Guessed,     \* the names that wrong passwords are tried for
  Requests,
  max_fails,
  first_user_admin, \* BOOLEAN
  MaxUserId,   \* bound on the ids of users
  MaxTokens,   \* bound on the sessions issued
  MaxMoves     \* bound on the changes of the directory

ASSUME AccountsAssumption ==
  /\ IsFiniteSet(Requests) /\ None \notin Persons
  /\ Directory \in [Names -> Persons \union {None}]
  /\ Operator \in Names /\ Guessed \subseteq Names
  /\ max_fails \in Nat \ {0} /\ first_user_admin \in BOOLEAN
  /\ MaxUserId \in Nat \ {0} /\ MaxTokens \in Nat /\ MaxMoves \in Nat

VARIABLES
  users,      \* table `users'
  sessions,   \* table `sessions'; `proof' is what its login proved, `delivered'
              \* that its answer carried the token
  limiter,    \* LoginLimiter's map: fails and whether locked_until is ahead
  directory,  \* the LDAP server's entries
  pc, rq,     \* requests: next step, local variables
  issued,     \* how many tokens were generated
  moves,      \* how often the directory changed
  guesses,    \* history: wrong passwords tried per name since its lock ended
              \* or a login succeeded
  ended,      \* history: tokens that were revoked
  crossed,    \* history: an administrator's request acted after its account
              \* had lost the rights it was let in with
  displaced   \* history: the proofs, each with the id it was answered with, of
              \* sessions and logins whose account went to another person of
              \* the directory, or was deleted before the session was there

stored == <<users, sessions>>
history == <<guesses, ended, crossed>>
vars == <<stored, limiter, directory, pc, rq, issued, moves, history, displaced>>

Steps == {"out", "verify", "fail", "success", "provision", "grant", "issue", "resolve",
          "admin", "change"}
Tokens == 1 .. MaxTokens
Proofs == [source : {"local"}, key : Names] \union [source : {"ldap"}, key : Persons]

Ids == {u.id : u \in users}
User(id) == CHOOSE u \in users : u.id = id
\* An INTEGER PRIMARY KEY gets the id after the largest one there is.
Fresh == IF users = {} THEN 1 ELSE Max(Ids) + 1
NewUser(name, source, person, is_admin) ==
  [id |-> Fresh, name |-> name, source |-> source, external_id |-> person,
   is_admin |-> is_admin, disabled |-> FALSE]
Of(id) == {s \in sessions : s.user = id}
\* resolve: the token is known and its account is not disabled.
resolves(s) == s.user \in Ids /\ ~User(s.user).disabled
CanAdminister(id) == \E u \in users : u.id = id /\ u.is_admin /\ ~u.disabled

NoFails == [fails |-> 0, locked |-> FALSE]
Blank == [name |-> None, proof |-> None, id |-> 0, token |-> 0]

\* A new database, or one in which --create-admin made an administrator.
Init ==
  /\ users \in {{}} \union
       {{[id |-> 1, name |-> Operator, source |-> "local", external_id |-> None,
          is_admin |-> TRUE, disabled |-> FALSE]}}
  /\ sessions = {}
  /\ limiter = [n \in Names |-> NoFails]
  /\ directory = Directory
  /\ pc = [r \in Requests |-> "out"] /\ rq = [r \in Requests |-> Blank]
  /\ issued = 0 /\ moves = 0
  /\ guesses = [n \in Names |-> 0] /\ ended = {} /\ crossed = FALSE
  /\ displaced = {}

Goto(r, step) == pc' = [pc EXCEPT ![r] = step]
Return(r) == Goto(r, "out") /\ rq' = [rq EXCEPT ![r] = Blank]

\* The account with this id is the one the proof is about.
Owned(table, id, proof) ==
  \E u \in table : /\ u.id = id /\ u.source = proof.source
                   /\ proof.key = IF u.source = "local" THEN u.name ELSE u.external_id

\* The proofs that sessions have, and logins on their way to one.
Held ==
  {<<s.user, s.proof>> : s \in sessions} \union
  {<<rq[r].id, rq[r].proof>> : r \in
     {r \in Requests : \/ pc[r] \in {"grant", "issue"}
                       \/ pc[r] = "success" /\ rq[r].proof.source = "local"}}
Lost == {h \in Held : Owned(users, h[1], h[2]) /\ ~Owned(users', h[1], h[2])}
Keep == displaced' = displaced \intersect Held'
Lose == displaced' = (displaced \union Lost) \intersect Held'

-----------------------------------------------------------------------------
(* POST /auth/login                                                         *)

\* LoginLimiter::check
Check(r) ==
  /\ pc[r] = "out"
  /\ \E n \in Names : ~limiter[n].locked /\ rq' = [rq EXCEPT ![r].name = n]
  /\ Goto(r, "verify")
  /\ UNCHANGED <<stored, limiter, directory, issued, moves, history>>
  /\ Keep

Proved(r, source, key, id) ==
  /\ Goto(r, "success")
  /\ rq' = [rq EXCEPT ![r].proof = [source |-> source, key |-> key], ![r].id = id]
  /\ UNCHANGED guesses

NotProved(r) ==
  /\ rq[r].name \in Guessed
  /\ Goto(r, "fail")
  /\ guesses' = [guesses EXCEPT ![rq[r].name] = @ + 1]
  /\ UNCHANGED rq

\* ldap::authenticate: the person of the entry that the search finds and the
\* password binds to; no entry, or several, are a wrong password.
ldap_user(name) == directory[name]

\* authenticate: a local account of that name answers, else the directory; a
\* disabled local account ends the request.
authenticate(r) ==
  LET n == rq[r].name
      local == {u \in users : u.name = n /\ u.source = "local"}
  IN /\ pc[r] = "verify"
     /\ \/ \E u \in local : u.disabled /\ Return(r) /\ UNCHANGED guesses
        \/ \E u \in local : ~u.disabled /\ Proved(r, "local", n, u.id)
        \/ local = {} /\ ldap_user(n) # None /\ Proved(r, "ldap", ldap_user(n), 0)
        \/ (\A u \in local : ~u.disabled) /\ NotProved(r)
     /\ UNCHANGED <<stored, limiter, directory, issued, moves, ended, crossed>>
     /\ Keep

record_fail_late(r) ==  \* mutant: fails > max_fails
  LET fails == limiter[rq[r].name].fails + 1
  IN /\ pc[r] = "fail"
     /\ limiter' = [limiter EXCEPT ![rq[r].name] =
                      IF fails > max_fails THEN [fails |-> 0, locked |-> TRUE]
                      ELSE [@ EXCEPT !.fails = fails]]
     /\ Return(r)
     /\ UNCHANGED <<stored, directory, issued, moves, history>>
     /\ Keep

record_fail(r) ==
  LET fails == limiter[rq[r].name].fails + 1
  IN /\ pc[r] = "fail"
     /\ limiter' = [limiter EXCEPT ![rq[r].name] =
                      IF fails >= max_fails THEN [fails |-> 0, locked |-> TRUE]
                      ELSE [@ EXCEPT !.fails = fails]]
     /\ Return(r)
     /\ UNCHANGED <<stored, directory, issued, moves, history>>
     /\ Keep

\* The entry is removed with its lock, if another request has set one.
record_success(r) ==
  /\ pc[r] = "success"
  /\ limiter' = [limiter EXCEPT ![rq[r].name] = NoFails]
  /\ guesses' = [guesses EXCEPT ![rq[r].name] = 0]
  /\ Goto(r, IF rq[r].proof.source = "ldap" THEN "provision"
             ELSE IF first_user_admin THEN "grant" ELSE "issue")
  /\ UNCHANGED <<stored, directory, rq, issued, moves, ended, crossed>>
  /\ Keep

ProvisionedByPerson(name, person) ==  \* mutant: a taken name is not looked up
  LET bound == {u \in users : u.source = "ldap" /\ u.external_id = person}
  IN IF bound # {} THEN [table |-> users, id |-> (CHOOSE u \in bound : TRUE).id]
     ELSE [table |-> users \union {NewUser(name, "ldap", person, FALSE)}, id |-> Fresh]

\* provision: the account of the person, or the one that has the name in the
\* directory and is bound to the person now, or a new one.
Provisioned(name, person) ==
  LET bound == {u \in users : u.source = "ldap" /\ u.external_id = person}
      named == {u \in users : u.source = "ldap" /\ u.name = name}
  IN IF bound # {} THEN [table |-> users, id |-> (CHOOSE u \in bound : TRUE).id]
     ELSE IF named # {}
     THEN LET u == CHOOSE u \in named : TRUE
          IN [table |-> (users \ {u}) \union {[u EXCEPT !.external_id = person]}, id |-> u.id]
     ELSE [table |-> users \union {NewUser(name, "ldap", person, FALSE)}, id |-> Fresh]

\* grant_first_admin_if_needed
granted(table, id) ==
  IF first_user_admin /\ Cardinality(table) = 1
  THEN {IF u.id = id THEN [u EXCEPT !.is_admin = TRUE] ELSE u : u \in table}
  ELSE table

provision_known(r) ==  \* mutant: an account with the name is taken as it is
  LET upsert == IF \E u \in users : u.name = rq[r].name
                THEN [table |-> users, id |-> (CHOOSE u \in users : u.name = rq[r].name).id]
                ELSE Provisioned(rq[r].name, rq[r].proof.key)
  IN /\ pc[r] = "provision"
     /\ upsert.id <= MaxUserId
     /\ users' = granted(upsert.table, upsert.id)
     /\ rq' = [rq EXCEPT ![r].id = upsert.id]
     /\ Goto(r, "issue")
     /\ UNCHANGED <<sessions, limiter, directory, issued, moves, history>>
     /\ Lose

\* One transaction: provision and grant; refused when a local account has
\* the name by now.
provision(r) ==
  LET upsert == Provisioned(rq[r].name, rq[r].proof.key)
  IN /\ pc[r] = "provision"
     /\ IF \E u \in users : u.source = "local" /\ u.name = rq[r].name
        THEN Return(r) /\ UNCHANGED users
        ELSE /\ upsert.id <= MaxUserId
             /\ users' = granted(upsert.table, upsert.id)
             /\ rq' = [rq EXCEPT ![r].id = upsert.id]
             /\ Goto(r, "issue")
     /\ UNCHANGED <<sessions, limiter, directory, issued, moves, history>>
     /\ Lose

grant(r) ==
  /\ pc[r] = "grant"
  /\ users' = granted(users, rq[r].id)
  /\ Goto(r, "issue")
  /\ UNCHANGED <<sessions, limiter, directory, rq, issued, moves, history>>
  /\ Keep

\* session::issue; the foreign key refuses an account that is gone.
issue(r) ==
  /\ pc[r] = "issue"
  /\ IF rq[r].id \in Ids
     THEN /\ issued < MaxTokens
          /\ issued' = issued + 1
          /\ sessions' = sessions \union
               {[token |-> issued + 1, user |-> rq[r].id, proof |-> rq[r].proof,
                 delivered |-> FALSE]}
          /\ rq' = [rq EXCEPT ![r] = [Blank EXCEPT !.token = issued + 1]]
          /\ Goto(r, "resolve")
     ELSE Return(r) /\ UNCHANGED <<issued, sessions>>
  /\ UNCHANGED <<users, limiter, directory, moves, history>>
  /\ Keep

\* The new token is resolved for the answer: a session that is gone already,
\* or a disabled account of the directory, makes it an error.
Answer(r) ==
  /\ pc[r] = "resolve"
  /\ sessions' = {[s EXCEPT !.delivered = @ \/ (s.token = rq[r].token /\ resolves(s))] :
                    s \in sessions}
  /\ Return(r)
  /\ UNCHANGED <<users, limiter, directory, issued, moves, history>>
  /\ Keep

-----------------------------------------------------------------------------
(* Requests of a session                                                    *)

\* require_user, and require_sysadmin before the four user handlers.
require_user(r, step) ==
  /\ pc[r] = "out"
  /\ \E s \in sessions :
       /\ s.delivered /\ resolves(s)
       /\ step = "admin" => CanAdminister(s.user)
       /\ rq' = [rq EXCEPT ![r] = [Blank EXCEPT !.id = s.user, !.token = s.token]]
  /\ Goto(r, step)
  /\ UNCHANGED <<stored, limiter, directory, issued, moves, history>>
  /\ Keep

End(gone) == sessions' = sessions \ gone /\ ended' = ended \union {s.token : s \in gone}

\* The transaction of an administrator's request ends.
Commit(r) ==
  /\ crossed' = (crossed \/ ~CanAdminister(rq[r].id))
  /\ Return(r)
  /\ UNCHANGED <<limiter, directory, issued, moves, guesses>>

create_user(r) ==
  /\ pc[r] = "admin"
  /\ Fresh <= MaxUserId
  /\ \E n \in Names, is_admin \in BOOLEAN :
       /\ \A u \in users : u.name # n
       /\ users' = users \union {NewUser(n, "local", None, is_admin)}
  /\ Commit(r)
  /\ UNCHANGED <<sessions, ended>>
  /\ Keep

update_user_of_all(r) ==  \* mutant: an administrator may demote himself
  /\ pc[r] = "admin"
  /\ \E u \in users, is_admin, disabled \in BOOLEAN :
       /\ u.id = rq[r].id => ~disabled
       /\ users' = (users \ {u}) \union
            {[u EXCEPT !.is_admin = is_admin, !.disabled = disabled]}
       /\ End(IF disabled THEN Of(u.id) ELSE {})
  /\ Commit(r)
  /\ Keep

update_user_alone(r) ==  \* mutant: disabling leaves the sessions in the table
  /\ pc[r] = "admin"
  /\ \E u \in users, is_admin, disabled \in BOOLEAN :
       /\ u.id = rq[r].id => is_admin /\ ~disabled
       /\ users' = (users \ {u}) \union
            {[u EXCEPT !.is_admin = is_admin, !.disabled = disabled]}
       /\ ended' = ended \union {s.token : s \in IF disabled THEN Of(u.id) ELSE {}}
  /\ Commit(r)
  /\ UNCHANGED sessions
  /\ Keep

\* A field that the request leaves out stays.  An administrator neither
\* disables nor demotes himself; disabling ends the sessions.
update_user(r) ==
  /\ pc[r] = "admin"
  /\ \E u \in users, is_admin, disabled \in BOOLEAN \union {None} :
       /\ u.id = rq[r].id => is_admin # FALSE /\ disabled # TRUE
       /\ users' = (users \ {u}) \union
            {[u EXCEPT !.is_admin = IF is_admin = None THEN @ ELSE is_admin,
                       !.disabled = IF disabled = None THEN @ ELSE disabled]}
       /\ End(IF disabled = TRUE THEN Of(u.id) ELSE {})
  /\ Commit(r)
  /\ Keep

\* The sessions go with the account (ON DELETE CASCADE).
delete_user(r) ==
  /\ pc[r] = "admin"
  /\ \E u \in users :
       /\ u.id # rq[r].id
       /\ users' = users \ {u}
       /\ End(Of(u.id))
  /\ Commit(r)
  /\ Lose

reset_password(r) ==
  /\ pc[r] = "admin"
  /\ \E u \in users : u.source = "local" /\ End(Of(u.id))
  /\ Commit(r)
  /\ UNCHANGED users
  /\ Keep

\* logout: revoke deletes by the token alone, so nothing that happens after
\* its require_user changes what it does.
logout(r) ==
  /\ pc[r] = "out"
  /\ \E s \in sessions : s.delivered /\ resolves(s) /\ End({s})
  /\ UNCHANGED <<users, limiter, directory, pc, rq, issued, moves, guesses, crossed>>
  /\ Keep

\* change_password: revoke_others.
change_password(r) ==
  /\ pc[r] = "change"
  /\ rq[r].id \in Ids /\ User(rq[r].id).source = "local"
  /\ End({s \in Of(rq[r].id) : s.token # rq[r].token})
  /\ Return(r)
  /\ UNCHANGED <<users, limiter, directory, issued, moves, guesses, crossed>>
  /\ Keep

-----------------------------------------------------------------------------
(* The surroundings                                                         *)

\* A request ends without effect: what it names does not exist or is still
\* referenced, the old password is wrong, the directory or the storage fails.
GiveUp(r) ==
  /\ pc[r] \notin {"out", "fail", "success"}
  /\ Return(r)
  /\ UNCHANGED <<stored, limiter, directory, issued, moves, history>>
  /\ Keep

\* locked_until passes.
LockEnds(n) ==
  /\ limiter[n].locked
  /\ limiter' = [limiter EXCEPT ![n].locked = FALSE]
  /\ guesses' = [guesses EXCEPT ![n] = 0]
  /\ UNCHANGED <<stored, directory, pc, rq, issued, moves, ended, crossed, displaced>>

\* The directory gives a name to another person.  (That an entry vanishes is no
\* change of its own: any login may fail.)
DirectoryChanges(n) ==
  /\ moves < MaxMoves
  /\ moves' = moves + 1
  /\ \E p \in Persons \ {directory[n]} :
       directory' = [m \in Names |-> IF m = n THEN p
                                     ELSE IF directory[m] = p THEN None ELSE directory[m]]
  /\ UNCHANGED <<stored, limiter, pc, rq, issued, history, displaced>>

Request(r) ==
  \/ Check(r) \/ authenticate(r) \/ record_fail(r) \/ record_success(r)
  \/ provision(r) \/ grant(r) \/ issue(r) \/ Answer(r)
  \/ \E step \in {"admin", "change"} : require_user(r, step)
  \/ create_user(r) \/ update_user(r) \/ delete_user(r) \/ reset_password(r)
  \/ logout(r) \/ change_password(r)
  \/ GiveUp(r)

Next ==
  \/ \E r \in Requests : Request(r)
  \/ \E n \in Names : LockEnds(n) \/ DirectoryChanges(n)

Spec == Init /\ [][Next]_vars

-----------------------------------------------------------------------------
(* Properties                                                               *)

\* The types, and the constraints of the tables: ids, names and the persons
\* of the directory are unique (provision and create_user ask before they
\* insert), and a session belongs to an account that exists.
TypeOK ==
  /\ \A u \in users :
       /\ u.id \in 1 .. MaxUserId /\ u.name \in Names
       /\ u.source = "local" <=> u.external_id = None
       /\ u.source = "ldap" <=> u.external_id \in Persons
       /\ u.is_admin \in BOOLEAN /\ u.disabled \in BOOLEAN
  /\ \A u, v \in users : u # v =>
       /\ u.id # v.id /\ u.name # v.name
       /\ u.external_id = v.external_id => u.external_id = None
  /\ \A s \in sessions : s.token \in Tokens /\ s.user \in Ids /\ s.proof \in Proofs
                        /\ s.delivered \in BOOLEAN
  /\ \A s, t \in sessions : s.token = t.token => s = t
  /\ limiter \in [Names -> [fails : 0 .. max_fails - 1, locked : BOOLEAN]]
  /\ directory \in [Names -> Persons \union {None}]
  /\ pc \in [Requests -> Steps]
  /\ \A r \in Requests :
       /\ rq[r].name \in Names \union {None} /\ rq[r].proof \in Proofs \union {None}
       /\ rq[r].id \in 0 .. MaxUserId /\ rq[r].token \in 0 .. MaxTokens
  /\ issued \in 0 .. MaxTokens /\ moves \in 0 .. MaxMoves
  /\ guesses \in [Names -> Nat] /\ ended \subseteq 1 .. issued /\ crossed \in BOOLEAN
  /\ displaced \subseteq (1 .. MaxUserId) \X Proofs

\* The login back-off: between two ends of a lock, or successful logins, no
\* more than max_fails wrong passwords of a name are tried, and one for each
\* other login that had passed the check before the lock was set.
BoundedGuesses ==
  \A n \in Names : guesses[n] <= max_fails - 1 + Cardinality(Requests)

\* The first login makes an administrator, and no request of administrators
\* leaves the accounts without one that can log in, unless one of them acted
\* after another had taken his rights.
AdminRemains ==
  first_user_admin /\ users # {} /\ ~crossed => \E u \in users : CanAdminister(u.id)

\* A token that was revoked (logout, another password, an account disabled or
\* deleted) is never let in again: not when the account is enabled again, not
\* when its id is given to another account.
RevocationHolds == \A s \in sessions : s.token \in ended => ~resolves(s)

\* A session belongs to the account its login proved: a local account to its
\* password, an account of the directory to its person.  Excepted are the
\* sessions, and the logins under way, that an account had when provision
\* bound it to another person (it ends none of them), and a login whose
\* account was deleted before its session was there.
SessionsAreOwned ==
  \A s \in sessions : \/ Owned(users, s.user, s.proof)
                      \/ <<s.user, s.proof>> \in displaced
=============================================================================
