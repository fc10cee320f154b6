----------------------------- MODULE LockTable -----------------------------
(* What the lock service promises: for every path at most one lock, held by *)
(* one user until that user releases it, an administrator breaks it, or it  *)
(* expires.  No other step takes a lock away.  Locks.tla is the statement   *)
(* by statement implementation.                                             *)
EXTENDS Naturals

CONSTANTS
  Users, Paths,
  None, Never,
  Expiries   \* the expiry stamps a lock can carry, Never among them

VARIABLES
  now,     \* the clock
  lock,    \* per path: None, or who holds it and until when
  last     \* the last effect the service had, and whose request caused it

tableVars == <<now, lock, last>>

Effect(op, u, p) == [op |-> op, user |-> u, path |-> p]

Expired(l) == l.expires # Never /\ l.expires <= now

TableInit == now = 0 /\ lock = [p \in Paths |-> None] /\ last = None

Tick == now' = now + 1 /\ UNCHANGED <<lock, last>>

Grant(u, p) ==
  /\ lock[p] = None
  /\ \E e \in Expiries :
       lock' = [lock EXCEPT ![p] = [owner |-> u, expires |-> e]]
  /\ last' = Effect("grant", u, p)
  /\ UNCHANGED now

Release(u, p) ==
  /\ lock[p] # None
  /\ lock[p].owner = u
  /\ lock' = [lock EXCEPT ![p] = None]
  /\ last' = Effect("release", u, p)
  /\ UNCHANGED now

Break(u, p) ==
  /\ lock[p] # None
  /\ lock' = [lock EXCEPT ![p] = None]
  /\ last' = Effect("break", u, p)
  /\ UNCHANGED now

Lapse(p) ==
  /\ lock[p] # None
  /\ Expired(lock[p])
  /\ lock' = [lock EXCEPT ![p] = None]
  /\ UNCHANGED <<now, last>>

\* The owner's heartbeat moves the expiry of all locks the table still has.
Refresh(u, e) ==
  /\ lock' = [p \in Paths |->
                IF lock[p] # None /\ lock[p].owner = u
                THEN [owner |-> u, expires |-> e] ELSE lock[p]]
  /\ last' = Effect("refresh", u, None)
  /\ UNCHANGED now

TableNext ==
  \/ Tick
  \/ \E u \in Users, p \in Paths : Grant(u, p) \/ Release(u, p) \/ Break(u, p)
  \/ \E p \in Paths : Lapse(p)
  \/ \E u \in Users, e \in Expiries : Refresh(u, e)

TableSpec == TableInit /\ [][TableNext]_tableVars
=============================================================================
