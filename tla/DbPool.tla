------------------------------- MODULE DbPool -------------------------------
(* The connection pool of src/server/src/storage/pool.rs: a mutex over the  *)
(* idle connections, an atomic count of the open ones, and a condition      *)
(* variable.  Threads are the runtime's workers; each runs one handler at a *)
(* time, and no handler asks for a second connection (nor waits for another *)
(* handler) while it has one.  Steps under the mutex that touch nothing     *)
(* else are one action; the count is also changed without the mutex.        *)
EXTENDS Naturals, FiniteSets

CONSTANTS
  Threads,
  Max   \* config.rs pool_size, raised to 1 by DbPool::new

ASSUME PoolAssumption ==
  /\ IsFiniteSet(Threads)
  /\ Max \in Nat \ {0}

VARIABLES
  pc,    \* where each thread is
  idle,  \* how many connections are in `idle'
  live   \* `live': connections open or being opened

vars == <<pc, idle, live>>

(* out     asks for nothing          lock   wants the mutex, in get         *)
(* look    has it, top of the loop   full   has it, saw live >= max         *)
(* asleep  in the wait set of `cv'   open   reserved a slot, opens          *)
(* undo    opening failed            tell   about to notify_one             *)
(* using   has a connection                                                 *)
Steps == {"out", "lock", "look", "full", "asleep", "open", "undo", "tell", "using"}

At(S) == {t \in Threads : pc[t] \in S}
MutexFree == At({"look", "full"}) = {}
Goto(t, step) == pc' = [pc EXCEPT ![t] = step]

ColdInit == pc = [t \in Threads |-> "out"] /\ idle = 0 /\ live = 0  \* mutant
\* DbPool::new opens the first connection.
Init == pc = [t \in Threads |-> "out"] /\ idle = 1 /\ live = 1

-----------------------------------------------------------------------------
(* get                                                                      *)

Ask(t) == /\ pc[t] = "out"
          /\ Goto(t, "lock")
          /\ UNCHANGED <<idle, live>>

\* idle.lock(), and the same again when cv.wait returns.
Enter(t) == /\ pc[t] = "lock" /\ MutexFree
            /\ Goto(t, "look")
            /\ UNCHANGED <<idle, live>>

TakeACopy(t) ==  \* mutant: idle.last() for idle.pop()
  /\ pc[t] = "look" /\ idle > 0
  /\ Goto(t, "using")
  /\ UNCHANGED <<idle, live>>

Take(t) == /\ pc[t] = "look" /\ idle > 0
           /\ idle' = idle - 1
           /\ Goto(t, "using")
           /\ UNCHANGED live

ReserveOneMore(t) ==  \* mutant: <= for <
  /\ pc[t] = "look" /\ idle = 0 /\ live <= Max
  /\ live' = live + 1
  /\ Goto(t, "open")
  /\ UNCHANGED idle

\* fetch_add under the mutex, which is dropped before the file is opened.
Reserve(t) == /\ pc[t] = "look" /\ idle = 0 /\ live < Max
              /\ live' = live + 1
              /\ Goto(t, "open")
              /\ UNCHANGED idle

Full(t) == /\ pc[t] = "look" /\ idle = 0 /\ live >= Max
           /\ Goto(t, "full")
           /\ UNCHANGED <<idle, live>>

\* cv.wait gives up the mutex and joins the wait set in one step.
Wait(t) == /\ pc[t] = "full"
           /\ Goto(t, "asleep")
           /\ UNCHANGED <<idle, live>>

Opened(t) == /\ pc[t] = "open"
             /\ Goto(t, "using")
             /\ UNCHANGED <<idle, live>>

OpenFails(t) == /\ pc[t] = "open"
                /\ Goto(t, "undo")
                /\ UNCHANGED <<idle, live>>

\* fetch_sub WITHOUT the mutex: also between another's Full and Wait.
Undo(t) == /\ pc[t] = "undo"
           /\ live' = live - 1
           /\ Goto(t, "tell")
           /\ UNCHANGED idle

-----------------------------------------------------------------------------
(* Drop of a Pooled, notify_one, and what a condition variable may do       *)

ReturnQuietly(t) ==  \* mutant: no notify_one
  /\ pc[t] = "using" /\ MutexFree
  /\ idle' = idle + 1
  /\ Goto(t, "out")
  /\ UNCHANGED live

Return(t) == /\ pc[t] = "using" /\ MutexFree
             /\ idle' = idle + 1
             /\ Goto(t, "tell")
             /\ UNCHANGED live

NotifyOne(t) ==
  /\ pc[t] = "tell"
  /\ IF At({"asleep"}) = {}
     THEN Goto(t, "out")
     ELSE \E s \in At({"asleep"}) : pc' = [pc EXCEPT ![t] = "out", ![s] = "lock"]
  /\ UNCHANGED <<idle, live>>

\* Condition variables may wake up without a notification.
Spurious(t) == /\ pc[t] = "asleep"
               /\ Goto(t, "lock")
               /\ UNCHANGED <<idle, live>>

-----------------------------------------------------------------------------
\* What a thread does once it has asked, until it is done.
Proceed(t) == \/ Enter(t) \/ Take(t) \/ Reserve(t) \/ Full(t) \/ Wait(t)
              \/ Opened(t) \/ OpenFails(t) \/ Undo(t)
              \/ Return(t) \/ NotifyOne(t)

Next == \E t \in Threads : Ask(t) \/ Proceed(t) \/ Spurious(t)

\* The operating system runs every thread that can run, and handlers end
\* (busy_timeout bounds their statements).  Nothing makes a request come, an
\* opening succeed, or a sleeper wake by itself; and the mutex is not fair, so
\* a thread is only promised it when nobody else keeps taking it.
Fairness == \A t \in Threads : WF_vars(Proceed(t))

Spec == Init /\ [][Next]_vars /\ Fairness

-----------------------------------------------------------------------------
TypeOK == /\ pc \in [Threads -> Steps]
          /\ idle \in Nat
          /\ live \in Nat

(* `live' counts the connections that exist, idle or in use, and the slots  *)
(* being opened, and never exceeds the size of the pool, although it is     *)
(* read and changed in different critical sections (pool.rs:92-102).        *)
NeverTooMany ==
  /\ live = idle + Cardinality(At({"using", "open", "undo"}))
  /\ live <= Max

(* No wake-up for a returned connection is lost: as long as anybody sleeps, *)
(* there are as many threads awake on their way to the idle connections (or *)
(* about to notify somebody) as there are idle connections.                 *)
EnoughAwake ==
  At({"asleep"}) # {} => idle <= Cardinality(At({"tell", "lock", "look"}))

(* The wake-up for a slot that a failed opening gives back CAN be lost      *)
(* (pool.rs:102 notifies without the mutex).  That never puts everybody to  *)
(* sleep: whenever a thread sleeps, some other has a connection or is on    *)
(* its way to one, because the connection `new' opened is never closed.     *)
NobodySleepsAlone ==
  At({"asleep"}) # {} => At({"using", "tell", "lock", "look", "full"}) # {}

\* Only finitely many wake-ups without a notification.
Settles == <>[][\A t \in Threads : ~Spurious(t)]_vars

(* While somebody keeps waiting, connections keep being given out (which of *)
(* the waiters gets them, the unfair mutex decides).                        *)
KeepsServing ==
  Settles /\ <>[](At({"asleep", "lock"}) # {})
    => []<><<\E t \in Threads : Take(t) \/ Opened(t) \/ OpenFails(t)>>_vars

(* When no new requests come, every thread that waits is answered: with a   *)
(* connection, which it uses and returns, or with the error of opening one. *)
EveryoneAnswered ==
  Settles /\ <>[][\A t \in Threads : ~Ask(t)]_vars
    => <>[](At(Steps \ {"out"}) = {})

Pool == INSTANCE BoundedPool WITH lent <- At({"using"})
(* The pool implements the bounded pool.                                    *)
ImplementsPool == Pool!Spec
=============================================================================
