------------------------------ MODULE DbProofs ------------------------------
(* Theorems about DbPool, for every number of threads and every size of the *)
(* pool.                                                                    *)
EXTENDS DbPool, FiniteSetTheorems, TLAPS

-----------------------------------------------------------------------------
(* Counting the threads at a step.                                          *)

In(f, S) == {t \in Threads : f[t] \in S}
One(x, S) == IF x \in S THEN 1 ELSE 0
Went(f, t, b, g) == g = [f EXCEPT ![t] = b]

LEMMA InFinite ==
  ASSUME NEW f, NEW S
  PROVE  IsFiniteSet(In(f, S)) /\ Cardinality(In(f, S)) \in Nat
<1>1. In(f, S) \in SUBSET Threads
  BY DEF In
<1> QED BY <1>1, PoolAssumption, FS_Subset, FS_CardinalityType

LEMMA InMonotone ==
  ASSUME NEW f, NEW S, NEW T, S \subseteq T
  PROVE  Cardinality(In(f, S)) <= Cardinality(In(f, T))
<1>1. In(f, S) \in SUBSET In(f, T)
  BY DEF In
<1> QED BY <1>1, InFinite, FS_Subset

\* A thread that moves from a to b changes the number of those in S by one at
\* most.
LEMMA Moved ==
  ASSUME NEW f \in [Threads -> Steps], NEW t \in Threads, NEW b \in Steps, NEW S,
         NEW g, Went(f, t, b, g)
  PROVE  Cardinality(In(g, S)) = Cardinality(In(f, S)) + One(b, S) - One(f[t], S)
<1> USE DEF Went
<1>1. t \in In(f, S) <=> f[t] \in S
  BY DEF In
<1>2. IsFiniteSet(In(f, S)) /\ Cardinality(In(f, S)) \in Nat
  BY InFinite
<1>3. CASE b \in S
  <2>1. In(g, S) = In(f, S) \union {t}
    BY <1>3 DEF In
  <2>2. Cardinality(In(g, S)) =
          IF t \in In(f, S) THEN Cardinality(In(f, S)) ELSE Cardinality(In(f, S)) + 1
    BY <2>1, <1>2, FS_AddElement
  <2> QED BY <1>1, <1>2, <1>3, <2>2 DEF One
<1>4. CASE b \notin S
  <2>1. In(g, S) = In(f, S) \ {t}
    BY <1>4 DEF In
  <2>2. Cardinality(In(g, S)) =
          IF t \in In(f, S) THEN Cardinality(In(f, S)) - 1 ELSE Cardinality(In(f, S))
    BY <2>1, <1>2, FS_RemoveElement
  <2> QED BY <1>1, <1>2, <1>4, <2>2 DEF One
<1> QED BY <1>3, <1>4

\* A thread goes, out of all that is counted, as another comes.
LEMMA Swapped ==
  ASSUME NEW f \in [Threads -> Steps], NEW t \in Threads, NEW s \in Threads,
         NEW out \in Steps, NEW lock \in Steps, NEW S,
         f[t] # f[s], out \notin S, f[s] \notin S, f[t] \in S <=> lock \in S,
         NEW h, NEW g, Went(f, t, out, h), Went(h, s, lock, g)
  PROVE  Cardinality(In(g, S)) = Cardinality(In(f, S))
<1>1. h \in [Threads -> Steps] /\ h[s] = f[s]
  BY DEF Went
<1>2. Cardinality(In(h, S)) = Cardinality(In(f, S)) + One(out, S) - One(f[t], S)
  BY <1>1, Moved
<1>3. Cardinality(In(g, S)) = Cardinality(In(h, S)) + One(lock, S) - One(h[s], S)
  BY <1>1, Moved
<1>4. Cardinality(In(f, S)) \in Nat /\ Cardinality(In(h, S)) \in Nat
  BY InFinite
<1>5. One(out, S) = 0 /\ One(h[s], S) = 0
  BY <1>1 DEF One
<1>6. One(f[t], S) = One(lock, S) /\ One(lock, S) \in Nat
  BY DEF One
<1> QED BY <1>2, <1>3, <1>4, <1>5, <1>6

\* A set of steps somebody is at is counted.
LEMMA Present ==
  ASSUME NEW f, NEW S, NEW t \in Threads, f[t] \in S
  PROVE  Cardinality(In(f, S)) >= 1
<1>1. In(f, S) # {}
  BY DEF In
<1> QED BY <1>1, InFinite, FS_EmptySet

LEMMA AtIn ==
  ASSUME NEW S
  PROVE  At(S) = In(pc, S) /\ At(S)' = In(pc', S)
BY DEF At, In

-----------------------------------------------------------------------------
(* The inductive invariant: the types, the count, the mutex, and what the   *)
(* thread inside knows.                                                     *)

Owning == {"using", "open", "undo"}
Coming == {"tell", "lock", "look"}
Company == Coming \union {"using", "full"}

Types == pc \in [Threads -> Steps] /\ idle \in Nat /\ live \in Nat
Counted == live = idle + Cardinality(In(pc, Owning))
Bounded == live <= Max
\* Only one thread is under the mutex.
Mutex == \A t, u \in Threads :
           pc[t] \in {"look", "full"} /\ pc[u] \in {"look", "full"} => t = u
\* `idle' does not change under a thread that found it empty.
StillEmpty == \A t \in Threads : pc[t] = "full" => idle = 0
\* The connection that DbPool::new opened is never closed.
FirstStays == idle + Cardinality(In(pc, {"using"})) >= 1
Awake == In(pc, {"asleep"}) # {} => idle <= Cardinality(In(pc, Coming))
Accompanied == In(pc, {"asleep"}) # {} => In(pc, Company) # {}

IInv == Types /\ Counted /\ Bounded /\ Mutex /\ StillEmpty /\ FirstStays /\ Awake /\ Accompanied

LEMMA InitInv == Init => IInv
<1> SUFFICES ASSUME Init PROVE IInv
  OBVIOUS
<1>1. \A S : "out" \notin S => In(pc, S) = {}
  BY DEF Init, In
<1>2. In(pc, Owning) = {} /\ In(pc, {"using"}) = {} /\ In(pc, {"asleep"}) = {}
  BY <1>1 DEF Owning
<1>3. Cardinality(In(pc, Owning)) = 0 /\ Cardinality(In(pc, {"using"})) = 0
  BY <1>2, FS_EmptySet
<1>4. 1 <= Max
  BY PoolAssumption
<1>5. \A t \in Threads : pc[t] = "out"
  BY DEF Init
<1>6. idle = 1 /\ live = 1 /\ pc \in [Threads -> Steps]
  BY DEF Init, Steps
<1>7. Types /\ Counted /\ Bounded
  BY <1>3, <1>4, <1>6 DEF Types, Counted, Bounded
<1>8. Mutex /\ StillEmpty
  BY <1>5 DEF Mutex, StillEmpty
<1>9. FirstStays /\ Awake /\ Accompanied
  BY <1>2, <1>3, <1>6 DEF FirstStays, Awake, Accompanied
<1> QED BY <1>7, <1>8, <1>9 DEF IInv

\* What one moved thread does to the counts of the invariant.
LEMMA Counts ==
  ASSUME Types, NEW t \in Threads, NEW to \in Steps, pc' = [pc EXCEPT ![t] = to]
  PROVE  /\ Cardinality(In(pc', Owning)) =
              Cardinality(In(pc, Owning)) + One(to, Owning) - One(pc[t], Owning)
         /\ Cardinality(In(pc', {"using"})) =
              Cardinality(In(pc, {"using"})) + One(to, {"using"}) - One(pc[t], {"using"})
         /\ Cardinality(In(pc', Coming)) =
              Cardinality(In(pc, Coming)) + One(to, Coming) - One(pc[t], Coming)
<1>1. pc \in [Threads -> Steps] /\ Went(pc, t, to, pc')
  BY DEF Types, Went
<1>2. \A S : Cardinality(In(pc', S)) =
               Cardinality(In(pc, S)) + One(to, S) - One(pc[t], S)
  BY <1>1, Moved
<1> QED BY <1>2

\* The move of one thread from a step to another, whose other effects balance
\* it: each connection stays counted, and whoever sleeps is looked after.
Balanced(t, from, to) ==
  /\ pc[t] = from /\ to \in Steps /\ pc' = [pc EXCEPT ![t] = to]
  /\ idle' \in Nat /\ live' \in Nat /\ live' <= Max
  /\ live' - idle' = live - idle + One(to, Owning) - One(from, Owning)
  /\ to \in {"look", "full"} => from \in {"look", "full"} \/ MutexFree
  /\ to = "full" => idle' = 0
  /\ idle' = idle \/ from \in {"look", "full"} \/ MutexFree
  /\ idle' + One(to, {"using"}) >= idle + One(from, {"using"})
  /\ \/ idle' = 0
     \/ In(pc', {"asleep"}) = {}
     \/ to # "asleep" /\ idle' - idle <= One(to, Coming) - One(from, Coming)
  /\ \/ to \in Company \/ idle' = 0
     \/ In(pc', {"asleep"}) = {}
     \/ from \notin Company /\ to # "asleep"

\* The invariant survives such a move.
LEMMA MoveInv ==
  ASSUME IInv, NEW t \in Threads, NEW from, NEW to, Balanced(t, from, to)
  PROVE  IInv'
<1> USE DEF IInv, Balanced
<1>1. /\ Cardinality(In(pc, Owning)) \in Nat /\ Cardinality(In(pc, {"using"})) \in Nat
      /\ Cardinality(In(pc, Coming)) \in Nat /\ Cardinality(In(pc', Coming)) \in Nat
      /\ Cardinality(In(pc', Owning)) =
           Cardinality(In(pc, Owning)) + One(to, Owning) - One(from, Owning)
      /\ Cardinality(In(pc', {"using"})) =
           Cardinality(In(pc, {"using"})) + One(to, {"using"}) - One(from, {"using"})
      /\ Cardinality(In(pc', Coming)) =
           Cardinality(In(pc, Coming)) + One(to, Coming) - One(from, Coming)
  BY Counts, InFinite
<1>2. One(to, Owning) \in Nat /\ One(from, Owning) \in Nat
  BY DEF One
<1>3. One(to, Coming) \in Nat /\ One(from, Coming) \in Nat
  BY DEF One
<1>4. One(to, {"using"}) \in Nat /\ One(from, {"using"}) \in Nat
  BY DEF One
<1>5. Types'
  BY DEF Types
<1>6. Counted' /\ Bounded'
  BY <1>1, <1>2 DEF Types, Counted, Bounded
<1>7. Mutex'
  <2>1. \A u \in Threads : pc'[u] = IF u = t THEN to ELSE pc[u]
    BY DEF Types
  <2>2. MutexFree => \A u \in Threads : pc[u] \notin {"look", "full"}
    BY DEF MutexFree, At
  <2> QED BY <2>1, <2>2 DEF Mutex
<1>8. StillEmpty'
  <2>1. SUFFICES ASSUME NEW u \in Threads, pc'[u] = "full" PROVE idle' = 0
    BY DEF StillEmpty
  <2>2. CASE u = t
    BY <2>1, <2>2 DEF Types
  <2>3. CASE u # t
    <3>1. pc[u] = "full" /\ idle = 0
      BY <2>1, <2>3 DEF Types, StillEmpty
    <3>2. ~MutexFree
      BY <3>1 DEF MutexFree, At
    <3>3. from \notin {"look", "full"}
      BY <3>1, <2>3 DEF Mutex
    <3> QED BY <3>1, <3>2, <3>3
  <2> QED BY <2>2, <2>3
<1>9. FirstStays'
  BY <1>1, <1>4 DEF FirstStays, Types
<1>10. Awake'
  <2>1. CASE idle' = 0
    BY <2>1, <1>1 DEF Awake
  <2>3. CASE In(pc', {"asleep"}) = {}
    BY <2>3 DEF Awake
  <2>2. CASE to # "asleep" /\ idle' - idle <= One(to, Coming) - One(from, Coming)
    <3>1. In(pc', {"asleep"}) # {} => In(pc, {"asleep"}) # {}
      BY <2>2 DEF In, Types
    <3>2. CASE In(pc', {"asleep"}) = {}
      BY <3>2 DEF Awake
    <3>3. CASE In(pc', {"asleep"}) # {}
      <4>1. idle <= Cardinality(In(pc, Coming))
        BY <3>1, <3>3 DEF Awake
      <4>2. idle' <= Cardinality(In(pc', Coming))
        BY <2>2, <4>1, <1>1, <1>3 DEF Types
      <4> QED BY <4>2 DEF Awake
    <3> QED BY <3>2, <3>3
  <2> QED BY <2>1, <2>2, <2>3
<1>11. Accompanied'
  <2>1. CASE to \in Company
    <3>1. t \in In(pc', Company)
      BY <2>1 DEF In, Types
    <3> QED BY <3>1 DEF Accompanied
  <2>2. CASE idle' = 0
    <3>1. Cardinality(In(pc', {"using"})) # 0
      BY <2>2, <1>9, InFinite DEF FirstStays
    <3>2. In(pc', {"using"}) # {}
      BY <3>1, FS_EmptySet
    <3> QED BY <3>2 DEF Accompanied, Company, In
  <2>3. CASE from \notin Company /\ to # "asleep"
    <3>1. In(pc', {"asleep"}) # {} => In(pc, {"asleep"}) # {}
      BY <2>3 DEF In, Types
    <3>2. In(pc, Company) \subseteq In(pc', Company)
      BY <2>3 DEF In, Types
    <3> QED BY <3>1, <3>2 DEF Accompanied
  <2>4. CASE In(pc', {"asleep"}) = {}
    BY <2>4 DEF Accompanied
  <2> QED BY <2>1, <2>2, <2>3, <2>4
<1> QED BY <1>5, <1>6, <1>7, <1>8, <1>9, <1>10, <1>11

\* notify_one moves two threads: the sleeper comes as the notifier goes.
LEMMA NotifyInv ==
  ASSUME IInv, NEW t \in Threads, NotifyOne(t)
  PROVE  IInv'
<1> USE DEF IInv
<1>1. pc[t] = "tell" /\ idle' = idle /\ live' = live
  BY DEF NotifyOne
<1>2. CASE At({"asleep"}) = {}
  <2>1. pc' = [pc EXCEPT ![t] = "out"]
    BY <1>2 DEF NotifyOne, Goto
  <2>2. In(pc', {"asleep"}) = {}
    BY <1>2, <2>1 DEF In, At, Types
  <2>3. idle \in Nat /\ live \in Nat /\ live <= Max
    BY DEF Types, Bounded
  <2>4. Balanced(t, "tell", "out")
    <3>1. /\ "out" \in Steps /\ idle' \in Nat /\ live' \in Nat /\ live' <= Max
      BY <1>1, <2>3 DEF Steps
    <3>2. One("out", Owning) = 0 /\ One("tell", Owning) = 0
      BY DEF One, Owning
    <3>3. One("out", {"using"}) = 0 /\ One("tell", {"using"}) = 0
      BY DEF One
    <3>4. live' - idle' = live - idle + One("out", Owning) - One("tell", Owning)
      BY <1>1, <2>3, <3>2
    <3>5. idle' + One("out", {"using"}) >= idle + One("tell", {"using"})
      BY <1>1, <2>3, <3>3
    <3> HIDE DEF IInv
    <3> QED BY <1>1, <2>1, <2>2, <3>1, <3>4, <3>5 DEF Balanced
  <2> QED BY <2>4, MoveInv
<1>3. CASE At({"asleep"}) # {}
  <2> PICK s \in At({"asleep"}) : pc' = [pc EXCEPT ![t] = "out", ![s] = "lock"]
    BY <1>3 DEF NotifyOne
  <2>1. s \in Threads /\ pc[s] = "asleep" /\ pc \in [Threads -> Steps]
    BY DEF At, Types
  <2>2. "out" \in Steps /\ "lock" \in Steps
    BY DEF Steps
  <2> PICK h : h = [pc EXCEPT ![t] = "out"]
    OBVIOUS
  <2>3. Went(pc, t, "out", h) /\ pc' = [h EXCEPT ![s] = "lock"]
    BY <2>1 DEF Went
  <2>4. Went(h, s, "lock", pc')
    BY <2>3 DEF Went
  <2>5. \A S : "out" \notin S /\ "asleep" \notin S /\ ("tell" \in S <=> "lock" \in S)
              => Cardinality(In(pc', S)) = Cardinality(In(pc, S))
    <3> SUFFICES ASSUME NEW S, "out" \notin S, "asleep" \notin S, "tell" \in S <=> "lock" \in S
                 PROVE  Cardinality(In(pc', S)) = Cardinality(In(pc, S))
      OBVIOUS
    <3>1. pc[t] # pc[s] /\ pc[s] \notin S /\ (pc[t] \in S <=> "lock" \in S)
      BY <1>1, <2>1
    <3> HIDE DEF IInv
    <3> QED BY <3>1, <2>1, <2>2, <2>3, <2>4, Swapped
  <2>6. Cardinality(In(pc', Owning)) = Cardinality(In(pc, Owning))
    BY <2>5 DEF Owning
  <2>7. Cardinality(In(pc', {"using"})) = Cardinality(In(pc, {"using"}))
    BY <2>5
  <2>8. Cardinality(In(pc', Coming)) = Cardinality(In(pc, Coming))
    BY <2>5 DEF Coming
  <2>9. Types' /\ Counted' /\ Bounded' /\ FirstStays'
    BY <1>1, <2>1, <2>2, <2>6, <2>7 DEF Types, Counted, Bounded, FirstStays
  <2>10. \A u \in Threads : pc'[u] \in {"look", "full"} => pc'[u] = pc[u]
    BY <2>1
  <2>11. Mutex' /\ StillEmpty'
    BY <1>1, <2>10 DEF Mutex, StillEmpty
  <2>12. Awake'
    BY <1>1, <1>3, <2>8 DEF Awake, In, At
  <2>13. s \in In(pc', Company)
    BY <2>1 DEF In, Company, Coming
  <2> QED BY <2>9, <2>11, <2>12, <2>13 DEF Accompanied
<1> QED BY <1>2, <1>3

LEMMA StepInv == IInv /\ [Next]_vars => IInv'
<1> SUFFICES ASSUME IInv, [Next]_vars PROVE IInv'
  OBVIOUS
<1>0. idle \in Nat /\ live \in Nat /\ live <= Max /\ pc \in [Threads -> Steps] /\ Max \in Nat
  BY PoolAssumption DEF IInv, Types, Bounded
<1>1. ASSUME NEW t \in Threads, Ask(t) PROVE IInv'
  <2>1. pc[t] = "out" /\ pc' = [pc EXCEPT ![t] = "lock"] /\ idle' = idle /\ live' = live
    BY <1>1 DEF Ask, Goto
  <2>7. Balanced(t, "out", "lock")
    BY <1>0, <2>1 DEF Balanced, Steps, One, Owning, Coming, Company
  <2> QED BY <2>7, MoveInv
<1>2. ASSUME NEW t \in Threads, Enter(t) PROVE IInv'
  <2>1. /\ pc[t] = "lock" /\ pc' = [pc EXCEPT ![t] = "look"] /\ MutexFree
        /\ idle' = idle /\ live' = live
    BY <1>2 DEF Enter, Goto
  <2>7. Balanced(t, "lock", "look")
    BY <1>0, <2>1 DEF Balanced, Steps, One, Owning, Coming, Company
  <2> QED BY <2>7, MoveInv
<1>3. ASSUME NEW t \in Threads, Take(t) PROVE IInv'
  <2>1. /\ pc[t] = "look" /\ pc' = [pc EXCEPT ![t] = "using"] /\ idle > 0
        /\ idle' = idle - 1 /\ live' = live
    BY <1>3 DEF Take, Goto
  <2>7. Balanced(t, "look", "using")
    BY <1>0, <2>1 DEF Balanced, Steps, One, Owning, Coming, Company
  <2> QED BY <2>7, MoveInv
<1>4. ASSUME NEW t \in Threads, Reserve(t) PROVE IInv'
  <2>1. /\ pc[t] = "look" /\ pc' = [pc EXCEPT ![t] = "open"] /\ live < Max
        /\ idle = 0 /\ idle' = 0 /\ live' = live + 1
    BY <1>4 DEF Reserve, Goto
  <2>7. Balanced(t, "look", "open")
    BY <1>0, <2>1 DEF Balanced, Steps, One, Owning, Coming, Company
  <2> QED BY <2>7, MoveInv
<1>5. ASSUME NEW t \in Threads, Full(t) PROVE IInv'
  <2>1. /\ pc[t] = "look" /\ pc' = [pc EXCEPT ![t] = "full"]
        /\ idle = 0 /\ idle' = 0 /\ live' = live
    BY <1>5 DEF Full, Goto
  <2>7. Balanced(t, "look", "full")
    BY <1>0, <2>1 DEF Balanced, Steps, One, Owning, Coming, Company
  <2> QED BY <2>7, MoveInv
<1>6. ASSUME NEW t \in Threads, Wait(t) PROVE IInv'
  <2>1. pc[t] = "full" /\ pc' = [pc EXCEPT ![t] = "asleep"] /\ idle' = idle /\ live' = live
    BY <1>6 DEF Wait, Goto
  <2>2. idle = 0
    BY <2>1 DEF IInv, StillEmpty
  <2>7. Balanced(t, "full", "asleep")
    BY <1>0, <2>1, <2>2 DEF Balanced, Steps, One, Owning, Coming, Company
  <2> QED BY <2>7, MoveInv
<1>7. ASSUME NEW t \in Threads, Opened(t) PROVE IInv'
  <2>1. pc[t] = "open" /\ pc' = [pc EXCEPT ![t] = "using"] /\ idle' = idle /\ live' = live
    BY <1>7 DEF Opened, Goto
  <2>7. Balanced(t, "open", "using")
    BY <1>0, <2>1 DEF Balanced, Steps, One, Owning, Coming, Company
  <2> QED BY <2>7, MoveInv
<1>8. ASSUME NEW t \in Threads, OpenFails(t) PROVE IInv'
  <2>1. pc[t] = "open" /\ pc' = [pc EXCEPT ![t] = "undo"] /\ idle' = idle /\ live' = live
    BY <1>8 DEF OpenFails, Goto
  <2>7. Balanced(t, "open", "undo")
    BY <1>0, <2>1 DEF Balanced, Steps, One, Owning, Coming, Company
  <2> QED BY <2>7, MoveInv
<1>9. ASSUME NEW t \in Threads, Undo(t) PROVE IInv'
  <2>1. pc[t] = "undo" /\ pc' = [pc EXCEPT ![t] = "tell"] /\ idle' = idle /\ live' = live - 1
    BY <1>9 DEF Undo, Goto
  <2>2. Cardinality(In(pc, Owning)) \in Nat /\ Cardinality(In(pc, Owning)) >= 1
    BY <2>1, InFinite, Present DEF Owning
  <2>3. live - 1 \in Nat
    BY <1>0, <2>2 DEF IInv, Counted
  <2>7. Balanced(t, "undo", "tell")
    BY <1>0, <2>1, <2>3 DEF Balanced, Steps, One, Owning, Coming, Company
  <2> QED BY <2>7, MoveInv
<1>10. ASSUME NEW t \in Threads, Return(t) PROVE IInv'
  <2>1. /\ pc[t] = "using" /\ pc' = [pc EXCEPT ![t] = "tell"] /\ MutexFree
        /\ idle' = idle + 1 /\ live' = live
    BY <1>10 DEF Return, Goto
  <2>7. Balanced(t, "using", "tell")
    BY <1>0, <2>1 DEF Balanced, Steps, One, Owning, Coming, Company
  <2> QED BY <2>7, MoveInv
<1>11. ASSUME NEW t \in Threads, Spurious(t) PROVE IInv'
  <2>1. pc[t] = "asleep" /\ pc' = [pc EXCEPT ![t] = "lock"] /\ idle' = idle /\ live' = live
    BY <1>11 DEF Spurious, Goto
  <2>7. Balanced(t, "asleep", "lock")
    BY <1>0, <2>1 DEF Balanced, Steps, One, Owning, Coming, Company
  <2> QED BY <2>7, MoveInv
<1>12. CASE UNCHANGED vars
  BY <1>12 DEF vars, IInv, Types, Counted, Bounded, Mutex, StillEmpty, FirstStays, Awake,
               Accompanied, In
<1> QED BY <1>1, <1>2, <1>3, <1>4, <1>5, <1>6, <1>7, <1>8, <1>9, <1>10, <1>11, <1>12,
           NotifyInv DEF Next, Proceed

LEMMA AlwaysInv == Spec => []IInv
BY InitInv, StepInv, PTL DEF Spec

-----------------------------------------------------------------------------
(* The theorems.                                                            *)

LEMMA AtNow == \A S : At(S) = In(pc, S)
BY DEF At, In

(* Every thread is at a step of `get' or of the drop of a connection, and   *)
(* the two counters of the pool never go below zero, although fetch_sub     *)
(* runs outside the mutex.                                                  *)
THEOREM TypeCorrect == Spec => []TypeOK
<1>1. IInv => TypeOK
  BY DEF IInv, Types, TypeOK
<1> QED BY <1>1, AlwaysInv, PTL

(* However many threads ask, and whatever openings fail, `live' is exactly  *)
(* the connections that exist or are being opened, and at most the size of  *)
(* the pool.                                                                *)
THEOREM NeverExceeds == Spec => []NeverTooMany
<1>1. IInv => NeverTooMany
  BY AtNow DEF IInv, Counted, Bounded, NeverTooMany, Owning
<1> QED BY <1>1, AlwaysInv, PTL

(* No notification of a returned connection is lost: while anybody sleeps,  *)
(* as many threads are on their way to the idle connections as there are.   *)
THEOREM WakeUpsKept == Spec => []EnoughAwake
<1>1. IInv => EnoughAwake
  BY AtNow DEF IInv, Awake, EnoughAwake, Coming
<1> QED BY <1>1, AlwaysInv, PTL

(* The notification that `get' sends without the mutex after a failed       *)
(* opening may be lost, and still nobody sleeps without another thread that *)
(* will return a connection or look for one.                                *)
THEOREM CompanyKept == Spec => []NobodySleepsAlone
<1>1. IInv => NobodySleepsAlone
  BY AtNow DEF IInv, Accompanied, NobodySleepsAlone, Company, Coming
<1> QED BY <1>1, AlwaysInv, PTL

-----------------------------------------------------------------------------
(* The pool implements BoundedPool: a caller that takes or opens a          *)
(* connection is lent one, dropping it gives it back, all else stutters.    *)

\* There is room for whoever comes from outside the counted steps, or leaves
\* those being opened, to use a connection.
LEMMA Room ==
  ASSUME IInv, NEW t \in Threads,
         \/ idle > 0
         \/ pc[t] = "open"
  PROVE  Cardinality(At({"using"})) < Max
<1> USE DEF IInv
<1>1. /\ Cardinality(In(pc, {"using"})) \in Nat /\ Cardinality(In(pc, Owning)) \in Nat
      /\ Max \in Nat
  BY InFinite, PoolAssumption
<1>2. CASE idle > 0
  <2>1. Cardinality(In(pc, {"using"})) <= Cardinality(In(pc, Owning))
    BY InMonotone DEF Owning
  <2> QED BY <1>1, <1>2, <2>1, AtNow DEF Counted, Bounded, Types
<1>3. CASE pc[t] = "open"
  <2>2. IsFiniteSet(In(pc, Owning)) /\ In(pc, {"using"}) \subseteq In(pc, Owning) \ {t}
    BY <1>3, InFinite DEF In, Owning
  <2>3. t \in In(pc, Owning)
    BY <1>3 DEF In, Owning
  <2>4. Cardinality(In(pc, Owning) \ {t}) = Cardinality(In(pc, Owning)) - 1
        /\ IsFiniteSet(In(pc, Owning) \ {t})
    BY <2>2, <2>3, FS_RemoveElement
  <2>5. Cardinality(In(pc, {"using"})) <= Cardinality(In(pc, Owning) \ {t})
    BY <2>2, <2>4, FS_Subset
  <2> QED BY <1>1, <2>4, <2>5, AtNow DEF Counted, Bounded, Types
<1> QED BY <1>2, <1>3

LEMMA MapsInit == Init => Pool!Init
BY DEF Init, Pool!Init, At

LEMMA MapsStep == IInv /\ [Next]_vars => [Pool!Next]_(At({"using"}))
<1> SUFFICES ASSUME IInv, [Next]_vars PROVE [Pool!Next]_(At({"using"}))
  OBVIOUS
<1>0. pc \in [Threads -> Steps]
  BY DEF IInv, Types
<1>1. ASSUME NEW t \in Threads, Take(t) \/ Opened(t)
      PROVE  Pool!Lend(t)
  <2>1. /\ pc[t] \in {"look", "open"} /\ pc' = [pc EXCEPT ![t] = "using"]
        /\ idle > 0 \/ pc[t] = "open"
    BY <1>1 DEF Take, Opened, Goto
  <2>2. t \notin At({"using"}) /\ At({"using"})' = At({"using"}) \union {t}
    BY <1>0, <2>1 DEF At
  <2>3. Pool!Cardinality(At({"using"})) = Cardinality(At({"using"}))
    BY DEF Pool!Cardinality, Cardinality
  <2> QED BY <2>1, <2>2, <2>3, Room DEF Pool!Lend
<1>2. ASSUME NEW t \in Threads, Return(t)
      PROVE  Pool!GiveBack(t)
  <2>1. t \in At({"using"}) /\ At({"using"})' = At({"using"}) \ {t}
    BY <1>0, <1>2 DEF Return, Goto, At
  <2> QED BY <2>1 DEF Pool!GiveBack
<1>3. ASSUME NEW t \in Threads,
             \/ Ask(t) \/ Enter(t) \/ Reserve(t) \/ Full(t) \/ Wait(t) \/ OpenFails(t)
             \/ Undo(t) \/ Spurious(t)
      PROVE  UNCHANGED At({"using"})
  <2>1. \E to \in Steps \ {"using"} : pc[t] # "using" /\ pc' = [pc EXCEPT ![t] = to]
    BY <1>3 DEF Ask, Enter, Reserve, Full, Wait, OpenFails, Undo, Spurious, Goto, Steps
  <2> QED BY <1>0, <2>1 DEF At
<1>4. ASSUME NEW t \in Threads, NotifyOne(t)
      PROVE  UNCHANGED At({"using"})
  <2>1. CASE At({"asleep"}) = {}
    BY <1>0, <1>4, <2>1 DEF NotifyOne, Goto, At
  <2>2. CASE At({"asleep"}) # {}
    <3> PICK s \in At({"asleep"}) : pc' = [pc EXCEPT ![t] = "out", ![s] = "lock"]
      BY <1>4, <2>2 DEF NotifyOne
    <3>1. pc[s] # "using" /\ pc[t] # "using" /\ s \in Threads
      BY <1>4 DEF NotifyOne, At
    <3>2. \A u \in Threads : pc'[u] = "using" <=> pc[u] = "using"
      BY <1>0, <3>1
    <3> QED BY <3>2 DEF At
  <2> QED BY <2>1, <2>2
<1>5. CASE UNCHANGED vars
  BY <1>5 DEF vars, At
<1> QED BY <1>1, <1>2, <1>3, <1>4, <1>5 DEF Next, Proceed, Pool!Next

(* The pool implements the bounded pool, for any number of threads and any  *)
(* size.                                                                    *)
THEOREM Refines == Spec => ImplementsPool
BY AlwaysInv, MapsInit, MapsStep, PTL DEF Spec, ImplementsPool, Pool!Spec
=============================================================================
