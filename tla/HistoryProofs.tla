--------------------------- MODULE HistoryProofs ---------------------------
(* Theorems about PathHistory, for every tree of paths, every number of     *)
(* revisions and purges, and change lists of every length.                  *)
EXTENDS PathHistory, FiniteSetTheorems, WellFoundedInduction, TLAPS

-----------------------------------------------------------------------------
(* Induction.                                                               *)

\* Every non-empty set of natural numbers has a least element.
LEMMA Least ==
  ASSUME NEW S, S \subseteq Nat, S # {}
  PROVE  \E n \in S : \A m \in S : n <= m
<1>1. PICK less : less = OpToRel(<, Nat)
  OBVIOUS
<1>2. \A m, n \in Nat : m < n => <<m, n>> \in less
  BY <1>1 DEF OpToRel
<1>3. PICK n \in S : \A m \in S : ~(<<m, n>> \in less)
  BY <1>1, NatLessThanWellFounded, WFMin
<1>4. \A m \in S : ~(m < n)
  BY <1>2, <1>3
<1> QED BY <1>4

\* Induction up to a bound, for the property of being in a set.
LEMMA UpTo ==
  ASSUME NEW N \in Nat, NEW S, 0 \in S, \A n \in 0 .. N : n < N /\ n \in S => n + 1 \in S
  PROVE  0 .. N \subseteq S
<1> DEFINE Bad == (0 .. N) \ S
<1>1. SUFFICES ASSUME Bad # {}
               PROVE  FALSE
  OBVIOUS
<1>2. Bad \subseteq Nat
  OBVIOUS
<1>3. PICK n \in Bad : \A m \in Bad : n <= m
  BY <1>1, <1>2, Least
<1>4. n \in Nat /\ n # 0 /\ n <= N
  BY <1>3
<1>5. n - 1 \in 0 .. N /\ n - 1 < N /\ n - 1 \notin Bad
  BY <1>3, <1>4
<1>6. n - 1 + 1 \in S
  BY <1>5
<1> QED BY <1>3, <1>4, <1>6

LEMMA PathsFinite == IsFiniteSet(Paths)
<1> USE HistoryAssumption
<1>1. PICK N \in Nat : N = Len(Order) /\ DOMAIN Order = 1 .. N
  OBVIOUS
<1>2. Order \in [1 .. N -> Paths] /\ \A p \in Paths : \E i \in 1 .. N : Order[i] = p
  BY <1>1
<1>3. Order \in Surjection(1 .. N, Paths)
  BY <1>2 DEF Surjection
<1>4. ExistsSurjection(1 .. N, Paths)
  BY <1>3 DEF ExistsSurjection
<1> QED BY <1>4, FS_NatSurjection

Depth(p) == Cardinality(Ancestors[p])

LEMMA ParentIsHigher ==
  ASSUME NEW p \in Paths
  PROVE  /\ Depth(p) \in Nat
         /\ Parent[p] # Root =>
              /\ Parent[p] \in Paths /\ Depth(Parent[p]) \in Nat
              /\ Depth(p) = Depth(Parent[p]) + 1
<1> USE HistoryAssumption
<1>1. \A q \in Paths : Ancestors[q] \in SUBSET Paths
  OBVIOUS
<1>2. \A q \in Paths : IsFiniteSet(Ancestors[q]) /\ Depth(q) \in Nat
  BY <1>1, PathsFinite, FS_Subset, FS_CardinalityType DEF Depth
<1>3. ASSUME Parent[p] # Root
      PROVE  /\ Parent[p] \in Paths /\ Depth(Parent[p]) \in Nat
             /\ Depth(p) = Depth(Parent[p]) + 1
  <2>1. PICK q \in Paths : q = Parent[p]
    BY <1>3
  <2>2. Ancestors[p] = Ancestors[q] \cup {q} /\ q \notin Ancestors[q]
    BY <1>3, <2>1
  <2>3. Cardinality(Ancestors[q] \cup {q}) = Cardinality(Ancestors[q]) + 1
    BY <1>2, <2>2, FS_AddElement
  <2> QED BY <1>2, <2>1, <2>2, <2>3 DEF Depth
<1> QED BY <1>2, <1>3

\* What a path has when its parent has it, all paths have.
LEMMA FromTheRoot ==
  ASSUME NEW S, \A p \in Paths : (Parent[p] # Root => Parent[p] \in S) => p \in S
  PROVE  Paths \subseteq S
<1> DEFINE Bad == Paths \ S
           Depths == {Depth(p) : p \in Bad}
<1>1. SUFFICES ASSUME Bad # {}
               PROVE  FALSE
  OBVIOUS
<1>2. Depths \subseteq Nat /\ Depths # {}
  BY <1>1, ParentIsHigher
<1>3. PICK d \in Depths : \A m \in Depths : d <= m
  <2> HIDE DEF Depths
  <2> QED BY <1>2, Least
<1>4. PICK p \in Bad : d = Depth(p)
  OBVIOUS
<1>5. Parent[p] # Root => Parent[p] \in S
  <2> SUFFICES ASSUME Parent[p] # Root, Parent[p] \notin S
               PROVE  FALSE
    OBVIOUS
  <2>1. Parent[p] \in Bad /\ Depth(p) = Depth(Parent[p]) + 1 /\ Depth(Parent[p]) \in Nat
    BY ParentIsHigher
  <2>2. Depth(p) <= Depth(Parent[p])
    BY <1>3, <1>4, <2>1
  <2> QED BY <2>1, <2>2
<1> QED BY <1>4, <1>5

-----------------------------------------------------------------------------
(* Paths.                                                                   *)

\* An ancestor of p is the parent of p or an ancestor of it.
LEMMA Above ==
  ASSUME NEW p \in Paths, NEW a
  PROVE  a \in Ancestors[p] <=>
           Parent[p] # Root /\ (a = Parent[p] \/ a \in Ancestors[Parent[p]])
BY HistoryAssumption

LEMMA AncestorsArePaths ==
  \A p \in Paths : Ancestors[p] \subseteq Paths /\ p \notin Ancestors[p] /\
                   (Parent[p] # Root => Parent[p] \in Paths)
BY HistoryAssumption

LEMMA Transitive ==
  \A p \in Paths : \A b \in Ancestors[p] : Ancestors[b] \subseteq Ancestors[p]
<1> DEFINE S == {p \in Paths : \A b \in Ancestors[p] : Ancestors[b] \subseteq Ancestors[p]}
<1>1. ASSUME NEW p \in Paths, Parent[p] # Root => Parent[p] \in S
      PROVE  p \in S
  BY <1>1, Above, AncestorsArePaths
<1>2. Paths \subseteq S
  <2> HIDE DEF S
  <2> QED BY <1>1, FromTheRoot
<1> QED BY <1>2

\* On the way down from b to e there is a child of b.
LEMMA ChildTowards ==
  \A e \in Paths : \A b \in Ancestors[e] :
    \E c \in Children(b) : c = e \/ c \in Ancestors[e]
<1> DEFINE S == {e \in Paths : \A b \in Ancestors[e] :
                   \E c \in Children(b) : c = e \/ c \in Ancestors[e]}
<1>1. ASSUME NEW e \in Paths, Parent[e] # Root => Parent[e] \in S
      PROVE  e \in S
  <2> SUFFICES ASSUME NEW b \in Ancestors[e]
               PROVE  \E c \in Children(b) : c = e \/ c \in Ancestors[e]
    OBVIOUS
  <2>1. CASE b = Parent[e]
    BY <2>1 DEF Children
  <2>2. CASE b # Parent[e]
    <3>1. Parent[e] \in S /\ b \in Ancestors[Parent[e]]
      BY <1>1, <2>2, Above
    <3>2. PICK c \in Children(b) : c = Parent[e] \/ c \in Ancestors[Parent[e]]
      BY <3>1
    <3> QED BY <1>1, <3>2, Above
  <2> QED BY <2>1, <2>2
<1>2. Paths \subseteq S
  <2> HIDE DEF S
  <2> QED BY <1>1, FromTheRoot
<1> QED BY <1>2

\* The way down from a to e leaves the way down from a to p at some b.
LEMMA Fork ==
  ASSUME NEW p \in Paths, NEW e \in Paths, NEW a \in Ancestors[p],
         a \in Ancestors[e], e \notin Ancestors[p], e # p, p \notin Ancestors[e]
  PROVE  \E b \in Ancestors[p] : \E c \in Children(b) :
           /\ b = a \/ a \in Ancestors[b]
           /\ c \notin Ancestors[p] /\ (c = e \/ c \in Ancestors[e])
<1> DEFINE Parts(x) ==
             \E b \in Ancestors[p] : \E c \in Children(b) :
               /\ b = a \/ a \in Ancestors[b]
               /\ c \notin Ancestors[p] /\ (c = x \/ c \in Ancestors[x])
           S == {x \in Paths :
                   a \in Ancestors[x] /\ x \notin Ancestors[p] /\ x # p /\ p \notin Ancestors[x]
                   => Parts(x)}
<1>1. ASSUME NEW x \in Paths, Parent[x] # Root => Parent[x] \in S
      PROVE  x \in S
  <2> SUFFICES ASSUME a \in Ancestors[x], x \notin Ancestors[p], x # p, p \notin Ancestors[x]
               PROVE  Parts(x)
    OBVIOUS
  <2>0. /\ Parent[x] # Root /\ Parent[x] \in Paths
        /\ a = Parent[x] \/ a \in Ancestors[Parent[x]]
    BY Above, AncestorsArePaths
  <2>1. CASE Parent[x] \in Ancestors[p]
    <3>1. x \in Children(Parent[x])
      BY DEF Children
    <3> QED BY <2>0, <2>1, <3>1
  <2>2. CASE Parent[x] \notin Ancestors[p]
    <3>1. a \in Ancestors[Parent[x]] /\ Parent[x] # p /\ p \notin Ancestors[Parent[x]]
      BY <2>0, <2>2, Above
    <3>2. PICK b \in Ancestors[p] : \E c \in Children(b) :
            /\ b = a \/ a \in Ancestors[b]
            /\ c \notin Ancestors[p] /\ (c = Parent[x] \/ c \in Ancestors[Parent[x]])
      BY <1>1, <2>0, <2>2, <3>1
    <3>3. \A c : c = Parent[x] \/ c \in Ancestors[Parent[x]] => c \in Ancestors[x]
      BY <2>0, Above
    <3> QED BY <3>2, <3>3
  <2> QED BY <2>1, <2>2
<1>2. Paths \subseteq S
  <2> HIDE DEF S
  <2> QED BY <1>1, FromTheRoot
<1> QED BY <1>2

-----------------------------------------------------------------------------
(* Change lists.                                                            *)

\* The stages of Apply: one per path, in their order.
Stages(s, t, C, rev) ==
  /\ s[0] = t
  /\ \A n \in 1 .. Len(Order) :
       s[n] = IF \E c \in C : c.path = Order[n]
              THEN ApplyChange(s[n - 1], CHOOSE c \in C : c.path = Order[n], rev)
              ELSE s[n - 1]

LEMMA ApplyHasStages ==
  ASSUME NEW T, NEW t \in T, NEW C, NEW rev,
         \A u \in T, c \in C : ApplyChange(u, c, rev) \in T
  PROVE  \E s \in [0 .. Len(Order) -> T] :
           Stages(s, t, C, rev) /\ Apply(t, C, rev) = s[Len(Order)]
<1> DEFINE N == Len(Order)
           Now(n) == CHOOSE c \in C : c.path = Order[n]
           Step(n, u) == IF \E c \in C : c.path = Order[n]
                         THEN ApplyChange(u, Now(n), rev) ELSE u
           Upto(n, s) == s[0] = t /\ \A i \in 1 .. n : s[i] = Step(i, s[i - 1])
           S == {n \in 0 .. N : \E s \in [0 .. n -> T] : Upto(n, s)}
<1>1. N \in Nat
  BY HistoryAssumption
<1>2. \A n, u : u \in T => Step(n, u) \in T
  OBVIOUS
<1>3. 0 \in S
  <2> DEFINE s1 == [i \in 0 .. 0 |-> t]
  <2>1. s1 \in [0 .. 0 -> T] /\ s1[0] = t
    OBVIOUS
  <2>2. \A i \in 1 .. 0 : FALSE
    OBVIOUS
  <2> HIDE DEF s1, Step
  <2>3. Upto(0, s1)
    BY <2>1, <2>2
  <2> HIDE DEF Upto
  <2> QED BY <1>1, <2>1, <2>3
<1>4. ASSUME NEW n \in 0 .. N, n < N, n \in S
      PROVE  n + 1 \in S
  <2>1. PICK s \in [0 .. n -> T] : Upto(n, s)
    BY <1>4
  <2> DEFINE s2 == [i \in 0 .. n + 1 |-> IF i = n + 1 THEN Step(n + 1, s[n]) ELSE s[i]]
  <2>2. n \in Nat /\ n + 1 \in 0 .. N
    BY <1>1, <1>4
  <2>3. s2 \in [0 .. n + 1 -> T]
    <3> HIDE DEF Step
    <3> QED BY <1>2, <2>2
  <2>4. Upto(n + 1, s2)
    <3> HIDE DEF Step
    <3>1. s2[0] = t
      BY <2>1, <2>2
    <3>2. ASSUME NEW i \in 1 .. n + 1
          PROVE  s2[i] = Step(i, s2[i - 1])
      BY <2>1, <2>2
    <3> QED BY <3>1, <3>2
  <2> HIDE DEF s2, Upto
  <2> QED BY <2>2, <2>3, <2>4
<1>5. N \in S
  <2> HIDE DEF S, N
  <2> QED BY <1>1, <1>3, <1>4, UpTo
<1>6. PICK s \in [0 .. N -> T] : Upto(N, s)
  BY <1>5
<1>7. \E f : f = [n \in 0 .. N |-> IF n = 0 THEN t ELSE Step(n, f[n - 1])]
  <2>1. s = [n \in 0 .. N |-> IF n = 0 THEN t ELSE Step(n, s[n - 1])]
    <3> HIDE DEF Step
    <3> QED BY <1>1, <1>6
  <2> QED BY <2>1
<1> DEFINE stage == CHOOSE f : f = [n \in 0 .. N |-> IF n = 0 THEN t ELSE Step(n, f[n - 1])]
<1>8. stage = [n \in 0 .. N |-> IF n = 0 THEN t ELSE Step(n, stage[n - 1])]
  <2> HIDE DEF Step, N
  <2> QED BY Zenon, <1>7
<1>9. Apply(t, C, rev) = stage[N]
  BY DEF Apply
<1> HIDE DEF stage
<1>10. 0 .. N \subseteq {n \in 0 .. N : stage[n] \in T}
  <2> DEFINE Good == {n \in 0 .. N : stage[n] \in T}
  <2> HIDE DEF Step, N
  <2>1. 0 \in Good
    BY <1>1, <1>8
  <2>2. ASSUME NEW n \in 0 .. N, n < N, n \in Good
        PROVE  n + 1 \in Good
    <3>1. n + 1 \in 0 .. N /\ n + 1 # 0 /\ n + 1 - 1 = n
      BY <1>1, <2>2
    <3>2. stage[n + 1] = Step(n + 1, stage[n])
      BY <1>8, <3>1
    <3> QED BY <1>2, <2>2, <3>1, <3>2
  <2> HIDE DEF Good
  <2>3. 0 .. N \subseteq Good
    BY <1>1, <2>1, <2>2, UpTo
  <2> QED BY <2>3 DEF Good
<1>11. stage \in [0 .. N -> T]
  <2> HIDE DEF Step, N
  <2> QED BY <1>8, <1>10
<1>12. Stages(stage, t, C, rev)
  <2>1. stage[0] = t
    BY <1>1, <1>8
  <2>2. ASSUME NEW n \in 1 .. N
        PROVE  stage[n] = Step(n, stage[n - 1])
    <3> HIDE DEF Step, N
    <3>1. n \in 0 .. N /\ n # 0
      BY <1>1
    <3> QED BY <1>8, <3>1
  <2> QED BY <2>1, <2>2 DEF Stages
<1> QED BY <1>9, <1>11, <1>12

-----------------------------------------------------------------------------
(* The tree at HEAD and the plain tree.                                     *)

Blobs == Hashes \union {Null}
Files(n) == [kind : {"file"}, hash : Blobs, rev : 1 .. n, explicit : {FALSE}]
Dirs(n) == [kind : {"dir"}, hash : {Null}, rev : 1 .. n, explicit : BOOLEAN]
Trees(n) == [Paths -> {None} \union Files(n) \union Dirs(n)]
Plains == [files : [Paths -> Blobs \union {None}], dirs : SUBSET Paths]

Puts == [path : Paths, op : {"add", "modify"}, kind : {"file"}, hash : Blobs]
Mkdirs == [path : Paths, op : {"add"}, kind : {"dir"}, hash : {Null}]
Deletes == [path : Paths, op : {"delete"}, kind : {"file", "dir"}, hash : {Null}]
Metas == [path : Paths, op : {"meta"}, kind : {"file", "dir"}, hash : {Null}]
Changes == Puts \union Mkdirs \union Deletes \union Metas

Shown(v) == Entries(v) \union UNION {Ancestors[e] : e \in Entries(v)}
NothingBelow(v, p) == \A e \in Entries(v) : p \notin Ancestors[e]
\* Files are leaves.
Good(v) ==
  /\ v \in Plains
  /\ \A p \in Paths : v.files[p] # None => p \notin v.dirs /\ NothingBelow(v, p)
\* The tree has a row for what the plain tree shows, and the right one.
Agree(t, v) ==
  \A p \in Paths :
    /\ t[p] # None <=> p \in Shown(v)
    /\ v.files[p] # None => IsFile(t, p) /\ t[p].hash = v.files[p]
    /\ t[p] # None /\ v.files[p] = None => IsDir(t, p) /\ (t[p].explicit <=> p \in v.dirs)

PlainChange(v, c) ==
  IF c \in Puts THEN [v EXCEPT !.files[c.path] = c.hash]
  ELSE IF c \in Mkdirs THEN [v EXCEPT !.dirs = v.dirs \union {c.path}]
  ELSE IF c \in Metas THEN v
  ELSE [files |-> Without(v.files, {c.path} \union Under(c.path)),
        dirs |-> v.dirs \ ({c.path} \union Under(c.path))]
\* Where the change is one that can be made.
Possible(v, c) ==
  /\ \A a \in Ancestors[c.path] : v.files[a] = None
  /\ c \in Puts \/ (c \in Deletes /\ c.kind = "file") =>
       c.path \notin v.dirs /\ NothingBelow(v, c.path)
  /\ c \in Mkdirs \/ (c \in Deletes /\ c.kind = "dir") => v.files[c.path] = None

LEMMA BelowIsPath ==
  ASSUME NEW p \in Paths
  PROVE  Under(p) = {q \in Paths : p \in Ancestors[q]}
BY HistoryAssumption DEF Under

LEMMA RowFacts ==
  ASSUME NEW n \in Nat, NEW row \in {None} \union Files(n) \union Dirs(n), row # None
  PROVE  /\ row.kind \in {"file", "dir"} /\ row.rev \in 1 .. n
         /\ row.kind = "file" <=> row \in Files(n)
         /\ row.kind = "dir" <=> row \in Dirs(n)
BY DEF Files, Dirs

LEMMA NewRows ==
  ASSUME NEW n \in Nat \ {0}
  PROVE  /\ \A h \in Blobs :
              Row("file", h, n, FALSE) \in Files(n) /\ Row("file", h, n, FALSE) # None
         /\ \A e \in BOOLEAN :
              Row("dir", Null, n, e) \in Dirs(n) /\ Row("dir", Null, n, e) # None
<1>1. ASSUME NEW h \in Blobs
      PROVE  Row("file", h, n, FALSE) \in Files(n) /\ Row("file", h, n, FALSE) # None
  <2>1. Row("file", h, n, FALSE) \in Files(n)
    BY DEF Row, Files
  <2>2. Row("file", h, n, FALSE) \in [kind : {"file", "dir"}, hash : Hashes \union {Null},
                                     rev : Nat, explicit : BOOLEAN]
    BY DEF Row, Blobs
  <2> QED BY <2>1, <2>2, HistoryAssumption
<1>2. ASSUME NEW e \in BOOLEAN
      PROVE  Row("dir", Null, n, e) \in Dirs(n) /\ Row("dir", Null, n, e) # None
  <2>1. Row("dir", Null, n, e) \in Dirs(n)
    BY DEF Row, Dirs
  <2>2. Row("dir", Null, n, e) \in [kind : {"file", "dir"}, hash : Hashes \union {Null},
                                   rev : Nat, explicit : BOOLEAN]
    BY DEF Row
  <2> QED BY <2>1, <2>2, HistoryAssumption
<1> QED BY <1>1, <1>2

LEMMA Ensured ==
  ASSUME NEW n \in Nat \ {0}, NEW t \in Trees(n), NEW p \in Paths
  PROVE  /\ EnsureDirs(t, p, n) \in Trees(n)
         /\ \A a \in Paths :
              EnsureDirs(t, p, n)[a] = IF a \in Ancestors[p] /\ t[a] = None
                                       THEN Row("dir", Null, n, FALSE) ELSE t[a]
BY NewRows DEF EnsureDirs, Trees

LEMMA Pruned ==
  ASSUME NEW n \in Nat, NEW t \in Trees(n), NEW p \in Paths
  PROVE  /\ PruneUpward(t, p) \in Trees(n)
         /\ \A a \in Paths : PruneUpward(t, p)[a] \in {None, t[a]}
         /\ \A a \in Paths \ Ancestors[p] : PruneUpward(t, p)[a] = t[a]
BY DEF PruneUpward, Without, Trees

LEMMA Removed ==
  ASSUME NEW n \in Nat, NEW t \in Trees(n), NEW gone
  PROVE  /\ Without(t, gone) \in Trees(n)
         /\ \A a \in Paths : Without(t, gone)[a] = IF a \in gone THEN None ELSE t[a]
BY DEF Without, Trees

LEMMA ApplyCases ==
  ASSUME NEW c \in Changes, NEW t, NEW n
  PROVE  /\ c \in Puts => ApplyChange(t, c, n) =
              [EnsureDirs(t, c.path, n) EXCEPT ![c.path] = Row("file", c.hash, n, FALSE)]
         /\ c \in Mkdirs => ApplyChange(t, c, n) =
              [EnsureDirs(t, c.path, n) EXCEPT ![c.path] = Row("dir", Null, n, TRUE)]
         /\ c \in Deletes => ApplyChange(t, c, n) =
              PruneUpward(Without(t, IF c.kind = "dir" THEN {c.path} \union Under(c.path)
                                     ELSE {c.path}), c.path)
         /\ c \in Metas => ApplyChange(t, c, n) = t
         /\ c.path \in Paths
         /\ c \in Puts => c \notin Mkdirs /\ c \notin Deletes
         /\ c \in Mkdirs => c \notin Deletes
BY DEF ApplyChange, Changes, Puts, Mkdirs, Deletes, Metas

\* The row of a file or directory that is put, and the paths a delete names.
NewRow(c, n) ==
  IF c \in Puts THEN Row("file", c.hash, n, FALSE) ELSE Row("dir", Null, n, TRUE)
Implicit(n) == Row("dir", Null, n, FALSE)
Gone(c) == IF c.kind = "dir" THEN {c.path} \union Under(c.path) ELSE {c.path}

\* Files and directories are put, and everything on the way to them.
LEMMA PutRows ==
  ASSUME NEW n \in Nat \ {0}, NEW t \in Trees(n), NEW c \in Puts \union Mkdirs
  PROVE  /\ c.path \in Paths
         /\ NewRow(c, n) \in Files(n) \union Dirs(n) /\ NewRow(c, n) # None
         /\ NewRow(c, n).rev = n
         /\ ApplyChange(t, c, n) \in Trees(n)
         /\ ApplyChange(t, c, n)[c.path] = NewRow(c, n)
         /\ \A a \in Ancestors[c.path] :
              t[a] = None => ApplyChange(t, c, n)[a] = Implicit(n)
         /\ \A a \in Paths \ {c.path} : a \notin Ancestors[c.path] \/ t[a] # None
                                        => ApplyChange(t, c, n)[a] = t[a]
<1> DEFINE e == EnsureDirs(t, c.path, n)
<1>1. c.path \in Paths /\ (c \in Puts => c.hash \in Blobs) /\ c \in Changes
  BY DEF Puts, Mkdirs, Changes
<1>2. ApplyChange(t, c, n) = [e EXCEPT ![c.path] = NewRow(c, n)]
  BY <1>1, ApplyCases DEF NewRow
<1>3. NewRow(c, n) \in Files(n) \union Dirs(n) /\ NewRow(c, n) # None
  BY <1>1, NewRows DEF NewRow
<1>4. NewRow(c, n).rev = n
  BY DEF Row, NewRow
<1>5. /\ e \in Trees(n)
      /\ \A a \in Paths : e[a] = IF a \in Ancestors[c.path] /\ t[a] = None
                                 THEN Implicit(n) ELSE t[a]
  BY <1>1, Ensured DEF Implicit
<1> HIDE DEF e
<1>6. ApplyChange(t, c, n) \in Trees(n)
  BY <1>1, <1>2, <1>3, <1>5 DEF Trees
<1>7. \A a \in Paths : ApplyChange(t, c, n)[a] = IF a = c.path THEN NewRow(c, n) ELSE e[a]
  BY <1>1, <1>2, <1>5 DEF Trees
<1>8. \A a \in Paths : ApplyChange(t, c, n)[a] =
        IF a = c.path THEN NewRow(c, n)
        ELSE IF a \in Ancestors[c.path] /\ t[a] = None
             THEN Implicit(n) ELSE t[a]
  BY <1>5, <1>7
<1> QED BY <1>1, <1>3, <1>4, <1>6, <1>8, AncestorsArePaths

LEMMA DeleteRows ==
  ASSUME NEW n \in Nat \ {0}, NEW t \in Trees(n), NEW c \in Deletes
  PROVE  /\ c.path \in Paths
         /\ Without(t, Gone(c)) \in Trees(n)
         /\ ApplyChange(t, c, n) = PruneUpward(Without(t, Gone(c)), c.path)
         /\ ApplyChange(t, c, n) \in Trees(n)
         /\ \A a \in Paths : ApplyChange(t, c, n)[a] \in {None, t[a]}
<1>1. c.path \in Paths /\ c \in Changes
  BY DEF Deletes, Changes
<1>2. ApplyChange(t, c, n) = PruneUpward(Without(t, Gone(c)), c.path)
  BY <1>1, ApplyCases DEF Gone
<1> DEFINE rest == Without(t, Gone(c))
<1>3. rest \in Trees(n) /\ \A a \in Paths : rest[a] \in {None, t[a]}
  BY Removed
<1> HIDE DEF rest
<1>4. /\ PruneUpward(rest, c.path) \in Trees(n)
      /\ \A a \in Paths : PruneUpward(rest, c.path)[a] \in {None, rest[a]}
  BY <1>1, <1>3, Pruned
<1>5. \A a \in Paths : PruneUpward(rest, c.path)[a] \in {None, t[a]}
  BY <1>3, <1>4
<1> QED BY <1>1, <1>2, <1>3, <1>4, <1>5 DEF rest

LEMMA ApplyTyped ==
  ASSUME NEW n \in Nat \ {0}, NEW t \in Trees(n), NEW c \in Changes
  PROVE  ApplyChange(t, c, n) \in Trees(n)
<1>1. CASE c \in Metas
  BY <1>1, ApplyCases
<1> QED BY <1>1, PutRows, DeleteRows DEF Changes

\* A row of the result is of this revision or one that was there.
LEMMA RowsStay ==
  ASSUME NEW n \in Nat \ {0}, NEW t \in Trees(n), NEW c \in Changes, NEW p \in Paths,
         ApplyChange(t, c, n)[p] # None
  PROVE  ApplyChange(t, c, n)[p].rev = n \/ ApplyChange(t, c, n)[p] = t[p]
<1>1. Implicit(n).rev = n
  BY DEF Row, Implicit
<1>2. CASE c \in Puts \union Mkdirs
  <2>1. NewRow(c, n).rev = n
    BY <1>2, PutRows
  <2>2. ApplyChange(t, c, n)[p] \in {NewRow(c, n), Implicit(n), t[p]}
    BY <1>2, PutRows
  <2> QED BY <1>1, <2>1, <2>2
<1>3. CASE c \in Deletes
  BY <1>3, DeleteRows
<1>4. CASE c \in Metas
  BY <1>4, ApplyCases
<1> QED BY <1>2, <1>3, <1>4 DEF Changes

-----------------------------------------------------------------------------
(* One change.                                                              *)

\* Two paths on the way to a third are on one way.
LEMMA OneWay ==
  \A e \in Paths : \A a, b \in Ancestors[e] :
    a = b \/ a \in Ancestors[b] \/ b \in Ancestors[a]
<1> DEFINE S == {e \in Paths : \A a, b \in Ancestors[e] :
                   a = b \/ a \in Ancestors[b] \/ b \in Ancestors[a]}
<1>1. ASSUME NEW p \in Paths, Parent[p] # Root => Parent[p] \in S
      PROVE  p \in S
  BY <1>1, Above
<1>2. Paths \subseteq S
  <2> HIDE DEF S
  <2> QED BY <1>1, FromTheRoot
<1> QED BY <1>2

LEMMA ShownBy ==
  ASSUME NEW v \in Plains
  PROVE  /\ Entries(v) \subseteq Paths
         /\ \A a \in Paths : a \in Shown(v) <=>
              \E e \in Entries(v) : a = e \/ a \in Ancestors[e]
         /\ \A p \in Paths : p \in Entries(v) <=> v.files[p] # None \/ p \in v.dirs
BY AncestorsArePaths DEF Shown, Entries, Plains

LEMMA PutAgrees ==
  ASSUME NEW n \in Nat \ {0}, NEW t \in Trees(n), NEW v, Good(v), Agree(t, v),
         NEW c \in Puts \union Mkdirs, Possible(v, c)
  PROVE  /\ Good(PlainChange(v, c))
         /\ Agree(ApplyChange(t, c, n), PlainChange(v, c))
<1> DEFINE p == c.path
           w == PlainChange(v, c)
           t2 == ApplyChange(t, c, n)
<1>1. v \in Plains /\ p \in Paths
  BY PutRows DEF Good
<1>2. /\ w \in Plains
      /\ \A q \in Paths : w.files[q] = IF q = p /\ c \in Puts THEN c.hash ELSE v.files[q]
      /\ w.dirs = IF c \in Puts THEN v.dirs ELSE v.dirs \union {p}
      /\ c \in Puts => c.hash # None
  <2>1. CASE c \in Puts
    <3>1. c.hash \in Blobs /\ c.hash # None
      BY <2>1, HistoryAssumption DEF Puts, Blobs
    <3>2. w = [v EXCEPT !.files[p] = c.hash]
      BY <2>1 DEF PlainChange
    <3> QED BY <1>1, <2>1, <3>1, <3>2 DEF Plains
  <2>2. CASE c \in Mkdirs
    <3>1. c \notin Puts
      BY <2>2 DEF Puts, Mkdirs
    <3>2. w = [v EXCEPT !.dirs = v.dirs \union {p}]
      BY <2>2, <3>1 DEF PlainChange
    <3> QED BY <1>1, <3>1, <3>2 DEF Plains
  <2> QED BY <2>1, <2>2
<1>3. Entries(w) = Entries(v) \union {p}
  BY <1>1, <1>2, ShownBy
<1>4. \A a \in Paths : a \in Shown(w) <=> a \in Shown(v) \/ a = p \/ a \in Ancestors[p]
  BY <1>1, <1>2, <1>3, ShownBy
<1>5. /\ \A a \in Ancestors[p] : v.files[a] = None
      /\ c \in Puts => p \notin v.dirs /\ NothingBelow(v, p)
      /\ c \in Mkdirs => v.files[p] = None
  BY DEF Possible
<1>6. /\ NewRow(c, n) # None
      /\ t2[p] = NewRow(c, n)
      /\ \A a \in Ancestors[p] : t[a] = None => t2[a] = Implicit(n)
      /\ \A a \in Paths \ {p} : a \notin Ancestors[p] \/ t[a] # None => t2[a] = t[a]
  BY PutRows
<1>7. Good(w)
  <2> HIDE DEF w
  <2>1. ASSUME NEW q \in Paths, w.files[q] # None
        PROVE  q \notin w.dirs /\ NothingBelow(w, q)
    <3>1. CASE q = p /\ c \in Puts
      BY <1>1, <1>2, <1>3, <1>5, <3>1, AncestorsArePaths DEF NothingBelow
    <3>2. CASE ~(q = p /\ c \in Puts)
      <4>1. v.files[q] # None /\ q \notin v.dirs /\ NothingBelow(v, q)
        BY <1>2, <2>1, <3>2 DEF Good
      <4>2. q \notin Ancestors[p] /\ (c \in Mkdirs => q # p)
        BY <1>5, <4>1
      <4> QED BY <1>2, <1>3, <3>2, <4>1, <4>2 DEF NothingBelow
    <3> QED BY <3>1, <3>2
  <2> QED BY <1>2, <2>1 DEF Good
<1>8. Agree(t2, w)
  <2> HIDE DEF w, t2
  <2> SUFFICES ASSUME NEW a \in Paths
               PROVE  /\ t2[a] # None <=> a \in Shown(w)
                      /\ w.files[a] # None => IsFile(t2, a) /\ t2[a].hash = w.files[a]
                      /\ t2[a] # None /\ w.files[a] = None =>
                           IsDir(t2, a) /\ (t2[a].explicit <=> a \in w.dirs)
    BY DEF Agree
  <2>1. /\ t[a] # None <=> a \in Shown(v)
        /\ v.files[a] # None => IsFile(t, a) /\ t[a].hash = v.files[a]
        /\ t[a] # None /\ v.files[a] = None => IsDir(t, a) /\ (t[a].explicit <=> a \in v.dirs)
    BY DEF Agree
  <2>2. CASE a = p
    <3>1. CASE c \in Puts
      BY <1>1, <1>2, <1>4, <1>6, <2>2, <3>1 DEF NewRow, Row, IsFile
    <3>2. CASE c \in Mkdirs
      <4>1. c \notin Puts
        BY <3>2 DEF Puts, Mkdirs
      <4> QED BY <1>1, <1>2, <1>4, <1>5, <1>6, <2>2, <3>2, <4>1 DEF NewRow, Row, IsDir
    <3> QED BY <3>1, <3>2
  <2>3. CASE a # p /\ a \in Ancestors[p] /\ t[a] = None
    <3>1. t2[a] = Implicit(n) /\ t2[a] # None
      BY <1>6, <2>3, NewRows DEF Implicit
    <3>2. w.files[a] = None /\ a \notin v.dirs /\ a \notin w.dirs
      BY <1>1, <1>2, <1>5, <2>1, <2>3, ShownBy
    <3> QED BY <1>4, <2>3, <3>1, <3>2 DEF Row, Implicit, IsDir
  <2>4. CASE a # p /\ ~(a \in Ancestors[p] /\ t[a] = None)
    <3>1. t2[a] = t[a] /\ w.files[a] = v.files[a] /\ (a \in w.dirs <=> a \in v.dirs)
      BY <1>2, <1>6, <2>4
    <3> QED BY <1>4, <2>1, <2>4, <3>1 DEF IsFile, IsDir
  <2> QED BY <2>2, <2>3, <2>4
<1> QED BY <1>7, <1>8

\* Nothing keeps the directory b: it is not explicit, and has no child off
\* the way to p.
Bare(t, p, b) ==
  /\ t[b] # None => ~t[b].explicit
  /\ \A c \in Children(b) : t[c] # None => c \in Ancestors[p]

LEMMA PruneRows ==
  ASSUME NEW t, NEW p \in Paths, NEW a \in Paths
  PROVE  /\ PruneUpward(t, p)[a] \in {None, t[a]}
         /\ PruneUpward(t, p)[a] = None <=>
              \/ t[a] = None
              \/ /\ a \in Ancestors[p]
                 /\ \A b \in Ancestors[p] : b = a \/ a \in Ancestors[b] => Bare(t, p, b)
<1> DEFINE gone == {x \in Ancestors[p] :
                      \A b \in Ancestors[p] : (b = x \/ x \in Ancestors[b]) => Bare(t, p, b)}
<1>1. PruneUpward(t, p) = Without(t, gone)
  BY DEF PruneUpward, Bare
<1>2. PruneUpward(t, p)[a] = IF a \in gone THEN None ELSE t[a]
  BY <1>1 DEF Without
<1>3. a \in gone <=> /\ a \in Ancestors[p]
                     /\ \A b \in Ancestors[p] : b = a \/ a \in Ancestors[b] => Bare(t, p, b)
  OBVIOUS
<1> HIDE DEF gone
<1> QED BY <1>2, <1>3

LEMMA DeleteAgrees ==
  ASSUME NEW n \in Nat \ {0}, NEW t \in Trees(n), NEW v, Good(v), Agree(t, v),
         NEW c \in Deletes, Possible(v, c)
  PROVE  /\ Good(PlainChange(v, c))
         /\ Agree(ApplyChange(t, c, n), PlainChange(v, c))
<1> DEFINE p == c.path
           w == PlainChange(v, c)
           t1 == Without(t, Gone(c))
           t2 == ApplyChange(t, c, n)
           Off(q) == q # p /\ p \notin Ancestors[q]
<1>1. v \in Plains /\ p \in Paths /\ t2 = PruneUpward(t1, p)
  BY DeleteRows DEF Good
<1>2. \A q \in Paths : q \in {p} \union Under(p) <=> ~Off(q)
  BY <1>1, BelowIsPath
<1>3. /\ w \in Plains
      /\ \A q \in Paths : w.files[q] = IF Off(q) THEN v.files[q] ELSE None
      /\ \A q \in Paths : q \in w.dirs <=> q \in v.dirs /\ Off(q)
  <2>1. c \notin Puts /\ c \notin Mkdirs /\ c \notin Metas
    BY DEF Puts, Mkdirs, Deletes, Metas
  <2> DEFINE gone == {p} \union Under(p)
  <2>2. w = [files |-> Without(v.files, gone), dirs |-> v.dirs \ gone]
    BY <2>1 DEF PlainChange
  <2> HIDE DEF gone, Off, w
  <2>3. \A q \in Paths : q \in gone <=> ~Off(q)
    BY <1>2 DEF gone
  <2>4. w.files = [q \in Paths |-> IF q \in gone THEN None ELSE v.files[q]]
    BY <2>2 DEF Without
  <2>5. w.dirs = v.dirs \ gone
    BY <2>2
  <2>6. w.files \in [Paths -> Blobs \union {None}]
    BY <1>1, <2>4 DEF Plains
  <2>7. w \in Plains
    BY <1>1, <2>2, <2>5, <2>6 DEF Plains
  <2> QED BY <1>1, <2>3, <2>4, <2>5, <2>7 DEF Plains
<1>4. \A e : e \in Entries(w) <=> e \in Entries(v) /\ Off(e)
  BY <1>1, <1>3, ShownBy
<1>5. /\ \A a \in Ancestors[p] : v.files[a] = None
      /\ c.kind # "dir" => p \notin v.dirs /\ NothingBelow(v, p)
  BY DEF Possible, Deletes
<1>6. \A q \in Paths : /\ t[q] # None <=> q \in Shown(v)
                       /\ v.files[q] # None => IsFile(t, q) /\ t[q].hash = v.files[q]
                       /\ t[q] # None /\ v.files[q] = None =>
                            IsDir(t, q) /\ (t[q].explicit <=> q \in v.dirs)
  BY DEF Agree
<1>7. \A q \in Paths : t1[q] = IF Off(q) THEN t[q] ELSE None
  <2> SUFFICES ASSUME NEW q \in Paths
               PROVE  t1[q] = IF Off(q) THEN t[q] ELSE None
    OBVIOUS
  <2>1. t1[q] = IF q \in Gone(c) THEN None ELSE t[q]
    BY Removed
  <2>2. CASE c.kind = "dir"
    BY <1>2, <2>1, <2>2 DEF Gone
  <2>3. CASE c.kind # "dir"
    <3>1. p \in Ancestors[q] => t[q] = None
      <4> SUFFICES ASSUME p \in Ancestors[q], q \in Shown(v)
                   PROVE  FALSE
        BY <1>6
      <4>1. PICK e \in Entries(v) : q = e \/ q \in Ancestors[e]
        BY <1>1, ShownBy
      <4>2. p \in Ancestors[e] /\ e \in Paths
        BY <1>1, <4>1, Transitive, ShownBy
      <4> QED BY <1>5, <2>3, <4>1, <4>2 DEF NothingBelow
    <3> QED BY <2>1, <2>3, <3>1 DEF Gone
  <2> QED BY <2>2, <2>3
<1> HIDE DEF w, t1, t2
<1>8. Good(w)
  <2>1. ASSUME NEW q \in Paths, w.files[q] # None
        PROVE  q \notin w.dirs /\ NothingBelow(w, q)
    BY <1>3, <1>4, <2>1 DEF Good, NothingBelow
  <2> QED BY <1>3, <2>1 DEF Good
<1>9. ASSUME NEW a \in Paths, NEW e \in Entries(v), a = e \/ a \in Ancestors[e], Off(e)
      PROVE  t2[a] # None
  <2>1. e \in Paths /\ a \in Shown(v) /\ t[a] # None
    BY <1>1, <1>6, <1>9, ShownBy
  <2>2. Off(a)
    BY <1>9, <2>1, Transitive
  <2>3. t1[a] # None
    BY <1>7, <2>1, <2>2
  <2>4. CASE a \notin Ancestors[p]
    BY <1>1, <2>3, <2>4, PruneRows
  <2>5. CASE a \in Ancestors[p]
    <3>1. \E b \in Ancestors[p] : (b = a \/ a \in Ancestors[b]) /\ ~Bare(t1, p, b)
      <4>1. CASE e \in Ancestors[p]
        <5>1. e \in v.dirs /\ v.files[e] = None
          BY <1>1, <1>5, <2>1, <4>1, ShownBy
        <5>2. e \in Shown(v) /\ t[e] # None /\ t[e].explicit
          BY <1>1, <1>6, <2>1, <5>1, ShownBy
        <5>3. t1[e] = t[e]
          BY <1>7, <1>9, <2>1
        <5> QED BY <1>9, <4>1, <5>2, <5>3 DEF Bare
      <4>2. CASE e \notin Ancestors[p]
        <5>1. a \in Ancestors[e]
          BY <1>9, <2>5, <4>2
        <5>2. PICK b \in Ancestors[p] : \E k \in Children(b) :
                /\ b = a \/ a \in Ancestors[b]
                /\ k \notin Ancestors[p] /\ (k = e \/ k \in Ancestors[e])
          BY <1>1, <1>9, <2>1, <2>5, <4>2, <5>1, Fork
        <5>3. PICK k \in Children(b) :
                /\ b = a \/ a \in Ancestors[b]
                /\ k \notin Ancestors[p] /\ (k = e \/ k \in Ancestors[e])
          BY <5>2
        <5>4. k \in Paths /\ k \in Shown(v) /\ Off(k)
          BY <1>1, <1>9, <2>1, <5>3, ShownBy, Transitive DEF Children
        <5>5. t1[k] # None
          BY <1>6, <1>7, <5>4
        <5> QED BY <5>3, <5>5 DEF Bare
      <4> QED BY <4>1, <4>2
    <3> QED BY <1>1, <2>3, <3>1, PruneRows
  <2> QED BY <2>4, <2>5
<1>10. ASSUME NEW a \in Paths, t2[a] # None
       PROVE  \E e \in Entries(v) : (a = e \/ a \in Ancestors[e]) /\ Off(e)
  <2> SUFFICES ASSUME \A e \in Entries(v) : a = e \/ a \in Ancestors[e] => ~Off(e)
               PROVE  FALSE
    OBVIOUS
  <2>1. t1[a] # None
    BY <1>1, <1>10, PruneRows
  <2>2. Off(a) /\ t[a] # None
    BY <1>7, <2>1
  <2>3. PICK e \in Entries(v) : a = e \/ a \in Ancestors[e]
    BY <1>1, <1>6, <2>2, ShownBy
  <2>4. e \in Paths /\ ~Off(e) /\ a \in Ancestors[e]
    BY <1>1, <2>2, <2>3, ShownBy
  <2>5. a \in Ancestors[p]
    BY <1>1, <2>2, <2>4, OneWay
  <2>6. PICK b \in Ancestors[p] : (b = a \/ a \in Ancestors[b]) /\ ~Bare(t1, p, b)
    BY <1>1, <1>10, <2>1, <2>5, PruneRows
  <2>7. b \in Paths
    BY <1>1, AncestorsArePaths
  <2>8. CASE t1[b] # None /\ t1[b].explicit
    <3>1. Off(b) /\ t[b] # None /\ t[b].explicit
      BY <1>7, <2>7, <2>8
    <3>2. b \in v.dirs
      BY <1>5, <1>6, <2>7, <3>1
    <3> QED BY <1>1, <2>6, <2>7, <3>1, <3>2, ShownBy
  <2>9. CASE \E k \in Children(b) : t1[k] # None /\ k \notin Ancestors[p]
    <3>1. PICK k \in Children(b) : t1[k] # None /\ k \notin Ancestors[p]
      BY <2>9
    <3>2. k \in Paths /\ Off(k) /\ t[k] # None
      BY <1>7, <3>1 DEF Children
    <3>3. PICK e2 \in Entries(v) : k = e2 \/ k \in Ancestors[e2]
      BY <1>1, <1>6, <3>2, ShownBy
    <3>4. b \in Ancestors[k] /\ a \in Ancestors[k]
      <4>1. Parent[k] = b /\ Parent[k] # Root
        BY <2>7, <3>1, HistoryAssumption DEF Children
      <4> QED BY <2>6, <2>7, <3>2, <4>1, Above
    <3>5. e2 \in Paths /\ a \in Ancestors[e2]
      BY <1>1, <3>2, <3>3, <3>4, Transitive, ShownBy
    <3>6. ~Off(e2)
      BY <3>5
    <3> QED BY <1>1, <3>1, <3>2, <3>3, <3>5, <3>6, OneWay
  <2> QED BY <2>6, <2>8, <2>9 DEF Bare
<1>11. Agree(t2, w)
  <2> SUFFICES ASSUME NEW a \in Paths
               PROVE  /\ t2[a] # None <=> a \in Shown(w)
                      /\ w.files[a] # None => IsFile(t2, a) /\ t2[a].hash = w.files[a]
                      /\ t2[a] # None /\ w.files[a] = None =>
                           IsDir(t2, a) /\ (t2[a].explicit <=> a \in w.dirs)
    BY DEF Agree
  <2>1. t2[a] # None <=> a \in Shown(w)
    BY <1>3, <1>4, <1>9, <1>10, ShownBy
  <2>2. t2[a] # None => t2[a] = t[a] /\ Off(a)
    BY <1>1, <1>7, PruneRows
  <2>3. w.files[a] # None => t2[a] # None
    BY <1>3, <2>1, ShownBy
  <2> HIDE DEF Off
  <2> QED BY <1>3, <1>6, <2>1, <2>2, <2>3 DEF IsFile, IsDir
<1> QED BY <1>8, <1>11 DEF w, t2

LEMMA ChangeAgrees ==
  ASSUME NEW n \in Nat \ {0}, NEW t \in Trees(n), NEW v, Good(v), Agree(t, v),
         NEW c \in Changes, Possible(v, c)
  PROVE  /\ Good(PlainChange(v, c))
         /\ Agree(ApplyChange(t, c, n), PlainChange(v, c))
<1>1. CASE c \in Metas
  <2>1. PlainChange(v, c) = v /\ ApplyChange(t, c, n) = t
    BY <1>1, ApplyCases DEF PlainChange, Puts, Mkdirs, Metas
  <2> QED BY <2>1
<1> QED BY <1>1, PutAgrees, DeleteAgrees DEF Changes

-----------------------------------------------------------------------------
(* A change list.                                                           *)

\* Each change of the list can be made, and none is in another one's way.
Fitting(C, v) ==
  /\ C \subseteq Changes
  /\ \A c, d \in C : c.path = d.path => c = d
  /\ \A c \in C : Possible(v, c)
  /\ \A c \in Puts \cap C, d \in C : c.path \notin Ancestors[d.path]
  /\ \A c \in Deletes \cap C, d \in C : c.path \in Ancestors[d.path] => d \in Deletes

LEMMA ChangeKinds ==
  ASSUME NEW c \in Changes
  PROVE  /\ c.path \in Paths
         /\ c \in Deletes <=> c.op = "delete"
         /\ c \in Puts <=> c.op \in {"add", "modify"} /\ c.kind = "file"
         /\ c \in Mkdirs <=> c.op = "add" /\ c.kind = "dir"
         /\ c \in Metas <=> c.op = "meta"
         /\ c \in Puts \union Mkdirs \union Deletes \union Metas
         /\ c \in Puts => c.hash \in Blobs /\ c.hash # None
BY HistoryAssumption DEF Changes, Puts, Mkdirs, Deletes, Metas, Blobs

\* What each path holds after a list.
LEMMA AfterRows ==
  ASSUME NEW v \in Plains, NEW C, C \subseteq Changes,
         \A c, d \in C : c.path = d.path => c = d
  PROVE  /\ After(v, C) \in Plains
         /\ \A c \in C : c \in Puts => After(v, C).files[c.path] = c.hash
         /\ \A p \in Paths : (\A c \in C : c.path = p => c \notin Puts) =>
              After(v, C).files[p] =
                IF \E c \in C : c \in Deletes /\ (p = c.path \/ c.path \in Ancestors[p])
                THEN None ELSE v.files[p]
         /\ \A p \in Paths : p \in After(v, C).dirs <=>
              \/ \E c \in C : c \in Mkdirs /\ c.path = p
              \/ p \in v.dirs /\ \A c \in C : c \in Deletes =>
                                   p # c.path /\ c.path \notin Ancestors[p]
<1> DEFINE puts(p) == {c \in C : c.path = p /\ c.op \in {"add", "modify"} /\ c.kind = "file"}
           made == {c.path : c \in {x \in C : x.op = "add" /\ x.kind = "dir"}}
           gone == UNION {{c.path} \union Under(c.path) : c \in {x \in C : x.op = "delete"}}
           files == [p \in Paths |-> IF puts(p) # {} THEN (CHOOSE c \in puts(p) : TRUE).hash
                                     ELSE IF p \in gone THEN None ELSE v.files[p]]
           dirs == (v.dirs \ gone) \union made
<1>1. After(v, C) = [files |-> files, dirs |-> dirs]
  BY DEF After
<1>2. \A p \in Paths : p \in gone <=>
        \E c \in C : c \in Deletes /\ (p = c.path \/ c.path \in Ancestors[p])
  BY ChangeKinds, BelowIsPath
<1>3. made = {c.path : c \in {x \in C : x \in Mkdirs}}
  BY ChangeKinds
<1>4. \A c \in C : c \in Puts => puts(c.path) = {c}
  BY ChangeKinds
<1>5. \A p \in Paths : (\A c \in C : c.path = p => c \notin Puts) => puts(p) = {}
  BY ChangeKinds
<1>6. ASSUME NEW p \in Paths
      PROVE  files[p] \in Blobs \union {None}
  <2>1. CASE puts(p) # {}
    <3>1. PICK c \in C : puts(p) = {c} /\ c.hash \in Blobs
      BY <1>4, <2>1, ChangeKinds
    <3> QED BY <3>1
  <2>2. CASE puts(p) = {}
    BY <2>2 DEF Plains
  <2> QED BY <2>1, <2>2
<1>7. made \subseteq Paths
  BY ChangeKinds
<1>8. \A c \in C : c \in Puts => files[c.path] = c.hash
  BY <1>4, ChangeKinds
<1>9. \A p \in Paths : puts(p) = {} => files[p] = IF p \in gone THEN None ELSE v.files[p]
  OBVIOUS
<1>10. \A p : p \in dirs <=> (p \in v.dirs /\ p \notin gone) \/ p \in made
  OBVIOUS
<1>11. \A p : p \in made <=> \E c \in C : c \in Mkdirs /\ c.path = p
  BY <1>3
<1>12. files \in [Paths -> Blobs \union {None}] /\ dirs \subseteq Paths
  <2>1. files \in [Paths -> Blobs \union {None}]
    <3> HIDE DEF puts, gone
    <3> QED BY <1>6
  <2> QED BY <1>7, <2>1 DEF Plains
<1> HIDE DEF puts, made, gone, files, dirs
<1>13. After(v, C) \in Plains /\ After(v, C).files = files /\ After(v, C).dirs = dirs
  BY <1>1, <1>12 DEF Plains
<1> QED BY <1>2, <1>5, <1>8, <1>9, <1>10, <1>11, <1>13

LEMMA AfterNothing ==
  ASSUME NEW v \in Plains
  PROVE  After(v, {}) = v
<1>1. /\ After(v, {}) \in Plains
      /\ \A p \in Paths : After(v, {}).files[p] = v.files[p]
      /\ \A p \in Paths : p \in After(v, {}).dirs <=> p \in v.dirs
  BY AfterRows
<1>2. After(v, {}).files = v.files /\ After(v, {}).dirs = v.dirs
  BY <1>1 DEF Plains
<1> QED BY <1>1, <1>2 DEF Plains

\* Once some changes of a list are made, the next one can be made.
LEMMA NextIsPossible ==
  ASSUME NEW v, Good(v), NEW M, Fitting(M, v), NEW L, L \subseteq M, NEW c \in M, c \notin L
  PROVE  Possible(After(v, L), c)
<1> DEFINE w == After(v, L)
           p == c.path
<1>1. /\ L \subseteq Changes /\ c \in Changes /\ v \in Plains
      /\ \A d, e \in L : d.path = e.path => d = e
      /\ \A d \in L : d.path # p
  BY DEF Fitting, Good
<1>2. p \in Paths /\ Possible(v, c)
  BY <1>1, ChangeKinds DEF Fitting
<1>3. /\ w \in Plains
      /\ \A d \in L : d \in Puts => w.files[d.path] = d.hash
      /\ \A q \in Paths : (\A d \in L : d.path = q => d \notin Puts) =>
           w.files[q] \in {None, v.files[q]}
      /\ \A q \in Paths : q \in w.dirs => q \in v.dirs \/ \E d \in L : d.path = q /\ d \in Mkdirs
  BY <1>1, AfterRows
<1> HIDE DEF w
<1>4. ASSUME NEW a \in Ancestors[p]
      PROVE  w.files[a] = None
  <2>1. a \in Paths /\ v.files[a] = None
    BY <1>2, AncestorsArePaths DEF Possible
  <2>2. \A d \in L : d.path = a => d \notin Puts
    BY DEF Fitting
  <2> QED BY <1>3, <2>1, <2>2
<1>5. ASSUME c \in Puts \/ (c \in Deletes /\ c.kind = "file")
      PROVE  p \notin w.dirs /\ NothingBelow(w, p)
  <2>1. p \notin v.dirs /\ NothingBelow(v, p)
    BY <1>2, <1>5 DEF Possible
  <2>2. ASSUME NEW e \in Entries(w), p \in Ancestors[e]
        PROVE  FALSE
    <3>1. e \in Paths /\ (w.files[e] # None \/ e \in w.dirs)
      BY <1>3, ShownBy
    <3>2. e \notin Entries(v)
      BY <2>1, <2>2 DEF NothingBelow
    <3>3. v.files[e] = None /\ e \notin v.dirs
      BY <1>1, <3>1, <3>2, ShownBy
    <3>4. PICK d \in L : d.path = e /\ (d \in Puts \/ d \in Mkdirs)
      BY <1>3, <3>1, <3>3
    <3>5. d \notin Deletes
      BY <3>4 DEF Puts, Mkdirs, Deletes
    <3> QED BY <1>5, <2>2, <3>4, <3>5 DEF Fitting
  <2> QED BY <1>1, <1>2, <1>3, <2>1, <2>2 DEF NothingBelow
<1>6. c \in Mkdirs \/ (c \in Deletes /\ c.kind = "dir") => w.files[p] = None
  BY <1>1, <1>2, <1>3 DEF Possible
<1> QED BY <1>4, <1>5, <1>6 DEF Possible, w

\* A list, made one change at a time.
LEMMA AfterOneMore ==
  ASSUME NEW v, Good(v), NEW M, Fitting(M, v), NEW L, L \subseteq M, NEW c \in M, c \notin L
  PROVE  After(v, L \union {c}) = PlainChange(After(v, L), c)
<1> DEFINE w == After(v, L)
           u == After(v, L \union {c})
           x == PlainChange(w, c)
           p == c.path
           Off(q) == q # p /\ p \notin Ancestors[q]
<1>1. /\ L \subseteq Changes /\ c \in Changes /\ v \in Plains /\ p \in Paths
      /\ L \union {c} \subseteq Changes
      /\ \A d, e \in L : d.path = e.path => d = e
      /\ \A d, e \in L \union {c} : d.path = e.path => d = e
      /\ \A d \in L : d.path # p
  BY ChangeKinds DEF Fitting, Good
<1>2. /\ w \in Plains
      /\ \A d \in L : d \in Puts => w.files[d.path] = d.hash
      /\ \A q \in Paths : (\A d \in L : d.path = q => d \notin Puts) =>
           w.files[q] =
             IF \E d \in L : d \in Deletes /\ (q = d.path \/ d.path \in Ancestors[q])
             THEN None ELSE v.files[q]
      /\ \A q \in Paths : q \in w.dirs <=>
           \/ \E d \in L : d \in Mkdirs /\ d.path = q
           \/ q \in v.dirs /\ \A d \in L : d \in Deletes => q # d.path /\ d.path \notin Ancestors[q]
  BY <1>1, AfterRows
<1>3. /\ u \in Plains
      /\ \A d \in L \union {c} : d \in Puts => u.files[d.path] = d.hash
      /\ \A q \in Paths : (\A d \in L \union {c} : d.path = q => d \notin Puts) =>
           u.files[q] =
             IF \E d \in L \union {c} : d \in Deletes /\ (q = d.path \/ d.path \in Ancestors[q])
             THEN None ELSE v.files[q]
      /\ \A q \in Paths : q \in u.dirs <=>
           \/ \E d \in L \union {c} : d \in Mkdirs /\ d.path = q
           \/ q \in v.dirs /\ \A d \in L \union {c} :
                                d \in Deletes => q # d.path /\ d.path \notin Ancestors[q]
  BY <1>1, AfterRows
<1> HIDE DEF w, u
<1>4. CASE c \in Puts
  <2>1. x = [w EXCEPT !.files[p] = c.hash] /\ c \notin Deletes /\ c \notin Mkdirs
    BY <1>4 DEF PlainChange, Puts, Deletes, Mkdirs
  <2>2. \A q \in Paths : u.files[q] = IF q = p THEN c.hash ELSE w.files[q]
    <3> SUFFICES ASSUME NEW q \in Paths
                 PROVE  u.files[q] = IF q = p THEN c.hash ELSE w.files[q]
      OBVIOUS
    <3>1. CASE q = p
      BY <1>3, <1>4, <3>1
    <3>2. CASE q # p /\ \E d \in L : d.path = q /\ d \in Puts
      BY <1>2, <1>3, <3>2
    <3>3. CASE q # p /\ \A d \in L : d.path = q => d \notin Puts
      BY <1>2, <1>3, <2>1, <3>3
    <3> QED BY <3>1, <3>2, <3>3
  <2>3. \A q \in Paths : q \in u.dirs <=> q \in w.dirs
    BY <1>2, <1>3, <2>1
  <2>4. u.files = [w.files EXCEPT ![p] = c.hash] /\ u.dirs = w.dirs
    BY <1>2, <1>3, <2>2, <2>3 DEF Plains
  <2>5. x \in [files : {u.files}, dirs : {u.dirs}]
    BY <1>2, <2>1, <2>4 DEF Plains
  <2>6. u \in [files : {u.files}, dirs : {u.dirs}]
    BY <1>3 DEF Plains
  <2>7. u = x
    BY <2>5, <2>6
  <2> QED BY <2>7 DEF w, u
<1>5. CASE c \in Mkdirs
  <2>1. x = [w EXCEPT !.dirs = w.dirs \union {p}] /\ c \notin Deletes /\ c \notin Puts
    BY <1>5 DEF PlainChange, Puts, Deletes, Mkdirs
  <2>2. \A q \in Paths : u.files[q] = w.files[q]
    <3> SUFFICES ASSUME NEW q \in Paths
                 PROVE  u.files[q] = w.files[q]
      OBVIOUS
    <3>1. CASE \E d \in L : d.path = q /\ d \in Puts
      BY <1>2, <1>3, <3>1
    <3>2. CASE \A d \in L : d.path = q => d \notin Puts
      BY <1>2, <1>3, <2>1, <3>2
    <3> QED BY <3>1, <3>2
  <2>3. \A q \in Paths : q \in u.dirs <=> q \in w.dirs \union {p}
    BY <1>2, <1>3, <1>5, <2>1
  <2>4. u.files = w.files /\ u.dirs = w.dirs \union {p}
    BY <1>1, <1>2, <1>3, <2>2, <2>3 DEF Plains
  <2>5. x \in [files : {u.files}, dirs : {u.dirs}]
    BY <1>2, <2>1, <2>4 DEF Plains
  <2>6. u \in [files : {u.files}, dirs : {u.dirs}]
    BY <1>3 DEF Plains
  <2>7. u = x
    BY <2>5, <2>6
  <2> QED BY <2>7 DEF w, u
<1>6. CASE c \in Deletes
  <2> DEFINE gone == {p} \union Under(p)
  <2>1. /\ x = [files |-> Without(w.files, gone), dirs |-> w.dirs \ gone]
        /\ c \notin Puts /\ c \notin Mkdirs
    BY <1>6 DEF PlainChange, Puts, Deletes, Mkdirs, Metas
  <2>2. \A q \in Paths : q \in gone <=> ~Off(q)
    BY <1>1, BelowIsPath
  <2> HIDE DEF gone
  <2>3. \A d \in L : d \in Puts \/ d \in Mkdirs => Off(d.path)
    BY <1>1, <1>6 DEF Fitting, Puts, Mkdirs, Deletes
  <2>4. \A q \in Paths : u.files[q] = IF q \in gone THEN None ELSE w.files[q]
    <3> SUFFICES ASSUME NEW q \in Paths
                 PROVE  u.files[q] = IF q \in gone THEN None ELSE w.files[q]
      OBVIOUS
    <3>1. CASE \E d \in L : d.path = q /\ d \in Puts
      BY <1>2, <1>3, <2>2, <2>3, <3>1
    <3>2. CASE \A d \in L : d.path = q => d \notin Puts
      BY <1>2, <1>3, <1>6, <2>1, <2>2, <3>2
    <3> QED BY <3>1, <3>2
  <2>5. \A q \in Paths : q \in u.dirs <=> q \in w.dirs \ gone
    <3> SUFFICES ASSUME NEW q \in Paths
                 PROVE  q \in u.dirs <=> q \in w.dirs \ gone
      OBVIOUS
    <3>1. CASE \E d \in L : d \in Mkdirs /\ d.path = q
      BY <1>2, <1>3, <2>2, <2>3, <3>1
    <3>2. CASE ~\E d \in L : d \in Mkdirs /\ d.path = q
      BY <1>2, <1>3, <1>6, <2>1, <2>2, <3>2
    <3> QED BY <3>1, <3>2
  <2>6. u.files = Without(w.files, gone) /\ u.dirs = w.dirs \ gone
    BY <1>2, <1>3, <2>4, <2>5 DEF Plains, Without
  <2> QED BY <1>3, <2>1, <2>6 DEF Plains, w, u
<1>7. CASE c \in Metas
  <2>1. x = w /\ c \notin Puts /\ c \notin Mkdirs /\ c \notin Deletes
    BY <1>7 DEF PlainChange, Puts, Deletes, Mkdirs, Metas
  <2>2. \A q \in Paths : u.files[q] = w.files[q]
    <3> SUFFICES ASSUME NEW q \in Paths
                 PROVE  u.files[q] = w.files[q]
      OBVIOUS
    <3>1. CASE \E d \in L : d.path = q /\ d \in Puts
      BY <1>2, <1>3, <3>1
    <3>2. CASE \A d \in L : d.path = q => d \notin Puts
      BY <1>2, <1>3, <2>1, <3>2
    <3> QED BY <3>1, <3>2
  <2>3. \A q \in Paths : q \in u.dirs <=> q \in w.dirs
    BY <1>2, <1>3, <2>1
  <2>4. u.files = w.files /\ u.dirs = w.dirs
    BY <1>2, <1>3, <2>2, <2>3 DEF Plains
  <2>5. x \in [files : {u.files}, dirs : {u.dirs}] /\ u \in [files : {u.files}, dirs : {u.dirs}]
    BY <1>2, <1>3, <2>1, <2>4 DEF Plains
  <2>6. u = x
    BY <2>5
  <2> QED BY <2>6 DEF w, u
<1> QED BY <1>1, <1>4, <1>5, <1>6, <1>7 DEF Changes

LEMMA ApplyIsTyped ==
  ASSUME NEW n \in Nat \ {0}, NEW t \in Trees(n), NEW C, C \subseteq Changes
  PROVE  Apply(t, C, n) \in Trees(n)
<1> DEFINE T == Trees(n)
<1>1. t \in T /\ \A u \in T, c \in C : ApplyChange(u, c, n) \in T
  BY ApplyTyped
<1> HIDE DEF T
<1>2. PICK s \in [0 .. Len(Order) -> T] : Apply(t, C, n) = s[Len(Order)]
  BY <1>1, ApplyHasStages
<1>3. Len(Order) \in 0 .. Len(Order)
  BY HistoryAssumption
<1> QED BY <1>2, <1>3 DEF T

\* A row is of the new revision, or was there before.
LEMMA ApplyStays ==
  ASSUME NEW n \in Nat \ {0}, NEW t \in Trees(n), NEW C, C \subseteq Changes, NEW p \in Paths,
         Apply(t, C, n)[p] # None
  PROVE  Apply(t, C, n)[p].rev = n \/ Apply(t, C, n)[p] = t[p]
<1> DEFINE T == {u \in Trees(n) : u[p] # None => u[p].rev = n \/ u[p] = t[p]}
<1>1. ASSUME NEW u \in T, NEW c \in C
      PROVE  ApplyChange(u, c, n) \in T
  <2>1. u \in Trees(n) /\ c \in Changes /\ ApplyChange(u, c, n) \in Trees(n)
    BY ApplyTyped
  <2>2. ApplyChange(u, c, n)[p] # None =>
          ApplyChange(u, c, n)[p].rev = n \/ ApplyChange(u, c, n)[p] = u[p]
    BY <2>1, RowsStay
  <2> QED BY <2>1, <2>2
<1>2. t \in T
  OBVIOUS
<1> HIDE DEF T
<1>3. PICK s \in [0 .. Len(Order) -> T] : Apply(t, C, n) = s[Len(Order)]
  BY <1>1, <1>2, ApplyHasStages
<1>4. Len(Order) \in 0 .. Len(Order)
  BY HistoryAssumption
<1>5. Apply(t, C, n) \in T
  BY <1>3, <1>4
<1> QED BY <1>5 DEF T

LEMMA ListAgrees ==
  ASSUME NEW n \in Nat \ {0}, NEW t \in Trees(n), NEW v, Good(v), NEW M, Fitting(M, v),
         NEW L, L \subseteq M, NEW C, C \subseteq M, C \cap L = {},
         Good(After(v, L)), Agree(t, After(v, L))
  PROVE  /\ Apply(t, C, n) \in Trees(n)
         /\ Good(After(v, L \union C))
         /\ Agree(Apply(t, C, n), After(v, L \union C))
<1> DEFINE N == Len(Order)
           Done(k) == {c \in C : \E i \in 1 .. k : c.path = Order[i]}
           Now(k) == After(v, L \union Done(k))
<1>1. /\ N \in Nat /\ Order \in [1 .. N -> Paths] /\ \A p \in Paths : \E i \in 1 .. N : Order[i] = p
      /\ \A i, j \in 1 .. N : Order[i] = Order[j] => i = j
  BY HistoryAssumption
<1>2. C \subseteq Changes /\ \A c, d \in C : c.path = d.path => c = d
  BY DEF Fitting
<1>3. \E s \in [0 .. N -> Trees(n)] : Stages(s, t, C, n) /\ Apply(t, C, n) = s[N]
  <2> DEFINE T == Trees(n)
  <2>1. t \in T /\ \A u \in T, c \in C : ApplyChange(u, c, n) \in T
    BY <1>2, ApplyTyped
  <2> HIDE DEF T
  <2>2. \E s \in [0 .. N -> T] : Stages(s, t, C, n) /\ Apply(t, C, n) = s[N]
    BY <2>1, ApplyHasStages
  <2> QED BY <2>2 DEF T
<1>4. PICK s \in [0 .. N -> Trees(n)] : Stages(s, t, C, n) /\ Apply(t, C, n) = s[N]
  BY <1>3
<1> DEFINE S == {k \in 0 .. N : Good(Now(k)) /\ Agree(s[k], Now(k))}
<1>5. 0 \in S
  <2>1. Done(0) = {}
    OBVIOUS
  <2>2. L \union Done(0) = L /\ s[0] = t
    BY <1>4, <2>1 DEF Stages
  <2> QED BY <1>1, <2>2
<1>6. ASSUME NEW k \in 0 .. N, k < N, k \in S
      PROVE  k + 1 \in S
  <2>1. k + 1 \in 1 .. N /\ k + 1 \in 0 .. N /\ k + 1 - 1 = k /\ k \in Nat
    BY <1>1, <1>6
  <2> DEFINE q == Order[k + 1]
  <2>2. s[k + 1] = IF \E c \in C : c.path = q
                   THEN ApplyChange(s[k], CHOOSE c \in C : c.path = q, n) ELSE s[k]
    BY <1>4, <2>1 DEF Stages
  <2>3. \A i : i \in 1 .. k + 1 <=> i \in 1 .. k \/ i = k + 1
    BY <2>1
  <2>4. CASE \E c \in C : c.path = q
    <3>1. PICK c \in C : c.path = q
      BY <2>4
    <3>2. (CHOOSE d \in C : d.path = q) = c
      BY <1>2, <3>1
    <3>3. c \notin Done(k)
      <4>1. \A i \in 1 .. k : i \in 1 .. N /\ i # k + 1
        BY <1>1, <1>6
      <4> QED BY <1>1, <2>1, <3>1, <4>1
    <3>4. Done(k + 1) = Done(k) \union {c}
      BY <1>2, <2>3, <3>1
    <3> DEFINE K == L \union Done(k)
    <3>5. K \subseteq M /\ c \in M /\ c \notin K /\ L \union Done(k + 1) = K \union {c}
      BY <3>1, <3>3, <3>4
    <3>6. Good(After(v, K)) /\ Agree(s[k], After(v, K)) /\ s[k] \in Trees(n)
      BY <1>4, <1>6
    <3> HIDE DEF K
    <3>7. Possible(After(v, K), c) /\ After(v, K \union {c}) = PlainChange(After(v, K), c)
      BY <3>5, NextIsPossible, AfterOneMore
    <3>8. /\ Good(PlainChange(After(v, K), c))
          /\ Agree(ApplyChange(s[k], c, n), PlainChange(After(v, K), c))
      BY <1>2, <3>1, <3>6, <3>7, ChangeAgrees
    <3>9. s[k + 1] = ApplyChange(s[k], c, n)
      BY <2>2, <2>4, <3>2
    <3> QED BY <2>1, <3>5, <3>7, <3>8, <3>9
  <2>5. CASE ~\E c \in C : c.path = q
    <3>1. Done(k + 1) = Done(k)
      BY <2>3, <2>5
    <3>2. s[k + 1] = s[k]
      BY <2>2, <2>5
    <3> QED BY <1>6, <2>1, <3>1, <3>2
  <2> QED BY <2>4, <2>5
<1>7. N \in S
  <2>1. N \in Nat
    BY <1>1
  <2> HIDE DEF S, N
  <2>2. 0 .. N \subseteq S
    BY <1>5, <1>6, <2>1, UpTo
  <2> QED BY <2>1, <2>2
<1>8. Done(N) = C
  BY <1>1, <1>2, ChangeKinds
<1>9. s[N] \in Trees(n)
  BY <1>1, <1>4
<1>10. Good(Now(N)) /\ Agree(s[N], Now(N))
  BY <1>7
<1>11. Now(N) = After(v, L \union C)
  <2> HIDE DEF Done
  <2> QED BY <1>8
<1> HIDE DEF Now
<1> QED BY <1>4, <1>9, <1>10, <1>11

\* The tree after two lists, one after the other.
LEMMA LandAgrees ==
  ASSUME NEW n \in Nat \ {0}, NEW t \in Trees(n), NEW v, Good(v), Agree(t, v),
         NEW A, NEW B, A \cap B = {}, Fitting(A \union B, v)
  PROVE  /\ Apply(Apply(t, A, n), B, n) \in Trees(n)
         /\ Good(After(v, A \union B))
         /\ Agree(Apply(Apply(t, A, n), B, n), After(v, A \union B))
<1>1. After(v, {}) = v
  BY AfterNothing DEF Good
<1>2. /\ Apply(t, A, n) \in Trees(n)
      /\ Good(After(v, {} \union A)) /\ Agree(Apply(t, A, n), After(v, {} \union A))
  BY <1>1, ListAgrees
<1>3. {} \union A = A
  OBVIOUS
<1>4. Good(After(v, A)) /\ Agree(Apply(t, A, n), After(v, A))
  BY <1>2, <1>3
<1> QED BY <1>2, <1>4, ListAgrees

-----------------------------------------------------------------------------
(* The table `changes'.                                                     *)

Records(n) == [rev : 1 .. n, path : Paths, op : {"add", "modify", "delete", "meta"},
               kind : {"file", "dir"}, hash : Blobs]
Rec(c, n) == [rev |-> n, path |-> c.path, op |-> c.op, kind |-> c.kind, hash |-> c.hash]
Added(M, n) == {Rec(c, n) : c \in M}
Recorded(X, n) ==
  /\ X \subseteq Records(n)
  /\ \A x, y \in X : x.rev = y.rev /\ x.path = y.path => x = y
  /\ \A x \in X : x.op = "meta" => x.hash = Null

\* The rows that put, make or delete a path, and what follows from them alone,
\* when a tombstone counts whatever comes after it.
Recs(X, p, rev, kind) ==
  {c \in X : c.path = p /\ c.rev <= rev /\ c.kind = kind /\ c.op # "meta"}
Covered(X, p, own, rev) ==
  \E a \in Ancestors[p] : \E x \in Recs(X, a, rev, "dir") : x.op = "delete" /\ x.rev > own
AliveIn(X, p, rev, kind) ==
  /\ Recs(X, p, rev, kind) # {}
  /\ Latest(Recs(X, p, rev, kind)).op # "delete"
  /\ ~Covered(X, p, Latest(Recs(X, p, rev, kind)).rev, rev)
HashIn(X, p, rev) ==
  IF AliveIn(X, p, rev, "file") THEN Latest(Recs(X, p, rev, "file")).hash ELSE None

LEMMA HasLatest ==
  ASSUME NEW S, S # {}, NEW m \in Nat, \A c \in S : c.rev \in 1 .. m
  PROVE  /\ Latest(S) \in S
         /\ \A d \in S : d.rev <= Latest(S).rev
<1> DEFINE D == {m - c.rev : c \in S}
<1>1. D \subseteq Nat /\ D # {}
  OBVIOUS
<1>2. PICK k \in D : \A j \in D : k <= j
  <2> HIDE DEF D
  <2> QED BY <1>1, Least
<1>3. PICK c \in S : k = m - c.rev
  OBVIOUS
<1>4. \A d \in S : d.rev <= c.rev
  <2> SUFFICES ASSUME NEW d \in S
               PROVE  d.rev <= c.rev
    OBVIOUS
  <2>1. m - d.rev \in D
    OBVIOUS
  <2>2. m - c.rev <= m - d.rev
    BY <1>2, <1>3, <2>1
  <2>3. d.rev \in 1 .. m /\ c.rev \in 1 .. m
    OBVIOUS
  <2> QED BY <2>2, <2>3
<1>5. \E x \in S : \A d \in S : d.rev <= x.rev
  BY <1>4
<1> QED BY <1>5, Zenon DEF Latest

LEMMA LatestRec ==
  ASSUME NEW n \in Nat, NEW X, X \subseteq Records(n), NEW p, NEW rev, NEW kind,
         Recs(X, p, rev, kind) # {}
  PROVE  /\ Latest(Recs(X, p, rev, kind)) \in Recs(X, p, rev, kind)
         /\ Latest(Recs(X, p, rev, kind)) \in X
         /\ \A d \in Recs(X, p, rev, kind) : d.rev <= Latest(Recs(X, p, rev, kind)).rev
<1> DEFINE S == Recs(X, p, rev, kind)
<1>1. S \subseteq X /\ \A c \in S : c.rev \in 1 .. n
  BY DEF Recs, Records
<1> HIDE DEF S
<1>2. Latest(S) \in S /\ \A d \in S : d.rev <= Latest(S).rev
  BY <1>1, HasLatest DEF S
<1> QED BY <1>1, <1>2 DEF S

LEMMA RecFacts ==
  ASSUME NEW c \in Changes, NEW n \in Nat
  PROVE  /\ Rec(c, n + 1) \in Records(n + 1)
         /\ Rec(c, n + 1).rev = n + 1 /\ Rec(c, n + 1).path = c.path
         /\ Rec(c, n + 1).op = c.op /\ Rec(c, n + 1).kind = c.kind
         /\ Rec(c, n + 1).hash = c.hash
BY DEF Rec, Records, Changes, Puts, Mkdirs, Deletes, Metas, Blobs

\* A list in which every path is once.
Once(M) ==
  /\ M \subseteq Changes
  /\ \A c, d \in M : c.path = d.path => c = d

LEMMA RecordedStays ==
  ASSUME NEW n \in Nat, NEW X, Recorded(X, n), NEW M, Once(M)
  PROVE  Recorded(X \union Added(M, n + 1), n + 1)
<1> DEFINE Y == X \union Added(M, n + 1)
<1>1. \A y \in Y : y \in X \/ \E c \in M : y = Rec(c, n + 1)
  BY DEF Added
<1>2. \A x \in X : x \in Records(n + 1) /\ x.rev \in 1 .. n /\ x.rev # n + 1
  BY DEF Recorded, Records
<1>3. \A c \in M : /\ Rec(c, n + 1) \in Records(n + 1)
                   /\ Rec(c, n + 1).rev = n + 1 /\ Rec(c, n + 1).path = c.path
                   /\ Rec(c, n + 1).op = c.op /\ Rec(c, n + 1).kind = c.kind
                   /\ Rec(c, n + 1).hash = c.hash
  BY RecFacts DEF Once
<1> HIDE DEF Y
<1>4. Y \subseteq Records(n + 1)
  BY <1>1, <1>2, <1>3
<1>5. \A x, y \in Y : x.rev = y.rev /\ x.path = y.path => x = y
  <2> SUFFICES ASSUME NEW x \in Y, NEW y \in Y, x.rev = y.rev, x.path = y.path
               PROVE  x = y
    OBVIOUS
  <2>1. CASE x.rev = n + 1
    <3>1. PICK c \in M, d \in M : x = Rec(c, n + 1) /\ y = Rec(d, n + 1)
      BY <1>1, <1>2, <2>1
    <3>2. c = d
      BY <1>3, <3>1 DEF Once
    <3> QED BY <3>1, <3>2
  <2>2. CASE x.rev # n + 1
    <3>1. x \in X /\ y \in X
      BY <1>1, <1>3, <2>2
    <3> QED BY <3>1 DEF Recorded
  <2> QED BY <2>1, <2>2
<1>6. ASSUME NEW x \in Y, x.op = "meta"
      PROVE  x.hash = Null
  <2>1. CASE x \in X
    BY <1>6, <2>1 DEF Recorded
  <2>2. CASE x \notin X
    <3>1. PICK c \in M : x = Rec(c, n + 1)
      BY <1>1, <2>2
    <3>2. c \in Metas /\ x.hash = c.hash
      BY <1>3, <1>6, <3>1, ChangeKinds DEF Once
    <3> QED BY <3>2 DEF Metas
  <2> QED BY <2>1, <2>2
<1> QED BY <1>4, <1>5, <1>6 DEF Recorded, Y

\* Earlier revisions have the rows they had.
LEMMA EarlierRows ==
  ASSUME NEW n \in Nat, NEW X, Recorded(X, n), NEW M, Once(M), NEW rev \in 0 .. n
  PROVE  /\ \A p, kind : Recs(X \union Added(M, n + 1), p, rev, kind) = Recs(X, p, rev, kind)
         /\ \A p, kind :
              AliveIn(X \union Added(M, n + 1), p, rev, kind) <=> AliveIn(X, p, rev, kind)
         /\ \A p : HashIn(X \union Added(M, n + 1), p, rev) = HashIn(X, p, rev)
<1> DEFINE Y == X \union Added(M, n + 1)
<1>1. \A y \in Y : y \in X \/ y.rev = n + 1
  BY RecFacts DEF Added, Once
<1>2. X \subseteq Y /\ ~(n + 1 <= rev)
  OBVIOUS
<1> HIDE DEF Y
<1>3. \A p, kind : Recs(Y, p, rev, kind) = Recs(X, p, rev, kind)
  BY <1>1, <1>2 DEF Recs
<1>4. \A p, own : Covered(Y, p, own, rev) <=> Covered(X, p, own, rev)
  BY <1>3 DEF Covered
<1>5. \A p, kind : AliveIn(Y, p, rev, kind) <=> AliveIn(X, p, rev, kind)
  BY <1>3, <1>4 DEF AliveIn
<1>6. \A p : HashIn(Y, p, rev) = HashIn(X, p, rev)
  BY <1>3, <1>5 DEF HashIn
<1> QED BY <1>3, <1>5, <1>6 DEF Y

\* At the new revision a path has its new row, if there is one.
LEMMA LatestRows ==
  ASSUME NEW n \in Nat, NEW X, Recorded(X, n), NEW M, Once(M), NEW p, NEW kind
  PROVE  /\ \A c \in M : c.path = p /\ c.kind = kind /\ c \notin Metas =>
              /\ Recs(X \union Added(M, n + 1), p, n + 1, kind) # {}
              /\ Latest(Recs(X \union Added(M, n + 1), p, n + 1, kind)) = Rec(c, n + 1)
         /\ (~\E c \in M : c.path = p /\ c.kind = kind /\ c \notin Metas) =>
              Recs(X \union Added(M, n + 1), p, n + 1, kind) = Recs(X, p, n, kind)
<1> DEFINE Y == X \union Added(M, n + 1)
           S == Recs(Y, p, n + 1, kind)
<1>1. \A y : y \in Y <=> y \in X \/ \E c \in M : y = Rec(c, n + 1)
  BY DEF Added
<1>2. Recorded(Y, n + 1)
  BY RecordedStays
<1>3. \A c \in M : /\ Rec(c, n + 1).rev = n + 1 /\ Rec(c, n + 1).path = c.path
                   /\ Rec(c, n + 1).kind = c.kind /\ (c \in Metas <=> Rec(c, n + 1).op = "meta")
  BY RecFacts, ChangeKinds DEF Once
<1>4. \A x \in X : x.rev \in 1 .. n
  BY DEF Recorded, Records
<1> HIDE DEF Y
<1>5. ASSUME NEW c \in M, c.path = p, c.kind = kind, c \notin Metas
      PROVE  S # {} /\ Latest(S) = Rec(c, n + 1)
  <2>1. Rec(c, n + 1) \in S /\ Rec(c, n + 1).rev = n + 1
    BY <1>1, <1>3, <1>5 DEF Recs
  <2> HIDE DEF S
  <2>2. Y \subseteq Records(n + 1)
    BY <1>2 DEF Recorded
  <2>3. Latest(S) \in S /\ Latest(S) \in Y /\ Rec(c, n + 1).rev <= Latest(S).rev
    BY <2>1, <2>2, LatestRec DEF S
  <2>4. Latest(S).rev \in 1 .. n + 1 /\ Latest(S).path = p /\ Rec(c, n + 1) \in Y
    BY <1>1, <2>2, <2>3 DEF Records, S, Recs
  <2>5. Latest(S).rev = n + 1
    BY <2>1, <2>3, <2>4
  <2> QED BY <1>2, <1>3, <1>5, <2>1, <2>3, <2>4, <2>5 DEF Recorded
<1>6. ASSUME ~\E c \in M : c.path = p /\ c.kind = kind /\ c \notin Metas
      PROVE  S = Recs(X, p, n, kind)
  <2>1. \A x : x \in S <=> x \in X /\ x.path = p /\ x.rev <= n + 1 /\ x.kind = kind
                      /\ x.op # "meta"
    BY <1>1, <1>3, <1>6 DEF Recs
  <2>2. \A x \in X : x.rev <= n + 1 /\ x.rev <= n
    BY <1>4
  <2> HIDE DEF S
  <2> QED BY <2>1, <2>2 DEF Recs
<1> QED BY <1>5, <1>6 DEF Y

\* And the tombstones that cover it are those it had, and the new ones.
LEMMA CoveredRows ==
  ASSUME NEW n \in Nat, NEW X, Recorded(X, n), NEW M, Once(M), NEW p \in Paths
  PROVE  /\ \A own \in 1 .. n : Covered(X \union Added(M, n + 1), p, own, n + 1) <=>
              \/ Covered(X, p, own, n)
              \/ \E c \in M : c \in Deletes /\ c.kind = "dir" /\ c.path \in Ancestors[p]
         /\ ~Covered(X \union Added(M, n + 1), p, n + 1, n + 1)
<1> DEFINE Y == X \union Added(M, n + 1)
<1>1. Recorded(Y, n + 1) /\ Y \subseteq Records(n + 1) /\ X \subseteq Records(n)
  BY RecordedStays DEF Recorded
<1>2. \A y : y \in Y <=> y \in X \/ \E c \in M : y = Rec(c, n + 1)
  BY DEF Added
<1>3. \A c \in M : /\ Rec(c, n + 1).rev = n + 1 /\ Rec(c, n + 1).op = c.op
                   /\ Rec(c, n + 1).path = c.path /\ Rec(c, n + 1).kind = c.kind
                   /\ c \in Deletes <=> c.op = "delete"
  BY RecFacts, ChangeKinds DEF Once
<1>4. \A y \in Y : y.rev \in 1 .. n + 1 /\ (y \in X => y.rev \in 1 .. n)
  BY <1>1 DEF Records
<1> HIDE DEF Y
<1>5. ASSUME NEW own \in 1 .. n, NEW c \in M, c \in Deletes, c.kind = "dir",
             c.path \in Ancestors[p]
      PROVE  Covered(Y, p, own, n + 1)
  <2>1. n + 1 > own /\ n + 1 <= n + 1
    OBVIOUS
  <2>2. Rec(c, n + 1) \in Recs(Y, c.path, n + 1, "dir")
    BY <1>2, <1>3, <1>5, <2>1 DEF Recs
  <2> QED BY <1>3, <1>5, <2>1, <2>2 DEF Covered
<1>6. ASSUME NEW own \in 1 .. n, Covered(X, p, own, n)
      PROVE  Covered(Y, p, own, n + 1)
  <2>1. PICK a \in Ancestors[p] : \E x \in Recs(X, a, n, "dir") : x.op = "delete" /\ x.rev > own
    BY <1>6 DEF Covered
  <2>2. Recs(X, a, n, "dir") \subseteq Recs(Y, a, n + 1, "dir")
    BY <1>2, <1>4 DEF Recs
  <2> QED BY <2>1, <2>2 DEF Covered
<1>7. ASSUME NEW own \in 1 .. n + 1, Covered(Y, p, own, n + 1)
      PROVE  /\ own \in 1 .. n
             /\ \/ Covered(X, p, own, n)
                \/ \E c \in M : c \in Deletes /\ c.kind = "dir" /\ c.path \in Ancestors[p]
  <2>1. PICK a \in Ancestors[p] : \E x \in Recs(Y, a, n + 1, "dir") : x.op = "delete" /\ x.rev > own
    BY <1>7 DEF Covered
  <2>2. PICK x \in Recs(Y, a, n + 1, "dir") : x.op = "delete" /\ x.rev > own
    BY <2>1
  <2>3. x \in Y /\ x.path = a /\ x.kind = "dir" /\ x.rev \in 1 .. n + 1
    BY <1>4, <2>2 DEF Recs
  <2>4. own \in 1 .. n
    BY <2>2, <2>3
  <2>5. CASE x \in X
    <3>1. x \in Recs(X, a, n, "dir")
      BY <1>4, <2>2, <2>3, <2>5 DEF Recs
    <3> QED BY <2>2, <2>4, <3>1 DEF Covered
  <2>6. CASE x \notin X
    BY <1>2, <1>3, <2>2, <2>3, <2>4, <2>6
  <2> QED BY <2>5, <2>6
<1>8. n + 1 \in 1 .. n + 1 /\ n + 1 \notin 1 .. n /\ \A own \in 1 .. n : own \in 1 .. n + 1
  OBVIOUS
<1> QED BY <1>5, <1>6, <1>7, <1>8 DEF Y

LEMMA AliveRows ==
  ASSUME NEW n \in Nat, NEW X, Recorded(X, n), NEW M, Once(M), NEW p \in Paths, NEW kind
  PROVE  /\ \A c \in M : c.path = p /\ c.kind = kind /\ c \notin Metas =>
              (AliveIn(X \union Added(M, n + 1), p, n + 1, kind) <=> c \notin Deletes)
         /\ (~\E c \in M : c.path = p /\ c.kind = kind /\ c \notin Metas) =>
              (AliveIn(X \union Added(M, n + 1), p, n + 1, kind) <=>
                 /\ AliveIn(X, p, n, kind)
                 /\ ~\E c \in M : c \in Deletes /\ c.kind = "dir" /\ c.path \in Ancestors[p])
<1> DEFINE Y == X \union Added(M, n + 1)
<1>1. X \subseteq Records(n)
  BY DEF Recorded
<1>2. /\ \A own \in 1 .. n : Covered(Y, p, own, n + 1) <=>
           \/ Covered(X, p, own, n)
           \/ \E c \in M : c \in Deletes /\ c.kind = "dir" /\ c.path \in Ancestors[p]
      /\ ~Covered(Y, p, n + 1, n + 1)
  BY CoveredRows
<1>3. ASSUME NEW c \in M, c.path = p, c.kind = kind, c \notin Metas
      PROVE  AliveIn(Y, p, n + 1, kind) <=> c \notin Deletes
  <2>1. Recs(Y, p, n + 1, kind) # {} /\ Latest(Recs(Y, p, n + 1, kind)) = Rec(c, n + 1)
    BY <1>3, LatestRows
  <2>2. Rec(c, n + 1).rev = n + 1 /\ Rec(c, n + 1).op = c.op /\ (c \in Deletes <=> c.op = "delete")
    BY RecFacts, ChangeKinds DEF Once
  <2> HIDE DEF Y
  <2> QED BY <1>2, <2>1, <2>2 DEF AliveIn
<1>4. ASSUME ~\E c \in M : c.path = p /\ c.kind = kind /\ c \notin Metas
      PROVE  AliveIn(Y, p, n + 1, kind) <=>
               /\ AliveIn(X, p, n, kind)
               /\ ~\E c \in M : c \in Deletes /\ c.kind = "dir" /\ c.path \in Ancestors[p]
  <2>1. Recs(Y, p, n + 1, kind) = Recs(X, p, n, kind)
    BY <1>4, LatestRows
  <2>2. Recs(X, p, n, kind) # {} => Latest(Recs(X, p, n, kind)).rev \in 1 .. n
    BY <1>1, LatestRec DEF Records
  <2> HIDE DEF Y
  <2> QED BY <1>2, <2>1, <2>2 DEF AliveIn
<1> QED BY <1>3, <1>4

\* The table tells at revision n what the plain tree v has.
Tells(X, n, v) ==
  \A p \in Paths : /\ HashIn(X, p, n) = v.files[p]
                   /\ AliveIn(X, p, n, "dir") <=> p \in v.dirs

LEMMA HashOf ==
  ASSUME NEW n \in Nat, NEW X, Recorded(X, n), NEW p, NEW rev
  PROVE  /\ AliveIn(X, p, rev, "file") => HashIn(X, p, rev) \in Blobs
         /\ HashIn(X, p, rev) # None <=> AliveIn(X, p, rev, "file")
         /\ HashIn(X, p, rev) \in Blobs \union {None}
<1>1. ASSUME AliveIn(X, p, rev, "file")
      PROVE  HashIn(X, p, rev) \in Blobs
  <2> DEFINE x == Latest(Recs(X, p, rev, "file"))
  <2>1. Recs(X, p, rev, "file") # {} /\ x.op # "delete" /\ HashIn(X, p, rev) = x.hash
    BY <1>1 DEF AliveIn, HashIn
  <2>2. x \in X /\ x \in Recs(X, p, rev, "file")
    BY <2>1, LatestRec DEF Recorded
  <2> QED BY <2>1, <2>2 DEF Records, Recorded
<1> QED BY <1>1, HistoryAssumption DEF HashIn, Blobs

LEMMA TellsAfter ==
  ASSUME NEW n \in Nat, NEW X, Recorded(X, n), NEW v, Good(v), Tells(X, n, v),
         NEW M, Once(M), Fitting(M, v)
  PROVE  Tells(X \union Added(M, n + 1), n + 1, After(v, M))
<1> DEFINE Y == X \union Added(M, n + 1)
           w == After(v, M)
<1>1. /\ M \subseteq Changes /\ \A c, d \in M : c.path = d.path => c = d
      /\ v \in Plains /\ Recorded(Y, n + 1)
  BY RecordedStays DEF Good, Fitting
<1>2. /\ w \in Plains
      /\ \A c \in M : c \in Puts => w.files[c.path] = c.hash
      /\ \A p \in Paths : (\A c \in M : c.path = p => c \notin Puts) =>
           w.files[p] = IF \E c \in M : c \in Deletes /\ (p = c.path \/ c.path \in Ancestors[p])
                        THEN None ELSE v.files[p]
      /\ \A p \in Paths : p \in w.dirs <=>
           \/ \E c \in M : c \in Mkdirs /\ c.path = p
           \/ p \in v.dirs /\ \A c \in M : c \in Deletes => p # c.path /\ c.path \notin Ancestors[p]
  BY <1>1, AfterRows
<1>3. \A c \in M : /\ c.path \in Paths /\ Possible(v, c)
                   /\ c \in Deletes => c \notin Puts /\ c \notin Mkdirs
                   /\ c \in Puts => c.kind = "file" /\ c \notin Mkdirs
                   /\ c \in Mkdirs => c.kind = "dir"
                   /\ c.kind = "file" \/ c.kind = "dir"
                   /\ c \in Puts \/ c \in Mkdirs \/ c \in Deletes \/ c \in Metas
                   /\ c \in Puts \/ c \in Mkdirs \/ c \in Deletes <=> c \notin Metas
  BY <1>1, ChangeKinds DEF Fitting, Puts, Mkdirs, Deletes, Metas
<1>4. \A c \in M : c \in Deletes /\ c.kind = "file" =>
       c.path \notin v.dirs /\ NothingBelow(v, c.path)
  BY <1>3 DEF Possible
<1>5. \A q \in Paths : q \in Entries(v) <=> v.files[q] # None \/ q \in v.dirs
  BY <1>1, ShownBy
<1> HIDE DEF Y, w
<1>6. ASSUME NEW p \in Paths
      PROVE  HashIn(Y, p, n + 1) = w.files[p]
  <2>1. CASE \E c \in M : c.path = p /\ c.kind = "file" /\ c \notin Metas
    <3>1. PICK c \in M : c.path = p /\ c.kind = "file" /\ c \notin Metas
      BY <2>1
    <3>2. AliveIn(Y, p, n + 1, "file") <=> c \notin Deletes
      BY <3>1, AliveRows DEF Y
    <3>3. CASE c \in Deletes
      <4>1. w.files[p] = None
        BY <1>1, <1>2, <1>3, <3>1, <3>3
      <4> QED BY <3>2, <3>3, <4>1 DEF HashIn
    <3>4. CASE c \notin Deletes
      <4>1. c \in Puts /\ w.files[p] = c.hash
        BY <1>2, <1>3, <3>1, <3>4
      <4>2. Latest(Recs(Y, p, n + 1, "file")) = Rec(c, n + 1)
        BY <3>1, LatestRows DEF Y
      <4>3. Rec(c, n + 1).hash = c.hash
        BY <1>1, RecFacts
      <4> QED BY <3>2, <3>4, <4>1, <4>2, <4>3 DEF HashIn
    <3> QED BY <3>3, <3>4
  <2>2. CASE ~\E c \in M : c.path = p /\ c.kind = "file" /\ c \notin Metas
    <3>1. AliveIn(Y, p, n + 1, "file") <=>
            /\ AliveIn(X, p, n, "file")
            /\ ~\E c \in M : c \in Deletes /\ c.kind = "dir" /\ c.path \in Ancestors[p]
      BY <2>2, AliveRows DEF Y
    <3>2. Recs(Y, p, n + 1, "file") = Recs(X, p, n, "file")
      BY <2>2, LatestRows DEF Y
    <3>3. HashIn(X, p, n) = v.files[p]
      BY DEF Tells
    <3>4. w.files[p] = IF \E c \in M : c \in Deletes /\ (p = c.path \/ c.path \in Ancestors[p])
                       THEN None ELSE v.files[p]
      BY <1>2, <1>3, <2>2
    <3>5. CASE v.files[p] = None
      <4>1. ~AliveIn(X, p, n, "file")
        BY <3>3, <3>5, HashOf
      <4> QED BY <3>1, <3>4, <3>5, <4>1 DEF HashIn
    <3>6. CASE v.files[p] # None
      <4>1. AliveIn(X, p, n, "file")
        BY <3>3, <3>6 DEF HashIn
      <4>2. \A c \in M : c \in Deletes /\ (p = c.path \/ c.path \in Ancestors[p]) =>
              c.kind = "dir" /\ c.path \in Ancestors[p]
        <5> SUFFICES ASSUME NEW c \in M, c \in Deletes, p = c.path \/ c.path \in Ancestors[p]
                     PROVE  c.kind = "dir" /\ c.path \in Ancestors[p]
          OBVIOUS
        <5>1. CASE c.kind = "file"
          BY <1>3, <1>4, <1>5, <2>2, <3>6, <5>1 DEF NothingBelow
        <5>2. CASE c.kind = "dir" /\ p = c.path
          BY <1>3, <3>6, <5>2 DEF Possible
        <5> QED BY <1>3, <5>1, <5>2
      <4>3. HashIn(X, p, n) = Latest(Recs(X, p, n, "file")).hash
        BY <4>1 DEF HashIn
      <4>4. HashIn(Y, p, n + 1) = IF AliveIn(Y, p, n + 1, "file")
                                  THEN Latest(Recs(X, p, n, "file")).hash ELSE None
        BY <3>2 DEF HashIn
      <4> QED BY <3>1, <3>3, <3>4, <4>1, <4>2, <4>3, <4>4
    <3> QED BY <3>5, <3>6
  <2> QED BY <2>1, <2>2
<1>7. ASSUME NEW p \in Paths
      PROVE  AliveIn(Y, p, n + 1, "dir") <=> p \in w.dirs
  <2>1. CASE \E c \in M : c.path = p /\ c.kind = "dir" /\ c \notin Metas
    <3>1. PICK c \in M : c.path = p /\ c.kind = "dir" /\ c \notin Metas
      BY <2>1
    <3>2. AliveIn(Y, p, n + 1, "dir") <=> c \notin Deletes
      BY <3>1, AliveRows DEF Y
    <3> QED BY <1>1, <1>2, <1>3, <3>1, <3>2
  <2>2. CASE ~\E c \in M : c.path = p /\ c.kind = "dir" /\ c \notin Metas
    <3>1. AliveIn(Y, p, n + 1, "dir") <=>
            /\ AliveIn(X, p, n, "dir")
            /\ ~\E c \in M : c \in Deletes /\ c.kind = "dir" /\ c.path \in Ancestors[p]
      BY <2>2, AliveRows DEF Y
    <3>2. AliveIn(X, p, n, "dir") <=> p \in v.dirs
      BY DEF Tells
    <3>3. p \in w.dirs <=>
            p \in v.dirs /\ \A c \in M : c \in Deletes => p # c.path /\ c.path \notin Ancestors[p]
      BY <1>2, <1>3, <2>2
    <3>4. p \in v.dirs => \A c \in M : c \in Deletes =>
            p # c.path /\ (c.path \in Ancestors[p] => c.kind = "dir")
      BY <1>3, <1>4, <1>5, <2>2 DEF NothingBelow
    <3> QED BY <3>1, <3>2, <3>3, <3>4
  <2> QED BY <2>1, <2>2
<1> QED BY <1>6, <1>7 DEF Tells, Y, w

-----------------------------------------------------------------------------
(* Types.                                                                   *)

LEMMA Typed ==
  TypeOK <=> /\ head \in 0 .. MaxRev /\ purges \in 0 .. MaxPurges
             /\ changes \subseteq Records(head)
             /\ tree \in Trees(head)
             /\ plain \in Seq(Plains) /\ Len(plain) = head + 1
BY DEF TypeOK, Records, Trees, Files, Dirs, Plains, Blobs

LEMMA TypedNext ==
  TypeOK' <=> /\ head' \in 0 .. MaxRev /\ purges' \in 0 .. MaxPurges
              /\ changes' \subseteq Records(head')
              /\ tree' \in Trees(head')
              /\ plain' \in Seq(Plains) /\ Len(plain') = head' + 1
BY DEF TypeOK, Records, Trees, Files, Dirs, Plains, Blobs

LEMMA Longer ==
  ASSUME NEW n \in Nat
  PROVE  Trees(n) \subseteq Trees(n + 1) /\ Records(n) \subseteq Records(n + 1)
<1>1. 1 .. n \subseteq 1 .. n + 1
  OBVIOUS
<1>2. PICK A, B : A = 1 .. n /\ B = 1 .. n + 1
  OBVIOUS
<1>3. A \subseteq B
  BY <1>1, <1>2
<1>4. [kind : {"file"}, hash : Blobs, rev : A, explicit : {FALSE}]
        \subseteq [kind : {"file"}, hash : Blobs, rev : B, explicit : {FALSE}]
  BY <1>3
<1>5. [kind : {"dir"}, hash : {Null}, rev : A, explicit : BOOLEAN]
        \subseteq [kind : {"dir"}, hash : {Null}, rev : B, explicit : BOOLEAN]
  BY <1>3
<1>6. Files(n) \subseteq Files(n + 1) /\ Dirs(n) \subseteq Dirs(n + 1)
  BY <1>2, <1>4, <1>5 DEF Files, Dirs
<1>7. Trees(n) \subseteq Trees(n + 1)
  BY <1>6 DEF Trees
<1>8. Records(n) \subseteq Records(n + 1)
  BY <1>1 DEF Records
<1> QED BY <1>7, <1>8

LEMMA AfterTyped ==
  ASSUME NEW v \in Plains, NEW C, C \subseteq Changes
  PROVE  After(v, C) \in Plains
<1> DEFINE puts(p) == {c \in C : c.path = p /\ c.op \in {"add", "modify"} /\ c.kind = "file"}
           made == {c.path : c \in {x \in C : x.op = "add" /\ x.kind = "dir"}}
           gone == UNION {{c.path} \union Under(c.path) : c \in {x \in C : x.op = "delete"}}
           files == [p \in Paths |-> IF puts(p) # {} THEN (CHOOSE c \in puts(p) : TRUE).hash
                                     ELSE IF p \in gone THEN None ELSE v.files[p]]
           dirs == (v.dirs \ gone) \union made
<1>1. After(v, C) = [files |-> files, dirs |-> dirs]
  BY DEF After
<1>2. ASSUME NEW p \in Paths
      PROVE  files[p] \in Blobs \union {None}
  <2>1. CASE puts(p) # {}
    <3>1. (CHOOSE c \in puts(p) : TRUE) \in puts(p)
      BY <2>1
    <3>2. \A c \in puts(p) : c.hash \in Blobs
      BY ChangeKinds
    <3> HIDE DEF puts
    <3> QED BY <2>1, <3>1, <3>2
  <2>2. CASE puts(p) = {}
    BY <2>2 DEF Plains
  <2> QED BY <2>1, <2>2
<1>3. files \in [Paths -> Blobs \union {None}]
  <2> HIDE DEF puts, gone
  <2> QED BY <1>2
<1>4. dirs \subseteq Paths
  BY ChangeKinds DEF Plains
<1> HIDE DEF files, dirs
<1> QED BY <1>1, <1>3, <1>4 DEF Plains

LEMMA LandTyped ==
  ASSUME TypeOK, Room, NEW A, NEW B, A \subseteq Changes, B \subseteq Changes, Land(A, B)
  PROVE  /\ head' = head + 1 /\ head' \in 0 .. MaxRev
         /\ changes' \subseteq Records(head') /\ tree' \in Trees(head')
         /\ plain' \in Seq(Plains) /\ Len(plain') = head' + 1
<1>1. PICK n \in Nat : n = head + 1
  BY Typed, HistoryAssumption
<1>2. /\ head \in Nat /\ n \in Nat \ {0} /\ head' = n /\ n \in 0 .. MaxRev
      /\ changes \subseteq Records(head) /\ tree \in Trees(n)
      /\ plain \in Seq(Plains) /\ Len(plain) = n
  BY <1>1, Typed, Longer, HistoryAssumption DEF Land, Room
<1>3. changes' = changes \union Added(A \union B, n)
  BY <1>1 DEF Land, Added, Rec
<1>4. changes' \subseteq Records(n)
  <2>1. changes \subseteq Records(n)
    BY <1>1, <1>2, Longer
  <2>2. \A c \in A \union B : Rec(c, head + 1) \in Records(head + 1)
    BY <1>2, RecFacts
  <2>3. Added(A \union B, n) \subseteq Records(n)
    BY <1>1, <2>2 DEF Added
  <2> QED BY <1>3, <2>1, <2>3
<1>5. tree' \in Trees(n)
  <2>1. Apply(tree, A, n) \in Trees(n)
    BY <1>2, ApplyIsTyped
  <2>2. Apply(Apply(tree, A, n), B, n) \in Trees(n)
    BY <1>2, <2>1, ApplyIsTyped
  <2> QED BY <1>1, <2>2 DEF Land
<1>6. plain' \in Seq(Plains) /\ Len(plain') = n + 1
  <2>1. After(plain[Len(plain)], A \union B) \in Plains
    BY <1>2, AfterTyped
  <2>2. plain' = Append(plain, After(plain[Len(plain)], A \union B))
    BY DEF Land
  <2> QED BY <1>2, <2>1, <2>2
<1> QED BY <1>1, <1>2, <1>4, <1>5, <1>6

\* A change that a client can see a reason for in the tree.
Offered(c) ==
  /\ c \in Changes
  /\ c \in Puts => \/ c.op = "add" /\ Fits(c.path)
                   \/ c.op = "modify" /\ IsFile(tree, c.path)
  /\ c \in Mkdirs => c.path \in NamedDirs /\ (Fits(c.path) \/ IsDir(tree, c.path))
  /\ c \in Deletes \union Metas => tree[c.path] # None /\ tree[c.path].kind = c.kind
  /\ c \in Metas /\ c.kind = "dir" => c.path \in NamedDirs

LEMMA OfferedOf ==
  ASSUME NEW p \in Paths, NEW c \in ChangesOf(p)
  PROVE  Offered(c) /\ c.path = p
<1>1. \/ \E h \in Hashes : c = Change(p, "add", "file", h) /\ Fits(p)
      \/ \E h \in Hashes : c = Change(p, "modify", "file", h) /\ IsFile(tree, p)
      \/ \E op \in {"delete", "meta"} : c = Change(p, op, "file", Null) /\ IsFile(tree, p)
      \/ /\ \E op \in {"delete", "meta"} : c = Change(p, op, "dir", Null) /\ IsDir(tree, p)
         /\ c.op = "meta" => p \in NamedDirs
      \/ /\ c = Change(p, "add", "dir", Null) /\ p \in NamedDirs
         /\ Fits(p) \/ IsDir(tree, p)
  BY DEF ChangesOf, Change
<1>2. CASE \E h \in Hashes : c = Change(p, "add", "file", h) /\ Fits(p)
  BY <1>2 DEF Change, Offered, Changes, Puts, Mkdirs, Deletes, Metas, Blobs
<1>3. CASE \E h \in Hashes : c = Change(p, "modify", "file", h) /\ IsFile(tree, p)
  BY <1>3 DEF Change, Offered, Changes, Puts, Mkdirs, Deletes, Metas, Blobs
<1>4. CASE \E op \in {"delete", "meta"} : c = Change(p, op, "file", Null) /\ IsFile(tree, p)
  BY <1>4 DEF Change, Offered, Changes, Puts, Mkdirs, Deletes, Metas, Blobs, IsFile
<1>5. CASE /\ \E op \in {"delete", "meta"} : c = Change(p, op, "dir", Null) /\ IsDir(tree, p)
           /\ c.op = "meta" => p \in NamedDirs
  BY <1>5 DEF Change, Offered, Changes, Puts, Mkdirs, Deletes, Metas, Blobs, IsDir
<1>6. CASE /\ c = Change(p, "add", "dir", Null) /\ p \in NamedDirs
           /\ Fits(p) \/ IsDir(tree, p)
  BY <1>6 DEF Change, Offered, Changes, Puts, Mkdirs, Deletes, Metas, Blobs
<1> QED BY <1>1, <1>2, <1>3, <1>4, <1>5, <1>6

\* The changes of a commit that also names what is below its deletions.
LEMMA SpreadFacts ==
  ASSUME TypeOK, NEW C, \A c \in C : Offered(c), \A c, d \in C : c.path = d.path => c = d
  PROVE  /\ \A c \in Spread(C) : Offered(c)
         /\ \A c, d \in Spread(C) : c.path = d.path => c = d
         /\ \A c \in Spread(C) : c \in C \/
              /\ c \in Deletes
              /\ \E x \in C : x.op = "delete" /\ x.path \in Paths /\ x.path \in Ancestors[c.path]
<1> DEFINE below == UNION {Under(c.path) : c \in {x \in C : x.op = "delete" /\ x.kind = "dir"}}
           Gone1(q) == Change(q, "delete", tree[q].kind, Null)
<1>1. C \subseteq Changes
  BY DEF Offered
<1>2. Spread(C) = {c \in C : c.path \notin below} \union
                  {Gone1(q) : q \in {x \in below : tree[x] # None}}
  BY DEF Spread
<1>3. \A q \in below : q \in Paths /\
        \E x \in C : x.op = "delete" /\ x.path \in Paths /\ x.path \in Ancestors[q]
  BY <1>1, ChangeKinds, BelowIsPath
<1>4. ASSUME NEW q \in below, tree[q] # None
      PROVE  Offered(Gone1(q)) /\ Gone1(q) \in Deletes /\ Gone1(q).path = q
  <2>1. q \in Paths
    BY <1>3
  <2>2. tree[q].kind \in {"file", "dir"}
    <3>1. head \in Nat /\ tree[q] \in {None} \union Files(head) \union Dirs(head)
      BY <2>1, Typed, HistoryAssumption DEF Trees
    <3> QED BY <1>4, <3>1, RowFacts
  <2>3. /\ Gone1(q) \in Deletes /\ Gone1(q).path = q /\ Gone1(q).kind = tree[q].kind
        /\ Gone1(q) \notin Puts /\ Gone1(q) \notin Mkdirs /\ Gone1(q) \notin Metas
    BY <2>1, <2>2 DEF Change, Deletes, Puts, Mkdirs, Metas
  <2> HIDE DEF Gone1
  <2> QED BY <1>4, <2>3 DEF Offered, Changes
<1> HIDE DEF below, Gone1
<1>5. \A c \in Spread(C) : \/ c \in C /\ c.path \notin below
                           \/ \E q \in below : tree[q] # None /\ c = Gone1(q)
  BY <1>2
<1> QED BY <1>3, <1>4, <1>5

LEMMA Chosen ==
  ASSUME NEW P \in SUBSET Paths, NEW f \in [P -> UNION {ChangesOf(p) : p \in P}],
         \A p \in P : f[p].path = p
  PROVE  /\ \A c \in {f[p] : p \in P} : Offered(c)
         /\ \A c, d \in {f[p] : p \in P} : c.path = d.path => c = d
<1>1. ASSUME NEW p \in P
      PROVE  Offered(f[p])
  <2>1. PICK q \in P : f[p] \in ChangesOf(q)
    OBVIOUS
  <2> QED BY <2>1, OfferedOf
<1> QED BY <1>1

\* What a restore lists is what the source revision has.
LEMMA RestoredIsThere ==
  ASSUME NEW p \in Paths, NEW source
  PROVE  /\ \A c \in RestoredFiles(p, source) : \E q \in Paths :
              /\ FileAt(q, source) # None
              /\ c = Change(q, IF FileAt(q, head) # None THEN "modify" ELSE "add",
                            "file", FileAt(q, source))
         /\ \A c \in RestoredDirs(p, source) : \E q \in Paths :
              ExplicitAlive(q, source) /\ c = Change(q, "add", "dir", Null)
<1>1. \A k : Candidates(p, source, k) \subseteq Paths
  BY BelowIsPath DEF Candidates
<1>2. ASSUME NEW c \in RestoredFiles(p, source)
      PROVE  \E q \in Paths :
              /\ FileAt(q, source) # None
              /\ c = Change(q, IF FileAt(q, head) # None THEN "modify" ELSE "add",
                            "file", FileAt(q, source))
  <2>1. CASE FileAt(p, source) # None
    BY <2>1 DEF RestoredFiles
  <2>2. CASE FileAt(p, source) = None
    BY <1>1, <2>2 DEF RestoredFiles
  <2> QED BY <2>1, <2>2
<1>3. ASSUME NEW c \in RestoredDirs(p, source)
      PROVE  \E q \in Paths : ExplicitAlive(q, source) /\ c = Change(q, "add", "dir", Null)
  <2>1. FileAt(p, source) = None
    BY DEF RestoredDirs
  <2> QED BY <1>1, <2>1 DEF RestoredDirs
<1> QED BY <1>2, <1>3

LEMMA RestoredTyped ==
  ASSUME TypeOK, NEW p \in Paths, NEW source
  PROVE  /\ RestoredFiles(p, source) \subseteq Puts
         /\ RestoredDirs(p, source) \subseteq Mkdirs
<1>1. ASSUME NEW q \in Paths, FileAt(q, source) # None
      PROVE  FileAt(q, source) \in Blobs
  <2> DEFINE S == RecsOf(q, source, {"file"})
  <2>1. changes \subseteq Records(head) /\ head \in Nat
    BY Typed
  <2>2. S # {} /\ FileAt(q, source) = Latest(S).hash
    BY <1>1 DEF FileAt, Alive
  <2>3. S \subseteq changes /\ \A c \in S : c.rev \in 1 .. head
    BY <2>1 DEF RecsOf, Records
  <2> HIDE DEF S
  <2>4. Latest(S) \in changes
    BY <2>1, <2>2, <2>3, HasLatest
  <2> QED BY <2>1, <2>2, <2>4 DEF Records
<1> QED BY <1>1, RestoredIsThere DEF Change, Puts, Mkdirs

\* The first file below a directory is a file below it.
LEMMA FirstIsFile ==
  ASSUME NEW t, NEW d, NEW f \in Under(d), IsFile(t, f)
  PROVE  FirstFile(t, d) \in Under(d) /\ IsFile(t, FirstFile(t, d))
<1> DEFINE S == {i \in DOMAIN Order : Order[i] \in Under(d) /\ IsFile(t, Order[i])}
<1>1. f \in Paths
  BY BelowIsPath, HistoryAssumption DEF Under
<1>2. S \subseteq Nat /\ S # {}
  BY <1>1, HistoryAssumption
<1>3. PICK m \in S : \A k \in S : m <= k
  <2> HIDE DEF S
  <2> QED BY <1>2, Least
<1>4. Min(S) \in S
  <2> HIDE DEF S
  <2>1. \E x \in S : \A y \in S : x <= y
    BY <1>3
  <2> QED BY Zenon, <2>1 DEF Min
<1> QED BY <1>4 DEF FirstFile

LEMMA RebuiltTyped ==
  ASSUME NEW n \in Nat, NEW t \in Trees(n)
  PROVE  RebuildHeadTree(t) \in Trees(n)
<1>1. ASSUME NEW p \in Paths
      PROVE  RebuildHeadTree(t)[p] \in {None} \union Files(n) \union Dirs(n)
  <2>1. RebuildHeadTree(t)[p] = IF IsFile(t, p) THEN t[p] ELSE DirRow(t, p)
    BY DEF RebuildHeadTree
  <2>2. t[p] \in {None} \union Files(n) \union Dirs(n)
    BY DEF Trees
  <2>3. CASE \E f \in Under(p) : IsFile(t, f)
    <3> DEFINE x == FirstFile(t, p)
    <3>1. x \in Under(p) /\ IsFile(t, x)
      BY <2>3, FirstIsFile
    <3>2. x \in Paths /\ t[x] # None
      BY <3>1, BelowIsPath DEF IsFile
    <3>3. t[x].rev \in 1 .. n
      <4>1. t[x] \in {None} \union Files(n) \union Dirs(n)
        BY <3>2 DEF Trees
      <4> QED BY <3>2, <4>1, RowFacts
    <3>4. PICK made \in BOOLEAN : made = (IsDir(t, p) /\ t[p].explicit)
      OBVIOUS
    <3>5. DirRow(t, p) = Row("dir", Null, t[x].rev, IsDir(t, p) /\ t[p].explicit)
      BY <2>3 DEF DirRow
    <3>6. DirRow(t, p) \in Dirs(n)
      BY <3>3, <3>4, <3>5 DEF Row, Dirs
    <3> QED BY <2>1, <2>2, <3>6
  <2>4. CASE ~\E f \in Under(p) : IsFile(t, f)
    <3>1. DirRow(t, p) \in {None, t[p]}
      BY <2>4 DEF DirRow
    <3> QED BY <2>1, <2>2, <3>1
  <2> QED BY <2>3, <2>4
<1> QED BY <1>1 DEF RebuildHeadTree, Trees

\* The steps, with what they leave alone.
LEMMA TypeInit == Init => TypeOK
<1> SUFFICES ASSUME Init
             PROVE  TypeOK
  OBVIOUS
<1>1. NoTree \in Plains
  BY DEF NoTree, Plains
<1>2. plain \in Seq(Plains) /\ Len(plain) = 1
  BY <1>1 DEF Init
<1>3. tree \in Trees(0)
  BY DEF Init, Trees
<1> QED BY <1>2, <1>3, Typed, HistoryAssumption DEF Init

LEMMA CommitIs ==
  ASSUME Commit
  PROVE  \E C : \E L \in {C, Spread(C)} :
           /\ \A c \in C : Offered(c)
           /\ \A c, d \in C : c.path = d.path => c = d
           /\ Coherent(C) /\ NotBelowDeleted(C)
           /\ Room /\ Land(L, {}) /\ UNCHANGED purges
<1>1. PICK P \in SUBSET Paths : \E f \in [P -> UNION {ChangesOf(p) : p \in P}] :
        LET C == {f[p] : p \in P} IN
        /\ \A p \in P : f[p].path = p
        /\ Coherent(C) /\ NotBelowDeleted(C)
        /\ \E L \in {C, Spread(C)} : Land(L, {})
        /\ UNCHANGED purges
  BY DEF Commit
<1>2. PICK f \in [P -> UNION {ChangesOf(p) : p \in P}] :
        LET C == {f[p] : p \in P} IN
        /\ \A p \in P : f[p].path = p
        /\ Coherent(C) /\ NotBelowDeleted(C)
        /\ \E L \in {C, Spread(C)} : Land(L, {})
        /\ UNCHANGED purges
  BY <1>1
<1> DEFINE C == {f[p] : p \in P}
<1>3. (\A c \in C : Offered(c)) /\ \A c, d \in C : c.path = d.path => c = d
  BY <1>2, Chosen
<1>4. /\ Coherent(C) /\ NotBelowDeleted(C)
      /\ \E L \in {C, Spread(C)} : Land(L, {})
      /\ UNCHANGED purges
  BY <1>2
<1>5. Room
  BY DEF Commit
<1> HIDE DEF C
<1> QED BY <1>3, <1>4, <1>5

LEMMA TypeStep == TypeOK /\ [Next]_vars => TypeOK'
<1> SUFFICES ASSUME TypeOK, [Next]_vars
             PROVE  TypeOK'
  OBVIOUS
<1>1. ASSUME NEW A, NEW B, A \subseteq Changes, B \subseteq Changes, Room, Land(A, B),
             UNCHANGED purges
      PROVE  TypeOK'
  BY <1>1, LandTyped, Typed, TypedNext
<1>2. CASE Commit
  <2>1. PICK C : \E L \in {C, Spread(C)} :
          /\ \A c \in C : Offered(c)
          /\ \A c, d \in C : c.path = d.path => c = d
          /\ Room /\ Land(L, {}) /\ UNCHANGED purges
    BY <1>2, CommitIs
  <2>2. C \subseteq Changes /\ Spread(C) \subseteq Changes
    BY <2>1, SpreadFacts DEF Offered
  <2> QED BY <1>1, <2>1, <2>2
<1>3. ASSUME NEW p \in Paths, NEW source \in 1 .. head, Restore(p, source)
      PROVE  TypeOK'
  <2>1. RestoredFiles(p, source) \subseteq Changes /\ RestoredDirs(p, source) \subseteq Changes
    BY RestoredTyped DEF Changes
  <2>2. /\ Room /\ Land(RestoredFiles(p, source), RestoredDirs(p, source))
        /\ UNCHANGED purges
    BY <1>3 DEF Restore
  <2> QED BY <1>1, <2>1, <2>2
<1>4. ASSUME NEW p \in Paths, Purge(p)
      PROVE  TypeOK'
  <2> DEFINE gone == {p} \union Under(p)
             after(n) == [files |-> Without(plain[n].files, gone), dirs |-> plain[n].dirs \ gone]
  <2>1. /\ head' = head /\ purges < MaxPurges /\ purges' = purges + 1
        /\ changes' = {c \in changes : c.path \notin gone}
        /\ tree' = RebuildHeadTree(Without(tree, gone))
        /\ plain' = [n \in DOMAIN plain |-> after(n)]
    BY <1>4 DEF Purge
  <2> HIDE DEF gone
  <2>2. head \in Nat /\ tree' \in Trees(head)
    <3>1. head \in Nat /\ tree \in Trees(head)
      BY Typed
    <3> QED BY <2>1, <3>1, Removed, RebuiltTyped
  <2>3. \A n \in DOMAIN plain : after(n) \in Plains
    <3> SUFFICES ASSUME NEW n \in DOMAIN plain
                 PROVE  after(n) \in Plains
      OBVIOUS
    <3>1. plain[n] \in Plains
      BY Typed
    <3>2. Without(plain[n].files, gone) \in [Paths -> Blobs \union {None}]
      BY <3>1 DEF Plains, Without
    <3>3. plain[n].dirs \ gone \subseteq Paths
      BY <3>1 DEF Plains
    <3> QED BY <3>2, <3>3 DEF Plains
  <2>4. plain' \in Seq(Plains) /\ Len(plain') = head + 1
    <3>1. plain \in Seq(Plains) /\ Len(plain) = head + 1
      BY Typed
    <3> HIDE DEF after
    <3> QED BY <2>1, <2>3, <3>1
  <2>5. purges' \in 0 .. MaxPurges
    BY <2>1, Typed, HistoryAssumption
  <2>6. head \in 0 .. MaxRev /\ changes' \subseteq Records(head)
    BY <2>1, Typed
  <2> QED BY <2>1, <2>2, <2>4, <2>5, <2>6, TypedNext
<1>5. CASE UNCHANGED vars
  BY <1>5, Typed, TypedNext DEF vars
<1> QED BY <1>2, <1>3, <1>4, <1>5 DEF Next

(* The rows of the two tables have their types, whatever is committed,      *)
(* restored and purged.                                                     *)
THEOREM TypeCorrect == Spec => []TypeOK
<1>1. Init => TypeOK
  BY TypeInit
<1>2. TypeOK /\ [Next]_vars => TypeOK'
  BY TypeStep
<1> QED BY <1>1, <1>2, PTL DEF Spec

-----------------------------------------------------------------------------
(* What HEAD has, and what is remembered.                                   *)

\* Every revision is a tree, of which the table tells.
Told ==
  \A r \in 0 .. head : /\ Good(plain[r + 1]) /\ Tells(changes, r, plain[r + 1])
                       /\ plain[r + 1].dirs \subseteq NamedDirs
\* A directory is named by rows other than deletions only where it may be,
\* and attributes were given to files that were there.
Noted ==
  \A x \in changes :
    /\ x.kind = "dir" /\ x.op # "delete" => x.path \in NamedDirs
    /\ x.kind = "file" /\ x.op = "meta" => plain[x.rev + 1].files[x.path] # None
HInv ==
  /\ TypeOK /\ Recorded(changes, head)
  /\ Told /\ Noted
  /\ Agree(tree, plain[head + 1])

LEMMA HeadTree ==
  ASSUME HInv
  PROVE  /\ head \in Nat /\ tree \in Trees(head)
         /\ Good(plain[head + 1]) /\ Tells(changes, head, plain[head + 1])
         /\ plain[head + 1].dirs \subseteq NamedDirs
         /\ plain[head + 1] \in Plains
BY Typed, HistoryAssumption DEF HInv, Told, Good

\* The changes of a list leave rows like those.
Notable(M, v) ==
  \A c \in M : /\ c.kind = "dir" /\ c \notin Deletes => c.path \in NamedDirs
               /\ c.kind = "file" /\ c \in Metas => v.files[c.path] # None

LEMMA LandFits ==
  ASSUME HInv, Room, NEW A, NEW B, A \cap B = {}, Land(A, B), UNCHANGED purges,
         Fitting(A \union B, plain[head + 1]), Notable(A \union B, plain[head + 1])
  PROVE  HInv'
<1> DEFINE M == A \union B
<1>0. PICK n \in Nat : n = head
  BY HeadTree
<1>1. PICK v : v = plain[n + 1]
  OBVIOUS
<1>2. /\ Good(v) /\ Tells(changes, n, v) /\ v.dirs \subseteq NamedDirs /\ v \in Plains
      /\ Recorded(changes, n) /\ tree \in Trees(n) /\ Agree(tree, v)
      /\ Fitting(M, v) /\ M \subseteq Changes /\ \A c, d \in M : c.path = d.path => c = d
      /\ Notable(M, v)
  BY <1>0, <1>1, HeadTree DEF HInv, Fitting
<1>3. Once(M)
  BY <1>2 DEF Once
<1>4. /\ plain \in Seq(Plains) /\ Len(plain) = n + 1 /\ TypeOK
  BY <1>0, Typed DEF HInv
<1>5. /\ head' = n + 1
      /\ changes' = changes \union Added(M, n + 1)
      /\ tree' = Apply(Apply(tree, A, n + 1), B, n + 1)
      /\ plain' = Append(plain, After(v, M))
  BY <1>0, <1>1, <1>4 DEF Land, Added, Rec
<1>6. TypeOK'
  <2>1. A \subseteq Changes /\ B \subseteq Changes
    BY <1>2
  <2> QED BY <1>4, <2>1, LandTyped, Typed, TypedNext
<1>7. Recorded(changes', n + 1)
  BY <1>2, <1>3, <1>5, RecordedStays
<1>8. Good(After(v, M)) /\ Agree(tree', After(v, M))
  <2>1. n + 1 \in Nat \ {0} /\ tree \in Trees(n + 1)
    <3>1. Trees(n) \subseteq Trees(n + 1)
      BY Longer
    <3> QED BY <1>2, <3>1
  <2> QED BY <1>2, <1>5, <2>1, LandAgrees
<1>9. Tells(changes', n + 1, After(v, M))
  BY <1>2, <1>3, <1>5, TellsAfter
<1>10. After(v, M).dirs \subseteq NamedDirs
  <2>1. \A p \in Paths : p \in After(v, M).dirs <=>
              \/ \E c \in M : c \in Mkdirs /\ c.path = p
              \/ p \in v.dirs /\ \A c \in M : c \in Deletes =>
                                   p # c.path /\ c.path \notin Ancestors[p]
    BY <1>2, AfterRows
  <2>2. After(v, M).dirs \subseteq Paths
    BY <1>8 DEF Good, Plains
  <2>3. \A c \in M : c \in Mkdirs => c.path \in NamedDirs
    BY <1>2, ChangeKinds DEF Notable, Mkdirs, Deletes
  <2> QED BY <1>2, <2>1, <2>2, <2>3
<1>15. \A c \in M : c \in Metas /\ c.kind = "file" => After(v, M).files[c.path] # None
  <2> SUFFICES ASSUME NEW c \in M, c \in Metas, c.kind = "file"
               PROVE  After(v, M).files[c.path] # None
    OBVIOUS
  <2>1. c.path \in Paths /\ c \notin Puts /\ c \notin Deletes /\ v.files[c.path] # None
    BY <1>2, ChangeKinds DEF Notable, Metas, Puts, Deletes
  <2>2. \A d \in M : d.path = c.path => d \notin Puts
    BY <1>2, <2>1
  <2>3. ~\E d \in M : d \in Deletes /\ (c.path = d.path \/ d.path \in Ancestors[c.path])
    BY <1>2, <2>1 DEF Fitting
  <2> QED BY <1>2, <2>1, <2>2, <2>3, AfterRows
<1> HIDE DEF M
<1>11. After(v, M) \in Plains
  BY <1>8 DEF Good
<1>12. /\ \A r \in 0 .. n : plain'[r + 1] = plain[r + 1]
       /\ plain'[n + 2] = After(v, M)
  BY <1>4, <1>5, <1>11
<1>13. Told'
  <2> SUFFICES ASSUME NEW r \in 0 .. n + 1
               PROVE  /\ Good(plain'[r + 1]) /\ Tells(changes', r, plain'[r + 1])
                      /\ plain'[r + 1].dirs \subseteq NamedDirs
    BY <1>5 DEF Told
  <2>1. CASE r = n + 1
    BY <1>8, <1>9, <1>10, <1>12, <2>1
  <2>2. CASE r # n + 1
    <3>1. r \in 0 .. n /\ plain'[r + 1] = plain[r + 1]
      BY <1>12, <2>2
    <3>2. PICK u : u = plain[r + 1]
      OBVIOUS
    <3>3. Good(u) /\ Tells(changes, r, u) /\ u.dirs \subseteq NamedDirs
      BY <1>0, <3>1, <3>2 DEF HInv, Told
    <3> DEFINE Y == changes \union Added(M, n + 1)
    <3>4. /\ \A p : HashIn(Y, p, r) = HashIn(changes, p, r)
          /\ \A p : AliveIn(Y, p, r, "dir") <=> AliveIn(changes, p, r, "dir")
      BY <1>2, <1>3, <3>1, EarlierRows
    <3> HIDE DEF Y
    <3>5. Tells(changes', r, u)
      <4>1. changes' = Y
        BY <1>5 DEF Y
      <4>2. Tells(Y, r, u)
        BY <3>3, <3>4 DEF Tells
      <4> QED BY <4>1, <4>2
    <3> QED BY <3>1, <3>2, <3>3, <3>5
  <2> QED BY <2>1, <2>2
<1>16. Noted'
  <2> SUFFICES ASSUME NEW x \in changes'
               PROVE  /\ x.kind = "dir" /\ x.op # "delete" => x.path \in NamedDirs
                      /\ x.kind = "file" /\ x.op = "meta" => plain'[x.rev + 1].files[x.path] # None
    BY DEF Noted
  <2>1. CASE x \in changes
    <3>1. x.rev \in 0 .. n
      BY <1>2, <2>1 DEF Recorded, Records
    <3> QED BY <1>12, <2>1, <3>1 DEF HInv, Noted
  <2>2. CASE x \notin changes
    <3>1. PICK c \in M : x = Rec(c, n + 1)
      BY <1>5, <2>2 DEF Added
    <3>2. /\ c \in Changes /\ x.rev = n + 1 /\ x.path = c.path /\ x.op = c.op /\ x.kind = c.kind
          /\ c \in Deletes <=> c.op = "delete"
          /\ c \in Metas <=> c.op = "meta"
      BY <1>2, <3>1, RecFacts, ChangeKinds
    <3>3. plain'[x.rev + 1] = After(v, M)
      BY <1>12, <3>2
    <3> QED BY <1>2, <1>15, <3>2, <3>3 DEF Notable
  <2> QED BY <2>1, <2>2
<1>14. Agree(tree', plain'[head' + 1])
  <2>1. head' + 1 = n + 2
    BY <1>5
  <2> QED BY <1>8, <1>12, <2>1
<1> QED BY <1>5, <1>6, <1>7, <1>13, <1>14, <1>16 DEF HInv

\* What the tree at HEAD says of the plain tree.
LEMMA TreeSays ==
  ASSUME NEW n \in Nat, NEW t \in Trees(n), NEW v, Good(v), Agree(t, v), NEW p \in Paths
  PROVE  /\ IsFile(t, p) <=> v.files[p] # None
         /\ IsDir(t, p) <=> t[p] # None /\ v.files[p] = None
         /\ t[p] = None => v.files[p] = None /\ p \notin v.dirs /\ NothingBelow(v, p)
         /\ t[p] # None => \A a \in Ancestors[p] : v.files[a] = None /\ t[a] # None
<1>1. /\ v \in Plains /\ t[p] \in {None} \union Files(n) \union Dirs(n)
      /\ \A a \in Paths : a \in Shown(v) <=> \E e \in Entries(v) : a = e \/ a \in Ancestors[e]
      /\ Entries(v) \subseteq Paths
      /\ p \in Entries(v) <=> v.files[p] # None \/ p \in v.dirs
  BY ShownBy DEF Good, Trees
<1>2. /\ t[p] # None <=> p \in Shown(v)
      /\ v.files[p] # None => IsFile(t, p)
      /\ t[p] # None /\ v.files[p] = None => IsDir(t, p)
  BY DEF Agree
<1>3. t[p] = None => v.files[p] = None /\ p \notin v.dirs /\ NothingBelow(v, p)
  BY <1>1, <1>2 DEF NothingBelow
<1>4. ASSUME t[p] # None, NEW a \in Ancestors[p]
      PROVE  v.files[a] = None /\ t[a] # None
  <2>1. PICK e \in Entries(v) : p = e \/ p \in Ancestors[e]
    BY <1>1, <1>2, <1>4
  <2>2. e \in Paths /\ a \in Ancestors[e] /\ a \in Paths
    BY <1>1, <2>1, Transitive, AncestorsArePaths
  <2>3. a \in Shown(v)
    BY <1>1, <2>1, <2>2
  <2> QED BY <2>1, <2>2, <2>3 DEF Good, NothingBelow, Agree
<1> QED BY <1>2, <1>3, <1>4 DEF IsFile, IsDir

LEMMA CommitFits ==
  ASSUME HInv, NEW C, \A c \in C : Offered(c), \A c, d \in C : c.path = d.path => c = d,
         Coherent(C), NotBelowDeleted(C), NEW S \in {C, Spread(C)}
  PROVE  Fitting(S, plain[head + 1]) /\ Notable(S, plain[head + 1])
<1>0. PICK n \in Nat, v \in {plain[head + 1]} : n = head /\ v = plain[head + 1]
  BY HeadTree
<1>1. Good(v) /\ tree \in Trees(n) /\ Agree(tree, v)
  BY <1>0, HeadTree DEF HInv
<1>2. /\ \A c \in S : Offered(c) /\ c \in Changes
      /\ \A c, d \in S : c.path = d.path => c = d
      /\ \A c \in S : c \in C \/
           /\ c \in Deletes
           /\ \E x \in C : x.op = "delete" /\ x.path \in Paths /\ x.path \in Ancestors[c.path]
  BY SpreadFacts DEF HInv, Offered
<1>3. \A p \in Paths :
        /\ IsFile(tree, p) <=> v.files[p] # None
        /\ IsDir(tree, p) <=> tree[p] # None /\ v.files[p] = None
        /\ tree[p] = None => v.files[p] = None /\ p \notin v.dirs /\ NothingBelow(v, p)
        /\ tree[p] # None => \A a \in Ancestors[p] : v.files[a] = None /\ tree[a] # None
  BY <1>1, TreeSays
<1>4. \A c \in S : /\ c.path \in Paths /\ Ancestors[c.path] \subseteq Paths
                   /\ c \in Deletes <=> c.op = "delete"
                   /\ c \in Puts => c.kind = "file" /\ c \notin Deletes
                   /\ c \in Mkdirs => c \notin Puts /\ c \notin Deletes
                   /\ c \in Metas => c \notin Puts /\ c \notin Deletes /\ c \notin Mkdirs
                   /\ c.kind = "file" \/ c.kind = "dir"
                   /\ c \in Puts \/ c \in Mkdirs \/ c \in Deletes \/ c \in Metas
  BY <1>2, ChangeKinds, AncestorsArePaths DEF Changes, Puts, Mkdirs, Deletes, Metas
<1>5. ASSUME NEW c \in S
      PROVE  Possible(v, c)
  <2> DEFINE p == c.path
  <2>1. p \in Paths /\ \A a \in Ancestors[p] : a \in Paths
    BY <1>4
  <2>2. \/ Fits(p) \/ (c \in Puts /\ IsFile(tree, p)) \/ (c \in Mkdirs /\ IsDir(tree, p))
        \/ c \in Deletes \union Metas /\ tree[p] # None /\ tree[p].kind = c.kind
    BY <1>2 DEF Offered, Changes
  <2>3. \A a \in Ancestors[p] : v.files[a] = None
    BY <1>3, <2>1, <2>2 DEF Fits, IsFile, IsDir
  <2>4. c \in Puts \/ (c \in Deletes /\ c.kind = "file") => p \notin v.dirs /\ NothingBelow(v, p)
    <3>1. v.files[p] # None => p \notin v.dirs /\ NothingBelow(v, p)
      BY <1>1, <2>1 DEF Good
    <3>2. c \in Puts \/ (c \in Deletes /\ c.kind = "file") => tree[p] = None \/ IsFile(tree, p)
      BY <1>4, <2>2 DEF Fits, IsFile
    <3> QED BY <1>3, <2>1, <3>1, <3>2
  <2>5. c \in Mkdirs \/ (c \in Deletes /\ c.kind = "dir") => v.files[p] = None
    <3>1. c \in Mkdirs \/ (c \in Deletes /\ c.kind = "dir") => tree[p] = None \/ IsDir(tree, p)
      BY <1>4, <2>2 DEF Fits, IsDir
    <3> QED BY <1>3, <2>1, <3>1
  <2> QED BY <2>3, <2>4, <2>5 DEF Possible
<1>6. ASSUME NEW c \in Puts \cap S, NEW d \in S, c.path \in Ancestors[d.path]
      PROVE  FALSE
  <2>1. v.files[c.path] = None /\ c.path \in Paths /\ d.path \in Paths /\ c \in C
    BY <1>2, <1>4, <1>5, <1>6 DEF Possible
  <2>2. c.op = "add" /\ tree[c.path] = None
    BY <1>2, <1>3, <2>1 DEF Offered, Fits
  <2>3. d \notin C
    BY <1>4, <1>6, <2>1, <2>2, BelowIsPath DEF Coherent
  <2>4. tree[d.path] # None
    BY <1>2, <2>3 DEF Offered
  <2> QED BY <1>3, <1>6, <2>1, <2>2, <2>4
<1>7. ASSUME NEW c \in Deletes \cap S, NEW d \in S, c.path \in Ancestors[d.path], d \notin Deletes
      PROVE  FALSE
  <2>1. d \in C /\ c.path \in Paths /\ d.path \in Paths /\ d.op # "delete" /\ c.op = "delete"
    BY <1>2, <1>4, <1>7
  <2>2. c \notin C
    BY <1>7, <2>1, BelowIsPath DEF NotBelowDeleted
  <2>3. PICK x \in C : x.op = "delete" /\ x.path \in Paths /\ x.path \in Ancestors[c.path]
    BY <1>2, <2>2
  <2>4. d.path \in Under(x.path)
    BY <1>7, <2>1, <2>3, BelowIsPath, Transitive
  <2> QED BY <2>1, <2>3, <2>4 DEF NotBelowDeleted
<1>8. Fitting(S, v)
  <2>1. S \subseteq Changes
    BY <1>2
  <2> QED BY <1>2, <1>5, <1>6, <1>7, <2>1 DEF Fitting
<1>9. Notable(S, v)
  <2> SUFFICES ASSUME NEW c \in S
               PROVE  /\ c.kind = "dir" /\ c \notin Deletes => c.path \in NamedDirs
                      /\ c.kind = "file" /\ c \in Metas => v.files[c.path] # None
    BY DEF Notable
  <2>1. c.kind = "dir" /\ c \notin Deletes => c.path \in NamedDirs
    BY <1>2, <1>4 DEF Offered
  <2>2. c.kind = "file" /\ c \in Metas => IsFile(tree, c.path)
    BY <1>2 DEF Offered, IsFile
  <2> QED BY <1>3, <1>4, <2>1, <2>2
<1> QED BY <1>0, <1>8, <1>9

LEMMA RestoreFits ==
  ASSUME HInv, NEW p \in Paths, NEW source \in 1 .. head,
         \A c \in RestoredFiles(p, source) \union RestoredDirs(p, source) :
           /\ \A a \in Ancestors[c.path] : ~IsFile(tree, a)
           /\ tree[c.path] # None => tree[c.path].kind = c.kind
           /\ \A d \in RestoredFiles(p, source) \union RestoredDirs(p, source) :
                d.path \in Under(c.path) => c.kind = "dir"
  PROVE  /\ Fitting(RestoredFiles(p, source) \union RestoredDirs(p, source), plain[head + 1])
         /\ Notable(RestoredFiles(p, source) \union RestoredDirs(p, source), plain[head + 1])
         /\ RestoredFiles(p, source) \cap RestoredDirs(p, source) = {}
<1> DEFINE A == RestoredFiles(p, source)
           B == RestoredDirs(p, source)
           M == A \union B
<1>0. PICK n \in Nat, v \in {plain[head + 1]} : n = head /\ v = plain[head + 1]
  BY HeadTree
<1>1. Good(v) /\ tree \in Trees(n) /\ Agree(tree, v)
  BY <1>0, HeadTree DEF HInv
<1>2. ASSUME NEW q \in Paths, ExplicitAlive(q, source)
      PROVE  q \in NamedDirs
  <2> DEFINE D == RecsOf(q, source, {"dir"})
  <2>1. D # {} /\ Latest(D).op # "delete"
    BY <1>2 DEF ExplicitAlive, Alive
  <2>2. D \subseteq changes /\ head \in Nat /\ \A c \in D : c.rev \in 1 .. head
    BY Typed DEF HInv, RecsOf, Records
  <2>3. \A c \in D : c.path = q /\ c.kind = "dir"
    BY DEF RecsOf
  <2> HIDE DEF D
  <2>4. Latest(D) \in D
    BY <2>1, <2>2, HasLatest
  <2> QED BY <2>1, <2>2, <2>3, <2>4 DEF HInv, Noted
<1>4. A \subseteq Puts /\ B \subseteq Mkdirs
  BY RestoredTyped DEF HInv
<1>6. \A c, d \in A : c.path = d.path => c = d
  BY RestoredIsThere DEF Change
<1>7. /\ \A c \in B : c.path \in NamedDirs
      /\ \A c, d \in B : c.path = d.path => c = d
  BY <1>2, RestoredIsThere DEF Change
<1>8. ASSUME NEW c \in A, NEW d \in B
      PROVE  c.path # d.path
  <2>1. FileAt(p, source) = None
    BY DEF RestoredDirs
  <2>2. c.path \in Candidates(p, source, "file")
    BY <2>1 DEF RestoredFiles, Change
  <2>3. d.path = p \/ d.path \in Candidates(p, source, "dir")
    BY <2>1 DEF RestoredDirs, Change
  <2>4. c.path # p
    BY <2>2, BelowIsPath, HistoryAssumption DEF Candidates
  <2> QED BY <2>2, <2>3, <2>4 DEF Candidates
<1>9. \A c \in M : /\ c \in Puts => c \in A /\ c.kind = "file"
                   /\ c \in Mkdirs => c \in B /\ c.kind = "dir"
                   /\ c \notin Deletes /\ c \notin Metas /\ c \in Changes
                   /\ c.path \in Paths
                   /\ c.kind = "dir" => c \in B
  <2> HIDE DEF A, B
  <2> QED BY <1>4 DEF Puts, Mkdirs, Deletes, Metas, Changes
<1>10. \A c \in M : /\ \A a \in Ancestors[c.path] : ~IsFile(tree, a)
                    /\ tree[c.path] # None => tree[c.path].kind = c.kind
                    /\ \A d \in M : d.path \in Under(c.path) => c.kind = "dir"
  OBVIOUS
<1> HIDE DEF A, B
<1>11. \A c, d \in M : c.path = d.path => c = d
  BY <1>6, <1>7, <1>8
<1>12. ASSUME NEW c \in M
       PROVE  Possible(v, c)
  <2> DEFINE q == c.path
  <2>1. q \in Paths /\ \A a \in Ancestors[q] : a \in Paths
    BY <1>9, AncestorsArePaths
  <2>2. \A a \in Paths : IsFile(tree, a) <=> v.files[a] # None
    BY <1>1, TreeSays
  <2>3. tree[q] = None => v.files[q] = None /\ q \notin v.dirs /\ NothingBelow(v, q)
    BY <1>1, <2>1, TreeSays
  <2>4. v.files[q] # None => q \notin v.dirs /\ NothingBelow(v, q)
    BY <1>1, <2>1 DEF Good
  <2>5. \A a \in Ancestors[q] : v.files[a] = None
    BY <1>10, <2>1, <2>2
  <2>6. c \in Puts => q \notin v.dirs /\ NothingBelow(v, q)
    BY <1>9, <1>10, <2>1, <2>2, <2>3, <2>4 DEF IsFile
  <2>7. c \in Mkdirs => v.files[q] = None
    BY <1>9, <1>10, <2>1, <2>2 DEF IsFile
  <2> QED BY <1>9, <2>5, <2>6, <2>7 DEF Possible
<1>13. \A c \in Puts \cap M, d \in M : c.path \notin Ancestors[d.path]
  BY <1>9, <1>10, BelowIsPath
<1>14. Fitting(M, v)
  <2>1. M \subseteq Changes /\ Deletes \cap M = {}
    BY <1>9
  <2> HIDE DEF M
  <2> QED BY <1>11, <1>12, <1>13, <2>1 DEF Fitting
<1>15. A \cap B = {} /\ Notable(M, v)
  BY <1>7, <1>8, <1>9 DEF Notable
<1> QED BY <1>0, <1>14, <1>15 DEF A, B

\* The plain tree and the table without a path and what is below it.
PurgedPlain(v, p) ==
  [files |-> Without(v.files, {p} \union Under(p)), dirs |-> v.dirs \ ({p} \union Under(p))]
PurgedTable(X, p) == {c \in X : c.path \notin {p} \union Under(p)}

LEMMA PurgedGood ==
  ASSUME NEW v, Good(v), NEW p \in Paths
  PROVE  /\ Good(PurgedPlain(v, p))
         /\ \A q \in Paths : PurgedPlain(v, p).files[q] =
                             IF q \in {p} \union Under(p) THEN None ELSE v.files[q]
         /\ \A q : q \in PurgedPlain(v, p).dirs <=> q \in v.dirs /\ q \notin {p} \union Under(p)
<1> DEFINE gone == {p} \union Under(p)
           w == PurgedPlain(v, p)
<1> HIDE DEF gone
<1>1. /\ w.files = Without(v.files, gone) /\ w.dirs = v.dirs \ gone
      /\ \A q \in Paths : w.files[q] = IF q \in gone THEN None ELSE v.files[q]
      /\ \A q : q \in w.dirs <=> q \in v.dirs /\ q \notin gone
  BY DEF Without, PurgedPlain, gone
<1>2. w \in Plains /\ v \in Plains
  <2>1. Without(v.files, gone) \in [Paths -> Blobs \union {None}] /\ v \in Plains
    BY DEF Good, Plains, Without
  <2>2. v.dirs \ gone \subseteq Paths
    BY <2>1 DEF Plains
  <2> QED BY <2>1, <2>2 DEF Plains, PurgedPlain, gone
<1> HIDE DEF w
<1>3. \A e : e \in Entries(w) => e \in Entries(v)
  BY <1>1, <1>2, ShownBy
<1>4. \A q \in Paths : w.files[q] # None => q \notin w.dirs /\ NothingBelow(w, q)
  BY <1>1, <1>3 DEF Good, NothingBelow
<1>5. Good(w)
  BY <1>2, <1>4 DEF Good
<1> QED BY <1>1, <1>5 DEF w, gone

\* Without the rows at and below a path, the table tells of the other paths
\* what it told, and of these nothing.
LEMMA PurgedRows ==
  ASSUME NEW n \in Nat, NEW X, Recorded(X, n), NEW p \in Paths
  PROVE  /\ Recorded(PurgedTable(X, p), n)
         /\ \A rev, v : Tells(X, rev, v) /\ Good(v) =>
              Tells(PurgedTable(X, p), rev, PurgedPlain(v, p))
<1> DEFINE gone == {p} \union Under(p)
           Y == PurgedTable(X, p)
<1>1. \A q \in Paths : q \in gone <=> q = p \/ p \in Ancestors[q]
  BY BelowIsPath
<1>2. Recorded(Y, n)
  BY DEF Recorded, PurgedTable
<1> HIDE DEF gone
<1>3. \A q, rev, kind : Recs(Y, q, rev, kind) = IF q \in gone THEN {} ELSE Recs(X, q, rev, kind)
  BY DEF Recs, PurgedTable, gone
<1> HIDE DEF Y
<1>4. ASSUME NEW q \in Paths, q \notin gone, NEW rev
      PROVE  /\ HashIn(Y, q, rev) = HashIn(X, q, rev)
             /\ AliveIn(Y, q, rev, "dir") <=> AliveIn(X, q, rev, "dir")
  <2>1. \A a \in Ancestors[q] : a \notin gone
    BY <1>1, <1>4, AncestorsArePaths, Transitive
  <2>2. \A own : Covered(Y, q, own, rev) <=> Covered(X, q, own, rev)
    BY <1>3, <2>1 DEF Covered
  <2>3. \A kind : AliveIn(Y, q, rev, kind) <=> AliveIn(X, q, rev, kind)
    BY <1>3, <1>4, <2>2 DEF AliveIn
  <2> QED BY <1>3, <1>4, <2>3 DEF HashIn
<1>5. ASSUME NEW q \in gone, NEW rev
      PROVE  HashIn(Y, q, rev) = None /\ ~AliveIn(Y, q, rev, "dir")
  BY <1>3 DEF HashIn, AliveIn
<1>6. ASSUME NEW rev, NEW v, Tells(X, rev, v), Good(v)
      PROVE  Tells(Y, rev, PurgedPlain(v, p))
  <2> DEFINE w == PurgedPlain(v, p)
  <2>1. /\ \A q \in Paths : w.files[q] = IF q \in gone THEN None ELSE v.files[q]
        /\ \A q : q \in w.dirs <=> q \in v.dirs /\ q \notin gone
    BY <1>6, PurgedGood DEF gone
  <2> HIDE DEF w
  <2>2. \A q \in Paths : /\ HashIn(X, q, rev) = v.files[q]
                         /\ AliveIn(X, q, rev, "dir") <=> q \in v.dirs
    BY <1>6 DEF Tells
  <2>3. Tells(Y, rev, w)
    BY <1>4, <1>5, <2>1, <2>2 DEF Tells
  <2> QED BY <2>3 DEF w
<1> QED BY <1>2, <1>6 DEF Y

\* Derived anew from its files and explicit directories, the tree is what is
\* left: all of the directories, if those on the way to an explicit one are
\* not themselves implicit.
LEMMA RebuiltAgrees ==
  ASSUME NEW n \in Nat, NEW t \in Trees(n), NEW v, Good(v), Agree(t, v), NEW p \in Paths,
         \A d \in v.dirs : Ancestors[d] = {}
  PROVE  Agree(RebuildHeadTree(Without(t, {p} \union Under(p))), PurgedPlain(v, p))
<1> DEFINE gone == {p} \union Under(p)
           w == PurgedPlain(v, p)
           t1 == Without(t, gone)
           t2 == RebuildHeadTree(t1)
<1>1. \A q \in Paths : q \in gone <=> q = p \/ p \in Ancestors[q]
  BY BelowIsPath
<1> HIDE DEF gone
<1>2. /\ \A q \in Paths : w.files[q] = IF q \in gone THEN None ELSE v.files[q]
      /\ \A q : q \in w.dirs <=> q \in v.dirs /\ q \notin gone
      /\ Good(w)
  BY PurgedGood DEF gone
<1> HIDE DEF w
<1>3. w \in Plains /\ v \in Plains
  BY <1>2 DEF Good
<1>4. \A e : e \in Entries(w) <=> e \in Entries(v) /\ e \notin gone
  BY <1>2, <1>3, ShownBy
<1>6. /\ \A q \in Paths : t1[q] = IF q \in gone THEN None ELSE t[q]
      /\ t1 \in Trees(n)
  BY Removed
<1>7. \A q \in Paths : t2[q] = IF IsFile(t1, q) THEN t1[q] ELSE DirRow(t1, q)
  BY DEF RebuildHeadTree
<1>8. \A q \in Paths :
        /\ IsFile(t, q) <=> v.files[q] # None
        /\ IsDir(t, q) <=> t[q] # None /\ v.files[q] = None
        /\ t[q] # None <=> q \in Shown(v)
        /\ v.files[q] # None => t[q].hash = v.files[q]
        /\ IsDir(t, q) => (t[q].explicit <=> q \in v.dirs)
  BY TreeSays DEF Agree
<1> HIDE DEF t1, t2
<1>9. \A q \in Paths : /\ IsFile(t1, q) <=> w.files[q] # None
                       /\ IsFile(t1, q) => t1[q].hash = w.files[q]
                       /\ IsDir(t1, q) /\ t1[q].explicit <=> q \in w.dirs
  <2> SUFFICES ASSUME NEW q \in Paths
               PROVE  /\ IsFile(t1, q) <=> w.files[q] # None
                      /\ IsFile(t1, q) => t1[q].hash = w.files[q]
                      /\ IsDir(t1, q) /\ t1[q].explicit <=> q \in w.dirs
    OBVIOUS
  <2>1. CASE q \in gone
    BY <1>2, <1>6, <2>1 DEF IsFile, IsDir
  <2>2. CASE q \notin gone
    <3>1. t1[q] = t[q] /\ w.files[q] = v.files[q] /\ (q \in w.dirs <=> q \in v.dirs)
      BY <1>2, <1>6, <2>2
    <3>2. q \in v.dirs => IsDir(t, q)
      <4>1. q \in v.dirs => q \in Shown(v) /\ v.files[q] = None
        BY <1>3, ShownBy DEF Good
      <4> QED BY <1>8, <4>1
    <3>3. /\ IsFile(t1, q) <=> IsFile(t, q)
          /\ IsDir(t1, q) <=> IsDir(t, q)
      BY <3>1 DEF IsFile, IsDir
    <3> QED BY <1>8, <3>1, <3>2, <3>3
  <2> QED BY <2>1, <2>2
<1>10. ASSUME NEW q \in Paths, w.files[q] = None
       PROVE  /\ t2[q] = DirRow(t1, q)
              /\ t2[q] # None <=> q \in Shown(w)
              /\ t2[q] # None => IsDir(t2, q) /\ (t2[q].explicit <=> q \in w.dirs)
  <2>1. t2[q] = DirRow(t1, q)
    BY <1>7, <1>9, <1>10
  <2>3. q \in Shown(w) <=> q \in w.dirs \/ \E f \in Under(q) : IsFile(t1, f)
    <3>1. \A e \in Entries(w) : e \in Paths /\ (w.files[e] # None \/ e \in w.dirs)
      BY <1>3, ShownBy
    <3>2. \A e \in w.dirs : Ancestors[e] = {}
      BY <1>2
    <3>3. q \in Shown(w) <=> \E e \in Entries(w) : q = e \/ q \in Ancestors[e]
      BY <1>3, ShownBy
    <3>4. \A f : f \in Under(q) <=> f \in Paths /\ q \in Ancestors[f]
      BY BelowIsPath
    <3>5. \A f \in Paths : f \in Entries(w) <=> w.files[f] # None \/ f \in w.dirs
      BY <1>3, ShownBy
    <3> QED BY <1>9, <1>10, <3>1, <3>2, <3>3, <3>4, <3>5
  <2>4. CASE \E f \in Under(q) : IsFile(t1, f)
    <3> DEFINE x == FirstFile(t1, q)
    <3>1. x \in Paths /\ t1[x] # None
      <4>1. x \in Under(q) /\ IsFile(t1, x)
        BY <2>4, FirstIsFile
      <4> QED BY <4>1, BelowIsPath DEF IsFile
    <3>2. t1[x].rev \in 1 .. n
      <4>1. t1[x] \in {None} \union Files(n) \union Dirs(n)
        BY <1>6, <3>1 DEF Trees
      <4> QED BY <3>1, <4>1, RowFacts
    <3>3. PICK made \in BOOLEAN : made = (IsDir(t1, q) /\ t1[q].explicit)
      OBVIOUS
    <3>4. DirRow(t1, q) = Row("dir", Null, t1[x].rev, IsDir(t1, q) /\ t1[q].explicit)
      BY <2>4 DEF DirRow
    <3>5. DirRow(t1, q) = Row("dir", Null, t1[x].rev, made)
      BY <3>3, <3>4
    <3>6. DirRow(t1, q) # None
      <4>1. t1[x].rev \in Nat \ {0}
        BY <3>2
      <4> QED BY <3>5, <4>1, NewRows
    <3>7. DirRow(t1, q).kind = "dir" /\ DirRow(t1, q).explicit = made
      BY <3>5 DEF Row
    <3> QED BY <1>9, <2>1, <2>3, <2>4, <3>3, <3>6, <3>7 DEF IsDir
  <2>5. CASE ~\E f \in Under(q) : IsFile(t1, f)
    <3>1. DirRow(t1, q) = IF IsDir(t1, q) /\ t1[q].explicit THEN t1[q] ELSE None
      BY <2>5 DEF DirRow
    <3> QED BY <1>9, <2>1, <2>3, <2>5, <3>1 DEF IsDir
  <2> QED BY <2>1, <2>4, <2>5
<1>11. ASSUME NEW q \in Paths, w.files[q] # None
       PROVE  /\ t2[q] # None /\ q \in Shown(w)
              /\ IsFile(t2, q) /\ t2[q].hash = w.files[q]
  <2>1. IsFile(t1, q) /\ t1[q].hash = w.files[q] /\ t2[q] = t1[q]
    BY <1>7, <1>9, <1>11
  <2> QED BY <1>3, <1>11, <2>1, ShownBy DEF IsFile
<1>12. Agree(t2, w)
  BY <1>10, <1>11 DEF Agree
<1> QED BY <1>12 DEF gone, w, t1, t2

LEMMA PurgeFits ==
  ASSUME HInv, NEW p \in Paths, Purge(p), TypeOK', \A q \in NamedDirs : Parent[q] = Root
  PROVE  HInv'
<1> DEFINE gone == {p} \union Under(p)
<1>0. PICK n \in Nat, v \in {plain[head + 1]} : n = head /\ v = plain[head + 1]
  BY HeadTree
<1>1. /\ Good(v) /\ tree \in Trees(n) /\ Agree(tree, v) /\ v.dirs \subseteq NamedDirs
      /\ Recorded(changes, n) /\ plain \in Seq(Plains) /\ Len(plain) = n + 1
  BY <1>0, HeadTree, Typed DEF HInv
<1>2. /\ head' = n
      /\ changes' = PurgedTable(changes, p)
      /\ tree' = RebuildHeadTree(Without(tree, gone))
      /\ plain' = [i \in DOMAIN plain |-> PurgedPlain(plain[i], p)]
  BY <1>0 DEF Purge, PurgedTable, PurgedPlain
<1>3. /\ \A r \in 0 .. n : plain'[r + 1] = PurgedPlain(plain[r + 1], p)
      /\ plain'[n + 1] = PurgedPlain(v, p)
  BY <1>0, <1>1, <1>2
<1>4. Recorded(changes', n)
  BY <1>1, <1>2, PurgedRows
<1>5. Told'
  <2> SUFFICES ASSUME NEW r \in 0 .. n
               PROVE  /\ Good(plain'[r + 1]) /\ Tells(changes', r, plain'[r + 1])
                      /\ plain'[r + 1].dirs \subseteq NamedDirs
    BY <1>2 DEF Told
  <2>1. PICK u : u = plain[r + 1]
    OBVIOUS
  <2>2. Good(u) /\ Tells(changes, r, u) /\ u.dirs \subseteq NamedDirs
    BY <1>0, <2>1 DEF HInv, Told
  <2>3. Good(PurgedPlain(u, p)) /\ PurgedPlain(u, p).dirs \subseteq NamedDirs
    BY <2>2, PurgedGood
  <2>4. Tells(PurgedTable(changes, p), r, PurgedPlain(u, p))
    BY <1>1, <2>2, PurgedRows
  <2> QED BY <1>2, <1>3, <2>1, <2>3, <2>4
<1>7. Noted'
  <2> SUFFICES ASSUME NEW x \in changes'
               PROVE  /\ x.kind = "dir" /\ x.op # "delete" => x.path \in NamedDirs
                      /\ x.kind = "file" /\ x.op = "meta" => plain'[x.rev + 1].files[x.path] # None
    BY DEF Noted
  <2>1. x \in changes /\ x.path \notin gone /\ x.path \in Paths /\ x.rev \in 0 .. n
    BY <1>1, <1>2 DEF PurgedTable, Recorded, Records
  <2>2. plain'[x.rev + 1] = PurgedPlain(plain[x.rev + 1], p) /\ Good(plain[x.rev + 1])
    BY <1>0, <1>3, <2>1 DEF HInv, Told
  <2>3. plain'[x.rev + 1].files[x.path] = plain[x.rev + 1].files[x.path]
    BY <2>1, <2>2, PurgedGood
  <2> QED BY <2>1, <2>3 DEF HInv, Noted
<1>6. Agree(tree', PurgedPlain(v, p))
  <2>1. \A d \in v.dirs : Ancestors[d] = {}
    BY <1>1, HistoryAssumption
  <2> QED BY <1>1, <1>2, <2>1, RebuiltAgrees
<1> QED BY <1>2, <1>3, <1>4, <1>5, <1>6, <1>7 DEF HInv

\* A directory made as such is at the top, where anything is purged: below
\* another directory, a purge may drop the rows on the way to it.
Purgeable == MaxPurges = 0 \/ \A q \in NamedDirs : Parent[q] = Root

LEMMA InvInit == Init => HInv
<1> SUFFICES ASSUME Init
             PROVE  HInv
  OBVIOUS
<1>1. TypeOK
  BY TypeInit
<1>2. NoTree \in Plains /\ Entries(NoTree) = {}
  BY DEF NoTree, Plains, Entries
<1>3. Good(NoTree) /\ NoTree.dirs = {} /\ \A p \in Paths : NoTree.files[p] = None
  BY <1>2 DEF Good, NoTree
<1>4. Tells({}, 0, NoTree)
  <2>1. \A p, kind : Recs({}, p, 0, kind) = {}
    BY DEF Recs
  <2> QED BY <1>3, <2>1 DEF Tells, HashIn, AliveIn
<1>5. Agree(tree, NoTree)
  <2>1. \A p \in Paths : p \notin Shown(NoTree) /\ tree[p] = None
    BY <1>2, ShownBy DEF Init
  <2> QED BY <1>3, <2>1 DEF Agree
<1>6. Recorded({}, 0)
  BY DEF Recorded
<1>7. head = 0 /\ changes = {} /\ plain[1] = NoTree
  BY DEF Init
<1>8. Told
  <2> SUFFICES ASSUME NEW r \in 0 .. head
               PROVE  /\ Good(plain[r + 1]) /\ Tells(changes, r, plain[r + 1])
                      /\ plain[r + 1].dirs \subseteq NamedDirs
    BY DEF Told
  <2>1. r = 0 /\ r + 1 = 1
    BY <1>7
  <2> QED BY <1>3, <1>4, <1>7, <2>1
<1>9. Noted
  BY <1>7 DEF Noted
<1> QED BY <1>1, <1>5, <1>6, <1>7, <1>8, <1>9 DEF HInv

LEMMA InvStep ==
  ASSUME Purgeable, HInv, [Next]_vars
  PROVE  HInv'
<1>0. TypeOK'
  BY TypeStep DEF HInv
<1>1. CASE Commit
  <2>1. PICK C : \E L \in {C, Spread(C)} :
          /\ \A c \in C : Offered(c)
          /\ \A c, d \in C : c.path = d.path => c = d
          /\ Coherent(C) /\ NotBelowDeleted(C)
          /\ Room /\ Land(L, {}) /\ UNCHANGED purges
    BY <1>1, CommitIs
  <2>2. PICK L \in {C, Spread(C)} : Room /\ Land(L, {}) /\ UNCHANGED purges
    BY <2>1
  <2>3. Fitting(L, plain[head + 1]) /\ Notable(L, plain[head + 1])
    BY <2>1, CommitFits
  <2>4. L \union {} = L /\ L \cap {} = {}
    OBVIOUS
  <2>5. Fitting(L \union {}, plain[head + 1]) /\ Notable(L \union {}, plain[head + 1])
    BY <2>3, <2>4
  <2> QED BY <2>2, <2>4, <2>5, LandFits
<1>2. ASSUME NEW p \in Paths, NEW source \in 1 .. head, Restore(p, source)
      PROVE  HInv'
  <2> DEFINE A == RestoredFiles(p, source)
             B == RestoredDirs(p, source)
  <2>1. /\ \A c \in A \union B : /\ \A a \in Ancestors[c.path] : ~IsFile(tree, a)
                                 /\ tree[c.path] # None => tree[c.path].kind = c.kind
                                 /\ \A d \in A \union B : d.path \in Under(c.path) => c.kind = "dir"
        /\ Room /\ Land(A, B) /\ UNCHANGED purges
    BY <1>2 DEF Restore
  <2>2. /\ Fitting(A \union B, plain[head + 1]) /\ A \cap B = {}
        /\ Notable(A \union B, plain[head + 1])
    BY <2>1, RestoreFits
  <2> HIDE DEF A, B
  <2> QED BY <2>1, <2>2, LandFits
<1>3. ASSUME NEW p \in Paths, Purge(p)
      PROVE  HInv'
  <2>1. purges < MaxPurges
    BY <1>3 DEF Purge
  <2>2. MaxPurges # 0
    BY <2>1, Typed, HistoryAssumption DEF HInv
  <2> QED BY <1>0, <1>3, <2>2, PurgeFits DEF Purgeable
<1>4. CASE UNCHANGED vars
  <2>1. UNCHANGED <<head, changes, tree, plain>>
    BY <1>4 DEF vars
  <2>2. Recorded(changes', head') /\ Agree(tree', plain'[head' + 1])
    BY <2>1 DEF HInv
  <2>3. Told'
    BY <2>1 DEF HInv, Told
  <2>4. Noted'
    BY <2>1 DEF HInv, Noted
  <2> QED BY <1>0, <2>2, <2>3, <2>4 DEF HInv
<1> QED BY <1>1, <1>2, <1>3, <1>4 DEF Next

LEMMA HeadFromInv == HInv => HeadIsPlain
<1> SUFFICES ASSUME HInv
             PROVE  HeadIsPlain
  OBVIOUS
<1>1. PICK n \in Nat, v \in {plain[head + 1]} : n = head /\ v = plain[head + 1]
  BY HeadTree
<1>2. Good(v) /\ tree \in Trees(n) /\ Agree(tree, v) /\ v \in Plains
  BY <1>1, HeadTree DEF HInv
<1>3. \A p \in Paths :
        /\ IsFile(tree, p) <=> v.files[p] # None
        /\ IsDir(tree, p) <=> tree[p] # None /\ v.files[p] = None
        /\ tree[p] # None <=> p \in Shown(v)
        /\ v.files[p] # None => tree[p].hash = v.files[p]
        /\ IsDir(tree, p) => (tree[p].explicit <=> p \in v.dirs)
  BY <1>2, TreeSays DEF Agree
<1>4. \A p \in Paths : p \in v.dirs => v.files[p] = None /\ p \in Shown(v)
  BY <1>2, ShownBy DEF Good
<1>5. {p \in Paths : IsDir(tree, p)} = PlainDirs(v)
  <2>1. \A p \in Paths : p \in Entries(v) <=> v.files[p] # None \/ p \in v.dirs
    BY <1>2, ShownBy
  <2>2. \A p \in Paths : p \in PlainDirs(v) <=> p \in Shown(v) /\ v.files[p] = None
    BY <2>1 DEF PlainDirs, Shown
  <2>3. PlainDirs(v) \subseteq Paths
    <3>1. \A e \in Entries(v) : Ancestors[e] \subseteq Paths
      BY <1>2, ShownBy, AncestorsArePaths
    <3>2. v.dirs \subseteq Paths
      BY <1>2 DEF Plains
    <3> QED BY <3>1, <3>2 DEF PlainDirs
  <2> QED BY <1>3, <2>2, <2>3
<1>6. {p \in Paths : IsDir(tree, p) /\ tree[p].explicit} = v.dirs
  <2>1. v.dirs \subseteq Paths
    BY <1>2 DEF Plains
  <2> QED BY <1>3, <1>4, <2>1
<1> QED BY <1>1, <1>3, <1>5, <1>6 DEF HeadIsPlain

\* A row that answers for its path is the last one there is.
LEMMA LastRow ==
  ASSUME HInv, NEW p, NEW rev, NEW kind, RecsOf(p, rev, {kind}) # {}
  PROVE  /\ Latest(RecsOf(p, rev, {kind})) \in RecsOf(p, rev, {kind})
         /\ Latest(RecsOf(p, rev, {kind})) \in changes
         /\ Latest(RecsOf(p, rev, {kind})).rev \in 1 .. head
         /\ \A d \in RecsOf(p, rev, {kind}) : d.rev <= Latest(RecsOf(p, rev, {kind})).rev
<1> DEFINE S == RecsOf(p, rev, {kind})
<1>1. S \subseteq changes /\ head \in Nat /\ \A c \in S : c.rev \in 1 .. head
  BY Typed DEF HInv, RecsOf, Records
<1> HIDE DEF S
<1>2. Latest(S) \in S /\ \A d \in S : d.rev <= Latest(S).rev
  BY <1>1, HasLatest DEF S
<1> QED BY <1>1, <1>2 DEF S

\* covering_dir_tombstone finds only tombstones, and all of them unless a
\* later row of the directory hides one.
LEMMA CoveringIsCovered ==
  ASSUME HInv, NEW p \in Paths, NEW rev, NEW own \in Nat
  PROVE  /\ CoveringTombstone(p, own, rev) => Covered(changes, p, own, rev)
         /\ Covered(changes, p, own, rev) /\ TombstonesShow(p, rev)
              => CoveringTombstone(p, own, rev)
<1>1. ASSUME CoveringTombstone(p, own, rev)
      PROVE  Covered(changes, p, own, rev)
  <2>1. PICK a \in Ancestors[p] : LET S == RecsOf(a, rev, {"dir"}) IN
          S # {} /\ Latest(S).op = "delete" /\ Latest(S).rev > own
    BY <1>1 DEF CoveringTombstone
  <2>2. Latest(RecsOf(a, rev, {"dir"})) \in RecsOf(a, rev, {"dir"})
    BY <2>1, LastRow
  <2>3. Latest(RecsOf(a, rev, {"dir"})) \in Recs(changes, a, rev, "dir")
    BY <2>1, <2>2 DEF RecsOf, Recs
  <2> QED BY <2>1, <2>3 DEF Covered
<1>2. ASSUME Covered(changes, p, own, rev), TombstonesShow(p, rev)
      PROVE  CoveringTombstone(p, own, rev)
  <2>1. PICK a \in Ancestors[p] :
          \E x \in Recs(changes, a, rev, "dir") : x.op = "delete" /\ x.rev > own
    BY <1>2 DEF Covered
  <2>2. PICK x \in Recs(changes, a, rev, "dir") : x.op = "delete" /\ x.rev > own
    BY <2>1
  <2> DEFINE S == RecsOf(a, rev, {"dir"})
             y == Latest(S)
  <2>3. x \in S /\ x \in changes /\ x.path = a
    BY <2>2 DEF Recs, RecsOf
  <2>4. y \in S /\ y \in changes /\ y.path = a /\ x.rev <= y.rev /\ y.rev \in 1 .. head
    <3>1. y \in S /\ y \in changes /\ x.rev <= y.rev /\ y.rev \in 1 .. head
      BY <2>3, LastRow
    <3>2. \A c \in S : c.path = a
      BY DEF RecsOf
    <3> QED BY <3>1, <3>2
  <2>5. x.rev \in 1 .. head /\ head \in Nat
    BY <2>3, Typed DEF HInv, Records
  <2>6. y.op = "delete"
    <3>1. CASE x.rev = y.rev
      BY <2>2, <2>3, <2>4, <3>1 DEF HInv, Recorded
    <3>2. CASE x.rev < y.rev
      BY <1>2, <2>2, <2>3, <2>4, <3>2 DEF TombstonesShow, Remade
    <3> HIDE DEF y
    <3> QED BY <2>4, <2>5, <3>1, <3>2
  <2>7. y.rev > own
    <3> HIDE DEF y
    <3> QED BY <2>2, <2>4, <2>5
  <2> QED BY <2>3, <2>6, <2>7 DEF CoveringTombstone
<1> QED BY <1>1, <1>2

\* The last row says of a path what all of its rows say, where it is about
\* more than attributes, or they were given to what was there.
LEMMA LastRowTells ==
  ASSUME HInv, NEW p \in Paths, NEW rev \in Nat, NEW kind,
         LET x == Latest(RecsOf(p, rev, {kind})) IN
         RecsOf(p, rev, {kind}) # {} /\ x.op = "meta" => AliveIn(changes, p, x.rev, kind)
  PROVE  /\ AliveIn(changes, p, rev, kind) => Alive(p, rev, kind)
         /\ Alive(p, rev, kind) /\ TombstonesShow(p, rev) => AliveIn(changes, p, rev, kind)
         /\ Alive(p, rev, kind) => \/ Latest(RecsOf(p, rev, {kind})).op = "meta"
                                  \/ /\ Recs(changes, p, rev, kind) # {}
                                     /\ Latest(RecsOf(p, rev, {kind}))
                                          = Latest(Recs(changes, p, rev, kind))
<1> DEFINE S == RecsOf(p, rev, {kind})
           W == Recs(changes, p, rev, kind)
           x == Latest(S)
           y == Latest(W)
<1>1. /\ changes \subseteq Records(head) /\ head \in Nat
      /\ \A c, d \in changes : c.rev = d.rev /\ c.path = d.path => c = d
      /\ \A c \in changes : c.rev \in 1 .. head
  BY Typed DEF HInv, Recorded, Records
<1>2. W \subseteq S /\ \A c \in S : c \in changes /\ c.path = p /\ (c \in W <=> c.op # "meta")
  BY DEF RecsOf, Recs
<1>3. S # {} => x \in S /\ x \in changes /\ x.rev \in 1 .. head /\ x.rev <= rev
                  /\ \A d \in S : d.rev <= x.rev
  <2>1. S # {} => x \in S /\ x \in changes /\ x.rev \in 1 .. head /\ \A d \in S : d.rev <= x.rev
    BY LastRow
  <2>2. \A c \in S : c.rev <= rev
    BY DEF RecsOf
  <2> QED BY <2>1, <2>2
<1>4. W # {} => y \in W /\ y \in changes /\ y.rev \in 1 .. head /\ \A d \in W : d.rev <= y.rev
  BY <1>1, LatestRec
<1>5. /\ Alive(p, rev, kind) <=> S # {} /\ x.op # "delete" /\ ~CoveringTombstone(p, x.rev, rev)
      /\ AliveIn(changes, p, rev, kind) <=> W # {} /\ y.op # "delete" /\ ~Covered(changes, p, y.rev, rev)
  BY DEF Alive, AliveIn
<1>6. S # {} /\ x.op = "meta" => AliveIn(changes, p, x.rev, kind)
  OBVIOUS
<1>7. Recs(changes, p, x.rev, kind) = {c \in W : c.rev <= x.rev} \/ S = {}
  BY <1>1, <1>3 DEF Recs
<1>8. /\ S # {} /\ CoveringTombstone(p, x.rev, rev) => Covered(changes, p, x.rev, rev)
      /\ S # {} /\ Covered(changes, p, x.rev, rev) /\ TombstonesShow(p, rev)
           => CoveringTombstone(p, x.rev, rev)
  BY <1>3, CoveringIsCovered
<1> HIDE DEF S, W, x, y
<1> SUFFICES /\ AliveIn(changes, p, rev, kind) => Alive(p, rev, kind)
             /\ Alive(p, rev, kind) /\ TombstonesShow(p, rev) => AliveIn(changes, p, rev, kind)
             /\ Alive(p, rev, kind) => x.op = "meta" \/ (W # {} /\ x = y)
  BY DEF S, W, x, y
<1>9. CASE S # {} /\ x.op # "meta"
  <2>1. x \in W /\ W # {} /\ y \in S
    BY <1>2, <1>3, <1>4, <1>9
  <2>2. x.rev = y.rev
    BY <1>3, <1>4, <1>9, <2>1
  <2>3. x = y
    BY <1>1, <1>2, <1>3, <1>4, <1>9, <2>1, <2>2
  <2> QED BY <1>5, <1>8, <1>9, <2>1, <2>3
<1>10. CASE S # {} /\ x.op = "meta"
  <2>1. Recs(changes, p, x.rev, kind) = W
    BY <1>2, <1>3, <1>7, <1>10
  <2>2. W # {} /\ y.op # "delete" /\ ~Covered(changes, p, y.rev, x.rev)
    BY <1>6, <1>10, <2>1 DEF AliveIn, y
  <2>3. y.rev <= x.rev
    BY <1>2, <1>3, <1>4, <1>10, <2>2
  <2>4. Covered(changes, p, y.rev, rev) <=> Covered(changes, p, x.rev, rev)
    <3>1. ASSUME NEW a, NEW z \in Recs(changes, a, rev, "dir"), z.op = "delete", z.rev > y.rev,
                 a \in Ancestors[p]
          PROVE  z.rev > x.rev
      <4>1. z \in changes /\ z.rev \in 1 .. head
        BY <1>1 DEF Recs
      <4>2. z.rev <= x.rev => z \in Recs(changes, a, x.rev, "dir")
        BY DEF Recs
      <4> QED BY <1>3, <1>10, <2>2, <3>1, <4>1, <4>2 DEF Covered
    <3>2. \A z \in changes : z.rev > x.rev => z.rev > y.rev
      BY <1>1, <1>3, <1>4, <1>10, <2>2, <2>3
    <3>3. \A a : Recs(changes, a, rev, "dir") \subseteq changes
      BY DEF Recs
    <3> QED BY <3>1, <3>2, <3>3 DEF Covered
  <2> QED BY <1>5, <1>8, <1>10, <2>2, <2>4
<1>11. CASE S = {}
  BY <1>2, <1>5, <1>11
<1> QED BY <1>9, <1>10, <1>11

\* What file_at answers, against the plain tree.
LEMMA FileTells ==
  ASSUME HInv, NEW p \in Paths, NEW rev \in 0 .. head
  PROVE  LET f == plain[rev + 1].files[p] IN
         /\ f # None => FileAt(p, rev) # None
         /\ FileAt(p, rev) # None /\ TombstonesShow(p, rev) => f # None
         /\ FileAt(p, rev) # None /\ f # None =>
              FileAt(p, rev) = f \/ (Touched(p, rev) /\ FileAt(p, rev) = Null)
<1> DEFINE f == plain[rev + 1].files[p]
           S == RecsOf(p, rev, {"file"})
           x == Latest(S)
<1>1. head \in Nat /\ rev \in Nat /\ Recorded(changes, head)
  BY HeadTree DEF HInv
<1>2. \A r \in 0 .. head : HashIn(changes, p, r) = plain[r + 1].files[p]
  BY DEF HInv, Told, Tells
<1>3. \A r : HashIn(changes, p, r) # None <=> AliveIn(changes, p, r, "file")
  BY <1>1, HashOf
<1>4. S # {} => /\ x \in changes /\ x.rev \in 1 .. head /\ x.path = p /\ x.kind = "file"
               /\ x.hash \in Blobs /\ (x.op = "meta" => x.hash = Null)
  <2> SUFFICES ASSUME S # {}
               PROVE  /\ x \in changes /\ x.rev \in 1 .. head /\ x.path = p /\ x.kind = "file"
                      /\ x.hash \in Blobs /\ (x.op = "meta" => x.hash = Null)
    OBVIOUS
  <2>1. x \in S /\ x \in changes /\ x.rev \in 1 .. head
    BY LastRow
  <2>2. x.path = p /\ x.kind = "file"
    BY <2>1 DEF RecsOf
  <2>3. changes \subseteq Records(head) /\ \A z \in changes : z.op = "meta" => z.hash = Null
    BY <1>1 DEF Recorded
  <2> HIDE DEF x
  <2> QED BY <2>1, <2>2, <2>3 DEF Records
<1>5. S # {} /\ x.op = "meta" => AliveIn(changes, p, x.rev, "file")
  <2> SUFFICES ASSUME S # {}, x.op = "meta"
               PROVE  AliveIn(changes, p, x.rev, "file")
    OBVIOUS
  <2>1. plain[x.rev + 1].files[p] # None
    BY <1>4 DEF HInv, Noted
  <2>2. x.rev \in 0 .. head
    BY <1>1, <1>4
  <2> QED BY <1>2, <1>3, <2>1, <2>2
<1>6. /\ AliveIn(changes, p, rev, "file") => Alive(p, rev, "file")
      /\ Alive(p, rev, "file") /\ TombstonesShow(p, rev) => AliveIn(changes, p, rev, "file")
      /\ Alive(p, rev, "file") => \/ x.op = "meta"
                                 \/ x = Latest(Recs(changes, p, rev, "file"))
  BY <1>1, <1>5, LastRowTells
<1>7. /\ FileAt(p, rev) = IF Alive(p, rev, "file") THEN x.hash ELSE None
      /\ Alive(p, rev, "file") => S # {}
  BY DEF FileAt, Alive
<1>8. FileAt(p, rev) # None <=> Alive(p, rev, "file")
  BY <1>4, <1>7, HistoryAssumption DEF Blobs
<1>9. HashIn(changes, p, rev) = f
  BY <1>2
<1>10. f # None => f = Latest(Recs(changes, p, rev, "file")).hash
  BY <1>9 DEF HashIn
<1>11. S # {} /\ x.op = "meta" => Touched(p, rev)
  BY DEF Touched
<1> HIDE DEF S, x
<1> QED BY <1>3, <1>4, <1>6, <1>7, <1>8, <1>9, <1>10, <1>11

\* A directory that dir_explicit_alive finds was made as such.
LEMMA DirTells ==
  ASSUME HInv, NEW p \in Paths, NEW rev \in 0 .. head,
         ExplicitAlive(p, rev), TombstonesShow(p, rev), ~Claimed(p, rev)
  PROVE  p \in plain[rev + 1].dirs
<1> DEFINE S == RecsOf(p, rev, {"dir"})
           x == Latest(S)
<1>1. head \in Nat /\ rev \in Nat
  BY HeadTree
<1>2. \A r \in 0 .. head : AliveIn(changes, p, r, "dir") <=> p \in plain[r + 1].dirs
  BY DEF HInv, Told, Tells
<1>3. S # {} /\ x.op = "meta" => AliveIn(changes, p, x.rev, "dir")
  <2> SUFFICES ASSUME S # {}, x.op = "meta"
               PROVE  AliveIn(changes, p, x.rev, "dir")
    OBVIOUS
  <2>1. x \in S /\ x.rev \in 1 .. head
    BY LastRow
  <2>2. p \in plain[x.rev + 1].dirs
    BY <2>1 DEF Claimed
  <2>3. x.rev \in 0 .. head
    BY <1>1, <2>1
  <2> QED BY <1>2, <2>2, <2>3
<1>4. Alive(p, rev, "dir") /\ TombstonesShow(p, rev) => AliveIn(changes, p, rev, "dir")
  BY <1>1, <1>3, LastRowTells
<1> QED BY <1>2, <1>4 DEF ExplicitAlive

LEMMA RememberedFromInv == HInv => FilesRemembered
<1> SUFFICES ASSUME HInv, NEW rev \in 1 .. head, NEW p \in Paths, TombstonesShow(p, rev)
             PROVE  /\ FileAt(p, rev) # None <=> plain[rev + 1].files[p] # None
                    /\ ~Touched(p, rev) => FileAt(p, rev) = plain[rev + 1].files[p]
  BY DEF FilesRemembered
<1>1. rev \in 0 .. head
  BY HeadTree
<1> QED BY <1>1, FileTells

(* The tree kept in head_entries by making and pruning directories as       *)
(* files come and go is the plain tree after the same commits, restores and *)
(* purges: however deep the paths, however long the lists and the history.  *)
THEOREM HeadIsExact == Purgeable => (Spec => []HeadIsPlain)
<1>1. Init => HInv
  BY InvInit
<1>2. Purgeable => (HInv /\ [Next]_vars => HInv')
  BY InvStep
<1>3. HInv => HeadIsPlain
  BY HeadFromInv
<1> SUFFICES ASSUME Purgeable
             PROVE  Spec => []HeadIsPlain
  OBVIOUS
<1>4. HInv /\ [Next]_vars => HInv'
  BY <1>2
<1> QED BY <1>1, <1>3, <1>4, PTL DEF Spec

(* Where no tombstone above a path is hidden by a later row, file_at finds  *)
(* in every revision the files that were there and no other, each with its  *)
(* content unless its last change only gave it attributes.                  *)
THEOREM HistoryIsKept == Purgeable => (Spec => []FilesRemembered)
<1>1. Init => HInv
  BY InvInit
<1>2. Purgeable => (HInv /\ [Next]_vars => HInv')
  BY InvStep
<1>3. HInv => FilesRemembered
  BY RememberedFromInv
<1> SUFFICES ASSUME Purgeable
             PROVE  Spec => []FilesRemembered
  OBVIOUS
<1>4. HInv /\ [Next]_vars => HInv'
  BY <1>2
<1> QED BY <1>1, <1>3, <1>4, PTL DEF Spec

-----------------------------------------------------------------------------
(* What list_dir_at shows of an old revision.                               *)

\* An explicit directory keeps the row of its making until a purge gives it
\* the revision of a file below; the next purge may take that file away.
RowsLast == MaxPurges <= 1 \/ NamedDirs = {}

\* What a row of the tree says held from the row's revision on.
Since ==
  \A p \in Paths, r \in 0 .. head : tree[p] # None /\ tree[p].rev <= r =>
    /\ IsFile(tree, p) => plain[r + 1].files[p] = tree[p].hash
    /\ IsDir(tree, p) => p \in PlainDirs(plain[r + 1])
    /\ IsDir(tree, p) /\ tree[p].explicit /\ purges = 0 => p \in plain[r + 1].dirs

LEMMA DirsShown ==
  ASSUME NEW v, Good(v), NEW p \in Paths
  PROVE  /\ p \in PlainDirs(v) <=> p \in Shown(v) /\ v.files[p] = None
         /\ p \in v.dirs => p \in PlainDirs(v)
         /\ \A q \in Paths : p \in Ancestors[q] /\ (v.files[q] # None \/ q \in v.dirs)
              => p \in PlainDirs(v)
<1>1. /\ v \in Plains
      /\ \A a \in Paths : a \in Shown(v) <=> \E e \in Entries(v) : a = e \/ a \in Ancestors[e]
      /\ \A q \in Paths : q \in Entries(v) <=> v.files[q] # None \/ q \in v.dirs
  BY ShownBy DEF Good
<1>2. p \in PlainDirs(v) <=> p \in Shown(v) /\ v.files[p] = None
  BY <1>1 DEF PlainDirs, Shown
<1>3. p \in v.dirs => p \in PlainDirs(v)
  BY <1>1, <1>2 DEF Good
<1>4. ASSUME NEW q \in Paths, p \in Ancestors[q], v.files[q] # None \/ q \in v.dirs
      PROVE  p \in PlainDirs(v)
  <2>1. q \in Entries(v) /\ p \in Shown(v)
    BY <1>1, <1>4
  <2>2. v.files[p] = None
    BY <1>4, <2>1 DEF Good, NothingBelow
  <2> QED BY <1>2, <2>1, <2>2
<1> QED BY <1>2, <1>3, <1>4

LEMMA LandSince ==
  ASSUME HInv, Since, HInv', NEW A, NEW B, A \subseteq Changes, B \subseteq Changes,
         Land(A, B), UNCHANGED purges
  PROVE  Since'
<1>1. PICK n \in Nat : n = head
  BY HeadTree
<1>2. /\ plain \in Seq(Plains) /\ Len(plain) = n + 1 /\ tree \in Trees(n) /\ tree \in Trees(n + 1)
      /\ n + 1 \in Nat \ {0}
  BY <1>1, Typed, Longer DEF HInv
<1>3. /\ head' = n + 1 /\ tree' = Apply(Apply(tree, A, n + 1), B, n + 1)
      /\ plain' = Append(plain, After(plain[n + 1], A \union B))
  BY <1>1, <1>2 DEF Land
<1>4. /\ \A r \in 0 .. n : plain'[r + 1] = plain[r + 1]
      /\ head' + 1 = n + 2
  BY <1>2, <1>3
<1>5. /\ Good(plain'[n + 2]) /\ Agree(tree', plain'[n + 2]) /\ tree' \in Trees(n + 1)
  <2>1. TypeOK' /\ Told' /\ Agree(tree', plain'[head' + 1])
    BY DEF HInv
  <2>2. tree' \in Trees(n + 1)
    BY <1>3, <2>1, TypedNext
  <2>3. Good(plain'[n + 2])
    <3>1. n + 1 \in 0 .. head' /\ n + 1 + 1 = n + 2
      BY <1>3
    <3>2. Good(plain'[n + 1 + 1])
      BY <2>1, <3>1 DEF Told
    <3> QED BY <3>1, <3>2
  <2> QED BY <1>4, <2>1, <2>2, <2>3
<1>6. ASSUME NEW p \in Paths, tree'[p] # None
      PROVE  tree'[p].rev = n + 1 \/ tree'[p] = tree[p]
  <2> DEFINE t1 == Apply(tree, A, n + 1)
  <2>1. t1 \in Trees(n + 1)
    BY <1>2, ApplyIsTyped
  <2>2. t1[p] # None => t1[p].rev = n + 1 \/ t1[p] = tree[p]
    BY <1>2, ApplyStays
  <2> HIDE DEF t1
  <2>3. Apply(t1, B, n + 1)[p] # None =>
          Apply(t1, B, n + 1)[p].rev = n + 1 \/ Apply(t1, B, n + 1)[p] = t1[p]
    BY <1>2, <2>1, ApplyStays
  <2>4. tree' = Apply(t1, B, n + 1)
    BY <1>3 DEF t1
  <2> QED BY <1>6, <2>2, <2>3, <2>4
<1>7. SUFFICES ASSUME NEW p \in Paths, NEW r \in 0 .. n + 1, tree'[p] # None, tree'[p].rev <= r
               PROVE  /\ IsFile(tree', p) => plain'[r + 1].files[p] = tree'[p].hash
                      /\ IsDir(tree', p) => p \in PlainDirs(plain'[r + 1])
                      /\ IsDir(tree', p) /\ tree'[p].explicit /\ purges = 0
                           => p \in plain'[r + 1].dirs
  BY <1>3 DEF Since, IsFile, IsDir
<1>8. CASE r = n + 1
  <2>1. r + 1 = n + 2
    BY <1>8
  <2>2. PICK w : w = plain'[n + 2]
    OBVIOUS
  <2>3. /\ IsFile(tree', p) <=> w.files[p] # None
        /\ w.files[p] # None => tree'[p].hash = w.files[p]
        /\ IsDir(tree', p) => w.files[p] = None /\ p \in Shown(w)
        /\ IsDir(tree', p) /\ tree'[p].explicit => p \in w.dirs
    BY <1>2, <1>5, <1>7, <2>2, TreeSays DEF Agree
  <2> QED BY <1>5, <2>1, <2>2, <2>3, DirsShown
<1>9. CASE r # n + 1
  <2>1. r \in 0 .. n /\ r \in 0 .. head /\ plain'[r + 1] = plain[r + 1]
    BY <1>1, <1>4, <1>9
  <2>2. tree'[p] = tree[p]
    <3>1. tree'[p].rev # n + 1
      BY <1>7, <2>1
    <3> QED BY <1>6, <1>7, <3>1
  <2> QED BY <1>7, <2>1, <2>2 DEF Since, IsFile, IsDir
<1> QED BY <1>8, <1>9

LEMMA PurgeSince ==
  ASSUME HInv, Since, HInv', RowsLast, NEW p \in Paths, Purge(p)
  PROVE  Since'
<1> DEFINE gone == {p} \union Under(p)
           t1 == Without(tree, gone)
<1>0. PICK n \in Nat : n = head
  BY HeadTree
<1>1. tree \in Trees(n) /\ plain \in Seq(Plains) /\ Len(plain) = n + 1
  BY <1>0, Typed DEF HInv
<1>2. /\ head' = n /\ purges < MaxPurges /\ purges' = purges + 1
      /\ tree' = RebuildHeadTree(t1)
      /\ plain' = [i \in DOMAIN plain |-> PurgedPlain(plain[i], p)]
  BY <1>0 DEF Purge, PurgedPlain
<1>3. \A r \in 0 .. n : plain'[r + 1] = PurgedPlain(plain[r + 1], p)
  BY <1>1, <1>2
<1>4. t1 \in Trees(n) /\ \A q \in Paths : t1[q] = IF q \in gone THEN None ELSE tree[q]
  BY <1>1, Removed
<1>5. purges \in Nat /\ purges' # 0 /\ (MaxPurges <= 1 => purges = 0)
  BY <1>2, Typed, HistoryAssumption DEF HInv
<1> HIDE DEF t1
<1>6. SUFFICES ASSUME NEW q \in Paths, NEW r \in 0 .. n, tree'[q] # None, tree'[q].rev <= r
               PROVE  /\ IsFile(tree', q) => plain'[r + 1].files[q] = tree'[q].hash
                      /\ IsDir(tree', q) => q \in PlainDirs(plain'[r + 1])
  BY <1>2, <1>5 DEF Since, IsFile, IsDir
<1>7. PICK u : u = plain[r + 1]
  OBVIOUS
<1> DEFINE w == PurgedPlain(u, p)
<1>8. /\ Good(u) /\ Good(w) /\ plain'[r + 1] = w
      /\ \A x \in Paths : w.files[x] = IF x \in gone THEN None ELSE u.files[x]
      /\ \A x : x \in w.dirs <=> x \in u.dirs /\ x \notin gone
  <2>1. Good(u)
    BY <1>0, <1>7 DEF HInv, Told
  <2> QED BY <1>3, <1>7, <2>1, PurgedGood
<1> HIDE DEF w, gone
<1>9. \A x \in Paths : t1[x] # None /\ t1[x].rev <= r =>
        /\ t1[x] = tree[x] /\ x \notin gone
        /\ IsFile(t1, x) => w.files[x] = t1[x].hash /\ w.files[x] # None
        /\ IsDir(t1, x) /\ t1[x].explicit /\ purges = 0 => x \in w.dirs
  <2> SUFFICES ASSUME NEW x \in Paths, t1[x] # None, t1[x].rev <= r
               PROVE  /\ t1[x] = tree[x] /\ x \notin gone
                      /\ IsFile(t1, x) => w.files[x] = t1[x].hash /\ w.files[x] # None
                      /\ IsDir(t1, x) /\ t1[x].explicit /\ purges = 0 => x \in w.dirs
    OBVIOUS
  <2>1. t1[x] = tree[x] /\ x \notin gone
    BY <1>4
  <2>2. IsFile(t1, x) => tree[x].hash # None
    <3>1. tree[x] \in {None} \union Files(n) \union Dirs(n)
      BY <1>1 DEF Trees
    <3>2. IsFile(t1, x) => tree[x] \in Files(n)
      BY <2>1, <3>1, RowFacts DEF IsFile
    <3> QED BY <3>2, HistoryAssumption DEF Files, Blobs
  <2>3. r \in 0 .. head
    BY <1>0
  <2> QED BY <1>7, <1>8, <2>1, <2>2, <2>3 DEF Since, IsFile, IsDir
<1>10. tree'[q] = IF IsFile(t1, q) THEN t1[q] ELSE DirRow(t1, q)
  BY <1>2 DEF RebuildHeadTree
<1>11. CASE IsFile(t1, q)
  <2>1. tree'[q] = t1[q] /\ ~IsDir(tree', q)
    BY <1>10, <1>11 DEF IsFile, IsDir
  <2> QED BY <1>6, <1>8, <1>9, <1>11, <2>1
<1>12. CASE ~IsFile(t1, q) /\ \E f \in Under(q) : IsFile(t1, f)
  <2> DEFINE x == FirstFile(t1, q)
  <2>1. x \in Paths /\ q \in Ancestors[x] /\ IsFile(t1, x)
    BY <1>12, FirstIsFile, BelowIsPath
  <2>2. tree'[q] = Row("dir", Null, t1[x].rev, IsDir(t1, q) /\ t1[q].explicit)
    BY <1>10, <1>12 DEF DirRow
  <2>3. tree'[q].rev = t1[x].rev /\ tree'[q].kind = "dir"
    BY <2>2 DEF Row
  <2> HIDE DEF x
  <2>4. w.files[x] # None
    BY <1>6, <1>9, <2>1, <2>3 DEF IsFile
  <2>5. q \in PlainDirs(w)
    BY <1>8, <2>1, <2>4, DirsShown
  <2> QED BY <1>8, <2>3, <2>5 DEF IsFile
<1>13. CASE ~IsFile(t1, q) /\ ~\E f \in Under(q) : IsFile(t1, f)
  <2>1. tree'[q] = IF IsDir(t1, q) /\ t1[q].explicit THEN t1[q] ELSE None
    BY <1>10, <1>13 DEF DirRow
  <2>2. IsDir(t1, q) /\ t1[q].explicit /\ tree'[q] = t1[q]
    BY <1>6, <2>1
  <2>3. purges = 0
    <3>1. CASE MaxPurges <= 1
      BY <1>5, <3>1
    <3>2. CASE NamedDirs = {}
      <4>1. plain[n + 1].dirs = {} /\ Good(plain[n + 1]) /\ Agree(tree, plain[n + 1])
        BY <1>0, <3>2, HeadTree DEF HInv
      <4>2. t1[q] = tree[q] /\ IsDir(tree, q) /\ tree[q].explicit
        BY <1>6, <1>9, <2>2 DEF IsDir
      <4>3. plain[n + 1].files[q] = None
        BY <1>1, <4>1, <4>2, TreeSays
      <4> QED BY <1>6, <2>2, <4>1, <4>2, <4>3 DEF Agree
    <3> QED BY <3>1, <3>2 DEF RowsLast
  <2>4. q \in w.dirs
    BY <1>6, <1>9, <2>2, <2>3
  <2>5. q \in PlainDirs(w)
    BY <1>8, <2>4, DirsShown
  <2> QED BY <1>8, <1>13, <2>2, <2>5 DEF IsFile
<1> QED BY <1>11, <1>12, <1>13

LEMMA SinceInit == Init => Since
<1> SUFFICES ASSUME Init
             PROVE  Since
  OBVIOUS
<1>1. \A p \in Paths : tree[p] = None
  BY DEF Init
<1> QED BY <1>1 DEF Since

LEMMA SinceStep ==
  ASSUME HInv, Since, HInv', RowsLast, [Next]_vars
  PROVE  Since'
<1>1. CASE Commit
  <2>1. PICK C : \E L \in {C, Spread(C)} :
          /\ \A c \in C : Offered(c)
          /\ \A c, d \in C : c.path = d.path => c = d
          /\ Land(L, {}) /\ UNCHANGED purges
    BY <1>1, CommitIs
  <2>2. C \subseteq Changes /\ Spread(C) \subseteq Changes
    BY <2>1, SpreadFacts DEF HInv, Offered
  <2>3. {} \subseteq Changes
    OBVIOUS
  <2> QED BY <2>1, <2>2, <2>3, LandSince
<1>2. ASSUME NEW p \in Paths, NEW source \in 1 .. head, Restore(p, source)
      PROVE  Since'
  <2>1. RestoredFiles(p, source) \subseteq Changes /\ RestoredDirs(p, source) \subseteq Changes
    BY RestoredTyped DEF HInv, Changes
  <2>2. Land(RestoredFiles(p, source), RestoredDirs(p, source)) /\ UNCHANGED purges
    BY <1>2 DEF Restore
  <2> QED BY <2>1, <2>2, LandSince
<1>3. ASSUME NEW p \in Paths, Purge(p)
      PROVE  Since'
  BY <1>3, PurgeSince
<1>4. CASE UNCHANGED vars
  BY <1>4 DEF vars, Since, IsFile, IsDir
<1> QED BY <1>1, <1>2, <1>3, <1>4 DEF Next

LEMMA NoGhostsFromInv ==
  ASSUME HInv, Since
  PROVE  NoGhosts
<1> SUFFICES ASSUME NEW rev \in 1 .. (head - 1), NEW d \in Paths \union {Root}
             PROVE  LET v == plain[rev + 1] IN
                    /\ \A p \in ListedFiles(d, rev) : TombstonesShow(p, rev) =>
                         /\ v.files[p] # None
                         /\ ListedHash(p, rev) # v.files[p] =>
                              Touched(p, rev) /\ ListedHash(p, rev) = Null
                    /\ \A p \in ListedDirs(d, rev) : Readable(p, rev) => p \in PlainDirs(v)
  BY DEF NoGhosts
<1>1. PICK n \in Nat : n = head
  BY HeadTree
<1>2. rev \in 0 .. head /\ tree \in Trees(n)
  BY <1>1, HeadTree
<1>3. PICK v : v = plain[rev + 1]
  OBVIOUS
<1>4. Good(v)
  BY <1>2, <1>3 DEF HInv, Told
<1>5. \A p \in Paths :
        /\ v.files[p] # None => FileAt(p, rev) # None
        /\ FileAt(p, rev) # None /\ TombstonesShow(p, rev) => v.files[p] # None
        /\ FileAt(p, rev) # None /\ v.files[p] # None =>
             FileAt(p, rev) = v.files[p] \/ (Touched(p, rev) /\ FileAt(p, rev) = Null)
        /\ ExplicitAlive(p, rev) /\ TombstonesShow(p, rev) /\ ~Claimed(p, rev) => p \in v.dirs
  BY <1>2, <1>3, FileTells, DirTells
<1>6. \A p \in Paths : IsFile(tree, p) /\ tree[p].rev <= rev =>
        v.files[p] # None /\ tree[p].hash = v.files[p]
  <2> SUFFICES ASSUME NEW p \in Paths, IsFile(tree, p), tree[p].rev <= rev
               PROVE  v.files[p] # None /\ tree[p].hash = v.files[p]
    OBVIOUS
  <2>1. v.files[p] = tree[p].hash
    BY <1>2, <1>3 DEF Since, IsFile
  <2>2. tree[p] \in Files(n)
    <3>1. tree[p] \in {None} \union Files(n) \union Dirs(n)
      BY <1>2 DEF Trees
    <3> QED BY <3>1, RowFacts DEF IsFile
  <2> QED BY <2>1, <2>2, HistoryAssumption DEF Files, Blobs
<1>7. \A p \in Paths : IsDir(tree, p) /\ tree[p].rev <= rev => p \in PlainDirs(v)
  BY <1>2, <1>3 DEF Since, IsDir
<1>8. ListedFiles(d, rev) \subseteq Listable(d, rev) /\ Listable(d, rev) \subseteq Paths
  BY DEF ListedFiles, Listable, ListHead, Children
<1>9. ASSUME NEW p \in ListedFiles(d, rev), TombstonesShow(p, rev)
      PROVE  /\ v.files[p] # None
             /\ ListedHash(p, rev) # v.files[p] => Touched(p, rev) /\ ListedHash(p, rev) = Null
  <2>1. /\ p \in Paths
        /\ (IsFile(tree, p) /\ tree[p].rev <= rev) \/ FileAt(p, rev) # None
    BY <1>8 DEF ListedFiles
  <2> QED BY <1>5, <1>6, <1>9, <2>1 DEF ListedHash
<1>10. ASSUME NEW p \in ListedDirs(d, rev), Readable(p, rev)
       PROVE  p \in PlainDirs(v)
  <2>1. /\ p \in Paths /\ DirAliveAt(p, rev)
        /\ ~(IsFile(tree, p) /\ tree[p].rev <= rev) /\ FileAt(p, rev) = None
    BY <1>8 DEF ListedDirs, ListedFiles
  <2>2. \A q \in StartsWith[p] : q \in Paths /\ (q = p \/ p \in Ancestors[q])
    BY <1>10, <2>1, BelowIsPath DEF Readable
  <2>7. \A q \in StartsWith[p] : TombstonesShow(q, rev) /\ ~Claimed(q, rev)
    <3> SUFFICES ASSUME NEW q \in StartsWith[p]
                 PROVE  TombstonesShow(q, rev) /\ ~Claimed(q, rev)
      OBVIOUS
    <3>1. \A x \in Ancestors[p] \union {p} \union Under(p) : ~Remade(x, rev) /\ ~Claimed(x, rev)
      BY <1>10 DEF Readable
    <3>2. q \in {p} \union Under(p)
      BY <2>1, <2>2, BelowIsPath
    <3>3. ASSUME NEW x \in Ancestors[q]
          PROVE  x \in Ancestors[p] \union {p} \union Under(p)
      <4>1. CASE q = p
        BY <4>1
      <4>2. CASE p \in Ancestors[q]
        <5>1. x = p \/ x \in Ancestors[p] \/ p \in Ancestors[x]
          BY <2>2, <4>2, OneWay
        <5> QED BY <2>1, <2>2, <5>1, AncestorsArePaths, BelowIsPath
      <4> QED BY <2>2, <4>1, <4>2
    <3> QED BY <3>1, <3>2, <3>3 DEF TombstonesShow
  <2>8. p \in StartsWith[p]
    BY <2>1, HistoryAssumption
  <2>3. CASE IsDir(tree, p) /\ tree[p].rev <= rev
    BY <1>7, <2>1, <2>3
  <2>4. CASE \E q \in StartsWith[p] : IsFile(tree, q) /\ tree[q].rev <= rev
    BY <1>4, <1>5, <1>6, <2>1, <2>2, <2>4, DirsShown
  <2>5. CASE \E q \in DeletedBetween(StartsWith[p], rev) :
               FileAt(q, rev) # None \/ ExplicitAlive(q, rev)
    <3>1. PICK q \in StartsWith[p] : FileAt(q, rev) # None \/ ExplicitAlive(q, rev)
      BY <2>5 DEF DeletedBetween
    <3>2. v.files[q] # None \/ q \in v.dirs
      BY <1>5, <2>2, <2>7, <3>1
    <3>3. v.files[p] = None
      BY <1>5, <2>1
    <3> QED BY <1>4, <2>1, <2>2, <3>2, <3>3, DirsShown
  <2>6. CASE ExplicitAlive(p, rev)
    BY <1>4, <1>5, <2>1, <2>6, <2>7, <2>8, DirsShown
  <2> QED BY <2>1, <2>3, <2>4, <2>5, <2>6 DEF DirAliveAt
<1> QED BY <1>3, <1>9, <1>10

(* list_dir_at shows of an old revision only what existed then, with the    *)
(* content it had then, although it reads the tree at HEAD and the rows of  *)
(* other revisions.  What can mislead it is named where NoGhosts is stated: *)
(* a row that hides a tombstone, a directory given attributes it has no row *)
(* for, a name that continues another one, and a touched file's content.    *)
THEOREM ListingsAreTrue == Purgeable /\ RowsLast => (Spec => []NoGhosts)
<1> SUFFICES ASSUME Purgeable, RowsLast
             PROVE  Spec => []NoGhosts
  OBVIOUS
<1>1. Init => HInv /\ Since
  BY InvInit, SinceInit
<1>2. HInv /\ Since /\ [Next]_vars => (HInv /\ Since)'
  BY InvStep, SinceStep
<1>3. HInv /\ Since => NoGhosts
  BY NoGhostsFromInv
<1> QED BY <1>1, <1>2, <1>3, PTL DEF Spec

-----------------------------------------------------------------------------
(* And that nothing is missing there, as long as nobody made a directory as *)
(* such, who removed a directory named the files in it, and nothing was     *)
(* purged.                                                                  *)

\* A file of an old revision is deleted by name later, or still there, and
\* then so are the rows of the directories it was in.
Traced ==
  \A r \in 0 .. head, e \in Paths : plain[r + 1].files[e] # None =>
    \/ \E x \in changes : x.op = "delete" /\ x.path = e /\ x.rev > r
    \/ /\ plain[head + 1].files[e] # None
       /\ \A a \in Ancestors[e] : tree[a] # None /\ tree[a].rev <= r

\* A list that does not touch e keeps the way to it.
KeepsWay(c, e) ==
  /\ c \notin Mkdirs /\ c.path \notin Ancestors[e]
  /\ c \in Deletes => c.path # e /\ e \notin Ancestors[c.path]

LEMMA WayKept ==
  ASSUME NEW n \in Nat \ {0}, NEW t \in Trees(n), NEW e \in Paths, t[e] # None,
         \A a \in Ancestors[e] : t[a] # None,
         NEW C, C \subseteq Changes,
         \A c \in C : c \notin Metas => KeepsWay(c, e)
  PROVE  /\ Apply(t, C, n)[e] # None
         /\ \A a \in Ancestors[e] : Apply(t, C, n)[a] = t[a]
<1> DEFINE T == {u \in Trees(n) : u[e] # None /\ \A a \in Ancestors[e] : u[a] = t[a]}
<1>0. Ancestors[e] \subseteq Paths /\ e \notin Ancestors[e]
  BY AncestorsArePaths
<1>1. ASSUME NEW u \in T, NEW c \in C
      PROVE  ApplyChange(u, c, n) \in T
  <2> DEFINE u2 == ApplyChange(u, c, n)
             p == c.path
  <2>1. u \in Trees(n) /\ u[e] # None /\ \A a \in Ancestors[e] : u[a] = t[a] /\ u[a] # None
    OBVIOUS
  <2>2. /\ u2 \in Trees(n) /\ c \in Changes /\ p \in Paths
        /\ c \in Puts \/ c \in Deletes \/ c \in Metas
        /\ c \notin Metas => KeepsWay(c, e)
        /\ c \in Puts \/ c \in Deletes => c \notin Metas
    <3>1. c \in Changes /\ (c \notin Metas => KeepsWay(c, e))
      OBVIOUS
    <3>2. c \in Puts \/ c \in Deletes => c \notin Metas
      BY DEF Puts, Deletes, Metas
    <3>3. c \in Puts \/ c \in Deletes \/ c \in Metas
      BY <3>1 DEF KeepsWay, Changes
    <3> QED BY <2>1, <3>1, <3>2, <3>3, ApplyTyped, ChangeKinds
  <2>3. CASE c \in Puts
    <3>1. /\ NewRow(c, n) # None /\ u2[p] = NewRow(c, n)
          /\ \A a \in Paths \ {p} : a \notin Ancestors[p] \/ u[a] # None => u2[a] = u[a]
      BY <2>1, <2>3, PutRows
    <3> HIDE DEF u2
    <3>0. p \notin Ancestors[e]
      BY <2>2, <2>3 DEF KeepsWay
    <3>2. u2[e] # None
      BY <2>1, <3>1
    <3>3. \A a \in Ancestors[e] : u2[a] = u[a]
      BY <1>0, <2>1, <3>0, <3>1
    <3> QED BY <2>1, <2>2, <3>2, <3>3 DEF u2
  <2>4. CASE c \in Deletes
    <3> DEFINE u1 == Without(u, Gone(c))
    <3>1. u2 = PruneUpward(u1, p) /\ \A q \in Paths : u1[q] = IF q \in Gone(c) THEN None ELSE u[q]
      BY <2>1, <2>4, DeleteRows, Removed
    <3>2. p # e /\ e \notin Ancestors[p] /\ p \notin Ancestors[e]
      BY <2>2, <2>4 DEF KeepsWay
    <3>3. ASSUME NEW q \in Paths, q = e \/ q \in Ancestors[e]
          PROVE  u1[q] = u[q] /\ u1[q] # None
      <4>1. q # p /\ p \notin Ancestors[q]
        BY <3>2, <3>3, Transitive
      <4>2. q \notin Gone(c)
        BY <2>2, <4>1, BelowIsPath DEF Gone
      <4> QED BY <2>1, <3>1, <3>3, <4>2
    <3> HIDE DEF u1, u2
    <3>4. u2[e] # None
      BY <2>2, <3>1, <3>2, <3>3, PruneRows
    <3>5. ASSUME NEW a \in Ancestors[e]
          PROVE  u2[a] = u[a]
      <4>1. a \in Paths /\ u1[a] = u[a] /\ u1[a] # None
        BY <1>0, <3>3
      <4>2. CASE a \notin Ancestors[p]
        BY <2>2, <3>1, <4>1, <4>2, PruneRows
      <4>3. CASE a \in Ancestors[p]
        <5>1. PICK b \in Ancestors[p] : \E k \in Children(b) :
                /\ b = a \/ a \in Ancestors[b]
                /\ k \notin Ancestors[p] /\ (k = e \/ k \in Ancestors[e])
          BY <2>2, <3>2, <4>3, Fork
        <5>2. ~Bare(u1, p, b) /\ (b = a \/ a \in Ancestors[b])
          BY <3>3, <5>1 DEF Bare, Children
        <5> QED BY <2>2, <3>1, <4>1, <5>2, PruneRows
      <4> QED BY <4>2, <4>3
    <3> QED BY <2>1, <2>2, <3>4, <3>5 DEF u2
  <2>5. CASE c \in Metas
    <3>1. c \in Changes
      BY <2>2
    <3>2. ApplyChange(u, c, n) = u
      <4> HIDE DEF T
      <4> QED BY <2>5, <3>1, ApplyCases
    <3> QED BY <3>2
  <2> QED BY <2>2, <2>3, <2>4, <2>5
<1>2. t \in T
  OBVIOUS
<1> HIDE DEF T
<1>3. PICK s \in [0 .. Len(Order) -> T] : Apply(t, C, n) = s[Len(Order)]
  BY <1>1, <1>2, ApplyHasStages
<1>4. Len(Order) \in 0 .. Len(Order)
  BY HistoryAssumption
<1>5. Apply(t, C, n) \in T
  BY <1>3, <1>4
<1> QED BY <1>5 DEF T

\* Earlier rows said nothing else of who made and removed directories.
LEMMA ClientsBefore ==
  ASSUME HInv, NEW A, NEW B, Land(A, B), UNCHANGED purges, ClientsOnly'
  PROVE  ClientsOnly
<1>1. PICK n \in Nat : n = head
  BY HeadTree
<1>2. /\ changes \subseteq Records(n) /\ plain \in Seq(Plains) /\ Len(plain) = n + 1
  BY <1>1, Typed DEF HInv
<1>3. PICK w : plain' = Append(plain, w)
  BY DEF Land
<1>4. changes' = changes \union Added(A \union B, n + 1)
  BY <1>1 DEF Land, Added, Rec
<1>5. \A c \in changes : /\ c \in changes' /\ c.rev \in 1 .. n
                          /\ plain'[c.rev] = plain[c.rev]
  <2> SUFFICES ASSUME NEW c \in changes
               PROVE  c \in changes' /\ c.rev \in 1 .. n /\ plain'[c.rev] = plain[c.rev]
    OBVIOUS
  <2>1. c \in changes' /\ c.rev \in 1 .. n
    BY <1>2, <1>4 DEF Records
  <2>2. c.rev \in 1 .. Len(plain)
    BY <1>2, <2>1
  <2> QED BY <1>2, <1>3, <2>1, <2>2
<1>6. \A x \in changes' : x.rev \in 1 .. n => x \in changes
  <2>1. \A x \in Added(A \union B, n + 1) : x.rev = n + 1
    BY DEF Added, Rec
  <2>2. n + 1 \notin 1 .. n
    OBVIOUS
  <2> QED BY <1>4, <2>1, <2>2
<1>7. purges = 0
  BY DEF ClientsOnly
<1>8. \A c \in changes : c.kind = "dir" => c.op \in {"delete", "meta"}
  BY <1>5 DEF ClientsOnly
<1>9. ASSUME NEW c \in changes, c.op = "delete", NEW q \in Under(c.path),
             plain[c.rev].files[q] # None
      PROVE  \E x \in changes : x.path = q /\ x.rev = c.rev /\ x.op = "delete"
  <2>1. \E x \in changes' : x.path = q /\ x.rev = c.rev /\ x.op = "delete"
    BY <1>5, <1>9 DEF ClientsOnly
  <2> QED BY <1>5, <1>6, <2>1
<1> QED BY <1>7, <1>8, <1>9 DEF ClientsOnly

\* Nor do the new ones: what a list removes is named in it.
LEMMA ClientsList ==
  ASSUME HInv, NEW A, NEW B, Land(A, B), A \union B \subseteq Changes, ClientsOnly'
  PROVE  /\ \A c \in A \union B : c \notin Mkdirs
         /\ \A c \in A \union B, e \in Paths :
              c \in Deletes /\ c.path \in Ancestors[e] /\ plain[head + 1].files[e] # None
                => \E d \in A \union B : d \in Deletes /\ d.path = e
<1> DEFINE M == A \union B
<1>1. PICK n \in Nat : n = head
  BY HeadTree
<1>2. changes \subseteq Records(n) /\ plain \in Seq(Plains) /\ Len(plain) = n + 1
  BY <1>1, Typed DEF HInv
<1>3. PICK w : plain' = Append(plain, w)
  BY DEF Land
<1>4. plain'[n + 1] = plain[n + 1]
  <2>1. n + 1 \in 1 .. Len(plain)
    BY <1>2
  <2> QED BY <1>2, <1>3, <2>1
<1>5. changes' = changes \union Added(M, n + 1)
  BY <1>1 DEF Land, Added, Rec
<1>6. M \subseteq Changes
  OBVIOUS
<1> HIDE DEF M
<1>7. \A c \in M : /\ Rec(c, n + 1) \in changes'
                    /\ Rec(c, n + 1).rev = n + 1 /\ Rec(c, n + 1).path = c.path
                    /\ Rec(c, n + 1).op = c.op /\ Rec(c, n + 1).kind = c.kind
  BY <1>5, <1>6, RecFacts DEF Added
<1>8. ASSUME NEW c \in M, c \in Mkdirs
      PROVE  FALSE
  <2>1. c.op = "add" /\ c.kind = "dir"
    BY <1>8 DEF Mkdirs
  <2> QED BY <1>7, <2>1 DEF ClientsOnly
<1>9. ASSUME NEW c \in M, NEW e \in Paths,
             c \in Deletes, c.path \in Ancestors[e], plain[head + 1].files[e] # None
      PROVE  \E d \in M : d \in Deletes /\ d.path = e
  <2>1. c.path \in Paths /\ c.op = "delete" /\ e \in Under(c.path)
    BY <1>6, <1>9, ChangeKinds, BelowIsPath
  <2>2. PICK x \in changes' : x.path = e /\ x.rev = n + 1 /\ x.op = "delete"
    BY <1>1, <1>4, <1>7, <1>9, <2>1 DEF ClientsOnly
  <2>3. x \notin changes
    <3>1. \A z \in changes : z.rev \in 1 .. n
      BY <1>2 DEF Records
    <3> QED BY <2>2, <3>1
  <2>4. PICK d \in M : x = Rec(d, n + 1)
    BY <1>5, <2>3 DEF Added
  <2>5. d.path = e /\ d.op = "delete"
    BY <1>7, <2>2, <2>4
  <2>6. d \in Deletes
    BY <1>6, <2>5, ChangeKinds
  <2> QED BY <2>5, <2>6
<1> QED BY <1>8, <1>9 DEF M

LEMMA LandTraced ==
  ASSUME HInv, ClientsOnly => Traced, HInv', NEW A, NEW B, Land(A, B), UNCHANGED purges,
         Fitting(A \union B, plain[head + 1]), ClientsOnly'
  PROVE  Traced'
<1>0. Traced
  BY ClientsBefore
<1> DEFINE M == A \union B
<1>1. PICK n \in Nat, v \in {plain[head + 1]} : n = head /\ v = plain[head + 1]
  BY HeadTree
<1>2. /\ plain \in Seq(Plains) /\ Len(plain) = n + 1 /\ n + 1 \in Nat \ {0}
      /\ tree \in Trees(n) /\ tree \in Trees(n + 1)
      /\ Good(v) /\ Agree(tree, v) /\ v \in Plains
  BY <1>1, HeadTree, Typed, Longer DEF HInv
<1>3. /\ head' = n + 1 /\ tree' = Apply(Apply(tree, A, n + 1), B, n + 1)
      /\ plain' = Append(plain, After(v, M))
      /\ changes' = changes \union Added(M, n + 1)
  BY <1>1, <1>2 DEF Land, Added, Rec
<1>4. /\ A \subseteq M /\ B \subseteq M /\ M \subseteq Changes
      /\ \A c, d \in M : c.path = d.path => c = d
      /\ \A c \in M : Possible(v, c) /\ c \notin Mkdirs /\ c.path \in Paths
      /\ \A c \in M, e \in Paths : c \in Deletes /\ c.path \in Ancestors[e] /\ v.files[e] # None
           => \E d \in M : d \in Deletes /\ d.path = e
      /\ \A c \in M : c \in Puts \/ c \in Deletes \/ c \in Metas
      /\ \A c \in M : c \in Puts => c.hash # None /\ c \notin Deletes
  <2>1. M \subseteq Changes
    BY DEF Fitting
  <2>2. \A c \in M : c \notin Mkdirs
    BY <2>1, ClientsList
  <2>3. \A c \in M, e \in Paths : c \in Deletes /\ c.path \in Ancestors[e] /\ v.files[e] # None
          => \E d \in M : d \in Deletes /\ d.path = e
    BY <1>1, <2>1, ClientsList
  <2>4. \A c \in M : c \in Puts => c \notin Deletes
    BY DEF Puts, Deletes
  <2> HIDE DEF M
  <2> QED BY <1>1, <2>1, <2>2, <2>3, <2>4, ChangeKinds DEF Fitting, M
<1> HIDE DEF M
<1>5. After(v, M) \in Plains
  BY <1>2, <1>4, AfterTyped
<1>6. /\ \A r \in 0 .. n : plain'[r + 1] = plain[r + 1]
      /\ plain'[n + 2] = After(v, M) /\ head' + 1 = n + 2
  BY <1>2, <1>3, <1>5
<1>7. /\ Good(plain'[n + 2]) /\ Agree(tree', plain'[n + 2]) /\ tree' \in Trees(n + 1)
  <2>1. TypeOK' /\ Told' /\ Agree(tree', plain'[head' + 1])
    BY DEF HInv
  <2>2. tree' \in Trees(n + 1)
    BY <1>3, <2>1, TypedNext
  <2>3. Good(plain'[n + 2])
    <3>1. n + 1 \in 0 .. head' /\ n + 1 + 1 = n + 2
      BY <1>3
    <3>2. Good(plain'[n + 1 + 1])
      BY <2>1, <3>1 DEF Told
    <3> QED BY <3>1, <3>2
  <2> QED BY <1>6, <2>1, <2>2, <2>3
<1>8. SUFFICES ASSUME NEW r \in 0 .. n + 1, NEW e \in Paths, plain'[r + 1].files[e] # None
               PROVE  \/ \E x \in changes' : x.op = "delete" /\ x.path = e /\ x.rev > r
                      \/ /\ plain'[n + 2].files[e] # None
                         /\ \A a \in Ancestors[e] : tree'[a] # None /\ tree'[a].rev <= r
  BY <1>3, <1>6 DEF Traced
<1>9. CASE r = n + 1
  <2>1. plain'[n + 2].files[e] # None
    <3>1. r + 1 = n + 2
      BY <1>9
    <3> QED BY <1>8, <3>1
  <2>2. ASSUME NEW a \in Ancestors[e]
        PROVE  tree'[a] # None /\ tree'[a].rev <= r
    <3>1. tree'[e] # None
      BY <1>2, <1>7, <2>1, TreeSays DEF IsFile
    <3>2. a \in Paths /\ tree'[a] # None
      BY <1>2, <1>7, <3>1, TreeSays, AncestorsArePaths
    <3>3. tree'[a] \in {None} \union Files(n + 1) \union Dirs(n + 1)
      BY <1>7, <3>2 DEF Trees
    <3>4. tree'[a].rev \in 1 .. n + 1
      BY <1>2, <3>2, <3>3, RowFacts
    <3> QED BY <1>9, <3>2, <3>4
  <2> QED BY <2>1, <2>2
<1>10. CASE r # n + 1
  <2>1. r \in 0 .. n /\ plain[r + 1].files[e] # None
    BY <1>6, <1>8, <1>10
  <2>2. \/ \E x \in changes : x.op = "delete" /\ x.path = e /\ x.rev > r
        \/ v.files[e] # None /\ \A a \in Ancestors[e] : tree[a] # None /\ tree[a].rev <= r
    BY <1>0, <1>1, <2>1 DEF Traced
  <2>3. CASE \E x \in changes : x.op = "delete" /\ x.path = e /\ x.rev > r
    BY <1>3, <2>3
  <2>4. CASE \E d \in M : d \in Deletes /\ d.path = e
    <3>1. PICK d \in M : d \in Deletes /\ d.path = e
      BY <2>4
    <3>2. /\ Rec(d, n + 1).rev = n + 1 /\ Rec(d, n + 1).path = e
          /\ Rec(d, n + 1).op = "delete" /\ Rec(d, n + 1) \in changes'
      BY <1>3, <1>4, <3>1, RecFacts, ChangeKinds DEF Added
    <3>3. n + 1 > r
      BY <2>1
    <3> QED BY <3>2, <3>3
  <2>5. CASE /\ ~\E d \in M : d \in Deletes /\ d.path = e
             /\ v.files[e] # None
             /\ \A a \in Ancestors[e] : tree[a] # None /\ tree[a].rev <= r
    <3>1. ASSUME NEW c \in M
          PROVE  /\ c \notin Metas => KeepsWay(c, e)
                 /\ c \in Deletes => c.path # e /\ c.path \notin Ancestors[e]
      <4>1. e \in Entries(v) /\ Possible(v, c)
        BY <1>2, <1>4, <2>5, ShownBy
      <4>2. c \in Deletes => c.path \notin Ancestors[e] /\ c.path # e
        BY <1>4, <2>5
      <4>3. c \notin Metas => c.path \notin Ancestors[e]
        BY <1>4, <4>1, <4>2 DEF Possible, NothingBelow
      <4>4. e \notin Ancestors[c.path]
        BY <2>5, <4>1 DEF Possible
      <4> QED BY <1>4, <4>2, <4>3, <4>4 DEF KeepsWay
    <3>2. tree[e] # None
      BY <1>2, <2>5, TreeSays DEF IsFile
    <3> DEFINE t1 == Apply(tree, A, n + 1)
    <3>3. /\ t1 \in Trees(n + 1) /\ t1[e] # None
          /\ \A a \in Ancestors[e] : t1[a] = tree[a]
      <4>1. A \subseteq Changes
        BY <1>4
      <4>2. \A c \in A : c \notin Metas => KeepsWay(c, e)
        BY <1>4, <3>1
      <4> QED BY <1>2, <2>5, <3>2, <4>1, <4>2, WayKept, ApplyIsTyped
    <3>4. tree' = Apply(t1, B, n + 1)
      BY <1>3
    <3> HIDE DEF t1
    <3>5. \A a \in Ancestors[e] : Apply(t1, B, n + 1)[a] = t1[a]
      <4>1. B \subseteq Changes
        BY <1>4
      <4>2. \A c \in B : c \notin Metas => KeepsWay(c, e)
        BY <1>4, <3>1
      <4>3. \A a \in Ancestors[e] : t1[a] # None
        BY <2>5, <3>3
      <4> QED BY <1>2, <3>3, <4>1, <4>2, <4>3, WayKept
    <3>6. \A a \in Ancestors[e] : tree'[a] # None /\ tree'[a].rev <= r
      BY <2>5, <3>3, <3>4, <3>5
    <3>7. After(v, M).files[e] # None
      <4>1. /\ \A c \in M : c \in Puts => After(v, M).files[c.path] = c.hash
            /\ (\A c \in M : c.path = e => c \notin Puts) =>
                 After(v, M).files[e] =
                   IF \E c \in M : c \in Deletes /\ (e = c.path \/ c.path \in Ancestors[e])
                   THEN None ELSE v.files[e]
        BY <1>2, <1>4, AfterRows
      <4> QED BY <1>4, <2>5, <3>1, <4>1
    <3> QED BY <1>6, <3>6, <3>7
  <2> QED BY <2>2, <2>3, <2>4, <2>5
<1> QED BY <1>9, <1>10

LEMMA TracedInit == Init => Traced
<1> SUFFICES ASSUME Init
             PROVE  Traced
  OBVIOUS
<1>1. head = 0 /\ plain[1] = NoTree
  BY DEF Init
<1>2. \A r \in 0 .. head, e \in Paths : plain[r + 1].files[e] = None
  <2> SUFFICES ASSUME NEW r \in 0 .. head, NEW e \in Paths
               PROVE  plain[r + 1].files[e] = None
    OBVIOUS
  <2>1. r + 1 = 1
    BY <1>1
  <2> QED BY <1>1, <2>1 DEF NoTree
<1> QED BY <1>2 DEF Traced

LEMMA TracedStep ==
  ASSUME HInv, ClientsOnly => Traced, HInv', [Next]_vars
  PROVE  (ClientsOnly => Traced)'
<1> SUFFICES ASSUME ClientsOnly'
             PROVE  Traced'
  OBVIOUS
<1>1. CASE Commit
  <2>1. PICK C : \E L \in {C, Spread(C)} :
          /\ \A c \in C : Offered(c)
          /\ \A c, d \in C : c.path = d.path => c = d
          /\ Coherent(C) /\ NotBelowDeleted(C)
          /\ Room /\ Land(L, {}) /\ UNCHANGED purges
    BY <1>1, CommitIs
  <2>2. PICK L \in {C, Spread(C)} : Land(L, {}) /\ UNCHANGED purges
    BY <2>1
  <2>3. Fitting(L, plain[head + 1])
    BY <2>1, CommitFits
  <2>4. L \union {} = L
    OBVIOUS
  <2>5. Fitting(L \union {}, plain[head + 1])
    BY <2>3, <2>4
  <2> QED BY <2>2, <2>5, LandTraced
<1>2. ASSUME NEW p \in Paths, NEW source \in 1 .. head, Restore(p, source)
      PROVE  Traced'
  <2> DEFINE A == RestoredFiles(p, source)
             B == RestoredDirs(p, source)
  <2>1. /\ \A c \in A \union B : /\ \A a \in Ancestors[c.path] : ~IsFile(tree, a)
                                 /\ tree[c.path] # None => tree[c.path].kind = c.kind
                                 /\ \A d \in A \union B : d.path \in Under(c.path) => c.kind = "dir"
        /\ Land(A, B) /\ UNCHANGED purges
    BY <1>2 DEF Restore
  <2>2. Fitting(A \union B, plain[head + 1])
    BY <2>1, RestoreFits
  <2> HIDE DEF A, B
  <2> QED BY <2>1, <2>2, LandTraced
<1>3. ASSUME NEW p \in Paths, Purge(p)
      PROVE  FALSE
  <2>1. purges' = purges + 1 /\ purges \in Nat
    BY <1>3, Typed, HistoryAssumption DEF HInv, Purge
  <2>2. purges' = 0
    BY DEF ClientsOnly
  <2> QED BY <2>1, <2>2
<1>4. CASE UNCHANGED vars
  <2>1. ClientsOnly
    BY <1>4 DEF vars, ClientsOnly
  <2> QED BY <1>4, <2>1 DEF vars, Traced
<1> QED BY <1>1, <1>2, <1>3, <1>4 DEF Next

LEMMA NothingMissingFromInv ==
  ASSUME HInv, ClientsOnly => Traced
  PROVE  NothingMissing
<1> SUFFICES ASSUME ClientsOnly, NEW rev \in 1 .. (head - 1), NEW d \in Paths \union {Root}
             PROVE  LET v == plain[rev + 1] IN
                    {p \in Children(d) : v.files[p] # None \/ p \in PlainDirs(v)}
                      \subseteq ListedFiles(d, rev) \union ListedDirs(d, rev)
  BY DEF NothingMissing
<1>1. PICK n \in Nat, u \in {plain[head + 1]} : n = head /\ u = plain[head + 1]
  BY HeadTree
<1>2. /\ rev \in 0 .. head /\ tree \in Trees(n) /\ Good(u) /\ Agree(tree, u)
      /\ changes \subseteq Records(head)
  BY <1>1, HeadTree, Typed DEF HInv
<1>3. PICK v : v = plain[rev + 1]
  OBVIOUS
<1>4. Good(v) /\ v.dirs = {} /\ Traced
  <2>1. Good(v) /\ Tells(changes, rev, v) /\ v \in Plains /\ Traced
    BY <1>2, <1>3 DEF HInv, Told, Good
  <2>2. ASSUME NEW p \in v.dirs
        PROVE  FALSE
    <3> DEFINE S == Recs(changes, p, rev, "dir")
    <3>1. p \in Paths /\ AliveIn(changes, p, rev, "dir")
      BY <2>1 DEF Tells, Plains
    <3>2. S # {} /\ Latest(S).op # "delete"
      BY <3>1 DEF AliveIn
    <3>3. Latest(S) \in S
      BY <1>1, <1>2, <3>2, LatestRec
    <3> HIDE DEF S
    <3>4. \A c \in S : c \in changes /\ c.kind = "dir" /\ c.op # "meta"
      BY DEF S, Recs
    <3> QED BY <3>2, <3>3, <3>4 DEF ClientsOnly
  <2> QED BY <2>1, <2>2
<1>5. \A p \in Paths : v.files[p] # None => FileAt(p, rev) # None
  BY <1>2, <1>3, FileTells
<1>6. SUFFICES ASSUME NEW p \in Children(d), v.files[p] # None \/ p \in PlainDirs(v)
               PROVE  p \in ListedFiles(d, rev) \union ListedDirs(d, rev)
  BY <1>3
<1>7. p \in Paths /\ Parent[p] = d
  BY DEF Children
<1>8. PICK e \in Paths : (e = p \/ p \in Ancestors[e]) /\ v.files[e] # None
  <2>1. CASE v.files[p] # None
    BY <1>7, <2>1
  <2>2. CASE p \in PlainDirs(v)
    <3>1. p \in Shown(v)
      BY <1>4, <1>7, <2>2, DirsShown
    <3>2. PICK x \in Entries(v) : p = x \/ p \in Ancestors[x]
      BY <1>4, <1>7, <3>1, ShownBy DEF Good
    <3>3. x \in Paths /\ v.files[x] # None
      BY <1>4, ShownBy DEF Good
    <3> QED BY <3>2, <3>3
  <2> QED BY <1>6, <2>1, <2>2
<1>9. \/ \E x \in changes : x.op = "delete" /\ x.path = e /\ x.rev > rev
      \/ /\ u.files[e] # None
         /\ \A a \in Ancestors[e] : tree[a] # None /\ tree[a].rev <= rev
  BY <1>1, <1>2, <1>3, <1>4, <1>8 DEF Traced
<1>10. e \in Under(d) /\ e \in StartsWith[p]
  <2>1. d # Root => d \in Ancestors[p] /\ d \in Paths
    BY <1>7, HistoryAssumption
  <2>2. d # Root => d \in Ancestors[e]
    BY <1>8, <2>1, Transitive
  <2>3. e \in Under(d)
    BY <2>1, <2>2 DEF Under
  <2>4. e \in StartsWith[p]
    BY <1>7, <1>8, HistoryAssumption
  <2> QED BY <2>3, <2>4
<1>11. CASE \E x \in changes : x.op = "delete" /\ x.path = e /\ x.rev > rev
  <2>1. e \in DeletedBetween(Under(d), rev) /\ e \in DeletedBetween(StartsWith[p], rev)
    BY <1>10, <1>11 DEF DeletedBetween
  <2>2. p \in Listable(d, rev)
    BY <1>8, <2>1 DEF Listable
  <2>3. FileAt(e, rev) # None
    BY <1>5, <1>8
  <2>4. DirAliveAt(p, rev)
    BY <2>1, <2>3 DEF DirAliveAt
  <2> QED BY <2>2, <2>4 DEF ListedDirs
<1>12. CASE /\ u.files[e] # None
            /\ \A a \in Ancestors[e] : tree[a] # None /\ tree[a].rev <= rev
  <2>1. tree[e] # None /\ \A a \in Ancestors[e] : IsDir(tree, a)
    <3>1. IsFile(tree, e) /\ tree[e] # None
      BY <1>2, <1>12, TreeSays DEF IsFile
    <3>2. \A a \in Ancestors[e] : a \in Paths /\ u.files[a] = None
      BY <1>2, <3>1, TreeSays, AncestorsArePaths
    <3> QED BY <1>2, <1>12, <3>1, <3>2, TreeSays
  <2>2. p \in Listable(d, rev)
    BY <1>8, <1>12, <2>1 DEF Listable, ListHead
  <2>3. CASE p = e
    BY <1>5, <1>8, <2>2, <2>3 DEF ListedFiles
  <2>4. CASE p # e
    <3>1. IsDir(tree, p) /\ tree[p].rev <= rev
      BY <1>8, <1>12, <2>1, <2>4
    <3>2. DirAliveAt(p, rev)
      BY <3>1 DEF DirAliveAt
    <3> QED BY <2>2, <3>2 DEF ListedDirs
  <2> QED BY <2>3, <2>4
<1> QED BY <1>9, <1>11, <1>12

(* As long as it was clients that made and removed things, and nothing was  *)
(* purged, the listings of the intermediate revisions are complete: what    *)
(* existed in a directory is found, through the rows at HEAD or the         *)
(* deletions since.                                                         *)
THEOREM ListingsAreComplete == Purgeable => (Spec => []NothingMissing)
<1> SUFFICES ASSUME Purgeable
             PROVE  Spec => []NothingMissing
  OBVIOUS
<1> DEFINE IInv == HInv /\ (ClientsOnly => Traced)
<1>1. Init => IInv
  BY InvInit, TracedInit
<1>2. IInv /\ [Next]_vars => IInv'
  BY InvStep, TracedStep
<1>3. IInv => NothingMissing
  BY NothingMissingFromInv
<1> HIDE DEF IInv
<1> QED BY <1>1, <1>2, <1>3, PTL DEF Spec
-----------------------------------------------------------------------------
(* What was answered stays the answer, right or wrong: no hypothesis.       *)

Contents == [rev \in 1 .. head |-> [p \in Paths |-> FileAt(p, rev)]]

\* What file_at reads: the rows of the path and of what is above it.
LEMMA SameRows ==
  ASSUME NEW p \in Paths, NEW rev,
         \A q \in {p} \union Ancestors[p], kind \in {"file", "dir"} :
           RecsOf(q, rev, {kind})' = RecsOf(q, rev, {kind})
  PROVE  FileAt(p, rev)' = FileAt(p, rev)
<1>1. /\ RecsOf(p, rev, {"file"})' = RecsOf(p, rev, {"file"})
      /\ \A a \in Ancestors[p] : RecsOf(a, rev, {"dir"})' = RecsOf(a, rev, {"dir"})
  OBVIOUS
<1> QED BY <1>1 DEF FileAt, Alive, CoveringTombstone

LEMMA LandKeepsRows ==
  ASSUME TypeOK, NEW A, NEW B, Land(A, B), NEW rev \in 1 .. head, NEW q, NEW kind
  PROVE  rev \in 1 .. head' /\ RecsOf(q, rev, {kind})' = RecsOf(q, rev, {kind})
<1>1. head \in Nat /\ head' = head + 1
  BY Typed, HistoryAssumption DEF Land
<1>2. changes' = changes \union Added(A \union B, head + 1)
  BY DEF Land, Added, Rec
<1>3. \A x \in Added(A \union B, head + 1) : x.rev = head + 1
  BY DEF Added, Rec
<1>4. \A x \in Added(A \union B, head + 1) : ~(x.rev <= rev)
  BY <1>1, <1>3
<1>5. \A x : x \in changes' /\ x.rev <= rev <=> x \in changes /\ x.rev <= rev
  BY <1>2, <1>4
<1>6. {c \in changes' : c.path = q /\ c.rev <= rev /\ c.kind \in {kind}}
        = {c \in changes : c.path = q /\ c.rev <= rev /\ c.kind \in {kind}}
  BY <1>5
<1>7. rev \in 1 .. head'
  BY <1>1
<1> QED BY <1>6, <1>7 DEF RecsOf

\* Of what a purge leaves, it leaves all rows.
LEMMA PurgeKeepsRows ==
  ASSUME TypeOK, NEW x \in Paths, Purge(x), NEW rev \in 1 .. head, NEW p \in Paths
  PROVE  /\ head' = head /\ purges' # purges
         /\ FileAt(p, rev)' = FileAt(p, rev) \/ FileAt(p, rev)' = None
<1> DEFINE gone == {x} \union Under(x)
<1>1. /\ head' = head /\ purges' = purges + 1 /\ purges \in Nat
      /\ changes' = {c \in changes : c.path \notin gone}
  BY Typed, HistoryAssumption DEF Purge
<1>2. CASE p \in gone
  <2>1. RecsOf(p, rev, {"file"})' = {}
    BY <1>1, <1>2 DEF RecsOf
  <2> QED BY <1>1, <2>1 DEF FileAt, Alive
<1>3. CASE p \notin gone
  <2>1. \A q \in {p} \union Ancestors[p] : q \notin gone
    BY <1>3, AncestorsArePaths, BelowIsPath, Transitive
  <2> HIDE DEF gone
  <2>2. \A q \in {p} \union Ancestors[p], kind \in {"file", "dir"} :
          RecsOf(q, rev, {kind})' = RecsOf(q, rev, {kind})
    BY <1>1, <2>1 DEF RecsOf
  <2> QED BY <1>1, <2>2, SameRows
<1> QED BY <1>2, <1>3

(* No step rewrites history: what file_at answered for a revision and path  *)
(* it answers for ever, unless a purge takes the path out of all revisions. *)
(* Whatever directories are made, remade, touched and deleted.              *)
THEOREM HistoryIsNotRewritten ==
  Spec => [][\A rev \in 1 .. head, p \in Paths :
               \/ Contents'[rev][p] = Contents[rev][p]
               \/ purges' # purges /\ Contents'[rev][p] = None]_vars
<1>1. ASSUME TypeOK, [Next]_vars, NEW rev \in 1 .. head, NEW p \in Paths
      PROVE  /\ rev \in 1 .. head'
             /\ \/ FileAt(p, rev)' = FileAt(p, rev)
                \/ purges' # purges /\ FileAt(p, rev)' = None
  <2>1. ASSUME NEW A, NEW B, Land(A, B)
        PROVE  rev \in 1 .. head' /\ FileAt(p, rev)' = FileAt(p, rev)
    BY <1>1, <2>1, LandKeepsRows, SameRows
  <2>2. CASE Commit
    BY <2>1, <2>2, CommitIs
  <2>3. ASSUME NEW q \in Paths, NEW source \in 1 .. head, Restore(q, source)
        PROVE  rev \in 1 .. head' /\ FileAt(p, rev)' = FileAt(p, rev)
    BY <2>1, <2>3 DEF Restore
  <2>4. ASSUME NEW q \in Paths, Purge(q)
        PROVE  /\ head' = head /\ purges' # purges
               /\ FileAt(p, rev)' = FileAt(p, rev) \/ FileAt(p, rev)' = None
    BY <1>1, <2>4, PurgeKeepsRows
  <2>5. CASE UNCHANGED vars
    <3>1. \A q \in {p} \union Ancestors[p], kind \in {"file", "dir"} :
            RecsOf(q, rev, {kind})' = RecsOf(q, rev, {kind})
      BY <2>5 DEF vars, RecsOf
    <3> QED BY <2>5, <3>1, SameRows DEF vars
  <2> QED BY <1>1, <2>2, <2>3, <2>4, <2>5 DEF Next
<1>2. TypeOK /\ [Next]_vars =>
        [\A rev \in 1 .. head, p \in Paths :
           \/ Contents'[rev][p] = Contents[rev][p]
           \/ purges' # purges /\ Contents'[rev][p] = None]_vars
  <2> SUFFICES ASSUME TypeOK, [Next]_vars, NEW rev \in 1 .. head, NEW p \in Paths
               PROVE  \/ Contents'[rev][p] = Contents[rev][p]
                      \/ purges' # purges /\ Contents'[rev][p] = None
    OBVIOUS
  <2>1. Contents[rev][p] = FileAt(p, rev)
    BY DEF Contents
  <2>2. rev \in 1 .. head' => Contents'[rev][p] = FileAt(p, rev)'
    BY DEF Contents
  <2> QED BY <1>1, <2>1, <2>2
<1> QED BY <1>2, TypeInit, TypeStep, PTL DEF Spec
=============================================================================
