--------------------------- MODULE FdTableProofs ----------------------------
(***************************************************************************)
(* Proofs about FdTable for every set of names, pool size, number of       *)
(* descriptors and way of starting: pipe ends stay mutual, and the log's   *)
(* number stays that of the descriptor it was sent to.                     *)
(***************************************************************************)
EXTENDS FdTable, FiniteSetTheorems, WellFoundedInduction, TLAPS

\* All names that can exist, and what a number can be open for.
Names == FdName \cup Control \cup {"null", "stdin", "stdout", "stderr", "fd_3", "fd_4"}

What == Names \cup Use \cup {"closed"}

FdRec == [num : Int, peer : Names \cup {None}, is_const : BOOLEAN]

LogRec == [fd : Int, name : Names \cup {None}]

ObjFns == UNION {[D -> FdRec] : D \in SUBSET Names}

\* The shape of a table, in whatever state of a function of fd.c.
Tables == [file : [Num -> What], obj : ObjFns, log : LogRec]

\* PeersMutual and LogFollowsName, of a table.
Mutual(o) ==
    \A n \in DOMAIN o : o[n].peer # None =>
        o[n].peer \in DOMAIN o /\ o[o[n].peer].peer = n

LogRight(t, s) ==
    t.log.fd >= 0 =>
        IF t.log.name # None
        THEN t.log.name \in DOMAIN t.obj /\ t.obj[t.log.name].num = t.log.fd
        ELSE t.log.fd = 2 /\ (Daemonized(s) \/ t.file[2] \in {"stderr", "null"})

Good(t, s) == t \in Tables /\ Mutual(t.obj) /\ LogRight(t, s)

\* No name is "none".
LEMMA NoneIsNoName == None \notin Names
  BY FdTableAssumption DEF None, Names, Control

\* An fd_list is a function on the names that exist.
LEMMA ObjFn ==
  ASSUME NEW o
  PROVE  o \in ObjFns <=> DOMAIN o \subseteq Names /\ o \in [DOMAIN o -> FdRec]
<1>1. ASSUME o \in ObjFns
      PROVE  DOMAIN o \subseteq Names /\ o \in [DOMAIN o -> FdRec]
  BY <1>1 DEF ObjFns
<1>2. ASSUME DOMAIN o \subseteq Names, o \in [DOMAIN o -> FdRec]
      PROVE  o \in ObjFns
  BY <1>2 DEF ObjFns
<1> QED
  BY <1>1, <1>2

-----------------------------------------------------------------------------
(* The kernel's numbers.                                                  *)

\* A set of numbers that is not empty has a least one.
LEMMA LeastMember ==
  ASSUME NEW S \in SUBSET Nat, S # {}
  PROVE  Min(S) \in S /\ \A m \in S : Min(S) <= m
<1> DEFINE Below == OpToRel(<, Nat)
<1>1. \A x, y \in Nat : y < x => <<y, x>> \in Below
  BY DEF OpToRel
<1>2. IsWellFoundedOn(Below, Nat)
  BY NatLessThanWellFounded, Zenon
<1> HIDE DEF Below
<1>3. PICK x \in S : \A y \in S : ~ (<<y, x>> \in Below)
  BY <1>2, WFMin
<1>4. ASSUME NEW y \in S PROVE x <= y
  <2>1. x \in Nat /\ y \in Nat
    OBVIOUS
  <2>2. <<y, x>> \notin Below
    BY <1>3
  <2>3. ~ (y < x)
    BY <1>1, <2>1, <2>2, Zenon
  <2> QED
    BY <2>1, <2>3, SMT
<1> QED
  BY <1>4 DEF Min

\* The lowest free number is free, and lowest.
LEMMA LowestFree ==
  ASSUME NEW f, Unused(f) # {}
  PROVE  /\ Lowest(f) \in Unused(f)
         /\ \A m \in Unused(f) : Lowest(f) <= m
<1>1. Unused(f) \in SUBSET Nat
  BY FdTableAssumption DEF Unused, Num
<1>2. Min(Unused(f)) \in Unused(f) /\ \A m \in Unused(f) : Min(Unused(f)) <= m
  BY <1>1, LeastMember
<1> QED
  BY <1>2 DEF Lowest

\* The number a call returns is an integer, and a descriptor unless all are open.
LEMMA LowestTyped ==
  ASSUME NEW f
  PROVE  Lowest(f) \in Int /\ (Unused(f) # {} => Lowest(f) \in Num)
<1>1. CASE Unused(f) = {}
  BY <1>1 DEF Lowest
<1>2. CASE Unused(f) # {}
  BY <1>2, LowestFree, FdTableAssumption DEF Unused, Num
<1> QED
  BY <1>1, <1>2

\* Opening a number leaves alone what is open.
LEMMA OpenedKeeps ==
  ASSUME NEW f \in [Num -> What], NEW w \in What
  PROVE  /\ Opened(f, w) \in [Num -> What]
         /\ \A n \in Num : f[n] # "closed" => Opened(f, w)[n] = f[n]
         /\ \A n \in Num : f[n] = "closed" => Opened(f, w)[n] \in {"closed", w}
<1>1. CASE Unused(f) = {}
  BY <1>1 DEF Opened
<1>2. CASE Unused(f) # {}
  <2>1. Lowest(f) \in Num /\ f[Lowest(f)] = "closed"
    BY <1>2, LowestFree DEF Unused
  <2> QED
    BY <1>2, <2>1 DEF Opened
<1> QED
  BY <1>1, <1>2

\* A descriptor that is opened and closed again leaves no trace.
LEMMA OpenedThenClosed ==
  ASSUME NEW f \in [Num -> What], NEW w \in What, Unused(f) # {}
  PROVE  Closed(Opened(f, w), Lowest(f)) = f
<1>1. Lowest(f) \in Num /\ f[Lowest(f)] = "closed"
  BY LowestFree DEF Unused
<1> QED
  BY <1>1 DEF Opened, Closed

\* close() concerns one number only.
LEMMA ClosedTyped ==
  ASSUME NEW f \in [Num -> What], NEW n
  PROVE  /\ Closed(f, n) \in [Num -> What]
         /\ \A m \in Num : m # n => Closed(f, n)[m] = f[m]
  BY DEF Closed, What

-----------------------------------------------------------------------------
(* fd.c                                                                   *)

\* fd_delete changes the peer of the peer, and of the rest nothing.
LEMMA DeleteObj ==
  ASSUME NEW o, DOMAIN o \subseteq Names, o \in [DOMAIN o -> FdRec],
         NEW n \in DOMAIN o, NEW p, p = Restrict(Unpeered(o, n), DOMAIN o \ {n})
  PROVE  /\ DOMAIN p = DOMAIN o \ {n}
         /\ p \in [DOMAIN p -> FdRec]
         /\ \A m \in DOMAIN p : /\ p[m].num = o[m].num
                                /\ m # o[n].peer => p[m].peer = o[m].peer
                                /\ m = o[n].peer => p[m].peer = None
<1>1. CASE o[n].peer = None
  <2>1. p = [m \in DOMAIN o \ {n} |-> o[m]]
    BY <1>1 DEF Unpeered, Restrict
  <2>2. \A m \in DOMAIN p : m # None
    BY <2>1, NoneIsNoName
  <2> QED
    BY <1>1, <2>1, <2>2
<1>2. CASE o[n].peer # None
  <2> DEFINE q == [o EXCEPT ![o[n].peer].peer = None]
  <2>1. p = [m \in DOMAIN o \ {n} |-> q[m]]
    BY <1>2 DEF Unpeered, Restrict
  <2>2. \A m \in DOMAIN o : /\ m # o[n].peer => q[m] = o[m]
                            /\ m = o[n].peer => q[m] = [o[m] EXCEPT !.peer = None]
    OBVIOUS
  <2>3. \A m \in DOMAIN o : [o[m] EXCEPT !.peer = None] \in FdRec
    BY DEF FdRec
  <2>4. \A m \in DOMAIN o : [o[m] EXCEPT !.peer = None].num = o[m].num
                            /\ [o[m] EXCEPT !.peer = None].peer = None
    BY DEF FdRec
  <2> HIDE DEF q
  <2>5. \A m \in DOMAIN o : /\ q[m] \in FdRec
                            /\ q[m].num = o[m].num
                            /\ m # o[n].peer => q[m].peer = o[m].peer
                            /\ m = o[n].peer => q[m].peer = None
    BY <2>2, <2>3, <2>4
  <2> QED
    BY <2>1, <2>5
<1> QED
  BY <1>1, <1>2

\* fd_delete of one end of a pipe leaves the others mutual.
LEMMA DeleteMutual ==
  ASSUME NEW o, DOMAIN o \subseteq Names, o \in [DOMAIN o -> FdRec], Mutual(o),
         NEW n \in DOMAIN o, NEW p, p = Restrict(Unpeered(o, n), DOMAIN o \ {n})
  PROVE  Mutual(p)
<1> SUFFICES ASSUME NEW m \in DOMAIN p, p[m].peer # None
             PROVE  p[m].peer \in DOMAIN p /\ p[p[m].peer].peer = m
  BY DEF Mutual
<1>1. /\ DOMAIN p = DOMAIN o \ {n}
      /\ \A k \in DOMAIN p : /\ k # o[n].peer => p[k].peer = o[k].peer
                             /\ k = o[n].peer => p[k].peer = None
  BY DeleteObj
<1>2. m \in DOMAIN o /\ m # n /\ m # o[n].peer /\ p[m].peer = o[m].peer /\ m # None
  BY <1>1, NoneIsNoName
<1>3. o[m].peer \in DOMAIN o /\ o[o[m].peer].peer = m
  BY <1>2 DEF Mutual
<1>4. o[m].peer # n
  BY <1>2, <1>3
<1>5. o[m].peer # o[n].peer
  BY <1>2, <1>3 DEF Mutual
<1> QED
  BY <1>1, <1>2, <1>3, <1>4, <1>5

\* fd_delete keeps the table good: the log is told when its number goes.
LEMMA DeleteGood ==
  ASSUME NEW t, NEW s, Good(t, s), NEW n \in DOMAIN t.obj
  PROVE  /\ Good(fd_delete(t, n), s)
         /\ DOMAIN fd_delete(t, n).obj = DOMAIN t.obj \ {n}
<1> DEFINE u == fd_delete(t, n)
<1>1. t \in Tables /\ Mutual(t.obj) /\ LogRight(t, s)
  BY DEF Good
<1>2. /\ u.obj = Restrict(Unpeered(t.obj, n), DOMAIN t.obj \ {n})
      /\ u.log = Detached(t.log, t.obj[n].num)
      /\ u.file = Closed(t.file, t.obj[n].num)
      /\ u.file \in [Num -> What] /\ u.obj \in ObjFns /\ u.log \in LogRec => u \in Tables
  <2> DEFINE o == Restrict(Unpeered(t.obj, n), DOMAIN t.obj \ {n})
             l == Detached(t.log, t.obj[n].num)
             f == Closed(t.file, t.obj[n].num)
  <2>1. u = [t EXCEPT !.obj = o, !.log = l, !.file = f]
    BY DEF fd_delete
  <2> HIDE DEF o, l, f, u
  <2>2. /\ u.obj = o /\ u.log = l /\ u.file = f
        /\ f \in [Num -> What] /\ o \in ObjFns /\ l \in LogRec => u \in Tables
    BY <1>1, <2>1 DEF Tables
  <2> QED
    BY <2>2 DEF o, l, f
<1>3. DOMAIN t.obj \subseteq Names /\ t.obj \in [DOMAIN t.obj -> FdRec]
  BY <1>1, ObjFn DEF Tables
<1>4. /\ DOMAIN u.obj = DOMAIN t.obj \ {n}
      /\ u.obj \in [DOMAIN u.obj -> FdRec]
      /\ \A m \in DOMAIN u.obj : u.obj[m].num = t.obj[m].num
  BY <1>2, <1>3, DeleteObj
<1>5. /\ u.file \in [Num -> What]
      /\ \A m \in Num : m # t.obj[n].num => u.file[m] = t.file[m]
  BY <1>1, <1>2, ClosedTyped DEF Tables
<1>6. t.obj[n].num \in Int /\ t.log \in LogRec
  BY <1>1, <1>3 DEF FdRec, Tables
<1> HIDE DEF u
<1>7. u.log \in LogRec
  BY <1>2, <1>6 DEF Detached, LogRec
<1>8. Mutual(u.obj)
  BY <1>1, <1>2, <1>3, DeleteMutual
<1>9. LogRight(u, s)
  <2> SUFFICES ASSUME u.log.fd >= 0
               PROVE  IF u.log.name # None
                      THEN u.log.name \in DOMAIN u.obj /\ u.obj[u.log.name].num = u.log.fd
                      ELSE u.log.fd = 2 /\ (Daemonized(s) \/ u.file[2] \in {"stderr", "null"})
    BY DEF LogRight
  <2>1. u.log = t.log /\ t.log.fd # t.obj[n].num
    <3>1. ~ (t.obj[n].num >= 0 /\ t.log.fd = t.obj[n].num)
      BY <1>2, <1>6 DEF Detached, LogRec
    <3>2. u.log = t.log
      BY <1>2, <3>1 DEF Detached
    <3> QED
      BY <3>1, <3>2, <1>6 DEF LogRec
  <2>2. CASE u.log.name # None
    BY <1>1, <1>4, <2>1, <2>2 DEF LogRight
  <2>3. CASE u.log.name = None
    BY <1>1, <1>5, <2>1, <2>3, FdTableAssumption DEF LogRight, Num
  <2> QED
    BY <2>2, <2>3
<1>10. u \in Tables
  BY <1>2, <1>3, <1>4, <1>5, <1>7, ObjFn
<1> QED
  BY <1>4, <1>8, <1>9, <1>10 DEF Good, u

\* The old object of a name, if there is one, can be deleted.
LEMMA ReplacedGood ==
  ASSUME NEW t, NEW s, Good(t, s), NEW n
  PROVE  /\ Good(Replaced(t, n), s)
         /\ DOMAIN Replaced(t, n).obj = DOMAIN t.obj \ {n}
  BY DeleteGood DEF Replaced

\* A name that is free gets an object, and the rest stays as it is.
LEMMA PutFree ==
  ASSUME NEW t \in Tables, NEW n \in Names \ DOMAIN t.obj, NEW fd \in FdRec
  PROVE  LET u == Put(t, n, fd)
         IN  /\ u \in Tables
             /\ u.file = t.file /\ u.log = t.log
             /\ DOMAIN u.obj = DOMAIN t.obj \cup {n}
             /\ u.obj[n] = fd
             /\ \A m \in DOMAIN t.obj : u.obj[m] = t.obj[m]
<1> DEFINE o == [k \in DOMAIN t.obj \cup {n} |-> IF k = n THEN fd ELSE t.obj[k]]
           u == [t EXCEPT !.obj = o]
<1>1. Put(t, n, fd) = u
  BY DEF Put, Replaced
<1>3. DOMAIN t.obj \subseteq Names /\ t.obj \in [DOMAIN t.obj -> FdRec]
  BY ObjFn DEF Tables
<1>4. /\ DOMAIN o = DOMAIN t.obj \cup {n}
      /\ o[n] = fd
      /\ \A m \in DOMAIN t.obj : o[m] = t.obj[m]
  OBVIOUS
<1>5. o \in ObjFns
  BY <1>3, <1>4, ObjFn
<1> HIDE DEF o
<1>6. u \in Tables /\ u.file = t.file /\ u.log = t.log /\ u.obj = o
  BY <1>5 DEF Tables
<1> HIDE DEF u
<1> QED
  BY <1>1, <1>4, <1>6

\* A new object for a free name does not concern the log.
LEMMA PutFreeLog ==
  ASSUME NEW t \in Tables, NEW s, LogRight(t, s),
         NEW n \in Names \ DOMAIN t.obj, NEW fd \in FdRec
  PROVE  LogRight(Put(t, n, fd), s)
<1> DEFINE u == Put(t, n, fd)
<1>1. /\ u.file = t.file /\ u.log = t.log
      /\ DOMAIN u.obj = DOMAIN t.obj \cup {n}
      /\ \A m \in DOMAIN t.obj : u.obj[m] = t.obj[m]
  BY PutFree
<1> HIDE DEF u
<1>2. LogRight(u, s)
  BY <1>1 DEF LogRight
<1> QED
  BY <1>2 DEF u

\* fd_new_file makes an object without a peer in place of the old one.
LEMMA NewFileGood ==
  ASSUME NEW t, NEW s, Good(t, s), NEW n \in Names, NEW num \in Int, NEW const \in BOOLEAN
  PROVE  Good(fd_new_file(t, n, num, const), s)
<1> DEFINE r == Replaced(t, n)
           fd == Fd(num, None, const)
           u == Put(r, n, fd)
<1>1. Good(r, s) /\ n \in Names \ DOMAIN r.obj
  BY ReplacedGood
<1>2. fd \in FdRec /\ fd.peer = None
  BY DEF Fd, FdRec
<1>3. fd_new_file(t, n, num, const) = u
  <2>1. Replaced(r, n) = r
    BY <1>1 DEF Replaced
  <2> HIDE DEF r
  <2>2. fd_new_file(t, n, num, const) =
          [r EXCEPT !.obj = [k \in DOMAIN @ \cup {n} |-> IF k = n THEN fd ELSE @[k]]]
    BY DEF fd_new_file, Put, r
  <2>3. u = [r EXCEPT !.obj = [k \in DOMAIN @ \cup {n} |-> IF k = n THEN fd ELSE @[k]]]
    BY <2>1 DEF Put
  <2> QED
    BY <2>2, <2>3
<1> HIDE DEF r, fd
<1>4. /\ u \in Tables /\ LogRight(u, s)
      /\ DOMAIN u.obj = DOMAIN r.obj \cup {n}
      /\ u.obj[n] = fd
      /\ \A m \in DOMAIN r.obj : u.obj[m] = r.obj[m]
  BY <1>1, <1>2, PutFree, PutFreeLog DEF Good
<1> HIDE DEF u
<1>5. Mutual(u.obj)
  BY <1>1, <1>2, <1>4 DEF Good, Mutual
<1> QED
  BY <1>3, <1>4, <1>5 DEF Good

\* fd_new_pipe: the two new ends name each other.
LEMMA NewPipeGood ==
  ASSUME NEW t, NEW s, Good(t, s),
         NEW n1 \in Names, NEW n2 \in Names, n1 # n2,
         NEW num1 \in Int, NEW num2 \in Int
  PROVE  Good(fd_new_pipe(t, n1, num1, n2, num2), s)
<1> DEFINE r == Replaced(Replaced(t, n1), n2)
           fd1 == Fd(num1, n2, FALSE)
           fd2 == Fd(num2, n1, FALSE)
           u == Put(r, n1, fd1)
           v == Put(u, n2, fd2)
<1>1. Good(r, s) /\ n1 \notin DOMAIN r.obj /\ n2 \notin DOMAIN r.obj
  BY ReplacedGood
<1>2. /\ fd1 \in FdRec /\ fd1.peer = n2
      /\ fd2 \in FdRec /\ fd2.peer = n1
  BY DEF Fd, FdRec
<1>3. fd_new_pipe(t, n1, num1, n2, num2) = v
  BY DEF fd_new_pipe
<1> HIDE DEF r, fd1, fd2
<1>4. /\ u \in Tables /\ LogRight(u, s)
      /\ DOMAIN u.obj = DOMAIN r.obj \cup {n1}
      /\ u.obj[n1] = fd1
      /\ \A m \in DOMAIN r.obj : u.obj[m] = r.obj[m]
  BY <1>1, <1>2, PutFree, PutFreeLog DEF Good
<1> HIDE DEF u
<1>5. /\ v \in Tables /\ LogRight(v, s)
      /\ DOMAIN v.obj = DOMAIN u.obj \cup {n2}
      /\ v.obj[n2] = fd2
      /\ \A m \in DOMAIN u.obj : v.obj[m] = u.obj[m]
  BY <1>1, <1>2, <1>4, PutFree, PutFreeLog
<1> HIDE DEF v
<1>6. Mutual(v.obj)
  BY <1>1, <1>2, <1>4, <1>5 DEF Good, Mutual
<1> QED
  BY <1>3, <1>5, <1>6 DEF Good

-----------------------------------------------------------------------------
(* Startup.                                                               *)

\* Before the first command there are no pipes, and nobody has used log.dest.
Plain(t) ==
    /\ t \in Tables
    /\ t.log = [fd |-> 2, name |-> None]
    /\ \A n \in DOMAIN t.obj : t.obj[n].peer = None

\* What number 2 can be open for until it is registered.
Stderr(f) == f[2] \in {"stderr", "null", "closed"}

\* fd_new_file of a name that startup has not used yet deletes nothing.
LEMMA FreshFile ==
  ASSUME NEW t, Plain(t), NEW n \in Names \ DOMAIN t.obj,
         NEW num \in Int, NEW const \in BOOLEAN
  PROVE  LET u == fd_new_file(t, n, num, const)
         IN  /\ Plain(u)
             /\ u.file = t.file
             /\ DOMAIN u.obj = DOMAIN t.obj \cup {n}
<1> DEFINE fd == Fd(num, None, const)
           u == Put(t, n, fd)
<1>1. fd \in FdRec /\ fd.peer = None
  BY DEF Fd, FdRec
<1>2. fd_new_file(t, n, num, const) = u
  BY DEF fd_new_file
<1> HIDE DEF fd
<1>3. /\ u \in Tables
      /\ u.file = t.file /\ u.log = t.log
      /\ DOMAIN u.obj = DOMAIN t.obj \cup {n}
      /\ u.obj[n] = fd
      /\ \A m \in DOMAIN t.obj : u.obj[m] = t.obj[m]
  BY <1>1, PutFree DEF Plain
<1> HIDE DEF u
<1>4. Plain(u)
  BY <1>1, <1>3 DEF Plain
<1> QED
  BY <1>2, <1>3, <1>4

\* A copy of /dev/null takes a free number.
LEMMA NullOpened ==
  ASSUME NEW t, Plain(t), Stderr(t.file)
  PROVE  LET u == [t EXCEPT !.file = Opened(@, "null")]
         IN  /\ Plain(u) /\ u.obj = t.obj
             /\ u.file = Opened(t.file, "null")
             /\ Stderr(u.file)
             /\ \A n \in Num : t.file[n] # "closed" => u.file[n] = t.file[n]
<1> DEFINE f == Opened(t.file, "null")
           u == [t EXCEPT !.file = f]
<1>1. t.file \in [Num -> What] /\ "null" \in What /\ 2 \in Num
  BY FdTableAssumption DEF Plain, Tables, What, Names, Num
<1>2. /\ f \in [Num -> What]
      /\ \A n \in Num : t.file[n] # "closed" => f[n] = t.file[n]
      /\ \A n \in Num : t.file[n] = "closed" => f[n] \in {"closed", "null"}
  BY <1>1, OpenedKeeps
<1> HIDE DEF f
<1>3. u \in Tables /\ u.obj = t.obj /\ u.log = t.log /\ u.file = f
  BY <1>2 DEF Plain, Tables
<1>4. Stderr(f)
  BY <1>1, <1>2 DEF Stderr
<1> HIDE DEF u
<1>5. Plain(u)
  BY <1>3 DEF Plain
<1> QED
  BY <1>2, <1>3, <1>4, <1>5 DEF f, u

\* A standard number is open once register_open_fds has passed it.
LEMMA Round ==
  ASSUME NEW t, Plain(t), Stderr(t.file), NEW i \in 0..4,
         NEW n \in Names \ DOMAIN t.obj, n = Std[i + 1],
         \A j \in 0..2 : j < i => t.file[j] # "closed"
  PROVE  LET u == Registered(t, i)
         IN  /\ Plain(u) /\ Stderr(u.file)
             /\ DOMAIN u.obj \subseteq DOMAIN t.obj \cup {n}
             /\ \A j \in 0..2 : j <= i => u.file[j] # "closed"
<1>0. 0..4 \subseteq Num /\ t.file \in [Num -> What] /\ i \in Int
  BY FdTableAssumption DEF Num, Plain, Tables
<1>1. CASE t.file[i] # "closed" /\ i # t.obj["null"].num
  <2> DEFINE u == fd_new_file(t, n, i, FALSE)
  <2>1. Registered(t, i) = u
    BY <1>1 DEF Registered
  <2>2. Plain(u) /\ u.file = t.file /\ DOMAIN u.obj = DOMAIN t.obj \cup {n}
    BY <1>0, FreshFile
  <2> HIDE DEF u
  <2>3. \A j \in 0..2 : j <= i => t.file[j] # "closed"
    BY <1>1
  <2> QED
    BY <2>1, <2>2, <2>3
<1>2. CASE ~(t.file[i] # "closed" /\ i # t.obj["null"].num) /\ i < 3
  <2> DEFINE v == [t EXCEPT !.file = Opened(@, "null")]
             u == fd_new_file(v, n, Lowest(t.file), FALSE)
  <2>1. Registered(t, i) = u
    BY <1>2 DEF Registered
  <2>2. /\ Plain(v) /\ v.obj = t.obj
        /\ v.file = Opened(t.file, "null")
        /\ Stderr(v.file)
        /\ \A m \in Num : t.file[m] # "closed" => v.file[m] = t.file[m]
    BY NullOpened
  <2> HIDE DEF v
  <2>3. Plain(u) /\ u.file = v.file /\ DOMAIN u.obj = DOMAIN t.obj \cup {n}
    <3>1. Lowest(t.file) \in Int
      BY LowestTyped
    <3>2. Plain(v) /\ n \in Names \ DOMAIN v.obj
      BY <2>2
    <3>3. /\ Plain(u) /\ u.file = v.file
          /\ DOMAIN u.obj = DOMAIN v.obj \cup {n}
      BY <3>1, <3>2, FreshFile
    <3> QED
      BY <2>2, <3>3
  <2> HIDE DEF u
  <2>4. v.file[i] # "closed"
    <3>1. CASE t.file[i] # "closed"
      BY <3>1, <1>0, <2>2
    <3>2. CASE t.file[i] = "closed"
      <4>1. i \in Unused(t.file)
        BY <3>2, <1>0 DEF Unused
      <4>2. Lowest(t.file) \in Unused(t.file) /\ Lowest(t.file) <= i
        BY <4>1, LowestFree
      <4>3. Lowest(t.file) \in Num /\ t.file[Lowest(t.file)] = "closed"
        BY <4>2 DEF Unused
      <4>4. Lowest(t.file) = i
        BY <1>2, <4>2, <4>3 DEF Num
      <4>5. Opened(t.file, "null")[i] = "null"
        BY <4>1, <4>4, <1>0 DEF Opened
      <4> QED
        BY <4>5, <2>2
    <3> QED
      BY <3>1, <3>2
  <2>5. \A j \in 0..2 : j <= i => v.file[j] # "closed"
    <3> SUFFICES ASSUME NEW j \in 0..2, j <= i PROVE v.file[j] # "closed"
      OBVIOUS
    <3>1. CASE j = i
      BY <3>1, <2>4
    <3>2. CASE j < i
      BY <3>2, <1>0, <2>2
    <3> QED
      BY <3>1, <3>2
  <2> QED
    BY <2>1, <2>2, <2>3, <2>5
<1>3. CASE ~(t.file[i] # "closed" /\ i # t.obj["null"].num) /\ ~(i < 3)
  <2>1. Registered(t, i) = t
    BY <1>3 DEF Registered
  <2> QED
    BY <2>1, <1>3
<1> QED
  BY <1>1, <1>2, <1>3

\* The number that a name has is exchanged, and the old one stays open.
LEMMA ToNullPlain ==
  ASSUME NEW t, Plain(t), Stderr(t.file), NEW n
  PROVE  LET u == fd_to_dev_null(t, n)
         IN  /\ Plain(u) /\ Stderr(u.file)
             /\ DOMAIN u.obj = DOMAIN t.obj
             /\ t.file[2] # "closed" => u.file[2] = t.file[2]
<1> DEFINE v == [t EXCEPT !.file = Opened(@, "null")]
           o == [t.obj EXCEPT ![n].num = Lowest(t.file)]
           u == [v EXCEPT !.obj = o]
<1>1. /\ Plain(v) /\ v.obj = t.obj /\ Stderr(v.file)
      /\ \A m \in Num : t.file[m] # "closed" => v.file[m] = t.file[m]
  BY NullOpened
<1>2. fd_to_dev_null(t, n) = u
  <2>1. fd_to_dev_null(t, n) = [v EXCEPT !.obj[n].num = Lowest(t.file)]
    BY DEF fd_to_dev_null
  <2> HIDE DEF v
  <2>2. [v EXCEPT !.obj[n].num = Lowest(t.file)] =
          [v EXCEPT !.obj = [v.obj EXCEPT ![n].num = Lowest(t.file)]]
    OBVIOUS
  <2> QED
    BY <1>1, <2>1, <2>2
<1>3. DOMAIN t.obj \subseteq Names /\ t.obj \in [DOMAIN t.obj -> FdRec]
  BY ObjFn DEF Plain, Tables
<1>4. Lowest(t.file) \in Int
  BY LowestTyped
<1>5. DOMAIN o = DOMAIN t.obj /\ \A m \in DOMAIN o : o[m] \in FdRec /\ o[m].peer = None
  BY <1>3, <1>4 DEF Plain, FdRec
<1>6. o \in ObjFns
  <2>1. o \in [DOMAIN o -> FdRec]
    BY <1>5
  <2> QED
    BY <1>3, <1>5, <2>1, ObjFn
<1> HIDE DEF o, v
<1>7. u \in Tables /\ u.file = v.file /\ u.log = v.log /\ u.obj = o
  BY <1>1, <1>6 DEF Plain, Tables
<1> HIDE DEF u
<1>8. Plain(u)
  BY <1>1, <1>5, <1>7 DEF Plain
<1>9. 2 \in Num
  BY FdTableAssumption DEF Num
<1> QED
  BY <1>1, <1>2, <1>5, <1>7, <1>8, <1>9

\* fd_init_special_handles.
LEMMA SpecialPlain ==
  ASSUME NEW t, Plain(t), Stderr(t.file), DOMAIN t.obj = {}
  PROVE  LET u == Special(t)
         IN  Plain(u) /\ Stderr(u.file) /\ DOMAIN u.obj = {"null"} \cup Control
<1> DEFINE v == [t EXCEPT !.file = Opened(@, "null")]
           w == fd_new_file(v, "null", Lowest(t.file), TRUE)
           o == [n \in DOMAIN w.obj \cup Control |->
                   IF n \in Control THEN Fd(-1, None, TRUE) ELSE w.obj[n]]
           u == [w EXCEPT !.obj = o]
<1>1. Plain(v) /\ v.obj = t.obj /\ Stderr(v.file)
  BY NullOpened
<1>2. Special(t) = u
  BY DEF Special
<1> HIDE DEF v
<1>3. Plain(w) /\ w.file = v.file /\ DOMAIN w.obj = {"null"}
  <2>1. Lowest(t.file) \in Int
    BY LowestTyped
  <2>2. "null" \in Names \ DOMAIN v.obj
    BY <1>1 DEF Names
  <2>3. Plain(w) /\ w.file = v.file /\ DOMAIN w.obj = DOMAIN v.obj \cup {"null"}
    BY <1>1, <2>1, <2>2, FreshFile
  <2> QED
    BY <1>1, <2>3
<1> HIDE DEF w
<1>4. DOMAIN w.obj \subseteq Names /\ w.obj \in [DOMAIN w.obj -> FdRec]
  BY <1>3, ObjFn DEF Plain, Tables
<1>5. Fd(-1, None, TRUE) \in FdRec /\ Fd(-1, None, TRUE).peer = None
  BY DEF Fd, FdRec
<1>6. /\ DOMAIN o = DOMAIN w.obj \cup Control
      /\ \A n \in DOMAIN o : o[n] \in FdRec /\ o[n].peer = None
  BY <1>3, <1>4, <1>5 DEF Plain
<1>7. o \in ObjFns
  <2>1. o \in [DOMAIN o -> FdRec]
    BY <1>6
  <2>2. DOMAIN o \subseteq Names
    BY <1>4, <1>6 DEF Names
  <2> QED
    BY <2>1, <2>2, ObjFn
<1> HIDE DEF o
<1>8. u \in Tables /\ u.file = w.file /\ u.log = w.log /\ u.obj = o
  BY <1>3, <1>7 DEF Plain, Tables
<1> HIDE DEF u
<1>9. Plain(u)
  BY <1>3, <1>6, <1>8 DEF Plain
<1> QED
  BY <1>1, <1>2, <1>3, <1>6, <1>8, <1>9

\* register_open_fds leaves number 2 open, for stderr or for /dev/null.
LEMMA RegisteredPlain ==
  ASSUME NEW t, Plain(t), Stderr(t.file), DOMAIN t.obj = {"null"} \cup Control
  PROVE  LET u == register_open_fds(t)
         IN  Plain(u) /\ Stderr(u.file) /\ u.file[2] # "closed"
<1> DEFINE a == Registered(t, 0)
           b == Registered(a, 1)
           c == Registered(b, 2)
           d == Registered(c, 3)
           e == Registered(d, 4)
<1>0. register_open_fds(t) = e
  BY DEF register_open_fds
<1>1. /\ Plain(a) /\ Stderr(a.file)
      /\ DOMAIN a.obj \subseteq {"null", "stdin"} \cup Control
      /\ \A j \in 0..2 : j <= 0 => a.file[j] # "closed"
  <2>1. "stdin" \in Names \ DOMAIN t.obj /\ "stdin" = Std[0 + 1]
    BY DEF Names, Control, Std
  <2>2. \A j \in 0..2 : j < 0 => t.file[j] # "closed"
    OBVIOUS
  <2> QED
    BY <2>1, <2>2, Round
<1> HIDE DEF a
<1>2. /\ Plain(b) /\ Stderr(b.file)
      /\ DOMAIN b.obj \subseteq {"null", "stdin", "stdout"} \cup Control
      /\ \A j \in 0..2 : j <= 1 => b.file[j] # "closed"
  <2>1. "stdout" \in Names \ DOMAIN a.obj /\ "stdout" = Std[1 + 1]
    BY <1>1 DEF Names, Control, Std
  <2>2. \A j \in 0..2 : j < 1 => a.file[j] # "closed"
    BY <1>1
  <2> QED
    BY <1>1, <2>1, <2>2, Round
<1> HIDE DEF b
<1>3. /\ Plain(c) /\ Stderr(c.file)
      /\ DOMAIN c.obj \subseteq {"null", "stdin", "stdout", "stderr"} \cup Control
      /\ \A j \in 0..2 : j <= 2 => c.file[j] # "closed"
  <2>1. "stderr" \in Names \ DOMAIN b.obj /\ "stderr" = Std[2 + 1]
    BY <1>2 DEF Names, Control, Std
  <2>2. \A j \in 0..2 : j < 2 => b.file[j] # "closed"
    BY <1>2
  <2> QED
    BY <1>2, <2>1, <2>2, Round
<1> HIDE DEF c
<1>4. /\ Plain(d) /\ Stderr(d.file)
      /\ DOMAIN d.obj \subseteq {"null", "stdin", "stdout", "stderr", "fd_3"} \cup Control
      /\ \A j \in 0..2 : j <= 3 => d.file[j] # "closed"
  <2>1. "fd_3" \in Names \ DOMAIN c.obj /\ "fd_3" = Std[3 + 1]
    BY <1>3 DEF Names, Control, Std
  <2>2. \A j \in 0..2 : j < 3 => c.file[j] # "closed"
    BY <1>3
  <2> QED
    BY <1>3, <2>1, <2>2, Round
<1> HIDE DEF d
<1>5. /\ Plain(e) /\ Stderr(e.file)
      /\ \A j \in 0..2 : j <= 4 => e.file[j] # "closed"
  <2>1. "fd_4" \in Names \ DOMAIN d.obj /\ "fd_4" = Std[4 + 1]
    BY <1>4 DEF Names, Control, Std
  <2>2. \A j \in 0..2 : j < 4 => d.file[j] # "closed"
    BY <1>4
  <2> QED
    BY <1>4, <2>1, <2>2, Round
<1> HIDE DEF e
<1> QED
  BY <1>0, <1>5

\* Giving stdin and stdout to a controller leaves number 2 alone.
LEMMA ClaimedPlain ==
  ASSUME NEW t, Plain(t), Stderr(t.file), t.file[2] # "closed",
         NEW mode \in {"interactive", "config", "socket"}
  PROVE  LET u == Claimed(t, mode)
         IN  Plain(u) /\ Stderr(u.file) /\ u.file[2] # "closed"
<1> DEFINE u == fd_to_dev_null(t, "stdin")
           v == fd_to_dev_null(u, "stdout")
<1>1. Plain(u) /\ Stderr(u.file) /\ u.file[2] # "closed"
  BY ToNullPlain
<1> HIDE DEF u
<1>2. Plain(v) /\ Stderr(v.file) /\ v.file[2] # "closed"
  BY <1>1, ToNullPlain
<1> HIDE DEF v
<1>3. CASE mode = "interactive"
  BY <1>2, <1>3 DEF Claimed, u, v
<1>4. CASE mode = "config"
  BY <1>1, <1>4 DEF Claimed, u
<1>5. CASE mode = "socket"
  BY <1>5 DEF Claimed
<1> QED
  BY <1>3, <1>4, <1>5

\* daemonize closes standard numbers, 2 among them.
LEMMA LetGoPlain ==
  ASSUME NEW t, Plain(t), Stderr(t.file), NEW i \in 0..2
  PROVE  Plain(LetGo(t, i)) /\ Stderr(LetGo(t, i).file)
<1> DEFINE u == fd_to_dev_null(t, Std[i + 1])
           f == Closed(u.file, i)
           v == [u EXCEPT !.file = f]
<1>1. Plain(u) /\ Stderr(u.file)
  BY ToNullPlain
<1>2. CASE t.obj[Std[i + 1]].num = i
  <2>1. LetGo(t, i) = v
    BY <1>2 DEF LetGo
  <2> HIDE DEF u
  <2>2. f \in [Num -> What] /\ Stderr(f)
    BY <1>1, FdTableAssumption DEF Closed, Num, What, Plain, Tables, Stderr
  <2> HIDE DEF f
  <2>3. v \in Tables /\ v.file = f /\ v.obj = u.obj /\ v.log = u.log
    BY <1>1, <2>2 DEF Plain, Tables
  <2> HIDE DEF v
  <2>4. Plain(v)
    BY <1>1, <2>3 DEF Plain
  <2> QED
    BY <2>1, <2>2, <2>3, <2>4
<1>3. CASE t.obj[Std[i + 1]].num # i
  BY <1>3 DEF LetGo
<1> QED
  BY <1>2, <1>3

\* A table without pipes whose log goes to number 2 is good.
LEMMA PlainGood ==
  ASSUME NEW t, NEW s, Plain(t),
         Daemonized(s) \/ (Stderr(t.file) /\ t.file[2] # "closed")
  PROVE  Good(t, s)
<1>1. Mutual(t.obj)
  BY DEF Plain, Mutual
<1>2. LogRight(t, s)
  BY DEF Plain, LogRight, Stderr
<1> QED
  BY <1>1, <1>2 DEF Plain, Good

\* main starts with the descriptors it inherits, and no names.
LEMMA FirstPlain ==
  ASSUME NEW open, open \subseteq 0..3
  PROVE  LET t == [file |-> Inherited(open), obj |-> <<>>, log |-> [fd |-> 2, name |-> None]]
         IN  Plain(t) /\ Stderr(t.file) /\ DOMAIN t.obj = {}
<1> DEFINE t == [file |-> Inherited(open), obj |-> <<>>, log |-> [fd |-> 2, name |-> None]]
<1>1. DOMAIN (<<>>) = {} /\ <<>> \in [{} -> FdRec]
  OBVIOUS
<1>2. <<>> \in ObjFns
  BY <1>1, ObjFn
<1>3. Inherited(open) \in [Num -> What] /\ Stderr(Inherited(open))
  <2>1. \A n \in 0..3 : Std[n + 1] \in Names
    BY DEF Std, Names
  <2>2. Inherited(open) \in [Num -> What]
    BY <2>1 DEF Inherited, What
  <2>3. Std[2 + 1] = "stderr" /\ 2 \in Num
    BY FdTableAssumption DEF Std, Num
  <2>4. Stderr(Inherited(open))
    BY <2>3 DEF Inherited, Stderr
  <2> QED
    BY <2>2, <2>4
<1>4. [fd |-> 2, name |-> None] \in LogRec
  BY DEF LogRec
<1>5. t \in Tables
  BY <1>2, <1>3, <1>4 DEF Tables
<1> QED
  BY <1>1, <1>3, <1>5 DEF Plain

\* However the process is started, its first table is good.
LEMMA StartedGood ==
  ASSUME NEW s \in Starts
  PROVE  Good(Started(s), s)
<1> DEFINE t0 == [file |-> Inherited(s.open), obj |-> <<>>,
                  log |-> [fd |-> 2, name |-> None]]
           t1 == Special(t0)
           t2 == register_open_fds(t1)
           t3 == Claimed(t2, s.mode)
<1>1. s.mode \in {"interactive", "config", "socket"} /\ s.open \subseteq 0..3
  BY FdTableAssumption
<1>2. Plain(t0) /\ Stderr(t0.file) /\ DOMAIN t0.obj = {}
  BY <1>1, FirstPlain
<1>3. Started(s) = IF Daemonized(s) THEN daemonize(t3) ELSE t3
  BY DEF Started
<1> HIDE DEF t0
<1>4. Plain(t1) /\ Stderr(t1.file) /\ DOMAIN t1.obj = {"null"} \cup Control
  BY <1>2, SpecialPlain
<1> HIDE DEF t1
<1>5. Plain(t2) /\ Stderr(t2.file) /\ t2.file[2] # "closed"
  BY <1>4, RegisteredPlain
<1> HIDE DEF t2
<1>6. Plain(t3) /\ Stderr(t3.file) /\ t3.file[2] # "closed"
  BY <1>1, <1>5, ClaimedPlain
<1> HIDE DEF t3
<1>7. CASE Daemonized(s)
  <2> DEFINE a == LetGo(t3, 0)
             b == LetGo(a, 1)
             c == LetGo(b, 2)
  <2>1. Plain(a) /\ Stderr(a.file)
    BY <1>6, LetGoPlain
  <2> HIDE DEF a
  <2>2. Plain(b) /\ Stderr(b.file)
    BY <2>1, LetGoPlain
  <2> HIDE DEF b
  <2>3. Plain(c)
    BY <2>2, LetGoPlain
  <2>4. Started(s) = c
    BY <1>3, <1>7 DEF daemonize, a, b
  <2> HIDE DEF c
  <2> QED
    BY <1>7, <2>3, <2>4, PlainGood
<1>8. CASE ~Daemonized(s)
  BY <1>3, <1>6, <1>8, PlainGood
<1> QED
  BY <1>7, <1>8

-----------------------------------------------------------------------------
(* Who holds a number.  C is the set of numbers that are open for somebody *)
(* who is not a name: the controller that claimed stdin, or a command that *)
(* is about to give the number a name.                                     *)

Own(f, o, C) ==
    /\ C \subseteq Num
    /\ \A n \in C : f[n] # "closed"
    /\ \A n \in Num : f[n] # "closed" => n \in C \/ \E k \in DOMAIN o : o[k].num = n
    /\ \A k \in DOMAIN o : o[k].num \in Num =>
          o[k].num \notin C /\ f[o[k].num] \in {k, "null"}
    /\ \A k, m \in DOMAIN o : o[k].num \in Num /\ o[k].num = o[m].num => k = m

\* No name can be taken for "closed".
LEMMA ClosedIsNoName == "closed" \notin Names
  BY FdTableAssumption DEF Names, Control

\* A number that is opened is held by who opened it.
LEMMA OwnOpened ==
  ASSUME NEW f \in [Num -> What], NEW o, NEW C, Own(f, o, C), DOMAIN o \subseteq Names,
         NEW w \in What, w # "closed", Unused(f) # {}
  PROVE  /\ Own(Opened(f, w), o, C \cup {Lowest(f)})
         /\ Lowest(f) \in Num \ C
         /\ Opened(f, w)[Lowest(f)] = w
<1> DEFINE n == Lowest(f)
           g == Opened(f, w)
<1>1. n \in Num /\ f[n] = "closed"
  BY LowestFree DEF Unused
<1>2. g \in [Num -> What] /\ g[n] = w /\ \A m \in Num : m # n => g[m] = f[m]
  BY <1>1 DEF Opened
<1> HIDE DEF n, g
<1>3. \A k \in DOMAIN o : o[k].num # n
  BY <1>1, ClosedIsNoName DEF Own
<1>4. Own(g, o, C \cup {n}) /\ n \notin C
  BY <1>1, <1>2, <1>3 DEF Own
<1> QED
  BY <1>1, <1>2, <1>4 DEF n, g

\* A number that no name has is closed by who held it.
LEMMA OwnClosed ==
  ASSUME NEW f \in [Num -> What], NEW o, NEW C, Own(f, o, C), NEW n \in C
  PROVE  Own(Closed(f, n), o, C \ {n})
<1> DEFINE g == Closed(f, n)
<1>1. n \in Num
  BY DEF Own
<1>2. g \in [Num -> What] /\ g[n] = "closed" /\ \A m \in Num : m # n => g[m] = f[m]
  BY <1>1 DEF Closed, What
<1> HIDE DEF g
<1>3. Own(g, o, C \ {n})
  BY <1>1, <1>2 DEF Own
<1> QED
  BY <1>3 DEF g

\* An object that is deleted takes its number with it.
LEMMA OwnDeleted ==
  ASSUME NEW f \in [Num -> What], NEW o, NEW C, Own(f, o, C),
         NEW k \in DOMAIN o, NEW p, DOMAIN p = DOMAIN o \ {k},
         \A m \in DOMAIN p : p[m].num = o[m].num
  PROVE  Own(Closed(f, o[k].num), p, C)
<1> DEFINE n == o[k].num
           g == Closed(f, n)
<1>1. CASE n \in Num
  <2>1. g \in [Num -> What] /\ g[n] = "closed" /\ \A m \in Num : m # n => g[m] = f[m]
    BY <1>1 DEF Closed, What
  <2>2. n \notin C /\ \A m \in DOMAIN p : p[m].num # n
    BY <1>1 DEF Own
  <2> HIDE DEF n, g
  <2>3. Own(g, p, C)
    <3>1. \A x \in Num : g[x] # "closed" => x \in C \/ \E m \in DOMAIN p : p[m].num = x
      BY <2>1 DEF Own, n
    <3>2. \A m \in DOMAIN p : p[m].num \in Num =>
              p[m].num \notin C /\ g[p[m].num] \in {m, "null"}
      BY <2>1, <2>2 DEF Own
    <3>3. \A x \in C : g[x] # "closed"
      BY <2>1, <2>2 DEF Own
    <3> QED
      BY <3>1, <3>2, <3>3 DEF Own
  <2> QED
    BY <2>3 DEF g, n
<1>2. CASE n \notin Num
  <2>1. g = f
    BY <1>2 DEF Closed
  <2>2. Own(f, p, C)
    BY <1>2 DEF Own
  <2> QED
    BY <2>1, <2>2
<1> QED
  BY <1>1, <1>2

\* An object that is made, or given another number, takes over a number that
\* is open for it or for /dev/null.
LEMMA OwnNamed ==
  ASSUME NEW f \in [Num -> What], NEW o, NEW C, Own(f, o, C),
         NEW k, k \notin DOMAIN o, NEW p, DOMAIN p = DOMAIN o \cup {k},
         \A m \in DOMAIN o : p[m].num = o[m].num,
         p[k].num \in C, f[p[k].num] \in {k, "null"}
  PROVE  Own(f, p, C \ {p[k].num})
  BY DEF Own

\* A name whose object has no number holds nothing.
LEMMA OwnUnnumbered ==
  ASSUME NEW f \in [Num -> What], NEW o, NEW C, Own(f, o, C),
         NEW p, DOMAIN o \subseteq DOMAIN p,
         \A m \in DOMAIN o : p[m].num = o[m].num,
         \A m \in DOMAIN p \ DOMAIN o : p[m].num \notin Num
  PROVE  Own(f, p, C)
  BY DEF Own

\* The old number of a name that gets another is nobody's name's.
LEMMA OwnLoosened ==
  ASSUME NEW f \in [Num -> What], NEW o, NEW C, Own(f, o, C), DOMAIN o \subseteq Names,
         NEW k \in DOMAIN o, o[k].num \in Num,
         NEW p, DOMAIN p = DOMAIN o \ {k}, \A m \in DOMAIN p : p[m].num = o[m].num
  PROVE  Own(f, p, C \cup {o[k].num})
  BY ClosedIsNoName DEF Own

\* Own, of a table.
Holds(t, C) == Own(t.file, t.obj, C)

\* Deleting an object, or the old one of a name, closes no number of others.
LEMMA DeleteHolds ==
  ASSUME NEW t \in Tables, NEW C, Holds(t, C), NEW n \in DOMAIN t.obj
  PROVE  /\ fd_delete(t, n) \in Tables
         /\ DOMAIN fd_delete(t, n).obj = DOMAIN t.obj \ {n}
         /\ Holds(fd_delete(t, n), C)
         /\ \A m \in C : fd_delete(t, n).file[m] = t.file[m]
<1> DEFINE u == fd_delete(t, n)
           o == Restrict(Unpeered(t.obj, n), DOMAIN t.obj \ {n})
           l == Detached(t.log, t.obj[n].num)
           f == Closed(t.file, t.obj[n].num)
<1>1. /\ t.file \in [Num -> What] /\ t.log \in LogRec
      /\ DOMAIN t.obj \subseteq Names /\ t.obj \in [DOMAIN t.obj -> FdRec]
  BY ObjFn DEF Tables
<1>2. u = [t EXCEPT !.obj = o, !.log = l, !.file = f]
  BY DEF fd_delete
<1>3. /\ DOMAIN o = DOMAIN t.obj \ {n} /\ o \in [DOMAIN o -> FdRec]
      /\ \A m \in DOMAIN o : o[m].num = t.obj[m].num
  BY <1>1, DeleteObj
<1>a. l \in LogRec /\ f \in [Num -> What]
  BY <1>1, ClosedTyped DEF Detached, LogRec
<1> HIDE DEF o, l
<1>b. o \in ObjFns
  BY <1>1, <1>3, ObjFn
<1>c. u \in Tables /\ u.obj = o /\ u.file = f
  <2> HIDE DEF f, u
  <2> QED
    BY <1>2, <1>a, <1>b DEF Tables
<1>4. Own(f, o, C)
  BY <1>1, <1>3, OwnDeleted DEF Holds
<1>5. \A m \in C : m \in Num /\ m # t.obj[n].num
  BY DEF Holds, Own
<1>6. \A m \in C : f[m] = t.file[m]
  BY <1>1, <1>5, ClosedTyped
<1> HIDE DEF u, f
<1> QED
  BY <1>3, <1>4, <1>6, <1>c DEF Holds, u

LEMMA ReplacedHolds ==
  ASSUME NEW t \in Tables, NEW C, Holds(t, C), NEW n
  PROVE  /\ Replaced(t, n) \in Tables
         /\ DOMAIN Replaced(t, n).obj = DOMAIN t.obj \ {n}
         /\ Holds(Replaced(t, n), C)
         /\ \A m \in C : Replaced(t, n).file[m] = t.file[m]
<1>1. CASE n \in DOMAIN t.obj
  BY <1>1, DeleteHolds DEF Replaced
<1>2. CASE n \notin DOMAIN t.obj
  BY <1>2 DEF Replaced
<1> QED
  BY <1>1, <1>2

\* A free name that is given a number holds it.
LEMMA PutHolds ==
  ASSUME NEW t \in Tables, NEW C, Holds(t, C), NEW n \in Names \ DOMAIN t.obj,
         NEW fd \in FdRec, fd.num \in C, t.file[fd.num] \in {n, "null"}
  PROVE  /\ Put(t, n, fd) \in Tables
         /\ Put(t, n, fd).file = t.file
         /\ Holds(Put(t, n, fd), C \ {fd.num})
<1> DEFINE u == Put(t, n, fd)
<1>1. /\ u \in Tables /\ u.file = t.file /\ DOMAIN u.obj = DOMAIN t.obj \cup {n}
      /\ u.obj[n] = fd
      /\ \A m \in DOMAIN t.obj : u.obj[m] = t.obj[m]
  BY PutFree
<1>2. t.file \in [Num -> What]
  BY DEF Tables
<1> HIDE DEF u
<1>3. Own(t.file, u.obj, C \ {fd.num})
  BY <1>1, <1>2, OwnNamed DEF Holds
<1> QED
  BY <1>1, <1>3 DEF Holds, u

\* fd_new_file: the number goes from who opened it to the name.
LEMMA NewFileHolds ==
  ASSUME NEW t \in Tables, NEW C, Holds(t, C), NEW n \in Names,
         NEW num \in C, t.file[num] \in {n, "null"}, NEW const \in BOOLEAN,
         NEW u, u = fd_new_file(t, n, num, const)
  PROVE  /\ u \in Tables
         /\ Holds(u, C \ {num})
         /\ \A m \in C : u.file[m] = t.file[m]
<1> DEFINE r == Replaced(t, n)
           fd == Fd(num, None, const)
<1>1. r \in Tables /\ n \in Names \ DOMAIN r.obj /\ Holds(r, C)
      /\ \A m \in C : r.file[m] = t.file[m]
  BY ReplacedHolds
<1>2. num \in Int
  BY FdTableAssumption DEF Holds, Own, Num
<1>3. fd \in FdRec /\ fd.num = num
  BY <1>2 DEF Fd, FdRec
<1>4. fd_new_file(t, n, num, const) = Put(r, n, fd)
  <2>1. Replaced(r, n) = r
    BY <1>1 DEF Replaced
  <2> HIDE DEF r
  <2>2. fd_new_file(t, n, num, const) =
          [r EXCEPT !.obj = [k \in DOMAIN @ \cup {n} |-> IF k = n THEN fd ELSE @[k]]]
    BY DEF fd_new_file, Put, r
  <2>3. Put(r, n, fd) = [r EXCEPT !.obj = [k \in DOMAIN @ \cup {n} |-> IF k = n THEN fd ELSE @[k]]]
    BY <2>1 DEF Put
  <2> QED
    BY <2>2, <2>3
<1> HIDE DEF r, fd
<1>5. /\ Put(r, n, fd) \in Tables /\ Put(r, n, fd).file = r.file
      /\ Holds(Put(r, n, fd), C \ {fd.num})
  BY <1>1, <1>3, PutHolds
<1> QED
  BY <1>1, <1>3, <1>4, <1>5

\* fd_new_pipe: so do both numbers.
LEMMA NewPipeHolds ==
  ASSUME NEW t \in Tables, NEW C, Holds(t, C),
         NEW n1 \in Names, NEW n2 \in Names, n1 # n2,
         NEW num1 \in C, NEW num2 \in C, num1 # num2,
         t.file[num1] = n1, t.file[num2] = n2
  PROVE  Holds(fd_new_pipe(t, n1, num1, n2, num2), C \ {num1, num2})
<1> DEFINE q == Replaced(t, n1)
           r == Replaced(q, n2)
           fd1 == Fd(num1, n2, FALSE)
           fd2 == Fd(num2, n1, FALSE)
           u == Put(r, n1, fd1)
<1>1. /\ q \in Tables /\ n1 \notin DOMAIN q.obj /\ Holds(q, C)
      /\ q.file[num1] = n1 /\ q.file[num2] = n2
  BY ReplacedHolds
<1> HIDE DEF q
<1>2. /\ r \in Tables /\ n1 \notin DOMAIN r.obj /\ n2 \notin DOMAIN r.obj /\ Holds(r, C)
      /\ r.file[num1] = n1 /\ r.file[num2] = n2
  BY <1>1, ReplacedHolds
<1>3. num1 \in Int /\ num2 \in Int
  BY FdTableAssumption DEF Holds, Own, Num
<1>4. fd1 \in FdRec /\ fd1.num = num1 /\ fd2 \in FdRec /\ fd2.num = num2
  BY <1>3 DEF Fd, FdRec
<1>5. fd_new_pipe(t, n1, num1, n2, num2) = Put(u, n2, fd2)
  BY DEF fd_new_pipe, q
<1> HIDE DEF r, fd1, fd2
<1>6. Holds(u, C \ {num1})
  <2>1. Holds(u, C \ {fd1.num})
    BY <1>2, <1>4, PutHolds
  <2> QED
    BY <1>4, <2>1
<1>7. u \in Tables /\ u.file = r.file /\ DOMAIN u.obj = DOMAIN r.obj \cup {n1}
  BY <1>2, <1>4, PutFree
<1> HIDE DEF u
<1>8. Holds(Put(u, n2, fd2), (C \ {num1}) \ {num2})
  <2>1. n2 \in Names \ DOMAIN u.obj /\ fd2.num \in C \ {num1} /\ u.file[fd2.num] \in {n2, "null"}
    BY <1>2, <1>4, <1>7
  <2>2. Holds(Put(u, n2, fd2), (C \ {num1}) \ {fd2.num})
    BY <1>4, <1>6, <1>7, <2>1, PutHolds
  <2> QED
    BY <1>4, <2>2
<1>9. (C \ {num1}) \ {num2} = C \ {num1, num2}
  OBVIOUS
<1> QED
  BY <1>5, <1>8, <1>9

\* Exchanging the number of a name leaves the old one with who asked for it.
LEMMA ToNullHolds ==
  ASSUME NEW t, Plain(t), NEW C, Holds(t, C),
         NEW n \in DOMAIN t.obj, t.obj[n].num \in Num
  PROVE  LET u == fd_to_dev_null(t, n)
         IN  /\ Holds(u, C \cup {t.obj[n].num})
             /\ \A m \in DOMAIN t.obj \ {n} : u.obj[m] = t.obj[m]
<1> DEFINE f == t.file
           new == Lowest(f)
           g == Opened(f, "null")
           o == [t.obj EXCEPT ![n].num = new]
           u == fd_to_dev_null(t, n)
           p == [m \in DOMAIN t.obj \ {n} |-> t.obj[m]]
           D == C \cup {t.obj[n].num}
<1>1. /\ f \in [Num -> What] /\ DOMAIN t.obj \subseteq Names
      /\ t.obj \in [DOMAIN t.obj -> FdRec] /\ new \in Int /\ "null" \in What
  BY ObjFn, LowestTyped DEF Plain, Tables, What, Names
<1>2. u.file = g /\ u.obj = o
  BY DEF fd_to_dev_null, Plain, Tables
<1>3. DOMAIN o = DOMAIN t.obj /\ o[n].num = new /\ \A m \in DOMAIN t.obj \ {n} : o[m] = t.obj[m]
  BY <1>1 DEF FdRec
<1>4. DOMAIN p = DOMAIN t.obj \ {n} /\ \A m \in DOMAIN p : p[m] = t.obj[m]
  OBVIOUS
<1> HIDE DEF p, o, u
<1>5. Own(f, p, D)
  BY <1>1, <1>4, OwnLoosened DEF Holds
<1>6. CASE Unused(f) = {}
  <2>1. g = f /\ new = -1
    BY <1>6 DEF Opened, Lowest
  <2>2. new \notin Num
    BY <2>1, FdTableAssumption DEF Num
  <2> HIDE DEF f, g, new, D
  <2>3. /\ DOMAIN p \subseteq DOMAIN o
        /\ \A m \in DOMAIN p : o[m].num = p[m].num
        /\ \A m \in DOMAIN o \ DOMAIN p : o[m].num \notin Num
    BY <1>3, <1>4, <2>2
  <2>4. Own(f, o, D)
    BY <1>1, <1>5, <2>3, OwnUnnumbered
  <2> QED
    BY <1>2, <1>3, <2>1, <2>4 DEF Holds, u, D
<1>7. CASE Unused(f) # {}
  <2> HIDE DEF f, D
  <2>0. DOMAIN p \subseteq Names
    BY <1>1, <1>4
  <2>1. Own(g, p, D \cup {new}) /\ new \in Num \ D /\ g[new] = "null"
    <3>1. "null" # "closed" /\ f \in [Num -> What] /\ "null" \in What /\ Unused(f) # {}
      BY <1>1, <1>7
    <3>2. Own(f, p, D)
      BY <1>5
    <3> QED
      BY <2>0, <3>1, <3>2, OwnOpened
  <2>2. g \in [Num -> What]
    BY <1>1, OpenedKeeps
  <2> HIDE DEF g, new
  <2>3. /\ n \notin DOMAIN p /\ DOMAIN o = DOMAIN p \cup {n}
        /\ \A m \in DOMAIN p : o[m].num = p[m].num
        /\ o[n].num \in D \cup {new} /\ g[o[n].num] \in {n, "null"}
    BY <1>3, <1>4, <2>1
  <2>4. Own(g, o, (D \cup {new}) \ {o[n].num})
    BY <2>1, <2>2, <2>3, OwnNamed
  <2>5. (D \cup {new}) \ {o[n].num} = D
    BY <1>3, <2>1
  <2> QED
    BY <1>2, <1>3, <2>4, <2>5 DEF Holds, u, D
<1> QED
  BY <1>6, <1>7

\* daemonize closes the number of a name that it has given another one.
LEMMA LetGoHolds ==
  ASSUME NEW t, Plain(t), Stderr(t.file), NEW C, Holds(t, C), NEW i \in 0..2,
         Std[i + 1] \in DOMAIN t.obj
  PROVE  Holds(LetGo(t, i), C) /\ DOMAIN LetGo(t, i).obj = DOMAIN t.obj
<1> DEFINE n == Std[i + 1]
           u == fd_to_dev_null(t, n)
           v == [u EXCEPT !.file = Closed(u.file, i)]
<1>1. CASE t.obj[n].num = i
  <2>1. LetGo(t, i) = v
    BY <1>1 DEF LetGo
  <2>2. i \in Num
    BY FdTableAssumption DEF Num
  <2>3. Holds(u, C \cup {i})
    BY <1>1, <2>2, ToNullHolds
  <2>4. Plain(u) /\ DOMAIN u.obj = DOMAIN t.obj
    BY ToNullPlain
  <2>5. i \notin C
    BY <1>1, <2>2 DEF Holds, Own
  <2> HIDE DEF n, u
  <2>6. v.file = Closed(u.file, i) /\ v.obj = u.obj /\ u.file \in [Num -> What]
    BY <2>4 DEF Plain, Tables
  <2> HIDE DEF v
  <2>7. Own(Closed(u.file, i), u.obj, (C \cup {i}) \ {i})
    BY <2>3, <2>6, OwnClosed DEF Holds
  <2>8. (C \cup {i}) \ {i} = C
    BY <2>5
  <2> QED
    BY <2>1, <2>4, <2>6, <2>7, <2>8 DEF Holds
<1>2. CASE t.obj[n].num # i
  BY <1>2 DEF LetGo
<1> QED
  BY <1>1, <1>2

\* The names of the standard numbers are different, and no other's.
LEMMA StdNames ==
  /\ \A i \in 0..4 : /\ Std[i + 1] \in Names /\ Std[i + 1] # "closed"
                     /\ Std[i + 1] \notin {"null"} \cup Control
  /\ \A i, j \in 0..4 : Std[i + 1] = Std[j + 1] => i = j
<1>1. /\ Std[0 + 1] = "stdin" /\ Std[1 + 1] = "stdout" /\ Std[2 + 1] = "stderr"
      /\ Std[3 + 1] = "fd_3" /\ Std[4 + 1] = "fd_4"
  BY DEF Std
<1>2. \A i \in 0..4 : i = 0 \/ i = 1 \/ i = 2 \/ i = 3 \/ i = 4
  OBVIOUS
<1> QED
  BY <1>1, <1>2 DEF Names, Control

\* register_open_fds before round r, in a process started with the numbers in
\* open and with number null open for /dev/null.
AtRound(t, open, null, r) ==
    /\ Plain(t) /\ Stderr(t.file)
    /\ Holds(t, {i \in open : i >= r})
    /\ \A i \in open : t.file[i] = Std[i + 1]
    /\ \A i \in 0..4 : t.file[i] # "closed" => i \in open \cup {null}
    /\ DOMAIN t.obj = {"null"} \cup Control \cup {Std[i + 1] : i \in {j \in open : j < r}}
    /\ t.obj["null"].num = null
    /\ \A i \in open : i < r => t.obj[Std[i + 1]].num = i

\* A round names the number it comes to, if that was open at the start.
LEMMA RoundHolds ==
  ASSUME NEW t, NEW open, 0..2 \subseteq open, open \subseteq 0..3, NEW null \in Num \ open,
         NEW i \in 0..4, AtRound(t, open, null, i)
  PROVE  AtRound(Registered(t, i), open, null, i + 1)
<1> DEFINE n == Std[i + 1]
<1>0. 0..4 \subseteq Num /\ i \in Int /\ t \in Tables /\ t.file \in [Num -> What]
  BY FdTableAssumption DEF Num, AtRound, Plain, Tables
<1>a. \A j \in open : /\ j >= i + 1 <=> j >= i /\ j # i
                      /\ j < i + 1 <=> j < i \/ j = i
  BY <1>0
<1>1. CASE i \in open
  <2> DEFINE u == fd_new_file(t, n, i, FALSE)
             fd == Fd(i, None, FALSE)
             C == {j \in open : j >= i}
  <2>1. t.file[i] = n /\ n # "closed" /\ i # t.obj["null"].num /\ n \in Names \ DOMAIN t.obj
    <3>1. t.file[i] = n /\ t.obj["null"].num = null
      BY <1>1 DEF AtRound
    <3>2. n \in Names /\ n # "closed" /\ n \notin {"null"} \cup Control
      BY StdNames
    <3>3. \A j \in open : j < i => Std[j + 1] # n
      BY StdNames
    <3>4. n \notin DOMAIN t.obj
      BY <3>2, <3>3 DEF AtRound
    <3> QED
      BY <1>1, <3>1, <3>2, <3>4
  <2>2. Registered(t, i) = u
    BY <2>1 DEF Registered
  <2>3. Plain(u) /\ u.file = t.file /\ DOMAIN u.obj = DOMAIN t.obj \cup {n}
    BY <1>0, <2>1, FreshFile DEF AtRound
  <2>4. fd \in FdRec /\ fd.num = i
    BY <1>0 DEF Fd, FdRec
  <2>5. u = Put(t, n, fd)
    BY DEF fd_new_file
  <2> HIDE DEF u, fd, n
  <2>6. u.obj[n] = fd /\ \A m \in DOMAIN t.obj : u.obj[m] = t.obj[m]
    BY <1>0, <2>1, <2>4, <2>5, PutFree
  <2>7. Holds(u, {j \in open : j >= i + 1})
    <3>1. Holds(t, C) /\ fd.num \in C /\ t.file[fd.num] \in {n, "null"}
      BY <1>1, <2>1, <2>4 DEF AtRound
    <3> HIDE DEF C
    <3>2. Holds(Put(t, n, fd), C \ {fd.num})
      BY <1>0, <2>1, <2>4, <3>1, PutHolds
    <3>3. C \ {i} = {j \in open : j >= i + 1}
      BY <1>a, Zenon DEF C
    <3> QED
      BY <2>4, <2>5, <3>2, <3>3
  <2>9. DOMAIN u.obj = {"null"} \cup Control \cup {Std[k + 1] : k \in {j \in open : j < i + 1}}
    <3>1. {j \in open : j < i + 1} = {j \in open : j < i} \cup {i}
      BY <1>1, <1>a, Zenon
    <3>2. DOMAIN t.obj = {"null"} \cup Control \cup {Std[k + 1] : k \in {j \in open : j < i}}
      BY DEF AtRound
    <3>3. {Std[k + 1] : k \in {j \in open : j < i} \cup {i}} =
             {Std[k + 1] : k \in {j \in open : j < i}} \cup {n}
      BY DEF n
    <3> QED
      BY <2>3, <3>1, <3>2, <3>3
  <2>10. \A j \in open : j < i + 1 => u.obj[Std[j + 1]].num = j
    <3> SUFFICES ASSUME NEW j \in open, j < i + 1 PROVE u.obj[Std[j + 1]].num = j
      OBVIOUS
    <3>1. CASE j = i
      BY <3>1, <2>4, <2>6 DEF n
    <3>2. CASE j < i
      BY <3>2, <2>6 DEF AtRound
    <3> QED
      BY <1>a, <3>1, <3>2
  <2>11. u.obj["null"].num = null
    BY <2>6 DEF AtRound
  <2> QED
    BY <2>2, <2>3, <2>7, <2>9, <2>10, <2>11 DEF AtRound
<1>2. CASE i \notin open
  <2>1. ~(i < 3) /\ (t.file[i] = "closed" \/ i = t.obj["null"].num)
    BY <1>2 DEF AtRound
  <2>2. Registered(t, i) = t
    BY <2>1 DEF Registered
  <2>3. /\ {j \in open : j >= i} = {j \in open : j >= i + 1}
        /\ {j \in open : j < i} = {j \in open : j < i + 1}
        /\ \A j \in open : j < i + 1 => j < i
    BY <1>2, <1>a, Zenon
  <2> QED
    BY <2>2, <2>3 DEF AtRound
<1> QED
  BY <1>1, <1>2

\* The numbers the controller of the process takes from the names.
Takes(mode) ==
    CASE mode = "interactive" -> 0..1
      [] mode = "config"      -> {0}
      [] mode = "socket"      -> {}

\* fd_init_special_handles gives /dev/null a number of its own.
LEMMA SpecialHolds ==
  ASSUME NEW t, Plain(t), Stderr(t.file), DOMAIN t.obj = {}, NEW open, open \subseteq 0..3,
         Holds(t, open), t.file = Inherited(open)
  PROVE  \E null \in Num \ open : AtRound(Special(t), open, null, 0)
<1> DEFINE null == Lowest(t.file)
           v == [t EXCEPT !.file = Opened(@, "null")]
           fd == Fd(null, None, TRUE)
           w == fd_new_file(v, "null", null, TRUE)
           o == [n \in DOMAIN w.obj \cup Control |->
                   IF n \in Control THEN Fd(-1, None, TRUE) ELSE w.obj[n]]
           u == Special(t)
<1>0. /\ 0..4 \subseteq Num /\ t.file \in [Num -> What] /\ "null" \in What
      /\ \A n \in Num : t.file[n] = IF n \in open THEN Std[n + 1] ELSE "closed"
  BY FdTableAssumption DEF Num, Plain, Tables, What, Names, Inherited
<1>1. /\ Plain(v) /\ v.obj = t.obj /\ v.file = Opened(t.file, "null")
  BY NullOpened
<1>2. /\ Holds(v, open \cup {null}) /\ null \in Num \ open /\ v.file[null] = "null"
      /\ \A n \in Num : n # null => v.file[n] = t.file[n]
  <2>1. 4 \in Unused(t.file)
    BY <1>0 DEF Unused
  <2>2. DOMAIN t.obj \subseteq Names /\ "null" # "closed"
    OBVIOUS
  <2>3. /\ Own(Opened(t.file, "null"), t.obj, open \cup {null}) /\ null \in Num \ open
        /\ Opened(t.file, "null")[null] = "null"
    BY <1>0, <2>1, <2>2, OwnOpened DEF Holds
  <2>4. \A n \in Num : n # null => Opened(t.file, "null")[n] = t.file[n]
    BY <1>0, <2>1 DEF Opened
  <2> HIDE DEF v
  <2> QED
    BY <1>1, <2>3, <2>4 DEF Holds
<1> HIDE DEF v, null
<1>3. null \in Int /\ fd \in FdRec /\ fd.num = null
  BY <1>2, FdTableAssumption DEF Num, Fd, FdRec
<1>4. "null" \in Names \ DOMAIN v.obj /\ v \in Tables
  BY <1>1 DEF Names, Plain
<1>5. w = Put(v, "null", fd)
  BY DEF fd_new_file
<1> HIDE DEF fd, w
<1>6. /\ w \in Tables /\ w.file = v.file /\ DOMAIN w.obj = {"null"} /\ w.obj["null"].num = null
  BY <1>1, <1>3, <1>4, <1>5, PutFree
<1>7. Holds(w, open)
  <2>1. Holds(w, (open \cup {null}) \ {fd.num})
    BY <1>2, <1>3, <1>4, <1>5, PutHolds
  <2>2. (open \cup {null}) \ {null} = open
    BY <1>2
  <2> QED
    BY <1>3, <2>1, <2>2
<1>8. u = [w EXCEPT !.obj = o]
  BY DEF Special, w, v, null
<1>9. Plain(u) /\ Stderr(u.file) /\ DOMAIN u.obj = {"null"} \cup Control
  BY SpecialPlain
<1>10. /\ DOMAIN o = DOMAIN w.obj \cup Control
       /\ \A n \in Control : o[n].num = -1
       /\ \A n \in DOMAIN w.obj : o[n] = w.obj[n]
  BY <1>6 DEF Fd, Control
<1> HIDE DEF o, u
<1>11. u.obj = o /\ u.file = w.file
  BY <1>6, <1>8 DEF Tables
<1>12. Own(w.file, o, open)
  <2>1. -1 \notin Num
    BY FdTableAssumption DEF Num
  <2>2. \A n \in DOMAIN o \ DOMAIN w.obj : o[n].num \notin Num
    BY <1>10, <2>1
  <2>3. w.file \in [Num -> What]
    BY <1>6 DEF Tables
  <2> QED
    BY <1>7, <1>10, <2>2, <2>3, OwnUnnumbered DEF Holds
<1>13. {i \in open : i >= 0} = open /\ {j \in open : j < 0} = {}
  <2>1. \A i \in open : i >= 0 /\ ~(i < 0)
    OBVIOUS
  <2> QED
    BY <2>1, Zenon
<1>14. \A i \in open : u.file[i] = Std[i + 1]
  BY <1>0, <1>2, <1>6, <1>11
<1>15. \A i \in 0..4 : u.file[i] # "closed" => i \in open \cup {null}
  BY <1>0, <1>2, <1>6, <1>11
<1>16. AtRound(u, open, null, 0)
  BY <1>6, <1>9, <1>10, <1>11, <1>12, <1>13, <1>14, <1>15 DEF AtRound, Holds
<1> QED
  BY <1>2, <1>16 DEF u

\* Once all are registered every number has a name, the standard ones theirs.
LEMMA RegisteredHolds ==
  ASSUME NEW t, NEW open, 0..2 \subseteq open, open \subseteq 0..3, NEW null \in Num \ open,
         AtRound(t, open, null, 0)
  PROVE  LET u == register_open_fds(t)
         IN  /\ Plain(u) /\ Stderr(u.file) /\ Holds(u, {})
             /\ {"stdin", "stdout", "stderr"} \subseteq DOMAIN u.obj
             /\ u.obj["stdin"].num = 0 /\ u.obj["stdout"].num = 1
<1> DEFINE a == Registered(t, 0)
           b == Registered(a, 1)
           c == Registered(b, 2)
           d == Registered(c, 3)
           e == Registered(d, 4)
<1>0. register_open_fds(t) = e
  BY DEF register_open_fds
<1>1. AtRound(a, open, null, 1)
  <2>1. 0 \in 0..4 /\ 0 + 1 = 1
    OBVIOUS
  <2> QED
    BY <2>1, RoundHolds
<1> HIDE DEF a
<1>2. AtRound(b, open, null, 2)
  <2>1. 1 \in 0..4 /\ 1 + 1 = 2
    OBVIOUS
  <2> QED
    BY <1>1, <2>1, RoundHolds
<1> HIDE DEF b
<1>3. AtRound(c, open, null, 3)
  <2>1. 2 \in 0..4 /\ 2 + 1 = 3
    OBVIOUS
  <2> QED
    BY <1>2, <2>1, RoundHolds
<1> HIDE DEF c
<1>4. AtRound(d, open, null, 4)
  <2>1. 3 \in 0..4 /\ 3 + 1 = 4
    OBVIOUS
  <2> QED
    BY <1>3, <2>1, RoundHolds
<1> HIDE DEF d
<1>5. AtRound(e, open, null, 5)
  <2>1. 4 \in 0..4 /\ 4 + 1 = 5
    OBVIOUS
  <2> QED
    BY <1>4, <2>1, RoundHolds
<1> HIDE DEF e
<1>6. {i \in open : i >= 5} = {}
  <2>1. \A i \in open : ~(i >= 5)
    OBVIOUS
  <2> QED
    BY <2>1, Zenon
<1>7. 0 \in {j \in open : j < 5} /\ 1 \in {j \in open : j < 5}
      /\ 2 \in {j \in open : j < 5}
  OBVIOUS
<1>8. Std[0 + 1] = "stdin" /\ Std[1 + 1] = "stdout" /\ Std[2 + 1] = "stderr"
  BY DEF Std
<1>9. {"stdin", "stdout", "stderr"} \subseteq {Std[i + 1] : i \in {j \in open : j < 5}}
  BY <1>7, <1>8
<1>10. e.obj[Std[0 + 1]].num = 0 /\ e.obj[Std[1 + 1]].num = 1
  BY <1>5, <1>7 DEF AtRound
<1> QED
  BY <1>0, <1>5, <1>6, <1>8, <1>9, <1>10 DEF AtRound

\* A controller that takes stdin and stdout takes their numbers.
LEMMA ClaimedHolds ==
  ASSUME NEW t, Plain(t), Stderr(t.file), Holds(t, {}),
         {"stdin", "stdout", "stderr"} \subseteq DOMAIN t.obj,
         t.obj["stdin"].num = 0, t.obj["stdout"].num = 1,
         NEW mode \in {"interactive", "config", "socket"}
  PROVE  LET u == Claimed(t, mode)
         IN  /\ Plain(u) /\ Stderr(u.file) /\ Holds(u, Takes(mode))
             /\ DOMAIN u.obj = DOMAIN t.obj
<1> DEFINE u == fd_to_dev_null(t, "stdin")
           v == fd_to_dev_null(u, "stdout")
<1>0. 0 \in Num /\ 1 \in Num
  BY FdTableAssumption DEF Num
<1>1. Plain(u) /\ Stderr(u.file) /\ DOMAIN u.obj = DOMAIN t.obj
  BY ToNullPlain
<1>2. Holds(u, {} \cup {0}) /\ u.obj["stdout"] = t.obj["stdout"]
  BY <1>0, ToNullHolds
<1> HIDE DEF u
<1>3. Plain(v) /\ Stderr(v.file) /\ DOMAIN v.obj = DOMAIN t.obj
  BY <1>1, ToNullPlain
<1>4. Holds(v, ({} \cup {0}) \cup {1})
  BY <1>0, <1>1, <1>2, ToNullHolds
<1> HIDE DEF v
<1>5. ({} \cup {0}) \cup {1} = 0..1 /\ {} \cup {0} = {0}
  OBVIOUS
<1>6. CASE mode = "interactive"
  BY <1>3, <1>4, <1>5, <1>6 DEF Claimed, Takes, u, v
<1>7. CASE mode = "config"
  BY <1>1, <1>2, <1>5, <1>7 DEF Claimed, Takes, u
<1>8. CASE mode = "socket"
  BY <1>8 DEF Claimed, Takes
<1> QED
  BY <1>6, <1>7, <1>8

\* A process started with its standard descriptors open begins with one holder
\* for every open number.
LEMMA StartedHolds ==
  ASSUME NEW s \in Starts, 0..2 \subseteq s.open
  PROVE  Holds(Started(s), Takes(s.mode))
<1> DEFINE t0 == [file |-> Inherited(s.open), obj |-> <<>>,
                  log |-> [fd |-> 2, name |-> None]]
           t1 == Special(t0)
           t2 == register_open_fds(t1)
           t3 == Claimed(t2, s.mode)
<1>1. s.mode \in {"interactive", "config", "socket"} /\ s.open \subseteq 0..3
  BY FdTableAssumption
<1>2. Plain(t0) /\ Stderr(t0.file) /\ DOMAIN t0.obj = {} /\ t0.file = Inherited(s.open)
  BY <1>1, FirstPlain
<1>3. Holds(t0, s.open)
  <2>1. 0..3 \subseteq Num /\ \A n \in 0..3 : Std[n + 1] # "closed"
    BY FdTableAssumption, StdNames DEF Num
  <2> HIDE DEF t0
  <2>2. \A n \in Num : t0.file[n] # "closed" <=> n \in s.open
    BY <1>1, <1>2, <2>1 DEF Inherited
  <2> QED
    BY <1>1, <1>2, <2>1, <2>2 DEF Holds, Own
<1>4. Started(s) = IF Daemonized(s) THEN daemonize(t3) ELSE t3
  BY DEF Started
<1> HIDE DEF t0
<1>5. PICK null \in Num \ s.open : AtRound(t1, s.open, null, 0)
  BY <1>1, <1>2, <1>3, SpecialHolds
<1> HIDE DEF t1
<1>6. /\ Plain(t2) /\ Stderr(t2.file) /\ Holds(t2, {})
      /\ {"stdin", "stdout", "stderr"} \subseteq DOMAIN t2.obj
      /\ t2.obj["stdin"].num = 0 /\ t2.obj["stdout"].num = 1
  BY <1>1, <1>5, RegisteredHolds
<1> HIDE DEF t2
<1>7. /\ Plain(t3) /\ Stderr(t3.file) /\ Holds(t3, Takes(s.mode))
      /\ DOMAIN t3.obj = DOMAIN t2.obj
  BY <1>1, <1>6, ClaimedHolds
<1> HIDE DEF t3
<1>8. CASE Daemonized(s)
  <2> DEFINE a == LetGo(t3, 0)
             b == LetGo(a, 1)
             c == LetGo(b, 2)
             C == Takes(s.mode)
  <2> HIDE DEF C
  <2>0. \A i \in 0..2 : Std[i + 1] \in DOMAIN t3.obj
    <3>1. Std[0 + 1] = "stdin" /\ Std[1 + 1] = "stdout" /\ Std[2 + 1] = "stderr"
      BY DEF Std
    <3>2. \A i \in 0..2 : i = 0 \/ i = 1 \/ i = 2
      OBVIOUS
    <3> QED
      BY <1>6, <1>7, <3>1, <3>2
  <2>1. Plain(a) /\ Stderr(a.file) /\ Holds(a, C) /\ DOMAIN a.obj = DOMAIN t3.obj
    BY <1>7, <2>0, LetGoPlain, LetGoHolds DEF C
  <2> HIDE DEF a
  <2>2. Plain(b) /\ Stderr(b.file) /\ Holds(b, C) /\ DOMAIN b.obj = DOMAIN t3.obj
    BY <2>0, <2>1, LetGoPlain, LetGoHolds
  <2> HIDE DEF b
  <2>3. Holds(c, C)
    BY <2>0, <2>2, LetGoHolds
  <2>4. Started(s) = c
    BY <1>4, <1>8 DEF daemonize, a, b
  <2> HIDE DEF c
  <2> QED
    BY <2>3, <2>4 DEF C
<1>9. CASE ~Daemonized(s)
  BY <1>4, <1>7, <1>9
<1> QED
  BY <1>8, <1>9

-----------------------------------------------------------------------------
(* The commands.                                                          *)

\* The inductive invariant.
FdInv == Good(Table, startup)

\* Being good depends on the three fields only.
LEMMA GoodFields ==
  ASSUME NEW t, NEW s, NEW u, u = [file |-> t.file, obj |-> t.obj, log |-> t.log]
  PROVE  Good(t, s) => Good(u, s)
<1>1. u.file = t.file /\ u.obj = t.obj /\ u.log = t.log
  OBVIOUS
<1>2. t \in Tables => u \in Tables
  BY DEF Tables
<1> QED
  BY <1>1, <1>2 DEF Good, LogRight

\* A command that ends with a good table preserves the invariant.
LEMMA BecomesGood ==
  ASSUME NEW t, Good(t, startup), Becomes(t)
  PROVE  FdInv'
<1>1. Table' = [file |-> t.file, obj |-> t.obj, log |-> t.log]
  BY DEF Becomes, Table
<1>2. startup' = startup
  BY DEF Becomes
<1>3. Good(Table', startup)
  BY <1>1, GoodFields
<1> QED
  BY <1>2, <1>3 DEF FdInv

\* A newly opened number does not touch the one the log has.
LEMMA OpenedGood ==
  ASSUME NEW t, NEW s, Good(t, s), NEW w \in Names
  PROVE  Good([t EXCEPT !.file = Opened(t.file, w)], s)
<1> DEFINE f == Opened(t.file, w)
           u == [t EXCEPT !.file = f]
<1>1. t \in Tables /\ t.file \in [Num -> What] /\ w \in What /\ 2 \in Num
  BY FdTableAssumption DEF Good, Tables, What, Num
<1>2. /\ f \in [Num -> What]
      /\ \A n \in Num : t.file[n] # "closed" => f[n] = t.file[n]
  BY <1>1, OpenedKeeps
<1> HIDE DEF f
<1>3. u \in Tables /\ u.file = f /\ u.obj = t.obj /\ u.log = t.log
  BY <1>1, <1>2 DEF Tables
<1> HIDE DEF u
<1>4. LogRight(u, s)
  BY <1>1, <1>2, <1>3 DEF Good, LogRight
<1>5. Good(u, s)
  BY <1>3, <1>4 DEF Good
<1> QED
  BY <1>5 DEF u, f

\* fd.pipe
LEMMA PipeStep ==
  ASSUME FdInv, NEW n1 \in FdName, NEW n2 \in FdName, n1 # n2, ctl_cmd_fd_pipe(n1, n2)
  PROVE  FdInv'
<1> DEFINE f1 == Opened(file, n1)
           t1 == [Table EXCEPT !.file = f1]
           t2 == [Table EXCEPT !.file = Opened(f1, n2)]
           u == fd_new_pipe(t2, n1, Lowest(file), n2, Lowest(f1))
<1>1. n1 \in Names /\ n2 \in Names
  BY DEF Names
<1>2. Good(t1, startup)
  <2>1. t1 = [Table EXCEPT !.file = Opened(Table.file, n1)]
    BY DEF Table
  <2> QED
    BY <1>1, <2>1, OpenedGood DEF FdInv
<1>3. Good(t2, startup)
  <2>1. t2 = [t1 EXCEPT !.file = Opened(t1.file, n2)]
    BY DEF Table
  <2> HIDE DEF t1, t2
  <2> QED
    BY <1>1, <1>2, <2>1, OpenedGood
<1>4. Becomes(u)
  BY DEF ctl_cmd_fd_pipe
<1> HIDE DEF t2, f1
<1>5. Good(u, startup)
  BY <1>1, <1>3, LowestTyped, NewPipeGood
<1> HIDE DEF u
<1> QED
  BY <1>4, <1>5, BecomesGood

\* fd.open and fd.socket
LEMMA OpenStep ==
  ASSUME FdInv, NEW n \in FdName,
         ctl_cmd_fd_open(n) \/ \E ready \in BOOLEAN : ctl_cmd_fd_socket(n, ready)
  PROVE  FdInv'
<1> DEFINE t == [Table EXCEPT !.file = Opened(Table.file, n)]
           u == fd_new_file(t, n, Lowest(file), FALSE)
           v == [t EXCEPT !.file = Closed(t.file, Lowest(file))]
<1>1. n \in Names /\ Lowest(file) \in Int
  BY LowestTyped DEF Names
<1>2. Good(t, startup)
  BY <1>1, OpenedGood DEF FdInv
<1>3. Good(u, startup)
  <2> HIDE DEF t
  <2> QED
    BY <1>1, <1>2, NewFileGood
<1>4. Good(v, startup)
  <2>1. file \in [Num -> What] /\ n \in What /\ Unused(file) # {}
    BY <1>1 DEF FdInv, Good, Tables, Table, What, ctl_cmd_fd_open, ctl_cmd_fd_socket
  <2>2. Closed(Opened(file, n), Lowest(file)) = file
    BY <2>1, OpenedThenClosed
  <2>3. v.file = file /\ v.obj = obj /\ v.log = log /\ v \in Tables
    <3>1. Table \in Tables
      BY DEF FdInv, Good
    <3>2. t.file = Opened(file, n)
      BY DEF Table
    <3> QED
      BY <2>1, <2>2, <3>1, <3>2 DEF Table, Tables
  <2>4. Table.file = file /\ Table.obj = obj /\ Table.log = log
    BY DEF Table
  <2> HIDE DEF v
  <2> QED
    BY <2>3, <2>4 DEF FdInv, Good, LogRight
<1>5. Becomes(u) \/ Becomes(v)
  BY DEF ctl_cmd_fd_open, ctl_cmd_fd_socket
<1> HIDE DEF u, v
<1> QED
  BY <1>3, <1>4, <1>5, BecomesGood

\* log.dest: the name, and at once its number if it exists.
LEMMA DestStep ==
  ASSUME FdInv, NEW n \in FdName, ctl_cmd_log_dest(n)
  PROVE  FdInv'
<1> DEFINE l == [name |-> n, fd |-> IF n \in DOMAIN obj THEN obj[n].num ELSE -1]
           t == [Table EXCEPT !.log = l]
<1>1. Table \in Tables /\ Mutual(obj) /\ n \in Names /\ n # None
  BY NoneIsNoName DEF FdInv, Good, Table, Names
<1>2. \A k \in DOMAIN obj : obj[k].num \in Int
  BY <1>1, ObjFn DEF Tables, Table, FdRec
<1>3. l \in LogRec /\ l.name = n
      /\ (l.fd >= 0 => n \in DOMAIN obj /\ obj[n].num = l.fd)
  BY <1>1, <1>2 DEF LogRec
<1>4. Becomes(t)
  BY DEF ctl_cmd_log_dest
<1> HIDE DEF l
<1>5. t \in Tables /\ t.log = l /\ t.obj = obj
  BY <1>1, <1>3 DEF Tables, Table
<1> HIDE DEF t
<1>6. Good(t, startup)
  BY <1>1, <1>3, <1>5 DEF Good, LogRight
<1> QED
  BY <1>4, <1>6, BecomesGood

\* log_run attaches the log to its name again.
LEMMA AttachStep ==
  ASSUME FdInv, log_run
  PROVE  FdInv'
<1> DEFINE t == [Table EXCEPT !.log.fd = obj[log.name].num]
<1>1. Table \in Tables /\ Mutual(obj) /\ log \in LogRec
  BY DEF FdInv, Good, Table, Tables
<1>2. log.name \in DOMAIN obj /\ obj[log.name].num \in Int /\ log.name # None
  <2>1. log.name \in DOMAIN obj
    BY DEF log_run
  <2>2. DOMAIN obj \subseteq Names /\ obj \in [DOMAIN obj -> FdRec]
    BY <1>1, ObjFn DEF Tables, Table
  <2> QED
    BY <2>1, <2>2, NoneIsNoName DEF FdRec
<1>3. Becomes(t)
  BY DEF log_run
<1>4. /\ t \in Tables /\ t.obj = obj
      /\ t.log.name = log.name /\ t.log.fd = obj[log.name].num
  BY <1>1, <1>2 DEF Tables, Table, LogRec
<1> HIDE DEF t
<1>5. Good(t, startup)
  BY <1>1, <1>2, <1>4 DEF Good, LogRight
<1> QED
  BY <1>3, <1>5, BecomesGood

\* Every step of the descriptor table preserves the invariant.
LEMMA StepGood ==
  ASSUME FdInv, [FdNext]_fdVars
  PROVE  FdInv'
<1>1. CASE UNCHANGED fdVars
  BY <1>1 DEF FdInv, fdVars, Table
<1>2. ASSUME NEW n1 \in FdName, NEW n2 \in FdName, n1 # n2, ctl_cmd_fd_pipe(n1, n2)
      PROVE  FdInv'
  BY <1>2, PipeStep
<1>3. ASSUME NEW n \in FdName,
             ctl_cmd_fd_open(n) \/ \E ready \in BOOLEAN : ctl_cmd_fd_socket(n, ready)
      PROVE  FdInv'
  BY <1>3, OpenStep
<1>4. ASSUME NEW n \in FdName, ctl_cmd_fd_delete(n) PROVE FdInv'
  <2>1. n \in DOMAIN Table.obj /\ Becomes(fd_delete(Table, n))
    BY <1>4 DEF ctl_cmd_fd_delete, Table
  <2>2. Good(fd_delete(Table, n), startup)
    BY <2>1, DeleteGood DEF FdInv
  <2> QED
    BY <2>1, <2>2, BecomesGood
<1>5. ASSUME NEW n \in FdName, ctl_cmd_log_dest(n) PROVE FdInv'
  BY <1>5, DestStep
<1>6. CASE log_run
  BY <1>6, AttachStep
<1> QED
  BY <1>1, <1>2, <1>3, <1>4, <1>5, <1>6 DEF FdNext

\* The invariant holds when the main loop begins.
LEMMA InitGood ==
  ASSUME FdInit
  PROVE  FdInv
<1>1. startup \in Starts /\ Good(Started(startup), startup)
  BY StartedGood DEF FdInit
<1>2. Table = [file |-> Started(startup).file, obj |-> Started(startup).obj,
               log |-> Started(startup).log]
  BY DEF FdInit, Table
<1> QED
  BY <1>1, <1>2, GoodFields DEF FdInv

\* The invariant contains both properties.
LEMMA InvImplies ==
  ASSUME FdInv
  PROVE  PeersMutual /\ LogFollowsName
<1>1. Table.file = file /\ Table.obj = obj /\ Table.log = log
  BY DEF Table
<1> QED
  BY <1>1 DEF FdInv, Good, Mutual, LogRight, PeersMutual, LogFollowsName

\* A command ends with the table it has made.
LEMMA BecomesHolds ==
  ASSUME NEW t \in Tables, NEW C, Holds(t, C), Becomes(t)
  PROVE  (Table \in Tables)' /\ Holds(Table, C)'
<1>1. file' = t.file /\ obj' = t.obj /\ log' = t.log
  BY DEF Becomes
<1>2. Table' = [file |-> t.file, obj |-> t.obj, log |-> t.log]
  BY <1>1 DEF Table
<1> QED
  BY <1>2 DEF Tables, Holds

\* fd.pipe gives both numbers to the names, whatever the names had before.
LEMMA PipeHolds ==
  ASSUME Table \in Tables, NEW C, Holds(Table, C),
         NEW n1 \in FdName, NEW n2 \in FdName, n1 # n2, ctl_cmd_fd_pipe(n1, n2)
  PROVE  Holds(Table, C)'
<1> DEFINE f1 == Opened(file, n1)
           f2 == Opened(f1, n2)
           t1 == [Table EXCEPT !.file = f1]
           t2 == [Table EXCEPT !.file = f2]
           num1 == Lowest(file)
           num2 == Lowest(f1)
           u == fd_new_pipe(t2, n1, num1, n2, num2)
<1>1. /\ n1 \in Names /\ n2 \in Names /\ n1 \in What /\ n2 \in What
      /\ n1 # "closed" /\ n2 # "closed"
  BY ClosedIsNoName DEF Names, What
<1>2. /\ file \in [Num -> What] /\ DOMAIN obj \subseteq Names /\ Own(file, obj, C)
      /\ Table.file = file
  BY ObjFn DEF Tables, Table, Holds
<1>3. Unused(file) # {} /\ Unused(f1) # {}
  <2>1. Cardinality(Unused(file)) >= 2
    BY DEF ctl_cmd_fd_pipe
  <2>2. Unused(file) # {}
    BY <2>1, FS_EmptySet
  <2>3. num1 \in Unused(file)
    BY <2>2, LowestFree
  <2>4. Unused(f1) = Unused(file) \ {num1}
    BY <1>1, <1>2, <2>2, <2>3 DEF Opened, Unused
  <2>5. Unused(file) # {num1}
    BY <2>1, FS_Singleton
  <2> QED
    BY <2>2, <2>3, <2>4, <2>5
<1>4. /\ Own(f1, obj, C \cup {num1}) /\ num1 \in Num \ C /\ f1[num1] = n1
      /\ f1 \in [Num -> What]
  <2>1. Own(f1, obj, C \cup {num1}) /\ num1 \in Num \ C /\ f1[num1] = n1
    BY <1>1, <1>2, <1>3, OwnOpened
  <2>2. f1 \in [Num -> What]
    BY <1>1, <1>2, OpenedKeeps
  <2> QED
    BY <2>1, <2>2
<1> HIDE DEF f1, num1
<1>5. /\ Own(f2, obj, (C \cup {num1}) \cup {num2}) /\ num2 \in Num \ (C \cup {num1})
      /\ f2[num2] = n2 /\ f2[num1] = n1
  <2>1. /\ Own(f2, obj, (C \cup {num1}) \cup {num2}) /\ num2 \in Num \ (C \cup {num1})
        /\ f2[num2] = n2
    BY <1>1, <1>2, <1>3, <1>4, OwnOpened
  <2>2. f2[num1] = n1
    BY <1>1, <1>4, OpenedKeeps
  <2> QED
    BY <2>1, <2>2
<1>6. t2 \in Tables
  <2>1. f2 \in [Num -> What]
    BY <1>1, <1>4, OpenedKeeps
  <2> HIDE DEF f2
  <2> QED
    BY <2>1 DEF Tables
<1>7. Becomes(u)
  BY DEF ctl_cmd_fd_pipe, f1, num1
<1> HIDE DEF f2, num2
<1>8. t2.file = f2 /\ t2.obj = obj
  BY DEF Table
<1> HIDE DEF t2
<1>9. Holds(u, ((C \cup {num1}) \cup {num2}) \ {num1, num2})
  <2>1. Holds(t2, (C \cup {num1}) \cup {num2})
    BY <1>5, <1>8 DEF Holds
  <2>2. num1 # num2 /\ t2.file[num1] = n1 /\ t2.file[num2] = n2
    BY <1>4, <1>5, <1>8
  <2> QED
    BY <1>1, <1>6, <2>1, <2>2, NewPipeHolds
<1>10. ((C \cup {num1}) \cup {num2}) \ {num1, num2} = C
  BY <1>4, <1>5
<1> HIDE DEF u
<1> QED
  BY <1>7, <1>9, <1>10 DEF Becomes, Holds, Table

\* fd.open and fd.socket give the number to the name, or close it again.
LEMMA OpenHolds ==
  ASSUME Table \in Tables, NEW C, Holds(Table, C), NEW n \in FdName,
         ctl_cmd_fd_open(n) \/ \E ready \in BOOLEAN : ctl_cmd_fd_socket(n, ready)
  PROVE  /\ (Table \in Tables)' /\ Holds(Table, C)'
         /\ \A m \in C : file'[m] = file[m]
<1> DEFINE f == Opened(file, n)
           num == Lowest(file)
           t == [Table EXCEPT !.file = f]
           u == fd_new_file(t, n, num, FALSE)
           v == [t EXCEPT !.file = Closed(f, num)]
<1>1. n \in Names /\ n \in What /\ n # "closed"
  BY ClosedIsNoName DEF Names, What
<1>2. /\ file \in [Num -> What] /\ DOMAIN obj \subseteq Names /\ Own(file, obj, C)
      /\ Table.file = file /\ Unused(file) # {}
  BY ObjFn DEF Tables, Table, Holds, ctl_cmd_fd_open, ctl_cmd_fd_socket
<1>3. Own(f, obj, C \cup {num}) /\ num \in Num \ C /\ f[num] = n
  BY <1>1, <1>2, OwnOpened
<1>4. f \in [Num -> What]
  BY <1>1, <1>2, OpenedKeeps
<1>5. Becomes(u) \/ Becomes(v)
  BY DEF ctl_cmd_fd_open, ctl_cmd_fd_socket, Table
<1>6. Closed(f, num) = file
  BY <1>1, <1>2, OpenedThenClosed
<1> HIDE DEF f, num
<1>7. /\ t \in Tables /\ t.file = f /\ t.obj = obj
      /\ v \in Tables /\ v.file = file /\ v.obj = obj
  BY <1>2, <1>4, <1>6 DEF Table, Tables
<1> HIDE DEF t, v
<1>8. /\ u \in Tables /\ Holds(u, (C \cup {num}) \ {num})
      /\ \A m \in C \cup {num} : u.file[m] = f[m]
  <2> DEFINE D == C \cup {num}
  <2>1. Holds(t, D) /\ num \in D /\ t.file[num] \in {n, "null"}
    BY <1>3, <1>7 DEF Holds
  <2> HIDE DEF D
  <2> DEFINE const == FALSE
  <2>2. u = fd_new_file(t, n, num, const) /\ const \in BOOLEAN
    OBVIOUS
  <2> HIDE DEF u, const
  <2>3. u \in Tables /\ Holds(u, D \ {num}) /\ \A m \in D : u.file[m] = t.file[m]
    BY <1>1, <1>7, <2>1, <2>2, NewFileHolds
  <2> QED
    BY <1>7, <2>3 DEF D
<1>9. (C \cup {num}) \ {num} = C
  BY <1>3
<1> HIDE DEF u
<1>10. Holds(u, C) /\ Holds(v, C)
  BY <1>2, <1>7, <1>8, <1>9 DEF Holds
<1>11. \A m \in C : u.file[m] = file[m] /\ v.file[m] = file[m]
  <2>1. \A m \in C : m \in Num /\ file[m] # "closed"
    BY <1>2 DEF Own
  <2>2. \A m \in Num : file[m] # "closed" => f[m] = file[m]
    BY <1>1, <1>2, OpenedKeeps DEF f
  <2> QED
    BY <1>7, <1>8, <2>1, <2>2
<1> QED
  BY <1>5, <1>7, <1>8, <1>10, <1>11, BecomesHolds DEF Becomes

\* No command changes which numbers are held by somebody else.
LEMMA StepHolds ==
  ASSUME Table \in Tables, NEW C, Holds(Table, C), [FdNext]_fdVars
  PROVE  Holds(Table, C)'
<1>0. Table.file = file /\ Table.obj = obj
  BY DEF Table
<1>1. CASE UNCHANGED fdVars
  BY <1>1 DEF Holds, fdVars, Table
<1>2. ASSUME NEW n1 \in FdName, NEW n2 \in FdName, n1 # n2, ctl_cmd_fd_pipe(n1, n2)
      PROVE  Holds(Table, C)'
  BY <1>2, PipeHolds
<1>3. ASSUME NEW n \in FdName,
             ctl_cmd_fd_open(n) \/ \E ready \in BOOLEAN : ctl_cmd_fd_socket(n, ready)
      PROVE  Holds(Table, C)'
  BY <1>3, OpenHolds
<1>4. ASSUME NEW n \in FdName, ctl_cmd_fd_delete(n) PROVE Holds(Table, C)'
  <2>1. n \in DOMAIN Table.obj /\ Becomes(fd_delete(Table, n))
    BY <1>4 DEF ctl_cmd_fd_delete, Table
  <2>2. Holds(fd_delete(Table, n), C)
    BY <2>1, DeleteHolds
  <2> QED
    BY <2>1, <2>2 DEF Becomes, Holds, Table
<1>5. ASSUME NEW n \in FdName, ctl_cmd_log_dest(n) PROVE Holds(Table, C)'
  <2>1. file' = file /\ obj' = obj
    BY <1>5 DEF ctl_cmd_log_dest, Becomes, Table
  <2> QED
    BY <2>1 DEF Holds, Table
<1>6. CASE log_run
  <2>1. file' = file /\ obj' = obj
    BY <1>6 DEF log_run, Becomes, Table
  <2> QED
    BY <2>1 DEF Holds, Table
<1> QED
  BY <1>1, <1>2, <1>3, <1>4, <1>5, <1>6 DEF FdNext

\* One holder for every open number: the invariant, and what it says in the
\* words of the property.
HoldInv == 0..2 \subseteq startup.open => Holds(Table, ClaimedNumbers)

LEMMA HoldInvImplies ==
  ASSUME HoldInv, FdInv
  PROVE  NumbersOwnedOnce
<1> SUFFICES ASSUME 0..2 \subseteq startup.open, NEW n \in Num
             PROVE  LET names == {k \in DOMAIN obj : obj[k].num = n}
                    IN  /\ Cardinality(names) + (IF n \in ClaimedNumbers THEN 1 ELSE 0) =
                              (IF file[n] = "closed" THEN 0 ELSE 1)
                        /\ \A k \in names : file[n] \in {k, "null"}
  BY DEF NumbersOwnedOnce
<1> DEFINE names == {k \in DOMAIN obj : obj[k].num = n}
           C == ClaimedNumbers
<1> HIDE DEF C
<1>1. Own(file, obj, C) /\ DOMAIN obj \subseteq Names
  BY ObjFn DEF HoldInv, Holds, Table, C, FdInv, Good, Tables
<1>2. \A k \in names : file[n] \in {k, "null"} /\ n \notin C
  BY <1>1 DEF Own
<1>3. CASE file[n] = "closed"
  <2>1. names = {} /\ n \notin C
    BY <1>1, <1>2, <1>3, ClosedIsNoName DEF Own
  <2> QED
    BY <1>2, <1>3, <2>1, FS_EmptySet DEF C
<1>4. CASE file[n] # "closed" /\ n \in C
  <2>1. names = {}
    BY <1>2, <1>4
  <2> QED
    BY <1>2, <1>4, <2>1, FS_EmptySet DEF C
<1>5. CASE file[n] # "closed" /\ n \notin C
  <2>1. PICK k \in DOMAIN obj : obj[k].num = n
    BY <1>1, <1>5 DEF Own
  <2>2. names = {k}
    BY <1>1, <2>1 DEF Own
  <2>3. Cardinality(names) = 1
    BY <2>2, FS_Singleton
  <2> HIDE DEF names
  <2> QED
    BY <1>2, <1>5, <2>3 DEF C, names
<1> QED
  BY <1>3, <1>4, <1>5

\* fd.pipe, fd.open, fd.socket and fd.delete, in any order and over any names,
\* leave every pipe end with a peer that exists and names it, or with none.
THEOREM PipeEndsMutual == FdSpec => []PeersMutual
<1>1. FdInit => FdInv
  BY InitGood
<1>2. FdInv /\ [FdNext]_fdVars => FdInv'
  BY StepGood
<1>3. FdInv => PeersMutual
  BY InvImplies
<1> QED
  BY <1>1, <1>2, <1>3, PTL DEF FdSpec

\* Whatever is deleted, replaced or opened, a log that has a number has that
\* of the descriptor log.dest named, or number 2 as it was at the start.
THEOREM LogNumberRight == FdSpec => []LogFollowsName
<1>1. FdInit => FdInv
  BY InitGood
<1>2. FdInv /\ [FdNext]_fdVars => FdInv'
  BY StepGood
<1>3. FdInv => LogFollowsName
  BY InvImplies
<1> QED
  BY <1>1, <1>2, <1>3, PTL DEF FdSpec

\* In a process started with its standard descriptors open, whatever commands
\* open, replace, delete and fail to make: an open number has one holder, a
\* name or the controller that claimed it, and none is closed under a holder
\* or left open without one.
THEOREM EveryNumberOwned == FdSpec => []NumbersOwnedOnce
<1>1. FdInit => FdInv /\ HoldInv
  <2> SUFFICES ASSUME FdInit PROVE FdInv /\ HoldInv
    OBVIOUS
  <2>1. startup \in Starts /\ Table.file = Started(startup).file
        /\ Table.obj = Started(startup).obj
    BY DEF FdInit, Table
  <2>2. ClaimedNumbers = Takes(startup.mode)
    BY DEF ClaimedNumbers, Takes
  <2>3. 0..2 \subseteq startup.open => Holds(Started(startup), Takes(startup.mode))
    BY <2>1, StartedHolds
  <2> QED
    BY <2>1, <2>2, <2>3, InitGood DEF HoldInv, Holds
<1>2. FdInv /\ HoldInv /\ [FdNext]_fdVars => (FdInv /\ HoldInv)'
  <2> SUFFICES ASSUME FdInv, HoldInv, [FdNext]_fdVars PROVE FdInv' /\ HoldInv'
    OBVIOUS
  <2>1. startup' = startup
    BY DEF FdNext, fdVars, Becomes, ctl_cmd_fd_pipe, ctl_cmd_fd_open, ctl_cmd_fd_socket,
           ctl_cmd_fd_delete, ctl_cmd_log_dest, log_run
  <2>2. PICK C : C = ClaimedNumbers
    OBVIOUS
  <2>3. ClaimedNumbers' = C
    BY <2>1, <2>2 DEF ClaimedNumbers
  <2>4. ASSUME 0..2 \subseteq startup.open PROVE Holds(Table, C)'
    <3>1. Holds(Table, C)
      BY <2>2, <2>4 DEF HoldInv
    <3> QED
      BY <3>1, StepHolds DEF FdInv, Good
  <2>5. HoldInv'
    BY <2>1, <2>3, <2>4 DEF HoldInv
  <2> QED
    BY <2>5, StepGood
<1>3. FdInv /\ HoldInv => NumbersOwnedOnce
  BY HoldInvImplies
<1> QED
  BY <1>1, <1>2, <1>3, PTL DEF FdSpec
=============================================================================
