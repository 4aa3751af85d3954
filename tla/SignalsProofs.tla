--------------------------- MODULE SignalsProofs ---------------------------
(***************************************************************************)
(* Proofs, for every set of signals and every number of slots it fits in,  *)
(* for every depth of handlers and whatever times they read: the types, how*)
(* a signal can be lost, and how far the tables implement SignalSet.       *)
(***************************************************************************)
EXTENDS Signals, DataInduction, SequenceTheorems, FiniteSetTheorems

USE SignalsAssumption DEF Slot

-----------------------------------------------------------------------------
(***************************************************************************)
(* record_signal: the slot its loop finds.                                 *)
(***************************************************************************)
Table == [Slot -> Status]

\* The loop stops: it finds a slot whatever the table holds.
LEMMA SlotFound ==
  ASSUME NEW t, NEW g
  PROVE  /\ FindSlot(t, g) \in Slot
         /\ FindSlot(t, g) = SLOTS \/ t[FindSlot(t, g)].signum \in {g, NoSig}
         /\ \A j \in 1 .. FindSlot(t, g) - 1 : t[j].signum \notin {g, NoSig}
<1> DEFINE S == {i \in Slot : i = SLOTS \/ t[i].signum \in {g, NoSig}}
           P(i) == /\ i = SLOTS \/ t[i].signum \in {g, NoSig}
                   /\ \A j \in 1 .. i - 1 : t[j].signum \notin {g, NoSig}
<1>1. S \subseteq Nat /\ SLOTS \in S
  OBVIOUS
<1>2. PICK x \in S : \A y \in S : x <= y
  BY <1>1, LeastNumber
<1>3. \A j \in 1 .. x - 1 : t[j].signum \notin {g, NoSig}
  <2> SUFFICES ASSUME NEW j \in 1 .. x - 1, t[j].signum \in {g, NoSig}
               PROVE  FALSE
    OBVIOUS
  <2>1. j \in S /\ j < x
    BY <1>2
  <2> QED
    BY <1>2, <2>1
<1>4. x \in Slot /\ P(x)
  BY <1>3
<1>5. FindSlot(t, g) = CHOOSE i \in Slot : P(i)
  BY DEF FindSlot
<1>6. FindSlot(t, g) \in Slot /\ P(FindSlot(t, g))
  <2> HIDE DEF P
  <2> QED
    BY <1>4, <1>5
<1> QED
  BY <1>6

Used(t) == {i \in Slot : t[i].signum # NoSig}

\* What record_signal keeps of a table: a signal has one slot, and the used
\* slots come first.
Tidy(t) ==
  /\ t \in Table
  /\ \A i, j \in Used(t) : t[i].signum = t[j].signum => i = j
  /\ \A i, j \in Slot : i < j /\ t[i].signum = NoSig => t[j].signum = NoSig

LEMMA StatusFields ==
  ASSUME NEW e \in Status
  PROVE  /\ e = [signum |-> e.signum, last_received_ts |-> e.last_received_ts,
                 number_pending |-> e.number_pending]
         /\ e.signum \in Sig \cup {NoSig}
         /\ e.last_received_ts \in Nat
         /\ e.number_pending \in Nat
         /\ e.number_pending # 0 => e.signum \in Sig
  BY DEF Status

LEMMA StatusBuilt ==
  ASSUME NEW g \in Sig, NEW ts \in Nat, NEW n \in Nat
  PROVE  [signum |-> g, last_received_ts |-> ts, number_pending |-> n] \in Status
  BY DEF Status

LEMMA FreeStatus == Free \in Status /\ Free.signum = NoSig /\ Free.number_pending = 0
  BY DEF Status, Free

\* There are as many slots as signals, so a tidy table has a slot that is free
\* or the signal's own, and the loop does not overwrite another signal's.
LEMMA RightSlot ==
  ASSUME NEW t, Tidy(t), NEW g \in Sig
  PROVE  /\ t[FindSlot(t, g)].signum \in {g, NoSig}
         /\ \A i \in Slot : t[i].signum = g => FindSlot(t, g) = i
         /\ \A j \in 1 .. FindSlot(t, g) - 1 : t[j].signum \in Sig \ {g}
<1> DEFINE k == FindSlot(t, g)
<1>1. /\ k \in Slot
      /\ k = SLOTS \/ t[k].signum \in {g, NoSig}
      /\ \A j \in 1 .. k - 1 : t[j].signum \notin {g, NoSig}
  BY SlotFound
<1> HIDE DEF k
<1>2. \A i \in Slot : t[i].signum \in Sig \cup {NoSig}
  BY StatusFields DEF Tidy, Table
<1>3. \A j \in 1 .. k - 1 : j \in Slot /\ t[j].signum \in Sig \ {g}
  BY <1>1, <1>2
<1>4. t[k].signum \in {g, NoSig}
  <2> SUFFICES ASSUME t[k].signum \notin {g, NoSig}
               PROVE  FALSE
    OBVIOUS
  <2>1. k = SLOTS /\ \A i \in Slot : t[i].signum \in Sig \ {g}
    BY <1>1, <1>2, <1>3
  <2> DEFINE f == [i \in Slot |-> t[i].signum]
  <2>2. f \in [Slot -> Sig \ {g}]
    BY <2>1
  <2>3. IsFiniteSet(Sig \ {g}) /\ Cardinality(Sig \ {g}) = Cardinality(Sig) - 1
    BY FS_RemoveElement
  <2>4. IsFiniteSet(Slot) /\ Cardinality(Slot) = SLOTS
    BY FS_Interval
  <2>5. Cardinality(Sig) \in Nat
    BY FS_CardinalityType
  <2>6. Cardinality(Sig \ {g}) < Cardinality(Slot)
    BY <2>3, <2>4, <2>5
  <2>7. PICK i, j \in Slot : i # j /\ f[i] = f[j]
    <3> HIDE DEF f, Slot
    <3> QED
      BY <2>2, <2>3, <2>4, <2>6, FS_PigeonHole
  <2>8. i \in Used(t) /\ j \in Used(t) /\ t[i].signum = t[j].signum
    BY <2>1, <2>7 DEF Used
  <2> QED
    BY <2>7, <2>8 DEF Tidy
<1>5. ASSUME NEW i \in Slot, t[i].signum = g
      PROVE  k = i
  <2>1. ~(i < k)
    BY <1>1, <1>3, <1>5
  <2>2. CASE t[k].signum = g
    BY <2>2, <1>1, <1>5 DEF Tidy, Used
  <2>3. CASE t[k].signum = NoSig
    <3>1. ~(k < i)
      BY <2>3, <1>1, <1>5 DEF Tidy
    <3> QED
      BY <3>1, <2>1, <1>1
  <2> QED
    BY <1>4, <2>2, <2>3
<1> QED
  BY <1>3, <1>4, <1>5 DEF k

\* A slot a handler may claim for a signal: the ones before it are used, and no
\* other is the signal's.
MayClaim(t, k, g) ==
  /\ \A j \in 1 .. k - 1 : t[j].signum \notin {g, NoSig}
  /\ \A j \in Slot : t[j].signum = g => j = k

\* What the assignments of record_signal make of slot k.
Entry(t, k, g, ts) ==
  [signum |-> g, last_received_ts |-> ts,
   number_pending |-> IF t[k].signum = g THEN t[k].number_pending + 1 ELSE 1]

\* The assignments of record_signal leave a tidy table tidy at any slot that may
\* be claimed, even one that holds another signal by now.
LEMMA ClaimTidy ==
  ASSUME NEW t, Tidy(t), NEW g \in Sig, NEW ts \in Nat, NEW k \in Slot, MayClaim(t, k, g)
  PROVE  LET u == Claim(t, k, g, ts)
         IN /\ u[k] = Entry(t, k, g, ts)
            /\ \A i \in Slot \ {k} : u[i] = t[i] /\ t[i].signum # g
            /\ Tidy(u)
<1> DEFINE n == IF t[k].signum = g THEN t[k].number_pending + 1 ELSE 1
           e == [signum |-> g, last_received_ts |-> ts, number_pending |-> n]
           u == Claim(t, k, g, ts)
<1>2. /\ \A i \in Slot : t[i].signum = g => k = i
      /\ \A j \in 1 .. k - 1 : t[j].signum \notin {g, NoSig}
  BY DEF MayClaim
<1>3. t \in [Slot -> Status] /\ t[k] \in Status
  BY DEF Tidy, Table
<1>4. e \in Status
  <2>1. t[k].number_pending \in Nat
    BY <1>3, StatusFields
  <2>2. n \in Nat
    BY <2>1
  <2> QED
    BY <2>2, StatusBuilt
<1>5. u = [t EXCEPT ![k] = e]
  BY <1>3 DEF Claim
<1> HIDE DEF u
<1>6. u \in Table /\ u[k] = e /\ \A i \in Slot \ {k} : u[i] = t[i]
  BY <1>3, <1>4, <1>5 DEF Table
<1>7. \A i \in Slot \ {k} : t[i].signum # g
  BY <1>2
<1>8. e.signum = g /\ g # NoSig
  OBVIOUS
<1> HIDE DEF e
<1>9. ASSUME NEW i \in Used(u), NEW j \in Used(u), u[i].signum = u[j].signum
      PROVE  i = j
  <2>1. CASE i = k \/ j = k
    BY <2>1, <1>6, <1>7, <1>8, <1>9 DEF Used
  <2>2. CASE i # k /\ j # k
    BY <2>2, <1>6, <1>9 DEF Used, Tidy
  <2> QED
    BY <2>1, <2>2
<1>10. ASSUME NEW i \in Slot, NEW j \in Slot, i < j, u[i].signum = NoSig
       PROVE  u[j].signum = NoSig
  <2>1. i # k /\ t[i].signum = NoSig
    BY <1>6, <1>8, <1>10
  <2>2. j # k
    BY <2>1, <1>2, <1>10
  <2> QED
    BY <2>1, <2>2, <1>6, <1>10 DEF Tidy
<1>11. Tidy(u)
  BY <1>6, <1>9, <1>10 DEF Tidy
<1> QED
  BY <1>6, <1>7, <1>11 DEF u, e, Entry

LEMMA FoundMayClaim ==
  ASSUME NEW t, Tidy(t), NEW g \in Sig
  PROVE  FindSlot(t, g) \in Slot /\ MayClaim(t, FindSlot(t, g), g)
<1>1. /\ FindSlot(t, g) \in Slot
      /\ \A j \in 1 .. FindSlot(t, g) - 1 : t[j].signum \notin {g, NoSig}
  BY SlotFound
<1>2. \A i \in Slot : t[i].signum = g => FindSlot(t, g) = i
  BY RightSlot
<1> QED
  BY <1>1, <1>2 DEF MayClaim

\* record_signal leaves a tidy table tidy: the signal has one slot in it, which
\* was its own or the first free one, and the others are untouched.
LEMMA RecordTidy ==
  ASSUME NEW t, Tidy(t), NEW g \in Sig, NEW ts \in Nat
  PROVE  LET k == FindSlot(t, g)
             u == record_signal(t, g, ts)
         IN /\ k \in Slot
            /\ u[k] = Entry(t, k, g, ts)
            /\ \A i \in Slot \ {k} : u[i] = t[i] /\ t[i].signum # g
            /\ Tidy(u)
<1> DEFINE k == FindSlot(t, g)
<1>1. k \in Slot /\ MayClaim(t, k, g)
  BY FoundMayClaim
<1>2. record_signal(t, g, ts) = Claim(t, k, g, ts)
  BY DEF record_signal
<1> HIDE DEF k
<1> QED
  BY <1>1, <1>2, ClaimTidy DEF k

-----------------------------------------------------------------------------
(***************************************************************************)
(* The counts of a table.                                                  *)
(***************************************************************************)

\* The count of a signal is the one of its slot, and 0 if it has none.
LEMMA CountOfSlot ==
  ASSUME NEW t, Tidy(t), NEW g \in Sig
  PROVE  /\ \A i \in Slot : t[i].signum = g => PendingCount(t, g) = t[i].number_pending
         /\ (\A i \in Slot : t[i].signum # g) => PendingCount(t, g) = 0
         /\ PendingCount(t, g) \in Nat
         /\ PendingCount(t, g) > 0 => \E i \in Slot : t[i].signum = g
<1>1. ASSUME NEW i \in Slot, t[i].signum = g
      PROVE  PendingCount(t, g) = t[i].number_pending
  <2> DEFINE c == CHOOSE j \in Slot : t[j].signum = g
  <2>1. c \in Slot /\ t[c].signum = g
    BY <1>1
  <2>2. PendingCount(t, g) = t[c].number_pending
    BY <1>1 DEF PendingCount
  <2> HIDE DEF c
  <2>3. c = i
    BY <2>1, <1>1 DEF Tidy, Used
  <2> QED
    BY <2>2, <2>3
<1>2. (\A i \in Slot : t[i].signum # g) => PendingCount(t, g) = 0
  BY DEF PendingCount
<1>3. \A i \in Slot : t[i].number_pending \in Nat
  BY StatusFields DEF Tidy, Table
<1> QED
  BY <1>1, <1>2, <1>3

\* A claim adds one to the count of its signal.  Of the others it changes the
\* count of the one that held the slot, if another did.
LEMMA ClaimCounts ==
  ASSUME NEW t, Tidy(t), NEW g \in Sig, NEW ts \in Nat, NEW k \in Slot, MayClaim(t, k, g)
  PROVE  /\ PendingCount(Claim(t, k, g, ts), g) > 0
         /\ \A h \in Sig \ {g} :
              t[k].signum # h => PendingCount(Claim(t, k, g, ts), h) = PendingCount(t, h)
<1> DEFINE u == Claim(t, k, g, ts)
<1>1. /\ u[k] = Entry(t, k, g, ts)
      /\ \A i \in Slot \ {k} : u[i] = t[i] /\ t[i].signum # g
      /\ Tidy(u)
  BY ClaimTidy
<1>2. t[k].number_pending \in Nat
  BY StatusFields DEF Tidy, Table
<1> HIDE DEF u
<1>3. u[k].signum = g /\ u[k].number_pending > 0
  BY <1>1, <1>2 DEF Entry
<1>4. PendingCount(u, g) > 0
  BY <1>1, <1>3, CountOfSlot
<1>5. ASSUME NEW h \in Sig \ {g}, t[k].signum # h
      PROVE  PendingCount(u, h) = PendingCount(t, h)
  <2>1. \A i \in Slot : u[i].signum = h <=> t[i].signum = h
    BY <1>1, <1>3, <1>5
  <2>2. CASE \E i \in Slot : t[i].signum = h
    <3>1. PICK i \in Slot : t[i].signum = h
      BY <2>2
    <3>2. i # k /\ u[i] = t[i]
      BY <3>1, <1>1, <1>5
    <3>3. PendingCount(t, h) = t[i].number_pending
      BY <3>1, CountOfSlot
    <3>4. PendingCount(u, h) = u[i].number_pending
      BY <3>1, <3>2, <1>1, CountOfSlot
    <3> QED
      BY <3>2, <3>3, <3>4
  <2>3. CASE \A i \in Slot : t[i].signum # h
    <3>1. PendingCount(t, h) = 0
      BY <2>3, CountOfSlot
    <3>2. PendingCount(u, h) = 0
      BY <2>1, <2>3, <1>1, CountOfSlot
    <3> QED
      BY <3>1, <3>2
  <2> QED
    BY <2>2, <2>3
<1> QED
  BY <1>4, <1>5 DEF u

-----------------------------------------------------------------------------
(***************************************************************************)
(* merge_new_signals.                                                      *)
(***************************************************************************)

\* record_signal keeps the types of any table, tidy or not.
LEMMA RecordTyped ==
  ASSUME NEW t \in Table, NEW i \in Slot, NEW g \in Sig, NEW ts \in Nat
  PROVE  Claim(t, i, g, ts) \in Table
<1> DEFINE n == IF t[i].signum = g THEN t[i].number_pending + 1 ELSE 1
           e == [signum |-> g, last_received_ts |-> ts, number_pending |-> n]
<1>1. t[i].number_pending \in Nat
  BY StatusFields DEF Table
<1>2. n \in Nat
  BY <1>1
<1>3. e \in Status
  BY <1>2, StatusBuilt
<1>4. Claim(t, i, g, ts) = [t EXCEPT ![i] = e]
  BY DEF Claim, Table
<1> HIDE DEF e
<1> QED
  BY <1>3, <1>4 DEF Table

\* The tables its loop goes through, one for each slot of new_signals.
MergeTurn(m, new, i) ==
  IF \E j \in 1 .. i : new[j].number_pending = 0 THEN m
  ELSE record_signal(m, new[i].signum, new[i].last_received_ts)

LEMMA MergeTurns ==
  ASSUME NEW t \in Table, NEW new \in Table
  PROVE  \E m \in [0 .. SLOTS -> Table] :
           /\ m[0] = t
           /\ \A i \in Slot : m[i] = MergeTurn(m[i - 1], new, i)
           /\ Merged(t, new) = m[SLOTS]
<1>1. ASSUME NEW i \in Slot, NEW u \in Table
      PROVE  MergeTurn(u, new, i) \in Table
  <2>1. CASE \E j \in 1 .. i : new[j].number_pending = 0
    BY <2>1 DEF MergeTurn
  <2>2. CASE ~\E j \in 1 .. i : new[j].number_pending = 0
    <3>1. new[i] \in Status /\ new[i].number_pending # 0
      BY <2>2 DEF Table
    <3>2. new[i].signum \in Sig /\ new[i].last_received_ts \in Nat
      BY <3>1, StatusFields
    <3>3. FindSlot(u, new[i].signum) \in Slot
      BY SlotFound
    <3> QED
      BY <2>2, <3>2, <3>3, RecordTyped DEF MergeTurn, record_signal
  <2> QED
    BY <2>1, <2>2
<1> DEFINE turn == [p \in Slot \X Table |-> MergeTurn(p[2], new, p[1])]
<1>2. turn \in [Slot \X Table -> Table]
  BY <1>1
<1>3. PICK f \in [0 .. SLOTS -> Table] :
        f[0] = t /\ \A i \in Slot : f[i] = turn[<<i, f[i - 1]>>]
  <2>1. SLOTS \in Nat
    OBVIOUS
  <2>2. turn \in [(1 .. SLOTS) \X Table -> Table]
    BY <1>2
  <2> HIDE DEF turn
  <2>3. \E f \in [0 .. SLOTS -> Table] : IsLoop(f, SLOTS, t, turn)
    BY <2>1, <2>2, LoopExists
  <2> QED
    BY <2>3 DEF IsLoop
<1>4. ASSUME NEW i \in Slot
      PROVE  f[i] = MergeTurn(f[i - 1], new, i)
  <2>1. i - 1 \in 0 .. SLOTS
    OBVIOUS
  <2>2. <<i, f[i - 1]>> \in Slot \X Table
    BY <2>1
  <2>3. turn[<<i, f[i - 1]>>] = MergeTurn(f[i - 1], new, i)
    BY <2>2
  <2> QED
    BY <1>3, <2>3
<1> HIDE DEF turn
<1> DEFINE body(h, i) ==
             IF i = 0 THEN t
             ELSE IF \E j \in 1 .. i : new[j].number_pending = 0 THEN h[i - 1]
             ELSE record_signal(h[i - 1], new[i].signum, new[i].last_received_ts)
           m == CHOOSE h : h = [i \in 0 .. SLOTS |-> body(h, i)]
<1>5. f = [i \in 0 .. SLOTS |-> body(f, i)]
  <2>1. \A i \in 0 .. SLOTS : f[i] = body(f, i)
    BY <1>3, <1>4 DEF MergeTurn
  <2> HIDE DEF body
  <2> QED
    BY <2>1
<1>6. m = [i \in 0 .. SLOTS |-> body(m, i)]
  <2> HIDE DEF body
  <2> QED
    BY <1>5
<1>7. Merged(t, new) = m[SLOTS]
  BY DEF Merged
<1> HIDE DEF m
<1>8. m[0] = t /\ \A i \in Slot : m[i] = MergeTurn(m[i - 1], new, i)
  BY <1>6 DEF MergeTurn
<1>9. m \in [0 .. SLOTS -> Table]
  <2> DEFINE S == {i \in 0 .. SLOTS : m[i] \in Table}
  <2>1. 0 \in S
    BY <1>8
  <2>2. \A i \in 1 .. SLOTS : i - 1 \in S => i \in S
    BY <1>1, <1>8
  <2>3. 0 .. SLOTS \subseteq S
    <3> HIDE DEF S
    <3> QED
      BY <2>1, <2>2, IntervalInductive
  <2>4. \A i \in 0 .. SLOTS : m[i] \in Table
    BY <2>3
  <2>5. m = [i \in 0 .. SLOTS |-> m[i]]
    BY <1>6
  <2> QED
    BY <2>4, <2>5
<1> QED
  BY <1>7, <1>8, <1>9

\* new_signals is only counted up, so a used slot of it has a count.
Counted(t) == \A i \in Used(t) : t[i].number_pending > 0

\* What a slot of signals holds after the first n slots of new_signals: if
\* its signal was in them, their timestamp and one more; else what it held.
MergedSlot(t, new, n, u, k) ==
  \/ \E j \in 1 .. n :
       /\ new[j].signum = u[k].signum
       /\ u[k].last_received_ts = new[j].last_received_ts
       /\ u[k].number_pending = IF t[k].signum = u[k].signum
                                THEN t[k].number_pending + 1 ELSE 1
  \/ /\ \A j \in 1 .. n : new[j].signum # u[k].signum
     /\ u[k] = t[k]

MergedUpto(t, new, n, u) ==
  /\ Tidy(u)
  /\ \A k \in Used(u) : MergedSlot(t, new, n, u, k)
  /\ \A k \in Used(t) : u[k].signum = t[k].signum
  /\ \A j \in 1 .. n : j \in Used(new) => \E k \in Slot : u[k].signum = new[j].signum

\* One turn of the loop at a used slot.
LEMMA MergeOne ==
  ASSUME NEW t, Tidy(t), NEW new, Tidy(new), Counted(new),
         NEW n \in Slot, n \in Used(new),
         NEW u, MergedUpto(t, new, n - 1, u)
  PROVE  MergedUpto(t, new, n,
                    record_signal(u, new[n].signum, new[n].last_received_ts))
<1> DEFINE g == new[n].signum
           ts == new[n].last_received_ts
           k == FindSlot(u, g)
           w == record_signal(u, g, ts)
<1>1. g \in Sig /\ ts \in Nat /\ g # NoSig
  BY StatusFields DEF Used, Tidy, Table
<1>2. Tidy(u)
  BY DEF MergedUpto
<1>3. /\ k \in Slot
      /\ w[k] = Entry(u, k, g, ts)
      /\ \A i \in Slot \ {k} : w[i] = u[i] /\ u[i].signum # g
      /\ Tidy(w)
  BY <1>1, <1>2, RecordTidy
<1>4. u[k].signum \in {g, NoSig}
  BY <1>1, <1>2, RightSlot
<1> HIDE DEF k, w, g, ts
<1>5. /\ w[k].signum = g
      /\ w[k].last_received_ts = ts
      /\ w[k].number_pending = IF u[k].signum = g THEN u[k].number_pending + 1 ELSE 1
  BY <1>3 DEF Entry
<1>6. \A j \in 1 .. n - 1 : new[j].signum # g
  BY <1>1 DEF Tidy, Used, g
<1>7. IF u[k].signum = g THEN u[k] = t[k] ELSE t[k].signum = NoSig
  <2>1. CASE u[k].signum = g
    <3>1. k \in Used(u)
      BY <2>1, <1>1, <1>3 DEF Used
    <3>2. MergedSlot(t, new, n - 1, u, k)
      BY <3>1 DEF MergedUpto
    <3> QED
      BY <3>2, <2>1, <1>6 DEF MergedSlot
  <2>2. CASE u[k].signum # g
    <3>1. u[k].signum = NoSig
      BY <2>2, <1>4
    <3>2. k \notin Used(t)
      BY <3>1 DEF MergedUpto, Used
    <3> QED
      BY <3>2, <2>2, <1>3 DEF Used
  <2> QED
    BY <2>1, <2>2
<1>8. MergedSlot(t, new, n, w, k)
  <2>1. w[k].number_pending = IF t[k].signum = g THEN t[k].number_pending + 1 ELSE 1
    BY <1>1, <1>5, <1>7
  <2>2. n \in 1 .. n
    OBVIOUS
  <2> QED
    BY <2>1, <2>2, <1>5 DEF MergedSlot, g, ts
<1>9. ASSUME NEW i \in Used(w), i # k
      PROVE  MergedSlot(t, new, n, w, i)
  <2>1. w[i] = u[i] /\ u[i].signum # g /\ i \in Used(u)
    BY <1>3, <1>9 DEF Used
  <2>2. MergedSlot(t, new, n - 1, u, i)
    BY <2>1 DEF MergedUpto
  <2>3. 1 .. n = (1 .. n - 1) \cup {n}
    OBVIOUS
  <2> QED
    BY <2>1, <2>2, <2>3 DEF MergedSlot, g
<1>10. ASSUME NEW i \in Used(t)
       PROVE  w[i].signum = t[i].signum
  <2>1. u[i].signum = t[i].signum /\ i \in Slot /\ t[i].signum # NoSig
    BY DEF MergedUpto, Used
  <2>2. CASE i = k
    BY <2>1, <2>2, <1>4, <1>5
  <2>3. CASE i # k
    BY <2>1, <2>3, <1>3
  <2> QED
    BY <2>2, <2>3
<1>11. ASSUME NEW j \in 1 .. n, j \in Used(new)
       PROVE  \E i \in Slot : w[i].signum = new[j].signum
  <2>1. CASE j = n
    BY <2>1, <1>3, <1>5 DEF g
  <2>2. CASE j # n
    <3>1. j \in 1 .. n - 1
      BY <2>2
    <3>2. PICK i \in Slot : u[i].signum = new[j].signum
      BY <3>1, <1>11 DEF MergedUpto
    <3>3. new[j].signum # g /\ new[j].signum # NoSig
      BY <3>1, <1>6, <1>11 DEF Used
    <3>4. i # k
      BY <3>2, <3>3, <1>4
    <3> QED
      BY <3>2, <3>4, <1>3
  <2> QED
    BY <2>1, <2>2
<1> QED
  BY <1>3, <1>8, <1>9, <1>10, <1>11 DEF MergedUpto, w, g, ts

\* The whole loop: it stops at the first unused slot, after which all are.
LEMMA MergeAll ==
  ASSUME NEW t, Tidy(t), NEW new, Tidy(new), Counted(new)
  PROVE  MergedUpto(t, new, SLOTS, Merged(t, new))
<1>1. t \in Table /\ new \in Table
  BY DEF Tidy
<1>2. PICK m \in [0 .. SLOTS -> Table] :
        /\ m[0] = t
        /\ \A i \in Slot : m[i] = MergeTurn(m[i - 1], new, i)
        /\ Merged(t, new) = m[SLOTS]
  BY <1>1, MergeTurns
<1> DEFINE S == {i \in 0 .. SLOTS : MergedUpto(t, new, i, m[i])}
<1>3. 0 \in S
  <2>1. 1 .. 0 = {}
    OBVIOUS
  <2>2. MergedUpto(t, new, 0, t)
    BY <2>1 DEF MergedUpto, MergedSlot
  <2> QED
    BY <2>2, <1>2
<1>4. ASSUME NEW i \in 1 .. SLOTS, i - 1 \in S
      PROVE  i \in S
  <2>1. MergedUpto(t, new, i - 1, m[i - 1]) /\ m[i] = MergeTurn(m[i - 1], new, i)
    BY <1>2, <1>4
  <2>2. CASE i \in Used(new)
    <3>1. ASSUME NEW j \in 1 .. i
          PROVE  new[j].number_pending # 0
      <4>1. j \in Used(new)
        BY <2>2 DEF Tidy, Used
      <4> QED
        BY <4>1 DEF Counted
    <3>2. m[i] = record_signal(m[i - 1], new[i].signum, new[i].last_received_ts)
      BY <2>1, <3>1 DEF MergeTurn
    <3>3. MergedUpto(t, new, i, m[i])
      BY <2>1, <2>2, <3>2, MergeOne
    <3> QED
      BY <3>3
  <2>3. CASE i \notin Used(new)
    <3>1. new[i].signum = NoSig /\ new[i].number_pending = 0
      BY <2>3, <1>1, StatusFields DEF Used, Table
    <3>2. i \in 1 .. i
      OBVIOUS
    <3>3. m[i] = m[i - 1]
      BY <2>1, <3>1, <3>2 DEF MergeTurn
    <3>4. 1 .. i = (1 .. i - 1) \cup {i}
      OBVIOUS
    <3>5. MergedUpto(t, new, i, m[i - 1])
      <4>1. ASSUME NEW k \in Used(m[i - 1])
            PROVE  MergedSlot(t, new, i, m[i - 1], k)
        <5>1. MergedSlot(t, new, i - 1, m[i - 1], k) /\ m[i - 1][k].signum # NoSig
          BY <2>1 DEF MergedUpto, Used
        <5> QED
          BY <5>1, <3>1, <3>4 DEF MergedSlot
      <4>2. ASSUME NEW j \in 1 .. i, j \in Used(new)
            PROVE  \E k \in Slot : m[i - 1][k].signum = new[j].signum
        BY <2>1, <2>3, <3>4, <4>2 DEF MergedUpto
      <4> QED
        BY <2>1, <4>1, <4>2 DEF MergedUpto
    <3> QED
      BY <3>3, <3>5
  <2> QED
    BY <2>2, <2>3
<1>5. 0 .. SLOTS \subseteq S
  <2> HIDE DEF S
  <2> QED
    BY <1>3, <1>4, IntervalInductive
<1>6. SLOTS \in S
  BY <1>5
<1> QED
  BY <1>2, <1>6

\* A merge adds one to the count of each signal that is in new_signals.
LEMMA MergeCounts ==
  ASSUME NEW t, Tidy(t), NEW new, Tidy(new), Counted(new), NEW g \in Sig
  PROVE  /\ PendingCount(new, g) > 0 =>
              PendingCount(Merged(t, new), g) = PendingCount(t, g) + 1
         /\ ~(PendingCount(new, g) > 0) =>
              PendingCount(Merged(t, new), g) = PendingCount(t, g)
<1> DEFINE u == Merged(t, new)
<1>1. MergedUpto(t, new, SLOTS, u)
  BY MergeAll
<1> HIDE DEF u
<1>2. Tidy(u) /\ g # NoSig
  BY <1>1 DEF MergedUpto
<1>3. ASSUME NEW i \in Slot, t[i].signum = g
      PROVE  u[i].signum = g
  BY <1>1, <1>2, <1>3 DEF MergedUpto, Used
<1>4. ASSUME NEW k \in Slot, u[k].signum = g
      PROVE  MergedSlot(t, new, SLOTS, u, k)
  BY <1>1, <1>2, <1>4 DEF MergedUpto, Used
<1>5. CASE PendingCount(new, g) > 0
  <2>1. PICK j \in Slot : new[j].signum = g
    BY <1>5, CountOfSlot
  <2>2. PICK k \in Slot : u[k].signum = g
    BY <2>1, <1>1, <1>2 DEF MergedUpto, Used
  <2>3. u[k].number_pending = IF t[k].signum = g THEN t[k].number_pending + 1 ELSE 1
    BY <2>1, <2>2, <1>4 DEF MergedSlot
  <2>4. PendingCount(u, g) = u[k].number_pending
    BY <2>2, <1>2, CountOfSlot
  <2>5. CASE t[k].signum = g
    <3>1. PendingCount(t, g) = t[k].number_pending
      BY <2>5, CountOfSlot
    <3> QED
      BY <3>1, <2>3, <2>4, <2>5, <1>5 DEF u
  <2>6. CASE t[k].signum # g
    <3>1. \A i \in Slot : t[i].signum # g
      BY <2>2, <2>6, <1>2, <1>3 DEF Tidy, Used
    <3>2. PendingCount(t, g) = 0
      BY <3>1, CountOfSlot
    <3> QED
      BY <3>2, <2>3, <2>4, <2>6, <1>5 DEF u
  <2> QED
    BY <2>5, <2>6
<1>6. CASE ~(PendingCount(new, g) > 0)
  <2>1. \A j \in Slot : new[j].signum # g
    BY <1>2, <1>6, CountOfSlot DEF Counted, Used
  <2>2. CASE \E i \in Slot : t[i].signum = g
    <3>1. PICK i \in Slot : t[i].signum = g
      BY <2>2
    <3>2. u[i] = t[i]
      BY <3>1, <2>1, <1>3, <1>4 DEF MergedSlot
    <3>3. PendingCount(t, g) = t[i].number_pending
      BY <3>1, CountOfSlot
    <3>4. PendingCount(u, g) = u[i].number_pending
      BY <3>1, <3>2, <1>2, CountOfSlot
    <3> QED
      BY <3>2, <3>3, <3>4, <1>6 DEF u
  <2>3. CASE \A i \in Slot : t[i].signum # g
    <3>1. \A k \in Slot : u[k].signum # g
      BY <2>1, <2>3, <1>4 DEF MergedSlot
    <3>2. PendingCount(t, g) = 0
      BY <2>3, CountOfSlot
    <3>3. PendingCount(u, g) = 0
      BY <3>1, <1>2, CountOfSlot
    <3> QED
      BY <3>2, <3>3, <1>6 DEF u
  <2> QED
    BY <2>2, <2>3
<1> QED
  BY <1>5, <1>6

-----------------------------------------------------------------------------
(***************************************************************************)
(* Types.                                                                  *)
(***************************************************************************)

\* A handler that is about to claim a slot has found one.
TypeInv ==
  /\ TypeOK
  /\ \A i \in 1 .. Len(stack) : stack[i].at = "claim" => stack[i].slot \in Slot

LEMMA FrameFields ==
  ASSUME NEW f \in Frame
  PROVE  /\ f = [sig |-> f.sig, now |-> f.now, slot |-> f.slot, at |-> f.at]
         /\ f.sig \in Sig /\ f.now \in Nat /\ f.slot \in Slot \cup {0}
         /\ f.at \in {"stamp", "find", "claim", "end"}
  BY DEF Frame

\* The innermost handler is the last of the stack, and a step of it changes
\* no other.
LEMMA TopOfStack ==
  ASSUME stack \in Seq(Frame), stack # <<>>
  PROVE  /\ Len(stack) \in Nat \ {0} /\ Len(stack) \in 1 .. Len(stack)
         /\ Top \in Frame
         /\ \A f \in Frame :
              /\ [stack EXCEPT ![Len(stack)] = f] \in Seq(Frame)
              /\ Len([stack EXCEPT ![Len(stack)] = f]) = Len(stack)
              /\ \A j \in 1 .. Len(stack) : [stack EXCEPT ![Len(stack)] = f][j] =
                                              IF j = Len(stack) THEN f ELSE stack[j]
<1>1. Len(stack) \in Nat \ {0} /\ Len(stack) \in 1 .. Len(stack)
  BY EmptySeq
<1>2. stack[Len(stack)] \in Frame
  BY <1>1, ElementOfSeq
<1> QED
  BY <1>1, <1>2, ExceptSeq DEF Top

LEMMA HandlerSteps ==
  ASSUME TypeInv, Handler
  PROVE  /\ stack # <<>> /\ Len(stack) \in 1 .. Len(stack) /\ Top \in Frame
         /\ HandlerStamps =>
              stack' = [stack EXCEPT ![Len(stack)] =
                          [sig |-> Top.sig, slot |-> Top.slot, at |-> "find",
                           now |-> IF Top.now = prev THEN Top.now + 1 ELSE Top.now]]
         /\ HandlerFinds =>
              stack' = [stack EXCEPT ![Len(stack)] =
                          [sig |-> Top.sig, now |-> Top.now, at |-> "claim",
                           slot |-> FindSlot(newSignals, Top.sig)]]
         /\ HandlerClaims =>
              stack' = [stack EXCEPT ![Len(stack)] =
                          [sig |-> Top.sig, now |-> Top.now, at |-> "end",
                           slot |-> Top.slot]]
<1>1. stack # <<>> /\ stack \in Seq(Frame)
  BY DEF Handler, HandlerStamps, HandlerFinds, HandlerClaims, HandlerReturns, Innermost,
         TypeInv, TypeOK
<1>2. Len(stack) \in 1 .. Len(stack) /\ Top \in Frame
  BY <1>1, TopOfStack
<1>3. Top = [sig |-> Top.sig, now |-> Top.now, slot |-> Top.slot, at |-> Top.at]
  BY <1>2, FrameFields
<1>4. stack[Len(stack)] = Top
  BY DEF Top
<1>5. DOMAIN stack = 1 .. Len(stack)
  BY <1>1, LenProperties
<1> HIDE DEF Top
<1>6. HandlerStamps =>
        stack' = [stack EXCEPT ![Len(stack)] =
                    [sig |-> Top.sig, slot |-> Top.slot, at |-> "find",
                     now |-> IF Top.now = prev THEN Top.now + 1 ELSE Top.now]]
  BY <1>3 DEF HandlerStamps
<1>7. HandlerFinds =>
        stack' = [stack EXCEPT ![Len(stack)] =
                    [sig |-> Top.sig, now |-> Top.now, at |-> "claim",
                     slot |-> FindSlot(newSignals, Top.sig)]]
  BY <1>3 DEF HandlerFinds
<1>8. HandlerClaims =>
        stack' = [stack EXCEPT ![Len(stack)] =
                    [sig |-> Top.sig, now |-> Top.now, at |-> "end", slot |-> Top.slot]]
  BY <1>3, <1>4 DEF HandlerClaims
<1> QED
  BY <1>1, <1>2, <1>6, <1>7, <1>8

\* sig_get_new_events returns an event of those it considers, with none of a
\* smaller timestamp.
LEMMA OldestEvent ==
  ASSUME signals \in Table, NEW since, NewEvents(since) # {}
  PROVE  LET e == sig_get_new_events(since)
         IN /\ e \in NewEvents(since) /\ e \in Slot
            /\ signals[e].signum \in Sig
            /\ signals[e].last_received_ts \in Nat
            /\ signals[e].number_pending \in Nat \ {0}
            /\ \A j \in NewEvents(since) :
                 signals[e].last_received_ts <= signals[j].last_received_ts
<1> DEFINE E == NewEvents(since)
           ts(i) == signals[i].last_received_ts
           P(i) == \A j \in E : \/ ts(i) < ts(j)
                                \/ ts(i) = ts(j) /\ i <= j
           T == {ts(i) : i \in E}
<1>1. /\ E \subseteq Slot
      /\ \A i \in Slot : /\ signals[i].signum \in Sig \cup {NoSig}
                         /\ ts(i) \in Nat
                         /\ signals[i].number_pending \in Nat
                         /\ signals[i].number_pending # 0 => signals[i].signum \in Sig
  BY StatusFields DEF NewEvents, Table
<1>2. PICK x \in T : \A y \in T : x <= y
  <2>1. T \subseteq Nat /\ T # {}
    BY <1>1
  <2> QED
    BY <2>1, LeastNumber
<1> DEFINE F == {i \in E : ts(i) = x}
<1>3. PICK e \in F : \A j \in F : e <= j
  <2>1. F \subseteq Nat /\ F # {}
    BY <1>1
  <2> QED
    BY <2>1, LeastNumber
<1>4. e \in E /\ P(e)
  <2>1. e \in E /\ ts(e) = x
    OBVIOUS
  <2>2. ASSUME NEW j \in E
        PROVE  ts(e) < ts(j) \/ (ts(e) = ts(j) /\ e <= j)
    <3>1. ts(j) \in T /\ x \in Nat /\ ts(j) \in Nat
      BY <1>1, <2>1
    <3>2. x <= ts(j)
      BY <3>1, <1>2
    <3>3. CASE ts(j) = x
      <4>1. j \in F
        BY <3>3
      <4> QED
        BY <4>1, <3>3, <2>1, <1>3
    <3>4. CASE ts(j) # x
      BY <3>1, <3>2, <3>4, <2>1
    <3> QED
      BY <3>3, <3>4
  <2> HIDE DEF E
  <2> QED
    BY <2>1, <2>2
<1>5. sig_get_new_events(since) = CHOOSE i \in E : P(i)
  BY DEF sig_get_new_events
<1> DEFINE c == sig_get_new_events(since)
<1>6. c \in E /\ P(c)
  <2> HIDE DEF E, P
  <2> QED
    BY <1>4, <1>5
<1> HIDE DEF c
<1>7. signals[c].number_pending > 0
  BY <1>6 DEF NewEvents
<1>8. \A j \in E : ts(c) <= ts(j)
  BY <1>1, <1>6
<1> QED
  BY <1>1, <1>6, <1>7, <1>8 DEF c

\* What a step of the main thread keeps of the types.
LEMMA MainTypes ==
  ASSUME TypeInv, merge_new_signals \/ svc_run_active \/ CtlRun
  PROVE  TypeInv'
<1> USE DEF TypeInv, TypeOK, handlerVars
<1>1. CASE merge_new_signals
  <2>1. PICK m \in [0 .. SLOTS -> Table] : Merged(signals, newSignals) = m[SLOTS]
    <3>1. signals \in Table /\ newSignals \in Table
      BY DEF Table
    <3> QED
      BY <3>1, MergeTurns
  <2>2. signals' \in Table
    BY <2>1, <1>1 DEF merge_new_signals
  <2>3. newSignals' \in Table
    BY <1>1, FreeStatus DEF merge_new_signals, Table
  <2> QED
    BY <2>2, <2>3, <1>1 DEF merge_new_signals, Table
<1>2. CASE svc_run_active
  <2>1. signals[sig_get_new_events(last[Services])].last_received_ts \in Nat
    BY <1>2, OldestEvent DEF svc_run_active, Table
  <2> QED
    BY <2>1, <1>2 DEF svc_run_active, Watcher
<1>3. CASE ctl_deliver_signals
  <2> DEFINE e == signals[sig_get_new_events(last[Controller])]
  <2>1. e.last_received_ts \in Nat /\ e.number_pending \in Nat /\ e.signum \in Sig
    BY <1>3, OldestEvent DEF ctl_deliver_signals, Table
  <2> HIDE DEF e
  <2>2. /\ last' = [last EXCEPT ![Controller] = e.last_received_ts]
        /\ told' = [told EXCEPT ![e.signum] = e.number_pending]
        /\ fresh' \in SUBSET Sig
    BY <1>3 DEF ctl_deliver_signals, e
  <2> QED
    BY <2>1, <2>2, <1>3 DEF ctl_deliver_signals, Watcher
<1>4. CASE ctl_state_next_command \/ ctl_state_run_command \/ ctl_state_dump_services
  BY <1>4 DEF ctl_state_next_command, ctl_state_run_command, ctl_state_dump_services, Watcher
<1>5. ASSUME NEW g \in Sig, ctl_cmd_signal_clear(g)
      PROVE  TypeInv'
  <2>1. ASSUME NEW i \in Slot
        PROVE  sig_mark_seen(g, told[g])[i] \in Status
    <3>1. signals[i] \in Status /\ told[g] \in Nat
      OBVIOUS
    <3>2. /\ signals[i] = [signum |-> signals[i].signum,
                           last_received_ts |-> signals[i].last_received_ts,
                           number_pending |-> signals[i].number_pending]
          /\ signals[i].last_received_ts \in Nat /\ signals[i].number_pending \in Nat
      BY <3>1, StatusFields
    <3>3. Minus(signals[i].number_pending, told[g]) \in Nat
      BY <3>1, <3>2 DEF Minus
    <3>4. CASE signals[i].signum = g
      <4>1. sig_mark_seen(g, told[g])[i] =
              [signum |-> g, last_received_ts |-> signals[i].last_received_ts,
               number_pending |-> Minus(signals[i].number_pending, told[g])]
        BY <3>2, <3>4 DEF sig_mark_seen
      <4> QED
        BY <4>1, <3>2, <3>3, StatusBuilt
    <3>5. CASE signals[i].signum # g
      BY <3>1, <3>5 DEF sig_mark_seen
    <3> QED
      BY <3>4, <3>5
  <2>2. signals' = sig_mark_seen(g, told[g])
    BY <1>5 DEF ctl_cmd_signal_clear
  <2>3. signals' \in [Slot -> Status]
    BY <2>1, <2>2 DEF sig_mark_seen
  <2>4. told' \in [Sig -> Nat] /\ state' = "next_command"
    BY <1>5 DEF ctl_cmd_signal_clear
  <2> QED
    BY <2>3, <2>4, <1>5 DEF ctl_cmd_signal_clear
<1> QED
  BY <1>1, <1>2, <1>3, <1>4, <1>5 DEF CtlRun

\* A return takes the innermost handler off the stack.
LEMMA ReturnPops ==
  ASSUME TypeInv, HandlerReturns
  PROVE  /\ stack' \in Seq(Frame)
         /\ Len(stack') = Len(stack) - 1
         /\ \A i \in 1 .. Len(stack) - 1 : stack'[i] = stack[i]
<1>1. stack \in Seq(Frame) /\ Len(stack) \in Nat \ {0}
  BY HandlerSteps, TopOfStack DEF Handler, TypeInv, TypeOK
<1>2. \A i \in 1 .. Len(stack) - 1 : stack[i] \in Frame
  BY <1>1, ElementOfSeq
<1>3. 1 \in Int /\ Len(stack) - 1 \in Int /\ Len(stack) - 1 >= 0
  BY <1>1
<1>4. stack' = SubSeq(stack, 1, Len(stack) - 1)
  BY DEF HandlerReturns
<1> DEFINE n == Len(stack) - 1
<1>5. /\ SubSeq(stack, 1, n) \in Seq(Frame)
      /\ Len(SubSeq(stack, 1, n)) = IF 1 <= n THEN n - 1 + 1 ELSE 0
      /\ \A i \in 1 .. n - 1 + 1 : SubSeq(stack, 1, n)[i] = stack[1 + i - 1]
  <2>1. n \in Int /\ \A i \in 1 .. n : stack[i] \in Frame
    BY <1>2, <1>3
  <2> HIDE DEF n
  <2>2. SubSeq(stack, 1, n) \in Seq(Frame)
    BY <2>1, <1>3, SubSeqProperties
  <2>3. Len(SubSeq(stack, 1, n)) = IF 1 <= n THEN n - 1 + 1 ELSE 0
    BY <2>1, <1>3, SubSeqProperties
  <2>4. \A i \in 1 .. n - 1 + 1 : SubSeq(stack, 1, n)[i] = stack[1 + i - 1]
    BY <2>1, <1>3, SubSeqProperties
  <2> QED
    BY <2>2, <2>3, <2>4
<1>6. ASSUME NEW i \in 1 .. n
      PROVE  SubSeq(stack, 1, n)[i] = stack[i]
  <2>1. i \in 1 .. n - 1 + 1 /\ 1 + i - 1 = i
    BY <1>3
  <2> HIDE DEF n
  <2> QED
    BY <2>1, <1>5
<1>7. Len(SubSeq(stack, 1, n)) = n
  <2>1. n \in Int /\ n >= 0
    BY <1>3
  <2> HIDE DEF n
  <2> QED
    BY <2>1, <1>5
<1> QED
  BY <1>4, <1>5, <1>6, <1>7

LEMMA HandlerTypes ==
  ASSUME TypeInv, Handler
  PROVE  TypeInv'
<1> USE DEF TypeInv, TypeOK
<1>1. /\ stack \in Seq(Frame) /\ stack # <<>>
      /\ Len(stack) \in Nat \ {0} /\ Len(stack) \in 1 .. Len(stack)
      /\ Top \in Frame
  BY HandlerSteps, TopOfStack
<1>2. /\ Top.sig \in Sig /\ Top.now \in Nat /\ Top.slot \in Slot \cup {0}
      /\ Top.at = "claim" => Top.slot \in Slot
  BY <1>1, FrameFields DEF Top
<1>3. ASSUME NEW f \in Frame, stack' = [stack EXCEPT ![Len(stack)] = f],
             f.at = "claim" => f.slot \in Slot
      PROVE  /\ stack' \in Seq(Frame) /\ Len(stack') <= MAX_DEPTH
             /\ \A i \in 1 .. Len(stack') : stack'[i].at = "claim" => stack'[i].slot \in Slot
  <2>1. /\ stack' \in Seq(Frame)
        /\ Len(stack') = Len(stack)
        /\ \A j \in 1 .. Len(stack) : stack'[j] = IF j = Len(stack) THEN f ELSE stack[j]
    BY <1>1, <1>3, TopOfStack
  <2> QED
    BY <2>1, <1>3
<1>4. CASE HandlerStamps
  <2> DEFINE f == [sig |-> Top.sig, slot |-> Top.slot, at |-> "find",
                   now |-> IF Top.now = prev THEN Top.now + 1 ELSE Top.now]
  <2>1. f \in Frame /\ f.at # "claim"
    BY <1>2 DEF Frame
  <2>2. stack' = [stack EXCEPT ![Len(stack)] = f]
    BY <1>4, HandlerSteps
  <2> HIDE DEF f
  <2> QED
    BY <2>1, <2>2, <1>3, <1>4 DEF HandlerStamps
<1>5. CASE HandlerFinds
  <2> DEFINE f == [sig |-> Top.sig, now |-> Top.now, at |-> "claim",
                   slot |-> FindSlot(newSignals, Top.sig)]
  <2>1. f \in Frame /\ f.slot \in Slot
    BY <1>2, SlotFound DEF Frame
  <2>2. stack' = [stack EXCEPT ![Len(stack)] = f]
    BY <1>5, HandlerSteps
  <2> HIDE DEF f
  <2> QED
    BY <2>1, <2>2, <1>3, <1>5 DEF HandlerFinds
<1>6. CASE HandlerClaims
  <2> DEFINE f == [sig |-> Top.sig, now |-> Top.now, at |-> "end", slot |-> Top.slot]
  <2>1. f \in Frame /\ f.at # "claim"
    BY <1>2 DEF Frame
  <2>2. stack' = [stack EXCEPT ![Len(stack)] = f]
    BY <1>6, HandlerSteps
  <2> HIDE DEF f
  <2>3. newSignals' \in Table
    BY <1>2, <1>6, RecordTyped DEF HandlerClaims, Innermost, Table
  <2>4. fresh' \in SUBSET Sig
    BY <1>2, <1>6 DEF HandlerClaims
  <2> QED
    BY <2>1, <2>2, <2>3, <2>4, <1>3, <1>6 DEF HandlerClaims, Table
<1>7. CASE HandlerReturns
  <2>1. /\ stack' \in Seq(Frame)
        /\ Len(stack') = Len(stack) - 1
        /\ \A i \in 1 .. Len(stack) - 1 : stack'[i] = stack[i]
    BY <1>7, ReturnPops
  <2>2. prev' \in Nat
    BY <1>2, <1>7 DEF HandlerReturns
  <2> QED
    BY <2>1, <2>2, <1>1, <1>7 DEF HandlerReturns
<1> QED
  BY <1>4, <1>5, <1>6, <1>7 DEF Handler

LEMMA EnterTypes ==
  ASSUME TypeInv, NEW g \in Sig, HandlerEnters(g)
  PROVE  TypeInv'
<1> USE DEF TypeInv, TypeOK
<1> DEFINE f == [sig |-> g, now |-> clock, slot |-> 0, at |-> "stamp"]
<1>1. f \in Frame /\ f.at # "claim"
  BY DEF Frame
<1>2. stack' = Append(stack, f)
  BY DEF HandlerEnters
<1> HIDE DEF f
<1>3. /\ stack' \in Seq(Frame)
      /\ Len(stack') = Len(stack) + 1
      /\ \A i \in 1 .. Len(stack) : stack'[i] = stack[i]
      /\ stack'[Len(stack) + 1] = f
  BY <1>1, <1>2, AppendProperties
<1>4. Len(stack) \in Nat
  BY LenProperties
<1>5. ASSUME NEW i \in 1 .. Len(stack'), stack'[i].at = "claim"
      PROVE  stack'[i].slot \in Slot
  <2>1. i \in 1 .. Len(stack) \/ i = Len(stack) + 1
    BY <1>3, <1>4
  <2> QED
    BY <2>1, <1>1, <1>3, <1>5
<1> QED
  BY <1>3, <1>4, <1>5 DEF HandlerEnters

LEMMA TypeStep == TypeInv /\ [Next]_vars => TypeInv'
<1> SUFFICES ASSUME TypeInv, [Next]_vars
             PROVE  TypeInv'
  OBVIOUS
<1>1. CASE Tick
  BY <1>1 DEF Tick, TypeInv, TypeOK
<1>2. ASSUME NEW g \in Sig, HandlerEnters(g)
      PROVE  TypeInv'
  BY <1>2, EnterTypes
<1>3. CASE Handler
  BY <1>3, HandlerTypes
<1>4. CASE merge_new_signals \/ svc_run_active \/ CtlRun
  BY <1>4, MainTypes
<1>5. CASE UNCHANGED vars
  BY <1>5 DEF vars, handlerVars, TypeInv, TypeOK
<1> QED
  BY <1>1, <1>2, <1>3, <1>4, <1>5 DEF Next

LEMMA TypeInit == Init => TypeInv
<1> SUFFICES ASSUME Init
             PROVE  TypeInv
  OBVIOUS
<1>1. stack \in Seq(Frame) /\ Len(stack) = 0
  BY EmptySeq DEF Init
<1> QED
  BY <1>1, FreeStatus DEF Init, TypeInv, TypeOK

LEMMA TypesKept == Spec => []TypeInv
  BY TypeInit, TypeStep, PTL DEF Spec

\* The tables, the handlers' frames and the watchers' timestamps keep their
\* types, however deep signals interrupt each other and whatever the clock
\* says: record_signal's loop ends at a slot, and nothing that is not a signal
\* gets into a table or is reported.
THEOREM TablesTyped == Spec => []TypeOK
<1>1. TypeInv => TypeOK
  BY DEF TypeInv
<1> QED
  BY <1>1, TypesKept, PTL

-----------------------------------------------------------------------------
(***************************************************************************)
(* The tables, however deep handlers are stacked.                          *)
(***************************************************************************)

\* sig_get_new_events takes the timestamp 0 for none, which no signal has.
Stamped(t) == \A i \in Used(t) : t[i].last_received_ts > 0

\* A handler that is about to claim a slot may, and has read the clock.
Ready(t, f) ==
  /\ f.now > 0
  /\ f.at = "claim" => MayClaim(t, f.slot, f.sig)

\* A signal is blocked while its handler runs, so a stack holds it once.
Frames(s, t) ==
  /\ \A i, j \in 1 .. Len(s) : s[i].sig = s[j].sig => i = j
  /\ \A i \in 1 .. Len(s) : Ready(t, s[i])

\* What the controller was told of a signal is no more than its count.
ToldPending == \A g \in Sig : told[g] <= PendingCount(signals, g)

TableInv ==
  /\ clock > 0
  /\ Tidy(signals) /\ Stamped(signals)
  /\ Tidy(newSignals) /\ Counted(newSignals) /\ Stamped(newSignals)
  /\ Frames(stack, newSignals)
  /\ ToldPending

\* A table with no signal in it.
LEMMA EmptyTable ==
  LET t == [i \in Slot |-> Free]
  IN /\ Tidy(t) /\ Counted(t) /\ Stamped(t) /\ Used(t) = {}
     /\ \A g \in Sig : PendingCount(t, g) = 0
<1> DEFINE t == [i \in Slot |-> Free]
<1>1. \A i \in Slot : t[i].signum = NoSig
  BY FreeStatus
<1>2. t \in Table
  BY FreeStatus DEF Table
<1> HIDE DEF t
<1>3. Used(t) = {}
  BY <1>1 DEF Used
<1>4. Tidy(t) /\ Counted(t) /\ Stamped(t)
  BY <1>1, <1>2, <1>3 DEF Tidy, Counted, Stamped
<1>5. \A g \in Sig : PendingCount(t, g) = 0
  BY <1>1, <1>4, CountOfSlot
<1> QED
  BY <1>3, <1>4, <1>5 DEF t

\* sig_mark_seen changes one count, and neither signals nor timestamps.
LEMMA MarkSeen ==
  ASSUME Tidy(signals), NEW g \in Sig, NEW n \in Nat
  PROVE  LET u == sig_mark_seen(g, n)
         IN /\ \A i \in Slot :
                 /\ u[i].signum = signals[i].signum
                 /\ u[i].last_received_ts = signals[i].last_received_ts
                 /\ u[i].number_pending = IF signals[i].signum = g
                                          THEN Minus(signals[i].number_pending, n)
                                          ELSE signals[i].number_pending
            /\ Tidy(u)
            /\ PendingCount(u, g) = Minus(PendingCount(signals, g), n)
            /\ \A h \in Sig \ {g} : PendingCount(u, h) = PendingCount(signals, h)
<1> DEFINE u == sig_mark_seen(g, n)
<1>1. ASSUME NEW i \in Slot
      PROVE  /\ u[i] \in Status
             /\ u[i].signum = signals[i].signum
             /\ u[i].last_received_ts = signals[i].last_received_ts
             /\ u[i].number_pending = IF signals[i].signum = g
                                      THEN Minus(signals[i].number_pending, n)
                                      ELSE signals[i].number_pending
  <2>1. signals[i] \in Status
    BY DEF Tidy, Table
  <2>2. /\ signals[i] = [signum |-> signals[i].signum,
                         last_received_ts |-> signals[i].last_received_ts,
                         number_pending |-> signals[i].number_pending]
        /\ signals[i].last_received_ts \in Nat /\ signals[i].number_pending \in Nat
    BY <2>1, StatusFields
  <2>3. Minus(signals[i].number_pending, n) \in Nat
    BY <2>2 DEF Minus
  <2>4. CASE signals[i].signum = g
    <3>1. u[i] = [signum |-> g, last_received_ts |-> signals[i].last_received_ts,
                  number_pending |-> Minus(signals[i].number_pending, n)]
      BY <2>2, <2>4 DEF sig_mark_seen
    <3>2. u[i] \in Status
      BY <3>1, <2>2, <2>3, StatusBuilt
    <3> QED
      BY <3>1, <3>2, <2>4
  <2>5. CASE signals[i].signum # g
    BY <2>1, <2>5 DEF sig_mark_seen
  <2> QED
    BY <2>4, <2>5
<1>2. u \in Table
  BY <1>1 DEF sig_mark_seen, Table
<1> HIDE DEF u
<1>3. Tidy(u)
  BY <1>1, <1>2 DEF Tidy, Used
<1>4. PendingCount(u, g) = Minus(PendingCount(signals, g), n)
  <2>1. CASE \E i \in Slot : signals[i].signum = g
    <3>1. PICK i \in Slot : signals[i].signum = g
      BY <2>1
    <3>2. PendingCount(signals, g) = signals[i].number_pending
      BY <3>1, CountOfSlot
    <3>3. PendingCount(u, g) = u[i].number_pending
      BY <3>1, <1>1, <1>3, CountOfSlot
    <3> QED
      BY <3>1, <3>2, <3>3, <1>1
  <2>2. CASE \A i \in Slot : signals[i].signum # g
    <3>1. PendingCount(signals, g) = 0
      BY <2>2, CountOfSlot
    <3>2. PendingCount(u, g) = 0
      BY <2>2, <1>1, <1>3, CountOfSlot
    <3> QED
      BY <3>1, <3>2 DEF Minus
  <2> QED
    BY <2>1, <2>2
<1>5. ASSUME NEW h \in Sig \ {g}
      PROVE  PendingCount(u, h) = PendingCount(signals, h)
  <2>1. CASE \E i \in Slot : signals[i].signum = h
    <3>1. PICK i \in Slot : signals[i].signum = h
      BY <2>1
    <3>2. PendingCount(signals, h) = signals[i].number_pending
      BY <3>1, CountOfSlot
    <3>3. PendingCount(u, h) = u[i].number_pending
      BY <3>1, <1>1, <1>3, CountOfSlot
    <3> QED
      BY <3>1, <3>2, <3>3, <1>1
  <2>2. CASE \A i \in Slot : signals[i].signum # h
    <3>1. PendingCount(signals, h) = 0
      BY <2>2, CountOfSlot
    <3>2. PendingCount(u, h) = 0
      BY <2>2, <1>1, <1>3, CountOfSlot
    <3> QED
      BY <3>1, <3>2
  <2> QED
    BY <2>1, <2>2
<1> QED
  BY <1>1, <1>3, <1>4, <1>5 DEF u

\* A handler's step replaces the innermost frame by one of the same signal.
LEMMA FrameSteps ==
  ASSUME TypeInv, TableInv, stack # <<>>,
         NEW f \in Frame, f.sig = Top.sig, stack' = [stack EXCEPT ![Len(stack)] = f],
         Ready(newSignals', f),
         \A i \in 1 .. Len(stack) - 1 : Ready(newSignals', stack[i])
  PROVE  Frames(stack', newSignals')
<1>1. stack \in Seq(Frame)
  BY DEF TypeInv, TypeOK
<1>2. /\ Len(stack) \in Nat \ {0}
      /\ Len(stack') = Len(stack)
      /\ \A j \in 1 .. Len(stack) : stack'[j] = IF j = Len(stack) THEN f ELSE stack[j]
  BY <1>1, TopOfStack
<1>3. \A j \in 1 .. Len(stack) : stack'[j].sig = stack[j].sig
  BY <1>2 DEF Top
<1>4. ASSUME NEW i \in 1 .. Len(stack')
      PROVE  Ready(newSignals', stack'[i])
  <2>1. \A n \in Nat : i \in 1 .. n /\ i # n => i \in 1 .. n - 1
    OBVIOUS
  <2>2. stack'[i] = f \/ (i \in 1 .. Len(stack) - 1 /\ stack'[i] = stack[i])
    BY <2>1, <1>2, Zenon
  <2> QED
    BY <2>2
<1> QED
  BY <1>2, <1>3, <1>4 DEF Frames, TableInv

\* The innermost handler, which is ready.
LEMMA TopReady ==
  ASSUME TypeInv, TableInv, Handler
  PROVE  /\ stack # <<>> /\ Top \in Frame /\ Len(stack) \in Nat \ {0}
         /\ Top.sig \in Sig /\ Top.now \in Nat /\ Top.slot \in Slot \cup {0}
         /\ Ready(newSignals, Top)
         /\ Top.at = "claim" => Top.slot \in Slot
         /\ \A i \in 1 .. Len(stack) - 1 : /\ stack[i].sig # Top.sig
                                           /\ Ready(newSignals, stack[i])
                                           /\ stack[i].at = "claim" => stack[i].slot \in Slot
<1>1. stack # <<>> /\ Top \in Frame /\ Len(stack) \in 1 .. Len(stack) /\ stack \in Seq(Frame)
  BY HandlerSteps DEF TypeInv, TypeOK
<1>2. Len(stack) \in Nat \ {0}
  BY <1>1, EmptySeq
<1>3. Top.sig \in Sig /\ Top.now \in Nat /\ Top.slot \in Slot \cup {0}
  BY <1>1, FrameFields
<1>4. /\ Ready(newSignals, Top)
      /\ Top.at = "claim" => Top.slot \in Slot
  BY <1>1 DEF TableInv, Frames, TypeInv, Top
<1>5. \A i \in 1 .. Len(stack) - 1 : i \in 1 .. Len(stack) /\ i # Len(stack)
  BY <1>2
<1>6. \A i \in 1 .. Len(stack) - 1 : /\ stack[i].sig # Top.sig
                                     /\ Ready(newSignals, stack[i])
                                     /\ stack[i].at = "claim" => stack[i].slot \in Slot
  BY <1>1, <1>5 DEF TableInv, Frames, TypeInv, Top
<1> QED
  BY <1>1, <1>2, <1>3, <1>4, <1>6

\* What a claim does to new_signals, whether or not the slot is still free.
LEMMA ClaimKeeps ==
  ASSUME TypeInv, TableInv, HandlerClaims
  PROVE  /\ Top.sig \in Sig
         /\ PendingCount(newSignals', Top.sig) > 0
         /\ \A h \in Sig \ {Top.sig} :
              ~Overwrites(h) => PendingCount(newSignals', h) = PendingCount(newSignals, h)
         /\ Tidy(newSignals') /\ Counted(newSignals') /\ Stamped(newSignals')
         /\ \A i \in 1 .. Len(stack) - 1 : Ready(newSignals', stack[i])
<1>1. /\ Top.sig \in Sig /\ Top.now \in Nat /\ Top.now > 0
      /\ Top.slot \in Slot /\ MayClaim(newSignals, Top.slot, Top.sig)
      /\ \A i \in 1 .. Len(stack) - 1 : /\ stack[i].sig # Top.sig
                                        /\ Ready(newSignals, stack[i])
                                        /\ stack[i].at = "claim" => stack[i].slot \in Slot
  BY TopReady DEF Handler, HandlerClaims, Innermost, Ready
<1>2. PICK g \in Sig : g = Top.sig
  BY <1>1
<1>3. PICK k \in Slot : k = Top.slot
  BY <1>1
<1>4. PICK ts \in Nat : ts = Top.now /\ ts > 0
  BY <1>1
<1>5. /\ newSignals' = Claim(newSignals, k, g, ts)
      /\ Tidy(newSignals) /\ Counted(newSignals) /\ Stamped(newSignals)
      /\ MayClaim(newSignals, k, g)
  BY <1>1, <1>2, <1>3, <1>4 DEF HandlerClaims, TableInv
<1>6. /\ newSignals'[k] = Entry(newSignals, k, g, ts)
      /\ \A i \in Slot \ {k} : newSignals'[i] = newSignals[i]
      /\ Tidy(newSignals')
  BY <1>5, ClaimTidy
<1>7. /\ PendingCount(newSignals', g) > 0
      /\ \A h \in Sig \ {g} :
           newSignals[k].signum # h =>
             PendingCount(newSignals', h) = PendingCount(newSignals, h)
  BY <1>5, ClaimCounts
<1>8. newSignals[k].number_pending \in Nat
  BY <1>5, StatusFields DEF Tidy, Table
<1>9. /\ newSignals'[k].number_pending > 0 /\ newSignals'[k].last_received_ts > 0
      /\ newSignals'[k].signum = g
  BY <1>4, <1>6, <1>8 DEF Entry
<1>10. Counted(newSignals') /\ Stamped(newSignals')
  BY <1>5, <1>6, <1>9 DEF Counted, Stamped, Used
<1>11. ASSUME NEW f, f.sig # g, Ready(newSignals, f), f.at = "claim" => f.slot \in Slot
       PROVE  Ready(newSignals', f)
  <2> SUFFICES ASSUME f.at = "claim"
               PROVE  MayClaim(newSignals', f.slot, f.sig)
    BY <1>11 DEF Ready
  <2>1. MayClaim(newSignals, f.slot, f.sig)
    BY <1>11 DEF Ready
  <2>2. g # NoSig
    OBVIOUS
  <2>3. \A j \in Slot : newSignals'[j].signum = IF j = k THEN g ELSE newSignals[j].signum
    BY <1>6, <1>9
  <2>4. \A j \in 1 .. f.slot - 1 : newSignals'[j].signum \notin {f.sig, NoSig}
    <3>1. \A j \in 1 .. f.slot - 1 : j \in Slot
      BY <1>11
    <3> QED
      BY <3>1, <2>1, <2>2, <2>3, <1>11 DEF MayClaim
  <2>5. \A j \in Slot : newSignals'[j].signum = f.sig => j = f.slot
    BY <2>1, <2>3, <1>11 DEF MayClaim
  <2> QED
    BY <2>4, <2>5 DEF MayClaim
<1>12. \A i \in 1 .. Len(stack) - 1 : Ready(newSignals', stack[i])
  BY <1>1, <1>2, <1>11
<1>13. ASSUME NEW h \in Sig \ {g}, ~Overwrites(h)
       PROVE  newSignals[k].signum # h
  BY <1>2, <1>3, <1>13 DEF Overwrites
<1> QED
  BY <1>2, <1>6, <1>7, <1>10, <1>12, <1>13

\* A step of the innermost handler.
LEMMA HandlerKeeps ==
  ASSUME TypeInv, TableInv, Handler
  PROVE  TableInv'
<1>1. /\ stack # <<>> /\ Top \in Frame /\ Len(stack) \in Nat \ {0}
      /\ Top.sig \in Sig /\ Top.now \in Nat /\ Top.slot \in Slot \cup {0}
      /\ Ready(newSignals, Top)
      /\ Top.at = "claim" => Top.slot \in Slot
      /\ \A i \in 1 .. Len(stack) - 1 : Ready(newSignals, stack[i])
  BY TopReady
<1>2. UNCHANGED <<clock, signals, told>>
  BY DEF Handler, HandlerStamps, HandlerFinds, HandlerClaims, HandlerReturns
<1>3. ASSUME UNCHANGED newSignals, Frames(stack', newSignals)
      PROVE  TableInv'
  BY <1>2, <1>3 DEF TableInv, ToldPending
<1>4. CASE HandlerStamps
  <2> DEFINE f == [sig |-> Top.sig, slot |-> Top.slot, at |-> "find",
                   now |-> IF Top.now = prev THEN Top.now + 1 ELSE Top.now]
  <2>1. f \in Frame /\ f.sig = Top.sig /\ f.at # "claim" /\ f.now > 0
    BY <1>1 DEF Frame, Ready
  <2>2. stack' = [stack EXCEPT ![Len(stack)] = f]
    BY <1>4, HandlerSteps
  <2> HIDE DEF f
  <2>3. UNCHANGED newSignals /\ Ready(newSignals, f)
    BY <2>1, <1>4 DEF HandlerStamps, Ready
  <2>4. Frames(stack', newSignals)
    BY <2>1, <2>2, <2>3, <1>1, FrameSteps
  <2> QED
    BY <2>3, <2>4, <1>3
<1>5. CASE HandlerFinds
  <2> DEFINE f == [sig |-> Top.sig, now |-> Top.now, at |-> "claim",
                   slot |-> FindSlot(newSignals, Top.sig)]
  <2>1. f.slot \in Slot /\ MayClaim(newSignals, f.slot, f.sig)
    BY <1>1, FoundMayClaim DEF TableInv
  <2>2. f \in Frame /\ f.sig = Top.sig /\ f.now > 0
    BY <2>1, <1>1 DEF Frame, Ready
  <2>3. stack' = [stack EXCEPT ![Len(stack)] = f]
    BY <1>5, HandlerSteps
  <2> HIDE DEF f
  <2>4. UNCHANGED newSignals /\ Ready(newSignals, f)
    BY <2>1, <2>2, <1>5 DEF HandlerFinds, Ready
  <2>5. Frames(stack', newSignals)
    BY <2>2, <2>3, <2>4, <1>1, FrameSteps
  <2> QED
    BY <2>4, <2>5, <1>3
<1>6. CASE HandlerClaims
  <2> DEFINE f == [sig |-> Top.sig, now |-> Top.now, at |-> "end", slot |-> Top.slot]
  <2>1. f \in Frame /\ f.sig = Top.sig /\ f.at # "claim" /\ f.now > 0
    BY <1>1 DEF Frame, Ready
  <2>2. stack' = [stack EXCEPT ![Len(stack)] = f]
    BY <1>6, HandlerSteps
  <2> HIDE DEF f
  <2>3. /\ Tidy(newSignals') /\ Counted(newSignals') /\ Stamped(newSignals')
        /\ \A i \in 1 .. Len(stack) - 1 : Ready(newSignals', stack[i])
    BY <1>6, ClaimKeeps
  <2>4. Ready(newSignals', f)
    BY <2>1 DEF Ready
  <2>5. Frames(stack', newSignals')
    BY <2>1, <2>2, <2>3, <2>4, <1>1, FrameSteps
  <2> QED
    BY <2>3, <2>5, <1>2 DEF TableInv, ToldPending
<1>7. CASE HandlerReturns
  <2>1. Len(stack') = Len(stack) - 1 /\ \A i \in 1 .. Len(stack) - 1 : stack'[i] = stack[i]
    BY <1>7, ReturnPops
  <2>2. \A i \in 1 .. Len(stack) - 1 : i \in 1 .. Len(stack)
    BY <1>1
  <2>3. Frames(stack', newSignals)
    BY <2>1, <2>2 DEF TableInv, Frames
  <2> QED
    BY <2>3, <1>3, <1>7 DEF HandlerReturns
<1> QED
  BY <1>4, <1>5, <1>6, <1>7 DEF Handler

\* A step of the main thread, which runs when no handler does.
LEMMA MainKeeps ==
  ASSUME TypeInv, TableInv, merge_new_signals \/ svc_run_active \/ CtlRun
  PROVE  TableInv' /\ \A g \in Sig : Owed(g) => Owed(g)'
<1>1. stack = <<>> /\ stack' = <<>> /\ UNCHANGED clock
  BY DEF merge_new_signals, svc_run_active, CtlRun, ctl_deliver_signals,
         ctl_state_next_command, ctl_state_run_command, ctl_state_dump_services,
         ctl_cmd_signal_clear, MainRuns, handlerVars
<1>2. clock' > 0 /\ Frames(stack', newSignals')
  BY <1>1, EmptySeq DEF Frames, TableInv
<1>3. /\ Tidy(signals) /\ Tidy(newSignals) /\ Counted(newSignals) /\ ToldPending
      /\ Stamped(signals) /\ Stamped(newSignals)
  BY DEF TableInv
<1>4. \A g \in Sig : /\ told[g] \in Nat
                     /\ PendingCount(signals, g) \in Nat
                     /\ PendingCount(newSignals, g) \in Nat
  BY <1>3, CountOfSlot DEF TypeInv, TypeOK
<1>5. ASSUME UNCHANGED <<signals, newSignals, told, fresh>>
      PROVE  TableInv' /\ \A g \in Sig : Owed(g) => Owed(g)'
  BY <1>2, <1>5 DEF TableInv, ToldPending, Owed
<1>6. CASE merge_new_signals
  <2>1. /\ signals' = Merged(signals, newSignals)
        /\ newSignals' = [i \in Slot |-> Free]
        /\ UNCHANGED <<told, fresh>>
    BY <1>6 DEF merge_new_signals
  <2>2. MergedUpto(signals, newSignals, SLOTS, signals')
    BY <2>1, <1>3, MergeAll
  <2>3. Tidy(signals') /\ Stamped(signals')
    BY <2>2, <1>3 DEF MergedUpto, MergedSlot, Stamped, Used
  <2>4. Tidy(newSignals') /\ Counted(newSignals') /\ Stamped(newSignals')
    BY <2>1, EmptyTable
  <2>5. \A g \in Sig : /\ PendingCount(newSignals, g) > 0 =>
                            PendingCount(signals', g) = PendingCount(signals, g) + 1
                       /\ ~(PendingCount(newSignals, g) > 0) =>
                            PendingCount(signals', g) = PendingCount(signals, g)
    BY <2>1, <1>3, MergeCounts
  <2>6. ToldPending'
    BY <2>1, <2>5, <1>3, <1>4 DEF ToldPending
  <2>7. \A g \in Sig : Owed(g) => Owed(g)'
    BY <2>1, <2>5, <1>3, <1>4 DEF Owed, ToldPending
  <2> QED
    BY <2>3, <2>4, <2>6, <2>7, <1>2 DEF TableInv
<1>7. CASE svc_run_active
  BY <1>5, <1>7 DEF svc_run_active
<1>8. CASE ctl_deliver_signals
  <2> DEFINE k == sig_get_new_events(last[Controller])
             g == signals[k].signum
  <2>1. k \in Slot /\ g \in Sig /\ signals[k].number_pending \in Nat \ {0}
    BY <1>3, <1>8, OldestEvent DEF ctl_deliver_signals, Tidy
  <2>2. PendingCount(signals, g) = signals[k].number_pending
    BY <2>1, <1>3, CountOfSlot
  <2>3. /\ told' = [told EXCEPT ![g] = signals[k].number_pending]
        /\ fresh' = IF PendingCount(newSignals, g) = 0 THEN fresh \ {g} ELSE fresh
        /\ UNCHANGED <<signals, newSignals>>
    BY <1>8 DEF ctl_deliver_signals
  <2> HIDE DEF g, k
  <2>4. \A h \in Sig : told'[h] = IF h = g THEN PendingCount(signals, g) ELSE told[h]
    BY <2>1, <2>2, <2>3 DEF TypeInv, TypeOK
  <2>5. ToldPending'
    BY <2>1, <2>3, <2>4, <1>3, <1>4 DEF ToldPending
  <2>6. \A h \in Sig : Owed(h) => Owed(h)'
    BY <2>1, <2>3, <2>4, <1>4 DEF Owed
  <2> QED
    BY <2>3, <2>5, <2>6, <1>2, <1>3 DEF TableInv
<1>9. CASE ctl_state_next_command \/ ctl_state_run_command \/ ctl_state_dump_services
  BY <1>5, <1>9 DEF ctl_state_next_command, ctl_state_run_command, ctl_state_dump_services
<1>10. ASSUME NEW g \in Sig, ctl_cmd_signal_clear(g)
       PROVE  TableInv' /\ \A h \in Sig : Owed(h) => Owed(h)'
  <2>1. /\ signals' = sig_mark_seen(g, told[g])
        /\ told' = [told EXCEPT ![g] = 0]
        /\ UNCHANGED <<newSignals, fresh>>
    BY <1>10 DEF ctl_cmd_signal_clear
  <2>2. /\ \A i \in Slot : /\ signals'[i].signum = signals[i].signum
                           /\ signals'[i].last_received_ts = signals[i].last_received_ts
        /\ Tidy(signals')
        /\ PendingCount(signals', g) = Minus(PendingCount(signals, g), told[g])
        /\ \A h \in Sig \ {g} : PendingCount(signals', h) = PendingCount(signals, h)
    BY <2>1, <1>3, <1>4, MarkSeen
  <2>3. told'[g] = 0 /\ \A h \in Sig \ {g} : told'[h] = told[h]
    BY <2>1 DEF TypeInv, TypeOK
  <2>4. PendingCount(signals', g) = PendingCount(signals, g) - told[g]
    BY <2>2, <1>3, <1>4 DEF Minus, ToldPending
  <2>5. ToldPending'
    <3> SUFFICES ASSUME NEW h \in Sig
                 PROVE  told'[h] <= PendingCount(signals', h)
      BY DEF ToldPending
    <3> QED
      BY <2>2, <2>3, <2>4, <1>3, <1>4 DEF ToldPending
  <2>6. ASSUME NEW h \in Sig, Owed(h)
        PROVE  Owed(h)'
    <3>1. CASE h = g
      BY <3>1, <2>1, <2>3, <2>4, <2>6, <1>4 DEF Owed
    <3>2. CASE h # g
      BY <3>2, <2>1, <2>2, <2>3, <2>6 DEF Owed
    <3> QED
      BY <3>1, <3>2
  <2>7. Stamped(signals')
    BY <2>2, <1>3 DEF Stamped, Used
  <2> QED
    BY <2>1, <2>2, <2>5, <2>6, <2>7, <1>2, <1>3 DEF TableInv
<1> QED
  BY <1>6, <1>7, <1>8, <1>9, <1>10 DEF CtlRun

LEMMA EnterKeeps ==
  ASSUME TypeInv, TableInv, NEW g \in Sig, HandlerEnters(g)
  PROVE  TableInv'
<1> DEFINE f == [sig |-> g, now |-> clock, slot |-> 0, at |-> "stamp"]
<1>1. f \in Frame /\ f.sig = g /\ Ready(newSignals, f)
  BY DEF Frame, TypeInv, TypeOK, TableInv, Ready
<1>2. /\ stack' = Append(stack, f) /\ stack \in Seq(Frame)
      /\ \A i \in 1 .. Len(stack) : stack[i].sig # g
      /\ UNCHANGED <<clock, newSignals, signals, told>>
  BY DEF HandlerEnters, TypeInv, TypeOK
<1> HIDE DEF f
<1>3. /\ Len(stack') = Len(stack) + 1
      /\ \A i \in 1 .. Len(stack) : stack'[i] = stack[i]
      /\ stack'[Len(stack) + 1] = f
  BY <1>1, <1>2, AppendProperties
<1>4. Len(stack) \in Nat
  BY <1>2, LenProperties
<1>5. \A i \in 1 .. Len(stack') : i \in 1 .. Len(stack) \/ i = Len(stack) + 1
  BY <1>3, <1>4
<1>6. ASSUME NEW i \in 1 .. Len(stack'), NEW j \in 1 .. Len(stack'),
             stack'[i].sig = stack'[j].sig
      PROVE  i = j
  BY <1>1, <1>2, <1>3, <1>5, <1>6 DEF TableInv, Frames
<1>7. \A i \in 1 .. Len(stack') : Ready(newSignals, stack'[i])
  BY <1>1, <1>3, <1>5 DEF TableInv, Frames
<1> QED
  BY <1>2, <1>6, <1>7 DEF TableInv, Frames, ToldPending

LEMMA TableStep == TypeInv /\ TableInv /\ [Next]_vars => TableInv'
<1> SUFFICES ASSUME TypeInv, TableInv, [Next]_vars
             PROVE  TableInv'
  OBVIOUS
<1>1. CASE Tick
  BY <1>1 DEF Tick, TableInv, ToldPending, TypeInv, TypeOK
<1>2. CASE \E g \in Sig : HandlerEnters(g)
  BY <1>2, EnterKeeps
<1>3. CASE Handler
  BY <1>3, HandlerKeeps
<1>4. CASE merge_new_signals \/ svc_run_active \/ CtlRun
  BY <1>4, MainKeeps
<1>5. CASE UNCHANGED vars
  BY <1>5 DEF vars, handlerVars, TableInv, ToldPending
<1> QED
  BY <1>1, <1>2, <1>3, <1>4, <1>5 DEF Next

LEMMA TableInit == Init => TableInv
<1> SUFFICES ASSUME Init
             PROVE  TableInv
  OBVIOUS
<1>1. /\ Tidy(signals) /\ Stamped(signals)
      /\ Tidy(newSignals) /\ Counted(newSignals) /\ Stamped(newSignals)
      /\ \A g \in Sig : PendingCount(signals, g) = 0
  BY EmptyTable DEF Init
<1>2. Frames(stack, newSignals)
  BY EmptySeq DEF Init, Frames
<1>3. clock > 0 /\ ToldPending
  BY <1>1 DEF Init, ToldPending
<1> QED
  BY <1>1, <1>2, <1>3 DEF TableInv

LEMMA TablesKept == Spec => []TableInv
  BY TableInit, TableStep, TypesKept, PTL DEF Spec

-----------------------------------------------------------------------------
(***************************************************************************)
(* How a signal can be lost.                                               *)
(***************************************************************************)
LEMMA OwedStep ==
  ASSUME TypeInv, TableInv, [Next]_vars, NEW g \in Sig, Owed(g), ~Overwrites(g)
  PROVE  Owed(g)'
<1>1. ASSUME UNCHANGED <<signals, newSignals, told, fresh>>
      PROVE  Owed(g)'
  BY <1>1 DEF Owed
<1>2. CASE Tick \/ (\E h \in Sig : HandlerEnters(h)) \/ UNCHANGED vars
  BY <1>1, <1>2 DEF Tick, HandlerEnters, vars, handlerVars
<1>3. CASE HandlerStamps \/ HandlerFinds \/ HandlerReturns
  BY <1>1, <1>3 DEF HandlerStamps, HandlerFinds, HandlerReturns
<1>4. CASE HandlerClaims
  <2>1. /\ PendingCount(newSignals', Top.sig) > 0
        /\ g # Top.sig => PendingCount(newSignals', g) = PendingCount(newSignals, g)
    BY <1>4, ClaimKeeps
  <2>2. fresh' = fresh \cup {Top.sig} /\ UNCHANGED <<signals, told>>
    BY <1>4 DEF HandlerClaims
  <2>3. CASE g = Top.sig
    BY <2>1, <2>3 DEF Owed
  <2>4. CASE g # Top.sig
    BY <2>1, <2>2, <2>4 DEF Owed
  <2> QED
    BY <2>3, <2>4
<1>5. CASE merge_new_signals \/ svc_run_active \/ CtlRun
  BY <1>5, MainKeeps
<1> QED
  BY <1>2, <1>3, <1>4, <1>5 DEF Next, Handler

\* For any number of stacked handlers: a signal received since the controller
\* was told of it, and on record beyond the count a signal.clear takes off,
\* stays so through every merge, event and signal.clear.  The one step that can
\* take it off is record_signal's write to a slot that the signal's handler took
\* after the interrupted one had found it.
THEOREM SignalsLostOnlyByOverwriting == Spec => LostOnlyByOverwriting
<1>1. TypeInv /\ TableInv /\ [Next]_vars
      => [\A g \in Sig : Owed(g) /\ ~Owed(g)' => Overwrites(g)]_vars
  BY OwedStep
<1> QED
  BY <1>1, TypesKept, TablesKept, PTL DEF Spec, LostOnlyByOverwriting

\* Such a signal is in one of the two tables.
THEOREM OwedIsRecorded == Spec => [](\A g \in fresh : Owed(g) => Recorded(g))
<1>1. TypeInv /\ TableInv => \A g \in fresh : Owed(g) => Recorded(g)
  <2> SUFFICES ASSUME TypeInv, TableInv, NEW g \in fresh, Owed(g)
               PROVE  Recorded(g)
    OBVIOUS
  <2>1. g \in Sig /\ told[g] \in Nat
    BY DEF TypeInv, TypeOK
  <2>2. PendingCount(signals, g) \in Nat
    BY <2>1, CountOfSlot DEF TableInv
  <2> QED
    BY <2>1, <2>2 DEF Owed, Recorded
<1> QED
  BY <1>1, TypesKept, TablesKept, PTL

-----------------------------------------------------------------------------
(***************************************************************************)
(* How far the tables implement SignalSet.                                 *)
(***************************************************************************)

\* The signals of a table that are pending and came after a time.
After(t, since) ==
  {g \in Sig : \E i \in Slot : /\ t[i].signum = g
                               /\ t[i].number_pending > 0
                               /\ t[i].last_received_ts > since}

LEMMA EventsAfter ==
  ASSUME NEW t, Tidy(t), Stamped(t), NEW since \in Nat
  PROVE  {t[i].signum : i \in {j \in Slot : /\ t[j].number_pending > 0
                                            /\ since = 0 \/ t[j].last_received_ts > since}}
         = After(t, since)
<1>1. ASSUME NEW i \in Slot, t[i].number_pending > 0
      PROVE  t[i].signum \in Sig /\ t[i].last_received_ts \in Nat /\ t[i].last_received_ts > 0
  <2>1. t[i] \in Status
    BY DEF Tidy, Table
  <2>2. t[i].signum \in Sig /\ t[i].last_received_ts \in Nat
    BY <2>1, <1>1, StatusFields
  <2> QED
    BY <2>2, <1>1 DEF Stamped, Used
<1> QED
  BY <1>1 DEF After

\* A merge makes what arrived pending and new to the services, unless they are
\* past the timestamp of one.
LEMMA MergeIsMerge ==
  ASSUME TypeInv, TableInv, TableInv', merge_new_signals, ~MergesBehind
  PROVE  Pending' = Pending \cup Arrived /\ Unseen' = Unseen \cup Arrived /\ Arrived' = {}
<1> DEFINE since == last[Services]
           u == signals'
<1>1. /\ u = Merged(signals, newSignals)
      /\ newSignals' = [i \in Slot |-> Free]
      /\ UNCHANGED last
  BY DEF merge_new_signals
<1>2. /\ Tidy(signals) /\ Tidy(newSignals) /\ Counted(newSignals) /\ Tidy(u)
      /\ Stamped(signals) /\ Stamped(u) /\ since \in Nat
  BY DEF TableInv, TypeInv, TypeOK, Watcher
<1>3. MergedUpto(signals, newSignals, SLOTS, u)
  BY <1>1, <1>2, MergeAll
<1>4. Unseen = After(signals, since) /\ Unseen' = After(u, since)
  <2>1. Unseen = After(signals, since)
    BY <1>2, EventsAfter DEF Unseen, NewEvents
  <2>2. Unseen' = After(u, since)
    BY <1>1, <1>2, EventsAfter DEF Unseen, NewEvents
  <2> QED
    BY <2>1, <2>2
<1>5. Arrived' = {}
  BY <1>1, EmptyTable DEF Arrived
<1>6. Pending' = Pending \cup Arrived
  <2>1. \A g \in Sig : PendingCount(signals, g) \in Nat
    BY <1>2, CountOfSlot
  <2>2. \A g \in Sig : PendingCount(u, g) > 0 <=> \/ PendingCount(signals, g) > 0
                                                  \/ PendingCount(newSignals, g) > 0
    BY <2>1, <1>1, <1>2, MergeCounts
  <2> QED
    BY <2>2 DEF Pending, Arrived
<1> HIDE DEF u, since
<1>7. ASSUME NEW g \in Sig
      PROVE  g \in After(u, since) <=> g \in After(signals, since) \cup Arrived
  <2>1. g # NoSig
    OBVIOUS
  <2>2. CASE g \in Arrived
    <3>1. PICK j \in Slot : newSignals[j].signum = g
      BY <2>2, <1>2, CountOfSlot DEF Arrived
    <3>2. PICK k \in Slot : u[k].signum = g
      BY <3>1, <2>1, <1>3 DEF MergedUpto, Used
    <3>3. MergedSlot(signals, newSignals, SLOTS, u, k)
      BY <3>2, <2>1, <1>3 DEF MergedUpto, Used
    <3>4. PICK i \in Slot :
            /\ newSignals[i].signum = g
            /\ u[k].last_received_ts = newSignals[i].last_received_ts
            /\ u[k].number_pending = IF signals[k].signum = g
                                     THEN signals[k].number_pending + 1 ELSE 1
      BY <3>1, <3>2, <3>3 DEF MergedSlot
    <3>5. signals[k].number_pending \in Nat
      BY <1>2, StatusFields DEF Tidy, Table
    <3>6. newSignals[i].last_received_ts > since
      <4>1. newSignals[i].last_received_ts \in Nat
        BY <1>2, StatusFields DEF Tidy, Table
      <4> QED
        BY <4>1, <3>4, <2>1, <1>2 DEF MergesBehind, since
    <3> QED
      BY <3>2, <3>4, <3>5, <3>6, <2>2 DEF After
  <2>3. CASE g \notin Arrived
    <3>1. \A j \in Slot : newSignals[j].signum # g
      BY <2>1, <2>3, <1>2, CountOfSlot DEF Arrived, Counted, Used
    <3>2. ASSUME NEW k \in Slot, u[k].signum = g
          PROVE  u[k] = signals[k]
      BY <3>1, <3>2, <2>1, <1>3 DEF MergedUpto, MergedSlot, Used
    <3>3. ASSUME NEW k \in Slot, signals[k].signum = g
          PROVE  u[k].signum = g
      BY <3>3, <2>1, <1>3 DEF MergedUpto, Used
    <3> QED
      BY <3>2, <3>3, <2>3 DEF After
  <2> QED
    BY <2>2, <2>3
<1>8. Unseen' = Unseen \cup Arrived
  BY <1>4, <1>7 DEF After, Arrived
<1> QED
  BY <1>5, <1>6, <1>8

\* svc_run_active sees one signal: raising last to the oldest new timestamp
\* skips no other, unless another has the same.
LEMMA RunIsSee ==
  ASSUME TypeInv, TableInv, svc_run_active, ~SkipsTied
  PROVE  /\ \E g \in Sig : g \in Unseen /\ Unseen' = Unseen \ {g}
         /\ Pending' = Pending /\ Arrived' = Arrived
<1> DEFINE since == last[Services]
           k == sig_get_new_events(since)
           g == signals[k].signum
           ts == signals[k].last_received_ts
<1>1. /\ Tidy(signals) /\ Stamped(signals) /\ since \in Nat
      /\ NewEvents(since) # {}
      /\ last' = [last EXCEPT ![Services] = ts]
      /\ UNCHANGED <<signals, newSignals>>
  BY DEF svc_run_active, TableInv, TypeInv, TypeOK, Watcher
<1>2. /\ k \in NewEvents(since) /\ k \in Slot
      /\ g \in Sig /\ ts \in Nat /\ signals[k].number_pending \in Nat \ {0}
      /\ \A j \in NewEvents(since) : ts <= signals[j].last_received_ts
  BY <1>1, OldestEvent DEF Tidy
<1>3. last'[Services] = ts
  BY <1>1 DEF TypeInv, TypeOK, Watcher
<1>4. Unseen = After(signals, since)
  BY <1>1, EventsAfter DEF Unseen, NewEvents
<1>5. Unseen' = After(signals, ts)
  BY <1>1, <1>2, <1>3, EventsAfter DEF Unseen, NewEvents
<1>6. ts > since
  <2>1. k \in Used(signals)
    BY <1>2 DEF Used
  <2>2. ts > 0
    BY <2>1, <1>1 DEF Stamped
  <2> QED
    BY <2>2, <1>1, <1>2 DEF NewEvents
<1>7. ASSUME NEW i \in Slot
      PROVE  /\ signals[i].last_received_ts \in Nat
             /\ signals[i].number_pending > 0 => i \in Used(signals)
  BY <1>1, StatusFields DEF Tidy, Table, Used
<1> HIDE DEF k, g, ts, since
<1>8. k \in Used(signals)
  BY <1>2, <1>7
<1>9. ASSUME NEW i \in Slot, signals[i].number_pending > 0, i # k
      PROVE  /\ signals[i].last_received_ts > since <=> signals[i].last_received_ts > ts
             /\ signals[i].signum # g
  <2>1. signals[i].last_received_ts # ts
    <3> SUFFICES ASSUME signals[i].last_received_ts = ts
                 PROVE  FALSE
      OBVIOUS
    <3>1. i \in NewEvents(since)
      BY <1>6, <1>9 DEF NewEvents
    <3>2. \A j \in {i, k} : signals[j].last_received_ts = last'[Services]
      BY <1>3 DEF ts
    <3> QED
      BY <3>1, <3>2, <1>2, <1>9 DEF SkipsTied, since
  <2>2. signals[i].last_received_ts > since => signals[i].last_received_ts >= ts
    BY <1>2, <1>9 DEF NewEvents
  <2>3. signals[i].signum # g
    BY <1>1, <1>7, <1>8, <1>9 DEF Tidy, g
  <2> QED
    BY <2>1, <2>2, <2>3, <1>1, <1>2, <1>6, <1>7
<1>10. g \in Unseen
  BY <1>2, <1>4, <1>6 DEF After, g, ts
<1>11. Unseen' = Unseen \ {g}
  <2>1. ASSUME NEW h \in Sig
        PROVE  h \in After(signals, ts) <=> h \in After(signals, since) /\ h # g
    <3>1. CASE h = g
      <4>1. \A i \in Slot : /\ signals[i].signum = g
                            /\ signals[i].number_pending > 0
                            => i = k
        BY <1>9
      <4>2. ~(signals[k].last_received_ts > ts)
        BY <1>2 DEF ts
      <4> QED
        BY <4>1, <4>2, <3>1 DEF After
    <3>2. CASE h # g
      <4>1. \A i \in Slot : signals[i].signum = h => i # k
        BY <3>2 DEF g
      <4> QED
        BY <4>1, <3>2, <1>9 DEF After
    <3> QED
      BY <3>1, <3>2
  <2> QED
    BY <2>1, <1>4, <1>5 DEF After
<1> QED
  BY <1>1, <1>2, <1>10, <1>11 DEF Pending, Arrived

\* signal.clear clears a signal when it takes the last of its count, and
\* changes no set when the signal came again since the controller was told.
LEMMA ClearIsClear ==
  ASSUME TypeInv, TableInv, TableInv',
         NEW g \in Sig, ctl_cmd_signal_clear(g)
  PROVE  /\ Arrived' = Arrived
         /\ \/ Pending' = Pending /\ Unseen' = Unseen
            \/ g \in Pending /\ Pending' = Pending \ {g} /\ Unseen' = Unseen \ {g}
<1> DEFINE since == last[Services]
           u == signals'
<1>1. /\ u = sig_mark_seen(g, told[g]) /\ told[g] \in Nat /\ told[g] > 0
      /\ UNCHANGED <<newSignals, last>>
  BY DEF ctl_cmd_signal_clear, TypeInv, TypeOK
<1>2. /\ Tidy(signals) /\ Tidy(u) /\ Stamped(signals) /\ Stamped(u) /\ since \in Nat
  BY DEF TableInv, TypeInv, TypeOK, Watcher
<1>3. /\ \A i \in Slot :
           /\ u[i].signum = signals[i].signum
           /\ u[i].last_received_ts = signals[i].last_received_ts
           /\ u[i].number_pending = IF signals[i].signum = g
                                    THEN Minus(signals[i].number_pending, told[g])
                                    ELSE signals[i].number_pending
      /\ PendingCount(u, g) = Minus(PendingCount(signals, g), told[g])
      /\ \A h \in Sig \ {g} : PendingCount(u, h) = PendingCount(signals, h)
  BY <1>1, <1>2, MarkSeen
<1>4. Unseen = After(signals, since)
  BY <1>2, EventsAfter DEF Unseen, NewEvents
<1>5. Unseen' = After(u, since)
  BY <1>1, <1>2, EventsAfter DEF Unseen, NewEvents
<1>6. PendingCount(signals, g) \in Nat /\ told[g] <= PendingCount(signals, g)
  BY <1>2, CountOfSlot DEF TableInv, ToldPending
<1>7. g \in Pending
  BY <1>1, <1>6 DEF Pending
<1>8. Arrived' = Arrived
  BY <1>1 DEF Arrived
<1> HIDE DEF u, since
<1>9. PICK k \in Slot : signals[k].signum = g
  BY <1>2, <1>7, CountOfSlot DEF Pending
<1>10. /\ PendingCount(signals, g) = signals[k].number_pending
       /\ PendingCount(u, g) = u[k].number_pending
  BY <1>2, <1>3, <1>9, CountOfSlot
<1>11. \A i \in Slot : i # k => signals[i].signum # g
  BY <1>2, <1>9 DEF Tidy, Used
<1>12. CASE PendingCount(u, g) > 0
  <2>1. Pending' = Pending
    BY <1>3, <1>7, <1>12 DEF Pending, u
  <2>2. signals[k].number_pending > 0
    BY <1>1, <1>6, <1>10
  <2>3. \A i \in Slot : u[i].number_pending > 0 <=> signals[i].number_pending > 0
    BY <2>2, <1>3, <1>10, <1>11, <1>12
  <2>4. After(u, since) = After(signals, since)
    BY <2>3, <1>3 DEF After
  <2> QED
    BY <2>1, <2>4, <1>4, <1>5, <1>8
<1>13. CASE ~(PendingCount(u, g) > 0)
  <2>1. Pending' = Pending \ {g}
    BY <1>3, <1>13 DEF Pending, u
  <2>2. ASSUME NEW h \in Sig
        PROVE  h \in After(u, since) <=> h \in After(signals, since) /\ h # g
    <3>1. CASE h = g
      <4>1. \A i \in Slot : u[i].signum = g => i = k
        BY <1>3, <1>11
      <4> QED
        BY <4>1, <3>1, <1>10, <1>13 DEF After
    <3>2. CASE h # g
      BY <3>2, <1>3 DEF After
    <3> QED
      BY <3>1, <3>2
  <2>3. Unseen' = Unseen \ {g}
    BY <2>2, <1>4, <1>5 DEF After
  <2> QED
    BY <2>1, <2>3, <1>7, <1>8
<1> QED
  BY <1>12, <1>13

\* A handler's claim is an arrival, unless it takes another signal's slot.
LEMMA ClaimIsArrive ==
  ASSUME TypeInv, TableInv, HandlerClaims, \A h \in Sig : ~Overwrites(h)
  PROVE  /\ \E g \in Sig : Arrived' = Arrived \cup {g}
         /\ Pending' = Pending /\ Unseen' = Unseen
<1>1. /\ Top.sig \in Sig
      /\ PendingCount(newSignals', Top.sig) > 0
      /\ \A h \in Sig \ {Top.sig} :
           PendingCount(newSignals', h) = PendingCount(newSignals, h)
  BY ClaimKeeps
<1>2. PICK g \in Sig : g = Top.sig
  BY <1>1
<1>3. Arrived' = Arrived \cup {g}
  BY <1>1, <1>2 DEF Arrived
<1>4. UNCHANGED <<signals, last>>
  BY DEF HandlerClaims
<1> QED
  BY <1>3, <1>4 DEF Pending, Unseen, NewEvents

\* Each other step is a step of SignalSet or leaves its three sets alone.
LEMMA SetStep ==
  ASSUME TypeInv, TableInv, TypeInv', TableInv', [Next]_vars, ~PartsFromSignalSet
  PROVE  [Abstract!Next]_<<Arrived, Pending, Unseen>>
<1> USE DEF Abstract!Next, Abstract!Arrive, Abstract!Merge, Abstract!See, Abstract!Clear
<1>1. ASSUME UNCHANGED <<newSignals, signals>>, last'[Services] = last[Services]
      PROVE  UNCHANGED <<Arrived, Pending, Unseen>>
  BY <1>1 DEF Arrived, Pending, Unseen, NewEvents
<1>2. CASE Tick \/ (\E g \in Sig : HandlerEnters(g)) \/ UNCHANGED vars
  BY <1>1, <1>2 DEF Tick, HandlerEnters, vars, handlerVars
<1>3. CASE HandlerStamps \/ HandlerFinds \/ HandlerReturns
  BY <1>1, <1>3 DEF HandlerStamps, HandlerFinds, HandlerReturns
<1>4. CASE HandlerClaims
  <2>1. PICK g \in Sig : Arrived' = Arrived \cup {g} /\ Pending' = Pending /\ Unseen' = Unseen
    BY <1>4, ClaimIsArrive DEF PartsFromSignalSet
  <2>2. Abstract!Arrive(g)
    BY <2>1
  <2> QED
    BY <2>2
<1>5. CASE merge_new_signals
  <2>1. Abstract!Merge
    BY <1>5, MergeIsMerge DEF PartsFromSignalSet
  <2> QED
    BY <2>1
<1>6. CASE svc_run_active
  <2>1. PICK g \in Sig : /\ g \in Unseen /\ Unseen' = Unseen \ {g}
                         /\ Pending' = Pending /\ Arrived' = Arrived
    BY <1>6, RunIsSee DEF PartsFromSignalSet
  <2>2. Abstract!See(g)
    BY <2>1
  <2> QED
    BY <2>2
<1>7. CASE ctl_deliver_signals \/ ctl_state_next_command \/ ctl_state_run_command
           \/ ctl_state_dump_services
  <2>1. UNCHANGED <<signals, newSignals>> /\ last'[Services] = last[Services]
    BY <1>7 DEF ctl_deliver_signals, ctl_state_next_command, ctl_state_run_command,
                ctl_state_dump_services, TypeInv, TypeOK, Watcher
  <2> QED
    BY <2>1, <1>1
<1>8. ASSUME NEW g \in Sig, ctl_cmd_signal_clear(g)
      PROVE  [Abstract!Next]_<<Arrived, Pending, Unseen>>
  <2>1. CASE UNCHANGED <<Arrived, Pending, Unseen>>
    BY <2>1
  <2>2. CASE /\ g \in Pending /\ Pending' = Pending \ {g} /\ Unseen' = Unseen \ {g}
             /\ Arrived' = Arrived
    <3>1. Abstract!Clear(g)
      BY <2>2
    <3> QED
      BY <3>1
  <2> QED
    BY <2>1, <2>2, <1>8, ClearIsClear
<1> QED
  BY <1>2, <1>3, <1>4, <1>5, <1>6, <1>7, <1>8 DEF Next, Handler, CtlRun

\* For any number of stacked handlers, whatever times they read: the two tables,
\* their counts and their timestamps are the three sets of SignalSet for
\* svc_run_active, but for three kinds of step.  No other step skips a signal,
\* shows it twice or takes it out by a signal.clear that came too late.
THEOREM TablesFollowSignalSet == Spec => FollowsSignalSet
<1>1. Init => Abstract!Init
  <2> SUFFICES ASSUME Init
               PROVE  Abstract!Init
    OBVIOUS
  <2>1. \A g \in Sig : PendingCount(signals, g) = 0 /\ PendingCount(newSignals, g) = 0
    BY EmptyTable DEF Init
  <2>2. \A i \in Slot : signals[i].number_pending = 0
    BY FreeStatus DEF Init
  <2> QED
    BY <2>1, <2>2 DEF Abstract!Init, Arrived, Pending, Unseen, NewEvents
<1>2. TypeInv /\ TableInv /\ TypeInv' /\ TableInv' /\ [Next]_vars
      => [Abstract!Next \/ PartsFromSignalSet]_<<Arrived, Pending, Unseen>>
  BY SetStep
<1> QED
  BY <1>1, <1>2, TypesKept, TablesKept, PTL DEF Spec, FollowsSignalSet

=============================================================================
