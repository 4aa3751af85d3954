-------------------------- MODULE ControllersProofs -------------------------
(***************************************************************************)
(* Proofs about Controllers for every number of clients, descriptors and  *)
(* names: until a controller uses a number that has become another's, no  *)
(* number is left open without a holder or has two, and a controller with *)
(* both directions open has only numbers of its own.                      *)
(***************************************************************************)
EXTENDS Controllers, FdTableProofs

\* A controller that may have numbers open.
Live(c) == c.state \in {"next", "close"}

\* How the fields of controller i agree with what numbers are open for.
Fit(f, i, c) ==
    /\ Live(c) =>
          /\ \A k \in 1..Len(c.anc) : f[c.anc[k]] = Sent[i]
          /\ \A k, m \in 1..Len(c.anc) : c.anc[k] = c.anc[m] => k = m
          /\ c.recv >= 0 => f[c.recv] # Sent[i]
          /\ c.send >= 0 => f[c.send] # Sent[i]
    /\ c.state = "close" => c.recv = -1
    /\ c.state = "next" /\ c.recv >= 0 /\ c.send >= 0 =>
          f[c.recv] = Line[i] /\ f[c.send] = Line[i]

\* Controller i has in its fields number n, which is open for it.
Has(f, n, i, c) ==
    /\ Live(c)
    /\ \/ f[n] = Line[i] /\ n \in {c.recv, c.send}
       \/ f[n] = Sent[i] /\ \E k \in 1..Len(c.anc) : c.anc[k] = n

\* Numbers that are open for no name.
Others(f) == {n \in Num : f[n] \in Use}

\* Each of them is the control socket's or a controller's.
Placed(f, cl, cs) ==
    /\ \A n \in Others(f) :
          \/ f[n] = "control socket" /\ n = cs
          \/ \E i \in Slot : Has(f, n, i, cl[i])
    /\ cs >= 0 => f[cs] = "control socket"
    /\ \A i \in Slot : Fit(f, i, cl[i])

ClientRec ==
    [state : {"none", "next", "close", "free"}, recv : Num \cup {-1},
     send : Num \cup {-1}, anc : Seq(Num), left : Int, eventsOnly : BOOLEAN]

Typed(f, o, l, cl, cs) ==
    /\ f \in [Num -> What] /\ o \in ObjFns /\ l \in LogRec
    /\ cl \in [Slot -> ClientRec]
    /\ cs \in Num \cup {-1}

Kept(f, o, cl, cs) == Own(f, o, Others(f)) /\ Placed(f, cl, cs)

\* The inductive invariant.
CtlInv ==
    /\ Typed(file, obj, log, client, control_socket)
    /\ ~astray => Kept(file, obj, client, control_socket)

-----------------------------------------------------------------------------
(* Uses.                                                                   *)

\* What numbers are open for tells controllers, the socket and names apart.
LEMMA UsesApart ==
  /\ Use \cap (Names \cup {"closed"}) = {}
  /\ Use \subseteq What
  /\ \A i \in Slot : Line[i] \in Use /\ Sent[i] \in Use
  /\ \A i, j \in Slot : /\ Line[i] # Sent[j]
                        /\ Line[i] = Line[j] => i = j
                        /\ Sent[i] = Sent[j] => i = j
  /\ "control socket" \in Use
  /\ \A i \in Slot : Line[i] # "control socket" /\ Sent[i] # "control socket"
<1>1. Range(Std) = {"stdin", "stdout", "stderr", "fd_3", "fd_4"}
  <2>1. DOMAIN Std = 1..5
    BY DEF Std
  <2>2. \A i \in 1..5 : i = 1 \/ i = 2 \/ i = 3 \/ i = 4 \/ i = 5
    OBVIOUS
  <2>3. Std[1] = "stdin" /\ Std[2] = "stdout" /\ Std[3] = "stderr"
        /\ Std[4] = "fd_3" /\ Std[5] = "fd_4"
    BY DEF Std
  <2> HIDE DEF Std
  <2> QED
    BY <2>1, <2>2, <2>3 DEF Range
<1>2. /\ Line \in [Slot -> Use] /\ Sent \in [Slot -> Use]
      /\ \A i, j \in Slot : Line[i] = Line[j] => i = j
      /\ \A i, j \in Slot : Sent[i] = Sent[j] => i = j
  BY ControllersAssumption, Zenon DEF Injection, IsInjective, Slot
<1>3. \A i \in Slot : Line[i] \in Range(Line) /\ Sent[i] \in Range(Sent)
  BY <1>2 DEF Range
<1>4. Use \cap (Names \cup {"closed"}) = {}
  BY <1>1, FdTableAssumption DEF Names
<1>5. /\ \A i, j \in Slot : Line[i] # Sent[j]
      /\ "control socket" \in Use
      /\ \A i \in Slot : Line[i] # "control socket" /\ Sent[i] # "control socket"
  BY <1>3, ControllersAssumption, Zenon
<1> QED
  BY <1>2, <1>4, <1>5, Zenon DEF What

\* A number opened for a use is the only one that changes, and no name's.
LEMMA OpenUse ==
  ASSUME NEW f \in [Num -> What], NEW o, DOMAIN o \subseteq Names, Own(f, o, Others(f)),
         NEW w \in Use, Unused(f) # {}, NEW g, g = Opened(f, w), NEW n, n = Lowest(f)
  PROVE  /\ g \in [Num -> What] /\ Own(g, o, Others(g))
         /\ n \in Num /\ f[n] = "closed" /\ g[n] = w
         /\ \A m \in Num \ {n} : g[m] = f[m]
<1>1. n \in Num /\ f[n] = "closed"
  BY LowestFree DEF Unused
<1>2. w \in What /\ w # "closed"
  BY UsesApart, Zenon
<1>3. g = [f EXCEPT ![n] = w]
  BY DEF Opened
<1>4. g \in [Num -> What] /\ g[n] = w /\ \A m \in Num \ {n} : g[m] = f[m]
  BY <1>1, <1>2, <1>3
<1>5. Others(g) = Others(f) \cup {n}
  BY <1>1, <1>4 DEF Others
<1>6. Own(g, o, Others(f) \cup {n})
  BY <1>2, OwnOpened
<1> QED
  BY <1>1, <1>4, <1>5, <1>6

\* Closing numbers that are open for a use, or closed, concerns no name.
LEMMA CloseUses ==
  ASSUME NEW f \in [Num -> What], NEW o, Own(f, o, Others(f)),
         NEW ns, \A n \in ns : n \in Num /\ f[n] \in Use \cup {"closed"},
         NEW g, g = ClosedAll(f, ns)
  PROVE  /\ g \in [Num -> What] /\ Own(g, o, Others(g))
         /\ \A n \in Num : g[n] = IF n \in ns THEN "closed" ELSE f[n]
<1>1. /\ g \in [Num -> What]
      /\ \A n \in Num : g[n] = IF n \in ns THEN "closed" ELSE f[n]
  BY DEF ClosedAll, What
<1>2. Others(g) = Others(f) \ ns
  BY <1>1, UsesApart, Zenon DEF Others
<1>3. \A n \in Num : n \notin Others(f) => g[n] = f[n]
  BY <1>1 DEF Others
<1>4. Own(g, o, Others(f) \ ns)
  <2>1. \A n \in Others(f) \ ns : g[n] # "closed"
    BY <1>1 DEF Own
  <2>2. \A n \in Num : g[n] # "closed" =>
            n \in Others(f) \ ns \/ \E k \in DOMAIN o : o[k].num = n
    BY <1>1 DEF Own
  <2>3. \A k \in DOMAIN o : o[k].num \in Num =>
            o[k].num \notin Others(f) \ ns /\ g[o[k].num] \in {k, "null"}
    BY <1>3 DEF Own
  <2> QED
    BY <2>1, <2>2, <2>3 DEF Own
<1> QED
  BY <1>1, <1>2, <1>4

\* close() of one number.
LEMMA CloseOne ==
  ASSUME NEW f \in [Num -> What], NEW n \in Num
  PROVE  Closed(f, n) = ClosedAll(f, {n})
  BY Zenon DEF Closed, ClosedAll

-----------------------------------------------------------------------------
(* Who has a number.                                                       *)

\* Whether the fields agree depends only on the numbers open for the controller.
LEMMA FitSame ==
  ASSUME NEW f \in [Num -> What], NEW g \in [Num -> What], NEW j \in Slot,
         NEW c \in ClientRec, Fit(f, j, c),
         \A n \in Num : /\ f[n] \in {Line[j], Sent[j]} => g[n] = f[n]
                        /\ g[n] = Sent[j] => f[n] = g[n]
  PROVE  Fit(g, j, c)
<1>1. /\ c.recv \in Num \cup {-1} /\ c.send \in Num \cup {-1} /\ c.anc \in Seq(Num)
  BY DEF ClientRec
<1>2. /\ c.recv >= 0 => c.recv \in Num
      /\ c.send >= 0 => c.send \in Num
      /\ \A k \in 1..Len(c.anc) : c.anc[k] \in Num
  BY <1>1
<1> QED
  BY <1>2 DEF Fit

\* What numbers are open for that controller i does not have.
Alien(i) == Use \ {Line[i], Sent[i]}

\* What controller i does to its own numbers, or to those of names, is no
\* concern of the others.
LEMMA ChangeOne ==
  ASSUME NEW f \in [Num -> What], NEW g \in [Num -> What], NEW cl \in [Slot -> ClientRec],
         NEW cs \in Num \cup {-1}, Placed(f, cl, cs), NEW i \in Slot, NEW c \in ClientRec,
         \A n \in Num : g[n] # f[n] => f[n] \notin Alien(i) /\ g[n] \notin Alien(i),
         Fit(g, i, c),
         \A n \in Num : g[n] \in {Line[i], Sent[i]} => Has(g, n, i, c)
  PROVE  Placed(g, [cl EXCEPT ![i] = c], cs)
<1> DEFINE d == [cl EXCEPT ![i] = c]
<1>1. d[i] = c /\ \A j \in Slot : j # i => d[j] = cl[j]
  OBVIOUS
<1> HIDE DEF d
<1>2. ASSUME NEW n \in Others(g)
      PROVE  \/ g[n] = "control socket" /\ n = cs
             \/ \E j \in Slot : Has(g, n, j, d[j])
  <2>1. CASE g[n] \in {Line[i], Sent[i]}
    BY <1>1, <1>2, <2>1, Zenon DEF Others
  <2>2. CASE g[n] \notin {Line[i], Sent[i]}
    <3>1. n \in Num /\ g[n] \in Alien(i) /\ f[n] = g[n] /\ n \in Others(f)
      BY <1>2, <2>2 DEF Others, Alien
    <3>2. CASE f[n] = "control socket" /\ n = cs
      BY <3>1, <3>2, Zenon
    <3>3. ASSUME NEW j \in Slot, Has(f, n, j, cl[j]) PROVE \E k \in Slot : Has(g, n, k, d[k])
      <4>1. j # i
        BY <2>2, <3>1, <3>3 DEF Has
      <4>2. Has(g, n, j, d[j])
        BY <1>1, <3>1, <3>3, <4>1 DEF Has
      <4> QED
        BY <4>2
    <3> QED
      BY <3>1, <3>2, <3>3, Zenon DEF Placed
  <2> QED
    BY <2>1, <2>2, Zenon
<1>3. cs >= 0 => g[cs] = "control socket"
  <2> SUFFICES ASSUME cs >= 0 PROVE g[cs] = "control socket"
    BY Zenon
  <2>1. cs # -1
    OBVIOUS
  <2>2. cs \in Num /\ f[cs] = "control socket"
    BY <2>1, Zenon DEF Placed
  <2> QED
    BY <2>2, UsesApart, Zenon DEF Alien
<1>4. ASSUME NEW j \in Slot PROVE Fit(g, j, d[j])
  <2>1. CASE j = i
    BY <1>1, <2>1
  <2>2. CASE j # i
    <3>1. Fit(f, j, cl[j]) /\ d[j] = cl[j] /\ cl[j] \in ClientRec
      BY <1>1, <2>2, Zenon DEF Placed
    <3>2. Line[j] \in Alien(i) /\ Sent[j] \in Alien(i)
      BY <2>2, UsesApart, Zenon DEF Alien
    <3>3. \A n \in Num : /\ f[n] \in {Line[j], Sent[j]} => g[n] = f[n]
                         /\ g[n] = Sent[j] => f[n] = g[n]
      BY <3>2
    <3> QED
      BY <3>1, <3>3, FitSame
  <2> QED
    BY <2>1, <2>2
<1> QED
  BY <1>2, <1>3, <1>4, Zenon DEF Placed, d

\* A number open for controller i is in its fields.
LEMMA OnlyOwn ==
  ASSUME NEW f \in [Num -> What], NEW cl \in [Slot -> ClientRec], NEW cs,
         Placed(f, cl, cs), NEW i \in Slot, NEW n \in Num, f[n] \in {Line[i], Sent[i]}
  PROVE  Has(f, n, i, cl[i])
<1>1. n \in Others(f) /\ f[n] # "control socket"
  BY UsesApart, Zenon DEF Others
<1>2. PICK j \in Slot : Has(f, n, j, cl[j])
  BY <1>1, Zenon DEF Placed
<1>3. j = i
  BY <1>2, UsesApart, Zenon DEF Has
<1> QED
  BY <1>2, <1>3

-----------------------------------------------------------------------------
(* What the actions do.                                                    *)

\* A controller is built for a number that has just been opened.
LEMMA Arrives ==
  ASSUME NEW f, NEW o, NEW l, NEW cl, NEW cs, Typed(f, o, l, cl, cs), Kept(f, o, cl, cs),
         NEW i \in Slot, ~Live(cl[i]), Unused(f) # {}, NEW n, n = Lowest(f),
         NEW g, g = Opened(f, Line[i]),
         NEW c \in ClientRec, c.state = "next", c.anc = <<>>,
         c.recv = n \/ c.recv = -1, c.send = n \/ c.send = -1, c.recv = n \/ c.send = n
  PROVE  g \in [Num -> What] /\ Kept(g, o, [cl EXCEPT ![i] = c], cs)
<1>0. /\ f \in [Num -> What] /\ DOMAIN o \subseteq Names /\ cl \in [Slot -> ClientRec]
      /\ cs \in Num \cup {-1} /\ Own(f, o, Others(f)) /\ Placed(f, cl, cs)
  BY ObjFn DEF Typed, Kept
<1>1. /\ g \in [Num -> What] /\ Own(g, o, Others(g))
      /\ n \in Num /\ f[n] = "closed" /\ g[n] = Line[i]
      /\ \A m \in Num \ {n} : g[m] = f[m]
  <2> DEFINE w == Line[i]
  <2>1. w \in Use
    BY UsesApart, Zenon
  <2> HIDE DEF w
  <2>2. g = Opened(f, w)
    BY DEF w
  <2> QED
    BY <1>0, <2>1, <2>2, OpenUse DEF w
<1>2. \A m \in Num : f[m] \notin {Line[i], Sent[i]}
  BY <1>0, OnlyOwn DEF Has
<1>3. Fit(g, i, c)
  <2>1. Line[i] # Sent[i]
    BY UsesApart, Zenon
  <2>2. Len(c.anc) = 0
    OBVIOUS
  <2> QED
    BY <1>1, <2>1, <2>2 DEF Fit
<1>4. \A m \in Num : g[m] \in {Line[i], Sent[i]} => Has(g, m, i, c)
  BY <1>1, <1>2 DEF Has, Live
<1>5. \A m \in Num : g[m] # f[m] => f[m] \notin Alien(i) /\ g[m] \notin Alien(i)
  BY <1>1, UsesApart, Zenon DEF Alien
<1>6. Placed(g, [cl EXCEPT ![i] = c], cs)
  BY <1>0, <1>1, <1>3, <1>4, <1>5, ChangeOne, Zenon
<1> QED
  BY <1>1, <1>6 DEF Kept

\* Controller i closes numbers of its own, and keeps what else is open for it.
LEMMA Shuts ==
  ASSUME NEW f, NEW o, NEW l, NEW cl, NEW cs, Typed(f, o, l, cl, cs), Kept(f, o, cl, cs),
         NEW i \in Slot,
         NEW ns, \A n \in ns : n \in Num /\ f[n] \in {"closed", Line[i], Sent[i]},
         NEW g, g = ClosedAll(f, ns), NEW c \in ClientRec, Fit(g, i, c),
         \A n \in Num \ ns : Has(f, n, i, cl[i]) => Has(f, n, i, c)
  PROVE  g \in [Num -> What] /\ Kept(g, o, [cl EXCEPT ![i] = c], cs)
<1>0. /\ f \in [Num -> What] /\ cl \in [Slot -> ClientRec]
      /\ cs \in Num \cup {-1} /\ Own(f, o, Others(f)) /\ Placed(f, cl, cs)
  BY DEF Typed, Kept
<1>1. /\ g \in [Num -> What] /\ Own(g, o, Others(g))
      /\ \A n \in Num : g[n] = IF n \in ns THEN "closed" ELSE f[n]
  <2>1. \A n \in ns : n \in Num /\ f[n] \in Use \cup {"closed"}
    BY UsesApart, Zenon
  <2> QED
    BY <1>0, <2>1, CloseUses
<1>2. Line[i] # "closed" /\ Sent[i] # "closed"
  BY UsesApart, Zenon
<1>3. ASSUME NEW n \in Num, g[n] \in {Line[i], Sent[i]} PROVE Has(g, n, i, c)
  <2>1. n \notin ns /\ g[n] = f[n]
    BY <1>1, <1>2, <1>3
  <2>2. Has(f, n, i, cl[i])
    BY <1>0, <1>3, <2>1, OnlyOwn
  <2> QED
    BY <2>1, <2>2 DEF Has
<1>4. \A n \in Num : g[n] # f[n] => f[n] \notin Alien(i) /\ g[n] \notin Alien(i)
  BY <1>1, UsesApart, Zenon DEF Alien
<1>5. Placed(g, [cl EXCEPT ![i] = c], cs)
  BY <1>0, <1>1, <1>3, <1>4, ChangeOne, Zenon
<1> QED
  BY <1>1, <1>5 DEF Kept

\* The fields of controller i change, and no number.
LEMMA Rests ==
  ASSUME NEW f, NEW o, NEW l, NEW cl, NEW cs, Typed(f, o, l, cl, cs), Kept(f, o, cl, cs),
         NEW i \in Slot, NEW c \in ClientRec, Fit(f, i, c),
         \A n \in Num : Has(f, n, i, cl[i]) => Has(f, n, i, c)
  PROVE  Kept(f, o, [cl EXCEPT ![i] = c], cs)
<1>1. f = ClosedAll(f, {})
  BY DEF Typed, ClosedAll
<1>2. \A n \in {} : n \in Num /\ f[n] \in {"closed", Line[i], Sent[i]}
  OBVIOUS
<1>3. \A n \in Num \ {} : Has(f, n, i, cl[i]) => Has(f, n, i, c)
  OBVIOUS
<1> QED
  BY <1>1, <1>2, <1>3, Shuts

\* A descriptor comes with the input of controller i.
LEMMA Receives ==
  ASSUME NEW f, NEW o, NEW l, NEW cl, NEW cs, Typed(f, o, l, cl, cs), Kept(f, o, cl, cs),
         NEW i \in Slot, cl[i].state = "next", cl[i].recv >= 0, f[cl[i].recv] = Line[i],
         Unused(f) # {}, NEW n, n = Lowest(f), NEW g, g = Opened(f, Sent[i]),
         NEW c \in ClientRec, c.state = "next", c.recv = cl[i].recv, c.send = cl[i].send,
         c.anc = Append(cl[i].anc, n)
  PROVE  g \in [Num -> What] /\ Kept(g, o, [cl EXCEPT ![i] = c], cs)
<1>0. /\ f \in [Num -> What] /\ DOMAIN o \subseteq Names /\ cl \in [Slot -> ClientRec]
      /\ cs \in Num \cup {-1} /\ Own(f, o, Others(f)) /\ Placed(f, cl, cs)
  BY ObjFn DEF Typed, Kept
<1>1. /\ g \in [Num -> What] /\ Own(g, o, Others(g))
      /\ n \in Num /\ f[n] = "closed" /\ g[n] = Sent[i]
      /\ \A m \in Num \ {n} : g[m] = f[m]
  <2> DEFINE w == Sent[i]
  <2>1. w \in Use
    BY UsesApart, Zenon
  <2> HIDE DEF w
  <2>2. g = Opened(f, w)
    BY DEF w
  <2> QED
    BY <1>0, <2>1, <2>2, OpenUse DEF w
<1>2. /\ Line[i] # Sent[i] /\ Line[i] # "closed" /\ Sent[i] # "closed"
  BY UsesApart, Zenon
<1> DEFINE e == cl[i]
           a == e.anc
           L == Len(a)
<1>3. /\ Fit(f, i, e) /\ a \in Seq(Num)
      /\ e.recv \in Num \cup {-1} /\ e.send \in Num \cup {-1}
  BY <1>0, Zenon DEF Placed, ClientRec
<1>4. /\ L \in Nat /\ Len(c.anc) = L + 1 /\ c.anc[L + 1] = n
      /\ \A k \in 1..L : c.anc[k] = a[k] /\ a[k] \in Num /\ f[a[k]] = Sent[i]
      /\ \A k, m \in 1..L : a[k] = a[m] => k = m
  BY <1>3 DEF Fit, Live
<1>5. \A k \in 1..L : a[k] # n
  BY <1>1, <1>2, <1>4
<1>6. /\ e.recv \in Num \ {n}
      /\ e.send >= 0 => e.send \in Num \ {n} /\ f[e.send] = Line[i]
  <2>1. e.recv # -1 /\ (e.send >= 0 => e.send # -1)
    OBVIOUS
  <2>2. e.send >= 0 => f[e.send] = Line[i]
    BY <1>3 DEF Fit
  <2> QED
    BY <1>1, <1>2, <1>3, <2>1, <2>2
<1> HIDE DEF e, a, L
<1>7. Fit(g, i, c)
  <2>1. \A k \in 1..(L + 1) : k \in 1..L \/ k = L + 1
    BY <1>4
  <2>2. \A k \in 1..Len(c.anc) : g[c.anc[k]] = Sent[i]
    BY <1>1, <1>4, <1>5, <2>1
  <2>3. \A k, m \in 1..Len(c.anc) : c.anc[k] = c.anc[m] => k = m
    BY <1>4, <1>5, <2>1
  <2>4. /\ g[c.recv] = Line[i]
        /\ c.send >= 0 => g[c.send] = Line[i]
    BY <1>1, <1>6 DEF e
  <2> QED
    BY <1>2, <2>2, <2>3, <2>4 DEF Fit
<1>8. ASSUME NEW m \in Num, g[m] \in {Line[i], Sent[i]} PROVE Has(g, m, i, c)
  <2>1. CASE m = n
    <3>1. L + 1 \in 1..Len(c.anc)
      BY <1>4
    <3> QED
      BY <1>1, <1>4, <2>1, <3>1 DEF Has, Live
  <2>2. CASE m # n
    <3>1. g[m] = f[m] /\ Has(f, m, i, e)
      BY <1>0, <1>1, <1>8, <2>2, OnlyOwn DEF e
    <3>2. CASE \E k \in 1..Len(e.anc) : e.anc[k] = m
      <4>1. PICK k \in 1..L : a[k] = m
        BY <3>2 DEF a, L
      <4>2. k \in 1..Len(c.anc) /\ c.anc[k] = m
        BY <1>4, <4>1
      <4> QED
        BY <1>8, <3>1, <4>2 DEF Has, Live, e
    <3>3. CASE f[m] = Line[i] /\ m \in {e.recv, e.send}
      BY <3>1, <3>3 DEF Has, Live, e
    <3> QED
      BY <3>1, <3>2, <3>3 DEF Has
  <2> QED
    BY <2>1, <2>2
<1>9. \A m \in Num : g[m] # f[m] => f[m] \notin Alien(i) /\ g[m] \notin Alien(i)
  BY <1>1, UsesApart, Zenon DEF Alien
<1>10. Placed(g, [cl EXCEPT ![i] = c], cs)
  BY <1>0, <1>1, <1>7, <1>8, <1>9, ChangeOne, Zenon
<1> QED
  BY <1>1, <1>10 DEF Kept

\* A number that some name has, or that is closed, is open for no use.
LEMMA NamedOnly ==
  ASSUME NEW g \in [Num -> What], NEW p \in ObjFns, NEW D, Own(g, p, D),
         \A n \in D : g[n] \in Use
  PROVE  Others(g) = D
<1>1. DOMAIN p \subseteq Names /\ "null" \in Names
  BY ObjFn DEF Names
<1>2. ASSUME NEW n \in Num, g[n] \in Use, n \notin D PROVE FALSE
  <2>1. g[n] # "closed"
    BY <1>2, UsesApart, Zenon
  <2>2. PICK k \in DOMAIN p : p[k].num = n
    BY <1>2, <2>1 DEF Own
  <2>3. g[n] \in {k, "null"}
    BY <1>2, <2>2 DEF Own
  <2> QED
    BY <1>1, <1>2, <2>2, <2>3, UsesApart, Zenon
<1>3. D \subseteq Num
  BY DEF Own
<1> QED
  BY <1>2, <1>3 DEF Others

\* A command of controller i changes names and their numbers.
LEMMA Renames ==
  ASSUME NEW f, NEW o, NEW l, NEW cl, NEW cs, Typed(f, o, l, cl, cs), Kept(f, o, cl, cs),
         NEW i \in Slot, NEW g \in [Num -> What], NEW p \in ObjFns,
         Own(g, p, Others(f)), \A n \in Others(f) : g[n] = f[n],
         NEW c \in ClientRec, c.state = cl[i].state, c.recv = cl[i].recv,
         c.send = cl[i].send, c.anc = cl[i].anc
  PROVE  Kept(g, p, [cl EXCEPT ![i] = c], cs)
<1>0. /\ f \in [Num -> What] /\ cl \in [Slot -> ClientRec]
      /\ cs \in Num \cup {-1} /\ Placed(f, cl, cs)
  BY DEF Typed, Kept
<1>1. Others(g) = Others(f)
  <2>1. \A n \in Others(f) : g[n] \in Use
    BY DEF Others
  <2> QED
    BY <2>1, NamedOnly
<1>2. \A n \in Num : f[n] \in Use \/ g[n] \in Use => g[n] = f[n]
  BY <1>1 DEF Others
<1>3. Line[i] \in Use /\ Sent[i] \in Use
  BY UsesApart, Zenon
<1>4. Fit(g, i, c)
  <2>1. Fit(f, i, cl[i]) /\ cl[i] \in ClientRec
    BY <1>0, Zenon DEF Placed
  <2>2. Fit(f, i, c)
    BY <2>1 DEF Fit, Live
  <2>3. \A n \in Num : /\ f[n] \in {Line[i], Sent[i]} => g[n] = f[n]
                       /\ g[n] = Sent[i] => f[n] = g[n]
    BY <1>2, <1>3
  <2> QED
    BY <1>0, <2>2, <2>3, FitSame
<1>5. ASSUME NEW n \in Num, g[n] \in {Line[i], Sent[i]} PROVE Has(g, n, i, c)
  <2>1. g[n] = f[n]
    BY <1>2, <1>3, <1>5
  <2>2. Has(f, n, i, cl[i])
    BY <1>0, <1>5, <2>1, OnlyOwn
  <2> QED
    BY <2>1, <2>2 DEF Has, Live
<1>6. \A n \in Num : g[n] # f[n] => f[n] \notin Alien(i) /\ g[n] \notin Alien(i)
  BY <1>2 DEF Alien
<1>7. Placed(g, [cl EXCEPT ![i] = c], cs)
  BY <1>0, <1>4, <1>5, <1>6, ChangeOne, Zenon
<1> QED
  BY <1>1, <1>7 DEF Kept

\* fd.take: the first of the descriptors received goes to a name, or is closed.
LEMMA TakesFirst ==
  ASSUME NEW f, NEW o, NEW l, NEW cl, NEW cs, Typed(f, o, l, cl, cs), Kept(f, o, cl, cs),
         NEW i \in Slot, cl[i].state = "next", cl[i].anc # <<>>,
         NEW g \in [Num -> What], NEW p \in ObjFns,
         NEW D, D = Others(f) \ {Head(cl[i].anc)},
         Own(g, p, D), \A n \in D : g[n] = f[n],
         NEW c \in ClientRec, c.state = "next", c.recv = cl[i].recv,
         c.send = cl[i].send, c.anc = Tail(cl[i].anc)
  PROVE  Kept(g, p, [cl EXCEPT ![i] = c], cs)
<1>0. /\ f \in [Num -> What] /\ cl \in [Slot -> ClientRec]
      /\ cs \in Num \cup {-1} /\ Placed(f, cl, cs)
  BY DEF Typed, Kept
<1> DEFINE e == cl[i]
           a == e.anc
           new == Head(a)
           L == Len(a)
<1>1. /\ Fit(f, i, e) /\ a \in Seq(Num) /\ a # <<>>
      /\ e.recv \in Num \cup {-1} /\ e.send \in Num \cup {-1}
  BY <1>0, Zenon DEF Placed, ClientRec
<1>2. /\ L \in Nat /\ L >= 1 /\ new = a[1] /\ Len(c.anc) = L - 1
      /\ \A k \in 1..(L - 1) : c.anc[k] = a[k + 1]
  BY <1>1
<1>3. /\ \A k \in 1..L : a[k] \in Num /\ f[a[k]] = Sent[i]
      /\ \A k, m \in 1..L : a[k] = a[m] => k = m
  BY <1>1 DEF Fit, Live
<1>4. new \in Num /\ f[new] = Sent[i]
  <2>1. 1 \in 1..L
    BY <1>2
  <2> QED
    BY <1>2, <1>3, <2>1
<1>5. Others(g) = D
  <2>1. \A n \in D : g[n] \in Use
    BY DEF Others
  <2> QED
    BY <2>1, NamedOnly
<1>6. \A n \in Num : n # new /\ (f[n] \in Use \/ g[n] \in Use) => g[n] = f[n]
  BY <1>5 DEF Others
<1>7. g[new] \notin Use
  BY <1>4, <1>5 DEF Others
<1>8. Line[i] \in Use /\ Sent[i] \in Use /\ Line[i] # Sent[i]
  BY UsesApart, Zenon
<1> HIDE DEF e, a, new, L
<1>9. Fit(g, i, c)
  <2>1. \A k \in 1..(L - 1) : k + 1 \in 1..L /\ k + 1 # 1
    BY <1>2
  <2>2. 1 \in 1..L
    BY <1>2
  <2>3. \A k \in 1..Len(c.anc) : c.anc[k] \in Num \ {new} /\ f[c.anc[k]] = Sent[i]
    <3> SUFFICES ASSUME NEW k \in 1..Len(c.anc)
                 PROVE  c.anc[k] \in Num \ {new} /\ f[c.anc[k]] = Sent[i]
      OBVIOUS
    <3>1. k \in 1..(L - 1)
      BY <1>2
    <3>2. PICK m \in 1..L : m = k + 1 /\ m # 1
      BY <2>1, <3>1
    <3>3. c.anc[k] = a[m]
      BY <1>2, <3>1, <3>2
    <3>4. a[m] \in Num /\ f[a[m]] = Sent[i] /\ a[m] # a[1]
      BY <1>3, <2>2, <3>2
    <3> QED
      BY <1>2, <3>3, <3>4
  <2>4. \A k \in 1..Len(c.anc) : g[c.anc[k]] = Sent[i]
    BY <1>6, <1>8, <2>3
  <2>5. \A k, m \in 1..Len(c.anc) : c.anc[k] = c.anc[m] => k = m
    <3> SUFFICES ASSUME NEW k \in 1..Len(c.anc), NEW m \in 1..Len(c.anc),
                        c.anc[k] = c.anc[m]
                 PROVE  k = m
      OBVIOUS
    <3>1. k \in 1..(L - 1) /\ m \in 1..(L - 1)
      BY <1>2
    <3>2. k + 1 \in 1..L /\ m + 1 \in 1..L
      BY <2>1, <3>1
    <3>3. a[k + 1] = a[m + 1]
      BY <1>2, <3>1
    <3>4. k + 1 = m + 1
      BY <1>3, <3>2, <3>3
    <3> QED
      BY <3>1, <3>4
  <2>6. /\ e.recv >= 0 => e.recv \in Num /\ f[e.recv] # Sent[i]
        /\ e.send >= 0 => e.send \in Num /\ f[e.send] # Sent[i]
    BY <1>1 DEF Fit, Live, e
  <2>7. /\ c.recv >= 0 => g[c.recv] # Sent[i]
        /\ c.send >= 0 => g[c.send] # Sent[i]
    BY <1>4, <1>6, <1>8, <2>6 DEF e
  <2>8. c.recv >= 0 /\ c.send >= 0 => g[c.recv] = Line[i] /\ g[c.send] = Line[i]
    <3>1. e.recv >= 0 /\ e.send >= 0 => f[e.recv] = Line[i] /\ f[e.send] = Line[i]
      BY <1>1 DEF Fit, e
    <3> QED
      BY <1>4, <1>6, <1>8, <2>6, <3>1 DEF e
  <2> QED
    BY <2>4, <2>5, <2>7, <2>8 DEF Fit
<1>10. ASSUME NEW n \in Num, g[n] \in {Line[i], Sent[i]} PROVE Has(g, n, i, c)
  <2>1. n # new /\ g[n] = f[n]
    BY <1>6, <1>7, <1>8, <1>10
  <2>2. Has(f, n, i, e)
    BY <1>0, <1>10, <2>1, OnlyOwn DEF e
  <2>3. CASE \E k \in 1..Len(e.anc) : e.anc[k] = n
    <3>1. PICK k \in 1..L : a[k] = n
      BY <2>3 DEF a, L
    <3>2. k # 1
      BY <1>2, <2>1, <3>1
    <3>3. k - 1 \in 1..(L - 1) /\ (k - 1) + 1 = k
      BY <1>2, <3>2
    <3>4. k - 1 \in 1..Len(c.anc) /\ c.anc[k - 1] = n
      BY <1>2, <3>1, <3>3
    <3> QED
      BY <1>10, <2>1, <2>2, <3>4 DEF Has, Live, e
  <2>4. CASE f[n] = Line[i] /\ n \in {e.recv, e.send}
    BY <2>1, <2>4 DEF Has, Live, e
  <2> QED
    BY <2>2, <2>3, <2>4 DEF Has
<1>11. \A n \in Num : g[n] # f[n] => f[n] \notin Alien(i) /\ g[n] \notin Alien(i)
  BY <1>4, <1>6, <1>7 DEF Alien
<1>12. Placed(g, [cl EXCEPT ![i] = c], cs)
  BY <1>0, <1>9, <1>10, <1>11, ChangeOne, Zenon
<1> QED
  BY <1>5, <1>12 DEF Kept

\* The control socket opens or closes a number.
LEMMA SocketMoves ==
  ASSUME NEW f \in [Num -> What], NEW g \in [Num -> What], NEW cl \in [Slot -> ClientRec],
         NEW cs, Placed(f, cl, cs), NEW ds,
         \A n \in Num : g[n] # f[n] => {f[n], g[n]} \subseteq {"closed", "control socket"},
         \A n \in Num : g[n] = "control socket" => n = ds,
         ds >= 0 => g[ds] = "control socket"
  PROVE  Placed(g, cl, ds)
<1>1. ASSUME NEW n \in Others(g), g[n] # "control socket"
      PROVE  \E j \in Slot : Has(g, n, j, cl[j])
  <2>1. n \in Num /\ g[n] # "closed" /\ g[n] = f[n] /\ n \in Others(f)
    BY <1>1, UsesApart, Zenon DEF Others
  <2>2. PICK j \in Slot : Has(f, n, j, cl[j])
    BY <1>1, <2>1, Zenon DEF Placed
  <2> QED
    BY <2>1, <2>2, Zenon DEF Has
<1>2. ASSUME NEW j \in Slot PROVE Fit(g, j, cl[j])
  <2>1. Fit(f, j, cl[j]) /\ cl[j] \in ClientRec
    BY Zenon DEF Placed
  <2>2. {Line[j], Sent[j]} \cap {"closed", "control socket"} = {}
    BY UsesApart, Zenon
  <2>3. \A n \in Num : /\ f[n] \in {Line[j], Sent[j]} => g[n] = f[n]
                       /\ g[n] = Sent[j] => f[n] = g[n]
    BY <2>2, Zenon
  <2> QED
    BY <2>1, <2>3, FitSame, Zenon
<1> QED
  BY <1>1, <1>2, Zenon DEF Placed, Others

\* control_socket_stop
LEMMA SocketStops ==
  ASSUME NEW f, NEW o, NEW l, NEW cl, NEW cs, Typed(f, o, l, cl, cs), Kept(f, o, cl, cs),
         NEW g, g = Closed(f, cs)
  PROVE  Typed(g, o, l, cl, -1) /\ Kept(g, o, cl, -1)
<1>0. /\ f \in [Num -> What] /\ o \in ObjFns /\ l \in LogRec /\ cl \in [Slot -> ClientRec]
      /\ cs \in Num \cup {-1} /\ Own(f, o, Others(f)) /\ Placed(f, cl, cs)
  BY DEF Typed, Kept
<1>1. PICK ns : ns = {cs} \ {-1}
  BY Zenon
<1>2. Num \subseteq Nat
  BY FdTableAssumption DEF Num
<1>3. \A n \in ns : n \in Num /\ f[n] = "control socket"
  <2>1. cs \in Num => f[cs] = "control socket"
    <3>1. cs \in Num => cs >= 0
      BY <1>2
    <3> QED
      BY <1>0, <3>1, Zenon DEF Placed
  <2> QED
    BY <1>0, <1>1, <2>1, Zenon
<1>4. g = ClosedAll(f, ns)
  <2>1. CASE cs = -1
    <3>1. ns = {} /\ g = f
      BY <1>1, <1>2, <2>1 DEF Closed
    <3> QED
      BY <1>0, <3>1 DEF ClosedAll
  <2>2. CASE cs \in Num
    <3>1. ns = {cs}
      BY <1>1, <1>2, <2>2
    <3> QED
      BY <1>0, <2>2, <3>1, CloseOne
  <2> QED
    BY <1>0, <2>1, <2>2
<1>5. \A n \in ns : n \in Num /\ f[n] \in Use \cup {"closed"}
  BY <1>3, UsesApart, Zenon
<1>6. /\ g \in [Num -> What] /\ Own(g, o, Others(g))
      /\ \A n \in Num : g[n] = IF n \in ns THEN "closed" ELSE f[n]
  BY <1>0, <1>4, <1>5, CloseUses
<1>7. \A n \in Num : g[n] # "control socket"
  <2>1. "control socket" # "closed"
    BY UsesApart, Zenon
  <2>2. ASSUME NEW n \in Num, f[n] = "control socket" PROVE n = cs
    <3>1. n \in Others(f)
      BY <2>2, UsesApart, Zenon DEF Others
    <3>2. \A i \in Slot : ~Has(f, n, i, cl[i])
      BY <2>2, UsesApart, Zenon DEF Has
    <3> QED
      BY <1>0, <3>1, <3>2, Zenon DEF Placed
  <2>3. \A n \in Num : n # -1
    BY <1>2
  <2> QED
    BY <1>1, <1>6, <2>1, <2>2, <2>3, Zenon
<1>8. \A n \in Num : g[n] # f[n] => {f[n], g[n]} \subseteq {"closed", "control socket"}
  BY <1>3, <1>6, Zenon
<1>9. Placed(g, cl, -1)
  <2> DEFINE ds == -1
  <2>1. ~(ds >= 0)
    OBVIOUS
  <2> HIDE DEF ds
  <2>2. Placed(g, cl, ds)
    BY <1>0, <1>6, <1>7, <1>8, <2>1, SocketMoves, Zenon
  <2> QED
    BY <2>2 DEF ds
<1> QED
  BY <1>0, <1>6, <1>9 DEF Typed, Kept

\* What the number that listens is open for.
Listener == "control socket"

\* control_socket_start, after the old one has stopped.
LEMMA SocketStarts ==
  ASSUME NEW f, NEW o, NEW l, NEW cl, NEW cs, cs \notin Num,
         Typed(f, o, l, cl, cs), Kept(f, o, cl, cs), Unused(f) # {},
         NEW g, g = Opened(f, Listener), NEW n, n = Lowest(f)
  PROVE  Typed(g, o, l, cl, n) /\ Kept(g, o, cl, n)
<1>0. /\ f \in [Num -> What] /\ o \in ObjFns /\ l \in LogRec /\ cl \in [Slot -> ClientRec]
      /\ DOMAIN o \subseteq Names /\ Own(f, o, Others(f))
  BY ObjFn DEF Typed, Kept
<1>a. Placed(f, cl, cs)
  BY DEF Kept
<1>1. /\ g \in [Num -> What] /\ Own(g, o, Others(g))
      /\ n \in Num /\ f[n] = "closed" /\ g[n] = "control socket"
      /\ \A m \in Num \ {n} : g[m] = f[m]
  <2>1. Listener \in Use
    BY UsesApart, Zenon DEF Listener
  <2>2. /\ g \in [Num -> What] /\ Own(g, o, Others(g))
        /\ n \in Num /\ f[n] = "closed" /\ g[n] = Listener
        /\ \A m \in Num \ {n} : g[m] = f[m]
    BY <1>0, <2>1, OpenUse
  <2> QED
    BY <2>2, Zenon DEF Listener
<1>2. \A m \in Num : f[m] # "control socket"
  <2> SUFFICES ASSUME NEW m \in Num, f[m] = "control socket" PROVE FALSE
    BY Zenon
  <2>1. m \in Others(f)
    BY UsesApart, Zenon DEF Others
  <2>2. \A i \in Slot : ~Has(f, m, i, cl[i])
    BY UsesApart, Zenon DEF Has
  <2> QED
    BY <1>a, <2>1, <2>2, Zenon DEF Placed
<1>3. \A m \in Num : g[m] # f[m] => {f[m], g[m]} \subseteq {"closed", "control socket"}
  BY <1>1, Zenon
<1>4. \A m \in Num : g[m] = "control socket" => m = n
  BY <1>1, <1>2, Zenon
<1>5. Placed(g, cl, n)
  BY <1>0, <1>a, <1>1, <1>3, <1>4, SocketMoves, Zenon
<1> QED
  BY <1>0, <1>1, <1>5, Zenon DEF Typed, Kept

-----------------------------------------------------------------------------
(* One lemma per action.                                                   *)

\* A controller as ctl_ctor leaves it.
LEMMA BuiltRec ==
  ASSUME NEW r \in Num \cup {-1}, NEW s \in Num \cup {-1}, NEW c, c = Built(r, s)
  PROVE  /\ c \in ClientRec /\ c.state = "next" /\ c.recv = r /\ c.send = s
         /\ c.anc = <<>>
<1>1. c = [state |-> "next", recv |-> r, send |-> s, anc |-> <<>>, left |-> 0,
           eventsOnly |-> (r = -1 /\ s >= 0)]
  BY Zenon DEF Built, Unbuilt
<1>2. <<>> \in Seq(Num) /\ 0 \in Int /\ (r = -1 /\ s >= 0) \in BOOLEAN
  OBVIOUS
<1> QED
  BY <1>1, <1>2 DEF ClientRec

\* A slot after ctl_free.
LEMMA VacantRec == Vacant \in ClientRec /\ Vacant.state = "none"
<1> DEFINE b == FALSE
<1>1. /\ Unbuilt = [state |-> "free", recv |-> 0, send |-> 0, anc |-> <<>>, left |-> 0,
                    eventsOnly |-> b]
      /\ b \in BOOLEAN
  BY Zenon DEF Unbuilt
<1>2. <<>> \in Seq(Num) /\ 0 \in Int
  OBVIOUS
<1>3. 0 \in Num
  BY FdTableAssumption DEF Num
<1> HIDE DEF b
<1> QED
  BY <1>1, <1>2, <1>3 DEF Vacant, ClientRec

\* ctl_alloc returns a vacant slot.
LEMMA AllocVacant ==
  ASSUME Vacancies # {}
  PROVE  ctl_alloc \in Slot /\ client[ctl_alloc].state = "none"
<1>1. Vacancies \in SUBSET Nat
  <2>1. CLIENTS \in Nat
    BY ControllersAssumption, Zenon
  <2> QED
    BY <2>1 DEF Vacancies, Slot
<1>2. ctl_alloc \in Vacancies
  BY <1>1, LeastMember DEF ctl_alloc
<1> QED
  BY <1>2 DEF Vacancies

\* The invariant after a step, in terms of the new values.
LEMMA Settles ==
  ASSUME Typed(file', obj', log', client', control_socket'),
         ~astray' => Kept(file', obj', client', control_socket')
  PROVE  CtlInv'
  BY DEF CtlInv

\* What the lemmas above need of the invariant.
LEMMA Unpacked ==
  ASSUME CtlInv, ~astray
  PROVE  /\ Typed(file, obj, log, client, control_socket)
         /\ Kept(file, obj, client, control_socket)
         /\ file \in [Num -> What] /\ obj \in ObjFns /\ log \in LogRec
         /\ client \in [Slot -> ClientRec] /\ control_socket \in Num \cup {-1}
  BY DEF CtlInv, Typed

\* A controller is built for a number that is opened.
LEMMA ArrivalKept ==
  ASSUME CtlInv, ~astray, NEW i \in Slot, ~Live(client[i]), Unused(file) # {},
         NEW n, n = Lowest(file),
         NEW c \in ClientRec, c.state = "next", c.anc = <<>>,
         c.recv = n \/ c.recv = -1, c.send = n \/ c.send = -1, c.recv = n \/ c.send = n,
         client' = [client EXCEPT ![i] = c], file' = Opened(file, Line[i]),
         obj' = obj, log' = log, control_socket' = control_socket
  PROVE  CtlInv'
<1>1. /\ Typed(file, obj, log, client, control_socket)
      /\ Kept(file, obj, client, control_socket)
  BY Unpacked
<1>2. PICK g : g = file'
  OBVIOUS
<1>3. g = Opened(file, Line[i])
  BY <1>2
<1>4. g \in [Num -> What] /\ Kept(g, obj, [client EXCEPT ![i] = c], control_socket)
  BY <1>1, <1>3, Arrives, Zenon
<1>5. /\ obj \in ObjFns /\ log \in LogRec
      /\ client \in [Slot -> ClientRec] /\ control_socket \in Num \cup {-1}
  BY Unpacked
<1>6. client' \in [Slot -> ClientRec]
  BY <1>5
<1>7. Typed(file', obj', log', client', control_socket')
  BY <1>2, <1>4, <1>5, <1>6 DEF Typed
<1> QED
  BY <1>2, <1>4, <1>7, Settles

\* The fields of controller i change, and no number.
LEMMA RestKept ==
  ASSUME CtlInv, ~astray, NEW i \in Slot, NEW c \in ClientRec,
         client' = [client EXCEPT ![i] = c], file' = file,
         obj' = obj, log' = log, control_socket' = control_socket,
         Kept(file, obj, client, control_socket) => Fit(file, i, c),
         \A n \in Num : Has(file, n, i, client[i]) => Has(file, n, i, c)
  PROVE  CtlInv'
<1>0. /\ Typed(file, obj, log, client, control_socket)
      /\ Kept(file, obj, client, control_socket)
      /\ file \in [Num -> What] /\ obj \in ObjFns /\ log \in LogRec
      /\ client \in [Slot -> ClientRec] /\ control_socket \in Num \cup {-1}
  BY Unpacked
<1>1. Kept(file, obj, [client EXCEPT ![i] = c], control_socket)
  BY <1>0, Rests, Zenon
<1>2. client' \in [Slot -> ClientRec]
  BY <1>0
<1>3. Typed(file', obj', log', client', control_socket')
  BY <1>0, <1>2 DEF Typed
<1> QED
  BY <1>1, <1>3, Settles

\* Controller i closes numbers, which it may do if they are its own.
LEMMA ShutKept ==
  ASSUME CtlInv, ~astray, NEW i \in Slot, NEW ns \in SUBSET Num, NEW c \in ClientRec,
         client' = [client EXCEPT ![i] = c], file' = ClosedAll(file, ns),
         obj' = obj, log' = log, control_socket' = control_socket,
         astray' = (astray \/ \E n \in ns : Foreign(file, i, n)),
         Fit(ClosedAll(file, ns), i, c),
         \A n \in Num \ ns : Has(file, n, i, client[i]) => Has(file, n, i, c)
  PROVE  CtlInv'
<1>0. /\ Typed(file, obj, log, client, control_socket)
      /\ Kept(file, obj, client, control_socket)
      /\ file \in [Num -> What] /\ obj \in ObjFns /\ log \in LogRec
      /\ client \in [Slot -> ClientRec] /\ control_socket \in Num \cup {-1}
  BY Unpacked
<1>1. PICK g : g = ClosedAll(file, ns)
  OBVIOUS
<1>2. g \in [Num -> What]
  BY <1>0, <1>1 DEF ClosedAll, What
<1>3. client' \in [Slot -> ClientRec]
  BY <1>0
<1>4. Typed(file', obj', log', client', control_socket')
  BY <1>0, <1>1, <1>2, <1>3 DEF Typed
<1>5. ASSUME ~astray' PROVE Kept(g, obj, [client EXCEPT ![i] = c], control_socket)
  <2>1. \A n \in ns : ~Foreign(file, i, n)
    BY <1>5, Zenon
  <2>2. Num \subseteq Nat
    BY FdTableAssumption DEF Num
  <2>3. \A n \in ns : n \in Num /\ file[n] \in {"closed", Line[i], Sent[i]}
    BY <2>1, <2>2 DEF Foreign
  <2>4. Fit(g, i, c)
    BY <1>1
  <2>5. /\ Typed(file, obj, log, client, control_socket)
        /\ Kept(file, obj, client, control_socket)
    BY <1>0
  <2>6. PICK f, e : f = file /\ e = client
    OBVIOUS
  <2>7. Kept(g, obj, [e EXCEPT ![i] = c], control_socket)
    <3>1. /\ Typed(f, obj, log, e, control_socket)
          /\ Kept(f, obj, e, control_socket) /\ g = ClosedAll(f, ns)
          /\ \A n \in ns : n \in Num /\ f[n] \in {"closed", Line[i], Sent[i]}
          /\ \A n \in Num \ ns : Has(f, n, i, e[i]) => Has(f, n, i, c)
      BY <1>1, <2>3, <2>5, <2>6
    <3> QED
      BY ONLY <2>4, <3>1, Shuts, i \in Slot, c \in ClientRec
  <2> QED
    BY <2>6, <2>7
<1> QED
  BY <1>1, <1>4, <1>5, Settles

LEMMA AcceptKept ==
  ASSUME CtlInv, ~astray, NEW accepted \in BOOLEAN, control_socket_run(accepted)
  PROVE  CtlInv'
<1>1. PICK i \in Slot : i = ctl_alloc /\ ~Live(client[i])
  BY AllocVacant DEF control_socket_run, Live
<1>2. obj' = obj /\ log' = log /\ control_socket' = control_socket
  BY DEF control_socket_run
<1>3. CASE accepted
  <2>1. PICK n, c : n = Lowest(file) /\ c = Built(n, n)
    OBVIOUS
  <2>2. /\ client' = [client EXCEPT ![i] = c] /\ file' = Opened(file, Line[i])
        /\ Unused(file) # {}
    BY <1>1, <1>3, <2>1 DEF control_socket_run
  <2>3. n \in Num
    BY <2>1, <2>2, LowestTyped
  <2>4. /\ c \in ClientRec /\ c.state = "next" /\ c.recv = n /\ c.send = n
        /\ c.anc = <<>>
    BY <2>1, <2>3, BuiltRec
  <2> QED
    BY <1>1, <1>2, <2>1, <2>2, <2>4, ArrivalKept, Zenon
<1>4. CASE ~accepted
  <2>1. PICK c : c = Built(-1, -1)
    OBVIOUS
  <2>2. client' = [client EXCEPT ![i] = c] /\ file' = file
    BY <1>1, <1>4, <2>1 DEF control_socket_run
  <2>3. /\ c \in ClientRec /\ c.state = "next" /\ c.recv = -1 /\ c.send = -1
        /\ c.anc = <<>>
    BY <2>1, BuiltRec
  <2>4. Fit(file, i, c)
    BY <2>3 DEF Fit
  <2>5. \A m \in Num : ~Has(file, m, i, client[i])
    BY <1>1 DEF Has
  <2> QED
    BY <1>2, <2>2, <2>3, <2>4, <2>5, RestKept, Zenon
<1> QED
  BY <1>3, <1>4

LEMMA ForkKept ==
  ASSUME CtlInv, ~astray, NEW cmd \in BOOLEAN, NEW event \in BOOLEAN,
         svc_do_fork(cmd, event)
  PROVE  CtlInv'
<1>1. PICK i \in Slot : i = ctl_alloc /\ ~Live(client[i])
  BY AllocVacant DEF svc_do_fork, Live
<1>2. obj' = obj /\ log' = log /\ control_socket' = control_socket
  BY DEF svc_do_fork
<1>3. PICK n, r, s, c : /\ n = Lowest(file) /\ c = Built(r, s)
                        /\ r = IF cmd THEN n ELSE -1
                        /\ s = IF event THEN n ELSE -1
  OBVIOUS
<1>4. client' = [client EXCEPT ![i] = c] /\ file' = Opened(file, Line[i])
  BY <1>1, <1>3 DEF svc_do_fork
<1>5. Unused(file) # {}
  <2>1. Cardinality(Unused(file)) >= 2
    BY DEF svc_do_fork
  <2> QED
    BY <2>1, FS_EmptySet
<1>6. n \in Num
  BY <1>3, <1>5, LowestTyped
<1>7. r \in Num \cup {-1} /\ s \in Num \cup {-1}
  BY <1>3, <1>6
<1>8. /\ c \in ClientRec /\ c.state = "next" /\ c.recv = r /\ c.send = s
      /\ c.anc = <<>>
  BY <1>3, <1>7, BuiltRec
<1>9. /\ c.recv = n \/ c.recv = -1
      /\ c.send = n \/ c.send = -1
      /\ c.recv = n \/ c.send = n
  BY <1>3, <1>8 DEF svc_do_fork
<1>10. c \in ClientRec /\ c.state = "next" /\ c.anc = <<>> /\ n = Lowest(file)
  BY <1>3, <1>8
<1> QED
  BY <1>1, <1>2, <1>4, <1>5, <1>9, <1>10, ArrivalKept, Zenon

\* A slot that was vacant has no numbers: number 0 is closed, or another's, or it
\* is the number that was opened for the controller.
LEMMA UndoneKept ==
  ASSUME CtlInv, ~astray, Vacancies # {},
         NEW f, Undone(f),
         \/ f = file
         \/ Unused(file) # {} /\ f = Opened(file, Line[ctl_alloc])
  PROVE  CtlInv'
<1>0. /\ Typed(file, obj, log, client, control_socket)
      /\ Kept(file, obj, client, control_socket)
      /\ file \in [Num -> What] /\ obj \in ObjFns /\ log \in LogRec
      /\ client \in [Slot -> ClientRec] /\ control_socket \in Num \cup {-1}
  BY Unpacked
<1>1. PICK i \in Slot : i = ctl_alloc /\ ~Live(client[i])
  BY AllocVacant DEF Live
<1>2. /\ obj' = obj /\ log' = log /\ control_socket' = control_socket
      /\ client' = client
  BY DEF Undone
<1>3. Destroyed(Unbuilt) = {0}
  BY DEF Destroyed, Unbuilt, Range
<1>4. /\ file' = ClosedAll(f, {0})
      /\ astray' = (astray \/ Foreign(f, i, 0))
  BY <1>1, <1>3 DEF Undone
<1>5. PICK n : n = Lowest(file)
  OBVIOUS
<1>6. \/ f = file
      \/ /\ f = [file EXCEPT ![n] = Line[i]] /\ n \in Num /\ file[n] = "closed"
         /\ \A m \in Num : file[m] = "closed" => n <= m
  BY <1>0, <1>1, <1>5, LowestFree DEF Opened, Unused
<1>7. f \in [Num -> What]
  BY <1>0, <1>6, UsesApart
<1>8. file' \in [Num -> What]
  BY <1>4, <1>7 DEF ClosedAll, What
<1>9. Typed(file', obj', log', client', control_socket')
  BY <1>0, <1>2, <1>8 DEF Typed
<1>10. ASSUME ~astray' PROVE file' = file
  <2>1. \A m \in Num : file[m] \notin {Line[i], Sent[i]}
    <3>1. Placed(file, client, control_socket)
      BY <1>0 DEF Kept
    <3> QED
      BY <1>0, <1>1, <3>1, OnlyOwn DEF Has
  <2>2. f[0] \in {"closed", Line[i], Sent[i]}
    <3>1. ~Foreign(f, i, 0)
      BY <1>4, <1>10, Zenon
    <3> QED
      BY <3>1 DEF Foreign
  <2>3. 0 \in Num /\ \A m \in Num : m \in Nat
    BY FdTableAssumption DEF Num
  <2>4. file[0] = "closed" /\ \A m \in Num : m # 0 => f[m] = file[m]
    <3>1. CASE f = file
      BY <2>1, <2>2, <2>3, <3>1
    <3>2. CASE /\ f = [file EXCEPT ![n] = Line[i]] /\ n \in Num /\ file[n] = "closed"
               /\ \A m \in Num : file[m] = "closed" => n <= m
      <4>1. CASE n = 0
        BY <1>0, <3>2, <4>1
      <4>2. CASE n # 0
        <5>1. f[0] = file[0]
          BY <1>0, <2>3, <3>2, <4>2
        <5>2. file[0] = "closed"
          BY <2>1, <2>2, <2>3, <5>1
        <5> QED
          BY <2>3, <3>2, <4>2, <5>2
      <4> QED
        BY <4>1, <4>2
    <3> QED
      BY <1>6, <3>1, <3>2
  <2> QED
    BY <1>0, <1>4, <2>4 DEF ClosedAll
<1> QED
  BY <1>0, <1>2, <1>9, <1>10, Settles

LEMMA AcceptFailsKept ==
  ASSUME CtlInv, ~astray, control_socket_run_fails
  PROVE  CtlInv'
<1>1. PICK f : f = file
  OBVIOUS
<1>2. Vacancies # {} /\ Undone(f)
  BY <1>1 DEF control_socket_run_fails
<1> QED
  BY <1>1, <1>2, UndoneKept

LEMMA ForkFailsKept ==
  ASSUME CtlInv, ~astray, svc_do_fork_fails
  PROVE  CtlInv'
<1>1. Vacancies # {}
  BY DEF svc_do_fork_fails
<1>2. CASE Undone(file)
  <2>1. PICK f : f = file
    OBVIOUS
  <2> QED
    BY <1>1, <1>2, <2>1, UndoneKept
<1>3. CASE Cardinality(Unused(file)) >= 2 /\ Undone(Opened(file, Line[ctl_alloc]))
  <2>1. PICK f : f = Opened(file, Line[ctl_alloc])
    OBVIOUS
  <2>2. Unused(file) # {}
    BY <1>3, FS_EmptySet
  <2> QED
    BY <1>1, <1>3, <2>1, <2>2, UndoneKept
<1> QED
  BY <1>2, <1>3 DEF svc_do_fork_fails

\* After a crash nothing is claimed but the types.
LEMMA ForkFullKept ==
  ASSUME CtlInv, svc_do_fork_full
  PROVE  CtlInv'
<1>1. /\ file' = file /\ obj' = obj /\ log' = log /\ client' = client
      /\ control_socket' = control_socket /\ astray'
  BY DEF svc_do_fork_full, fdVars
<1>2. Typed(file, obj, log, client, control_socket)
  BY DEF CtlInv
<1> QED
  BY <1>1, <1>2, Settles

\* How controller i is left when a direction of its connection ends.
LEMMA HangsUp ==
  ASSUME NEW f \in [Num -> What], NEW i \in Slot, NEW e \in ClientRec, Fit(f, i, e),
         NEW ns, \A n \in ns : n = e.recv \/ n = e.send,
         NEW c \in ClientRec, c.anc = e.anc,
         c.state = e.state \/ (c.state = "close" /\ e.state = "next" /\ c.recv = -1),
         c.recv = e.recv \/ c.recv = -1, c.send = e.send \/ c.send = -1,
         c.recv = -1 \/ c.send = -1,
         \A n \in Num : n = e.recv \/ n = e.send => n = c.recv \/ n = c.send \/ n \in ns
  PROVE  /\ Fit(ClosedAll(f, ns), i, c)
         /\ \A n \in Num \ ns : Has(f, n, i, e) => Has(f, n, i, c)
<1> DEFINE g == ClosedAll(f, ns)
<1>1. \A n \in Num : g[n] = IF n \in ns THEN "closed" ELSE f[n]
  BY DEF ClosedAll
<1> HIDE DEF g
<1>2. /\ e.recv \in Num \cup {-1} /\ e.send \in Num \cup {-1} /\ e.anc \in Seq(Num)
      /\ c.recv \in Num \cup {-1} /\ c.send \in Num \cup {-1}
  BY DEF ClientRec
<1>3. /\ e.recv >= 0 => e.recv \in Num
      /\ e.send >= 0 => e.send \in Num
      /\ \A n \in Num : n >= 0
  BY <1>2, FdTableAssumption DEF Num
<1>4. Sent[i] # "closed"
  BY UsesApart, Zenon
<1>5. \A n \in Num : f[n] # Sent[i] => g[n] # Sent[i]
  BY <1>1, <1>4
<1>6. /\ c.recv >= 0 => c.recv = e.recv
      /\ c.send >= 0 => c.send = e.send
      /\ ~(c.recv >= 0 /\ c.send >= 0)
  OBVIOUS
<1>7. Live(c) => Live(e)
  BY DEF Live
<1>8. Live(c) => \A k \in 1..Len(c.anc) : g[c.anc[k]] = Sent[i]
  <2> SUFFICES ASSUME Live(e), NEW k \in 1..Len(e.anc) PROVE g[e.anc[k]] = Sent[i]
    BY <1>7
  <2>1. e.anc[k] \in Num /\ f[e.anc[k]] = Sent[i]
    BY <1>2 DEF Fit
  <2>2. e.recv \in Num => f[e.recv] # Sent[i]
    BY <1>3 DEF Fit
  <2>3. e.send \in Num => f[e.send] # Sent[i]
    BY <1>3 DEF Fit
  <2>4. e.anc[k] \notin ns
    BY <2>1, <2>2, <2>3
  <2> QED
    BY <1>1, <2>1, <2>4
<1>9. Live(c) => /\ \A k, m \in 1..Len(c.anc) : c.anc[k] = c.anc[m] => k = m
                 /\ c.recv >= 0 => g[c.recv] # Sent[i]
                 /\ c.send >= 0 => g[c.send] # Sent[i]
  <2> SUFFICES ASSUME Live(c), Live(e)
               PROVE  /\ \A k, m \in 1..Len(c.anc) : c.anc[k] = c.anc[m] => k = m
                      /\ c.recv >= 0 => g[c.recv] # Sent[i]
                      /\ c.send >= 0 => g[c.send] # Sent[i]
    BY <1>7
  <2>1. /\ \A k, m \in 1..Len(e.anc) : e.anc[k] = e.anc[m] => k = m
        /\ e.recv >= 0 => f[e.recv] # Sent[i]
        /\ e.send >= 0 => f[e.send] # Sent[i]
    BY DEF Fit
  <2> QED
    BY <1>3, <1>5, <1>6, <2>1
<1>10. c.state = "close" => c.recv = -1
  <2>1. e.state = "close" => e.recv = -1
    BY DEF Fit
  <2> QED
    BY <2>1
<1>11. Fit(g, i, c)
  BY <1>6, <1>8, <1>9, <1>10 DEF Fit
<1>12. ASSUME NEW n \in Num \ ns, Has(f, n, i, e) PROVE Has(f, n, i, c)
  <2>1. Live(c)
    BY <1>12 DEF Has, Live
  <2>2. n \in {e.recv, e.send} => n \in {c.recv, c.send}
    BY <1>12
  <2> QED
    BY <1>12, <2>1, <2>2 DEF Has
<1> QED
  BY <1>11, <1>12 DEF g

\* A controller that is destroyed has closed all that was open for it.
LEMMA LeavesNone ==
  ASSUME NEW f \in [Num -> What], NEW i \in Slot, NEW e \in ClientRec,
         NEW c, ~Live(c), c.state # "next", c.state # "close"
  PROVE  /\ Fit(ClosedAll(f, Destroyed(e)), i, c)
         /\ \A n \in Num \ Destroyed(e) : ~Has(f, n, i, e)
         /\ Destroyed(e) \in SUBSET Num
<1>1. /\ e.recv \in Num \cup {-1} /\ e.send \in Num \cup {-1} /\ e.anc \in Seq(Num)
  BY DEF ClientRec
<1>2. \A n \in Num : n # -1
  <2>1. Num \subseteq Nat
    BY FdTableAssumption DEF Num
  <2> QED
    BY <2>1
<1>3. Destroyed(e) \in SUBSET Num
  BY <1>1 DEF Destroyed, Range
<1>4. ASSUME NEW n \in Num, Has(f, n, i, e) PROVE n \in Destroyed(e)
  <2>1. CASE n \in {e.recv, e.send}
    BY <1>2, <2>1 DEF Destroyed
  <2>2. CASE \E k \in 1..Len(e.anc) : e.anc[k] = n
    BY <1>1, <2>2 DEF Destroyed, Range
  <2> QED
    BY <1>4, <2>1, <2>2 DEF Has
<1> QED
  BY <1>3, <1>4 DEF Fit

\* A direction of the connection of controller i ends.
LEMMA HangUpKept ==
  ASSUME CtlInv, ~astray, NEW i \in Slot, NEW e, e = client[i],
         NEW ns \in SUBSET Num, \A n \in ns : n = e.recv \/ n = e.send,
         NEW c \in ClientRec, c.anc = e.anc,
         c.state = e.state \/ (c.state = "close" /\ e.state = "next" /\ c.recv = -1),
         c.recv = e.recv \/ c.recv = -1, c.send = e.send \/ c.send = -1,
         c.recv = -1 \/ c.send = -1,
         \A n \in Num : n = e.recv \/ n = e.send => n = c.recv \/ n = c.send \/ n \in ns,
         client' = [client EXCEPT ![i] = c], file' = ClosedAll(file, ns),
         obj' = obj, log' = log, control_socket' = control_socket,
         astray' = (astray \/ \E n \in ns : Foreign(file, i, n))
  PROVE  CtlInv'
<1>1. /\ Kept(file, obj, client, control_socket)
      /\ file \in [Num -> What] /\ client \in [Slot -> ClientRec]
  BY Unpacked
<1>2. e \in ClientRec /\ Fit(file, i, e)
  BY <1>1, Zenon DEF Kept, Placed
<1>3. /\ Fit(ClosedAll(file, ns), i, c)
      /\ \A n \in Num \ ns : Has(file, n, i, client[i]) => Has(file, n, i, c)
  BY <1>1, <1>2, HangsUp
<1> QED
  BY <1>3, ShutKept, Zenon

\* Controller i closes a number of its connection, -1 if it has none.
LEMMA CloseField ==
  ASSUME NEW f \in [Num -> What], NEW i, NEW n \in Num \cup {-1}
  PROVE  /\ {n} \ {-1} \in SUBSET Num
         /\ Closed(f, n) = ClosedAll(f, {n} \ {-1})
         /\ Foreign(f, i, n) <=> \E m \in {n} \ {-1} : Foreign(f, i, m)
<1>1. \A m \in Num : m # -1 /\ m >= 0
  <2>1. Num \subseteq Nat
    BY FdTableAssumption DEF Num
  <2> QED
    BY <2>1
<1>2. CASE n \in Num
  <2>1. {n} \ {-1} = {n}
    BY <1>1, <1>2
  <2> QED
    BY <1>2, <2>1, CloseOne
<1>3. CASE n = -1
  <2>1. {n} \ {-1} = {} /\ n \notin Num
    BY <1>1, <1>3
  <2>2. Closed(f, n) = f /\ ClosedAll(f, {}) = f
    BY <2>1 DEF Closed, ClosedAll
  <2>3. ~Foreign(f, i, n)
    BY <1>3 DEF Foreign
  <2> QED
    BY <2>1, <2>2, <2>3
<1> QED
  BY <1>2, <1>3

LEMMA ReadMoreKept ==
  ASSUME CtlInv, ~astray, NEW i \in Slot, NEW left \in 0..LEFT, ctl_read_more(i, left)
  PROVE  CtlInv'
<1>1. file \in [Num -> What] /\ client \in [Slot -> ClientRec]
  BY Unpacked
<1>2. PICK e \in ClientRec : e = client[i]
  BY <1>1
<1>3. PICK c : c = [e EXCEPT !.recv = -1, !.left = left]
  OBVIOUS
<1>4. /\ c \in ClientRec /\ c.state = e.state /\ c.recv = -1 /\ c.send = e.send
      /\ c.anc = e.anc
  <2>1. left \in Int
    OBVIOUS
  <2> QED
    BY <1>2, <1>3, <2>1, Zenon DEF ClientRec
<1>5. e.recv \in Num \cup {-1}
  BY <1>2 DEF ClientRec
<1>6. PICK ns : ns = {e.recv} \ {-1}
  BY Zenon
<1>7. client' = [client EXCEPT ![i] = c]
  BY <1>1, <1>2, <1>3, Zenon DEF ctl_read_more
<1>8. /\ file' = Closed(file, e.recv) /\ astray' = (astray \/ Foreign(file, i, e.recv))
      /\ obj' = obj /\ log' = log /\ control_socket' = control_socket
  BY <1>2 DEF ctl_read_more
<1>9. /\ ns \in SUBSET Num /\ file' = ClosedAll(file, ns)
      /\ astray' = (astray \/ \E n \in ns : Foreign(file, i, n))
  BY <1>1, <1>5, <1>6, <1>8, CloseField
<1>10. /\ \A n \in ns : n = e.recv \/ n = e.send
       /\ \A n \in Num : n = e.recv \/ n = e.send => n = c.recv \/ n = c.send \/ n \in ns
  BY <1>4, <1>6
<1> QED
  BY <1>2, <1>4, <1>7, <1>8, <1>9, <1>10, HangUpKept, Zenon

LEMMA ExitKept ==
  ASSUME CtlInv, ~astray, NEW i \in Slot, ctl_cmd_exit(i)
  PROVE  CtlInv'
<1>1. file \in [Num -> What] /\ client \in [Slot -> ClientRec]
  BY Unpacked
<1>2. PICK e \in ClientRec : e = client[i]
  BY <1>1
<1>3. PICK c : c = [e EXCEPT !.recv = -1, !.left = 0, !.state = "close"]
  OBVIOUS
<1>4. /\ c \in ClientRec /\ c.state = "close" /\ c.recv = -1 /\ c.send = e.send
      /\ c.anc = e.anc
  <2>1. 0 \in Int
    OBVIOUS
  <2> QED
    BY <1>2, <1>3, <2>1, Zenon DEF ClientRec
<1>5. e.recv \in Num \cup {-1} /\ e.state = "next"
  BY <1>2 DEF ClientRec, ctl_cmd_exit, Running
<1>6. PICK ns : ns = {e.recv} \ {-1}
  BY Zenon
<1>7. client' = [client EXCEPT ![i] = c]
  BY <1>1, <1>2, <1>3, Zenon DEF ctl_cmd_exit
<1>8. /\ file' = Closed(file, e.recv) /\ astray' = (astray \/ Foreign(file, i, e.recv))
      /\ obj' = obj /\ log' = log /\ control_socket' = control_socket
  BY <1>2 DEF ctl_cmd_exit
<1>9. /\ ns \in SUBSET Num /\ file' = ClosedAll(file, ns)
      /\ astray' = (astray \/ \E n \in ns : Foreign(file, i, n))
  BY <1>1, <1>5, <1>6, <1>8, CloseField
<1>10. /\ \A n \in ns : n = e.recv \/ n = e.send
       /\ \A n \in Num : n = e.recv \/ n = e.send => n = c.recv \/ n = c.send \/ n \in ns
  <2>1. \A n \in Num : n # -1
    BY FdTableAssumption DEF Num
  <2> QED
    BY <1>4, <1>6, <2>1
<1> QED
  BY <1>2, <1>4, <1>5, <1>7, <1>8, <1>9, <1>10, HangUpKept, Zenon

\* Writing changes nothing here, but goes astray if the number is another's.
LEMMA FlushKept ==
  ASSUME CtlInv, ~astray, NEW i \in Slot, NEW works \in BOOLEAN, ctl_flush_outbuf(i, works)
  PROVE  CtlInv'
<1>1. file \in [Num -> What] /\ client \in [Slot -> ClientRec]
  BY Unpacked
<1>2. obj' = obj /\ log' = log /\ control_socket' = control_socket
  BY DEF ctl_flush_outbuf
<1>3. CASE works
  <2>1. file' = file /\ client' = client
    BY <1>3 DEF ctl_flush_outbuf
  <2>2. /\ Typed(file, obj, log, client, control_socket)
        /\ Kept(file, obj, client, control_socket)
    BY Unpacked
  <2> QED
    BY <1>2, <2>1, <2>2, Settles
<1>4. CASE ~works
  <2>1. PICK e \in ClientRec : e = client[i]
    BY <1>1
  <2>2. PICK c : c = [e EXCEPT !.send = -1]
    BY Zenon
  <2>3. /\ c \in ClientRec /\ c.state = e.state /\ c.recv = e.recv /\ c.send = -1
        /\ c.anc = e.anc
    BY <2>1, <2>2 DEF ClientRec
  <2>4. e.send \in Num \cup {-1}
    BY <2>1 DEF ClientRec
  <2>5. PICK ns : ns = {e.send} \ {-1}
    BY Zenon
  <2>6. client' = [client EXCEPT ![i] = c]
    BY <1>1, <1>4, <2>1, <2>2 DEF ctl_flush_outbuf, Muted
  <2>7. file' = Closed(file, e.send) /\ astray' = (astray \/ Foreign(file, i, e.send))
    BY <1>4, <2>1 DEF ctl_flush_outbuf
  <2>8. /\ ns \in SUBSET Num /\ file' = ClosedAll(file, ns)
        /\ astray' = (astray \/ \E n \in ns : Foreign(file, i, n))
    BY <1>1, <2>4, <2>5, <2>7, CloseField
  <2>9. /\ \A n \in ns : n = e.recv \/ n = e.send
        /\ \A n \in Num : n = e.recv \/ n = e.send => n = c.recv \/ n = c.send \/ n \in ns
    BY <2>3, <2>5
  <2> QED
    BY <1>2, <2>1, <2>3, <2>6, <2>8, <2>9, HangUpKept, Zenon
<1> QED
  BY <1>3, <1>4

\* ctl_dtor, on a controller that is left in the pool as c.
LEMMA DtorKept ==
  ASSUME CtlInv, ~astray, NEW i \in Slot, NEW c \in ClientRec,
         c.state = "none" \/ c.state = "free",
         client' = [client EXCEPT ![i] = c], ctl_dtor(i),
         obj' = obj, log' = log, control_socket' = control_socket
  PROVE  CtlInv'
<1>1. file \in [Num -> What] /\ client[i] \in ClientRec
  BY Unpacked
<1>2. PICK ns : ns = Destroyed(client[i])
  OBVIOUS
<1>3. /\ file' = ClosedAll(file, ns)
      /\ astray' = (astray \/ \E n \in ns : Foreign(file, i, n))
  BY <1>2 DEF ctl_dtor
<1>4. ~Live(c) /\ c.state # "next" /\ c.state # "close"
  BY DEF Live
<1>5. /\ Fit(ClosedAll(file, ns), i, c)
      /\ \A n \in Num \ ns : ~Has(file, n, i, client[i])
      /\ ns \in SUBSET Num
  BY <1>1, <1>2, <1>4, LeavesNone
<1> QED
  BY <1>3, <1>5, ShutKept, Zenon

LEMMA TimesOutKept ==
  ASSUME CtlInv, ~astray, NEW i \in Slot, TimesOut(i)
  PROVE  CtlInv'
<1>1. PICK c : c = Vacant
  OBVIOUS
<1>2. c \in ClientRec /\ c.state = "none"
  BY <1>1, VacantRec
<1>3. /\ client' = [client EXCEPT ![i] = c] /\ ctl_dtor(i)
      /\ obj' = obj /\ log' = log /\ control_socket' = control_socket
  BY <1>1 DEF TimesOut
<1> QED
  BY <1>2, <1>3, DtorKept, Zenon

LEMMA CloseKept ==
  ASSUME CtlInv, ~astray, NEW i \in Slot, ctl_state_close(i)
  PROVE  CtlInv'
<1>1. client \in [Slot -> ClientRec]
  BY Unpacked
<1>2. PICK c : c = [client[i] EXCEPT !.state = "free", !.anc = <<>>]
  OBVIOUS
<1>3. c \in ClientRec /\ c.state = "free"
  <2>1. <<>> \in Seq(Num)
    OBVIOUS
  <2> QED
    BY <1>1, <1>2, <2>1, Zenon DEF ClientRec
<1>4. client' = [client EXCEPT ![i] = c]
  BY <1>1, <1>2, Zenon DEF ctl_state_close
<1>5. ctl_dtor(i) /\ obj' = obj /\ log' = log /\ control_socket' = control_socket
  BY DEF ctl_state_close
<1> QED
  BY <1>3, <1>4, <1>5, DtorKept, Zenon

LEMMA FreeKept ==
  ASSUME CtlInv, ~astray, NEW i \in Slot, ctl_state_free(i)
  PROVE  CtlInv'
<1>1. PICK c : c = Vacant
  OBVIOUS
<1>2. c \in ClientRec /\ c.state = "none"
  BY <1>1, VacantRec
<1>3. /\ client' = [client EXCEPT ![i] = c] /\ file' = file
      /\ obj' = obj /\ log' = log /\ control_socket' = control_socket
  BY <1>1 DEF ctl_state_free
<1>4. Fit(file, i, c)
  BY <1>2 DEF Fit, Live
<1>5. \A n \in Num : ~Has(file, n, i, client[i])
  BY DEF ctl_state_free, Has, Live
<1> QED
  BY <1>2, <1>3, <1>4, <1>5, RestKept, Zenon

\* A controller whose input is used up has no receiving number.
LEMMA UsedUpKept ==
  ASSUME CtlInv, ~astray, NEW i \in Slot, InputUsedUp(i)
  PROVE  CtlInv'
<1>1. client \in [Slot -> ClientRec] /\ Kept(file, obj, client, control_socket)
  BY Unpacked
<1>2. PICK e \in ClientRec : e = client[i]
  BY <1>1
<1>3. PICK c : c = [e EXCEPT !.state = "close"]
  BY Zenon
<1>4. /\ c \in ClientRec /\ c.state = "close" /\ c.recv = e.recv /\ c.send = e.send
      /\ c.anc = e.anc
  BY <1>2, <1>3 DEF ClientRec
<1>5. e.state = "next" /\ e.recv = -1
  BY <1>2 DEF InputUsedUp
<1>6. /\ client' = [client EXCEPT ![i] = c] /\ file' = file
      /\ obj' = obj /\ log' = log /\ control_socket' = control_socket
  BY <1>1, <1>2, <1>3 DEF InputUsedUp
<1>7. Fit(file, i, c)
  <2>1. Fit(file, i, e)
    BY <1>1, <1>2, Zenon DEF Kept, Placed
  <2> QED
    BY <1>4, <1>5, <2>1 DEF Fit, Live
<1>8. \A n \in Num : Has(file, n, i, client[i]) => Has(file, n, i, c)
  BY <1>2, <1>4 DEF Has, Live
<1> QED
  BY <1>4, <1>6, <1>7, <1>8, RestKept, Zenon

LEMMA ReceiveKept ==
  ASSUME CtlInv, ~astray, NEW i \in Slot, ctl_read_ancillary_fds(i)
  PROVE  CtlInv'
<1>1. /\ Typed(file, obj, log, client, control_socket)
      /\ Kept(file, obj, client, control_socket)
  BY Unpacked
<1>2. /\ client \in [Slot -> ClientRec] /\ file \in [Num -> What] /\ obj \in ObjFns
      /\ log \in LogRec /\ control_socket \in Num \cup {-1}
  BY Unpacked
<1>3. /\ client[i].state = "next" /\ client[i].recv >= 0 /\ file[client[i].recv] = Line[i]
      /\ Unused(file) # {}
  BY DEF ctl_read_ancillary_fds
<1>4. PICK n, g, c : /\ n = Lowest(file) /\ g = Opened(file, Sent[i])
                     /\ c = [client[i] EXCEPT !.anc = Append(@, n)]
  BY Zenon
<1>5. n \in Num
  BY <1>3, <1>4, LowestTyped
<1>6. /\ c \in ClientRec /\ c.state = "next" /\ c.recv = client[i].recv
      /\ c.send = client[i].send /\ c.anc = Append(client[i].anc, n)
  <2>1. PICK a : a = Append(client[i].anc, n)
    BY Zenon
  <2>2. client[i] \in ClientRec /\ client[i].anc \in Seq(Num)
    BY <1>2 DEF ClientRec
  <2>3. a \in Seq(Num)
    BY <1>5, <2>1, <2>2
  <2>4. c = [client[i] EXCEPT !.anc = a]
    BY <1>4, <2>1
  <2> QED
    BY <1>3, <2>1, <2>2, <2>3, <2>4, Zenon DEF ClientRec
<1>7. /\ client' = [client EXCEPT ![i] = c]
  BY <1>2, <1>4 DEF ctl_read_ancillary_fds
<1>8. /\ file' = g /\ obj' = obj /\ log' = log /\ control_socket' = control_socket
  BY <1>4 DEF ctl_read_ancillary_fds
<1>9. n = Lowest(file) /\ g = Opened(file, Sent[i])
  BY <1>4
<1>10. g \in [Num -> What] /\ Kept(g, obj, [client EXCEPT ![i] = c], control_socket)
  BY <1>1, <1>3, <1>6, <1>9, Receives
<1>11. client' \in [Slot -> ClientRec]
  BY <1>2, <1>6, <1>7
<1>12. Typed(file', obj', log', client', control_socket')
  BY <1>2, <1>8, <1>10, <1>11 DEF Typed
<1> QED
  BY <1>7, <1>8, <1>10, <1>12, Settles

\* What fd.take of name n makes of number new.
Given(new, n) ==
    IF Creatable(Table, {n})
    THEN fd_new_file([Table EXCEPT !.file[new] = n], n, new, FALSE)
    ELSE [Table EXCEPT !.file = Closed(@, new)]

\* The number that fd.take hands on is the name's, or closed.
LEMMA TakeHolds ==
  ASSUME Table \in Tables, NEW C, Own(file, obj, C), NEW new \in C, NEW n \in FdName,
         NEW t, t = Given(new, n), NEW D, D = C \ {new}
  PROVE  t \in Tables /\ Holds(t, D) /\ \A m \in D : t.file[m] = file[m]
<1>1. n \in Names /\ n \in What /\ n # "closed"
  BY ClosedIsNoName DEF Names, What
<1>2. /\ file \in [Num -> What] /\ obj \in ObjFns /\ log \in LogRec
      /\ Table.file = file /\ Table.obj = obj
  BY DEF Table, Tables
<1>3. new \in Num
  BY DEF Own
<1>4. CASE Creatable(Table, {n})
  <2> DEFINE v == [Table EXCEPT !.file[new] = n]
             f == [file EXCEPT ![new] = n]
  <2>1. v = [file |-> f, obj |-> obj, log |-> log]
    BY DEF Table
  <2>2. f \in [Num -> What] /\ f[new] = n /\ \A m \in C \ {new} : f[m] = file[m]
    BY <1>1, <1>2, <1>3 DEF Own
  <2>3. Own(f, obj, C)
    BY <1>1, <1>2, <2>2 DEF Own
  <2> HIDE DEF f
  <2>4. v \in Tables /\ v.file = f /\ Holds(v, C)
    BY <1>2, <2>1, <2>2, <2>3, Zenon DEF Tables, Holds
  <2> DEFINE const == FALSE
  <2>5. t = fd_new_file(v, n, new, const) /\ const \in BOOLEAN
    BY <1>4 DEF Given
  <2> HIDE DEF v, const
  <2>6. v.file[new] \in {n, "null"}
    BY <2>2, <2>4
  <2>7. /\ t \in Tables /\ Holds(t, C \ {new})
        /\ \A m \in C : t.file[m] = v.file[m]
    BY <1>1, <2>4, <2>5, <2>6, NewFileHolds
  <2> QED
    BY <2>2, <2>4, <2>7
<1>5. CASE ~Creatable(Table, {n})
  <2> DEFINE f == Closed(file, new)
  <2>1. t = [file |-> f, obj |-> obj, log |-> log]
    BY <1>5 DEF Table, Given
  <2>2. f \in [Num -> What] /\ \A m \in C \ {new} : f[m] = file[m]
    BY <1>2, ClosedTyped DEF Own
  <2>3. Own(f, obj, C \ {new})
    BY <1>2, OwnClosed
  <2> HIDE DEF f
  <2> QED
    BY <1>2, <2>1, <2>2, <2>3 DEF Tables, Holds
<1> QED
  BY <1>4, <1>5

LEMMA TakeKept ==
  ASSUME CtlInv, ~astray, NEW i \in Slot, NEW n \in FdName, ctl_cmd_fd_take(i, n)
  PROVE  CtlInv'
<1>1. /\ Typed(file, obj, log, client, control_socket)
      /\ Kept(file, obj, client, control_socket)
  BY Unpacked
<1>2. /\ client \in [Slot -> ClientRec] /\ file \in [Num -> What] /\ obj \in ObjFns
      /\ log \in LogRec /\ control_socket \in Num \cup {-1}
  BY Unpacked
<1>3. client[i].state = "next" /\ client[i].anc # <<>>
  BY DEF ctl_cmd_fd_take, Running
<1>4. PICK new : new = Head(client[i].anc)
  OBVIOUS
<1>5. new \in Others(file)
  <2>1. client[i].anc \in Seq(Num)
    BY <1>2 DEF ClientRec
  <2>2. 1 \in 1..Len(client[i].anc) /\ client[i].anc[1] = new /\ new \in Num
    BY <1>3, <1>4, <2>1
  <2>3. Fit(file, i, client[i])
    BY <1>1, Zenon DEF Kept, Placed
  <2>4. file[new] = Sent[i]
    BY <1>3, <2>2, <2>3 DEF Fit, Live
  <2> QED
    BY <2>2, <2>4, UsesApart, Zenon DEF Others
<1>6. PICK t : t = Given(new, n)
  OBVIOUS
<1>7. Table \in Tables
  BY <1>2 DEF Table, Tables
<1>8. PICK C, D : C = Others(file) /\ D = C \ {new}
  BY Zenon
<1>9. t \in Tables /\ Holds(t, D) /\ \A m \in D : t.file[m] = file[m]
  <2>1. Own(file, obj, C) /\ new \in C /\ D = C \ {new}
    BY <1>1, <1>5, <1>8 DEF Kept
  <2> QED
    BY <1>6, <1>7, <2>1, TakeHolds
<1>10. /\ file' = t.file /\ obj' = t.obj /\ log' = t.log /\ control_socket' = control_socket
  BY <1>4, <1>6 DEF ctl_cmd_fd_take, Becomes, Given
<1>11. PICK g, p : g = t.file /\ p = t.obj
  OBVIOUS
<1>12. g \in [Num -> What] /\ p \in ObjFns /\ t.log \in LogRec
  BY <1>9, <1>11 DEF Tables
<1>13. D = Others(file) \ {Head(client[i].anc)}
  BY <1>4, <1>8
<1>14. Own(g, p, D) /\ \A m \in D : g[m] = file[m]
  BY <1>9, <1>11 DEF Holds
<1>15. PICK left : left = IF client[i].recv >= 0 THEN 0 ELSE client[i].left - 1
  OBVIOUS
<1>16. PICK a : a = Tail(client[i].anc)
  BY Zenon
<1>17. PICK c : c = [client[i] EXCEPT !.anc = a, !.left = left]
  OBVIOUS
<1>18. /\ c \in ClientRec /\ c.state = "next" /\ c.recv = client[i].recv
       /\ c.send = client[i].send /\ c.anc = Tail(client[i].anc)
  <2>1. client[i] \in ClientRec /\ client[i].anc \in Seq(Num) /\ client[i].left \in Int
    BY <1>2 DEF ClientRec
  <2>2. a \in Seq(Num)
    BY <1>3, <1>16, <2>1
  <2>3. left \in Int
    BY <1>15, <2>1
  <2> QED
    BY <1>3, <1>16, <1>17, <2>1, <2>2, <2>3, Zenon DEF ClientRec
<1>19. client' = [client EXCEPT ![i] = c]
  BY <1>2, <1>15, <1>16, <1>17, Zenon DEF ctl_cmd_fd_take
<1>20. Kept(g, p, [client EXCEPT ![i] = c], control_socket)
  BY <1>1, <1>3, <1>12, <1>13, <1>14, <1>18, TakesFirst
<1>21. client' \in [Slot -> ClientRec]
  BY <1>2, <1>18, <1>19
<1>22. Typed(file', obj', log', client', control_socket')
  BY <1>2, <1>10, <1>11, <1>12, <1>21 DEF Typed
<1> QED
  BY <1>10, <1>11, <1>19, <1>20, <1>22, Settles

\* ctl_state_end_command changes what is left of the input, and no number.
LEMMA CommandRec ==
  ASSUME CtlInv, ~astray, NEW i \in Slot, CommandEnds(i)
  PROVE  \E c \in ClientRec :
            /\ client' = [client EXCEPT ![i] = c]
            /\ c.state = client[i].state /\ c.recv = client[i].recv
            /\ c.send = client[i].send /\ c.anc = client[i].anc
<1>1. client \in [Slot -> ClientRec] /\ client[i] \in ClientRec
  BY Unpacked
<1>2. PICK left : left = IF client[i].recv >= 0 THEN 0 ELSE client[i].left - 1
  OBVIOUS
<1>3. PICK c : c = [client[i] EXCEPT !.left = left]
  BY Zenon
<1>4. left \in Int
  <2>1. client[i].left \in Int
    BY <1>1 DEF ClientRec
  <2> QED
    BY <1>2, <2>1
<1>5. /\ c \in ClientRec /\ c.state = client[i].state /\ c.recv = client[i].recv
      /\ c.send = client[i].send /\ c.anc = client[i].anc
  BY <1>1, <1>3, <1>4, Zenon DEF ClientRec
<1>6. client' = [client EXCEPT ![i] = c]
  BY <1>1, <1>2, <1>3 DEF CommandEnds
<1> QED
  BY <1>5, <1>6, Zenon

\* The control socket has been moved; the command ends.
LEMMA EndKept ==
  ASSUME CtlInv, ~astray, NEW i \in Slot, CommandEnds(i),
         NEW g, NEW ds, file' = g, obj' = obj, log' = log, control_socket' = ds,
         Typed(g, obj, log, client, ds), Kept(g, obj, client, ds)
  PROVE  CtlInv'
<1>1. PICK c \in ClientRec : /\ client' = [client EXCEPT ![i] = c]
                             /\ c.state = client[i].state /\ c.recv = client[i].recv
                             /\ c.send = client[i].send /\ c.anc = client[i].anc
  BY CommandRec
<1>2. Fit(g, i, c)
  <2>1. Fit(g, i, client[i])
    BY Zenon DEF Kept, Placed
  <2> QED
    BY <1>1, <2>1 DEF Fit, Live
<1>3. \A n \in Num : Has(g, n, i, client[i]) => Has(g, n, i, c)
  BY <1>1 DEF Has, Live
<1>4. Kept(g, obj, [client EXCEPT ![i] = c], ds)
  BY <1>2, <1>3, Rests
<1>5. client' \in [Slot -> ClientRec]
  BY <1>1 DEF Typed
<1>6. Typed(file', obj', log', client', control_socket')
  BY <1>5 DEF Typed
<1> QED
  BY <1>1, <1>4, <1>6, Settles

\* fd.open and fd.delete.
LEMMA FdCommandKept ==
  ASSUME CtlInv, ~astray, NEW i \in Slot, CommandEnds(i), NEW n \in FdName,
         ctl_cmd_fd_open(n) \/ ctl_cmd_fd_delete(n), control_socket' = control_socket
  PROVE  CtlInv'
<1>1. /\ Typed(file, obj, log, client, control_socket)
      /\ Kept(file, obj, client, control_socket)
  BY Unpacked
<1>2. /\ client \in [Slot -> ClientRec] /\ file \in [Num -> What] /\ obj \in ObjFns
      /\ log \in LogRec /\ control_socket \in Num \cup {-1}
  BY Unpacked
<1>3. Table \in Tables
  BY <1>2 DEF Table, Tables
<1>4. PICK C : C = Others(file)
  OBVIOUS
<1>5. Holds(Table, C)
  BY <1>1, <1>4 DEF Kept, Holds, Table
<1>6. /\ (Table \in Tables)' /\ Holds(Table, C)'
      /\ \A m \in C : file'[m] = file[m]
  <2>1. CASE ctl_cmd_fd_open(n)
    BY <1>3, <1>5, <2>1, OpenHolds
  <2>2. CASE ctl_cmd_fd_delete(n)
    <3>1. PICK t : t = fd_delete(Table, n)
      OBVIOUS
    <3>2. Becomes(t) /\ n \in DOMAIN Table.obj
      BY <2>2, <3>1 DEF ctl_cmd_fd_delete, Table
    <3>3. t \in Tables /\ Holds(t, C) /\ \A m \in C : t.file[m] = file[m]
      <4>1. \A m \in C : t.file[m] = Table.file[m]
        BY <1>3, <1>5, <3>1, <3>2, DeleteHolds
      <4>2. t \in Tables /\ Holds(t, C)
        BY <1>3, <1>5, <3>1, <3>2, DeleteHolds
      <4> QED
        BY <4>1, <4>2 DEF Table
    <3>4. \A m \in C : file'[m] = file[m]
      BY <3>2, <3>3 DEF Becomes
    <3> QED
      BY <3>2, <3>3, <3>4, BecomesHolds
  <2> QED
    BY <2>1, <2>2
<1>7. PICK g, p : g = file' /\ p = obj'
  OBVIOUS
<1>8. /\ g \in [Num -> What] /\ p \in ObjFns /\ log' \in LogRec /\ Own(g, p, C)
  BY <1>6, <1>7 DEF Table, Tables, Holds
<1>9. PICK c \in ClientRec : /\ client' = [client EXCEPT ![i] = c]
                             /\ c.state = client[i].state /\ c.recv = client[i].recv
                             /\ c.send = client[i].send /\ c.anc = client[i].anc
  BY CommandRec
<1>10. Own(g, p, Others(file)) /\ \A m \in Others(file) : g[m] = file[m]
  BY <1>4, <1>6, <1>7, <1>8
<1>11. g \in [Num -> What] /\ p \in ObjFns
  BY <1>8
<1>12. Kept(g, p, [client EXCEPT ![i] = c], control_socket)
  BY <1>1, <1>9, <1>10, <1>11, Renames, Zenon
<1>13. client' \in [Slot -> ClientRec]
  BY <1>2, <1>9
<1>14. Typed(file', obj', log', client', control_socket')
  BY <1>2, <1>7, <1>8, <1>13 DEF Typed
<1> QED
  BY <1>7, <1>9, <1>12, <1>14, Settles

LEMMA CommandKept ==
  ASSUME CtlInv, ~astray, NEW i \in Slot, Command(i)
  PROVE  CtlInv'
<1>1. CommandEnds(i)
  BY DEF Command
<1>2. /\ Typed(file, obj, log, client, control_socket)
      /\ Kept(file, obj, client, control_socket)
  BY Unpacked
<1>3. PICK f : f = Closed(file, control_socket)
  OBVIOUS
<1>4. PICK none : none = -1
  OBVIOUS
<1>5. Typed(f, obj, log, client, none) /\ Kept(f, obj, client, none)
  BY <1>2, <1>3, <1>4, SocketStops
<1>6. ASSUME NEW works \in BOOLEAN, ctl_cmd_socket_create(works) PROVE CtlInv'
  <2>1. obj' = obj /\ log' = log
    BY <1>6, Zenon DEF ctl_cmd_socket_create
  <2>2. CASE works
    <3>1. PICK g, n : g = Opened(f, Listener) /\ n = Lowest(f)
      OBVIOUS
    <3>2. Unused(f) # {} /\ control_socket' = n /\ file' = g
      BY <1>3, <1>6, <2>2, <3>1, Zenon DEF ctl_cmd_socket_create, Listener
    <3>3. none \notin Num
      BY <1>4, FdTableAssumption DEF Num
    <3>4. Typed(g, obj, log, client, n) /\ Kept(g, obj, client, n)
      BY <1>5, <3>1, <3>2, <3>3, SocketStarts
    <3> QED
      BY <1>1, <2>1, <3>2, <3>4, EndKept
  <2>3. CASE ~works
    <3>1. control_socket' = none /\ file' = f
      BY <1>3, <1>4, <1>6, <2>3 DEF ctl_cmd_socket_create
    <3> QED
      BY <1>1, <1>5, <2>1, <3>1, EndKept
  <2> QED
    BY <2>2, <2>3
<1>7. CASE ctl_cmd_socket_delete
  <2>1. obj' = obj /\ log' = log /\ control_socket' = none /\ file' = f
    BY <1>3, <1>4, <1>7 DEF ctl_cmd_socket_delete
  <2> QED
    BY <1>1, <1>5, <2>1, EndKept
<1>8. CASE UNCHANGED <<file, obj, log, startup, control_socket, astray>>
  <2>1. obj' = obj /\ log' = log /\ control_socket' = control_socket /\ file' = file
    BY <1>8
  <2> QED
    BY <1>1, <1>2, <2>1, EndKept
<1>9. ASSUME NEW n \in FdName, ctl_cmd_fd_open(n) \/ ctl_cmd_fd_delete(n),
             UNCHANGED <<control_socket, astray>>
      PROVE  CtlInv'
  BY <1>1, <1>9, FdCommandKept
<1> QED
  BY <1>6, <1>7, <1>8, <1>9 DEF Command

LEMMA StepKept ==
  ASSUME CtlInv, [CtlNext]_<<fdVars, ctlVars>>
  PROVE  CtlInv'
<1>1. CASE UNCHANGED <<fdVars, ctlVars>>
  <2>1. /\ file' = file /\ obj' = obj /\ log' = log /\ client' = client
        /\ control_socket' = control_socket /\ astray' = astray
    BY <1>1 DEF fdVars, ctlVars
  <2>2. /\ Typed(file, obj, log, client, control_socket)
        /\ ~astray => Kept(file, obj, client, control_socket)
    BY DEF CtlInv
  <2> QED
    BY <2>1, <2>2, Settles
<1>2. ASSUME ~astray, NEW i \in Slot, CtlStep(i) PROVE CtlInv'
  BY <1>2, UsedUpKept, CloseKept, FreeKept DEF CtlStep
<1>3. ASSUME ~astray,
             NEW i \in Slot,
             \/ CtlStep(i) \/ Command(i) \/ ctl_cmd_exit(i) \/ TimesOut(i)
             \/ \E left \in 0..LEFT : ctl_read_more(i, left)
             \/ ctl_read_ancillary_fds(i)
             \/ \E n \in FdName : ctl_cmd_fd_take(i, n)
             \/ \E works \in BOOLEAN : ctl_flush_outbuf(i, works)
      PROVE  CtlInv'
  BY <1>2, <1>3, CommandKept, ExitKept, TimesOutKept, ReadMoreKept, ReceiveKept,
     TakeKept, FlushKept
<1>4. CASE GoneAstray
  BY <1>1, <1>4 DEF GoneAstray
<1> QED
  BY <1>1, <1>3, <1>4, AcceptKept, AcceptFailsKept, ForkKept, ForkFailsKept, ForkFullKept
     DEF CtlNext

-----------------------------------------------------------------------------
(* The initial states.                                                     *)

\* Controllers that have nothing open agree with whatever is open.
LEMMA VacantFits ==
  ASSUME NEW f, NEW i, NEW c, c.state = "none"
  PROVE  Fit(f, i, c) /\ \A n : ~Has(f, n, i, c)
  BY DEF Fit, Has, Live

\* What numbers are open for before controllers and the control socket.
LEMMA StartedNames ==
  ASSUME NEW s \in Starts, 0..2 \subseteq s.open, NEW t, t = Started(s)
  PROVE  /\ t \in Tables /\ t.file \in [Num -> What] /\ t.obj \in ObjFns
         /\ t.log \in LogRec /\ Own(t.file, t.obj, Takes(s.mode))
<1>1. t \in Tables
  BY StartedGood DEF Good
<1>2. Holds(t, Takes(s.mode))
  BY StartedHolds
<1> QED
  BY <1>1, <1>2 DEF Tables, Holds

\* The control socket of --socket.
LEMMA ListensKept ==
  ASSUME CtlInit, 0..2 \subseteq startup.open, startup.mode = "socket"
  PROVE  CtlInv
<1>1. PICK t : t = Started(startup)
  OBVIOUS
<1>2. startup \in Starts
  BY Zenon DEF CtlInit
<1>3. /\ t.file \in [Num -> What] /\ t.obj \in ObjFns
      /\ t.log \in LogRec /\ Own(t.file, t.obj, Takes(startup.mode))
  BY <1>1, <1>2, StartedNames
<1>4. PICK f, cl, none : f = t.file /\ cl = client /\ none = -1
  OBVIOUS
<1>5. client = [i \in Slot |-> Vacant]
  BY Zenon DEF CtlInit
<1>6. cl \in [Slot -> ClientRec] /\ \A i \in Slot : cl[i].state = "none"
  BY <1>4, <1>5, VacantRec
<1>7. Takes(startup.mode) = {}
  BY DEF Takes
<1>8. Others(f) = {} /\ Own(f, t.obj, Others(f)) /\ f \in [Num -> What]
  <2>1. PICK D : D = {}
    BY Zenon
  <2>2. Own(f, t.obj, D) /\ \A n \in D : f[n] \in Use
    BY <1>3, <1>4, <1>7, <2>1
  <2>3. Others(f) = D
    BY <1>3, <1>4, <2>2, NamedOnly
  <2> QED
    BY <1>3, <1>4, <2>1, <2>2, <2>3
<1>9. Typed(f, t.obj, t.log, cl, none)
  BY <1>3, <1>4, <1>6, <1>8 DEF Typed
<1>10. Kept(f, t.obj, cl, none)
  <2>1. ~(none >= 0)
    BY <1>4
  <2>2. \A i \in Slot : Fit(f, i, cl[i])
    BY <1>6, VacantFits
  <2> QED
    BY <1>8, <2>1, <2>2, Zenon DEF Kept, Placed
<1>11. obj = t.obj /\ log = t.log /\ client = cl /\ astray = FALSE
       /\ control_socket = Lowest(f) /\ file = Opened(f, Listener)
  BY <1>1, <1>4, Zenon DEF CtlInit, Listener
<1>12. CASE Unused(f) = {}
  <2>1. file = f /\ control_socket = none
    BY <1>4, <1>11, <1>12 DEF Opened, Lowest
  <2> QED
    BY <1>9, <1>10, <1>11, <2>1 DEF CtlInv
<1>13. CASE Unused(f) # {}
  <2>1. PICK g, n, o, l : /\ g = Opened(f, Listener) /\ n = Lowest(f)
                          /\ o = t.obj /\ l = t.log
    OBVIOUS
  <2>2. none \notin Num
    BY <1>4, FdTableAssumption DEF Num
  <2>3. Typed(g, o, l, cl, n) /\ Kept(g, o, cl, n)
    BY <1>9, <1>10, <1>13, <2>1, <2>2, SocketStarts
  <2> QED
    BY <1>11, <2>1, <2>3 DEF CtlInv
<1> QED
  BY <1>12, <1>13

\* The controller of an interactive process, or of a configuration file.
LEMMA ClaimsKept ==
  ASSUME CtlInit, 0..2 \subseteq startup.open, startup.mode # "socket"
  PROVE  CtlInv
<1>1. PICK t : t = Started(startup)
  OBVIOUS
<1>2. startup \in Starts
  BY DEF CtlInit
<1>3. /\ t.file \in [Num -> What] /\ t.obj \in ObjFns
      /\ t.log \in LogRec /\ Own(t.file, t.obj, Takes(startup.mode))
  BY <1>1, <1>2, StartedNames
<1>4. PICK f, g, o, C : f = t.file /\ g = file /\ o = t.obj /\ C = Takes(startup.mode)
  OBVIOUS
<1>5. startup.mode \in {"interactive", "config"}
  BY <1>2, FdTableAssumption
<1>6. /\ file = [n \in Num |-> IF n \in ClaimedNumbers THEN Line[1] ELSE t.file[n]]
      /\ obj = o /\ log = t.log /\ control_socket = -1 /\ astray = FALSE
  BY <1>1, <1>4 DEF CtlInit
<1>7. ClaimedNumbers = C
  BY <1>4 DEF ClaimedNumbers, Takes
<1>8. 1 \in Slot
  <2>1. CLIENTS \in Nat \ {0}
    BY ControllersAssumption, Zenon
  <2> QED
    BY <2>1 DEF Slot
<1>9. Line[1] \in Use /\ Line[1] \in What /\ Line[1] # "closed" /\ Line[1] # Sent[1]
  BY <1>8, UsesApart, Zenon
<1>10. \A n \in Num : g[n] = IF n \in C THEN Line[1] ELSE f[n]
  BY <1>4, <1>6, <1>7
<1>11. g \in [Num -> What]
  BY <1>3, <1>4, <1>6, <1>7, <1>9
<1>12. Own(g, o, C)
  <2>1. Own(f, o, C)
    BY <1>3, <1>4
  <2> QED
    BY <1>9, <1>10, <2>1 DEF Own
<1>13. C \subseteq Num /\ Others(g) = C
  <2>1. C \subseteq Num
    BY <1>12 DEF Own
  <2>2. \A n \in C : g[n] \in Use
    BY <1>9, <1>10, <2>1
  <2> QED
    BY <1>3, <1>4, <1>11, <1>12, <2>1, <2>2, NamedOnly
<1>14. PICK cl : cl = client
  OBVIOUS
<1>15. \A i \in Slot : i # 1 => cl[i] = Vacant
  BY <1>14 DEF CtlInit, Slot
<1>16. 0 \in Num /\ 1 \in Num
  BY FdTableAssumption DEF Num
<1>17. /\ cl[1] \in ClientRec /\ cl[1].state = "next" /\ cl[1].recv = 0
       /\ cl[1].send = 1 \/ cl[1].send = -1
       /\ cl[1].anc = <<>>
       /\ 1 \in C <=> cl[1].send = 1
       /\ \A n \in C : n = cl[1].recv \/ n = cl[1].send
       /\ 0 \in C
  <2>1. CASE startup.mode = "interactive"
    <3>1. cl[1] = Built(0, 1)
      BY <1>8, <1>14, <2>1 DEF CtlInit
    <3>2. C = 0..1
      BY <1>4, <2>1 DEF Takes
    <3>3. /\ cl[1] \in ClientRec /\ cl[1].state = "next" /\ cl[1].recv = 0
          /\ cl[1].send = 1 /\ cl[1].anc = <<>>
      BY <1>16, <3>1, BuiltRec
    <3> QED
      BY <3>2, <3>3
  <2>2. CASE startup.mode = "config"
    <3>1. cl[1] = Built(0, -1)
      BY <1>8, <1>14, <2>2 DEF CtlInit
    <3>2. C = {0}
      BY <1>4, <2>2 DEF Takes
    <3>3. /\ cl[1] \in ClientRec /\ cl[1].state = "next" /\ cl[1].recv = 0
          /\ cl[1].send = -1 /\ cl[1].anc = <<>>
      BY <1>16, <3>1, BuiltRec
    <3> QED
      BY <3>2, <3>3
  <2> QED
    BY <1>5, <2>1, <2>2
<1>18. cl \in [Slot -> ClientRec]
  <2>1. \A i \in Slot : cl[i] \in ClientRec
    BY <1>15, <1>17, VacantRec
  <2> DEFINE F(i) == IF i > 1 THEN Vacant
                     ELSE CASE startup.mode = "interactive" -> Built(0, 1)
                            [] startup.mode = "config"      -> Built(0, -1)
                            [] startup.mode = "socket"      -> Vacant
  <2>2. cl = [i \in Slot |-> F(i)]
    BY <1>14 DEF CtlInit
  <2> HIDE DEF F
  <2> QED
    BY <2>1, <2>2
<1>19. \A n \in C : g[n] = Line[1]
  BY <1>10, <1>13
<1>20. Fit(g, 1, cl[1])
  <2>1. Len(cl[1].anc) = 0
    BY <1>17
  <2>2. cl[1].send >= 0 => cl[1].send \in C
    BY <1>17
  <2> QED
    BY <1>9, <1>17, <1>19, <2>1, <2>2 DEF Fit
<1>21. \A n \in C : Has(g, n, 1, cl[1])
  BY <1>17, <1>19 DEF Has, Live
<1>22. \A i \in Slot : Fit(g, i, cl[i])
  <2>1. \A i \in Slot : i # 1 => cl[i].state = "none"
    BY <1>15, VacantRec
  <2> QED
    BY <1>20, <2>1, VacantFits
<1>23. PICK none : none = -1
  OBVIOUS
<1>24. Placed(g, cl, none)
  <2>1. ~(none >= 0)
    BY <1>23
  <2> QED
    BY <1>8, <1>13, <1>21, <1>22, <2>1, Zenon DEF Placed
<1>25. Kept(g, o, cl, none)
  BY <1>12, <1>13, <1>24 DEF Kept
<1>26. Typed(g, o, log, cl, none)
  BY <1>3, <1>4, <1>6, <1>11, <1>18, <1>23 DEF Typed
<1> QED
  BY <1>4, <1>6, <1>14, <1>23, <1>25, <1>26 DEF CtlInv

-----------------------------------------------------------------------------
(* The theorems.                                                           *)

\* A number in the fields of a live controller is one that ctl_dtor closes.
LEMMA HasNumber ==
  ASSUME NEW i \in Slot, NEW n \in Num, client[i] \in ClientRec, Has(file, n, i, client[i])
  PROVE  n \in Numbers(i) /\ ~Foreign(file, i, n)
<1>1. Numbers(i) = Destroyed(client[i])
  BY DEF Numbers, Has, Live
<1>2. PICK e \in ClientRec : e = client[i]
  OBVIOUS
<1>3. n \in Destroyed(e)
  <2>1. \A m \in Num : m # -1
    <3>1. Num \subseteq Nat
      BY FdTableAssumption DEF Num
    <3> QED
      BY <3>1
  <2>2. CASE n \in {e.recv, e.send}
    BY <2>1, <2>2 DEF Destroyed
  <2>3. CASE \E k \in 1..Len(e.anc) : e.anc[k] = n
    BY <2>3 DEF Destroyed, Range
  <2> QED
    BY <1>2, <2>2, <2>3 DEF Has
<1>4. ~Foreign(file, i, n)
  BY DEF Foreign, Has
<1> QED
  BY <1>1, <1>2, <1>3, <1>4

\* The names, and the controllers, that hold a number.
NamesOf(n) == {k \in DOMAIN obj : obj[k].num = n}

HoldersOf(n) == {i \in Slot : n \in Numbers(i) /\ ~Foreign(file, i, n)}

\* One holder of each open number.
LEMMA HoldersOne ==
  ASSUME CtlInv, ~astray, NEW n \in Num, file[n] # "closed",
         NEW names, names = NamesOf(n), NEW holders, holders = HoldersOf(n)
  PROVE  \/ /\ (\E k : names = {k}) /\ holders = {} /\ n # control_socket
         \/ /\ names = {} /\ holders = {} /\ n = control_socket
         \/ /\ names = {} /\ (\E i : holders = {i}) /\ n # control_socket
<1>1. /\ file \in [Num -> What] /\ obj \in ObjFns /\ client \in [Slot -> ClientRec]
      /\ control_socket \in Num \cup {-1}
      /\ Own(file, obj, Others(file)) /\ Placed(file, client, control_socket)
  BY Unpacked DEF Kept
<1>2. Num \subseteq Nat
  BY FdTableAssumption DEF Num
<1>3. n = control_socket => file[n] = "control socket"
  <2>1. n >= 0
    BY <1>2
  <2> QED
    BY <1>1, <2>1, Zenon DEF Placed
<1>4. \A i \in holders : i \in Slot /\ file[n] \in {Line[i], Sent[i]}
  BY <1>2 DEF Foreign, HoldersOf
<1>5. CASE n \notin Others(file)
  <2>1. file[n] \notin Use
    BY <1>5 DEF Others
  <2>2. PICK k \in DOMAIN obj : obj[k].num = n
    BY <1>1, <1>5 DEF Own
  <2>3. \A m \in DOMAIN obj : obj[m].num = n => m = k
    BY <1>1, <2>2 DEF Own
  <2>4. names = {k}
    BY <2>2, <2>3 DEF NamesOf
  <2>5. holders = {} /\ n # control_socket
    BY <1>3, <1>4, <2>1, UsesApart, Zenon
  <2> QED
    BY <2>4, <2>5
<1>6. CASE n \in Others(file)
  <2>1. names = {}
    BY <1>1, <1>6 DEF Own, NamesOf
  <2>2. CASE file[n] = "control socket" /\ n = control_socket
    <3>1. holders = {}
      BY <1>4, <2>2, UsesApart, Zenon
    <3> QED
      BY <2>1, <2>2, <3>1, Zenon
  <2>3. ASSUME NEW i \in Slot, Has(file, n, i, client[i])
        PROVE  /\ names = {} /\ (\E j : holders = {j}) /\ n # control_socket
    <3>1. file[n] \in {Line[i], Sent[i]}
      BY <2>3 DEF Has
    <3>2. i \in holders
      BY <1>1, <2>3, HasNumber DEF HoldersOf
    <3>3. \A j \in holders : j = i
      BY <1>4, <3>1, UsesApart, Zenon
    <3>4. holders = {i}
      BY <3>2, <3>3
    <3>5. n # control_socket
      BY <1>3, <3>1, UsesApart, Zenon
    <3> QED
      BY <2>1, <3>4, <3>5
  <2> QED
    BY <1>1, <1>6, <2>2, <2>3, Zenon DEF Placed
<1> QED
  BY <1>5, <1>6, Zenon

\* In a process started with its standard descriptors open, until a controller
\* has used a number that has become another's: whoever connects, sends
\* descriptors, takes, opens and deletes them, hangs up, times out or is
\* destroyed, in any order and with any of it failing, every open number has
\* exactly one holder.
THEOREM DescriptorsKept ==
  CtlSpec /\ 0..2 \subseteq startup.open => []NoDescriptorLost
<1>1. CtlInit /\ 0..2 \subseteq startup.open => CtlInv
  BY ListensKept, ClaimsKept
<1>2. CtlInv /\ [CtlNext]_<<fdVars, ctlVars>> => CtlInv'
  BY StepKept
<1>3. CtlInv => NoDescriptorLost
  <2> SUFFICES ASSUME CtlInv, ~astray, NEW n \in Num,
                      NEW names, names = NamesOf(n),
                      NEW holders, holders = HoldersOf(n)
               PROVE  /\ file[n] # "closed" =>
                            Cardinality(names) + Cardinality(holders)
                                + (IF n = control_socket THEN 1 ELSE 0) = 1
                      /\ \A k \in names : file[n] \in {k, "null"}
    BY DEF NoDescriptorLost, NamesOf, HoldersOf
  <2>1. \A k \in names : file[n] \in {k, "null"}
    BY Unpacked DEF Kept, Own, NamesOf
  <2>2. ASSUME file[n] # "closed"
        PROVE  Cardinality(names) + Cardinality(holders)
                   + (IF n = control_socket THEN 1 ELSE 0) = 1
    <3>1. \/ /\ (\E k : names = {k}) /\ holders = {} /\ n # control_socket
          \/ /\ names = {} /\ holders = {} /\ n = control_socket
          \/ /\ names = {} /\ (\E i : holders = {i}) /\ n # control_socket
      BY <2>2, HoldersOne, Zenon
    <3>2. Cardinality({}) = 0 /\ \A x : Cardinality({x}) = 1
      BY FS_EmptySet, FS_Singleton, Zenon
    <3>3. \/ Cardinality(names) = 1 /\ Cardinality(holders) = 0 /\ n # control_socket
          \/ Cardinality(names) = 0 /\ Cardinality(holders) = 0 /\ n = control_socket
          \/ Cardinality(names) = 0 /\ Cardinality(holders) = 1 /\ n # control_socket
      BY ONLY <3>1, <3>2, Zenon
    <3> QED
      BY ONLY <3>3
  <2> QED
    BY <2>1, <2>2
<1> QED
  BY <1>1, <1>2, <1>3, PTL DEF CtlSpec

\* In the same processes, until then: a controller with both directions open
\* has in its fields only numbers that are open for it.
THEOREM ConnectionsOwn ==
  CtlSpec /\ 0..2 \subseteq startup.open => []WholeConnectionsAreOwn
<1>1. CtlInit /\ 0..2 \subseteq startup.open => CtlInv
  BY ListensKept, ClaimsKept
<1>2. CtlInv /\ [CtlNext]_<<fdVars, ctlVars>> => CtlInv'
  BY StepKept
<1>3. CtlInv => WholeConnectionsAreOwn
  <2> SUFFICES ASSUME CtlInv, ~astray, NEW i \in Slot, client[i].state = "next",
                      client[i].recv >= 0, client[i].send >= 0, NEW n \in Numbers(i)
               PROVE  file[n] # "closed" /\ ~Foreign(file, i, n)
    BY DEF WholeConnectionsAreOwn
  <2>1. client[i] \in ClientRec /\ Fit(file, i, client[i])
    BY Unpacked, Zenon DEF Kept, Placed
  <2>2. \/ n = client[i].recv \/ n = client[i].send
        \/ \E k \in 1..Len(client[i].anc) : n = client[i].anc[k]
    <3>1. n \in Destroyed(client[i])
      BY DEF Numbers
    <3>2. client[i].anc \in Seq(Num)
      BY <2>1 DEF ClientRec
    <3> QED
      BY <3>1, <3>2 DEF Destroyed, Range
  <2>3. file[n] = Line[i] \/ file[n] = Sent[i]
    BY <2>1, <2>2 DEF Fit, Live
  <2> QED
    BY <2>3, UsesApart, Zenon DEF Foreign
<1> QED
  BY <1>1, <1>2, <1>3, PTL DEF CtlSpec
=============================================================================
