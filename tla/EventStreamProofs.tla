-------------------------- MODULE EventStreamProofs --------------------------
(***************************************************************************)
(* Proofs about EventStream for any number of clients, any buffer sizes   *)
(* and any timeouts: types and buffer bounds, no half event, no overflow  *)
(* flag without data behind it, and, when the loop goes to sleep, every   *)
(* backlog watched and its timeout armed.                                  *)
(***************************************************************************)
EXTENDS EventStream, DataInduction, SequenceTheorems, TLAPS

\* What WholeLines says of one stream.
Whole(u) ==
    u # <<>> =>
        /\ u[Len(u)] # "part"
        /\ \A i \in 1..(Len(u) - 1) : u[i] = "part" => u[i + 1] # "overflow"

\* A controller at any point of the code: within its types, its buffer and
\* the kernel's, its stream whole, its clock running only for a backlog.
Sound(k) ==
    /\ k \in Controller
    /\ Len(k.send_buf) < SEND_BUF
    /\ Len(k.pipe) <= PIPE
    /\ k.state_fn = "free" => ~k.send_fd
    /\ k.send_fd => Whole(Unread(k))
    /\ k.send_fd /\ k.late # NotBlocked => k.send_buf # <<>>

\* Between the calls of the write functions, the overflow flag has data too.
Good(k) == Sound(k) /\ (k.send_fd /\ k.send_overflow => k.send_buf # <<>>)

LEMMA Sizes ==
    /\ CLIENTS \in Nat \ {0} /\ SEND_BUF \in Nat \ {0} /\ RECV_BUF \in Nat \ {0}
    /\ PIPE \in Nat \ {0} /\ IDLE \in Nat \ {0} /\ LARGEST_WRITE \in Nat \ {0}
    /\ LARGEST_WRITE < SEND_BUF
BY EventStreamAssumption

-----------------------------------------------------------------------------
(* Streams.                                                               *)

\* A line, as ctl_write composes it, is parts and an end.
LEMMA LineProperties ==
    ASSUME NEW n \in Nat \ {0}
    PROVE  /\ Line(n) \in Seq(Unit)
           /\ Len(Line(n)) = n
           /\ Line(n)[n] = "event"
           /\ \A i \in 1..n : Line(n)[i] # "overflow"
<1>1. Line(n) \in [1..n -> Unit]
  BY DEF Line, Unit
<1>2. Line(n) \in Seq(Unit) /\ Len(Line(n)) = n
  BY <1>1
<1> QED BY <1>1, <1>2 DEF Line

\* Reading a concatenation.
LEMMA ConcatIndex ==
    ASSUME NEW u \in Seq(Unit), NEW v \in Seq(Unit)
    PROVE  /\ u \o v \in Seq(Unit)
           /\ Len(u \o v) = Len(u) + Len(v)
           /\ Len(u) \in Nat /\ Len(v) \in Nat
           /\ \A i \in 1..(Len(u) + Len(v)) :
                 (u \o v)[i] = IF i <= Len(u) THEN u[i] ELSE v[i - Len(u)]
BY ConcatProperties, LenProperties

\* Queueing an event (Queued) keeps a stream whole.
LEMMA WholeLine ==
    ASSUME NEW u \in Seq(Unit), Whole(u), NEW n \in Nat \ {0}
    PROVE  Whole(u \o Line(n))
<1> DEFINE w == u \o Line(n)
<1>1. /\ Line(n) \in Seq(Unit) /\ Len(Line(n)) = n
      /\ Line(n)[n] = "event"
      /\ \A i \in 1..n : Line(n)[i] # "overflow"
  BY LineProperties
<1>2. /\ Len(u) \in Nat /\ Len(w) = Len(u) + n
      /\ \A i \in 1..(Len(u) + n) :
            w[i] = IF i <= Len(u) THEN u[i] ELSE Line(n)[i - Len(u)]
  BY <1>1, ConcatIndex
<1> HIDE DEF w
<1>3. w[Len(w)] = "event"
  BY <1>1, <1>2
<1>4. ASSUME NEW i \in 1..(Len(w) - 1), w[i] = "part"
      PROVE  w[i + 1] # "overflow"
  <2>1. CASE i < Len(u)
    <3>1. w[i] = u[i] /\ w[i + 1] = u[i + 1]
      BY <1>2, <2>1
    <3>2. u # <<>>
      BY <1>2, <2>1, EmptySeq
    <3> QED BY <1>4, <1>2, <2>1, <3>1, <3>2 DEF Whole
  <2>2. CASE i >= Len(u)
    <3>1. i + 1 - Len(u) \in 1..n /\ w[i + 1] = Line(n)[i + 1 - Len(u)]
      BY <1>2, <2>2
    <3> QED BY <1>1, <3>1
  <2> QED BY <1>2, <2>1, <2>2
<1> QED BY <1>3, <1>4 DEF Whole, w

\* So does the overflow line, which follows the end of an event.
LEMMA WholeOverflow ==
    ASSUME NEW u \in Seq(Unit), Whole(u)
    PROVE  Whole(u \o <<"overflow">>)
<1> DEFINE v == <<"overflow">>
           w == u \o v
<1>1. v \in Seq(Unit) /\ Len(v) = 1 /\ v[1] = "overflow"
  BY DEF Unit
<1>2. /\ Len(u) \in Nat /\ Len(w) = Len(u) + 1
      /\ \A i \in 1..(Len(u) + 1) : w[i] = IF i <= Len(u) THEN u[i] ELSE v[i - Len(u)]
  BY <1>1, ConcatIndex
<1> HIDE DEF w, v
<1>3. w[Len(w)] = "overflow"
  BY <1>1, <1>2
<1>4. ASSUME NEW i \in 1..(Len(w) - 1), w[i] = "part"
      PROVE  w[i + 1] # "overflow"
  <2>1. i \in 1..Len(u) /\ w[i] = u[i] /\ u # <<>>
    BY <1>2, EmptySeq
  <2>2. i # Len(u)
    BY <1>2, <1>4, <2>1 DEF Whole
  <2>3. w[i + 1] = u[i + 1] /\ i \in 1..(Len(u) - 1)
    BY <1>2, <2>1, <2>2
  <2> QED BY <1>4, <2>1, <2>3 DEF Whole
<1> QED BY <1>3, <1>4 DEF Whole, w, v

\* What is left of a whole stream when its reader takes from the front.
LEMMA WholeSuffix ==
    ASSUME NEW u \in Seq(Unit), NEW v \in Seq(Unit), Whole(u \o v)
    PROVE  Whole(v)
<1> SUFFICES ASSUME v # <<>> PROVE Whole(v)
  BY DEF Whole
<1> DEFINE w == u \o v
<1>1. /\ Len(u) \in Nat /\ Len(v) \in Nat \ {0} /\ Len(w) = Len(u) + Len(v)
      /\ \A i \in 1..(Len(u) + Len(v)) :
            w[i] = IF i <= Len(u) THEN u[i] ELSE v[i - Len(u)]
  BY ConcatIndex, EmptySeq
<1>2. w # <<>>
  BY <1>1, EmptySeq
<1>3. w[Len(w)] # "part"
      /\ \A i \in 1..(Len(w) - 1) : w[i] = "part" => w[i + 1] # "overflow"
  BY <1>2 DEF Whole
<1> HIDE DEF w
<1>4. v[Len(v)] = w[Len(w)]
  BY <1>1
<1>5. ASSUME NEW i \in 1..(Len(v) - 1), v[i] = "part"
      PROVE  v[i + 1] # "overflow"
  <2>1. /\ Len(u) + i \in 1..(Len(w) - 1)
        /\ v[i] = w[Len(u) + i] /\ v[i + 1] = w[Len(u) + i + 1]
    BY <1>1
  <2> QED BY <1>3, <1>5, <2>1
<1> QED BY <1>3, <1>4, <1>5 DEF Whole

\* The reader takes one unit from a pipe p in front of the buffer b.
LEMMA WholeTail ==
    ASSUME NEW p \in Seq(Unit), NEW b \in Seq(Unit), p # <<>>, Whole(p \o b)
    PROVE  Tail(p) \in Seq(Unit) /\ Whole(Tail(p) \o b)
<1> DEFINE h == <<Head(p)>>
           t == Tail(p)
<1>1. t \in Seq(Unit) /\ h \in Seq(Unit) /\ p = h \o t
  <2>1. Head(p) \in Unit /\ t \in Seq(Unit)
    BY HeadTailProperties
  <2>2. p = h \o t
    BY <2>1
  <2> QED BY <2>1, <2>2
<1>2. t \o b \in Seq(Unit)
  BY <1>1, ConcatIndex
<1>3. p \o b = h \o (t \o b)
  BY <1>1, <1>2
<1> HIDE DEF h, t
<1>4. Whole(h \o (t \o b))
  BY <1>3
<1>5. Whole(t \o b)
  BY <1>1, <1>2, <1>4, WholeSuffix
<1> QED BY <1>1, <1>5 DEF t

\* A write() moves the front of the buffer b to the end of the pipe p: the
\* stream they make together is the same.
LEMMA MoveFront ==
    ASSUME NEW p \in Seq(Unit), NEW b \in Seq(Unit), NEW n \in 0..Len(b)
    PROVE  /\ p \o SubSeq(b, 1, n) \in Seq(Unit)
           /\ SubSeq(b, n + 1, Len(b)) \in Seq(Unit)
           /\ Len(SubSeq(b, n + 1, Len(b))) = Len(b) - n
           /\ (p \o SubSeq(b, 1, n)) \o SubSeq(b, n + 1, Len(b)) = p \o b
<1> DEFINE f == SubSeq(b, 1, n)
           r == SubSeq(b, n + 1, Len(b))
<1>1. Len(b) \in Nat /\ \A i \in 1..Len(b) : b[i] \in Unit
  BY LenProperties, ElementOfSeq
<1>2. f \in Seq(Unit)
  BY <1>1, SubSeqProperties
<1>3. r \in Seq(Unit) /\ Len(r) = Len(b) - n
  BY <1>1, SubSeqProperties
<1>4. f \o r = b
  <2>1. f \o r = SubSeq(b, 1, Len(b))
    <3>1. 1 \in 1..(Len(b) + 1) /\ n \in (1 - 1)..Len(b) /\ Len(b) \in n..Len(b)
      BY <1>1
    <3> QED BY <3>1, ConcatAdjacentSubSeq
  <2> QED BY <2>1, SubSeqFull
<1> HIDE DEF f, r
<1>5. p \o f \in Seq(Unit)
  BY <1>2, ConcatIndex
<1>6. (p \o f) \o r = p \o (f \o r)
  BY <1>2, <1>3
<1> QED BY <1>3, <1>4, <1>5, <1>6 DEF f, r

-----------------------------------------------------------------------------
(* Writing and flushing.                                                  *)

\* What the write loop leaves alone: all but the stream and its clock; a
\* backlog it leaves on an open descriptor has its clock running.
Drained(k, x) ==
    /\ x.state_fn = k.state_fn /\ x.timeout = k.timeout /\ x.wait = k.wait
    /\ x.input = k.input /\ x.eof = k.eof
    /\ x.send_fd => k.send_fd
    /\ k.send_buf # <<>> /\ x.send_fd /\ x.send_buf # <<>> => x.late # NotBlocked

\* The while loop of ctl_flush_outbuf keeps the stream whole.
LEMMA WriteOutSound ==
    ASSUME NEW k, Sound(k), NEW x \in WriteOut(k)
    PROVE  /\ Sound(x) /\ Drained(k, x)
           /\ x.send_overflow = k.send_overflow
<1>k. k \in Controller /\ Len(k.send_buf) \in Nat
  BY LenProperties DEF Sound, Controller
<1>1. CASE k.send_buf = <<>>
  BY <1>1 DEF WriteOut, Drained
<1>2. CASE k.send_buf # <<>> /\ ~k.send_fd
  <2>1. x = [k EXCEPT !.send_buf = <<>>]
    BY <1>2 DEF WriteOut
  <2>2. PICK e \in Seq(Unit) : e = <<>> /\ Len(e) = 0
    BY EmptySeq
  <2>3. x = [k EXCEPT !.send_buf = e]
    BY <2>1, <2>2
  <2>4. x \in Controller /\ Drained(k, x) /\ x.send_buf = e /\ x.pipe = k.pipe
        /\ x.send_fd = FALSE /\ x.send_overflow = k.send_overflow
    BY <1>k, <1>2, <2>3 DEF Drained, Controller
  <2> QED BY <2>2, <2>4, Sizes DEF Sound
<1>3. CASE k.send_buf # <<>> /\ k.send_fd /\ k.hungup
  <2>1. x = [k EXCEPT !.send_fd = FALSE]
    BY <1>3 DEF WriteOut
  <2> QED BY <1>k, <1>3, <2>1 DEF Sound, Drained, Controller
<1>4. CASE k.send_buf # <<>> /\ k.send_fd /\ ~k.hungup
  <2> DEFINE all == Len(k.send_buf)
             room == PIPE - Len(k.pipe)
  <2>0. k.pipe \in Seq(Unit) /\ k.send_buf \in Seq(Unit) /\ Len(k.pipe) \in Nat
    BY <1>k, LenProperties DEF Controller
  <2>1. PICK n \in (IF room >= all THEN {all} ELSE {0, room}) :
           x = [k EXCEPT !.pipe = @ \o SubSeq(k.send_buf, 1, n),
                         !.send_buf = SubSeq(@, n + 1, all),
                         !.late = BlockedFor(@, n, all)]
    BY <1>4 DEF WriteOut
  <2>2. n \in 0..all /\ n <= room
    <3>1. all \in Nat /\ room \in Nat
      BY <1>k, <2>0, Sizes DEF Sound
    <3> HIDE DEF all, room
    <3>2. (n = all /\ room >= all) \/ (~(room >= all) /\ (n = 0 \/ n = room))
      BY <2>1
    <3> QED BY <3>1, <3>2
  <2> DEFINE q == k.pipe \o SubSeq(k.send_buf, 1, n)
             r == SubSeq(k.send_buf, n + 1, all)
             l == BlockedFor(k.late, n, all)
  <2>3. q \in Seq(Unit) /\ r \in Seq(Unit) /\ Len(r) = all - n /\ q \o r = Unread(k)
    BY <2>0, <2>2, MoveFront DEF Unread
  <2>4. Len(q) <= PIPE
    <3>1. SubSeq(k.send_buf, 1, n) \in Seq(Unit) /\ Len(SubSeq(k.send_buf, 1, n)) = n
      BY <2>0, <2>2, <1>k, ElementOfSeq, SubSeqProperties
    <3>2. Len(q) = Len(k.pipe) + n
      BY <3>1, <2>0, ConcatIndex
    <3> HIDE DEF q
    <3> QED BY <3>2, <2>0, <2>2, <1>k, Sizes
  <2>5. l \in NotBlocked..IDLE /\ (l # NotBlocked <=> n # all)
    BY <1>k, <2>2, Sizes DEF BlockedFor, Controller, NotBlocked
  <2>6. x = [k EXCEPT !.pipe = q, !.send_buf = r, !.late = l]
    BY <2>1
  <2> HIDE DEF q, r, l
  <2>7. /\ x \in Controller /\ x.pipe = q /\ x.send_buf = r /\ x.late = l
        /\ x.state_fn = k.state_fn /\ x.timeout = k.timeout /\ x.wait = k.wait
        /\ x.input = k.input /\ x.eof = k.eof /\ x.send_fd = k.send_fd
        /\ x.send_overflow = k.send_overflow
    BY <1>k, <2>3, <2>5, <2>6 DEF Controller
  <2>8. r # <<>> <=> n # all
    BY <1>k, <2>2, <2>3, EmptySeq
  <2>9. Len(r) < SEND_BUF
    BY <1>k, <2>2, <2>3, Sizes DEF Sound
  <2>10. Whole(Unread(x))
    BY <1>4, <2>3, <2>7 DEF Sound, Unread
  <2> QED BY <1>4, <2>4, <2>5, <2>7, <2>8, <2>9, <2>10 DEF Sound, Drained
<1> QED BY <1>1, <1>2, <1>3, <1>4

\* ctl_flush_outbuf leaves no overflow flag without data, whatever it found:
\* an emptied buffer has the flag turned into the overflow line.
LEMMA FlushGood ==
    ASSUME NEW k, Sound(k), NEW x \in ctl_flush_outbuf(k)
    PROVE  Good(x) /\ Drained(k, x)
<1> DEFINE Told(y) == [y EXCEPT !.send_buf = <<"overflow">>,
                                !.send_overflow = FALSE, !.missed = FALSE]
<1>1. PICK y \in WriteOut(k) :
         x \in IF y.send_buf = <<>> /\ y.send_overflow THEN WriteOut(Told(y)) ELSE {y}
  BY DEF ctl_flush_outbuf
<1>2. Sound(y) /\ Drained(k, y)
  BY WriteOutSound
<1>3. CASE ~(y.send_buf = <<>> /\ y.send_overflow)
  BY <1>1, <1>2, <1>3 DEF Good
<1>4. CASE y.send_buf = <<>> /\ y.send_overflow
  <2>1. PICK o \in Seq(Unit) : o = <<"overflow">> /\ Len(o) = 1 /\ o # <<>>
    <3>1. <<"overflow">> \in Seq(Unit) /\ Len(<<"overflow">>) = 1
      BY DEF Unit
    <3>2. <<"overflow">> # <<>>
      BY <3>1, EmptySeq
    <3> QED BY <3>1, <3>2
  <2>2. PICK z : z = [y EXCEPT !.send_buf = o, !.send_overflow = FALSE, !.missed = FALSE]
    OBVIOUS
  <2>3. x \in WriteOut(z)
    BY <1>1, <1>4, <2>1, <2>2
  <2>4. /\ z \in Controller /\ z.send_buf = o /\ z.send_overflow = FALSE
        /\ z.pipe = y.pipe /\ z.send_fd = y.send_fd /\ z.state_fn = y.state_fn
        /\ z.timeout = y.timeout /\ z.wait = y.wait /\ z.input = y.input
        /\ z.eof = y.eof /\ z.late = y.late
    BY <1>2, <2>1, <2>2 DEF Sound, Controller
  <2>5. y.send_fd => Whole(Unread(z))
    <3>1. y.pipe \in Seq(Unit) /\ y.pipe \o <<>> = y.pipe
      BY <1>2 DEF Sound, Controller
    <3>2. y.send_fd => Whole(y.pipe)
      BY <1>2, <1>4, <3>1 DEF Sound, Unread
    <3> QED BY <2>1, <2>4, <3>1, <3>2, WholeOverflow DEF Unread
  <2>6. Sound(z)
    BY <1>2, <2>1, <2>4, <2>5, Sizes DEF Sound
  <2>7. Sound(x) /\ Drained(z, x) /\ x.send_overflow = FALSE
    BY <2>3, <2>4, <2>6, WriteOutSound
  <2> QED BY <1>2, <2>1, <2>4, <2>7 DEF Good, Drained
<1> QED BY <1>3, <1>4

\* Queueing an event that fits.
LEMMA QueuedGood ==
    ASSUME NEW k, Sound(k), k.state_fn # "free", NEW n \in Lens, Fits(k, n)
    PROVE  Good(Queued(k, n))
<1>n. n \in Nat \ {0}
  BY EventStreamAssumption, Sizes
<1> DEFINE b == k.send_buf \o Line(n)
<1>1. k \in Controller /\ k.send_buf \in Seq(Unit) /\ k.pipe \in Seq(Unit)
  BY DEF Sound, Controller
<1>2. Line(n) \in Seq(Unit) /\ Len(Line(n)) = n
  BY <1>n, LineProperties
<1>l. PICK l \in Seq(Unit) : l = Line(n) /\ Len(l) = n
  BY <1>2
<1>b. b = k.send_buf \o l
  BY <1>l
<1>3. b \in Seq(Unit) /\ Len(b) = Len(k.send_buf) + n /\ Len(k.send_buf) \in Nat
  <2>1. Len(k.send_buf \o l) = Len(k.send_buf) + Len(l)
    BY <1>1, ConcatIndex
  <2>2. k.send_buf \o l \in Seq(Unit) /\ Len(k.send_buf) \in Nat
    BY <1>1, ConcatIndex
  <2> QED BY <1>l, <1>b, <2>1, <2>2
<1>4. k.pipe \o b = Unread(k) \o Line(n)
  <2>1. \A p, u, v \in Seq(Unit) : (p \o u) \o v = p \o (u \o v)
    BY ConcatAssociative
  <2>2. (k.pipe \o k.send_buf) \o l = k.pipe \o (k.send_buf \o l)
    BY <1>1, <2>1, Zenon
  <2> QED BY <1>l, <1>b, <2>2 DEF Unread
<1>5. Unread(k) \in Seq(Unit)
  BY <1>1, ConcatIndex DEF Unread
<1>6. k.send_fd => Whole(k.pipe \o b)
  BY <1>n, <1>4, <1>5, WholeLine DEF Sound
<1>7. b # <<>> /\ Len(b) < SEND_BUF
  BY <1>n, <1>3, Sizes, EmptySeq DEF Fits
<1>8. PICK x : x = [k EXCEPT !.send_buf = b]
  OBVIOUS
<1>x. x = Queued(k, n)
  BY <1>8 DEF Queued
<1> HIDE DEF b
<1>9. /\ x \in Controller /\ x.send_buf = b /\ x.pipe = k.pipe
      /\ x.send_fd = k.send_fd /\ x.state_fn = k.state_fn /\ x.late = k.late
  BY <1>1, <1>3, <1>8 DEF Controller
<1> QED BY <1>x, <1>6, <1>7, <1>9 DEF Good, Sound, Unread

\* Giving an event up, with the flag set or as it was.
LEMMA GivenUpGood ==
    ASSUME NEW k, Good(k)
    PROVE  /\ Good(GivenUp(k))
           /\ (k.send_fd => k.send_buf # <<>>) =>
                  Good([GivenUp(k) EXCEPT !.send_overflow = TRUE])
<1>1. k \in Controller
  BY DEF Good, Sound
<1>2. PICK x : x = GivenUp(k)
  OBVIOUS
<1>3. PICK y : y = [x EXCEPT !.send_overflow = TRUE]
  OBVIOUS
<1>4. /\ x \in Controller /\ x.send_buf = k.send_buf /\ x.pipe = k.pipe
      /\ x.send_fd = k.send_fd /\ x.state_fn = k.state_fn /\ x.late = k.late
      /\ x.send_overflow = k.send_overflow
  BY <1>1, <1>2 DEF GivenUp, Controller
<1>5. /\ y \in Controller /\ y.send_buf = k.send_buf /\ y.pipe = k.pipe
      /\ y.send_fd = k.send_fd /\ y.state_fn = k.state_fn /\ y.late = k.late
  BY <1>3, <1>4 DEF Controller
<1> QED BY <1>2, <1>3, <1>4, <1>5 DEF Good, Sound, Unread

\* ctl_write sets the overflow flag only on a buffer it could not empty.
LEMMA WriteGood ==
    ASSUME NEW k, Good(k), NEW n \in Lens, NEW y \in ctl_write(k, n)
    PROVE  Good(y)
<1>n. n \in Nat \ {0} /\ n < SEND_BUF
  BY EventStreamAssumption, Sizes
<1>1. CASE k.state_fn = "free" \/ ~k.send_fd \/ k.send_overflow
  BY <1>1, GivenUpGood DEF ctl_write
<1>2. CASE /\ k.state_fn # "free" /\ k.send_fd /\ ~k.send_overflow
           /\ Fits(k, n)
  BY <1>2, QueuedGood DEF ctl_write, Good
<1>3. CASE /\ k.state_fn # "free" /\ k.send_fd /\ ~k.send_overflow
           /\ ~Fits(k, n)
  <2>1. PICK x \in ctl_flush_outbuf(k) :
           y = IF Len(x.send_buf) # Len(k.send_buf) /\ Fits(x, n)
               THEN Queued(x, n)
               ELSE [GivenUp(x) EXCEPT !.send_overflow = TRUE]
    BY <1>3 DEF ctl_write
  <2>2. Good(x) /\ x.state_fn # "free"
    BY <1>3, FlushGood DEF Good, Drained
  <2>3. CASE Len(x.send_buf) # Len(k.send_buf) /\ Fits(x, n)
    BY <2>1, <2>2, <2>3, QueuedGood DEF Good
  <2>4. CASE ~(Len(x.send_buf) # Len(k.send_buf) /\ Fits(x, n))
    <3>1. Len(k.send_buf) \in Nat /\ Len(x.send_buf) \in Nat
      BY <2>2, LenProperties DEF Good, Sound, Controller
    <3>2. Len(k.send_buf) # 0
      BY <1>n, <1>3, <3>1, Sizes DEF Fits
    <3>3. Len(x.send_buf) # 0
      BY <1>n, <2>4, <3>1, <3>2, Sizes DEF Fits
    <3>4. x.send_buf # <<>>
      BY <3>3, EmptySeq
    <3> QED BY <2>1, <2>2, <2>4, <3>4, GivenUpGood
  <2> QED BY <2>3, <2>4
<1> QED BY <1>1, <1>2, <1>3

\* ctl_out_buf_ready flushes or does nothing.
LEMMA ReadyGood ==
    ASSUME NEW k, Good(k), NEW ok \in BOOLEAN, NEW x \in ctl_out_buf_ready(k, ok)
    PROVE  Good(x) /\ x.input = k.input /\ x.state_fn = k.state_fn
BY FlushGood DEF ctl_out_buf_ready, Good, Drained

-----------------------------------------------------------------------------
(* The inductive invariant: every controller is good, and the clients the *)
(* second loop of ctl_run has passed are served.                          *)

\* select() waits for the descriptor of a client with a backlog, and no
\* longer than z, which its close timeout allows.
Served(k, z) ==
    k.send_fd /\ k.send_buf # <<>> =>
        k.wait /\ k.late # NotBlocked /\ z <= k.timeout[2] - k.late

StreamInv ==
    /\ client \in [Client -> Controller]
    /\ phase \in {"events", "enter", "command", "ran", "flush", "select"}
    /\ at \in Client
    /\ sleep \in 0..IDLE
    /\ \A c \in Client : Good(client[c])
    /\ phase = "flush" => \A c \in 1..(at - 1) : Served(client[c], sleep)
    /\ phase = "select" => \A c \in Client : Served(client[c], sleep)

\* Changing what none of the conditions mentions, or only takes as a type.
LEMMA GoodFields ==
    ASSUME NEW k, Good(k), NEW x \in Controller,
           x.send_buf = k.send_buf, x.pipe = k.pipe, x.send_fd = k.send_fd,
           x.late = k.late, x.send_overflow = k.send_overflow,
           x.state_fn # "free"
    PROVE  Good(x)
BY DEF Good, Sound, Unread

\* A slot of the pool that ctl_free gave back or ctl_ctor sets up.
LEMMA FreshGood ==
    /\ Good(Free) /\ ~Free.send_fd
    /\ \A send_fd \in BOOLEAN : Good(ctl_ctor(send_fd))
<1>1. PICK e \in Seq(Unit) : e = <<>> /\ Len(e) = 0 /\ e \o e = <<>>
  <2>1. PICK e \in Seq(Unit) : e = <<>> /\ Len(e) = 0
    BY EmptySeq
  <2>2. e \o e \in Seq(Unit) /\ Len(e \o e) = 0
    BY <2>1, ConcatIndex
  <2>3. e \o e = <<>>
    BY <2>2, EmptySeq
  <2> QED BY <2>1, <2>3
<1>2. Whole(e \o e)
  BY <1>1 DEF Whole
<1>3. /\ Free \in Controller /\ Free.send_buf = e /\ Free.pipe = e
      /\ Free.send_fd = FALSE /\ Free.send_overflow = FALSE
      /\ Free.late = NotBlocked
  BY <1>1, Sizes, EventStreamAssumption DEF Free, Controller, NotBlocked
<1>4. Good(Free)
  BY <1>1, <1>3, Sizes DEF Good, Sound
<1>5. ASSUME NEW send_fd \in BOOLEAN
      PROVE  Good(ctl_ctor(send_fd))
  <2>1. PICK x : x = ctl_ctor(send_fd)
    OBVIOUS
  <2>2. /\ x \in Controller /\ x.send_buf = e /\ x.pipe = e
        /\ x.send_fd = send_fd /\ x.send_overflow = FALSE
        /\ x.late = NotBlocked /\ x.state_fn = "command"
    BY <1>3, <2>1 DEF ctl_ctor, Controller
  <2> QED BY <1>1, <1>2, <2>1, <2>2, Sizes DEF Good, Sound, Unread
<1> QED BY <1>3, <1>4, <1>5

\* Outside the second loop it is enough that every controller is good.
LEMMA Settled ==
    ASSUME StreamInv,
           client' \in [Client -> Controller], \A c \in Client : Good(client'[c]),
           \/ phase' \in {"events", "enter", "command", "ran"}
           \/ phase' = "flush" /\ at' = 1,
           at' \in Client, sleep' \in 0..IDLE
    PROVE  StreamInv'
BY DEF StreamInv, Served

\* The first loop of ctl_run leaves client `at' as k, and stays with it or
\* goes on to the next.
LEMMA TurnStep ==
    ASSUME StreamInv, NEW k, Good(k), Becomes(k), sleep' \in 0..IDLE,
           \/ phase' \in {"command", "ran"} /\ at' = at
           \/ NextClient("enter", "flush")
    PROVE  StreamInv'
<1>1. k \in Controller
  BY DEF Good, Sound
<1>2. client' \in [Client -> Controller] /\ \A c \in Client : Good(client'[c])
  BY <1>1 DEF StreamInv, Becomes
<1>3. at' \in Client
  BY Sizes DEF StreamInv, NextClient, Client
<1>4. phase' \in {"command", "ran", "enter"} \/ (phase' = "flush" /\ at' = 1)
  BY DEF NextClient
<1> QED BY <1>2, <1>3, <1>4, Settled

\* An event for all controllers.
LEMMA BroadcastGood ==
    ASSUME NEW pool \in [Client -> Controller], \A c \in Client : Good(pool[c]),
           NEW n \in Lens, NEW b \in Broadcast(pool, n)
    PROVE  b \in [Client -> Controller] /\ \A c \in Client : Good(b[c])
<1>1. DOMAIN b = Client /\ \A c \in Client : b[c] \in ctl_write(pool[c], n)
  BY DEF Broadcast
<1>2. \A c \in Client : Good(b[c])
  BY <1>1, WriteGood
<1>3. b = [c \in Client |-> b[c]]
  BY DEF Broadcast
<1> QED BY <1>1, <1>2, <1>3 DEF Good, Sound

-----------------------------------------------------------------------------
(* The steps.                                                             *)

LEMMA InitGood == Init => StreamInv
<1> SUFFICES ASSUME Init PROVE StreamInv
  OBVIOUS
<1>1. client \in [Client -> Controller] /\ \A c \in Client : Good(client[c])
  <2>1. \A c \in Client : Good(IF c = 1 THEN ctl_ctor(TRUE) ELSE Free)
    BY FreshGood
  <2> QED BY <2>1 DEF Init, Good, Sound
<1>2. at \in Client /\ sleep \in 0..IDLE /\ phase = "events"
  BY Sizes DEF Init, Client
<1> QED BY <1>1, <1>2 DEF StreamInv

\* Commands and events outside the loops of ctl_run.
LEMMA EventsStep ==
    ASSUME StreamInv,
           \/ \E n \in Lens : ctl_notify_svc_state(n)
           \/ \E send_fd \in BOOLEAN : ctl_new(send_fd)
           \/ CtlRun
    PROVE  StreamInv'
<1>1. ASSUME NEW n \in Lens, ctl_notify_svc_state(n) PROVE StreamInv'
  <2>1. client' \in [Client -> Controller] /\ \A c \in Client : Good(client'[c])
    BY <1>1, BroadcastGood DEF StreamInv, ctl_notify_svc_state
  <2> QED BY <1>1, <2>1, Settled DEF StreamInv, ctl_notify_svc_state
<1>2. ASSUME NEW send_fd \in BOOLEAN, ctl_new(send_fd) PROVE StreamInv'
  <2>1. PICK c \in Client : client' = [client EXCEPT ![c] = ctl_ctor(send_fd)]
    BY <1>2 DEF ctl_new
  <2>2. Good(ctl_ctor(send_fd)) /\ ctl_ctor(send_fd) \in Controller
    BY FreshGood DEF Good, Sound
  <2>3. client' \in [Client -> Controller] /\ \A d \in Client : Good(client'[d])
    BY <2>1, <2>2 DEF StreamInv
  <2> QED BY <1>2, <2>3, Settled DEF StreamInv, ctl_new
<1>3. CASE CtlRun
  BY <1>3, Settled, Sizes DEF StreamInv, CtlRun, Client
<1> QED BY <1>1, <1>2, <1>3

\* A turn's read, and its flush of a descriptor select() found writeable.
LEMMA CtlTurnStep ==
    ASSUME StreamInv, CtlTurn
    PROVE  StreamInv'
<1>g. Good(this) /\ this \in Controller /\ at \in Client
  BY DEF StreamInv, this
<1>0. PICK x \in ctl_read_more(this) :
         \E y \in IF x.send_fd /\ x.wait THEN ctl_flush_outbuf(x) ELSE {x} :
            Becomes([y EXCEPT !.wait = FALSE])
  BY DEF CtlTurn
<1>1. PICK y \in IF x.send_fd /\ x.wait THEN ctl_flush_outbuf(x) ELSE {x} :
         Becomes([y EXCEPT !.wait = FALSE])
  BY <1>0
<1>2. Good(x)
  <2>1. CASE x = this
    BY <1>g, <2>1
  <2>2. CASE x # this
    <3> DEFINE k == this
    <3>1. k \in Controller
      BY <1>g
    <3>2. /\ k.state_fn = "command"
          /\ \/ \E n \in k.input..RECV_BUF : x = [k EXCEPT !.input = n]
             \/ x = [k EXCEPT !.eof = TRUE]
      BY <2>2 DEF ctl_read_more
    <3> HIDE DEF k
    <3>3. ASSUME NEW n \in k.input..RECV_BUF, x = [k EXCEPT !.input = n]
          PROVE  /\ x \in Controller /\ x.send_buf = k.send_buf /\ x.pipe = k.pipe
                 /\ x.send_fd = k.send_fd /\ x.late = k.late
                 /\ x.send_overflow = k.send_overflow /\ x.state_fn # "free"
      <4>1. n \in 0..RECV_BUF
        BY <3>1, Sizes DEF Controller
      <4> QED BY <3>1, <3>2, <3>3, <4>1 DEF Controller
    <3>4. ASSUME x = [k EXCEPT !.eof = TRUE]
          PROVE  /\ x \in Controller /\ x.send_buf = k.send_buf /\ x.pipe = k.pipe
                 /\ x.send_fd = k.send_fd /\ x.late = k.late
                 /\ x.send_overflow = k.send_overflow /\ x.state_fn # "free"
      BY <3>1, <3>2, <3>4 DEF Controller
    <3>5. Good(k)
      BY <1>g DEF k
    <3> QED BY <3>2, <3>3, <3>4, <3>5, GoodFields
  <2> QED BY <2>1, <2>2
<1>3. Good(y)
  BY <1>1, <1>2, FlushGood DEF Good
<1>4. PICK z : z = [y EXCEPT !.wait = FALSE]
  OBVIOUS
<1>5. /\ z \in Controller /\ z.send_buf = y.send_buf /\ z.pipe = y.pipe
      /\ z.send_fd = y.send_fd /\ z.late = y.late
      /\ z.send_overflow = y.send_overflow /\ z.state_fn = y.state_fn
  BY <1>3, <1>4 DEF Good, Sound, Controller
<1>6. Good(z)
  BY <1>3, <1>5 DEF Good, Sound, Unread
<1> QED BY <1>1, <1>4, <1>6, TurnStep DEF CtlTurn, StreamInv

\* ctl_state_run_command after ctl_out_buf_ready: a command is used up, and
\* may set the timeouts or end the connection.
LEMMA CommandDone ==
    ASSUME NEW k, Good(k), k.state_fn = "command", k.input > 0
    PROVE  /\ Good([k EXCEPT !.input = @ - 1])
           /\ \A t \in Timeouts : Good([k EXCEPT !.input = @ - 1, !.timeout = t])
           /\ Good([k EXCEPT !.state_fn = "close", !.eof = TRUE])
           /\ Good([k EXCEPT !.state_fn = "close"])
<1>1. k \in Controller /\ k.input - 1 \in 0..RECV_BUF
  BY Sizes DEF Good, Sound, Controller
<1>2. ASSUME NEW x, NEW t \in Timeouts,
             x \in {[k EXCEPT !.input = @ - 1],
                    [k EXCEPT !.input = @ - 1, !.timeout = t],
                    [k EXCEPT !.state_fn = "close", !.eof = TRUE],
                    [k EXCEPT !.state_fn = "close"]}
      PROVE  Good(x)
  <2>1. /\ x \in Controller /\ x.send_buf = k.send_buf /\ x.pipe = k.pipe
        /\ x.send_fd = k.send_fd /\ x.late = k.late
        /\ x.send_overflow = k.send_overflow /\ x.state_fn # "free"
    BY <1>1, <1>2 DEF Controller
  <2> QED BY <2>1, GoodFields
<1> QED BY <1>2, EventStreamAssumption

\* The actions of a client's turn in the first loop of ctl_run.
LEMMA CommandStep ==
    ASSUME StreamInv,
           \/ \E n \in Lens : CommandReplies(n) \/ CommandBroadcasts(n)
           \/ \E t \in Timeouts : ctl_cmd_event_pipe_timeout(t)
           \/ ctl_cmd_exit \/ InputEnds \/ CommandBlocked \/ ctl_state_close
           \/ CtlYields
    PROVE  StreamInv'
<1>g. Good(this) /\ this \in Controller /\ at \in Client /\ sleep \in 0..IDLE
  BY DEF StreamInv, this
<1>r. ASSUME Command, NEW ok \in BOOLEAN, NEW x \in ctl_out_buf_ready(this, ok)
      PROVE  Good(x) /\ x.state_fn = "command" /\ x.input > 0
  BY <1>g, <1>r, ReadyGood DEF Command
<1>1. ASSUME NEW n \in Lens, CommandReplies(n) PROVE StreamInv'
  <2>1. PICK x \in ctl_out_buf_ready(this, TRUE) :
           \E y \in ctl_write([x EXCEPT !.input = @ - 1], n) : Becomes(y)
    BY <1>1 DEF CommandReplies
  <2>2. PICK y \in ctl_write([x EXCEPT !.input = @ - 1], n) : Becomes(y)
    BY <2>1
  <2>3. Good([x EXCEPT !.input = @ - 1])
    BY <1>1, <1>r, CommandDone DEF CommandReplies
  <2>4. Good(y)
    BY <2>3, WriteGood
  <2> QED BY <1>1, <1>g, <2>2, <2>4, TurnStep DEF CommandReplies
<1>2. ASSUME NEW n \in Lens, CommandBroadcasts(n) PROVE StreamInv'
  <2>1. PICK x \in ctl_out_buf_ready(this, TRUE) :
           client' \in Broadcast([client EXCEPT
                                     ![at] = [x EXCEPT !.input = @ - 1]], n)
    BY <1>2 DEF CommandBroadcasts
  <2>2. PICK z : z = [x EXCEPT !.input = @ - 1]
    OBVIOUS
  <2>3. Good(z) /\ z \in Controller
    BY <1>2, <1>r, <2>2, CommandDone DEF CommandBroadcasts, Good, Sound
  <2> DEFINE pool == [client EXCEPT ![at] = z]
  <2>4. pool \in [Client -> Controller] /\ \A c \in Client : Good(pool[c])
    BY <2>3 DEF StreamInv
  <2>5. client' \in Broadcast(pool, n)
    BY <2>1, <2>2
  <2> HIDE DEF pool
  <2>6. client' \in [Client -> Controller] /\ \A c \in Client : Good(client'[c])
    BY <2>4, <2>5, BroadcastGood
  <2> QED BY <1>2, <1>g, <2>6, Settled DEF CommandBroadcasts
<1>3. ASSUME NEW t \in Timeouts, ctl_cmd_event_pipe_timeout(t) PROVE StreamInv'
  <2>1. PICK x \in ctl_out_buf_ready(this, TRUE) :
           Becomes([x EXCEPT !.input = @ - 1, !.timeout = t])
    BY <1>3 DEF ctl_cmd_event_pipe_timeout
  <2>2. Good([x EXCEPT !.input = @ - 1, !.timeout = t])
    BY <1>3, <1>r, CommandDone DEF ctl_cmd_event_pipe_timeout
  <2> QED BY <1>3, <1>g, <2>1, <2>2, TurnStep DEF ctl_cmd_event_pipe_timeout
<1>4. CASE ctl_cmd_exit
  <2>1. PICK x \in ctl_out_buf_ready(this, TRUE) :
           Becomes([x EXCEPT !.state_fn = "close", !.eof = TRUE])
    BY <1>4 DEF ctl_cmd_exit
  <2>2. Good([x EXCEPT !.state_fn = "close", !.eof = TRUE])
    BY <1>4, <1>r, CommandDone DEF ctl_cmd_exit
  <2> QED BY <1>4, <1>g, <2>1, <2>2, TurnStep DEF ctl_cmd_exit
<1>5. CASE InputEnds
  <2>1. PICK x : x = [this EXCEPT !.state_fn = "close"]
    OBVIOUS
  <2>2. Becomes(x)
    BY <1>5, <2>1 DEF InputEnds
  <2>3. PICK k \in Controller : k = this
    BY <1>g
  <2>4. /\ x \in Controller /\ x.send_buf = k.send_buf /\ x.pipe = k.pipe
        /\ x.send_fd = k.send_fd /\ x.late = k.late
        /\ x.send_overflow = k.send_overflow /\ x.state_fn # "free"
    BY <2>1, <2>3 DEF Controller
  <2>5. Good(x)
    BY <1>g, <2>3, <2>4, GoodFields
  <2> QED BY <1>5, <1>g, <2>2, <2>5, TurnStep DEF InputEnds, Turn
<1>6. CASE CommandBlocked
  <2>1. PICK x \in ctl_out_buf_ready(this, FALSE) : Becomes(x)
    BY <1>6 DEF CommandBlocked
  <2> QED BY <1>6, <1>g, <1>r, <2>1, TurnStep DEF CommandBlocked
<1>7. CASE ctl_state_close
  <2>1. PICK x \in IF this.send_fd THEN ctl_flush_outbuf(this) ELSE {this} :
           Becomes(IF Flushed(x) THEN Free ELSE x)
    BY <1>7 DEF ctl_state_close
  <2>2. Good(x)
    BY <1>g, <2>1, FlushGood DEF Good
  <2>3. Good(IF Flushed(x) THEN Free ELSE x)
    BY <2>2, FreshGood
  <2> QED BY <1>7, <1>g, <2>1, <2>3, TurnStep DEF ctl_state_close
<1>8. CASE CtlYields
  <2>1. Becomes(this)
    BY <1>8 DEF CtlYields, Becomes, this, StreamInv
  <2>2. sleep' \in 0..IDLE
    BY <1>8, <1>g, Sizes DEF CtlYields
  <2> QED BY <1>8, <1>g, <2>1, <2>2, TurnStep DEF CtlYields
<1> QED BY <1>1, <1>2, <1>3, <1>4, <1>5, <1>6, <1>7, <1>8

\* The check of a blocked client after its flush leaves it served.
LEMMA CheckTimeoutServes ==
    ASSUME StreamInv, NEW x, Good(x), ~Flushed(x), x.late # NotBlocked,
           CheckTimeout(x)
    PROVE  /\ sleep' \in 0..sleep
           /\ \E k : Becomes(k) /\ Good(k) /\ Served(k, sleep')
<1>1. /\ x \in Controller /\ x.send_fd = TRUE /\ x.send_buf # <<>>
      /\ x.late \in 0..IDLE
      /\ x.timeout[1] \in Nat /\ x.timeout[2] \in Nat
      /\ x.timeout[1] <= x.timeout[2] /\ sleep \in 0..IDLE
  <2>1. x \in Controller /\ x.timeout \in Timeouts /\ x.late \in NotBlocked..IDLE
    BY DEF Good, Sound, Controller
  <2>2. x.late \in 0..IDLE
    BY <2>1, Sizes DEF NotBlocked
  <2>3. x.send_fd = TRUE /\ x.send_buf # <<>>
    BY <2>1 DEF Flushed, Controller
  <2> QED BY <2>1, <2>2, <2>3, EventStreamAssumption DEF StreamInv
<1>f. x.state_fn # "free"
  BY <1>1 DEF Good, Sound
<1>2. CASE CloseDue(x)
  <2>1. Becomes(Free) /\ sleep' = sleep
    BY <1>2 DEF CheckTimeout
  <2>2. Good(Free) /\ Served(Free, sleep')
    BY FreshGood DEF Served
  <2> QED BY <1>1, <2>1, <2>2
<1>3. CASE ~CloseDue(x) /\ ResetDue(x) /\ x.input = RECV_BUF
  <2>1. PICK k : k = [x EXCEPT !.send_overflow = TRUE, !.wait = TRUE]
    OBVIOUS
  <2>2. Becomes(k) /\ sleep' = 0
    BY <1>3, <2>1 DEF CheckTimeout
  <2>3. /\ k \in Controller /\ k.send_buf = x.send_buf /\ k.pipe = x.pipe
        /\ k.send_fd = x.send_fd /\ k.late = x.late /\ k.wait = TRUE
        /\ k.timeout = x.timeout /\ k.state_fn # "free"
    BY <1>1, <1>f, <2>1 DEF Controller
  <2>4. Good(k)
    BY <1>1, <2>3 DEF Good, Sound, Unread
  <2>5. Served(k, 0)
    BY <1>1, <1>3, <2>3 DEF Served, CloseDue
  <2> QED BY <1>1, <2>2, <2>4, <2>5
<1>4. CASE ~CloseDue(x) /\ ~(ResetDue(x) /\ x.input = RECV_BUF)
  <2> DEFINE t == x.timeout[IF ResetDue(x) THEN 2 ELSE 1] - x.late
  <2>1. PICK k : k = [x EXCEPT !.wait = TRUE]
    OBVIOUS
  <2>2. Becomes(k) /\ sleep' = IF t < sleep THEN t ELSE sleep
    BY <1>4, <2>1 DEF CheckTimeout, Sooner
  <2>3. /\ k \in Controller /\ k.send_buf = x.send_buf /\ k.pipe = x.pipe
        /\ k.send_fd = x.send_fd /\ k.late = x.late /\ k.wait = TRUE
        /\ k.timeout = x.timeout /\ k.state_fn # "free"
        /\ k.send_overflow = x.send_overflow
    BY <1>1, <1>f, <2>1 DEF Controller
  <2>4. Good(k)
    BY <2>3, GoodFields
  <2>5. t \in Nat /\ t <= x.timeout[2] - x.late
    BY <1>1, <1>4 DEF CloseDue, ResetDue
  <2> HIDE DEF t
  <2>6. sleep' \in 0..sleep /\ sleep' <= x.timeout[2] - x.late
    <3>1. x.timeout[2] - x.late \in Int
      BY <1>1
    <3> QED BY <1>1, <2>2, <2>5, <3>1
  <2> QED BY <2>2, <2>3, <2>4, <2>6 DEF Served
<1> QED BY <1>2, <1>3, <1>4

\* The second loop of ctl_run: the client it leaves is served, and the sleep
\* only gets shorter, so those before it stay so.
LEMMA CtlFlushStep ==
    ASSUME StreamInv, CtlFlush
    PROVE  StreamInv'
<1>g. Good(this) /\ this \in Controller /\ at \in Client /\ sleep \in 0..IDLE
  BY DEF StreamInv, this
<1>1. /\ sleep' \in 0..sleep
      /\ \E k : Becomes(k) /\ Good(k) /\ Served(k, sleep')
  <2>1. CASE this.state_fn # "free" /\ this.send_fd /\ this.send_buf # <<>>
    <3>1. PICK x \in ctl_flush_outbuf(this) :
             IF ~Flushed(x) THEN CheckTimeout(x)
             ELSE /\ Becomes(x)
                  /\ sleep' = IF x.input > 0 THEN 0 ELSE sleep
      BY <2>1 DEF CtlFlush
    <3>2. Good(x) /\ Drained(this, x)
      BY <1>g, FlushGood DEF Good
    <3>3. CASE ~Flushed(x)
      <4>1. x.late # NotBlocked
        BY <2>1, <3>2, <3>3 DEF Drained, Flushed
      <4> QED BY <3>1, <3>2, <3>3, <4>1, CheckTimeoutServes
    <3>4. CASE Flushed(x)
      <4>1. Becomes(x) /\ sleep' \in 0..sleep
        BY <1>g, <3>1, <3>4
      <4>2. Served(x, sleep')
        BY <3>4 DEF Served, Flushed
      <4> QED BY <3>2, <4>1, <4>2
    <3> QED BY <3>3, <3>4
  <2>2. CASE ~(this.state_fn # "free" /\ this.send_fd /\ this.send_buf # <<>>)
    <3>1. Becomes(this) /\ sleep' = sleep
      BY <2>2 DEF CtlFlush, Becomes, this, StreamInv
    <3>2. Served(this, sleep')
      BY <1>g, <2>2 DEF Served, Good, Sound
    <3> QED BY <1>g, <3>1, <3>2
  <2> QED BY <2>1, <2>2
<1>2. PICK k : Becomes(k) /\ Good(k) /\ Served(k, sleep')
  BY <1>1
<1>3. client' \in [Client -> Controller] /\ \A c \in Client : Good(client'[c])
  BY <1>2 DEF Becomes, StreamInv, Good, Sound
<1>4. ASSUME NEW c \in 1..at PROVE Served(client'[c], sleep')
  <2>1. c \in Client
    BY <1>g, Sizes DEF Client
  <2>2. CASE c = at
    BY <1>2, <2>1, <2>2 DEF Becomes, StreamInv
  <2>3. CASE c # at
    <3>1. client'[c] = client[c] /\ c \in 1..(at - 1)
      BY <1>2, <1>g, <2>1, <2>3, Sizes DEF Becomes, StreamInv, Client
    <3>2. Served(client[c], sleep)
      BY <3>1 DEF StreamInv, CtlFlush
    <3>3. PICK r \in Controller : r = client[c]
      BY <2>1 DEF StreamInv
    <3>4. r.late \in Int /\ r.timeout[2] \in Int
      BY EventStreamAssumption DEF Controller, NotBlocked
    <3>5. Served(r, sleep')
      BY <1>1, <1>g, <3>2, <3>3, <3>4 DEF Served
    <3> QED BY <3>1, <3>3, <3>5
  <2> QED BY <2>2, <2>3
<1>5. CASE at < CLIENTS
  <2>1. at' = at + 1 /\ phase' = "flush"
    BY <1>5 DEF CtlFlush, NextClient
  <2>2. at' \in Client /\ (1..(at' - 1)) = 1..at
    BY <1>5, <1>g, <2>1, Sizes DEF Client
  <2>3. sleep' \in 0..IDLE
    BY <1>1, <1>g, Sizes
  <2>4. \A c \in 1..(at' - 1) : Served(client'[c], sleep')
    BY <1>4, <2>2
  <2> QED BY <1>3, <2>1, <2>2, <2>3, <2>4 DEF StreamInv
<1>6. CASE ~(at < CLIENTS)
  <2>1. at' = 1 /\ phase' = "select"
    BY <1>6 DEF CtlFlush, NextClient
  <2>2. at' \in Client /\ Client = 1..at
    BY <1>6, <1>g, <2>1, Sizes DEF Client
  <2>3. sleep' \in 0..IDLE
    BY <1>1, <1>g, Sizes
  <2>4. \A c \in Client : Served(client'[c], sleep')
    BY <1>4, <2>2
  <2> QED BY <1>3, <2>1, <2>2, <2>3, <2>4 DEF StreamInv
<1> QED BY <1>5, <1>6

\* Time passes in select(): a clock that runs goes on, up to IDLE.
LEMMA SelectStep ==
    ASSUME StreamInv, NEW d \in 0..IDLE, Select(d)
    PROVE  StreamInv'
<1>1. ASSUME NEW c \in Client PROVE Good(Later(client[c], d))
  <2>1. PICK k \in Controller : k = client[c] /\ Good(k)
    BY DEF StreamInv
  <2> DEFINE l == IF k.late = NotBlocked THEN k.late
                  ELSE IF k.late + d > IDLE THEN IDLE ELSE k.late + d
             w == Writeable(k)
  <2>2. l \in NotBlocked..IDLE /\ (l = NotBlocked <=> k.late = NotBlocked)
    BY Sizes DEF Controller, NotBlocked
  <2>3. w \in BOOLEAN
    BY DEF Writeable
  <2>4. PICK x : x = [k EXCEPT !.late = l, !.wait = w]
    OBVIOUS
  <2>5. x = Later(client[c], d)
    BY <2>1, <2>4 DEF Later
  <2> HIDE DEF l, w
  <2>6. /\ x \in Controller /\ x.send_buf = k.send_buf /\ x.pipe = k.pipe
        /\ x.send_fd = k.send_fd /\ x.late = l /\ x.state_fn = k.state_fn
        /\ x.send_overflow = k.send_overflow
    BY <2>2, <2>3, <2>4 DEF Controller
  <2>7. Good(x)
    BY <2>1, <2>2, <2>6 DEF Good, Sound, Unread
  <2> QED BY <2>5, <2>7
<1>2. client' \in [Client -> Controller] /\ \A c \in Client : Good(client'[c])
  BY <1>1 DEF Select, Good, Sound
<1>3. sleep' \in 0..IDLE /\ phase' = "events" /\ at' \in Client
  BY Sizes DEF Select, StreamInv
<1> QED BY <1>2, <1>3, Settled

\* A client that reads or hangs up, at any moment.
LEMMA ClientStep ==
    ASSUME StreamInv, NEW c \in Client, ClientReads(c) \/ ClientHangsUp(c)
    PROVE  StreamInv'
<1>1. PICK k \in Controller : k = client[c] /\ Good(k)
  BY DEF StreamInv
<1>b. k.pipe \in Seq(Unit) /\ k.send_buf \in Seq(Unit) /\ Len(k.pipe) \in Nat
  BY LenProperties DEF Controller
<1>2. \E x \in Controller :
         /\ client' = [client EXCEPT ![c] = x] /\ Good(x)
         /\ \A z : Served(k, z) => Served(x, z)
  <2>1. CASE ClientReads(c)
    <3>1. k.pipe # <<>>
      BY <1>1, <2>1 DEF ClientReads
    <3>2. PICK t : t = Tail(k.pipe)
      OBVIOUS
    <3>3. t \in Seq(Unit) /\ Len(t) <= PIPE
      <4>1. Tail(k.pipe) \in Seq(Unit) /\ Len(Tail(k.pipe)) = Len(k.pipe) - 1
        BY <1>b, <3>1, HeadTailProperties
      <4> QED BY <1>1, <1>b, <3>2, <4>1, Sizes DEF Good, Sound
    <3>4. k.send_fd => Whole(t \o k.send_buf)
      BY <1>1, <1>b, <3>1, <3>2, WholeTail DEF Good, Sound, Unread
    <3>5. PICK x : x = [k EXCEPT !.pipe = t]
      OBVIOUS
    <3>6. client' = [client EXCEPT ![c] = x]
      BY <1>1, <2>1, <3>2, <3>5 DEF ClientReads
    <3>7. /\ x \in Controller /\ x.send_buf = k.send_buf /\ x.pipe = t
          /\ x.send_fd = k.send_fd /\ x.late = k.late /\ x.state_fn = k.state_fn
          /\ x.send_overflow = k.send_overflow /\ x.wait = k.wait
          /\ x.timeout = k.timeout
      BY <3>3, <3>5 DEF Controller
    <3>8. Good(x)
      BY <1>1, <3>3, <3>4, <3>7 DEF Good, Sound, Unread
    <3> QED BY <3>6, <3>7, <3>8 DEF Served
  <2>2. CASE ClientHangsUp(c)
    <3>1. PICK e \in Seq(Unit) : e = <<>> /\ Len(e) = 0
      BY EmptySeq
    <3>2. e \o k.send_buf = k.send_buf
      BY <1>b, <3>1
    <3>3. k.send_fd => Whole(e \o k.send_buf)
      BY <1>1, <1>b, <3>2, WholeSuffix DEF Good, Sound, Unread
    <3>4. PICK x : x = [k EXCEPT !.hungup = TRUE, !.pipe = e]
      OBVIOUS
    <3>5. client' = [client EXCEPT ![c] = x]
      BY <1>1, <2>2, <3>1, <3>4 DEF ClientHangsUp, StreamInv
    <3>6. /\ x \in Controller /\ x.send_buf = k.send_buf /\ x.pipe = e
          /\ x.send_fd = k.send_fd /\ x.late = k.late /\ x.state_fn = k.state_fn
          /\ x.send_overflow = k.send_overflow /\ x.wait = k.wait
          /\ x.timeout = k.timeout
      BY <3>4 DEF Controller
    <3>7. Good(x)
      BY <1>1, <3>1, <3>3, <3>6, Sizes DEF Good, Sound, Unread
    <3> QED BY <3>5, <3>6, <3>7 DEF Served
  <2> QED BY <2>1, <2>2
<1>3. PICK x \in Controller :
         /\ client' = [client EXCEPT ![c] = x] /\ Good(x)
         /\ \A z : Served(k, z) => Served(x, z)
  BY <1>2
<1>4. UNCHANGED <<phase, at, sleep>>
  BY DEF ClientReads, ClientHangsUp
<1>5. client' \in [Client -> Controller] /\ \A i \in Client : Good(client'[i])
  BY <1>3 DEF StreamInv
<1>6. \A i \in Client : Served(client[i], sleep) => Served(client'[i], sleep)
  BY <1>1, <1>3 DEF StreamInv
<1>7. \A i \in 1..(at - 1) : i \in Client
  BY Sizes DEF StreamInv, Client
<1> QED BY <1>4, <1>5, <1>6, <1>7 DEF StreamInv

LEMMA StreamStep == StreamInv /\ [Next]_vars => StreamInv'
<1> SUFFICES ASSUME StreamInv, [Next]_vars PROVE StreamInv'
  OBVIOUS
<1>1. CASE Loop
  BY <1>1, EventsStep, CtlTurnStep, CommandStep, CtlFlushStep, SelectStep DEF Loop
<1>2. CASE Environment
  BY <1>2, EventsStep, ClientStep DEF Environment
<1>3. CASE UNCHANGED vars
  BY <1>3 DEF vars, StreamInv
<1> QED BY <1>1, <1>2, <1>3 DEF Next

LEMMA StreamsInvariant == Spec => []StreamInv
BY InitGood, StreamStep, PTL DEF Spec

-----------------------------------------------------------------------------

\* The buffers of every client stay within their types and sizes, with room
\* for a terminating NUL, for any number of clients (ctl_write).
THEOREM StreamTypes == Spec => []TypeOK
<1>1. StreamInv => TypeOK
  BY DEF StreamInv, TypeOK, Good, Sound
<1> QED BY <1>1, StreamsInvariant, PTL

\* No controller ever sees a half event, however its stream is cut by partial
\* writes, overflows and resets (ctl_flush_outbuf, ctl_write).
THEOREM LinesStayWhole == Spec => []WholeLines
<1>1. StreamInv => WholeLines
  BY DEF StreamInv, WholeLines, Good, Sound, Whole
<1> QED BY <1>1, StreamsInvariant, PTL

\* An overflow flag always has data in front of it, whose flush will turn it
\* into the overflow line (ctl_write, ctl_flush_outbuf, the reset of ctl_run).
THEOREM OverflowHasData == Spec => []OverflowBehindData
<1>1. StreamInv => OverflowBehindData
  BY DEF StreamInv, OverflowBehindData, Good
<1> QED BY <1>1, StreamsInvariant, PTL

\* Whenever ctl_run lets the loop sleep, select() waits for every client with
\* a backlog, and the loop wakes in time for its close timeout.
THEOREM BacklogsServed == Spec => []BacklogServed
<1>1. StreamInv => BacklogServed
  BY DEF StreamInv, BacklogServed, Served
<1> QED BY <1>1, StreamsInvariant, PTL

-----------------------------------------------------------------------------
(* The streams are queues of lines: what the operations do to what a       *)
(* client has still to read, and to what it has missed.                    *)

\* A client that missed an event has its overflow flag set, or was told.
Flagged(k) == k.send_fd /\ k.missed => k.send_overflow

\* Nothing is queued, read or given up between k and x.
Kept(k, x) ==
    /\ x.missed = k.missed
    /\ x.send_fd => k.send_fd
    /\ k.send_overflow => x.send_overflow
    /\ Connected(x) => Connected(k) /\ Unread(x) = Unread(k)

\* The overflow line is queued.
Reported(k, x) ==
    /\ ~x.missed
    /\ Connected(x) => Connected(k) /\ Unread(x) = Unread(k) \o <<"overflow">>

\* An event is given up, or queued.
Wrote(k, x) ==
    Connected(x) =>
        /\ Connected(k)
        /\ \/ Unread(x) = Unread(k) /\ x.missed
           \/ /\ ~k.missed /\ ~x.missed
              /\ \E n \in Lens : Unread(x) = Unread(k) \o Line(n)

\* The while loop of ctl_flush_outbuf only moves units to the kernel.
LEMMA WriteOutKept ==
    ASSUME NEW k, Sound(k), NEW x \in WriteOut(k)
    PROVE  Kept(k, x) /\ x.send_overflow = k.send_overflow
<1>k. /\ k \in Controller /\ k.pipe \in Seq(Unit) /\ k.send_buf \in Seq(Unit)
      /\ Len(k.send_buf) \in Nat /\ Len(k.pipe) \in Nat /\ Len(k.pipe) <= PIPE
  BY LenProperties DEF Sound, Controller
<1>1. CASE k.send_buf = <<>>
  BY <1>1 DEF WriteOut, Kept
<1>2. CASE k.send_buf # <<>> /\ ~k.send_fd
  <2>1. x = [k EXCEPT !.send_buf = <<>>]
    BY <1>2 DEF WriteOut
  <2>2. /\ x.send_fd = k.send_fd /\ x.missed = k.missed
        /\ x.send_overflow = k.send_overflow
    BY <1>k, <2>1 DEF Controller
  <2> QED BY <1>2, <2>2 DEF Kept, Connected
<1>3. CASE k.send_buf # <<>> /\ k.send_fd /\ k.hungup
  <2>1. x = [k EXCEPT !.send_fd = FALSE]
    BY <1>3 DEF WriteOut
  <2>2. /\ x.send_fd = FALSE /\ x.missed = k.missed
        /\ x.send_overflow = k.send_overflow
    BY <1>k, <2>1 DEF Controller
  <2> QED BY <1>3, <2>2 DEF Kept, Connected
<1>4. CASE k.send_buf # <<>> /\ k.send_fd /\ ~k.hungup
  <2> DEFINE all == Len(k.send_buf)
             room == PIPE - Len(k.pipe)
  <2>1. PICK n \in (IF room >= all THEN {all} ELSE {0, room}) :
           x = [k EXCEPT !.pipe = @ \o SubSeq(k.send_buf, 1, n),
                         !.send_buf = SubSeq(@, n + 1, all),
                         !.late = BlockedFor(@, n, all)]
    BY <1>4 DEF WriteOut
  <2>2. n \in 0..all
    <3>1. all \in Nat /\ room \in Nat
      BY <1>k, Sizes
    <3> HIDE DEF all, room
    <3>2. (n = all /\ room >= all) \/ (~(room >= all) /\ (n = 0 \/ n = room))
      BY <2>1
    <3> QED BY <3>1, <3>2
  <2> DEFINE q == k.pipe \o SubSeq(k.send_buf, 1, n)
             r == SubSeq(k.send_buf, n + 1, all)
             l == BlockedFor(k.late, n, all)
  <2>3. q \o r = Unread(k)
    BY <1>k, <2>2, MoveFront DEF Unread
  <2>4. x = [k EXCEPT !.pipe = q, !.send_buf = r, !.late = l]
    BY <2>1
  <2> HIDE DEF q, r, l
  <2>5. /\ x.pipe = q /\ x.send_buf = r /\ x.state_fn = k.state_fn
        /\ x.hungup = k.hungup /\ x.send_fd = k.send_fd
        /\ x.send_overflow = k.send_overflow /\ x.missed = k.missed
    BY <1>k, <2>4 DEF Controller
  <2>6. Unread(x) = Unread(k)
    BY <2>3, <2>5 DEF Unread
  <2> QED BY <2>5, <2>6 DEF Kept, Connected
<1> QED BY <1>1, <1>2, <1>3, <1>4

\* ctl_flush_outbuf moves units and, behind them, queues the overflow line of
\* a client whose flag is set.
LEMMA FlushKept ==
    ASSUME NEW k, Sound(k), NEW x \in ctl_flush_outbuf(k)
    PROVE  Kept(k, x) \/ (k.send_overflow /\ Reported(k, x))
<1>1. PICK y \in WriteOut(k) :
         x \in IF y.send_buf = <<>> /\ y.send_overflow
               THEN WriteOut([y EXCEPT !.send_buf = <<"overflow">>,
                                       !.send_overflow = FALSE, !.missed = FALSE])
               ELSE {y}
  BY DEF ctl_flush_outbuf
<1>2. Sound(y) /\ Kept(k, y) /\ y.send_overflow = k.send_overflow
  BY WriteOutSound, WriteOutKept
<1>3. CASE ~(y.send_buf = <<>> /\ y.send_overflow)
  BY <1>1, <1>2, <1>3
<1>4. CASE y.send_buf = <<>> /\ y.send_overflow
  <2>1. PICK o \in Seq(Unit) : o = <<"overflow">> /\ Len(o) = 1
    <3>1. <<"overflow">> \in Seq(Unit) /\ Len(<<"overflow">>) = 1
      BY DEF Unit
    <3> QED BY <3>1
  <2>2. PICK z : z = [y EXCEPT !.send_buf = o, !.send_overflow = FALSE, !.missed = FALSE]
    OBVIOUS
  <2>3. x \in WriteOut(z)
    BY <1>1, <1>4, <2>1, <2>2
  <2>4. /\ z \in Controller /\ z.send_buf = o /\ z.send_overflow = FALSE
        /\ z.pipe = y.pipe /\ z.send_fd = y.send_fd /\ z.state_fn = y.state_fn
        /\ z.late = y.late /\ z.hungup = y.hungup /\ z.missed = FALSE
    BY <1>2, <2>1, <2>2 DEF Sound, Controller
  <2>5. y.pipe \in Seq(Unit) /\ Unread(y) = y.pipe /\ Unread(z) = y.pipe \o o
    <3>1. y.pipe \in Seq(Unit) /\ y.pipe \o <<>> = y.pipe
      BY <1>2 DEF Sound, Controller
    <3> QED BY <1>4, <2>4, <3>1 DEF Unread
  <2>6. Sound(z)
    <3>1. y.send_fd => Whole(y.pipe)
      BY <1>2, <2>5 DEF Sound
    <3>2. y.send_fd => Whole(Unread(z))
      BY <2>1, <2>5, <3>1, WholeOverflow
    <3>3. o # <<>>
      BY <2>1, EmptySeq
    <3> QED BY <1>2, <2>1, <2>4, <3>2, <3>3, Sizes DEF Sound
  <2>7. Kept(z, x)
    BY <2>3, <2>6, WriteOutKept
  <2>8. Connected(z) = Connected(y)
    BY <2>4 DEF Connected
  <2>9. Reported(k, x)
    BY <1>2, <2>1, <2>4, <2>5, <2>7, <2>8 DEF Kept, Reported
  <2> QED BY <1>2, <1>4, <2>9
<1> QED BY <1>3, <1>4

\* An event queued behind the rest.
LEMMA QueuedKept ==
    ASSUME NEW k, Sound(k), NEW n \in Lens
    PROVE  LET y == Queued(k, n) IN
             /\ Unread(y) = Unread(k) \o Line(n)
             /\ y.missed = k.missed /\ y.send_overflow = k.send_overflow
             /\ y.send_fd = k.send_fd /\ Connected(y) = Connected(k)
<1>1. k \in Controller /\ k.send_buf \in Seq(Unit) /\ k.pipe \in Seq(Unit)
  BY DEF Sound, Controller
<1>2. n \in Nat \ {0}
  BY EventStreamAssumption, Sizes
<1>3. PICK l \in Seq(Unit) : l = Line(n)
  BY <1>2, LineProperties
<1> DEFINE b == k.send_buf \o l
<1>4. PICK y : y = [k EXCEPT !.send_buf = b]
  OBVIOUS
<1>5. y = Queued(k, n)
  BY <1>3, <1>4 DEF Queued
<1>6. (k.pipe \o k.send_buf) \o l = k.pipe \o b
  <2>1. \A p, u, v \in Seq(Unit) : (p \o u) \o v = p \o (u \o v)
    BY ConcatAssociative
  <2> QED BY <1>1, <2>1, Zenon
<1> HIDE DEF b
<1>7. /\ y.send_buf = b /\ y.pipe = k.pipe /\ y.missed = k.missed
      /\ y.send_overflow = k.send_overflow /\ y.send_fd = k.send_fd
      /\ y.state_fn = k.state_fn /\ y.hungup = k.hungup
  BY <1>1, <1>4 DEF Controller
<1>8. Unread(y) = Unread(k) \o Line(n)
  BY <1>3, <1>6, <1>7 DEF Unread
<1> QED BY <1>5, <1>7, <1>8 DEF Connected

\* An event given up, with the overflow flag set or as it was.
LEMMA GivenUpKept ==
    ASSUME NEW k, Sound(k), NEW y,
           y = GivenUp(k) \/ y = [GivenUp(k) EXCEPT !.send_overflow = TRUE]
    PROVE  /\ Unread(y) = Unread(k) /\ y.missed = k.send_fd
           /\ y.send_fd = k.send_fd /\ Connected(y) = Connected(k)
           /\ y = GivenUp(k) => y.send_overflow = k.send_overflow
           /\ y # GivenUp(k) => y.send_overflow
<1>1. k \in Controller
  BY DEF Sound
<1>2. PICK x : x = GivenUp(k)
  OBVIOUS
<1>3. /\ x \in Controller /\ x.send_buf = k.send_buf /\ x.pipe = k.pipe
      /\ x.missed = k.send_fd /\ x.send_fd = k.send_fd
      /\ x.state_fn = k.state_fn /\ x.hungup = k.hungup
      /\ x.send_overflow = k.send_overflow
  BY <1>1, <1>2 DEF GivenUp, Controller
<1>4. CASE y = x
  BY <1>2, <1>3, <1>4 DEF Connected, Unread
<1>5. CASE y = [x EXCEPT !.send_overflow = TRUE]
  <2>1. /\ y.send_buf = x.send_buf /\ y.pipe = x.pipe
        /\ y.missed = x.missed /\ y.send_fd = x.send_fd
        /\ y.state_fn = x.state_fn /\ y.hungup = x.hungup
        /\ y.send_overflow = TRUE
    BY <1>3, <1>5 DEF Controller
  <2>2. y = GivenUp(k) => y.send_overflow = k.send_overflow
    BY <1>2, <1>3
  <2> QED BY <1>3, <2>1, <2>2 DEF Connected, Unread
<1> QED BY <1>2, <1>4, <1>5

\* ctl_write queues an event only for a client that has missed none, and one
\* it gives up leaves the flag set.
LEMMA WriteWrote ==
    ASSUME NEW k, Good(k), Flagged(k), NEW n \in Lens, NEW y \in ctl_write(k, n)
    PROVE  Wrote(k, y) /\ Flagged(y)
<1>k. Sound(k) /\ k \in Controller
  BY DEF Good, Sound
<1>1. CASE k.state_fn = "free" \/ ~k.send_fd \/ k.send_overflow
  <2>1. y = GivenUp(k)
    BY <1>1 DEF ctl_write
  <2>2. /\ Unread(y) = Unread(k) /\ y.missed = k.send_fd /\ y.send_fd = k.send_fd
        /\ Connected(y) = Connected(k) /\ y.send_overflow = k.send_overflow
    BY <1>k, <2>1, GivenUpKept
  <2>3. k.send_fd => k.state_fn # "free"
    BY <1>k DEF Sound
  <2> QED BY <1>1, <2>2, <2>3 DEF Wrote, Flagged, Connected
<1>2. CASE /\ k.state_fn # "free" /\ k.send_fd /\ ~k.send_overflow
           /\ Fits(k, n)
  <2>1. y = Queued(k, n)
    BY <1>2 DEF ctl_write
  <2>2. /\ Unread(y) = Unread(k) \o Line(n)
        /\ y.missed = k.missed /\ y.send_overflow = k.send_overflow
        /\ y.send_fd = k.send_fd /\ Connected(y) = Connected(k)
    BY <1>k, <2>1, QueuedKept
  <2>3. ~k.missed
    BY <1>2 DEF Flagged
  <2> QED BY <2>2, <2>3 DEF Wrote, Flagged
<1>3. CASE /\ k.state_fn # "free" /\ k.send_fd /\ ~k.send_overflow
           /\ ~Fits(k, n)
  <2>1. PICK x \in ctl_flush_outbuf(k) :
           y = IF Len(x.send_buf) # Len(k.send_buf) /\ Fits(x, n)
               THEN Queued(x, n)
               ELSE [GivenUp(x) EXCEPT !.send_overflow = TRUE]
    BY <1>3 DEF ctl_write
  <2>2. Sound(x) /\ Kept(k, x)
    BY <1>k, <1>3, FlushGood, FlushKept DEF Good
  <2>3. ~k.missed /\ ~x.missed
    BY <1>3, <2>2 DEF Flagged, Kept
  <2>4. CASE y = Queued(x, n)
    <3>1. /\ Unread(y) = Unread(x) \o Line(n) /\ y.missed = x.missed
          /\ Connected(y) = Connected(x)
      BY <2>2, <2>4, QueuedKept
    <3> QED BY <2>2, <2>3, <3>1 DEF Wrote, Flagged, Kept
  <2>5. CASE y = [GivenUp(x) EXCEPT !.send_overflow = TRUE]
    <3>1. /\ Unread(y) = Unread(x) /\ y.missed = x.send_fd /\ y.send_fd = x.send_fd
          /\ Connected(y) = Connected(x)
      BY <2>2, <2>5, GivenUpKept
    <3>2. y.send_overflow
      <4>1. GivenUp(x) \in Controller
        BY <2>2 DEF GivenUp, Sound, Controller
      <4> QED BY <2>5, <4>1 DEF Controller
    <3> QED BY <2>2, <3>1, <3>2 DEF Wrote, Flagged, Kept, Connected
  <2> QED BY <2>1, <2>4, <2>5
<1> QED BY <1>1, <1>2, <1>3

\* A client whose buffer is too full for a command has no overflow flag: what
\* ctl_out_buf_ready flushes is never the overflow line.
LEMMA ReadyKept ==
    ASSUME NEW k, Good(k), NEW ok \in BOOLEAN, NEW x \in ctl_out_buf_ready(k, ok)
    PROVE  Kept(k, x)
<1>1. CASE Roomy(k)
  BY <1>1 DEF ctl_out_buf_ready, Kept
<1>2. CASE ~Roomy(k)
  <2>1. x \in ctl_flush_outbuf(k) /\ ~k.send_overflow
    BY <1>2 DEF ctl_out_buf_ready, Roomy
  <2> QED BY <2>1, FlushKept DEF Good
<1> QED BY <1>1, <1>2

\* One operation after another.
LEMMA KeptSteps ==
    ASSUME NEW k, NEW x, NEW y, Kept(k, x)
    PROVE  /\ Kept(x, y) => Kept(k, y)
           /\ Reported(x, y) => Reported(k, y)
           /\ Wrote(x, y) => Wrote(k, y)
           /\ Flagged(k) => Flagged(x)
BY DEF Kept, Reported, Wrote, Flagged

LEMMA ReportedSteps ==
    ASSUME NEW k, NEW x, NEW y, Reported(k, x)
    PROVE  (Kept(x, y) => Reported(k, y)) /\ Flagged(x)
BY DEF Kept, Reported, Flagged

\* Changing what is neither stream nor connection.
LEMMA KeptFields ==
    ASSUME NEW k, NEW x, x.missed = k.missed, x.send_fd = k.send_fd,
           k.send_overflow => x.send_overflow, x.pipe = k.pipe,
           x.send_buf = k.send_buf, x.hungup = k.hungup,
           x.state_fn = "free" <=> k.state_fn = "free"
    PROVE  Kept(k, x)
BY DEF Kept, Connected, Unread

\* The client read one unit; a slot of the pool was taken.
Took(k, x) ==
    Connected(x) =>
        /\ Connected(k) /\ x.missed = k.missed
        /\ k.pipe # <<>> /\ Unread(x) = Tail(Unread(k))

Fresh(k, x) == k.state_fn = "free" /\ Unread(x) = <<>> /\ ~x.missed

\* What a step does to a client.
Moves(k, x) ==
    /\ Flagged(x)
    /\ Kept(k, x) \/ Reported(k, x) \/ Wrote(k, x) \/ Took(k, x) \/ Fresh(k, x)

FlagInv == \A c \in Client : Flagged(client[c])

\* A step of the loop on one client.
LEMMA OneMoves ==
    ASSUME StreamInv, FlagInv, NEW k, Becomes(k), Moves(this, k)
    PROVE  \A c \in Client : Moves(client[c], client'[c])
<1>1. ASSUME NEW c \in Client, c # at PROVE Moves(client[c], client'[c])
  <2>1. client'[c] = client[c]
    BY <1>1 DEF Becomes, StreamInv
  <2> QED BY <2>1 DEF FlagInv, Moves, Kept
<1>2. client'[at] = k /\ at \in Client
  BY DEF Becomes, StreamInv
<1> QED BY <1>1, <1>2 DEF this

\* A flush, followed by changes to other fields.
LEMMA FlushMoves ==
    ASSUME NEW k, Sound(k), Flagged(k), NEW x \in ctl_flush_outbuf(k), NEW y, Kept(x, y)
    PROVE  Moves(k, y)
<1>1. CASE Kept(k, x)
  BY <1>1, KeptSteps DEF Moves
<1>2. CASE Reported(k, x)
  BY <1>2, KeptSteps, ReportedSteps DEF Moves
<1> QED BY <1>1, <1>2, FlushKept

\* A connection that is closed.
LEMMA FreeMoves == \A k : Moves(k, Free)
<1>1. Free.send_fd = FALSE
  BY DEF Free
<1> QED BY <1>1 DEF Moves, Wrote, Flagged, Connected

\* The fields a turn changes.
LEMMA TurnFields ==
    ASSUME NEW k \in Controller
    PROVE  /\ \A n : Kept(k, [k EXCEPT !.input = n])
           /\ \A n, t : Kept(k, [k EXCEPT !.input = n, !.timeout = t])
           /\ \A e : Kept(k, [k EXCEPT !.eof = e])
           /\ \A w : Kept(k, [k EXCEPT !.wait = w])
           /\ \A l, w : Kept(k, [k EXCEPT !.late = l, !.wait = w])
           /\ Kept(k, [k EXCEPT !.send_overflow = TRUE, !.wait = TRUE])
           /\ k.state_fn = "command" =>
                /\ Kept(k, [k EXCEPT !.state_fn = "close", !.eof = TRUE])
                /\ Kept(k, [k EXCEPT !.state_fn = "close"])
<1>1. ASSUME NEW x, NEW n, NEW t, NEW l, NEW w,
             \/ x \in {[k EXCEPT !.input = n], [k EXCEPT !.input = n, !.timeout = t],
                       [k EXCEPT !.eof = n], [k EXCEPT !.wait = w],
                       [k EXCEPT !.late = l, !.wait = w]}
             \/ /\ k.state_fn = "command"
                /\ x \in {[k EXCEPT !.state_fn = "close", !.eof = TRUE],
                          [k EXCEPT !.state_fn = "close"]}
      PROVE  Kept(k, x)
  <2>1. /\ x.missed = k.missed /\ x.send_fd = k.send_fd
        /\ x.send_overflow = k.send_overflow /\ x.pipe = k.pipe
        /\ x.send_buf = k.send_buf /\ x.hungup = k.hungup
        /\ x.state_fn = "free" <=> k.state_fn = "free"
    BY <1>1 DEF Controller
  <2> QED BY <2>1, KeptFields
<1>2. Kept(k, [k EXCEPT !.send_overflow = TRUE, !.wait = TRUE])
  <2>1. PICK x : x = [k EXCEPT !.send_overflow = TRUE, !.wait = TRUE]
    OBVIOUS
  <2>2. /\ x.missed = k.missed /\ x.send_fd = k.send_fd
        /\ x.send_overflow /\ x.pipe = k.pipe
        /\ x.send_buf = k.send_buf /\ x.hungup = k.hungup
        /\ x.state_fn = k.state_fn
    BY <2>1 DEF Controller
  <2> QED BY <2>1, <2>2, KeptFields
<1>3. /\ \A n : Kept(k, [k EXCEPT !.input = n])
      /\ \A n, t : Kept(k, [k EXCEPT !.input = n, !.timeout = t])
  BY <1>1
<1>4. (\A e : Kept(k, [k EXCEPT !.eof = e])) /\ \A w : Kept(k, [k EXCEPT !.wait = w])
  BY <1>1
<1>5. \A l, w : Kept(k, [k EXCEPT !.late = l, !.wait = w])
  BY <1>1
<1>6. k.state_fn = "command" =>
        /\ Kept(k, [k EXCEPT !.state_fn = "close", !.eof = TRUE])
        /\ Kept(k, [k EXCEPT !.state_fn = "close"])
  BY <1>1
<1> QED BY <1>2, <1>3, <1>4, <1>5, <1>6

\* An event for all controllers.
LEMMA BroadcastWrote ==
    ASSUME NEW pool, NEW n \in Lens, NEW b \in Broadcast(pool, n),
           \A c \in Client : Good(pool[c]) /\ Flagged(pool[c])
    PROVE  \A c \in Client : Wrote(pool[c], b[c]) /\ Flagged(b[c])
<1>1. \A c \in Client : b[c] \in ctl_write(pool[c], n)
  BY DEF Broadcast
<1> QED BY <1>1, WriteWrote

\* Events, new connections and clients that read or hang up.
LEMMA EnvironmentMoves ==
    ASSUME StreamInv, FlagInv, Environment
    PROVE  \A c \in Client : Moves(client[c], client'[c])
<1>1. ASSUME NEW n \in Lens, ctl_notify_svc_state(n)
      PROVE  \A c \in Client : Moves(client[c], client'[c])
  BY <1>1, BroadcastWrote DEF StreamInv, FlagInv, ctl_notify_svc_state, Moves
<1>2. ASSUME NEW c \in Client, NEW x, client' = [client EXCEPT ![c] = x],
             Moves(client[c], x)
      PROVE  \A d \in Client : Moves(client[d], client'[d])
  <2>1. ASSUME NEW d \in Client, d # c PROVE Moves(client[d], client'[d])
    <3>1. client'[d] = client[d]
      BY <1>2, <2>1 DEF StreamInv
    <3> QED BY <3>1 DEF FlagInv, Moves, Kept
  <2>2. client'[c] = x
    BY <1>2 DEF StreamInv
  <2> QED BY <1>2, <2>1, <2>2
<1>3. ASSUME NEW send_fd \in BOOLEAN, ctl_new(send_fd)
      PROVE  \A c \in Client : Moves(client[c], client'[c])
  <2>1. PICK c \in Client : /\ client[c].state_fn = "free"
                            /\ client' = [client EXCEPT ![c] = ctl_ctor(send_fd)]
    BY <1>3 DEF ctl_new
  <2>2. PICK x : x = ctl_ctor(send_fd)
    OBVIOUS
  <2>3. x.pipe = <<>> /\ x.send_buf = <<>> /\ x.missed = FALSE
    BY <2>2 DEF ctl_ctor, Free
  <2>4. <<>> \o <<>> = <<>>
    OBVIOUS
  <2>5. Fresh(client[c], x) /\ Flagged(x)
    BY <2>1, <2>3, <2>4 DEF Fresh, Flagged, Unread
  <2> QED BY <1>2, <2>1, <2>2, <2>5 DEF Moves
<1>4. ASSUME NEW c \in Client, ClientReads(c) \/ ClientHangsUp(c)
      PROVE  \A d \in Client : Moves(client[d], client'[d])
  <2>1. PICK k \in Controller : k = client[c] /\ Flagged(k)
    BY DEF StreamInv, FlagInv
  <2>2. k.pipe \in Seq(Unit) /\ k.send_buf \in Seq(Unit)
    BY DEF Controller
  <2>3. CASE ClientReads(c)
    <3>1. k.pipe # <<>>
      BY <2>1, <2>3 DEF ClientReads
    <3>2. PICK t : t = Tail(k.pipe)
      OBVIOUS
    <3>3. PICK x : x = [k EXCEPT !.pipe = t]
      OBVIOUS
    <3>4. client' = [client EXCEPT ![c] = x]
      BY <2>1, <2>3, <3>2, <3>3 DEF ClientReads
    <3>5. /\ x.send_buf = k.send_buf /\ x.pipe = t /\ x.send_fd = k.send_fd
          /\ x.state_fn = k.state_fn /\ x.hungup = k.hungup
          /\ x.send_overflow = k.send_overflow /\ x.missed = k.missed
      BY <3>3 DEF Controller
    <3>6. Tail(k.pipe \o k.send_buf) = Tail(k.pipe) \o k.send_buf
      <4> DEFINE p == k.pipe
                 b == k.send_buf
      <4>1. p \in Seq(Unit) /\ b \in Seq(Unit) /\ p # <<>>
        BY <2>2, <3>1
      <4> HIDE DEF p, b
      <4>2. Tail(p \o b) = Tail(p) \o b
        BY <4>1
      <4> QED BY <4>2 DEF p, b
    <3>7. Took(k, x) /\ Flagged(x)
      BY <2>1, <3>1, <3>2, <3>5, <3>6 DEF Took, Flagged, Connected, Unread
    <3> QED BY <1>2, <2>1, <3>4, <3>7 DEF Moves
  <2>4. CASE ClientHangsUp(c)
    <3>1. PICK x : x = [k EXCEPT !.hungup = TRUE, !.pipe = <<>>]
      OBVIOUS
    <3>2. client' = [client EXCEPT ![c] = x]
      BY <2>1, <2>4, <3>1 DEF ClientHangsUp, StreamInv
    <3>3. /\ x.hungup = TRUE /\ x.send_fd = k.send_fd
          /\ x.send_overflow = k.send_overflow /\ x.missed = k.missed
      BY <3>1 DEF Controller
    <3>4. Took(k, x) /\ Flagged(x)
      BY <2>1, <3>3 DEF Took, Flagged, Connected
    <3> QED BY <1>2, <2>1, <3>2, <3>4 DEF Moves
  <2> QED BY <1>4, <2>3, <2>4
<1> QED BY <1>1, <1>3, <1>4 DEF Environment

\* The loop.
LEMMA LoopMoves ==
    ASSUME StreamInv, FlagInv, Loop
    PROVE  \A c \in Client : Moves(client[c], client'[c])
<1> DEFINE Moved == \A c \in Client : Moves(client[c], client'[c])
<1>g. PICK k \in Controller : k = this /\ Good(k) /\ Sound(k) /\ Flagged(k)
  BY DEF StreamInv, FlagInv, this, Good
<1>u. ASSUME UNCHANGED client PROVE Moved
  BY <1>u DEF FlagInv, Moves, Kept
<1>m. ASSUME NEW x, Becomes(x), Moves(k, x) PROVE Moved
  BY <1>g, <1>m, OneMoves
<1> HIDE DEF Moved
<1>r. ASSUME Command, NEW ok \in BOOLEAN, NEW x \in ctl_out_buf_ready(k, ok)
      PROVE  /\ Kept(k, x) /\ Good(x) /\ x \in Controller /\ Flagged(x)
             /\ x.state_fn = "command" /\ x.input > 0
  <2>1. Good(x) /\ x.state_fn = "command" /\ x.input > 0
    BY <1>g, <1>r, ReadyGood DEF Command
  <2>2. Kept(k, x)
    BY <1>g, <1>r, ReadyKept
  <2> QED BY <1>g, <2>1, <2>2, KeptSteps DEF Good, Sound
<1>1. ASSUME CtlTurn PROVE Moved
  <2>1. PICK x \in ctl_read_more(k) :
           \E y \in IF x.send_fd /\ x.wait THEN ctl_flush_outbuf(x) ELSE {x} :
              Becomes([y EXCEPT !.wait = FALSE])
    BY <1>1, <1>g DEF CtlTurn
  <2>2. PICK y \in IF x.send_fd /\ x.wait THEN ctl_flush_outbuf(x) ELSE {x} :
           Becomes([y EXCEPT !.wait = FALSE])
    BY <2>1
  <2>3. Good(x) /\ Kept(k, x) /\ x \in Controller
    <3>1. CASE x = k
      BY <1>g, <3>1 DEF Kept
    <3>2. CASE x # k
      <4>1. /\ k.state_fn = "command"
            /\ \/ \E n \in k.input..RECV_BUF : x = [k EXCEPT !.input = n]
               \/ x = [k EXCEPT !.eof = TRUE]
        BY <3>2 DEF ctl_read_more
      <4>2. /\ x \in Controller /\ x.send_buf = k.send_buf /\ x.pipe = k.pipe
            /\ x.send_fd = k.send_fd /\ x.late = k.late
            /\ x.send_overflow = k.send_overflow /\ x.state_fn # "free"
        <5>1. ASSUME NEW n \in k.input..RECV_BUF, x = [k EXCEPT !.input = n]
              PROVE  x \in Controller
          <6>1. n \in 0..RECV_BUF
            BY Sizes DEF Controller
          <6> QED BY <5>1, <6>1 DEF Controller
        <5>2. x = [k EXCEPT !.eof = TRUE] => x \in Controller
          BY DEF Controller
        <5> QED BY <4>1, <5>1, <5>2 DEF Controller
      <4>3. Kept(k, x)
        BY <4>1, TurnFields
      <4> QED BY <1>g, <4>2, <4>3, GoodFields
    <3> QED BY <3>1, <3>2
  <2>4. Flagged(x)
    BY <1>g, <2>3, KeptSteps
  <2>5. PICK z : z = [y EXCEPT !.wait = FALSE]
    OBVIOUS
  <2>6. y \in Controller
    BY <2>2, <2>3, FlushGood DEF Good, Sound
  <2>7. Kept(y, z)
    BY <2>5, <2>6, TurnFields
  <2>8. Moves(x, z) /\ (Kept(x, z) \/ Reported(x, z))
    <3>1. CASE x.send_fd /\ x.wait
      <4>1. Kept(x, y) \/ Reported(x, y)
        BY <2>2, <2>3, <3>1, FlushKept DEF Good
      <4>2. Kept(x, z) \/ Reported(x, z)
        BY <2>7, <4>1, KeptSteps, ReportedSteps
      <4> QED BY <2>2, <2>3, <2>4, <2>7, <3>1, <4>2, FlushMoves DEF Good
    <3>2. CASE ~(x.send_fd /\ x.wait)
      <4>1. y = x
        BY <2>2, <3>2
      <4> QED BY <2>4, <2>7, <4>1, KeptSteps DEF Moves
    <3> QED BY <3>1, <3>2
  <2>9. Moves(k, z)
    BY <2>3, <2>8, KeptSteps DEF Moves
  <2> QED BY <1>m, <2>2, <2>5, <2>9
<1>2. ASSUME NEW n \in Lens, CommandReplies(n) PROVE Moved
  <2>1. PICK x \in ctl_out_buf_ready(k, TRUE) :
           \E y \in ctl_write([x EXCEPT !.input = @ - 1], n) : Becomes(y)
    BY <1>2, <1>g DEF CommandReplies
  <2>2. PICK z : z = [x EXCEPT !.input = @ - 1]
    OBVIOUS
  <2>3. PICK y \in ctl_write(z, n) : Becomes(y)
    BY <2>1, <2>2
  <2>4. Kept(k, x) /\ Good(x) /\ x \in Controller /\ Flagged(x)
        /\ x.state_fn = "command" /\ x.input > 0
    BY <1>2, <1>r DEF CommandReplies
  <2>5. Good(z) /\ Kept(x, z)
    BY <2>2, <2>4, CommandDone, TurnFields
  <2>6. Kept(k, z) /\ Flagged(z)
    BY <1>g, <2>4, <2>5, KeptSteps
  <2>7. Wrote(z, y) /\ Flagged(y)
    BY <2>3, <2>5, <2>6, WriteWrote
  <2>8. Moves(k, y)
    BY <2>6, <2>7, KeptSteps DEF Moves
  <2> QED BY <1>m, <2>3, <2>8
<1>3. ASSUME NEW n \in Lens, CommandBroadcasts(n) PROVE Moved
  <2>1. PICK x \in ctl_out_buf_ready(k, TRUE) :
           client' \in Broadcast([client EXCEPT
                                     ![at] = [x EXCEPT !.input = @ - 1]], n)
    BY <1>3, <1>g DEF CommandBroadcasts
  <2>2. PICK z : z = [x EXCEPT !.input = @ - 1]
    OBVIOUS
  <2>3. Kept(k, x) /\ Good(x) /\ x \in Controller /\ Flagged(x)
        /\ x.state_fn = "command" /\ x.input > 0
    BY <1>3, <1>r DEF CommandBroadcasts
  <2>4. Good(z) /\ Kept(x, z)
    BY <2>2, <2>3, CommandDone, TurnFields
  <2>5. Kept(k, z) /\ Flagged(z)
    BY <1>g, <2>3, <2>4, KeptSteps
  <2> DEFINE pool == [client EXCEPT ![at] = z]
  <2>6. ASSUME NEW c \in Client
        PROVE  Good(pool[c]) /\ Flagged(pool[c]) /\ Kept(client[c], pool[c])
    <3>1. CASE c = at
      <4>1. pool[c] = z /\ client[c] = k
        BY <1>g, <3>1 DEF StreamInv, this
      <4> QED BY <2>4, <2>5, <4>1
    <3>2. CASE c # at
      <4>1. pool[c] = client[c]
        BY <3>2 DEF StreamInv
      <4> QED BY <4>1 DEF StreamInv, FlagInv, Kept
    <3> QED BY <3>1, <3>2
  <2>7. client' \in Broadcast(pool, n)
    BY <2>1, <2>2
  <2> HIDE DEF pool
  <2>8. \A c \in Client : Wrote(pool[c], client'[c]) /\ Flagged(client'[c])
    BY <2>6, <2>7, BroadcastWrote
  <2>9. ASSUME NEW c \in Client PROVE Moves(client[c], client'[c])
    BY <2>6, <2>8, KeptSteps DEF Moves
  <2> QED BY <2>9 DEF Moved
<1>4. ASSUME NEW t \in Timeouts, ctl_cmd_event_pipe_timeout(t) PROVE Moved
  <2>1. PICK x \in ctl_out_buf_ready(k, TRUE) :
           Becomes([x EXCEPT !.input = @ - 1, !.timeout = t])
    BY <1>4, <1>g DEF ctl_cmd_event_pipe_timeout
  <2>2. PICK z : z = [x EXCEPT !.input = @ - 1, !.timeout = t]
    OBVIOUS
  <2>3. Kept(k, x) /\ x \in Controller
    BY <1>4, <1>r DEF ctl_cmd_event_pipe_timeout
  <2>4. Kept(x, z)
    BY <2>2, <2>3, TurnFields
  <2>5. Kept(k, z) /\ Flagged(z)
    BY <1>g, <2>3, <2>4, KeptSteps
  <2> QED BY <1>m, <2>1, <2>2, <2>5 DEF Moves
<1>5. ASSUME ctl_cmd_exit PROVE Moved
  <2>1. PICK x \in ctl_out_buf_ready(k, TRUE) :
           Becomes([x EXCEPT !.state_fn = "close", !.eof = TRUE])
    BY <1>5, <1>g DEF ctl_cmd_exit
  <2>2. PICK z : z = [x EXCEPT !.state_fn = "close", !.eof = TRUE]
    OBVIOUS
  <2>3. Kept(k, x) /\ x \in Controller /\ x.state_fn = "command"
    BY <1>5, <1>r DEF ctl_cmd_exit
  <2>4. Kept(x, z)
    BY <2>2, <2>3, TurnFields
  <2>5. Kept(k, z) /\ Flagged(z)
    BY <1>g, <2>3, <2>4, KeptSteps
  <2> QED BY <1>m, <2>1, <2>2, <2>5 DEF Moves
<1>6. ASSUME InputEnds PROVE Moved
  <2>1. PICK z : z = [k EXCEPT !.state_fn = "close"]
    OBVIOUS
  <2>2. Becomes(z) /\ k.state_fn = "command"
    BY <1>6, <1>g, <2>1 DEF InputEnds
  <2>3. Kept(k, z) /\ Flagged(z)
    BY <1>g, <2>1, <2>2, TurnFields, KeptSteps
  <2> QED BY <1>m, <2>2, <2>3 DEF Moves
<1>7. ASSUME CommandBlocked PROVE Moved
  <2>1. PICK x \in ctl_out_buf_ready(k, FALSE) : Becomes(x)
    BY <1>7, <1>g DEF CommandBlocked
  <2>2. Kept(k, x) /\ Flagged(x)
    BY <1>7, <1>r DEF CommandBlocked
  <2> QED BY <1>m, <2>1, <2>2 DEF Moves
<1>8. ASSUME ctl_state_close PROVE Moved
  <2>1. PICK x \in IF k.send_fd THEN ctl_flush_outbuf(k) ELSE {k} :
           Becomes(IF Flushed(x) THEN Free ELSE x)
    BY <1>8, <1>g DEF ctl_state_close
  <2>2. Kept(x, x) /\ Kept(k, k)
    BY DEF Kept
  <2>3. Moves(k, x)
    <3>1. CASE k.send_fd
      BY <1>g, <2>1, <2>2, <3>1, FlushMoves
    <3>2. CASE ~k.send_fd
      <4>1. x = k
        BY <2>1, <3>2
      <4> QED BY <1>g, <2>2, <4>1 DEF Moves
    <3> QED BY <3>1, <3>2
  <2>4. Moves(k, IF Flushed(x) THEN Free ELSE x)
    BY <2>3, FreeMoves
  <2> QED BY <1>m, <2>1, <2>4
<1>9. ASSUME CtlFlush PROVE Moved
  <2>1. CASE k.state_fn # "free" /\ k.send_fd /\ k.send_buf # <<>>
    <3>1. PICK x \in ctl_flush_outbuf(k) :
             IF ~Flushed(x) THEN CheckTimeout(x) ELSE Becomes(x)
      BY <1>9, <1>g, <2>1 DEF CtlFlush
    <3>2. x \in Controller
      BY <1>g, FlushGood DEF Good, Sound
    <3>3. ASSUME NEW z, Becomes(z), Kept(x, z) PROVE Moved
      BY <1>g, <1>m, <3>3, FlushMoves
    <3>4. CASE Flushed(x)
      <4>1. Kept(x, x)
        BY DEF Kept
      <4> QED BY <3>1, <3>3, <3>4, <4>1
    <3>5. CASE ~Flushed(x)
      <4>1. CheckTimeout(x)
        BY <3>1, <3>5
      <4>2. CASE CloseDue(x)
        <5>1. Becomes(Free)
          BY <4>1, <4>2 DEF CheckTimeout
        <5> QED BY <1>m, <5>1, FreeMoves
      <4>3. CASE ~CloseDue(x) /\ ResetDue(x) /\ x.input = RECV_BUF
        <5>1. PICK z : z = [x EXCEPT !.send_overflow = TRUE, !.wait = TRUE]
          OBVIOUS
        <5>2. Becomes(z)
          BY <4>1, <4>3, <5>1 DEF CheckTimeout
        <5> QED BY <3>2, <3>3, <5>1, <5>2, TurnFields
      <4>4. CASE ~CloseDue(x) /\ ~(ResetDue(x) /\ x.input = RECV_BUF)
        <5>1. PICK z : z = [x EXCEPT !.wait = TRUE]
          OBVIOUS
        <5>2. Becomes(z)
          BY <4>1, <4>4, <5>1 DEF CheckTimeout
        <5> QED BY <3>2, <3>3, <5>1, <5>2, TurnFields
      <4> QED BY <4>2, <4>3, <4>4
    <3> QED BY <3>4, <3>5
  <2>2. CASE ~(k.state_fn # "free" /\ k.send_fd /\ k.send_buf # <<>>)
    BY <1>9, <1>g, <1>u, <2>2 DEF CtlFlush
  <2> QED BY <2>1, <2>2
<1>10. ASSUME NEW d \in 0..IDLE, Select(d) PROVE Moved
  <2>1. ASSUME NEW c \in Client PROVE Moves(client[c], client'[c])
    <3>1. PICK i \in Controller : i = client[c] /\ Flagged(i)
      BY DEF StreamInv, FlagInv
    <3>2. client'[c] = Later(i, d)
      BY <1>10, <3>1 DEF Select
    <3>3. Kept(i, Later(i, d))
      BY TurnFields DEF Later
    <3> QED BY <3>1, <3>2, <3>3, KeptSteps DEF Moves
  <2> QED BY <2>1 DEF Moved
<1>11. ASSUME CtlRun \/ CtlYields PROVE Moved
  BY <1>11, <1>u DEF CtlRun, CtlYields
<1>12. Moved
  BY <1>1, <1>2, <1>3, <1>4, <1>5, <1>6, <1>7, <1>8, <1>9, <1>10, <1>11 DEF Loop
<1> QED BY <1>12 DEF Moved

LEMMA StepMoves ==
    ASSUME StreamInv, FlagInv, [Next]_vars
    PROVE  \A c \in Client : Moves(client[c], client'[c])
<1>1. ASSUME UNCHANGED vars PROVE \A c \in Client : Moves(client[c], client'[c])
  BY <1>1 DEF vars, FlagInv, Moves, Kept
<1> QED BY <1>1, LoopMoves, EnvironmentMoves DEF Next

LEMMA FlagsInitially == Init => FlagInv
<1>1. Free.missed = FALSE /\ ctl_ctor(TRUE).missed = FALSE
  BY DEF Free, ctl_ctor
<1> QED BY <1>1 DEF Init, FlagInv, Flagged

\* A line more at the end of a stream.
LEMMA LinesMore ==
    ASSUME NEW u \in Seq(Unit), NEW m \in Seq(Unit), NEW l,
           Filter(m, {"event", "overflow"}) = <<l>>
    PROVE  Filter(u \o m, {"event", "overflow"}) = Append(Filter(u, {"event", "overflow"}), l)
<1> DEFINE Keep == {"event", "overflow"}
           f == Filter(u, Keep)
<1> HIDE DEF Keep
<1>1. Filter(u \o m, Keep) = f \o Filter(m, Keep)
  BY FilterConcat
<1>2. f \in Seq(Unit)
  BY FilterTyped
<1> HIDE DEF f
<1>3. f \o <<l>> = Append(f, l)
  BY <1>2
<1> QED BY <1>1, <1>3 DEF Keep, f

\* An event is one line.
LEMMA LineIsOne ==
    ASSUME NEW n \in Lens
    PROVE  Line(n) \in Seq(Unit) /\ Filter(Line(n), {"event", "overflow"}) = <<"event">>
<1> DEFINE m == Line(n)
           parts == [i \in 1 .. n - 1 |-> "part"]
           Keep == {"event", "overflow"}
           e == <<"event">>
<1>1. n \in Nat /\ n > 0 /\ n - 1 \in Nat
  BY EventStreamAssumption, Sizes
<1>2. m \in Seq(Unit) /\ Len(m) = n
  BY <1>1, LineProperties
<1>3. parts \in Seq(Unit) /\ Len(parts) = n - 1
  BY <1>1 DEF Unit
<1>4. e \in Seq(Unit) /\ Len(e) = 1
  BY DEF Unit
<1>5. m = parts \o e
  <2>1. parts \o e \in Seq(Unit) /\ Len(parts \o e) = n
    BY <1>1, <1>3, <1>4, ConcatProperties
  <2>2. ASSUME NEW i \in 1 .. n
        PROVE  m[i] = (parts \o e)[i]
    <3>1. m[i] = IF i = n THEN "event" ELSE "part"
      BY DEF Line
    <3>2. (parts \o e)[i] = IF i <= n - 1 THEN parts[i] ELSE e[i - (n - 1)]
      BY <1>1, <1>3, <1>4, ConcatProperties
    <3> QED BY <1>1, <3>1, <3>2
  <2> HIDE DEF m, parts, e
  <2> QED BY <1>2, <2>1, <2>2, SeqEqual
<1>6. Filter(parts, Keep) = <<>>
  <2>1. \A i \in 1 .. Len(parts) : parts[i] \notin Keep
    BY <1>1, <1>3
  <2> HIDE DEF parts, Keep
  <2> QED BY <1>3, <2>1, FilterNone
<1>7. Filter(e, Keep) = e
  BY FilterOne
<1>8. Filter(parts \o e, Keep) = Filter(parts, Keep) \o Filter(e, Keep)
  <2> HIDE DEF parts, e, Keep
  <2> QED BY <1>3, <1>4, FilterConcat
<1>9. <<>> \o e = e
  OBVIOUS
<1>10. Filter(m, Keep) = e
  <2> HIDE DEF m, parts, e, Keep
  <2> QED BY <1>5, <1>6, <1>7, <1>8, <1>9, Zenon
<1> QED BY <1>2, <1>10

\* What a step does to the lines of a client that stays connected.
LEMMA MovesLines ==
    ASSUME NEW k, Sound(k), NEW x, Sound(x), Connected(k), Connected(x), Moves(k, x)
    PROVE  \/ Lines(x) = Lines(k) /\ x.missed = k.missed
           \/ ~k.missed /\ ~x.missed /\ Lines(x) = Append(Lines(k), "event")
           \/ Lines(x) = Lines(k) /\ x.missed
           \/ Lines(x) = Append(Lines(k), "overflow") /\ ~x.missed
           \/ Lines(k) # <<>> /\ Lines(x) = Tail(Lines(k)) /\ x.missed = k.missed
<1> DEFINE Keep == {"event", "overflow"}
           u == Unread(k)
<1>u. u \in Seq(Unit) /\ Lines(k) = Filter(u, Keep) /\ Lines(x) = Filter(Unread(x), Keep)
  <2>1. k.pipe \in Seq(Unit) /\ k.send_buf \in Seq(Unit)
    BY DEF Sound, Controller
  <2> QED BY <2>1, ConcatIndex DEF Unread, Lines
<1>1. CASE Kept(k, x)
  BY <1>1 DEF Kept, Lines
<1>2. CASE Reported(k, x)
  <2> DEFINE o == <<"overflow">>
  <2>1. o \in Seq(Unit) /\ Filter(o, Keep) = <<"overflow">>
    BY FilterOne DEF Unit
  <2>2. Unread(x) = u \o o /\ ~x.missed
    BY <1>2 DEF Reported
  <2> HIDE DEF o, u
  <2>3. Filter(u \o o, Keep) = Append(Filter(u, Keep), "overflow")
    BY <1>u, <2>1, LinesMore
  <2> QED BY <1>u, <2>2, <2>3
<1>3. CASE Wrote(k, x)
  <2>1. CASE Unread(x) = u /\ x.missed
    BY <2>1 DEF Lines
  <2>2. CASE ~k.missed /\ ~x.missed /\ \E n \in Lens : Unread(x) = u \o Line(n)
    <3>1. PICK n \in Lens : Unread(x) = u \o Line(n)
      BY <2>2
    <3> DEFINE m == Line(n)
    <3>2. m \in Seq(Unit) /\ Filter(m, Keep) = <<"event">>
      BY LineIsOne
    <3> HIDE DEF m, u
    <3>3. Filter(u \o m, Keep) = Append(Filter(u, Keep), "event")
      BY <1>u, <3>2, LinesMore
    <3> QED BY <1>u, <2>2, <3>1, <3>3 DEF m
  <2> QED BY <1>3, <2>1, <2>2 DEF Wrote
<1>4. CASE Took(k, x)
  <2>1. k.pipe # <<>> /\ Unread(x) = Tail(u) /\ x.missed = k.missed
    BY <1>4 DEF Took
  <2>2. u # <<>>
    <3> DEFINE p == k.pipe
               b == k.send_buf
    <3>1. p \in Seq(Unit) /\ b \in Seq(Unit) /\ p # <<>> /\ u = p \o b
      BY <2>1 DEF Sound, Controller, Unread
    <3> HIDE DEF p, b
    <3> QED BY <3>1, ConcatEqualIffEmpty
  <2> HIDE DEF u, Keep
  <2>3. /\ Head(u) \in Keep => Filter(u, Keep) # <<>> /\ Filter(Tail(u), Keep) = Tail(Filter(u, Keep))
        /\ Head(u) \notin Keep => Filter(Tail(u), Keep) = Filter(u, Keep)
    BY <1>u, <2>2, FilterTail
  <2> QED BY <1>u, <2>1, <2>3
<1>5. CASE Fresh(k, x)
  BY <1>5 DEF Fresh, Connected
<1> QED BY <1>1, <1>2, <1>3, <1>4, <1>5 DEF Moves

\* A client that was not connected begins with nothing to read.
LEMMA MovesConnect ==
    ASSUME NEW k, NEW x, ~Connected(k), Connected(x), Moves(k, x)
    PROVE  Lines(x) = <<>> /\ ~x.missed
<1>1. Unread(x) = <<>> /\ ~x.missed
  BY DEF Moves, Kept, Reported, Wrote, Took, Fresh
<1> QED BY <1>1, FilterEmpty DEF Lines

\* No event is lost silently: across partial writes, overflows, resets, slow
\* readers and broadcasts, each controller's stream is a queue of EventQueue,
\* where an event that is given up is followed by the overflow line before any
\* other event (ctl_write, ctl_flush_outbuf, ctl_run).
THEOREM StreamsImplementQueues == Spec => ImplementsEventQueue
<1>1. Init => Queues!Init
  <2> SUFFICES ASSUME Init PROVE Queues!Init
    OBVIOUS
  <2>1. ASSUME NEW c \in Client
        PROVE  /\ client[c].pipe = <<>> /\ client[c].send_buf = <<>>
               /\ client[c].missed = FALSE
    BY DEF Init, Free, ctl_ctor
  <2>2. ASSUME NEW c \in Client PROVE Lines(client[c]) = <<>>
    <3>1. <<>> \o <<>> = <<>>
      OBVIOUS
    <3>2. Unread(client[c]) = <<>>
      BY <2>1, <3>1 DEF Unread
    <3> QED BY <3>2, FilterEmpty DEF Lines
  <2>3. ASSUME NEW c \in Client PROVE Connected(client[c]) \in BOOLEAN
    BY DEF Connected
  <2>4. [c \in Client |-> Connected(client[c])] \in [Client -> BOOLEAN]
    BY <2>3
  <2>5. [c \in Client |-> IF Connected(client[c]) THEN Lines(client[c]) ELSE <<>>]
          = [c \in Client |-> <<>>]
    BY <2>2
  <2>6. [c \in Client |-> Connected(client[c]) /\ client[c].missed]
          = [c \in Client |-> FALSE]
    BY <2>1
  <2> QED BY <2>4, <2>5, <2>6 DEF Queues!Init
<1>2. StreamInv /\ FlagInv /\ [Next]_vars => FlagInv'
  <2> SUFFICES ASSUME StreamInv, FlagInv, [Next]_vars PROVE FlagInv'
    OBVIOUS
  <2> QED BY StepMoves DEF FlagInv, Moves
<1>3. StreamInv /\ StreamInv' /\ FlagInv /\ [Next]_vars => [Queues!Next]_(Queues!vars)
  <2> SUFFICES ASSUME StreamInv, StreamInv', FlagInv, [Next]_vars,
                      NEW c \in Client
               PROVE  \/ Queues!Still(c) \/ Queues!Queue(c) \/ Queues!Lose(c)
                      \/ Queues!Report(c) \/ Queues!Take(c) \/ Queues!Close(c)
                      \/ Queues!Connect(c)
    BY DEF Queues!Next
  <2> DEFINE k == client[c]
             x == client'[c]
  <2>1. Sound(k) /\ Sound(x) /\ Moves(k, x)
    BY StepMoves DEF StreamInv, Good
  <2>2. Connected(k) \in BOOLEAN /\ Connected(x) \in BOOLEAN
    BY DEF Connected
  <2>3. CASE ~Connected(k) /\ ~Connected(x)
    <3>1. Connected(k) = FALSE /\ Connected(x) = FALSE
      BY <2>2, <2>3
    <3> QED BY <3>1 DEF Queues!Still
  <2>4. CASE Connected(k) /\ ~Connected(x)
    BY <2>4 DEF Queues!Close
  <2>5. CASE ~Connected(k) /\ Connected(x)
    BY <2>1, <2>5, MovesConnect DEF Queues!Connect
  <2>6. CASE Connected(k) /\ Connected(x)
    <3>1. \/ Lines(x) = Lines(k) /\ x.missed = k.missed
          \/ ~k.missed /\ ~x.missed /\ Lines(x) = Append(Lines(k), "event")
          \/ Lines(x) = Lines(k) /\ x.missed
          \/ Lines(x) = Append(Lines(k), "overflow") /\ ~x.missed
          \/ Lines(k) # <<>> /\ Lines(x) = Tail(Lines(k)) /\ x.missed = k.missed
      BY <2>1, <2>6, MovesLines
    <3> QED
      BY <2>6, <3>1 DEF Queues!Still, Queues!Queue, Queues!Lose, Queues!Report, Queues!Take
  <2> QED BY <2>3, <2>4, <2>5, <2>6
<1> QED
  BY <1>1, <1>2, <1>3, InitGood, StreamStep, FlagsInitially, PTL
     DEF Spec, ImplementsEventQueue, Queues!Spec
=============================================================================
