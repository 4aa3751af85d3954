----------------------------- MODULE LogProofs ------------------------------
(***************************************************************************)
(* Proofs about Log, for every size of the buffer, of the messages and of *)
(* what the descriptor holds.                                             *)
(***************************************************************************)
EXTENDS Log, DataInduction

Unit == {"part", "event", "overflow"}

USE LogAssumption

-----------------------------------------------------------------------------
(***************************************************************************)
(* log_flush.                                                              *)
(***************************************************************************)

\* A log and its descriptor, as log_flush takes and returns them.
Sound(x) ==
  /\ x \in [log : LogState, sink : Seq(Unit)]
  /\ Len(x.log.buf) <= LOG_BUF
  /\ Len(x.sink) <= SINK

\* All that was logged and not read.
Logged(x) == x.sink \o x.log.buf

\* From x to y units only moved, or the line about the lost messages was added.
Kept(x, y) ==
  \/ Logged(y) = Logged(x) /\ y.log.lost = x.log.lost
  \/ /\ x.log.lost > 0 /\ y.log.lost = 0
     /\ Logged(y) = Append(Logged(x), "overflow")

\* The fields of a log.
LEMMA LogFields ==
  ASSUME NEW l \in LogState
  PROVE  /\ l.fd \in BOOLEAN /\ l.buf \in Seq(Unit) /\ l.lost \in 0 .. MaxLost
         /\ l.blocked \in BOOLEAN /\ l.next_attempt \in -1 .. NoRetry
         /\ Len(l.buf) \in Nat /\ MaxLost \in Nat
<1>1. l.buf \in Seq(Unit)
  BY DEF LogState, Unit
<1> QED
  BY <1>1, LenProperties DEF LogState

\* Cutting a sequence in two and joining the pieces.
LEMMA CutInTwo ==
  ASSUME NEW b \in Seq(Unit), NEW n \in 0 .. Len(b)
  PROVE  /\ SubSeq(b, 1, n) \in Seq(Unit) /\ Len(SubSeq(b, 1, n)) = n
         /\ SubSeq(b, n + 1, Len(b)) \in Seq(Unit)
         /\ Len(SubSeq(b, n + 1, Len(b))) = Len(b) - n
         /\ SubSeq(b, 1, n) \o SubSeq(b, n + 1, Len(b)) = b
<1>1. Len(b) \in Nat /\ n \in Int /\ n + 1 \in Int /\ Len(b) \in Int /\ 1 \in Int
  BY LenProperties
<1>2. (\A i \in 1 .. n : b[i] \in Unit) /\ \A i \in n + 1 .. Len(b) : b[i] \in Unit
  BY <1>1, ElementOfSeq
<1>3. SubSeq(b, 1, n) \in Seq(Unit) /\ Len(SubSeq(b, 1, n)) = n
  <2>1. SubSeq(b, 1, n) \in Seq(Unit) /\ Len(SubSeq(b, 1, n)) = IF 1 <= n THEN n - 1 + 1 ELSE 0
    BY <1>1, <1>2, SubSeqProperties
  <2> QED
    BY <2>1, <1>1
<1>4. /\ SubSeq(b, n + 1, Len(b)) \in Seq(Unit)
      /\ Len(SubSeq(b, n + 1, Len(b))) = Len(b) - n
  <2> DEFINE k == n + 1
  <2>1. k \in Int /\ \A i \in k .. Len(b) : b[i] \in Unit
    BY <1>1, <1>2
  <2>2. k = n + 1
    OBVIOUS
  <2> HIDE DEF k
  <2>3. /\ SubSeq(b, k, Len(b)) \in Seq(Unit)
        /\ Len(SubSeq(b, k, Len(b))) = IF k <= Len(b) THEN Len(b) - k + 1 ELSE 0
    BY <1>1, <2>1, SubSeqProperties
  <2> QED
    BY <1>1, <2>2, <2>3
<1>5. SubSeq(b, 1, n) \o SubSeq(b, n + 1, Len(b)) = b
  <2>1. 1 \in 1 .. Len(b) + 1 /\ n \in 1 - 1 .. Len(b) /\ Len(b) \in n .. Len(b)
    BY <1>1
  <2>2. SubSeq(b, 1, n) \o SubSeq(b, n + 1, Len(b)) = SubSeq(b, 1, Len(b))
    BY <2>1, ConcatAdjacentSubSeq
  <2> QED
    BY <2>2, SubSeqFull
<1> QED
  BY <1>3, <1>4, <1>5

\* The line about the lost messages fits and comes last.
LEMMA ReportFits ==
  ASSUME NEW l \in LogState, NEW before, Len(l.buf) <= LOG_BUF
  PROVE  LET m == ReportLost(l, before) IN
           /\ m \in LogState /\ Len(m.buf) <= LOG_BUF /\ m.fd = l.fd
           /\ \/ m = l
              \/ l.lost > 0 /\ m.lost = 0 /\ m.buf = Append(l.buf, "overflow")
<1> DEFINE m == ReportLost(l, before)
<1>1. CASE l.lost > 0 /\ 1 < LOG_BUF - Len(l.buf)
  <2>1. m = [l EXCEPT !.buf = Append(l.buf, "overflow"), !.lost = 0]
    BY <1>1 DEF ReportLost
  <2>2. Append(l.buf, "overflow") \in Seq(Unit) /\ Len(Append(l.buf, "overflow")) = Len(l.buf) + 1
    BY LogFields, AppendProperties DEF Unit
  <2>3. m \in LogState /\ m.buf = Append(l.buf, "overflow") /\ m.lost = 0 /\ m.fd = l.fd
    <3> DEFINE b == Append(l.buf, "overflow")
    <3>1. b \in Seq({"part", "event", "overflow"}) /\ 0 \in 0 .. MaxLost
      BY <2>2, LogFields DEF Unit
    <3>2. m = [l EXCEPT !.buf = b, !.lost = 0]
      BY <2>1
    <3> HIDE DEF b, m
    <3>3. m \in LogState /\ m.buf = b /\ m.lost = 0 /\ m.fd = l.fd
      BY <3>1, <3>2 DEF LogState
    <3> QED
      BY <3>3 DEF b
  <2> QED
    BY <1>1, <2>2, <2>3, LogFields
<1>2. CASE ~(l.lost > 0 /\ 1 < LOG_BUF - Len(l.buf))
  BY <1>2 DEF ReportLost
<1> QED
  BY <1>1, <1>2

\* A round of the loop of log_flush.
LEMMA RoundKeeps ==
  ASSUME NEW x, Sound(x)
  PROVE  Sound(Round(x)) /\ Round(x).log.fd = x.log.fd /\ Kept(x, Round(x))
<1>1. /\ x.log \in LogState /\ x.sink \in Seq(Unit) /\ Len(x.sink) \in Nat
      /\ Len(x.log.buf) <= LOG_BUF /\ Len(x.sink) <= SINK
      /\ x \in [log : LogState, sink : Seq(Unit)]
  BY LenProperties DEF Sound
<1>2. CASE x.log.buf = <<>> \/ x.log.blocked
  BY <1>2 DEF Round, Kept
<1>3. CASE ~(x.log.buf = <<>> \/ x.log.blocked) /\ Len(x.sink) = SINK
  <2>1. Round(x) = [x EXCEPT !.log.blocked = TRUE]
    BY <1>3 DEF Round
  <2>2. [x.log EXCEPT !.blocked = TRUE] \in LogState
    BY <1>1 DEF LogState
  <2>3. /\ Round(x) \in [log : LogState, sink : Seq(Unit)]
        /\ Round(x).sink = x.sink /\ Round(x).log = [x.log EXCEPT !.blocked = TRUE]
    BY <1>1, <2>1, <2>2
  <2>4. /\ Round(x).log.buf = x.log.buf /\ Round(x).log.lost = x.log.lost
        /\ Round(x).log.fd = x.log.fd
    BY <1>1, <2>3 DEF LogState
  <2> QED
    BY <1>1, <2>3, <2>4 DEF Sound, Kept, Logged
<1>4. CASE ~(x.log.buf = <<>> \/ x.log.blocked) /\ Len(x.sink) # SINK
  <2> DEFINE b == x.log.buf
             all == Len(b)
             n == Smaller(SINK - Len(x.sink), all)
             first == SubSeq(b, 1, n)
             rest == SubSeq(b, n + 1, all)
             l == [x.log EXCEPT !.buf = rest]
             m == ReportLost(l, all)
  <2>1. Round(x) = [log |-> m, sink |-> x.sink \o first]
    BY <1>4 DEF Round
  <2>2. b \in Seq(Unit) /\ all \in Nat
    BY <1>1, LogFields
  <2>3. n \in 0 .. all /\ n <= SINK - Len(x.sink)
    BY <1>1, <2>2 DEF Smaller
  <2>4. /\ first \in Seq(Unit) /\ Len(first) = n /\ rest \in Seq(Unit)
        /\ Len(rest) = all - n /\ first \o rest = b
    <3> HIDE DEF b, n
    <3> QED
      BY <2>2, <2>3, CutInTwo
  <2>5. l \in LogState /\ l.buf = rest /\ l.fd = x.log.fd /\ l.lost = x.log.lost
    <3> HIDE DEF rest
    <3> QED
      BY <1>1, <2>4 DEF LogState, Unit
  <2>6. Len(l.buf) <= LOG_BUF
    <3> HIDE DEF l, rest, n, b
    <3> QED
      BY <1>1, <2>2, <2>3, <2>4, <2>5 DEF b
  <2>7. /\ m \in LogState /\ Len(m.buf) <= LOG_BUF /\ m.fd = l.fd
        /\ \/ m = l
           \/ l.lost > 0 /\ m.lost = 0 /\ m.buf = Append(l.buf, "overflow")
    <3> HIDE DEF l, all
    <3> QED
      BY <2>5, <2>6, ReportFits
  <2> HIDE DEF m, l, first, rest, n
  <2>8. x.sink \o first \in Seq(Unit) /\ Len(x.sink \o first) <= SINK
    <3>1. x.sink \o first \in Seq(Unit) /\ Len(x.sink \o first) = Len(x.sink) + Len(first)
      BY <1>1, <2>4, ConcatProperties
    <3> QED
      BY <1>1, <2>3, <2>4, <3>1
  <2>9. /\ Round(x) \in [log : LogState, sink : Seq(Unit)]
        /\ Round(x).log = m /\ Round(x).sink = x.sink \o first
    BY <2>1, <2>7, <2>8
  <2>10. (x.sink \o first) \o rest = x.sink \o b
    <3> DEFINE s == x.sink
    <3>1. s \in Seq(Unit) /\ first \in Seq(Unit) /\ rest \in Seq(Unit)
      BY <1>1, <2>4
    <3> HIDE DEF s, b
    <3>2. (s \o first) \o rest = s \o (first \o rest)
      BY <3>1, ConcatAssociative
    <3> QED
      BY <2>4, <3>2 DEF s
  <2>11. CASE m = l
    <3>1. Logged(Round(x)) = Logged(x) /\ Round(x).log.lost = x.log.lost
      BY <2>5, <2>9, <2>10, <2>11 DEF Logged
    <3> QED
      BY <2>5, <2>7, <2>8, <2>9, <3>1 DEF Sound, Kept
  <2>12. CASE l.lost > 0 /\ m.lost = 0 /\ m.buf = Append(l.buf, "overflow")
    <3> DEFINE o == <<"overflow">>
               s == x.sink \o first
    <3>1. o \in Seq(Unit) /\ "overflow" \in Unit
      BY DEF Unit
    <3>2. x.sink \o b \in Seq(Unit)
      BY <1>1, <2>2, ConcatProperties
    <3>3. Append(rest, "overflow") = rest \o o
      BY <2>4, <3>1, AppendIsConcat
    <3>4. Append(x.sink \o b, "overflow") = (x.sink \o b) \o o
      BY <3>1, <3>2, AppendIsConcat
    <3>5. (s \o rest) \o o = s \o (rest \o o)
      <4>1. s \in Seq(Unit) /\ rest \in Seq(Unit) /\ o \in Seq(Unit)
        BY <2>4, <2>8, <3>1
      <4> HIDE DEF s, o
      <4> QED
        BY <4>1, ConcatAssociative
    <3>6. Logged(Round(x)) = Append(Logged(x), "overflow")
      BY <2>5, <2>9, <2>10, <2>12, <3>3, <3>4, <3>5, Zenon DEF Logged
    <3> QED
      BY <2>5, <2>7, <2>8, <2>9, <2>12, <3>6 DEF Sound, Kept
  <2> QED
    BY <2>7, <2>11, <2>12
<1> QED
  BY <1>2, <1>3, <1>4

\* Rounds one after the other.
LEMMA KeptAgain ==
  ASSUME NEW x, NEW y, NEW z, Kept(x, y), Kept(y, z)
  PROVE  Kept(x, z)
<1>1. CASE Logged(y) = Logged(x) /\ y.log.lost = x.log.lost
  BY <1>1 DEF Kept
<1>2. CASE /\ x.log.lost > 0 /\ y.log.lost = 0
           /\ Logged(y) = Append(Logged(x), "overflow")
  <2>1. ~(y.log.lost > 0)
    BY <1>2
  <2> QED
    BY <1>2, <2>1, Zenon DEF Kept
<1> QED
  BY <1>1, <1>2 DEF Kept

\* log_flush.
LEMMA FlushKeeps ==
  ASSUME NEW l, NEW x, x = [log |-> l, sink |-> sink], Sound(x)
  PROVE  /\ Sound(log_flush(l)) /\ log_flush(l).log.fd = l.fd
         /\ Kept(x, log_flush(l))
<1>1. CASE ~l.fd \/ l.blocked
  BY <1>1 DEF log_flush, Kept
<1>2. CASE ~(~l.fd \/ l.blocked)
  <2>1. log_flush(l) = Round(Round(Round(x)))
    BY <1>2 DEF log_flush
  <2>2. Sound(Round(x)) /\ Round(x).log.fd = x.log.fd /\ Kept(x, Round(x))
    BY RoundKeeps
  <2> DEFINE y == Round(x)
  <2> HIDE DEF y
  <2>3. Sound(Round(y)) /\ Round(y).log.fd = y.log.fd /\ Kept(y, Round(y))
    BY <2>2, RoundKeeps DEF y
  <2> DEFINE z == Round(y)
  <2> HIDE DEF z
  <2>4. Sound(Round(z)) /\ Round(z).log.fd = z.log.fd /\ Kept(z, Round(z))
    BY <2>3, RoundKeeps DEF z
  <2>5. Kept(x, y) /\ Kept(y, z)
    BY <2>2, <2>3 DEF y, z
  <2>6. Kept(x, Round(z))
    BY <2>4, <2>5, KeptAgain
  <2> QED
    BY <2>1, <2>2, <2>3, <2>4, <2>6 DEF y, z
<1> QED
  BY <1>1, <1>2

-----------------------------------------------------------------------------
(***************************************************************************)
(* What log_flush is given, and the steps that call it.                    *)
(***************************************************************************)

\* The type invariant, with the type of the descriptor's contents.
TypeInv == TypeOK /\ sink \in Seq(Unit)

\* The log and its descriptor as they are.
Now == [log |-> log, sink |-> sink]

LEMMA NowSound ==
  ASSUME TypeInv
  PROVE  Sound(Now) /\ log \in LogState /\ sink \in Seq(Unit)
BY DEF TypeInv, TypeOK, Sound, Now

\* A message is a sequence of n units of which only the last is kept as a line.
LEMMA MessageLine ==
  ASSUME NEW n \in Sizes
  PROVE  /\ Message(n) \in Seq(Unit) /\ Len(Message(n)) = n
         /\ Filter(Message(n), {"event", "overflow"}) = <<"event">>
<1> DEFINE m == Message(n)
           parts == [i \in 1 .. n - 1 |-> "part"]
           Keep == {"event", "overflow"}
           e == <<"event">>
<1>1. n \in Nat /\ n > 0 /\ n - 1 \in Nat
  BY DEF LogAssumption
<1>2. m \in Seq(Unit) /\ Len(m) = n
  BY <1>1 DEF Message, Unit
<1>3. parts \in Seq(Unit) /\ Len(parts) = n - 1
  BY <1>1 DEF Unit
<1>4. e \in Seq(Unit) /\ Len(e) = 1
  BY DEF Unit
<1>5. m = parts \o e
  <2>1. parts \o e \in Seq(Unit) /\ Len(parts \o e) = n
    BY <1>1, <1>3, <1>4, ConcatProperties
  <2>2. ASSUME NEW i \in 1 .. n
        PROVE  m[i] = (parts \o e)[i]
    <3>1. m[i] = IF i = n THEN "event" ELSE "part"
      BY DEF Message
    <3>2. (parts \o e)[i] = IF i <= n - 1 THEN parts[i] ELSE e[i - (n - 1)]
      BY <1>1, <1>3, <1>4, ConcatProperties
    <3> QED
      BY <1>1, <3>1, <3>2
  <2> HIDE DEF m, parts, e
  <2> QED
    BY <1>2, <2>1, <2>2, SeqEqual
<1>6. Filter(parts, Keep) = <<>>
  <2>1. \A i \in 1 .. Len(parts) : parts[i] \notin Keep
    BY <1>1, <1>3
  <2> HIDE DEF parts, Keep
  <2> QED
    BY <1>3, <2>1, FilterNone
<1>7. Filter(e, Keep) = e
  BY FilterOne
<1>8. Filter(parts \o e, Keep) = Filter(parts, Keep) \o Filter(e, Keep)
  <2> HIDE DEF parts, e, Keep
  <2> QED
    BY <1>3, <1>4, FilterConcat
<1>9. <<>> \o e = e
  OBVIOUS
<1>10. Filter(m, Keep) = e
  <2> HIDE DEF m, parts, e, Keep
  <2> QED
    BY <1>5, <1>6, <1>7, <1>8, <1>9, Zenon
<1> QED
  BY <1>2, <1>10

\* A message that is written.
LEMMA WriteSound ==
  ASSUME TypeInv, NEW n \in Sizes, Fits(n)
  PROVE  LET l == [log EXCEPT !.buf = log.buf \o Message(n)] IN
           /\ Sound([log |-> l, sink |-> sink])
           /\ l.lost = log.lost /\ l.buf = log.buf \o Message(n)
<1> DEFINE b == log.buf \o Message(n)
           l == [log EXCEPT !.buf = b]
<1>1. log \in LogState /\ sink \in Seq(Unit) /\ Len(sink) <= SINK /\ n \in Nat
  BY NowSound DEF TypeInv, TypeOK, LogAssumption
<1>2. b \in Seq(Unit) /\ Len(b) = Len(log.buf) + n
  <2> DEFINE c == log.buf
             m == Message(n)
  <2>1. c \in Seq(Unit) /\ m \in Seq(Unit) /\ Len(m) = n
    BY <1>1, LogFields, MessageLine
  <2> HIDE DEF c, m
  <2>2. c \o m \in Seq(Unit) /\ Len(c \o m) = Len(c) + Len(m)
    BY <2>1, ConcatProperties
  <2> QED
    BY <2>1, <2>2 DEF c, m
<1>3. Len(b) <= LOG_BUF
  BY <1>1, <1>2, LogFields DEF Fits
<1> HIDE DEF b
<1>4. l \in LogState /\ l.lost = log.lost /\ l.buf = b
  BY <1>1, <1>2 DEF LogState, Unit
<1> HIDE DEF l
<1>5. Sound([log |-> l, sink |-> sink])
  BY <1>1, <1>3, <1>4 DEF Sound
<1> QED
  BY <1>4, <1>5 DEF l, b

\* A log that is unblocked, or loses its descriptor, keeps what it holds.
LEMMA FlagsSound ==
  ASSUME TypeInv, NEW f \in BOOLEAN, NEW bl \in BOOLEAN, NEW t \in -1 .. NoRetry,
         NEW l, l = [log EXCEPT !.fd = f, !.blocked = bl, !.next_attempt = t]
  PROVE  /\ Sound([log |-> l, sink |-> sink]) /\ l \in LogState
         /\ l.fd = f /\ l.blocked = bl /\ l.next_attempt = t
         /\ Kept(Now, [log |-> l, sink |-> sink])
<1>1. log \in LogState /\ sink \in Seq(Unit) /\ Len(log.buf) <= LOG_BUF /\ Len(sink) <= SINK
  BY NowSound DEF TypeInv, TypeOK
<1>2. /\ l \in LogState /\ l.buf = log.buf /\ l.lost = log.lost
      /\ l.fd = f /\ l.blocked = bl /\ l.next_attempt = t
  BY <1>1 DEF LogState
<1> QED
  BY <1>1, <1>2 DEF Sound, Kept, Now, Logged

\* What log_run makes of the log.
LEMMA RetryKeeps ==
  ASSUME TypeInv
  PROVE  Sound(Retried) /\ Kept(Now, Retried)
<1>1. log \in LogState /\ NoRetry \in -1 .. NoRetry /\ RETRY \in -1 .. NoRetry
  BY NowSound DEF NoRetry, LogAssumption
<1> DEFINE u(f) == [log EXCEPT !.fd = f, !.blocked = FALSE, !.next_attempt = NoRetry]
<1>2. ASSUME NEW f \in BOOLEAN
      PROVE  Sound(log_flush(u(f))) /\ Kept(Now, log_flush(u(f)))
  <2> DEFINE x == [log |-> u(f), sink |-> sink]
  <2>1. Sound(x) /\ Kept(Now, x)
    BY <1>1, FlagsSound
  <2> HIDE DEF u
  <2>2. Sound(log_flush(u(f))) /\ Kept(x, log_flush(u(f)))
    BY <2>1, FlushKeeps
  <2> HIDE DEF x
  <2> QED
    BY <2>1, <2>2, KeptAgain
<1>3. CASE ~log.fd /\ ~named
  <2> DEFINE l == [log EXCEPT !.blocked = TRUE]
  <2>1. Retried = [log |-> l, sink |-> sink]
    BY <1>3 DEF Retried, log_fd_attach
  <2>2. /\ l = [log EXCEPT !.fd = FALSE, !.blocked = TRUE, !.next_attempt = log.next_attempt]
        /\ log.next_attempt \in -1 .. NoRetry
    BY <1>1, <1>3 DEF LogState
  <2>3. Sound([log |-> l, sink |-> sink]) /\ Kept(Now, [log |-> l, sink |-> sink])
    <3> DEFINE t == log.next_attempt
    <3>1. /\ l = [log EXCEPT !.fd = FALSE, !.blocked = TRUE, !.next_attempt = t]
          /\ t \in -1 .. NoRetry
      BY <2>2
    <3> HIDE DEF l, t
    <3> QED
      BY <3>1, FlagsSound
  <2> QED
    BY <2>1, <2>3
<1>4. CASE ~log.fd /\ named
  <2>1. Retried = log_flush(u(TRUE))
    BY <1>4 DEF Retried, log_fd_attach
  <2> HIDE DEF u
  <2> QED
    BY <2>1, <1>2
<1>5. CASE log.fd /\ log.blocked /\ TryAgain
  <2> DEFINE y == log_flush(u(TRUE))
  <2>1. u(TRUE) = [log EXCEPT !.blocked = FALSE, !.next_attempt = NoRetry]
    BY <1>1, <1>5 DEF LogState
  <2>2. Retried = IF y.log.blocked THEN [y EXCEPT !.log.next_attempt = RETRY] ELSE y
    BY <1>5, <2>1 DEF Retried
  <2>3. Sound(y) /\ Kept(Now, y)
    BY <1>2
  <2> HIDE DEF y
  <2>4. CASE y.log.blocked
    <3> DEFINE l == [y.log EXCEPT !.next_attempt = RETRY]
    <3>1. y.log \in LogState /\ y \in [log : LogState, sink : Seq(Unit)]
      BY <2>3 DEF Sound
    <3>2. l \in LogState /\ l.buf = y.log.buf /\ l.lost = y.log.lost
      BY <1>1, <3>1 DEF LogState
    <3>3. Retried = [y EXCEPT !.log.next_attempt = RETRY]
      BY <2>2, <2>4
    <3>4. Retried \in [log : LogState, sink : Seq(Unit)] /\ Retried.log = l /\ Retried.sink = y.sink
      BY <3>1, <3>2, <3>3
    <3> HIDE DEF l
    <3> QED
      BY <2>3, <3>2, <3>4 DEF Sound, Kept, Logged
  <2>5. CASE ~y.log.blocked
    BY <2>2, <2>3, <2>5
  <2> QED
    BY <2>4, <2>5
<1>6. CASE log.fd /\ ~(log.blocked /\ TryAgain)
  <2>1. Retried = Now
    BY <1>6 DEF Retried, Now
  <2> QED
    BY <2>1, NowSound DEF Kept
<1>7. log.fd \in BOOLEAN /\ named \in BOOLEAN
  BY <1>1, LogFields DEF TypeInv, TypeOK
<1> QED
  BY <1>3, <1>4, <1>5, <1>6, <1>7

\* What a step makes of the log and its descriptor: what log_flush does, one
\* more message, one more message lost, or a unit read.
LEMMA StepOfLog ==
  ASSUME TypeInv, [Next]_vars
  PROVE  /\ Sound(Now')
         /\ \/ Kept(Now, Now')
            \/ \E n \in Sizes :
                 /\ log.lost = 0 /\ log'.lost = 0
                 /\ Logged(Now') = Logged(Now) \o Message(n)
            \/ Logged(Now') = Logged(Now) /\ log'.lost > 0
            \/ log' = log /\ sink # <<>> /\ sink' = Tail(sink)
<1>1. log \in LogState /\ NoRetry \in -1 .. NoRetry /\ sink \in Seq(Unit) /\ Sound(Now)
  BY NowSound DEF NoRetry, LogAssumption
<1>2. ASSUME NEW x, Becomes(x), Sound(x)
      PROVE  Now' = x
  BY <1>2 DEF Becomes, Sound, Now
<1>3. ASSUME NEW from, NEW to, log_run(from, to)
      PROVE  Sound(Now') /\ Kept(Now, Now')
  BY <1>2, <1>3, RetryKeeps DEF log_run
<1>4. CASE WorkDone
  <2>1. Now' = Now
    BY <1>4 DEF WorkDone, Now
  <2> QED
    BY <1>1, <2>1 DEF Kept
<1>5. ASSUME NEW d \in 0 .. (RETRY + 1), Select(d)
      PROVE  Sound(Now') /\ Kept(Now, Now')
  <2> DEFINE t == Sooner(log.next_attempt, d)
  <2>1. t \in -1 .. NoRetry
    BY <1>1, LogFields DEF Sooner, NoRetry, LogAssumption
  <2> HIDE DEF t
  <2>2. /\ log' = [log EXCEPT !.fd = log.fd, !.blocked = log.blocked, !.next_attempt = t]
        /\ log.fd \in BOOLEAN /\ log.blocked \in BOOLEAN /\ sink' = sink
    BY <1>1, <1>5 DEF LogState, Select, t
  <2>3. Sound([log |-> log', sink |-> sink]) /\ Kept(Now, [log |-> log', sink |-> sink])
    <3> DEFINE f == log.fd
               bl == log.blocked
               l == log'
    <3>1. /\ l = [log EXCEPT !.fd = f, !.blocked = bl, !.next_attempt = t]
          /\ f \in BOOLEAN /\ bl \in BOOLEAN
      BY <2>2
    <3> HIDE DEF l, f, bl
    <3>2. Sound([log |-> l, sink |-> sink]) /\ Kept(Now, [log |-> l, sink |-> sink])
      BY <2>1, <3>1, FlagsSound
    <3> QED
      BY <3>2 DEF l
  <2> QED
    BY <2>2, <2>3 DEF Now
<1>6. ASSUME NEW n \in Sizes, log_write(n), log.lost > 0 \/ ~Fits(n)
      PROVE  Sound(Now') /\ Logged(Now') = Logged(Now) /\ log'.lost > 0
  <2>1. log' = [log EXCEPT !.lost = Smaller(@ + 1, MaxLost)] /\ sink' = sink
    BY <1>6 DEF log_write
  <2>2. Smaller(log.lost + 1, MaxLost) \in 0 .. MaxLost /\ Smaller(log.lost + 1, MaxLost) > 0
    BY <1>1, LogFields DEF Smaller, LogAssumption
  <2>3. log' \in LogState /\ log'.buf = log.buf /\ log'.lost > 0
    BY <1>1, <2>1, <2>2 DEF LogState
  <2> QED
    BY <1>1, <2>1, <2>3 DEF Sound, Now, Logged
<1>7. ASSUME NEW n \in Sizes, log_write(n), ~(log.lost > 0 \/ ~Fits(n))
      PROVE  /\ Sound(Now') /\ log.lost = 0 /\ log'.lost = 0
             /\ Logged(Now') = Logged(Now) \o Message(n)
  <2> DEFINE l == [log EXCEPT !.buf = log.buf \o Message(n)]
             x == [log |-> l, sink |-> sink]
  <2>1. Sound(x) /\ l.lost = log.lost /\ l.buf = log.buf \o Message(n)
    BY <1>7, WriteSound
  <2>2. log.lost = 0
    BY <1>1, <1>7, LogFields
  <2>3. Becomes(log_flush(l))
    BY <1>7 DEF log_write
  <2>4. x.log.lost = 0 /\ Logged(x) = sink \o (log.buf \o Message(n))
    BY <2>1, <2>2 DEF Logged
  <2> HIDE DEF l
  <2>5. Sound(log_flush(l)) /\ Kept(x, log_flush(l))
    BY <2>1, FlushKeeps
  <2>6. Now' = log_flush(l)
    BY <1>2, <2>3, <2>5
  <2> HIDE DEF x
  <2>7. Logged(Now') = Logged(x) /\ log'.lost = 0
    <3> DEFINE y == Now'
    <3>1. Kept(x, y) /\ ~(x.log.lost > 0) /\ y.log = log'
      BY <2>4, <2>5, <2>6 DEF Now
    <3> HIDE DEF y
    <3>2. Logged(y) = Logged(x) /\ y.log.lost = 0
      BY <2>4, <3>1, Zenon DEF Kept
    <3> QED
      BY <3>1, <3>2 DEF y
  <2>8. (sink \o log.buf) \o Message(n) = sink \o (log.buf \o Message(n))
    <3> DEFINE s == sink
               b == log.buf
               m == Message(n)
    <3>1. s \in Seq(Unit) /\ b \in Seq(Unit) /\ m \in Seq(Unit)
      BY <1>1, LogFields, MessageLine
    <3> HIDE DEF s, b, m
    <3>2. (s \o b) \o m = s \o (b \o m)
      BY <3>1, ConcatAssociative
    <3> QED
      BY <3>2 DEF s, b, m
  <2> QED
    BY <2>2, <2>4, <2>5, <2>6, <2>7, <2>8 DEF Logged, Now
<1>8. ASSUME log' = log_fd_reset(log), sink' = sink
      PROVE  Sound(Now') /\ Kept(Now, Now')
  <2>1. log' = [log EXCEPT !.fd = FALSE, !.blocked = TRUE, !.next_attempt = NoRetry]
    BY <1>8 DEF log_fd_reset
  <2>2. Sound([log |-> log', sink |-> sink]) /\ Kept(Now, [log |-> log', sink |-> sink])
    BY <1>1, <2>1, FlagsSound
  <2> QED
    BY <1>8, <2>2 DEF Now
<1>9. ASSUME NEW exists \in BOOLEAN, log_fd_set_name(exists)
      PROVE  Sound(Now') /\ Kept(Now, Now')
  <2> DEFINE l == [log EXCEPT !.fd = TRUE, !.blocked = FALSE, !.next_attempt = NoRetry]
             x == [log |-> l, sink |-> sink]
  <2>1. Sound(x) /\ Kept(Now, x)
    BY <1>1, FlagsSound
  <2>2. CASE exists
    <3>1. Becomes(log_flush(l))
      BY <1>9, <2>2 DEF log_fd_set_name
    <3> HIDE DEF l
    <3>2. Sound(log_flush(l)) /\ Kept(x, log_flush(l))
      BY <2>1, FlushKeeps
    <3> HIDE DEF x
    <3>3. Kept(Now, log_flush(l))
      BY <2>1, <3>2, KeptAgain
    <3> QED
      BY <1>2, <3>1, <3>2, <3>3
  <2>3. CASE ~exists
    BY <1>8, <1>9, <2>3 DEF log_fd_set_name
  <2> QED
    BY <2>2, <2>3
<1>10. ASSUME log' = log, sink' = sink
       PROVE  Sound(Now') /\ Kept(Now, Now')
  <2>1. Now' = Now
    BY <1>10 DEF Now
  <2> QED
    BY <1>1, <2>1 DEF Kept
<1>11. CASE fd_delete
  BY <1>8, <1>10, <1>11 DEF fd_delete
<1>12. CASE fd_new
  BY <1>10, <1>12 DEF fd_new
<1>13. CASE SinkDrains
  <2>1. log' = log /\ sink # <<>> /\ sink' = Tail(sink)
    BY <1>13 DEF SinkDrains
  <2>2. sink' \in Seq(Unit) /\ Len(sink') = Len(sink) - 1 /\ Len(sink) \in Nat
    BY <1>1, <2>1, HeadTailProperties, LenProperties
  <2>3. Len(sink') <= SINK
    BY <1>1, <2>2 DEF Sound, Now, LogAssumption
  <2> QED
    BY <1>1, <2>1, <2>2, <2>3 DEF Sound, Now
<1>14. CASE UNCHANGED vars
  BY <1>10, <1>14 DEF vars
<1>15. CASE Loop
  BY <1>3, <1>4, <1>5, <1>15 DEF Loop
<1>16. CASE Work
  BY <1>6, <1>7, <1>9, <1>11, <1>12, <1>16 DEF Work
<1> QED
  BY <1>13, <1>14, <1>15, <1>16 DEF Next

-----------------------------------------------------------------------------
(***************************************************************************)
(* The invariants.                                                         *)
(***************************************************************************)

\* The types of the other variables.
Flags ==
  /\ named \in BOOLEAN
  /\ watch \in {"no", "fd", "timer"}
  /\ ready \in BOOLEAN
  /\ phase \in {"begin", "work", "end", "select"}

LEMMA TypeInitially == Init => TypeInv
<1> SUFFICES ASSUME Init PROVE TypeInv
  OBVIOUS
<1>1. <<>> \in Seq(Unit) /\ <<>> \in Seq({"part", "event", "overflow"}) /\ Len(<<>>) = 0
  BY EmptySeq
<1>2. log \in LogState /\ log.buf = <<>>
  BY <1>1 DEF Init, LogState, NoRetry, LogAssumption
<1>3. Len(log.buf) <= LOG_BUF /\ sink \in Seq(Unit) /\ Len(sink) <= SINK
  BY <1>1, <1>2 DEF Init, LogAssumption
<1>4. Flags
  BY DEF Init, Flags
<1> QED
  BY <1>2, <1>3, <1>4, Zenon DEF TypeInv, TypeOK, Flags

LEMMA TypePreserved == TypeInv /\ [Next]_vars => TypeInv'
<1> SUFFICES ASSUME TypeInv, [Next]_vars PROVE TypeInv'
  OBVIOUS
<1>1. /\ log' \in LogState /\ Len(log'.buf) <= LOG_BUF
      /\ sink' \in Seq(Unit) /\ Len(sink') <= SINK
  <2>1. Sound(Now')
    BY StepOfLog
  <2> QED
    BY <2>1 DEF Sound, Now
<1>2. Flags
  BY DEF TypeInv, TypeOK, Flags
<1>3. ASSUME NEW from, NEW to \in {"work", "select"}, log_run(from, to)
      PROVE  Flags'
  BY <1>2, <1>3 DEF log_run, Watch, Flags
<1>4. ASSUME NEW d, Select(d)
      PROVE  Flags'
  <2>1. (watch = "fd" /\ Len(sink) < SINK) \in BOOLEAN /\ (watch = "fd") \in BOOLEAN
    OBVIOUS
  <2> QED
    BY <1>2, <1>4, <2>1 DEF Select, Flags
<1>5. ASSUME WorkDone
      PROVE  Flags'
  <2>1. phase' \in {"begin", "work", "end", "select"}
    BY <1>5 DEF WorkDone
  <2>2. named' = named /\ watch' = watch /\ ready' = ready
    BY <1>5 DEF WorkDone
  <2> QED
    BY <1>2, <2>1, <2>2, Zenon DEF Flags
<1>6. ASSUME NEW n, log_write(n)
      PROVE  Flags'
  BY <1>2, <1>6 DEF log_write, Flags
<1>7. ASSUME NEW exists \in BOOLEAN, log_fd_set_name(exists)
      PROVE  Flags'
  <2>1. named' = exists /\ watch' = watch /\ ready' = ready /\ phase' = phase
    BY <1>7, Zenon DEF log_fd_set_name
  <2> QED
    BY <1>2, <2>1, Zenon DEF Flags
<1>8. ASSUME fd_delete \/ fd_new
      PROVE  Flags'
  <2>1. named' \in BOOLEAN
    BY <1>8 DEF fd_delete, fd_new
  <2>2. watch' = watch /\ ready' = ready /\ phase' = phase
    BY <1>8 DEF fd_delete, fd_new
  <2> QED
    BY <1>2, <2>1, <2>2, Zenon DEF Flags
<1>9. ASSUME SinkDrains \/ UNCHANGED vars
      PROVE  Flags'
  <2>1. named' = named /\ watch' = watch /\ ready' = ready /\ phase' = phase
    BY <1>9 DEF SinkDrains, vars
  <2> QED
    BY <1>2, <2>1, Zenon DEF Flags
<1>10. Flags'
  BY <1>3, <1>4, <1>5, <1>6, <1>7, <1>8, <1>9 DEF Next, Loop, Work
<1> QED
  BY <1>1, <1>10 DEF TypeInv, TypeOK, Flags

\* The variables of log.c keep their types and the buffer is never overrun:
\* log_write and the report of log_flush only append what fits.
THEOREM LogTyped == Spec => []TypeOK
<1>1. TypeInv => TypeOK
  BY DEF TypeInv
<1> QED
  BY <1>1, TypeInitially, TypePreserved, PTL DEF Spec

LEMMA WatchedPreserved == BlockedWatched /\ [Next]_vars => BlockedWatched'
<1> SUFFICES ASSUME BlockedWatched, [Next]_vars PROVE BlockedWatched'
  OBVIOUS
<1>1. ASSUME NEW from, NEW to, log_run(from, to)
      PROVE  BlockedWatched'
  BY <1>1 DEF log_run, Becomes, Watch, BlockedWatched
<1>2. CASE Loop
  BY <1>1, <1>2 DEF Loop, WorkDone, Select, BlockedWatched
<1>3. CASE Work
  BY <1>3 DEF Work, log_write, log_fd_set_name, fd_delete, fd_new, BlockedWatched
<1>4. CASE SinkDrains \/ UNCHANGED vars
  BY <1>4 DEF SinkDrains, vars, BlockedWatched
<1> QED
  BY <1>2, <1>3, <1>4 DEF Next

\* The loop never sleeps on a blocked log that nothing will wake it for:
\* log_run, the last call before select(), watches the descriptor or the delay.
THEOREM LogWatched == Spec => []BlockedWatched
<1>1. Init => BlockedWatched
  BY DEF Init, BlockedWatched
<1> QED
  BY <1>1, WatchedPreserved, PTL DEF Spec

-----------------------------------------------------------------------------
(***************************************************************************)
(* The log is a queue of lines.                                            *)
(***************************************************************************)

\* The lines of a log and its descriptor.
LinesOf(x) == Filter(Logged(x), {"event", "overflow"})

LEMMA LoggedTyped ==
  ASSUME NEW x, Sound(x)
  PROVE  Logged(x) \in Seq(Unit)
<1>1. x.sink \in Seq(Unit) /\ x.log.buf \in Seq(Unit)
  BY LogFields DEF Sound
<1> DEFINE a == x.sink
           b == x.log.buf
<1>2. a \in Seq(Unit) /\ b \in Seq(Unit)
  BY <1>1
<1> HIDE DEF a, b
<1>3. a \o b \in Seq(Unit)
  BY <1>2, ConcatProperties
<1> QED
  BY <1>3 DEF a, b, Logged

\* A line more at the end of what was logged.
LEMMA LinesMore ==
  ASSUME NEW w \in Seq(Unit), NEW m \in Seq(Unit), NEW u,
         Filter(m, {"event", "overflow"}) = <<u>>
  PROVE  Filter(w \o m, {"event", "overflow"}) = Append(Filter(w, {"event", "overflow"}), u)
<1> DEFINE Keep == {"event", "overflow"}
           f == Filter(w, Keep)
<1> HIDE DEF Keep
<1>1. Filter(w \o m, Keep) = f \o Filter(m, Keep)
  BY FilterConcat
<1>2. f \in Seq(Unit)
  BY FilterTyped
<1> HIDE DEF f
<1>3. f \o <<u>> = Append(f, u)
  BY <1>2
<1> QED
  BY <1>1, <1>3 DEF Keep, f

\* What a step does to the lines and to whether some are lost.
LEMMA StepOfLines ==
  ASSUME TypeInv, [Next]_vars
  PROVE  \/ Lines' = Lines /\ (log'.lost > 0) = (log.lost > 0)
         \/ ~(log.lost > 0) /\ ~(log'.lost > 0) /\ Lines' = Append(Lines, "event")
         \/ Lines' = Lines /\ log'.lost > 0
         \/ ~(log'.lost > 0) /\ Lines' = Append(Lines, "overflow")
         \/ Lines # <<>> /\ Lines' = Tail(Lines) /\ (log'.lost > 0) = (log.lost > 0)
<1> DEFINE Keep == {"event", "overflow"}
           w == Logged(Now)
<1>1. Sound(Now) /\ Sound(Now')
  BY NowSound, StepOfLog
<1>2. Lines = Filter(w, Keep) /\ Lines' = Filter(Logged(Now'), Keep)
  BY DEF Lines, Logged, Now
<1>3. w \in Seq(Unit)
  BY <1>1, LoggedTyped
<1>4. CASE Kept(Now, Now')
  <2>1. Now.log = log /\ Now'.log = log'
    BY DEF Now
  <2>2. CASE Logged(Now') = w /\ Now'.log.lost = Now.log.lost
    BY <1>2, <2>1, <2>2
  <2>3. CASE Now'.log.lost = 0 /\ Logged(Now') = Append(w, "overflow")
    <3> DEFINE o == <<"overflow">>
    <3>1. o \in Seq(Unit)
      BY DEF Unit
    <3>2. Filter(o, Keep) = <<"overflow">>
      BY FilterOne
    <3> HIDE DEF o, w
    <3>3. Filter(w \o o, Keep) = Append(Filter(w, Keep), "overflow")
      BY <1>3, <3>1, <3>2, LinesMore
    <3>4. Append(w, "overflow") = w \o o
      BY <1>3 DEF o
    <3>5. Lines' = Append(Lines, "overflow")
      BY <1>2, <2>3, <3>3, <3>4, Zenon
    <3> QED
      BY <2>1, <2>3, <3>5
  <2> QED
    BY <1>4, <2>2, <2>3 DEF Kept
<1>5. ASSUME NEW n \in Sizes, log.lost = 0, log'.lost = 0, Logged(Now') = w \o Message(n)
      PROVE  ~(log.lost > 0) /\ ~(log'.lost > 0) /\ Lines' = Append(Lines, "event")
  <2> DEFINE m == Message(n)
  <2>1. m \in Seq(Unit) /\ Filter(m, Keep) = <<"event">>
    BY MessageLine
  <2> HIDE DEF m, w
  <2>2. Filter(w \o m, Keep) = Append(Filter(w, Keep), "event")
    BY <1>3, <2>1, LinesMore
  <2> QED
    BY <1>2, <1>5, <2>2 DEF m
<1>6. CASE Logged(Now') = w /\ log'.lost > 0
  BY <1>2, <1>6
<1>7. CASE log' = log /\ sink # <<>> /\ sink' = Tail(sink)
  <2> DEFINE s == sink
             b == log.buf
  <2>1. s \in Seq(Unit) /\ b \in Seq(Unit) /\ s # <<>> /\ w = s \o b
    BY <1>7, NowSound, LogFields DEF Now, Logged
  <2>2. Logged(Now') = Tail(s) \o b
    BY <1>7 DEF Now, Logged
  <2> HIDE DEF s, b, w, Keep
  <2>3. w # <<>> /\ Tail(w) = Tail(s) \o b
    BY <2>1
  <2>4. /\ Head(w) \in Keep => Filter(w, Keep) # <<>> /\ Filter(Tail(w), Keep) = Tail(Filter(w, Keep))
        /\ Head(w) \notin Keep => Filter(Tail(w), Keep) = Filter(w, Keep)
    BY <1>3, <2>3, FilterTail
  <2> QED
    BY <1>2, <1>7, <2>2, <2>3, <2>4
<1> QED
  BY <1>4, <1>5, <1>6, <1>7, StepOfLog

\* Messages are written whole and in order, and when some are lost the next
\* line is the report of how many: what log_write queues and log_flush writes,
\* across any number of blocked and broken off writes, changes of descriptor
\* and retries, is a queue of EventQueue.
THEOREM LogImplementsQueue == Spec => ImplementsEventQueue
<1>1. Init => Queue!Init
  <2> SUFFICES ASSUME Init PROVE Queue!Init
    OBVIOUS
  <2>1. sink \o log.buf = <<>>
    BY DEF Init
  <2>2. Lines = <<>>
    BY <2>1, FilterEmpty DEF Lines
  <2>3. log.lost = 0
    BY DEF Init
  <2>4. (log.lost > 0) = FALSE
    BY <2>3
  <2> QED
    BY <2>2, <2>4 DEF Queue!Init
<1>2. TypeInv /\ [Next]_vars => [Queue!Next]_(Queue!vars)
  <2> SUFFICES ASSUME TypeInv, [Next]_vars PROVE Queue!Next
    OBVIOUS
  <2> QED
    BY StepOfLines DEF Queue!Next, Queue!Still, Queue!Queue, Queue!Lose,
       Queue!Report, Queue!Take
<1> QED
  BY <1>1, <1>2, TypeInitially, TypePreserved, PTL DEF Spec, ImplementsEventQueue, Queue!Spec

=============================================================================
