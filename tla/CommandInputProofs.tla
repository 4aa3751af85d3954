------------------------- MODULE CommandInputProofs -------------------------
(***************************************************************************)
(* Proofs about CommandInput for every size of the buffer, number of       *)
(* iterations and input: the buffer is not overrun, and the commands that  *)
(* are executed are those of the lines of the input, in order.             *)
(***************************************************************************)
EXTENDS CommandInput, DataInduction

Line == [len : Nat, kind : {"command", "comment", "exit"}]

Input == [lines : Seq(Line), final : BOOLEAN, append : BOOLEAN]

LEMMA SizesPositive ==
  RECV_BUF \in Nat /\ RECV_BUF >= 2 /\ ITERATIONS \in Nat /\ ITERATIONS >= 1
  BY CommandInputAssumption

LEMMA InputFields ==
  ASSUME NEW in \in Inputs
  PROVE  /\ in \in Input /\ in.lines \in Seq(Line) /\ Len(in.lines) \in Nat
         /\ in.final \in BOOLEAN /\ in.append \in BOOLEAN
         /\ \A i \in 1..Len(in.lines) :
               in.lines[i] \in Line /\ in.lines[i].len \in Nat
<1>1. in \in Input
  BY CommandInputAssumption DEF Input, Line
<1>2. in.lines \in Seq(Line) /\ in.final \in BOOLEAN /\ in.append \in BOOLEAN
  BY <1>1 DEF Input
<1>3. Len(in.lines) \in Nat
  BY <1>2
<1>4. ASSUME NEW i \in 1..Len(in.lines)
      PROVE  in.lines[i] \in Line /\ in.lines[i].len \in Nat
  <2>1. in.lines[i] \in Line
    BY <1>2
  <2> QED
    BY <2>1 DEF Line
<1> QED
  BY <1>1, <1>2, <1>3, <1>4

\* The characters of a line are its number, which is never a newline.
LEMMA CharsType ==
  ASSUME NEW i \in Nat \ {0}, NEW line \in Line
  PROVE  /\ Chars(i, line) \in Seq(Int)
         /\ Len(Chars(i, line)) = line.len
         /\ \A k \in 1..line.len : Chars(i, line)[k] \in {i, -i}
         /\ line.len > 0 => Chars(i, line)[1] =
               (IF line.kind = "comment" THEN -i ELSE i)
<1>1. line.len \in Nat
  BY DEF Line
<1>2. \A k \in 1..line.len :
         (IF k = 1 /\ line.kind = "comment" THEN -i ELSE i) \in Int
  OBVIOUS
<1>3. Chars(i, line) \in [1..line.len -> Int]
  BY <1>2 DEF Chars
<1>4. Chars(i, line) \in Seq(Int) /\ Len(Chars(i, line)) = line.len
  BY <1>1, <1>3
<1>5. \A k \in 1..line.len : Chars(i, line)[k] \in {i, -i}
  BY DEF Chars
<1>6. line.len > 0 => Chars(i, line)[1] = (IF line.kind = "comment" THEN -i ELSE i)
  BY <1>1 DEF Chars
<1> QED
  BY <1>4, <1>5, <1>6

-----------------------------------------------------------------------------
(* The recursions of the model.                                            *)

\* Joined is a recursion that has a value for every n.
LEMMA JoinedTurns ==
  ASSUME NEW T, NEW ss \in Seq(Seq(T))
  PROVE  /\ Joined(ss) \in [0..Len(ss) -> Seq(T)]
         /\ Joined(ss)[0] = <<>>
         /\ \A i \in 1..Len(ss) : Joined(ss)[i] = Joined(ss)[i - 1] \o ss[i]
<1> DEFINE N == Len(ss)
           D == Seq(T)
           turn == [p \in (1..N) \X D |-> p[2] \o ss[p[1]]]
           body(h, i) == IF i = 0 THEN <<>> ELSE h[i - 1] \o ss[i]
           m == CHOOSE h : h = [i \in 0..N |-> body(h, i)]
<1>1. N \in Nat /\ <<>> \in D /\ \A i \in 1..N : ss[i] \in D
  BY LenProperties, EmptySeq, ElementOfSeq
<1>2. \A i \in 1..N : \A u \in D : u \o ss[i] \in D
  BY <1>1, ConcatProperties
<1>3. Joined(ss) = m
  BY DEF Joined, N
<1> HIDE DEF N, D
<1>4. turn \in [(1..N) \X D -> D]
  BY <1>2
<1>5. PICK f \in [0..N -> D] : IsLoop(f, N, <<>>, turn)
  <2> HIDE DEF turn
  <2> QED
    BY <1>1, <1>4, LoopExists
<1>6. ASSUME NEW i \in 1..N
      PROVE  f[i] = f[i - 1] \o ss[i]
  <2>1. i - 1 \in 0..N
    BY <1>1
  <2>2. <<i, f[i - 1]>> \in (1..N) \X D
    BY <2>1
  <2>3. turn[<<i, f[i - 1]>>] = f[i - 1] \o ss[i]
    BY <2>2
  <2> QED
    BY <1>5, <2>3 DEF IsLoop
<1>7. f = [i \in 0..N |-> body(f, i)]
  <2>1. \A i \in 0..N : f[i] = body(f, i)
    BY <1>1, <1>5, <1>6 DEF IsLoop
  <2> HIDE DEF body
  <2> QED
    BY <2>1
<1>8. m = [i \in 0..N |-> body(m, i)]
  <2> HIDE DEF body
  <2> QED
    BY <1>7
<1> HIDE DEF m
<1>9. /\ m[0] = <<>>
      /\ \A i \in 1..N : m[i] = m[i - 1] \o ss[i]
  <2>1. \A i \in 0..N : m[i] = body(m, i)
    <3> HIDE DEF body
    <3> QED
      BY <1>8
  <2>2. 0 \in 0..N /\ \A i \in 1..N : i \in 0..N /\ i # 0
    BY <1>1
  <2> QED
    BY <2>1, <2>2
<1>10. m \in [0..N -> D]
  <2> DEFINE S == {i \in 0..N : m[i] \in D}
  <2>1. 0 \in S
    BY <1>1, <1>9
  <2>2. ASSUME NEW i \in 1..N, i - 1 \in S
        PROVE  i \in S
    <3>1. m[i - 1] \in D /\ i \in 0..N
      BY <2>2, <1>1
    <3>2. m[i] \in D
      BY <3>1, <1>2, <1>9
    <3> QED
      BY <3>1, <3>2
  <2>3. 0..N \subseteq S
    <3> HIDE DEF S
    <3> QED
      BY <1>1, <2>1, <2>2, IntervalInductive
  <2>4. \A i \in 0..N : m[i] \in D
    BY <2>3
  <2> HIDE DEF body
  <2>5. m = [i \in 0..N |-> m[i]]
    BY <1>8
  <2> QED
    BY <2>4, <2>5
<1> QED
  BY <1>3, <1>9, <1>10 DEF N, D

\* What was joined first stays in front.
LEMMA JoinedGrows ==
  ASSUME NEW T, NEW ss \in Seq(Seq(T)), NEW i \in 0..Len(ss), NEW n \in i..Len(ss)
  PROVE  /\ Len(Joined(ss)[i]) <= Len(Joined(ss)[n])
         /\ \A k \in 1..Len(Joined(ss)[i]) : Joined(ss)[n][k] = Joined(ss)[i][k]
<1> DEFINE J == Joined(ss)
           N == Len(ss)
           S == {d \in 0..(N - i) :
                   /\ Len(J[i]) <= Len(J[i + d])
                   /\ \A k \in 1..Len(J[i]) : J[i + d][k] = J[i][k]}
<1>1. N \in Nat /\ i \in Nat /\ n \in Nat /\ i <= n /\ n <= N
  BY LenProperties
<1>2. /\ J \in [0..N -> Seq(T)]
      /\ \A k \in 1..N : J[k] = J[k - 1] \o ss[k] /\ ss[k] \in Seq(T)
  BY JoinedTurns, ElementOfSeq
<1> HIDE DEF J, N
<1>3. 0 \in S
  <2>1. J[i] \in Seq(T) /\ i + 0 = i /\ 0 \in 0..(N - i)
    BY <1>1, <1>2
  <2>2. Len(J[i]) \in Nat
    BY <2>1, LenProperties
  <2> QED
    BY <2>1, <2>2
<1>4. ASSUME NEW d \in 1..(N - i), d - 1 \in S
      PROVE  d \in S
  <2>1. /\ i + d \in 1..N /\ (i + d) - 1 = i + (d - 1) /\ i + (d - 1) \in 0..N
        /\ i \in 0..N /\ d \in 0..(N - i)
    BY <1>1
  <2> DEFINE u == J[i + (d - 1)]
             v == ss[i + d]
             w == J[i + d]
  <2>2. w = u \o v /\ u \in Seq(T) /\ v \in Seq(T) /\ J[i] \in Seq(T)
    BY <1>2, <2>1
  <2>3. Len(J[i]) <= Len(u) /\ \A k \in 1..Len(J[i]) : u[k] = J[i][k]
    BY <1>4
  <2> HIDE DEF u, v, w
  <2>4. Len(u) \in Nat /\ Len(v) \in Nat /\ Len(J[i]) \in Nat
    BY <2>2, LenProperties
  <2>5. Len(w) = Len(u) + Len(v) /\ \A k \in 1..Len(u) : w[k] = u[k]
    BY <2>2, ConcatProperties
  <2>6. Len(J[i]) <= Len(w) /\ \A k \in 1..Len(J[i]) : w[k] = J[i][k]
    BY <2>3, <2>4, <2>5
  <2> QED
    BY <2>1, <2>6 DEF w
<1>5. 0..(N - i) \subseteq S
  <2>1. N - i \in Nat
    BY <1>1
  <2> HIDE DEF S
  <2> QED
    BY <1>3, <1>4, <2>1, IntervalInductive
<1>6. n - i \in 0..(N - i) /\ i + (n - i) = n
  BY <1>1
<1>7. n - i \in S
  <2> HIDE DEF S
  <2> QED
    BY <1>5, <1>6
<1>8. /\ Len(J[i]) <= Len(J[n])
      /\ \A k \in 1..Len(J[i]) : J[n][k] = J[i][k]
  BY <1>6, <1>7
<1> QED
  BY <1>8 DEF J

-----------------------------------------------------------------------------
(* Where the lines of an input are in its text.                            *)

\* The text with the newline of the last line.
Full(in) == Joined(Lines(in))[Len(in.lines)]

\* Where line i ends in it, newline included.
End(in, i) == Len(Joined(Lines(in))[i])

\* How much of it is sent.
Size(in) == IF in.final \/ Full(in) = <<>> THEN Len(Full(in)) ELSE Len(Full(in)) - 1

LEMMA LinesType ==
  ASSUME NEW in \in Inputs
  PROVE  /\ Lines(in) \in Seq(Seq(Int)) /\ Len(Lines(in)) = Len(in.lines)
         /\ \A i \in 1..Len(in.lines) :
               /\ Lines(in)[i] = Append(Chars(i, in.lines[i]), NL)
               /\ Lines(in)[i] \in Seq(Int)
               /\ Len(Lines(in)[i]) = in.lines[i].len + 1
               /\ Lines(in)[i][in.lines[i].len + 1] = NL
               /\ \A k \in 1..in.lines[i].len :
                     Lines(in)[i][k] = Chars(i, in.lines[i])[k]
<1>1. Len(in.lines) \in Nat
  BY InputFields
<1>2. ASSUME NEW i \in 1..Len(in.lines)
      PROVE  /\ Lines(in)[i] = Append(Chars(i, in.lines[i]), NL)
             /\ Lines(in)[i] \in Seq(Int)
             /\ Len(Lines(in)[i]) = in.lines[i].len + 1
             /\ Lines(in)[i][in.lines[i].len + 1] = NL
             /\ \A k \in 1..in.lines[i].len :
                   Lines(in)[i][k] = Chars(i, in.lines[i])[k]
  <2> DEFINE c == Chars(i, in.lines[i])
  <2>1. in.lines[i] \in Line /\ in.lines[i].len \in Nat /\ i \in Nat \ {0}
    BY InputFields
  <2>2. c \in Seq(Int) /\ Len(c) = in.lines[i].len
    BY <2>1, CharsType
  <2>3. Lines(in)[i] = Append(c, NL)
    BY DEF Lines
  <2> HIDE DEF c
  <2>4. NL \in Int
    BY DEF NL
  <2> QED
    BY <2>1, <2>2, <2>3, <2>4, AppendProperties DEF c
<1>3. Lines(in) = [i \in 1..Len(in.lines) |-> Lines(in)[i]]
  BY DEF Lines
<1>4. Lines(in) \in [1..Len(in.lines) -> Seq(Int)]
  BY <1>2, <1>3, Zenon
<1>5. Lines(in) \in Seq(Seq(Int)) /\ Len(Lines(in)) = Len(in.lines)
  BY <1>1, <1>4
<1> QED
  BY <1>2, <1>5

\* The lines follow one another, and line i lies between the ends of line i - 1
\* and of line i.
LEMMA LinePlaces ==
  ASSUME NEW in \in Inputs
  PROVE  /\ Full(in) \in Seq(Int)
         /\ End(in, 0) = 0 /\ End(in, Len(in.lines)) = Len(Full(in))
         /\ \A i \in 0..Len(in.lines) :
               End(in, i) \in Nat /\ End(in, i) <= Len(Full(in))
         /\ \A i \in 1..Len(in.lines) :
               /\ End(in, i) = End(in, i - 1) + in.lines[i].len + 1
               /\ Full(in)[End(in, i)] = NL
               /\ \A k \in 1..in.lines[i].len :
                     Full(in)[End(in, i - 1) + k] = Chars(i, in.lines[i])[k]
<1> DEFINE J == Joined(Lines(in))
           N == Len(in.lines)
<1>1. N \in Nat /\ Lines(in) \in Seq(Seq(Int)) /\ Len(Lines(in)) = N
  BY InputFields, LinesType
<1>2. J \in [0..N -> Seq(Int)] /\ J[0] = <<>>
      /\ \A i \in 1..N : J[i] = J[i - 1] \o Lines(in)[i]
  BY <1>1, JoinedTurns
<1>3. \A i \in 0..N : J[i] \in Seq(Int) /\ Len(J[i]) \in Nat
  BY <1>2, LenProperties
<1>4. \A i \in 0..N : /\ Len(J[i]) <= Len(J[N])
                      /\ \A k \in 1..Len(J[i]) : J[N][k] = J[i][k]
  <2> SUFFICES ASSUME NEW i \in 0..N
               PROVE  /\ Len(J[i]) <= Len(J[N])
                      /\ \A k \in 1..Len(J[i]) : J[N][k] = J[i][k]
    OBVIOUS
  <2> DEFINE ss == Lines(in)
  <2>1. ss \in Seq(Seq(Int)) /\ i \in 0..Len(ss) /\ N \in i..Len(ss)
    BY <1>1
  <2> HIDE DEF ss, N
  <2>2. /\ Len(Joined(ss)[i]) <= Len(Joined(ss)[N])
        /\ \A k \in 1..Len(Joined(ss)[i]) : Joined(ss)[N][k] = Joined(ss)[i][k]
    BY <2>1, JoinedGrows
  <2> QED
    BY <2>2 DEF ss
<1>5. ASSUME NEW i \in 1..N
      PROVE  /\ Len(J[i]) = Len(J[i - 1]) + in.lines[i].len + 1
             /\ J[N][Len(J[i])] = NL
             /\ \A k \in 1..in.lines[i].len :
                   J[N][Len(J[i - 1]) + k] = Chars(i, in.lines[i])[k]
  <2> DEFINE len == in.lines[i].len
             u == J[i - 1]
             v == Lines(in)[i]
  <2>1. i \in 0..N /\ i - 1 \in 0..N /\ len \in Nat
    BY <1>1, InputFields
  <2>2. u \in Seq(Int) /\ Len(u) \in Nat /\ J[i] = u \o v
    BY <1>2, <1>3, <2>1
  <2>3. /\ v \in Seq(Int) /\ Len(v) = len + 1 /\ v[len + 1] = NL
        /\ \A k \in 1..len : v[k] = Chars(i, in.lines[i])[k]
    BY LinesType
  <2> HIDE DEF u, v
  <2>4. /\ Len(J[i]) = Len(u) + (len + 1)
        /\ \A k \in 1..(len + 1) : J[i][Len(u) + k] = v[k]
    <3>1. /\ Len(u \o v) = Len(u) + Len(v)
          /\ \A k \in 1..(Len(u) + Len(v)) :
                (u \o v)[k] = IF k <= Len(u) THEN u[k] ELSE v[k - Len(u)]
      BY <2>2, <2>3, ConcatProperties
    <3> HIDE DEF len
    <3> QED
      BY <2>2, <2>3, <3>1
  <2>5. \A k \in 1..Len(J[i]) : J[N][k] = J[i][k]
    BY <1>4, <2>1
  <2> HIDE DEF len, J
  <2>6. \A k \in 1..(len + 1) : Len(u) + k \in 1..Len(J[i])
    BY <2>1, <2>2, <2>4
  <2>7. \A k \in 1..(len + 1) : J[N][Len(u) + k] = v[k]
    BY <2>4, <2>5, <2>6
  <2>8. len + 1 \in 1..(len + 1) /\ \A k \in 1..len : k \in 1..(len + 1)
    BY <2>1
  <2>9. J[N][Len(u) + (len + 1)] = NL
    BY <2>3, <2>7, <2>8
  <2>10. \A k \in 1..len : J[N][Len(u) + k] = Chars(i, in.lines[i])[k]
    BY <2>3, <2>7, <2>8
  <2>11. Len(u) + (len + 1) = Len(u) + len + 1
    BY <2>1, <2>2
  <2> QED
    BY <2>4, <2>9, <2>10, <2>11 DEF u, len
<1>6. Len(J[0]) = 0
  BY <1>2, EmptySeq
<1>7. 0 \in 0..N /\ N \in 0..N
  BY <1>1
<1> HIDE DEF N, J
<1> QED
  BY <1>3, <1>4, <1>5, <1>6, <1>7 DEF Full, End, J, N

\* What is sent is the front of that text.
LEMMA TextShape ==
  ASSUME NEW in \in Inputs
  PROVE  /\ Size(in) \in Nat /\ Size(in) <= Len(Full(in))
         /\ Len(Full(in)) <= Size(in) + 1
         /\ Text(in) = SubSeq(Full(in), 1, Size(in))
         /\ Text(in) \in Seq(Int)
<1> DEFINE F == Full(in)
<1>1. F \in Seq(Int) /\ Len(F) \in Nat
  BY LinePlaces, LenProperties
<1>2. F # <<>> => Len(F) > 0
  BY <1>1, EmptySeq
<1>3. Text(in) = IF in.final \/ F = <<>> THEN F ELSE SubSeq(F, 1, Len(F) - 1)
  BY DEF Text, Full
<1>4. Size(in) = IF in.final \/ F = <<>> THEN Len(F) ELSE Len(F) - 1
  BY DEF Size
<1> HIDE DEF F
<1>5. SubSeq(F, 1, Len(F)) = F
  BY <1>1
<1>6. /\ Size(in) \in Nat /\ Size(in) <= Len(F)
      /\ Len(F) <= Size(in) + 1
      /\ Text(in) = SubSeq(F, 1, Size(in))
  BY <1>1, <1>2, <1>3, <1>4, <1>5
<1>7. SubSeq(F, 1, Size(in)) \in Seq(Int)
  BY <1>1, <1>6
<1> QED
  BY <1>6, <1>7 DEF F

-----------------------------------------------------------------------------
(* Types.                                                                  *)

\* The end of the input is found with room in the buffer, which is the room a
\* final newline needs; and a command is at the front of the buffer.
InputInv ==
    /\ TypeOK
    /\ text \in Seq(Int)
    /\ recv_buf \in Seq(Int)
    /\ state_fn = "next" /\ ~recv_fd => Len(recv_buf) < RECV_BUF
    /\ state_fn \in {"run", "end"} => line_len >= 1 /\ line_len <= Len(recv_buf)

\* memchr.
LEMMA FirstEolLeast ==
  ASSUME recv_buf \in Seq(Int)
  PROVE  /\ FirstEol \in Nat
         /\ FirstEol = 0 => \A k \in 1..Len(recv_buf) : recv_buf[k] # NL
         /\ FirstEol > 0 =>
               /\ FirstEol \in 1..Len(recv_buf) /\ recv_buf[FirstEol] = NL
               /\ \A k \in 1..Len(recv_buf) : recv_buf[k] = NL => FirstEol <= k
<1>1. Len(recv_buf) \in Nat
  BY LenProperties
<1>2. Newlines \subseteq Nat /\ 0 \notin Newlines
  BY <1>1 DEF Newlines
<1>3. CASE Newlines = {}
  BY <1>3 DEF FirstEol, Newlines
<1>4. CASE Newlines # {}
  <2>1. \E x \in Newlines : \A y \in Newlines : x <= y
    BY <1>2, <1>4, LeastNumber
  <2>2. FirstEol \in Newlines /\ \A y \in Newlines : FirstEol <= y
    BY <1>4, <2>1 DEF FirstEol
  <2> QED
    BY <1>2, <2>2 DEF Newlines
<1> QED
  BY <1>3, <1>4

LEMMA InputInit == Init => InputInv
<1> SUFFICES ASSUME Init
             PROVE  InputInv
  OBVIOUS
<1>1. text \in Seq(Int)
  BY TextShape DEF Init
<1>2. recv_buf \in Seq(Int) /\ Len(recv_buf) = 0
  BY EmptySeq DEF Init
<1>3. /\ input \in Inputs /\ recv_fd \in BOOLEAN /\ recv_overflow \in BOOLEAN
      /\ line_len = 0 /\ state_fn = "next" /\ j = 0
  BY DEF Init
<1>4. TypeOK
  BY <1>2, <1>3, SizesPositive DEF TypeOK
<1>5. Len(recv_buf) < RECV_BUF
  BY <1>2, SizesPositive
<1>6. state_fn \notin {"run", "end"}
  BY <1>3
<1> QED
  BY <1>1, <1>2, <1>4, <1>5, <1>6, Zenon DEF InputInv

LEMMA InputStep == InputInv /\ [Next]_vars => InputInv'
<1> SUFFICES ASSUME InputInv, [Next]_vars
             PROVE  InputInv'
  OBVIOUS
<1> USE SizesPositive
<1>1. /\ input \in Inputs /\ text \in Seq(Int) /\ recv_buf \in Seq(Int)
      /\ Len(recv_buf) \in Nat /\ Len(text) \in Nat /\ Len(recv_buf) <= RECV_BUF
      /\ recv_fd \in BOOLEAN /\ recv_overflow \in BOOLEAN
      /\ line_len \in 0..RECV_BUF /\ j \in 0..ITERATIONS
      /\ state_fn \in {"next", "run", "end", "close", "free"}
  BY LenProperties DEF InputInv, TypeOK
<1>2. CASE ctl_read_more
  <2>1. PICK n \in Readable : /\ recv_buf' = recv_buf \o SubSeq(text, 1, n)
                              /\ text' = SubSeq(text, n + 1, Len(text))
    BY <1>2 DEF ctl_read_more
  <2>2. n \in Nat /\ n <= Len(text) /\ n <= RECV_BUF - Len(recv_buf)
    BY <1>1 DEF Readable, Room
  <2>3. SubSeq(text, 1, n) \in Seq(Int) /\ Len(SubSeq(text, 1, n)) = n
    BY <1>1, <2>2
  <2>4. recv_buf' \in Seq(Int) /\ Len(recv_buf') = Len(recv_buf) + n
    BY <1>1, <2>1, <2>3, ConcatProperties
  <2>5. text' \in Seq(Int)
    BY <1>1, <2>1, <2>2
  <2>6. /\ input' = input /\ recv_fd' = recv_fd /\ recv_overflow' = recv_overflow
        /\ line_len' = line_len /\ state_fn' = state_fn /\ recv_fd
        /\ j' = ITERATIONS
    BY <1>2 DEF ctl_read_more, StartTurn
  <2>7. TypeOK'
    BY <1>1, <2>2, <2>4, <2>6 DEF TypeOK
  <2>8. state_fn \in {"run", "end"} => line_len >= 1 /\ line_len <= Len(recv_buf')
    BY <1>1, <2>2, <2>4 DEF InputInv
  <2>9. recv_fd'
    BY <2>6
  <2>10. state_fn' \in {"run", "end"} => line_len' >= 1 /\ line_len' <= Len(recv_buf')
    BY <2>6, <2>8
  <2> QED
    BY <2>4, <2>5, <2>7, <2>9, <2>10, Zenon DEF InputInv
<1>3. CASE ReadEOF
  <2>1. Len(recv_buf) < RECV_BUF
    BY <1>1, <1>3 DEF ReadEOF, Room
  <2>2. recv_fd' \in BOOLEAN
    BY <1>3, Zenon DEF ReadEOF
  <2>3. /\ text' = text /\ recv_buf' = recv_buf /\ line_len' = line_len
        /\ state_fn' = state_fn /\ input' = input /\ recv_overflow' = recv_overflow
        /\ j' = ITERATIONS
    BY <1>3 DEF ReadEOF, StartTurn
  <2>4. TypeOK'
    BY <1>1, <2>2, <2>3 DEF TypeOK
  <2> QED
    BY <1>1, <2>1, <2>3, <2>4 DEF InputInv
<1>4. CASE NothingRead
  BY <1>1, <1>4 DEF InputInv, TypeOK, NothingRead, StartTurn
<1>5. CASE NextTooLong
  <2>1. Len(recv_buf) = RECV_BUF
    BY <1>1, <1>5 DEF NextTooLong, Room
  <2>2. SubSeq(recv_buf, 1, 1) \in Seq(Int) /\ Len(SubSeq(recv_buf, 1, 1)) = 1
    BY <1>1, <2>1
  <2> QED
    BY <1>1, <1>5, <2>2 DEF InputInv, TypeOK, NextTooLong, Iteration
<1>6. CASE NextIncomplete \/ OutputBlocked
  BY <1>1, <1>6 DEF InputInv, TypeOK, NextIncomplete, OutputBlocked, Iteration
<1>7. CASE NextEnds
  <2>1. <<>> \in Seq(Int) /\ Len(<<>>) = 0
    BY EmptySeq
  <2> QED
    BY <1>1, <1>7, <2>1 DEF InputInv, TypeOK, NextEnds, Iteration
<1>8. CASE NextLine /\ AppendsNewline
  <2>1. Len(recv_buf) < RECV_BUF
    BY <1>8 DEF InputInv, NextLine, Iteration, AppendsNewline
  <2>2. NL \in Int
    BY DEF NL
  <2>3. recv_buf' = Append(recv_buf, NL)
    BY <1>8 DEF NextLine
  <2>4. recv_buf' \in Seq(Int) /\ Len(recv_buf') = Len(recv_buf) + 1
    BY <1>1, <2>2, <2>3, AppendProperties
  <2> QED
    BY <1>1, <1>8, <2>1, <2>4 DEF InputInv, TypeOK, NextLine, Iteration
<1>9. CASE NextLine /\ ~AppendsNewline
  <2>1. FirstEol \in 1..Len(recv_buf)
    BY <1>1, <1>9, FirstEolLeast DEF NextLine
  <2>2. /\ text' = text /\ recv_buf' = recv_buf /\ line_len' = FirstEol
        /\ state_fn' = "run"
    BY <1>9 DEF NextLine
  <2>3. j' \in 0..ITERATIONS
    BY <1>1, <1>9 DEF NextLine, Iteration
  <2>4. TypeOK'
    BY <1>1, <1>9, <2>1, <2>2, <2>3 DEF TypeOK, NextLine
  <2>5. line_len' >= 1 /\ line_len' <= Len(recv_buf') /\ state_fn' # "next"
    BY <1>1, <2>1, <2>2
  <2>6. text' \in Seq(Int) /\ recv_buf' \in Seq(Int)
    BY <1>1, <2>2
  <2> QED
    BY <2>4, <2>5, <2>6, Zenon DEF InputInv
<1>10. CASE Run
  <2>1. recv_fd' \in BOOLEAN /\ recv_overflow' \in BOOLEAN
    BY <1>1, <1>10, Zenon DEF Run, RunTooLong, RunIgnored, RunCommand
  <2>2. /\ text' = text /\ recv_buf' = recv_buf /\ line_len' = line_len /\ input' = input
        /\ state_fn = "run" /\ state_fn' \in {"end", "close"} /\ j > 0 /\ j' = j - 1
    BY <1>10 DEF Run, RunTooLong, RunIgnored, RunCommand, Iteration
  <2>3. TypeOK'
    BY <1>1, <2>1, <2>2 DEF TypeOK
  <2> QED
    BY <1>1, <2>2, <2>3 DEF InputInv
<1>11. CASE ctl_state_end_command
  <2>1. line_len >= 1 /\ line_len <= Len(recv_buf)
    BY <1>11 DEF InputInv, ctl_state_end_command, Iteration
  <2> DEFINE b == SubSeq(recv_buf, line_len + 1, Len(recv_buf))
  <2>2. b \in Seq(Int) /\ Len(b) = Len(recv_buf) - line_len
    BY <1>1, <2>1
  <2>3. recv_buf' = b
    BY <1>11 DEF ctl_state_end_command
  <2> HIDE DEF b
  <2> QED
    BY <1>1, <1>11, <2>1, <2>2, <2>3
    DEF InputInv, TypeOK, ctl_state_end_command, Iteration
<1>12. CASE ctl_state_close \/ Disconnected \/ UNCHANGED vars
  BY <1>1, <1>12 DEF InputInv, TypeOK, ctl_state_close, Disconnected, Iteration, vars
<1> QED
  BY <1>2, <1>3, <1>4, <1>5, <1>6, <1>7, <1>8, <1>9, <1>10, <1>11, <1>12
  DEF Next, Read, FindLine

LEMMA InputKept == Spec => []InputInv
  BY InputInit, InputStep, PTL DEF Spec

\* Every variable keeps its type, and recv_buf is never overrun, whatever the
\* input, however read() cuts it: the newline that ctl_state_next_command
\* appends to the last line of a config file always finds room.
THEOREM InputTyped == Spec => []TypeOK
<1>1. InputInv => TypeOK
  BY DEF InputInv
<1> QED
  BY <1>1, InputKept, PTL

-----------------------------------------------------------------------------
(* What the lines do.                                                      *)

\* What lines may do.
Outcome(in) ==
    {Chars(i, in.lines[i]) : i \in 1..Len(in.lines)} \cup
    {<<"too long", i>> : i \in 1..Len(in.lines)}

\* What the first i lines do.
Done(in, i) == Joined(Effects(in))[i]

\* What line i adds.
Adds(in, i) == IF i \in Effective(in) THEN Effect(i, in.lines[i]) ELSE <<>>

LEMMA EffectsType ==
  ASSUME NEW in \in Inputs
  PROVE  /\ Effects(in) \in Seq(Seq(Outcome(in)))
         /\ Len(Effects(in)) = Len(in.lines)
         /\ \A i \in 1..Len(in.lines) :
               Effects(in)[i] = Adds(in, i) /\ Adds(in, i) \in Seq(Outcome(in))
<1> DEFINE T == Outcome(in)
<1>1. Len(in.lines) \in Nat
  BY InputFields
<1>2. ASSUME NEW i \in 1..Len(in.lines)
      PROVE  Effects(in)[i] = Adds(in, i) /\ Adds(in, i) \in Seq(T)
  <2>1. Chars(i, in.lines[i]) \in T /\ <<"too long", i>> \in T
    BY Zenon DEF Outcome
  <2>2. <<>> \in Seq(T)
    BY EmptySeq
  <2> HIDE DEF T
  <2>3. \A x \in T : <<x>> \in Seq(T)
    OBVIOUS
  <2>4. Effect(i, in.lines[i]) \in
           {<<>>, << <<"too long", i>> >>, <<Chars(i, in.lines[i])>>}
    BY Zenon DEF Effect
  <2>5. Effect(i, in.lines[i]) \in Seq(T)
    BY <2>1, <2>2, <2>3, <2>4, Zenon
  <2>6. Adds(in, i) \in Seq(T)
    BY <2>2, <2>5 DEF Adds
  <2> QED
    BY <2>6 DEF Effects, Adds
<1>3. Effects(in) = [i \in 1..Len(in.lines) |-> Effects(in)[i]]
  BY DEF Effects
<1> HIDE DEF T
<1>4. Effects(in) \in [1..Len(in.lines) -> Seq(T)]
  BY <1>2, <1>3, Zenon
<1>5. Effects(in) \in Seq(Seq(T)) /\ Len(Effects(in)) = Len(in.lines)
  BY <1>1, <1>4
<1> QED
  BY <1>2, <1>5 DEF T

\* Line by line, what the reference expects.
LEMMA DoneTurns ==
  ASSUME NEW in \in Inputs
  PROVE  /\ Done(in, 0) = <<>>
         /\ \A i \in 1..Len(in.lines) : Done(in, i) = Done(in, i - 1) \o Adds(in, i)
         /\ \A i \in 0..Len(in.lines) :
               Done(in, i) \in Seq(Outcome(in)) /\ Done(in, i) \in Prefixes(Expected(in))
<1> DEFINE ss == Effects(in)
           T == Outcome(in)
           N == Len(in.lines)
           J == Joined(ss)
<1>1. N \in Nat /\ ss \in Seq(Seq(T)) /\ Len(ss) = N
      /\ \A i \in 1..N : ss[i] = Adds(in, i)
  BY InputFields, EffectsType
<1>2. Expected(in) = J[N] /\ \A i \in 0..N : Done(in, i) = J[i]
  BY DEF Expected, Done
<1> HIDE DEF ss, T, N
<1>3. J \in [0..N -> Seq(T)] /\ J[0] = <<>>
      /\ \A i \in 1..N : J[i] = J[i - 1] \o ss[i]
  BY <1>1, JoinedTurns
<1>4. ASSUME NEW i \in 0..N
      PROVE  J[i] \in Seq(T) /\ J[i] \in Prefixes(J[N])
  <2>1. i \in 0..Len(ss) /\ N \in i..Len(ss) /\ N \in 0..N
    BY <1>1
  <2>2. /\ Len(J[i]) <= Len(J[N])
        /\ \A k \in 1..Len(J[i]) : J[N][k] = J[i][k]
    BY <1>1, <2>1, JoinedGrows
  <2>3. J[i] \in Seq(T) /\ J[N] \in Seq(T)
    BY <1>3, <2>1
  <2> HIDE DEF J
  <2> DEFINE n == Len(J[i])
             p == SubSeq(J[N], 1, n)
  <2>4. n \in Nat /\ Len(J[N]) \in Nat
    BY <2>3, LenProperties
  <2>5. p \in Seq(T) /\ Len(p) = n /\ \A k \in 1..n : p[k] = J[N][k]
    BY <2>2, <2>3, <2>4
  <2>6. \A k \in 1..n : p[k] = J[i][k]
    BY <2>2, <2>5
  <2>7. p = J[i]
    <3> HIDE DEF p
    <3> QED
      BY <2>3, <2>5, <2>6, SeqEqual
  <2>8. n \in 0..Len(J[N])
    BY <2>2, <2>4
  <2> QED
    BY <2>3, <2>7, <2>8 DEF Prefixes
<1>5. 0 \in 0..N /\ \A i \in 1..N : i \in 0..N /\ i - 1 \in 0..N
  BY <1>1
<1> HIDE DEF J
<1> QED
  BY <1>1, <1>2, <1>3, <1>4, <1>5 DEF N, T

-----------------------------------------------------------------------------
(* Where in the input the controller is.                                   *)

\* The buffer b starts within line i: at its first character, or, when the
\* line is being skipped, with its first character in place of the one after
\* m; and it goes on to q, up to which the text has been read.
Held(in, b, i, m, q) ==
    /\ i \in 1..(Len(in.lines) + 1) /\ m \in Nat /\ q \in Nat
    /\ End(in, i - 1) <= m /\ m <= q /\ q <= Len(Full(in))
    /\ Len(b) = q - m
    /\ b # <<>> => b[1] = Full(in)[End(in, i - 1) + 1]
    /\ \A k \in 2..Len(b) : b[k] = Full(in)[m + k]
    /\ End(in, i - 1) < m =>
          /\ i <= Len(in.lines) /\ m < q /\ m + 1 < End(in, i)
          /\ RECV_BUF <= in.lines[i].len
    /\ \A k \in 1..(i - 1) : ~Exits(in.lines[k])

\* The text t still to be read starts after q; only a newline that was not
\* sent makes q larger than what is sent.
Rest(in, t, q) ==
    /\ Len(t) = IF q <= Size(in) THEN Size(in) - q ELSE 0
    /\ \A k \in 1..Len(t) : t[k] = Full(in)[q + k]
    /\ q <= Size(in) \/ in.append

\* What the states make of line i.
At(i, m, q) ==
    /\ Held(input, recv_buf, i, m, q)
    /\ Rest(input, text, q)
    /\ ~recv_fd => Size(input) <= q
    /\ state_fn \in {"next", "run"} =>
          /\ executed = Done(input, i - 1)
          /\ recv_overflow => End(input, i - 1) < m
          /\ ~recv_overflow => m = End(input, i - 1)
    /\ state_fn \in {"run", "end"} =>
          /\ i <= Len(input.lines) /\ End(input, i) <= q
          /\ line_len = End(input, i) - m
    /\ state_fn = "end" =>
          executed = Done(input, i) /\ ~recv_overflow /\ ~Exits(input.lines[i])

OrderInv ==
    \/ state_fn \in {"close", "free"} /\ executed \in Prefixes(Expected(input))
    \/ state_fn \in {"next", "run", "end"} /\ \E i, m, q \in Nat : At(i, m, q)

\* The ends of lines i - 1 and i, where there is a line i.
LEMMA LineEnds ==
  ASSUME NEW in \in Inputs, NEW i \in 1..(Len(in.lines) + 1)
  PROVE  /\ i \in Nat \ {0} /\ Len(in.lines) \in Nat /\ Len(Full(in)) \in Nat
         /\ End(in, i - 1) \in Nat /\ End(in, i - 1) <= Len(Full(in))
         /\ End(in, i - 1) < Len(Full(in)) => i <= Len(in.lines)
         /\ i <= Len(in.lines) =>
               /\ in.lines[i] \in Line /\ in.lines[i].len \in Nat
               /\ End(in, i) = End(in, i - 1) + in.lines[i].len + 1
               /\ End(in, i) <= Len(Full(in))
<1>1. Len(in.lines) \in Nat /\ i \in Nat \ {0} /\ i - 1 \in 0..Len(in.lines)
  BY InputFields
<1>2. Len(Full(in)) \in Nat
  BY LinePlaces, LenProperties
<1>3. End(in, i - 1) \in Nat /\ End(in, i - 1) <= Len(Full(in))
  BY <1>1, LinePlaces
<1>4. ASSUME End(in, i - 1) < Len(Full(in))
      PROVE  i <= Len(in.lines)
  <2>1. i - 1 # Len(in.lines)
    BY <1>2, <1>4, LinePlaces
  <2> QED
    BY <1>1, <2>1
<1>5. ASSUME i <= Len(in.lines)
      PROVE  /\ in.lines[i] \in Line /\ in.lines[i].len \in Nat
             /\ End(in, i) = End(in, i - 1) + in.lines[i].len + 1
             /\ End(in, i) <= Len(Full(in))
  <2>1. i \in 1..Len(in.lines) /\ i \in 0..Len(in.lines)
    BY <1>1, <1>5
  <2> QED
    BY <2>1, InputFields, LinePlaces
<1> QED
  BY <1>1, <1>2, <1>3, <1>4, <1>5

\* The characters of line i are not newlines, and what follows them is one.
LEMMA LineChars ==
  ASSUME NEW in \in Inputs, NEW i \in 1..Len(in.lines)
  PROVE  /\ \A k \in Nat : End(in, i - 1) < k /\ k < End(in, i) =>
               /\ Full(in)[k] = Chars(i, in.lines[i])[k - End(in, i - 1)]
               /\ Full(in)[k] \in {i, -i} /\ Full(in)[k] # NL
         /\ Full(in)[End(in, i)] = NL
         /\ End(in, i - 1) + 1 < End(in, i) => Full(in)[End(in, i - 1) + 1] =
               (IF in.lines[i].kind = "comment" THEN -i ELSE i)
<1> DEFINE p == End(in, i - 1)
           len == in.lines[i].len
           F == Full(in)
           C == Chars(i, in.lines[i])
<1>1. /\ p \in Nat /\ len \in Nat /\ End(in, i) = p + len + 1 /\ i \in Nat \ {0}
      /\ in.lines[i] \in Line
  <2>1. i \in 1..(Len(in.lines) + 1) /\ i <= Len(in.lines)
    BY InputFields
  <2> QED
    BY <2>1, LineEnds
<1>2. F[End(in, i)] = NL /\ \A k \in 1..len : F[p + k] = C[k]
  BY LinePlaces
<1>3. /\ \A k \in 1..len : C[k] \in {i, -i}
      /\ len > 0 => C[1] = (IF in.lines[i].kind = "comment" THEN -i ELSE i)
  BY <1>1, CharsType
<1> HIDE DEF p, len, F, C
<1>4. ASSUME NEW k \in Nat, p < k, k < p + len + 1
      PROVE  F[k] = C[k - p] /\ F[k] \in {i, -i} /\ F[k] # NL
  <2>1. k - p \in 1..len /\ p + (k - p) = k
    BY <1>1, <1>4
  <2>2. F[k] = C[k - p] /\ C[k - p] \in {i, -i}
    BY <1>2, <1>3, <2>1
  <2> QED
    BY <1>1, <2>2 DEF NL
<1>5. ASSUME p + 1 < p + len + 1
      PROVE  F[p + 1] = (IF in.lines[i].kind = "comment" THEN -i ELSE i)
  <2>1. 1 \in 1..len /\ len > 0
    BY <1>1, <1>5
  <2> QED
    BY <1>2, <1>3, <2>1
<1> QED
  BY <1>1, <1>2, <1>4, <1>5 DEF p, F, C

\* The numbers of Held.
LEMMA HeldNumbers ==
  ASSUME NEW in \in Inputs, NEW b \in Seq(Int), NEW i, NEW m, NEW q,
         Held(in, b, i, m, q)
  PROVE  /\ i \in 1..(Len(in.lines) + 1) /\ i \in Nat \ {0}
         /\ m \in Nat /\ q \in Nat /\ Len(b) \in Nat /\ Len(b) = q - m
         /\ End(in, i - 1) \in Nat /\ Len(Full(in)) \in Nat /\ Len(in.lines) \in Nat
         /\ End(in, i - 1) <= m /\ m <= q /\ q <= Len(Full(in))
<1>1. /\ i \in 1..(Len(in.lines) + 1) /\ m \in Nat /\ q \in Nat /\ Len(b) = q - m
      /\ End(in, i - 1) <= m /\ m <= q /\ q <= Len(Full(in))
  BY DEF Held
<1> QED
  BY <1>1, LineEnds, LenProperties

\* A buffer that is not empty starts with a line.
LEMMA HeldInLine ==
  ASSUME NEW in \in Inputs, NEW b \in Seq(Int), NEW i, NEW m, NEW q,
         Held(in, b, i, m, q), b # <<>>
  PROVE  /\ i \in 1..Len(in.lines) /\ in.lines[i] \in Line /\ in.lines[i].len \in Nat
         /\ End(in, i) = End(in, i - 1) + in.lines[i].len + 1
         /\ m < End(in, i) /\ End(in, i) <= Len(Full(in))
<1>1. Len(b) > 0
  BY EmptySeq
<1>2. /\ i \in 1..(Len(in.lines) + 1) /\ i \in Nat \ {0} /\ Len(in.lines) \in Nat
      /\ m \in Nat /\ q \in Nat /\ Len(b) = q - m
      /\ End(in, i - 1) \in Nat /\ Len(Full(in)) \in Nat
      /\ End(in, i - 1) <= m /\ m <= q /\ q <= Len(Full(in))
  BY HeldNumbers
<1>3. End(in, i - 1) < Len(Full(in))
  BY <1>1, <1>2
<1>4. i <= Len(in.lines)
  BY <1>2, <1>3, LineEnds
<1>5. /\ in.lines[i] \in Line /\ in.lines[i].len \in Nat
      /\ End(in, i) = End(in, i - 1) + in.lines[i].len + 1
      /\ End(in, i) <= Len(Full(in))
  BY <1>2, <1>4, LineEnds
<1>6. End(in, i - 1) < m => m + 1 < End(in, i)
  BY DEF Held
<1>7. End(in, i) \in Nat /\ End(in, i - 1) < End(in, i)
  BY <1>2, <1>5
<1>8. m < End(in, i)
  BY <1>2, <1>6, <1>7
<1>9. i \in 1..Len(in.lines)
  BY <1>2, <1>4
<1> QED
  BY <1>5, <1>8, <1>9

\* The newlines of the buffer are not before the end of its first line, and
\* one is there.
LEMMA HeldNewlines ==
  ASSUME NEW in \in Inputs, NEW b \in Seq(Int), NEW i, NEW m, NEW q,
         Held(in, b, i, m, q), b # <<>>
  PROVE  /\ \A k \in 1..Len(b) : b[k] = NL => End(in, i) - m <= k
         /\ End(in, i) <= q => /\ End(in, i) - m \in 1..Len(b)
                               /\ b[End(in, i) - m] = NL
<1> DEFINE p == End(in, i - 1)
           e == End(in, i)
           F == Full(in)
<1>1. /\ m \in Nat /\ q \in Nat /\ Len(b) \in Nat /\ Len(b) = q - m
      /\ p \in Nat /\ p <= m /\ m <= q
  BY HeldNumbers
<1>2. i \in 1..Len(in.lines) /\ in.lines[i].len \in Nat /\ e = p + in.lines[i].len + 1 /\ m < e
  BY HeldInLine
<1>3. /\ \A k \in Nat : p < k /\ k < e => F[k] # NL
      /\ F[e] = NL
  BY <1>2, LineChars
<1>4. b[1] = F[p + 1] /\ (\A k \in 2..Len(b) : b[k] = F[m + k]) /\ (p < m => m + 1 < e)
  BY DEF Held
<1> HIDE DEF p, e, F
<1>5. e \in Nat /\ m < e
  BY <1>1, <1>2
<1>6. ASSUME NEW k \in 1..Len(b), k < e - m
      PROVE  b[k] # NL
  <2>1. CASE k = 1
    <3>1. p < p + 1 /\ p + 1 < e /\ p + 1 \in Nat
      BY <1>1, <1>5, <1>6, <2>1
    <3> QED
      BY <1>3, <1>4, <2>1, <3>1
  <2>2. CASE k # 1
    <3>1. k \in 2..Len(b) /\ p < m + k /\ m + k < e /\ m + k \in Nat
      BY <1>1, <1>5, <1>6, <2>2
    <3> QED
      BY <1>3, <1>4, <3>1
  <2> QED
    BY <2>1, <2>2
<1>7. ASSUME e <= q
      PROVE  e - m \in 1..Len(b) /\ b[e - m] = NL
  <2>1. e - m \in 1..Len(b) /\ m + (e - m) = e
    BY <1>1, <1>5, <1>7
  <2>2. CASE e - m = 1
    <3>1. p + 1 = e
      BY <1>1, <1>4, <1>5, <2>2
    <3> QED
      BY <1>3, <1>4, <2>1, <2>2, <3>1
  <2>3. CASE e - m # 1
    <3>1. e - m \in 2..Len(b)
      BY <1>1, <1>5, <2>1, <2>3
    <3>2. b[e - m] = F[m + (e - m)]
      BY <1>4, <3>1
    <3> QED
      BY <1>3, <2>1, <3>2
  <2> QED
    BY <2>1, <2>2, <2>3
<1>8. \A k \in 1..Len(b) : b[k] = NL => e - m <= k
  BY <1>1, <1>5, <1>6
<1> QED
  BY <1>7, <1>8 DEF e

\* read() moves characters from the text to the buffer.
LEMMA HeldRead ==
  ASSUME NEW in \in Inputs, NEW b \in Seq(Int), NEW t \in Seq(Int),
         NEW i, NEW m, NEW q, Held(in, b, i, m, q), Rest(in, t, q),
         NEW n \in 1..Len(t)
  PROVE  /\ Held(in, b \o SubSeq(t, 1, n), i, m, q + n)
         /\ Rest(in, SubSeq(t, n + 1, Len(t)), q + n)
<1> DEFINE p == End(in, i - 1)
           F == Full(in)
           z == Size(in)
           c == SubSeq(t, 1, n)
           d == b \o c
           u == SubSeq(t, n + 1, Len(t))
<1>1. /\ m \in Nat /\ q \in Nat /\ Len(b) \in Nat /\ Len(b) = q - m
      /\ p \in Nat /\ p <= m /\ m <= q /\ q <= Len(F) /\ Len(F) \in Nat
  BY HeldNumbers
<1>2. z \in Nat /\ z <= Len(F)
  BY TextShape
<1>3. Len(t) \in Nat /\ n \in Nat /\ 1 <= n /\ n <= Len(t)
  BY LenProperties
<1>4. Len(t) = (IF q <= z THEN z - q ELSE 0) /\ \A k \in 1..Len(t) : t[k] = F[q + k]
  BY DEF Rest
<1>5. /\ b # <<>> => b[1] = F[p + 1]
      /\ \A k \in 2..Len(b) : b[k] = F[m + k]
      /\ p < m => m < q
  BY DEF Held
<1>6. b = <<>> => Len(b) = 0
  BY EmptySeq
<1>7. q + n <= z /\ Len(t) = z - q
  <2> HIDE DEF z, F
  <2> QED
    BY <1>1, <1>2, <1>3, <1>4
<1>8. c \in Seq(Int) /\ Len(c) = n /\ \A k \in 1..n : c[k] = t[k]
  BY <1>3
<1>9. /\ u \in Seq(Int) /\ Len(u) = Len(t) - n
      /\ \A k \in 1..(Len(t) - n) : u[k] = t[n + k]
  BY <1>3
<1> HIDE DEF c, u, F, z, p
<1>10. /\ d \in Seq(Int) /\ Len(d) = Len(b) + n
       /\ \A k \in 1..Len(b) : d[k] = b[k]
       /\ \A k \in 1..n : d[Len(b) + k] = c[k]
  <2>1. /\ d \in Seq(Int) /\ Len(d) = Len(b) + Len(c)
        /\ \A k \in 1..(Len(b) + Len(c)) :
              d[k] = IF k <= Len(b) THEN b[k] ELSE c[k - Len(b)]
    BY <1>8, ConcatProperties
  <2> HIDE DEF d
  <2>2. ASSUME NEW k \in 1..Len(b)
        PROVE  d[k] = b[k]
    <3>1. k \in 1..(Len(b) + Len(c)) /\ k <= Len(b)
      BY <1>1, <1>3, <1>8
    <3> QED
      BY <2>1, <3>1
  <2>3. ASSUME NEW k \in 1..n
        PROVE  d[Len(b) + k] = c[k]
    <3>1. /\ Len(b) + k \in 1..(Len(b) + Len(c)) /\ ~(Len(b) + k <= Len(b))
          /\ (Len(b) + k) - Len(b) = k
      BY <1>1, <1>3, <1>8
    <3> QED
      BY <2>1, <3>1
  <2> QED
    BY <1>8, <2>1, <2>2, <2>3
<1> HIDE DEF d
<1>11. \A k \in 2..Len(d) : d[k] = F[m + k]
  <2> SUFFICES ASSUME NEW k \in 2..Len(d)
               PROVE  d[k] = F[m + k]
    OBVIOUS
  <2>1. CASE k <= Len(b)
    <3>1. k \in 1..Len(b) /\ k \in 2..Len(b)
      BY <1>1, <2>1
    <3> QED
      BY <1>5, <1>10, <3>1
  <2>2. CASE k > Len(b)
    <3>1. /\ k - Len(b) \in 1..n /\ Len(b) + (k - Len(b)) = k
          /\ k - Len(b) \in 1..Len(t) /\ q + (k - Len(b)) = m + k
      BY <1>1, <1>3, <1>10, <2>2
    <3>2. d[k] = c[k - Len(b)]
      BY <1>10, <3>1
    <3>3. c[k - Len(b)] = F[q + (k - Len(b))]
      BY <1>4, <1>8, <3>1
    <3> QED
      BY <3>1, <3>2, <3>3
  <2> QED
    BY <1>1, <2>1, <2>2
<1>12. d[1] = F[p + 1]
  <2>1. CASE b # <<>>
    <3>1. 1 \in 1..Len(b)
      BY <1>1, <2>1, EmptySeq
    <3> QED
      BY <1>5, <1>10, <2>1, <3>1
  <2>2. CASE b = <<>>
    <3>1. q = p /\ 1 \in 1..n /\ 1 \in 1..Len(t) /\ Len(b) + 1 = 1
      BY <1>1, <1>3, <1>5, <1>6, <2>2
    <3>2. d[1] = c[1]
      BY <1>10, <3>1
    <3>3. c[1] = F[q + 1]
      BY <1>4, <1>8, <3>1
    <3> QED
      BY <3>1, <3>2, <3>3
  <2> QED
    BY <2>1, <2>2
<1>13. /\ q + n \in Nat /\ m <= q + n /\ q + n <= Len(F) /\ Len(d) = (q + n) - m
       /\ q < q + n
  BY <1>1, <1>2, <1>3, <1>7, <1>10
<1>14. Held(in, d, i, m, q + n)
  <2>1. /\ i \in 1..(Len(in.lines) + 1) /\ m \in Nat /\ p <= m
        /\ \A k \in 1..(i - 1) : ~Exits(in.lines[k])
    BY DEF Held, p
  <2>2. p < m => /\ i <= Len(in.lines) /\ m < q + n /\ m + 1 < End(in, i)
                 /\ RECV_BUF <= in.lines[i].len
    <3>1. p < m => /\ i <= Len(in.lines) /\ m < q /\ m + 1 < End(in, i)
                   /\ RECV_BUF <= in.lines[i].len
      BY DEF Held, p
    <3>2. m < q => m < q + n
      BY <1>1, <1>3
    <3> QED
      BY <3>1, <3>2
  <2> QED
    BY <1>11, <1>12, <1>13, <2>1, <2>2 DEF Held, p, F
<1>15. Rest(in, u, q + n)
  <2>1. Len(u) = z - (q + n)
    BY <1>1, <1>2, <1>3, <1>7, <1>9
  <2>2. \A k \in 1..Len(u) : u[k] = F[(q + n) + k]
    <3> SUFFICES ASSUME NEW k \in 1..Len(u)
                 PROVE  u[k] = F[(q + n) + k]
      OBVIOUS
    <3>1. /\ k \in 1..(Len(t) - n) /\ n + k \in 1..Len(t)
          /\ q + (n + k) = (q + n) + k
      BY <1>1, <1>3, <1>9
    <3>2. u[k] = t[n + k] /\ t[n + k] = F[q + (n + k)]
      BY <1>4, <1>9, <3>1
    <3> QED
      BY <3>1, <3>2
  <2> QED
    BY <1>7, <2>1, <2>2 DEF Rest, F, z
<1> QED
  BY <1>14, <1>15 DEF d, c, u

\* A full buffer without a newline is the front of a line that is too long, of
\* which the first character is kept.
LEMMA HeldSkip ==
  ASSUME NEW in \in Inputs, NEW b \in Seq(Int), NEW i, NEW m, NEW q,
         Held(in, b, i, m, q), Len(b) = RECV_BUF,
         \A k \in 1..Len(b) : b[k] # NL
  PROVE  Held(in, SubSeq(b, 1, 1), i, q - 1, q) /\ End(in, i - 1) < q - 1
<1> DEFINE p == End(in, i - 1)
           e == End(in, i)
           F == Full(in)
           len == in.lines[i].len
           c == SubSeq(b, 1, 1)
<1>1. /\ m \in Nat /\ q \in Nat /\ Len(b) \in Nat /\ Len(b) = q - m
      /\ p \in Nat /\ p <= m /\ m <= q /\ q <= Len(F) /\ Len(F) \in Nat
  BY HeldNumbers
<1>2. RECV_BUF \in Nat /\ RECV_BUF >= 2
  BY SizesPositive
<1>3. b # <<>>
  BY <1>2, EmptySeq
<1>4. i \in 1..Len(in.lines) /\ i \in Nat /\ Len(in.lines) \in Nat
  BY <1>3, HeldInLine, InputFields
<1>5. len \in Nat /\ e = p + len + 1 /\ m < e
  BY <1>3, HeldInLine
<1>6. ~(e <= q)
  BY <1>3, HeldNewlines
<1>7. /\ b[1] = F[p + 1]
      /\ p < m => RECV_BUF <= len
      /\ i \in 1..(Len(in.lines) + 1)
      /\ \A k \in 1..(i - 1) : ~Exits(in.lines[k])
  BY <1>3 DEF Held
<1>8. c \in Seq(Int) /\ Len(c) = 1 /\ c[1] = b[1]
  BY <1>2
<1> HIDE DEF p, e, F, c, len
<1>9. /\ q - 1 \in Nat /\ p < q - 1 /\ q - 1 < q /\ (q - 1) + 1 < e
      /\ Len(c) = q - (q - 1) /\ p <= q - 1 /\ q - 1 <= q
  BY <1>1, <1>2, <1>5, <1>6, <1>8
<1>10. RECV_BUF <= len
  BY <1>1, <1>2, <1>5, <1>6, <1>7
<1>11. i <= Len(in.lines) /\ 2..Len(c) = {}
  BY <1>4, <1>8
<1>12. Held(in, c, i, q - 1, q)
  BY <1>1, <1>7, <1>8, <1>9, <1>10, <1>11 DEF Held, p, e, F, len
<1> QED
  BY <1>9, <1>12 DEF c, p

\* The command at the front of the buffer is taken off it.
LEMMA HeldCut ==
  ASSUME NEW in \in Inputs, NEW b \in Seq(Int), NEW i, NEW m, NEW q,
         Held(in, b, i, m, q), i <= Len(in.lines), End(in, i) <= q,
         b # <<>>, ~Exits(in.lines[i])
  PROVE  Held(in, SubSeq(b, (End(in, i) - m) + 1, Len(b)), i + 1, End(in, i), q)
<1> DEFINE p == End(in, i - 1)
           e == End(in, i)
           F == Full(in)
           c == SubSeq(b, (e - m) + 1, Len(b))
<1>1. /\ m \in Nat /\ q \in Nat /\ Len(b) \in Nat /\ Len(b) = q - m
      /\ p \in Nat /\ p <= m /\ m <= q /\ q <= Len(F) /\ Len(F) \in Nat
  BY HeldNumbers
<1>2. /\ i \in 1..Len(in.lines) /\ i \in Nat /\ Len(in.lines) \in Nat
      /\ i + 1 \in 1..(Len(in.lines) + 1) /\ (i + 1) - 1 = i
  BY HeldInLine, InputFields
<1>3. e \in Nat /\ m < e /\ e <= q
  <2>1. in.lines[i].len \in Nat /\ e = p + in.lines[i].len + 1 /\ m < e
    BY HeldInLine
  <2> QED
    BY <1>1, <2>1
<1>4. /\ \A k \in 2..Len(b) : b[k] = F[m + k]
      /\ \A k \in 1..(i - 1) : ~Exits(in.lines[k])
  BY DEF Held
<1>5. \A k \in 1..((i + 1) - 1) : ~Exits(in.lines[k])
  <2> SUFFICES ASSUME NEW k \in 1..((i + 1) - 1), k # i
               PROVE  ~Exits(in.lines[k])
    OBVIOUS
  <2>1. k \in 1..(i - 1)
    BY <1>2
  <2> QED
    BY <1>4, <2>1
<1> HIDE DEF p, e, F
<1>6. /\ c \in Seq(Int) /\ Len(c) = q - e
      /\ \A k \in 1..(q - e) : c[k] = b[(e - m) + k]
  BY <1>1, <1>3
<1> HIDE DEF c
<1>7. \A k \in 1..Len(c) : c[k] = F[e + k]
  <2> SUFFICES ASSUME NEW k \in 1..Len(c)
               PROVE  c[k] = F[e + k]
    OBVIOUS
  <2>1. k \in 1..(q - e) /\ (e - m) + k \in 2..Len(b) /\ m + ((e - m) + k) = e + k
    BY <1>1, <1>3, <1>6
  <2>2. c[k] = b[(e - m) + k] /\ b[(e - m) + k] = F[m + ((e - m) + k)]
    BY <1>4, <1>6, <2>1
  <2> QED
    BY <2>1, <2>2
<1>8. c # <<>> => c[1] = F[e + 1]
  <2>1. c # <<>> => 1 \in 1..Len(c)
    BY <1>6, EmptySeq
  <2> QED
    BY <1>7, <2>1
<1>9. \A k \in 2..Len(c) : c[k] = F[e + k]
  BY <1>7
<1>10. ~(e < e) /\ e <= e
  BY <1>3
<1>11. Held(in, c, i + 1, e, q)
  BY <1>1, <1>2, <1>3, <1>5, <1>6, <1>8, <1>9, <1>10 DEF Held, e, F
<1> QED
  BY <1>11 DEF c, e

\* A buffer that was filled to the end of the text ends with a newline.
LEMMA HeldToEnd ==
  ASSUME NEW in \in Inputs, NEW b \in Seq(Int), NEW i, NEW m, NEW q,
         Held(in, b, i, m, q), b # <<>>, q = Len(Full(in))
  PROVE  b[Len(b)] = NL
<1> DEFINE p == End(in, i - 1)
           e == End(in, i)
           F == Full(in)
           N == Len(in.lines)
<1>1. /\ m \in Nat /\ q \in Nat /\ Len(b) \in Nat /\ Len(b) = q - m
      /\ p \in Nat /\ p <= m /\ m <= q
  BY HeldNumbers
<1>2. Len(b) > 0
  BY EmptySeq
<1>3. e \in Nat /\ m < e /\ e <= q /\ N \in 1..N
  <2>1. /\ in.lines[i].len \in Nat /\ e = p + in.lines[i].len + 1 /\ m < e
        /\ e <= Len(F) /\ i \in 1..N
    BY HeldInLine
  <2>2. N \in Nat
    BY InputFields
  <2>3. N \in 1..N
    BY <2>1, <2>2
  <2>4. e \in Nat
    BY <1>1, <2>1
  <2> QED
    BY <2>1, <2>3, <2>4
<1>4. F[q] = NL
  BY <1>3, LinePlaces
<1>5. b[1] = F[p + 1] /\ (\A k \in 2..Len(b) : b[k] = F[m + k]) /\ (p < m => m + 1 < e)
  BY DEF Held
<1> HIDE DEF p, e, F
<1>6. CASE Len(b) = 1
  <2>1. p < m => m + 1 < e
    BY <1>5
  <2>2. e \in Nat /\ m < e /\ e <= q
    BY <1>3
  <2>3. q = m + 1
    <3>1. q \in Nat /\ m \in Nat /\ q - m = 1
      BY <1>1, <1>6
    <3> QED
      BY ONLY <3>1
  <2>4. ~(m + 1 < e)
    BY <1>1, <2>2, <2>3
  <2>5. p = m
    BY <1>1, <2>1, <2>4
  <2>6. p + 1 = q
    BY <2>3, <2>5
  <2> QED
    BY <1>4, <1>5, <1>6, <2>6
<1>7. CASE Len(b) # 1
  <2>1. Len(b) \in 2..Len(b) /\ m + Len(b) = q
    BY <1>1, <1>2, <1>7
  <2> QED
    BY <1>4, <1>5, <2>1
<1> QED
  BY <1>6, <1>7

\* At the end of the input the last line gets its newline, if the text has no
\* other line or ends with a newline.
LEMMA HeldAppend ==
  ASSUME NEW in \in Inputs, NEW b \in Seq(Int), NEW i, NEW m, NEW q,
         Held(in, b, i, m, q), b # <<>>, b[Len(b)] # NL, Size(in) <= q,
         in.final \/ Len(in.lines) <= 1
  PROVE  /\ Held(in, Append(b, NL), i, m, q + 1)
         /\ i \in 1..Len(in.lines) /\ End(in, i) = q + 1
<1> DEFINE p == End(in, i - 1)
           e == End(in, i)
           F == Full(in)
           c == Append(b, NL)
<1>1. /\ m \in Nat /\ q \in Nat /\ Len(b) \in Nat /\ Len(b) = q - m
      /\ p \in Nat /\ p <= m /\ m <= q /\ q <= Len(F) /\ Len(F) \in Nat
  BY HeldNumbers
<1>2. i \in 1..Len(in.lines) /\ Len(in.lines) \in Nat
  BY HeldInLine, InputFields
<1>3. q # Len(F)
  BY HeldToEnd
<1>4. Size(in) \in Nat /\ Len(F) <= Size(in) + 1 /\ (in.final => Size(in) = Len(F))
  BY TextShape DEF Size
<1>5. q + 1 = Len(F) /\ ~in.final
  BY <1>1, <1>3, <1>4
<1>6. i = Len(in.lines)
  BY <1>2, <1>5
<1>7. e = q + 1 /\ F[e] = NL
  BY <1>2, <1>5, <1>6, LinePlaces
<1>8. /\ b[1] = F[p + 1] /\ (\A k \in 2..Len(b) : b[k] = F[m + k])
      /\ (p < m => m < q /\ m + 1 < e /\ RECV_BUF <= in.lines[i].len)
      /\ i \in 1..(Len(in.lines) + 1)
      /\ \A k \in 1..(i - 1) : ~Exits(in.lines[k])
  BY DEF Held
<1>9. NL \in Int
  BY DEF NL
<1>10. /\ c \in Seq(Int) /\ c # <<>> /\ Len(c) = Len(b) + 1
       /\ \A k \in 1..Len(b) : c[k] = b[k]
       /\ c[Len(b) + 1] = NL
  BY <1>9, AppendProperties
<1>11. 1 \in 1..Len(b)
  BY <1>1, EmptySeq
<1> HIDE DEF p, e, F, c
<1>12. c[1] = F[p + 1]
  BY <1>8, <1>10, <1>11
<1>13. ASSUME NEW k \in 2..Len(c)
       PROVE  c[k] = F[m + k]
  <2>1. CASE k = Len(b) + 1
    <3>1. m + k = e
      BY <1>1, <1>7, <2>1
    <3> QED
      BY <1>7, <1>10, <2>1, <3>1
  <2>2. CASE k # Len(b) + 1
    <3>1. k \in 2..Len(b) /\ k \in 1..Len(b)
      BY <1>1, <1>10, <2>2
    <3> QED
      BY <1>8, <1>10, <3>1
  <2> QED
    BY <2>1, <2>2
<1>14. /\ q + 1 \in Nat /\ m <= q + 1 /\ q + 1 <= Len(F) /\ Len(c) = (q + 1) - m
       /\ m < q => m < q + 1
  BY <1>1, <1>5, <1>10
<1>15. i <= Len(in.lines)
  BY <1>2
<1>16. Held(in, c, i, m, q + 1)
  BY <1>1, <1>8, <1>12, <1>13, <1>14, <1>15 DEF Held, p, e, F
<1> QED
  BY <1>2, <1>7, <1>16 DEF c, e

\* A line that was not skipped is in the buffer as it was sent.
LEMMA HeldText ==
  ASSUME NEW in \in Inputs, NEW b \in Seq(Int), NEW i, NEW m, NEW q,
         Held(in, b, i, m, q), b # <<>>, m = End(in, i - 1), End(in, i) <= q
  PROVE  SubSeq(b, 1, (End(in, i) - m) - 1) = Chars(i, in.lines[i])
<1> DEFINE e == End(in, i)
           F == Full(in)
           len == in.lines[i].len
           C == Chars(i, in.lines[i])
           c == SubSeq(b, 1, len)
<1>1. m \in Nat /\ q \in Nat /\ Len(b) \in Nat /\ Len(b) = q - m /\ i \in Nat \ {0}
  BY HeldNumbers
<1>2. i \in 1..Len(in.lines) /\ in.lines[i] \in Line
  BY HeldInLine
<1>3. len \in Nat /\ e = m + len + 1
  BY HeldInLine
<1>4. \A k \in Nat : m < k /\ k < e => F[k] = C[k - m]
  BY <1>2, LineChars
<1>5. C \in Seq(Int) /\ Len(C) = len
  BY <1>1, <1>2, CharsType
<1>6. b[1] = F[m + 1] /\ \A k \in 2..Len(b) : b[k] = F[m + k]
  BY DEF Held
<1> HIDE DEF e, F, len, C
<1>7. len < Len(b) /\ (e - m) - 1 = len
  BY <1>1, <1>3 DEF e
<1>8. c \in Seq(Int) /\ Len(c) = len /\ \A k \in 1..len : c[k] = b[k]
  <2>1. 1 \in Int /\ len \in Int /\ (1 <= len \/ len = 0) /\ (len - 1) + 1 = len
    BY <1>3
  <2>2. ASSUME NEW k \in 1..len
        PROVE  b[k] \in Int /\ (1 + k) - 1 = k
    <3>1. k \in 1..Len(b)
      BY <1>1, <1>3, <1>7
    <3> QED
      BY <3>1, ElementOfSeq
  <2>3. /\ c \in Seq(Int) /\ Len(c) = IF 1 <= len THEN (len - 1) + 1 ELSE 0
        /\ \A k \in 1..((len - 1) + 1) : c[k] = b[(1 + k) - 1]
    BY <2>1, <2>2, SubSeqProperties
  <2> QED
    BY <2>1, <2>2, <2>3
<1> HIDE DEF c
<1>9. ASSUME NEW k \in 1..len
      PROVE  c[k] = C[k]
  <2>1. m + k \in Nat /\ m < m + k /\ m + k < e /\ (m + k) - m = k
    BY <1>1, <1>3
  <2>2. F[m + k] = C[k]
    BY <1>4, <2>1
  <2>3. b[k] = F[m + k]
    <3>1. k = 1 \/ k \in 2..Len(b)
      BY <1>1, <1>3, <1>7
    <3> QED
      BY <1>6, <3>1
  <2> QED
    BY <1>8, <2>2, <2>3
<1>10. c = C
  BY <1>5, <1>8, <1>9, SeqEqual
<1> QED
  BY <1>7, <1>10 DEF c, C, e

-----------------------------------------------------------------------------
(* The commands are those of the lines.                                    *)

\* The types of the variables At is about.
LEMMA AtTypes ==
  ASSUME InputInv
  PROVE  /\ input \in Inputs /\ text \in Seq(Int) /\ recv_buf \in Seq(Int)
         /\ Len(text) \in Nat /\ Len(recv_buf) \in Nat /\ Len(recv_buf) <= RECV_BUF
         /\ state_fn \in {"run", "end"} => recv_buf # <<>>
<1>1. input \in Inputs /\ text \in Seq(Int) /\ recv_buf \in Seq(Int) /\ Len(recv_buf) <= RECV_BUF
  BY DEF InputInv, TypeOK
<1>2. state_fn \in {"run", "end"} => line_len >= 1 /\ line_len <= Len(recv_buf)
  BY DEF InputInv
<1>3. line_len \in Nat
  BY SizesPositive DEF InputInv, TypeOK
<1>4. Len(<<>>) = 0
  BY EmptySeq
<1>5. Len(recv_buf) \in Nat
  BY <1>1, LenProperties
<1>6. state_fn \in {"run", "end"} => recv_buf # <<>>
  BY <1>2, <1>3, <1>4, <1>5
<1> QED
  BY <1>1, <1>5, <1>6, LenProperties

LEMMA OrderInit == Init => OrderInv
<1> SUFFICES ASSUME Init
             PROVE  OrderInv
  OBVIOUS
<1> DEFINE F == Full(input)
           z == Size(input)
<1>1. /\ input \in Inputs /\ text = Text(input) /\ recv_buf = <<>> /\ recv_fd = TRUE
      /\ recv_overflow = FALSE /\ state_fn = "next" /\ executed = <<>>
  BY Zenon DEF Init
<1>2. /\ F \in Seq(Int) /\ Len(F) \in Nat /\ z \in Nat /\ z <= Len(F)
      /\ text = SubSeq(F, 1, z)
  BY <1>1, TextShape, LinePlaces, LenProperties
<1>3. /\ End(input, 0) = 0 /\ Done(input, 0) = <<>> /\ Len(input.lines) \in Nat
      /\ 1 \in 1..(Len(input.lines) + 1) /\ 1 - 1 = 0 /\ Len(<<>>) = 0
  BY <1>1, LinePlaces, DoneTurns, InputFields, EmptySeq
<1> HIDE DEF F, z
<1>4. Len(text) = z /\ \A k \in 1..Len(text) : text[k] = F[k]
  <2>1. 1 \in Int /\ z \in Int /\ (1 <= z \/ z = 0) /\ (z - 1) + 1 = z
    BY <1>2
  <2>2. ASSUME NEW k \in 1..z
        PROVE  F[k] \in Int /\ (1 + k) - 1 = k
    <3>1. k \in 1..Len(F)
      BY <1>2
    <3> QED
      BY <1>2, <3>1, ElementOfSeq
  <2> DEFINE t == SubSeq(F, 1, z)
  <2>3. /\ Len(t) = IF 1 <= z THEN (z - 1) + 1 ELSE 0
        /\ \A k \in 1..((z - 1) + 1) : t[k] = F[(1 + k) - 1]
    BY <2>1, <2>2, SubSeqProperties
  <2> HIDE DEF t
  <2>4. Len(t) = z /\ \A k \in 1..z : t[k] = F[k]
    BY <2>1, <2>2, <2>3
  <2>5. t = text
    BY <1>2 DEF t
  <2> QED
    BY <2>4, <2>5
<1>5. Rest(input, text, 0)
  <2>1. /\ 0 <= z /\ z - 0 = z
        /\ \A k \in 1..Len(text) : 0 + k = k
    BY <1>2, <1>4
  <2> QED
    BY <1>4, <2>1 DEF Rest, F, z
<1>6. Held(input, <<>>, 1, 0, 0)
  BY <1>2, <1>3 DEF Held, F
<1>7. At(1, 0, 0)
  <2>1. Held(input, recv_buf, 1, 0, 0)
    BY <1>1, <1>6
  <2>2. executed = Done(input, 1 - 1) /\ 0 = End(input, 1 - 1)
    BY <1>1, <1>3
  <2>3. recv_fd /\ ~recv_overflow
    BY <1>1, Zenon
  <2>4. state_fn = "next"
    BY <1>1
  <2>5. state_fn \notin {"run", "end"} /\ state_fn # "end"
    BY <2>4
  <2> QED
    BY <1>5, <2>1, <2>2, <2>3, <2>5, Zenon DEF At
<1>8. 0 \in Nat /\ 1 \in Nat /\ state_fn \in {"next", "run", "end"}
  BY <1>1
<1> QED
  BY <1>7, <1>8, Zenon DEF OrderInv

\* Steps that leave all of it alone, and the one that finds the end of the input.
LEMMA OrderQuiet ==
  ASSUME NEW i, NEW m, NEW q, At(i, m, q),
         UNCHANGED <<input, text, recv_buf, recv_overflow, line_len, state_fn, executed>>,
         recv_fd' = recv_fd \/ Size(input) <= q
  PROVE  At(i, m, q)'
<1>1. ~recv_fd' => Size(input) <= q
  BY Zenon DEF At
<1> QED
  BY <1>1, Zenon DEF At

LEMMA OrderRead ==
  ASSUME InputInv, NEW i \in Nat, NEW m \in Nat, NEW q \in Nat, At(i, m, q), ctl_read_more
  PROVE  \E r \in Nat : At(i, m, r)'
<1>1. PICK n \in Readable : /\ recv_buf' = recv_buf \o SubSeq(text, 1, n)
                            /\ text' = SubSeq(text, n + 1, Len(text))
  BY DEF ctl_read_more
<1>2. /\ input \in Inputs /\ text \in Seq(Int) /\ recv_buf \in Seq(Int)
      /\ Len(text) \in Nat /\ Len(recv_buf) \in Nat /\ RECV_BUF \in Nat
  BY AtTypes, SizesPositive
<1>3. n \in 1..Len(text) /\ n \in Nat /\ q + n \in Nat /\ q <= q + n
  BY <1>2 DEF Readable, Room
<1>4. Held(input, recv_buf, i, m, q) /\ Rest(input, text, q)
  BY DEF At
<1>5. Held(input, recv_buf', i, m, q + n) /\ Rest(input, text', q + n)
  BY <1>1, <1>2, <1>3, <1>4, HeldRead
<1>6. /\ input' = input /\ recv_fd' = recv_fd /\ recv_overflow' = recv_overflow
      /\ line_len' = line_len /\ state_fn' = state_fn /\ executed' = executed
      /\ recv_fd
  BY DEF ctl_read_more
<1>7. state_fn \in {"run", "end"} => End(input, i) <= q + n
  <2> SUFFICES ASSUME state_fn \in {"run", "end"}
               PROVE  End(input, i) <= q + n
    OBVIOUS
  <2>1. End(input, i) <= q /\ i <= Len(input.lines)
    BY Zenon DEF At
  <2>2. End(input, i) \in Nat
    <3>1. i \in 1..(Len(input.lines) + 1) /\ Len(input.lines) \in Nat
      BY <1>2, <1>4, HeldNumbers
    <3>2. i \in 0..Len(input.lines)
      BY <2>1, <3>1
    <3> QED
      BY <1>2, <3>2, LinePlaces
  <2> QED
    BY <1>3, <2>1, <2>2
<1>8. At(i, m, q + n)'
  BY <1>5, <1>6, <1>7, Zenon DEF At
<1> QED
  BY <1>3, <1>8

\* A line that does not fit.
LEMMA OrderTooLong ==
  ASSUME InputInv, NEW i \in Nat, NEW m \in Nat, NEW q \in Nat, At(i, m, q), NextTooLong
  PROVE  At(i, q - 1, q)' /\ q - 1 \in Nat
<1>1. /\ input \in Inputs /\ recv_buf \in Seq(Int) /\ Len(recv_buf) \in Nat
      /\ RECV_BUF \in Nat
  BY AtTypes, SizesPositive
<1>2. Held(input, recv_buf, i, m, q) /\ Rest(input, text, q)
  BY DEF At
<1>3. Len(recv_buf) = RECV_BUF
  BY <1>1 DEF NextTooLong, Room
<1>4. \A k \in 1..Len(recv_buf) : recv_buf[k] # NL
  BY <1>1, FirstEolLeast DEF NextTooLong
<1>5. Held(input, SubSeq(recv_buf, 1, 1), i, q - 1, q) /\ End(input, i - 1) < q - 1
  BY <1>1, <1>2, <1>3, <1>4, HeldSkip
<1>6. /\ input' = input /\ text' = text /\ recv_fd' = recv_fd /\ recv_fd
      /\ line_len' = line_len /\ executed' = executed
      /\ recv_buf' = SubSeq(recv_buf, 1, 1)
      /\ state_fn' = state_fn /\ state_fn = "next"
  BY DEF NextTooLong, Iteration
<1>7. recv_overflow'
  BY Zenon DEF NextTooLong
<1>8. state_fn' \notin {"run", "end"} /\ state_fn' # "end" /\ state_fn \in {"next", "run"}
  BY <1>6
<1>9. executed = Done(input, i - 1)
  BY <1>8, Zenon DEF At
<1>10. At(i, q - 1, q)'
  BY <1>2, <1>5, <1>6, <1>7, <1>8, <1>9, Zenon DEF At
<1>11. q - 1 \in Nat
  BY <1>5 DEF Held
<1> QED
  BY <1>10, <1>11

\* Inputs whose last line ends as its lines are cut: a config file ends with a
\* newline, or has one line only (see DocFinalLine for the others).
Settled == \A in \in Inputs : in.append => in.final \/ Len(in.lines) <= 1

\* A line that is complete, or is completed at the end of the input.
LEMMA OrderLine ==
  ASSUME Settled, InputInv, NEW i \in Nat, NEW m \in Nat, NEW q \in Nat, At(i, m, q),
         NextLine
  PROVE  \E r \in Nat : At(i, m, r)'
<1>1. input \in Inputs /\ recv_buf \in Seq(Int) /\ Len(recv_buf) \in Nat
  BY AtTypes
<1>2. Held(input, recv_buf, i, m, q) /\ Rest(input, text, q)
  BY DEF At
<1>3. /\ input' = input /\ text' = text /\ recv_fd' = recv_fd
      /\ recv_overflow' = recv_overflow /\ executed' = executed
      /\ state_fn = "next" /\ state_fn' = "run"
  BY DEF NextLine, Iteration
<1>4. /\ executed = Done(input, i - 1)
      /\ recv_overflow => End(input, i - 1) < m
      /\ ~recv_overflow => m = End(input, i - 1)
      /\ ~recv_fd => Size(input) <= q
  BY <1>3, Zenon DEF At
<1>5. state_fn' # "end"
  BY <1>3
<1>6. /\ i \in 1..(Len(input.lines) + 1) /\ Len(input.lines) \in Nat
      /\ Len(recv_buf) = q - m
  BY <1>1, <1>2, HeldNumbers
<1>7. ASSUME AppendsNewline
      PROVE  At(i, m, q + 1)'
  <2>1. /\ ~recv_fd /\ recv_buf # <<>> /\ recv_buf[Len(recv_buf)] # NL /\ input.append
    BY <1>7 DEF AppendsNewline
  <2>2. input.final \/ Len(input.lines) <= 1
    BY <1>1, <2>1 DEF Settled
  <2>3. Size(input) <= q
    BY <1>4, <2>1, Zenon
  <2>4. /\ Held(input, Append(recv_buf, NL), i, m, q + 1)
        /\ i \in 1..Len(input.lines) /\ End(input, i) = q + 1
    BY <1>1, <1>2, <2>1, <2>2, <2>3, HeldAppend
  <2>5. recv_buf' = Append(recv_buf, NL) /\ line_len' = Len(recv_buf) + 1
    BY <1>7 DEF NextLine
  <2>6. line_len' = End(input, i) - m
    BY <1>6, <2>4, <2>5
  <2>7. i <= Len(input.lines) /\ End(input, i) <= q + 1
    BY <1>6, <2>4
  <2>8. /\ Size(input) \in Nat /\ Size(input) <= q + 1
        /\ Len(text) = 0
    BY <1>1, <1>2, <2>3, TextShape DEF Rest
  <2>9. Rest(input, text, q + 1)
    <3>1. (IF q + 1 <= Size(input) THEN Size(input) - (q + 1) ELSE 0) = 0
      BY <2>3, <2>8
    <3>2. 1..0 = {}
      OBVIOUS
    <3> QED
      BY <2>1, <2>8, <3>1, <3>2 DEF Rest
  <2> QED
    BY <1>3, <1>4, <1>5, <2>4, <2>5, <2>6, <2>7, <2>8, <2>9, Zenon DEF At
<1>8. ASSUME ~AppendsNewline
      PROVE  At(i, m, q)'
  <2>1. recv_buf' = recv_buf /\ line_len' = FirstEol /\ FirstEol > 0
    BY <1>8 DEF NextLine
  <2>2. /\ FirstEol \in 1..Len(recv_buf) /\ recv_buf[FirstEol] = NL
        /\ \A k \in 1..Len(recv_buf) : recv_buf[k] = NL => FirstEol <= k
    BY <1>1, <2>1, FirstEolLeast
  <2>3. recv_buf # <<>>
    BY <1>1, <2>2, EmptySeq
  <2>4. i \in 1..Len(input.lines) /\ End(input, i) \in Nat
    <3>1. i \in 1..Len(input.lines)
      BY <1>1, <1>2, <2>3, HeldInLine
    <3>2. i \in 0..Len(input.lines)
      BY <3>1
    <3> QED
      BY <1>1, <3>1, <3>2, LinePlaces
  <2>5. End(input, i) - m <= FirstEol
    BY <1>1, <1>2, <2>2, <2>3, HeldNewlines
  <2>6. End(input, i) <= q
    BY <1>1, <1>6, <2>2, <2>4, <2>5
  <2>7. End(input, i) - m \in 1..Len(recv_buf) /\ recv_buf[End(input, i) - m] = NL
    BY <1>1, <1>2, <2>3, <2>6, HeldNewlines
  <2>8. FirstEol <= End(input, i) - m
    BY <2>2, <2>7
  <2>9. line_len' = End(input, i) - m /\ i <= Len(input.lines)
    BY <1>1, <1>6, <2>1, <2>2, <2>4, <2>5, <2>8
  <2> QED
    BY <1>2, <1>3, <1>4, <1>5, <2>1, <2>6, <2>9, Zenon DEF At
<1>9. q + 1 \in Nat
  OBVIOUS
<1> QED
  BY <1>7, <1>8, <1>9

\* The command is taken off the buffer.
LEMMA OrderEnd ==
  ASSUME InputInv, NEW i \in Nat, NEW m \in Nat, NEW q \in Nat, At(i, m, q),
         ctl_state_end_command
  PROVE  \E n \in Nat : At(i + 1, n, q)'
<1>1. state_fn = "end" /\ state_fn' = "next"
  BY DEF ctl_state_end_command, Iteration
<1>2. input \in Inputs /\ recv_buf \in Seq(Int) /\ recv_buf # <<>>
  BY <1>1, AtTypes
<1>3. /\ Held(input, recv_buf, i, m, q) /\ Rest(input, text, q)
      /\ ~recv_fd => Size(input) <= q
      /\ i <= Len(input.lines) /\ End(input, i) <= q /\ line_len = End(input, i) - m
      /\ executed = Done(input, i) /\ ~recv_overflow /\ ~Exits(input.lines[i])
  BY <1>1, Zenon DEF At
<1>4. /\ input' = input /\ text' = text /\ recv_fd' = recv_fd
      /\ recv_overflow' = recv_overflow /\ executed' = executed
      /\ recv_buf' = SubSeq(recv_buf, line_len + 1, Len(recv_buf))
  BY DEF ctl_state_end_command
<1>5. Held(input, recv_buf', i + 1, End(input, i), q)
  BY <1>2, <1>3, <1>4, HeldCut
<1>6. (i + 1) - 1 = i /\ i + 1 \in Nat
  OBVIOUS
<1>7. state_fn' \notin {"run", "end"} /\ state_fn' # "end"
  BY <1>1
<1>8. End(input, i) \in Nat
  BY <1>5 DEF Held
<1>9. PICK n \in Nat : n = End(input, i)
  BY <1>8
<1>10. At(i + 1, n, q)'
  <2>1. /\ executed' = Done(input', (i + 1) - 1)
        /\ n = End(input', (i + 1) - 1)
    BY <1>3, <1>4, <1>6, <1>9
  <2>2. ~recv_overflow'
    BY <1>3, <1>4, Zenon
  <2>3. Held(input', recv_buf', i + 1, n, q)
    BY <1>4, <1>5, <1>9
  <2> QED
    BY <1>3, <1>4, <1>7, <2>1, <2>2, <2>3, Zenon DEF At
<1> QED
  BY <1>10

\* What a line that is being run is, and what the reference expects of it.
LEMMA RunFacts ==
  ASSUME InputInv, NEW i \in Nat, NEW m \in Nat, NEW q \in Nat, At(i, m, q),
         state_fn = "run"
  PROVE  /\ input \in Inputs /\ recv_buf \in Seq(Int) /\ recv_buf # <<>>
         /\ i \in 1..Len(input.lines) /\ i \in Nat \ {0}
         /\ input.lines[i] \in Line /\ input.lines[i].len \in Nat
         /\ m \in Nat /\ End(input, i - 1) <= m
         /\ recv_overflow => /\ RECV_BUF <= input.lines[i].len
                             /\ recv_buf[1] = (IF input.lines[i].kind = "comment" THEN -i ELSE i)
         /\ ~recv_overflow => /\ line_len = input.lines[i].len + 1
                              /\ input.lines[i].len < RECV_BUF
                              /\ input.lines[i].len > 0 =>
                                    recv_buf[1] = (IF input.lines[i].kind = "comment" THEN -i ELSE i)
                              /\ input.lines[i].len = 0 => recv_buf[1] = NL
                              /\ SubSeq(recv_buf, 1, line_len - 1) = Chars(i, input.lines[i])
         /\ i \in Effective(input)
         /\ Done(input, i - 1) \in Seq(Outcome(input))
         /\ Done(input, i) = executed \o Effect(i, input.lines[i])
         /\ Done(input, i) \in Prefixes(Expected(input))
<1> DEFINE p == End(input, i - 1)
           e == End(input, i)
           len == input.lines[i].len
           F == Full(input)
<1>1. /\ input \in Inputs /\ recv_buf \in Seq(Int) /\ recv_buf # <<>>
      /\ Len(recv_buf) \in Nat /\ Len(recv_buf) <= RECV_BUF /\ RECV_BUF \in Nat
      /\ RECV_BUF >= 2
  BY AtTypes, SizesPositive
<1>2. /\ Held(input, recv_buf, i, m, q) /\ Rest(input, text, q)
      /\ executed = Done(input, i - 1)
      /\ (recv_overflow => p < m) /\ (~recv_overflow => m = p)
      /\ e <= q /\ line_len = e - m
  BY Zenon DEF At
<1>3. /\ i \in 1..Len(input.lines) /\ input.lines[i] \in Line /\ len \in Nat
      /\ e = p + len + 1 /\ m < e /\ e <= Len(F)
  BY <1>1, <1>2, HeldInLine
<1>4. /\ p \in Nat /\ p <= m /\ Len(recv_buf) = q - m /\ q <= Len(F) /\ Len(F) \in Nat
      /\ i \in Nat \ {0} /\ Len(input.lines) \in Nat
  BY <1>1, <1>2, HeldNumbers
<1>5. /\ recv_buf[1] = F[p + 1] /\ (p < m => RECV_BUF <= len)
      /\ \A k \in 1..(i - 1) : ~Exits(input.lines[k])
  BY <1>1, <1>2 DEF Held
<1>6. /\ F[e] = NL
      /\ p + 1 < e => F[p + 1] = (IF input.lines[i].kind = "comment" THEN -i ELSE i)
  BY <1>1, <1>3, LineChars
<1>7. len > 0 => p + 1 < e
  <2> HIDE DEF p, e, len
  <2> QED
    BY <1>3, <1>4
<1>8. recv_overflow =>
         RECV_BUF <= len /\ recv_buf[1] = (IF input.lines[i].kind = "comment" THEN -i ELSE i)
  <2> SUFFICES ASSUME recv_overflow
               PROVE  RECV_BUF <= len /\ recv_buf[1] =
                        (IF input.lines[i].kind = "comment" THEN -i ELSE i)
    OBVIOUS
  <2>1. RECV_BUF <= len
    BY <1>2, <1>5
  <2>2. len > 0
    BY <1>1, <1>3, <2>1
  <2> QED
    BY <1>5, <1>6, <1>7, <2>1, <2>2
<1>9. ASSUME ~recv_overflow
      PROVE  /\ line_len = len + 1 /\ len < RECV_BUF
             /\ len > 0 => recv_buf[1] =
                   (IF input.lines[i].kind = "comment" THEN -i ELSE i)
             /\ len = 0 => recv_buf[1] = NL
             /\ SubSeq(recv_buf, 1, line_len - 1) = Chars(i, input.lines[i])
  <2>1. m = p
    BY <1>2, <1>9
  <2>2. line_len = len + 1 /\ len < RECV_BUF /\ (len = 0 => p + 1 = e)
    <3> HIDE DEF p, e, len
    <3> QED
      BY <1>1, <1>2, <1>3, <1>4, <2>1
  <2>3. SubSeq(recv_buf, 1, (e - m) - 1) = Chars(i, input.lines[i])
    BY <1>1, <1>2, <2>1, HeldText
  <2>4. SubSeq(recv_buf, 1, line_len - 1) = Chars(i, input.lines[i])
    BY <1>2, <2>3
  <2> QED
    BY <1>5, <1>6, <1>7, <2>2, <2>4
<1>10. i \in Effective(input)
  <2>1. ASSUME i = Len(input.lines)
        PROVE  input.final \/ input.append
    <3>1. e = Len(F)
      BY <1>1, <2>1, LinePlaces
    <3>2. Len(F) > 0 /\ q = Len(F)
      <4> HIDE DEF e, F, p, len
      <4>1. 0 < e /\ e = q
        BY <1>2, <1>3, <1>4, <3>1
      <4> QED
        BY <3>1, <4>1
    <3>3. F # <<>>
      BY <3>2, EmptySeq
    <3>4. ~input.final => Size(input) = Len(F) - 1
      BY <3>3 DEF Size
    <3>5. q <= Size(input) \/ input.append
      BY <1>2 DEF Rest
    <3>6. ~input.final => ~(q <= Size(input))
      BY <1>4, <3>2, <3>4
    <3> QED
      BY <3>5, <3>6
  <2> QED
    BY <1>3, <1>5, <2>1 DEF Effective
<1>11. /\ Done(input, i) = Done(input, i - 1) \o Adds(input, i)
       /\ Done(input, i - 1) \in Seq(Outcome(input))
       /\ Done(input, i) \in Prefixes(Expected(input))
  <2>1. i \in 0..Len(input.lines) /\ i - 1 \in 0..Len(input.lines)
    BY <1>3, <1>4
  <2> QED
    BY <1>1, <1>3, <2>1, DoneTurns
<1>12. Done(input, i) = executed \o Effect(i, input.lines[i])
  BY <1>2, <1>10, <1>11 DEF Adds
<1> QED
  BY <1>1, <1>3, <1>4, <1>8, <1>9, <1>10, <1>11, <1>12

\* A line that has been run, and that does not exit, stays where it is.
LEMMA OrderRan ==
  ASSUME NEW i, NEW m, NEW q, At(i, m, q), state_fn = "run", state_fn' = "end",
         UNCHANGED <<input, text, recv_buf, recv_fd, line_len>>,
         ~recv_overflow', executed' = Done(input, i), ~Exits(input.lines[i])
  PROVE  At(i, m, q)'
<1>1. state_fn' \notin {"next", "run"}
  OBVIOUS
<1>2. /\ Held(input, recv_buf, i, m, q) /\ Rest(input, text, q)
      /\ ~recv_fd => Size(input) <= q
      /\ i <= Len(input.lines) /\ End(input, i) <= q /\ line_len = End(input, i) - m
  BY Zenon DEF At
<1> QED
  BY <1>1, <1>2, Zenon DEF At

LEMMA OrderRunTooLong ==
  ASSUME InputInv, NEW i \in Nat, NEW m \in Nat, NEW q \in Nat, At(i, m, q), RunTooLong
  PROVE  At(i, m, q)'
<1> DEFINE line == input.lines[i]
<1>1. /\ state_fn = "run" /\ state_fn' = "end" /\ recv_overflow
      /\ executed' = IF IsComment THEN executed
                     ELSE Append(executed, <<"too long", recv_buf[1]>>)
      /\ UNCHANGED <<input, text, recv_buf, recv_fd, line_len>>
  BY DEF RunTooLong, Iteration
<1>2. ~recv_overflow'
  BY Zenon DEF RunTooLong
<1>3. /\ input \in Inputs /\ i \in 1..Len(input.lines) /\ i \in Nat \ {0} /\ line.len \in Nat
      /\ RECV_BUF <= line.len
      /\ recv_buf[1] = (IF line.kind = "comment" THEN -i ELSE i)
      /\ Done(input, i) = executed \o Effect(i, line)
  BY <1>1, RunFacts
<1>4. executed \in Seq(Outcome(input))
  BY <1>1, RunFacts DEF At
<1>5. RECV_BUF \in Nat /\ RECV_BUF >= 2
  BY SizesPositive
<1>6. ~Exits(line)
  BY <1>3, <1>5 DEF Exits
<1>7. CASE line.kind = "comment"
  <2>1. IsComment /\ Effect(i, line) = <<>>
    BY <1>3, <1>7 DEF IsComment, Effect
  <2>2. executed' = Done(input, i)
    BY <1>1, <1>3, <1>4, <2>1, ConcatEmptySeq
  <2> QED
    BY <1>1, <1>2, <1>6, <2>2, OrderRan
<1>8. CASE line.kind # "comment"
  <2>1. ~IsComment /\ recv_buf[1] = i
    BY <1>3, <1>8 DEF IsComment
  <2>2. Effect(i, line) = << <<"too long", i>> >>
    <3>1. ~(line.len = 0 \/ line.kind = "comment") /\ line.len >= RECV_BUF
      BY <1>3, <1>5, <1>8
    <3> QED
      BY <3>1, Zenon DEF Effect
  <2>3. <<"too long", i>> \in Outcome(input)
    BY <1>3, Zenon DEF Outcome
  <2>4. executed' = Append(executed, <<"too long", i>>)
    BY <1>1, <2>1
  <2>5. executed' = Done(input, i)
    BY <1>3, <1>4, <2>2, <2>3, <2>4, AppendIsConcat
  <2> QED
    BY <1>1, <1>2, <1>6, <2>5, OrderRan
<1> QED
  BY <1>7, <1>8

LEMMA OrderRunIgnored ==
  ASSUME InputInv, NEW i \in Nat, NEW m \in Nat, NEW q \in Nat, At(i, m, q), RunIgnored
  PROVE  At(i, m, q)'
<1> DEFINE line == input.lines[i]
<1>1. /\ state_fn = "run" /\ state_fn' = "end" /\ ~recv_overflow
      /\ IsBlank \/ IsComment
      /\ UNCHANGED <<input, text, recv_buf, recv_fd, recv_overflow, line_len, executed>>
  BY DEF RunIgnored, Iteration
<1>2. ~recv_overflow'
  BY <1>1, Zenon
<1>3. /\ i \in Nat \ {0} /\ line.len \in Nat /\ line_len = line.len + 1
      /\ line.len > 0 => recv_buf[1] = (IF line.kind = "comment" THEN -i ELSE i)
      /\ line.len = 0 => recv_buf[1] = NL
      /\ Done(input, i) = executed \o Effect(i, line)
      /\ executed \in Seq(Outcome(input))
  BY <1>1, RunFacts DEF At
<1>4. line.len = 0 \/ line.kind = "comment"
  BY <1>1, <1>3 DEF IsBlank, IsComment, NL
<1>5. Effect(i, line) = <<>> /\ ~Exits(line)
  BY <1>4 DEF Effect, Exits
<1>6. executed' = Done(input, i)
  BY <1>1, <1>3, <1>5, ConcatEmptySeq
<1> QED
  BY <1>1, <1>2, <1>5, <1>6, OrderRan

LEMMA OrderRunCommand ==
  ASSUME InputInv, NEW i \in Nat, NEW m \in Nat, NEW q \in Nat, At(i, m, q), RunCommand
  PROVE  \/ state_fn' = "close" /\ executed' \in Prefixes(Expected(input'))
         \/ state_fn' = "end" /\ At(i, m, q)'
<1> DEFINE line == input.lines[i]
<1>1. /\ state_fn = "run" /\ ~recv_overflow /\ ~IsBlank /\ ~IsComment
      /\ executed' = Append(executed, SubSeq(recv_buf, 1, line_len - 1))
      /\ IF IsExit THEN state_fn' = "close" ELSE state_fn' = "end" /\ recv_fd' = recv_fd
      /\ UNCHANGED <<input, text, recv_buf, recv_overflow, line_len>>
  BY DEF RunCommand, Iteration
<1>2. ~recv_overflow'
  BY <1>1, Zenon
<1>3. /\ input \in Inputs /\ recv_buf \in Seq(Int) /\ recv_buf # <<>>
      /\ i \in 1..Len(input.lines) /\ i \in Nat \ {0}
      /\ line.len \in Nat /\ line_len = line.len + 1 /\ line.len < RECV_BUF
      /\ line.len > 0 => recv_buf[1] = (IF line.kind = "comment" THEN -i ELSE i)
      /\ SubSeq(recv_buf, 1, line_len - 1) = Chars(i, line)
      /\ Done(input, i) = executed \o Effect(i, line)
      /\ Done(input, i) \in Prefixes(Expected(input))
      /\ executed \in Seq(Outcome(input))
  BY <1>1, RunFacts DEF At
<1>4. line.len > 0 /\ line.kind # "comment" /\ recv_buf[1] = i
  BY <1>1, <1>3 DEF IsBlank, IsComment
<1>5. RECV_BUF \in Nat
  BY SizesPositive
<1>6. Effect(i, line) = << Chars(i, line) >>
  <2>1. ~(line.len = 0 \/ line.kind = "comment") /\ ~(line.len >= RECV_BUF)
    BY <1>3, <1>4, <1>5
  <2> QED
    BY <2>1, Zenon DEF Effect
<1>7. Chars(i, line) \in Outcome(input)
  BY <1>3, Zenon DEF Outcome
<1>8. executed' = Done(input, i)
  BY <1>1, <1>3, <1>6, <1>7, AppendIsConcat
<1>9. CASE IsExit
  BY <1>1, <1>3, <1>8, <1>9
<1>10. CASE ~IsExit
  <2>1. \A k \in 1..(line_len - 1) : recv_buf[k] # NL
    <3>1. Held(input, recv_buf, i, m, q) /\ line_len = End(input, i) - m
          /\ End(input, i) <= q
      BY <1>1, Zenon DEF At
    <3>2. /\ \A k \in 1..Len(recv_buf) : recv_buf[k] = NL => line_len <= k
          /\ line_len \in 1..Len(recv_buf)
      BY <1>3, <3>1, HeldNewlines
    <3>3. Len(recv_buf) \in Nat
      BY <1>3, LenProperties
    <3> QED
      BY <3>2, <3>3
  <2>2. ~Exits(line)
    BY <1>4, <1>10, <2>1 DEF IsExit, Exits
  <2> QED
    BY <1>1, <1>2, <1>8, <1>10, <2>2, OrderRan
<1> QED
  BY <1>9, <1>10

\* What has been executed in a state of the invariant.
LEMMA AtDone ==
  ASSUME InputInv, NEW i \in Nat, NEW m \in Nat, NEW q \in Nat, At(i, m, q),
         state_fn \in {"next", "run", "end"}
  PROVE  executed \in Prefixes(Expected(input))
<1>1. input \in Inputs
  BY AtTypes
<1>2. Held(input, recv_buf, i, m, q)
  BY Zenon DEF At
<1>3. /\ Len(input.lines) \in Nat /\ i \in 1..(Len(input.lines) + 1)
  BY <1>1, <1>2, InputFields DEF Held
<1>4. i - 1 \in 0..Len(input.lines)
  BY <1>3
<1>5. CASE state_fn \in {"next", "run"}
  <2>1. executed = Done(input, i - 1)
    BY <1>5, Zenon DEF At
  <2> QED
    BY <1>1, <1>4, <2>1, DoneTurns
<1>6. CASE state_fn = "end"
  <2>1. executed = Done(input, i) /\ i <= Len(input.lines)
    BY <1>6, Zenon DEF At
  <2>2. i \in 0..Len(input.lines)
    BY <1>3, <2>1
  <2> QED
    BY <1>1, <2>1, <2>2, DoneTurns
<1> QED
  BY <1>5, <1>6

LEMMA OrderInOrder == InputInv /\ OrderInv => CommandsInOrder
  BY AtDone DEF OrderInv, CommandsInOrder

\* A closing connection executes nothing more.
LEMMA OrderClosed ==
  ASSUME [Next]_vars, state_fn \in {"close", "free"}
  PROVE  /\ state_fn' \in {"close", "free"}
         /\ executed' = executed /\ input' = input
<1>1. CASE Read \/ NothingRead
  BY <1>1 DEF Read, ctl_read_more, ReadEOF, NothingRead
<1>2. CASE FindLine
  BY <1>2 DEF FindLine, NextTooLong, NextIncomplete, NextEnds, NextLine, Iteration
<1>3. CASE Run
  BY <1>3 DEF Run, RunTooLong, RunIgnored, RunCommand, Iteration
<1>4. CASE OutputBlocked
  BY <1>4 DEF OutputBlocked
<1>5. CASE ctl_state_end_command \/ ctl_state_close
  BY <1>5 DEF ctl_state_end_command, ctl_state_close, Iteration
<1>6. CASE Disconnected \/ UNCHANGED vars
  BY <1>6 DEF Disconnected, vars
<1> QED
  BY <1>1, <1>2, <1>3, <1>4, <1>5, <1>6 DEF Next

LEMMA OrderStep == Settled /\ InputInv /\ OrderInv /\ [Next]_vars => OrderInv'
<1> SUFFICES ASSUME Settled, InputInv, OrderInv, [Next]_vars
             PROVE  OrderInv'
  OBVIOUS
<1>1. CASE state_fn \in {"close", "free"}
  <2>1. executed \in Prefixes(Expected(input))
    BY <1>1 DEF OrderInv
  <2> QED
    BY <1>1, <2>1, OrderClosed DEF OrderInv
<1>2. CASE state_fn \in {"next", "run", "end"}
  <2>1. PICK i \in Nat, m \in Nat, q \in Nat : At(i, m, q)
    BY <1>2 DEF OrderInv
  <2>2. CASE ctl_read_more
    <3>1. state_fn' \in {"next", "run", "end"}
      BY <1>2, <2>2 DEF ctl_read_more
    <3>2. PICK r \in Nat : At(i, m, r)'
      BY <2>1, <2>2, OrderRead
    <3> QED
      BY <3>1, <3>2 DEF OrderInv
  <2>3. CASE ReadEOF
    <3>1. /\ UNCHANGED <<input, text, recv_buf, recv_overflow, line_len, state_fn, executed>>
          /\ text = <<>>
      BY <2>3 DEF ReadEOF
    <3>2. Rest(input, text, q) /\ input \in Inputs
      BY <2>1, AtTypes DEF At
    <3>3. Size(input) <= q
      <4>1. Len(text) = 0 /\ Size(input) \in Nat
        BY <3>1, <3>2, TextShape
      <4> QED
        BY <3>2, <4>1 DEF Rest
    <3>4. At(i, m, q)'
      BY <2>1, <3>1, <3>3, OrderQuiet
    <3> QED
      BY <1>2, <3>1, <3>4 DEF OrderInv
  <2>4. CASE NothingRead \/ NextIncomplete \/ OutputBlocked \/ Disconnected \/ UNCHANGED vars
    <3>1. UNCHANGED <<input, text, recv_buf, recv_fd, recv_overflow, line_len, state_fn,
                      executed>>
      BY <2>4 DEF NothingRead, NextIncomplete, OutputBlocked, Disconnected, vars
    <3>2. At(i, m, q)'
      BY <2>1, <3>1, OrderQuiet
    <3> QED
      BY <1>2, <3>1, <3>2 DEF OrderInv
  <2>5. CASE NextTooLong
    <3>1. state_fn' = "next"
      BY <2>5 DEF NextTooLong, Iteration
    <3>2. At(i, q - 1, q)' /\ q - 1 \in Nat
      BY <2>1, <2>5, OrderTooLong
    <3> QED
      BY <3>1, <3>2 DEF OrderInv
  <2>6. CASE NextEnds
    <3>1. state_fn' = "close" /\ executed' = executed /\ input' = input
      BY <2>6 DEF NextEnds
    <3>2. executed \in Prefixes(Expected(input))
      BY <1>2, <2>1, AtDone
    <3> QED
      BY <3>1, <3>2 DEF OrderInv
  <2>7. CASE NextLine
    <3>1. state_fn' = "run"
      BY <2>7 DEF NextLine
    <3>2. PICK r \in Nat : At(i, m, r)'
      BY <2>1, <2>7, OrderLine
    <3> QED
      BY <3>1, <3>2 DEF OrderInv
  <2>8. CASE RunTooLong
    <3>1. state_fn' = "end" /\ At(i, m, q)'
      BY <2>1, <2>8, OrderRunTooLong DEF RunTooLong
    <3> QED
      BY <3>1 DEF OrderInv
  <2>9. CASE RunIgnored
    <3>1. state_fn' = "end" /\ At(i, m, q)'
      BY <2>1, <2>9, OrderRunIgnored DEF RunIgnored
    <3> QED
      BY <3>1 DEF OrderInv
  <2>10. CASE RunCommand
    <3>1. \/ state_fn' = "close" /\ executed' \in Prefixes(Expected(input'))
          \/ state_fn' = "end" /\ At(i, m, q)'
      BY <2>1, <2>10, OrderRunCommand
    <3> QED
      BY <3>1 DEF OrderInv
  <2>11. CASE ctl_state_end_command
    <3>1. state_fn' = "next"
      BY <2>11 DEF ctl_state_end_command
    <3>2. PICK n \in Nat : At(i + 1, n, q)'
      BY <2>1, <2>11, OrderEnd
    <3>3. i + 1 \in Nat
      OBVIOUS
    <3> QED
      BY <3>1, <3>2, <3>3 DEF OrderInv
  <2>12. ~ctl_state_close
    BY <1>2 DEF ctl_state_close, Iteration
  <2> QED
    BY <2>2, <2>3, <2>4, <2>5, <2>6, <2>7, <2>8, <2>9, <2>10, <2>11, <2>12
    DEF Next, Read, FindLine, Run
<1> QED
  BY <1>1, <1>2 DEF OrderInv

\* However read() cuts the input, however few iterations of state_fn a turn of
\* ctl_run has and whenever the output blocks, ctl_state_next_command,
\* ctl_state_run_command and ctl_state_end_command execute the lines of the
\* input each whole, in order and once: for every size of recv_buf and every
\* input, of any number of lines of any length.  The inputs left out are the
\* config files of several lines whose last one lacks its newline, for which
\* DocFinalLine is violated.
THEOREM CommandsWhole == Settled => (Spec => []CommandsInOrder)
<1> SUFFICES ASSUME Settled
             PROVE  Spec => []CommandsInOrder
  OBVIOUS
<1>1. InputInv /\ OrderInv /\ [Next]_vars => OrderInv'
  BY OrderStep
<1>2. Spec => []OrderInv
  BY <1>1, OrderInit, InputKept, PTL DEF Spec
<1> QED
  BY <1>2, InputKept, OrderInOrder, PTL

=============================================================================
