---------------------------- MODULE CommandInput ----------------------------
(***************************************************************************)
(* The command stream of one controller (controller.c): recv_buf, how it  *)
(* is filled by read(), cut into lines, and emptied by the states          *)
(* next_command, run_command and end_command, a few iterations per turn   *)
(* of ctl_run.                                                             *)
(*                                                                         *)
(* Line i of the input is a sequence of characters i, the first of them   *)
(* -i when the line is a comment; 0 is the newline.  The commands are     *)
(* told apart only as far as this module needs: exit closes the stream.   *)
(***************************************************************************)
EXTENDS Integers, Sequences

CONSTANTS
    RECV_BUF,     \* CONTROLLER_RECV_BUF_SIZE
    ITERATIONS,   \* calls of state_fn in one turn of ctl_run
    Inputs        \* the inputs: lines, whether the last has its newline, and
                  \* whether append_final_newline is set

ASSUME CommandInputAssumption ==
    /\ RECV_BUF \in Nat \ {0, 1}
    /\ ITERATIONS \in Nat \ {0}
    /\ Inputs \subseteq [lines : Seq([len : Nat, kind : {"command", "comment", "exit"}]),
                         final : BOOLEAN, append : BOOLEAN]

VARIABLES
    input,          \* what the client sends, a member of Inputs
    text,           \* the characters read() has still to deliver
    recv_buf,       \* recv_buf up to recv_buf_pos
    recv_fd,        \* whether the descriptor is open
    recv_overflow,  \* a line longer than the buffer is being skipped
    line_len,       \* length of the current command, newline included
    state_fn,
    j,              \* iterations left in this turn, 0 between turns
    executed        \* history: what the commands did, in order

vars == <<input, text, recv_buf, recv_fd, recv_overflow, line_len, state_fn,
          j, executed>>

NL == 0

Chars(i, line) ==
    [k \in 1..line.len |-> IF k = 1 /\ line.kind = "comment" THEN -i ELSE i]

\* The first n of a sequence of sequences put together, for every n.
Joined(ss) ==
    LET t[n \in 0..Len(ss)] == IF n = 0 THEN <<>> ELSE t[n - 1] \o ss[n]
    IN  t

\* The lines, each with its newline.
Lines(in) == [i \in 1..Len(in.lines) |-> Append(Chars(i, in.lines[i]), NL)]

Text(in) ==
    LET all == Joined(Lines(in))[Len(in.lines)]
    IN  IF in.final \/ all = <<>> THEN all ELSE SubSeq(all, 1, Len(all) - 1)

Init ==
    /\ input \in Inputs
    /\ text = Text(input)
    /\ recv_buf = <<>>
    /\ recv_fd = TRUE
    /\ recv_overflow = FALSE
    /\ line_len = 0
    /\ state_fn = "next"
    /\ j = 0
    /\ executed = <<>>

-----------------------------------------------------------------------------
(* A turn of ctl_run: ctl_read_more if there is something to read, then   *)
(* the state machine until a state returns false.                         *)

Room == RECV_BUF - Len(recv_buf)

\* Mutant: the room left in the buffer is not looked at.
Readable_ignores_fill == 1..(IF RECV_BUF < Len(text) THEN RECV_BUF ELSE Len(text))

\* How much one read() may deliver.
Readable == 1..(IF Room < Len(text) THEN Room ELSE Len(text))

StartTurn == j = 0 /\ state_fn # "free" /\ j' = ITERATIONS

ctl_read_more ==
    /\ StartTurn
    /\ recv_fd
    /\ \E n \in Readable :
          /\ recv_buf' = recv_buf \o SubSeq(text, 1, n)
          /\ text' = SubSeq(text, n + 1, Len(text))
    /\ UNCHANGED <<input, recv_fd, recv_overflow, line_len, state_fn, executed>>

\* read() returns 0: the descriptor is closed.
ReadEOF ==
    /\ StartTurn
    /\ recv_fd /\ text = <<>> /\ Room > 0
    /\ recv_fd' = FALSE
    /\ UNCHANGED <<input, text, recv_buf, recv_overflow, line_len, state_fn, executed>>

\* Nothing to read now, or no room.
NothingRead ==
    /\ StartTurn
    /\ UNCHANGED <<input, text, recv_buf, recv_fd, recv_overflow, line_len,
                   state_fn, executed>>

Iteration(fn, returns) ==
    /\ state_fn = fn
    /\ j > 0
    /\ j' = IF returns THEN j - 1 ELSE 0

-----------------------------------------------------------------------------
(* ctl_state_next_command.                                                *)

Newlines == {k \in 1..Len(recv_buf) : recv_buf[k] = NL}

\* memchr: the first newline of the buffer, 0 if there is none.
FirstEol ==
    IF Newlines = {} THEN 0
    ELSE CHOOSE k \in Newlines : \A m \in Newlines : k <= m

\* Mutant: the rest of a long line is taken for a command.
NextTooLong_unmarked ==
    /\ Iteration("next", TRUE)
    /\ FirstEol = 0 /\ recv_fd /\ Room = 0
    /\ recv_buf' = SubSeq(recv_buf, 1, 1)
    /\ UNCHANGED <<input, text, recv_fd, recv_overflow, line_len, state_fn, executed>>

\* A full buffer without a newline: skip the line, keep its first character.
NextTooLong ==
    /\ Iteration("next", TRUE)
    /\ FirstEol = 0 /\ recv_fd /\ Room = 0
    /\ recv_overflow' = TRUE
    /\ recv_buf' = SubSeq(recv_buf, 1, 1)
    /\ UNCHANGED <<input, text, recv_fd, line_len, state_fn, executed>>

NextIncomplete ==
    /\ Iteration("next", FALSE)
    /\ FirstEol = 0 /\ recv_fd /\ Room > 0
    /\ UNCHANGED <<input, text, recv_buf, recv_fd, recv_overflow, line_len,
                   state_fn, executed>>

\* At the end of the input a buffer that does not end with a newline gets one,
\* and the line then ends there.
AppendsNewline ==
    ~recv_fd /\ recv_buf # <<>> /\ recv_buf[Len(recv_buf)] # NL /\ input.append

\* Mutant: the end of the input ends the commands still in the buffer.
NextEnds_at_once ==
    /\ Iteration("next", TRUE)
    /\ ~recv_fd
    /\ recv_buf' = <<>>
    /\ state_fn' = "close"
    /\ UNCHANGED <<input, text, recv_fd, recv_overflow, line_len, executed>>

\* Nothing left, or a last line without a newline that is ignored.
NextEnds ==
    /\ Iteration("next", TRUE)
    /\ ~recv_fd /\ FirstEol = 0 /\ ~AppendsNewline
    /\ recv_buf' = <<>>
    /\ state_fn' = "close"
    /\ UNCHANGED <<input, text, recv_fd, recv_overflow, line_len, executed>>

\* A complete line.
NextLine ==
    /\ Iteration("next", TRUE)
    /\ FirstEol > 0 \/ AppendsNewline
    /\ IF AppendsNewline
       THEN recv_buf' = Append(recv_buf, NL) /\ line_len' = Len(recv_buf) + 1
       ELSE recv_buf' = recv_buf /\ line_len' = FirstEol
    /\ state_fn' = "run"
    /\ UNCHANGED <<input, text, recv_fd, recv_overflow, executed>>

-----------------------------------------------------------------------------
(* ctl_state_run_command and the states after it.                         *)

\* The output buffer is too full: here for a command's events, in
\* ctl_deliver_signals for the signals, in ctl_state_close for the rest.  The
\* config file, the one input that gets a final newline, has no output.
OutputBlocked ==
    /\ ~input.append
    /\ state_fn \in {"next", "run", "close"}
    /\ Iteration(state_fn, FALSE)
    /\ UNCHANGED <<input, text, recv_buf, recv_fd, recv_overflow, line_len,
                   state_fn, executed>>

IsComment == recv_buf[1] < 0

IsBlank == line_len = 1

\* Found by its name; a line with a newline inside is no known command.
IsExit ==
    /\ \A k \in 1..(line_len - 1) : recv_buf[k] # NL
    /\ input.lines[recv_buf[1]].kind = "exit"

\* The end of a line that was too long: an error, unless it is a comment.
RunTooLong ==
    /\ Iteration("run", TRUE)
    /\ recv_overflow
    /\ recv_overflow' = FALSE
    /\ executed' = IF IsComment THEN executed
                   ELSE Append(executed, <<"too long", recv_buf[1]>>)
    /\ state_fn' = "end"
    /\ UNCHANGED <<input, text, recv_buf, recv_fd, line_len>>

RunIgnored ==
    /\ Iteration("run", TRUE)
    /\ ~recv_overflow /\ (IsBlank \/ IsComment)
    /\ state_fn' = "end"
    /\ UNCHANGED <<input, text, recv_buf, recv_fd, recv_overflow, line_len, executed>>

RunCommand ==
    /\ Iteration("run", TRUE)
    /\ ~recv_overflow /\ ~IsBlank /\ ~IsComment
    /\ executed' = Append(executed, SubSeq(recv_buf, 1, line_len - 1))
    /\ IF IsExit THEN state_fn' = "close" /\ recv_fd' = FALSE
                 ELSE state_fn' = "end" /\ UNCHANGED recv_fd
    /\ UNCHANGED <<input, text, recv_buf, recv_overflow, line_len>>

ctl_state_end_command ==
    /\ Iteration("end", TRUE)
    /\ recv_buf' = SubSeq(recv_buf, line_len + 1, Len(recv_buf))
    /\ line_len' = 0
    /\ state_fn' = "next"
    /\ UNCHANGED <<input, text, recv_fd, recv_overflow, executed>>

\* ctl_dtor, and ctl_state_free right after it.
ctl_state_close ==
    /\ Iteration("close", FALSE)
    /\ state_fn' = "free"
    /\ UNCHANGED <<input, text, recv_buf, recv_fd, recv_overflow, line_len, executed>>

\* The connection is gone and its slot is free.
Disconnected == state_fn = "free" /\ UNCHANGED vars

-----------------------------------------------------------------------------

Read == ctl_read_more \/ ReadEOF

Run == RunTooLong \/ RunIgnored \/ RunCommand

FindLine == NextTooLong \/ NextIncomplete \/ NextEnds \/ NextLine

Next ==
    \/ Read \/ NothingRead
    \/ FindLine \/ Run \/ OutputBlocked
    \/ ctl_state_end_command \/ ctl_state_close \/ Disconnected

Spec == Init /\ [][Next]_vars

\* The main loop runs; input that is there is read in some turn; the output
\* is not blocked for ever (EventStream!CommandsProceed).
Fairness ==
    /\ WF_vars(Next)
    /\ SF_vars(Read)
    /\ SF_vars(FindLine)
    /\ SF_vars(Run)
    /\ SF_vars(ctl_state_close)

FairSpec == Spec /\ Fairness

-----------------------------------------------------------------------------
(* Properties.                                                            *)

\* Every variable has its type.  recv_buf never holds more than its size: the
\* newline appended at the end of the input too finds room (the comment in
\* ctl_state_next_command, "We know we can append because ...").
TypeOK ==
    /\ input \in Inputs
    /\ Len(recv_buf) <= RECV_BUF
    /\ recv_fd \in BOOLEAN
    /\ recv_overflow \in BOOLEAN
    /\ line_len \in 0..RECV_BUF
    /\ state_fn \in {"next", "run", "end", "close", "free"}
    /\ j \in 0..ITERATIONS

\* The reference: the lines of the input one by one, up to an exit.  A line
\* that does not fit is an error; comments and blank lines do nothing; a last
\* line without newline counts if append_final_newline is set.
Effect(i, line) ==
    IF line.len = 0 \/ line.kind = "comment" THEN <<>>
    ELSE IF line.len >= RECV_BUF THEN << <<"too long", i>> >>
    ELSE << Chars(i, line) >>

Exits(line) == line.kind = "exit" /\ line.len \in 1..(RECV_BUF - 1)

Effective(in) ==
    {i \in 1..Len(in.lines) :
        /\ \A k \in 1..(i - 1) : ~Exits(in.lines[k])
        /\ i = Len(in.lines) => in.final \/ in.append}

Effects(in) ==
    [i \in 1..Len(in.lines) |->
        IF i \in Effective(in) THEN Effect(i, in.lines[i]) ELSE <<>>]

Expected(in) == Joined(Effects(in))[Len(in.lines)]

Prefixes(s) == {SubSeq(s, 1, n) : n \in 0..Len(s)}

\* However read() cuts the input, however few iterations a turn has and
\* whenever the output blocks, the commands are those of the input's lines,
\* each whole, in order and once.
CommandsInOrder == executed \in Prefixes(Expected(input))

\* All of them are executed, and the connection is closed at the end.
AllExecuted == <>(state_fn = "free" /\ executed = Expected(input))

\* Of the last line of a config file, the comment in ctl_state_next_command:
\* "If last line missing newline, append newline and process command".
DocFinalLine == input.append => executed \in Prefixes(Expected(input))
=============================================================================
