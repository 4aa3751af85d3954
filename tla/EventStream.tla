----------------------------- MODULE EventStream ----------------------------
(***************************************************************************)
(* The event streams of the controllers (controller.c): the send buffer   *)
(* of each client of the pool, its flushing to a non-blocking descriptor, *)
(* the overflow flag, and the timeouts of ctl_run on a client that does   *)
(* not read.                                                               *)
(*                                                                         *)
(* A buffer is a sequence of units: an event of n units is n-1 units      *)
(* "part" and the unit "event" that holds its newline; the overflow line  *)
(* is one unit.  Time is relative: `late' is how long a client's write    *)
(* has been blocked, `sleep' how long select() may wait.                  *)
(*                                                                         *)
(* A client here has a send_fd of its own, or none (the config file); the *)
(* clients of the control socket, whose send_fd is also their recv_fd,    *)
(* are not modelled.                                                      *)
(***************************************************************************)
EXTENDS Integers, Sequences, SeqFilter

CONSTANTS
    CLIENTS,        \* CONTROLLER_MAX_CLIENTS
    SEND_BUF,       \* CONTROLLER_SEND_BUF_SIZE, in units
    LARGEST_WRITE,  \* CONTROLLER_LARGEST_WRITE, in units
    RECV_BUF,       \* commands that fill the receive buffer
    PIPE,           \* units the kernel holds for a client
    Lens,           \* the lengths of events
    Timeouts,       \* the <<reset, close>> pairs conn.event_timeout may set
    DEFAULT,        \* the pair ctl_ctor sets
    IDLE            \* the sleep of a loop with nothing to wait for; no
                    \* timeout is longer, and `late' counts no further

ASSUME EventStreamAssumption ==
    /\ CLIENTS \in Nat \ {0}
    /\ {SEND_BUF, LARGEST_WRITE, RECV_BUF, PIPE, IDLE} \subseteq Nat \ {0}
    /\ LARGEST_WRITE < SEND_BUF
    /\ Lens \subseteq 1..LARGEST_WRITE
    /\ DEFAULT \in Timeouts
    /\ \A t \in Timeouts : t \in Nat \X Nat /\ t[1] <= t[2] /\ t[2] <= IDLE

VARIABLES
    client,   \* the pool, with the kernel's and the client's end of each
    phase,    \* where the main loop is
    at,       \* the client ctl_run is at
    sleep     \* wake->next - wake->now

vars == <<client, phase, at, sleep>>

Client == 1..CLIENTS

Unit == {"part", "event", "overflow"}

NotBlocked == -1

\* state_fn is "free" (NULL), "command" or "close"; send_fd tells whether the
\* descriptor is open; input counts the commands in recv_buf.  On the other
\* side of the descriptor: pipe, what the kernel holds; hungup, the reader is
\* gone; eof, the client will send no more.  missed is history: an event was
\* given up since the last overflow line.
Controller ==
    [state_fn : {"free", "command", "close"}, send_fd : BOOLEAN,
     send_buf : Seq(Unit), send_overflow : BOOLEAN,
     timeout : Timeouts, late : NotBlocked..IDLE, wait : BOOLEAN,
     input : 0..RECV_BUF, eof : BOOLEAN,
     pipe : Seq(Unit), hungup : BOOLEAN, missed : BOOLEAN]

Free ==
    [state_fn |-> "free", send_fd |-> FALSE,
     send_buf |-> <<>>, send_overflow |-> FALSE,
     timeout |-> DEFAULT, late |-> NotBlocked, wait |-> FALSE,
     input |-> 0, eof |-> FALSE,
     pipe |-> <<>>, hungup |-> FALSE, missed |-> FALSE]

ctl_ctor(send_fd) ==
    [Free EXCEPT !.state_fn = "command", !.send_fd = send_fd]

Init ==
    /\ client = [c \in Client |-> IF c = 1 THEN ctl_ctor(TRUE) ELSE Free]
    /\ phase = "events"
    /\ at = 1
    /\ sleep = IDLE

-----------------------------------------------------------------------------
(* Writing and flushing: operators from a controller to the set of the    *)
(* controllers that may result, one for each amount the kernel may take.  *)

Line(n) == [i \in 1..n |-> IF i = n THEN "event" ELSE "part"]

\* Mutant: every write that blocks restarts the clock.
BlockedFor_again(late, n, all) == IF n = all THEN NotBlocked ELSE 0

\* send_blocked_ts after n units of all were written and, unless that was all,
\* the next write() failed with EAGAIN.
BlockedFor(late, n, all) ==
    IF n = all THEN NotBlocked
    ELSE IF n > 0 \/ late = NotBlocked THEN 0 ELSE late

\* The while loop of ctl_flush_outbuf.  The buffer ends with a newline
\* (WholeLines), so eol is its end.  A pipe takes the whole of a small write
\* or nothing, a socket takes what fits; write() then fails with EAGAIN.
WriteOut(k) ==
    IF k.send_buf = <<>> THEN {k}
    ELSE IF ~k.send_fd THEN {[k EXCEPT !.send_buf = <<>>]}
    ELSE IF k.hungup THEN {[k EXCEPT !.send_fd = FALSE]}
    ELSE LET room == PIPE - Len(k.pipe)
             all  == Len(k.send_buf)
         IN  {[k EXCEPT
                 !.pipe = @ \o SubSeq(k.send_buf, 1, n),
                 !.send_buf = SubSeq(@, n + 1, all),
                 !.late = BlockedFor(@, n, all)] :
                 n \in IF room >= all THEN {all} ELSE {0, room}}

\* ctl_flush_outbuf returned true.
Flushed(k) == k.send_buf = <<>> \/ ~k.send_fd

\* Mutant: the overflow line is never sent.
ctl_flush_outbuf_silent(k) ==
    {IF x.send_buf = <<>> THEN [x EXCEPT !.send_overflow = FALSE] ELSE x :
        x \in WriteOut(k)}

ctl_flush_outbuf(k) ==
    UNION {IF x.send_buf = <<>> /\ x.send_overflow
           THEN WriteOut([x EXCEPT !.send_buf = <<"overflow">>,
                                   !.send_overflow = FALSE,
                                   !.missed = FALSE])
           ELSE {x} : x \in WriteOut(k)}

Fits(k, n) == n < SEND_BUF - Len(k.send_buf)

\* Mutant: the newline of the event is not counted.
Queued_cut(k, n) == [k EXCEPT !.send_buf = @ \o SubSeq(Line(n), 1, n - 1)]

Queued(k, n) == [k EXCEPT !.send_buf = @ \o Line(n)]

GivenUp(k) == [k EXCEPT !.missed = k.send_fd]

\* An event for which flushing makes no room sets the overflow flag.  One
\* flush that makes progress leaves the kernel full or the buffer empty, so a
\* second makes none.
ctl_write(k, n) ==
    IF k.state_fn = "free" \/ ~k.send_fd \/ k.send_overflow THEN {GivenUp(k)}
    ELSE IF Fits(k, n) THEN {Queued(k, n)}
    ELSE {IF Len(x.send_buf) # Len(k.send_buf) /\ Fits(x, n)
          THEN Queued(x, n)
          ELSE [GivenUp(x) EXCEPT !.send_overflow = TRUE] :
             x \in ctl_flush_outbuf(k)}

Roomy(k) ==
    Len(k.send_buf) <= SEND_BUF - LARGEST_WRITE \/ k.send_overflow

\* The controllers ctl_out_buf_ready may leave when it returns ok.
ctl_out_buf_ready(k, ok) ==
    IF Roomy(k) THEN {x \in {k} : ok}
    ELSE {x \in ctl_flush_outbuf(k) : Flushed(x) = ok}

\* ctl_write(NULL, ...): every client is written to.
Broadcast(pool, n) ==
    {b \in [Client -> UNION {ctl_write(pool[c], n) : c \in Client}] :
        \A c \in Client : b[c] \in ctl_write(pool[c], n)}

-----------------------------------------------------------------------------
(* The main loop up to ctl_run.                                           *)

\* Services that change state, and fds: ctl_notify_svc_state and the like.
ctl_notify_svc_state(n) ==
    /\ phase = "events"
    /\ client' \in Broadcast(client, n)
    /\ UNCHANGED <<phase, at, sleep>>

\* ctl_new takes the first slot of the pool that is free.
ctl_new(send_fd) ==
    /\ phase = "events"
    /\ \E c \in Client :
          /\ client[c].state_fn = "free"
          /\ \A d \in 1..(c - 1) : client[d].state_fn # "free"
          /\ client' = [client EXCEPT ![c] = ctl_ctor(send_fd)]
    /\ UNCHANGED <<phase, at, sleep>>

CtlRun ==
    /\ phase = "events"
    /\ phase' = "enter"
    /\ at' = 1
    /\ UNCHANGED <<client, sleep>>

-----------------------------------------------------------------------------
(* The first loop of ctl_run, one client after the other.                 *)

this == client[at]

Becomes(k) == client' = [client EXCEPT ![at] = k]

NextClient(loop, next) ==
    IF at < CLIENTS THEN at' = at + 1 /\ phase' = loop
                    ELSE at' = 1 /\ phase' = next

\* More commands, or the end of the input, unless recv_buf is full.
ctl_read_more(k) ==
    IF k.state_fn # "command" \/ k.eof THEN {k}
    ELSE {[k EXCEPT !.input = n] : n \in k.input..RECV_BUF}
         \cup {x \in {[k EXCEPT !.eof = TRUE]} : k.input < RECV_BUF}

\* The client's turn: read, and flush if select() found the descriptor
\* writeable.
CtlTurn ==
    /\ phase = "enter"
    /\ \E x \in ctl_read_more(this) :
          \E y \in IF x.send_fd /\ x.wait THEN ctl_flush_outbuf(x) ELSE {x} :
             Becomes([y EXCEPT !.wait = FALSE])
    /\ phase' = "command"
    /\ UNCHANGED <<at, sleep>>

Turn == phase \in {"command", "ran"}

Command == Turn /\ this.state_fn = "command" /\ this.input > 0

\* ctl_state_run_command with a command that answers with an event.
CommandReplies(n) ==
    /\ Command
    /\ \E x \in ctl_out_buf_ready(this, TRUE) :
          \E y \in ctl_write([x EXCEPT !.input = @ - 1], n) : Becomes(y)
    /\ phase' = "ran"
    /\ UNCHANGED <<at, sleep>>

\* A command that changes something every controller is told of.
CommandBroadcasts(n) ==
    /\ Command
    /\ \E x \in ctl_out_buf_ready(this, TRUE) :
          client' \in Broadcast([client EXCEPT
                                    ![at] = [x EXCEPT !.input = @ - 1]], n)
    /\ phase' = "ran"
    /\ UNCHANGED <<at, sleep>>

ctl_cmd_event_pipe_timeout(t) ==
    /\ Command
    /\ \E x \in ctl_out_buf_ready(this, TRUE) :
          Becomes([x EXCEPT !.input = @ - 1, !.timeout = t])
    /\ phase' = "ran"
    /\ UNCHANGED <<at, sleep>>

\* The exit command, or the end of the input with no command left.
ctl_cmd_exit ==
    /\ Command
    /\ \E x \in ctl_out_buf_ready(this, TRUE) :
          Becomes([x EXCEPT !.state_fn = "close", !.eof = TRUE])
    /\ phase' = "ran"
    /\ UNCHANGED <<at, sleep>>

InputEnds ==
    /\ Turn /\ this.state_fn = "command"
    /\ this.input = 0 /\ this.eof
    /\ Becomes([this EXCEPT !.state_fn = "close"])
    /\ UNCHANGED <<phase, at, sleep>>

\* The output is blocked: the command waits in recv_buf.
CommandBlocked ==
    /\ Command
    /\ \E x \in ctl_out_buf_ready(this, FALSE) : Becomes(x)
    /\ NextClient("enter", "flush")
    /\ UNCHANGED sleep

\* ctl_state_close: flush what is left, then ctl_dtor and ctl_free.
ctl_state_close ==
    /\ Turn /\ this.state_fn = "close"
    /\ \E x \in IF this.send_fd THEN ctl_flush_outbuf(this) ELSE {this} :
          Becomes(IF Flushed(x) THEN Free ELSE x)
    /\ NextClient("enter", "flush")
    /\ UNCHANGED sleep

\* No (complete) command, a free slot, or the iterations of this turn, enough
\* for a command or more, are used up.
CtlYields ==
    /\ Turn
    /\ \/ this.state_fn = "free" /\ UNCHANGED sleep
       \/ this.state_fn = "command" /\ this.input = 0 /\ ~this.eof
          /\ UNCHANGED sleep
       \/ Command /\ phase = "ran" /\ sleep' = 0
    /\ UNCHANGED client
    /\ NextClient("enter", "flush")

-----------------------------------------------------------------------------
(* The second loop of ctl_run: flush everything and check the timeouts.   *)

Sooner(t) == sleep' = IF t < sleep THEN t ELSE sleep

\* A client that is still blocked after its flush.
ResetDue(x) == x.late >= x.timeout[1]

CloseDue(x) == x.late >= x.timeout[2]

\* Mutant: the deadline of a blocked client is not armed.
CheckTimeout_unarmed(x) ==
    IF CloseDue(x) THEN Becomes(Free) /\ UNCHANGED sleep
    ELSE Becomes([x EXCEPT !.wait = TRUE]) /\ UNCHANGED sleep

CheckTimeout(x) ==
    IF CloseDue(x) THEN Becomes(Free) /\ UNCHANGED sleep
    ELSE IF ResetDue(x) /\ x.input = RECV_BUF
    THEN Becomes([x EXCEPT !.send_overflow = TRUE, !.wait = TRUE]) /\ sleep' = 0
    ELSE /\ Becomes([x EXCEPT !.wait = TRUE])
         /\ Sooner(x.timeout[IF ResetDue(x) THEN 2 ELSE 1] - x.late)

CtlFlush ==
    /\ phase = "flush"
    /\ IF this.state_fn # "free" /\ this.send_fd /\ this.send_buf # <<>>
       THEN \E x \in ctl_flush_outbuf(this) :
               IF ~Flushed(x) THEN CheckTimeout(x)
               ELSE /\ Becomes(x)
                    /\ sleep' = IF x.input > 0 THEN 0 ELSE sleep
       ELSE UNCHANGED <<client, sleep>>
    /\ NextClient("flush", "select")

-----------------------------------------------------------------------------
(* select(), and the clients.                                             *)

Writeable(k) == k.wait /\ (k.hungup \/ Len(k.pipe) < PIPE)

Later(k, d) ==
    [k EXCEPT !.late = IF @ = NotBlocked THEN @
                       ELSE IF @ + d > IDLE THEN IDLE ELSE @ + d,
              !.wait = Writeable(k)]

\* select() returns at the deadline or before it, for any descriptor; the
\* process may be scheduled later than that.
Select(d) ==
    /\ phase = "select"
    /\ client' = [c \in Client |-> Later(client[c], d)]
    /\ phase' = "events"
    /\ sleep' = IDLE
    /\ UNCHANGED at

ClientReads(c) ==
    /\ client[c].pipe # <<>>
    /\ client' = [client EXCEPT ![c].pipe = Tail(@)]
    /\ UNCHANGED <<phase, at, sleep>>

ClientHangsUp(c) ==
    /\ client[c].send_fd /\ ~client[c].hungup
    /\ client' = [client EXCEPT ![c].hungup = TRUE, ![c].pipe = <<>>]
    /\ UNCHANGED <<phase, at, sleep>>

-----------------------------------------------------------------------------

Loop ==
    \/ CtlRun \/ CtlTurn
    \/ \E n \in Lens : CommandReplies(n) \/ CommandBroadcasts(n)
    \/ \E t \in Timeouts : ctl_cmd_event_pipe_timeout(t)
    \/ ctl_cmd_exit \/ InputEnds \/ CommandBlocked \/ ctl_state_close
    \/ CtlYields \/ CtlFlush
    \/ \E d \in 0..IDLE : Select(d)

Environment ==
    \/ \E n \in Lens : ctl_notify_svc_state(n)
    \/ \E send_fd \in BOOLEAN : ctl_new(send_fd)
    \/ \E c \in Client : ClientReads(c) \/ ClientHangsUp(c)

Next == Loop \/ Environment

Spec == Init /\ [][Next]_vars

\* The loop keeps running and time passes; clients owe nothing.
TimePasses == \E d \in 1..IDLE : Select(d)

FairSpec == Spec /\ WF_vars(Loop) /\ SF_vars(TimePasses)

-----------------------------------------------------------------------------
(* Properties.                                                            *)

\* Every variable has its type; a send buffer keeps room for a
\* terminating NUL.
TypeOK ==
    /\ client \in [Client -> Controller]
    /\ phase \in {"events", "enter", "command", "ran", "flush", "select"}
    /\ at \in Client
    /\ sleep \in 0..IDLE
    /\ \A c \in Client : Len(client[c].send_buf) < SEND_BUF

Unread(k) == k.pipe \o k.send_buf

\* A controller never sees a half event: in what it has still to read, the
\* beginning of an event is followed by its end, and the send buffer stops at
\* the end of a line (the comment in ctl_flush_outbuf about half-events).
WholeLines ==
    \A c \in Client :
        LET u == Unread(client[c])
        IN  u # <<>> /\ client[c].send_fd =>
                /\ u[Len(u)] # "part"
                /\ \A i \in 1..(Len(u) - 1) : u[i] = "part" => u[i + 1] # "overflow"

\* An overflow flag is always behind something in the send buffer: the flush
\* that empties the buffer is what turns the flag into the overflow line, and
\* only clients with something buffered are flushed.
OverflowBehindData ==
    \A c \in Client :
        client[c].send_fd /\ client[c].send_overflow => client[c].send_buf # <<>>

\* When the loop sleeps, a client whose buffer holds something is one it will
\* hear of in time: its write is known to be blocked, select() waits for the
\* descriptor, and the sleep ends by the client's close timeout.
BacklogServed ==
    phase = "select" =>
        \A c \in Client : client[c].send_fd /\ client[c].send_buf # <<>> =>
            /\ client[c].wait /\ client[c].late # NotBlocked
            /\ sleep <= client[c].timeout[2] - client[c].late

\* No event is lost silently, and what is queued is read in order: the
\* streams implement the queues of EventQueue.
Lines(k) == Filter(Unread(k), {"event", "overflow"})

Connected(k) == k.state_fn # "free" /\ k.send_fd /\ ~k.hungup

Queues == INSTANCE EventQueue WITH
    open <- [c \in Client |-> Connected(client[c])],
    stream <- [c \in Client |->
                  IF Connected(client[c]) THEN Lines(client[c]) ELSE <<>>],
    lost <- [c \in Client |-> Connected(client[c]) /\ client[c].missed]

ImplementsEventQueue == Queues!Spec

\* A client that missed an event is told, or disconnected, however slowly it
\* reads: an overflow line follows in its send buffer.
Uninformed(c) == client[c].send_fd /\ client[c].missed

OverflowReported == \A c \in Client : Uninformed(c) ~> ~Uninformed(c)

\* A slow or deaf client cannot hold up its own commands for ever: once the
\* services and the other clients are quiet, a command that waits is run, or
\* the connection closes.  (While events keep coming as fast as the client
\* reads them, the buffer may stay too full for a command, and neither timeout
\* applies.)
Disturbed(c) ==
    \E n \in Lens : ctl_notify_svc_state(n) \/ (at # c /\ CommandBroadcasts(n))

Waiting(c, n) == client[c].state_fn = "command" /\ client[c].input = n

CommandsProceed ==
    \A c \in Client : <>[][~Disturbed(c)]_vars =>
        \A n \in 1..RECV_BUF : Waiting(c, n) ~> ~Waiting(c, n)
=============================================================================
