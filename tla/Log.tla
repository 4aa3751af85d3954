-------------------------------- MODULE Log ---------------------------------
(***************************************************************************)
(* The log (log.c): one buffer, written to a named descriptor with        *)
(* writes that a timer breaks off, a count of lost messages, and the      *)
(* retries of log_run, called at the beginning and the end of every turn  *)
(* of the main loop.                                                       *)
(*                                                                         *)
(* The buffer is a sequence of units as in EventStream: "part", "event"   *)
(* for the unit that ends a message, "overflow" for the line that reports *)
(* the lost ones.  Times are relative to wake->now.  The descriptors the  *)
(* log is given one after the other are taken for one stream.             *)
(***************************************************************************)
EXTENDS Integers, Sequences, SeqFilter

CONSTANTS
    LOG_BUF,     \* sizeof(log_buffer), in units
    Sizes,       \* the sizes of messages, newline included
    MaxLost,     \* lost messages are counted up to this bound
    RETRY,       \* LOG_RETRY_DELAY
    SINK         \* units the descriptor holds before it blocks

ASSUME LogAssumption ==
    /\ {LOG_BUF, MaxLost, RETRY, SINK} \subseteq Nat \ {0}
    /\ LOG_BUF > 1
    /\ Sizes \subseteq Nat \ {0}

VARIABLES
    named,   \* whether the descriptor of log_dest_fd_name exists (at first
             \* there is no such name, and the log goes to descriptor 2)
    log,     \* the variables of log.c
    sink,    \* what the descriptor took and its reader has not read
    watch,   \* how select() will wake for the log: "no", "fd" or "timer"
    ready,   \* the descriptor's bit in fd_ready_write
    phase

vars == <<named, log, sink, watch, ready, phase>>

NoRetry == RETRY + 1

\* next_attempt is log_blocked_next_attempt - wake->now; -1 is past.
LogState ==
    [fd : BOOLEAN, buf : Seq({"part", "event", "overflow"}), lost : 0..MaxLost,
     blocked : BOOLEAN, next_attempt : -1..NoRetry]

Init ==
    /\ named = FALSE
    /\ log = [fd |-> TRUE, buf |-> <<>>, lost |-> 0, blocked |-> FALSE,
              next_attempt |-> NoRetry]
    /\ sink = <<>>
    /\ watch = "no"
    /\ ready = FALSE
    /\ phase = "begin"

-----------------------------------------------------------------------------
(* log_flush: from a log and its descriptor to what they become.          *)

Smaller(a, b) == IF a < b THEN a ELSE b

\* Mutant: whether the report fits is decided before the buffer has shrunk.
ReportLost_early(l, before) ==
    IF l.lost > 0 /\ 1 < LOG_BUF - before
    THEN [l EXCEPT !.buf = Append(@, "overflow"), !.lost = 0]
    ELSE l

\* After a write that made room, the line about the lost messages.
ReportLost(l, before) ==
    IF l.lost > 0 /\ 1 < LOG_BUF - Len(l.buf)
    THEN [l EXCEPT !.buf = Append(@, "overflow"), !.lost = 0]
    ELSE l

\* One round of the while loop.
Round(x) ==
    IF x.log.buf = <<>> \/ x.log.blocked THEN x
    ELSE IF Len(x.sink) = SINK THEN [x EXCEPT !.log.blocked = TRUE]
    ELSE LET all == Len(x.log.buf)
             n   == Smaller(SINK - Len(x.sink), all)
         IN  [log  |-> ReportLost([x.log EXCEPT !.buf = SubSeq(@, n + 1, all)], all),
              sink |-> x.sink \o SubSeq(x.log.buf, 1, n)]

\* The first round writes, the second writes the report or blocks, and the
\* third blocks if the report did not go out whole.
log_flush(l) ==
    IF ~l.fd \/ l.blocked THEN [log |-> l, sink |-> sink]
    ELSE Round(Round(Round([log |-> l, sink |-> sink])))

Becomes(x) == log' = x.log /\ sink' = x.sink

-----------------------------------------------------------------------------
(* The operations of the log.                                             *)

\* Mutant: one unit past the end of the buffer.
Fits_over(n) == n <= LOG_BUF - Len(log.buf) + 1

Fits(n) == n <= LOG_BUF - Len(log.buf)

Message(n) == [i \in 1..n |-> IF i = n THEN "event" ELSE "part"]

\* Mutant: messages are logged again before the lost ones are reported.
log_write_unmarked(n) ==
    /\ phase = "work"
    /\ IF ~Fits(n)
       THEN /\ log' = [log EXCEPT !.lost = Smaller(@ + 1, MaxLost)]
            /\ UNCHANGED sink
       ELSE Becomes(log_flush([log EXCEPT !.buf = @ \o Message(n)]))
    /\ UNCHANGED <<named, watch, ready, phase>>

log_write(n) ==
    /\ phase = "work"
    /\ IF log.lost > 0 \/ ~Fits(n)
       THEN /\ log' = [log EXCEPT !.lost = Smaller(@ + 1, MaxLost)]
            /\ UNCHANGED sink
       ELSE Becomes(log_flush([log EXCEPT !.buf = @ \o Message(n)]))
    /\ UNCHANGED <<named, watch, ready, phase>>

log_fd_reset(l) ==
    [l EXCEPT !.fd = FALSE, !.blocked = TRUE, !.next_attempt = NoRetry]

log_fd_attach(l) ==
    IF ~(l.fd \/ named)
    THEN [log |-> [l EXCEPT !.blocked = TRUE], sink |-> sink]
    ELSE log_flush([l EXCEPT !.fd = TRUE, !.blocked = FALSE, !.next_attempt = NoRetry])

\* log.dest: the log goes to another descriptor, or to none yet.
log_fd_set_name(exists) ==
    /\ phase = "work"
    /\ named' = exists
    /\ IF exists
       THEN Becomes(log_flush([log EXCEPT !.fd = TRUE, !.blocked = FALSE,
                                          !.next_attempt = NoRetry]))
       ELSE log' = log_fd_reset(log) /\ UNCHANGED sink
    /\ UNCHANGED <<watch, ready, phase>>

\* fd_delete of the descriptor the log uses, and fd_new of its name.
fd_delete ==
    /\ phase = "work" /\ (named \/ log.fd)
    /\ named' = FALSE
    /\ log' = IF log.fd THEN log_fd_reset(log) ELSE log
    /\ UNCHANGED <<sink, watch, ready, phase>>

fd_new ==
    /\ phase = "work" /\ ~named
    /\ named' = TRUE
    /\ UNCHANGED <<log, sink, watch, ready, phase>>

\* A blocked log is tried again when the descriptor is ready or the delay is
\* over; when that fails the delay decides.
TryAgain == ready \/ log.next_attempt < 0

Retried ==
    IF ~log.fd THEN log_fd_attach(log)
    ELSE IF log.blocked /\ TryAgain
    THEN LET x == log_flush([log EXCEPT !.blocked = FALSE,
                                        !.next_attempt = NoRetry])
         IN  IF x.log.blocked THEN [x EXCEPT !.log.next_attempt = RETRY] ELSE x
    ELSE [log |-> log, sink |-> sink]

\* Mutant: only a new delay is armed, not one that is still running.
Watch_new_delay(l) ==
    IF ~l.fd \/ ~l.blocked THEN watch
    ELSE IF l.next_attempt = NoRetry THEN "fd"
    ELSE IF l.next_attempt = RETRY THEN "timer" ELSE watch

\* A blocked log wakes the loop by its delay or by its descriptor.
Watch(l) ==
    IF ~l.fd \/ ~l.blocked THEN watch
    ELSE IF l.next_attempt = NoRetry THEN "fd" ELSE "timer"

log_run(from, to) ==
    /\ phase = from
    /\ Becomes(Retried)
    /\ watch' = Watch(Retried.log)
    /\ phase' = to
    /\ UNCHANGED <<named, ready>>

WorkDone ==
    /\ phase = "work"
    /\ phase' = "end"
    /\ UNCHANGED <<named, log, sink, watch, ready>>

-----------------------------------------------------------------------------
(* select(), and the reader of the log.                                   *)

Sooner(t, d) == IF t = NoRetry THEN t ELSE IF t - d < -1 THEN -1 ELSE t - d

\* An interrupted select() leaves every bit set.
Select(d) ==
    /\ phase = "select"
    /\ log' = [log EXCEPT !.next_attempt = Sooner(@, d)]
    /\ ready' \in {watch = "fd" /\ Len(sink) < SINK, watch = "fd"}
    /\ watch' = "no"
    /\ phase' = "begin"
    /\ UNCHANGED <<named, sink>>

SinkDrains ==
    /\ sink # <<>>
    /\ sink' = Tail(sink)
    /\ UNCHANGED <<named, log, watch, ready, phase>>

-----------------------------------------------------------------------------

Loop ==
    \/ log_run("begin", "work") \/ WorkDone \/ log_run("end", "select")
    \/ \E d \in 0..(RETRY + 1) : Select(d)

Work ==
    \/ \E n \in Sizes : log_write(n)
    \/ \E exists \in BOOLEAN : log_fd_set_name(exists)
    \/ fd_delete \/ fd_new

Next == Loop \/ Work \/ SinkDrains

Spec == Init /\ [][Next]_vars

\* The loop runs, time passes, and the reader of the log reads.
TimePasses == Select(RETRY + 1)

FairSpec == Spec /\ WF_vars(Loop) /\ SF_vars(TimePasses) /\ WF_vars(SinkDrains)

-----------------------------------------------------------------------------
(* Properties.                                                            *)

\* Every variable has its type, and the buffer is never overrun.
TypeOK ==
    /\ named \in BOOLEAN
    /\ log \in LogState
    /\ Len(log.buf) <= LOG_BUF
    /\ Len(sink) <= SINK
    /\ watch \in {"no", "fd", "timer"}
    /\ ready \in BOOLEAN
    /\ phase \in {"begin", "work", "end", "select"}

\* When the loop sleeps with the log blocked, something wakes it for the log:
\* the descriptor, or the delay of log_run.
BlockedWatched == phase = "select" /\ log.fd /\ log.blocked => watch # "no"

\* What was logged and not read, as lines.
Lines == Filter(sink \o log.buf, {"event", "overflow"})

\* Messages are written whole and in order, and lost ones are reported before
\* any later message: the log implements a queue of EventQueue.
Queue == INSTANCE EventQueue WITH
    Client <- {1},
    open <- [c \in {1} |-> TRUE],
    stream <- [c \in {1} |-> Lines],
    lost <- [c \in {1} |-> log.lost > 0]

ImplementsEventQueue == Queue!Spec

\* Once the descriptor stays, lost messages are reported and the log flows
\* again (t/282-log-blocked.t:41).
LogFlowsAgain == <>[]named => (log.lost > 0 ~> log.lost = 0)
=============================================================================
