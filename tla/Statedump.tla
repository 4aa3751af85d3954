----------------------------- MODULE Statedump ------------------------------
(***************************************************************************)
(* The statedump command (controller.c): one controller keeps a copy of   *)
(* the tables of descriptors and services from the events it reads, and   *)
(* asks for a dump when it starts and when it reads "overflow".  The dump *)
(* walks both tables in the order of names, stops wherever the output     *)
(* blocks, and goes on from a name, while other controllers and the       *)
(* services change the tables and their events go into the same stream.   *)
(*                                                                         *)
(* An event is one unit of the buffers.  Its text is reduced to the table,*)
(* the name, which of the lines of an entry it is and a value; a new      *)
(* entry has value 0 in every line.  Signals, the last part of a dump,    *)
(* are delivered as in Signals.                                           *)
(***************************************************************************)
EXTENDS Integers, Sequences, FiniteSets, FiniteSetsExt, SequencesExt, Functions

CONSTANTS
    Name,       \* from table ("fd", "svc") to its names, numbers in order
    LINES,      \* from table to the lines of an entry
    Value,      \* values of a line, 0 among them
    SEND_BUF,   \* events the send buffer holds
    PIPE,       \* events the kernel holds
    RECV_BUF,   \* commands that fill the receive buffer
    CHANGES     \* bounds the changes, the requests and the reset timeouts

Table == {"fd", "svc"}

Line(t) == 1..LINES[t]

ASSUME StatedumpAssumption ==
    /\ DOMAIN Name = Table /\ DOMAIN LINES = Table
    /\ \A t \in Table : Name[t] \subseteq Nat \ {0} /\ LINES[t] \in Nat \ {0}
    /\ 0 \in Value
    /\ {SEND_BUF, PIPE, RECV_BUF} \subseteq Nat \ {0}

VARIABLES
    table,      \* the entries that exist, with the values of their lines
    dump,       \* state_fn, statedump_current and command_substate
    out,        \* send_buf, the overflow flag, and what the kernel holds
    requests,   \* statedump commands not yet run
    mirror,     \* the client's copy of the tables
    silent,     \* history: the lines changed, and entries created (line 0),
                \* of which no event was written since
    disturbed   \* how often something has changed: for CHANGES

vars == <<table, dump, out, requests, mirror, silent, disturbed>>

New(t) == [l \in Line(t) |-> 0]

\* running: the state function is being executed.  Place 0 of entry 0 is
\* before the first entry.
Idle == [state_fn |-> "next", running |-> FALSE, current |-> 0, substate |-> 0]

Init ==
    /\ \E fds \in SUBSET Name["fd"], svcs \in SUBSET Name["svc"] :
          table = [fd |-> [n \in fds |-> New("fd")], svc |-> [n \in svcs |-> New("svc")]]
    /\ dump = Idle
    /\ out = [send_buf |-> <<>>, overflow |-> FALSE, pipe |-> <<>>]
    /\ requests = 1
    /\ mirror = [t \in Table |-> <<>>]
    /\ silent = {}
    /\ disturbed = 0

-----------------------------------------------------------------------------
(* The output.                                                            *)

Overflow == [table |-> "overflow"]

Event(t, n, l, v) == [table |-> t, name |-> n, line |-> l, value |-> v]

Deleted(t, n) == Event(t, n, 0, 0)

\* write(): what fits into the kernel.
WriteOut(o) ==
    LET n == Min({PIPE - Len(o.pipe), Len(o.send_buf)})
    IN  [o EXCEPT !.pipe = @ \o SubSeq(o.send_buf, 1, n),
                  !.send_buf = SubSeq(@, n + 1, Len(@))]

ctl_flush_outbuf(o) ==
    LET w == WriteOut(o)
    IN  IF w.send_buf = <<>> /\ w.overflow
        THEN WriteOut([w EXCEPT !.send_buf = <<Overflow>>, !.overflow = FALSE])
        ELSE w

Roomy(o) == Len(o.send_buf) < SEND_BUF

Queued(o, e) == [o EXCEPT !.send_buf = Append(@, e)]

\* An event for which flushing makes no room, and the ones after it, are
\* given up.
ctl_write(o, e) ==
    IF o.overflow THEN o
    ELSE IF Roomy(o) THEN Queued(o, e)
    ELSE LET f == ctl_flush_outbuf(o)
         IN  IF Roomy(f) THEN Queued(f, e) ELSE [f EXCEPT !.overflow = TRUE]

\* Whether there is room for the largest event, and what asking leaves.
ctl_out_buf_ready(o) ==
    Roomy(o) \/ o.overflow \/ ctl_flush_outbuf(o).send_buf = <<>>

Asked(o) == IF Roomy(o) \/ o.overflow THEN o ELSE ctl_flush_outbuf(o)

Heard(t, n, l) == silent \ {<<t, n, l>>, <<t, n, 0>>}

-----------------------------------------------------------------------------
(* The dump.                                                              *)

ctl_cmd_statedump ==
    /\ dump.state_fn = "next" /\ requests > 0
    /\ IF ctl_out_buf_ready(out)
       THEN dump' = [Idle EXCEPT !.state_fn = "fd"] /\ requests' = requests - 1
       ELSE UNCHANGED <<dump, requests>>
    /\ out' = Asked(out)
    /\ UNCHANGED <<table, mirror, silent, disturbed>>

\* Mutant: the nearest name is taken for the one before.
Following_nearest(t, n) ==
    LET above == {m \in DOMAIN table[t] : m > n}
    IN  IF n \in DOMAIN table[t] \/ n = 0 THEN above
        ELSE above \ {m \in above : \A k \in above : m <= k}

\* fd_iter_next and svc_iter_next: the entries still to come.
Following(t, n) == {m \in DOMAIN table[t] : m > n}

\* Mutant: after a stop the dump of a table starts again.
Resumed_anew(d) == [d EXCEPT !.running = TRUE, !.current = 0, !.substate = 0]

\* Entering ctl_state_dump_fds or ctl_state_dump_services: the entry where
\* the dump stopped may be gone.
Resumed(d) ==
    [d EXCEPT !.running = TRUE,
              !.substate = IF d.current \in DOMAIN table[d.state_fn] THEN @ ELSE 0]

DumpResumes ==
    /\ dump.state_fn \in Table /\ ~dump.running
    /\ dump' = Resumed(dump)
    /\ UNCHANGED <<table, out, requests, mirror, silent, disturbed>>

\* The loop arrives at an entry.
DumpAdvances ==
    /\ dump.running /\ dump.substate = 0
    /\ Following(dump.state_fn, dump.current) # {}
    /\ dump' = [dump EXCEPT !.current = Min(Following(dump.state_fn, @)), !.substate = 1]
    /\ UNCHANGED <<table, out, requests, mirror, silent, disturbed>>

\* One line of an entry.
DumpWrites ==
    LET t == dump.state_fn
        n == dump.current
        l == dump.substate
    IN  /\ dump.running /\ l # 0
        /\ ctl_out_buf_ready(out)
        /\ out' = ctl_write(Asked(out), Event(t, n, l, table[t][n][l]))
        /\ dump' = [dump EXCEPT !.substate = IF l < LINES[t] THEN l + 1 ELSE 0]
        /\ silent' = Heard(t, n, l)
        /\ UNCHANGED <<table, requests, mirror, disturbed>>

DumpBlocks ==
    /\ dump.running /\ dump.substate # 0
    /\ ~ctl_out_buf_ready(out)
    /\ out' = Asked(out)
    /\ dump' = [dump EXCEPT !.running = FALSE]
    /\ UNCHANGED <<table, requests, mirror, silent, disturbed>>

\* No entry is left: the services follow the fds.
DumpEnds ==
    /\ dump.running /\ dump.substate = 0
    /\ Following(dump.state_fn, dump.current) = {}
    /\ dump' = IF dump.state_fn = "fd" THEN [Idle EXCEPT !.state_fn = "svc"] ELSE Idle
    /\ UNCHANGED <<table, out, requests, mirror, silent, disturbed>>

Dump ==
    ctl_cmd_statedump \/ DumpResumes \/ DumpAdvances \/ DumpWrites \/ DumpBlocks
        \/ DumpEnds

-----------------------------------------------------------------------------
(* The rest of the program, while the dump waits: CHANGES bounds it.      *)

Disturbs == ~dump.running /\ disturbed < CHANGES /\ disturbed' = disturbed + 1

Put(t, n, l, v) ==
    [table EXCEPT ![t] = [m \in DOMAIN @ \cup {n} |->
        IF m # n THEN @[m]
        ELSE [(IF n \in DOMAIN @ THEN @[n] ELSE New(t)) EXCEPT ![l] = v]]]

\* A change every controller is told of: service.tags, args, fds, auto_up and
\* the fd commands create the entry; the state, line 1 of a service, only
\* changes.
Notify(t, n, l, v) ==
    /\ Disturbs
    /\ t = "svc" /\ l = 1 => n \in DOMAIN table[t]
    /\ table' = Put(t, n, l, v)
    /\ out' = ctl_write(out, Event(t, n, l, v))
    /\ silent' = Heard(t, n, l)
    /\ UNCHANGED <<dump, requests, mirror>>

\* fd.delete and service.delete
Delete(t, n) ==
    /\ Disturbs
    /\ n \in DOMAIN table[t]
    /\ table' = [table EXCEPT ![t] = Restrict(@, DOMAIN @ \ {n})]
    /\ out' = ctl_write(out, Deleted(t, n))
    /\ silent' = {x \in silent : x[1] # t \/ x[2] # n}
    /\ UNCHANGED <<dump, requests, mirror>>

\* service.fds and service.auto_up that fail after the service was created.
CreateSilently(n) ==
    /\ Disturbs
    /\ n \notin DOMAIN table["svc"]
    /\ table' = Put("svc", n, 1, 0)
    /\ silent' = silent \cup {<<"svc", n, 0>>}
    /\ UNCHANGED <<dump, out, requests, mirror>>

\* The interval of a service.auto_up that fails, and the end of a pipe whose
\* peer was deleted.
ChangeSilently(t, n, v) ==
    /\ Disturbs
    /\ n \in DOMAIN table[t]
    /\ table' = Put(t, n, LINES[t], v)
    /\ silent' = silent \cup {<<t, n, LINES[t]>>}
    /\ UNCHANGED <<dump, out, requests, mirror>>

\* The flush at the end of ctl_run.
CtlFlush ==
    /\ ~dump.running
    /\ out' = ctl_flush_outbuf(out)
    /\ UNCHANGED <<table, dump, requests, mirror, silent, disturbed>>

\* ctl_run: blocked for longer than the reset timeout, with recv_buf full.
ResetDue ==
    /\ Disturbs
    /\ requests >= RECV_BUF
    /\ ctl_flush_outbuf(out).send_buf # <<>>
    /\ out' = [ctl_flush_outbuf(out) EXCEPT !.overflow = TRUE]
    /\ UNCHANGED <<table, dump, requests, mirror, silent>>

-----------------------------------------------------------------------------
(* The client.  A command that has not been run serves as well as another.*)

Requested == requests' = IF requests < RECV_BUF THEN requests + 1 ELSE requests

\* reset(): the copy is started anew.
ClientAsks ==
    /\ disturbed < CHANGES /\ disturbed' = disturbed + 1
    /\ mirror' = [t \in Table |-> <<>>]
    /\ Requested
    /\ UNCHANGED <<table, dump, out, silent>>

\* process_event
Applied(e) ==
    [mirror EXCEPT ![e.table] =
        IF e.line = 0 THEN Restrict(@, DOMAIN @ \ {e.name})
        ELSE [m \in DOMAIN @ \cup {e.name} |->
                IF m # e.name THEN @[m]
                ELSE [(IF m \in DOMAIN @ THEN @[m] ELSE New(e.table))
                         EXCEPT ![e.line] = e.value]]]

ClientReads ==
    /\ out.pipe # <<>>
    /\ out' = [out EXCEPT !.pipe = Tail(@)]
    /\ IF Head(out.pipe) = Overflow
       THEN mirror' = [t \in Table |-> <<>>] /\ Requested
       ELSE mirror' = Applied(Head(out.pipe)) /\ UNCHANGED requests
    /\ UNCHANGED <<table, dump, silent, disturbed>>

-----------------------------------------------------------------------------

Changes ==
    \/ \E t \in Table : \E n \in Name[t] :
          \/ Delete(t, n)
          \/ \E v \in Value : \/ \E l \in Line(t) : Notify(t, n, l, v)
                              \/ ChangeSilently(t, n, v)
    \/ \E n \in Name["svc"] : CreateSilently(n)

Next == Dump \/ Changes \/ CtlFlush \/ ResetDue \/ ClientAsks \/ ClientReads

Spec == Init /\ [][Next]_vars

\* The loop runs and the client reads.
FairSpec == Spec /\ WF_vars(Dump) /\ WF_vars(CtlFlush) /\ WF_vars(ClientReads)

-----------------------------------------------------------------------------
(* Properties.                                                            *)

\* The client has all it asked for and has read all there is.
Quiescent ==
    /\ requests = 0 /\ dump.state_fn = "next"
    /\ out = [send_buf |-> <<>>, overflow |-> FALSE, pipe |-> <<>>]

\* A client that has read everything has an exact copy of both tables, but
\* for changes no event is written for: wherever dumps were interrupted,
\* whatever was changed, deleted or made again meanwhile, and although events
\* were given up.
CopyExact ==
    Quiescent =>
        \A t \in Table : \A n \in Name[t] :
            /\ <<t, n, 0>> \notin silent =>
                   (n \in DOMAIN table[t] <=> n \in DOMAIN mirror[t])
            /\ n \in DOMAIN table[t] \cap DOMAIN mirror[t] =>
                   \A l \in Line(t) :
                       <<t, n, l>> \notin silent => mirror[t][n][l] = table[t][n][l]

\* A client that keeps reading catches up once nothing changes any more, with
\* dumps that fill the buffer several times over, and after overflows.
CatchesUp == <>[]Quiescent
=============================================================================
