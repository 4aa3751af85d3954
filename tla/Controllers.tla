---------------------------- MODULE Controllers -----------------------------
(***************************************************************************)
(* The pool of controllers (controller.c), the control socket             *)
(* (control-socket.c), the controller svc_do_fork creates for a service   *)
(* (service.c) and the one the process starts with (daemonproxy.c), with  *)
(* the descriptor numbers they receive, hand on and close.                *)
(*                                                                         *)
(* A turn of ctl_run makes at most nine calls of a client's state          *)
(* function before it goes on to the next client, so the calls of clients *)
(* interleave; the model has one action per call.  What commands do to    *)
(* descriptors is FdTable's; their input and output are CommandInput and  *)
(* EventStream: here input is a number of commands left, and output may   *)
(* be there at any time.                                                  *)
(***************************************************************************)
EXTENDS FdTable, Sequences

CONSTANTS
    CLIENTS,   \* CONTROLLER_MAX_CLIENTS
    ANC,       \* CONTROLLER_RECV_MAX_ANCILLARY_FD
    LEFT,      \* commands that may be buffered when the input ends
    Line,      \* what numbers are open for: the connection of each slot,
    Sent       \* and the descriptors that came with its input

ASSUME ControllersAssumption ==
    /\ CLIENTS \in Nat \ {0}
    /\ ANC \in Nat /\ LEFT \in Nat
    /\ Line \in Injection(1..CLIENTS, Use) /\ Sent \in Injection(1..CLIENTS, Use)
    /\ Range(Line) \cap Range(Sent) = {}
    /\ "control socket" \in Use \ (Range(Line) \cup Range(Sent))

VARIABLES
    client,           \* the pool
    control_socket,   \* the number that listens, or -1
    astray            \* whether a controller has closed, read or written a
                      \* number that was open for something else, or the
                      \* process has crashed: for the properties

ctlVars == <<client, control_socket, astray>>

Slot == 1..CLIENTS

\* memset in ctl_alloc: the numbers of a controller not yet constructed are 0.
\* The last field is for the properties: whether the controller was made to send
\* events and never to read commands.
Unbuilt ==
    [state |-> "free", recv |-> 0, send |-> 0, anc |-> <<>>, left |-> 0,
     eventsOnly |-> FALSE]

Vacant == [Unbuilt EXCEPT !.state = "none"]

\* ctl_ctor
Built(recv, send) ==
    [Unbuilt EXCEPT !.state = "next", !.recv = recv, !.send = send,
                    !.eventsOnly = recv = -1 /\ send >= 0]

\* ctl_alloc takes the first.
Vacancies == {i \in Slot : client[i].state = "none"}

ctl_alloc == Min(Vacancies)

\* Number n is open for something else than client i.
Foreign(f, i, n) == n >= 0 /\ f[n] \notin {"closed", Line[i], Sent[i]}

\* The control socket of --socket is opened at startup.
CtlInit ==
    /\ startup \in Starts
    /\ LET t == Started(startup)
           listens == startup.mode = "socket"
       IN  /\ control_socket = IF listens THEN Lowest(t.file) ELSE -1
           /\ file = IF listens THEN Opened(t.file, "control socket")
                     ELSE [n \in Num |-> IF n \in ClaimedNumbers THEN Line[1] ELSE t.file[n]]
           /\ obj = t.obj
           /\ log = t.log
    /\ client = [i \in Slot |->
                   IF i > 1 THEN Vacant
                   ELSE CASE startup.mode = "interactive" -> Built(0, 1)
                          [] startup.mode = "config"      -> Built(0, -1)
                          [] startup.mode = "socket"      -> Vacant]
    /\ astray = FALSE

-----------------------------------------------------------------------------
(* Building and destroying.                                               *)

\* Mutant: leftover ancillary descriptors are forgotten.
Destroyed_numbers_only(c) ==
    ({c.recv} \cup {c.send}) \ {-1}

\* The numbers ctl_dtor closes.
Destroyed(c) == ({c.recv, c.send} \ {-1}) \cup Range(c.anc)

ClosedAll(f, ns) == [n \in Num |-> IF n \in ns THEN "closed" ELSE f[n]]

\* ctl_dtor, which leaves a controller for ctl_state_free.
ctl_dtor(i) ==
    /\ file' = ClosedAll(file, Destroyed(client[i]))
    /\ astray' = (astray \/ \E n \in Destroyed(client[i]) : Foreign(file, i, n))

\* ctl_dtor on a controller that was never constructed, whose numbers are 0, and
\* ctl_free; f is the table ctl_dtor meets.
Undone(f) ==
    /\ file' = ClosedAll(f, Destroyed(Unbuilt))
    /\ astray' = (astray \/ \E n \in Destroyed(Unbuilt) : Foreign(f, ctl_alloc, n))
    /\ UNCHANGED <<obj, log, startup, client, control_socket>>

\* control_socket_run when a connection waits.  After a failed accept() the
\* controller is freed and then constructed with -1 for both numbers.
control_socket_run(accepted) ==
    /\ control_socket >= 0
    /\ Vacancies # {}
    /\ accepted => Unused(file) # {}
    /\ LET n == IF accepted THEN Lowest(file) ELSE -1
       IN  /\ client' = [client EXCEPT ![ctl_alloc] = Built(n, n)]
           /\ file' = IF accepted THEN Opened(file, Line[ctl_alloc]) ELSE file
    /\ UNCHANGED <<obj, log, startup, control_socket, astray>>

\* The connection is accepted and ctl_ctor fails: its number is closed again.
control_socket_run_fails ==
    /\ control_socket >= 0
    /\ Vacancies # {}
    /\ Unused(file) # {}
    /\ Undone(file)

\* svc_do_fork of a service that uses control.cmd, control.event or both; the
\* child's end is closed in the parent.  (If fork() fails, ctl_dtor closes
\* the other end too.)
svc_do_fork(cmd, event) ==
    /\ cmd \/ event
    /\ Vacancies # {}
    /\ Cardinality(Unused(file)) >= 2
    /\ client' = [client EXCEPT ![ctl_alloc] =
                    Built(IF cmd THEN Lowest(file) ELSE -1,
                          IF event THEN Lowest(file) ELSE -1)]
    /\ file' = Opened(file, Line[ctl_alloc])
    /\ UNCHANGED <<obj, log, startup, control_socket, astray>>

\* There are no numbers for a socket pair, or ctl_ctor fails: then the parent's
\* end stays open, unless it is number 0.
svc_do_fork_fails ==
    /\ Vacancies # {}
    /\ \/ Cardinality(Unused(file)) < 2 /\ Undone(file)
       \/ Cardinality(Unused(file)) >= 2 /\ Undone(Opened(file, Line[ctl_alloc]))

\* With a full pool svc_do_fork calls ctl_free(NULL), which writes through it:
\* the process crashes.
svc_do_fork_full ==
    /\ Vacancies = {}
    /\ astray' = TRUE
    /\ UNCHANGED <<fdVars, client, control_socket>>

\* socket.create: control_socket_start, which stops the old one first and
\* may fail afterwards.
ctl_cmd_socket_create(works) ==
    LET f == Closed(file, control_socket)
    IN  /\ works => Unused(f) # {}
        /\ control_socket' = IF works THEN Lowest(f) ELSE -1
        /\ file' = IF works THEN Opened(f, "control socket") ELSE f
        /\ UNCHANGED <<obj, log, startup, astray>>

ctl_cmd_socket_delete ==
    /\ control_socket >= 0
    /\ file' = Closed(file, control_socket)
    /\ control_socket' = -1
    /\ UNCHANGED <<obj, log, startup, astray>>

-----------------------------------------------------------------------------
(* Input, output and the state functions of client i.                     *)

\* ctl_read_more at the end of the input, or after an error.  Only the
\* receiving number is forgotten, also when the sending one is the same.
ctl_read_more(i, left) ==
    LET n == client[i].recv
    IN  /\ client[i].state = "next" /\ n >= 0
        /\ client' = [client EXCEPT ![i].recv = -1, ![i].left = left]
        /\ file' = Closed(file, n)
        /\ astray' = (astray \/ Foreign(file, i, n))
        /\ UNCHANGED <<obj, log, startup, control_socket>>

\* A descriptor comes with the input; there is room for ANC of them.
ctl_read_ancillary_fds(i) ==
    LET c == client[i]
    IN  /\ c.state = "next" /\ c.recv >= 0 /\ file[c.recv] = Line[i]
        /\ Unused(file) # {}
        /\ Len(c.anc) < ANC
        /\ file' = Opened(file, Sent[i])
        /\ client' = [client EXCEPT ![i].anc = Append(@, Lowest(file))]
        /\ UNCHANGED <<obj, log, startup, control_socket, astray>>

\* A command is run: there is input, or the rest of it.
Running(i) ==
    client[i].state = "next" /\ (client[i].recv >= 0 \/ client[i].left > 0)

\* ctl_state_end_command
CommandEnds(i) ==
    client' = [client EXCEPT ![i].left = IF client[i].recv >= 0 THEN 0 ELSE @ - 1]

ctl_cmd_fd_take(i, n) ==
    LET new == Head(client[i].anc)
        t   == IF Creatable(Table, {n})
               THEN fd_new_file([Table EXCEPT !.file[new] = n], n, new, FALSE)
               ELSE [Table EXCEPT !.file = Closed(@, new)]
    IN  /\ Running(i) /\ client[i].anc # <<>>
        /\ client' = [client EXCEPT ![i].anc = Tail(@),
                        ![i].left = IF client[i].recv >= 0 THEN 0 ELSE @ - 1]
        /\ Becomes(t)
        /\ UNCHANGED <<control_socket, astray>>

ctl_cmd_exit(i) ==
    /\ Running(i)
    /\ client' = [client EXCEPT ![i].recv = -1, ![i].left = 0, ![i].state = "close"]
    /\ file' = Closed(file, client[i].recv)
    /\ astray' = (astray \/ Foreign(file, i, client[i].recv))
    /\ UNCHANGED <<obj, log, startup, control_socket>>

\* Mutant: the number is closed and not forgotten.
Muted_remembered(c) == c

Muted(c) == [c EXCEPT !.send = -1]

\* ctl_flush_outbuf: written, or given up with the sending number closed.
ctl_flush_outbuf(i, works) ==
    LET n == client[i].send
    IN  /\ client[i].state # "none" /\ n >= 0
        /\ works => file[n] # "closed"
        /\ client' = IF works THEN client ELSE [client EXCEPT ![i] = Muted(@)]
        /\ file' = IF works THEN file ELSE Closed(file, n)
        /\ astray' = (astray \/ Foreign(file, i, n))
        /\ UNCHANGED <<obj, log, startup, control_socket>>

\* ctl_run: the output has been blocked for too long.
TimesOut(i) ==
    /\ client[i].state \in {"next", "close"} /\ client[i].send >= 0
    /\ ctl_dtor(i)
    /\ client' = [client EXCEPT ![i] = Vacant]
    /\ UNCHANGED <<obj, log, startup, control_socket>>

\* Mutant: only a controller that can still be written to is closed.
InputUsedUp_mute(i) ==
    /\ client[i].state = "next" /\ client[i].recv = -1 /\ client[i].left = 0
    /\ client[i].send >= 0
    /\ client' = [client EXCEPT ![i].state = "close"]
    /\ UNCHANGED <<file, obj, log, startup, control_socket, astray>>

\* ctl_state_next_command when all input is used up.
InputUsedUp(i) ==
    /\ client[i].state = "next" /\ client[i].recv = -1 /\ client[i].left = 0
    /\ client' = [client EXCEPT ![i].state = "close"]
    /\ UNCHANGED <<file, obj, log, startup, control_socket, astray>>

\* The output is flushed; ctl_dtor leaves the numbers in the controller.
ctl_state_close(i) ==
    /\ client[i].state = "close"
    /\ ctl_dtor(i)
    /\ client' = [client EXCEPT ![i].state = "free", ![i].anc = <<>>]
    /\ UNCHANGED <<obj, log, startup, control_socket>>

ctl_state_free(i) ==
    /\ client[i].state = "free"
    /\ client' = [client EXCEPT ![i] = Vacant]
    /\ UNCHANGED <<file, obj, log, startup, control_socket, astray>>

\* A command of client i that fails, or one on descriptors or on the control
\* socket.
Command(i) ==
    /\ Running(i)
    /\ CommandEnds(i)
    /\ \/ /\ \E n \in FdName : ctl_cmd_fd_open(n) \/ ctl_cmd_fd_delete(n)
          /\ UNCHANGED <<control_socket, astray>>
       \/ \E works \in BOOLEAN : ctl_cmd_socket_create(works)
       \/ ctl_cmd_socket_delete
       \/ UNCHANGED <<file, obj, log, startup, control_socket, astray>>

CtlStep(i) == InputUsedUp(i) \/ ctl_state_close(i) \/ ctl_state_free(i)

\* A number has been closed or used behind its owner's back, and what follows
\* depends on who owns it, or the process has crashed: the rest is left open.
GoneAstray == astray /\ UNCHANGED <<fdVars, ctlVars>>

CtlNext ==
    \/ GoneAstray
    \/ /\ ~astray
       /\ \/ \E accepted \in BOOLEAN : control_socket_run(accepted)
          \/ \E cmd, event \in BOOLEAN : svc_do_fork(cmd, event)
          \/ control_socket_run_fails
          \/ svc_do_fork_fails
          \/ svc_do_fork_full
          \/ \E i \in Slot :
                \/ CtlStep(i) \/ Command(i) \/ ctl_cmd_exit(i) \/ TimesOut(i)
                \/ \E left \in 0..LEFT : ctl_read_more(i, left)
                \/ ctl_read_ancillary_fds(i)
                \/ \E n \in FdName : ctl_cmd_fd_take(i, n)
                \/ \E works \in BOOLEAN : ctl_flush_outbuf(i, works)

CtlSpec == CtlInit /\ [][CtlNext]_<<fdVars, ctlVars>>

\* The main loop comes round, and a turn goes on with every client.  Output
\* that is in the way of closing is read, or blocked until it times out.
CtlFairness ==
    \A i \in Slot :
        /\ WF_<<fdVars, ctlVars>>(~astray /\ CtlStep(i))
        /\ WF_<<fdVars, ctlVars>>(~astray /\ client[i].left > 0 /\ Command(i))

CtlFairSpec == CtlSpec /\ CtlFairness

-----------------------------------------------------------------------------
(* Properties.                                                            *)

\* The numbers controller i has in its fields.
Numbers(i) ==
    CASE client[i].state = "none" -> {}
      [] client[i].state = "free" -> {client[i].recv, client[i].send} \ {-1}
      [] OTHER -> Destroyed(client[i])

\* Until a controller has gone astray, every number that is open has exactly
\* one holder - a name, a controller, the control socket - so that nothing
\* leaks whatever fails and whoever leaves, and no name loses its file.
NoDescriptorLost ==
    ~astray =>
      \A n \in Num :
        LET names   == {k \in DOMAIN obj : obj[k].num = n}
            holders == {i \in Slot : n \in Numbers(i) /\ ~Foreign(file, i, n)}
            one     == IF n = control_socket THEN 1 ELSE 0
        IN  /\ file[n] # "closed" => Cardinality(names) + Cardinality(holders) + one = 1
            /\ \A k \in names : file[n] \in {k, "null"}

\* A controller that has both directions names only descriptors of its own.
\* (One whose input or output has ended may have kept the number of the
\* other direction, which is closed and may be another's by now.)
WholeConnectionsAreOwn ==
    ~astray => \A i \in Slot :
        client[i].state = "next" /\ client[i].recv >= 0 /\ client[i].send >= 0 =>
            \A n \in Numbers(i) : file[n] # "closed" /\ ~Foreign(file, i, n)

\* A controller whose input has ended goes back to the pool, with no output
\* left or with none possible, also when it never had a connection because
\* accept() failed.  (One made for control.event alone has no input that could
\* end.  The code closes it all the same, in its first turn.)
SlotsComeBack ==
    \A i \in Slot :
        client[i].state # "none" /\ client[i].recv = -1 /\ ~client[i].eventsOnly ~>
            astray \/ client[i].state = "none"
=============================================================================
