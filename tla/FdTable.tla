------------------------------ MODULE FdTable -------------------------------
(***************************************************************************)
(* The named descriptors (fd.c, the fd.* commands of controller.c) over    *)
(* the descriptor numbers the kernel hands out, lowest first; how startup  *)
(* and --daemonize register and move stdin, stdout and stderr              *)
(* (daemonproxy.c); and the number the log keeps of the descriptor it      *)
(* writes to (log.c).                                                      *)
(*                                                                         *)
(* An open file is known by what it was opened for: a name, "null" for     *)
(* /dev/null, or a use that has no name.  The two ends of a pipe know each *)
(* other as peers.  The lookup by name is ObjectTable's.                   *)
(***************************************************************************)
EXTENDS Integers, FiniteSets, FiniteSetsExt, Functions

CONSTANTS
    NUM,        \* descriptor numbers are 0..NUM-1 (RLIMIT_NOFILE)
    FD_LIMIT,   \* named descriptors the pool holds (fd_list_limit)
    FdName,     \* the names commands use
    Use,        \* what numbers may be open for that no name has
    Starts      \* the ways the process is started

\* The constants with no descriptor of their own outside a service.
Control == {"control.cmd", "control.event", "control.socket"}

\* The names register_open_fds gives to numbers 0, 1, 2, ...
Std == <<"stdin", "stdout", "stderr", "fd_3", "fd_4">>

ASSUME FdTableAssumption ==
    /\ NUM \in Nat /\ NUM > 4
    /\ FD_LIMIT \in Nat
    /\ FdName \cap (Control \cup {"none", "closed"}) = {}
    /\ Use \cap (FdName \cup Control \cup Range(Std) \cup {"null", "none", "closed"}) = {}
    /\ Starts \subseteq [open : SUBSET (0..3), daemonize : BOOLEAN,
                          mode : {"interactive", "config", "socket"}]
    /\ \A s \in Starts : s.mode = "config" => 0 \in s.open

VARIABLES
    file,     \* what each number is open for, or "closed"
    obj,      \* fd_list: from the names that exist to their fd_t
    log,      \* log_fd and log_dest_fd_name
    startup   \* how the process was started; constant afterwards

fdVars == <<file, obj, log, startup>>

Num == 0..(NUM - 1)

None == "none"

-----------------------------------------------------------------------------
(* The kernel's table.                                                    *)

Unused(f) == {n \in Num : f[n] = "closed"}

Lowest(f) == IF Unused(f) = {} THEN -1 ELSE Min(Unused(f))

\* open(), socket(), accept(), dup(): the lowest free number, or -1.
Opened(f, what) == IF Unused(f) = {} THEN f ELSE [f EXCEPT ![Lowest(f)] = what]

\* close(): -1 and numbers that are not open do no harm.
Closed(f, n) == IF n \in Num THEN [f EXCEPT ![n] = "closed"] ELSE f

-----------------------------------------------------------------------------
(* fd.c.  A table is a record of the variables its functions change.      *)

Fd(num, peer, const) == [num |-> num, peer |-> peer, is_const |-> const]

Table == [file |-> file, obj |-> obj, log |-> log]

\* log_fd_reset, when the descriptor that is closed is the log's.
Detached(l, n) == IF n >= 0 /\ l.fd = n THEN [l EXCEPT !.fd = -1] ELSE l

\* Mutant: the other end of the pipe keeps its pointer.
Unpeered_kept(o, n) == o

Unpeered(o, n) ==
    IF o[n].peer = None THEN o ELSE [o EXCEPT ![o[n].peer].peer = None]

\* Mutant: the log is not told that its descriptor goes away.
fd_delete_unlogged(t, n) ==
    [t EXCEPT !.obj = Restrict(Unpeered(@, n), DOMAIN @ \ {n}),
              !.file = Closed(@, t.obj[n].num)]

fd_delete(t, n) ==
    [t EXCEPT !.obj = Restrict(Unpeered(@, n), DOMAIN @ \ {n}),
              !.log = Detached(@, t.obj[n].num),
              !.file = Closed(@, t.obj[n].num)]

\* if (old) fd_delete(old)
Replaced(t, n) == IF n \in DOMAIN t.obj THEN fd_delete(t, n) ELSE t

\* The names may be given to new objects, which are allocated before the old
\* ones are deleted.
Creatable(t, names) ==
    /\ \A n \in names \cap DOMAIN t.obj : ~t.obj[n].is_const
    /\ Cardinality(DOMAIN t.obj) + Cardinality(names) <= FD_LIMIT

Put(t, n, fd) ==
    LET u == Replaced(t, n)
    IN  [u EXCEPT !.obj = [k \in DOMAIN @ \cup {n} |-> IF k = n THEN fd ELSE @[k]]]

fd_new_file(t, n, num, const) == Put(t, n, Fd(num, None, const))

\* Both old ones are deleted before the new ones are filled in.
fd_new_pipe(t, n1, num1, n2, num2) ==
    LET u == Replaced(Replaced(t, n1), n2)
    IN  Put(Put(u, n1, Fd(num1, n2, FALSE)), n2, Fd(num2, n1, FALSE))

-----------------------------------------------------------------------------
(* Startup.                                                               *)

\* fd_init_special_handles: /dev/null, and the constants without a number.
Special(t) ==
    LET null == fd_new_file([t EXCEPT !.file = Opened(@, "null")], "null",
                            Lowest(t.file), TRUE)
    IN  [null EXCEPT !.obj = [n \in DOMAIN @ \cup Control |->
                                IF n \in Control THEN Fd(-1, None, TRUE) ELSE @[n]]]

\* One round of register_open_fds.  For a standard number that is closed, or
\* is /dev/null's own, the name gets a copy of /dev/null; a later round may
\* find that copy open and give it another name.
Registered(t, i) ==
    IF t.file[i] # "closed" /\ i # t.obj["null"].num
    THEN fd_new_file(t, Std[i + 1], i, FALSE)
    ELSE IF i < 3
    THEN fd_new_file([t EXCEPT !.file = Opened(@, "null")], Std[i + 1],
                     Lowest(t.file), FALSE)
    ELSE t

\* Up to the highest number that can be open by then.
register_open_fds(t) ==
    Registered(Registered(Registered(Registered(Registered(t, 0), 1), 2), 3), 4)

fd_to_dev_null(t, n) ==
    [t EXCEPT !.file = Opened(@, "null"), !.obj[n].num = Lowest(t.file)]

\* One round of daemonize: the number goes unless something has claimed it.
LetGo(t, i) ==
    LET n == Std[i + 1]
        u == fd_to_dev_null(t, n)
    IN  IF t.obj[n].num = i THEN [u EXCEPT !.file = Closed(@, i)] ELSE t

daemonize(t) == LetGo(LetGo(LetGo(t, 0), 1), 2)

\* setup_interactive_mode and setup_config_file("-"): the controller has the
\* numbers, the names get copies of /dev/null.
Claimed(t, mode) ==
    CASE mode = "interactive" -> fd_to_dev_null(fd_to_dev_null(t, "stdin"), "stdout")
      [] mode = "config"      -> fd_to_dev_null(t, "stdin")
      [] mode = "socket"      -> t

\* The descriptors open at the start of main; setup_config_file insists on a
\* stdin.
Inherited(open) == [n \in Num |-> IF n \in open THEN Std[n + 1] ELSE "closed"]

\* --daemonize is ignored in interactive mode.
Daemonized(s) == s.daemonize /\ s.mode # "interactive"

Started(s) ==
    LET t0 == [file |-> Inherited(s.open), obj |-> <<>>,
               log |-> [fd |-> 2, name |-> None]]
        t1 == Claimed(register_open_fds(Special(t0)), s.mode)
    IN  IF Daemonized(s) THEN daemonize(t1) ELSE t1

\* register_open_fds fails the startup if the pool is too small.
ASSUME StartsAssumption ==
    \A s \in Starts : Cardinality(DOMAIN Started(s).obj) <= FD_LIMIT

\* What the controller started with the process has taken from the names.
ClaimedNumbers ==
    CASE startup.mode = "interactive" -> 0..1
      [] startup.mode = "config"      -> {0}
      [] startup.mode = "socket"      -> {}

FdInit ==
    /\ startup \in Starts
    /\ file = Started(startup).file
    /\ obj = Started(startup).obj
    /\ log = Started(startup).log

-----------------------------------------------------------------------------
(* The commands.  One that fails leaves everything as it was.             *)

Becomes(t) == file' = t.file /\ obj' = t.obj /\ log' = t.log /\ UNCHANGED startup

\* fd.pipe of two names.  A pipe takes two numbers; a pool without room for
\* both objects has them closed again.
ctl_cmd_fd_pipe(n1, n2) ==
    /\ Cardinality(Unused(file)) >= 2
    /\ Creatable(Table, {n1, n2})
    /\ LET f1 == Opened(file, n1)
       IN  Becomes(fd_new_pipe([Table EXCEPT !.file = Opened(f1, n2)],
                               n1, Lowest(file), n2, Lowest(f1)))

\* Mutant: the descriptor stays open when there is no object for it.
ctl_cmd_fd_open_leaky(n) ==
    LET t == [Table EXCEPT !.file = Opened(@, n)]
    IN  /\ Unused(file) # {}
        /\ Becomes(IF Creatable(t, {n}) THEN fd_new_file(t, n, Lowest(file), FALSE) ELSE t)

\* fd.open: opened, and closed again without an object for it.
ctl_cmd_fd_open(n) ==
    LET t == [Table EXCEPT !.file = Opened(@, n)]
    IN  /\ Unused(file) # {}
        /\ Becomes(IF Creatable(t, {n}) THEN fd_new_file(t, n, Lowest(file), FALSE)
                   ELSE [t EXCEPT !.file = Closed(@, Lowest(file))])

\* fd.socket: as fd.open, and closed again too if the socket cannot be bound,
\* listen or be made non-blocking.
ctl_cmd_fd_socket(n, ready) ==
    LET t == [Table EXCEPT !.file = Opened(@, n)]
    IN  /\ Unused(file) # {}
        /\ Becomes(IF ready /\ Creatable(t, {n}) THEN fd_new_file(t, n, Lowest(file), FALSE)
                   ELSE [t EXCEPT !.file = Closed(@, Lowest(file))])

ctl_cmd_fd_delete(n) ==
    /\ n \in DOMAIN obj /\ ~obj[n].is_const
    /\ Becomes(fd_delete(Table, n))

\* log.dest: log_fd_set_name, which attaches at once if the name exists.
ctl_cmd_log_dest(n) ==
    Becomes([Table EXCEPT
                !.log = [name |-> n, fd |-> IF n \in DOMAIN obj THEN obj[n].num ELSE -1]])

\* log_run: log_fd_attach, once the name exists again.
log_run ==
    /\ log.fd < 0 /\ log.name \in DOMAIN obj
    /\ Becomes([Table EXCEPT !.log.fd = obj[log.name].num])

FdNext ==
    \/ \E n1, n2 \in FdName : n1 # n2 /\ ctl_cmd_fd_pipe(n1, n2)
    \/ \E n \in FdName : \/ ctl_cmd_fd_open(n)
                         \/ \E ready \in BOOLEAN : ctl_cmd_fd_socket(n, ready)
                         \/ ctl_cmd_fd_delete(n)
                         \/ ctl_cmd_log_dest(n)
    \/ log_run

FdSpec == FdInit /\ [][FdNext]_fdVars

-----------------------------------------------------------------------------
(* Properties.                                                            *)

\* In a process started with stdin, stdout and stderr open, every number that
\* is open has one holder, and no holder's number is closed or open for
\* something else: a name, or the controller that claimed stdin.  (Otherwise
\* register_open_fds can give two names to one number.)
NumbersOwnedOnce ==
    0..2 \subseteq startup.open => \A n \in Num :
        LET names == {k \in DOMAIN obj : obj[k].num = n}
        IN  /\ Cardinality(names) + (IF n \in ClaimedNumbers THEN 1 ELSE 0) =
                  (IF file[n] = "closed" THEN 0 ELSE 1)
            /\ \A k \in names : file[n] \in {k, "null"}

\* The two ends of a pipe name each other or nobody: deleting or replacing
\* an end, or both, leaves no pointer to a deleted object.
PeersMutual ==
    \A n \in DOMAIN obj : obj[n].peer # None =>
        obj[n].peer \in DOMAIN obj /\ obj[obj[n].peer].peer = n

\* The number the log keeps is that of the descriptor log.dest named; before
\* the first log.dest it is 2, which is stderr unless --daemonize closed it.
LogFollowsName ==
    log.fd >= 0 =>
        IF log.name # None
        THEN log.name \in DOMAIN obj /\ obj[log.name].num = log.fd
        ELSE log.fd = 2 /\ (Daemonized(startup) \/ file[2] \in {"stderr", "null"})
=============================================================================
