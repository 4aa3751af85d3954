------------------------------- MODULE Launch -------------------------------
(***************************************************************************)
(* What a service is started with: the child of svc_do_fork gives itself  *)
(* the descriptors its service's fds variable names, as the table has     *)
(* them at that moment, and closes everything else (svc_do_exec).  The    *)
(* commands on descriptors and on the variables of the service come in    *)
(* any order before the start.                                            *)
(***************************************************************************)
EXTENDS FdTable, ServiceVars

CONSTANTS
    TextValue,   \* values of service.tags and service.args
    FdsValue     \* values of service.fds

VARIABLE last    \* the last value each variable was given: for the properties

vars == <<file, obj, log, startup, vars_buf, uses_control, last>>

Init ==
    /\ FdInit
    /\ VarsInit
    /\ last = [tags |-> <<>>, args |-> <<>>, fds |-> DefaultFds]

Next ==
    \/ FdNext /\ UNCHANGED <<vars_buf, uses_control, last>>
    \/ \E name \in {"tags", "args"}, value \in TextValue :
          /\ svc_set_text(name, value)
          /\ last' = [last EXCEPT ![name] = value]
          /\ UNCHANGED fdVars
    \/ \E value \in FdsValue :
          /\ svc_set_fds(value)
          /\ last' = [last EXCEPT !.fds = value]
          /\ UNCHANGED fdVars

Spec == Init /\ [][Next]_vars

-----------------------------------------------------------------------------
(* svc_do_fork and svc_do_exec, up to execvp.                             *)

\* The child's numbers, and the objects of its copy of the table.  With a
\* control descriptor there is a socket pair; the child closes the parent's
\* end and all three control names stand for its own.
Forked ==
    LET pair == Opened(Opened(file, "parent's end"), "socket")
        ours == Lowest(file)
        s    == Lowest(Opened(file, "parent's end"))
    IN  IF uses_control = {} THEN [file |-> file, obj |-> obj]
        ELSE [file |-> Closed(pair, ours),
              obj  |-> [n \in DOMAIN obj |->
                          IF n \in Control THEN [obj[n] EXCEPT !.num = s] ELSE obj[n]]]

\* The names in the fds variable; empty ones are ignored, "-" is closed.
FdNames ==
    LET spec == svc_get_fds(vars_buf)
        toks == SelectSeq(Tokens(spec, Whole(spec), TAB), LAMBDA t : t # <<>>)
    IN  [i \in DOMAIN toks |-> toks[i][1]]

\* fd_list, which is taken to have room for all of them.
Resolved(c) ==
    [i \in DOMAIN FdNames |-> IF FdNames[i] = "-" THEN -1 ELSE c.obj[FdNames[i]].num]

\* Mutant: descriptor 0 is left where it is.
InTheWay_positive(n, count) == n \in 1..(count - 1)

InTheWay(n, count) == n \in 0..(count - 1)

RECURSIVE MovedUp(_, _, _)

\* Every source below the slots is copied until its number is above them.
MovedUp(f, list, i) ==
    IF i > Len(list) THEN [file |-> f, list |-> list]
    ELSE IF ~InTheWay(list[i], Len(list)) THEN MovedUp(f, list, i + 1)
    ELSE MovedUp(Opened(f, f[list[i]]), [list EXCEPT ![i] = Lowest(f)], i)

\* dup2 into the slots one after the other, and close() of all the rest.
Arranged(f, list) ==
    LET Place(g, i) == [g EXCEPT ![i - 1] = IF list[i] >= 0 THEN g[list[i]] ELSE "closed"]
        slots == FoldLeft(Place, f, [i \in DOMAIN list |-> i])
    IN  [n \in Num |-> IF n < Len(list) THEN slots[n] ELSE "closed"]

\* A name that does not exist aborts the child, and so does a dup or dup2 of
\* a number that is not open.
Launchable ==
    \A i \in DOMAIN FdNames :
        FdNames[i] # "-" => /\ FdNames[i] \in DOMAIN obj
                            /\ LET n == Forked.obj[FdNames[i]].num
                               IN  n >= 0 => Forked.file[n] # "closed"

svc_do_exec ==
    LET m == MovedUp(Forked.file, Resolved(Forked), 1) IN Arranged(m.file, m.list)

-----------------------------------------------------------------------------
(* Properties.                                                            *)

\* A child that starts has, from 0 on, exactly the descriptors its service's
\* last service.fds named, each the file that has the name now (the socket
\* for control names), whatever numbers they had to be moved from and
\* whatever was set in between; everything else is closed.
ChildGetsNamed ==
    LET toks  == Tokens(last.fds, Whole(last.fds), TAB)
        names == SelectSeq(toks, LAMBDA t : t # <<>>)
        File(n) == IF n = "-" THEN "closed"
                   ELSE IF n \in Control THEN "socket"
                   ELSE file[obj[n].num]
    IN  Launchable =>
          svc_do_exec = [n \in Num |-> IF n < Len(names) THEN File(names[n + 1][1])
                                       ELSE "closed"]

\* The packed buffer reads back what was last set, for every order in which
\* variables are added, resized and removed, and holds nothing else.
VarsReadBack ==
    /\ \A name \in {"tags", "args"} :
          svc_get_var(vars_buf, name) =
              IF last[name] = <<>> THEN NoValue ELSE last[name]
    /\ svc_get_fds(vars_buf) = last.fds
    /\ Len(vars_buf) =
          MapThenSumSet(LAMBDA name :
                          LET v == svc_get_var(vars_buf, name)
                          IN  IF v = NoValue THEN 0 ELSE Len(v) + 3,
                        {"tags", "args", "fds"})
=============================================================================
