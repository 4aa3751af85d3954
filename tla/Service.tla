------------------------------ MODULE Service ------------------------------
(***************************************************************************)
(* The supervisor core of daemonproxy: the service objects of service.c,   *)
(* the main loop of daemonproxy.c that drives them, the controller         *)
(* commands that act on services, and the operating system around them     *)
(* (child processes, pids, signals, the self-pipe, time).                  *)
(*                                                                         *)
(* The program is one thread.  Its loop is a cycle of phases:              *)
(*                                                                         *)
(*   drain -> merge -> reap -> wake -> services -> control -> select       *)
(*                                                                         *)
(* Children exit and signals arrive between any two steps.  Time is        *)
(* wake->now, which the loop reads once per iteration, when select()       *)
(* returns; it is counted in ticks, and 0 stands for "no time".            *)
(***************************************************************************)
EXTENDS Naturals, Integers, FiniteSets

CONSTANTS
  Svc,               \* the names a controller may give to services
  Pid,               \* the process ids of the operating system
  NoPid,             \* the pid 0 of a service that has no process
  NoSvc,             \* the owner of a child process no service started
  Sig,               \* the signals that may trigger a service
  Interval,          \* the MIN_INTERVAL values given to service.auto_up
  SVC_LIMIT,         \* svc_list_limit, the size of the service pool
  FORK_RETRY_DELAY,  \* delay before a failed fork is tried again
  IDLE_WAKE,         \* the 200 seconds after which select() always returns
  MaxTime,           \* bound: the last tick of a behaviour
  FreshPids          \* TRUE: fork() returns no pid another service still holds

ASSUME ServiceAssumption ==
  /\ NoPid \notin Pid
  /\ NoSvc \notin Svc
  /\ Interval \subseteq Nat \ {0}
  /\ SVC_LIMIT \in Nat
  /\ FORK_RETRY_DELAY \in Nat \ {0}
  /\ IDLE_WAKE \in Nat \ {0}
  /\ MaxTime \in Nat \ {0}
  /\ FreshPids \in BOOLEAN

VARIABLES
  phase,     \* where the main loop is
  now,       \* wake->now
  wakeNext,  \* wake->next, when select() must return
  svc,       \* the service objects, by name
  todo,      \* the services svc_run_active has still to run
  proc,      \* the child processes of daemonproxy, by pid
  owner,     \* the service each child was forked for
  pipe,      \* whether the signal self-pipe holds a byte
  woke,      \* woke_on_readable(sig_wake_rd)
  arrived,   \* new_signals: recorded by the handler, not merged yet
  pending,   \* signals: those with a nonzero count
  unseen,    \* the pending ones newer than svc_last_signal_ts
  reported,  \* history: the last service.state broadcast to controllers
  origin,    \* history: what scheduled, or cancelled, the service's start
  lastUp     \* history: when the service last came up (0: never)

osVars      == <<proc, owner>>
signalVars  == <<pipe, woke, arrived, pending, unseen>>
historyVars == <<reported, origin, lastUp>>
vars == <<phase, now, wakeNext, svc, todo, osVars, signalVars, historyVars>>

Phases  == {"drain", "merge", "reap", "wake", "services", "control", "select"}
States  == {"undef", "down", "start", "up", "reaped"}
Reports == {"none", "down", "start", "up", "deleted"}
Origins == {"none", "auto", "signal", "auto_up", "command", "cancel"}

\* struct service_s: the fields the state machine reads.  wait_status is -1
\* while nothing was reaped, and 0 stands for every status of waitpid.
Service ==
  [state : States, pid : Pid \cup {NoPid}, auto_restart : BOOLEAN,
   autostart_signals : SUBSET Sig, wait_status : {-1, 0}, start_time : Nat,
   reap_time : Nat, restart_interval : Nat, active : BOOLEAN]

\* The zeroed object of svc_ctor ("down"), and a name that has no object.
svc_ctor ==
  [state |-> "down", pid |-> NoPid, auto_restart |-> FALSE,
   autostart_signals |-> {}, wait_status |-> 0, start_time |-> 0,
   reap_time |-> 0, restart_interval |-> 0, active |-> FALSE]
NoService == [svc_ctor EXCEPT !.state = "undef"]

TypeOK ==
  /\ phase \in Phases
  /\ now \in Nat
  /\ wakeNext \in Nat
  /\ svc \in [Svc -> Service]
  /\ todo \in SUBSET Svc
  /\ proc \in [Pid -> {"none", "running", "zombie"}]
  /\ owner \in [Pid -> Svc \cup {NoSvc}]
  /\ pipe \in BOOLEAN
  /\ woke \in BOOLEAN
  /\ arrived \in SUBSET Sig
  /\ pending \in SUBSET Sig
  /\ unseen \in SUBSET pending
  /\ reported \in [Svc -> Reports]
  /\ origin \in [Svc -> Origins]
  /\ lastUp \in [Svc -> Nat]

Init ==
  /\ phase = "drain"
  /\ now = 1
  /\ wakeNext = 1 + IDLE_WAKE
  /\ svc = [s \in Svc |-> NoService]
  /\ todo = {}
  /\ proc = [p \in Pid |-> "none"]
  /\ owner = [p \in Pid |-> NoSvc]
  /\ pipe = FALSE
  /\ woke = FALSE
  /\ arrived = {}
  /\ pending = {}
  /\ unseen = {}
  /\ reported = [s \in Svc |-> "none"]
  /\ origin = [s \in Svc |-> "none"]
  /\ lastUp = [s \in Svc |-> 0]

-----------------------------------------------------------------------------
(***************************************************************************)
(* Operations on one service object r.                                     *)
(***************************************************************************)
Later(a, b)   == IF a > b THEN a ELSE b
Earlier(a, b) == IF a < b THEN a ELSE b

Startable(r) == r.state \in {"down", "start"}

\* The assignments of svc_handle_start once the state allows a start.
svc_handle_start(r, when) ==
  [r EXCEPT !.state = "start", !.start_time = Later(when, now), !.pid = NoPid,
            !.reap_time = 0, !.wait_status = -1, !.active = TRUE]

\* Mutant: the start time is kept.
svc_cancel_start_keep_time(r) ==
  [r EXCEPT !.state = "down", !.active = FALSE]

svc_cancel_start(r) ==
  [r EXCEPT !.state = "down", !.start_time = 0, !.active = FALSE]

\* Mutant: the state is left alone.
svc_handle_reaped_still_up(r) ==
  [r EXCEPT !.wait_status = 0, !.reap_time = now, !.active = TRUE]

svc_handle_reaped(r) ==
  [r EXCEPT !.wait_status = 0, !.state = "reaped", !.reap_time = now,
            !.active = TRUE]

\* Mutant: only signals that are new are looked at.
svc_check_sigwake_new(r) == r.autostart_signals \cap unseen # {}

\* sig_get_new_events from 0 yields every signal that is still pending.
svc_check_sigwake(r) == r.autostart_signals \cap pending # {}

Triggered(r) == r.auto_restart \/ svc_check_sigwake(r)

\* The STATE field ctl_notify_svc_state derives from the object's fields.
ctl_notify_svc_state(r) ==
  IF r.start_time = 0 THEN "down"
  ELSE IF r.start_time >= now /\ r.pid = NoPid THEN "start"
  ELSE IF r.reap_time = 0 THEN "up"
  ELSE "down"

-----------------------------------------------------------------------------
(***************************************************************************)
(* The operating system.                                                   *)
(***************************************************************************)

\* A process no service started becomes a child of daemonproxy, as orphans
\* do when it runs as init.  Its pid may be one that a service held and whose
\* process was reaped.
OrphanAdopted(p) ==
  /\ proc[p] = "none"
  /\ proc' = [proc EXCEPT ![p] = "running"]
  /\ owner' = [owner EXCEPT ![p] = NoSvc]
  /\ UNCHANGED <<phase, now, wakeNext, svc, todo, signalVars, historyVars>>

\* A child exits and SIGCHLD runs sig_handler_wake_only.
ChildExits(p) ==
  /\ proc[p] = "running"
  /\ proc' = [proc EXCEPT ![p] = "zombie"]
  /\ pipe' = TRUE
  /\ UNCHANGED <<phase, now, wakeNext, svc, todo, owner, woke, arrived, pending,
                 unseen, historyVars>>

\* sig_handler records a signal, then writes to the pipe.
SignalArrives(g) ==
  /\ arrived' = arrived \cup {g}
  /\ pipe' = TRUE
  /\ UNCHANGED <<phase, now, wakeNext, svc, todo, osVars, woke, pending, unseen,
                 historyVars>>

-----------------------------------------------------------------------------
(***************************************************************************)
(* One iteration of the main loop.                                         *)
(***************************************************************************)

\* sig_run empties the pipe when select() reported it readable ...
sig_run ==
  /\ phase = "drain"
  /\ pipe' = (pipe /\ ~woke)
  /\ phase' = "merge"
  /\ UNCHANGED <<now, wakeNext, svc, todo, osVars, woke, arrived, pending, unseen,
                 historyVars>>

\* ... and then merges what the handlers recorded, with signals blocked.
merge_new_signals ==
  /\ phase = "merge"
  /\ pending' = pending \cup arrived
  /\ unseen' = unseen \cup arrived
  /\ arrived' = {}
  /\ phase' = "reap"
  /\ UNCHANGED <<now, wakeNext, svc, todo, osVars, pipe, woke, historyVars>>

\* The services svc_by_pid may find: with two holders of one pid the shape
\* of the tree decides.
svc_by_pid(p) == {s \in Svc : svc[s].pid = p}

\* waitpid returned p: its zombie is gone, and the service found under the
\* pid is told if it is up.
ReapChild(p) ==
  /\ phase = "reap"
  /\ proc[p] = "zombie"
  /\ proc' = [proc EXCEPT ![p] = "none"]
  /\ owner' = [owner EXCEPT ![p] = NoSvc]
  /\ \/ /\ svc_by_pid(p) = {}
        /\ UNCHANGED <<svc, wakeNext>>
     \/ \E s \in svc_by_pid(p) :
          \/ /\ svc[s].state = "up"
             /\ svc' = [svc EXCEPT ![s] = svc_handle_reaped(@)]
             /\ wakeNext' = now
          \/ /\ svc[s].state # "up"
             /\ UNCHANGED <<svc, wakeNext>>
  /\ UNCHANGED <<phase, now, todo, signalVars, historyVars>>

\* Mutant: the pipe is emptied after the signals were merged.
ReapDone_late_drain ==
  /\ phase = "reap"
  /\ \A p \in Pid : proc[p] # "zombie"
  /\ pipe' = FALSE
  /\ phase' = "wake"
  /\ UNCHANGED <<now, wakeNext, svc, todo, osVars, woke, arrived, pending, unseen,
                 historyVars>>

\* waitpid found no zombie.
ReapDone ==
  /\ phase = "reap"
  /\ \A p \in Pid : proc[p] # "zombie"
  /\ phase' = "wake"
  /\ UNCHANGED <<now, wakeNext, svc, todo, osVars, signalVars, historyVars>>

\* The first half of svc_run_active: each signal newer than
\* svc_last_signal_ts starts the services it triggers, unless no service has
\* a signal trigger at all; then the active list is walked.
WakeBySignals ==
  LET woken == {s \in Svc : /\ svc[s].autostart_signals \cap unseen # {}
                            /\ Startable(svc[s])}
      svc2  == [s \in Svc |-> IF s \in woken THEN svc_handle_start(svc[s], now)
                              ELSE svc[s]]
  IN /\ phase = "wake"
     /\ svc' = svc2
     /\ reported' = [s \in Svc |-> IF s \in woken THEN ctl_notify_svc_state(svc2[s])
                                   ELSE reported[s]]
     /\ origin' = [s \in Svc |-> IF s \in woken THEN "signal" ELSE origin[s]]
     /\ wakeNext' = IF woken = {} THEN wakeNext ELSE now
     /\ unseen' = IF \E s \in Svc : svc[s].autostart_signals # {} THEN {} ELSE unseen
     /\ todo' = {s \in Svc : svc2[s].active}
     /\ phase' = "services"
     /\ UNCHANGED <<now, osVars, pipe, woke, arrived, pending, lastUp>>

\* Mutant: wake->next is not brought forward.
StartDeadline_late(s) == wakeNext

StartDeadline(s) == Earlier(wakeNext, svc[s].start_time)

\* svc_run, SVC_STATE_START before its time.
RunWaiting(s) ==
  /\ phase = "services" /\ s \in todo
  /\ svc[s].state = "start"
  /\ svc[s].start_time > now
  /\ wakeNext' = StartDeadline(s)
  /\ svc' = [svc EXCEPT ![s].active = TRUE]
  /\ todo' = todo \ {s}
  /\ UNCHANGED <<phase, now, osVars, signalVars, historyVars>>

\* A pid fork() may return: no process has it and, with FreshPids, no service
\* object still holds it.
FreePid(p) ==
  /\ proc[p] = "none"
  /\ FreshPids => \A s \in Svc : svc[s].pid # p

\* Mutant: the pid is not stored.
svc_change_pid_lost(r, p) == r

svc_change_pid(r, p) == [r EXCEPT !.pid = p]

\* svc_do_fork succeeds: the child runs for the service.  The controller it makes
\* for a service that uses control.socket is not part of this module.
svc_do_fork(s, p) ==
  /\ FreePid(p)
  /\ proc' = [proc EXCEPT ![p] = "running"]
  /\ owner' = [owner EXCEPT ![p] = s]

\* svc_run, SVC_STATE_START when due: svc_do_fork got the pid p.  The switch
\* falls through to SVC_STATE_UP, which takes the service off the active list
\* until waitpid reports the child.
RunForked(s, p) ==
  /\ phase = "services" /\ s \in todo
  /\ svc[s].state = "start"
  /\ svc[s].start_time <= now
  /\ svc_do_fork(s, p)
  /\ svc' = [svc EXCEPT ![s] = [svc_change_pid(@, p) EXCEPT
                                  !.start_time = now, !.state = "up", !.active = FALSE]]
  /\ reported' = [reported EXCEPT ![s] = ctl_notify_svc_state(svc'[s])]
  /\ lastUp' = [lastUp EXCEPT ![s] = now]
  /\ todo' = todo \ {s}
  /\ UNCHANGED <<phase, now, wakeNext, signalVars, origin>>

\* Mutant: the fork is tried again without a delay.
ForkRetry_at_once == now

ForkRetry == now + FORK_RETRY_DELAY

\* svc_run, SVC_STATE_START when due: svc_do_fork failed, and the start is
\* scheduled again.  The switch is re-entered, finds it is not due and leaves
\* wake->next, which is now already.
RunForkFailed(s) ==
  /\ phase = "services" /\ s \in todo
  /\ svc[s].state = "start"
  /\ svc[s].start_time <= now
  /\ svc' = [svc EXCEPT ![s] = svc_handle_start(@, ForkRetry)]
  /\ reported' = [reported EXCEPT ![s] = ctl_notify_svc_state(svc'[s])]
  /\ wakeNext' = now
  /\ todo' = todo \ {s}
  /\ UNCHANGED <<phase, now, osVars, signalVars, origin, lastUp>>

\* Mutant: the interval is not waited for.
RestartTime_at_once(r) == now

\* When a service that went down is started again by its own triggers.
RestartTime(r) ==
  IF r.reap_time - r.start_time < r.restart_interval
  THEN now + r.restart_interval
  ELSE now

\* svc_run, SVC_STATE_REAPED: while a trigger is true the service goes back to
\* START, otherwise it goes down and off the active list.  The switch is
\* re-entered: a start that is due is the next step of the service.
RunReaped(s) ==
  LET down == [svc[s] EXCEPT !.state = "down", !.active = FALSE]
      next == svc_handle_start(svc[s], RestartTime(svc[s]))
  IN /\ phase = "services" /\ s \in todo
     /\ svc[s].state = "reaped"
     /\ IF Triggered(svc[s])
        THEN /\ svc' = [svc EXCEPT ![s] = next]
             /\ origin' = [origin EXCEPT ![s] = "auto"]
             /\ wakeNext' = now
             /\ todo' = IF next.start_time <= now THEN todo ELSE todo \ {s}
        ELSE /\ svc' = [svc EXCEPT ![s] = down]
             /\ todo' = todo \ {s}
             /\ UNCHANGED <<origin, wakeNext>>
     /\ reported' = [reported EXCEPT ![s] = ctl_notify_svc_state(svc'[s])]
     /\ UNCHANGED <<phase, now, osVars, signalVars, lastUp>>

\* The active list has been walked.
ServicesDone ==
  /\ phase = "services" /\ todo = {}
  /\ phase' = "control"
  /\ UNCHANGED <<now, wakeNext, svc, todo, osVars, signalVars, historyVars>>

-----------------------------------------------------------------------------
(***************************************************************************)
(* Controller commands, run by ctl_run.  A command that is refused changes *)
(* nothing and is not a step.  The arguments of a service (service.args)   *)
(* are not kept: a service.start refused for want of them is a refusal     *)
(* like the others.                                                        *)
(***************************************************************************)
Exists(s) == svc[s].state # "undef"

\* svc_by_name(name, create): there is an object or there is room for one.
Allocatable(s) ==
  Exists(s) \/ Cardinality({x \in Svc : Exists(x)}) < SVC_LIMIT

\* The object svc_by_name(name, TRUE) returns.
FoundOrNew(s) == IF Exists(s) THEN svc[s] ELSE svc_ctor

\* service.args, service.tags or service.fds names a new service.
CreateService(s) ==
  /\ phase = "control"
  /\ ~Exists(s) /\ Allocatable(s)
  /\ svc' = [svc EXCEPT ![s] = svc_ctor]
  /\ UNCHANGED <<phase, now, wakeNext, todo, osVars, signalVars, historyVars>>

\* service.start NAME [when].
ctl_cmd_svc_start(s, when) ==
  /\ phase = "control"
  /\ Startable(svc[s])
  /\ when >= now
  /\ svc' = [svc EXCEPT ![s] = svc_handle_start(@, when)]
  /\ reported' = [reported EXCEPT ![s] = ctl_notify_svc_state(svc'[s])]
  /\ origin' = [origin EXCEPT ![s] = "command"]
  /\ wakeNext' = now
  /\ UNCHANGED <<phase, now, todo, osVars, signalVars, lastUp>>

\* service.start NAME - .
ctl_cmd_svc_start_cancel(s) ==
  /\ phase = "control"
  /\ svc[s].state = "start"
  /\ svc' = [svc EXCEPT ![s] = svc_cancel_start(@)]
  /\ reported' = [reported EXCEPT ![s] = ctl_notify_svc_state(svc'[s])]
  /\ origin' = [origin EXCEPT ![s] = "cancel"]
  /\ UNCHANGED <<phase, now, wakeNext, todo, osVars, signalVars, lastUp>>

\* service.auto_up NAME interval trigger...; the interval '-' keeps the old one.
ctl_cmd_svc_auto_up(s, interval, always, sigs) ==
  LET set   == [FoundOrNew(s) EXCEPT !.restart_interval = interval,
                                     !.auto_restart = always,
                                     !.autostart_signals = sigs]
      start == Triggered(set) /\ Startable(set)
      next  == IF start THEN svc_handle_start(set, now) ELSE set
  IN /\ phase = "control"
     /\ Allocatable(s)
     /\ svc' = [svc EXCEPT ![s] = next]
     /\ reported' = [reported EXCEPT ![s] = IF start THEN ctl_notify_svc_state(next)
                                             ELSE @]
     /\ origin' = [origin EXCEPT ![s] = "auto_up"]
     /\ wakeNext' = IF start THEN now ELSE wakeNext
     /\ UNCHANGED <<phase, now, todo, osVars, signalVars, lastUp>>

\* service.auto_up with a bad trigger, or triggers that do not fit in the
\* object: the interval is already set when svc_set_triggers fails.
ctl_cmd_svc_auto_up_fails(s, interval) ==
  /\ phase = "control"
  /\ Allocatable(s)
  /\ svc' = [svc EXCEPT ![s] = [FoundOrNew(s) EXCEPT !.restart_interval = interval]]
  /\ origin' = [origin EXCEPT ![s] = IF @ = "auto" THEN "auto_up" ELSE @]
  /\ UNCHANGED <<phase, now, wakeNext, todo, osVars, signalVars, reported, lastUp>>

\* Mutant: a service is deleted while it holds a pid.
Deletable_any(r) == TRUE

Deletable(r) == r.pid = NoPid

\* service.delete NAME.
ctl_cmd_svc_delete(s) ==
  /\ phase = "control"
  /\ Exists(s)
  /\ Deletable(svc[s])
  /\ svc' = [svc EXCEPT ![s] = NoService]
  /\ reported' = [reported EXCEPT ![s] = "deleted"]
  /\ origin' = [origin EXCEPT ![s] = "none"]
  /\ lastUp' = [lastUp EXCEPT ![s] = 0]
  /\ UNCHANGED <<phase, now, wakeNext, todo, osVars, signalVars>>

\* Mutant: the wait status is not looked at.
Signalled_stale(r) == r.pid # NoPid

\* svc_send_signal calls kill().
Signalled(r) == r.pid # NoPid /\ r.wait_status < 0

\* service.signal NAME SIGNAL, with a signal the process dies of.
ctl_cmd_svc_signal(s) ==
  /\ phase = "control"
  /\ Signalled(svc[s])
  /\ ChildExits(svc[s].pid)

\* signal.clear SIGNAL COUNT, with a count that clears the signal.
ctl_cmd_signal_clear(g) ==
  /\ phase = "control"
  /\ g \in pending
  /\ pending' = pending \ {g}
  /\ unseen' = unseen \ {g}
  /\ UNCHANGED <<phase, now, wakeNext, svc, todo, osVars, pipe, woke, arrived,
                 historyVars>>

ControlDone ==
  /\ phase = "control"
  /\ phase' = "select"
  /\ UNCHANGED <<now, wakeNext, svc, todo, osVars, signalVars, historyVars>>

-----------------------------------------------------------------------------
\* select() returns at time t, and the next iteration begins.
SelectReturns(t) ==
  /\ phase = "select"
  /\ phase' = "drain"
  /\ now' = t
  /\ wakeNext' = t + IDLE_WAKE
  /\ woke' = pipe
  /\ UNCHANGED <<svc, todo, osVars, pipe, arrived, pending, unseen, historyVars>>

\* The signal pipe is readable, or the time wake->next has come.
SelectWakes ==
  \E t \in now .. MaxTime : (pipe \/ t >= wakeNext) /\ SelectReturns(t)

\* A controller's or the log's descriptor is ready.
SelectOther ==
  \E t \in now .. MaxTime : SelectReturns(t)

-----------------------------------------------------------------------------
Environment ==
  \/ \E p \in Pid : OrphanAdopted(p)
  \/ \E p \in Pid : ChildExits(p)
  \/ \E g \in Sig : SignalArrives(g)

RunService(s) ==
  \/ RunWaiting(s)
  \/ \E p \in Pid : RunForked(s, p)
  \/ RunForkFailed(s)
  \/ RunReaped(s)

Command ==
  \/ \E s \in Svc : CreateService(s)
  \/ \E s \in Svc, when \in now .. MaxTime : ctl_cmd_svc_start(s, when)
  \/ \E s \in Svc : ctl_cmd_svc_start_cancel(s)
  \/ \E s \in Svc, always \in BOOLEAN, sigs \in SUBSET Sig :
       \E interval \in Interval \cup {FoundOrNew(s).restart_interval} :
         ctl_cmd_svc_auto_up(s, interval, always, sigs)
  \/ \E s \in Svc, interval \in Interval : ctl_cmd_svc_auto_up_fails(s, interval)
  \/ \E s \in Svc : ctl_cmd_svc_delete(s)
  \/ \E s \in Svc : ctl_cmd_svc_signal(s)
  \/ \E g \in Sig : ctl_cmd_signal_clear(g)

Loop ==
  \/ sig_run
  \/ merge_new_signals
  \/ \E p \in Pid : ReapChild(p)
  \/ ReapDone
  \/ WakeBySignals
  \/ \E s \in Svc : RunService(s)
  \/ ServicesDone
  \/ ControlDone
  \/ SelectWakes

Next == Environment \/ Loop \/ Command \/ SelectOther

Spec == Init /\ [][Next]_vars

(***************************************************************************)
(* The loop runs, the clock advances, and waitpid catches up: children do  *)
(* not die faster than they are reaped.  Nothing is assumed of the         *)
(* children, the signals or the controllers.                               *)
(***************************************************************************)
Fairness ==
  /\ WF_vars(Loop)
  /\ SF_vars(ReapDone)
  /\ SF_vars(SelectWakes /\ now' > now)

FairSpec == Spec /\ Fairness

-----------------------------------------------------------------------------
(***************************************************************************)
(* Safety.                                                                 *)
(***************************************************************************)

\* select() is never entered with a child to reap or a signal to merge unless
\* the self-pipe is readable: the pipe is emptied before the signals are
\* merged and the children reaped, so what comes later writes a new byte.
NoLostWakeup ==
  phase = "select" /\ ~pipe =>
    /\ arrived = {}
    /\ \A p \in Pid : proc[p] # "zombie"

\* select() does not sleep past the start time of a service: every service in
\* START is on the active list, and wake->next is no later than its start.
DeadlineCovered ==
  phase = "select" =>
    \A s \in Svc : svc[s].state = "start" =>
      svc[s].active /\ wakeNext <= svc[s].start_time

\* Between iterations the state a controller can derive, from the last
\* service.state event or from a statedump, is the state of the service.
ReportAccurate ==
  phase \in {"control", "select"} =>
    \A s \in Svc :
      /\ Exists(s) => ctl_notify_svc_state(svc[s]) = svc[s].state
      /\ \/ reported[s] = svc[s].state
         \/ reported[s] \in {"none", "deleted"} /\ svc[s].state \in {"undef", "down"}

\* No trigger is lost: a service that is down while one of its triggers is
\* true was put there by a controller that cancelled its start, whatever the
\* order of signals, exits, signal.clear and auto_up commands.
TriggerHonoured ==
  phase \in {"control", "select"} =>
    \A s \in Svc : svc[s].state = "down" =>
      \/ ~svc[s].auto_restart /\ svc[s].autostart_signals \cap pending = {}
      \/ origin[s] = "cancel"

\* A child forked for a service is never forgotten: while it runs or waits to
\* be reaped, its service exists, is up and holds its pid (no delete, restart
\* or cancel in between).
ChildOwned ==
  \A p \in Pid : proc[p] # "none" /\ owner[p] # NoSvc =>
    svc[owner[p]].state = "up" /\ svc[owner[p]].pid = p

\* The service holds the pid of its own child, which runs or waits to be reaped.
HasProcess(s) ==
  /\ svc[s].pid \in Pid
  /\ proc[svc[s].pid] # "none"
  /\ owner[svc[s].pid] = s

\* A service that is up has a child that runs or waits to be reaped, so that
\* its end will be noticed ("waitpid in main loop will re-activate us and set
\* state to REAPED").
UpHasProcess ==
  \A s \in Svc : svc[s].state = "up" => HasProcess(s)

\* Whatever pids fork() returns, a service is parted from its child, that is, it
\* comes to be up without one, only in a step that finds another service object
\* with the same pid.
PartedOnlyBySharing ==
  [][\A s \in Svc : svc'[s].state = "up" /\ ~HasProcess(s)' =>
       \/ svc[s].state = "up" /\ ~HasProcess(s)
       \/ \E t \in Svc \ {s} : svc[t].pid = svc[s].pid]_vars

\* service.signal reaches the process of the service it names, never another
\* process that has come to have the same pid.
SignalsOwnChild ==
  [][\A s \in Svc : ctl_cmd_svc_signal(s) => owner[svc[s].pid] = s]_vars

\* Whatever pids fork() returns, service.signal does not use the pid a service
\* keeps once its child has been reaped: a service it signals is up.
SignalsUpOnly ==
  [][\A s \in Svc : ctl_cmd_svc_signal(s) => svc[s].state = "up"]_vars

Forked(s) == svc[s].state = "start" /\ svc'[s].state = "up"

\* A service restarted because its triggers were true when it ended comes up
\* no sooner than its MIN_INTERVAL after it last came up, failed forks and
\* other services' wakeups included.
RestartSpacing ==
  [][\A s \in Svc : Forked(s) /\ origin[s] = "auto" =>
       now - lastUp[s] >= svc[s].restart_interval]_vars

-----------------------------------------------------------------------------
(***************************************************************************)
(* Liveness.                                                               *)
(***************************************************************************)

\* A scheduled start is carried out, cancelled or deleted, unless failing
\* forks push it past the end of the bounded time.
StartsEventually ==
  \A s \in Svc :
    svc[s].state = "start" ~>
      (svc[s].state # "start" \/ svc[s].start_time > MaxTime)

\* The end of a service's process is noticed.
ReapedEventually ==
  \A s \in Svc :
    (svc[s].state = "up" /\ \E p \in Pid : proc[p] = "zombie" /\ owner[p] = s)
      ~> svc[s].state # "up"

=============================================================================
