--------------------------- MODULE ServiceProofs ---------------------------
(***************************************************************************)
(* Proofs of the safety properties of Service for all values of its        *)
(* constants.                                                              *)
(***************************************************************************)
EXTENDS Service, TLAPS

\* A service just made by svc_ctor, and the absence of one, are service objects.
LEMMA CtorTyped == svc_ctor \in Service /\ NoService \in Service
  BY DEF svc_ctor, NoService, Service, States

\* svc_handle_start yields a service object, whatever time it is given.
LEMMA StartTyped ==
  ASSUME NEW r \in Service, NEW when \in Nat, now \in Nat
  PROVE  svc_handle_start(r, when) \in Service
  BY DEF svc_handle_start, Service, States, Later

\* ctl_notify_svc_state yields one of the three reported states.
LEMMA NotifyTyped ==
  ASSUME NEW r
  PROVE  ctl_notify_svc_state(r) \in Reports
  BY DEF ctl_notify_svc_state, Reports

\* svc_cancel_start yields a service object, whatever the state it finds.
LEMMA CancelTyped ==
  ASSUME NEW r \in Service
  PROVE  /\ svc_cancel_start(r) \in Service
         /\ [r EXCEPT !.state = "down", !.active = FALSE] \in Service
         /\ [r EXCEPT !.active = TRUE] \in Service
  BY DEF svc_cancel_start, Service, States

\* A service object whose fork succeeded is still one.
LEMMA ForkedTyped ==
  ASSUME NEW r \in Service, NEW p \in Pid, now \in Nat
  PROVE  [svc_change_pid(r, p) EXCEPT
            !.start_time = now, !.state = "up", !.active = FALSE] \in Service
  BY DEF svc_change_pid, Service, States

\* The time svc_run sets for the restart of a service is a time.
LEMMA RestartTimeTyped ==
  ASSUME NEW r \in Service, now \in Nat
  PROVE  RestartTime(r) \in Nat
  BY DEF RestartTime, Service

\* Setting the triggers and the interval of a service object (service.auto_up)
\* yields a service object.
LEMMA AutoUpTyped ==
  ASSUME NEW r \in Service, NEW interval \in Nat, NEW always \in BOOLEAN,
         NEW sigs \in SUBSET Sig
  PROVE  [r EXCEPT !.restart_interval = interval, !.auto_restart = always,
                   !.autostart_signals = sigs] \in Service
  BY DEF Service

\* The interval a service object holds, or is given, is a natural number.
LEMMA IntervalTyped ==
  ASSUME NEW r \in Service, NEW interval \in Interval \cup {r.restart_interval}
  PROVE  interval \in Nat
  BY ServiceAssumption DEF Service

\* The object a command finds or makes by name is a service object.
LEMMA FoundTyped ==
  ASSUME TypeOK, NEW s \in Svc
  PROVE  FoundOrNew(s) \in Service
  BY CtorTyped DEF FoundOrNew, TypeOK

\* The state after initialisation is well typed.
LEMMA InitTyped == Init => TypeOK
<1> SUFFICES ASSUME Init PROVE TypeOK
  OBVIOUS
<1> USE ServiceAssumption DEF Init
<1>1. phase \in Phases /\ now \in Nat /\ wakeNext \in Nat
  BY DEF Phases
<1>2. svc \in [Svc -> Service] /\ todo \in SUBSET Svc
  BY CtorTyped
<1>3. /\ proc \in [Pid -> {"none", "running", "zombie"}]
      /\ owner \in [Pid -> Svc \cup {NoSvc}]
  OBVIOUS
<1>4. /\ pipe \in BOOLEAN /\ woke \in BOOLEAN /\ arrived \in SUBSET Sig
      /\ pending \in SUBSET Sig /\ unseen \in SUBSET pending
  OBVIOUS
<1>5. /\ reported \in [Svc -> Reports] /\ origin \in [Svc -> Origins]
      /\ lastUp \in [Svc -> Nat]
  BY DEF Reports, Origins
<1>6. QED
  BY <1>1, <1>2, <1>3, <1>4, <1>5 DEF TypeOK

\* Every step of the main loop, of a handler, of a child or of a command keeps
\* the types.
LEMMA NextTyped == TypeOK /\ [Next]_vars => TypeOK'
<1> SUFFICES ASSUME TypeOK, [Next]_vars PROVE TypeOK'
  OBVIOUS
<1> USE ServiceAssumption DEF TypeOK, osVars, signalVars, historyVars
<1>1. ASSUME NEW p \in Pid, OrphanAdopted(p) PROVE TypeOK'
  BY <1>1 DEF OrphanAdopted
<1>2. ASSUME NEW p \in Pid, ChildExits(p) PROVE TypeOK'
  BY <1>2 DEF ChildExits
<1>3. ASSUME NEW g \in Sig, SignalArrives(g) PROVE TypeOK'
  BY <1>3 DEF SignalArrives
<1>4. CASE sig_run
  BY <1>4 DEF sig_run, Phases
<1>5. CASE merge_new_signals
  BY <1>5 DEF merge_new_signals, Phases
<1>6. ASSUME NEW p \in Pid, ReapChild(p) PROVE TypeOK'
  <2>1. \A r \in Service : svc_handle_reaped(r) \in Service
    BY DEF svc_handle_reaped, Service, States
  <2>2. svc' \in [Svc -> Service] /\ wakeNext' \in Nat
    BY <1>6, <2>1 DEF ReapChild, svc_by_pid
  <2>3. QED
    BY <1>6, <2>2 DEF ReapChild
<1>7. CASE ReapDone
  BY <1>7 DEF ReapDone, Phases
<1>8. CASE WakeBySignals
  <2>1. svc' \in [Svc -> Service]
    BY <1>8, StartTyped DEF WakeBySignals
  <2>2. reported' \in [Svc -> Reports]
    BY <1>8, NotifyTyped DEF WakeBySignals
  <2>3. origin' \in [Svc -> Origins]
    BY <1>8 DEF WakeBySignals, Origins
  <2>4. wakeNext' \in Nat /\ unseen' \in SUBSET pending' /\ todo' \in SUBSET Svc
    BY <1>8 DEF WakeBySignals
  <2>5. QED
    BY <1>8, <2>1, <2>2, <2>3, <2>4 DEF WakeBySignals, Phases
<1>9. ASSUME NEW s \in Svc, RunWaiting(s) PROVE TypeOK'
  <2>1. [svc[s] EXCEPT !.active = TRUE] \in Service
    BY CancelTyped
  <2>2. svc[s].start_time \in Nat
    BY DEF Service
  <2>3. wakeNext' \in Nat
    BY <1>9, <2>2 DEF RunWaiting, StartDeadline, Earlier
  <2>4. QED
    BY <1>9, <2>1, <2>3 DEF RunWaiting
<1>10. ASSUME NEW s \in Svc, NEW p \in Pid, RunForked(s, p) PROVE TypeOK'
  <2>1. svc' \in [Svc -> Service]
    BY <1>10, ForkedTyped DEF RunForked
  <2>2. QED
    BY <1>10, <2>1, NotifyTyped DEF RunForked, svc_do_fork, svc_change_pid
<1>11. ASSUME NEW s \in Svc, RunForkFailed(s) PROVE TypeOK'
  BY <1>11, StartTyped, NotifyTyped DEF RunForkFailed, ForkRetry
<1>12. ASSUME NEW s \in Svc, RunReaped(s) PROVE TypeOK'
  <2>1. [svc[s] EXCEPT !.state = "down", !.active = FALSE] \in Service
    BY CancelTyped
  <2>2. svc_handle_start(svc[s], RestartTime(svc[s])) \in Service
    BY StartTyped, RestartTimeTyped
  <2>3. svc' \in [Svc -> Service]
    BY <1>12, <2>1, <2>2 DEF RunReaped
  <2>4. /\ origin' \in [Svc -> Origins] /\ wakeNext' \in Nat /\ todo' \in SUBSET Svc
        /\ reported' \in [Svc -> Reports]
    BY <1>12, NotifyTyped DEF RunReaped, Origins
  <2>5. QED
    BY <1>12, <2>3, <2>4 DEF RunReaped
<1>13. CASE ServicesDone
  BY <1>13 DEF ServicesDone, Phases
<1>14. ASSUME NEW s \in Svc, CreateService(s) PROVE TypeOK'
  BY <1>14, CtorTyped DEF CreateService
<1>15. ASSUME NEW s \in Svc, NEW when \in now .. MaxTime, ctl_cmd_svc_start(s, when)
       PROVE  TypeOK'
  <2>1. when \in Nat
    OBVIOUS
  <2>2. QED
    BY <1>15, <2>1, StartTyped, NotifyTyped DEF ctl_cmd_svc_start, Origins
<1>16. ASSUME NEW s \in Svc, ctl_cmd_svc_start_cancel(s) PROVE TypeOK'
  <2>1. svc_cancel_start(svc[s]) \in Service
    BY CancelTyped
  <2>2. QED
    BY <1>16, <2>1, NotifyTyped DEF ctl_cmd_svc_start_cancel, Origins
<1>17. ASSUME NEW s \in Svc, NEW always \in BOOLEAN, NEW sigs \in SUBSET Sig,
              NEW interval \in Interval \cup {FoundOrNew(s).restart_interval},
              ctl_cmd_svc_auto_up(s, interval, always, sigs)
       PROVE  TypeOK'
  <2> DEFINE set == [FoundOrNew(s) EXCEPT !.restart_interval = interval,
                                          !.auto_restart = always,
                                          !.autostart_signals = sigs]
  <2>0. FoundOrNew(s) \in Service /\ interval \in Nat
    BY FoundTyped, IntervalTyped
  <2>1. set \in Service
    BY <2>0, AutoUpTyped
  <2>2. svc_handle_start(set, now) \in Service
    BY <2>1, StartTyped
  <2> HIDE DEF set
  <2>3. svc' \in [Svc -> Service]
    BY <1>17, <2>1, <2>2 DEF ctl_cmd_svc_auto_up, set
  <2>4. /\ origin' \in [Svc -> Origins] /\ wakeNext' \in Nat
        /\ reported' \in [Svc -> Reports]
    BY <1>17, NotifyTyped DEF ctl_cmd_svc_auto_up, Origins
  <2>5. QED
    BY <1>17, <2>3, <2>4 DEF ctl_cmd_svc_auto_up
<1>18. ASSUME NEW s \in Svc, NEW interval \in Interval, ctl_cmd_svc_auto_up_fails(s, interval)
       PROVE  TypeOK'
  <2>1. [FoundOrNew(s) EXCEPT !.restart_interval = interval] \in Service
    BY FoundTyped DEF Service
  <2>2. QED
    BY <1>18, <2>1 DEF ctl_cmd_svc_auto_up_fails, Origins
<1>19. ASSUME NEW s \in Svc, ctl_cmd_svc_delete(s) PROVE TypeOK'
  BY <1>19, CtorTyped DEF ctl_cmd_svc_delete, Reports, Origins
<1>20. ASSUME NEW s \in Svc, ctl_cmd_svc_signal(s) PROVE TypeOK'
  BY <1>20 DEF ctl_cmd_svc_signal, ChildExits
<1>21. ASSUME NEW g \in Sig, ctl_cmd_signal_clear(g) PROVE TypeOK'
  BY <1>21 DEF ctl_cmd_signal_clear
<1>22. CASE ControlDone
  BY <1>22 DEF ControlDone, Phases
<1>23. ASSUME NEW t \in now .. MaxTime, SelectReturns(t) PROVE TypeOK'
  BY <1>23 DEF SelectReturns, Phases
<1>24. CASE UNCHANGED vars
  BY <1>24 DEF vars
<1> HIDE DEF TypeOK
<1>25. QED
  BY <1>1, <1>2, <1>3, <1>4, <1>5, <1>6, <1>7, <1>8, <1>9, <1>10, <1>11, <1>12,
     <1>13, <1>14, <1>15, <1>16, <1>17, <1>18, <1>19, <1>20, <1>21, <1>22, <1>23,
     <1>24
  DEF Next, Environment, Loop, RunService, Command, SelectWakes, SelectOther

\* Every reachable state of the loop and of the service objects is well formed,
\* and no signal is both new to svc_run_active and cleared (signal.clear drops
\* the count that sig_get_new_events looks at).
THEOREM TypeCorrect == Spec => []TypeOK
  BY InitTyped, NextTyped, PTL DEF Spec

-----------------------------------------------------------------------------
(***************************************************************************)
(* The inductive invariants.                                               *)
(***************************************************************************)

\* While the pipe is empty nothing waits for the loop, except between the step
\* that emptied the pipe and the one that looks at what it announced.
WakeupInv ==
  ~pipe => /\ phase # "merge" => arrived = {}
           /\ phase \notin {"merge", "reap"} => \A p \in Pid : proc[p] # "zombie"

\* What pid and wait_status say of the state.
PidInv ==
  \A s \in Svc :
    /\ svc[s].state \in {"undef", "start"} => svc[s].pid = NoPid
    /\ svc[s].state \in {"up", "reaped"} => svc[s].pid \in Pid
    /\ svc[s].pid # NoPid /\ svc[s].wait_status = -1 => svc[s].state = "up"

-----------------------------------------------------------------------------
\* What no controller command touches.
LEMMA CommandFrame ==
  ASSUME Command
  PROVE  /\ phase = "control" /\ UNCHANGED <<phase, now, todo, owner, woke, arrived>>
         /\ UNCHANGED <<proc, pipe>> \/ \E s \in Svc : ctl_cmd_svc_signal(s)
<1> USE DEF osVars, signalVars, historyVars
<1> DEFINE Frame == /\ phase = "control"
                    /\ UNCHANGED <<phase, now, todo, owner, woke, arrived>>
                    /\ UNCHANGED <<proc, pipe>> \/ \E s \in Svc : ctl_cmd_svc_signal(s)
<1>1. ASSUME NEW s \in Svc, CreateService(s) PROVE Frame
  BY <1>1 DEF CreateService
<1>2. ASSUME NEW s \in Svc, NEW when \in now .. MaxTime, ctl_cmd_svc_start(s, when)
      PROVE  Frame
  BY <1>2 DEF ctl_cmd_svc_start
<1>3. ASSUME NEW s \in Svc, ctl_cmd_svc_start_cancel(s) PROVE Frame
  BY <1>3 DEF ctl_cmd_svc_start_cancel
<1>4. ASSUME NEW s \in Svc, NEW always \in BOOLEAN, NEW sigs \in SUBSET Sig, NEW interval,
             ctl_cmd_svc_auto_up(s, interval, always, sigs)
      PROVE  Frame
  BY <1>4 DEF ctl_cmd_svc_auto_up
<1>5. ASSUME NEW s \in Svc, NEW interval \in Interval, ctl_cmd_svc_auto_up_fails(s, interval)
      PROVE  Frame
  BY <1>5 DEF ctl_cmd_svc_auto_up_fails
<1>6. ASSUME NEW s \in Svc, ctl_cmd_svc_delete(s) PROVE Frame
  BY <1>6 DEF ctl_cmd_svc_delete
<1>7. ASSUME NEW s \in Svc, ctl_cmd_svc_signal(s) PROVE Frame
  BY <1>7 DEF ctl_cmd_svc_signal, ChildExits
<1>8. ASSUME NEW g \in Sig, ctl_cmd_signal_clear(g) PROVE Frame
  BY <1>8 DEF ctl_cmd_signal_clear
<1> HIDE DEF Frame
<1>9. Frame
  BY <1>1, <1>2, <1>3, <1>4, <1>5, <1>6, <1>7, <1>8 DEF Command
<1>10. QED
  BY <1>9 DEF Frame

-----------------------------------------------------------------------------
\* Every step keeps the self-pipe written while there is news the current pass
\* of the main loop no longer looks at.
LEMMA WakeupStep == TypeOK /\ WakeupInv /\ [Next]_vars => WakeupInv'
<1> SUFFICES ASSUME TypeOK, WakeupInv, [Next]_vars PROVE WakeupInv'
  OBVIOUS
<1> USE DEF WakeupInv, osVars, signalVars, historyVars
<1>1. ASSUME NEW p \in Pid, OrphanAdopted(p) PROVE WakeupInv'
  BY <1>1 DEF OrphanAdopted, TypeOK
<1>2. ASSUME NEW p \in Pid, ChildExits(p) PROVE WakeupInv'
  BY <1>2 DEF ChildExits
<1>3. ASSUME NEW g \in Sig, SignalArrives(g) PROVE WakeupInv'
  BY <1>3 DEF SignalArrives
<1>4. CASE sig_run
  BY <1>4 DEF sig_run
<1>5. CASE merge_new_signals
  BY <1>5 DEF merge_new_signals
<1>6. ASSUME NEW p \in Pid, ReapChild(p) PROVE WakeupInv'
  BY <1>6 DEF ReapChild
<1>7. CASE ReapDone
  BY <1>7 DEF ReapDone
<1>8. CASE WakeBySignals
  BY <1>8 DEF WakeBySignals
<1>9. ASSUME NEW s \in Svc, NEW p \in Pid, RunForked(s, p) PROVE WakeupInv'
  BY <1>9 DEF RunForked, svc_do_fork, svc_change_pid, TypeOK
<1>10. ASSUME NEW s \in Svc, RunWaiting(s) \/ RunForkFailed(s) \/ RunReaped(s)
       PROVE  WakeupInv'
  BY <1>10 DEF RunWaiting, RunForkFailed, ForkRetry, RunReaped
<1>11. CASE ServicesDone \/ ControlDone
  BY <1>11 DEF ServicesDone, ControlDone
<1>12. ASSUME NEW s \in Svc, ctl_cmd_svc_signal(s) PROVE WakeupInv'
  BY <1>12 DEF ctl_cmd_svc_signal, ChildExits
<1>13. CASE Command /\ ~(\E s \in Svc : ctl_cmd_svc_signal(s))
  BY <1>13, CommandFrame
<1>14. ASSUME NEW t \in now .. MaxTime, SelectReturns(t) PROVE WakeupInv'
  BY <1>14 DEF SelectReturns
<1>15. CASE UNCHANGED vars
  BY <1>15 DEF vars
<1> HIDE DEF WakeupInv
<1>16. QED
  BY <1>1, <1>2, <1>3, <1>4, <1>5, <1>6, <1>7, <1>8, <1>9, <1>10, <1>11, <1>12,
     <1>13, <1>14, <1>15
  DEF Next, Environment, Loop, RunService, SelectWakes, SelectOther

\* The self-pipe protocol loses no event: select() is not entered with an empty
\* pipe while a child waits to be reaped or a signal to be merged.
THEOREM WakeupSafe == Spec => []NoLostWakeup
<1>1. Init => WakeupInv
  BY DEF Init, WakeupInv
<1>2. WakeupInv => NoLostWakeup
  BY DEF WakeupInv, NoLostWakeup
<1>3. QED
  BY <1>1, <1>2, WakeupStep, TypeCorrect, PTL DEF Spec

-----------------------------------------------------------------------------
(***************************************************************************)
(* Pids.  All but a fork and a reaped child leave each service as it was,  *)
(* or move it between states that have no process.                         *)
(***************************************************************************)
Idle(s) ==
  \/ /\ svc'[s].state = svc[s].state
     /\ svc'[s].pid = svc[s].pid
     /\ svc'[s].wait_status = svc[s].wait_status
  \/ /\ svc[s].state # "up"
     /\ \/ svc'[s].state \in {"undef", "down", "start"} /\ svc'[s].pid = NoPid
        \/ /\ svc'[s].state = "down"
           /\ svc'[s].pid = svc[s].pid
           /\ svc'[s].wait_status = svc[s].wait_status

Quiet == UNCHANGED osVars /\ \A s \in Svc : Idle(s)

\* What svc_handle_start leaves in each field: a scheduled service has no pid.
LEMMA StartFields ==
  ASSUME NEW r \in Service, NEW when
  PROVE  /\ svc_handle_start(r, when).state = "start"
         /\ svc_handle_start(r, when).pid = NoPid
         /\ svc_handle_start(r, when).reap_time = 0
         /\ svc_handle_start(r, when).wait_status = -1
         /\ svc_handle_start(r, when).start_time = Later(when, now)
         /\ svc_handle_start(r, when).active = TRUE
         /\ svc_handle_start(r, when).auto_restart = r.auto_restart
         /\ svc_handle_start(r, when).autostart_signals = r.autostart_signals
         /\ svc_handle_start(r, when).restart_interval = r.restart_interval
  BY DEF svc_handle_start, Service

\* A new service is down and has no pid.
LEMMA CtorFields ==
  /\ svc_ctor.state = "down" /\ svc_ctor.pid = NoPid /\ svc_ctor.start_time = 0
  /\ svc_ctor.auto_restart = FALSE /\ svc_ctor.autostart_signals = {}
  /\ NoService.state = "undef" /\ NoService.pid = NoPid
  BY DEF svc_ctor, NoService

\* The steps of the main loop that neither fork nor reap leave pids and
\* children alone.
LEMMA QuietLoop ==
  ASSUME TypeOK,
         \/ WakeBySignals
         \/ \E s \in Svc : RunWaiting(s) \/ RunForkFailed(s) \/ RunReaped(s)
  PROVE  Quiet
<1> USE DEF TypeOK, Quiet, Idle
<1>1. CASE WakeBySignals
  BY <1>1, StartFields DEF WakeBySignals, Startable
<1>2. ASSUME NEW s \in Svc, RunWaiting(s) PROVE Quiet
  BY <1>2 DEF RunWaiting, Service
<1>3. ASSUME NEW s \in Svc, RunForkFailed(s) PROVE Quiet
  BY <1>3, StartFields DEF RunForkFailed, ForkRetry
<1>4. ASSUME NEW s \in Svc, RunReaped(s) PROVE Quiet
  <2> DEFINE down == [svc[s] EXCEPT !.state = "down", !.active = FALSE]
  <2>1. \/ svc' = [svc EXCEPT ![s] = svc_handle_start(svc[s], RestartTime(svc[s]))]
        \/ svc' = [svc EXCEPT ![s] = down]
    BY <1>4 DEF RunReaped
  <2>2. svc[s].state = "reaped" /\ UNCHANGED osVars
    BY <1>4 DEF RunReaped
  <2>3. down.state = "down" /\ down.pid = svc[s].pid /\ down.wait_status = svc[s].wait_status
    BY DEF Service
  <2> HIDE DEF down
  <2>4. Idle(s)
    <3>1. CASE svc' = [svc EXCEPT ![s] = down]
      BY <2>2, <2>3, <3>1
    <3>2. CASE svc' = [svc EXCEPT ![s] = svc_handle_start(svc[s], RestartTime(svc[s]))]
      BY <2>2, <3>2, StartFields
    <3>3. QED
      BY <2>1, <3>1, <3>2
  <2>5. QED
    BY <2>1, <2>2, <2>4
<1>5. QED
  BY <1>1, <1>2, <1>3, <1>4

\* So do all the controller's commands but service.signal: the ones that change
\* a service's state find it not up and leave it not up.
LEMMA QuietCommand ==
  ASSUME TypeOK, PidInv, Command, ~(\E s \in Svc : ctl_cmd_svc_signal(s))
  PROVE  Quiet
<1> USE DEF TypeOK, Quiet, Idle, osVars
<1>1. ASSUME NEW s \in Svc, CreateService(s) PROVE Quiet
  BY <1>1, CtorFields DEF CreateService, Exists
<1>2. ASSUME NEW s \in Svc, NEW when \in now .. MaxTime, ctl_cmd_svc_start(s, when)
      PROVE  Quiet
  BY <1>2, StartFields DEF ctl_cmd_svc_start, Startable
<1>3. ASSUME NEW s \in Svc, ctl_cmd_svc_start_cancel(s) PROVE Quiet
  BY <1>3 DEF ctl_cmd_svc_start_cancel, svc_cancel_start, PidInv, Service
<1>4. ASSUME NEW s \in Svc, NEW always \in BOOLEAN, NEW sigs \in SUBSET Sig,
             NEW interval \in Interval \cup {FoundOrNew(s).restart_interval},
             ctl_cmd_svc_auto_up(s, interval, always, sigs)
      PROVE  Quiet
  <2> DEFINE r == FoundOrNew(s)
             set == [r EXCEPT !.restart_interval = interval,
                              !.auto_restart = always,
                              !.autostart_signals = sigs]
  <2>0. r \in Service /\ interval \in Nat
    BY FoundTyped, IntervalTyped
  <2> HIDE DEF r
  <2>1. set \in Service
    BY <2>0 DEF Service
  <2>2. set.state = r.state /\ set.pid = r.pid /\ set.wait_status = r.wait_status
    BY <2>0 DEF Service
  <2>3. \/ svc' = [svc EXCEPT ![s] = svc_handle_start(set, now)] /\ Startable(set)
        \/ svc' = [svc EXCEPT ![s] = set]
    BY <1>4 DEF ctl_cmd_svc_auto_up, r
  <2>4. UNCHANGED osVars
    BY <1>4 DEF ctl_cmd_svc_auto_up
  <2> HIDE DEF set
  <2>5. Idle(s)
    <3>1. CASE svc' = [svc EXCEPT ![s] = set]
      BY <2>2, <3>1, CtorFields DEF r, FoundOrNew, Exists
    <3>2. CASE svc' = [svc EXCEPT ![s] = svc_handle_start(set, now)] /\ Startable(set)
      <4>1. svc[s].state # "up"
        BY <2>2, <3>2, CtorFields DEF Startable, r, FoundOrNew, Exists
      <4>2. QED
        BY <2>1, <3>2, <4>1, StartFields
    <3>3. QED
      BY <2>3, <3>1, <3>2
  <2>6. QED
    BY <2>3, <2>4, <2>5
<1>5. ASSUME NEW s \in Svc, NEW interval \in Interval, ctl_cmd_svc_auto_up_fails(s, interval)
      PROVE  Quiet
  <2>1. svc' = [svc EXCEPT ![s] = [FoundOrNew(s) EXCEPT !.restart_interval = interval]]
    BY <1>5 DEF ctl_cmd_svc_auto_up_fails
  <2>2. Idle(s)
    BY <2>1, FoundTyped, CtorFields DEF FoundOrNew, Exists, Service
  <2>3. QED
    BY <1>5, <2>1, <2>2 DEF ctl_cmd_svc_auto_up_fails
<1>6. ASSUME NEW s \in Svc, ctl_cmd_svc_delete(s) PROVE Quiet
  BY <1>6, CtorFields, ServiceAssumption DEF ctl_cmd_svc_delete, Deletable, PidInv
<1>7. ASSUME NEW g \in Sig, ctl_cmd_signal_clear(g) PROVE Quiet
  BY <1>7 DEF ctl_cmd_signal_clear
<1> HIDE DEF Quiet
<1>8. QED
  BY <1>1, <1>2, <1>3, <1>4, <1>5, <1>6, <1>7 DEF Command

\* The steps that change the processes or move a service to or from UP, and
\* the ones that do neither.
LEMMA PidSteps ==
  ASSUME TypeOK, PidInv, [Next]_vars
  PROVE  \/ \E p \in Pid : OrphanAdopted(p)
         \/ \E p \in Pid : ChildExits(p)
         \/ \E p \in Pid : ReapChild(p)
         \/ \E s \in Svc, p \in Pid : RunForked(s, p)
         \/ Quiet
<1>1. ASSUME NEW s \in Svc, ctl_cmd_svc_signal(s)
      PROVE  \E p \in Pid : ChildExits(p)
  BY <1>1 DEF ctl_cmd_svc_signal, Signalled, TypeOK, Service
<1>2. ASSUME UNCHANGED <<svc, osVars>> PROVE Quiet
  BY <1>2 DEF Quiet, Idle
<1>3. CASE sig_run \/ merge_new_signals \/ ReapDone \/ ServicesDone \/ ControlDone
  BY <1>2, <1>3 DEF sig_run, merge_new_signals, ReapDone, ServicesDone, ControlDone
<1>4. CASE \E g \in Sig : SignalArrives(g)
  BY <1>2, <1>4 DEF SignalArrives
<1>5. CASE \E t \in now .. MaxTime : SelectReturns(t)
  BY <1>2, <1>5 DEF SelectReturns
<1>6. CASE UNCHANGED vars
  BY <1>2, <1>6 DEF vars
<1>7. QED
  BY <1>1, <1>3, <1>4, <1>5, <1>6, QuietLoop, QuietCommand
  DEF Next, Environment, Loop, RunService, SelectWakes, SelectOther

\* svc_handle_reaped takes an up service to "reaped" and keeps its pid.
LEMMA ReapedFields ==
  ASSUME NEW r \in Service
  PROVE  /\ svc_handle_reaped(r).state = "reaped"
         /\ svc_handle_reaped(r).pid = r.pid
         /\ svc_handle_reaped(r).wait_status = 0
         /\ svc_handle_reaped(r).reap_time = now
         /\ svc_handle_reaped(r).active = TRUE
         /\ svc_handle_reaped(r).start_time = r.start_time
         /\ svc_handle_reaped(r).auto_restart = r.auto_restart
         /\ svc_handle_reaped(r).autostart_signals = r.autostart_signals
         /\ svc_handle_reaped(r).restart_interval = r.restart_interval
  BY DEF svc_handle_reaped, Service

\* A child is reaped: at most one service changes, and it was up.
LEMMA ReapStep ==
  ASSUME TypeOK, NEW p \in Pid, ReapChild(p)
  PROVE  \/ svc' = svc
         \/ \E s \in Svc : /\ svc[s].state = "up" /\ svc[s].pid = p
                           /\ svc' = [svc EXCEPT ![s] = svc_handle_reaped(svc[s])]
                           /\ wakeNext' = now
  BY DEF ReapChild, svc_by_pid, TypeOK

\* After a reap every service either is unchanged or is the one reaped.
LEMMA ReapEach ==
  ASSUME TypeOK, NEW p \in Pid, ReapChild(p), NEW s \in Svc
  PROVE  \/ svc'[s] = svc[s]
         \/ /\ svc[s].state = "up" /\ svc'[s].state = "reaped"
            /\ svc'[s].pid = svc[s].pid /\ svc'[s].wait_status = 0
            /\ svc'[s].start_time = svc[s].start_time /\ svc'[s].reap_time = now
            /\ svc'[s].active
<1>1. svc[s] \in Service /\ svc \in [Svc -> Service]
  BY DEF TypeOK
<1>2. \/ svc'[s] = svc[s]
      \/ svc[s].state = "up" /\ svc'[s] = svc_handle_reaped(svc[s])
  BY <1>1, ReapStep
<1>3. QED
  BY <1>1, <1>2, ReapedFields

\* A fork makes its service up, with the pid of the new child.
LEMMA ForkedFields ==
  ASSUME TypeOK, NEW s \in Svc, NEW p \in Pid, RunForked(s, p)
  PROVE  /\ svc'[s].state = "up" /\ svc'[s].pid = p
         /\ svc'[s].start_time = now /\ svc'[s].wait_status = svc[s].wait_status
         /\ svc'[s].reap_time = svc[s].reap_time
         /\ svc'[s].restart_interval = svc[s].restart_interval
         /\ \A t \in Svc \ {s} : svc'[t] = svc[t]
  BY DEF RunForked, svc_do_fork, svc_change_pid, TypeOK, Service

\* Every step keeps the invariant on the pids services hold.
LEMMA PidStep == TypeOK /\ PidInv /\ [Next]_vars => PidInv'
<1> SUFFICES ASSUME TypeOK, PidInv, [Next]_vars PROVE PidInv'
  OBVIOUS
<1>1. CASE \E p \in Pid : OrphanAdopted(p) \/ ChildExits(p)
  BY <1>1 DEF OrphanAdopted, ChildExits, PidInv
<1>2. ASSUME NEW p \in Pid, ReapChild(p) PROVE PidInv'
  BY <1>2, ReapEach DEF PidInv
<1>3. ASSUME NEW s \in Svc, NEW p \in Pid, RunForked(s, p) PROVE PidInv'
  <2>1. svc'[s].state = "up" /\ svc'[s].pid = p /\ \A t \in Svc \ {s} : svc'[t] = svc[t]
    BY <1>3, ForkedFields
  <2>2. QED
    BY <2>1 DEF PidInv
<1>4. CASE Quiet
  BY <1>4 DEF Quiet, Idle, PidInv
<1>5. QED
  BY <1>1, <1>2, <1>3, <1>4, PidSteps

\* Every step keeps each unreaped child the child of a service that is up.
LEMMA ChildStep == TypeOK /\ PidInv /\ ChildOwned /\ [Next]_vars => ChildOwned'
<1> SUFFICES ASSUME TypeOK, PidInv, ChildOwned, [Next]_vars PROVE ChildOwned'
  OBVIOUS
<1> USE DEF ChildOwned, TypeOK
<1>1. ASSUME NEW p \in Pid, OrphanAdopted(p) PROVE ChildOwned'
  BY <1>1 DEF OrphanAdopted
<1>2. ASSUME NEW p \in Pid, ChildExits(p) PROVE ChildOwned'
  BY <1>2 DEF ChildExits
<1>3. ASSUME NEW p \in Pid, ReapChild(p) PROVE ChildOwned'
  <2>1. proc' = [proc EXCEPT ![p] = "none"] /\ owner' = [owner EXCEPT ![p] = NoSvc]
    BY <1>3 DEF ReapChild
  <2>2. QED
    BY <1>3, <2>1, ReapStep
<1>4. ASSUME NEW s \in Svc, NEW p \in Pid, RunForked(s, p) PROVE ChildOwned'
  <2>1. /\ svc[s].state = "start" /\ owner' = [owner EXCEPT ![p] = s]
        /\ proc' = [proc EXCEPT ![p] = "running"]
    BY <1>4 DEF RunForked, svc_do_fork, svc_change_pid
  <2>2. QED
    BY <1>4, <2>1, ForkedFields
<1>5. CASE Quiet
  BY <1>5 DEF Quiet, Idle, osVars
<1>6. QED
  BY <1>1, <1>2, <1>3, <1>4, <1>5, PidSteps

\* A child forked for a service is never forgotten: until it is reaped its
\* service stays up and keeps its pid, whatever the commands and with or
\* without reuse of pids by the operating system.
THEOREM ChildrenOwned == Spec => []ChildOwned
<1>1. Init => PidInv /\ ChildOwned
  BY CtorFields DEF Init, PidInv, ChildOwned
<1>2. QED
  BY <1>1, PidStep, ChildStep, TypeCorrect, PTL DEF Spec

-----------------------------------------------------------------------------
\* A step parts a service that is up from its child only where two services hold
\* one pid.
LEMMA PartingStep ==
  ASSUME TypeOK, PidInv, [Next]_vars, NEW s \in Svc,
         svc'[s].state = "up", svc[s].state = "up" => HasProcess(s),
         \A t \in Svc \ {s} : svc[t].pid # svc[s].pid
  PROVE  HasProcess(s)'
<1> USE DEF HasProcess, TypeOK
<1>1. ASSUME NEW p \in Pid, OrphanAdopted(p) PROVE HasProcess(s)'
  BY <1>1 DEF OrphanAdopted
<1>2. ASSUME NEW p \in Pid, ChildExits(p) PROVE HasProcess(s)'
  BY <1>2 DEF ChildExits
<1>3. ASSUME NEW p \in Pid, ReapChild(p) PROVE HasProcess(s)'
  <2>1. proc' = [proc EXCEPT ![p] = "none"] /\ owner' = [owner EXCEPT ![p] = NoSvc]
    BY <1>3 DEF ReapChild
  <2>2. svc'[s] = svc[s]
    BY <1>3, ReapEach
  \* The service found under the pid is the only one that holds it, and is told.
  <2>3. svc[s].pid # p
    <3> SUFFICES ASSUME svc[s].pid = p PROVE FALSE
      OBVIOUS
    <3>1. svc_by_pid(p) = {s}
      BY DEF svc_by_pid
    <3>2. svc' = [svc EXCEPT ![s] = svc_handle_reaped(@)]
      BY <1>3, <2>2, <3>1 DEF ReapChild
    <3>3. svc[s] \in Service /\ svc_handle_reaped(svc[s]).state = "reaped"
      BY ReapedFields
    <3>4. QED
      BY <3>2, <3>3
  <2>4. QED
    BY <2>1, <2>2, <2>3
<1>4. ASSUME NEW t \in Svc, NEW p \in Pid, RunForked(t, p) PROVE HasProcess(s)'
  <2>1. /\ proc[p] = "none" /\ owner' = [owner EXCEPT ![p] = t]
        /\ proc' = [proc EXCEPT ![p] = "running"]
    BY <1>4 DEF RunForked, svc_do_fork, svc_change_pid, FreePid
  <2>2. svc'[t].pid = p /\ \A u \in Svc \ {t} : svc'[u] = svc[u]
    BY <1>4, ForkedFields
  <2>3. QED
    BY <2>1, <2>2
<1>5. CASE Quiet
  BY <1>5 DEF Quiet, Idle, osVars
<1>6. QED
  BY <1>1, <1>2, <1>3, <1>4, <1>5, PidSteps

\* Whatever pids the operating system hands out, a service that is up keeps the
\* child forked for it, running or to be reaped, until waitpid has reported it and
\* svc_handle_reaped was called, unless another object holds the same pid when
\* svc_by_pid looks for it.
THEOREM PartedBySharing == Spec => PartedOnlyBySharing
<1>1. Init => PidInv
  BY CtorFields DEF Init, PidInv
<1>2. TypeOK /\ PidInv /\ [Next]_vars =>
        [\A s \in Svc : svc'[s].state = "up" /\ ~HasProcess(s)' =>
           \/ svc[s].state = "up" /\ ~HasProcess(s)
           \/ \E t \in Svc \ {s} : svc[t].pid = svc[s].pid]_vars
  BY PartingStep
<1>3. QED
  BY <1>1, <1>2, PidStep, TypeCorrect, PTL DEF Spec, PartedOnlyBySharing

\* svc_send_signal looks at the pid and the wait status alone; the service it
\* calls kill() for is up all the same, though the pid stays in the object after
\* the child was reaped.
THEOREM SignalsReachUpServices == Spec => SignalsUpOnly
<1>1. Init => PidInv
  BY CtorFields DEF Init, PidInv
<1>2. TypeOK /\ PidInv =>
        [\A s \in Svc : ctl_cmd_svc_signal(s) => svc[s].state = "up"]_vars
  BY DEF TypeOK, Service, PidInv, ctl_cmd_svc_signal, Signalled
<1>3. QED
  BY <1>1, <1>2, PidStep, TypeCorrect, PTL DEF Spec, SignalsUpOnly

-----------------------------------------------------------------------------
(***************************************************************************)
(* Times, reports and triggers: four properties from one inductive         *)
(* invariant, a conjunction over the services.                             *)
(***************************************************************************)

\* The times kept in each state, and where in the loop a reaped service is:
\* svc_run has dealt with it when the active list has been walked.
Times(s) ==
  /\ svc[s].state = "start" =>
       svc[s].active /\ svc[s].start_time > 0 /\ svc[s].reap_time = 0
  /\ svc[s].state = "up" =>
       svc[s].start_time > 0 /\ svc[s].start_time <= now /\ svc[s].reap_time = 0
  /\ svc[s].state = "reaped" =>
       /\ svc[s].active
       /\ svc[s].start_time > 0 /\ svc[s].start_time <= now
       /\ svc[s].reap_time > 0 /\ svc[s].reap_time <= now
       /\ phase \in {"reap", "wake", "services"}
       /\ phase = "services" => s \in todo
  /\ svc[s].state = "down" /\ svc[s].start_time # 0 =>
       svc[s].reap_time > 0 /\ svc[s].pid # NoPid

\* wake->next covers each start that svc_run_active has dealt with.
Covered(s) ==
  /\ svc[s].state = "start"
  /\ phase \in {"services", "control", "select"}
  /\ phase = "services" => s \notin todo
  => svc[s].start_time >= now /\ wakeNext <= svc[s].start_time

\* The last service.state event, in every phase.
Told(s) ==
  \/ reported[s] = svc[s].state
  \/ reported[s] = "up" /\ svc[s].state = "reaped"
  \/ reported[s] \in {"none", "deleted"} /\ svc[s].state \in {"undef", "down"}

\* A service that is down and triggered was cancelled; a signal svc_run_active
\* has not seen yet need not have triggered it yet.
Heeded(s) ==
  svc[s].state = "down" /\ origin[s] # "cancel" =>
    /\ ~svc[s].auto_restart
    /\ svc[s].autostart_signals \cap (pending \ unseen) = {}
    /\ phase \in {"services", "control", "select"} =>
         svc[s].autostart_signals \cap pending = {}

\* A restart scheduled by svc_run keeps its distance from the last start.
Spaced(s) ==
  /\ svc[s].state \in {"up", "reaped"} => lastUp[s] = svc[s].start_time
  /\ svc[s].state = "start" /\ origin[s] = "auto" =>
       svc[s].start_time >= lastUp[s] + svc[s].restart_interval

Fine(s) == Times(s) /\ Covered(s) /\ Told(s) /\ Heeded(s) /\ Spaced(s)

ScheduleInv == now > 0 /\ \A s \in Svc : Fine(s)

-----------------------------------------------------------------------------
\* A service whose object and history a step leaves alone stays fine, if the
\* step brings wake->next forward or leaves it.
LEMMA Bystander ==
  ASSUME TypeOK, ScheduleInv, NEW s \in Svc,
         UNCHANGED <<phase, now, pending, unseen>>,
         svc'[s] = svc[s], reported'[s] = reported[s], origin'[s] = origin[s],
         lastUp'[s] = lastUp[s], s \in todo' <=> s \in todo,
         wakeNext' \in Nat, wakeNext' <= wakeNext \/ wakeNext' = now
  PROVE  Fine(s)'
<1>1. Fine(s) /\ now \in Nat /\ wakeNext \in Nat /\ svc[s].start_time \in Nat
  BY DEF ScheduleInv, TypeOK, Service
<1>2. Times(s)' /\ Told(s)' /\ Heeded(s)' /\ Spaced(s)'
  BY <1>1 DEF Fine, Times, Told, Heeded, Spaced
<1>3. Covered(s)'
  <2> SUFFICES ASSUME svc'[s].state = "start", phase' \in {"services", "control", "select"},
                      phase' = "services" => s \notin todo'
               PROVE  svc'[s].start_time >= now' /\ wakeNext' <= svc'[s].start_time
    BY Zenon DEF Covered
  <2>1. /\ svc[s].state = "start" /\ phase \in {"services", "control", "select"}
        /\ phase = "services" => s \notin todo
    OBVIOUS
  <2>2. svc[s].start_time >= now /\ wakeNext <= svc[s].start_time
    BY <1>1, <2>1 DEF Fine, Covered
  <2>3. wakeNext' \in Nat /\ (wakeNext' <= wakeNext \/ wakeNext' = now)
    OBVIOUS
  <2>4. wakeNext' <= svc[s].start_time
    BY ONLY <1>1, <2>2, <2>3
  <2>5. now' = now /\ svc'[s] = svc[s]
    OBVIOUS
  <2> QED
    BY ONLY <2>2, <2>4, <2>5, Zenon
<1>4. QED
  BY <1>2, <1>3 DEF Fine

\* What ctl_notify_svc_state derives from a service that is scheduled, up or
\* down again.
LEMMA NotifyValue ==
  ASSUME NEW r \in Service, now \in Nat
  PROVE  /\ r.start_time = 0 => ctl_notify_svc_state(r) = "down"
         /\ r.start_time > 0 /\ r.start_time >= now /\ r.pid = NoPid =>
              ctl_notify_svc_state(r) = "start"
         /\ r.start_time > 0 /\ r.pid # NoPid /\ r.reap_time = 0 =>
              ctl_notify_svc_state(r) = "up"
         /\ r.start_time > 0 /\ r.pid # NoPid /\ r.reap_time > 0 =>
              ctl_notify_svc_state(r) = "down"
  BY DEF ctl_notify_svc_state, Service

\* A service that was just scheduled for a time not past, with its event sent
\* and wake->next brought forward, is fine, if that time keeps the distance.
LEMMA Scheduled ==
  ASSUME TypeOK, ScheduleInv, NEW s \in Svc, NEW r \in Service, NEW when \in Nat,
         UNCHANGED now, wakeNext' = now \/ (phase' = "services" /\ s \in todo'),
         svc'[s] = svc_handle_start(r, when),
         reported'[s] = ctl_notify_svc_state(svc'[s]),
         origin'[s] = "auto" => Later(when, now) >= lastUp'[s] + r.restart_interval
  PROVE  Fine(s)'
<1>1. now \in Nat /\ now > 0 /\ Later(when, now) \in Nat /\ Later(when, now) >= now
  BY DEF TypeOK, ScheduleInv, Later
<1>2. /\ svc'[s].state = "start" /\ svc'[s].pid = NoPid /\ svc'[s].reap_time = 0
      /\ svc'[s].start_time = Later(when, now) /\ svc'[s].active = TRUE
      /\ svc'[s].restart_interval = r.restart_interval
  <2> DEFINE x == svc_handle_start(r, when)
  <2>1. /\ x.state = "start" /\ x.pid = NoPid /\ x.reap_time = 0
        /\ x.start_time = Later(when, now) /\ x.active = TRUE
        /\ x.restart_interval = r.restart_interval
    BY StartFields
  <2>2. svc'[s] = x
    OBVIOUS
  <2> HIDE DEF x
  <2>3. QED
    BY <2>1, <2>2
<1>3. svc'[s] \in Service
  BY <1>1, StartTyped
<1>4. ctl_notify_svc_state(svc'[s]) = "start"
  BY <1>1, <1>2, <1>3, NotifyValue
<1>5. Times(s)' /\ Heeded(s)'
  BY <1>1, <1>2 DEF Times, Heeded
<1>6. Covered(s)'
  BY <1>1, <1>2 DEF Covered
<1>7. Told(s)'
  BY <1>2, <1>4 DEF Told
<1>8. Spaced(s)'
  BY <1>2 DEF Spaced
<1>9. QED
  BY <1>5, <1>6, <1>7, <1>8 DEF Fine

\* A step that changes one service u and brings wake->next forward, if
\* anything, only has to leave u fine.
Touches(u) ==
  /\ UNCHANGED <<phase, now, pending, unseen>>
  /\ \A t \in Svc \ {u} :
       /\ svc'[t] = svc[t] /\ reported'[t] = reported[t]
       /\ origin'[t] = origin[t] /\ lastUp'[t] = lastUp[t]
       /\ t \in todo' <=> t \in todo
  /\ wakeNext' <= wakeNext \/ wakeNext' = now

\* The invariant after a step that touches one service follows from that
\* service alone.
LEMMA OneService ==
  ASSUME TypeOK, TypeOK', ScheduleInv, NEW u \in Svc, Touches(u), Fine(u)'
  PROVE  ScheduleInv'
<1>1. now' > 0
  BY DEF ScheduleInv, Touches
<1>2. ASSUME NEW t \in Svc \ {u} PROVE Fine(t)'
  <2>1. /\ svc'[t] = svc[t] /\ reported'[t] = reported[t]
        /\ origin'[t] = origin[t] /\ lastUp'[t] = lastUp[t]
        /\ t \in todo' <=> t \in todo
    BY DEF Touches
  <2>2. /\ UNCHANGED <<phase, now, pending, unseen>> /\ wakeNext' \in Nat
        /\ wakeNext' <= wakeNext \/ wakeNext' = now
    BY DEF Touches, TypeOK
  <2>3. QED
    BY <2>1, <2>2, Bystander
<1>3. QED
  BY <1>1, <1>2 DEF ScheduleInv

\* svc_run finds the start not due: wake->next is brought forward to it.
LEMMA WaitingFine ==
  ASSUME TypeOK, TypeOK', ScheduleInv, NEW u \in Svc, RunWaiting(u)
  PROVE  ScheduleInv'
<1>1. /\ svc \in [Svc -> Service] /\ svc[u] \in Service /\ now \in Nat /\ wakeNext \in Nat
      /\ svc[u].start_time \in Nat
  BY DEF TypeOK, Service
<1>2. /\ svc'[u].state = "start" /\ svc'[u].active = TRUE
      /\ svc'[u].start_time = svc[u].start_time /\ svc'[u].reap_time = svc[u].reap_time
      /\ svc'[u].restart_interval = svc[u].restart_interval
  BY <1>1 DEF RunWaiting, Service
<1>3. /\ svc[u].state = "start" /\ svc[u].start_time > now
      /\ wakeNext' = Earlier(wakeNext, svc[u].start_time)
      /\ UNCHANGED <<phase, now, pending, unseen, reported, origin, lastUp>>
      /\ todo' = todo \ {u}
  BY DEF RunWaiting, StartDeadline, signalVars, historyVars
<1>4. Touches(u)
  BY <1>1, <1>3 DEF Touches, RunWaiting, Earlier
<1>5. Fine(u)'
  <2>1. Fine(u)
    BY DEF ScheduleInv
  <2>2. Times(u)' /\ Told(u)' /\ Heeded(u)' /\ Spaced(u)'
    BY <1>2, <1>3, <2>1 DEF Fine, Times, Told, Heeded, Spaced
  <2>3. Covered(u)'
    BY <1>1, <1>2, <1>3 DEF Covered, Earlier
  <2>4. QED
    BY <2>2, <2>3 DEF Fine
<1>6. QED
  BY <1>4, <1>5, OneService

\* svc_run forks: the service is up from now on, and the controllers are told.
LEMMA ForkedFine ==
  ASSUME TypeOK, TypeOK', ScheduleInv, NEW u \in Svc, NEW p \in Pid, RunForked(u, p)
  PROVE  ScheduleInv'
<1>1. svc'[u] \in Service /\ now \in Nat /\ now > 0 /\ p # NoPid
  BY ServiceAssumption DEF TypeOK, ScheduleInv
<1>2. /\ svc'[u].state = "up" /\ svc'[u].pid = p /\ svc'[u].start_time = now
      /\ svc'[u].reap_time = 0
  <2>1. svc[u].reap_time = 0
    BY DEF ScheduleInv, Fine, Times, RunForked
  <2>2. QED
    BY <2>1, ForkedFields
<1>3. /\ UNCHANGED <<phase, now, wakeNext, pending, unseen, origin>> /\ todo' = todo \ {u}
      /\ reported' = [reported EXCEPT ![u] = ctl_notify_svc_state(svc'[u])]
      /\ lastUp' = [lastUp EXCEPT ![u] = now]
  BY DEF RunForked, signalVars
<1>4. reported'[u] = "up" /\ lastUp'[u] = now
  <2>1. ctl_notify_svc_state(svc'[u]) = "up"
    BY <1>1, <1>2, NotifyValue
  <2>2. QED
    BY <1>3, <2>1 DEF TypeOK
<1>5. Touches(u)
  BY <1>3, ForkedFields DEF Touches, TypeOK
<1>6. Fine(u)'
  BY <1>1, <1>2, <1>3, <1>4 DEF Fine, Times, Covered, Told, Heeded, Spaced
<1>7. QED
  BY <1>5, <1>6, OneService

\* The fork failed: the start is put off, which keeps the distance an automatic
\* restart already had.
LEMMA ForkFailedFine ==
  ASSUME TypeOK, TypeOK', ScheduleInv, NEW u \in Svc, RunForkFailed(u)
  PROVE  ScheduleInv'
<1>1. svc \in [Svc -> Service] /\ svc[u] \in Service /\ now \in Nat /\ ForkRetry \in Nat
  BY ServiceAssumption DEF TypeOK, ForkRetry
<1>2. /\ UNCHANGED <<phase, now, pending, unseen, origin, lastUp>> /\ wakeNext' = now
      /\ svc[u].state = "start" /\ svc[u].start_time <= now /\ todo' = todo \ {u}
      /\ svc' = [svc EXCEPT ![u] = svc_handle_start(svc[u], ForkRetry)]
      /\ reported' = [reported EXCEPT ![u] = ctl_notify_svc_state(svc'[u])]
  BY DEF RunForkFailed, signalVars
<1>3. /\ svc'[u] = svc_handle_start(svc[u], ForkRetry)
      /\ reported'[u] = ctl_notify_svc_state(svc'[u])
  BY <1>1, <1>2 DEF TypeOK
<1>4. origin'[u] = "auto" => Later(ForkRetry, now) >= lastUp'[u] + svc[u].restart_interval
  <2>1. /\ svc[u].start_time \in Nat /\ svc[u].restart_interval \in Nat /\ lastUp[u] \in Nat
        /\ Later(ForkRetry, now) \in Nat /\ Later(ForkRetry, now) >= now
    BY <1>1 DEF TypeOK, Service, Later
  <2>2. origin[u] = "auto" => svc[u].start_time >= lastUp[u] + svc[u].restart_interval
    BY <1>2 DEF ScheduleInv, Fine, Spaced
  <2>3. origin'[u] = origin[u] /\ lastUp'[u] = lastUp[u] /\ svc[u].start_time <= now
    BY <1>2
  <2>4. QED
    BY <1>1, <2>1, <2>2, <2>3
<1>5. Touches(u)
  BY <1>1, <1>2 DEF Touches, TypeOK
<1>6. Fine(u)'
  BY <1>1, <1>2, <1>3, <1>4, Scheduled
<1>7. QED
  BY <1>5, <1>6, OneService

\* The time svc_run sets for a restart is at least the interval after the
\* service last came up, whether the delay is needed or not.
LEMMA RestartDistance ==
  ASSUME TypeOK, ScheduleInv, NEW u \in Svc, svc[u].state = "reaped"
  PROVE  /\ RestartTime(svc[u]) \in Nat
         /\ Later(RestartTime(svc[u]), now) >= lastUp[u] + svc[u].restart_interval
<1>1. /\ svc[u] \in Service /\ svc[u].start_time \in Nat /\ svc[u].reap_time \in Nat
      /\ svc[u].restart_interval \in Nat /\ now \in Nat
  BY DEF TypeOK, Service
<1>2. lastUp[u] = svc[u].start_time /\ svc[u].start_time <= now /\ svc[u].reap_time <= now
  BY DEF ScheduleInv, Fine, Times, Spaced
<1>3. RestartTime(svc[u]) \in Nat /\ RestartTime(svc[u]) >= svc[u].start_time + svc[u].restart_interval
  BY <1>1, <1>2 DEF RestartTime
<1>4. QED
  BY <1>1, <1>2, <1>3 DEF Later

\* svc_run on a reaped service: it is scheduled again, or goes down because no
\* trigger is true.
LEMMA ReapedFine ==
  ASSUME TypeOK, TypeOK', PidInv, ScheduleInv, NEW u \in Svc, RunReaped(u)
  PROVE  ScheduleInv'
<1> DEFINE down == [svc[u] EXCEPT !.state = "down", !.active = FALSE]
           next == svc_handle_start(svc[u], RestartTime(svc[u]))
<1>1. /\ svc \in [Svc -> Service] /\ svc[u] \in Service /\ now \in Nat
      /\ wakeNext \in Nat /\ down \in Service /\ reported \in [Svc -> Reports] /\ origin \in [Svc -> Origins]
  BY CancelTyped DEF TypeOK
<1>2. /\ UNCHANGED <<phase, now, pending, unseen, lastUp>> /\ phase = "services"
      /\ svc[u].state = "reaped"
      /\ reported' = [reported EXCEPT ![u] = ctl_notify_svc_state(svc'[u])]
  BY DEF RunReaped, signalVars
<1>3. reported'[u] = ctl_notify_svc_state(svc'[u])
  BY <1>1, <1>2
<1>4. CASE Triggered(svc[u])
  <2>1. /\ svc' = [svc EXCEPT ![u] = next] /\ origin' = [origin EXCEPT ![u] = "auto"]
        /\ wakeNext' = now /\ todo' \in {todo, todo \ {u}}
    BY <1>4 DEF RunReaped
  <2> HIDE DEF next
  <2>2. Touches(u)
    BY <1>1, <1>2, <2>1 DEF Touches
  <2>3. svc'[u] = svc_handle_start(svc[u], RestartTime(svc[u])) /\ lastUp'[u] = lastUp[u]
    BY <1>1, <1>2, <2>1 DEF next
  <2>4. Fine(u)'
    BY <1>1, <1>2, <1>3, <2>1, <2>3, RestartDistance, Scheduled
  <2>5. QED
    BY <2>2, <2>4, OneService
<1>5. CASE ~Triggered(svc[u])
  <2>1. /\ svc' = [svc EXCEPT ![u] = down] /\ todo' = todo \ {u}
        /\ UNCHANGED <<origin, wakeNext>>
    BY <1>5 DEF RunReaped
  <2>2. /\ down.state = "down" /\ down.pid = svc[u].pid
        /\ down.start_time = svc[u].start_time /\ down.reap_time = svc[u].reap_time
        /\ down.auto_restart = svc[u].auto_restart
        /\ down.autostart_signals = svc[u].autostart_signals
    BY <1>1 DEF Service
  <2> HIDE DEF down
  <2>3. svc'[u] = down
    BY <1>1, <2>1
  <2>4. Touches(u)
    BY <1>1, <1>2, <2>1 DEF Touches
  <2>5. svc[u].pid # NoPid /\ svc[u].start_time > 0 /\ svc[u].reap_time > 0
    BY <1>2, ServiceAssumption DEF PidInv, ScheduleInv, Fine, Times
  <2>6. ctl_notify_svc_state(down) = "down"
    BY <1>1, <2>2, <2>5, NotifyValue
  <2>7. ~svc[u].auto_restart /\ svc[u].autostart_signals \cap pending = {}
    BY <1>5 DEF Triggered, svc_check_sigwake
  <2>8. Fine(u)'
    BY <1>2, <1>3, <2>2, <2>3, <2>5, <2>6, <2>7
    DEF Fine, Times, Covered, Told, Heeded, Spaced
  <2>9. QED
    BY <2>4, <2>8, OneService
<1>6. QED
  BY <1>4, <1>5

\* waitpid reports the child of a service that is up: it waits, reaped, for
\* svc_run.
LEMMA ReapChildFine ==
  ASSUME TypeOK, TypeOK', ScheduleInv, NEW p \in Pid, ReapChild(p)
  PROVE  ScheduleInv'
<1>1. /\ UNCHANGED <<phase, now, todo, pending, unseen, reported, origin, lastUp>>
      /\ phase = "reap" /\ now \in Nat /\ now > 0 /\ wakeNext' \in {wakeNext, now}
  BY DEF ReapChild, signalVars, historyVars, TypeOK, ScheduleInv
<1>2. ASSUME NEW s \in Svc PROVE Fine(s)'
  <2>1. Fine(s)
    BY DEF ScheduleInv
  <2>2. \/ svc'[s] = svc[s]
        \/ /\ svc[s].state = "up" /\ svc'[s].state = "reaped"
           /\ svc'[s].start_time = svc[s].start_time /\ svc'[s].reap_time = now
           /\ svc'[s].active
    BY ReapEach
  <2>3. CASE svc'[s] = svc[s]
    BY <1>1, <2>1, <2>3 DEF Fine, Times, Covered, Told, Heeded, Spaced
  <2>4. CASE /\ svc[s].state = "up" /\ svc'[s].state = "reaped"
             /\ svc'[s].start_time = svc[s].start_time /\ svc'[s].reap_time = now
             /\ svc'[s].active
    <3>1. reported[s] = "up"
      BY <2>1, <2>4 DEF Fine, Told
    <3>2. QED
      BY <1>1, <2>1, <2>4, <3>1 DEF Fine, Times, Covered, Told, Heeded, Spaced
  <2>5. QED
    BY <2>2, <2>3, <2>4
<1>3. QED
  BY <1>1, <1>2 DEF ScheduleInv

\* New signals start the services they trigger; the other ones that are down
\* are not triggered, and the walk of the active list begins.
LEMMA WakeFine ==
  ASSUME TypeOK, TypeOK', ScheduleInv, WakeBySignals
  PROVE  ScheduleInv'
<1> DEFINE woken == {s \in Svc : /\ svc[s].autostart_signals \cap unseen # {}
                                 /\ Startable(svc[s])}
<1>1. /\ now \in Nat /\ now > 0 /\ svc \in [Svc -> Service]
      /\ UNCHANGED <<now, pending, lastUp>> /\ phase = "wake" /\ phase' = "services"
  BY DEF TypeOK, ScheduleInv, WakeBySignals
<1>2. ASSUME NEW s \in Svc, s \in woken PROVE Fine(s)'
  <2>1. svc'[s] = svc_handle_start(svc[s], now) /\ origin'[s] = "signal" /\ wakeNext' = now
    BY <1>2 DEF WakeBySignals
  <2>2. reported'[s] = ctl_notify_svc_state(svc'[s])
    BY <1>2, <2>1 DEF WakeBySignals
  <2>3. svc[s] \in Service
    BY <1>1
  <2>4. QED
    BY <1>1, <2>1, <2>2, <2>3, Scheduled
<1>3. ASSUME NEW s \in Svc, s \notin woken PROVE Fine(s)'
  <2>1. svc'[s] = svc[s] /\ reported'[s] = reported[s] /\ origin'[s] = origin[s]
    BY <1>3 DEF WakeBySignals
  <2>2. s \in todo' <=> svc[s].active
    BY <1>3, <2>1 DEF WakeBySignals
  <2>3. svc[s].state = "down" => svc[s].autostart_signals \cap unseen = {}
    BY <1>3 DEF Startable
  <2>4. unseen' \subseteq unseen /\ unseen \subseteq pending
    BY DEF WakeBySignals, TypeOK
  <2>5. Fine(s)
    BY DEF ScheduleInv
  <2>6. Times(s)' /\ Told(s)' /\ Spaced(s)'
    BY <1>1, <2>1, <2>2, <2>5 DEF Fine, Times, Told, Spaced
  <2>7. Covered(s)'
    BY <1>1, <2>1, <2>2, <2>5 DEF Fine, Times, Covered
  <2>8. Heeded(s)'
    BY <1>1, <2>1, <2>3, <2>4, <2>5 DEF Fine, Heeded
  <2>9. QED
    BY <2>6, <2>7, <2>8 DEF Fine
<1>4. QED
  BY <1>1, <1>2, <1>3 DEF ScheduleInv

\* The steps that leave every service and what was reported of it alone: the
\* loop moves on, signals are merged or cleared, and time passes in select().
LEMMA PassingFine ==
  ASSUME TypeOK, ScheduleInv,
         \/ sig_run \/ merge_new_signals \/ ReapDone \/ ServicesDone \/ ControlDone
         \/ \E g \in Sig : ctl_cmd_signal_clear(g)
         \/ \E t \in now .. MaxTime : SelectReturns(t)
  PROVE  ScheduleInv'
<1>1. UNCHANGED <<svc, reported, origin, lastUp, todo>>
  BY DEF sig_run, merge_new_signals, ReapDone, ServicesDone, ControlDone,
         ctl_cmd_signal_clear, SelectReturns, historyVars
<1>2. /\ now \in Nat /\ now' \in Nat /\ now' >= now
      /\ now' = now \/ (phase = "select" /\ phase' = "drain")
  BY DEF sig_run, merge_new_signals, ReapDone, ServicesDone, ControlDone,
         ctl_cmd_signal_clear, SelectReturns, TypeOK
<1>3. /\ phase = "select" => phase' = "drain"
      /\ phase' \in {"control", "select"} =>
           phase \in {"control", "select"} \/ (phase = "services" /\ todo = {})
      /\ phase' = "services" => phase = "services"
      /\ phase' \in {"control", "select"} => UNCHANGED <<now, wakeNext>>
      /\ phase = "services" => phase' = "control" /\ todo = {}
  BY DEF sig_run, merge_new_signals, ReapDone, ServicesDone, ControlDone,
         ctl_cmd_signal_clear, SelectReturns
<1>4. /\ pending' \ unseen' \subseteq pending \ unseen
      /\ phase' \in {"services", "control", "select"} =>
           pending' \subseteq pending /\ phase \in {"services", "control", "select"}
  BY DEF sig_run, merge_new_signals, ReapDone, ServicesDone, ControlDone,
         ctl_cmd_signal_clear, SelectReturns, signalVars, TypeOK
<1>5. phase \in {"reap", "wake"} => phase' \in {"reap", "wake"}
  BY DEF sig_run, merge_new_signals, ReapDone, ServicesDone, ControlDone,
         ctl_cmd_signal_clear, SelectReturns
<1>6. ASSUME NEW s \in Svc PROVE Fine(s)'
  <2>1. Fine(s) /\ svc[s] \in Service /\ svc[s].start_time \in Nat /\ svc[s].reap_time \in Nat
    BY DEF ScheduleInv, TypeOK, Service
  <2>2. Times(s)'
    BY <1>1, <1>2, <1>3, <1>5, <2>1 DEF Fine, Times
  <2>3. Covered(s)'
    BY <1>1, <1>2, <1>3, <2>1 DEF Fine, Covered
  <2>4. Told(s)' /\ Spaced(s)'
    BY <1>1, <2>1 DEF Fine, Told, Spaced
  <2>5. Heeded(s)'
    BY <1>1, <1>4, <2>1 DEF Fine, Heeded
  <2>6. QED
    BY <2>2, <2>3, <2>4, <2>5 DEF Fine
<1>7. QED
  BY <1>2, <1>6 DEF ScheduleInv

-----------------------------------------------------------------------------
(***************************************************************************)
(* The commands.                                                           *)
(***************************************************************************)

\* A new service has no triggers and no times.
LEMMA CreateFine ==
  ASSUME TypeOK, TypeOK', ScheduleInv, NEW u \in Svc, CreateService(u)
  PROVE  ScheduleInv'
<1>1. /\ UNCHANGED <<phase, now, wakeNext, todo, pending, unseen, reported, origin, lastUp>>
      /\ svc[u].state = "undef" /\ svc' = [svc EXCEPT ![u] = svc_ctor] /\ wakeNext \in Nat
  BY DEF CreateService, Exists, signalVars, historyVars, TypeOK
<1>2. svc'[u] = svc_ctor
  BY <1>1 DEF TypeOK
<1>3. Touches(u)
  BY <1>1 DEF Touches, TypeOK
<1>4. reported[u] \in {"none", "deleted"}
  BY <1>1 DEF ScheduleInv, Fine, Told, TypeOK, Reports
<1>5. Fine(u)'
  BY <1>1, <1>2, <1>4, CtorFields DEF Fine, Times, Covered, Told, Heeded, Spaced
<1>6. QED
  BY <1>3, <1>5, OneService

\* service.start: the start is scheduled, and wake->next is now.
LEMMA StartFine ==
  ASSUME TypeOK, TypeOK', ScheduleInv, NEW u \in Svc, NEW when \in now .. MaxTime,
         ctl_cmd_svc_start(u, when)
  PROVE  ScheduleInv'
<1>1. svc \in [Svc -> Service] /\ svc[u] \in Service /\ when \in Nat
  BY DEF TypeOK
<1>2. /\ UNCHANGED <<phase, now, todo, pending, unseen, lastUp>> /\ wakeNext' = now
      /\ svc' = [svc EXCEPT ![u] = svc_handle_start(svc[u], when)]
      /\ reported' = [reported EXCEPT ![u] = ctl_notify_svc_state(svc'[u])]
      /\ origin' = [origin EXCEPT ![u] = "command"]
  BY DEF ctl_cmd_svc_start, signalVars
<1>3. /\ svc'[u] = svc_handle_start(svc[u], when) /\ origin'[u] = "command"
      /\ reported'[u] = ctl_notify_svc_state(svc'[u])
  BY <1>1, <1>2 DEF TypeOK
<1>4. Touches(u)
  BY <1>1, <1>2 DEF Touches, TypeOK
<1>5. Fine(u)'
  BY <1>1, <1>2, <1>3, Scheduled
<1>6. QED
  BY <1>4, <1>5, OneService

\* service.start with "-": the service is down and has no start time.
LEMMA CancelFine ==
  ASSUME TypeOK, TypeOK', ScheduleInv, NEW u \in Svc, ctl_cmd_svc_start_cancel(u)
  PROVE  ScheduleInv'
<1>1. /\ svc \in [Svc -> Service] /\ svc[u] \in Service /\ now \in Nat /\ wakeNext \in Nat
      /\ svc_cancel_start(svc[u]) \in Service
  BY CancelTyped DEF TypeOK
<1>2. /\ UNCHANGED <<phase, now, wakeNext, todo, pending, unseen, lastUp>>
      /\ svc' = [svc EXCEPT ![u] = svc_cancel_start(svc[u])]
      /\ reported' = [reported EXCEPT ![u] = ctl_notify_svc_state(svc'[u])]
      /\ origin' = [origin EXCEPT ![u] = "cancel"]
  BY DEF ctl_cmd_svc_start_cancel, signalVars
<1>3. /\ svc'[u] = svc_cancel_start(svc[u]) /\ origin'[u] = "cancel"
      /\ reported'[u] = ctl_notify_svc_state(svc'[u])
  BY <1>1, <1>2 DEF TypeOK
<1>4. svc'[u].state = "down" /\ svc'[u].start_time = 0
  BY <1>1, <1>3 DEF svc_cancel_start, Service
<1>5. reported'[u] = "down"
  BY <1>1, <1>3, <1>4, NotifyValue
<1>6. Touches(u)
  BY <1>1, <1>2 DEF Touches, TypeOK
<1>7. Fine(u)'
  BY <1>3, <1>4, <1>5 DEF Fine, Times, Covered, Told, Heeded, Spaced
<1>8. QED
  BY <1>6, <1>7, OneService

\* A service found or made by name, with another interval or other triggers:
\* its state and times are those it had, or those of a new one.
LEMMA ChangedFine ==
  ASSUME TypeOK, ScheduleInv, NEW u \in Svc, phase = "control",
         UNCHANGED <<phase, now, wakeNext, todo, lastUp, pending, unseen>>,
         svc'[u].state = FoundOrNew(u).state,
         svc'[u].pid = FoundOrNew(u).pid,
         svc'[u].start_time = FoundOrNew(u).start_time,
         svc'[u].reap_time = FoundOrNew(u).reap_time,
         svc'[u].active = FoundOrNew(u).active,
         reported'[u] = reported[u], origin'[u] # "auto",
         Heeded(u)'
  PROVE  Fine(u)'
<1>1. Fine(u)
  BY DEF ScheduleInv
<1>2. CASE Exists(u)
  <2>1. FoundOrNew(u) = svc[u]
    BY <1>2 DEF FoundOrNew
  <2>2. QED
    BY <1>1, <2>1 DEF Fine, Times, Covered, Told, Spaced
<1>3. CASE ~Exists(u)
  <2>1. svc[u].state = "undef" /\ svc'[u].state = "down" /\ svc'[u].start_time = 0
    BY <1>3, CtorFields DEF FoundOrNew, Exists
  <2>2. reported[u] \in {"none", "deleted"}
    BY <1>1, <2>1 DEF Fine, Told, TypeOK, Reports
  <2>3. QED
    BY <2>1, <2>2 DEF Fine, Times, Covered, Told, Spaced
<1>4. QED
  BY <1>2, <1>3

\* service.auto_up: a service that is startable while a trigger is true is
\* started at once, so one left down has no true trigger.
LEMMA AutoUpFine ==
  ASSUME TypeOK, TypeOK', ScheduleInv, NEW u \in Svc, NEW always \in BOOLEAN,
         NEW sigs \in SUBSET Sig,
         NEW interval \in Interval \cup {FoundOrNew(u).restart_interval},
         ctl_cmd_svc_auto_up(u, interval, always, sigs)
  PROVE  ScheduleInv'
<1> DEFINE r == FoundOrNew(u)
           set == [r EXCEPT !.restart_interval = interval, !.auto_restart = always,
                            !.autostart_signals = sigs]
           start == Triggered(set) /\ Startable(set)
           next == IF start THEN svc_handle_start(set, now) ELSE set
<1>1. r \in Service /\ interval \in Nat /\ now \in Nat /\ wakeNext \in Nat
  BY FoundTyped, IntervalTyped DEF TypeOK
<1>2. /\ UNCHANGED <<phase, now, todo, pending, unseen, lastUp>> /\ phase = "control"
      /\ svc' = [svc EXCEPT ![u] = next]
      /\ reported' = [reported EXCEPT ![u] = IF start THEN ctl_notify_svc_state(next) ELSE @]
      /\ origin' = [origin EXCEPT ![u] = "auto_up"]
      /\ wakeNext' = IF start THEN now ELSE wakeNext
  BY DEF ctl_cmd_svc_auto_up, signalVars
<1> HIDE DEF r
<1>3. /\ set \in Service /\ set.state = r.state /\ set.pid = r.pid
      /\ set.start_time = r.start_time /\ set.reap_time = r.reap_time
      /\ set.active = r.active /\ set.auto_restart = always /\ set.autostart_signals = sigs
  BY <1>1 DEF Service
<1> HIDE DEF set, start, next
<1>4. /\ svc'[u] = next /\ origin'[u] = "auto_up"
      /\ reported'[u] = IF start THEN ctl_notify_svc_state(next) ELSE reported[u]
  BY <1>2 DEF TypeOK
<1>5. Touches(u)
  BY <1>1, <1>2 DEF Touches, TypeOK
<1>6. CASE start
  <2>1. svc'[u] = svc_handle_start(set, now) /\ reported'[u] = ctl_notify_svc_state(svc'[u])
    BY <1>4, <1>6 DEF next
  <2>2. wakeNext' = now /\ UNCHANGED now
    BY <1>2, <1>6
  <2>3. Fine(u)'
    BY <1>1, <1>3, <1>4, <2>1, <2>2, Scheduled
  <2>4. QED
    BY <1>5, <2>3, OneService
<1>7. CASE ~start
  <2>1. svc'[u] = set /\ reported'[u] = reported[u] /\ UNCHANGED wakeNext
    BY <1>2, <1>4, <1>7 DEF next
  <2>2. set.state = "down" => ~set.auto_restart /\ set.autostart_signals \cap pending = {}
    BY <1>7 DEF start, Triggered, svc_check_sigwake, Startable
  <2>3. Heeded(u)'
    BY <1>2, <2>1, <2>2 DEF Heeded
  <2>4. Fine(u)'
    BY <1>2, <1>3, <1>4, <2>1, <2>3, ChangedFine DEF r
  <2>5. QED
    BY <1>5, <2>4, OneService
<1>8. QED
  BY <1>6, <1>7

\* service.auto_up that fails has changed the interval: the start it had
\* scheduled no longer counts as one that keeps the interval.
LEMMA AutoUpFailsFine ==
  ASSUME TypeOK, TypeOK', ScheduleInv, NEW u \in Svc, NEW interval \in Interval,
         ctl_cmd_svc_auto_up_fails(u, interval)
  PROVE  ScheduleInv'
<1> DEFINE set == [FoundOrNew(u) EXCEPT !.restart_interval = interval]
<1>1. FoundOrNew(u) \in Service /\ wakeNext \in Nat
  BY FoundTyped DEF TypeOK
<1>2. /\ UNCHANGED <<phase, now, wakeNext, todo, pending, unseen, reported, lastUp>>
      /\ phase = "control" /\ svc' = [svc EXCEPT ![u] = set]
      /\ origin' = [origin EXCEPT ![u] = IF @ = "auto" THEN "auto_up" ELSE @]
  BY DEF ctl_cmd_svc_auto_up_fails, signalVars
<1>3. /\ set.state = FoundOrNew(u).state /\ set.pid = FoundOrNew(u).pid
      /\ set.start_time = FoundOrNew(u).start_time /\ set.reap_time = FoundOrNew(u).reap_time
      /\ set.active = FoundOrNew(u).active /\ set.auto_restart = FoundOrNew(u).auto_restart
      /\ set.autostart_signals = FoundOrNew(u).autostart_signals
  BY <1>1 DEF Service
<1> HIDE DEF set
<1>4. svc'[u] = set /\ origin'[u] # "auto" /\ (origin'[u] # "cancel" => origin[u] # "cancel")
  BY <1>2 DEF TypeOK
<1>5. Touches(u)
  BY <1>1, <1>2 DEF Touches, TypeOK
<1>6. Heeded(u)'
  <2>1. CASE Exists(u)
    BY <1>2, <1>3, <1>4, <2>1 DEF FoundOrNew, ScheduleInv, Fine, Heeded
  <2>2. CASE ~Exists(u)
    BY <1>3, <1>4, <2>2, CtorFields DEF FoundOrNew, Heeded
  <2>3. QED
    BY <2>1, <2>2
<1>7. Fine(u)'
  BY <1>2, <1>3, <1>4, <1>6, ChangedFine
<1>8. QED
  BY <1>5, <1>7, OneService

\* service.delete: nothing is left of the service but the report.
LEMMA DeleteFine ==
  ASSUME TypeOK, TypeOK', ScheduleInv, NEW u \in Svc, ctl_cmd_svc_delete(u)
  PROVE  ScheduleInv'
<1>1. /\ UNCHANGED <<phase, now, wakeNext, todo, pending, unseen>> /\ wakeNext \in Nat
      /\ svc' = [svc EXCEPT ![u] = NoService]
      /\ reported' = [reported EXCEPT ![u] = "deleted"]
      /\ origin' = [origin EXCEPT ![u] = "none"] /\ lastUp' = [lastUp EXCEPT ![u] = 0]
  BY DEF ctl_cmd_svc_delete, signalVars, TypeOK
<1>2. svc'[u].state = "undef" /\ reported'[u] = "deleted"
  BY <1>1, CtorFields DEF TypeOK
<1>3. Touches(u)
  BY <1>1 DEF Touches, TypeOK
<1>4. Fine(u)'
  BY <1>2 DEF Fine, Times, Covered, Told, Heeded, Spaced
<1>5. QED
  BY <1>3, <1>4, OneService

-----------------------------------------------------------------------------
\* Every step of the loop, of the commands and of the environment preserves the
\* invariant.
LEMMA ScheduleStep == TypeOK /\ PidInv /\ ScheduleInv /\ [Next]_vars => ScheduleInv'
<1> SUFFICES ASSUME TypeOK, PidInv, ScheduleInv, [Next]_vars PROVE ScheduleInv'
  OBVIOUS
<1>1. TypeOK'
  BY NextTyped
<1>2. ASSUME UNCHANGED <<phase, now, wakeNext, svc, todo, pending, unseen, historyVars>>
      PROVE  ScheduleInv'
  BY <1>2 DEF ScheduleInv, Fine, Times, Covered, Told, Heeded, Spaced, historyVars
<1>3. CASE Environment \/ \E s \in Svc : ctl_cmd_svc_signal(s)
  BY <1>2, <1>3 DEF Environment, OrphanAdopted, ChildExits, SignalArrives,
                    ctl_cmd_svc_signal, signalVars
<1>4. ASSUME NEW p \in Pid, ReapChild(p) PROVE ScheduleInv'
  BY <1>1, <1>4, ReapChildFine
<1>5. CASE WakeBySignals
  BY <1>1, <1>5, WakeFine
<1>6. ASSUME NEW s \in Svc, RunService(s) PROVE ScheduleInv'
  BY <1>1, <1>6, WaitingFine, ForkedFine, ForkFailedFine, ReapedFine DEF RunService
<1>7. ASSUME NEW s \in Svc, CreateService(s) \/ ctl_cmd_svc_start_cancel(s) \/ ctl_cmd_svc_delete(s)
      PROVE  ScheduleInv'
  BY <1>1, <1>7, CreateFine, CancelFine, DeleteFine
<1>8. ASSUME NEW s \in Svc, NEW when \in now .. MaxTime, ctl_cmd_svc_start(s, when)
      PROVE  ScheduleInv'
  BY <1>1, <1>8, StartFine
<1>9. ASSUME NEW s \in Svc, NEW always \in BOOLEAN, NEW sigs \in SUBSET Sig,
             NEW interval \in Interval \cup {FoundOrNew(s).restart_interval},
             ctl_cmd_svc_auto_up(s, interval, always, sigs)
      PROVE  ScheduleInv'
  BY <1>1, <1>9, AutoUpFine
<1>10. ASSUME NEW s \in Svc, NEW interval \in Interval, ctl_cmd_svc_auto_up_fails(s, interval)
       PROVE  ScheduleInv'
  BY <1>1, <1>10, AutoUpFailsFine
<1>11. CASE \/ sig_run \/ merge_new_signals \/ ReapDone \/ ServicesDone \/ ControlDone
            \/ \E g \in Sig : ctl_cmd_signal_clear(g)
            \/ \E t \in now .. MaxTime : SelectReturns(t)
  BY <1>11, PassingFine
<1>12. CASE UNCHANGED vars
  BY <1>2, <1>12 DEF vars, signalVars
<1>13. QED
  BY <1>3, <1>4, <1>5, <1>6, <1>7, <1>8, <1>9, <1>10, <1>11, <1>12
  DEF Next, Loop, Command, SelectWakes, SelectOther

\* The invariant holds of the initial state, where there is no service.
LEMMA ScheduleInit == Init => PidInv /\ ScheduleInv
<1> SUFFICES ASSUME Init PROVE PidInv /\ ScheduleInv
  OBVIOUS
<1>1. \A s \in Svc : svc[s] = NoService /\ reported[s] = "none"
  BY DEF Init
<1>2. PidInv
  BY <1>1, CtorFields DEF PidInv, NoService, svc_ctor
<1>3. ScheduleInv
  BY <1>1, CtorFields DEF Init, ScheduleInv, Fine, Times, Covered, Told, Heeded, Spaced
<1>4. QED
  BY <1>2, <1>3

\* select() never sleeps past the start time of a service, whatever cancelled,
\* failed or repeated starts came before: every scheduled service is on the
\* active list and wake->next is no later than its start.
THEOREM StartsCovered == Spec => []DeadlineCovered
<1>1. ScheduleInv => DeadlineCovered
  BY DEF ScheduleInv, Fine, Times, Covered, DeadlineCovered
<1>2. QED
  BY <1>1, ScheduleInit, ScheduleStep, PidStep, TypeCorrect, PTL DEF Spec

\* Between passes of the loop the controllers have been told the state of
\* every service, and a statedump would say the same.
THEOREM ReportsAccurate == Spec => []ReportAccurate
<1>1. TypeOK /\ PidInv /\ ScheduleInv => ReportAccurate
  <2> SUFFICES ASSUME TypeOK, PidInv, ScheduleInv, phase \in {"control", "select"}, NEW s \in Svc
               PROVE  /\ Exists(s) => ctl_notify_svc_state(svc[s]) = svc[s].state
                      /\ \/ reported[s] = svc[s].state
                         \/ /\ reported[s] \in {"none", "deleted"}
                            /\ svc[s].state \in {"undef", "down"}
    BY DEF ReportAccurate
  <2>1. /\ svc[s] \in Service /\ now \in Nat /\ Fine(s) /\ svc[s].start_time \in Nat
        /\ svc[s].state \in States
    BY DEF TypeOK, ScheduleInv, Service
  <2>2. svc[s].state # "reaped"
    BY <2>1 DEF Fine, Times
  <2>3. Exists(s) => svc[s].state \in {"down", "start", "up"}
    BY <2>1, <2>2 DEF Exists, States
  <2>4. svc[s].state = "down" => ctl_notify_svc_state(svc[s]) = "down"
    BY <2>1, NotifyValue DEF Fine, Times
  <2>5. svc[s].state = "start" => ctl_notify_svc_state(svc[s]) = "start"
    BY <2>1, NotifyValue DEF Fine, Times, Covered, PidInv
  <2>6. svc[s].state = "up" => ctl_notify_svc_state(svc[s]) = "up"
    BY <2>1, NotifyValue, ServiceAssumption DEF Fine, Times, PidInv
  <2>7. QED
    BY <2>1, <2>2, <2>3, <2>4, <2>5, <2>6 DEF Fine, Told
<1>2. QED
  BY <1>1, ScheduleInit, ScheduleStep, PidStep, TypeCorrect, PTL DEF Spec

\* No trigger is lost between signals, exits, signal.clear and auto_up: a
\* service that is down with a true trigger is one whose start was cancelled.
THEOREM TriggersHonoured == Spec => []TriggerHonoured
<1>1. ScheduleInv => TriggerHonoured
  BY DEF ScheduleInv, Fine, Heeded, TriggerHonoured
<1>2. QED
  BY <1>1, ScheduleInit, ScheduleStep, PidStep, TypeCorrect, PTL DEF Spec

\* Only a fork takes a service from START to UP.
LEMMA ForkedByRun ==
  ASSUME TypeOK, PidInv, [Next]_vars, NEW s \in Svc, Forked(s)
  PROVE  \E p \in Pid : RunForked(s, p)
<1>1. CASE \E p \in Pid : OrphanAdopted(p) \/ ChildExits(p)
  BY <1>1 DEF OrphanAdopted, ChildExits, Forked
<1>2. CASE \E p \in Pid : ReapChild(p)
  BY <1>2, ReapEach DEF Forked
<1>3. ASSUME NEW u \in Svc, NEW p \in Pid, RunForked(u, p) PROVE RunForked(s, p)
  BY <1>3, ForkedFields DEF Forked
<1>4. CASE Quiet
  BY <1>4 DEF Quiet, Idle, Forked
<1>5. QED
  BY <1>1, <1>2, <1>3, <1>4, PidSteps

\* An automatic restart comes up no sooner than the interval after the service
\* last came up, failed forks and other wakeups included.
THEOREM RestartsSpaced == Spec => RestartSpacing
<1> DEFINE Spacing == \A s \in Svc : Forked(s) /\ origin[s] = "auto" =>
                        now - lastUp[s] >= svc[s].restart_interval
<1>1. TypeOK /\ PidInv /\ ScheduleInv /\ [Next]_vars => Spacing
  <2> SUFFICES ASSUME TypeOK, PidInv, ScheduleInv, [Next]_vars, NEW s \in Svc,
                      Forked(s), origin[s] = "auto"
               PROVE  now - lastUp[s] >= svc[s].restart_interval
    OBVIOUS
  <2>1. svc[s].state = "start" /\ svc[s].start_time <= now
    BY ForkedByRun DEF RunForked
  <2>2. svc[s].start_time >= lastUp[s] + svc[s].restart_interval
    BY <2>1 DEF ScheduleInv, Fine, Spaced
  <2>3. /\ svc[s] \in Service /\ svc[s].start_time \in Nat
        /\ svc[s].restart_interval \in Nat /\ lastUp[s] \in Nat /\ now \in Nat
    BY DEF TypeOK, Service
  <2>4. QED
    BY <2>1, <2>2, <2>3
<1> HIDE DEF Spacing
<1>2. TypeOK /\ PidInv /\ ScheduleInv /\ [Next]_vars => [Spacing]_vars
  BY <1>1
<1>3. Spec => [][Spacing]_vars
  BY <1>2, ScheduleInit, ScheduleStep, PidStep, TypeCorrect, PTL DEF Spec
<1>4. QED
  BY <1>3 DEF RestartSpacing, Spacing
=============================================================================
