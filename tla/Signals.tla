------------------------------ MODULE Signals ------------------------------
(***************************************************************************)
(* The signal tables of signal.c: handlers that record signals in          *)
(* new_signals while the main thread is stopped, the merge into signals,   *)
(* the events sig_get_new_events yields to each watcher in the order of    *)
(* their timestamps, and signal.clear.                                     *)
(*                                                                         *)
(* A handler runs on top of the main thread or, as sa_mask is empty, on    *)
(* top of the handlers of other signals.  It is cut where a handler on top *)
(* of it makes a difference.                                               *)
(***************************************************************************)
EXTENDS Integers, Sequences, FiniteSets

CONSTANTS
  Sig,          \* the signals sig_handler is installed for
  NoSig,        \* the signum 0 of a free slot
  Controller,   \* the watcher that is told of signals and clears them
  Services,     \* the watcher that starts services (svc_last_signal_ts)
  SLOTS,        \* SIGNAL_STATUS_SLOTS
  MAX_DEPTH,    \* handlers that may be stacked: 1 when signals do not overlap
  PER_TICK,     \* handlers that may read the same time off the clock
  MaxClock      \* bound: the last tick of a behaviour

ASSUME SignalsAssumption ==
  /\ NoSig \notin Sig
  /\ Controller # Services
  /\ SLOTS \in Nat \ {0}
  /\ IsFiniteSet(Sig) /\ Cardinality(Sig) <= SLOTS
  /\ MAX_DEPTH \in Nat \ {0}
  /\ PER_TICK \in Nat \ {0}
  /\ MaxClock \in Nat

VARIABLES
  clock,       \* gettime_mon_frac()
  reads,       \* how many handlers have read this time
  stack,       \* the handlers that run, the innermost last
  prev,        \* sig_handler's static prev
  newSignals,  \* new_signals
  signals,     \* signals
  last,        \* the timestamp up to which each watcher was told
  state,       \* the controller's state_fn
  told,        \* the COUNT of the last signal event that was not cleared yet
  fresh        \* history: the signals received since the controller was told

handlerVars == <<clock, reads, stack, prev>>
vars == <<handlerVars, newSignals, signals, last, state, told, fresh>>

Watcher == {Controller, Services}
Slot    == 1 .. SLOTS
Status  ==
  {e \in [signum : Sig \cup {NoSig}, last_received_ts : Nat, number_pending : Nat] :
     e.signum = NoSig => e.number_pending = 0}
Free    == [signum |-> NoSig, last_received_ts |-> 0, number_pending |-> 0]

\* A handler: its signal, its local now, the slot it found, and where it is.
Frame == [sig : Sig, now : Nat, slot : Slot \cup {0}, at : {"stamp", "find", "claim", "end"}]

TypeOK ==
  /\ clock \in Nat
  /\ reads \in 0 .. PER_TICK
  /\ stack \in Seq(Frame) /\ Len(stack) <= MAX_DEPTH
  /\ prev \in Nat
  /\ newSignals \in [Slot -> Status]
  /\ signals \in [Slot -> Status]
  /\ last \in [Watcher -> Nat]
  /\ state \in {"next_command", "run_command", "dump_services", "dump_signals"}
  /\ told \in [Sig -> Nat]
  /\ fresh \in SUBSET Sig

Init ==
  /\ clock = 1
  /\ reads = 0
  /\ stack = <<>>
  /\ prev = 0
  /\ newSignals = [i \in Slot |-> Free]
  /\ signals = [i \in Slot |-> Free]
  /\ last = [w \in Watcher |-> 0]
  /\ state = "next_command"
  /\ told = [g \in Sig |-> 0]
  /\ fresh = {}

-----------------------------------------------------------------------------
(***************************************************************************)
(* record_signal.                                                          *)
(***************************************************************************)

\* The loop: the first slot that is free or the signal's own, or the last one.
FindSlot(table, g) ==
  CHOOSE i \in Slot :
    /\ i = SLOTS \/ table[i].signum \in {g, NoSig}
    /\ \A j \in 1 .. i - 1 : table[j].signum \notin {g, NoSig}

\* Mutant: a signal that comes again keeps its timestamp.
Claim_first_ts(table, i, g, ts) ==
  [table EXCEPT ![i] =
     IF @.signum = g THEN [@ EXCEPT !.number_pending = @ + 1]
     ELSE [signum |-> g, last_received_ts |-> ts, number_pending |-> 1]]

\* The assignments to the slot found.
Claim(table, i, g, ts) ==
  [table EXCEPT ![i] =
     [signum |-> g, last_received_ts |-> ts,
      number_pending |-> IF @.signum = g THEN @.number_pending + 1 ELSE 1]]

record_signal(table, g, ts) == Claim(table, FindSlot(table, g), g, ts)

PendingCount(table, g) ==
  IF \E i \in Slot : table[i].signum = g
  THEN table[CHOOSE i \in Slot : table[i].signum = g].number_pending
  ELSE 0

-----------------------------------------------------------------------------
(***************************************************************************)
(* sig_handler.                                                            *)
(***************************************************************************)
Tick ==
  /\ clock < MaxClock
  /\ clock' = clock + 1
  /\ reads' = 0
  /\ UNCHANGED <<stack, prev, newSignals, signals, last, state, told,
                 fresh>>

\* A signal is delivered and its handler reads the clock.  While it runs the
\* signal itself is blocked.
HandlerEnters(g) ==
  /\ Len(stack) < MAX_DEPTH
  /\ \A i \in 1 .. Len(stack) : stack[i].sig # g
  /\ reads < PER_TICK
  /\ reads' = reads + 1
  /\ stack' = Append(stack, [sig |-> g, now |-> clock, slot |-> 0, at |-> "stamp"])
  /\ UNCHANGED <<clock, prev, newSignals, signals, last, state, told,
                 fresh>>

Top == stack[Len(stack)]
Innermost(at) == stack # <<>> /\ Top.at = at

\* if (now == prev) now++
HandlerStamps ==
  /\ Innermost("stamp")
  /\ stack' = [stack EXCEPT ![Len(stack)] =
                 [Top EXCEPT !.now = IF @ = prev THEN @ + 1 ELSE @, !.at = "find"]]
  /\ UNCHANGED <<clock, reads, prev, newSignals, signals, last, state, told,
                 fresh>>

HandlerFinds ==
  /\ Innermost("find")
  /\ stack' = [stack EXCEPT ![Len(stack)] =
                 [Top EXCEPT !.slot = FindSlot(newSignals, Top.sig), !.at = "claim"]]
  /\ UNCHANGED <<clock, reads, prev, newSignals, signals, last, state, told,
                 fresh>>

HandlerClaims ==
  /\ Innermost("claim")
  /\ newSignals' = Claim(newSignals, Top.slot, Top.sig, Top.now)
  /\ stack' = [stack EXCEPT ![Len(stack)].at = "end"]
  /\ fresh' = fresh \cup {Top.sig}
  /\ UNCHANGED <<clock, reads, prev, signals, last, state, told>>

\* prev= now, and the byte in the pipe.
HandlerReturns ==
  /\ Innermost("end")
  /\ prev' = Top.now
  /\ stack' = SubSeq(stack, 1, Len(stack) - 1)
  /\ UNCHANGED <<clock, reads, newSignals, signals, last, state, told,
                 fresh>>

-----------------------------------------------------------------------------
(***************************************************************************)
(* The main thread, which runs when no handler does.                       *)
(***************************************************************************)
MainRuns == stack = <<>>

\* Mutant: the loop does not stop at the first unused slot.
Merged_all(table, new) ==
  LET m[i \in 0 .. SLOTS] ==
        IF i = 0 THEN table
        ELSE record_signal(m[i - 1], new[i].signum, new[i].last_received_ts)
  IN m[SLOTS]

\* The loop of merge_new_signals over the used slots.  record_signal adds 1
\* whatever the count it is given.
Merged(table, new) ==
  LET m[i \in 0 .. SLOTS] ==
        IF i = 0 THEN table
        ELSE IF \E j \in 1 .. i : new[j].number_pending = 0 THEN m[i - 1]
        ELSE record_signal(m[i - 1], new[i].signum, new[i].last_received_ts)
  IN m[SLOTS]

merge_new_signals ==
  /\ MainRuns
  /\ signals' = Merged(signals, newSignals)
  /\ newSignals' = [i \in Slot |-> Free]
  /\ UNCHANGED <<handlerVars, last, state, told, fresh>>

\* The slots of signals sig_get_new_events considers, from a timestamp on.
NewEvents(since) ==
  {i \in Slot : /\ signals[i].number_pending > 0
                /\ since = 0 \/ signals[i].last_received_ts > since}

\* Its choice: the first of the oldest.
sig_get_new_events(since) ==
  CHOOSE i \in NewEvents(since) :
    \A j \in NewEvents(since) :
      \/ signals[i].last_received_ts < signals[j].last_received_ts
      \/ signals[i].last_received_ts = signals[j].last_received_ts /\ i <= j

\* One turn of the loop of svc_run_active.
svc_run_active ==
  LET e == signals[sig_get_new_events(last[Services])]
  IN /\ MainRuns
     /\ NewEvents(last[Services]) # {}
     /\ last' = [last EXCEPT ![Services] = e.last_received_ts]
     /\ UNCHANGED <<handlerVars, newSignals, signals, state, told, fresh>>

-----------------------------------------------------------------------------
(***************************************************************************)
(* The controller's state machine, as far as signals go.                   *)
(***************************************************************************)

\* Mutant: the controller is taken to have seen all that happened until now.
ctl_deliver_signals_now ==
  LET e == signals[sig_get_new_events(last[Controller])]
  IN /\ MainRuns
     /\ state \in {"next_command", "dump_signals"}
     /\ NewEvents(last[Controller]) # {}
     /\ last' = [last EXCEPT ![Controller] = clock]
     /\ told' = [told EXCEPT ![e.signum] = e.number_pending]
     /\ fresh' = IF PendingCount(newSignals, e.signum) = 0 THEN fresh \ {e.signum}
                 ELSE fresh
     /\ UNCHANGED <<handlerVars, newSignals, signals, state>>

\* One turn of the loop of ctl_deliver_signals, before a command is looked for
\* and at the end of a statedump.
ctl_deliver_signals ==
  LET e == signals[sig_get_new_events(last[Controller])]
  IN /\ MainRuns
     /\ state \in {"next_command", "dump_signals"}
     /\ NewEvents(last[Controller]) # {}
     /\ last' = [last EXCEPT ![Controller] = e.last_received_ts]
     /\ told' = [told EXCEPT ![e.signum] = e.number_pending]
     /\ fresh' = IF PendingCount(newSignals, e.signum) = 0 THEN fresh \ {e.signum}
                 ELSE fresh
     /\ UNCHANGED <<handlerVars, newSignals, signals, state>>

\* All signals are delivered: a command is taken up, or the statedump ends.
ctl_state_next_command ==
  /\ MainRuns
  /\ NewEvents(last[Controller]) = {}
  /\ \/ state = "next_command" /\ state' = "run_command"
     \/ state = "dump_signals" /\ state' = "next_command"
  /\ UNCHANGED <<handlerVars, newSignals, signals, last, told, fresh>>

\* A statedump, or a command that is not about signals.
ctl_state_run_command ==
  /\ MainRuns
  /\ state = "run_command"
  /\ state' \in {"dump_services", "next_command"}
  /\ UNCHANGED <<handlerVars, newSignals, signals, last, told, fresh>>

\* Its last step: every pending signal will be told again.
ctl_state_dump_services ==
  /\ MainRuns
  /\ state = "dump_services"
  /\ last' = [last EXCEPT ![Controller] = 0]
  /\ state' = "dump_signals"
  /\ UNCHANGED <<handlerVars, newSignals, signals, told, fresh>>

Minus(a, b) == IF a > b THEN a - b ELSE 0

\* Mutant: the count is set to 0 instead of being decremented.
sig_mark_seen_zero(g, count) ==
  [i \in Slot |-> IF signals[i].signum = g THEN [signals[i] EXCEPT !.number_pending = 0]
                  ELSE signals[i]]

\* A signal has one slot, so the first match is the only one.
sig_mark_seen(g, count) ==
  [i \in Slot |-> IF signals[i].signum = g
                  THEN [signals[i] EXCEPT !.number_pending = Minus(@, count)]
                  ELSE signals[i]]

\* signal.clear SIGNAL COUNT, with the COUNT of the event the controller read.
ctl_cmd_signal_clear(g) ==
  /\ MainRuns
  /\ state = "run_command"
  /\ told[g] > 0
  /\ signals' = sig_mark_seen(g, told[g])
  /\ told' = [told EXCEPT ![g] = 0]
  /\ state' = "next_command"
  /\ UNCHANGED <<handlerVars, newSignals, last, fresh>>

-----------------------------------------------------------------------------
Handler ==
  \/ HandlerStamps
  \/ HandlerFinds
  \/ HandlerClaims
  \/ HandlerReturns

CtlRun ==
  \/ ctl_deliver_signals
  \/ ctl_state_next_command
  \/ ctl_state_run_command
  \/ ctl_state_dump_services
  \/ \E g \in Sig : ctl_cmd_signal_clear(g)

Next ==
  \/ Tick
  \/ \E g \in Sig : HandlerEnters(g)
  \/ Handler
  \/ merge_new_signals
  \/ svc_run_active
  \/ CtlRun

Spec == Init /\ [][Next]_vars

(***************************************************************************)
(* Handlers return, and the main loop keeps calling sig_run,               *)
(* svc_run_active and ctl_run.                                             *)
(***************************************************************************)
Fairness ==
  /\ WF_vars(Handler)
  /\ WF_vars(merge_new_signals)
  /\ WF_vars(svc_run_active)
  /\ WF_vars(CtlRun)

FairSpec == Spec /\ Fairness

-----------------------------------------------------------------------------
Recorded(g) == PendingCount(signals, g) > 0 \/ PendingCount(newSignals, g) > 0

\* A signal received since the controller was last told of it stays recorded,
\* through merges and through a signal.clear of the count told before
\* ("Count is subtracted, rather than setting the number to 0, in case the
\* signal arrives again while being cleared").
SignalKept ==
  \A g \in fresh : Recorded(g)

\* The controller is told of every signal, whatever else it is told, clears or
\* has dumped in between.
SignalDelivered ==
  \A g \in Sig : g \in fresh ~> g \notin fresh

\* What the tables keep for a watcher is the three sets of SignalSet: this is
\* the view of signals that Service works with.
Arrived == {g \in Sig : PendingCount(newSignals, g) > 0}
Pending == {g \in Sig : PendingCount(signals, g) > 0}
Unseen  == {signals[i].signum : i \in NewEvents(last[Services])}

Abstract == INSTANCE SignalSet WITH
  arrived <- Arrived, pending <- Pending, unseen <- Unseen

ImplementsSignalSet == Abstract!Spec

-----------------------------------------------------------------------------
(***************************************************************************)
(* What is left of this when signals interrupt each other's handler and    *)
(* when several read the same time.                                        *)
(***************************************************************************)

\* A handler claims the slot that a handler of g, on top of it, has taken
\* since it searched.
Overwrites(g) ==
  /\ HandlerClaims
  /\ Top.sig # g
  /\ newSignals[Top.slot].signum = g

\* A signal is merged with a timestamp the services are past.
MergesBehind ==
  /\ merge_new_signals
  /\ \E i \in Slot : /\ newSignals[i].signum # NoSig
                     /\ newSignals[i].last_received_ts <= last[Services]

\* The services are told of one of two signals with the same timestamp.
SkipsTied ==
  /\ svc_run_active
  /\ \E i, j \in NewEvents(last[Services]) :
       /\ i # j
       /\ \A k \in {i, j} : signals[k].last_received_ts = last'[Services]

\* A signal that came since the controller was told of it is on record beyond
\* the count a signal.clear will take off.
Owed(g) ==
  g \in fresh => PendingCount(signals, g) > told[g] \/ PendingCount(newSignals, g) > 0

\* However deep handlers are stacked, the only step that loses a signal which
\* came since the controller was told of it is the claim of its slot by a
\* handler it interrupted: no merge and no signal.clear does.
LostOnlyByOverwriting ==
  [][\A g \in Sig : Owed(g) /\ ~Owed(g)' => Overwrites(g)]_vars

\* However deep handlers are stacked and whatever times they read, the tables
\* part from SignalSet in three kinds of step and in no other.
PartsFromSignalSet ==
  (\E g \in Sig : Overwrites(g)) \/ MergesBehind \/ SkipsTied

FollowsSignalSet ==
  Abstract!Init /\ [][Abstract!Next \/ PartsFromSignalSet]_<<Arrived, Pending, Unseen>>

=============================================================================
