# daemonproxy: TLA+ models and proofs

daemonproxy is a service supervisor without policy: it starts and reaps
processes, keeps named file descriptors, catches signals, and leaves every
decision to *controllers*, programs that send it commands and read its events,
one line each. It is one thread around `select()`; what makes it hard is what
happens around that thread: signal handlers that interrupt it anywhere,
children that die between two of its steps, clients that read slowly or not at
all, writes that take half a buffer, timers that race with all of these.

This directory holds TLA+ modules translated from the C sources, the TLC
configurations that check them on small instances, and TLAPS proofs for all
values of the constants. `PROJECT.json` maps each definition to its source lines
and lists runs, mutants, hazards, findings and theorems.

## The system and its parts

One pass of the main loop (`daemonproxy.c`, 119-185) runs, in this order:

1. `log_run`: try to write buffered log messages;
2. `sig_run`: empty the self-pipe, then merge what the handlers recorded into
   the table of pending signals, with signals blocked;
3. `waitpid` until no child is left to reap, `svc_handle_reaped` for each;
4. `svc_run_active`: start services triggered by new signals, then run every
   service on the active list through its state machine;
5. `control_socket_run`: accept a client;
6. `ctl_run`: for each controller read, cut lines, execute commands; then for
   each controller flush its events and check its timeouts;
7. `log_run` again, and `select()` until `wake->next` or a descriptor is ready.

| part | source | module |
|---|---|---|
| services, their commands, the loop around them | service.c, controller.c 1180-1450, daemonproxy.c | `Service` |
| variables of a service, string segments | service.c 220-382, strseg.c | `ServiceVars` |
| signal tables and delivery | signal.c, controller.c 365-377, 739-746 | `Signals` => `SignalSet` |
| event stream to controllers | controller.c 259-357, 589-610, 1731-2102 | `EventStream` => `EventQueue` |
| command input | controller.c 383-539, 1889-1928 | `CommandInput` |
| statedump, and a client that keeps a copy | controller.c 664-746 | `Statedump` |
| log | log.c, fd.c 154-187 | `Log` => `EventQueue` |
| fd table, fd commands, startup's handling of descriptors | fd.c, controller.c 751-1176, daemonproxy.c | `FdTable` |
| descriptors of a forked service | service.c 641-814 | `Launch` (over `FdTable` and `ServiceVars`) |
| controller pool, control socket, descriptors sent by clients | controller.c, control-socket.c, service.c 641-730 | `Controllers` (over `FdTable`) |
| terminate, its guard, exec on exit | controller.c, daemonproxy.c 186-247 | `Terminate` |
| index trees, tables of named objects | Contained_RBTree.c, fd.c, service.c | `RBTree`, `ObjectTable` => `NameMap` |

`A => B` is a refinement some run checks. `MC*` modules only give constants
their values.

## Modules

### Service

State: the loop's `phase`, `now` and `wakeNext` (`wake->now`, `wake->next`), the
service objects `svc` with the fields of `struct service_s` that control reads,
`todo` (the part of the active list this pass has not run yet), the operating
system's `proc` and `owner` (which pid is free, running or a zombie, and for
which service it was forked), `pipe` and `woke` (the self-pipe and whether
`select()` saw it), the signals as three sets `arrived`, `pending`, `unseen`, and
the history variables `reported`, `origin` and `lastUp` (the last event, what
scheduled the current start, when the service last came up).

Actions: a step per stage of the loop (`sig_run`, `merge_new_signals`,
`ReapChild`, `ReapDone`, `WakeBySignals`, then `RunWaiting`, `RunForked`,
`RunForkFailed` and `RunReaped`, the cases of `svc_run`, and `SelectWakes`), a
step per controller command (`ctl_cmd_*`), and the environment (children exit,
orphans are adopted, signals arrive) between any two. `waitpid` is cut at each
child: one may die between two calls. Times are small naturals up to `MaxTime`.

`FreshPids` says whether `fork` may return a pid that a service object still
holds. The code assumes, without saying so, that it does not: see Findings.

### Signals, SignalSet

`Signals` has both tables with their slots, a stack of handlers, the clock they
read, and the watchers that are told of a signal by "newer than the last
timestamp I saw". A handler is cut where an interruption matters: after reading
the clock, after finding a slot, after writing it. `MAX_DEPTH` bounds the stack:
1 means handlers do not overlap, 2 is what the empty `sa_mask` permits.
`SignalSet` is the view `Service` uses, three sets; `ImplementsSignalSet` shows
that the tables give it, so the signals of `Service` are not an invention, and
`FollowsSignalSet` says in which steps they do not when handlers overlap or read
the same time.

### EventStream, EventQueue

A controller's `send_buf` and the kernel's buffer behind it are sequences of
units: an event of n units is n-1 times `"part"` and its newline `"event"`; the
line that reports lost events is `"overflow"`. `ctl_write`, `ctl_flush_outbuf`
and `ctl_out_buf_ready` are sets of outcomes, as `write()` may take all, some or
nothing. `ctl_run`'s two loops go client by client. Time is relative: `late` is
how long a client has been blocked, `sleep` how long `select()` may wait.
`EventQueue` is the promise: events are read in the order they were queued, and
if some were dropped, the overflow line comes before any later event.

### CommandInput

`recv_buf` as read by arbitrary pieces, the search for a newline, lines that do
not fit, the bounded number of iterations per turn, output that blocks before a
command, and the end of the input with `append_final_newline` (config file) or
without. The reference `Expected` goes line by line over the whole input: what
each line does by itself, joined.

### Log

The buffer, the count of lost messages, the two kinds of retry (descriptor or
timer), `log.dest`, and the deletion of the descriptor it writes to. It
implements the same `EventQueue`, with the notice of lost messages as the
overflow line.

### ServiceVars

The buffer in which tags, args and fds of a service lie packed as `name=value`
strings, edited in place by `svc_set_var` with the tokens of `strseg.c`. A unit
of the buffer is a whole name, a separator or one byte of a value, so that
offsets, lengths and the shift of what follows are those of the code.

### FdTable, Launch

`FdTable` has the kernel's numbers (the lowest free one is handed out), the
`fd_t` objects with peers and constants, and the log's number. Startup is a
function from the way the process was started (which of 0..3 are open,
`--daemonize`, interactive, config file or socket) to the table it leaves;
then come `fd.pipe`, `fd.open`, `fd.socket`, `fd.delete`, `log.dest` and
`log_run` in any order. `Launch` composes it with `ServiceVars`: in every state
the child `svc_do_exec` would produce is computed, the copies out of the way and
the `dup2`s one after the other, and compared with what `service.fds` names.

### Controllers

The pool, on top of `FdTable`'s numbers: allocation, construction, destruction
and freeing as separate calls, `accept`, the listening socket, the socket pair
of a service, descriptors received beside the input and taken by `fd.take`. The
failures are those of `accept`, of `socketpair`, of `ctl_ctor` in both its
callers, of `fork`, of `socket.create`, of a write, and an empty pool. A
controller keeps numbers, not files: `astray` becomes true when it closes, reads
or writes a number that was meanwhile opened for something else, which is also
what `ctl_dtor` does to number 0 for a controller that was never constructed
(`Undone`), and when `svc_do_fork` finds the pool empty and crashes. From there on
the behaviour depends on who owns the number, and the model stops distinguishing
it (`GoneAstray`); the properties are about all states before. `eventsOnly` marks
the controllers made for `control.event` alone: they have no input that could
end, and `SlotsComeBack` is about the others.

### Statedump

One client, its copy of the tables, and the dump that walks both tables by name
and stops wherever the output blocks, while entries are created, changed and
deleted and their events go into the same stream. `silent` records the changes
for which the code writes no event, which no client can know of. The client is
the one the protocol describes: it starts anew and asks again on `overflow`.

### RBTree, ObjectTable, NameMap

`RBTree` has the operations of the tree as operators from tree to tree, mirror
images merged by a side parameter: rotation, insertion with rebalancing,
removal of a leaf or through its successor, refilling of a black height, the
nearest-node search and both walks. `ObjectTable` uses it as `service.c` and
`fd.c` do, where a descriptor is added before the one it replaces is removed.
`NameMap` is the promise: a map from names to objects.

### Terminate

Guard, exec arguments, `terminate`, the end of an interactive session, fatal
signals and the end of `main()`. A command only sets `main_terminate`; other
commands of the same pass still run and may change guard and exec arguments.

## What the runs check

All runs are exhaustive for their constants. Where a run also checks liveness it
uses a specification with fairness and no symmetry.

| run | instance | properties | what it shows |
|---|---|---|---|
| service_one | 1 service, 1 pid shared with orphans, 1 signal, interval 2, 4 ticks; 0.6 M states | NoLostWakeup, DeadlineCovered, TriggerHonoured, RestartSpacing, StartsEventually, ReapedEventually | `select()` never sleeps on a child, a signal or a due start; no trigger is lost; restarts keep their interval; starts and ends are dealt with |
| service_two | 2 services, 2 pids, fresh pids, 2 ticks; 1.9 M states | UpHasProcess, ChildOwned, ReportAccurate, SignalsOwnChild | services and children correspond; controllers are told the truth; `service.signal` reaches only its own child |
| signals_kept | 2 signals, 2 slots, no overlap, 4 ticks; 78 k states | TypeOK, SignalKept, ImplementsSignalSet, SignalDelivered | no signal is lost between tables, clears and statedumps, and all are delivered |
| stream_one | 1 client, buffer of 4, events of 1 and 2 units, kernel buffer 2; 88 k states | WholeLines, BacklogServed, OverflowReported, CommandsProceed, ImplementsEventQueue | no half line, no forgotten backlog or timeout, no silent loss; loss is reported and commands go on |
| input_lines | inputs of up to 3 lines of 0-4 characters, buffer of 3, 4 iterations | TypeOK, CommandsInOrder, AllExecuted | commands run whole, once, in order, and all of them |
| log_safe | buffer of 4, messages of 1-4, descriptor holds 3 | TypeOK, BlockedWatched, ImplementsEventQueue, LogFlowsAgain | the log keeps its order and recovers |
| objects | 8 names, 2 of them replaced as descriptors are; 45 k states | RedBlack, IndexMatchesList, IterationResumes, ImplementsNameMap | the tree keeps its colours, agrees with the list, can be walked from a name that is gone, and is a map |
| launch | 3 names, 14 ways of starting, 12 numbers, a pool of 9, 14 units of variables; 279 k states | ChildGetsNamed, VarsReadBack, NumbersOwnedOnce, PeersMutual, LogFollowsName | a child gets exactly what it was given by name; numbers have one owner; pipe ends and the log's number are never stale |
| controllers | 2 slots, 1 name, 8 numbers, 1 queued descriptor, 1 command left at end of input; 602 k states | NoDescriptorLost, WholeConnectionsAreOwn, SlotsComeBack | connections neither leak nor share descriptors until one goes astray, and the slot of one whose input has ended comes back |
| statedump | 1 descriptor, 2 services of 2 lines, buffers of one event, 3 changes; 1.7 M states | CopyExact, CatchesUp | the copy a client keeps is exact when it has read all, and it gets there |
| input_final | file without final newline, 3 iterations | DocFinalLine | **violated**, see Findings |
| exit_as_init | 2 guard codes, process 1 and others | DocInitLoops | **violated** |

Each property of a passing run has a mutant in `PROJECT.json`: a definition
changed as a plausible bug would change it, with which TLC finds the property
violated. The mutated forms stand before the definitions, marked as such.
`exit_as_init` does not check for deadlock, since the process ends.

### Bounds, and why they are enough

* *Services and pids.* The hazards are between one service and its child (one of
  each), and between two holders of one pid (two of each). Services interact in
  no other way: each has its own record, and the loop visits each on its own.
* *Time.* `MaxTime` bounds the clock; intervals and retry delays are 1 or 2, so
  that four ticks hold an up time, an end before the interval is over, the delay
  and the restart. At `MaxTime` the clock stops and the loop goes on;
  `StartsEventually` excepts a start that failed forks pushed beyond the bound.
* *Buffers.* Sizes are a few units, chosen so that each boundary is met: an event
  that fills the buffer but for the NUL, a line of exactly the buffer's size, a
  write that leaves one unit, a full kernel buffer.
* *Signals.* Two signals and as many slots as signals: the table is never short,
  as in the code (16 slots, 6 recorded signals). Four ticks allow two receipts
  of each with merges and clears in between.
* *Counters.* `MaxLost` caps the number of lost log messages; only zero or not
  zero is looked at. `CHANGES` caps the disturbances of a statedump: three allow
  a deletion and a re-creation, or a reset, in the middle of a dump that was
  asked for twice.
* *Clients.* The event streams of two clients meet only in broadcasts and in the
  sleep they share. With two clients, buffers of 3 and events of 2 units (0.7 M
  states) the properties of stream_one hold as well; its safety invariants and
  the refinement are proved for any number.
* *Trees.* Eight names are enough for every case of insertion, of removal
  through a successor and of refilling a black height, on both sides.
* *Descriptors.* Twelve numbers are more than startup, three names and a socket
  pair need while `svc_do_exec` copies sources out of the way; the pool of 9 is
  full after some commands, so that the failures after `pipe()`, `open()` and
  `socket()` happen. In `controllers` eight numbers are few enough that a closed
  one is soon used again.

### Fairness

* The main loop keeps taking steps (weak fairness of `Loop`): it is one thread
  that never waits but in `select()`.
* Time passes (strong fairness of a `select()` that returns later than it was
  called): each pass reads the clock.
* `Service`: `ReapDone` is strongly fair, that is, children do not die for ever
  as fast as `waitpid` reaps them. `CommandInput`: input that is there is read in
  some turn, and the output does not stay blocked for ever, which is
  `CommandsProceed` of `EventStream`. `Log`: the reader of the log reads.
* `Controllers`: each client gets its turn, and commands that were read before
  the input ended are run. `Statedump`: the dump and the flush go on, and the
  client reads.
* Nothing else is assumed of children, signals or controllers. `CommandsProceed`
  is conditional on services and other clients that fall quiet: while events arrive as fast as a
  client reads them, its send buffer may stay too full for a command, and
  neither timeout applies.

## Proofs

Seven modules prove theorems about components, and `DataInduction` the lemmas on
recursion they share. Each theorem is for every value of the constants that the
named assumption of the component admits (null values are not members, sizes and
intervals positive, an event fits the buffer, the pool holds what startup needs).

| module | theorem | statement | rests on |
|---|---|---|---|
| ServiceProofs | TypeCorrect | `Spec => []TypeOK` | inductive as it stands |
| | WakeupSafe | `Spec => []NoLostWakeup` | `WakeupInv` |
| | ChildrenOwned | `Spec => []ChildOwned` | inductive with `PidInv` |
| | PartedBySharing | `Spec => PartedOnlyBySharing` | `PidInv` |
| | SignalsReachUpServices | `Spec => SignalsUpOnly` | `PidInv` |
| | StartsCovered | `Spec => []DeadlineCovered` | `ScheduleInv` |
| | ReportsAccurate | `Spec => []ReportAccurate` | `ScheduleInv` |
| | TriggersHonoured | `Spec => []TriggerHonoured` | `ScheduleInv` |
| | RestartsSpaced | `Spec => RestartSpacing` | `ScheduleInv` |
| SignalsProofs | TablesTyped | `Spec => []TypeOK` | `TypeInv` |
| | SignalsLostOnlyByOverwriting | `Spec => LostOnlyByOverwriting` | `TableInv` |
| | OwedIsRecorded | `Spec => [](\A g \in fresh : Owed(g) => Recorded(g))` | `TableInv` |
| | TablesFollowSignalSet | `Spec => FollowsSignalSet` | `TableInv` |
| EventStreamProofs | StreamTypes | `Spec => []TypeOK` | `StreamInv` |
| | LinesStayWhole | `Spec => []WholeLines` | `StreamInv` |
| | OverflowHasData | `Spec => []OverflowBehindData` | `StreamInv` |
| | BacklogsServed | `Spec => []BacklogServed` | `StreamInv` |
| | StreamsImplementQueues | `Spec => ImplementsEventQueue` | `StreamInv`, `FlagInv` |
| LogProofs | LogTyped | `Spec => []TypeOK` | `TypeInv` |
| | LogWatched | `Spec => []BlockedWatched` | inductive as it stands |
| | LogImplementsQueue | `Spec => ImplementsEventQueue` | `TypeInv` |
| CommandInputProofs | InputTyped | `Spec => []TypeOK` | `InputInv` |
| | CommandsWhole | `Settled => (Spec => []CommandsInOrder)` | `InputInv`, `OrderInv` |
| FdTableProofs | PipeEndsMutual | `FdSpec => []PeersMutual` | `Good` |
| | LogNumberRight | `FdSpec => []LogFollowsName` | `Good` |
| | EveryNumberOwned | `FdSpec => []NumbersOwnedOnce` | `Good`, `HoldInv` |
| ControllersProofs | DescriptorsKept | `CtlSpec /\ 0..2 \subseteq startup.open => []NoDescriptorLost` | `CtlInv` |
| | ConnectionsOwn | `CtlSpec /\ 0..2 \subseteq startup.open => []WholeConnectionsAreOwn` | `CtlInv` |

### The invariants

* `WakeupInv`. `NoLostWakeup` speaks of the moment before `select()`. In the
  middle of a pass the pipe may be empty with news unseen, but only before the
  step that looks: with an empty pipe, signals may wait only until the merge, and
  zombies only until the end of the `waitpid` loop. That is why `sig_run` drains
  the pipe before it merges, and why reaping comes after both.
* `PidInv`. A service that is scheduled has no pid; one that is up or reaped has
  one; and one that holds a pid with no exit status is up. The last part is what
  `service.signal` relies on when it looks only at the pid and the status.
  It holds whatever pids `fork` returns. What pid reuse can break is then told by
  one step: `PartedOnlyBySharing` says that a service comes to be up without an
  unreaped child of its own only where another object holds the same pid, and
  `SignalsUpOnly` that `service.signal` never uses a pid that was kept after a reap.
* `ScheduleInv`, for each service: which times its state keeps, and that a reaped
  service is still to be run in this pass (`Times`); that `wake->next` covers a
  start once `svc_run_active` has dealt with it (`Covered`); what the last event
  was in every phase, not only before `select()` (`Told`); that a service that is
  down has no trigger but signals not yet looked at (`Heeded`); and that a
  restart `svc_run` scheduled lies an interval after the last start (`Spaced`).
  The parts need each other: the state the last event reported is derived by
  `ctl_notify_svc_state` from the times, and a trigger or a restart is decided
  where the service is run.
* `TableInv` of the signal tables, for handlers stacked to any depth. Both are
  `Tidy`: the used slots come first and no two are of one signal, so that a search
  that ends at a free slot has seen all. A nested handler may take the slot an
  interrupted one has found, so it is not true that the slot is still free; but
  `MayClaim` is: the slots before it are used, and no other slot has the handler's
  signal, which is blocked while the handler runs (`Frames`). That is enough for
  the write to leave the table tidy, and to lose at most the one signal it
  overwrites. No used slot has the timestamp 0, which `sig_get_new_events` takes
  for "none seen", and no controller was told more of a signal than its count
  (`ToldPending`), so that a late `signal.clear` leaves what came since. The merge
  is a loop over the slots; `MergedUpto` says what it has done after each turn.
* From it follow two statements without a hypothesis on depth or clock.
  `LostOnlyByOverwriting`: a signal received since the controller was told of it is
  `Owed`, that is, its count exceeds what was told or it waits in the handlers'
  table, and only `Overwrites` ends that. `FollowsSignalSet`: by counts and
  timestamps the tables are the three sets of `SignalSet`, and they part from it in
  three kinds of step: a slot is overwritten, a merge brings a timestamp that
  `svc_run_active` is past (`MergesBehind`), or it is told of one of two signals
  with the same timestamp (`SkipsTied`). TLC reaches all three with handlers two
  deep that read the same time, and each of them is needed. With one handler at a
  time and one per tick none occurs on the instance of `signals_kept`, where
  `ImplementsSignalSet` is checked.
* `StreamInv`. Every controller is `Good` wherever the loop is: its buffer leaves
  room for the NUL, what it has still to read is whole lines, its blocked clock
  runs only with a backlog, and an overflow flag has data in front of it. In the
  flush loop the clients before the current one are `Served`: with a backlog they
  are watched and the sleep is within their close timeout. `BacklogServed` follows
  when the loop has passed them all. Between `ctl_write` and its flush the
  overflow part does not hold; `Sound` is what does.
* `FlagInv`, for the refinement of `EventQueue`: a loss not yet reported has the
  overflow flag. Each call is then one of a few moves of the abstract queue
  (`Kept`, `Reported`, `Wrote`, `Took`, `Fresh`), and a step of `ctl_run` is a
  sequence of calls of which at most one moves the queue.
* Log: `Kept` is what the flushes of one step may do to what was logged, nothing
  or the notice of a loss; so `log_write` and `log_run` are each one move of the
  queue, across a change of the descriptor too.
* `InputInv` adds to the types of the command input that a line being run lies in
  the buffer, and that the search for a line at the end of the input meets a
  buffer that is not full: this is the room for the appended newline that the comment at controller.c:413 claims.
* `OrderInv`. There are a line i and positions m and q of the whole input such
  that `recv_buf` is the input from m to q (`Held`), what `read()` has still to
  deliver is the rest (`Rest`), and what was executed is what the lines before i
  do (`At`). While a long line is skipped, m lies inside it and only its first
  character is kept before m, which is how the code tells a comment from an
  error. `Settled` leaves out the config files of several lines whose last one
  lacks its newline: there the property is false (input_final).
* `Good` of a descriptor table: its type, mutual peers, and the log's number. The
  steps of `fd.c` are functions from table to table, so each has a lemma that it
  keeps `Good`; startup needs its own argument, as `register_open_fds` and
  `--daemonize` go through tables that are not yet `Good`. The lowest free number
  exists because a set of naturals has a least member.
* `HoldInv`: `Own` says that an open number has a name or is claimed by a
  controller, never both, that no two names share one, and that what a name
  stands for is what the number is open for. It is stated for starts with the
  standard descriptors open; for the others `register_open_fds` breaks it (see
  Findings). The argument goes through every call of `fd.c` and every round of
  `register_open_fds`.
* `CtlInv`: the types always, and until a controller has gone astray `Own` again,
  with the numbers that are open for a controller's own uses in the place of the
  claimed ones, and `Placed`: such a number is in the fields or the queue of that
  controller, or is the listening socket's. `Fit` relates the fields of one
  controller to each other: queued numbers differ from one another and from the
  connection's, and a controller with both directions open has its own numbers in
  them. A socket client whose input ended keeps a number that is closed, which is
  why the last part is not claimed of half-open ones.

`Use`, `Line` and `Sent` of `FdTable` and `Controllers` are what a number can be
open for other than a name: a controller's connection, a descriptor sent to it.
They are constants so that the proofs need not look into how they are named.

Steps that change neither pids nor children are gathered in `Quiet`
(`QuietLoop`, `QuietCommand`), and those that leave a service alone in
`Bystander`, so that each invariant needs only the steps that can disturb it.

### Recursion in the proofs

The provers cannot instantiate the library's induction theorems, which take a
predicate as a parameter. `DataInduction` states induction with a set in its
place: a set that has 0 and with each number the next has all of them
(`NumbersInductive`, and `IntervalInductive` for a range), from the least member
of a set of naturals. `LoopExists` gives the function a recursive definition
defines. On these rest the lemmas on `Filter` (`SeqFilter`), by which the
refinements select the lines from a buffer, on `Joined`, by which `CommandInput`
puts text and expected commands together, and on the merge of the signal tables.
Loops of the code that are proved about are recursive functions, not `RECURSIVE`
operators.

### Only model-checked, and why

* liveness, and the fairness parts of the abstract specifications: fairness and
  `ENABLED` are outside the prover;
* `ObjectTable` and `RBTree`: recursive operators on trees, which the prover
  cannot read;
* `ChildGetsNamed` and `VarsReadBack` of `Launch`: what loops that edit a buffer
  or move descriptors compute, from an invariant of every token or every move;
* `CopyExact` of `Statedump`, which relates the client's copy to all that is
  still under way to it;
* `UpHasProcess` and `SignalsOwnChild`, with fresh pids; `SignalKept` and
  `ImplementsSignalSet`, with handlers that neither overlap nor read the same
  time. The code ensures none of these conditions. What is proved does not rest on
  them, and says in which steps the properties fail without them;
* the commands of the inputs `Settled` leaves out, and descriptors after a start
  with standard ones closed: there the properties do not hold.

## Findings

Each is a violation run whose property is what a comment, a document or a test
says.

* **input_final.** At the end of a file without final newline, lines still in the
  buffer are run as one, unknown, command.
* **exit_as_init.** The loop of a guarded process 1 is said to be infinite, or to
  end in exec. When `terminate` was accepted because exec arguments are set, and
  the exec fails, `fatal()` returns because of the guard, and then `main()` does.

Disagreements a run of this project shows with other constants:

* *Pid reuse.* A service that ended keeps its pid and its place in the index. If
  the system hands that pid to a child of another service, `svc_by_pid` may find
  the stopped one (service.c:512, 615), the exit is ignored, and the other stays
  `up`. `Service_two.cfg` with `FreshPids = FALSE` and one pid violates
  `UpHasProcess`.
* *Nested handlers.* `sa_mask` is empty: handlers of different signals may
  interrupt each other between the search for a slot and its use
  (signal.c:36), and one of two signals is lost. `Signals.cfg` with
  `MAX_DEPTH = 2` violates `SignalKept`.
* *Equal timestamps.* "no two signals share a timestamp" (signal.c:58); three in
  one tick of the clock can, and delivery by "newer than" may skip one.
  `SignalDelivered` is checked with `PER_TICK = 1`.
* *Long log messages.* A message longer than the whole log buffer, with nothing
  buffered, silences the log (log.c:115; t/282-log-blocked.t expects it to go
  on). `Log_safe.cfg` with `LOG_BUF + 1` among `MCSizes` violates `LogFlowsAgain`.

Plain to see in the code, and without a run:

* `record_signal` ignores its `count` (signal.c:38): a burst is merged as one
  receipt.
* `service.auto_up` promises starts "no more rapidly than MIN_INTERVAL seconds
  apart" (controller.c:1269); a trigger signal starts a service at once
  (service.c:571).
* "MIN_INTERVAL counts from the time of the previous start attempt"
  (controller.c:1272); the delay counts from the end of the process
  (service.c:624).
* The pid index holds services "only if running" (service.c:58); a pid stays
  until the next start.
* A stream blocked for longer than RESET_TIMEOUT is flagged as overflowed
  (controller.c:580); the code does so only if the receive buffer is full too
  (controller.c:328).
* A MIN_INTERVAL of "-" "disables auto-up" (controller.c:1275); it keeps the old
  interval (controller.c:1300).
* When standard descriptors are closed at the start, `register_open_fds` can give
  two names to one number (daemonproxy.c:292-307); `NumbersOwnedOnce` is stated
  for the other starts.
* `--daemonize` closes number 2 while the log keeps writing to it until the first
  `log.dest`; `LogFollowsName` says so.
* A socket client has one number for both directions; when one direction ends,
  the other keeps the closed number, which may be opened for something else.
* "If the service is only using one of control.event or control.cmd, then we shut
  down the unused direction [...] i.e. simulate a single pipe" (service.c:668);
  `control.event` "creates a pipe that delivers daemonproxy events"
  (doc/api.ltw:241), and is an alias of `control.socket` "with any un-used
  direction shutdown()" (ChangeLog:13). The controller made for it has no
  receiving number (service.c:663), and `ctl_state_next_command` takes that for the
  end of the input (controller.c:406): it is closed in its first turn, and the
  service gets no events. `InputUsedUp` follows the code.
* When `svc_do_fork` fails after `ctl_alloc`, because `socketpair` or `ctl_ctor` does,
  the controller that is taken down was never constructed, and its zeroed fields
  name number 0 (service.c:713). `ctl_dtor` "closes sockets[0]" only if they were
  assigned: after a failed `ctl_ctor` the parent's end stays open. The same
  destructor runs when `ctl_ctor` fails for an accepted client
  (control-socket.c:37).
* When the pool is empty, `svc_do_fork` calls `ctl_free` with the null pointer it was
  given (service.c:654), which is written through (controller.c:251).
* Some changes of a service write no event: `service.fds` and `service.auto_up`
  create the service before they fail, and a pipe's end changes its line when its
  peer is deleted. A copy kept from events misses these until the next dump.

## Not modelled

* *Options, and startup but for descriptors* (options.c, daemonproxy.c): run
  once, in sequence, before anything can interleave. What they choose are
  constants and initial states. `sig_main_pid` is recorded there before
  `daemonize()` forks.
* *Conversions of text*: integers, sizes, addresses, signal names and the wording
  of events. No control depends on them but success or failure, which the
  commands' actions choose. The scale of timestamps is among them, so the limit
  on a start time in the past (controller.c:1362) is not checked.
* *Memory*: preallocation and growth of the pools; pools are limits here. And the
  stack space of `svc_do_exec`, which is too small: `alloca(fd_count)`
  (service.c:747) and `alloca(arg_count+1)` (service.c:801) reserve that many bytes
  for as many ints and pointers. `Launch` takes both lists to have room; what a
  child gets when they overwrite other locals is outside the model.
* *Two paths of fd.pipe*: a failing `fcntl` after `pipe()` (controller.c:841),
  which leaves both descriptors open, and one name for both ends.
* *The log's level filter*: which messages reach `log_write`. Any may, in `Log`.
* *The Perl client library*: another program. `Statedump`'s client follows the
  protocol; the library differs from it in ignoring `overflow` and in keeping
  deleted descriptors.
* *Generated tables, build scripts and test programs.*

Components are checked one by one where they share nothing but a call: `Service`
takes its signals from what `Signals` provides (`SignalSet`), its events go
to what `EventStream` provides (`EventQueue`), and what reaches a client's copy is
`Statedump`. A single module of all of them is out of TLC's reach.

## Running

    tlc -workers 2 -config Service_one.cfg MCService
    tlapm CommandInputProofs.tla

Runs of liveness and the largest instances take about a minute each; the proofs
of a module take two to fifteen.
