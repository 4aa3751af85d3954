----------------------------- MODULE EventQueue -----------------------------
(***************************************************************************)
(* What daemonproxy promises a controller about its event stream: events  *)
(* arrive whole and in order, and when some had to be given up the next   *)
(* thing queued is the line "overflow", which tells the controller to     *)
(* ask for a new statedump.                                               *)
(***************************************************************************)
EXTENDS Sequences

CONSTANT Client

VARIABLES
    open,      \* the clients that are connected and can be written to
    stream,    \* per client, the lines queued and not yet read
    lost       \* per client, whether an event was given up since the
               \* last overflow line

vars == <<open, stream, lost>>

Init ==
    /\ open \in [Client -> BOOLEAN]
    /\ stream = [c \in Client |-> <<>>]
    /\ lost = [c \in Client |-> FALSE]

Still(c) == open'[c] = open[c] /\ stream'[c] = stream[c] /\ lost'[c] = lost[c]

Queue(c) ==
    /\ open[c] /\ open'[c]
    /\ ~lost[c] /\ ~lost'[c]
    /\ stream'[c] = Append(stream[c], "event")

Lose(c) == open[c] /\ open'[c] /\ stream'[c] = stream[c] /\ lost'[c]

Report(c) ==
    /\ open[c] /\ open'[c]
    /\ stream'[c] = Append(stream[c], "overflow")
    /\ ~lost'[c]

Take(c) ==
    /\ open[c] /\ open'[c]
    /\ stream[c] # <<>>
    /\ stream'[c] = Tail(stream[c])
    /\ lost'[c] = lost[c]

Close(c) == open[c] /\ ~open'[c]

Connect(c) == ~open[c] /\ open'[c] /\ stream'[c] = <<>> /\ ~lost'[c]

\* A broadcast moves several clients in one step.
Next == \A c \in Client :
            \/ Still(c) \/ Queue(c) \/ Lose(c) \/ Report(c) \/ Take(c)
            \/ Close(c) \/ Connect(c)

Spec == Init /\ [][Next]_vars
=============================================================================
