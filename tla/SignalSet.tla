----------------------------- MODULE SignalSet -----------------------------
(***************************************************************************)
(* What the signal tables of signal.c promise to the rest of daemonproxy,  *)
(* and all that Service keeps of them: which signals wait to be merged,    *)
(* which are pending, and which pending ones a watcher has not seen.       *)
(***************************************************************************)
CONSTANT Sig

VARIABLES arrived, pending, unseen

Init == arrived = {} /\ pending = {} /\ unseen = {}

\* The handler records a signal.
Arrive(g) ==
  /\ arrived' = arrived \cup {g}
  /\ UNCHANGED <<pending, unseen>>

\* merge_new_signals: what arrived is pending, and new to the watcher.
Merge ==
  /\ pending' = pending \cup arrived
  /\ unseen' = unseen \cup arrived
  /\ arrived' = {}

\* sig_get_new_events returns a signal the watcher has not seen.
See(g) ==
  /\ g \in unseen
  /\ unseen' = unseen \ {g}
  /\ UNCHANGED <<arrived, pending>>

\* sig_mark_seen takes the last of a signal's count.
Clear(g) ==
  /\ g \in pending
  /\ pending' = pending \ {g}
  /\ unseen' = unseen \ {g}
  /\ UNCHANGED arrived

Next == Merge \/ \E g \in Sig : Arrive(g) \/ See(g) \/ Clear(g)

Spec == Init /\ [][Next]_<<arrived, pending, unseen>>

=============================================================================
