----------------------------- MODULE MCService -----------------------------
(***************************************************************************)
(* Instances of Service for TLC.                                           *)
(***************************************************************************)
EXTENDS Service, TLC

\* Pids, services and signals are interchangeable (safety runs only).
Symmetric == Permutations(Pid) \cup Permutations(Svc) \cup Permutations(Sig)

=============================================================================
