------------------------------- MODULE MCLog --------------------------------
(* The log, for the model checker. *)
EXTENDS Log

\* Messages that fit an empty buffer.
MCSizes == 1..LOG_BUF
=============================================================================
