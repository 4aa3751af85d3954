---------------------------- MODULE MCObjectTable ---------------------------
(* Enough names for every case of the deletion algorithm.                 *)
EXTENDS ObjectTable

MCNode == 1..(2 * NAMES)
=============================================================================
