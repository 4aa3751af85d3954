----------------------------- MODULE SeqFilter ------------------------------
(***************************************************************************)
(* What is left of a sequence when only some of its elements are kept.     *)
(***************************************************************************)
EXTENDS Integers, Sequences

\* The elements of s that are in Keep, in their order.
Filter(s, Keep) ==
  LET f[i \in 0 .. Len(s)] ==
        IF i = 0 THEN <<>>
        ELSE IF s[i] \in Keep THEN Append(f[i - 1], s[i]) ELSE f[i - 1]
  IN f[Len(s)]

=============================================================================
