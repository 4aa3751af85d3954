--------------------------- MODULE MCCommandInput ---------------------------
(* Inputs of up to MaxLines lines for the model checker. *)
EXTENDS CommandInput

CONSTANTS MaxLines, MaxLen

Kinds == {"command", "comment", "exit"}

LineSet == [len : 1..MaxLen, kind : Kinds] \cup {[len |-> 0, kind |-> "command"]}

LineSeqs == UNION {[1..n -> LineSet] : n \in 0..MaxLines}

\* A client's stream: a last line without newline is dropped.
ClientInputs == [lines : LineSeqs, final : BOOLEAN, append : {FALSE}]

\* A config file whose last line has its newline, or of one line without.
FileInputs ==
    {in \in [lines : LineSeqs, final : BOOLEAN, append : {TRUE}] :
        in.final \/ Len(in.lines) <= 1}

MCInputs == ClientInputs \cup FileInputs

\* A config file of short commands whose last line has no newline.
Short == [len |-> 1, kind |-> "command"]

Unterminated ==
    [lines : UNION {[1..n -> {Short}] : n \in 0..MaxLines},
     final : {FALSE}, append : {TRUE}]
=============================================================================
