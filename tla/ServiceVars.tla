---------------------------- MODULE ServiceVars -----------------------------
(***************************************************************************)
(* The variables of a service (service.c): tags, args and fds are packed  *)
(* back to back as name=value strings in one buffer, which svc_set_var    *)
(* edits in place with the tokens of strseg.c.  In a service pool the     *)
(* buffer has a fixed size.                                               *)
(*                                                                         *)
(* A byte of the buffer is a unit: a whole name, "=", NUL, TAB or a byte   *)
(* of a value.  A segment (strseg_t) is an offset and a length, -1 once    *)
(* all its tokens are taken.                                              *)
(***************************************************************************)
EXTENDS Integers, Sequences, FiniteSetsExt, SequencesExt

CONSTANT POOL   \* the units a pooled service has for its variables

ASSUME ServiceVarsAssumption == POOL \in Nat

NUL == "NUL"

TAB == "TAB"

\* The descriptors that make a service a controller.
ControlName == {"control.cmd", "control.event", "control.socket"}

\* svc->vars: the buffer up to vars.len, and what svc_set_fds derives.
VARIABLES vars_buf, uses_control

-----------------------------------------------------------------------------
(* strseg.c                                                               *)

Seg(data, len) == [data |-> data, len |-> len]

Text(b, seg) == SubSeq(b, seg.data, seg.data + seg.len - 1)

\* The distance to the separator, or to the end.
TokenLen(b, seg, sep) ==
    Min({seg.len} \cup {i \in 0..(seg.len - 1) : b[seg.data + i] = sep})

\* strseg_tok_next of a segment whose length is not negative: the token, and
\* what is left of the segment.
Token(b, seg, sep) == Seg(seg.data, TokenLen(b, seg, sep))

Rest(b, seg, sep) ==
    LET n == TokenLen(b, seg, sep) + 1 IN Seg(seg.data + n, seg.len - n)

Whole(b) == Seg(1, Len(b))

RECURSIVE Tokens(_, _, _)

\* All tokens; a string that ends with a separator ends with an empty one.
Tokens(b, seg, sep) ==
    IF seg.len < 0 THEN <<>>
    ELSE <<Text(b, Token(b, seg, sep))>> \o Tokens(b, Rest(b, seg, sep), sep)

-----------------------------------------------------------------------------
(* svc_get_var, svc_set_var                                               *)

\* No value: the variable is to be removed, or was not found.
NoValue == <<"unset">>

RECURSIVE FindVar(_, _, _)

\* The loop both functions begin with: the value of the variable and the
\* rest of the buffer behind it.
FindVar(b, tail, name) ==
    IF tail.len <= 0 THEN [found |-> FALSE, val |-> tail, tail |-> tail]
    ELSE LET entry == Token(b, tail, NUL)
             tail1 == Rest(b, tail, NUL)
         IN  IF Text(b, Token(b, entry, "=")) = <<name>>
             THEN [found |-> TRUE, val |-> Rest(b, entry, "="), tail |-> tail1]
             ELSE FindVar(b, tail1, name)

svc_get_var(b, name) ==
    LET f == FindVar(b, Whole(b), name)
    IN  IF f.found THEN Text(b, f.val) ELSE NoValue

\* memcpy and memmove of s to offset `at'.
Overwrite(b, at, s) ==
    [i \in DOMAIN b |-> IF i >= at /\ i < at + Len(s) THEN s[i - at + 1] ELSE b[i]]

\* Mutant: the NUL of a variable that is removed is forgotten.
sizediff_short(f, value) ==
    IF f.found
    THEN IF value = NoValue THEN -(f.val.len + 1 + 1) ELSE Len(value) - f.val.len
    ELSE IF value = NoValue THEN 0 ELSE 1 + 1 + Len(value) + 1

\* name.len is 1.
sizediff(f, value) ==
    IF f.found
    THEN IF value = NoValue THEN -(f.val.len + 1 + 1 + 1) ELSE Len(value) - f.val.len
    ELSE IF value = NoValue THEN 0 ELSE 1 + 1 + Len(value) + 1

HasSpace(b, name, value) ==
    LET d == sizediff(FindVar(b, Whole(b), name), value)
    IN  d > 0 => Len(b) + d <= POOL

svc_set_var(b, name, value) ==
    LET f     == FindVar(b, Whole(b), name)
        d     == sizediff(f, value)
        room  == b \o [i \in 1..d |-> "junk"]
        moved == IF d # 0 /\ f.tail.len > 0
                 THEN Overwrite(room, f.tail.data + d, Text(b, f.tail)) ELSE room
        named == IF f.found \/ value = NoValue THEN moved
                 ELSE Overwrite(moved, f.tail.data, <<name, "=">>)
        at    == IF f.found THEN f.val.data ELSE f.tail.data + 2
        full  == IF value = NoValue THEN named
                 ELSE Overwrite(named, at, Append(value, NUL))
    IN  SubSeq(full, 1, Len(b) + d)

-----------------------------------------------------------------------------
(* tags, args and fds                                                     *)

DefaultFds == <<"null", TAB, "null", TAB, "null">>

svc_get_fds(b) ==
    LET v == svc_get_var(b, "fds") IN IF v = NoValue THEN DefaultFds ELSE v

VarsInit == vars_buf = <<>> /\ uses_control = {}

\* service.tags and service.args: svc_set_tags, svc_set_argv.
svc_set_text(name, value) ==
    LET v == IF value = <<>> THEN NoValue ELSE value
    IN  /\ HasSpace(vars_buf, name, v)
        /\ vars_buf' = svc_set_var(vars_buf, name, v)
        /\ UNCHANGED uses_control

\* service.fds: svc_set_fds.  The default is stored as no variable.
svc_set_fds(value) ==
    LET v == IF value = DefaultFds THEN NoValue ELSE value
    IN  /\ HasSpace(vars_buf, "fds", v)
        /\ vars_buf' = svc_set_var(vars_buf, "fds", v)
        /\ uses_control' =
             {c \in ControlName : <<c>> \in ToSet(Tokens(value, Whole(value), TAB))}
=============================================================================
