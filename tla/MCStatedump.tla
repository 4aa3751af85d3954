---------------------------- MODULE MCStatedump -----------------------------
EXTENDS Statedump

MCName == [fd |-> {1}, svc |-> {1, 2}]

MCLines == [fd |-> 1, svc |-> 2]
=============================================================================
