---------------------------- MODULE MCControllers ---------------------------
EXTENDS Controllers

MCStarts ==
    [open : {0..2}, daemonize : {FALSE}, mode : {"interactive", "socket"}]

MCLine == <<"client 1", "client 2">>

MCSent == <<"sent 1", "sent 2">>

MCUse == Range(MCLine) \cup Range(MCSent) \cup {"control socket"}
=============================================================================
