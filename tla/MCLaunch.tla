------------------------------ MODULE MCLaunch ------------------------------
EXTENDS Launch

\* Standard descriptors may be missing, and there may be another one.
MCStarts ==
    [open : {0..2, 0..3, {1, 2}, {0, 1}, {1}}, daemonize : BOOLEAN, mode : {"socket"}]
        \cup [open : {0..2, {1, 2}}, daemonize : {FALSE}, mode : {"interactive"}]
        \cup [open : {0..2}, daemonize : BOOLEAN, mode : {"config"}]

MCTextValue == {<<>>, <<"x">>, <<"x", "=", "x">>}

MCFdsValue ==
    {DefaultFds,
     <<>>,
     <<"stderr", TAB, "stdout", TAB, "a">>,
     <<"b", TAB, "-", TAB, TAB, "stdin", TAB, "a">>,
     <<"control.event", TAB, "control.cmd">>}
=============================================================================
