----------------------------- MODULE Terminate ------------------------------
(***************************************************************************)
(* How the process ends: the terminate commands (controller.c), the guard *)
(* and exec-on-exit options (options.c), the end of an interactive        *)
(* session, the exit of main() and fatal() (daemonproxy.c), and fatal     *)
(* signals (signal.c).                                                     *)
(*                                                                         *)
(* A command only asks for the end: the loop tests main_terminate once    *)
(* per pass, and the commands that follow in the same pass still run.     *)
(***************************************************************************)
EXTENDS Naturals

CONSTANT Codes   \* the guard codes in use, none of them 0

VARIABLES
    init,            \* whether the process runs as process 1; constant
    guard,           \* opt_terminate_guard
    exec_on_exit,    \* opt_exec_on_exit
    interactive,     \* whether there is an interactive_controller
    main_terminate,
    process          \* "runs", "exited", or "replaced" by exec()

vars == <<init, guard, exec_on_exit, interactive, main_terminate, process>>

\* Init of main(): process 1 is guarded unless --exit-guard says otherwise.
Init ==
    /\ init \in BOOLEAN
    /\ guard \in Codes \cup {0}
    /\ exec_on_exit \in BOOLEAN
    /\ interactive \in BOOLEAN
    /\ main_terminate = FALSE
    /\ process = "runs"

-----------------------------------------------------------------------------
(* Commands, and the end of the session, in a pass of the loop.           *)

ctl_cmd_terminate(code) ==
    /\ process = "runs"
    /\ guard # 0 => code = guard /\ exec_on_exit
    /\ main_terminate' = TRUE
    /\ UNCHANGED <<init, guard, exec_on_exit, interactive, process>>

\* terminate.exec_args: no arguments turn the feature off.
ctl_cmd_terminate_exec_args(given) ==
    /\ process = "runs"
    /\ exec_on_exit' = given
    /\ UNCHANGED <<init, guard, interactive, main_terminate, process>>

\* terminate.guard + code, and terminate.guard - code.
ctl_cmd_terminate_guard(code) ==
    /\ process = "runs"
    /\ guard \in {0, code}
    /\ guard' = IF guard = 0 THEN code ELSE 0
    /\ UNCHANGED <<init, exec_on_exit, interactive, main_terminate, process>>

main_notify_controller_freed ==
    /\ process = "runs"
    /\ interactive
    /\ interactive' = FALSE
    /\ main_terminate' = (main_terminate \/ guard = 0)
    /\ UNCHANGED <<init, guard, exec_on_exit, process>>

-----------------------------------------------------------------------------

\* fatal(): the process is replaced, or exits unless it is guarded; what it
\* is when fatal() returns.  exec() may fail.
fatal(works) ==
    IF exec_on_exit /\ works THEN "replaced"
    ELSE IF guard = 0 THEN "exited" ELSE process

\* A guarded process comes back from its handler.
fatal_sig_handler(works) ==
    /\ process = "runs"
    /\ process' = fatal(works)
    /\ UNCHANGED <<init, guard, exec_on_exit, interactive, main_terminate>>

\* The loop ends.  After fatal() has returned, main() returns too.
MainEnds(works) ==
    /\ process = "runs"
    /\ main_terminate
    /\ process' = IF exec_on_exit /\ fatal(works) = "replaced" THEN "replaced"
                  ELSE "exited"
    /\ UNCHANGED <<init, guard, exec_on_exit, interactive, main_terminate>>

Next ==
    \/ \E code \in Codes \cup {0} : ctl_cmd_terminate(code)
    \/ \E given \in BOOLEAN : ctl_cmd_terminate_exec_args(given)
    \/ \E code \in Codes : ctl_cmd_terminate_guard(code)
    \/ main_notify_controller_freed
    \/ \E works \in BOOLEAN : fatal_sig_handler(works) \/ MainEnds(works)

Spec == Init /\ [][Next]_vars

-----------------------------------------------------------------------------
(* Properties.                                                            *)

\* The comment at the main loop: "terminate is disabled when running as init,
\* so this is an infinite loop".  As process 1 and with the guard set,
\* main() does not return; the process goes on, or another replaces it.
DocInitLoops == init /\ guard # 0 => process # "exited"
=============================================================================
