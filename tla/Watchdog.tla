------------------------------ MODULE Watchdog ------------------------------
(***************************************************************************)
(* The watchdog process (src/src/tools/watchdog.c): it starts the server,  *)
(* waits for it, starts it again after a crash, and passes SIGINT and      *)
(* SIGTERM on before it ends itself.                                       *)
(*                                                                         *)
(* A signal may arrive between any two steps, sent to the watchdog alone,  *)
(* to the server alone, or by Ctrl+C to both.  A child that has not called *)
(* execv yet still runs the watchdog's own handler, in which it has no     *)
(* child, so that a signal to it has no effect.  Handlers are installed    *)
(* with SA_RESTART (signal() of glibc, no -std flag in the Makefile), so   *)
(* that waitpid only returns with the child; sleep returns early.          *)
(***************************************************************************)
EXTENDS Integers

CONSTANT START_LIMIT        \* bound: forks that succeed

ASSUME WatchdogAssumption == START_LIMIT \in Nat

VARIABLES
    pc,             \* where main is
    g_stop,         \* a signal has been caught
    g_child_pid,    \* number of the child the handler would signal; -1: none
    child,          \* the current child: none, copy (before execv), starting
                    \* (before its signal() calls), up, told, or dead
    status,         \* how the latest child ended
    starts,         \* (history) the number of the latest child
    missed          \* (history) the latest signal came before the child could be told

wvars == <<pc, g_stop, g_child_pid, child, status, starts, missed>>

Alive == {"copy", "starting", "up", "told"}
Crashes == {"failed", "killed"}

Init ==
    /\ pc = "loop"
    /\ g_stop = FALSE
    /\ g_child_pid = -1
    /\ child = "none"
    /\ status = "clean"
    /\ starts = 0
    /\ missed = FALSE

Goto(p) == pc' = p

-----------------------------------------------------------------------------
\* main, up to the call of waitpid.

Loop ==
    /\ pc = "loop"
    /\ Goto(IF g_stop THEN "done" ELSE "fork")
    /\ UNCHANGED <<g_stop, g_child_pid, child, status, starts, missed>>

Fork ==
    /\ pc = "fork" /\ starts < START_LIMIT
    /\ child' = "copy"
    /\ starts' = starts + 1
    /\ missed' = g_stop
    /\ Goto("adopt")
    /\ UNCHANGED <<g_stop, g_child_pid, status>>

\* fork has failed: sleep(1) and continue.
ForkFails ==
    /\ pc = "fork"
    /\ Goto("loop")
    /\ UNCHANGED <<g_stop, g_child_pid, child, status, starts, missed>>

\* Mutant: the handler is not told about the child.
Adopt_forgets ==
    /\ pc = "adopt"
    /\ Goto("wait")
    /\ UNCHANGED <<g_stop, g_child_pid, child, status, starts, missed>>

Adopt ==
    /\ pc = "adopt"
    /\ g_child_pid' = starts
    /\ Goto("wait")
    /\ UNCHANGED <<g_stop, child, status, starts, missed>>

-----------------------------------------------------------------------------
\* The rest of the loop.

\* Mutant: waitpid is left when a stop has been asked for.
Reap_or_leave ==
    /\ pc = "wait"
    /\ child = "dead" \/ g_stop
    /\ child' = IF child = "dead" THEN "none" ELSE child
    /\ Goto("reaped")
    /\ UNCHANGED <<g_stop, g_child_pid, status, starts, missed>>

Reap ==
    /\ pc = "wait"
    /\ child = "dead"
    /\ child' = "none"
    /\ Goto("reaped")
    /\ UNCHANGED <<g_stop, g_child_pid, status, starts, missed>>

Forget ==
    /\ pc = "reaped"
    /\ g_child_pid' = -1
    /\ Goto("judge")
    /\ UNCHANGED <<g_stop, child, status, starts, missed>>

\* Mutant: any exit ends the watchdog, not exit(0) alone.
Judge_any_exit ==
    /\ pc = "judge"
    /\ Goto(IF g_stop \/ status # "killed" THEN "done" ELSE "loop")
    /\ UNCHANGED <<g_stop, g_child_pid, child, status, starts, missed>>

\* A stop or a clean exit ends the watchdog, anything else leads to sleep(1).
Judge ==
    /\ pc = "judge"
    /\ Goto(IF g_stop \/ status = "clean" THEN "done" ELSE "loop")
    /\ UNCHANGED <<g_stop, g_child_pid, child, status, starts, missed>>

-----------------------------------------------------------------------------
\* The child: execv and main of the server.

ChildDies(how) ==
    /\ child' = "dead"
    /\ status' = how
    /\ UNCHANGED <<pc, g_stop, g_child_pid, starts, missed>>

ChildMoves(from, to) ==
    /\ child = from
    /\ child' = to
    /\ UNCHANGED <<pc, g_stop, g_child_pid, status, starts, missed>>

Exec == ChildMoves("copy", "starting")
ExecFails == child = "copy" /\ ChildDies("failed")
Serve == ChildMoves("starting", "up")
ServerExits == child = "told" /\ ChildDies("clean")
ServerCrashes ==
    /\ child \in {"starting", "up"}
    /\ \E how \in Crashes : ChildDies(how)

-----------------------------------------------------------------------------
\* Signals.

\* What a signal does to the child: nothing before execv, the default action before
\* the server's signal() calls, then on_shutdown_signal of the server, exit(0).
Hit == [none |-> "none", copy |-> "copy", starting |-> "dead", up |-> "told",
        told |-> "told", dead |-> "dead"]

\* on_terminate; the child may get the signal from the terminal as well.
on_terminate(ctrl_c) ==
    /\ pc # "done"
    /\ g_stop' = TRUE
    /\ LET hit == ctrl_c \/ (g_child_pid > 0 /\ g_child_pid = starts) IN
       /\ child' = IF hit THEN Hit[child] ELSE child
       /\ status' = IF hit /\ child = "starting" THEN "killed" ELSE status
       /\ missed' = (child = "copy" \/ (pc = "adopt" /\ child \in Alive /\ ~ ctrl_c))
    /\ UNCHANGED <<pc, g_child_pid, starts>>

\* Somebody signals the server itself.
KillServer ==
    /\ child \in Alive
    /\ child' = Hit[child]
    /\ status' = IF child = "starting" THEN "killed" ELSE status
    /\ UNCHANGED <<pc, g_stop, g_child_pid, starts, missed>>

-----------------------------------------------------------------------------

Main == Loop \/ Fork \/ ForkFails \/ Adopt \/ Reap \/ Forget \/ Judge
Server == Exec \/ Serve \/ ServerExits

WatchdogNext ==
    \/ Main
    \/ Server \/ ExecFails \/ ServerCrashes
    \/ \E ctrl_c \in BOOLEAN : on_terminate(ctrl_c)
    \/ KillServer

\* Processes that can run do; fork succeeds in the end when it is tried again and again.
WatchdogSpec ==
    /\ Init /\ [][WatchdogNext]_wvars
    /\ SF_wvars(Fork) /\ WF_wvars(Main) /\ WF_wvars(Server)

-----------------------------------------------------------------------------

\* Whatever the moment of the signals, the watchdog does not end while its child runs,
\* does not start a second one beside it, and ends only for a stop or a clean exit.
NoServerLeftBehind ==
    /\ pc \in {"loop", "fork", "done"} => child = "none"
    /\ pc = "done" => g_stop \/ status = "clean"

\* A server that crashed, or could not be executed, is started again unless a stop is
\* asked for, however often fork fails.
CrashRestarted ==
    \A n \in 1 .. (START_LIMIT - 1) :
        (starts = n /\ child = "dead" /\ status \in Crashes)
            ~> (starts = n + 1 \/ g_stop)

\* A stop ends the watchdog and the server, except when the signal fell between the
\* loop's test and the assignment of g_child_pid, or hit a child before execv: such
\* a signal is lost on the server, and has to be sent again.
StopEnds ==
    g_stop ~> (pc = "done" \/ missed)
=============================================================================
