--------------------------- MODULE WatchdogProofs ---------------------------
(***************************************************************************)
(* For any number of restarts: whenever signals arrive, the watchdog has   *)
(* at most one server, waits for it before it forks again or ends, and     *)
(* the pid its handler signals is that of the latest child.                *)
(***************************************************************************)
EXTENDS Watchdog, TLAPS

-----------------------------------------------------------------------------
\* The invariant.

\* Where main, the child and the signal handler's variables may be.
WatchdogTypeOK ==
    /\ pc \in {"loop", "fork", "adopt", "wait", "reaped", "judge", "done"}
    /\ g_stop \in BOOLEAN
    /\ child \in Alive \cup {"none", "dead"}
    /\ status \in Crashes \cup {"clean"}
    /\ starts \in Nat
    /\ g_child_pid \in Int

\* There is a child, running or to be reaped, only from the fork to waitpid.
ChildOnlyWhileWaiting == child # "none" => pc \in {"adopt", "wait"}

\* g_child_pid is the latest child's from its adoption until it is forgotten, and
\* -1 at every other time: a signal is never sent to an earlier child.
PidIsLatest == g_child_pid = IF pc \in {"wait", "reaped"} THEN starts ELSE -1

WatchdogInv ==
    /\ WatchdogTypeOK
    /\ ChildOnlyWhileWaiting
    /\ PidIsLatest
    /\ NoServerLeftBehind

-----------------------------------------------------------------------------

\* A child that a signal can hit, and what becomes of it.
LEMMA HitType ==
    ASSUME NEW c \in Alive \cup {"none", "dead"}
    PROVE  /\ Hit[c] \in Alive \cup {"none", "dead"}
           /\ Hit[c] = "none" <=> c = "none"
BY DEF Hit, Alive

\* The invariant holds when the watchdog starts.
LEMMA WatchdogStart == Init => WatchdogInv
<1> SUFFICES ASSUME Init PROVE WatchdogInv
  OBVIOUS
<1>1. g_stop \in BOOLEAN
  BY Zenon DEF Init
<1>2. WatchdogTypeOK
  BY <1>1 DEF Init, WatchdogTypeOK, Alive, Crashes
<1>3. ChildOnlyWhileWaiting /\ PidIsLatest /\ NoServerLeftBehind
  BY DEF Init, ChildOnlyWhileWaiting, PidIsLatest, NoServerLeftBehind
<1>4. QED
  BY <1>2, <1>3 DEF WatchdogInv

\* Every step of main, of the child and of a signal keeps it.
LEMMA WatchdogStep == WatchdogInv /\ [WatchdogNext]_wvars => WatchdogInv'
<1> SUFFICES ASSUME WatchdogInv, [WatchdogNext]_wvars
             PROVE  WatchdogInv'
  OBVIOUS
<1> USE DEF WatchdogInv, WatchdogTypeOK, ChildOnlyWhileWaiting, PidIsLatest,
            NoServerLeftBehind, Alive, Crashes
<1>1. CASE Loop
  BY <1>1 DEF Loop, Goto
<1>2. CASE Fork
  BY <1>2 DEF Fork, Goto
<1>3. CASE ForkFails
  BY <1>3 DEF ForkFails, Goto
<1>4. CASE Adopt
  BY <1>4 DEF Adopt, Goto
<1>5. CASE Reap
  BY <1>5 DEF Reap, Goto
<1>6. CASE Forget
  BY <1>6 DEF Forget, Goto
<1>7. CASE Judge
  BY <1>7 DEF Judge, Goto
<1>8. CASE Exec \/ Serve
  BY <1>8 DEF Exec, Serve, ChildMoves
<1>9. CASE ExecFails \/ ServerExits
  BY <1>9 DEF ExecFails, ServerExits, ChildDies
<1>10. CASE ServerCrashes
  BY <1>10 DEF ServerCrashes, ChildDies
<1>11. ASSUME NEW ctrl_c \in BOOLEAN, on_terminate(ctrl_c)
       PROVE  WatchdogInv'
  BY <1>11, HitType DEF on_terminate
<1>12. CASE KillServer
  BY <1>12, HitType DEF KillServer
<1>13. CASE UNCHANGED wvars
  BY <1>13 DEF wvars
<1>14. QED
  BY <1>1, <1>2, <1>3, <1>4, <1>5, <1>6, <1>7, <1>8, <1>9, <1>10, <1>11, <1>12, <1>13
  DEF WatchdogNext, Main, Server

\* Whatever the moment of the signals and however often fork fails, the watchdog
\* neither ends nor forks while a child of its own is there, and it ends only for
\* a stop or a clean exit (the loop of main in watchdog.c).
THEOREM ServerNotLeftBehind == WatchdogSpec => []NoServerLeftBehind
<1>1. WatchdogInv => NoServerLeftBehind
  BY DEF WatchdogInv
<1>2. QED
  BY <1>1, WatchdogStart, WatchdogStep, PTL DEF WatchdogSpec

\* The signal handler on_terminate finds -1 or the number of the latest child in
\* g_child_pid, and the child it finds is never one that has been replaced.
THEOREM HandlerSignalsLatest == WatchdogSpec => [](g_child_pid \in {-1, starts})
<1>1. WatchdogInv => g_child_pid \in {-1, starts}
  BY DEF WatchdogInv, PidIsLatest
<1>2. QED
  BY <1>1, WatchdogStart, WatchdogStep, PTL DEF WatchdogSpec
=============================================================================
