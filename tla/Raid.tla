-------------------------------- MODULE Raid --------------------------------
(***************************************************************************)
(* Police raids (src/src/server/server_main.c): everybody who is logged in *)
(* is put on a list and has fifteen seconds to send the passcode back; the *)
(* timer thread burns the accounts that are still on the list.  A player   *)
(* may start a raid against himself (/fake raid) over the same state.      *)
(*                                                                         *)
(* A critical section of g_periodic_raid_mutex is one step, except in      *)
(* fire_periodic_police_raid, which waits for clients_mutex inside it;     *)
(* that mutex is held by broadcasts while they send.  A burn is one step   *)
(* here (Trade has its parts).  Players come and go at any time (Sessions  *)
(* is about how), so any set of keys may be logged in when a list is made. *)
(***************************************************************************)
EXTENDS Integers, FiniteSets, Functions

CONSTANTS
    Key,            \* user keys
    RAID_LIMIT      \* bound: raids that are started

ASSUME RaidAssumption == IsFiniteSet(Key) /\ RAID_LIMIT \in Nat

VARIABLES
    casting,    \* a broadcast holds clients_mutex
    deadline,   \* of the raid: "none" (0), "running", "passed"
    pending,    \* slot -> key that has not answered, for the slots in use
    ev,         \* where the event thread is in fire_periodic_police_raid
    th,         \* key -> where its handler thread is, with its locals
    timers,     \* the raids whose timer thread sleeps
    due,        \* <<raid, key>>: victims a timer thread has still to burn
    raid_no,    \* (history) the number of the latest raid
    log         \* (history) <<raid, key, what became of the key in it>>

police  == <<deadline, pending, timers, due>>
rvars   == <<casting, police, ev, th, raid_no, log>>

Raids == 1 .. RAID_LIMIT
Ready == [pc |-> "ready"]
Goto(k, h) == th' = [th EXCEPT ![k] = h]

NoKeys == [i \in {} |-> {}]
Noted(n, k, what) == <<n, k, what>> \in log
Note(n, K, what) == log' = log \cup {<<n, k, what>> : k \in K}

\* g_periodic_raid_mutex, held across steps in FireSnapshot only; clients_mutex.
RaidMutexFree == ev # "snapshot"
ClientsMutexFree == ~ casting

RaidInit ==
    /\ casting = FALSE
    /\ deadline = "none"
    /\ pending = NoKeys
    /\ ev = "idle"
    /\ th = [k \in Key |-> Ready]
    /\ timers = {}
    /\ due = {}
    /\ raid_no = 0
    /\ log = {}

-----------------------------------------------------------------------------
\* Other threads broadcast, and time goes by.

CastBegin ==
    /\ ClientsMutexFree
    /\ casting' = TRUE
    /\ UNCHANGED <<police, ev, th, raid_no, log>>

CastEnd ==
    /\ casting
    /\ casting' = FALSE
    /\ UNCHANGED <<police, ev, th, raid_no, log>>

DeadlinePasses ==
    /\ deadline = "running"
    /\ deadline' = "passed"
    /\ UNCHANGED <<casting, pending, timers, due, ev, th, raid_no, log>>

-----------------------------------------------------------------------------
\* Starting a raid.  The timer thread is the last thing both functions see to; if it
\* cannot be started, the raid is called off.

\* Mutant: the raid is not called off.
StartTimer_or_not ==
    /\ timers' = timers \cup {raid_no} \/ UNCHANGED timers
    /\ UNCHANGED <<deadline, pending, due, log>>

StartTimer ==
    /\ UNCHANGED due
    /\ \/ /\ timers' = timers \cup {raid_no}
          /\ UNCHANGED <<deadline, pending, log>>
       \/ /\ RaidMutexFree
          /\ deadline' = "none"
          /\ pending' = NoKeys
          /\ Note(raid_no, Key, "let off")
          /\ UNCHANGED timers

\* fire_periodic_police_raid, by the event thread: nothing while a raid is on.
FireBegin ==
    /\ ev = "idle" /\ raid_no < RAID_LIMIT
    /\ deadline = "none"
    /\ deadline' = "running"
    /\ pending' = NoKeys
    /\ ev' = "snapshot"
    /\ raid_no' = raid_no + 1
    /\ UNCHANGED <<casting, timers, due, th, log>>

\* Mutant: pending_cnt is increased before its use as an index.
FireSnapshot_from_one ==
    /\ ev = "snapshot"
    /\ ClientsMutexFree
    /\ \E online \in SUBSET Key :
          /\ pending' \in Bijection(1 .. Cardinality(online), online)
          /\ ev' = IF online = {} THEN "empty" ELSE "cast"
          /\ Note(raid_no, online, "asked")
    /\ UNCHANGED <<casting, deadline, timers, due, th, raid_no>>

\* The keys in the order of the table, which may be any.
FireSnapshot ==
    /\ ev = "snapshot"
    /\ ClientsMutexFree
    /\ \E online \in SUBSET Key :
          /\ pending' \in Bijection(0 .. (Cardinality(online) - 1), online)
          /\ ev' = IF online = {} THEN "empty" ELSE "cast"
          /\ Note(raid_no, online, "asked")
    /\ UNCHANGED <<casting, deadline, timers, due, th, raid_no>>

\* Mutant: with nobody logged in, the function returns at once.
FireEmpty_returns ==
    /\ ev = "empty"
    /\ ev' = "idle"
    /\ UNCHANGED <<casting, police, th, raid_no, log>>

FireEmpty ==
    /\ ev = "empty"
    /\ deadline' = "none"
    /\ ev' = "idle"
    /\ UNCHANGED <<casting, pending, timers, due, th, raid_no, log>>

\* Everybody is sent the passcode.
FireCast ==
    /\ ev = "cast"
    /\ ClientsMutexFree
    /\ ev' = "arm"
    /\ UNCHANGED <<casting, police, th, raid_no, log>>

FireArm ==
    /\ ev = "arm"
    /\ StartTimer
    /\ ev' = "idle"
    /\ UNCHANGED <<casting, th, raid_no>>

\* fire_self_police_raid, by the handler of k; refused while a raid is on.
SelfFire(k) ==
    /\ RaidMutexFree
    /\ th[k] = Ready /\ raid_no < RAID_LIMIT
    /\ deadline = "none"
    /\ deadline' = "running"
    /\ pending' = [i \in {0} |-> k]
    /\ raid_no' = raid_no + 1
    /\ Note(raid_no', {k}, "asked")
    /\ Goto(k, [pc |-> "arm"])
    /\ UNCHANGED <<casting, timers, due, ev>>

SelfArm(k) ==
    /\ th[k].pc = "arm"
    /\ StartTimer
    /\ Goto(k, Ready)
    /\ UNCHANGED <<casting, ev, raid_no>>

-----------------------------------------------------------------------------
\* handle_minigame_submit: one critical section finds the slot of the key, another
\* clears it, by its number.

SlotsOf(k) == {i \in DOMAIN pending : pending[i] = k}

Submit(k, right) ==
    /\ RaidMutexFree
    /\ th[k] = Ready
    /\ deadline = "running"
    /\ \E i \in SlotsOf(k) :
          /\ \A j \in SlotsOf(k) : i <= j
          /\ Goto(k, [pc |-> "answered", slot |-> i, right |-> right, raid |-> raid_no])
    /\ UNCHANGED <<casting, police, ev, raid_no, log>>

\* What k's answer has settled: too late when the timer was there before, and then
\* the slot may be one of a later raid.
InTime(k) ==
    /\ th[k].raid = raid_no
    /\ th[k].slot \in DOMAIN pending

SlippedKeys(k) ==
    {pending[i] : i \in IF InTime(k) THEN {} ELSE {th[k].slot} \cap DOMAIN pending}

\* Mutant: a right answer is confirmed, but the key stays on the list.
Settle_keeps_entry(k) ==
    /\ RaidMutexFree
    /\ th[k].pc = "answered"
    /\ log' = log \cup IF th[k].right
                       THEN {<<th[k].raid, k, IF InTime(k) THEN "ok" ELSE "late">>} ELSE {}
    /\ Goto(k, IF th[k].right THEN Ready ELSE [pc |-> "burn", raid |-> th[k].raid])
    /\ UNCHANGED <<casting, police, ev, raid_no>>

Settle(k) ==
    /\ RaidMutexFree
    /\ th[k].pc = "answered"
    /\ pending' = Restrict(pending, DOMAIN pending \ {th[k].slot})
    /\ log' = log \cup {<<raid_no, v, "slipped">> : v \in SlippedKeys(k)}
                  \cup IF th[k].right
                       THEN {<<th[k].raid, k, IF InTime(k) THEN "ok" ELSE "late">>} ELSE {}
    /\ Goto(k, IF th[k].right THEN Ready ELSE [pc |-> "burn", raid |-> th[k].raid])
    /\ UNCHANGED <<casting, deadline, timers, due, ev, raid_no>>

\* burn_user_by_key, ending with a message inside clients_mutex.
Burn(k) ==
    /\ ClientsMutexFree
    /\ th[k].pc = "burn"
    /\ Note(th[k].raid, {k}, "burned")
    /\ Goto(k, Ready)
    /\ UNCHANGED <<casting, police, ev, raid_no>>

-----------------------------------------------------------------------------
\* periodic_raid_timeout_thread.  It sleeps as long as the deadline is away, and
\* starts later than the deadline was set.

\* Mutant: the list is cleared before it is copied.
TimerFires_clears_first(n) ==
    /\ RaidMutexFree
    /\ n \in timers
    /\ n = raid_no => deadline # "running"
    /\ timers' = timers \ {n}
    /\ pending' = NoKeys
    /\ deadline' = "none"
    /\ UNCHANGED <<casting, due, ev, th, raid_no, log>>

TimerFires(n) ==
    /\ RaidMutexFree
    /\ n \in timers
    /\ n = raid_no => deadline # "running"
    /\ timers' = timers \ {n}
    /\ due' = due \cup {<<n, pending[i]>> : i \in DOMAIN pending}
    /\ pending' = NoKeys
    /\ deadline' = "none"
    /\ UNCHANGED <<casting, ev, th, raid_no, log>>

TimerBurns(n, k) ==
    /\ ClientsMutexFree
    /\ <<n, k>> \in due
    /\ due' = due \ {<<n, k>>}
    /\ Note(n, {k}, "burned")
    /\ UNCHANGED <<casting, deadline, pending, timers, ev, th, raid_no>>

-----------------------------------------------------------------------------

Fire == FireSnapshot \/ FireEmpty \/ FireCast \/ FireArm
Handler(k) == SelfArm(k) \/ Settle(k) \/ Burn(k)
Request(k) == SelfFire(k) \/ \E right \in BOOLEAN : Submit(k, right)
Timer(n) == TimerFires(n) \/ \E k \in Key : TimerBurns(n, k)

RaidNext ==
    \/ \E k \in Key : Request(k) \/ Handler(k)
    \/ CastBegin \/ CastEnd \/ DeadlinePasses
    \/ FireBegin \/ Fire
    \/ \E n \in Raids : Timer(n)

RaidSpec == RaidInit /\ [][RaidNext]_rvars

Threads == Fire \/ (\E k \in Key : Handler(k)) \/ (\E n \in Raids : Timer(n))

\* Threads that are not asleep run.  Broadcasts end, because clients read, and leave
\* clients_mutex free for seconds, so that whoever waits for it gets it.
FairRaidSpec ==
    /\ RaidSpec
    /\ WF_rvars(CastEnd) /\ WF_rvars(DeadlinePasses) /\ SF_rvars(Threads)

-----------------------------------------------------------------------------

HandlerState ==
    [pc : {"ready", "arm"}]
    \cup [pc : {"answered"}, slot : Nat, right : BOOLEAN, raid : Raids]
    \cup [pc : {"burn"}, raid : Raids]

\* Type invariant of the raid, the threads and the history.
RaidTypeOK ==
    /\ casting \in BOOLEAN
    /\ deadline \in {"none", "running", "passed"}
    /\ pending \in UNION {[S -> Key] : S \in SUBSET (0 .. (Cardinality(Key) - 1))}
    /\ ev \in {"idle", "snapshot", "empty", "cast", "arm"}
    /\ th \in [Key -> HandlerState]
    /\ timers \subseteq Raids
    /\ due \subseteq Raids \X Key
    /\ raid_no \in 0 .. RAID_LIMIT
    /\ log \subseteq Raids \X Key \X {"asked", "ok", "late", "slipped", "burned", "let off"}

\* Who has to end the raid that is on: the event thread, a handler, or a timer.
Firing == (IF ev = "idle" THEN {} ELSE {"event"}) \cup {k \in Key : th[k].pc = "arm"}

\* While a raid is on exactly one thread is going to end it, and that is its own: no
\* raid is left without a timer, whichever call fails, and no timer of an earlier raid
\* is still asleep to cut it short.  When none is on, nobody is on the list.
OneThreadEndsIt ==
    /\ deadline # "none" =>
          \/ Cardinality(Firing) = 1 /\ timers = {}
          \/ Firing = {} /\ timers = {raid_no}
    /\ deadline = "none" => Firing = {} /\ timers = {} /\ pending = NoKeys

\* Whoever is accepted in time is not burned by that raid, though the list goes by
\* slot numbers that change hands from raid to raid.
AcceptedNotBurned ==
    \A n \in Raids, k \in Key : ~ (Noted(n, k, "ok") /\ Noted(n, k, "burned"))

\* What became of key k in raid n.
Answered(n, k) == Noted(n, k, "ok") \/ Noted(n, k, "late")
Awaited(n, k) ==
    \/ n = raid_no /\ SlotsOf(k) # {}
    \/ <<n, k>> \in due
    \/ th[k].pc \in {"answered", "burn"} /\ th[k].raid = n

\* The key was answered for, or burned, or one of the two things befell it that let
\* it off: the raid was called off, or another handler cleared its slot.
Decided(n, k) ==
    \/ Answered(n, k) \/ Noted(n, k, "burned")
    \/ Noted(n, k, "let off") \/ Noted(n, k, "slipped")

\* Nobody who was asked gets off without an answer, unless the raid was called off
\* for want of a timer or a handler, asleep since an earlier raid, cleared the slot.
SilentAreBurned ==
    \A n \in Raids, k \in Key :
        Noted(n, k, "asked") => Awaited(n, k) \/ Decided(n, k)

\* Every raid comes to its verdicts, although its start waits for clients_mutex
\* while it holds its own mutex, and every answer and the timer wait for that.
VerdictReached ==
    \A n \in Raids :
        (\E k \in Key : Noted(n, k, "asked"))
            ~> (\A k \in Key : Noted(n, k, "asked") => Decided(n, k))
=============================================================================
