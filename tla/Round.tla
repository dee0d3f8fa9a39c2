-------------------------------- MODULE Round -------------------------------
(***************************************************************************)
(* The round of src/src/server/server_main.c: paying off the debt, the     *)
(* goal that rises with every escape, the countdown that three escapes,    *)
(* the grace period (src/src/server/events.c) or /fake endround start, and *)
(* the reset after it; with the rumor, whose fee and cooldown a reset      *)
(* undoes as well.  Reset is about the files and the board in a reset.     *)
(* A raid may burn an account in the middle of any of this; what leads to  *)
(* a burn is in Raid.                                                      *)
(*                                                                         *)
(* Each critical section and each call on users.dat is one step of a       *)
(* thread.  A reset takes no time compared with the sixty seconds of a     *)
(* countdown, so no second timer goes off while one is under way.          *)
(***************************************************************************)
EXTENDS Integers, Sequences, FiniteSets

CONSTANTS
    Key,                \* user keys, each with one session
    Event,              \* the event thread
    INITIAL_MONEY,      \* 1000 in protocol.h
    GOAL_MONEY,         \* 10000 in protocol.h
    DEBT_RAISE_STEP,    \* 2000
    DEBT_CAP,           \* 14000
    RUMOR_FEE,          \* 500
    ESCAPES_TO_END,     \* 3, and MAX_SCORE_ESCAPED
    ESCAPE_LIMIT        \* bound: escapes in a round

ASSUME RoundAssumption ==
    /\ Event \notin Key
    /\ {INITIAL_MONEY, GOAL_MONEY, DEBT_RAISE_STEP, DEBT_CAP, RUMOR_FEE, ESCAPES_TO_END,
        ESCAPE_LIMIT} \subseteq Nat
    /\ DEBT_RAISE_STEP > 0 /\ GOAL_MONEY < DEBT_CAP

VARIABLES
    users_dat,          \* key -> money on record; -1 marks a burned account
    g_goal_money,
    g_escaped_count,
    g_escape_log,       \* the first ESCAPES_TO_END escapes: key, money_at_escape
    g_round_end_active, \* a countdown is on
    g_cap_reached_at,   \* "none" (0), "recent", "expired": the grace period is over
    cooldown,           \* g_rumor_cd_until has not come yet
    th,                 \* where the handlers and the event thread are, with their locals
    sleeping,           \* the number of round_end_timer_threads that sleep
    resetting,          \* the next step of trigger_round_reset, or "idle"
    overtaken           \* history: the keys whose record was burned or reset since the
                        \* handler read it, while it has still to act on what it read

records == <<users_dat, overtaken>>
limits == <<g_goal_money, g_escaped_count, g_escape_log, g_cap_reached_at>>
round  == <<limits, g_round_end_active>>
timing == <<sleeping, resetting>>
rdvars == <<records, round, cooldown, th, timing>>

BURNED == -1
Threads == Key \cup {Event}
Ready == [pc |-> "ready"]
At(t, pc) == th[t].pc = pc
Goto(t, h) == th' = [th EXCEPT ![t] = h]

\* g_rumor_mutex is held from the look at the cooldown to the payment.
RumorMutexFree == \A k \in Key : ~ At(k, "fee")

\* The handlers that have read a record and have still to act on it.
HasRead(k) == th[k].pc \in {"payoff", "escaped", "fee"}

RoundInit ==
    /\ users_dat = [k \in Key |-> INITIAL_MONEY]
    /\ g_goal_money = GOAL_MONEY
    /\ g_escaped_count = 0
    /\ g_escape_log = <<>>
    /\ g_round_end_active = FALSE
    /\ g_cap_reached_at = "none"
    /\ cooldown = FALSE
    /\ th = [t \in Threads |-> Ready]
    /\ sleeping = 0
    /\ resetting = "idle"
    /\ overtaken = {}

-----------------------------------------------------------------------------
\* handle_payoff: the record is read before the lock is taken.

PayoffFind(k) ==
    /\ At(k, "ready")
    /\ Goto(k, [pc |-> "payoff", money |-> users_dat[k]])
    /\ UNCHANGED <<records, round, cooldown, timing>>

PayoffRefused(k) ==
    /\ At(k, "payoff") /\ th[k].money < g_goal_money
    /\ overtaken' = overtaken \ {k}
    /\ Goto(k, Ready)
    /\ UNCHANGED <<users_dat, round, cooldown, timing>>

\* Mutant: the cap is not applied to the new goal.
Raised_uncapped(goal) == goal + DEBT_RAISE_STEP

Raised(goal) ==
    IF goal + DEBT_RAISE_STEP > DEBT_CAP THEN DEBT_CAP ELSE goal + DEBT_RAISE_STEP

\* Mutant: the money is compared with the goal the round began with.
PayoffEscape_first_goal(k) ==
    /\ At(k, "payoff") /\ th[k].money >= GOAL_MONEY
    /\ g_escaped_count < ESCAPE_LIMIT
    /\ g_goal_money' = Raised(g_goal_money)
    /\ g_cap_reached_at' = IF g_goal_money' = DEBT_CAP /\ g_cap_reached_at = "none"
                           THEN "recent" ELSE g_cap_reached_at
    /\ g_escaped_count' = g_escaped_count + 1
    /\ g_escape_log' = IF g_escaped_count' <= ESCAPES_TO_END
                       THEN Append(g_escape_log, [key |-> k, money_at_escape |-> g_goal_money])
                       ELSE g_escape_log
    /\ Goto(k, [pc |-> "escaped", ends |-> g_escaped_count' >= ESCAPES_TO_END])
    /\ UNCHANGED <<records, g_round_end_active, cooldown, timing>>

\* The section under g_round_mutex.
PayoffEscape(k) ==
    /\ At(k, "payoff") /\ th[k].money >= g_goal_money
    /\ g_escaped_count < ESCAPE_LIMIT
    /\ g_goal_money' = Raised(g_goal_money)
    /\ g_cap_reached_at' = IF g_goal_money' = DEBT_CAP /\ g_cap_reached_at = "none"
                           THEN "recent" ELSE g_cap_reached_at
    /\ g_escaped_count' = g_escaped_count + 1
    /\ g_escape_log' = IF g_escaped_count' <= ESCAPES_TO_END
                       THEN Append(g_escape_log, [key |-> k, money_at_escape |-> g_goal_money])
                       ELSE g_escape_log
    /\ Goto(k, [pc |-> "escaped", ends |-> g_escaped_count' >= ESCAPES_TO_END])
    /\ UNCHANGED <<records, g_round_end_active, cooldown, timing>>

\* The account starts anew; the third escape goes on to fire_round_end_countdown.
PayoffRestart(k) ==
    /\ At(k, "escaped")
    /\ users_dat' = [users_dat EXCEPT ![k] = INITIAL_MONEY]
    /\ overtaken' = overtaken \ {k}
    /\ Goto(k, IF th[k].ends THEN [pc |-> "fire"] ELSE Ready)
    /\ UNCHANGED <<round, cooldown, timing>>

-----------------------------------------------------------------------------
\* handle_fake_rich: the goal is read under the lock and written to the record, which
\* is found but not looked at.

FakeRich(k) ==
    /\ At(k, "ready")
    /\ Goto(k, [pc |-> "rich", money |-> g_goal_money])
    /\ UNCHANGED <<records, round, cooldown, timing>>

FakeRichWrite(k) ==
    /\ At(k, "rich")
    /\ users_dat' = [users_dat EXCEPT ![k] = th[k].money]
    /\ Goto(k, Ready)
    /\ UNCHANGED <<overtaken, round, cooldown, timing>>

-----------------------------------------------------------------------------
\* handle_rumor, inside g_rumor_mutex, and check_bankruptcy after it.

\* Mutant: the mutex is not taken.
Rumor_unlocked(k) ==
    /\ At(k, "ready")
    /\ ~ cooldown
    /\ users_dat[k] >= RUMOR_FEE
    /\ Goto(k, [pc |-> "fee", money |-> users_dat[k]])
    /\ UNCHANGED <<records, round, cooldown, timing>>

\* Mutant: the fee is not compared with the money.
Rumor_on_credit(k) ==
    /\ At(k, "ready")
    /\ RumorMutexFree
    /\ ~ cooldown
    /\ Goto(k, [pc |-> "fee", money |-> users_dat[k]])
    /\ UNCHANGED <<records, round, cooldown, timing>>

Rumor(k) ==
    /\ At(k, "ready")
    /\ RumorMutexFree
    /\ ~ cooldown
    /\ users_dat[k] >= RUMOR_FEE
    /\ Goto(k, [pc |-> "fee", money |-> users_dat[k]])
    /\ UNCHANGED <<records, round, cooldown, timing>>

RumorPay(k) ==
    /\ At(k, "fee")
    /\ users_dat' = [users_dat EXCEPT ![k] = th[k].money - RUMOR_FEE]
    /\ overtaken' = overtaken \ {k}
    /\ cooldown' = TRUE
    /\ Goto(k, [pc |-> "bust_money"])
    /\ UNCHANGED <<round, timing>>

\* A player with documents in the sandbox is not bankrupt.
BustMoney(k) ==
    /\ At(k, "bust_money")
    /\ \/ Goto(k, Ready)
       \/ users_dat[k] <= 0 /\ Goto(k, [pc |-> "bust_burn"])
    /\ UNCHANGED <<records, round, cooldown, timing>>

BustBurn(k) ==
    /\ At(k, "bust_burn")
    /\ users_dat' = [users_dat EXCEPT ![k] = BURNED]
    /\ Goto(k, [pc |-> "gone"])
    /\ UNCHANGED <<overtaken, round, cooldown, timing>>

-----------------------------------------------------------------------------
\* burn_user_by_key, by the raid's timer thread or by the handler itself after a wrong
\* answer.  It neither stops the handler nor waits for it, and who is burned may go on
\* typing until the client hangs up.  To burn a burned account changes nothing.

RaidBurn(k) ==
    /\ users_dat[k] # BURNED
    /\ users_dat' = [users_dat EXCEPT ![k] = BURNED]
    /\ overtaken' = overtaken \cup {j \in {k} : HasRead(j)}
    /\ UNCHANGED <<round, cooldown, th, timing>>

-----------------------------------------------------------------------------
\* fire_round_end_countdown, by a handler or by the event thread.

FakeEndround(k) ==
    /\ At(k, "ready")
    /\ Goto(k, [pc |-> "fire"])
    /\ UNCHANGED <<records, round, cooldown, timing>>

\* The event thread, on each tick: check_cap_grace_expired.
Tick ==
    /\ At(Event, "ready")
    /\ g_cap_reached_at = "expired"
    /\ Goto(Event, [pc |-> "fire"])
    /\ UNCHANGED <<records, round, cooldown, timing>>

\* Mutant: the flag is tested, but set by the timer thread only.
FireClaim_late(t) ==
    /\ At(t, "fire")
    /\ Goto(t, IF g_round_end_active THEN Ready ELSE [pc |-> "arm"])
    /\ UNCHANGED <<records, round, cooldown, timing>>

\* The first caller goes on, any other returns.
FireClaim(t) ==
    /\ At(t, "fire")
    /\ g_round_end_active' = TRUE
    /\ Goto(t, IF g_round_end_active THEN Ready ELSE [pc |-> "arm"])
    /\ UNCHANGED <<records, limits, cooldown, timing>>

\* After the scoreboard was sent: the timer thread starts.
FireArm(t) ==
    /\ At(t, "arm")
    /\ sleeping' = sleeping + 1
    /\ Goto(t, Ready)
    /\ UNCHANGED <<records, round, cooldown, resetting>>

\* Mutant: the flag stays set.
FireFails_keeps_flag(t) ==
    /\ At(t, "arm")
    /\ Goto(t, Ready)
    /\ UNCHANGED <<records, round, cooldown, timing>>

\* It cannot be started, and the next caller may try again.
FireFails(t) ==
    /\ At(t, "arm")
    /\ g_round_end_active' = FALSE
    /\ Goto(t, Ready)
    /\ UNCHANGED <<records, limits, cooldown, timing>>

-----------------------------------------------------------------------------
\* round_end_timer_thread and trigger_round_reset.

TimerWakes ==
    /\ sleeping > 0 /\ resetting = "idle"
    /\ sleeping' = sleeping - 1
    /\ resetting' = IF g_round_end_active THEN "users" ELSE "idle"
    /\ UNCHANGED <<records, round, cooldown, th>>

userdb_reset_round ==
    users_dat' = [k \in Key |-> IF users_dat[k] = BURNED THEN BURNED ELSE INITIAL_MONEY]

ResetUsers ==
    /\ resetting = "users"
    /\ userdb_reset_round
    /\ overtaken' = overtaken \cup {k \in Key : HasRead(k)}
    /\ resetting' = "round"
    /\ UNCHANGED <<round, cooldown, th, sleeping>>

\* Mutant: the time the cap was reached is forgotten.
ResetRound_keeps_cap ==
    /\ resetting = "round"
    /\ g_goal_money' = GOAL_MONEY
    /\ g_escaped_count' = 0
    /\ g_escape_log' = <<>>
    /\ g_round_end_active' = FALSE
    /\ resetting' = "rumor"
    /\ UNCHANGED <<records, g_cap_reached_at, cooldown, th, sleeping>>

ResetRound ==
    /\ resetting = "round"
    /\ g_goal_money' = GOAL_MONEY
    /\ g_escaped_count' = 0
    /\ g_escape_log' = <<>>
    /\ g_cap_reached_at' = "none"
    /\ g_round_end_active' = FALSE
    /\ resetting' = "rumor"
    /\ UNCHANGED <<records, cooldown, th, sleeping>>

ResetRumor ==
    /\ resetting = "rumor"
    /\ RumorMutexFree
    /\ cooldown' = FALSE
    /\ resetting' = "idle"
    /\ UNCHANGED <<records, round, th, sleeping>>

\* Time goes by: the grace period, the cooldown.
GraceEnds ==
    /\ g_cap_reached_at = "recent"
    /\ g_cap_reached_at' = "expired"
    /\ UNCHANGED <<records, g_goal_money, g_escaped_count, g_escape_log,
                   g_round_end_active, cooldown, th, timing>>

CooldownEnds ==
    /\ cooldown
    /\ cooldown' = FALSE
    /\ UNCHANGED <<records, round, th, timing>>

-----------------------------------------------------------------------------

Handler(k) ==
    \/ PayoffRefused(k) \/ PayoffEscape(k) \/ PayoffRestart(k) \/ FakeRichWrite(k)
    \/ RumorPay(k) \/ BustMoney(k) \/ BustBurn(k)

Request(k) == PayoffFind(k) \/ FakeRich(k) \/ Rumor(k) \/ FakeEndround(k)

Arm == \E t \in Threads : FireArm(t)

Resetter == TimerWakes \/ ResetUsers \/ ResetRound \/ ResetRumor

RoundNext ==
    \/ \E k \in Key : Request(k) \/ Handler(k) \/ RaidBurn(k)
    \/ \E t \in Threads : FireClaim(t) \/ FireFails(t)
    \/ Arm \/ Tick \/ Resetter \/ GraceEnds \/ CooldownEnds

RoundSpec == RoundInit /\ [][RoundNext]_rdvars

\* Threads run and time passes.  The timer thread gets g_rumor_mutex in the end, which
\* is held for two file accesses at a time, and pthread_create succeeds in the end.
FairRoundSpec ==
    /\ RoundSpec
    /\ \A k \in Key : WF_rdvars(Handler(k))
    /\ \A t \in Threads : WF_rdvars(FireClaim(t))
    /\ SF_rdvars(Arm) /\ SF_rdvars(Resetter)
    /\ WF_rdvars(Tick) /\ WF_rdvars(GraceEnds)

-----------------------------------------------------------------------------

ThreadState ==
    [pc : {"ready", "fire", "arm", "bust_money", "bust_burn", "gone"}]
    \cup [pc : {"payoff", "rich", "fee"}, money : Int]
    \cup [pc : {"escaped"}, ends : BOOLEAN]

\* Type invariant of the records, the round and the threads.
RoundTypeOK ==
    /\ users_dat \in [Key -> Int]
    /\ g_goal_money \in GOAL_MONEY .. DEBT_CAP
    /\ g_escaped_count \in 0 .. ESCAPE_LIMIT
    /\ g_escape_log \in Seq([key : Key, money_at_escape : GOAL_MONEY .. DEBT_CAP])
    /\ Len(g_escape_log) <= ESCAPES_TO_END
    /\ g_round_end_active \in BOOLEAN
    /\ g_cap_reached_at \in {"none", "recent", "expired"}
    /\ cooldown \in BOOLEAN
    /\ th \in [Threads -> ThreadState]
    /\ sleeping \in Nat
    /\ resetting \in {"idle", "users", "round", "rumor"}
    /\ overtaken \subseteq {k \in Key : HasRead(k)}

Arming == {t \in Threads : At(t, "arm")}
Ending == resetting \in {"users", "round"}

\* Three escapes, the grace period and /fake endround may all end a round, and at the
\* same moment: there is one countdown at most, and the flag is up exactly while one
\* thread is on the way to a reset, whatever fails.
OneCountdown ==
    IF ~ g_round_end_active
    THEN Arming = {} /\ sleeping = 0 /\ ~ Ending
    ELSE \/ (\E t \in Threads : Arming = {t}) /\ sleeping = 0 /\ ~ Ending
         \/ Arming = {} /\ sleeping = 1 /\ ~ Ending
         \/ Arming = {} /\ sleeping = 0 /\ Ending

\* The goal after n escapes.
Goal(n) ==
    IF GOAL_MONEY + n * DEBT_RAISE_STEP > DEBT_CAP THEN DEBT_CAP
    ELSE GOAL_MONEY + n * DEBT_RAISE_STEP

\* The goal is what the escapes of this round have made it and no more than the cap,
\* the grace period runs from when the cap was reached, and the log holds the first
\* escapes with the goal each of them met; resets come between any two steps.
GoalFollowsEscapes ==
    /\ g_goal_money = Goal(g_escaped_count)
    /\ g_cap_reached_at = "none" <=> g_goal_money < DEBT_CAP
    /\ Len(g_escape_log) = IF g_escaped_count < ESCAPES_TO_END
                           THEN g_escaped_count ELSE ESCAPES_TO_END
    /\ \A i \in DOMAIN g_escape_log : g_escape_log[i].money_at_escape = Goal(i - 1)

\* One rumor for each cooldown: no fee is taken while it runs, and no two at a time.
OneRumorAtATime ==
    \A k \in Key : At(k, "fee") =>
        ~ cooldown /\ \A j \in Key : At(j, "fee") => j = k

\* A burned account comes back only by a command that had read the record before the
\* burn and writes it after (PayoffRestart, RumorPay), or by /fake rich, which looks at
\* nothing: no reset revives it, and no /payoff or /rumor begun after the burn.
RevivedOnlyByLateWrite ==
    [][\A k \in Key : users_dat[k] = BURNED /\ users_dat'[k] # BURNED =>
          k \in overtaken \/ At(k, "rich")]_rdvars

\* Whoever escapes has the goal on record, though the goal may rise between the look
\* at the record and g_round_mutex, and a rumor takes its fee and nothing else from the
\* record: money from before a burn or a reset is used by overtaken commands only.
PaidFromRecord ==
    [][\A k \in Key \ overtaken :
          /\ At(k, "payoff") /\ At(k, "escaped")' => users_dat[k] >= g_goal_money
          /\ At(k, "fee") /\ ~ At(k, "fee")' =>
                users_dat[k] >= RUMOR_FEE /\ users_dat'[k] = users_dat[k] - RUMOR_FEE]_rdvars

\* A round in which the cap is reached comes to an end: by the third escape or when
\* the grace period is over, though the timer thread may fail to start many times.
CapEndsRound == (g_cap_reached_at # "none") ~> (g_escaped_count = 0)
=============================================================================
