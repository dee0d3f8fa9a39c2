----------------------------- MODULE RoundProofs ----------------------------
(***************************************************************************)
(* For any number of players, any prices and any limits: the types of the  *)
(* round, the goal that follows the escapes, one countdown at most, one    *)
(* rumor at a time, which commands may revive a burned account, and that   *)
(* all but those that were overtaken pay with what is on record.           *)
(***************************************************************************)
EXTENDS Round, TLAPS

-----------------------------------------------------------------------------
\* The invariant.

\* What a handler has read is what is on record until a burn or a reset overtakes
\* it; it is enough for what the handler goes on to, and an escape under way belongs to
\* a live account.
ReadingsHold ==
    \A k \in Key \ overtaken :
        /\ At(k, "payoff") => th[k].money = users_dat[k]
        /\ At(k, "fee") => th[k].money = users_dat[k] /\ th[k].money >= RUMOR_FEE
        /\ At(k, "escaped") => users_dat[k] # BURNED

\* The types and the goal need one another: the log is short because it follows
\* the count, and the goal follows the count because both are numbers.
RoundInv ==
    /\ RoundTypeOK
    /\ GoalFollowsEscapes
    /\ OneCountdown
    /\ OneRumorAtATime
    /\ ReadingsHold

-----------------------------------------------------------------------------
\* Lemmas on the operators.

\* What a thread keeps at each point, and what it may go on to.
LEMMA ThreadStates ==
    /\ \A p \in {"ready", "fire", "arm", "bust_money", "bust_burn", "gone"} :
          [pc |-> p] \in ThreadState
    /\ \A p \in {"payoff", "rich", "fee"}, m \in Int : [pc |-> p, money |-> m] \in ThreadState
    /\ \A e \in BOOLEAN : [pc |-> "escaped", ends |-> e] \in ThreadState
    /\ \A h \in ThreadState :
          /\ h.pc \in {"payoff", "rich", "fee"} => h.money \in Int
          /\ h.pc = "escaped" => h.ends \in BOOLEAN
BY DEF ThreadState

\* One more escape raises the goal by one step, up to the cap.
LEMMA RaisedGoal ==
    ASSUME NEW n \in Nat
    PROVE  /\ Goal(n) \in GOAL_MONEY .. DEBT_CAP
           /\ Raised(Goal(n)) = Goal(n + 1)
           /\ Goal(n) <= Goal(n + 1)
           /\ Goal(0) = GOAL_MONEY
<1>1. /\ (n + 1) * DEBT_RAISE_STEP = n * DEBT_RAISE_STEP + DEBT_RAISE_STEP
      /\ n * DEBT_RAISE_STEP \in Nat
      /\ 0 * DEBT_RAISE_STEP = 0
  BY RoundAssumption
<1>2. QED
  BY <1>1, RoundAssumption DEF Goal, Raised

-----------------------------------------------------------------------------
\* Types, and the goal.

\* Every step but an escape, the end of the grace period and a reset leaves the
\* goal, the count, the log and the time of the cap alone.
LEMMA LimitsKept ==
    ASSUME [RoundNext]_rdvars
    PROVE  \/ UNCHANGED limits
           \/ \E k \in Key : PayoffEscape(k)
           \/ ResetRound
           \/ GraceEnds
BY DEF RoundNext, RaidBurn, rdvars, round, limits, Request, Handler, Arm, Resetter, PayoffFind, FakeRich,
       Rumor, FakeEndround, PayoffRefused, PayoffRestart, FakeRichWrite, RumorPay, BustMoney,
       BustBurn, FireClaim, FireFails, FireArm, Tick, TimerWakes, ResetUsers, ResetRumor,
       CooldownEnds

\* An escape, a reset and the end of the grace period keep the goal in step with
\* the count, and the log within the board.
LEMMA GoalStep ==
    ASSUME RoundTypeOK, GoalFollowsEscapes, [RoundNext]_rdvars
    PROVE  /\ GoalFollowsEscapes'
           /\ g_goal_money' \in GOAL_MONEY .. DEBT_CAP
           /\ g_escaped_count' \in 0 .. ESCAPE_LIMIT
           /\ g_escape_log' \in Seq([key : Key, money_at_escape : GOAL_MONEY .. DEBT_CAP])
           /\ Len(g_escape_log') <= ESCAPES_TO_END
           /\ g_cap_reached_at' \in {"none", "recent", "expired"}
<1>1. CASE UNCHANGED limits
  BY <1>1 DEF limits, RoundTypeOK, GoalFollowsEscapes
<1>2. ASSUME NEW k \in Key, PayoffEscape(k)
      PROVE  /\ GoalFollowsEscapes'
             /\ g_goal_money' \in GOAL_MONEY .. DEBT_CAP
             /\ g_escaped_count' \in 0 .. ESCAPE_LIMIT
             /\ g_escape_log' \in Seq([key : Key, money_at_escape : GOAL_MONEY .. DEBT_CAP])
             /\ Len(g_escape_log') <= ESCAPES_TO_END
             /\ g_cap_reached_at' \in {"none", "recent", "expired"}
  <2> DEFINE n == g_escaped_count
             Escape == [key : Key, money_at_escape : GOAL_MONEY .. DEBT_CAP]
  <2>1. /\ n \in Nat /\ n < ESCAPE_LIMIT
        /\ g_escaped_count' = n + 1
        /\ g_goal_money = Goal(n)
        /\ g_goal_money' = Goal(n + 1)
        /\ Goal(n) \in GOAL_MONEY .. DEBT_CAP
        /\ Goal(n + 1) \in GOAL_MONEY .. DEBT_CAP
        /\ Goal(n) <= Goal(n + 1)
    BY <1>2, RaisedGoal, RoundAssumption
    DEF PayoffEscape, RoundTypeOK, GoalFollowsEscapes
  <2>2. /\ g_cap_reached_at' \in {"none", "recent", "expired"}
        /\ g_cap_reached_at' = "none" <=> g_goal_money' < DEBT_CAP
    BY <1>2, <2>1, RoundAssumption DEF PayoffEscape, RoundTypeOK, GoalFollowsEscapes
  <2>3. /\ g_escape_log' \in Seq(Escape)
        /\ Len(g_escape_log') = IF n + 1 < ESCAPES_TO_END THEN n + 1 ELSE ESCAPES_TO_END
        /\ \A i \in DOMAIN g_escape_log' : g_escape_log'[i].money_at_escape = Goal(i - 1)
    <3>1. /\ g_escape_log \in Seq(Escape)
          /\ Len(g_escape_log) = IF n < ESCAPES_TO_END THEN n ELSE ESCAPES_TO_END
          /\ \A i \in 1 .. Len(g_escape_log) : g_escape_log[i].money_at_escape = Goal(i - 1)
      BY DEF RoundTypeOK, GoalFollowsEscapes
    <3>2. CASE n + 1 <= ESCAPES_TO_END
      <4> DEFINE e == [key |-> k, money_at_escape |-> Goal(n)]
      <4>1. g_escape_log' = Append(g_escape_log, e) /\ e \in Escape
        BY <1>2, <2>1, <3>2 DEF PayoffEscape
      <4>2. Len(g_escape_log) = n
        BY <2>1, <3>1, <3>2, RoundAssumption
      <4>3. /\ g_escape_log' \in Seq(Escape)
            /\ Len(g_escape_log') = n + 1
            /\ \A i \in 1 .. n : g_escape_log'[i] = g_escape_log[i]
            /\ g_escape_log'[n + 1] = e
        BY <3>1, <4>1, <4>2
      <4>4. \A i \in 1 .. (n + 1) : g_escape_log'[i].money_at_escape = Goal(i - 1)
        <5>1. \A i \in 1 .. n : g_escape_log'[i].money_at_escape = Goal(i - 1)
          BY <3>1, <4>2, <4>3
        <5>2. g_escape_log'[n + 1].money_at_escape = Goal((n + 1) - 1)
          <6>1. (n + 1) - 1 = n
            BY <2>1
          <6>2. QED
            BY <4>3, <6>1
        <5>3. \A i \in 1 .. (n + 1) : i \in 1 .. n \/ i = n + 1
          BY <2>1
        <5>4. QED
          BY <5>1, <5>2, <5>3
      <4>5. DOMAIN g_escape_log' = 1 .. (n + 1)
        BY <4>3
      <4>6. n + 1 = IF n + 1 < ESCAPES_TO_END THEN n + 1 ELSE ESCAPES_TO_END
        <5> HIDE DEF n
        <5>1. ESCAPES_TO_END \in Nat
          BY RoundAssumption
        <5>2. QED
          BY <2>1, <3>2, <5>1
      <4>7. /\ Len(g_escape_log') = IF n + 1 < ESCAPES_TO_END THEN n + 1 ELSE ESCAPES_TO_END
            /\ \A i \in DOMAIN g_escape_log' : g_escape_log'[i].money_at_escape = Goal(i - 1)
        BY <4>3, <4>4, <4>5, <4>6, Zenon
      <4>8. QED
        BY <4>3, <4>7
    <3>3. CASE n + 1 > ESCAPES_TO_END
      <4>1. g_escape_log' = g_escape_log
        BY <1>2, <2>1, <3>3, RoundAssumption DEF PayoffEscape
      <4>2. /\ g_escape_log' \in Seq(Escape)
            /\ \A i \in DOMAIN g_escape_log' : g_escape_log'[i].money_at_escape = Goal(i - 1)
        BY <3>1, <4>1
      <4>3. Len(g_escape_log') = IF n + 1 < ESCAPES_TO_END THEN n + 1 ELSE ESCAPES_TO_END
        <5> HIDE DEF n
        <5>1. ESCAPES_TO_END \in Nat
          BY RoundAssumption
        <5>2. QED
          BY <2>1, <3>1, <3>3, <4>1, <5>1
      <4>4. QED
        BY <4>2, <4>3
    <3>4. QED
      BY <2>1, <3>2, <3>3, RoundAssumption
  <2>4. QED
    BY <2>1, <2>2, <2>3, RoundAssumption DEF GoalFollowsEscapes
<1>3. CASE ResetRound
  <2>1. /\ g_goal_money' = GOAL_MONEY /\ g_escaped_count' = 0
        /\ g_escape_log' = <<>> /\ g_cap_reached_at' = "none"
    BY <1>3 DEF ResetRound
  <2>2. Goal(0) = GOAL_MONEY
    BY RaisedGoal
  <2>3. /\ Len(g_escape_log') = 0
        /\ DOMAIN g_escape_log' = {}
        /\ g_escape_log' \in Seq([key : Key, money_at_escape : GOAL_MONEY .. DEBT_CAP])
    BY <2>1
  <2>4. QED
    BY <2>1, <2>2, <2>3, RoundAssumption DEF GoalFollowsEscapes
<1>4. CASE GraceEnds
  BY <1>4 DEF GraceEnds, RoundTypeOK, GoalFollowsEscapes
<1>5. QED
  BY <1>1, <1>2, <1>3, <1>4, LimitsKept

\* The variables that RoundTypeOK is about and GoalStep is not.
RecordsAndThreadsOK ==
    /\ users_dat \in [Key -> Int]
    /\ g_round_end_active \in BOOLEAN
    /\ cooldown \in BOOLEAN
    /\ th \in [Threads -> ThreadState]
    /\ sleeping \in Nat
    /\ resetting \in {"idle", "users", "round", "rumor"}
    /\ overtaken \subseteq {k \in Key : HasRead(k)}

\* Every step keeps the types of the records, the flags and the threads.
LEMMA TypeStep ==
    ASSUME RoundTypeOK, GoalFollowsEscapes, [RoundNext]_rdvars
    PROVE  RoundTypeOK'
<1>0. RecordsAndThreadsOK'
  <2> USE ThreadStates, RoundAssumption
      DEF RoundTypeOK, RecordsAndThreadsOK, Goto, At, Ready, Threads, records, round, limits, timing, BURNED, HasRead
  <2>1. ASSUME NEW k \in Key, PayoffFind(k)
        PROVE  RecordsAndThreadsOK'
    BY <2>1 DEF PayoffFind
  <2>2. ASSUME NEW k \in Key, FakeRich(k)
        PROVE  RecordsAndThreadsOK'
    BY <2>2 DEF FakeRich
  <2>3. ASSUME NEW k \in Key, Rumor(k)
        PROVE  RecordsAndThreadsOK'
    BY <2>3 DEF Rumor
  <2>4. ASSUME NEW k \in Key, FakeEndround(k)
        PROVE  RecordsAndThreadsOK'
    BY <2>4 DEF FakeEndround
  <2>5. ASSUME NEW k \in Key, PayoffRefused(k)
        PROVE  RecordsAndThreadsOK'
    BY <2>5 DEF PayoffRefused
  <2>6. ASSUME NEW k \in Key, PayoffEscape(k)
        PROVE  RecordsAndThreadsOK'
    <3>1. (g_escaped_count' >= ESCAPES_TO_END) \in BOOLEAN
      OBVIOUS
    <3>2. th' \in [Threads -> ThreadState]
      BY <2>6, <3>1 DEF PayoffEscape
    <3>3. QED
      BY <2>6, <3>2 DEF PayoffEscape
  <2>7. ASSUME NEW k \in Key, PayoffRestart(k)
        PROVE  RecordsAndThreadsOK'
    BY <2>7 DEF PayoffRestart
  <2>8. ASSUME NEW k \in Key, FakeRichWrite(k)
        PROVE  RecordsAndThreadsOK'
    BY <2>8 DEF FakeRichWrite
  <2>9. ASSUME NEW k \in Key, RumorPay(k)
        PROVE  RecordsAndThreadsOK'
    BY <2>9 DEF RumorPay
  <2>10. ASSUME NEW k \in Key, BustMoney(k)
        PROVE  RecordsAndThreadsOK'
    BY <2>10 DEF BustMoney
  <2>11. ASSUME NEW k \in Key, BustBurn(k)
        PROVE  RecordsAndThreadsOK'
    BY <2>11 DEF BustBurn
  <2>12. ASSUME NEW t \in Threads, FireClaim(t)
        PROVE  RecordsAndThreadsOK'
    BY <2>12 DEF FireClaim
  <2>13. ASSUME NEW t \in Threads, FireFails(t)
        PROVE  RecordsAndThreadsOK'
    BY <2>13 DEF FireFails
  <2>14. ASSUME NEW t \in Threads, FireArm(t)
        PROVE  RecordsAndThreadsOK'
    BY <2>14 DEF FireArm
  <2>15. CASE Tick
    BY <2>15 DEF Tick
  <2>16. CASE TimerWakes
    BY <2>16 DEF TimerWakes
  <2>17. CASE ResetUsers
    BY <2>17 DEF ResetUsers, userdb_reset_round
  <2>18. CASE ResetRound
    BY <2>18 DEF ResetRound
  <2>19. CASE ResetRumor
    BY <2>19 DEF ResetRumor
  <2>20. CASE GraceEnds
    BY <2>20 DEF GraceEnds
  <2>21. CASE CooldownEnds
    BY <2>21 DEF CooldownEnds
  <2>22. CASE UNCHANGED rdvars
    BY <2>22 DEF rdvars, round, limits, timing
  <2>23. ASSUME NEW k \in Key, RaidBurn(k)
         PROVE  RecordsAndThreadsOK'
    BY <2>23 DEF RaidBurn
  <2>24. QED
    BY <2>1, <2>2, <2>3, <2>4, <2>5, <2>6, <2>7, <2>8, <2>9, <2>10, <2>11, <2>12, <2>13, <2>14,
       <2>15, <2>16, <2>17, <2>18, <2>19, <2>20, <2>21, <2>22, <2>23
    DEF RoundNext, Request, Handler, Arm, Resetter
<1>1. QED
  BY <1>0, GoalStep DEF RoundTypeOK, RecordsAndThreadsOK

-----------------------------------------------------------------------------
\* The countdown.

\* The steps of requests, before and after fire_round_end_countdown, do not touch
\* the flag or the timer, and neither start nor end where a countdown is armed.
LEMMA PlayerStep ==
    ASSUME RoundTypeOK, NEW k \in Key, Request(k) \/ Handler(k)
    PROVE  /\ UNCHANGED <<g_round_end_active, timing>>
           /\ th[k].pc # "arm"
           /\ \E h : h.pc # "arm" /\ th' = [th EXCEPT ![k] = h]
<1> USE DEF Goto, At, Ready, round, timing
<1>1. CASE Request(k)
  <2>1. CASE PayoffFind(k)
    BY <2>1 DEF PayoffFind
  <2>2. CASE FakeRich(k)
    BY <2>2 DEF FakeRich
  <2>3. CASE Rumor(k)
    BY <2>3 DEF Rumor
  <2>4. CASE FakeEndround(k)
    BY <2>4 DEF FakeEndround
  <2>5. QED
    BY <1>1, <2>1, <2>2, <2>3, <2>4 DEF Request
<1>2. CASE Handler(k)
  <2>1. CASE PayoffRefused(k)
    BY <2>1 DEF PayoffRefused
  <2>2. CASE PayoffEscape(k)
    BY <2>2 DEF PayoffEscape
  <2>3. CASE PayoffRestart(k)
    BY <2>3 DEF PayoffRestart
  <2>4. CASE FakeRichWrite(k)
    BY <2>4 DEF FakeRichWrite
  <2>5. CASE RumorPay(k)
    BY <2>5 DEF RumorPay
  <2>6. CASE BustMoney(k)
    BY <2>6 DEF BustMoney
  <2>7. CASE BustBurn(k)
    BY <2>7 DEF BustBurn
  <2>8. QED
    BY <1>2, <2>1, <2>2, <2>3, <2>4, <2>5, <2>6, <2>7 DEF Handler
<1>3. QED
  BY <1>1, <1>2

\* Every step leaves at most one thread on the way to a reset, and the flag up
\* exactly while there is one.
LEMMA CountdownStep ==
    ASSUME RoundTypeOK, OneCountdown, [RoundNext]_rdvars
    PROVE  OneCountdown'
<1> USE DEF OneCountdown, Arming, Ending, At, RoundTypeOK
<1>1. ASSUME NEW k \in Key, Request(k) \/ Handler(k)
      PROVE  OneCountdown'
  <2>1. Arming' = Arming
    BY <1>1, PlayerStep DEF Threads
  <2>2. QED
    BY <1>1, <2>1, PlayerStep DEF timing
<1>2. ASSUME NEW t \in Threads, FireClaim(t)
      PROVE  OneCountdown'
  <2>1. CASE g_round_end_active
    <3>1. Arming' = Arming /\ g_round_end_active' = TRUE
      BY <1>2, <2>1 DEF FireClaim, Goto, Ready
    <3>2. QED
      BY <1>2, <2>1, <3>1 DEF FireClaim, timing
  <2>2. CASE ~ g_round_end_active
    <3>1. Arming' = {t} /\ g_round_end_active' = TRUE
      BY <1>2, <2>2 DEF FireClaim, Goto
    <3>2. QED
      BY <1>2, <2>2, <3>1 DEF FireClaim, timing
  <2>3. QED
    BY <2>1, <2>2
<1>3. ASSUME NEW t \in Threads, FireFails(t)
      PROVE  OneCountdown'
  <2>1. t \in Arming
    BY <1>3 DEF FireFails
  <2>2. Arming = {t} /\ Arming' = {} /\ g_round_end_active' = FALSE
    BY <1>3, <2>1 DEF FireFails, Goto, Ready
  <2>3. QED
    BY <1>3, <2>1, <2>2 DEF FireFails, timing
<1>4. ASSUME NEW t \in Threads, FireArm(t)
      PROVE  OneCountdown'
  <2>1. t \in Arming
    BY <1>4 DEF FireArm
  <2>2. Arming = {t} /\ Arming' = {} /\ sleeping' = 1
    BY <1>4, <2>1 DEF FireArm, Goto, Ready
  <2>3. QED
    BY <1>4, <2>1, <2>2 DEF FireArm, round
<1>5. CASE Tick
  <2>1. Arming' = Arming
    BY <1>5 DEF Tick, Goto, Threads
  <2>2. QED
    BY <1>5, <2>1 DEF Tick, round, timing
<1>6. CASE TimerWakes
  BY <1>6 DEF TimerWakes, round
<1>7. CASE ResetUsers
  BY <1>7 DEF ResetUsers, round
<1>8. CASE ResetRound
  BY <1>8 DEF ResetRound
<1>9. CASE ResetRumor
  BY <1>9 DEF ResetRumor, round
<1>10. CASE GraceEnds
  BY <1>10 DEF GraceEnds, timing
<1>11. CASE CooldownEnds
  BY <1>11 DEF CooldownEnds, round, timing
<1>12. CASE UNCHANGED rdvars
  BY <1>12 DEF rdvars, round, timing
<1>13. ASSUME NEW k \in Key, RaidBurn(k)
       PROVE  OneCountdown'
  BY <1>13 DEF RaidBurn, round, timing
<1>14. QED
  BY <1>1, <1>2, <1>3, <1>4, <1>5, <1>6, <1>7, <1>8, <1>9, <1>10, <1>11, <1>12, <1>13
  DEF RoundNext, Arm, Resetter

-----------------------------------------------------------------------------
\* Rumors and records.

\* Every step leaves one handler at most between its look at the cooldown and its
\* payment, and none while the cooldown runs.
LEMMA RumorStep ==
    ASSUME RoundTypeOK, OneRumorAtATime, [RoundNext]_rdvars
    PROVE  OneRumorAtATime'
<1> USE DEF OneRumorAtATime, RoundTypeOK, Goto, At, Ready, Threads
<1>1. ASSUME NEW k \in Key, PayoffFind(k)
      PROVE  OneRumorAtATime'
  BY <1>1 DEF PayoffFind
<1>2. ASSUME NEW k \in Key, FakeRich(k)
      PROVE  OneRumorAtATime'
  BY <1>2 DEF FakeRich
<1>3. ASSUME NEW k \in Key, Rumor(k)
      PROVE  OneRumorAtATime'
  BY <1>3 DEF Rumor, RumorMutexFree
<1>4. ASSUME NEW k \in Key, FakeEndround(k)
      PROVE  OneRumorAtATime'
  BY <1>4 DEF FakeEndround
<1>5. ASSUME NEW k \in Key, PayoffRefused(k)
      PROVE  OneRumorAtATime'
  BY <1>5 DEF PayoffRefused
<1>6. ASSUME NEW k \in Key, PayoffEscape(k)
      PROVE  OneRumorAtATime'
  BY <1>6 DEF PayoffEscape
<1>7. ASSUME NEW k \in Key, PayoffRestart(k)
      PROVE  OneRumorAtATime'
  BY <1>7 DEF PayoffRestart
<1>8. ASSUME NEW k \in Key, FakeRichWrite(k)
      PROVE  OneRumorAtATime'
  BY <1>8 DEF FakeRichWrite
<1>9. ASSUME NEW k \in Key, RumorPay(k)
      PROVE  OneRumorAtATime'
  BY <1>9 DEF RumorPay
<1>10. ASSUME NEW k \in Key, BustMoney(k)
      PROVE  OneRumorAtATime'
  <2>1. PICK p \in {"ready", "bust_burn"} : th' = [th EXCEPT ![k] = [pc |-> p]]
    BY <1>10 DEF BustMoney
  <2>2. QED
    BY <1>10, <2>1 DEF BustMoney
<1>11. ASSUME NEW k \in Key, BustBurn(k)
      PROVE  OneRumorAtATime'
  BY <1>11 DEF BustBurn
<1>12. ASSUME NEW t \in Threads, FireClaim(t)
       PROVE  OneRumorAtATime'
  BY <1>12 DEF FireClaim
<1>13. ASSUME NEW t \in Threads, FireFails(t)
       PROVE  OneRumorAtATime'
  BY <1>13 DEF FireFails
<1>14. ASSUME NEW t \in Threads, FireArm(t)
       PROVE  OneRumorAtATime'
  BY <1>14 DEF FireArm
<1>15. CASE Tick
  BY <1>15 DEF Tick
<1>16. CASE TimerWakes
  BY <1>16 DEF TimerWakes
<1>17. CASE ResetUsers
  BY <1>17 DEF ResetUsers, userdb_reset_round
<1>18. CASE ResetRound
  BY <1>18 DEF ResetRound
<1>19. CASE ResetRumor
  BY <1>19 DEF ResetRumor
<1>20. CASE GraceEnds
  BY <1>20 DEF GraceEnds
<1>21. CASE CooldownEnds
  BY <1>21 DEF CooldownEnds
<1>22. CASE UNCHANGED rdvars
  BY <1>22 DEF rdvars
<1>23. ASSUME NEW k \in Key, RaidBurn(k)
       PROVE  OneRumorAtATime'
  BY <1>23 DEF RaidBurn
<1>24. QED
  BY <1>1, <1>2, <1>3, <1>4, <1>5, <1>6, <1>7, <1>8, <1>9, <1>10, <1>11, <1>12, <1>13,
     <1>14, <1>15, <1>16, <1>17, <1>18, <1>19, <1>20, <1>21, <1>22, <1>23
  DEF RoundNext, Request, Handler, Arm, Resetter

\* What RevivedOnlyByLateWrite and PaidFromRecord say of one step.
RevivedByLateWrite ==
    \A k \in Key : users_dat[k] = BURNED /\ users_dat'[k] # BURNED =>
        k \in overtaken \/ At(k, "rich")

FromRecord ==
    \A k \in Key \ overtaken :
        /\ At(k, "payoff") /\ At(k, "escaped")' => users_dat[k] >= g_goal_money
        /\ At(k, "fee") /\ ~ At(k, "fee")' =>
              users_dat[k] >= RUMOR_FEE /\ users_dat'[k] = users_dat[k] - RUMOR_FEE

\* A step on the records: the readings that no burn or reset has overtaken still
\* hold, burned accounts come back by overtaken commands and by /fake rich only, and
\* the others pay with what is on record.
LEMMA ReadingStep ==
    ASSUME RoundTypeOK, ReadingsHold, [RoundNext]_rdvars
    PROVE  /\ ReadingsHold'
           /\ RevivedByLateWrite
           /\ FromRecord
<1> USE RoundAssumption, ThreadStates
    DEF ReadingsHold, RevivedByLateWrite, FromRecord, RoundTypeOK, Goto, At, Ready, Threads,
        BURNED, HasRead, records
<1> DEFINE Shown == ReadingsHold' /\ RevivedByLateWrite /\ FromRecord
<1>1. ASSUME NEW k \in Key, PayoffFind(k)
      PROVE  Shown
  BY <1>1 DEF PayoffFind
<1>2. ASSUME NEW k \in Key, FakeRich(k)
      PROVE  Shown
  BY <1>2 DEF FakeRich
<1>3. ASSUME NEW k \in Key, Rumor(k)
      PROVE  Shown
  BY <1>3 DEF Rumor, RumorMutexFree
<1>4. ASSUME NEW k \in Key, FakeEndround(k)
      PROVE  Shown
  BY <1>4 DEF FakeEndround
<1>5. ASSUME NEW k \in Key, PayoffRefused(k)
      PROVE  Shown
  BY <1>5 DEF PayoffRefused
<1>6. ASSUME NEW k \in Key, PayoffEscape(k)
      PROVE  Shown
  <2>1. PICK e \in BOOLEAN : th' = [th EXCEPT ![k] = [pc |-> "escaped", ends |-> e]]
    <3>1. (g_escaped_count' >= ESCAPES_TO_END) \in BOOLEAN
      OBVIOUS
    <3>2. QED
      BY <1>6, <3>1 DEF PayoffEscape
  <2>2. /\ UNCHANGED <<users_dat, overtaken>>
        /\ th[k].pc = "payoff" /\ th[k].money >= g_goal_money
    BY <1>6 DEF PayoffEscape
  <2>3. g_goal_money \in Nat
    OBVIOUS
  <2>4. k \notin overtaken => users_dat[k] >= g_goal_money /\ users_dat[k] # BURNED
    BY <2>2, <2>3
  <2>5. QED
    BY <2>1, <2>2, <2>4
<1>7. ASSUME NEW k \in Key, PayoffRestart(k)
      PROVE  Shown
  BY <1>7 DEF PayoffRestart
<1>8. ASSUME NEW k \in Key, FakeRichWrite(k)
      PROVE  Shown
  BY <1>8 DEF FakeRichWrite
<1>9. ASSUME NEW k \in Key, RumorPay(k)
      PROVE  Shown
  <2>1. /\ th' = [th EXCEPT ![k] = [pc |-> "bust_money"]]
        /\ users_dat' = [users_dat EXCEPT ![k] = th[k].money - RUMOR_FEE]
        /\ overtaken' = overtaken \ {k}
        /\ th[k].pc = "fee"
    BY <1>9 DEF RumorPay
  <2>2. k \notin overtaken => /\ th[k].money = users_dat[k]
                              /\ users_dat[k] >= RUMOR_FEE
                              /\ users_dat[k] # BURNED
    BY <2>1
  <2>3. ReadingsHold' /\ RevivedByLateWrite
    BY <2>1, <2>2
  <2>4. FromRecord
    BY <2>1, <2>2
  <2>5. QED
    BY <2>3, <2>4
<1>10. ASSUME NEW k \in Key, BustMoney(k)
       PROVE  Shown
  <2>1. PICK p \in {"ready", "bust_burn"} : th' = [th EXCEPT ![k] = [pc |-> p]]
    BY <1>10 DEF BustMoney
  <2>2. QED
    BY <1>10, <2>1 DEF BustMoney
<1>11. ASSUME NEW k \in Key, BustBurn(k)
       PROVE  Shown
  BY <1>11 DEF BustBurn
<1>12. ASSUME NEW k \in Key, RaidBurn(k)
       PROVE  Shown
  BY <1>12 DEF RaidBurn
<1>13. ASSUME NEW t \in Threads, FireClaim(t)
       PROVE  Shown
  BY <1>13 DEF FireClaim
<1>14. ASSUME NEW t \in Threads, FireFails(t)
       PROVE  Shown
  BY <1>14 DEF FireFails
<1>15. ASSUME NEW t \in Threads, FireArm(t)
       PROVE  Shown
  BY <1>15 DEF FireArm
<1>16. CASE Tick
  BY <1>16 DEF Tick
<1>17. CASE TimerWakes
  BY <1>17 DEF TimerWakes
<1>18. CASE ResetUsers
  BY <1>18 DEF ResetUsers, userdb_reset_round
<1>19. CASE ResetRound
  BY <1>19 DEF ResetRound
<1>20. CASE ResetRumor
  BY <1>20 DEF ResetRumor
<1>21. CASE GraceEnds
  BY <1>21 DEF GraceEnds
<1>22. CASE CooldownEnds
  BY <1>22 DEF CooldownEnds
<1>23. CASE UNCHANGED rdvars
  BY <1>23 DEF rdvars
<1>24. QED
  BY <1>1, <1>2, <1>3, <1>4, <1>5, <1>6, <1>7, <1>8, <1>9, <1>10, <1>11, <1>12, <1>13,
     <1>14, <1>15, <1>16, <1>17, <1>18, <1>19, <1>20, <1>21, <1>22, <1>23
  DEF RoundNext, Request, Handler, Arm, Resetter

-----------------------------------------------------------------------------
\* The theorems.

\* The invariant holds when the server starts.
LEMMA RoundStart == RoundInit => RoundInv
<1> SUFFICES ASSUME RoundInit PROVE RoundInv
  OBVIOUS
<1>1. g_round_end_active \in BOOLEAN /\ cooldown \in BOOLEAN
  BY Zenon DEF RoundInit
<1>2. th \in [Threads -> ThreadState]
  BY ThreadStates DEF RoundInit, Ready
<1>3. RoundTypeOK
  BY <1>1, <1>2, RoundAssumption DEF RoundInit, RoundTypeOK
<1>4. GoalFollowsEscapes
  BY RaisedGoal, RoundAssumption DEF RoundInit, GoalFollowsEscapes
<1>5. OneCountdown
  BY DEF RoundInit, OneCountdown, Arming, Ending, At, Ready
<1>6. OneRumorAtATime /\ ReadingsHold
  BY RoundAssumption DEF RoundInit, OneRumorAtATime, ReadingsHold, At, Ready, Threads, BURNED
<1>7. QED
  BY <1>3, <1>4, <1>5, <1>6 DEF RoundInv

\* Every step keeps it.
LEMMA RoundStep == RoundInv /\ [RoundNext]_rdvars => RoundInv'
BY TypeStep, GoalStep, CountdownStep, RumorStep, ReadingStep DEF RoundInv

\* So it always holds.
LEMMA RoundInvariant == RoundSpec => []RoundInv
BY RoundStart, RoundStep, PTL DEF RoundSpec

\* The variables of the round, the records and the threads keep their types: the
\* goal stays between 10000 and the cap, the log within its array.
THEOREM RoundTypeCorrect == RoundSpec => []RoundTypeOK
<1>1. RoundInv => RoundTypeOK
  BY DEF RoundInv
<1>2. QED
  BY <1>1, RoundInvariant, PTL

\* However many escapes, expiries of the grace period and /fake endround meet, and
\* however often the timer thread fails to start, there is one countdown at most
\* and g_round_end_active says whether there is one.
THEOREM CountdownUnique == RoundSpec => []OneCountdown
<1>1. RoundInv => OneCountdown
  BY DEF RoundInv
<1>2. QED
  BY <1>1, RoundInvariant, PTL

\* g_goal_money is what g_escaped_count escapes make it, capped, and the log and
\* the time of the cap go with it, for every step and cap of the debt.
THEOREM GoalIsEscapes == RoundSpec => []GoalFollowsEscapes
<1>1. RoundInv => GoalFollowsEscapes
  BY DEF RoundInv
<1>2. QED
  BY <1>1, RoundInvariant, PTL

\* handle_rumor takes one fee for each cooldown.
THEOREM RumorsTakeTurns == RoundSpec => []OneRumorAtATime
<1>1. RoundInv => OneRumorAtATime
  BY DEF RoundInv
<1>2. QED
  BY <1>1, RoundInvariant, PTL

\* However raids, resets and commands meet, userdb_reset_round revives no burned
\* account, nor does a /payoff or /rumor that began after the burn: only a handler
\* that had read the record before, and handle_fake_rich, which does not look at it.
THEOREM RevivalsAreLateWrites == RoundSpec => RevivedOnlyByLateWrite
<1>1. RoundInv /\ [RoundNext]_rdvars => [RevivedByLateWrite]_rdvars
  BY ReadingStep DEF RoundInv
<1>2. QED
  BY <1>1, RoundInvariant, PTL DEF RoundSpec, RevivedOnlyByLateWrite, RevivedByLateWrite

\* handle_payoff reads the record before it takes g_round_mutex and handle_rumor
\* writes what it read: both go by what is on record at that moment, for any goal,
\* fee and number of escapes in between, unless a burn or a reset has overtaken them.
THEOREM CommandsPayFromRecord == RoundSpec => PaidFromRecord
<1>1. RoundInv /\ [RoundNext]_rdvars => [FromRecord]_rdvars
  BY ReadingStep DEF RoundInv
<1>2. QED
  BY <1>1, RoundInvariant, PTL DEF RoundSpec, PaidFromRecord, FromRecord
=============================================================================
