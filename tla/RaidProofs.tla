----------------------------- MODULE RaidProofs -----------------------------
(***************************************************************************)
(* For any number of players and raids: one thread ends each raid, whoever *)
(* is accepted in time is not burned, and nobody who was asked gets off    *)
(* without an answer, but for the two exceptions that SilentAreBurned has. *)
(***************************************************************************)
EXTENDS Raid, FiniteSetTheorems, TLAPS

-----------------------------------------------------------------------------
\* The invariant.

Arming == {k \in Key : th[k].pc = "arm"}

\* OneThreadEndsIt without counting, and the list is empty where it starts.
OneEnds ==
    /\ deadline # "none" => raid_no # 0
    /\ deadline # "none" =>
          \/ ev # "idle" /\ Arming = {} /\ timers = {}
          \/ ev = "idle" /\ (\E k \in Key : Arming = {k}) /\ timers = {}
          \/ ev = "idle" /\ Arming = {} /\ timers = {raid_no}
    /\ deadline = "none" => ev = "idle" /\ Arming = {} /\ timers = {} /\ pending = NoKeys
    /\ ev \in {"snapshot", "empty"} => pending = NoKeys

\* A thread with an answer or a burn in hand, and the raid it is for.
InHand(k) == th[k].pc \in {"answered", "burn"}

\* A key is on the list once.
ListedOnce == \A i, j \in DOMAIN pending : pending[i] = pending[j] => i = j

Outcome == {"asked", "ok", "late", "slipped", "burned", "let off"}

\* What is noted, due or in hand belongs to a raid that has begun, and nothing of
\* the latest raid is noted or in hand before its list is made, or due before it
\* is over.
NothingEarly ==
    /\ \A n \in Raids, k \in Key :
          /\ \A what \in Outcome : Noted(n, k, what) =>
                n <= raid_no /\ (ev = "snapshot" => n < raid_no)
          /\ <<n, k>> \in due => n <= raid_no /\ (deadline # "none" => n < raid_no)
    /\ \A k \in Key : InHand(k) =>
          th[k].raid <= raid_no /\ (ev = "snapshot" => th[k].raid < raid_no)

\* While the raid that was answered is on, the slot found is the key's only one,
\* or it is cleared: a slot number changes hands only with the raid.
SlotIsOwn ==
    \A k \in Key :
        (th[k].pc = "answered" /\ th[k].raid = raid_no) =>
            SlotsOf(k) = {th[k].slot} \cap DOMAIN pending

\* A key accepted in raid n is out of that raid for good, and a key that is being
\* burned or was burned in the latest raid is off its list.
OkFinal(n, k) ==
    /\ Noted(n, k, "ok") =>
          /\ ~ Noted(n, k, "burned")
          /\ <<n, k>> \notin due
          /\ n = raid_no => SlotsOf(k) = {}
          /\ InHand(k) => th[k].raid # n
    /\ n = raid_no /\ Noted(n, k, "burned") => SlotsOf(k) = {}
    /\ n = raid_no /\ th[k].pc = "burn" /\ th[k].raid = n => SlotsOf(k) = {}

OkIsFinal == \A n \in Raids, k \in Key : OkFinal(n, k)

RaidInv ==
    /\ RaidTypeOK
    /\ OneEnds
    /\ ListedOnce
    /\ NothingEarly
    /\ SlotIsOwn
    /\ OkIsFinal
    /\ SilentAreBurned

-----------------------------------------------------------------------------
\* Lemmas on the list and on the threads' locals.

Lists == UNION {[S -> Key] : S \in SUBSET (0 .. (Cardinality(Key) - 1))}

\* A list is a function from slot numbers, fewer than there are keys, to keys.
LEMMA ListElim ==
    ASSUME NEW p \in Lists
    PROVE  /\ p = [i \in DOMAIN p |-> p[i]]
           /\ DOMAIN p \subseteq 0 .. (Cardinality(Key) - 1)
           /\ DOMAIN p \subseteq Nat
           /\ \A i \in DOMAIN p : p[i] \in Key
<1>1. PICK S \in SUBSET (0 .. (Cardinality(Key) - 1)) : p \in [S -> Key]
  BY DEF Lists
<1>2. Cardinality(Key) \in Nat
  BY RaidAssumption, FS_CardinalityType
<1>3. QED
  BY <1>1, <1>2

\* The converse of ListElim.
LEMMA ListIntro ==
    ASSUME NEW S \in SUBSET (0 .. (Cardinality(Key) - 1)), NEW p \in [S -> Key]
    PROVE  p \in Lists
BY DEF Lists

\* The empty list, and a list of whoever starts a raid against himself.
LEMMA ShortLists ==
    /\ NoKeys \in Lists /\ DOMAIN NoKeys = {}
    /\ \A k \in Key : [i \in {0} |-> k] \in Lists
<1>1. NoKeys \in [{} -> Key] /\ DOMAIN NoKeys = {}
  BY DEF NoKeys
<1>2. NoKeys \in Lists
  BY <1>1, ListIntro
<1>3. ASSUME NEW k \in Key
      PROVE  [i \in {0} |-> k] \in Lists
  <2>1. Cardinality(Key) \in Nat /\ Cardinality(Key) # 0
    BY RaidAssumption, FS_CardinalityType, FS_EmptySet
  <2>2. {0} \in SUBSET (0 .. (Cardinality(Key) - 1))
    BY <2>1
  <2>3. QED
    BY <2>2, ListIntro
<1>4. QED
  BY <1>1, <1>2, <1>3

\* The list of those who are logged in has each of them once, and nobody else.
LEMMA FullList ==
    ASSUME NEW online \in SUBSET Key,
           NEW p \in Bijection(0 .. (Cardinality(online) - 1), online)
    PROVE  /\ p \in Lists
           /\ \A i, j \in DOMAIN p : p[i] = p[j] => i = j
           /\ \A k \in Key : k \in online <=> \E i \in DOMAIN p : p[i] = k
           /\ online = {} => p = NoKeys
<1> DEFINE D == 0 .. (Cardinality(online) - 1)
<1>1. /\ p \in [D -> online]
      /\ \A i, j \in D : p[i] = p[j] => i = j
      /\ \A k \in online : \E i \in D : p[i] = k
  BY DEF Bijection, Injection, Surjection, IsInjective
<1>2. /\ Cardinality(online) \in Nat /\ Cardinality(Key) \in Nat
      /\ Cardinality(online) <= Cardinality(Key)
  BY RaidAssumption, FS_Subset, FS_CardinalityType
<1>3. D \in SUBSET (0 .. (Cardinality(Key) - 1))
  BY <1>2
<1>4. p \in Lists
  BY <1>1, <1>3, ListIntro
<1>5. online = {} => p = NoKeys
  BY <1>1 DEF NoKeys
<1>6. QED
  BY <1>1, <1>4, <1>5

\* Clearing a slot that may or may not be in use.
LEMMA CutList ==
    ASSUME NEW p \in Lists, NEW i
    PROVE  /\ Restrict(p, DOMAIN p \ {i}) \in Lists
           /\ DOMAIN Restrict(p, DOMAIN p \ {i}) = DOMAIN p \ {i}
           /\ \A j \in DOMAIN p \ {i} : Restrict(p, DOMAIN p \ {i})[j] = p[j]
           /\ p = NoKeys => Restrict(p, DOMAIN p \ {i}) = NoKeys
<1> DEFINE q == Restrict(p, DOMAIN p \ {i})
<1>1. q = [j \in DOMAIN p \ {i} |-> p[j]]
  BY DEF Restrict
<1>2. q \in Lists
  BY <1>1, ListElim, ListIntro
<1>3. p = NoKeys => q = NoKeys
  BY <1>1 DEF NoKeys
<1>4. QED
  BY <1>1, <1>2, <1>3

\* What a handler keeps at each point, and what it may go on to.
LEMMA HandlerStates ==
    /\ \A p \in {"ready", "arm"} : [pc |-> p] \in HandlerState
    /\ \A i \in Nat, b \in BOOLEAN, n \in Raids :
          [pc |-> "answered", slot |-> i, right |-> b, raid |-> n] \in HandlerState
    /\ \A n \in Raids : [pc |-> "burn", raid |-> n] \in HandlerState
    /\ \A h \in HandlerState :
          /\ h.pc \in {"ready", "arm", "answered", "burn"}
          /\ h.pc \in {"answered", "burn"} => h.raid \in Raids
          /\ h.pc = "answered" => h.slot \in Nat /\ h.right \in BOOLEAN
BY DEF HandlerState

-----------------------------------------------------------------------------
\* Types.

\* RaidTypeOK for all variables but the list.
TypesButList ==
    /\ casting \in BOOLEAN
    /\ deadline \in {"none", "running", "passed"}
    /\ ev \in {"idle", "snapshot", "empty", "cast", "arm"}
    /\ th \in [Key -> HandlerState]
    /\ timers \subseteq Raids
    /\ due \subseteq Raids \X Key
    /\ raid_no \in 0 .. RAID_LIMIT
    /\ log \subseteq Raids \X Key \X Outcome

LEMMA TypeSplit == RaidTypeOK <=> TypesButList /\ pending \in Lists
BY DEF RaidTypeOK, TypesButList, Lists, Outcome

\* The number of a raid that is begun.
LEMMA NextRaid ==
    ASSUME NEW n \in 0 .. RAID_LIMIT, n < RAID_LIMIT
    PROVE  n + 1 \in Raids /\ n + 1 \in 0 .. RAID_LIMIT
BY RaidAssumption DEF Raids

\* What a note adds to the log.
LEMMA NoteStep ==
    ASSUME NEW n \in Raids, NEW K \in SUBSET Key, NEW w \in Outcome,
           log \subseteq Raids \X Key \X Outcome, Note(n, K, w)
    PROVE  /\ log' \subseteq Raids \X Key \X Outcome
           /\ \A m, j, v : <<m, j, v>> \in log' <=>
                 <<m, j, v>> \in log \/ (m = n /\ j \in K /\ v = w)
<1>1. log' = log \cup {<<n, k, w>> : k \in K}
  BY DEF Note
<1>2. log' \subseteq Raids \X Key \X Outcome
  <2>1. \A k \in K : <<n, k, w>> \in Raids \X Key \X Outcome
    OBVIOUS
  <2>2. QED
    BY <1>1, <2>1
<1>3. ASSUME NEW m, NEW j, NEW v
      PROVE  <<m, j, v>> \in log' <=>
                <<m, j, v>> \in log \/ (m = n /\ j \in K /\ v = w)
  BY <1>1
<1>4. QED
  BY <1>2, <1>3

\* What handle_minigame_submit adds to it.
LEMMA SettleLog ==
    ASSUME TypesButList, pending \in Lists, OneEnds, NEW k \in Key, Settle(k)
    PROVE  /\ log' \subseteq Raids \X Key \X Outcome
           /\ \A m, j, v : <<m, j, v>> \in log' <=>
                 \/ <<m, j, v>> \in log
                 \/ m = raid_no /\ j \in SlippedKeys(k) /\ v = "slipped"
                 \/ /\ th[k].right /\ m = th[k].raid /\ j = k
                    /\ v = IF InTime(k) THEN "ok" ELSE "late"
<1> DEFINE slipped == {<<raid_no, v, "slipped">> : v \in SlippedKeys(k)}
           verdict == IF th[k].right
                      THEN {<<th[k].raid, k, IF InTime(k) THEN "ok" ELSE "late">>} ELSE {}
<1>1. log' = log \cup slipped \cup verdict
  BY DEF Settle
<1>2. slipped \subseteq Raids \X Key \X Outcome
  <2>1. ASSUME NEW v \in SlippedKeys(k)
        PROVE  <<raid_no, v, "slipped">> \in Raids \X Key \X Outcome
    <3>1. PICK i \in DOMAIN pending : v = pending[i]
      BY DEF SlippedKeys
    <3>2. v \in Key
      BY <3>1, ListElim
    <3>3. pending # NoKeys
      BY <3>1, ShortLists
    <3>4. raid_no \in Raids
      BY <3>3 DEF OneEnds, TypesButList, Raids
    <3>5. QED
      BY <3>2, <3>4 DEF Outcome
  <2>2. QED
    BY <2>1
<1>3. verdict \subseteq Raids \X Key \X Outcome
  <2>1. th[k].raid \in Raids
    BY HandlerStates DEF Settle, TypesButList
  <2>2. \A w \in {"ok", "late"} : <<th[k].raid, k, w>> \in Raids \X Key \X Outcome
    BY <2>1 DEF Outcome
  <2>3. QED
    BY <2>2
<1>4. log' \subseteq Raids \X Key \X Outcome
  BY <1>1, <1>2, <1>3 DEF TypesButList
<1>5. ASSUME NEW m, NEW j, NEW v
      PROVE  <<m, j, v>> \in log' <=>
                 \/ <<m, j, v>> \in log
                 \/ m = raid_no /\ j \in SlippedKeys(k) /\ v = "slipped"
                 \/ /\ th[k].right /\ m = th[k].raid /\ j = k
                    /\ v = IF InTime(k) THEN "ok" ELSE "late"
  BY <1>1
<1>6. QED
  BY <1>4, <1>5

\* Starting the timer, or calling the raid off, keeps the types.
LEMMA TimerType ==
    ASSUME TypesButList, pending \in Lists, raid_no \in Raids, StartTimer
    PROVE  /\ deadline' \in {"none", "running", "passed"}
           /\ pending' \in Lists
           /\ timers' \subseteq Raids
           /\ due' = due
           /\ log' \subseteq Raids \X Key \X Outcome
<1>1. CASE timers' = timers \cup {raid_no} /\ UNCHANGED <<deadline, pending, log>>
  BY <1>1 DEF StartTimer, TypesButList
<1>2. CASE Note(raid_no, Key, "let off") /\ pending' = NoKeys /\ deadline' = "none"
           /\ UNCHANGED timers
  BY <1>2, ShortLists, NoteStep DEF StartTimer, TypesButList, Outcome
<1>3. QED
  BY <1>1, <1>2 DEF StartTimer

\* Every step keeps the types.
LEMMA TypeStep ==
    ASSUME RaidTypeOK, OneEnds, [RaidNext]_rvars
    PROVE  RaidTypeOK'
<1> SUFFICES ASSUME TypesButList, pending \in Lists
             PROVE  TypesButList' /\ pending' \in Lists
  BY TypeSplit DEF RaidTypeOK, TypesButList, Lists, Outcome
<1>0. \A i \in 0 .. RAID_LIMIT : i # 0 => i \in Raids
  BY RaidAssumption DEF Raids
<1> USE <1>0, RaidAssumption, HandlerStates
    DEF TypesButList, Goto, Ready, police, Outcome
<1>1. ASSUME NEW k \in Key, SelfFire(k)
      PROVE  TypesButList' /\ pending' \in Lists
  <2>1. raid_no' \in Raids /\ raid_no' \in 0 .. RAID_LIMIT
    BY <1>1, NextRaid DEF SelfFire
  <2>2. log' \subseteq Raids \X Key \X Outcome
    BY <1>1, <2>1, NoteStep DEF SelfFire
  <2>3. pending' \in Lists
    BY <1>1, ShortLists DEF SelfFire
  <2>4. QED
    BY <1>1, <2>1, <2>2, <2>3 DEF SelfFire
<1>2. ASSUME NEW k \in Key, SelfArm(k)
      PROVE  TypesButList' /\ pending' \in Lists
  <2>1. k \in Arming
    BY <1>2 DEF SelfArm, Arming
  <2>2. raid_no \in Raids
    BY <2>1 DEF OneEnds, TypesButList
  <2>3. QED
    BY <1>2, <2>2, TimerType DEF SelfArm
<1>3. ASSUME NEW k \in Key, NEW right \in BOOLEAN, Submit(k, right)
      PROVE  TypesButList' /\ pending' \in Lists
  <2>1. raid_no \in Raids
    BY <1>3 DEF Submit, OneEnds, TypesButList
  <2>2. PICK i \in SlotsOf(k) :
           Goto(k, [pc |-> "answered", slot |-> i, right |-> right, raid |-> raid_no])
    BY <1>3 DEF Submit
  <2>3. i \in Nat
    BY ListElim DEF SlotsOf
  <2>4. QED
    BY <1>3, <2>1, <2>2, <2>3 DEF Submit
<1>4. ASSUME NEW k \in Key, Settle(k)
      PROVE  TypesButList' /\ pending' \in Lists
  <2>1. pending' \in Lists
    BY <1>4, CutList DEF Settle
  <2>2. th[k].raid \in Raids
    BY <1>4 DEF Settle
  <2>3. log' \subseteq Raids \X Key \X Outcome
    BY <1>4, SettleLog
  <2>4. th' \in [Key -> HandlerState]
    BY <1>4, <2>2 DEF Settle
  <2>5. QED
    BY <1>4, <2>1, <2>3, <2>4 DEF Settle
<1>5. ASSUME NEW k \in Key, Burn(k)
      PROVE  TypesButList' /\ pending' \in Lists
  <2>1. th[k].raid \in Raids /\ Note(th[k].raid, {k}, "burned")
    BY <1>5 DEF Burn
  <2>2. log' \subseteq Raids \X Key \X Outcome
    BY <2>1, NoteStep
  <2>3. QED
    BY <1>5, <2>2 DEF Burn
<1>6. CASE CastBegin \/ CastEnd
  BY <1>6 DEF CastBegin, CastEnd
<1>7. CASE DeadlinePasses
  BY <1>7 DEF DeadlinePasses
<1>8. CASE FireBegin
  <2>1. raid_no' \in 0 .. RAID_LIMIT
    BY <1>8, NextRaid DEF FireBegin
  <2>2. QED
    BY <1>8, <2>1, ShortLists DEF FireBegin
<1>9. CASE FireSnapshot
  <2>1. PICK online \in SUBSET Key :
           /\ pending' \in Bijection(0 .. (Cardinality(online) - 1), online)
           /\ ev' = IF online = {} THEN "empty" ELSE "cast"
           /\ Note(raid_no, online, "asked")
    BY <1>9 DEF FireSnapshot
  <2>2. pending' \in Lists
    BY <2>1, FullList
  <2>3. raid_no \in Raids
    BY <1>9 DEF FireSnapshot, OneEnds, TypesButList
  <2>4. log' \subseteq Raids \X Key \X Outcome
    BY <2>1, <2>3, NoteStep
  <2>5. QED
    BY <1>9, <2>1, <2>2, <2>4 DEF FireSnapshot
<1>10. CASE FireEmpty
  BY <1>10 DEF FireEmpty
<1>11. CASE FireCast
  BY <1>11 DEF FireCast
<1>12. CASE FireArm
  <2>1. raid_no \in Raids
    BY <1>12 DEF FireArm, OneEnds, TypesButList
  <2>2. QED
    BY <1>12, <2>1, TimerType DEF FireArm
<1>13. ASSUME NEW n \in Raids, TimerFires(n)
      PROVE  TypesButList' /\ pending' \in Lists
  <2>1. \A i \in DOMAIN pending : <<n, pending[i]>> \in Raids \X Key
    BY ListElim
  <2>0. due' \subseteq Raids \X Key
    BY <1>13, <2>1 DEF TimerFires
  <2>2. QED
    BY <1>13, <2>0, ShortLists DEF TimerFires
<1>14. ASSUME NEW n \in Raids, NEW k \in Key, TimerBurns(n, k)
      PROVE  TypesButList' /\ pending' \in Lists
  <2>1. log' \subseteq Raids \X Key \X Outcome
    BY <1>14, NoteStep DEF TimerBurns
  <2>2. QED
    BY <1>14, <2>1 DEF TimerBurns
<1>15. CASE UNCHANGED rvars
  BY <1>15 DEF rvars
<1>16. QED
  BY <1>1, <1>2, <1>3, <1>4, <1>5, <1>6, <1>7, <1>8, <1>9, <1>10, <1>11, <1>12, <1>13,
     <1>14, <1>15
  DEF RaidNext, Request, Handler, Fire, Timer

-----------------------------------------------------------------------------
\* One thread ends a raid.

\* Every step leaves a raid with exactly one thread that is going to end it.
LEMMA EndsStep ==
    ASSUME TypesButList, pending \in Lists, OneEnds, [RaidNext]_rvars
    PROVE  OneEnds'
<1> USE DEF TypesButList
<1>1. ASSUME NEW k \in Key, SelfFire(k)
      PROVE  OneEnds'
  <2>1. Arming = {} /\ Arming' = {k}
    BY <1>1 DEF SelfFire, Arming, Goto, OneEnds
  <2>2. ev = "idle" /\ timers = {} /\ raid_no' # 0
    BY <1>1 DEF SelfFire, OneEnds
  <2>3. QED
    BY <1>1, <2>1, <2>2 DEF SelfFire, OneEnds
<1>2. ASSUME NEW k \in Key, SelfArm(k)
      PROVE  OneEnds'
  <2>1. k \in Arming
    BY <1>2 DEF SelfArm, Arming
  <2>2. Arming = {k} /\ ev = "idle" /\ timers = {} /\ deadline # "none" /\ raid_no # 0
    BY <2>1 DEF OneEnds
  <2>3. Arming' = {}
    BY <1>2, <2>2 DEF SelfArm, Arming, Goto, Ready
  <2>4. QED
    BY <1>2, <2>2, <2>3 DEF SelfArm, StartTimer, OneEnds
<1>3. ASSUME NEW k \in Key, NEW right \in BOOLEAN, Submit(k, right)
      PROVE  OneEnds'
  <2>1. Arming' = Arming
    <3>1. PICK i : th' = [th EXCEPT ![k] = [pc |-> "answered", slot |-> i, right |-> right,
                                            raid |-> raid_no]]
      BY <1>3 DEF Submit, Goto
    <3>2. QED
      BY <1>3, <3>1 DEF Submit, Arming, Ready
  <2>2. QED
    BY <1>3, <2>1 DEF Submit, OneEnds, police
<1>4. ASSUME NEW k \in Key, Settle(k)
      PROVE  OneEnds'
  <2>1. Arming' = Arming
    <3>1. CASE th[k].right
      BY <1>4, <3>1 DEF Settle, Arming, Goto, Ready
    <3>2. CASE ~ th[k].right
      BY <1>4, <3>2 DEF Settle, Arming, Goto
    <3>3. QED
      BY <3>1, <3>2
  <2>2. pending = NoKeys => pending' = NoKeys
    BY <1>4, CutList DEF Settle
  <2>3. QED
    BY <1>4, <2>1, <2>2 DEF Settle, OneEnds
<1>5. ASSUME NEW k \in Key, Burn(k)
      PROVE  OneEnds'
  <2>1. Arming' = Arming
    BY <1>5 DEF Burn, Arming, Goto, Ready
  <2>2. QED
    BY <1>5, <2>1 DEF Burn, OneEnds, police
<1>6. CASE CastBegin \/ CastEnd
  BY <1>6 DEF CastBegin, CastEnd, OneEnds, Arming, police
<1>7. CASE DeadlinePasses
  BY <1>7 DEF DeadlinePasses, OneEnds, Arming, police
<1>8. CASE FireBegin
  BY <1>8 DEF FireBegin, OneEnds, Arming, police
<1>9. CASE FireSnapshot
  <2>1. ev' \in {"empty", "cast"} /\ (ev' = "empty" => pending' = NoKeys)
    BY <1>9, FullList DEF FireSnapshot
  <2>2. QED
    BY <1>9, <2>1 DEF FireSnapshot, OneEnds, Arming
<1>10. CASE FireEmpty
  BY <1>10 DEF FireEmpty, OneEnds, Arming, police
<1>11. CASE FireCast
  BY <1>11 DEF FireCast, OneEnds, Arming, police
<1>12. CASE FireArm
  BY <1>12 DEF FireArm, StartTimer, OneEnds, Arming
<1>13. ASSUME NEW n \in Raids, TimerFires(n)
      PROVE  OneEnds'
  BY <1>13 DEF TimerFires, OneEnds, Arming
<1>14. ASSUME NEW n \in Raids, NEW k \in Key, TimerBurns(n, k)
      PROVE  OneEnds'
  BY <1>14 DEF TimerBurns, OneEnds, Arming, police
<1>15. CASE UNCHANGED rvars
  BY <1>15 DEF rvars, police, OneEnds, Arming
<1>16. QED
  BY <1>1, <1>2, <1>3, <1>4, <1>5, <1>6, <1>7, <1>8, <1>9, <1>10, <1>11, <1>12, <1>13,
     <1>14, <1>15
  DEF RaidNext, Request, Handler, Fire, Timer

-----------------------------------------------------------------------------
\* The list and the answers.

\* While a raid is on it has a number.
LEMMA BegunRaid ==
    ASSUME TypesButList, OneEnds
    PROVE  deadline # "none" => raid_no \in Raids
BY RaidAssumption DEF TypesButList, OneEnds, Raids

\* What starting the timer, or calling the raid off, adds to the log.
LEMMA TimerLog ==
    ASSUME TypesButList, raid_no \in Raids, StartTimer
    PROVE  /\ UNCHANGED due
           /\ \/ UNCHANGED <<deadline, pending, log>>
              \/ /\ deadline' = "none" /\ pending' = NoKeys
                 /\ \A m, j, v : <<m, j, v>> \in log' <=>
                       <<m, j, v>> \in log \/ (m = raid_no /\ j \in Key /\ v = "let off")
<1>1. UNCHANGED due
  BY DEF StartTimer
<1>2. CASE UNCHANGED <<deadline, pending, log>>
  BY <1>1, <1>2
<1>3. CASE Note(raid_no, Key, "let off") /\ pending' = NoKeys /\ deadline' = "none"
  <2>1. \A m, j, v : <<m, j, v>> \in log' <=>
            <<m, j, v>> \in log \/ (m = raid_no /\ j \in Key /\ v = "let off")
    BY <1>3 DEF Note
  <2>2. QED
    BY <1>1, <1>3, <2>1
<1>4. QED
  BY <1>2, <1>3 DEF StartTimer

\* Nothing is noted, due or in hand for a raid before its time.
LEMMA EarlyStep ==
    ASSUME TypesButList, pending \in Lists, OneEnds, NothingEarly, [RaidNext]_rvars
    PROVE  NothingEarly'
<1>0. /\ \A n \in Raids : n \in Nat
      /\ raid_no \in Nat
      /\ \A k \in Key : InHand(k) => th[k].raid \in Raids
  BY RaidAssumption, HandlerStates DEF Raids, TypesButList, InHand
<1> USE <1>0 DEF TypesButList, NothingEarly, InHand, Noted
<1>1. ASSUME NEW k \in Key, SelfFire(k)
      PROVE  NothingEarly'
  <2>1. raid_no' \in Raids /\ raid_no' > raid_no /\ Note(raid_no', {k}, "asked")
    BY <1>1, NextRaid DEF SelfFire
  <2>2. \A m, j, v : <<m, j, v>> \in log' <=>
            <<m, j, v>> \in log \/ (m = raid_no' /\ j \in {k} /\ v = "asked")
    BY <2>1 DEF Note
  <2>3. /\ UNCHANGED <<due, ev>> /\ th' = [th EXCEPT ![k] = [pc |-> "arm"]]
        /\ ev = "idle"
    BY <1>1 DEF SelfFire, Goto, OneEnds
  <2>4. /\ \A j \in Key : InHand(j)' => InHand(j) /\ th'[j] = th[j]
        /\ \A m \in Raids : m <= raid_no => m < raid_no'
        /\ raid_no' <= raid_no'
    BY <2>1, <2>3
  <2>5. QED
    BY <2>1, <2>2, <2>3, <2>4
<1>2. ASSUME NEW k \in Key, SelfArm(k)
      PROVE  NothingEarly'
  <2>1. k \in Arming
    BY <1>2 DEF SelfArm, Arming
  <2>2. raid_no \in Raids /\ ev = "idle"
    BY <2>1, BegunRaid DEF OneEnds
  <2>3. /\ UNCHANGED <<due, ev, raid_no>> /\ th' = [th EXCEPT ![k] = [pc |-> "ready"]]
        /\ deadline' # "none" => deadline # "none"
        /\ \A m, j, v : <<m, j, v>> \in log' => <<m, j, v>> \in log \/ m = raid_no
    BY <1>2, <2>2, TimerLog DEF SelfArm, Goto, Ready
  <2>4. QED
    BY <2>2, <2>3
<1>3. ASSUME NEW k \in Key, NEW right \in BOOLEAN, Submit(k, right)
      PROVE  NothingEarly'
  <2>1. PICK i \in SlotsOf(k) :
           Goto(k, [pc |-> "answered", slot |-> i, right |-> right, raid |-> raid_no])
    BY <1>3 DEF Submit
  <2>2. QED
    BY <1>3, <2>1 DEF Submit, Goto, RaidMutexFree, police
<1>4. ASSUME NEW k \in Key, Settle(k)
      PROVE  NothingEarly'
  <2>1. \A m, j, v : <<m, j, v>> \in log' <=>
           \/ <<m, j, v>> \in log
           \/ m = raid_no /\ j \in SlippedKeys(k) /\ v = "slipped"
           \/ /\ th[k].right /\ m = th[k].raid /\ j = k
              /\ v = IF InTime(k) THEN "ok" ELSE "late"
    BY <1>4, SettleLog
  <2>2. ev # "snapshot" /\ th[k].raid <= raid_no
    BY <1>4 DEF Settle, RaidMutexFree
  <2>3. CASE th[k].right
    BY <1>4, <2>1, <2>2, <2>3 DEF Settle, Goto, Ready
  <2>4. CASE ~ th[k].right
    BY <1>4, <2>1, <2>2, <2>4 DEF Settle, Goto
  <2>5. QED
    BY <2>3, <2>4
<1>5. ASSUME NEW k \in Key, Burn(k)
      PROVE  NothingEarly'
  <2>1. th[k].raid \in Raids /\ Note(th[k].raid, {k}, "burned")
    BY <1>5, HandlerStates DEF Burn
  <2>2. \A m, j, v : <<m, j, v>> \in log' <=>
            <<m, j, v>> \in log \/ (m = th[k].raid /\ j \in {k} /\ v = "burned")
    BY <2>1 DEF Note
  <2>3. QED
    BY <1>5, <2>2 DEF Burn, Goto, Ready, police
<1>6. CASE CastBegin \/ CastEnd
  BY <1>6 DEF CastBegin, CastEnd, police
<1>7. CASE DeadlinePasses
  BY <1>7 DEF DeadlinePasses, police
<1>8. CASE FireBegin
  BY <1>8 DEF FireBegin
<1>9. CASE FireSnapshot
  <2>1. PICK online \in SUBSET Key : Note(raid_no, online, "asked")
    BY <1>9 DEF FireSnapshot
  <2>2. raid_no \in Raids
    BY <1>9, BegunRaid DEF FireSnapshot, OneEnds
  <2>3. \A m, j, v : <<m, j, v>> \in log' <=>
            <<m, j, v>> \in log \/ (m = raid_no /\ j \in online /\ v = "asked")
    BY <2>1 DEF Note
  <2>4. ev' # "snapshot"
    BY <1>9 DEF FireSnapshot
  <2>5. QED
    BY <1>9, <2>3, <2>4 DEF FireSnapshot
<1>10. CASE FireEmpty
  BY <1>10 DEF FireEmpty, police
<1>11. CASE FireCast
  BY <1>11 DEF FireCast, police
<1>12. CASE FireArm
  <2>1. raid_no \in Raids
    BY <1>12, BegunRaid DEF FireArm, OneEnds
  <2>2. /\ UNCHANGED <<due, th, raid_no>> /\ ev' = "idle"
        /\ deadline' # "none" => deadline # "none"
        /\ \A m, j, v : <<m, j, v>> \in log' => <<m, j, v>> \in log \/ m = raid_no
    BY <1>12, <2>1, TimerLog DEF FireArm
  <2>3. QED
    BY <1>12, <2>2
<1>13. ASSUME NEW n \in Raids, TimerFires(n)
      PROVE  NothingEarly'
  <2>1. n = raid_no
    BY <1>13 DEF TimerFires, OneEnds
  <2>2. \A m, j : <<m, j>> \in due' => <<m, j>> \in due \/ m = raid_no
    BY <1>13, <2>1 DEF TimerFires
  <2>3. QED
    BY <1>13, <2>1, <2>2 DEF TimerFires
<1>14. ASSUME NEW n \in Raids, NEW k \in Key, TimerBurns(n, k)
      PROVE  NothingEarly'
  <2>1. \A m, j, v : <<m, j, v>> \in log' <=>
            <<m, j, v>> \in log \/ (m = n /\ j \in {k} /\ v = "burned")
    BY <1>14 DEF TimerBurns, Note
  <2>2. n <= raid_no /\ (ev = "snapshot" => n < raid_no)
    BY <1>14 DEF TimerBurns, OneEnds
  <2>3. \A m, j : <<m, j>> \in due' => <<m, j>> \in due
    BY <1>14 DEF TimerBurns
  <2>4. QED
    BY <1>14, <2>1, <2>2, <2>3 DEF TimerBurns
<1>15. CASE UNCHANGED rvars
  BY <1>15 DEF rvars, police
<1>16. QED
  BY <1>1, <1>2, <1>3, <1>4, <1>5, <1>6, <1>7, <1>8, <1>9, <1>10, <1>11, <1>12, <1>13,
     <1>14, <1>15
  DEF RaidNext, Request, Handler, Fire, Timer

\* What else handle_minigame_submit does: it clears the slot it found before, and
\* goes on to burn the account when the answer was wrong.
LEMMA SettleEffect ==
    ASSUME TypesButList, pending \in Lists, NEW k \in Key, Settle(k)
    PROVE  /\ DOMAIN pending' = DOMAIN pending \ {th[k].slot}
           /\ \A i \in DOMAIN pending' : pending'[i] = pending[i]
           /\ \A j : SlotsOf(j)' = SlotsOf(j) \ {th[k].slot}
           /\ \A j \in Key \ {k} : th'[j] = th[j]
           /\ th[k].right => th'[k].pc = "ready"
           /\ ~ th[k].right => th'[k].pc = "burn" /\ th'[k].raid = th[k].raid
           /\ th'[k].pc # "answered"
           /\ UNCHANGED <<deadline, due, ev, raid_no>>
<1>1. pending' = Restrict(pending, DOMAIN pending \ {th[k].slot})
  BY DEF Settle
<1>2. /\ DOMAIN pending' = DOMAIN pending \ {th[k].slot}
      /\ \A i \in DOMAIN pending \ {th[k].slot} : pending'[i] = pending[i]
  BY <1>1, CutList, Zenon
<1>3. \A j : SlotsOf(j)' = SlotsOf(j) \ {th[k].slot}
  BY <1>2 DEF SlotsOf
<1>4. /\ th[k].right => th' = [th EXCEPT ![k] = Ready]
      /\ ~ th[k].right => th' = [th EXCEPT ![k] = [pc |-> "burn", raid |-> th[k].raid]]
  BY DEF Settle, Goto
<1>5. /\ \A j \in Key \ {k} : th'[j] = th[j]
      /\ th[k].right => th'[k].pc = "ready"
      /\ ~ th[k].right => th'[k].pc = "burn" /\ th'[k].raid = th[k].raid
  BY <1>4 DEF TypesButList, Ready
<1>6. UNCHANGED <<deadline, due, ev, raid_no>>
  BY DEF Settle
<1>7. QED
  BY <1>2, <1>3, <1>5, <1>6

\* A key stays on the list once, and an answer's slot stays its own while the raid
\* that was answered is on.
LEMMA OwnStep ==
    ASSUME TypesButList, pending \in Lists, OneEnds, NothingEarly,
           ListedOnce, SlotIsOwn, [RaidNext]_rvars
    PROVE  ListedOnce' /\ SlotIsOwn'
<1>0. /\ \A k \in Key : InHand(k) =>
            /\ th[k].raid \in Nat
            /\ th[k].raid <= raid_no /\ (ev = "snapshot" => th[k].raid < raid_no)
      /\ raid_no \in Nat
      /\ DOMAIN NoKeys = {}
  BY RaidAssumption, HandlerStates, ShortLists
  DEF Raids, TypesButList, InHand, NothingEarly
<1> USE <1>0 DEF TypesButList, ListedOnce, SlotIsOwn, InHand, SlotsOf
<1>1. ASSUME NEW k \in Key, SelfFire(k)
      PROVE  ListedOnce' /\ SlotIsOwn'
  <2>1. th' = [th EXCEPT ![k] = [pc |-> "arm"]] /\ raid_no' = raid_no + 1
    BY <1>1 DEF SelfFire, Goto
  <2>2. \A j \in Key : InHand(j)' => th'[j].raid # raid_no'
    BY <2>1
  <2>3. pending' = [i \in {0} |-> k]
    BY <1>1 DEF SelfFire
  <2>4. QED
    BY <2>2, <2>3
<1>2. ASSUME NEW k \in Key, SelfArm(k)
      PROVE  ListedOnce' /\ SlotIsOwn'
  <2>1. /\ th' = [th EXCEPT ![k] = [pc |-> "ready"]] /\ UNCHANGED raid_no
        /\ UNCHANGED pending \/ pending' = NoKeys
    BY <1>2 DEF SelfArm, StartTimer, Goto, Ready
  <2>2. QED
    BY <2>1
<1>3. ASSUME NEW k \in Key, NEW right \in BOOLEAN, Submit(k, right)
      PROVE  ListedOnce' /\ SlotIsOwn'
  <2>1. PICK i \in SlotsOf(k) :
           th' = [th EXCEPT ![k] = [pc |-> "answered", slot |-> i, right |-> right,
                                    raid |-> raid_no]]
    BY <1>3 DEF Submit, Goto
  <2>2. UNCHANGED <<pending, raid_no>>
    BY <1>3 DEF Submit, police
  <2>3. SlotsOf(k) = {i} \cap DOMAIN pending
    BY <2>1
  <2>4. QED
    BY <2>1, <2>2, <2>3
<1>4. ASSUME NEW k \in Key, Settle(k)
      PROVE  ListedOnce' /\ SlotIsOwn'
  <2>1. /\ DOMAIN pending' = DOMAIN pending \ {th[k].slot}
        /\ \A i \in DOMAIN pending' : pending'[i] = pending[i]
        /\ UNCHANGED raid_no
    BY <1>4, SettleEffect
  <2>2. /\ th'[k].pc # "answered"
        /\ \A j \in Key \ {k} : th'[j] = th[j]
    BY <1>4, SettleEffect
  <2>3. ListedOnce'
    BY <2>1
  <2>4. ASSUME NEW j \in Key, th'[j].pc = "answered", th'[j].raid = raid_no'
        PROVE  SlotsOf(j)' = {th'[j].slot} \cap DOMAIN pending'
    <3>1. th'[j] = th[j] /\ SlotsOf(j) = {th[j].slot} \cap DOMAIN pending
      BY <2>1, <2>2, <2>4
    <3>2. SlotsOf(j)' = SlotsOf(j) \ {th[k].slot}
      BY <2>1
    <3>3. QED
      BY <2>1, <3>1, <3>2
  <2>5. QED
    BY <2>3, <2>4
<1>5. ASSUME NEW k \in Key, Burn(k)
      PROVE  ListedOnce' /\ SlotIsOwn'
  BY <1>5 DEF Burn, Goto, Ready, police
<1>6. CASE CastBegin \/ CastEnd
  BY <1>6 DEF CastBegin, CastEnd, police
<1>7. CASE DeadlinePasses
  BY <1>7 DEF DeadlinePasses
<1>8. CASE FireBegin
  <2>1. pending' = NoKeys
    BY <1>8 DEF FireBegin
  <2>2. QED
    BY <2>1
<1>9. CASE FireSnapshot
  <2>1. \A i, j \in DOMAIN pending' : pending'[i] = pending'[j] => i = j
    BY <1>9, FullList DEF FireSnapshot
  <2>2. UNCHANGED <<th, raid_no>> /\ ev = "snapshot"
    BY <1>9 DEF FireSnapshot
  <2>3. \A j \in Key : InHand(j)' => th'[j].raid # raid_no'
    BY <2>2
  <2>4. QED
    BY <2>1, <2>3
<1>10. CASE FireEmpty
  BY <1>10 DEF FireEmpty
<1>11. CASE FireCast
  BY <1>11 DEF FireCast, police
<1>12. CASE FireArm
  <2>1. UNCHANGED <<th, raid_no>> /\ (UNCHANGED pending \/ pending' = NoKeys)
    BY <1>12 DEF FireArm, StartTimer
  <2>2. QED
    BY <2>1
<1>13. ASSUME NEW n \in Raids, TimerFires(n)
      PROVE  ListedOnce' /\ SlotIsOwn'
  BY <1>13 DEF TimerFires
<1>14. ASSUME NEW n \in Raids, NEW k \in Key, TimerBurns(n, k)
      PROVE  ListedOnce' /\ SlotIsOwn'
  BY <1>14 DEF TimerBurns
<1>15. CASE UNCHANGED rvars
  BY <1>15 DEF rvars, police
<1>16. QED
  BY <1>1, <1>2, <1>3, <1>4, <1>5, <1>6, <1>7, <1>8, <1>9, <1>10, <1>11, <1>12, <1>13,
     <1>14, <1>15
  DEF RaidNext, Request, Handler, Fire, Timer

\* Whoever is accepted in a raid stays out of it.
LEMMA OkStep ==
    ASSUME TypesButList, pending \in Lists, OneEnds, NothingEarly,
           ListedOnce, SlotIsOwn, OkIsFinal, [RaidNext]_rvars
    PROVE  OkIsFinal'
<1>0. /\ \A k \in Key : InHand(k) =>
            /\ th[k].raid \in Raids
            /\ th[k].raid <= raid_no /\ (ev = "snapshot" => th[k].raid < raid_no)
      /\ raid_no \in Nat
      /\ \A n \in Raids : n \in Nat
      /\ \A n \in Raids, k \in Key, what \in {"ok", "burned"} : Noted(n, k, what) =>
                n <= raid_no /\ (ev = "snapshot" => n < raid_no)
      /\ DOMAIN NoKeys = {}
  <2>1. /\ \A k \in Key : InHand(k) => th[k].raid \in Raids
        /\ raid_no \in Nat
        /\ \A n \in Raids : n \in Nat
    BY RaidAssumption, HandlerStates DEF Raids, TypesButList, InHand
  <2>2. \A n \in Raids, k \in Key, what \in {"ok", "burned"} : Noted(n, k, what) =>
                n <= raid_no /\ (ev = "snapshot" => n < raid_no)
    BY DEF NothingEarly, Outcome
  <2>3. QED
    BY <2>1, <2>2, ShortLists DEF NothingEarly
<1> USE <1>0 DEF TypesButList, OkIsFinal, OkFinal, InHand, Noted
<1>1. ASSUME NEW k \in Key, SelfFire(k)
      PROVE  OkIsFinal'
  <2>1. th' = [th EXCEPT ![k] = [pc |-> "arm"]] /\ raid_no' = raid_no + 1 /\ UNCHANGED due
    BY <1>1 DEF SelfFire, Goto
  <2>2. \A m, j, v : <<m, j, v>> \in log' /\ v # "asked" => <<m, j, v>> \in log
    BY <1>1 DEF SelfFire, Note
  <2>3. /\ \A j \in Key : InHand(j)' => InHand(j) /\ th'[j] = th[j]
        /\ \A m \in Raids : m <= raid_no => m # raid_no'
    BY <2>1
  <2>4. ASSUME NEW m \in Raids, NEW j \in Key
        PROVE  OkFinal(m, j)'
    BY <2>1, <2>2, <2>3
  <2>5. QED
    BY <2>4
<1>2. ASSUME NEW k \in Key, SelfArm(k)
      PROVE  OkIsFinal'
  <2>1. raid_no \in Raids
    BY <1>2, BegunRaid DEF SelfArm, OneEnds, Arming
  <2>2. /\ th' = [th EXCEPT ![k] = [pc |-> "ready"]] /\ UNCHANGED <<raid_no, due>>
        /\ UNCHANGED pending \/ pending' = NoKeys
        /\ \A m, j, v : <<m, j, v>> \in log' /\ v # "let off" => <<m, j, v>> \in log
    BY <1>2, <2>1, TimerLog DEF SelfArm, Goto, Ready
  <2>3. /\ \A j \in Key : InHand(j)' => InHand(j) /\ th'[j] = th[j]
        /\ \A j : SlotsOf(j)' \subseteq SlotsOf(j)
    BY <2>2 DEF SlotsOf
  <2>4. ASSUME NEW m \in Raids, NEW j \in Key
        PROVE  OkFinal(m, j)'
    <3>1. OkFinal(m, j) /\ SlotsOf(j)' \subseteq SlotsOf(j) /\ UNCHANGED <<raid_no, due>>
      BY <2>2, <2>3
    <3>2. /\ Noted(m, j, "ok")' => Noted(m, j, "ok")
          /\ Noted(m, j, "burned")' => Noted(m, j, "burned")
      BY <2>2
    <3>3. th'[j].pc = "burn" => th[j].pc = "burn" /\ th'[j] = th[j]
      BY <2>3
    <3>4. InHand(j)' => InHand(j) /\ th'[j] = th[j]
      BY <2>3
    <3> HIDE <1>0
    <3>5. QED
      BY <3>1, <3>2, <3>3, <3>4
  <2>5. QED
    BY <2>4
<1>3. ASSUME NEW k \in Key, NEW right \in BOOLEAN, Submit(k, right)
      PROVE  OkIsFinal'
  <2>1. PICK i \in SlotsOf(k) :
           th' = [th EXCEPT ![k] = [pc |-> "answered", slot |-> i, right |-> right,
                                    raid |-> raid_no]]
    BY <1>3 DEF Submit, Goto
  <2>2. UNCHANGED <<pending, raid_no, due, log>> /\ UNCHANGED SlotsOf(k)
    BY <1>3 DEF Submit, police, SlotsOf
  <2>3. \A j : UNCHANGED SlotsOf(j)
    BY <2>2 DEF SlotsOf
  <2>4. /\ \A j \in Key \ {k} : th'[j] = th[j]
        /\ th'[k].pc = "answered" /\ th'[k].raid = raid_no
    BY <2>1
  <2>5. \A n \in Raids : Noted(n, k, "ok") => raid_no # n
    BY <2>1
  <2>6. QED
    BY <2>2, <2>3, <2>4, <2>5
<1>4. ASSUME NEW k \in Key, Settle(k)
      PROVE  OkIsFinal'
  <2>1. /\ \A j : SlotsOf(j)' = SlotsOf(j) \ {th[k].slot}
        /\ \A j \in Key \ {k} : th'[j] = th[j]
        /\ th[k].right => th'[k].pc = "ready"
        /\ ~ th[k].right => th'[k].pc = "burn" /\ th'[k].raid = th[k].raid
        /\ UNCHANGED <<deadline, due, ev, raid_no>>
    BY <1>4, SettleEffect
  <2>2. /\ \A m, j : <<m, j, "burned">> \in log' <=> <<m, j, "burned">> \in log
        /\ \A m, j : <<m, j, "ok">> \in log' <=>
              \/ <<m, j, "ok">> \in log
              \/ th[k].right /\ m = th[k].raid /\ j = k /\ InTime(k)
    BY <1>4, SettleLog
  <2>3. th[k].pc = "answered" /\ th[k].raid \in Raids
    BY <1>4 DEF Settle
  <2>4. th[k].raid = raid_no => SlotsOf(k) = {th[k].slot} \cap DOMAIN pending
    BY <2>3 DEF SlotIsOwn
  <2>5. ASSUME InTime(k)
        PROVE  /\ th[k].raid = raid_no
               /\ ~ Noted(raid_no, k, "burned") /\ <<raid_no, k>> \notin due
    <3>1. th[k].raid = raid_no /\ SlotsOf(k) = {th[k].slot}
      BY <2>4, <2>5 DEF InTime
    <3>2. deadline # "none"
      BY <2>5 DEF InTime, OneEnds
    <3>3. ~ Noted(raid_no, k, "burned")
      BY <2>3, <3>1
    <3>4. <<raid_no, k>> \in due => raid_no < raid_no
      BY <2>3, <3>1, <3>2 DEF NothingEarly
    <3>5. QED
      BY <3>1, <3>3, <3>4
  <2>6. th[k].raid = raid_no => SlotsOf(k)' = {}
    BY <2>1, <2>4
  <2>7. ASSUME NEW m \in Raids, NEW j \in Key
        PROVE  OkFinal(m, j)'
    <3>1. CASE j = k
      BY <2>1, <2>2, <2>3, <2>5, <2>6, <3>1
    <3>2. CASE j # k
      BY <2>1, <2>2, <3>2
    <3>3. QED
      BY <3>1, <3>2
  <2>8. QED
    BY <2>7
<1>5. ASSUME NEW k \in Key, Burn(k)
      PROVE  OkIsFinal'
  <2>1. th' = [th EXCEPT ![k] = [pc |-> "ready"]] /\ UNCHANGED <<raid_no, due, pending>>
    BY <1>5 DEF Burn, Goto, Ready, police
  <2>2. \A m, j, v : <<m, j, v>> \in log' <=>
            <<m, j, v>> \in log \/ (m = th[k].raid /\ j = k /\ v = "burned")
    BY <1>5 DEF Burn, Note
  <2>3. /\ \A j \in Key : InHand(j)' => InHand(j) /\ th'[j] = th[j]
        /\ \A j : SlotsOf(j)' = SlotsOf(j)
    BY <2>1 DEF SlotsOf
  <2>4. th[k].pc = "burn" /\ th[k].raid \in Raids
    BY <1>5 DEF Burn
  <2>5. ASSUME NEW m \in Raids, NEW j \in Key
        PROVE  OkFinal(m, j)'
    <3>1. CASE m = th[k].raid /\ j = k
      <4>1. ~ Noted(m, k, "ok") /\ (m = raid_no => SlotsOf(k) = {})
        BY <2>4, <3>1
      <4>2. QED
        BY <2>1, <2>2, <2>3, <3>1, <4>1
    <3>2. CASE ~ (m = th[k].raid /\ j = k)
      BY <2>1, <2>2, <2>3, <3>2
    <3>3. QED
      BY <3>1, <3>2
  <2>6. QED
    BY <2>5
<1>6. CASE CastBegin \/ CastEnd
  BY <1>6 DEF CastBegin, CastEnd, police, SlotsOf
<1>7. CASE DeadlinePasses
  BY <1>7 DEF DeadlinePasses, SlotsOf
<1>8. CASE FireBegin
  <2>1. \A m \in Raids : m <= raid_no => m # raid_no'
    BY <1>8 DEF FireBegin
  <2>2. QED
    BY <1>8, <2>1 DEF FireBegin
<1>9. CASE FireSnapshot
  <2>1. PICK online \in SUBSET Key : Note(raid_no, online, "asked")
    BY <1>9 DEF FireSnapshot
  <2>2. \A m, j, v : <<m, j, v>> \in log' /\ v # "asked" => <<m, j, v>> \in log
    BY <2>1 DEF Note
  <2>3. ev = "snapshot" /\ UNCHANGED <<th, raid_no, due>>
    BY <1>9 DEF FireSnapshot
  <2>4. ASSUME NEW m \in Raids, NEW j \in Key
        PROVE  OkFinal(m, j)'
    <3>1. CASE m = raid_no
      <4>1. ~ Noted(m, j, "ok") /\ ~ Noted(m, j, "burned") /\ (InHand(j) => th[j].raid # m)
        BY <2>3, <3>1
      <4>2. QED
        BY <2>2, <2>3, <4>1
    <3>2. CASE m # raid_no
      BY <2>2, <2>3, <3>2
    <3>3. QED
      BY <3>1, <3>2
  <2>5. QED
    BY <2>4
<1>10. CASE FireEmpty
  BY <1>10 DEF FireEmpty, SlotsOf
<1>11. CASE FireCast
  BY <1>11 DEF FireCast, police, SlotsOf
<1>12. CASE FireArm
  <2>1. raid_no \in Raids
    BY <1>12, BegunRaid DEF FireArm, OneEnds
  <2>2. /\ UNCHANGED <<th, raid_no, due>>
        /\ UNCHANGED pending \/ pending' = NoKeys
        /\ \A m, j, v : <<m, j, v>> \in log' /\ v # "let off" => <<m, j, v>> \in log
    BY <1>12, <2>1, TimerLog DEF FireArm
  <2>3. \A j : SlotsOf(j)' \subseteq SlotsOf(j)
    BY <2>2 DEF SlotsOf
  <2>4. QED
    BY <2>2, <2>3
<1>13. ASSUME NEW n \in Raids, TimerFires(n)
      PROVE  OkIsFinal'
  <2>1. n = raid_no
    BY <1>13 DEF TimerFires, OneEnds
  <2>2. /\ \A m, j : <<m, j>> \in due' => <<m, j>> \in due \/ (m = raid_no /\ SlotsOf(j) # {})
        /\ UNCHANGED <<th, raid_no, log>>
        /\ \A j : SlotsOf(j)' = {}
    BY <1>13, <2>1 DEF TimerFires, SlotsOf
  <2>3. QED
    BY <2>2
<1>14. ASSUME NEW n \in Raids, NEW k \in Key, TimerBurns(n, k)
      PROVE  OkIsFinal'
  <2>1. \A m, j, v : <<m, j, v>> \in log' <=>
            <<m, j, v>> \in log \/ (m = n /\ j = k /\ v = "burned")
    BY <1>14 DEF TimerBurns, Note
  <2>2. /\ <<n, k>> \in due /\ (\A m, j : <<m, j>> \in due' => <<m, j>> \in due)
        /\ UNCHANGED <<th, raid_no, pending>>
    BY <1>14 DEF TimerBurns
  <2>3. n = raid_no => SlotsOf(k) = {}
    BY <2>2 DEF NothingEarly, OneEnds, SlotsOf
  <2>4. \A j : SlotsOf(j)' = SlotsOf(j)
    BY <2>2 DEF SlotsOf
  <2>5. ASSUME NEW m \in Raids, NEW j \in Key
        PROVE  OkFinal(m, j)'
    <3>1. OkFinal(m, j) /\ OkFinal(n, k) /\ (SlotsOf(j)' = SlotsOf(j))
      BY <2>4
    <3>2. /\ Noted(m, j, "ok")' <=> Noted(m, j, "ok")
          /\ Noted(m, j, "burned")' => Noted(m, j, "burned") \/ (m = n /\ j = k)
          /\ <<m, j>> \in due' => <<m, j>> \in due
      BY <2>1, <2>2
    <3>3. QED
      BY <2>2, <2>3, <3>1, <3>2
  <2>6. QED
    BY <2>5
<1>15. CASE UNCHANGED rvars
  BY <1>15 DEF rvars, police, SlotsOf
<1>16. QED
  BY <1>1, <1>2, <1>3, <1>4, <1>5, <1>6, <1>7, <1>8, <1>9, <1>10, <1>11, <1>12, <1>13,
     <1>14, <1>15
  DEF RaidNext, Request, Handler, Fire, Timer

\* Whoever was asked is awaited or decided.
Silent(n, k) == Noted(n, k, "asked") => Awaited(n, k) \/ Decided(n, k)

\* A step that leaves the keys awaited as they are, and only adds to the log.
LEMMA SilentKept ==
    ASSUME NEW n, NEW k, Silent(n, k),
           \A v : <<n, k, v>> \in log => <<n, k, v>> \in log',
           <<n, k, "asked">> \in log' => <<n, k, "asked">> \in log,
           Awaited(n, k) => Awaited(n, k)'
    PROVE  Silent(n, k)'
BY DEF Silent, Decided, Answered, Noted

\* Starting the timer leaves everybody awaited, or lets everybody off.
LEMMA TimerSilent ==
    ASSUME TypesButList, raid_no \in Raids, StartTimer, UNCHANGED raid_no,
           NEW n, NEW k \in Key, Silent(n, k),
           th[k].pc \in {"answered", "burn"} => th'[k] = th[k]
    PROVE  Silent(n, k)'
<1>1. UNCHANGED due
  BY DEF StartTimer
<1>2. CASE UNCHANGED <<pending, log>>
  <2>1. Awaited(n, k) => Awaited(n, k)'
    BY <1>1, <1>2 DEF Awaited, SlotsOf
  <2>2. QED
    BY <1>2, <2>1, SilentKept
<1>3. CASE pending' = NoKeys /\ \A m, j, v : <<m, j, v>> \in log' <=>
              <<m, j, v>> \in log \/ (m = raid_no /\ j \in Key /\ v = "let off")
  <2>1. CASE n = raid_no
    BY <1>3, <2>1 DEF Silent, Decided, Noted
  <2>2. CASE n # raid_no
    <3>1. Awaited(n, k) => Awaited(n, k)'
      BY <1>1, <2>2 DEF Awaited
    <3>2. /\ \A v : <<n, k, v>> \in log => <<n, k, v>> \in log'
          /\ <<n, k, "asked">> \in log' => <<n, k, "asked">> \in log
      BY <1>3, <2>2
    <3>3. QED
      BY <3>1, <3>2, SilentKept
  <2>3. QED
    BY <2>1, <2>2
<1>4. QED
  BY <1>2, <1>3, TimerLog

\* Nobody gets off without an answer.
LEMMA SilentStep ==
    ASSUME TypesButList, pending \in Lists, OneEnds, NothingEarly,
           SlotIsOwn, SilentAreBurned, [RaidNext]_rvars
    PROVE  SilentAreBurned'
<1> SUFFICES ASSUME NEW m \in Raids, NEW j \in Key, Silent(m, j)
             PROVE  Silent(m, j)'
  BY DEF SilentAreBurned, Silent
<1>0. /\ raid_no \in Nat /\ m \in Nat
      /\ Noted(m, j, "asked") => m <= raid_no /\ (ev = "snapshot" => m < raid_no)
      /\ DOMAIN NoKeys = {}
      /\ pending = NoKeys => SlotsOf(j) = {}
  <2>1. raid_no \in Nat /\ m \in Nat
    BY RaidAssumption DEF Raids, TypesButList
  <2>2. Noted(m, j, "asked") => m <= raid_no /\ (ev = "snapshot" => m < raid_no)
    BY DEF NothingEarly, Outcome
  <2>3. DOMAIN NoKeys = {}
    BY ShortLists
  <2>4. pending = NoKeys => SlotsOf(j) = {}
    BY <2>3 DEF SlotsOf
  <2>5. QED
    BY <2>1, <2>2, <2>3, <2>4
<1> USE <1>0 DEF TypesButList
<1>1. ASSUME NEW k \in Key, SelfFire(k)
      PROVE  Silent(m, j)'
  <2>1. /\ th' = [th EXCEPT ![k] = [pc |-> "arm"]] /\ th[k].pc = "ready"
        /\ pending' = [i \in {0} |-> k] /\ UNCHANGED due
    BY <1>1 DEF SelfFire, Goto, Ready
  <2>2. \A n, i, v : <<n, i, v>> \in log' <=>
            <<n, i, v>> \in log \/ (n = raid_no' /\ i = k /\ v = "asked")
    BY <1>1 DEF SelfFire, Note
  <2>3. SlotsOf(j) = {}
    BY <1>1 DEF SelfFire, OneEnds
  <2>4. Awaited(m, j) => Awaited(m, j)'
    BY <2>1, <2>3 DEF Awaited
  <2>5. CASE m = raid_no' /\ j = k
    <3>1. 0 \in SlotsOf(j)'
      BY <2>1, <2>5 DEF SlotsOf
    <3>2. QED
      BY <2>5, <3>1 DEF Silent, Awaited
  <2>6. CASE ~ (m = raid_no' /\ j = k)
    <3>1. /\ \A v : <<m, j, v>> \in log => <<m, j, v>> \in log'
          /\ <<m, j, "asked">> \in log' => <<m, j, "asked">> \in log
      BY <2>2, <2>6
    <3>2. QED
      BY <2>4, <3>1, SilentKept
  <2>7. QED
    BY <2>5, <2>6
<1>2. ASSUME NEW k \in Key, SelfArm(k)
      PROVE  Silent(m, j)'
  <2>1. raid_no \in Raids
    BY <1>2, BegunRaid DEF SelfArm, OneEnds, Arming
  <2>2. /\ th' = [th EXCEPT ![k] = [pc |-> "ready"]] /\ th[k].pc = "arm"
        /\ UNCHANGED raid_no /\ StartTimer
    BY <1>2 DEF SelfArm, Goto, Ready
  <2>3. th'[j].pc \in {"answered", "burn"} <=> th[j].pc \in {"answered", "burn"}
    BY <2>2
  <2>4. th[j].pc \in {"answered", "burn"} => th'[j] = th[j]
    BY <2>2
  <2>5. QED
    BY <2>1, <2>2, <2>4, TimerSilent
<1>3. ASSUME NEW k \in Key, NEW right \in BOOLEAN, Submit(k, right)
      PROVE  Silent(m, j)'
  <2>1. PICK i \in SlotsOf(k) :
           th' = [th EXCEPT ![k] = [pc |-> "answered", slot |-> i, right |-> right,
                                    raid |-> raid_no]]
    BY <1>3 DEF Submit, Goto
  <2>2. UNCHANGED <<pending, raid_no, due, log>> /\ th[k].pc = "ready"
    BY <1>3 DEF Submit, police, Ready
  <2>3. th[j].pc \in {"answered", "burn"} => th'[j] = th[j]
    BY <2>1, <2>2
  <2>4. Awaited(m, j) => Awaited(m, j)'
    BY <2>2, <2>3 DEF Awaited, SlotsOf
  <2>5. QED
    BY <2>2, <2>4, SilentKept
<1>4. ASSUME NEW k \in Key, Settle(k)
      PROVE  Silent(m, j)'
  <2>1. /\ SlotsOf(j)' = SlotsOf(j) \ {th[k].slot}
        /\ \A i \in Key \ {k} : th'[i] = th[i]
        /\ th[k].right => th'[k].pc = "ready"
        /\ ~ th[k].right => th'[k].pc = "burn" /\ th'[k].raid = th[k].raid
        /\ UNCHANGED <<deadline, due, ev, raid_no>>
    BY <1>4, SettleEffect
  <2>2. \A n, i, v : <<n, i, v>> \in log' <=>
           \/ <<n, i, v>> \in log
           \/ n = raid_no /\ i \in SlippedKeys(k) /\ v = "slipped"
           \/ /\ th[k].right /\ n = th[k].raid /\ i = k
              /\ v = IF InTime(k) THEN "ok" ELSE "late"
    BY <1>4, SettleLog
  <2>3. th[k].pc = "answered"
    BY <1>4 DEF Settle
  <2>4. CASE j = k /\ m = th[k].raid
    <3>1. CASE th[k].right
      <4>1. Answered(m, j)'
        BY <2>2, <2>4, <3>1 DEF Answered, Noted
      <4>2. QED
        BY <4>1 DEF Silent, Decided, Answered
    <3>2. CASE ~ th[k].right
      BY <2>1, <2>4, <3>2 DEF Silent, Awaited
    <3>3. QED
      BY <3>1, <3>2
  <2>5. CASE ~ (j = k /\ m = th[k].raid) /\ m = raid_no /\ th[k].slot \in SlotsOf(j)
    <3>1. ~ InTime(k)
      <4>1. ASSUME InTime(k) PROVE FALSE
        <5>1. th[k].raid = raid_no /\ th[k].slot \in DOMAIN pending
          BY <4>1 DEF InTime
        <5>2. th[k].slot \in SlotsOf(k)
          BY <2>3, <5>1 DEF SlotIsOwn
        <5>3. QED
          BY <2>5, <5>1, <5>2 DEF SlotsOf
      <4>2. QED
        BY <4>1
    <3>2. j \in SlippedKeys(k)
      BY <2>5, <3>1 DEF SlippedKeys, SlotsOf
    <3>3. Noted(m, j, "slipped")'
      BY <2>2, <2>5, <3>2 DEF Noted
    <3>4. QED
      BY <3>3 DEF Silent, Decided
  <2>6. CASE ~ (j = k /\ m = th[k].raid) /\ ~ (m = raid_no /\ th[k].slot \in SlotsOf(j))
    <3>1. Awaited(m, j) => Awaited(m, j)'
      BY <2>1, <2>6 DEF Awaited
    <3>2. /\ \A v : <<m, j, v>> \in log => <<m, j, v>> \in log'
          /\ <<m, j, "asked">> \in log' => <<m, j, "asked">> \in log
      BY <2>2
    <3>3. QED
      BY <3>1, <3>2, SilentKept
  <2>7. QED
    BY <2>4, <2>5, <2>6
<1>5. ASSUME NEW k \in Key, Burn(k)
      PROVE  Silent(m, j)'
  <2>1. th' = [th EXCEPT ![k] = [pc |-> "ready"]] /\ UNCHANGED <<raid_no, due, pending>>
    BY <1>5 DEF Burn, Goto, Ready, police
  <2>2. \A n, i, v : <<n, i, v>> \in log' <=>
            <<n, i, v>> \in log \/ (n = th[k].raid /\ i = k /\ v = "burned")
    BY <1>5 DEF Burn, Note
  <2>3. CASE m = th[k].raid /\ j = k
    BY <2>2, <2>3 DEF Silent, Decided, Noted
  <2>4. CASE ~ (m = th[k].raid /\ j = k)
    <3>1. Awaited(m, j) => Awaited(m, j)'
      BY <2>1, <2>4 DEF Awaited, SlotsOf
    <3>2. /\ \A v : <<m, j, v>> \in log => <<m, j, v>> \in log'
          /\ <<m, j, "asked">> \in log' => <<m, j, "asked">> \in log
      BY <2>2
    <3>3. QED
      BY <3>1, <3>2, SilentKept
  <2>5. QED
    BY <2>3, <2>4
<1>6. CASE CastBegin \/ CastEnd
  BY <1>6, SilentKept DEF CastBegin, CastEnd, police, Awaited, SlotsOf
<1>7. CASE DeadlinePasses
  BY <1>7, SilentKept DEF DeadlinePasses, Awaited, SlotsOf
<1>8. CASE FireBegin
  <2>1. SlotsOf(j) = {} /\ UNCHANGED <<due, th, log>>
    BY <1>8 DEF FireBegin, OneEnds
  <2>2. Awaited(m, j) => Awaited(m, j)'
    BY <2>1 DEF Awaited
  <2>3. QED
    BY <2>1, <2>2, SilentKept
<1>9. CASE FireSnapshot
  <2>1. PICK online \in SUBSET Key :
           /\ pending' \in Bijection(0 .. (Cardinality(online) - 1), online)
           /\ Note(raid_no, online, "asked")
    BY <1>9 DEF FireSnapshot
  <2>2. \A n, i, v : <<n, i, v>> \in log' <=>
            <<n, i, v>> \in log \/ (n = raid_no /\ i \in online /\ v = "asked")
    BY <2>1 DEF Note
  <2>3. UNCHANGED <<th, raid_no, due>> /\ SlotsOf(j) = {}
    BY <1>9 DEF FireSnapshot, OneEnds
  <2>4. CASE m = raid_no /\ j \in online
    <3>1. PICK i \in DOMAIN pending' : pending'[i] = j
      BY <2>1, <2>4, FullList
    <3>2. i \in SlotsOf(j)'
      BY <3>1 DEF SlotsOf
    <3>3. QED
      BY <2>3, <2>4, <3>2 DEF Silent, Awaited
  <2>5. CASE ~ (m = raid_no /\ j \in online)
    <3>1. Awaited(m, j) => Awaited(m, j)'
      BY <2>3 DEF Awaited
    <3>2. QED
      BY <2>2, <2>5, <3>1, SilentKept
  <2>6. QED
    BY <2>4, <2>5
<1>10. CASE FireEmpty
  BY <1>10, SilentKept DEF FireEmpty, Awaited, SlotsOf
<1>11. CASE FireCast
  BY <1>11, SilentKept DEF FireCast, police, Awaited, SlotsOf
<1>12. CASE FireArm
  <2>1. raid_no \in Raids
    BY <1>12, BegunRaid DEF FireArm, OneEnds
  <2>2. UNCHANGED <<th, raid_no>> /\ StartTimer
    BY <1>12 DEF FireArm
  <2>3. QED
    BY <2>1, <2>2, TimerSilent
<1>13. ASSUME NEW n \in Raids, TimerFires(n)
      PROVE  Silent(m, j)'
  <2>1. n = raid_no
    BY <1>13 DEF TimerFires, OneEnds
  <2>2. /\ SlotsOf(j) # {} => <<raid_no, j>> \in due'
        /\ \A e \in due : e \in due'
        /\ UNCHANGED <<th, raid_no, log>>
    BY <1>13, <2>1 DEF TimerFires, SlotsOf
  <2>3. Awaited(m, j) => Awaited(m, j)'
    BY <2>2 DEF Awaited
  <2>4. QED
    BY <2>2, <2>3, SilentKept
<1>14. ASSUME NEW n \in Raids, NEW k \in Key, TimerBurns(n, k)
      PROVE  Silent(m, j)'
  <2>1. \A l, i, v : <<l, i, v>> \in log' <=>
            <<l, i, v>> \in log \/ (l = n /\ i = k /\ v = "burned")
    BY <1>14 DEF TimerBurns, Note
  <2>2. /\ \A l, i : <<l, i>> \in due => <<l, i>> \in due' \/ (l = n /\ i = k)
        /\ UNCHANGED <<th, raid_no, pending>>
    BY <1>14 DEF TimerBurns
  <2>3. CASE m = n /\ j = k
    BY <2>1, <2>3 DEF Silent, Decided, Noted
  <2>4. CASE ~ (m = n /\ j = k)
    <3>1. Awaited(m, j) => Awaited(m, j)'
      BY <2>2, <2>4 DEF Awaited, SlotsOf
    <3>2. QED
      BY <2>1, <2>4, <3>1, SilentKept
  <2>5. QED
    BY <2>3, <2>4
<1>15. CASE UNCHANGED rvars
  BY <1>15, SilentKept DEF rvars, police, Awaited, SlotsOf
<1>16. QED
  BY <1>1, <1>2, <1>3, <1>4, <1>5, <1>6, <1>7, <1>8, <1>9, <1>10, <1>11, <1>12, <1>13,
     <1>14, <1>15
  DEF RaidNext, Request, Handler, Fire, Timer

-----------------------------------------------------------------------------
\* The theorems.

\* No raid is on to begin with, and nothing is noted.
LEMMA RaidStart == RaidInit => RaidInv
<1> SUFFICES ASSUME RaidInit PROVE RaidInv
  OBVIOUS
<1>1. /\ th = [k \in Key |-> [pc |-> "ready"]] /\ pending = NoKeys
      /\ deadline = "none" /\ ev = "idle" /\ timers = {} /\ due = {} /\ raid_no = 0
      /\ log = {}
  BY DEF RaidInit, Ready
<1>2. casting \in BOOLEAN
  BY Zenon DEF RaidInit
<1>3. th \in [Key -> HandlerState]
  BY <1>1, HandlerStates
<1>4. raid_no \in 0 .. RAID_LIMIT
  BY <1>1, RaidAssumption
<1>5. RaidTypeOK
  BY <1>1, <1>2, <1>3, <1>4, ShortLists, TypeSplit DEF TypesButList
<1>6. Arming = {} /\ DOMAIN pending = {} /\ \A k \in Key : th[k].pc = "ready"
  BY <1>1, ShortLists DEF Arming
<1>7. OneEnds
  BY <1>1, <1>6 DEF OneEnds
<1>8. ListedOnce /\ SlotIsOwn
  BY <1>6 DEF ListedOnce, SlotIsOwn
<1>9. NothingEarly /\ OkIsFinal /\ SilentAreBurned
  BY <1>1, <1>6 DEF NothingEarly, OkIsFinal, OkFinal, SilentAreBurned, Noted, InHand
<1>10. QED
  BY <1>5, <1>7, <1>8, <1>9 DEF RaidInv

\* The invariant is inductive.
LEMMA RaidStep == RaidInv /\ [RaidNext]_rvars => RaidInv'
BY TypeSplit, TypeStep, EndsStep, EarlyStep, OwnStep, OkStep, SilentStep DEF RaidInv

LEMMA RaidInvariant == RaidSpec => []RaidInv
BY RaidStart, RaidStep, PTL DEF RaidSpec

\* Every variable of the raid keeps its type: the list never outgrows the number of
\* keys, and a slot number a handler kept is always one the list can have.
THEOREM RaidTypeCorrect == RaidSpec => []RaidTypeOK
<1>1. RaidInv => RaidTypeOK
  BY DEF RaidInv
<1>2. QED
  BY <1>1, RaidInvariant, PTL

\* While a raid is on exactly one thread is going to end it, its own, whichever of
\* the calls that start its timer fails; no raid stays on for ever for want of one.
THEOREM RaidEndsOnce == RaidSpec => []OneThreadEndsIt
<1>1. OneEnds => OneThreadEndsIt
  <2> SUFFICES ASSUME OneEnds PROVE OneThreadEndsIt
    OBVIOUS
  <2>1. Firing = (IF ev = "idle" THEN {} ELSE {"event"}) \cup Arming
    BY DEF Firing, Arming
  <2>2. \A x : Cardinality({x}) = 1
    BY FS_Singleton
  <2>3. CASE deadline = "none"
    BY <2>1, <2>3 DEF OneEnds, OneThreadEndsIt
  <2>4. CASE deadline # "none"
    <3>1. CASE ev # "idle" /\ Arming = {} /\ timers = {}
      <4>1. Firing = {"event"}
        BY <2>1, <3>1
      <4>2. QED
        BY <2>2, <2>4, <3>1, <4>1 DEF OneThreadEndsIt
    <3>2. CASE ev = "idle" /\ (\E k \in Key : Arming = {k}) /\ timers = {}
      <4>1. PICK k \in Key : Firing = {k}
        BY <2>1, <3>2
      <4>2. QED
        BY <2>2, <2>4, <3>2, <4>1 DEF OneThreadEndsIt
    <3>3. CASE ev = "idle" /\ Arming = {} /\ timers = {raid_no}
      BY <2>1, <2>4, <3>3 DEF OneThreadEndsIt
    <3>4. QED
      BY <2>4, <3>1, <3>2, <3>3 DEF OneEnds
  <2>5. QED
    BY <2>3, <2>4
<1>2. RaidInv => OneThreadEndsIt
  BY <1>1 DEF RaidInv
<1>3. QED
  BY <1>2, RaidInvariant, PTL

\* Whoever handle_minigame_submit accepts in time is not burned by that raid, though
\* the slot was found in an earlier critical section than the one that clears it.
THEOREM AcceptedAreSafe == RaidSpec => []AcceptedNotBurned
<1>1. RaidInv => AcceptedNotBurned
  BY DEF RaidInv, OkIsFinal, OkFinal, AcceptedNotBurned
<1>2. QED
  BY <1>1, RaidInvariant, PTL

\* Nobody who was asked gets off without an answer, unless the raid is called off or
\* a handler that found its slot in an earlier raid clears the slot in this one.
THEOREM SilentNotForgotten == RaidSpec => []SilentAreBurned
<1>1. RaidInv => SilentAreBurned
  BY DEF RaidInv
<1>2. QED
  BY <1>1, RaidInvariant, PTL
=============================================================================
