-------------------------------- MODULE Reset -------------------------------
(***************************************************************************)
(* The reset of a round (trigger_round_reset in                            *)
(* src/src/server/server_main.c) in the middle of trading, and the freezes *)
(* with their timers (fire_public_leak and leak_recovery_thread in         *)
(* src/src/server/events.c), which a reset does not stop.                  *)
(*                                                                         *)
(* Handlers and event thread are those of Trade.  The reset takes no lock  *)
(* around the whole: it is one step for each folder, for users.dat, for    *)
(* each critical section of market_init and for each call of               *)
(* seed_market_and_npc.                                                    *)
(***************************************************************************)
EXTENDS Trade

CONSTANTS
    RESET_LIMIT,    \* bound: resets
    LEAK_LIMIT      \* bound: leaks

ASSUME ResetAssumption == {RESET_LIMIT, LEAK_LIMIT} \subseteq Nat

VARIABLES
    rs,         \* where the timer thread of the countdown is in the reset
    recovery,   \* tag -> the number of recovery threads that sleep
    resets,     \* resets begun
    leaks,      \* leaks begun
    caught      \* (history) documents a thread had in hand when a reset cleared the board

zvars == <<tvars, rs, recovery, resets, leaks, caught>>

LeaksStay == UNCHANGED <<recovery, leaks>>
ResetStays == UNCHANGED <<rs, resets, caught>>
ThreadsStay == UNCHANGED <<th, ev, raid, counters>>

ResetInit ==
    /\ TradeInit
    /\ rs = [pc |-> "idle"]
    /\ recovery = [t \in Tag |-> 0]
    /\ resets = 0
    /\ leaks = 0
    /\ caught = {}

-----------------------------------------------------------------------------
\* fire_public_leak, by the event thread or by a handler (/fake leak).

LeakBegins(tag) ==
    /\ leaks < LEAK_LIMIT
    /\ leaks' = leaks + 1
    /\ tag \in market_active_tags \ g_frozen_tags

EventLeak(tag) ==
    /\ ev.pc = "idle"
    /\ LeakBegins(tag)
    /\ ev' = [pc |-> "leak_freeze", tag |-> tag]
    /\ UNCHANGED <<vars, store, th, raid, counters, recovery>> /\ ResetStays

FakeLeak(u, tag) ==
    /\ At(u, "ready")
    /\ LeakBegins(tag)
    /\ Goto(u, [pc |-> "leak_freeze", tag |-> tag])
    /\ UNCHANGED <<vars, store, ev, raid, counters, recovery>> /\ ResetStays

EventFreeze ==
    /\ ev.pc = "leak_freeze"
    /\ freeze_tags({ev.tag})
    /\ ev' = [ev EXCEPT !.pc = "leak_arm"]
    /\ UNCHANGED <<store, th, raid, counters>> /\ LeaksStay /\ ResetStays

HandlerFreeze(u) ==
    /\ At(u, "leak_freeze")
    /\ freeze_tags({th[u].tag})
    /\ Goto(u, [th[u] EXCEPT !.pc = "leak_arm"])
    /\ UNCHANGED <<store, ev, raid, counters>> /\ LeaksStay /\ ResetStays

\* Mutant: when the recovery thread cannot be started, the tag stays frozen.
StartRecovery_or_not(tag) ==
    /\ recovery' = [recovery EXCEPT ![tag] = @ + 1] \/ UNCHANGED recovery
    /\ UNCHANGED vars

\* The recovery thread, or its failure to start.
StartRecovery(tag) ==
    \/ /\ recovery' = [recovery EXCEPT ![tag] = @ + 1]
       /\ UNCHANGED vars
    \/ /\ unfreeze_tags({tag})
       /\ UNCHANGED recovery

EventArm ==
    /\ ev.pc = "leak_arm"
    /\ StartRecovery(ev.tag)
    /\ ev' = [pc |-> "idle"]
    /\ UNCHANGED <<store, th, raid, counters, leaks>> /\ ResetStays

HandlerArm(u) ==
    /\ At(u, "leak_arm")
    /\ StartRecovery(th[u].tag)
    /\ Goto(u, Ready)
    /\ UNCHANGED <<store, ev, raid, counters, leaks>> /\ ResetStays

\* leak_recovery_thread, when its sleep is over.
leak_recovery(tag) ==
    /\ recovery[tag] > 0
    /\ unfreeze_tags({tag})
    /\ recovery' = [recovery EXCEPT ![tag] = @ - 1]
    /\ UNCHANGED <<store, leaks>> /\ ThreadsStay /\ ResetStays

-----------------------------------------------------------------------------
\* trigger_round_reset.  The round's own variables are those of Round.

Step(from, to) == rs.pc = from /\ rs' = [pc |-> to]
ResetOnly == UNCHANGED <<resets, caught>> /\ ThreadsStay /\ LeaksStay

\* sandbox_global_reset: data/master first.
ResetMaster ==
    /\ rs.pc = "idle" /\ rs' = [pc |-> "sandboxes", todo |-> User]
    /\ resets < RESET_LIMIT
    /\ resets' = resets + 1
    /\ master' = Vacate(master, DOMAIN master)
    /\ UNCHANGED <<vars, users_dat, sandbox, caught>> /\ ThreadsStay /\ LeaksStay

\* Mutant: the folders of the users are left alone.
ResetSandbox_none(u) ==
    /\ rs.pc = "sandboxes" /\ u \in rs.todo
    /\ rs' = [rs EXCEPT !.todo = @ \ {u}]
    /\ UNCHANGED <<vars, store>> /\ ResetOnly

\* Then the folders of the users, in the order of the directory.
ResetSandbox(u) ==
    /\ rs.pc = "sandboxes" /\ u \in rs.todo
    /\ rs' = [rs EXCEPT !.todo = @ \ {u}]
    /\ sandbox_purge_user(u)
    /\ UNCHANGED vars /\ ResetOnly

\* userdb_reset_round.
ResetUsers ==
    /\ Step("sandboxes", "board") /\ rs.todo = {}
    /\ users_dat' = [u \in User |-> IF users_dat[u] = BURNED THEN BURNED ELSE INITIAL_MONEY]
    /\ UNCHANGED <<vars, master, sandbox>> /\ ResetOnly

InHand == {d \in DocId : WithSpawner(d) \/ \E u \in User : InPassage(u, d)}

\* Mutant: the mask is cleared, and the offers are kept.
ResetBoard_keeps_offers ==
    /\ Step("board", "npcs")
    /\ unfreeze_tags(Tag)
    /\ caught' = caught \cup InHand
    /\ UNCHANGED <<store, resets>> /\ ThreadsStay /\ LeaksStay

ResetBoard ==
    /\ Step("board", "npcs")
    /\ market_init_board
    /\ caught' = caught \cup InHand
    /\ UNCHANGED <<store, resets>> /\ ThreadsStay /\ LeaksStay

ResetNpcs ==
    /\ rs.pc = "npcs"
    /\ rs' = [pc |-> "seed_write", n |-> 1]
    /\ market_init_npc
    /\ UNCHANGED store /\ ResetOnly

\* seed_market_and_npc: a file and an offer for each document, then the requests.  A
\* result is not looked at: on a full board nothing is listed.
SeedWrite ==
    /\ rs.pc = "seed_write" /\ rs.n <= Len(SeedDocs)
    /\ rs' = [rs EXCEPT !.pc = "seed_add"]
    /\ master_write_doc(SeedDocs[rs.n].doc_id, SeedDocs[rs.n].tags)
    /\ UNCHANGED vars /\ ResetOnly

SeedAdd ==
    /\ rs.pc = "seed_add"
    /\ rs' = [pc |-> "seed_write", n |-> rs.n + 1]
    /\ \/ market_add(SeedDocs[rs.n].doc_id, SeedDocs[rs.n].tags, SeedDocs[rs.n].base_price)
       \/ market_is_full /\ UNCHANGED vars
    /\ UNCHANGED store /\ ResetOnly

SeedNpcsBegin ==
    /\ rs.pc = "seed_write" /\ rs.n > Len(SeedDocs)
    /\ rs' = [pc |-> "seed_npc", n |-> 1]
    /\ UNCHANGED <<vars, store>> /\ ResetOnly

SeedNpc ==
    /\ rs.pc = "seed_npc" /\ rs.n <= Len(SeedNpcs)
    /\ rs' = [rs EXCEPT !.n = @ + 1]
    /\ \/ npc_add(SeedNpcs[rs.n].npc_id, SeedNpcs[rs.n].required_tags, SeedNpcs[rs.n].bounty)
       \/ npc_is_full /\ UNCHANGED vars
    /\ UNCHANGED store /\ ResetOnly

ResetDone ==
    /\ rs.pc = "seed_npc" /\ rs.n > Len(SeedNpcs)
    /\ rs' = [pc |-> "idle"]
    /\ UNCHANGED <<vars, store>> /\ ResetOnly

-----------------------------------------------------------------------------

Leaking ==
    \/ \E t \in Tag : EventLeak(t) \/ leak_recovery(t) \/ \E u \in User : FakeLeak(u, t)
    \/ EventFreeze \/ EventArm
    \/ \E u \in User : HandlerFreeze(u) \/ HandlerArm(u)

Resetting ==
    \/ ResetMaster \/ (\E u \in User : ResetSandbox(u))
    \/ ResetUsers \/ ResetBoard \/ ResetNpcs
    \/ SeedWrite \/ SeedAdd \/ SeedNpcsBegin \/ SeedNpc \/ ResetDone

Trading ==
    /\ (\E u \in User : Request(u) \/ Handler(u)) \/ Spawner \/ Traffic
    /\ LeaksStay /\ ResetStays

ResetNext == Trading \/ Leaking \/ Resetting

ResetSpec == ResetInit /\ [][ResetNext]_zvars

-----------------------------------------------------------------------------

\* Between the clearing of data/master and that of the board.
Clearing == rs.pc \in {"sandboxes", "board"}

\* A reset leaves no offer without a file, or with a file of other tags, but for the
\* documents that a buyer or the event thread had in hand when it cleared the board:
\* those are listed by BuyUndo or SpawnAdd after their file is gone, or the file of a
\* seed is moved by a purchase, or removed as aged, from under its new offer.
OnlyCaughtUnbacked ==
    ~ Clearing =>
        \A i \in DOMAIN g_market : LET d == g_market[i].doc_id IN
            d \in caught \/ (d \in DOMAIN master /\ master[d] = g_market[i].tags)

\* The seeds come back with the ids they had, and still no document is in two places,
\* with the same exception.
OnlyCaughtTwice ==
    \A d \in DocId : Cardinality(Custodians(d)) <= 1 \/ d \in caught

\* No tag is frozen for good: for each frozen tag a recovery thread sleeps, or the
\* thread that froze it is about to start one, whether two leaks meet, a reset clears
\* the mask under a sleeping thread, or the thread cannot be started.
FrozenWillThaw ==
    \A t \in g_frozen_tags :
        \/ recovery[t] > 0
        \/ ev.pc = "leak_arm" /\ ev.tag = t
        \/ \E u \in User : At(u, "leak_arm") /\ th[u].tag = t
=============================================================================
