# UnderFlow in TLA+

UnderFlow is a networked trading game: players connect to a server, buy
"documents" from a black market, sell them in bundles to buyers' requests
("NPCs"), and try to pay off a debt before the police or the other players ruin
them. The server is one C process with a thread for every client, an event
thread, and short-lived timer threads. Its state is spread over arrays under
three or four mutexes, files that are moved between folders, and records in one
binary file. What is hard about it is that one command of a player touches all
of these in turn, with no lock around the whole.

Source paths are given relative to the repository (`src/server/market.c`,
`userdb/userdb.c`), as in the modules' headers with a leading `src/`.

## The system

| Component | State | Operations | Used by | What makes it correct |
|---|---|---|---|---|
| Board, `src/server/market.c` | `g_market[32]`, `g_npc[16]`, mask `g_frozen_tags`; one mutex for offers and mask, one for requests | init, add, find, take, age out, freeze, thaw | handlers, event thread, leak timers, reset | an offer is taken once; cached flags agree with the mask; frozen offers stay |
| Trading, `handle_buy`, `handle_sell`, `handle_dispose`, `check_bankruptcy` in `src/server/server_main.c` | locals of a handler thread | a sequence of calls to board, files and records | `client_handler` | a document is in one place; nobody pays twice, for nothing, or is paid twice |
| Spawner, `src/server/events.c` | counters of ids, tick | spawn and age offers and requests, start leaks, raids and the end of the round | its own thread | no offer without a file, no file forgotten |
| Sandbox, `src/server/sandbox.c` | `data/master`, `data/users/<KEY>` | rename, unlink, write, purge | handlers, spawner, raids, reset | a file is moved, never copied |
| User database, `userdb/userdb.c` | records in `users.dat` | find, append, update, burn, reset, each under one mutex | handlers, raids, reset | a burned account stays burned; a key means one record |
| Sessions, `main`, `client_handler`, `broadcast_packet` | `client_sockets`, `active_keys` under `clients_mutex` | accept, log in, disconnect, broadcast | everybody | a slot per handler, one session per key, no leak, no hang |
| Police raids | deadline, pending keys, passcode under one mutex | fire, submit, time out | event thread, handlers, timer thread | whoever answers in time is spared, the others burned, once |
| Round end | goal, escapes, countdown flag, cap time under `g_round_mutex` | payoff, countdown, reset | handlers, event thread, timer thread | one countdown per round; a reset restores every part |
| Rumor | cooldown under `g_rumor_mutex` | `handle_rumor` | handlers | one rumor per cooldown, paid for |
| Protocol, `src/common/protocol.c` | none | send and receive a packet | all | framing and byte order |
| Watchdog, `src/tools/watchdog.c` | child pid, stop flag | fork, wait, restart, signal | stand-alone | restarts a crash, never a normal exit; a stop stops both |
| UI client, `src/client/ui_client.c` | mirror of the board, mode of the screen | draw, read keys, receive | stand-alone | the mirror follows the server; a raid can be answered |
| Audio, `src/client/audio.c` | current track | play, stop | UI client | not modelled: library calls |

Hard behaviours, with the lines where they bite, are the `hazards` of
`PROJECT.json`.

## Modules

```
Market  ----refines---->  Bazaar
  ^ EXTENDS
Trade   <--EXTENDS--  TradeHistory  ----refines---->  Exchange
  ^ EXTENDS
Reset
Sessions    Raid    Round    Client    Watchdog

MC<module>       the instance of a module for TLC, with its .cfg files
<module>Proofs   the theorems about a module, for every value of its constants;
                 TradeProofs extends MarketProofs, ResetProofs extends TradeProofs
```

Trade and Reset are about documents and money, Round about the rules of a round,
Raid about the raid's list and timer, Sessions about connections, Client about
what one player sees of all of them. Each of these takes from the others what it
needs as a free choice: in Raid any set of keys may be logged in, in Client the
server's events come in any order the locks allow.

**Market** is `market.c`, one action for each critical section. An array of
slots with an `active` flag is a function whose domain is the set of active
slots; a mask is a set of tags. A call that returns an error changes nothing and
is therefore not a step; a caller that looks at the result has a disjunct for
it. Ages are left out: any set of unfrozen offers, or of requests, may be the one
a sweep finds to be old.

**Bazaar** is what the board promises: places with offers, stalls with requests, a set of
frozen tags. An offer with a frozen tag cannot leave. It has no slot flags, no
first fit and no locks.

**Trade** composes the board with files, money and threads. `th[u]` is the
point the handler thread of user `u` has reached together with the locals it will use again,
so that a value read before a step and used after it is stale exactly when the
code's is. Each call on shared state is a step of its own:

| code | actions |
|---|---|
| `handle_buy` | `BuyFind`, `BuyCount`, `BuyMoney`, `BuyTake`, `BuyMove`, then `BuyPay` or, when the file cannot be moved, `BuyUndo` |
| `check_bankruptcy` | `BustMoney`, `BustCount`, `BustBurn` |
| `handle_sell` | `SellFind`, `SellCheck` (per document), `SellTake`, `SellDispose` (per document), `SellMoney`, `SellPay` |
| `handle_dispose` | `handle_dispose` |
| `event_spawn_market` | `SpawnChoose`, `SpawnWrite`, `SpawnAdd`, `RemoveFile` |
| `event_age_market`, `event_age_npcs` | `AgeMarket` and `RemoveFile`, `AgeNpcs` |
| `event_do_npc_sequence` | `NpcSpawn` |
| `fire_public_leak`, `leak_recovery_thread` | `Leak`, `Recover`, at any time |
| `burn_user_by_key` | `RaidBurn`, `RaidPurge` |

**Exchange** is trade as the players see it: a purchase is one step that takes
the offer and the money, after which the document is due and comes, or the money goes
back; a sale is one step that takes the request and the documents and pays. Frozen tags
are not traded: a frozen offer is not sold. For a sale, and for a new offer, what
counts are the tags that have been frozen ever since it was begun (`barred`), because
that is as much of README.md:114 as the code keeps; what it does not keep is listed
under the disagreements. A player who is raided drops
out of what is promised; the others are to notice nothing.

**TradeHistory** is Trade with two history variables (`barred`, and `raided`: who was
burned by a raid) and the map to Exchange. The map counts what a thread has still to
write as done: a purchase happens at `market_take`, a sale at `npc_take`, a raid when it
burns the account. `Purse`, `Holds` and `Due` are that map.

**Sessions** is the table of sockets and keys, the login of a client step by
step, the records it looks up or appends, and broadcasts. A critical section of
`clients_mutex` is one step, except in `broadcast_packet`, which sends to each
client while it holds the mutex: `casting` is the set of slots still to serve.
`barred` is a history variable: whether the key was burned when the login began.
Socket numbers are reused as soon as they are closed, as the kernel does.

**Reset** adds to Trade the thread that resets a round, and the leaks with their
recovery threads. Nothing locks the server for a reset: `ResetMaster`,
`ResetSandbox` (folder by folder), `ResetUsers`, `ResetBoard`, `ResetNpcs`, `SeedWrite`,
`SeedAdd`, `SeedNpc` are the calls in `trigger_round_reset`, and the steps of
Trade go on between them. `caught` is a history variable: the documents that a
buyer, or the event thread, had in hand when the board was cleared. Leaks replace
Trade's free choice of freezing and thawing: `EventLeak` or `FakeLeak`, then
`EventFreeze`/`HandlerFreeze`, `EventArm`/`HandlerArm` (the recovery thread, or
the thaw when it cannot be started), and `leak_recovery` later.

**Raid** is `g_periodic_raid_*` and its mutex:

| code | actions |
|---|---|
| `fire_periodic_police_raid` | `FireBegin`, `FireSnapshot` (waits for `clients_mutex` while holding the raid's mutex), `FireEmpty` or `FireCast`, `FireArm` |
| `fire_self_police_raid` | `SelfFire`, `SelfArm` |
| `handle_minigame_submit` | `Submit` (finds the slot), `Settle` (clears it by its number), `Burn` |
| `periodic_raid_timeout_thread` | `TimerFires`, `TimerBurns` |
| `broadcast_packet` of other threads | `CastBegin`, `CastEnd` |

`log` is a history of what became of each key in each raid.

**Round** is `g_round_mutex` and what it guards, `g_rumor_mutex`, and the money
of the players as far as these rules and the burns of raids change it. `overtaken` is a
history variable: the keys whose record was burned or reset since a handler read it,
while that handler has still to use what it read.

| code | actions |
|---|---|
| `handle_payoff` | `PayoffFind`, `PayoffRefused` or `PayoffEscape`, `PayoffRestart` |
| `handle_fake_rich`, `handle_fake_endround` | `FakeRich`, `FakeRichWrite`; `FakeEndround` |
| `handle_rumor`, `check_bankruptcy` | `Rumor`, `RumorPay`; `BustMoney`, `BustBurn` |
| `fire_round_end_countdown` | `FireClaim`, then `FireArm` or `FireFails` |
| `check_cap_grace_expired` in the event thread | `Tick` |
| `burn_user_by_key` | `RaidBurn`, at any time |
| `round_end_timer_thread`, `trigger_round_reset` | `TimerWakes`, `ResetUsers`, `ResetRound`, `ResetRumor` |

**Client** is one UI client and the server seen from its socket. Every thread of
the server changes its state under a lock and sends afterwards, so an actor is
the set of packets it has still to send (`busy`), `Send` puts one on the wire, and
the `Recv` actions are the branches of the client's main loop. `Register`,
`LoginOk`, `Snapshot` and `SendMask` are the end of the login in `client_handler`.
`crossed`, `coming` and `overlaid` are history variables: the announcements that have
gone out of order, the client's lists as they will be when the wire is empty, and whether
something has replaced the screen of the latest raid; see the run.

**Watchdog** is `watchdog.c` with a child that goes from the forked copy through
`execv` to a server with its own signal handler. A signal may come between any two
steps, to the watchdog, to the server, or from the terminal to both.

## Runs

| run | what it checks | bounds | states |
|---|---|---|---|
| `market` | `TypeOK`, `FrozenFlagMatchesMask`, `FrozenOfferStays`, `ImplementsBazaar` | 2 offer slots, 1 request slot, 2 documents, 3 tags | 1.4 thousand |
| `trade` | `OfferBacked`, `ImplementsExchange`, `FilesSettle` | 2 players, 2 offer slots, 1 request, 2 documents, 2 tags, 2 prices, 1 spawn | 432 thousand |
| `trade_faults` | `TradeTypeOK`, `OneCustodian`, `OfferBacked`, `OnlyLostForgotten`, `BurnedHoldNothing`, `ImplementsExchange` | 2 players, 1 offer slot, 1 tag, 1 spawn, 1 request at the start and 1 more, 2 burned accounts, 1 failed rename | 1.1 million |
| `sessions` | `TypeOK`, `SlotsMatchHandlers`, `BurnedStaysOut`, `HungUpIsCleared`, `LoginAnswered` | 2 sockets, reused; 2 slots, 1 key, room for 1 unread packet | 24 thousand |
| `reset` | `OnlyCaughtUnbacked`, `OnlyCaughtTwice`, `FrozenWillThaw` | 1 player, 2 offer slots, 1 request, 1 tag, 1 seed, 1 spawn, 2 resets, 2 leaks | 2.0 million |
| `raid` | `RaidTypeOK`, `OneThreadEndsIt`, `AcceptedNotBurned`, `SilentAreBurned`, `VerdictReached` | 2 players, 2 raids | 335 thousand |
| `round` | `RoundTypeOK`, `OneCountdown`, `GoalFollowsEscapes`, `OneRumorAtATime`, `RevivedOnlyByLateWrite`, `PaidFromRecord`, `CapEndsRound` | 2 players, cap after 1 escape, end after 2, at most 3 escapes in a round, amounts up to 2; any number of rounds and raids | 757 thousand |
| `client` | `ClientTypeOK`, `MirrorSettles`, `CanAnswer`, `PanicEnds` | 3 offers and 1 request on a board for 2 and 1, 1 tag, 3 events on the server, 2 packets on the wire | 1.3 million |
| `watchdog` | `NoServerLeftBehind`, `CrashRestarted`, `StopEnds` | 3 servers | 248 |
| `trade_ids` | `OneOwner`: violated | a seed whose id the spawner reaches | |
| `trade_burn` | `BurnedForever`: violated | a raid during a purchase | |
| `sessions_dup` | `OneSessionPerKey`: violated | as `sessions` | |

Why the bounds are enough to meet the interesting cases. Freezing is about an
offer with several tags, of which some are frozen: two tags (`market` has three). First fit is about holes and a
full table: two slots. Trading is about two threads that want the same document
or the same request: two players, two documents and one request. The rollback of
a purchase that finds the board full needs the board to fill in between: one
slot and one spawn (`trade_faults`, where one tag is enough: how masks of several
tags overlap is the business of `market` and `trade`). Two prices tell apart a buyer who pays what
was asked at `market_find` from one who pays what `market_take` returned. In
`sessions`, two connections are enough for a race of logins, a race of a login
with a disconnect or a broadcast, and a socket number that comes back; all keys
behave alike and only equal ones interact. A table of one slot would only make
`Accept` refuse; refusal is in the model in any case (no thread to be had).

In `raid`, two raids are enough for an answer that is settled in the next raid,
and two players for its hitting somebody else's slot. In `round`, the order of
events is that of the game (cap reached before the escape that ends the round,
one more escape during the countdown) with smaller numbers; the money at the start
covers the first goal, which the game lets a player earn first. In `reset` one player
is enough: what meets is a handler, the event thread and the reset; two resets
let a purchase begun in one round end two rounds later, and two leaks of one tag
let an old recovery thread meet a new freeze. In `client`, three events are
enough for each crossing (list, remove, list again on a full board; leak, count
down, reset; raid and raid), and the client may connect while the tag is frozen.
In `watchdog`, two restarts.

Some players may all be bankrupt, or a client or the watchdog have ended, so
`round`, `reset`, `client` and `watchdog` do not check deadlock (in `reset`, a
user who is burned sends nothing, and spawns, leaks and resets are bounded).

The named bounds of Trade are `SPAWN_LIMIT`, `NPC_LIMIT`, `RAID_LIMIT` and
`DISK_FAULTS`. `RAID_LIMIT` counts burned accounts at a time, and bankruptcies count as
well. `trade` is without raids and disk faults, which `trade_faults` has;
`OneCustodian` and `OnlyLostForgotten` are checked there only, where there is more
to break them.
Those of the others are `RESET_LIMIT` and `LEAK_LIMIT`, Raid's `RAID_LIMIT`,
`ESCAPE_LIMIT`, `EVENT_LIMIT` and `WIRE_ROOM`, and `START_LIMIT`. The state graph of
every run is finite without a state constraint.

`lost` in Trade is a history variable: the documents whose rollback found the
board full. `OnlyLostForgotten` says that this, which the code accepts by not
looking at `market_add`'s result, is the only way a file is left behind in
`data/master` with nobody to move or remove it.

### What the exceptions in the properties say

Several properties hold with an exception that is part of their statement; each
is a race the code has, and the property shows that it is the only one of its kind.

* `AcceptedNotBurned` is about answers settled in time. A right answer that is
  checked before the timer's critical section and settled after it is confirmed
  to the player, who is burned all the same ("late" in `log`).
* `SilentAreBurned`: `handle_minigame_submit` clears a slot by the number it found
  in an earlier critical section. If the list of the next raid has been made in
  between, it is somebody else's slot, and that player gets off ("slipped").
* `OnlyCaughtUnbacked`, `OnlyCaughtTwice`: a purchase or a spawn that is under way
  when a round is reset goes on with the new board. Its rollback or its
  `market_add` lists an offer whose file has been purged, and a purchase of a seed
  moves away the file of the seed's new offer.
* `MirrorSettles`: an announcement may overtake the one before it, since it is
  sent after the lock is released. The client does not look whether it has an
  item already, and `MARKET_REMOVE` removes one entry; so a listing
  that comes twice (broadcast and login snapshot) or after its removal leaves an
  entry that stays until the round ends. A full list drops the new offer for good.
  A leak whose recovery thread cannot be started is thawed on the server and stays
  frozen on the screens.
* `CanAnswer`: a scoreboard or a reset during a raid, or the confirmation of an
  earlier answer, takes the raid's screen away; the client then sends no passcode
  and the player is burned.
* `PanicEnds` is about raids that wait for the player. One that is called off
  leaves its screen where it is, and so does one whose list was made
  before the player's login and whose passcode was broadcast after it: no answer is
  accepted, and only another raid, the end of the round or `/quit` ends it.
* `StopEnds`: a signal between the test of `g_stop` and the assignment of
  `g_child_pid`, or a Ctrl+C before the child's `execv`, sets `g_stop` and does not
  reach the server. The watchdog goes on waiting until the next signal.
* `RevivedOnlyByLateWrite`, `PaidFromRecord`: a payoff or a rumor whose record is
  burned, or reset, between its read and its write goes by the old money and writes
  over the mark; `/fake rich` writes over it at any time.
* `ImplementsExchange`: a sale or a new offer is held to the tags frozen ever since it
  began, not to one that freezes on the way.

In Client, a broadcast that reaches a socket before the answer to its login ends
the client (`RecvFirst`), because `ui_client.c:610` takes the first packet for
the answer and `main` of the server puts the socket into the table at once.

### Fairness

In `trade`, the handler threads and the event thread are weakly fair between two
calls of one command: no lock is held there, so a runnable thread is scheduled.
Nothing makes a player send a command, the spawner spawn, or a leak happen.
In `sessions`, the accept loop and the handlers are strongly fair, because they
wait for `clients_mutex`, which broadcasts take again and again; broadcasts are seconds apart, so
the mutex is free for long stretches. Clients read what they are sent (`Read` is
weakly fair). This last assumption carries the two liveness properties: a
client that stops reading (the UI does while it waits for a key after "GAME
OVER", `src/client/ui_client.c:485`) blocks `send` inside `clients_mutex`, and
then no login is answered and no slot cleared until it reads on or disconnects.

In `raid`, the threads that are awake are strongly fair, because they wait for
`clients_mutex`, which other threads' broadcasts take and give back; a broadcast
ends because clients read (the same assumption), and the deadline passes.
In `round`, handlers between two calls and the event thread's tick are weakly fair
and the grace period ends; the resetting thread is strongly fair for
`g_rumor_mutex`. `Arm` is strongly fair: `pthread_create` succeeds in the end when
the countdown is tried again and again, which the tick does while the cap is
expired. No player has to do anything.
In `client`, the client reads, the handler and the raid's threads run, and the
packets of the event thread, the timer and the handler are sent. Answering is
left to the player. In `watchdog`, both processes run; fork succeeds in the end
if it is tried again and again (strong fairness of `Fork`), and nothing makes a
signal or a crash happen.
`reset` has no liveness property.

### Disagreements between code and documentation

* `trade_ids`: `/buy` is "first come, exclusive" (README.md:85), but the
  spawner's counter runs through the ids of the seed offers (47 is reached after
  about four minutes), and then two players may own the "same" document.
* `trade_burn`: an account burned by a raid is "burned for good" (README.md:115), but a
  purchase or a sale that was under way writes back the record it had read
  (`server_main.c:564`, 652).
* `sessions_dup`: the second login with a key is refused (README.md:76), but the
  check and the registration are two critical sections.

These three runs end in a counterexample. The following disagreements have no run of
their own; each is an exception that a property of a passing run names, so that the run
and the theorem show how far it goes.

* Burned accounts come back in three more ways (README.md:115): `handle_payoff` (679,
  732) and `handle_rumor` (953, 965) write to a record burned since they read it, and
  `handle_fake_rich` (782, 792) to any. Exceptions of `RevivedOnlyByLateWrite`.
* `/payoff` is for a balance of at least the goal (README.md:90). The balance is read
  before the lock, and a burn or a reset in between is not noticed; after a reset the
  escape is the first of the new round. Exception of `PaidFromRecord`.
* While a tag is frozen, trading of it is blocked (README.md:114 and :166). `handle_sell`
  asks for each document (`server_main.c:620`) and takes the request at 635; a document
  whose tag freezes in between is sold. Exchange's `Sell` is held to `barred` instead of
  `frozen`.
* New offers of a frozen tag are blocked as well (README.md:114). The spawner chooses
  tags (`events.c:386`) before it writes the file and lists the offer (429); what freezes
  in between, by a `/fake leak`, is listed, though nobody can buy it before it thaws.
  Exchange's `Offer` is held to `barred`.
* Who does not send the right answer in time is burned (README.md:115), but a handler that
  clears a slot by an old number lets somebody off ("slipped" in `SilentAreBurned`).
  Of a right answer that is in time and settled too late ("late"), which is confirmed
  and burned, the document says nothing.
* Ctrl+C ends the watchdog as well (README.md:65), but not in the windows described under
  `StopEnds` (`missed`).
* A leaked tag is frozen for three to five minutes (README.md:114 and :166). The recovery
  thread of a leak before a reset sleeps on and ends a leak that comes after it early
  (`events.c:536`). Reset has this behaviour; times are not modelled, and
  `FrozenWillThaw` says only that every freeze ends.

## Proofs

Every invariant of the passing runs is a theorem as well. The runs show them on small
instances; the theorems hold for every number of players, slots,
documents, tags, keys, raids, leaks, resets, events and failures.

| module | theorem | property |
|---|---|---|
| `MarketProofs` | `TypeCorrect`, `FlagsAgree`, `FrozenOffersStay`, `BazaarImplemented` | `TypeOK`, `FrozenFlagMatchesMask`, `FrozenOfferStays`, `ImplementsBazaar` |
| `TradeProofs` | `TradeTypeCorrect`, `ForgottenOnlyByRollback`, `CustodyUnique`, `OffersDeliverable`, `BurnedLeftEmpty`, `FlagsAgreeInTrade`, `ExchangeImplemented` | `TradeTypeOK`, `OnlyLostForgotten`, `OneCustodian`, `OfferBacked`, `BurnedHoldNothing`, `FrozenFlagMatchesMask`, `ImplementsExchange` |
| `ResetProofs` | `NoLeakForGood`, `ResetKeepsCustody`, `ResetKeepsFiles` | `FrozenWillThaw`, `OnlyCaughtTwice`, `OnlyCaughtUnbacked` |
| `SessionsProofs` | `SessionsTypeCorrect`, `NoSlotLeaks`, `BurnedNeverServed` | `TypeOK`, `SlotsMatchHandlers`, `BurnedStaysOut` |
| `RaidProofs` | `RaidTypeCorrect`, `RaidEndsOnce`, `AcceptedAreSafe`, `SilentNotForgotten` | `RaidTypeOK`, `OneThreadEndsIt`, `AcceptedNotBurned`, `SilentAreBurned` |
| `RoundProofs` | `RoundTypeCorrect`, `CountdownUnique`, `GoalIsEscapes`, `RumorsTakeTurns`, `RevivalsAreLateWrites`, `CommandsPayFromRecord` | `RoundTypeOK`, `OneCountdown`, `GoalFollowsEscapes`, `OneRumorAtATime`, `RevivedOnlyByLateWrite`, `PaidFromRecord` |
| `ClientProofs` | `ClientTypeCorrect`, `RaidAnswerable`, `MirrorFollows` | `ClientTypeOK`, `CanAnswer`, `MirrorSettles` |
| `WatchdogProofs` | `ServerNotLeftBehind`, `HandlerSignalsLatest` | `NoServerLeftBehind`; the pid the signal handler finds is the latest child's or -1 |

### Assumptions

Each module names its own; TLC evaluates them in the runs.

* `SlotsAssumption`: at least one slot of each kind. `WatchdogAssumption`,
  `ResetAssumption`: the bounds are numbers. `SessionsAssumption`: a slot and room
  for a packet. `RaidAssumption`: there are finitely many keys (a raid's list
  holds those that are connected).
* `RoundAssumption`: amounts are natural numbers, the debt grows by something, and
  starts below its cap.
* `TradeAssumption`: there are finitely many players (a burned one is counted, as are
  the records of `users.dat`), prices and bounties are natural numbers, the ids the spawner
  counts through are ids, and the seeds have the types of the arrays they are
  written to and fit in them.
* `ClientAssumption`: the seeds of each kind fit in the client's lists, as the four
  offers and two requests of `seed_market_and_npc` do in arrays of 32 and 16; no item is
  a tag, so that a packet about the one is not about the other.
* `SeedsApart` is not an assumption of a module but a hypothesis of the theorems on
  custody, files and burned players' folders: the seeds have ids of their own, and the
  spawner's counter has not reached them. It is true for the first 46 spawns (the
  seeds are 47, 70, 111 and 124), `trade`, `trade_faults` and `reset` satisfy it, and
  `trade_ids` shows what happens without it.
* `NpcsApart` is the same for requests, a hypothesis of `ExchangeImplemented`: the seeds
  are 102 and 356 and the spawner counts from 1, so that it is true for the first 101
  requests. Without either, an id stands for two things and trades are not atomic, as
  `trade_ids` shows. Raids and failing renames are in the theorem, any number of each.
* `EventAssumption`: the event thread is not a player.

### The arguments

**Market.** `FrozenFlagMatchesMask` is inductive together with `TypeOK`: `market_add`
sets the flag from the mask, a freeze adds to both, and a thaw clears a flag only
when no tag of the offer stays frozen. That is the whole reason
for `unfreeze_tags` testing the new mask, and the mutant that does not is caught.
`FrozenOffersStay` and the refinement both need it at each step: the code tests
the flag and the claims are about the mask. Lemmas on `Fill` and `Vacate` say
what a table contains after a slot was filled or emptied.

**Trade.** `OneCustodian` counts; `CustodyInv` says the same of one document without
counting (`Sole`) and adds what a step may rely on. `Fresh`: an id the spawner has
still to give out is in nobody's hands, or a spawn would make a second copy.
`DocBacked`: not only an offer but also what may become one again (a purchase
before its file is moved, a document the spawner is about to add) has its file with
the tags it had, or a rollback would list an offer without a file.
A step is analysed per document: the lemma `HandlerTouches` says which thread has
changed what, and everything else is `OthersIdle`.
`OnlyLostForgotten` needs no condition on the seeds: its invariant `LookedAfter` is
that each file in `data/master` is on offer, in hand, or in `lost`.

`BurnedHoldNothing` needs three facts of each player (`BurnInv`). `handle_buy` compares
the money it read with the price of `market_find` and pays the price of
`market_take`; `Affords` says that whatever the document is offered for meanwhile is
the price first seen, because only the spawner sets prices and never
gives out an id twice. So no purchase writes a negative amount
(`Solvent`), and none writes the mark -1 by accident; and the folder of a burned
player is empty, about to be purged, or that of a purchase which will write
over the mark (`Emptied`).

`ExchangeImplemented` maps what a thread has taken and not yet written to done. A step
then either is a trade of Exchange or changes nothing that it sees, and all the work is
in showing that the trade was allowed at the moment it is said to have happened, although
each test was made in an earlier step. `ExchangeInv` carries the tests there, together
with the three invariants above, for every player who was not raided; what a raided
player's thread does to its own record and folder is outside Exchange, but not what it
does to the board:

* `InStep`: nobody but the player's own handler changes his record and his folder, so
  the money read in `BuyMoney` is still on record when it is written back, and the
  room counted in `BuyCount` is still free when the file arrives. It is here that a raid in
  between would break the argument, and why only players who were not raided have it.
* `Checked` and `SameRequest`: a sale compares tags document by document; the documents
  it has been through are still in the folder and have every tag it has collected, and
  the request under that id, if it has not been taken, is the one it read. Slots of
  requests are used again, and an id is not: `SoleRequests`.
* `Guarded` and `SpawnGuarded`: the documents that a sale has been through, and the tags
  the spawner has chosen, have none of the tags frozen ever since the trade began; each
  was compared with the mask at a later moment than that.
* `FrozenFlagMatchesMask`: `market_take` tests the flag of the slot, and the purchase of
  Exchange the mask.

`Affords` gives the price: the one paid is the one compared with the money.

**Reset.** `FrozenWillThaw` is inductive with the types alone. For the other two the
invariant of Trade has to be weakened just where the reset breaks it:
`ResetInv` says of each document that it was caught or is `InOrder`, which is Trade's
invariant, without the file between `ResetMaster` and `ResetBoard`; and that a seed
which is yet to be listed is nowhere, since its file has been removed
from `data/master` and from the folders and nobody else writes it (`SweptAway`).
The reset walks over master, the folders one by one, records, board and requests in that
order, and each of these calls establishes what the next one relies on; between two
folders, those it has been to are empty of the seeds (`Swept`).

**Sessions.** `OneSlotEach` is `SlotsMatchHandlers` without counting. `BarredTurnedAway`
carries a burned key from the start of its login to the lookup: the record found is the
first of the key, records are only appended, and a burn marks the first as well.

**Raid.** A list exists only while a raid is on (`OneEnds`). An answer is settled by
a slot number found in an earlier critical section: `SlotIsOwn` says that within
one raid the number is still the key's, and `NothingEarly` separates raids, so that
the stale number of an earlier one is recognised as such ("slipped"). `OkIsFinal` follows an
accepted key until the raid is over: off the list, not among the victims, with no burn in hand.

**Round.** The types need the goal (the log is short because it follows the count) and
the goal needs the types, so they are proved together. The two theorems on the
records need `ReadingsHold`: what a handler has read is what is on record until a burn or a
reset overtakes it. A payoff or rumor that goes on has read at least the goal or the fee, so
that an account which nobody has burned meanwhile is live; and the goal that counts is that
of the moment of the escape, because it is compared inside the lock.

**Client.** Lists are sequences and packets change them one at a time; the types
follow from what each packet does to a list (`AppliedType`). For raids,
`InOrder` says that their packets are on the wire in the order they were fired in, and
that as long as any is on its way the latest is. So when the wire is empty, the
last passcode received is the current one: an overtaken raid cannot leave an
old passcode on the screen, because only the event thread sends these packets.

`MirrorSettles` is about a quiet moment and needs an account of all the others. `Led`
says that the packets on the wire turn the client's lists into those of `coming`, so that the
two are the same when the wire is empty; what is left is how `coming` follows the
server, packet by packet, in `MirrorInv`. For an item that has not crossed, `ItemFollows`
relates its place on the board, the threads that have still to announce its listing and
its removal, and its place in `coming`: a thread that is to announce a listing finds the item
not listed yet; when nobody is, an item on the board is listed if the snapshots that
are under way have got to its kind; and one that is neither on the board nor to be
removed is not listed. `TagFollows` says that the only thread with something to say of
a tag says how it is now. `Tidy` keeps apart what would confuse the two: a thread says
one thing of an item or a tag at a time, and of an unused id nobody has heard. The
invariant breaks where two threads speak of the same thing, and that is what `crossed`
records: the proof shows that nothing else can go wrong, since every step that would
break it puts the item or the tag into `crossed`.

**Watchdog.** There is a child only between fork and `waitpid`, and `g_child_pid` is
that of the latest child from its adoption until it is forgotten.

### Model-checked only

* Liveness: `FilesSettle`, `HungUpIsCleared`, `LoginAnswered`, `VerdictReached`,
  `CapEndsRound`, `PanicEnds`, `CrashRestarted` and `StopEnds` depend on fairness,
  which the prover does not treat.
* The properties of the violation runs.

## Not modelled, and simplifications

* Packets a handler sends to its own client are in Client only: elsewhere only
  broadcasts can hold up others.
* The byte order and framing of packets (`protocol.c`): a packet is sent and
  received whole. Two threads that send to one socket at the same time may
  interleave parts of large packets when the kernel's buffer is full; the code has
  no lock for it and the models do not show it.
* I/O errors other than a failed or impossible rename, a failed `pthread_create`,
  `fork` or `execv`: a record that cannot be read or written, a file of
  `data/master` written in part, a folder that cannot be opened.
* A crash of the server in the middle of a trade: `main` takes `data/` and
  `users.dat` as it finds them, and there is no recovery to model. Watchdog has the
  crash and the restart of the process.
* In Trade, Reset, Raid and Round every user has one session that is already logged
  in; Sessions is about how that can fail.
* Raid has no rounds: in the code, too, neither looks at the other. What a burn does to
  the commands it meets is in Trade and Round.
* A purchase and a sale by a player whose payoff or rumor is under way cannot be, since a
  handler does one command at a time; so Trade and Round each have the commands of one kind.
* Neighbouring calls are one step where nothing could be told apart: `SellCheck` is
  `sandbox_has`, `sandbox_read_doc` and `is_tag_frozen` for one document, of which only a
  raid's or reset's purge could come between the first two and makes either fail; `SpawnChoose`
  is `market_is_full` and `market_frozen_mask`, of which the first only gives up early.
* In Client: inventory, money, goal, chat, the glitch of a rumor, drawing, line
  editing, the player's own `/fake` commands; `GAME_OVER` stands for `VICTORY` as well, since
  both end the process. The event thread alone starts leaks and raids there.
* The ranking on the scoreboard, names of documents, headlines and amounts: prices
  and bounties are taken from small sets. A tag mask has up to three tags in the game;
  here any non-empty set.
* When a tick of the event thread does what: any order is allowed.
* Audio (library calls) and the Makefile.

## Plan

The modelling planned at the start is done, except for a module on torn records
and lost data after a crash, which would state properties the code does nothing
for. Of the passing runs' properties, those on safety are proved; those on liveness
stay with TLC.
