------------------------------- MODULE Client -------------------------------
(***************************************************************************)
(* One UI client (src/src/client/ui_client.c) at the end of its wire: the  *)
(* mode its screen is in, and the lists of offers and requests it keeps    *)
(* from the events it receives.                                            *)
(*                                                                         *)
(* The server's threads (src/src/server/server_main.c, events.c) appear    *)
(* with what they do to this client.  All of them change the board, the    *)
(* mask, the raid or the round under a lock and send afterwards, so that   *)
(* an actor is a set of packets it has still to send; the packets of       *)
(* different actors arrive in any order.  The socket gets broadcasts from  *)
(* accept on, before its login is answered.  Inventory, money, chat and    *)
(* drawing are left out; how a raid's verdict is found is in Raid, how a   *)
(* reset clears the server in Reset.                                       *)
(***************************************************************************)
EXTENDS Integers, FiniteSets, SequencesExt

CONSTANTS
    Tag,
    Item,           \* doc and NPC ids, drawn in ascending order
    Npc,            \* those of Item that are requests; the others are offers
    TagsOf,         \* Item -> its tags ({} for a request)
    SEEDS,          \* the items listed when the server or a round starts
    UI_MAX,         \* kind -> length of the client's list (32 and 16)
    WIRE_ROOM,      \* packets on their way at once
    EVENT_LIMIT     \* bound: things that happen on the server

ASSUME ClientAssumption ==
    /\ Npc \subseteq Item /\ SEEDS \subseteq Item /\ Item \cap Tag = {}
    /\ TagsOf \in [Item -> SUBSET Tag]
    /\ {WIRE_ROOM, EVENT_LIMIT} \subseteq Nat
    /\ UI_MAX \in [{"mkt", "npc"} -> Nat]
    /\ IsFiniteSet(SEEDS)
    /\ Cardinality(SEEDS \ Npc) <= UI_MAX["mkt"] /\ Cardinality(SEEDS \cap Npc) <= UI_MAX["npc"]

VARIABLES
    \* the server
    board,      \* items listed now
    frozen,     \* the mask
    fresh,      \* ids that have not been used
    sleepers,   \* tag -> recovery threads asleep
    arming,     \* tags whose leak is announced, and its recovery not started
    raid,       \* st: none, cast, armed, called off; code; waits: for this key
    ending,     \* the end of the round is being counted down
    at,         \* where the handler of this client and the resetting thread are
    busy,       \* actor -> packets it has still to send
    events,     \* (bound) number of events so far
    crossed,    \* (history) items and tags whose announcements have crossed
    coming,     \* (history) the lists as they will be when the wire is empty
    \* between the two
    wire, reqs, \* packets to the client; passcodes to the server
    \* the client
    mode,       \* login, normal, panic, round_end, gone (the process has ended)
    view,       \* mkt, npc: lists of entries; mask
    code,       \* panic_passcode
    overlaid    \* (history) something replaced the screen of the latest raid

server == <<board, frozen, fresh, sleepers, arming, raid, ending, at, events>>
client == <<mode, view, code, overlaid>>
cvars  == <<server, busy, crossed, coming, wire, reqs, client>>

Actor == {"event", "npc", "trader", "recovery", "timer", "reset", "handler"}
Kind(i) == IF i \in Npc THEN "npc" ELSE "mkt"
Listed(kind) == {i \in board : Kind(i) = kind}
Ids(list) == {e.id : e \in ToSet(list)}

PktSpawn(i) == [type |-> "SPAWN", id |-> i]
PktRemove(i) == [type |-> "REMOVE", id |-> i]
PktLeak(T) == [type |-> "NEWS_LEAK", tags |-> T]
PktRecover(t) == [type |-> "NEWS_RECOVER", tags |-> {t}]
PktRaid(n) == [type |-> "POLICE_RAID", code |-> n]
Plain(ty)  == [type |-> ty]

EmptyView == [mkt |-> <<>>, npc |-> <<>>, mask |-> {}]

\* The client connects to a server that runs, with tags frozen or not.
ClientInit ==
    /\ board = SEEDS
    /\ fresh = Item \ SEEDS
    /\ frozen \in SUBSET Tag
    /\ sleepers = [t \in Tag |-> IF t \in frozen THEN 1 ELSE 0]
    /\ arming = {} /\ crossed = {}
    /\ raid = [st |-> "none", code |-> 0, waits |-> FALSE]
    /\ ending = FALSE
    /\ at = [handler |-> "login", reset |-> "idle"]
    /\ busy = [a \in Actor |-> {}]
    /\ events = 0
    /\ wire = <<>> /\ reqs = <<>>
    /\ mode = "login"
    /\ view = EmptyView /\ coming = EmptyView
    /\ code = 0
    /\ overlaid = FALSE

-----------------------------------------------------------------------------
\* What a packet does to the lists.

Frozen(i, mask) == TagsOf[i] \cap mask # {}
Marked(list, mask) == [n \in DOMAIN list |-> [list[n] EXCEPT !.frozen = Frozen(list[n].id, mask)]]

\* Mutant: the list has no end.
Spawned_unbounded(v, i) ==
    [v EXCEPT ![Kind(i)] = Append(@, [id |-> i, frozen |-> Frozen(i, v.mask)])]

\* At the end, as long as there is room; whether the id is there already is not asked.
Spawned(v, i) ==
    IF Len(v[Kind(i)]) < UI_MAX[Kind(i)]
    THEN [v EXCEPT ![Kind(i)] = Append(@, [id |-> i, frozen |-> Frozen(i, v.mask)])]
    ELSE v

\* Mutant: the last entry is dropped, and does not take the removed one's place.
Removed_last(v, i) ==
    IF i \in Ids(v[Kind(i)]) THEN [v EXCEPT ![Kind(i)] = Front(@)] ELSE v

\* The first entry of the id goes, and the last one takes its place.
Removed(v, i) ==
    LET list == v[Kind(i)]
        n == SelectInSeq(list, LAMBDA e : e.id = i)
    IN  IF n = 0 THEN v
        ELSE [v EXCEPT ![Kind(i)] = Front([list EXCEPT ![n] = Last(list)])]

Refrozen(v, mask) == [v EXCEPT !.mask = mask, !.mkt = Marked(@, mask)]

Applied(v, p) ==
    CASE p.type = "SPAWN" -> Spawned(v, p.id)
      [] p.type = "REMOVE" -> Removed(v, p.id)
      [] p.type = "NEWS_LEAK" -> Refrozen(v, v.mask \cup p.tags)
      [] p.type = "NEWS_RECOVER" -> Refrozen(v, v.mask \ p.tags)
      [] p.type = "ROUND_RESET" -> EmptyView
      [] OTHER -> v

-----------------------------------------------------------------------------
\* Sending, by any actor.  What a packet is about, and when it crosses another.

About(p) ==
    CASE p.type \in {"SPAWN", "REMOVE"} -> {p.id}
      [] p.type \in {"NEWS_LEAK", "NEWS_RECOVER"} -> p.tags
      [] p.type = "ROUND_RESET" -> Item \cup Tag
      [] OTHER -> {}

\* q, of another actor, is still to come; the one order that does no harm is a listing
\* (or a reset) before the removal that has followed it.
Crosses(p, q, x) ==
    /\ x \in About(p) \cap About(q)
    /\ ~ (q.type = "REMOVE" /\ p.type \in {"SPAWN", "ROUND_RESET"} /\ x \notin board)

\* A listing also fails when the client still shows an item that has made room for it.
Unshown(p) ==
    IF p.type = "SPAWN" /\ Len(coming[Kind(p.id)]) >= UI_MAX[Kind(p.id)] THEN {p.id} ELSE {}

\* Nothing matters to a client that has gone.
Open == mode # "gone"

Send(a) ==
    /\ Open /\ Len(wire) < WIRE_ROOM
    /\ \E p \in busy[a] :
          /\ busy' = [busy EXCEPT ![a] = @ \ {p}]
          /\ wire' = Append(wire, p)
          /\ coming' = Applied(coming, p)
          /\ crossed' = (crossed \ IF p.type = "ROUND_RESET" THEN Item ELSE {})
                        \cup {x \in About(p) : \E b \in Actor \ {a} :
                                  \E q \in busy[b] : Crosses(p, q, x)}
                        \cup Unshown(p)
    /\ UNCHANGED <<server, reqs, client>>

\* An event: actor a, which has nothing else to do, will announce packet p.
EventIdle == arming = {} /\ raid.st # "cast"
Announce(a, p) ==
    /\ Open /\ events < EVENT_LIMIT
    /\ events' = events + 1
    /\ busy[a] = {}
    /\ a = "event" => EventIdle
    /\ busy' = [busy EXCEPT ![a] = {p}]
    /\ UNCHANGED <<coming, wire, reqs, client>>

-----------------------------------------------------------------------------
\* The board and the mask: event_spawn_market and event_do_npc_sequence, aging and
\* the handlers of other players, fire_public_leak and leak_recovery_thread.

ListNext(a, kind) ==
    \E i \in fresh :
        /\ Kind(i) = kind
        /\ \A j \in fresh : Kind(j) = kind => i <= j
        /\ Cardinality(Listed(kind)) < UI_MAX[kind]
        /\ board' = board \cup {i}
        /\ fresh' = fresh \ {i}
        /\ Announce(a, PktSpawn(i))
        /\ UNCHANGED <<frozen, sleepers, arming, raid, ending, at, crossed>>

Unlist(a, i) ==
    /\ i \in board
    /\ board' = board \ {i}
    /\ Announce(a, PktRemove(i))
    /\ UNCHANGED <<frozen, fresh, sleepers, arming, raid, ending, at, crossed>>

LeakTag(t) ==
    /\ t \in (UNION {TagsOf[i] : i \in board}) \ frozen
    /\ frozen' = frozen \cup {t}
    /\ arming' = {t}
    /\ Announce("event", PktLeak({t}))
    /\ UNCHANGED <<board, fresh, sleepers, raid, ending, at, crossed>>

\* The recovery thread starts; or it does not, and the tag is thawed without a word.
LeakArm(t) ==
    /\ Open /\ t \in arming /\ busy["event"] = {}
    /\ arming' = {}
    /\ \/ /\ sleepers' = [sleepers EXCEPT ![t] = @ + 1]
          /\ UNCHANGED <<frozen, crossed>>
       \/ /\ frozen' = frozen \ {t}
          /\ crossed' = crossed \cup {t}
          /\ UNCHANGED sleepers
    /\ UNCHANGED <<board, fresh, raid, ending, at, busy, events, coming, wire, reqs, client>>

Thaw(t) ==
    /\ sleepers[t] > 0
    /\ sleepers' = [sleepers EXCEPT ![t] = @ - 1]
    /\ frozen' = frozen \ {t}
    /\ Announce("recovery", PktRecover(t))
    /\ UNCHANGED <<board, fresh, arming, raid, ending, at, crossed>>

-----------------------------------------------------------------------------
\* The end of a round: scoreboard, reset, and the new board for everybody.

ShowScores(a) ==
    /\ ~ ending
    /\ ending' = TRUE
    /\ Announce(a, Plain("SCOREBOARD"))
    /\ UNCHANGED <<board, frozen, fresh, sleepers, arming, raid, at, crossed>>

ResetRound ==
    /\ ending /\ at.reset = "idle"
    /\ \A a \in Actor : Plain("SCOREBOARD") \notin busy[a]
    /\ board' = SEEDS
    /\ frozen' = {}
    /\ ending' = FALSE
    /\ at' = [at EXCEPT !.reset = "mkt"]
    /\ Announce("reset", Plain("ROUND_RESET"))
    /\ UNCHANGED <<fresh, sleepers, arming, raid, crossed>>

\* trigger_round_reset and client_handler list the board to the client(s), kind by kind.
After == [handler |-> [mkt |-> "npc", npc |-> "mask"], reset |-> [mkt |-> "npc", npc |-> "idle"]]

Snapshot(s, kind) ==
    /\ Open /\ at[s] = kind /\ busy[s] = {}
    /\ at' = [at EXCEPT ![s] = After[s][kind]]
    /\ busy' = [busy EXCEPT ![s] = {PktSpawn(i) : i \in Listed(kind)}]
    /\ crossed' = crossed \cup (Listed(kind) \cap Ids(coming[kind]))
    /\ UNCHANGED <<board, frozen, fresh, sleepers, arming, raid, ending, events,
                   coming, wire, reqs, client>>

-----------------------------------------------------------------------------
\* The login in client_handler: the key is registered, then the answer is sent, then
\* the lists and the mask.

HandlerStep(from, to, P) ==
    /\ Open /\ at.handler = from /\ busy["handler"] = {}
    /\ at' = [at EXCEPT !.handler = to]
    /\ busy' = [busy EXCEPT !["handler"] = P]
    /\ UNCHANGED <<board, frozen, fresh, sleepers, arming, ending, events,
                   crossed, coming, wire, client>>

Register  == HandlerStep("login", "named", {}) /\ UNCHANGED <<raid, reqs>>
LoginOk   == HandlerStep("named", "mkt", {Plain("LOGIN_OK")}) /\ UNCHANGED <<raid, reqs>>

SendMask ==
    /\ HandlerStep("mask", "ready", IF frozen = {} THEN {} ELSE {PktLeak(frozen)})
    /\ UNCHANGED <<raid, reqs>>

-----------------------------------------------------------------------------
\* A raid: fire_periodic_police_raid, periodic_raid_timeout_thread, and the handler's
\* handle_minigame_submit.

FireRaid ==
    /\ raid.st \in {"none", "called off"}
    /\ raid' = [st |-> "cast", code |-> raid.code + 1, waits |-> at.handler # "login"]
    /\ Announce("event", PktRaid(raid.code + 1))
    /\ UNCHANGED <<board, frozen, fresh, sleepers, arming, ending, at, crossed>>

RaidStep ==
    /\ Open
    /\ UNCHANGED <<board, frozen, fresh, sleepers, arming, ending, at, events,
                   crossed, coming, wire, reqs, client>>

RaidArm ==
    /\ raid.st = "cast" /\ busy["event"] = {}
    /\ \/ raid' = [raid EXCEPT !.st = "armed"]
       \/ raid' = [raid EXCEPT !.st = "called off", !.waits = FALSE]
    /\ UNCHANGED busy
    /\ RaidStep

RaidTimeout ==
    /\ raid.st = "armed" /\ busy["timer"] = {}
    /\ raid' = [raid EXCEPT !.st = "none", !.waits = FALSE]
    /\ busy' = [busy EXCEPT !["timer"] = IF raid.waits THEN {Plain("GAME_OVER")} ELSE {}]
    /\ RaidStep

\* An answer is refused when no raid waits for the key, or its deadline has passed.
HandleSubmit ==
    /\ reqs # <<>>
    /\ reqs' = Tail(reqs)
    /\ \/ /\ raid.waits
          /\ raid' = [raid EXCEPT !.waits = FALSE]
          /\ HandlerStep("ready", "ready",
                {Plain(IF Head(reqs) = raid.code THEN "MINIGAME_OK" ELSE "GAME_OVER")})
       \/ /\ HandlerStep("ready", "ready", {})
          /\ UNCHANGED raid

-----------------------------------------------------------------------------
\* The client's main loop: one packet, or one line of input.

Receive(types) ==
    /\ wire # <<>> /\ Head(wire).type \in types
    /\ wire' = Tail(wire)
    /\ UNCHANGED <<server, busy, crossed, coming, reqs>>

\* The first packet has to be the answer to the login.
RecvFirst ==
    /\ mode = "login"
    /\ Receive({Head(wire).type})
    /\ mode' = IF Head(wire).type = "LOGIN_OK" THEN "normal" ELSE "gone"
    /\ UNCHANGED <<view, code, overlaid>>

InLoop == mode \in {"normal", "panic", "round_end"}

RecvList ==
    /\ InLoop
    /\ Receive({"SPAWN", "REMOVE", "NEWS_LEAK", "NEWS_RECOVER"})
    /\ view' = Applied(view, Head(wire))
    /\ UNCHANGED <<mode, code, overlaid>>

\* Mutant: the passcode on the screen is that of an earlier raid.
RecvRaid_old_code ==
    /\ InLoop
    /\ Receive({"POLICE_RAID"})
    /\ mode' = "panic"
    /\ code' = IF code = 0 THEN Head(wire).code ELSE code
    /\ overlaid' = FALSE
    /\ UNCHANGED view

RecvRaid ==
    /\ InLoop
    /\ Receive({"POLICE_RAID"})
    /\ mode' = "panic"
    /\ code' = Head(wire).code
    /\ overlaid' = FALSE
    /\ UNCHANGED view

RecvOk ==
    /\ InLoop
    /\ Receive({"MINIGAME_OK"})
    /\ mode' = "normal"
    /\ overlaid' = TRUE
    /\ UNCHANGED <<view, code>>

RecvScores ==
    /\ InLoop
    /\ Receive({"SCOREBOARD"})
    /\ mode' = "round_end"
    /\ overlaid' = TRUE
    /\ UNCHANGED <<view, code>>

RecvReset ==
    /\ InLoop
    /\ Receive({"ROUND_RESET"})
    /\ mode' = "normal"
    /\ view' = Applied(view, Head(wire))
    /\ overlaid' = TRUE
    /\ UNCHANGED code

\* Mutant: every GAME_OVER is taken for a reset of the round.
RecvGameOver_as_reset ==
    /\ InLoop
    /\ Receive({"GAME_OVER"})
    /\ UNCHANGED <<mode, view, code, overlaid>>

RecvGameOver ==
    /\ InLoop
    /\ Receive({"GAME_OVER"})
    /\ mode' = "gone"
    /\ UNCHANGED <<view, code, overlaid>>

\* Enter during a raid sends the line, right or wrong; no other mode sends one.
Answer(right) ==
    /\ mode = "panic" /\ reqs = <<>>
    /\ reqs' = <<IF right THEN code ELSE 0>>
    /\ UNCHANGED <<server, busy, crossed, coming, wire, client>>

\* /quit, in any mode.
Quit ==
    /\ InLoop
    /\ mode' = "gone"
    /\ UNCHANGED <<server, busy, crossed, coming, wire, reqs, view, code, overlaid>>

-----------------------------------------------------------------------------

Recv == RecvFirst \/ RecvList \/ RecvRaid \/ RecvOk \/ RecvScores \/ RecvReset \/ RecvGameOver
Login == Register \/ LoginOk \/ SendMask
Sync(s) == \E kind \in {"mkt", "npc"} : Snapshot(s, kind)
Handler == Login \/ Sync("handler") \/ HandleSubmit
RaidThreads == RaidArm \/ RaidTimeout

BoardEvent ==
    \/ ListNext("event", "mkt") \/ ListNext("npc", "npc")
    \/ \E a \in {"event", "trader"}, i \in Item : Unlist(a, i)
    \/ \E t \in Tag : LeakTag(t) \/ LeakArm(t) \/ Thaw(t)

RoundEvent == ShowScores("event") \/ ShowScores("trader") \/ ResetRound \/ Sync("reset")

ClientNext ==
    \/ Recv \/ Quit \/ \E right \in BOOLEAN : Answer(right)
    \/ Handler \/ \E a \in Actor : Send(a)
    \/ BoardEvent \/ RoundEvent \/ FireRaid \/ RaidThreads

\* The client reads, the server's threads run, and the timer's sleep ends.
ClientSpec ==
    /\ ClientInit /\ [][ClientNext]_cvars
    /\ WF_cvars(Recv) /\ WF_cvars(Handler) /\ WF_cvars(RaidThreads)
    /\ \A a \in {"event", "timer", "handler"} : WF_cvars(Send(a))

-----------------------------------------------------------------------------

Entry == [id : Item, frozen : BOOLEAN]

\* Type invariant of the client; its lists stay within their arrays.
ClientTypeOK ==
    /\ mode \in {"login", "normal", "panic", "round_end", "gone"}
    /\ \A kind \in {"mkt", "npc"} :
          /\ ToSet(view[kind]) \subseteq {e \in Entry : Kind(e.id) = kind}
          /\ Len(view[kind]) <= UI_MAX[kind]
    /\ view.mask \subseteq Tag
    /\ board \subseteq Item /\ frozen \subseteq Tag /\ crossed \subseteq Item \cup Tag
    /\ \A kind \in {"mkt", "npc"} : Cardinality(Listed(kind)) <= UI_MAX[kind]

\* Nobody has anything left to send to a client that has logged in.
Settled ==
    /\ InLoop /\ wire = <<>>
    /\ \A a \in Actor : busy[a] = {}
    /\ at.handler = "ready" /\ at.reset = "idle" /\ arming = {}

Times(i) == Cardinality({n \in DOMAIN view[Kind(i)] : view[Kind(i)][n].id = i})

\* Once everything has been delivered the client lists what the server lists, each
\* item once and frozen as on the server, whatever came during its login, a leak or a
\* reset; the only items and tags it may have wrong are those whose announcements
\* were sent in another order than they had happened in, twice, to a full list, or
\* (a leak that was called off) not at all.
MirrorSettles ==
    Settled =>
        /\ \A i \in Item \ crossed : Times(i) = IF i \in board THEN 1 ELSE 0
        /\ \A e \in ToSet(view.mkt) :
              TagsOf[e.id] \cap crossed = {} => e.frozen = Frozen(e.id, frozen)

\* A player whose answer the server waits for has the raid's screen and its passcode
\* in front of him, unless a scoreboard, a reset or the answer to an earlier raid has
\* replaced it: then he cannot answer, and will be burned.
CanAnswer ==
    (/\ raid.waits /\ InLoop /\ wire = <<>>
     /\ PktRaid(raid.code) \notin busy["event"])
        => overlaid \/ (mode = "panic" /\ code = raid.code)

\* The screen of a raid that waits for the player goes away in the end, by his answer
\* or by his ruin; only a raid that is called off leaves it there.
PanicEnds ==
    (mode = "panic" /\ raid.waits) ~> (mode # "panic" \/ raid.st = "called off")
=============================================================================
