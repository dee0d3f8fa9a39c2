---------------------------- MODULE ClientProofs ----------------------------
(***************************************************************************)
(* For any number of items, tags, packets on the wire and events: the      *)
(* client's lists stay within their arrays, whatever it is sent; a player  *)
(* whose answer a raid waits for sees that raid's passcode, unless         *)
(* something has replaced the screen; and when everything has been         *)
(* delivered the lists are those of the server, but for the items and tags *)
(* whose announcements have crossed.                                       *)
(***************************************************************************)
EXTENDS Client, TLAPS, SequenceTheorems, FiniteSetTheorems

-----------------------------------------------------------------------------
\* Types.

Kinds == {"mkt", "npc"}
EntryOf(kind) == {e \in Entry : Kind(e.id) = kind}

View == [mkt : Seq(EntryOf("mkt")), npc : Seq(EntryOf("npc")), mask : SUBSET Tag]

\* The lists fit in their arrays.
Fits(v) == \A kind \in Kinds : Len(v[kind]) <= UI_MAX[kind]

Packet ==
    [type : {"SPAWN", "REMOVE"}, id : Item]
    \cup [type : {"NEWS_LEAK", "NEWS_RECOVER"}, tags : SUBSET Tag]
    \cup [type : {"POLICE_RAID"}, code : Nat]
    \cup [type : {"LOGIN_OK", "SCOREBOARD", "ROUND_RESET", "MINIGAME_OK", "GAME_OVER"}]

-----------------------------------------------------------------------------
\* What a packet does to the lists.

LEMMA KindIs == \A i : Kind(i) \in Kinds
BY DEF Kind, Kinds

\* A list is replaced by another of the same kind.
LEMMA ListPut ==
    ASSUME NEW v \in View, Fits(v), NEW kind \in Kinds, NEW s \in Seq(EntryOf(kind)),
           Len(s) <= UI_MAX[kind]
    PROVE  [v EXCEPT ![kind] = s] \in View /\ Fits([v EXCEPT ![kind] = s])
<1>1. CASE kind = "mkt"
  <2>1. [v EXCEPT !["mkt"] = s] \in View
    BY <1>1 DEF View
  <2>2. [v EXCEPT !["mkt"] = s]["mkt"] = s /\ [v EXCEPT !["mkt"] = s]["npc"] = v["npc"]
    BY <1>1 DEF View
  <2>3. QED
    BY <1>1, <2>1, <2>2 DEF Fits, Kinds
<1>2. CASE kind = "npc"
  <2>1. [v EXCEPT !["npc"] = s] \in View
    BY <1>2 DEF View
  <2>2. [v EXCEPT !["npc"] = s]["npc"] = s /\ [v EXCEPT !["npc"] = s]["mkt"] = v["mkt"]
    BY <1>2 DEF View
  <2>3. QED
    BY <1>2, <2>1, <2>2 DEF Fits, Kinds
<1>3. QED
  BY <1>1, <1>2 DEF Kinds

LEMMA ListGet ==
    ASSUME NEW v \in View, NEW kind \in Kinds
    PROVE  v[kind] \in Seq(EntryOf(kind))
BY DEF View, Kinds

LEMMA SpawnedType ==
    ASSUME NEW v \in View, Fits(v), NEW i \in Item
    PROVE  Spawned(v, i) \in View /\ Fits(Spawned(v, i))
<1> DEFINE k == Kind(i)
           e == [id |-> i, frozen |-> Frozen(i, v.mask)]
           s == Append(v[k], e)
<1>1. k \in Kinds /\ v[k] \in Seq(EntryOf(k))
  BY KindIs, ListGet
<1>2. e \in EntryOf(k)
  BY DEF EntryOf, Entry, Frozen
<1>3. s \in Seq(EntryOf(k)) /\ Len(s) = Len(v[k]) + 1
  BY <1>1, <1>2, AppendProperties
<1>4. UI_MAX[k] \in Nat /\ Len(v[k]) \in Nat
  BY <1>1, ClientAssumption, LenProperties DEF Kinds
<1>5. CASE Len(v[k]) < UI_MAX[k]
  <2>1. Len(s) <= UI_MAX[k]
    BY <1>3, <1>4, <1>5
  <2>2. Spawned(v, i) = [v EXCEPT ![k] = s]
    BY <1>5 DEF Spawned
  <2> HIDE DEF k, s
  <2>3. QED
    BY <1>1, <1>3, <2>1, <2>2, ListPut
<1>6. CASE ~ (Len(v[k]) < UI_MAX[k])
  BY <1>6 DEF Spawned
<1>7. QED
  BY <1>5, <1>6

LEMMA SameRange ==
    ASSUME NEW m \in Nat, NEW n \in Nat, 1 .. m = 1 .. n
    PROVE  m = n
<1>1. CASE m < n
  <2>1. n \in 1 .. n /\ n \notin 1 .. m
    BY <1>1
  <2>2. QED
    BY <2>1
<1>2. CASE n < m
  <2>1. m \in 1 .. m /\ m \notin 1 .. n
    BY <1>2
  <2>2. QED
    BY <2>1
<1>3. QED
  BY <1>1, <1>2

\* The last entry takes the place of another, and the list is one shorter.
LEMMA DropOne ==
    ASSUME NEW S, NEW s \in Seq(S), Len(s) > 0, NEW n
    PROVE  /\ Front([s EXCEPT ![n] = Last(s)]) \in Seq(S)
           /\ Len(Front([s EXCEPT ![n] = Last(s)])) = Len(s) - 1
<1> DEFINE put == [s EXCEPT ![n] = Last(s)]
<1>1. Len(s) \in Nat /\ s \in [1 .. Len(s) -> S] /\ Last(s) \in S
  BY LenProperties, ElementOfSeq DEF Last
<1>2. put \in [1 .. Len(s) -> S]
  BY <1>1
<1>3. put \in Seq(S)
  BY <1>1, <1>2, SeqDef
<1>4. Len(put) = Len(s)
  <2>1. DOMAIN put = 1 .. Len(put) /\ Len(put) \in Nat
    BY <1>3, LenProperties
  <2>2. DOMAIN put = 1 .. Len(s)
    BY <1>2
  <2> HIDE DEF put
  <2>3. QED
    BY <1>1, <2>1, <2>2, SameRange
<1> DEFINE m == Len(s) - 1
<1>5. m \in Nat /\ \A i \in 1 .. m : put[i] \in S
  BY <1>1, <1>2
<1>6. SubSeq(put, 1, m) \in Seq(S) /\ Len(SubSeq(put, 1, m)) = m
  <2> HIDE DEF put, m
  <2>1. SubSeq(put, 1, m) \in Seq(S) /\ Len(SubSeq(put, 1, m)) = IF 1 <= m THEN m - 1 + 1 ELSE 0
    BY <1>5, SubSeqProperties
  <2>2. QED
    BY <1>5, <2>1
<1>7. Front(put) = SubSeq(put, 1, m)
  BY <1>4 DEF Front
<1>8. QED
  BY <1>6, <1>7

LEMMA RemovedType ==
    ASSUME NEW v \in View, Fits(v), NEW i \in Item
    PROVE  Removed(v, i) \in View /\ Fits(Removed(v, i))
<1> DEFINE k == Kind(i)
           list == v[k]
           n == SelectInSeq(list, LAMBDA e : e.id = i)
           short == Front([list EXCEPT ![n] = Last(list)])
<1>1. k \in Kinds /\ list \in Seq(EntryOf(k))
  BY KindIs, ListGet
<1>2. CASE n = 0
  BY <1>2 DEF Removed
<1>3. CASE n # 0
  <2>1. {j \in 1 .. Len(list) : list[j].id = i} # {}
    BY <1>3 DEF SelectInSeq
  <2>2. Len(list) \in Nat /\ Len(list) > 0
    BY <1>1, <2>1, LenProperties
  <2>3. UI_MAX[k] \in Nat /\ Len(list) <= UI_MAX[k]
    BY <1>1, ClientAssumption DEF Fits, Kinds
  <2>4. Removed(v, i) = [v EXCEPT ![k] = short]
    BY <1>3 DEF Removed
  <2> HIDE DEF k, list, n
  <2>5. short \in Seq(EntryOf(k)) /\ Len(short) = Len(list) - 1
    BY <1>1, <2>2, DropOne
  <2> HIDE DEF short
  <2>6. Len(short) <= UI_MAX[k]
    BY <2>2, <2>3, <2>5
  <2>7. QED
    BY <1>1, <2>4, <2>5, <2>6, ListPut
<1>4. QED
  BY <1>2, <1>3

LEMMA RefrozenType ==
    ASSUME NEW v \in View, Fits(v), NEW mask \in SUBSET Tag
    PROVE  Refrozen(v, mask) \in View /\ Fits(Refrozen(v, mask))
<1> DEFINE list == v.mkt
           new == Marked(list, mask)
<1>1. list \in Seq(EntryOf("mkt")) /\ Len(list) <= UI_MAX["mkt"]
  BY DEF View, Fits, Kinds
<1>2. Len(list) \in Nat /\ DOMAIN list = 1 .. Len(list)
      /\ \A j \in DOMAIN list : list[j] \in EntryOf("mkt")
  BY <1>1, LenProperties, ElementOfSeq
<1>3. new \in [1 .. Len(list) -> EntryOf("mkt")]
  <2>1. ASSUME NEW e \in EntryOf("mkt")
        PROVE  [e EXCEPT !.frozen = Frozen(e.id, mask)] \in EntryOf("mkt")
    BY DEF EntryOf, Entry, Frozen
  <2>2. QED
    BY <1>2, <2>1 DEF Marked
<1>4. new \in Seq(EntryOf("mkt")) /\ Len(new) = Len(list)
  <2> HIDE DEF new, list
  <2>1. new \in Seq(EntryOf("mkt"))
    BY <1>2, <1>3, SeqDef
  <2>2. DOMAIN new = 1 .. Len(new) /\ Len(new) \in Nat /\ DOMAIN new = 1 .. Len(list)
    BY <1>3, <2>1, LenProperties
  <2>3. QED
    BY <1>2, <2>1, <2>2, SameRange
<1>5. Refrozen(v, mask) = [v EXCEPT !.mask = mask, !.mkt = new]
  BY DEF Refrozen
<1> DEFINE w == [v EXCEPT !.mask = mask, !.mkt = new]
<1>6. w \in View /\ w["mkt"] = new /\ w["npc"] = v["npc"]
  <2> HIDE DEF new
  <2>1. QED
    BY <1>4 DEF View
<1>7. Fits(w)
  BY <1>1, <1>4, <1>6 DEF Fits, Kinds
<1>8. QED
  BY <1>5, <1>6, <1>7

LEMMA PacketForms ==
    /\ \A i \in Item : PktSpawn(i) \in Packet /\ PktRemove(i) \in Packet
    /\ \A T \in SUBSET Tag : PktLeak(T) \in Packet
    /\ \A t \in Tag : PktRecover(t) \in Packet
    /\ \A n \in Nat : PktRaid(n) \in Packet
    /\ \A ty \in {"LOGIN_OK", "SCOREBOARD", "ROUND_RESET", "MINIGAME_OK", "GAME_OVER"} :
          Plain(ty) \in Packet
    /\ \A q \in Packet :
          /\ q.type \in {"SPAWN", "REMOVE"} => q.id \in Item
          /\ q.type \in {"NEWS_LEAK", "NEWS_RECOVER"} => q.tags \in SUBSET Tag
          /\ q.type = "POLICE_RAID" => q.code \in Nat /\ q = PktRaid(q.code)
BY DEF Packet, PktSpawn, PktRemove, PktLeak, PktRecover, PktRaid, Plain

LEMMA EmptyViewType == EmptyView \in View /\ Fits(EmptyView)
<1>1. EmptyView \in View
  BY DEF EmptyView, View
<1>2. EmptyView["mkt"] = <<>> /\ EmptyView["npc"] = <<>>
  BY DEF EmptyView
<1>3. Len(<<>>) = 0 /\ \A kind \in Kinds : UI_MAX[kind] \in Nat
  BY ClientAssumption DEF Kinds
<1>4. QED
  BY <1>1, <1>2, <1>3 DEF Fits, Kinds

LEMMA AppliedType ==
    ASSUME NEW v \in View, Fits(v), NEW p \in Packet
    PROVE  Applied(v, p) \in View /\ Fits(Applied(v, p))
<1>1. CASE p.type = "SPAWN"
  BY <1>1, PacketForms, SpawnedType DEF Applied
<1>2. CASE p.type = "REMOVE"
  BY <1>2, PacketForms, RemovedType DEF Applied
<1>3. CASE p.type \in {"NEWS_LEAK", "NEWS_RECOVER"}
  <2>1. p.tags \in SUBSET Tag /\ v.mask \in SUBSET Tag
    BY <1>3, PacketForms DEF View
  <2>2. v.mask \cup p.tags \in SUBSET Tag /\ v.mask \ p.tags \in SUBSET Tag
    BY <2>1
  <2>3. \/ Applied(v, p) = Refrozen(v, v.mask \cup p.tags)
        \/ Applied(v, p) = Refrozen(v, v.mask \ p.tags)
    BY <1>3 DEF Applied
  <2>4. QED
    BY <2>2, <2>3, RefrozenType
<1>4. CASE p.type = "ROUND_RESET"
  BY <1>4, EmptyViewType DEF Applied
<1>5. CASE p.type \notin {"SPAWN", "REMOVE", "NEWS_LEAK", "NEWS_RECOVER", "ROUND_RESET"}
  BY <1>5 DEF Applied
<1>6. QED
  BY <1>1, <1>2, <1>3, <1>4, <1>5

-----------------------------------------------------------------------------
\* What a step may do to the packets.

RaidStates == {"none", "cast", "armed", "called off"}
RaidRecord == [st : RaidStates, code : Nat, waits : BOOLEAN]

ScreenTypes ==
    /\ mode \in {"login", "normal", "panic", "round_end", "gone"}
    /\ view \in View /\ Fits(view)

WireTypes ==
    /\ busy \in [Actor -> SUBSET Packet]
    /\ wire \in Seq(Packet)
    /\ raid \in RaidRecord

\* The board of the server holds no more than its arrays, which are as long as the
\* client's lists.
BoardFits(B) == \A kind \in Kinds : Cardinality({i \in B : Kind(i) = kind}) <= UI_MAX[kind]

BoardTypes ==
    /\ board \subseteq Item /\ IsFiniteSet(board) /\ BoardFits(board)
    /\ fresh \subseteq Item /\ frozen \subseteq Tag /\ crossed \subseteq Item \cup Tag

Types == ScreenTypes /\ WireTypes /\ BoardTypes

IsRaid(p) == p.type = "POLICE_RAID"

\* The raid goes on or ends; no other takes its place.
RaidOn ==
    /\ raid' \in RaidRecord /\ raid'.code = raid.code /\ (raid'.waits => raid.waits)

ScreenSame == UNCHANGED <<mode, code, overlaid>>

\* The client receives, an actor sends, or has something to send.
Took ==
    /\ mode # "gone" /\ wire # <<>> /\ wire' = Tail(wire) /\ UNCHANGED <<busy, raid>>
    /\ IsRaid(Head(wire)) => mode' = "gone" \/ (mode' = "panic" /\ code' = Head(wire).code)
    /\ ~ IsRaid(Head(wire)) =>
          \/ mode' = "gone" \/ overlaid' = TRUE
          \/ UNCHANGED <<code, overlaid>> /\ (mode' = mode \/ mode = "login")

Sent(a, p) ==
    /\ p \in busy[a] /\ busy' = [busy EXCEPT ![a] = @ \ {p}] /\ wire' = Append(wire, p)
    /\ UNCHANGED raid /\ ScreenSame

Queued(a, P) ==
    /\ busy[a] = {} /\ busy' = [busy EXCEPT ![a] = P] /\ UNCHANGED wire
    /\ P \subseteq Packet /\ \A p \in P : ~ IsRaid(p)
    /\ RaidOn /\ ScreenSame

\* Nothing of the kind.
Rested ==
    /\ UNCHANGED <<busy, wire>> /\ RaidOn
    /\ ScreenSame \/ mode' = "gone"

Fired ==
    /\ busy["event"] = {} /\ busy' = [busy EXCEPT !["event"] = {PktRaid(raid.code + 1)}]
    /\ UNCHANGED wire /\ ScreenSame
    /\ raid' \in RaidRecord /\ raid'.code = raid.code + 1

PacketStep ==
    \/ Took \/ Rested \/ Fired
    \/ \E a \in Actor : (\E p : Sent(a, p)) \/ (\E P : Queued(a, P))

LEMMA StatesOfRaid ==
    "none" \in RaidStates /\ "cast" \in RaidStates /\ "armed" \in RaidStates
    /\ "called off" \in RaidStates
BY Zenon DEF RaidStates

LEMMA RaidStays ==
    ASSUME WireTypes, UNCHANGED raid
    PROVE  RaidOn
BY DEF WireTypes, RaidOn

LEMMA NoRaid ==
    /\ \A i : ~ IsRaid(PktSpawn(i)) /\ ~ IsRaid(PktRemove(i))
    /\ \A T : ~ IsRaid(PktLeak(T)) /\ ~ IsRaid(PktRecover(T))
    /\ \A ty : ty # "POLICE_RAID" => ~ IsRaid(Plain(ty))
BY DEF IsRaid, PktSpawn, PktRemove, PktLeak, PktRecover, Plain

LEMMA RecvPackets ==
    ASSUME WireTypes, Recv
    PROVE  Took
<1>1. CASE RecvFirst
  BY <1>1 DEF RecvFirst, InLoop, Receive, Took, server, IsRaid
<1>2. CASE RecvList
  BY <1>2 DEF RecvList, InLoop, Receive, Took, server, IsRaid
<1>3. CASE RecvRaid
  BY <1>3 DEF RecvRaid, InLoop, Receive, Took, server, IsRaid
<1>4. CASE RecvOk \/ RecvScores \/ RecvReset \/ RecvGameOver
  BY <1>4 DEF RecvOk, RecvScores, RecvReset, RecvGameOver, InLoop, Receive, Took, server, IsRaid
<1>5. QED
  BY <1>1, <1>2, <1>3, <1>4 DEF Recv

\* An event that is not a raid.
LEMMA AnnouncePackets ==
    ASSUME WireTypes, NEW a \in Actor, NEW p \in Packet, ~ IsRaid(p), Announce(a, p),
           UNCHANGED raid
    PROVE  Queued(a, {p})
<1>1. RaidOn
  BY RaidStays
<1>2. QED
  BY <1>1 DEF Announce, Queued, ScreenSame, client

LEMMA BoardPackets ==
    ASSUME Types, BoardEvent
    PROVE  PacketStep
<1>1. WireTypes /\ board \subseteq Item /\ fresh \subseteq Item
  BY DEF Types, BoardTypes
<1>2. ASSUME NEW a \in {"event", "npc"}, NEW kind, ListNext(a, kind)
      PROVE  PacketStep
  <2>1. PICK i \in Item : Announce(a, PktSpawn(i)) /\ UNCHANGED raid
    BY <1>1, <1>2 DEF ListNext
  <2>2. Queued(a, {PktSpawn(i)})
    BY <1>1, <2>1, PacketForms, NoRaid, AnnouncePackets DEF Actor
  <2>3. QED
    BY <2>2 DEF PacketStep, Actor
<1>3. ASSUME NEW a \in {"event", "trader"}, NEW i \in Item, Unlist(a, i)
      PROVE  PacketStep
  <2>1. Queued(a, {PktRemove(i)})
    BY <1>1, <1>3, PacketForms, NoRaid, AnnouncePackets DEF Unlist, Actor
  <2>2. QED
    BY <2>1 DEF PacketStep, Actor
<1>4. ASSUME NEW t \in Tag, LeakTag(t)
      PROVE  PacketStep
  <2>1. Queued("event", {PktLeak({t})})
    BY <1>1, <1>4, PacketForms, NoRaid, AnnouncePackets DEF LeakTag, Actor
  <2>2. QED
    BY <2>1 DEF PacketStep, Actor
<1>5. ASSUME NEW t \in Tag, LeakArm(t)
      PROVE  PacketStep
  <2>1. Rested
    BY <1>1, <1>5, RaidStays DEF LeakArm, Rested, ScreenSame, client
  <2>2. QED
    BY <2>1 DEF PacketStep
<1>6. ASSUME NEW t \in Tag, Thaw(t)
      PROVE  PacketStep
  <2>1. Queued("recovery", {PktRecover(t)})
    BY <1>1, <1>6, PacketForms, NoRaid, AnnouncePackets DEF Thaw, Actor
  <2>2. QED
    BY <2>1 DEF PacketStep, Actor
<1>7. QED
  BY <1>2, <1>3, <1>4, <1>5, <1>6 DEF BoardEvent

LEMMA SnapshotPackets ==
    ASSUME Types, NEW who \in {"handler", "reset"}, Sync(who)
    PROVE  PacketStep
<1>1. WireTypes /\ board \subseteq Item
  BY DEF Types, BoardTypes
<1>2. PICK kind : Snapshot(who, kind)
  BY DEF Sync
<1>3. PICK P : P = {PktSpawn(i) : i \in Listed(kind)}
  OBVIOUS
<1>4. P \subseteq Packet /\ \A p \in P : ~ IsRaid(p)
  <2>1. Listed(kind) \subseteq Item
    BY <1>1 DEF Listed
  <2>2. QED
    BY <1>3, <2>1, PacketForms, NoRaid
<1>5. RaidOn
  BY <1>1, <1>2, RaidStays DEF Snapshot
<1>6. Queued(who, P)
  BY <1>2, <1>3, <1>4, <1>5 DEF Snapshot, Queued, ScreenSame, client
<1>7. QED
  BY <1>6 DEF PacketStep, Actor

LEMMA RoundPackets ==
    ASSUME Types, RoundEvent
    PROVE  PacketStep
<1>1. WireTypes
  BY DEF Types
<1>2. ASSUME NEW a \in {"event", "trader"}, ShowScores(a)
      PROVE  PacketStep
  <2>1. Queued(a, {Plain("SCOREBOARD")})
    BY <1>1, <1>2, PacketForms, NoRaid, AnnouncePackets DEF ShowScores, Actor
  <2>2. QED
    BY <2>1 DEF PacketStep, Actor
<1>3. CASE ResetRound
  <2>1. Queued("reset", {Plain("ROUND_RESET")})
    BY <1>1, <1>3, PacketForms, NoRaid, AnnouncePackets DEF ResetRound, Actor
  <2>2. QED
    BY <2>1 DEF PacketStep, Actor
<1>4. QED
  BY <1>2, <1>3, SnapshotPackets DEF RoundEvent

LEMMA HandlerPackets ==
    ASSUME Types, Login \/ HandleSubmit
    PROVE  PacketStep
<1>1. WireTypes /\ frozen \subseteq Tag
  BY DEF Types, BoardTypes
<1>2. ASSUME NEW from, NEW to, NEW P, HandlerStep(from, to, P), RaidOn,
             P \subseteq Packet, \A p \in P : ~ IsRaid(p)
      PROVE  PacketStep
  <2>1. Queued("handler", P)
    BY <1>2 DEF HandlerStep, Queued, ScreenSame, client
  <2>2. QED
    BY <2>1 DEF PacketStep, Actor
<1>3. CASE Register \/ LoginOk
  BY <1>1, <1>2, <1>3, RaidStays, PacketForms, NoRaid DEF Register, LoginOk
<1>4. CASE SendMask
  <2>1. PICK P : P = IF frozen = {} THEN {} ELSE {PktLeak(frozen)}
    OBVIOUS
  <2>2. P \subseteq Packet /\ \A p \in P : ~ IsRaid(p)
    BY <1>1, <2>1, PacketForms, NoRaid
  <2>3. HandlerStep("mask", "ready", P) /\ RaidOn
    BY <1>1, <1>4, <2>1, RaidStays DEF SendMask
  <2>4. QED
    BY <1>2, <2>2, <2>3
<1>5. CASE HandleSubmit
  <2>1. CASE /\ raid' = [raid EXCEPT !.waits = FALSE]
             /\ \E ty \in {"MINIGAME_OK", "GAME_OVER"} :
                   HandlerStep("ready", "ready", {Plain(ty)})
    <3>1. PICK ty \in {"MINIGAME_OK", "GAME_OVER"} : HandlerStep("ready", "ready", {Plain(ty)})
      BY <2>1
    <3>2. RaidOn
      BY <1>1, <2>1 DEF RaidOn, WireTypes, RaidRecord
    <3>3. {Plain(ty)} \subseteq Packet /\ \A p \in {Plain(ty)} : ~ IsRaid(p)
      BY PacketForms, NoRaid
    <3>4. QED
      BY <1>2, <3>1, <3>2, <3>3
  <2>2. CASE HandlerStep("ready", "ready", {}) /\ UNCHANGED raid
    BY <1>1, <1>2, <2>2, RaidStays
  <2>3. QED
    BY <1>5, <2>1, <2>2 DEF HandleSubmit
<1>6. QED
  BY <1>3, <1>4, <1>5 DEF Login

LEMMA RaidPackets ==
    ASSUME Types, FireRaid \/ RaidThreads
    PROVE  PacketStep
<1>1. WireTypes /\ raid \in RaidRecord
  BY DEF Types, WireTypes
<1>2. CASE FireRaid
  <2>1. raid' = [st |-> "cast", code |-> raid.code + 1, waits |-> at.handler # "login"]
    BY <1>2 DEF FireRaid
  <2>2. raid.code + 1 \in Nat
    BY <1>1 DEF RaidRecord
  <2>3. raid' \in RaidRecord /\ raid'.code = raid.code + 1
    <3>1. "cast" \in RaidStates
      BY StatesOfRaid, Zenon
    <3>2. QED
      BY <2>1, <2>2, <3>1 DEF RaidRecord
  <2>4. Fired
    BY <1>2, <2>3 DEF FireRaid, Announce, Fired, ScreenSame, client
  <2>5. QED
    BY <2>4 DEF PacketStep
<1>3. CASE RaidArm
  <2>1. \E to \in RaidStates : \/ raid' = [raid EXCEPT !.st = to]
                               \/ raid' = [raid EXCEPT !.st = to, !.waits = FALSE]
    BY <1>3, StatesOfRaid, Zenon DEF RaidArm
  <2>2. RaidOn
    BY <1>1, <2>1 DEF RaidOn, RaidRecord
  <2>3. Rested
    BY <1>3, <2>2, Zenon DEF RaidArm, RaidStep, Rested, ScreenSame, client
  <2>4. QED
    BY <2>3 DEF PacketStep
<1>4. CASE RaidTimeout
  <2>1. RaidOn
    <3>1. "none" \in RaidStates
      BY StatesOfRaid, Zenon
    <3>2. QED
      BY <1>1, <1>4, <3>1 DEF RaidTimeout, RaidOn, RaidRecord
  <2>2. PICK P : P = IF raid.waits THEN {Plain("GAME_OVER")} ELSE {}
    OBVIOUS
  <2>3. P \subseteq Packet /\ \A p \in P : ~ IsRaid(p)
    BY <2>2, PacketForms, NoRaid
  <2>4. Queued("timer", P)
    BY <1>4, <2>1, <2>2, <2>3 DEF RaidTimeout, RaidStep, Queued, ScreenSame, client
  <2>5. QED
    BY <2>4 DEF PacketStep, Actor
<1>5. QED
  BY <1>2, <1>3, <1>4 DEF RaidThreads

LEMMA StepPackets ==
    ASSUME Types, [ClientNext]_cvars
    PROVE  PacketStep
<1>1. WireTypes
  BY DEF Types
<1>2. CASE Recv
  BY <1>1, <1>2, RecvPackets DEF PacketStep
<1>3. CASE Quit \/ (\E right \in BOOLEAN : Answer(right)) \/ UNCHANGED cvars
  <2>1. UNCHANGED <<busy, wire, raid>> /\ (ScreenSame \/ mode' = "gone")
    BY <1>3 DEF Quit, Answer, cvars, server, client, ScreenSame
  <2>2. QED
    BY <1>1, <2>1, RaidStays DEF Rested, PacketStep
<1>4. ASSUME NEW a \in Actor, Send(a)
      PROVE  PacketStep
  BY <1>4 DEF Send, Sent, server, client, ScreenSame, PacketStep
<1>5. QED
  BY <1>2, <1>3, <1>4, BoardPackets, RoundPackets, HandlerPackets, SnapshotPackets, RaidPackets
     DEF ClientNext, Handler
-----------------------------------------------------------------------------
\* The types are kept.

LEMMA WireTypesKept ==
    ASSUME WireTypes, PacketStep
    PROVE  WireTypes'
<1>1. busy \in [Actor -> SUBSET Packet] /\ wire \in Seq(Packet) /\ raid \in RaidRecord
  BY DEF WireTypes
<1>2. raid' \in RaidRecord
  BY <1>1 DEF PacketStep, Took, Rested, Fired, Sent, Queued, RaidOn
<1>3. busy' \in [Actor -> SUBSET Packet]
  <2>1. raid.code + 1 \in Nat
    BY <1>1 DEF RaidRecord
  <2>2. CASE Fired
    <3>1. {PktRaid(raid.code + 1)} \in SUBSET Packet
      BY <2>1, PacketForms
    <3>2. QED
      BY <1>1, <2>2, <3>1 DEF Fired
  <2>3. ASSUME NEW a \in Actor, NEW p, Sent(a, p)
        PROVE  busy' \in [Actor -> SUBSET Packet]
    BY <1>1, <2>3 DEF Sent
  <2>4. ASSUME NEW a \in Actor, NEW P, Queued(a, P)
        PROVE  busy' \in [Actor -> SUBSET Packet]
    BY <1>1, <2>4 DEF Queued
  <2>5. QED
    BY <1>1, <2>2, <2>3, <2>4 DEF PacketStep, Took, Rested
<1>4. wire' \in Seq(Packet)
  <2>1. CASE Took
    BY <1>1, <2>1, HeadTailProperties DEF Took
  <2>2. ASSUME NEW a \in Actor, NEW p, Sent(a, p)
        PROVE  wire' \in Seq(Packet)
    <3>1. p \in Packet
      BY <1>1, <2>2 DEF Sent
    <3>2. QED
      BY <1>1, <2>2, <3>1, AppendProperties DEF Sent
  <2>3. QED
    BY <1>1, <2>1, <2>2 DEF PacketStep, Rested, Fired, Queued
<1>5. QED
  BY <1>2, <1>3, <1>4 DEF WireTypes

LEMMA ScreenTypesKept ==
    ASSUME Types, [ClientNext]_cvars
    PROVE  ScreenTypes'
<1>1. /\ mode \in {"login", "normal", "panic", "round_end", "gone"}
      /\ view \in View /\ Fits(view) /\ wire \in Seq(Packet)
  BY DEF Types, ScreenTypes, WireTypes
<1>2. CASE Recv
  <2>1. wire # <<>>
    BY <1>2 DEF Recv, RecvFirst, RecvList, RecvRaid, RecvOk, RecvScores, RecvReset,
                RecvGameOver, Receive
  <2>2. PICK p \in Packet : p = Head(wire)
    BY <1>1, <2>1, HeadTailProperties
  <2>3. mode' \in {"login", "normal", "panic", "round_end", "gone"}
    BY <1>1, <1>2 DEF Recv, RecvFirst, RecvList, RecvRaid, RecvOk, RecvScores, RecvReset,
                      RecvGameOver
  <2>4. view' = view \/ view' = Applied(view, p)
    BY <1>2, <2>2 DEF Recv, RecvFirst, RecvList, RecvRaid, RecvOk, RecvScores, RecvReset,
                      RecvGameOver
  <2>5. PICK w \in View : view' = w /\ Fits(w)
    BY <1>1, <2>4, AppliedType
  <2>6. Fits(view)'
    BY <2>5 DEF Fits
  <2>7. QED
    BY <2>3, <2>5, <2>6 DEF ScreenTypes
<1>3. CASE UNCHANGED view /\ (mode' = "gone" \/ mode' = mode)
  BY <1>1, <1>3 DEF ScreenTypes, Fits
<1>4. CASE Quit \/ (\E right \in BOOLEAN : Answer(right)) \/ UNCHANGED cvars
  BY <1>3, <1>4 DEF Quit, Answer, cvars, client
<1>5. CASE Handler
  BY <1>3, <1>5 DEF Handler, Login, Register, LoginOk, SendMask, HandleSubmit, HandlerStep,
                    Sync, Snapshot, client
<1>6. ASSUME NEW a, Send(a)
      PROVE  ScreenTypes'
  BY <1>3, <1>6 DEF Send, client
<1>7. ASSUME NEW a, NEW p, Announce(a, p)
      PROVE  ScreenTypes'
  BY <1>3, <1>7 DEF Announce, client
<1>8. CASE BoardEvent
  <2>1. ASSUME NEW t, LeakArm(t)
        PROVE  ScreenTypes'
    BY <1>3, <2>1 DEF LeakArm, client
  <2>2. QED
    BY <1>7, <1>8, <2>1 DEF BoardEvent, ListNext, Unlist, LeakTag, Thaw
<1>9. CASE RoundEvent
  <2>1. ASSUME NEW kind, Snapshot("reset", kind)
        PROVE  ScreenTypes'
    BY <1>3, <2>1 DEF Snapshot, client
  <2>2. QED
    BY <1>7, <1>9, <2>1 DEF RoundEvent, ShowScores, ResetRound, Sync
<1>10. CASE FireRaid
  <2>1. PICK n : Announce("event", PktRaid(n))
    BY <1>10, Zenon DEF FireRaid
  <2>2. QED
    BY <1>7, <2>1
<1>11. CASE RaidThreads
  <2>1. UNCHANGED client
    BY <1>11, Zenon DEF RaidThreads, RaidArm, RaidTimeout, RaidStep
  <2>2. QED
    BY <1>3, <2>1 DEF client
<1>12. QED
  BY <1>2, <1>4, <1>5, <1>6, <1>8, <1>9, <1>10, <1>11 DEF ClientNext

\* The board has room for one more of its kind.
LEMMA BoardTakes ==
    ASSUME NEW B, IsFiniteSet(B), BoardFits(B), NEW i,
           Cardinality({j \in B : Kind(j) = Kind(i)}) < UI_MAX[Kind(i)]
    PROVE  IsFiniteSet(B \cup {i}) /\ BoardFits(B \cup {i})
<1>1. IsFiniteSet(B \cup {i})
  BY FS_AddElement
<1>2. ASSUME NEW kind \in Kinds
      PROVE  Cardinality({j \in B \cup {i} : Kind(j) = kind}) <= UI_MAX[kind]
  <2>1. PICK L : L = {j \in B : Kind(j) = kind}
    OBVIOUS
  <2>2. IsFiniteSet(L) /\ Cardinality(L) \in Nat /\ UI_MAX[kind] \in Nat
    <3>1. L \in SUBSET B
      BY <2>1
    <3>2. IsFiniteSet(L)
      BY <3>1, FS_Subset
    <3>3. QED
      BY <3>2, FS_CardinalityType, ClientAssumption DEF Kinds
  <2>3. CASE Kind(i) = kind
    <3>1. {j \in B \cup {i} : Kind(j) = kind} = L \cup {i}
      BY <2>1, <2>3
    <3>2. Cardinality(L) < UI_MAX[kind]
      BY <2>1, <2>3
    <3>3. PICK m, n : m = Cardinality(L) /\ n = Cardinality(L \cup {i})
      OBVIOUS
    <3>4. n = IF i \in L THEN m ELSE m + 1
      BY <2>2, <3>3, FS_AddElement, Zenon
    <3>5. m \in Nat /\ m < UI_MAX[kind]
      BY <2>2, <3>2, <3>3
    <3>6. n <= UI_MAX[kind]
      BY <2>2, <3>4, <3>5
    <3>7. QED
      BY <3>1, <3>3, <3>6
  <2>4. CASE Kind(i) # kind
    <3>1. {j \in B \cup {i} : Kind(j) = kind} = L
      BY <2>1, <2>4
    <3>2. QED
      BY <2>1, <3>1 DEF BoardFits
  <2>5. QED
    BY <2>3, <2>4
<1>3. QED
  BY <1>1, <1>2 DEF BoardFits

\* A part of the board fits where the board does.
LEMMA BoardShrinks ==
    ASSUME NEW B, IsFiniteSet(B), BoardFits(B), NEW C \in SUBSET B
    PROVE  IsFiniteSet(C) /\ BoardFits(C)
<1>1. IsFiniteSet(C)
  BY FS_Subset
<1>2. ASSUME NEW kind \in Kinds
      PROVE  Cardinality({j \in C : Kind(j) = kind}) <= UI_MAX[kind]
  <2>1. PICK L, M : L = {j \in B : Kind(j) = kind} /\ M = {j \in C : Kind(j) = kind}
    OBVIOUS
  <2>2. L \in SUBSET B /\ M \in SUBSET L
    BY <2>1
  <2>3. IsFiniteSet(L) /\ IsFiniteSet(M) /\ Cardinality(M) <= Cardinality(L)
    BY <2>2, FS_Subset
  <2>4. Cardinality(L) \in Nat /\ Cardinality(M) \in Nat /\ UI_MAX[kind] \in Nat
    BY <2>3, FS_CardinalityType, ClientAssumption DEF Kinds
  <2>5. Cardinality(L) <= UI_MAX[kind]
    BY <2>1 DEF BoardFits
  <2>6. QED
    BY <2>1, <2>3, <2>4, <2>5
<1>3. QED
  BY <1>1, <1>2 DEF BoardFits

LEMMA SeedsFit == IsFiniteSet(SEEDS) /\ BoardFits(SEEDS)
<1>1. {i \in SEEDS : Kind(i) = "mkt"} = SEEDS \ Npc /\ {i \in SEEDS : Kind(i) = "npc"} = SEEDS \cap Npc
  BY DEF Kind
<1>2. QED
  BY <1>1, ClientAssumption DEF BoardFits, Kinds

LEMMA SubjectTypes ==
    ASSUME NEW p \in Packet
    PROVE  About(p) \subseteq Item \cup Tag /\ Unshown(p) \subseteq Item \cup Tag
<1>1. About(p) \subseteq Item \cup Tag
  BY PacketForms DEF About
<1>2. p.type = "SPAWN" => p.id \in Item
  BY PacketForms
<1>3. QED
  BY <1>1, <1>2 DEF Unshown

LEMMA BoardTypesKept ==
    ASSUME Types, [ClientNext]_cvars
    PROVE  BoardTypes'
<1> DEFINE Kept(B) == B \subseteq Item /\ IsFiniteSet(B) /\ BoardFits(B)
<1>1. /\ Kept(board) /\ fresh \subseteq Item /\ frozen \subseteq Tag
      /\ crossed \subseteq Item \cup Tag
  BY DEF Types, BoardTypes
<1>2. ASSUME NEW B, board' = B, Kept(B), fresh' \subseteq fresh,
             frozen' \subseteq Tag, crossed' \subseteq Item \cup Tag
      PROVE  BoardTypes'
  <2>1. BoardFits(board)'
    BY <1>2 DEF BoardFits, Kind
  <2>2. QED
    BY <1>1, <1>2, <2>1 DEF BoardTypes
<1>3. ASSUME UNCHANGED <<board, fresh, frozen>>, crossed' \subseteq Item \cup Tag
      PROVE  BoardTypes'
  BY <1>1, <1>2, <1>3
<1>4. ASSUME UNCHANGED <<board, fresh, frozen, crossed>>
      PROVE  BoardTypes'
  BY <1>1, <1>3, <1>4
<1> HIDE DEF Kept
<1>5. CASE Recv \/ Quit \/ (\E right \in BOOLEAN : Answer(right)) \/ UNCHANGED cvars
  BY <1>4, <1>5 DEF Recv, RecvFirst, RecvList, RecvRaid, RecvOk, RecvScores, RecvReset,
                    RecvGameOver, Receive, Quit, Answer, cvars, server
<1>6. CASE Login \/ HandleSubmit
  BY <1>4, <1>6 DEF Login, Register, LoginOk, SendMask, HandleSubmit, HandlerStep
<1>7. CASE FireRaid \/ RaidThreads
  BY <1>4, <1>7, Zenon DEF FireRaid, RaidThreads, RaidArm, RaidTimeout, RaidStep
<1>8. ASSUME NEW who, Sync(who)
      PROVE  BoardTypes'
  <2>1. PICK kind : Snapshot(who, kind)
    BY <1>8 DEF Sync
  <2>2. Listed(kind) \subseteq Item
    BY <1>1 DEF Listed, Kept
  <2>3. UNCHANGED <<board, fresh, frozen>> /\ crossed' \subseteq Item \cup Tag
    BY <1>1, <2>1, <2>2 DEF Snapshot
  <2>4. QED
    BY <1>3, <2>3
<1>9. ASSUME NEW a \in Actor, Send(a)
      PROVE  BoardTypes'
  <2>1. busy \in [Actor -> SUBSET Packet]
    BY DEF Types, WireTypes
  <2>2. PICK p \in busy[a] :
           crossed' = (crossed \ IF p.type = "ROUND_RESET" THEN Item ELSE {})
                      \cup {x \in About(p) : \E b \in Actor \ {a} :
                               \E q \in busy[b] : Crosses(p, q, x)}
                      \cup Unshown(p)
    BY <1>9 DEF Send
  <2>3. p \in Packet
    BY <2>1
  <2>4. crossed' \subseteq Item \cup Tag
    BY <1>1, <2>2, <2>3, SubjectTypes
  <2>5. QED
    BY <1>3, <1>9, <2>4 DEF Send, server
<1>10. ASSUME NEW a, NEW kind, ListNext(a, kind)
       PROVE  BoardTypes'
  <2>1. PICK i \in fresh :
           /\ Kind(i) = kind /\ Cardinality(Listed(kind)) < UI_MAX[kind]
           /\ board' = board \cup {i} /\ fresh' = fresh \ {i} /\ UNCHANGED <<frozen, crossed>>
    BY <1>10 DEF ListNext
  <2>2. Kept(board \cup {i})
    BY <1>1, <2>1, BoardTakes DEF Kept, Listed
  <2>3. QED
    BY <1>1, <1>2, <2>1, <2>2
<1>11. ASSUME NEW a, NEW i, Unlist(a, i)
       PROVE  BoardTypes'
  <2>1. board' = board \ {i} /\ UNCHANGED <<fresh, frozen, crossed>>
    BY <1>11 DEF Unlist
  <2>2. Kept(board \ {i})
    BY <1>1, BoardShrinks DEF Kept
  <2>3. QED
    BY <1>1, <1>2, <2>1, <2>2
<1>12. ASSUME NEW t \in Tag, LeakTag(t) \/ LeakArm(t) \/ Thaw(t)
       PROVE  BoardTypes'
  <2>1. /\ UNCHANGED <<board, fresh>>
        /\ frozen' \subseteq Tag /\ crossed' \subseteq Item \cup Tag
    BY <1>1, <1>12 DEF LeakTag, LeakArm, Thaw
  <2>2. QED
    BY <1>1, <1>2, <2>1
<1>13. CASE RoundEvent
  <2>1. CASE ResetRound
    <3>1. board' = SEEDS /\ frozen' = {} /\ UNCHANGED <<fresh, crossed>>
      BY <2>1 DEF ResetRound
    <3>2. Kept(SEEDS)
      BY SeedsFit, ClientAssumption DEF Kept
    <3>3. QED
      BY <1>1, <1>2, <3>1, <3>2
  <2>2. ASSUME NEW a, ShowScores(a)
        PROVE  BoardTypes'
    BY <1>4, <2>2 DEF ShowScores
  <2>3. QED
    BY <1>8, <1>13, <2>1, <2>2 DEF RoundEvent
<1>14. QED
  BY <1>5, <1>6, <1>7, <1>8, <1>9, <1>10, <1>11, <1>12, <1>13
     DEF ClientNext, Handler, BoardEvent

-----------------------------------------------------------------------------

LEMMA TypesInit ==
    ASSUME ClientInit
    PROVE  Types
<1>1. ScreenTypes
  BY EmptyViewType DEF ClientInit, ScreenTypes
<1>2. WireTypes
  <2>1. raid \in RaidRecord
    <3>1. "none" \in RaidStates
      BY StatesOfRaid, Zenon
    <3>2. raid = [st |-> "none", code |-> 0, waits |-> FALSE]
      BY DEF ClientInit
    <3>3. QED
      BY <3>1, <3>2 DEF RaidRecord
  <2>2. busy \in [Actor -> SUBSET Packet] /\ wire \in Seq(Packet)
    BY DEF ClientInit
  <2>3. QED
    BY <2>1, <2>2 DEF WireTypes
<1>3. BoardTypes
  BY SeedsFit, ClientAssumption DEF ClientInit, BoardTypes
<1>4. QED
  BY <1>1, <1>2, <1>3 DEF Types

LEMMA TypesNext ==
    ASSUME Types, [ClientNext]_cvars
    PROVE  Types'
BY StepPackets, WireTypesKept, ScreenTypesKept, BoardTypesKept DEF Types

\* Every state of the client and of what the server does to it has the types of
\* ClientTypeOK: whatever is broadcast to it, and in whatever order, the lists of
\* ui_client.c hold entries of their own kind and stay within their arrays.
THEOREM ClientTypeCorrect == ClientSpec => []ClientTypeOK
<1>1. ClientInit => Types
  BY TypesInit
<1>2. Types /\ [ClientNext]_cvars => Types'
  BY TypesNext
<1>3. Types => ClientTypeOK
  <2> SUFFICES ASSUME Types
               PROVE  ClientTypeOK
    OBVIOUS
  <2>1. view \in View /\ Fits(view) /\ BoardFits(board)
    BY DEF Types, ScreenTypes, BoardTypes
  <2>2. ASSUME NEW kind \in Kinds
        PROVE  /\ ToSet(view[kind]) \subseteq {e \in Entry : Kind(e.id) = kind}
               /\ Len(view[kind]) <= UI_MAX[kind]
               /\ Cardinality(Listed(kind)) <= UI_MAX[kind]
    <3>1. view[kind] \in Seq(EntryOf(kind))
      BY <2>1, ListGet
    <3>2. \A n \in DOMAIN view[kind] : view[kind][n] \in EntryOf(kind)
      BY <3>1, ElementOfSeq, LenProperties
    <3>3. ToSet(view[kind]) \subseteq {e \in Entry : Kind(e.id) = kind}
      BY <3>2 DEF ToSet, EntryOf
    <3>4. QED
      BY <2>1, <3>3 DEF Fits, BoardFits, Listed
  <2>3. view.mask \subseteq Tag
    BY <2>1 DEF View
  <2>4. QED
    BY <2>2, <2>3 DEF ClientTypeOK, Types, ScreenTypes, BoardTypes, Kinds
<1>4. QED
  BY <1>1, <1>2, <1>3, PTL DEF ClientSpec

-----------------------------------------------------------------------------
\* The packets of raids, for a wire w, the packets B of the event thread, and the
\* number n of the latest raid.

\* The packet of the latest raid is still to come.
ToCome(w, B, n) == PktRaid(n) \in B \/ \E k \in DOMAIN w : w[k] = PktRaid(n)

\* Raids are announced in the order they were fired in; as long as any of them is
\* on its way, so is the latest.
InOrder(w, B, n) ==
    /\ \A p \in B : IsRaid(p) => p = PktRaid(n)
    /\ \A k \in DOMAIN w : IsRaid(w[k]) =>
          w[k].code <= n /\ (PktRaid(n) \in B => w[k].code < n) /\ ToCome(w, B, n)
    /\ \A j, k \in DOMAIN w : j < k /\ IsRaid(w[j]) /\ IsRaid(w[k]) => w[j].code < w[k].code

LEMMA RaidCode ==
    \A n : IsRaid(PktRaid(n)) /\ PktRaid(n).code = n
BY DEF IsRaid, PktRaid

LEMMA WireDomain ==
    ASSUME NEW w \in Seq(Packet)
    PROVE  /\ Len(w) \in Nat /\ DOMAIN w = 1 .. Len(w)
           /\ \A k \in DOMAIN w : w[k] \in Packet /\ (IsRaid(w[k]) => w[k].code \in Nat
                                                       /\ w[k] = PktRaid(w[k].code))
<1>1. Len(w) \in Nat /\ DOMAIN w = 1 .. Len(w)
  BY LenProperties
<1>2. \A k \in DOMAIN w : w[k] \in Packet
  BY <1>1, ElementOfSeq
<1>3. QED
  BY <1>1, <1>2, PacketForms DEF IsRaid

\* The client takes a packet off the wire: unless it is that of the latest raid, that
\* one is still to come if it was.
LEMMA TakeInOrder ==
    ASSUME NEW w \in Seq(Packet), w # <<>>, NEW B, NEW n \in Nat, InOrder(w, B, n)
    PROVE  /\ InOrder(Tail(w), B, n)
           /\ ToCome(w, B, n) => Head(w) = PktRaid(n) \/ ToCome(Tail(w), B, n)
           /\ IsRaid(Head(w)) => ToCome(w, B, n)
<1>1. PICK v \in Seq(Packet) :
         v = Tail(w) /\ Len(v) = Len(w) - 1 /\ \A k \in 1 .. Len(v) : v[k] = w[k + 1]
  BY HeadTailProperties
<1>2. Len(w) \in Nat /\ DOMAIN w = 1 .. Len(w) /\ Len(v) \in Nat /\ DOMAIN v = 1 .. Len(v)
  BY WireDomain
<1>3. Len(w) > 0 /\ Head(w) = w[1]
  BY <1>2, EmptySeq
<1>4. \A k \in DOMAIN v : k \in Int /\ k + 1 \in DOMAIN w /\ k + 1 > 1 /\ v[k] = w[k + 1]
  BY <1>1, <1>2
<1>5. \A k \in DOMAIN w : k # 1 => k \in Int /\ k - 1 \in DOMAIN v /\ v[k - 1] = w[k]
  <2>1. ASSUME NEW k \in DOMAIN w, k # 1
        PROVE  k \in Int /\ k - 1 \in DOMAIN v /\ v[k - 1] = w[k]
    <3>1. k \in Int /\ k - 1 \in 1 .. Len(v) /\ (k - 1) + 1 = k
      BY <1>1, <1>2, <2>1
    <3>2. QED
      BY <1>1, <1>2, <3>1
  <2>2. QED
    BY <2>1
<1>6. 1 \in DOMAIN w
  BY <1>2, <1>3
<1>7. ASSUME ToCome(w, B, n), Head(w) # PktRaid(n)
      PROVE  ToCome(v, B, n)
  BY <1>3, <1>5, <1>7 DEF ToCome
<1>8. IsRaid(Head(w)) => ToCome(w, B, n)
  BY <1>3, <1>6 DEF InOrder
<1>9. ASSUME NEW k \in DOMAIN v, IsRaid(v[k])
      PROVE  v[k].code <= n /\ (PktRaid(n) \in B => v[k].code < n) /\ ToCome(v, B, n)
  <2>1. k + 1 \in DOMAIN w /\ IsRaid(w[k + 1]) /\ v[k] = w[k + 1] /\ 1 < k + 1
    BY <1>4, <1>9
  <2>2. w[k + 1].code <= n /\ (PktRaid(n) \in B => w[k + 1].code < n) /\ ToCome(w, B, n)
    BY <2>1 DEF InOrder
  <2>3. Head(w) # PktRaid(n)
    <3>1. SUFFICES ASSUME w[1] = PktRaid(n)
                   PROVE  FALSE
      BY <1>3
    <3>2. w[1].code < w[k + 1].code
      BY <1>6, <2>1, <3>1, RaidCode DEF InOrder
    <3>3. w[k + 1].code \in Nat
      BY <2>1, WireDomain
    <3>4. QED
      BY <2>2, <3>1, <3>2, <3>3, RaidCode
  <2>4. QED
    BY <1>7, <2>1, <2>2, <2>3
<1>10. ASSUME NEW j \in DOMAIN v, NEW k \in DOMAIN v, j < k, IsRaid(v[j]), IsRaid(v[k])
       PROVE  v[j].code < v[k].code
  <2>1. /\ j + 1 \in DOMAIN w /\ k + 1 \in DOMAIN w /\ j + 1 < k + 1
        /\ v[j] = w[j + 1] /\ v[k] = w[k + 1]
    BY <1>4, <1>10
  <2>2. QED
    BY <1>10, <2>1 DEF InOrder
<1>11. InOrder(v, B, n)
  BY <1>9, <1>10 DEF InOrder
<1>12. QED
  BY <1>1, <1>7, <1>8, <1>11

\* The event thread sends one of its packets.
LEMMA SendInOrder ==
    ASSUME NEW w \in Seq(Packet), NEW B \in SUBSET Packet, NEW n \in Nat, InOrder(w, B, n),
           NEW p \in Packet, NEW C, C \subseteq B, \A q \in B : q \in C \/ q = p,
           IsRaid(p) => p \in B /\ p \notin C
    PROVE  /\ InOrder(Append(w, p), C, n)
           /\ ToCome(w, B, n) => ToCome(Append(w, p), C, n)
<1>1. PICK v \in Seq(Packet) :
         /\ v = Append(w, p) /\ Len(v) = Len(w) + 1
         /\ (\A k \in 1 .. Len(w) : v[k] = w[k]) /\ v[Len(w) + 1] = p
  BY AppendProperties
<1>2. Len(w) \in Nat /\ DOMAIN w = 1 .. Len(w) /\ Len(v) \in Nat /\ DOMAIN v = 1 .. Len(v)
  BY WireDomain
<1>3. PICK last \in Nat : last = Len(w) + 1
  BY <1>2
<1>4. /\ last \in DOMAIN v /\ v[last] = p
      /\ \A k \in DOMAIN w : k \in DOMAIN v /\ v[k] = w[k]
      /\ \A k \in DOMAIN v : k \in Nat /\ k <= last /\ (k \in DOMAIN w \/ k = last)
  BY <1>1, <1>2, <1>3
<1>5. IsRaid(p) => p = PktRaid(n)
  BY DEF InOrder
<1>6. IsRaid(p) => ToCome(v, C, n) /\ PktRaid(n) \notin C
  BY <1>4, <1>5 DEF ToCome
<1>7. ToCome(w, B, n) => ToCome(v, C, n)
  <2>1. CASE PktRaid(n) \in B
    BY <1>4, <2>1 DEF ToCome
  <2>2. CASE \E k \in DOMAIN w : w[k] = PktRaid(n)
    BY <1>4, <2>2 DEF ToCome
  <2>3. QED
    BY <2>1, <2>2 DEF ToCome
<1>8. ASSUME NEW k \in DOMAIN v, IsRaid(v[k])
      PROVE  v[k].code <= n /\ (PktRaid(n) \in C => v[k].code < n) /\ ToCome(v, C, n)
  <2>1. CASE k \in DOMAIN w
    <3>1. w[k].code <= n /\ (PktRaid(n) \in B => w[k].code < n) /\ ToCome(w, B, n)
      BY <1>4, <1>8, <2>1 DEF InOrder
    <3>2. QED
      BY <1>4, <1>7, <2>1, <3>1
  <2>2. CASE k = last
    BY <1>4, <1>5, <1>6, <1>8, <2>2, RaidCode
  <2>3. QED
    BY <1>4, <2>1, <2>2
<1>9. ASSUME NEW j \in DOMAIN v, NEW k \in DOMAIN v, j < k, IsRaid(v[j]), IsRaid(v[k])
      PROVE  v[j].code < v[k].code
  <2>1. j \in DOMAIN w
    BY <1>3, <1>4, <1>9
  <2>2. CASE k \in DOMAIN w
    BY <1>4, <1>9, <2>1, <2>2 DEF InOrder
  <2>3. CASE k = last
    <3>1. p = PktRaid(n) /\ PktRaid(n) \in B
      BY <1>4, <1>5, <1>9, <2>3
    <3>2. w[j].code < n
      BY <1>4, <1>9, <2>1, <3>1 DEF InOrder
    <3>3. QED
      BY <1>4, <2>1, <2>3, <3>1, <3>2, RaidCode
  <2>4. QED
    BY <1>4, <2>2, <2>3
<1>10. InOrder(v, C, n)
  BY <1>8, <1>9 DEF InOrder
<1>11. QED
  BY <1>1, <1>7, <1>10

\* The event thread, with nothing to send, has packets that are not of a raid.
LEMMA QueueInOrder ==
    ASSUME NEW w, NEW n, InOrder(w, {}, n), NEW C, \A p \in C : ~ IsRaid(p)
    PROVE  InOrder(w, C, n) /\ (ToCome(w, {}, n) => ToCome(w, C, n))
<1>1. PktRaid(n) \notin C
  BY RaidCode
<1>2. QED
  BY <1>1 DEF InOrder, ToCome

\* The event thread fires the next raid.
LEMMA FireInOrder ==
    ASSUME NEW w \in Seq(Packet), NEW n \in Nat, InOrder(w, {}, n)
    PROVE  /\ InOrder(w, {PktRaid(n + 1)}, n + 1)
           /\ ToCome(w, {PktRaid(n + 1)}, n + 1)
<1>1. ToCome(w, {PktRaid(n + 1)}, n + 1)
  BY DEF ToCome
<1>2. ASSUME NEW k \in DOMAIN w, IsRaid(w[k])
      PROVE  w[k].code < n + 1 /\ w[k].code <= n + 1
  <2>1. w[k].code <= n /\ w[k].code \in Nat
    BY <1>2, WireDomain DEF InOrder
  <2>2. QED
    BY <2>1
<1>3. QED
  BY <1>1, <1>2 DEF InOrder

-----------------------------------------------------------------------------
\* The invariant.

RaidsInOrder ==
    /\ \A a \in Actor \ {"event"} : \A p \in busy[a] : ~ IsRaid(p)
    /\ InOrder(wire, busy["event"], raid.code)

\* The raid that waits for the player is on its way to him or on his screen, unless
\* something has replaced it or he has left.
Answerable ==
    raid.waits =>
        \/ ToCome(wire, busy["event"], raid.code)
        \/ mode = "gone" \/ overlaid = TRUE
        \/ mode = "panic" /\ code = raid.code

LEMMA RaidsNext ==
    ASSUME WireTypes, RaidsInOrder, Answerable, PacketStep
    PROVE  RaidsInOrder' /\ Answerable'
<1> DEFINE Free == \A a \in Actor \ {"event"} : \A p \in busy[a] : ~ IsRaid(p)
<1>1. PICK w \in Seq(Packet), B \in SUBSET Packet, n \in Nat :
         w = wire /\ B = busy["event"] /\ n = raid.code
  BY DEF WireTypes, RaidRecord, Actor
<1>2. InOrder(w, B, n) /\ Free /\ busy \in [Actor -> SUBSET Packet]
  BY <1>1 DEF RaidsInOrder, WireTypes
<1>3. raid.waits => \/ ToCome(w, B, n) \/ mode = "gone" \/ overlaid = TRUE
                    \/ mode = "panic" /\ code = n
  BY <1>1 DEF Answerable
\* The step taken, in terms of the new wire, hand and number.
<1>4. ASSUME NEW v, NEW C, NEW m, wire' = v, busy["event"]' = C, raid'.code = m,
             InOrder(v, C, m), Free',
             raid'.waits => \/ ToCome(v, C, m) \/ mode' = "gone" \/ overlaid' = TRUE
                            \/ mode' = "panic" /\ code' = m
      PROVE  RaidsInOrder' /\ Answerable'
  <2>1. InOrder(wire, busy["event"], raid.code)' /\ (ToCome(v, C, m) => ToCome(wire, busy["event"], raid.code)')
    BY <1>4 DEF InOrder, ToCome, PktRaid, IsRaid
  <2>2. QED
    BY <1>4, <2>1 DEF RaidsInOrder, Answerable
<1> HIDE DEF Free
<1>5. CASE Took
  <2>1. w # <<>> /\ wire' = Tail(w) /\ UNCHANGED <<busy, raid>> /\ mode # "gone"
    BY <1>1, <1>5 DEF Took
  <2>2. PICK v, h : v = Tail(w) /\ h = Head(w)
    OBVIOUS
  <2>3. /\ InOrder(v, B, n) /\ (IsRaid(h) => ToCome(w, B, n))
        /\ ToCome(w, B, n) => h = PktRaid(n) \/ ToCome(v, B, n)
    BY <1>2, <2>1, <2>2, TakeInOrder
  <2>4. Free'
    BY <1>2, <2>1 DEF Free
  <2>5. /\ IsRaid(h) => mode' = "gone" \/ (mode' = "panic" /\ code' = h.code)
        /\ ~ IsRaid(h) => \/ mode' = "gone" \/ overlaid' = TRUE
                          \/ UNCHANGED <<code, overlaid>> /\ (mode' = mode \/ mode = "login")
    BY <1>1, <1>5, <2>2 DEF Took
  <2>6. raid'.waits => \/ ToCome(v, B, n) \/ mode' = "gone" \/ overlaid' = TRUE
                       \/ mode' = "panic" /\ code' = n
    <3>1. CASE IsRaid(h)
      BY <2>3, <2>5, <3>1, RaidCode
    <3>2. CASE ~ IsRaid(h)
      <4>1. h # PktRaid(n)
        BY <3>2, RaidCode
      <4>2. QED
        BY <1>3, <2>1, <2>3, <2>5, <3>2, <4>1
    <3>3. QED
      BY <3>1, <3>2
  <2>7. wire' = v /\ busy["event"]' = B /\ raid'.code = n
    BY <1>1, <2>1, <2>2
  <2>8. QED
    BY <1>4, <2>3, <2>4, <2>6, <2>7
<1>6. CASE Rested
  <2>1. /\ wire' = w /\ busy["event"]' = B /\ raid'.code = n /\ UNCHANGED busy
        /\ raid'.waits => raid.waits
        /\ UNCHANGED <<mode, code, overlaid>> \/ mode' = "gone"
    BY <1>1, <1>6 DEF Rested, RaidOn, ScreenSame
  <2>2. Free'
    BY <1>2, <2>1 DEF Free
  <2>3. QED
    BY <1>2, <1>3, <1>4, <2>1, <2>2
<1>7. CASE Fired
  <2>1. PICK m \in Nat : m = n + 1
    OBVIOUS
  <2>2. /\ B = {} /\ busy' = [busy EXCEPT !["event"] = {PktRaid(m)}]
        /\ wire' = w /\ raid'.code = m
    BY <1>1, <1>7, <2>1 DEF Fired
  <2>3. busy["event"]' = {PktRaid(m)} /\ Free'
    BY <1>2, <2>2 DEF Free, Actor
  <2>4. InOrder(w, {PktRaid(m)}, m) /\ ToCome(w, {PktRaid(m)}, m)
    BY <1>2, <2>1, <2>2, FireInOrder
  <2>5. QED
    BY <1>4, <2>2, <2>3, <2>4
<1>8. ASSUME NEW a \in Actor, NEW p, Sent(a, p)
      PROVE  RaidsInOrder' /\ Answerable'
  <2>1. /\ p \in busy[a] /\ busy' = [busy EXCEPT ![a] = @ \ {p}] /\ wire' = Append(w, p)
        /\ UNCHANGED <<raid, mode, code, overlaid>>
    BY <1>1, <1>8 DEF Sent, ScreenSame
  <2>2. p \in Packet /\ (IsRaid(p) => a = "event")
    BY <1>2, <2>1 DEF Free
  <2>3. PICK C : C = busy'["event"]
    OBVIOUS
  <2>4. /\ C \subseteq B /\ \A q \in B : q \in C \/ q = p
        /\ IsRaid(p) => p \in B /\ p \notin C
    <3>1. "event" \in Actor
      BY DEF Actor
    <3>2. CASE a = "event"
      BY <1>1, <1>2, <2>1, <2>3, <3>1, <3>2
    <3>3. CASE a # "event"
      BY <1>1, <1>2, <2>1, <2>2, <2>3, <3>1, <3>3
    <3>4. QED
      BY <3>2, <3>3
  <2>5. Free'
    BY <1>2, <2>1 DEF Free
  <2>6. PICK v : v = Append(w, p)
    OBVIOUS
  <2>7. InOrder(v, C, n) /\ (ToCome(w, B, n) => ToCome(v, C, n))
    BY <1>2, <2>2, <2>4, <2>6, SendInOrder
  <2>8. QED
    BY <1>1, <1>3, <1>4, <2>1, <2>3, <2>5, <2>6, <2>7
<1>9. ASSUME NEW a \in Actor, NEW P, Queued(a, P)
      PROVE  RaidsInOrder' /\ Answerable'
  <2>1. /\ busy[a] = {} /\ busy' = [busy EXCEPT ![a] = P] /\ wire' = w
        /\ \A p \in P : ~ IsRaid(p)
        /\ raid'.code = n /\ (raid'.waits => raid.waits) /\ UNCHANGED <<mode, code, overlaid>>
    BY <1>1, <1>9 DEF Queued, RaidOn, ScreenSame
  <2>2. PICK C : C = busy'["event"]
    OBVIOUS
  <2>3. InOrder(w, C, n) /\ (ToCome(w, B, n) => ToCome(w, C, n))
    <3>1. "event" \in Actor
      BY DEF Actor
    <3>2. CASE a = "event"
      <4>1. B = {} /\ C = P
        BY <1>1, <1>2, <2>1, <2>2, <3>1, <3>2
      <4>2. QED
        BY <1>2, <2>1, <4>1, QueueInOrder
    <3>3. CASE a # "event"
      <4>1. C = B
        BY <1>1, <1>2, <2>1, <2>2, <3>1, <3>3
      <4>2. QED
        BY <1>2, <4>1
    <3>4. QED
      BY <3>2, <3>3
  <2>4. Free'
    BY <1>2, <2>1 DEF Free
  <2>5. QED
    BY <1>3, <1>4, <2>1, <2>2, <2>3, <2>4
<1>10. QED
  BY <1>5, <1>6, <1>7, <1>8, <1>9 DEF PacketStep

ClientInv == Types /\ RaidsInOrder /\ Answerable

\* A player whose answer the server waits for, with nothing left to be delivered to
\* him, has the passcode of that raid on his screen or has had the screen replaced:
\* RecvRaid of a late packet never leaves him with the passcode of an earlier raid.
THEOREM RaidAnswerable == ClientSpec => []CanAnswer
<1>1. ClientInit => ClientInv
  <2> SUFFICES ASSUME ClientInit
               PROVE  ClientInv
    OBVIOUS
  <2>1. /\ \A a \in Actor : busy[a] = {}
        /\ wire = <<>> /\ raid = [st |-> "none", code |-> 0, waits |-> FALSE]
    BY DEF ClientInit
  <2>2. "event" \in Actor /\ DOMAIN wire = {}
    BY <2>1 DEF Actor
  <2>3. RaidsInOrder
    BY <2>1, <2>2 DEF RaidsInOrder, InOrder
  <2>4. Answerable
    BY <2>1 DEF Answerable
  <2>5. QED
    BY <2>3, <2>4, TypesInit DEF ClientInv
<1>2. ClientInv /\ [ClientNext]_cvars => ClientInv'
  <2> SUFFICES ASSUME ClientInv, [ClientNext]_cvars
               PROVE  ClientInv'
    OBVIOUS
  <2>1. Types /\ WireTypes /\ RaidsInOrder /\ Answerable
    BY DEF ClientInv, Types
  <2>2. PacketStep /\ Types'
    BY <2>1, StepPackets, TypesNext
  <2>3. RaidsInOrder' /\ Answerable'
    BY <2>1, <2>2, RaidsNext
  <2>4. QED
    BY <2>2, <2>3 DEF ClientInv
<1>3. ClientInv => CanAnswer
  <2> SUFFICES ASSUME ClientInv, raid.waits, InLoop, wire = <<>>,
                      PktRaid(raid.code) \notin busy["event"]
               PROVE  overlaid \/ (mode = "panic" /\ code = raid.code)
    BY DEF CanAnswer
  <2>1. ~ ToCome(wire, busy["event"], raid.code)
    BY DEF ToCome
  <2>2. QED
    BY <2>1 DEF ClientInv, Answerable, InLoop
<1>4. QED
  BY <1>1, <1>2, <1>3, PTL DEF ClientSpec

-----------------------------------------------------------------------------
\* The items on a list.

HasId(s, i) == \E n \in DOMAIN s : s[n].id = i
OneId(s, i) == \A m, n \in DOMAIN s : s[m].id = i /\ s[n].id = i => m = n

\* The frozen flags of a list of offers are those of a mask.
Flagged(s, mask) == \A n \in DOMAIN s : s[n].frozen = Frozen(s[n].id, mask)

LEMMA ListAppend ==
    ASSUME NEW S, NEW s \in Seq(S), NEW e \in S
    PROVE  /\ \A i : HasId(Append(s, e), i) <=> HasId(s, i) \/ e.id = i
           /\ \A i : OneId(s, i) /\ (e.id = i => ~ HasId(s, i)) => OneId(Append(s, e), i)
           /\ \A mask : Flagged(s, mask) /\ e.frozen = Frozen(e.id, mask)
                           => Flagged(Append(s, e), mask)
<1>1. PICK w \in Seq(S) : /\ w = Append(s, e) /\ Len(w) = Len(s) + 1
                          /\ (\A n \in 1 .. Len(s) : w[n] = s[n]) /\ w[Len(s) + 1] = e
  BY AppendProperties
<1>2. Len(s) \in Nat /\ DOMAIN s = 1 .. Len(s) /\ DOMAIN w = 1 .. Len(w)
  BY LenProperties
<1>3. PICK last \in Nat : last = Len(s) + 1
  BY <1>2
<1>4. /\ last \in DOMAIN w /\ w[last] = e /\ last \notin DOMAIN s
      /\ \A n \in DOMAIN s : n \in DOMAIN w /\ w[n] = s[n]
      /\ \A n \in DOMAIN w : n \in DOMAIN s \/ n = last
  BY <1>1, <1>2, <1>3
<1>5. \A i : HasId(w, i) <=> HasId(s, i) \/ e.id = i
  BY <1>4 DEF HasId
<1>6. ASSUME NEW i, OneId(s, i), e.id = i => ~ HasId(s, i)
      PROVE  OneId(w, i)
  BY <1>4, <1>6 DEF OneId, HasId
<1>7. ASSUME NEW mask, Flagged(s, mask), e.frozen = Frozen(e.id, mask)
      PROVE  Flagged(w, mask)
  BY <1>4, <1>7 DEF Flagged
<1>8. QED
  BY <1>1, <1>5, <1>6, <1>7

\* An entry goes, and the last one takes its place.
LEMMA ListDrop ==
    ASSUME NEW S, NEW s \in Seq(S), NEW n \in DOMAIN s
    PROVE  LET w == Front([s EXCEPT ![n] = Last(s)])
           IN  /\ \A i : i # s[n].id => (HasId(w, i) <=> HasId(s, i))
               /\ \A i : OneId(s, i) => OneId(w, i)
               /\ OneId(s, s[n].id) => ~ HasId(w, s[n].id)
               /\ \A mask : Flagged(s, mask) => Flagged(w, mask)
<1> DEFINE put == [s EXCEPT ![n] = Last(s)]
<1>1. PICK last \in Nat : last = Len(s) /\ DOMAIN s = 1 .. last /\ s \in [1 .. last -> S]
  BY LenProperties
<1>2. n \in 1 .. last /\ Last(s) = s[last] /\ last \in DOMAIN s
  BY <1>1 DEF Last
<1>3. put \in [1 .. last -> S] /\ \A m \in 1 .. last : put[m] = IF m = n THEN s[last] ELSE s[m]
  BY <1>1, <1>2
<1>4. put \in Seq(S) /\ Len(put) = last
  <2>1. put \in Seq(S)
    BY <1>3, SeqDef
  <2>2. DOMAIN put = 1 .. Len(put) /\ Len(put) \in Nat /\ DOMAIN put = 1 .. last
    BY <1>3, <2>1, LenProperties
  <2> HIDE DEF put
  <2>3. QED
    BY <2>1, <2>2, SameRange
<1>5. PICK w : w = Front(put)
  OBVIOUS
<1>6. DOMAIN w = 1 .. last - 1 /\ \A m \in 1 .. last - 1 : w[m] = put[m]
  <2> DEFINE short == last - 1
  <2>1. short \in Nat /\ \A m \in 1 .. short : put[m] \in S
    BY <1>2, <1>3
  <2> HIDE DEF put, short
  <2>2. w = SubSeq(put, 1, short)
    BY <1>4, <1>5 DEF Front, short
  <2>3. /\ w \in Seq(S) /\ Len(w) = IF 1 <= short THEN short - 1 + 1 ELSE 0
        /\ \A m \in 1 .. short - 1 + 1 : w[m] = put[1 + m - 1]
    BY <2>1, <2>2, SubSeqProperties
  <2>4. Len(w) = short /\ DOMAIN w = 1 .. Len(w)
    BY <2>1, <2>3, LenProperties
  <2>5. \A m \in 1 .. short : w[m] = put[m]
    BY <2>1, <2>3
  <2>6. QED
    BY <2>4, <2>5 DEF short
\* Where the entries come from, and where they go to.
<1>7. /\ \A m \in DOMAIN w : /\ m \in DOMAIN s /\ m # last
                             /\ w[m] = IF m = n THEN s[last] ELSE s[m]
      /\ \A m \in DOMAIN s : m # last => m \in DOMAIN w
  <2> HIDE DEF put
  <2>1. \A m \in 1 .. last - 1 : m \in 1 .. last /\ m # last
    OBVIOUS
  <2>2. \A m \in 1 .. last : m # last => m \in 1 .. last - 1
    OBVIOUS
  <2>3. QED
    BY <1>1, <1>3, <1>6, <2>1, <2>2
<1>8. ASSUME NEW i, i # s[n].id
      PROVE  HasId(w, i) <=> HasId(s, i)
  <2>1. HasId(w, i) => HasId(s, i)
    BY <1>2, <1>7 DEF HasId
  <2>2. ASSUME NEW m \in DOMAIN s, s[m].id = i
        PROVE  HasId(w, i)
    <3>1. m # n
      BY <1>8, <2>2
    <3>2. CASE m = last
      BY <1>2, <1>7, <2>2, <3>1, <3>2 DEF HasId
    <3>3. CASE m # last
      BY <1>7, <2>2, <3>1, <3>3 DEF HasId
    <3>4. QED
      BY <3>2, <3>3
  <2>3. QED
    BY <2>1, <2>2 DEF HasId
<1>9. ASSUME NEW i, OneId(s, i)
      PROVE  OneId(w, i)
  BY <1>2, <1>7, <1>9 DEF OneId
<1>10. ASSUME OneId(s, s[n].id)
       PROVE  ~ HasId(w, s[n].id)
  BY <1>2, <1>7, <1>10 DEF OneId, HasId
<1>11. ASSUME NEW mask, Flagged(s, mask)
       PROVE  Flagged(w, mask)
  BY <1>2, <1>7, <1>11 DEF Flagged
<1>12. QED
  BY <1>5, <1>8, <1>9, <1>10, <1>11

\* A set of numbers that has an element has a least one.
LEMMA LeastOne ==
    ASSUME NEW T \in SUBSET Nat, T # {}
    PROVE  Min(T) \in T
<1> DEFINE Below == {1 .. x : x \in T}
<1>1. Below \subseteq FiniteSubsetsOf(Nat) /\ Below # {}
  <2>1. ASSUME NEW x \in T
        PROVE  1 .. x \in FiniteSubsetsOf(Nat)
    <3>1. x \in Int /\ 1 .. x \in SUBSET Nat
      OBVIOUS
    <3>2. IsFiniteSet(1 .. x)
      BY <3>1, FS_Interval
    <3>3. QED
      BY <3>1, <3>2 DEF FiniteSubsetsOf
  <2>2. QED
    BY <2>1
<1>2. \E A \in Below : \A C \in Below : <<C, A>> \notin StrictSubsetOrdering(Nat)
  <2>1. IsWellFoundedOn(StrictSubsetOrdering(Nat), FiniteSubsetsOf(Nat))
    BY FS_StrictSubsetOrderingWellFounded
  <2>2. PICK R, F : R = StrictSubsetOrdering(Nat) /\ F = FiniteSubsetsOf(Nat)
    OBVIOUS
  <2> HIDE DEF Below
  <2>3. \E A \in Below : \A C \in Below : ~ (<<C, A>> \in R)
    BY <1>1, <2>1, <2>2, WFMin
  <2>4. QED
    BY <2>2, <2>3
<1>3. PICK x \in T : \A y \in T : <<1 .. y, 1 .. x>> \notin StrictSubsetOrdering(Nat)
  BY <1>2
<1>4. ASSUME NEW y \in T, y < x
      PROVE  FALSE
  <2>1. 1 .. y \subseteq 1 .. x /\ x \in 1 .. x /\ x \notin 1 .. y
    BY <1>4
  <2>2. 1 .. y \in SUBSET Nat /\ 1 .. x \in SUBSET Nat /\ 1 .. y # 1 .. x
    BY <2>1
  <2>3. QED
    BY <1>3, <2>1, <2>2 DEF StrictSubsetOrdering
<1>5. \A y \in T : x <= y
  BY <1>4
<1>6. QED
  BY <1>5 DEF Min

LEMMA FirstOfList ==
    ASSUME NEW S, NEW s \in Seq(S), NEW i
    PROVE  LET n == SelectInSeq(s, LAMBDA e : e.id = i)
           IN  /\ n = 0 => ~ HasId(s, i)
               /\ n # 0 => n \in DOMAIN s /\ s[n].id = i
<1>1. PICK T : T = {n \in 1 .. Len(s) : s[n].id = i}
  OBVIOUS
<1>3. Len(s) \in Nat /\ DOMAIN s = 1 .. Len(s) /\ T \in SUBSET Nat /\ 0 \notin T
  BY <1>1, LenProperties
<1>4. T # {} => Min(T) \in T
  BY <1>3, LeastOne
<1>5. T = {} => ~ HasId(s, i)
  BY <1>1, <1>3 DEF HasId
<1>6. QED
  BY <1>1, <1>3, <1>4, <1>5 DEF SelectInSeq

-----------------------------------------------------------------------------
\* The items on a client's lists.

InList(v, i) == HasId(v[Kind(i)], i)
Once(v, i) == OneId(v[Kind(i)], i)
Honest(v) == Flagged(v.mkt, v.mask)

\* v and w list i alike, and tag t is frozen in both or in neither.
SameItem(v, w, i) == (InList(w, i) <=> InList(v, i)) /\ (Once(v, i) => Once(w, i))
SameTag(v, w, t) == t \in w.mask <=> t \in v.mask

\* A list is replaced: the other one and the mask stay.
LEMMA ListPutGet ==
    ASSUME NEW v \in View, NEW kind \in Kinds, NEW s \in Seq(EntryOf(kind))
    PROVE  LET w == [v EXCEPT ![kind] = s]
           IN  /\ w[kind] = s /\ w.mask = v.mask
               /\ \A other \in Kinds : other # kind => w[other] = v[other]
<1>1. CASE kind = "mkt"
  BY <1>1 DEF View, Kinds
<1>2. CASE kind = "npc"
  BY <1>2 DEF View, Kinds
<1>3. QED
  BY <1>1, <1>2 DEF Kinds

\* Of what the new list says, for the client's lists.
LEMMA ListPutItems ==
    ASSUME NEW v \in View, NEW kind \in Kinds, NEW s \in Seq(EntryOf(kind)), NEW j \in Item,
           \A i : i # j /\ Kind(i) = kind =>
                (HasId(s, i) <=> HasId(v[kind], i)) /\ (OneId(v[kind], i) => OneId(s, i)),
           Flagged(v[kind], v.mask) => Flagged(s, v.mask)
    PROVE  LET w == [v EXCEPT ![kind] = s]
           IN  /\ \A i \in Item : i # j => SameItem(v, w, i)
               /\ \A t : SameTag(v, w, t)
               /\ Honest(v) => Honest(w)
<1>1. PICK w : w = [v EXCEPT ![kind] = s]
  OBVIOUS
<1>2. /\ w[kind] = s /\ w.mask = v.mask
      /\ \A other \in Kinds : other # kind => w[other] = v[other]
  BY <1>1, ListPutGet
<1>3. ASSUME NEW i \in Item, i # j
      PROVE  SameItem(v, w, i)
  <2>1. CASE Kind(i) = kind
    BY <1>2, <1>3, <2>1 DEF SameItem, InList, Once
  <2>2. CASE Kind(i) # kind
    <3>1. w[Kind(i)] = v[Kind(i)]
      BY <1>2, <2>2, KindIs
    <3>2. QED
      BY <3>1 DEF SameItem, InList, Once
  <2>3. QED
    BY <2>1, <2>2
<1>4. ASSUME Honest(v)
      PROVE  Honest(w)
  <2>1. Flagged(v["mkt"], v.mask)
    BY <1>4 DEF Honest
  <2>2. CASE kind = "mkt"
    BY <1>2, <2>1, <2>2 DEF Honest
  <2>3. CASE kind # "mkt"
    <3>1. w["mkt"] = v["mkt"]
      BY <1>2, <2>3 DEF Kinds
    <3>2. QED
      BY <1>2, <2>1, <3>1 DEF Honest
  <2>4. QED
    BY <2>2, <2>3
<1>5. QED
  BY <1>1, <1>2, <1>3, <1>4 DEF SameTag

LEMMA SpawnedLists ==
    ASSUME NEW v \in View, Fits(v), NEW i \in Item
    PROVE  LET w == Spawned(v, i)
           IN  /\ \A j \in Item : j # i => SameItem(v, w, j)
               /\ \A t : SameTag(v, w, t)
               /\ Honest(v) => Honest(w)
               /\ Len(v[Kind(i)]) < UI_MAX[Kind(i)] =>
                     InList(w, i) /\ (~ InList(v, i) => Once(w, i))
<1>1. PICK k \in Kinds : k = Kind(i)
  BY KindIs
<1>2. PICK s : s = v[k]
  OBVIOUS
<1>3. s \in Seq(EntryOf(k))
  BY <1>2, ListGet
<1>4. PICK e : e = [id |-> i, frozen |-> Frozen(i, v.mask)]
  OBVIOUS
<1>5. e \in EntryOf(k) /\ e.id = i /\ e.frozen = Frozen(e.id, v.mask)
  BY <1>1, <1>4 DEF EntryOf, Entry, Frozen
<1>6. PICK r : r = Append(s, e)
  OBVIOUS
<1>7. r \in Seq(EntryOf(k))
  BY <1>3, <1>5, <1>6, AppendProperties
<1>8. /\ \A j : HasId(r, j) <=> HasId(s, j) \/ j = i
      /\ \A j : OneId(s, j) /\ (j = i => ~ HasId(s, j)) => OneId(r, j)
      /\ \A mask : Flagged(s, mask) /\ e.frozen = Frozen(e.id, mask) => Flagged(r, mask)
  BY <1>3, <1>5, <1>6, ListAppend
<1>9. Flagged(s, v.mask) => Flagged(r, v.mask)
  BY <1>5, <1>8
<1>10. CASE Len(s) < UI_MAX[k]
  <2>1. PICK w : w = [v EXCEPT ![k] = r]
    OBVIOUS
  <2>2. Spawned(v, i) = w
    BY <1>1, <1>2, <1>4, <1>6, <1>10, <2>1 DEF Spawned
  <2>3. /\ \A j \in Item : j # i => SameItem(v, w, j)
        /\ \A t : SameTag(v, w, t)
        /\ Honest(v) => Honest(w)
    BY <1>2, <1>7, <1>8, <1>9, <2>1, ListPutItems
  <2>4. w[k] = r
    BY <1>7, <2>1, ListPutGet
  <2>5. InList(w, i)
    BY <1>1, <1>8, <2>4 DEF InList
  <2>6. ~ InList(v, i) => Once(w, i)
    <3>1. ~ HasId(s, i) => OneId(s, i)
      BY DEF HasId, OneId
    <3>2. QED
      BY <1>1, <1>2, <1>8, <2>4, <3>1 DEF InList, Once
  <2>7. QED
    BY <2>2, <2>3, <2>5, <2>6
<1>11. CASE ~ (Len(s) < UI_MAX[k])
  <2>1. Spawned(v, i) = v
    BY <1>1, <1>2, <1>11 DEF Spawned
  <2>2. QED
    BY <1>1, <1>2, <1>11, <2>1 DEF SameItem, SameTag
<1>12. QED
  BY <1>10, <1>11

LEMMA RemovedLists ==
    ASSUME NEW v \in View, Fits(v), NEW i \in Item
    PROVE  LET w == Removed(v, i)
           IN  /\ \A j \in Item : j # i => SameItem(v, w, j)
               /\ \A t : SameTag(v, w, t)
               /\ Honest(v) => Honest(w)
               /\ Once(v, i) => ~ InList(w, i)
<1>1. PICK k \in Kinds : k = Kind(i)
  BY KindIs
<1>2. PICK s : s = v[k]
  OBVIOUS
<1>3. s \in Seq(EntryOf(k))
  BY <1>2, ListGet
<1>4. PICK n : /\ n = 0 => ~ HasId(s, i)
               /\ n # 0 => n \in DOMAIN s /\ s[n].id = i
               /\ Removed(v, i) = IF n = 0 THEN v
                                  ELSE [v EXCEPT ![k] = Front([s EXCEPT ![n] = Last(s)])]
  <2> DEFINE m == SelectInSeq(s, LAMBDA e : e.id = i)
  <2>1. (m = 0 => ~ HasId(s, i)) /\ (m # 0 => m \in DOMAIN s /\ s[m].id = i)
    BY <1>3, FirstOfList
  <2>2. Removed(v, i) = IF m = 0 THEN v
                        ELSE [v EXCEPT ![k] = Front([s EXCEPT ![m] = Last(s)])]
    BY <1>1, <1>2 DEF Removed
  <2> HIDE DEF m
  <2>3. QED
    BY <2>1, <2>2
<1>5. CASE n = 0
  <2>1. Removed(v, i) = v /\ ~ InList(v, i)
    BY <1>1, <1>2, <1>4, <1>5 DEF InList
  <2>2. QED
    BY <2>1 DEF SameItem, SameTag
<1>6. CASE n # 0
  <2>1. PICK r : r = Front([s EXCEPT ![n] = Last(s)])
    OBVIOUS
  <2>2. n \in DOMAIN s /\ s[n].id = i
    BY <1>4, <1>6
  <2>3. r \in Seq(EntryOf(k))
    <3>1. Len(s) \in Nat /\ Len(s) > 0
      BY <1>3, <2>2, LenProperties
    <3>2. QED
      BY <1>3, <2>1, <3>1, DropOne
  <2>4. /\ \A j : j # i => (HasId(r, j) <=> HasId(s, j))
        /\ \A j : OneId(s, j) => OneId(r, j)
        /\ OneId(s, i) => ~ HasId(r, i)
        /\ \A mask : Flagged(s, mask) => Flagged(r, mask)
    BY <1>3, <2>1, <2>2, ListDrop
  <2>5. PICK w : w = [v EXCEPT ![k] = r]
    OBVIOUS
  <2>6. Removed(v, i) = w
    BY <1>4, <1>6, <2>1, <2>5
  <2>7. /\ \A j \in Item : j # i => SameItem(v, w, j)
        /\ \A t : SameTag(v, w, t)
        /\ Honest(v) => Honest(w)
    BY <1>2, <2>3, <2>4, <2>5, ListPutItems
  <2>8. w[k] = r
    BY <2>3, <2>5, ListPutGet
  <2>9. Once(v, i) => ~ InList(w, i)
    BY <1>1, <1>2, <2>4, <2>8 DEF Once, InList
  <2>10. QED
    BY <2>6, <2>7, <2>9
<1>7. QED
  BY <1>5, <1>6

LEMMA RefrozenLists ==
    ASSUME NEW v \in View, Fits(v), NEW mask \in SUBSET Tag
    PROVE  LET w == Refrozen(v, mask)
           IN  /\ \A j \in Item : SameItem(v, w, j)
               /\ w.mask = mask
               /\ Honest(w)
<1>1. PICK s : s = v["mkt"]
  OBVIOUS
<1>2. s \in Seq(EntryOf("mkt"))
  BY <1>1, ListGet DEF Kinds
<1>3. PICK r : r = Marked(s, mask)
  OBVIOUS
<1>4. PICK w : w = [v EXCEPT !.mask = mask, !.mkt = r]
  OBVIOUS
<1>5. Refrozen(v, mask) = w
  BY <1>1, <1>3, <1>4 DEF Refrozen
<1>6. w["mkt"] = r /\ w["npc"] = v["npc"] /\ w.mask = mask
  BY <1>4 DEF View
<1>7. \A n \in DOMAIN s : s[n] \in Entry
  BY <1>2, ElementOfSeq, LenProperties DEF EntryOf
<1>8. DOMAIN r = DOMAIN s
      /\ \A n \in DOMAIN s : r[n].id = s[n].id /\ r[n].frozen = Frozen(r[n].id, mask)
  <2>1. \A e \in Entry : LET f == [e EXCEPT !.frozen = Frozen(e.id, mask)]
                         IN  f.id = e.id /\ f.frozen = Frozen(f.id, mask)
    BY DEF Entry
  <2>2. QED
    BY <1>3, <1>7, <2>1 DEF Marked
<1>9. \A j \in Item : SameItem(v, w, j)
  <2>1. \A j : (HasId(r, j) <=> HasId(s, j)) /\ (OneId(s, j) => OneId(r, j))
    BY <1>8 DEF HasId, OneId
  <2>2. QED
    BY <1>1, <1>6, <2>1, KindIs DEF SameItem, InList, Once, Kinds
<1>10. Honest(w)
  BY <1>6, <1>8 DEF Honest, Flagged
<1>11. QED
  BY <1>5, <1>6, <1>9, <1>10

LEMMA EmptyLists ==
    /\ \A i : ~ InList(EmptyView, i) /\ Once(EmptyView, i)
    /\ EmptyView.mask = {} /\ Honest(EmptyView)
<1>1. EmptyView["mkt"] = <<>> /\ EmptyView["npc"] = <<>> /\ EmptyView.mask = {}
  BY DEF EmptyView
<1>2. DOMAIN EmptyView["mkt"] = {} /\ DOMAIN EmptyView["npc"] = {}
  BY <1>1
<1>3. \A i : DOMAIN EmptyView[Kind(i)] = {}
  BY <1>2, KindIs DEF Kinds
<1>4. QED
  BY <1>1, <1>2, <1>3 DEF InList, Once, Honest, HasId, OneId, Flagged

LEMMA AppliedLists ==
    ASSUME NEW v \in View, Fits(v), NEW p \in Packet
    PROVE  LET w == Applied(v, p)
           IN  /\ \A i \in Item : i \notin About(p) => SameItem(v, w, i)
               /\ \A t \in Tag : t \notin About(p) => SameTag(v, w, t)
               /\ Honest(v) => Honest(w)
<1>1. \A i : SameItem(v, v, i) /\ SameTag(v, v, i)
  BY DEF SameItem, SameTag
<1>2. CASE p.type = "SPAWN"
  <2>1. Applied(v, p) = Spawned(v, p.id) /\ About(p) = {p.id} /\ p.id \in Item
    BY <1>2, PacketForms DEF Applied, About
  <2>2. QED
    BY <2>1, SpawnedLists
<1>3. CASE p.type = "REMOVE"
  <2>1. Applied(v, p) = Removed(v, p.id) /\ About(p) = {p.id} /\ p.id \in Item
    BY <1>3, PacketForms DEF Applied, About
  <2>2. QED
    BY <2>1, RemovedLists
<1>4. CASE p.type \in {"NEWS_LEAK", "NEWS_RECOVER"}
  <2>1. p.tags \in SUBSET Tag /\ v.mask \in SUBSET Tag /\ About(p) = p.tags
    BY <1>4, PacketForms DEF View, About
  <2>2. PICK mask \in SUBSET Tag : /\ Applied(v, p) = Refrozen(v, mask)
                                  /\ \A t : t \notin p.tags => (t \in mask <=> t \in v.mask)
    <3>1. CASE p.type = "NEWS_LEAK"
      <4>1. Applied(v, p) = Refrozen(v, v.mask \cup p.tags) /\ v.mask \cup p.tags \in SUBSET Tag
        BY <2>1, <3>1 DEF Applied
      <4>2. QED
        BY <4>1
    <3>2. CASE p.type = "NEWS_RECOVER"
      <4>1. Applied(v, p) = Refrozen(v, v.mask \ p.tags) /\ v.mask \ p.tags \in SUBSET Tag
        BY <2>1, <3>2 DEF Applied
      <4>2. QED
        BY <4>1
    <3>3. QED
      BY <1>4, <3>1, <3>2
  <2>3. QED
    BY <2>1, <2>2, RefrozenLists DEF SameTag
<1>5. CASE p.type = "ROUND_RESET"
  <2>1. Applied(v, p) = EmptyView /\ About(p) = Item \cup Tag
    BY <1>5 DEF Applied, About
  <2>2. QED
    BY <2>1, EmptyLists
<1>6. CASE p.type \notin {"SPAWN", "REMOVE", "NEWS_LEAK", "NEWS_RECOVER", "ROUND_RESET"}
  <2>1. Applied(v, p) = v
    BY <1>6 DEF Applied
  <2>2. QED
    BY <1>1, <2>1
<1>7. QED
  BY <1>2, <1>3, <1>4, <1>5, <1>6

-----------------------------------------------------------------------------
\* What is still to be told about an item or a tag, and by whom.

Spawners(i) == {a \in Actor : PktSpawn(i) \in busy[a]}
Removers(i) == {a \in Actor : PktRemove(i) \in busy[a]}
Tellers(x) == {a \in Actor : \E p \in busy[a] : x \in About(p)}
Clearing == \E p \in busy["reset"] : p.type = "ROUND_RESET"

Sole(S) == \A a, b \in S : a = b

\* The snapshots of a kind that the handler of the client, and a reset, send have been
\* taken.
Taken == [handler |-> [mkt |-> {"npc", "mask", "ready"}, npc |-> {"mask", "ready"}],
          reset |-> [mkt |-> {"npc", "idle"}, npc |-> {"idle"}]]
Shown(kind) == at.handler \in Taken.handler[kind] /\ at.reset \in Taken.reset[kind]

Places == [handler : {"login", "named", "mkt", "npc", "mask", "ready"},
           reset : {"mkt", "npc", "idle"}]

\* One thread says one thing about an item or a tag, and the resetting thread clears the
\* board before it sends the new one.
OneEach ==
    \A a \in Actor : \A p \in busy[a] :
        /\ p.type = "ROUND_RESET" => a = "reset" /\ at.reset = "mkt"
        /\ \A q \in busy[a] : \A x \in About(p) : x \in About(q) => p = q

\* Of an item that has not been listed nobody has heard.
Unheard ==
    /\ SEEDS \cap fresh = {} /\ board \cap fresh = {}
    /\ \A i \in fresh : ~ InList(coming, i) /\ Spawners(i) = {} /\ Removers(i) = {}

Tidy == at \in Places /\ OneEach /\ Unheard

\* An item listed by the server or not, with the threads S and R that have to announce
\* its listing and its removal, and the client's list when the wire is empty.
Follows(listed, S, R, shown, in, once) ==
    /\ once
    /\ R # {} => ~ listed
    /\ S # {} => ~ in /\ (listed \/ R # {})
    /\ S = {} => /\ (listed /\ shown) => in
                 /\ (~ listed /\ R = {}) => ~ in

ItemFollows(i) ==
    (i \notin crossed /\ ~ Clearing /\ Sole(Spawners(i)))
        => Follows(i \in board, Spawners(i), Removers(i), Shown(Kind(i)),
                   InList(coming, i), Once(coming, i))

TagFollows(t) ==
    t \notin crossed =>
        /\ Tellers(t) = {} =>
              /\ t \in coming.mask => t \in frozen
              /\ (at.handler = "ready" /\ t \in frozen) => t \in coming.mask
        /\ Sole(Tellers(t)) =>
              \A a \in Actor : \A p \in busy[a] :
                  t \in About(p) => (p.type = "NEWS_LEAK" <=> t \in frozen)

MirrorInv ==
    /\ coming \in View /\ Fits(coming) /\ Honest(coming)
    /\ Tidy
    /\ \A i \in Item : ItemFollows(i)
    /\ \A t \in Tag : TagFollows(t)

LEMMA PacketsApart ==
    /\ \A i, j : PktSpawn(i) # PktRemove(j) /\ PktSpawn(i).type = "SPAWN" /\ PktRemove(i).type = "REMOVE"
    /\ \A i, j : PktSpawn(i) = PktSpawn(j) => i = j
    /\ \A i, j : PktRemove(i) = PktRemove(j) => i = j
    /\ \A i : About(PktSpawn(i)) = {i} /\ About(PktRemove(i)) = {i}
BY DEF PktSpawn, PktRemove, About

\* What is said about an item, and about a tag.
LEMMA AboutItem ==
    ASSUME NEW p \in Packet, NEW i \in Item, i \in About(p)
    PROVE  p = PktSpawn(i) \/ p = PktRemove(i) \/ p.type = "ROUND_RESET"
<1>1. p.type \in {"SPAWN", "REMOVE", "ROUND_RESET"}
  <2>1. p.type \in {"NEWS_LEAK", "NEWS_RECOVER"} => i \in Tag
    BY PacketForms DEF About
  <2>2. i \notin Tag
    BY ClientAssumption
  <2>3. QED
    BY <2>1, <2>2 DEF About
<1>2. CASE p.type \in {"SPAWN", "REMOVE"}
  <2>1. p.id = i
    BY <1>2 DEF About
  <2>2. p = [type |-> p.type, id |-> p.id]
    BY <1>2 DEF Packet
  <2>3. QED
    BY <1>2, <2>1, <2>2 DEF PktSpawn, PktRemove
<1>3. QED
  BY <1>1, <1>2

LEMMA AboutTag ==
    ASSUME NEW p \in Packet, NEW t \in Tag, t \in About(p)
    PROVE  p.type \in {"NEWS_LEAK", "NEWS_RECOVER", "ROUND_RESET"}
<1>1. p.type \in {"SPAWN", "REMOVE"} => t \in Item
  BY PacketForms DEF About
<1>2. t \notin Item
  BY ClientAssumption
<1>3. QED
  BY <1>1, <1>2 DEF About

\* The steps, as far as the lists go.

MirrorSame == UNCHANGED <<busy, coming, board, fresh, frozen, crossed, at>>

\* Packet p of actor a is put on the wire.
Passes(a, p) ==
    /\ p \in busy[a] /\ busy' = [busy EXCEPT ![a] = @ \ {p}]
    /\ coming' = Applied(coming, p)
    /\ crossed' = (crossed \ IF p.type = "ROUND_RESET" THEN Item ELSE {})
                  \cup {x \in About(p) : \E b \in Actor \ {a} :
                            \E q \in busy[b] : Crosses(p, q, x)}
                  \cup Unshown(p)
    /\ UNCHANGED <<board, fresh, frozen, at>>

\* Actor a has packets to send.
Has(a, P) ==
    /\ busy[a] = {} /\ busy' = [busy EXCEPT ![a] = P] /\ P \subseteq Packet
    /\ UNCHANGED coming

\* They are about nothing on the lists; the client may be logging in.
Chats(a, P) ==
    /\ Has(a, P) /\ \A p \in P : About(p) = {} /\ p.type # "ROUND_RESET"
    /\ UNCHANGED <<board, fresh, frozen, crossed>>
    /\ at' \in Places /\ at'.reset = at.reset
    /\ \/ at'.handler = at.handler
       \/ at.handler \in {"login", "named"} /\ at'.handler \in {"named", "mkt"}

Lists(a, i) ==
    /\ Has(a, {PktSpawn(i)}) /\ i \in fresh /\ board' = board \cup {i} /\ fresh' = fresh \ {i}
    /\ UNCHANGED <<frozen, crossed, at>>

Unlists(a, i) ==
    /\ Has(a, {PktRemove(i)}) /\ i \in board /\ board' = board \ {i}
    /\ UNCHANGED <<fresh, frozen, crossed, at>>

\* A tag is frozen or thawed, with a packet or without.
Leaks(t) ==
    /\ Has("event", {PktLeak({t})}) /\ t \in Tag /\ t \notin frozen /\ frozen' = frozen \cup {t}
    /\ UNCHANGED <<board, fresh, crossed, at>>

Thaws(t) ==
    /\ Has("recovery", {PktRecover(t)}) /\ t \in Tag /\ frozen' = frozen \ {t}
    /\ UNCHANGED <<board, fresh, crossed, at>>

Forgets(t) ==
    /\ frozen' = frozen \ {t} /\ crossed' = crossed \cup {t} /\ t \in Tag
    /\ UNCHANGED <<busy, coming, board, fresh, at>>

Resets ==
    /\ Has("reset", {Plain("ROUND_RESET")}) /\ board' = SEEDS /\ frozen' = {}
    /\ at.reset = "idle" /\ at' = [at EXCEPT !.reset = "mkt"] /\ UNCHANGED <<fresh, crossed>>

Shows(who, kind) ==
    /\ Has(who, {PktSpawn(i) : i \in Listed(kind)}) /\ at[who] = kind
    /\ at' = [at EXCEPT ![who] = After[who][kind]]
    /\ crossed' = crossed \cup (Listed(kind) \cap Ids(coming[kind]))
    /\ UNCHANGED <<board, fresh, frozen>>

Masks ==
    /\ Has("handler", IF frozen = {} THEN {} ELSE {PktLeak(frozen)})
    /\ at.handler = "mask" /\ at' = [at EXCEPT !.handler = "ready"]
    /\ UNCHANGED <<board, fresh, frozen, crossed>>

MirrorStep ==
    \/ MirrorSame \/ Resets \/ Masks
    \/ \E a \in Actor : \/ \E p : Passes(a, p)
                        \/ \E P : Chats(a, P)
                        \/ \E i \in Item : Lists(a, i) \/ Unlists(a, i)
    \/ \E t \in Tag : Leaks(t) \/ Thaws(t) \/ Forgets(t)
    \/ \E who \in {"handler", "reset"}, kind \in Kinds : Shows(who, kind)

LEMMA PlainAbout ==
    \A ty \in {"LOGIN_OK", "SCOREBOARD", "MINIGAME_OK", "GAME_OVER"} :
        Plain(ty) \in Packet /\ About(Plain(ty)) = {} /\ Plain(ty).type # "ROUND_RESET"
BY PacketForms DEF Plain, About

\* One plain packet, or none, while the login stays where it is.
LEMMA PlainChats ==
    ASSUME at \in Places, UNCHANGED <<coming, board, fresh, frozen, crossed, at>>,
           NEW a \in Actor, busy[a] = {},
           NEW P, busy' = [busy EXCEPT ![a] = P], P \subseteq Packet,
           \A p \in P : About(p) = {} /\ p.type # "ROUND_RESET"
    PROVE  Chats(a, P)
BY DEF Chats, Has

LEMMA BoardSteps ==
    ASSUME Types, at \in Places, BoardEvent
    PROVE  MirrorStep
<1>1. board \subseteq Item /\ fresh \subseteq Item
  BY DEF Types, BoardTypes
<1>2. ASSUME NEW a \in {"event", "npc"}, NEW kind, ListNext(a, kind)
      PROVE  MirrorStep
  <2>1. PICK i \in fresh : /\ Announce(a, PktSpawn(i)) /\ board' = board \cup {i}
                           /\ fresh' = fresh \ {i} /\ UNCHANGED <<frozen, crossed, at>>
    BY <1>2 DEF ListNext
  <2>2. i \in Item /\ PktSpawn(i) \in Packet /\ a \in Actor
    BY <1>1, PacketForms DEF Actor
  <2>3. Lists(a, i)
    BY <2>1, <2>2 DEF Announce, Lists, Has
  <2>4. QED
    BY <2>2, <2>3 DEF MirrorStep
<1>3. ASSUME NEW a \in {"event", "trader"}, NEW i \in Item, Unlist(a, i)
      PROVE  MirrorStep
  <2>1. PktRemove(i) \in Packet /\ a \in Actor
    BY PacketForms DEF Actor
  <2>2. Unlists(a, i)
    BY <1>3, <2>1 DEF Unlist, Announce, Unlists, Has
  <2>3. QED
    BY <2>1, <2>2 DEF MirrorStep
<1>4. ASSUME NEW t \in Tag, LeakTag(t)
      PROVE  MirrorStep
  <2>1. PktLeak({t}) \in Packet
    BY PacketForms
  <2>2. Leaks(t)
    BY <1>4, <2>1 DEF LeakTag, Announce, Leaks, Has
  <2>3. QED
    BY <2>2 DEF MirrorStep
<1>5. ASSUME NEW t \in Tag, LeakArm(t)
      PROVE  MirrorStep
  <2>1. MirrorSame \/ Forgets(t)
    BY <1>5 DEF LeakArm, MirrorSame, Forgets
  <2>2. QED
    BY <2>1 DEF MirrorStep
<1>6. ASSUME NEW t \in Tag, Thaw(t)
      PROVE  MirrorStep
  <2>1. PktRecover(t) \in Packet
    BY PacketForms
  <2>2. Thaws(t)
    BY <1>6, <2>1 DEF Thaw, Announce, Thaws, Has
  <2>3. QED
    BY <2>2 DEF MirrorStep
<1>7. QED
  BY <1>2, <1>3, <1>4, <1>5, <1>6 DEF BoardEvent

LEMMA SnapshotSteps ==
    ASSUME Types, at \in Places, NEW who \in {"handler", "reset"}, Sync(who)
    PROVE  MirrorStep
<1>1. board \subseteq Item
  BY DEF Types, BoardTypes
<1>2. PICK kind \in Kinds : Snapshot(who, kind)
  BY DEF Sync, Kinds
<1>3. PICK P : P = {PktSpawn(i) : i \in Listed(kind)}
  OBVIOUS
<1>4. P \subseteq Packet
  <2>1. Listed(kind) \subseteq Item
    BY <1>1 DEF Listed
  <2>2. QED
    BY <1>3, <2>1, PacketForms
<1>5. Shows(who, kind)
  BY <1>2, <1>3, <1>4 DEF Snapshot, Shows, Has
<1>6. QED
  BY <1>5 DEF MirrorStep

LEMMA RoundSteps ==
    ASSUME Types, at \in Places, RoundEvent
    PROVE  MirrorStep
<1>1. ASSUME NEW a \in {"event", "trader"}, ShowScores(a)
      PROVE  MirrorStep
  <2>1. PICK P : P = {Plain("SCOREBOARD")}
    OBVIOUS
  <2>2. P \subseteq Packet /\ \A p \in P : About(p) = {} /\ p.type # "ROUND_RESET"
    BY <2>1, PlainAbout
  <2>3. Chats(a, P)
    BY <1>1, <2>1, <2>2, PlainChats DEF ShowScores, Announce, Actor
  <2>4. QED
    BY <2>3 DEF MirrorStep, Actor
<1>2. CASE ResetRound
  <2>1. Plain("ROUND_RESET") \in Packet
    BY PacketForms
  <2>2. Resets
    BY <1>2, <2>1 DEF ResetRound, Announce, Resets, Has
  <2>3. QED
    BY <2>2 DEF MirrorStep
<1>3. QED
  BY <1>1, <1>2, SnapshotSteps DEF RoundEvent

LEMMA HandlerSteps ==
    ASSUME Types, at \in Places, Login \/ HandleSubmit
    PROVE  MirrorStep
<1>1. ASSUME NEW P, P \subseteq Packet, \A p \in P : About(p) = {} /\ p.type # "ROUND_RESET",
             HandlerStep("ready", "ready", P)
      PROVE  MirrorStep
  <2>1. at' = [at EXCEPT !.handler = "ready"] /\ at.handler = "ready"
    BY <1>1 DEF HandlerStep
  <2>2. UNCHANGED at
    BY <2>1 DEF Places
  <2>3. Chats("handler", P)
    BY <1>1, <2>2, PlainChats DEF HandlerStep, Actor
  <2>4. QED
    BY <2>3 DEF MirrorStep, Actor
<1>2. CASE HandleSubmit
  <2>1. PICK P : /\ HandlerStep("ready", "ready", P)
                 /\ P = {} \/ P = {Plain("MINIGAME_OK")} \/ P = {Plain("GAME_OVER")}
    BY <1>2 DEF HandleSubmit
  <2>2. P \subseteq Packet /\ \A p \in P : About(p) = {} /\ p.type # "ROUND_RESET"
    BY <2>1, PlainAbout
  <2>3. QED
    BY <1>1, <2>1, <2>2
<1>3. ASSUME NEW from \in {"login", "named"}, NEW to \in {"named", "mkt"}, NEW P, P \subseteq Packet,
             \A p \in P : About(p) = {} /\ p.type # "ROUND_RESET", HandlerStep(from, to, P)
      PROVE  MirrorStep
  <2>1. at' = [at EXCEPT !.handler = to] /\ at.handler = from
    BY <1>3 DEF HandlerStep
  <2>2. at' \in Places /\ at'.handler = to /\ at'.reset = at.reset
    BY <2>1 DEF Places
  <2>3. Has("handler", P)
    BY <1>3 DEF HandlerStep, Has
  <2>4. Chats("handler", P)
    BY <1>3, <2>1, <2>2, <2>3 DEF HandlerStep, Chats
  <2>5. QED
    BY <2>4 DEF MirrorStep, Actor
<1>4. CASE Register
  BY <1>3, <1>4 DEF Register
<1>5. CASE LoginOk
  BY <1>3, <1>5, PlainAbout DEF LoginOk
<1>6. CASE SendMask
  <2>1. PICK P : P = IF frozen = {} THEN {} ELSE {PktLeak(frozen)}
    OBVIOUS
  <2>2. P \subseteq Packet
    BY <2>1, PacketForms DEF Types, BoardTypes
  <2>3. Masks
    BY <1>6, <2>1, <2>2 DEF SendMask, HandlerStep, Masks, Has
  <2>4. QED
    BY <2>3 DEF MirrorStep
<1>7. QED
  BY <1>2, <1>4, <1>5, <1>6 DEF Login

LEMMA RaidSteps ==
    ASSUME Types, at \in Places, FireRaid \/ RaidThreads
    PROVE  MirrorStep
<1>1. CASE FireRaid
  <2>1. PICK n \in Nat : n = raid.code + 1
    BY DEF Types, WireTypes, RaidRecord
  <2>2. {PktRaid(n)} \subseteq Packet /\ \A p \in {PktRaid(n)} : About(p) = {} /\ p.type # "ROUND_RESET"
    BY PacketForms DEF PktRaid, About
  <2>3. Announce("event", PktRaid(n)) /\ UNCHANGED <<board, frozen, fresh, at, crossed>>
    BY <1>1, <2>1, Zenon DEF FireRaid
  <2>4. Chats("event", {PktRaid(n)})
    BY <2>2, <2>3, PlainChats DEF Announce, Actor
  <2>5. QED
    BY <2>4 DEF MirrorStep, Actor
<1>2. CASE RaidArm
  BY <1>2, Zenon DEF RaidArm, RaidStep, MirrorSame, MirrorStep
<1>3. CASE RaidTimeout
  <2>1. PICK P : P = IF raid.waits THEN {Plain("GAME_OVER")} ELSE {}
    OBVIOUS
  <2>2. P \subseteq Packet /\ \A p \in P : About(p) = {} /\ p.type # "ROUND_RESET"
    BY <2>1, PlainAbout
  <2>3. Chats("timer", P)
    BY <1>3, <2>1, <2>2, PlainChats DEF RaidTimeout, RaidStep, Actor
  <2>4. QED
    BY <2>3 DEF MirrorStep, Actor
<1>4. QED
  BY <1>1, <1>2, <1>3 DEF RaidThreads

LEMMA MirrorSteps ==
    ASSUME Types, at \in Places, [ClientNext]_cvars
    PROVE  MirrorStep
<1>1. CASE Recv \/ Quit \/ (\E right \in BOOLEAN : Answer(right)) \/ UNCHANGED cvars
  <2>1. MirrorSame
    BY <1>1 DEF Recv, RecvFirst, RecvList, RecvRaid, RecvOk, RecvScores, RecvReset,
                RecvGameOver, Receive, Quit, Answer, cvars, server, MirrorSame
  <2>2. QED
    BY <2>1 DEF MirrorStep
<1>2. ASSUME NEW a \in Actor, Send(a)
      PROVE  MirrorStep
  BY <1>2 DEF Send, Passes, server, MirrorStep
<1>3. QED
  BY <1>1, <1>2, BoardSteps, RoundSteps, HandlerSteps, SnapshotSteps, RaidSteps
     DEF ClientNext, Handler

-----------------------------------------------------------------------------
\* Who has something to say after a step.

LEMMA SaidHas ==
    ASSUME WireTypes, NEW a \in Actor, NEW P, Has(a, P)
    PROVE  /\ \A b \in Actor : busy'[b] = IF b = a THEN P ELSE busy[b]
           /\ \A i : /\ a \notin Spawners(i) /\ a \notin Removers(i) /\ a \notin Tellers(i)
                     /\ Spawners(i)' = IF PktSpawn(i) \in P THEN Spawners(i) \cup {a} ELSE Spawners(i)
                     /\ Removers(i)' = IF PktRemove(i) \in P THEN Removers(i) \cup {a} ELSE Removers(i)
                     /\ Tellers(i)' = IF \E p \in P : i \in About(p) THEN Tellers(i) \cup {a}
                                                                   ELSE Tellers(i)
           /\ Clearing' <=> Clearing \/ (a = "reset" /\ \E p \in P : p.type = "ROUND_RESET")
<1>1. busy[a] = {} /\ \A b \in Actor : busy'[b] = IF b = a THEN P ELSE busy[b]
  BY DEF WireTypes, Has
<1>2. "reset" \in Actor
  BY DEF Actor
<1>3. Clearing' <=> Clearing \/ (a = "reset" /\ \E p \in P : p.type = "ROUND_RESET")
  BY <1>1, <1>2 DEF Clearing
<1>4. ASSUME NEW i
      PROVE  /\ a \notin Spawners(i)
             /\ Spawners(i)' = IF PktSpawn(i) \in P THEN Spawners(i) \cup {a} ELSE Spawners(i)
  BY <1>1 DEF Spawners, PktSpawn
<1>5. ASSUME NEW i
      PROVE  /\ a \notin Removers(i)
             /\ Removers(i)' = IF PktRemove(i) \in P THEN Removers(i) \cup {a} ELSE Removers(i)
  BY <1>1 DEF Removers, PktRemove
<1>6. ASSUME NEW i
      PROVE  /\ a \notin Tellers(i)
             /\ Tellers(i)' = IF \E p \in P : i \in About(p) THEN Tellers(i) \cup {a} ELSE Tellers(i)
  <2>1. \A b \in Actor : b \in Tellers(i)' <=> \E p \in busy'[b] : i \in About(p)
    BY DEF Tellers, About
  <2>2. \A b \in Actor : b \in Tellers(i) <=> \E p \in busy[b] : i \in About(p)
    BY DEF Tellers
  <2>3. Tellers(i) \subseteq Actor /\ Tellers(i)' \subseteq Actor
    BY DEF Tellers
  <2>4. QED
    BY <1>1, <2>1, <2>2, <2>3
<1>7. QED
  BY <1>1, <1>3, <1>4, <1>5, <1>6

LEMMA SaidPasses ==
    ASSUME WireTypes, OneEach, NEW a \in Actor, NEW p, Passes(a, p)
    PROVE  /\ p \in Packet
           /\ \A b \in Actor : busy'[b] = IF b = a THEN busy[a] \ {p} ELSE busy[b]
           /\ \A i : /\ p = PktSpawn(i) => a \in Spawners(i)
                     /\ p = PktRemove(i) => a \in Removers(i)
                     /\ Spawners(i)' = IF p = PktSpawn(i) THEN Spawners(i) \ {a} ELSE Spawners(i)
                     /\ Removers(i)' = IF p = PktRemove(i) THEN Removers(i) \ {a} ELSE Removers(i)
                     /\ i \in About(p) => a \in Tellers(i) /\ Tellers(i)' = Tellers(i) \ {a}
                     /\ i \notin About(p) => Tellers(i)' = Tellers(i)
           /\ p.type = "ROUND_RESET" => a = "reset" /\ ~ Clearing'
           /\ p.type # "ROUND_RESET" => (Clearing' <=> Clearing)
<1>1. p \in busy[a] /\ \A b \in Actor : busy'[b] = IF b = a THEN busy[a] \ {p} ELSE busy[b]
  BY DEF WireTypes, Passes
<1>2. p \in Packet
  BY <1>1 DEF WireTypes
<1>3. "reset" \in Actor
  BY DEF Actor
<1>4. ASSUME NEW i
      PROVE  /\ p = PktSpawn(i) => a \in Spawners(i)
             /\ Spawners(i)' = IF p = PktSpawn(i) THEN Spawners(i) \ {a} ELSE Spawners(i)
  BY <1>1 DEF Spawners, PktSpawn
<1>5. ASSUME NEW i
      PROVE  /\ p = PktRemove(i) => a \in Removers(i)
             /\ Removers(i)' = IF p = PktRemove(i) THEN Removers(i) \ {a} ELSE Removers(i)
  BY <1>1 DEF Removers, PktRemove
<1>6. ASSUME NEW i
      PROVE  /\ i \in About(p) => a \in Tellers(i) /\ Tellers(i)' = Tellers(i) \ {a}
             /\ i \notin About(p) => Tellers(i)' = Tellers(i)
  <2>1. \A b \in Actor : b \in Tellers(i)' <=> \E q \in busy'[b] : i \in About(q)
    BY DEF Tellers, About
  <2>2. \A b \in Actor : b \in Tellers(i) <=> \E q \in busy[b] : i \in About(q)
    BY DEF Tellers
  <2>3. Tellers(i) \subseteq Actor /\ Tellers(i)' \subseteq Actor
    BY DEF Tellers
  <2>4. \A q \in busy[a] : i \in About(p) /\ i \in About(q) => p = q
    BY <1>1 DEF OneEach
  <2>5. QED
    BY <1>1, <2>1, <2>2, <2>3, <2>4
<1>7. p.type = "ROUND_RESET" => a = "reset"
  BY <1>1 DEF OneEach
<1>8. ASSUME p.type = "ROUND_RESET"
      PROVE  ~ Clearing'
  <2>1. ASSUME NEW q \in busy[a], q.type = "ROUND_RESET"
        PROVE  q = p
    <3>1. q \in Packet
      BY <2>1 DEF WireTypes
    <3>2. q = [type |-> "ROUND_RESET"] /\ p = [type |-> "ROUND_RESET"]
      BY <1>2, <1>8, <2>1, <3>1 DEF Packet
    <3>3. QED
      BY <3>2
  <2>2. QED
    BY <1>1, <1>3, <1>7, <1>8, <2>1 DEF Clearing
<1>9. p.type # "ROUND_RESET" => (Clearing' <=> Clearing)
  BY <1>1, <1>3 DEF Clearing
<1>10. QED
  BY <1>1, <1>2, <1>4, <1>5, <1>6, <1>7, <1>8, <1>9

\* The login and the reset go on with a snapshot.
LEMMA ShowsPlaces ==
    ASSUME at \in Places, NEW who \in {"handler", "reset"}, NEW kind \in Kinds, Shows(who, kind)
    PROVE  /\ at' \in Places
           /\ at'.handler = at.handler \/ at'.handler \in {"npc", "mask"}
           /\ \A other \in Kinds : other # kind /\ Shown(other)' => Shown(other)
           /\ who = "handler" => at'.reset = at.reset
<1>1. at[who] = kind /\ at' = [at EXCEPT ![who] = After[who][kind]]
  BY DEF Shows
<1>2. CASE who = "handler"
  <2>1. at.handler = kind /\ at'.reset = at.reset /\ at' \in Places
        /\ at'.handler = IF kind = "mkt" THEN "npc" ELSE "mask"
    BY <1>1, <1>2 DEF Places, After, Kinds
  <2>2. QED
    BY <1>2, <2>1 DEF Shown, Taken, Kinds
<1>3. CASE who = "reset"
  <2>1. at.reset = kind /\ at'.handler = at.handler /\ at' \in Places
        /\ at'.reset = IF kind = "mkt" THEN "npc" ELSE "idle"
    BY <1>1, <1>3 DEF Places, After, Kinds
  <2>2. QED
    BY <1>3, <2>1 DEF Shown, Taken, Kinds
<1>4. QED
  BY <1>2, <1>3

LEMMA PlacesNext ==
    ASSUME at \in Places, MirrorStep
    PROVE  at' \in Places
<1>1. \A a, p : Passes(a, p) => UNCHANGED at
  BY DEF Passes
<1>2. \A a, P : Chats(a, P) => at' \in Places
  BY DEF Chats
<1>3. \A a, i : Lists(a, i) \/ Unlists(a, i) => UNCHANGED at
  BY DEF Lists, Unlists
<1>4. \A t : Leaks(t) \/ Thaws(t) \/ Forgets(t) => UNCHANGED at
  BY DEF Leaks, Thaws, Forgets
<1>5. MirrorSame \/ Resets \/ Masks => at' \in Places
  BY DEF MirrorSame, Resets, Masks, Places
<1>6. QED
  BY <1>1, <1>2, <1>3, <1>4, <1>5, ShowsPlaces DEF MirrorStep

\* The lists that are coming, after a step.
LEMMA ComingIs ==
    ASSUME NEW c, coming' = c
    PROVE  /\ \A i : (InList(coming, i)' <=> InList(c, i)) /\ (Once(coming, i)' <=> Once(c, i))
           /\ Honest(coming)' <=> Honest(c)
           /\ Fits(coming)' <=> Fits(c)
BY DEF InList, Once, HasId, OneId, Kind, Honest, Flagged, Frozen, Fits

LEMMA OneEachHas ==
    ASSUME WireTypes, OneEach, NEW a \in Actor, NEW P, Has(a, P),
           a = "reset" \/ at'.reset = at.reset,
           \A p \in P : p.type = "ROUND_RESET" => a = "reset" /\ at'.reset = "mkt",
           \A p, q \in P : \A x \in About(p) : x \in About(q) => p = q
    PROVE  OneEach'
<1>1. \A b \in Actor : busy'[b] = IF b = a THEN P ELSE busy[b]
  BY SaidHas
<1>2. ASSUME NEW b \in Actor, NEW p \in busy'[b]
      PROVE  /\ p.type = "ROUND_RESET" => b = "reset" /\ at'.reset = "mkt"
             /\ \A q \in busy'[b] : \A x \in About(p) : x \in About(q) => p = q
  BY <1>1, <1>2 DEF OneEach
<1>3. QED
  BY <1>2 DEF OneEach, About

LEMMA UnheardHas ==
    ASSUME WireTypes, Unheard, NEW a \in Actor, NEW P, Has(a, P), fresh' \subseteq fresh,
           board' \cap fresh' = {},
           \A i \in fresh' : PktSpawn(i) \notin P /\ PktRemove(i) \notin P
    PROVE  Unheard'
<1>1. PICK c : c = coming /\ coming' = c
  BY DEF Has
<1>2. ASSUME NEW i \in fresh'
      PROVE  ~ InList(coming, i)' /\ Spawners(i)' = {} /\ Removers(i)' = {}
  <2>1. ~ InList(c, i) /\ Spawners(i) = {} /\ Removers(i) = {}
    BY <1>1 DEF Unheard
  <2>2. Spawners(i)' = Spawners(i) /\ Removers(i)' = Removers(i)
    BY SaidHas
  <2>3. QED
    BY <1>1, <2>1, <2>2, ComingIs
<1>3. SEEDS \cap fresh' = {}
  BY DEF Unheard
<1>4. QED
  BY <1>2, <1>3 DEF Unheard, InList, HasId, Kind, Spawners, Removers, PktSpawn, PktRemove

LEMMA OneEachPasses ==
    ASSUME WireTypes, OneEach, NEW a \in Actor, NEW p, Passes(a, p)
    PROVE  OneEach'
<1>1. \A b \in Actor : busy'[b] = IF b = a THEN busy[a] \ {p} ELSE busy[b]
  BY SaidPasses
<1>2. at' = at
  BY DEF Passes
<1>3. ASSUME NEW b \in Actor, NEW r \in busy'[b]
      PROVE  /\ r.type = "ROUND_RESET" => b = "reset" /\ at'.reset = "mkt"
             /\ \A q \in busy'[b] : \A x \in About(r) : x \in About(q) => r = q
  BY <1>1, <1>2, <1>3 DEF OneEach
<1>4. QED
  BY <1>3 DEF OneEach, About

LEMMA UnheardPasses ==
    ASSUME Types, Tidy, coming \in View, Fits(coming), NEW a \in Actor, NEW p, Passes(a, p)
    PROVE  Unheard'
<1>1. OneEach /\ Unheard /\ WireTypes /\ fresh \subseteq Item
  BY DEF Tidy, Types, BoardTypes
<1>2. PICK v \in View : v = coming /\ Fits(v)
  OBVIOUS
<1>3. PICK c : c = Applied(v, p) /\ coming' = c
  BY <1>2 DEF Passes
<1>4. p \in Packet /\ UNCHANGED <<board, fresh>>
  BY <1>1, SaidPasses DEF Passes
<1>5. ASSUME NEW i \in fresh
      PROVE  ~ InList(coming, i)' /\ Spawners(i)' = {} /\ Removers(i)' = {}
  <2>1. ~ InList(v, i) /\ Spawners(i) = {} /\ Removers(i) = {}
    BY <1>1, <1>2 DEF Unheard
  <2>2. /\ Spawners(i)' = {} /\ Removers(i)' = {}
        /\ p # PktSpawn(i) /\ p # PktRemove(i)
    BY <1>1, <2>1, SaidPasses
  <2>3. CASE p.type = "ROUND_RESET"
    <3>1. c = EmptyView
      BY <1>3, <2>3 DEF Applied
    <3>2. QED
      BY <1>3, <2>2, <3>1, ComingIs, EmptyLists
  <2>4. CASE p.type # "ROUND_RESET"
    <3>1. i \in Item /\ i \notin About(p)
      BY <1>1, <1>4, <2>2, <2>4, AboutItem
    <3>2. SameItem(v, c, i)
      BY <1>2, <1>3, <1>4, <3>1, AppliedLists
    <3>3. QED
      BY <1>3, <2>1, <2>2, <3>2, ComingIs DEF SameItem
  <2>5. QED
    BY <2>3, <2>4
<1>6. QED
  BY <1>1, <1>4, <1>5 DEF Unheard, InList, HasId, Kind, Spawners, Removers, PktSpawn, PktRemove

\* What the packets of the steps are about.
LEMMA TidyNext ==
    ASSUME Types, Tidy, coming \in View, Fits(coming), MirrorStep
    PROVE  Tidy'
<1>1. WireTypes /\ OneEach /\ Unheard /\ at \in Places /\ board \subseteq Item
  BY DEF Types, Tidy, BoardTypes
<1>2. at' \in Places
  BY <1>1, PlacesNext
<1>3. SUFFICES OneEach' /\ Unheard'
  BY <1>2 DEF Tidy
<1>4. CASE MirrorSame
  <2>1. OneEach'
    BY <1>1, <1>4 DEF OneEach, MirrorSame, About
  <2>2. Unheard'
    BY <1>1, <1>4 DEF Unheard, MirrorSame, InList, HasId, Kind, Spawners, Removers, PktSpawn, PktRemove
  <2>3. QED
    BY <2>1, <2>2
<1>5. ASSUME NEW a \in Actor, NEW p, Passes(a, p)
      PROVE  OneEach' /\ Unheard'
  BY <1>1, <1>5, OneEachPasses, UnheardPasses
<1>6. ASSUME NEW a \in Actor, NEW P, Chats(a, P)
      PROVE  OneEach' /\ Unheard'
  <2>1. /\ Has(a, P) /\ at'.reset = at.reset /\ UNCHANGED <<board, fresh>>
        /\ \A p \in P : About(p) = {} /\ p.type # "ROUND_RESET"
    BY <1>6 DEF Chats
  <2>2. \A i : PktSpawn(i) \notin P /\ PktRemove(i) \notin P
    BY <2>1, PacketsApart
  <2>3. OneEach'
    BY <1>1, <2>1, OneEachHas
  <2>4. Unheard'
    BY <1>1, <2>1, <2>2, UnheardHas DEF Unheard
  <2>5. QED
    BY <2>3, <2>4
\* One packet.
<1>7. ASSUME NEW a \in Actor, NEW p \in Packet, Has(a, {p}), p.type # "ROUND_RESET", UNCHANGED at
      PROVE  OneEach'
  BY <1>1, <1>7, OneEachHas
<1>8. ASSUME NEW a \in Actor, NEW i \in Item, Lists(a, i)
      PROVE  OneEach' /\ Unheard'
  <2>1. /\ Has(a, {PktSpawn(i)}) /\ UNCHANGED at /\ fresh' = fresh \ {i} /\ board' = board \cup {i}
    BY <1>8 DEF Lists
  <2>2. OneEach'
    BY <1>7, <2>1, PacketForms, PacketsApart
  <2>3. board' \cap fresh' = {}
    BY <1>1, <2>1 DEF Unheard
  <2>4. \A j \in fresh' : PktSpawn(j) \notin {PktSpawn(i)} /\ PktRemove(j) \notin {PktSpawn(i)}
    BY <2>1, PacketsApart
  <2>5. Unheard'
    BY <1>1, <2>1, <2>3, <2>4, UnheardHas
  <2>6. QED
    BY <2>2, <2>5
<1>9. ASSUME NEW a \in Actor, NEW i \in Item, Unlists(a, i)
      PROVE  OneEach' /\ Unheard'
  <2>1. /\ Has(a, {PktRemove(i)}) /\ UNCHANGED <<at, fresh>> /\ board' = board \ {i} /\ i \in board
    BY <1>9 DEF Unlists
  <2>2. OneEach'
    BY <1>7, <2>1, PacketForms, PacketsApart
  <2>3. board' \cap fresh' = {} /\ i \notin fresh
    BY <1>1, <2>1 DEF Unheard
  <2>4. \A j \in fresh' : PktSpawn(j) \notin {PktRemove(i)} /\ PktRemove(j) \notin {PktRemove(i)}
    BY <2>1, <2>3, PacketsApart
  <2>5. Unheard'
    BY <1>1, <2>1, <2>3, <2>4, UnheardHas
  <2>6. QED
    BY <2>2, <2>5
<1>10. ASSUME NEW t, Leaks(t) \/ Thaws(t) \/ Forgets(t)
       PROVE  OneEach' /\ Unheard'
  <2>1. UNCHANGED <<board, fresh, at>> /\ t \in Tag
    BY <1>10 DEF Leaks, Thaws, Forgets
  <2>2. CASE Leaks(t) \/ Thaws(t)
    <3>1. PICK a \in Actor, p \in Packet : Has(a, {p}) /\ p.type \in {"NEWS_LEAK", "NEWS_RECOVER"}
      <4>1. /\ PktLeak({t}) \in Packet /\ PktLeak({t}).type = "NEWS_LEAK"
            /\ PktRecover(t) \in Packet /\ PktRecover(t).type = "NEWS_RECOVER"
        BY <2>1, PacketForms DEF PktLeak, PktRecover
      <4>2. "event" \in Actor /\ "recovery" \in Actor
        BY DEF Actor
      <4>3. Has("event", {PktLeak({t})}) \/ Has("recovery", {PktRecover(t)})
        BY <2>2 DEF Leaks, Thaws
      <4>4. QED
        BY <4>1, <4>2, <4>3
    <3>2. OneEach'
      BY <1>7, <2>1, <3>1
    <3>3. \A i : PktSpawn(i) \notin {p} /\ PktRemove(i) \notin {p}
      BY <3>1, PacketsApart
    <3>4. Unheard'
      BY <1>1, <2>1, <3>1, <3>3, UnheardHas DEF Unheard
    <3>5. QED
      BY <3>2, <3>4
  <2>3. CASE Forgets(t)
    <3>1. OneEach'
      BY <1>1, <2>3 DEF OneEach, Forgets, About
    <3>2. Unheard'
      BY <1>1, <2>3 DEF Unheard, Forgets, InList, HasId, Kind, Spawners, Removers, PktSpawn, PktRemove
    <3>3. QED
      BY <3>1, <3>2
  <2>4. QED
    BY <1>10, <2>2, <2>3
<1>11. CASE Resets
  <2>1. /\ Has("reset", {Plain("ROUND_RESET")}) /\ board' = SEEDS /\ UNCHANGED fresh
        /\ at'.reset = "mkt" /\ "reset" \in Actor
    BY <1>1, <1>11 DEF Resets, Places, Actor
  <2>2. OneEach'
    BY <1>1, <2>1, OneEachHas
  <2>3. \A i : PktSpawn(i) \notin {Plain("ROUND_RESET")} /\ PktRemove(i) \notin {Plain("ROUND_RESET")}
    BY PacketsApart DEF Plain
  <2>4. Unheard'
    BY <1>1, <2>1, <2>3, UnheardHas DEF Unheard
  <2>5. QED
    BY <2>2, <2>4
<1>12. CASE Masks
  <2>1. PICK P : P = IF frozen = {} THEN {} ELSE {PktLeak(frozen)}
    OBVIOUS
  <2>2. /\ Has("handler", P) /\ UNCHANGED <<board, fresh>> /\ at'.reset = at.reset
        /\ "handler" \in Actor
    BY <1>1, <1>12, <2>1 DEF Masks, Places, Actor
  <2>3. \A p \in P : p.type = "NEWS_LEAK" /\ \A q \in P : q = p
    BY <2>1 DEF PktLeak
  <2>4. OneEach'
    BY <1>1, <2>2, <2>3, OneEachHas
  <2>5. \A i : PktSpawn(i) \notin P /\ PktRemove(i) \notin P
    BY <2>3, PacketsApart
  <2>6. Unheard'
    BY <1>1, <2>2, <2>5, UnheardHas DEF Unheard
  <2>7. QED
    BY <2>4, <2>6
<1>13. ASSUME NEW who \in {"handler", "reset"}, NEW kind \in Kinds, Shows(who, kind)
       PROVE  OneEach' /\ Unheard'
  <2>1. PICK P : P = {PktSpawn(i) : i \in Listed(kind)}
    OBVIOUS
  <2>2. /\ Has(who, P) /\ UNCHANGED <<board, fresh>> /\ who \in Actor
    BY <1>13, <2>1 DEF Shows, Actor
  <2>3. who = "reset" \/ at'.reset = at.reset
    BY <1>1, <1>13, ShowsPlaces
  <2>4. \A p \in P : /\ p.type # "ROUND_RESET"
                     /\ \A q \in P : \A x \in About(p) : x \in About(q) => p = q
    BY <2>1, PacketsApart
  <2>5. OneEach'
    BY <1>1, <2>2, <2>3, <2>4, OneEachHas
  <2>6. \A i \in fresh' : PktSpawn(i) \notin P /\ PktRemove(i) \notin P
    <3>1. Listed(kind) \cap fresh' = {}
      BY <1>1, <2>2 DEF Listed, Unheard
    <3>2. QED
      BY <2>1, <3>1, PacketsApart
  <2>7. Unheard'
    BY <1>1, <2>2, <2>6, UnheardHas DEF Unheard
  <2>8. QED
    BY <2>5, <2>7
<1>14. QED
  BY <1>4, <1>5, <1>6, <1>8, <1>9, <1>10, <1>11, <1>12, <1>13 DEF MirrorStep

-----------------------------------------------------------------------------
\* The client follows the server's listings of an item.

\* Nothing happens to the item, or it is shown no longer.
LEMMA ItemKept ==
    ASSUME NEW i \in Item, ItemFollows(i), NEW c, coming' = c, SameItem(coming, c, i),
           Spawners(i)' = Spawners(i), Removers(i)' = Removers(i), Clearing => Clearing',
           i \in board' <=> i \in board, i \in crossed => i \in crossed',
           i \in board /\ Shown(Kind(i))' => Shown(Kind(i))
    PROVE  ItemFollows(i)'
<1>1. SUFFICES ASSUME i \notin crossed', ~ Clearing', Sole(Spawners(i)')
               PROVE  Follows(i \in board', Spawners(i)', Removers(i)', Shown(Kind(i))',
                              InList(coming, i)', Once(coming, i)')
  BY DEF ItemFollows, Follows, Sole
<1>2. Follows(i \in board, Spawners(i), Removers(i), Shown(Kind(i)), InList(coming, i), Once(coming, i))
  BY <1>1 DEF ItemFollows, Sole
<1>3. (InList(coming, i)' <=> InList(coming, i)) /\ (Once(coming, i) => Once(coming, i)')
  BY ComingIs DEF SameItem
<1>4. QED
  BY <1>2, <1>3 DEF Follows

\* The item's announcements change: how it is now is known.
LEMMA ItemNow ==
    ASSUME NEW i \in Item, NEW c, coming' = c,
           (i \notin crossed' /\ ~ Clearing' /\ Sole(Spawners(i)'))
               => Follows(i \in board', Spawners(i)', Removers(i)', Shown(Kind(i))',
                          InList(c, i), Once(c, i))
    PROVE  ItemFollows(i)'
BY ComingIs DEF ItemFollows, Follows, Sole

\* What was sent about x has not crossed anything.
LEMMA NotCrossed ==
    ASSUME NEW a \in Actor, NEW p, Passes(a, p), NEW x \in About(p), x \notin crossed'
    PROVE  /\ p.type # "ROUND_RESET" => x \notin crossed
           /\ x \notin Unshown(p)
           /\ \A b \in Actor \ {a} : \A q \in busy[b] : x \in About(q) =>
                 q.type = "REMOVE" /\ p.type \in {"SPAWN", "ROUND_RESET"} /\ x \notin board
BY DEF Passes, Crosses

\* In the order in which it was done.
LEMMA ItemPasses ==
    ASSUME Types, Tidy, coming \in View, Fits(coming), NEW i \in Item, ItemFollows(i),
           NEW a \in Actor, NEW p, Passes(a, p)
    PROVE  ItemFollows(i)'
<1>1. WireTypes /\ OneEach /\ at \in Places
  BY DEF Types, Tidy
<1>2. PICK v \in View : v = coming /\ Fits(v)
  OBVIOUS
<1>3. PICK c : c = Applied(v, p) /\ coming' = c
  BY <1>2 DEF Passes
<1>4. p \in Packet /\ p \in busy[a] /\ UNCHANGED <<board, at>>
  BY <1>1, SaidPasses DEF Passes
<1>5. /\ p = PktSpawn(i) => a \in Spawners(i)
      /\ p = PktRemove(i) => a \in Removers(i)
      /\ Spawners(i)' = IF p = PktSpawn(i) THEN Spawners(i) \ {a} ELSE Spawners(i)
      /\ Removers(i)' = IF p = PktRemove(i) THEN Removers(i) \ {a} ELSE Removers(i)
      /\ p.type # "ROUND_RESET" => (Clearing' <=> Clearing)
  BY <1>1, SaidPasses
<1>6. \A b \in Actor : /\ b \in Spawners(i) => PktSpawn(i) \in busy[b]
                       /\ b \in Removers(i) => PktRemove(i) \in busy[b]
  BY DEF Spawners, Removers
<1>7. Spawners(i) \subseteq Actor /\ Removers(i) \subseteq Actor
  BY DEF Spawners, Removers
\* The thread itself has nothing else to say about the item.
<1>8. i \in About(p) =>
          /\ p # PktSpawn(i) => a \notin Spawners(i)
          /\ p # PktRemove(i) => a \notin Removers(i)
  BY <1>1, <1>4, <1>6, PacketsApart DEF OneEach
<1>9. CASE i \notin About(p)
  <2>1. p # PktSpawn(i) /\ p # PktRemove(i) /\ p.type # "ROUND_RESET"
    <3>1. p.type = "ROUND_RESET" => About(p) = Item \cup Tag
      BY DEF About
    <3>2. QED
      BY <1>9, <3>1, PacketsApart
  <2>2. SameItem(coming, c, i)
    BY <1>2, <1>3, <1>4, <1>9, AppliedLists
  <2>3. i \in crossed => i \in crossed'
    BY <2>1 DEF Passes
  <2>4. Shown(Kind(i))' => Shown(Kind(i))
    BY <1>4 DEF Shown, Kind
  <2>5. Spawners(i)' = Spawners(i) /\ Removers(i)' = Removers(i) /\ (Clearing => Clearing')
    BY <1>5, <2>1
  <2>6. i \in board' <=> i \in board
    BY <1>4
  <2>7. QED
    BY <1>3, <2>2, <2>3, <2>4, <2>5, <2>6, ItemKept
<1>10. CASE p = PktSpawn(i)
  <2>1. p.type = "SPAWN" /\ p.id = i /\ i \in About(p) /\ p # PktRemove(i)
    BY <1>10, PacketsApart DEF PktSpawn
  <2>2. SUFFICES ASSUME i \notin crossed', ~ Clearing', Sole(Spawners(i)')
                 PROVE  Follows(i \in board', Spawners(i)', Removers(i)', Shown(Kind(i))',
                                InList(c, i), Once(c, i))
    BY <1>3, ItemNow
  <2>3. /\ i \notin crossed /\ i \notin Unshown(p)
        /\ \A b \in Actor \ {a} : \A q \in busy[b] : i \in About(q) => q.type = "REMOVE"
    BY <2>1, <2>2, NotCrossed
  <2>4. Spawners(i) = {a} /\ Spawners(i)' = {} /\ Removers(i)' = Removers(i)
    BY <1>5, <1>6, <1>7, <1>10, <2>1, <2>3, PacketsApart
  <2>5. Follows(i \in board, Spawners(i), Removers(i), Shown(Kind(i)), InList(v, i), Once(v, i))
    BY <1>2, <1>5, <2>1, <2>2, <2>3, <2>4 DEF ItemFollows, Sole
  <2>6. ~ InList(v, i) /\ (i \in board \/ Removers(i) # {}) /\ (Removers(i) # {} => i \notin board)
    BY <2>4, <2>5 DEF Follows
  <2>7. Len(v[Kind(i)]) < UI_MAX[Kind(i)]
    <3>1. v[Kind(i)] \in Seq(EntryOf(Kind(i))) /\ UI_MAX[Kind(i)] \in Nat
      BY KindIs, ListGet, ClientAssumption DEF Kinds
    <3>2. Len(v[Kind(i)]) \in Nat
      BY <3>1, LenProperties
    <3>3. ~ (Len(v[Kind(i)]) >= UI_MAX[Kind(i)])
      BY <1>2, <2>1, <2>3 DEF Unshown
    <3>4. QED
      BY <3>1, <3>2, <3>3
  <2>8. c = Spawned(v, i)
    BY <1>3, <2>1 DEF Applied
  <2>9. InList(c, i) /\ Once(c, i)
    BY <1>2, <2>6, <2>7, <2>8, SpawnedLists
  <2>10. QED
    BY <1>4, <2>4, <2>6, <2>9 DEF Follows
<1>11. CASE p = PktRemove(i)
  <2>1. p.type = "REMOVE" /\ p.id = i /\ i \in About(p) /\ p # PktSpawn(i)
    BY <1>11, PacketsApart DEF PktRemove
  <2>2. SUFFICES ASSUME i \notin crossed', ~ Clearing', Sole(Spawners(i)')
                 PROVE  Follows(i \in board', Spawners(i)', Removers(i)', Shown(Kind(i))',
                                InList(c, i), Once(c, i))
    BY <1>3, ItemNow
  <2>3. /\ i \notin crossed
        /\ \A b \in Actor \ {a} : \A q \in busy[b] : i \notin About(q)
    BY <2>1, <2>2, NotCrossed
  <2>4. /\ Spawners(i) = {} /\ Spawners(i)' = {}
        /\ Removers(i) = {a} /\ Removers(i)' = {}
    BY <1>5, <1>6, <1>7, <1>8, <1>11, <2>1, <2>3, PacketsApart
  <2>5. Follows(i \in board, Spawners(i), Removers(i), Shown(Kind(i)), InList(v, i), Once(v, i))
    BY <1>2, <1>5, <2>1, <2>2, <2>3, <2>4 DEF ItemFollows, Sole
  <2>6. Once(v, i) /\ i \notin board
    BY <2>4, <2>5 DEF Follows
  <2>7. c = Removed(v, i)
    BY <1>3, <2>1 DEF Applied
  <2>8. ~ InList(c, i)
    BY <1>2, <2>6, <2>7, RemovedLists
  <2>9. Once(c, i)
    BY <2>8 DEF InList, Once, HasId, OneId
  <2>10. QED
    BY <1>4, <2>4, <2>6, <2>8, <2>9 DEF Follows
<1>12. CASE p.type = "ROUND_RESET"
  <2>1. i \in About(p) /\ p # PktSpawn(i) /\ p # PktRemove(i) /\ at.reset = "mkt" /\ a = "reset"
    BY <1>1, <1>4, <1>12, PacketsApart DEF About, OneEach
  <2>2. SUFFICES ASSUME i \notin crossed', ~ Clearing', Sole(Spawners(i)')
                 PROVE  Follows(i \in board', Spawners(i)', Removers(i)', Shown(Kind(i))',
                                InList(c, i), Once(c, i))
    BY <1>3, ItemNow
  <2>3. \A b \in Actor \ {a} : \A q \in busy[b] :
            i \in About(q) => q.type = "REMOVE" /\ i \notin board
    BY <2>1, <2>2, NotCrossed
  <2>4. Spawners(i)' = {} /\ (Removers(i)' # {} => i \notin board)
    <3>1. Spawners(i)' = Spawners(i) /\ Removers(i)' = Removers(i)
      BY <1>5, <2>1
    <3>2. a \notin Spawners(i) /\ a \notin Removers(i)
      BY <1>8, <2>1
    <3>3. \A b \in Actor \ {a} : /\ b \notin Spawners(i)
                                 /\ b \in Removers(i) => i \notin board
      <4>1. /\ i \in About(PktSpawn(i)) /\ PktSpawn(i).type # "REMOVE"
            /\ i \in About(PktRemove(i))
        BY PacketsApart
      <4>2. QED
        BY <1>6, <2>3, <4>1
    <3>4. QED
      BY <1>7, <3>1, <3>2, <3>3
  <2>5. ~ InList(c, i) /\ Once(c, i)
    <3>1. c = EmptyView
      BY <1>3, <1>12 DEF Applied
    <3>2. QED
      BY <3>1, EmptyLists
  <2>6. ~ Shown(Kind(i))'
    <3>1. PICK k \in Kinds : k = Kind(i)
      BY KindIs
    <3>2. at'.reset = "mkt"
      BY <1>4, <2>1
    <3>3. ~ Shown(k)'
      BY <3>1, <3>2 DEF Shown, Taken, Kinds
    <3>4. QED
      BY <3>1, <3>3 DEF Shown, Kind
  <2>7. QED
    BY <1>4, <2>4, <2>5, <2>6 DEF Follows
<1>13. QED
  BY <1>4, <1>9, <1>10, <1>11, <1>12, AboutItem

\* An actor gets packets about the item.
LEMMA ItemLists ==
    ASSUME Types, Tidy, NEW i \in Item, ItemFollows(i), NEW a \in Actor,
           Lists(a, i) \/ Unlists(a, i)
    PROVE  ItemFollows(i)'
<1>1. WireTypes /\ Unheard
  BY DEF Types, Tidy
<1>2. PICK c : c = coming /\ coming' = c
  BY DEF Lists, Unlists, Has
<1>3. CASE Lists(a, i)
  <2>1. Has(a, {PktSpawn(i)}) /\ i \in fresh /\ i \in board'
    BY <1>3 DEF Lists
  <2>2. ~ InList(c, i) /\ Spawners(i) = {} /\ Removers(i) = {}
    BY <1>1, <1>2, <2>1 DEF Unheard
  <2>3. Spawners(i)' = {a} /\ Removers(i)' = {}
    BY <1>1, <2>1, <2>2, SaidHas, PacketsApart
  <2>4. Once(c, i)
    BY <2>2 DEF InList, Once, HasId, OneId
  <2>5. Follows(i \in board', Spawners(i)', Removers(i)', Shown(Kind(i))', InList(c, i), Once(c, i))
    BY <2>1, <2>2, <2>3, <2>4 DEF Follows
  <2>6. QED
    BY <1>2, <2>5, ItemNow
<1>4. CASE Unlists(a, i)
  <2>1. Has(a, {PktRemove(i)}) /\ i \in board /\ i \notin board' /\ UNCHANGED crossed
    BY <1>4 DEF Unlists
  <2>2. Spawners(i)' = Spawners(i) /\ Removers(i)' # {} /\ (Clearing => Clearing')
    BY <1>1, <2>1, SaidHas, PacketsApart
  <2>3. SUFFICES ASSUME i \notin crossed', ~ Clearing', Sole(Spawners(i)')
                 PROVE  Follows(i \in board', Spawners(i)', Removers(i)', Shown(Kind(i))',
                                InList(c, i), Once(c, i))
    BY <1>2, ItemNow
  <2>4. Follows(i \in board, Spawners(i), Removers(i), Shown(Kind(i)), InList(c, i), Once(c, i))
    BY <1>2, <2>1, <2>2, <2>3 DEF ItemFollows, Sole
  <2>5. QED
    BY <2>1, <2>2, <2>4 DEF Follows
<1>5. QED
  BY <1>3, <1>4

\* A snapshot of the item's kind, or of the other.
LEMMA ItemShows ==
    ASSUME Types, Tidy, coming \in View, NEW i \in Item, ItemFollows(i),
           NEW who \in {"handler", "reset"}, NEW kind \in Kinds, Shows(who, kind)
    PROVE  ItemFollows(i)'
<1>1. WireTypes /\ at \in Places /\ who \in Actor
  BY DEF Types, Tidy, Actor
<1>2. PICK P : P = {PktSpawn(j) : j \in Listed(kind)}
  OBVIOUS
<1>3. /\ Has(who, P) /\ UNCHANGED board
      /\ crossed' = crossed \cup (Listed(kind) \cap Ids(coming[kind]))
  BY <1>2 DEF Shows
<1>4. PICK c : c = coming /\ coming' = c
  BY <1>3 DEF Has
<1>5. /\ PktSpawn(i) \in P <=> (Kind(i) = kind /\ i \in board)
      /\ PktRemove(i) \notin P
      /\ \A p \in P : p.type # "ROUND_RESET"
  BY <1>2, PacketsApart DEF Listed
<1>6. /\ who \notin Spawners(i)
      /\ Spawners(i)' = IF Kind(i) = kind /\ i \in board THEN Spawners(i) \cup {who} ELSE Spawners(i)
      /\ Removers(i)' = Removers(i) /\ (Clearing => Clearing')
  BY <1>1, <1>3, <1>5, SaidHas
<1>7. CASE Kind(i) = kind /\ i \in board
  <2>1. SUFFICES ASSUME i \notin crossed', ~ Clearing', Sole(Spawners(i)')
                 PROVE  Follows(i \in board', Spawners(i)', Removers(i)', Shown(Kind(i))',
                                InList(c, i), Once(c, i))
    BY <1>4, ItemNow
  <2>2. Spawners(i) = {} /\ Spawners(i)' # {}
    BY <1>6, <1>7, <2>1 DEF Sole
  <2>3. Follows(i \in board, Spawners(i), Removers(i), Shown(Kind(i)), InList(c, i), Once(c, i))
    BY <1>3, <1>4, <1>6, <2>1, <2>2 DEF ItemFollows, Sole
  <2>4. ~ InList(c, i)
    <3>1. i \notin Ids(c[kind])
      BY <1>3, <1>4, <1>7, <2>1 DEF Listed
    <3>2. PICK s : s = c[kind]
      OBVIOUS
    <3>3. \A n \in DOMAIN s : s[n] \in ToSet(s)
      BY DEF ToSet
    <3>4. \A n \in DOMAIN s : s[n].id # i
      BY <3>1, <3>2, <3>3 DEF Ids
    <3>5. QED
      BY <1>7, <3>2, <3>4 DEF InList, HasId
  <2>5. QED
    BY <1>3, <1>6, <1>7, <2>2, <2>3, <2>4 DEF Follows
<1>8. CASE ~ (Kind(i) = kind /\ i \in board)
  <2>1. i \in board /\ Shown(Kind(i))' => Shown(Kind(i))
    <3>1. \A other \in Kinds : other # kind /\ Shown(other)' => Shown(other)
      BY <1>1, ShowsPlaces
    <3>2. PICK k \in Kinds : k = Kind(i)
      BY KindIs
    <3>3. i \in board /\ Shown(k)' => Shown(k)
      BY <1>8, <3>1, <3>2
    <3>4. QED
      BY <3>2, <3>3 DEF Shown, Kind
  <2>2. SameItem(coming, c, i)
    BY <1>4 DEF SameItem
  <2>3. i \in crossed => i \in crossed'
    BY <1>3
  <2>4. Spawners(i)' = Spawners(i)
    BY <1>6, <1>8
  <2>5. i \in board' <=> i \in board
    BY <1>3
  <2>6. QED
    BY <1>4, <1>6, <2>1, <2>2, <2>3, <2>4, <2>5, ItemKept
<1>9. QED
  BY <1>7, <1>8

\* Only a snapshot makes the client show a kind it had not been shown.
LEMMA ShownOnly ==
    ASSUME at \in Places, NEW a, MirrorSame \/ Masks \/ \E P : Chats(a, P), NEW kind \in Kinds
    PROVE  Shown(kind)' => Shown(kind)
<1>1. at.handler \in {"login", "named", "mkt", "npc", "mask", "ready"}
  BY DEF Places
<1>2. CASE MirrorSame
  BY <1>2 DEF MirrorSame, Shown
<1>3. CASE Masks
  <2>1. at.handler = "mask" /\ at'.handler = "ready" /\ at'.reset = at.reset
    BY <1>3 DEF Masks, Places
  <2>2. QED
    BY <2>1 DEF Shown, Taken, Kinds
<1>4. ASSUME NEW P, Chats(a, P)
      PROVE  Shown(kind)' => Shown(kind)
  <2>1. /\ at'.reset = at.reset
        /\ at'.handler = at.handler \/ at'.handler \in {"named", "mkt"}
    BY <1>4 DEF Chats
  <2>2. QED
    BY <2>1 DEF Shown, Taken, Kinds
<1>5. QED
  BY <1>2, <1>3, <1>4

\* An actor gets packets about something else.
LEMMA ItemQuiet ==
    ASSUME WireTypes, NEW i \in Item, ItemFollows(i), NEW a \in Actor, NEW P, Has(a, P),
           PktSpawn(i) \notin P, PktRemove(i) \notin P,
           i \in board' <=> i \in board, UNCHANGED crossed,
           \A kind \in Kinds : Shown(kind)' => Shown(kind)
    PROVE  ItemFollows(i)'
<1>1. PICK c : c = coming /\ coming' = c
  BY DEF Has
<1>2. Spawners(i)' = Spawners(i) /\ Removers(i)' = Removers(i) /\ (Clearing => Clearing')
  BY SaidHas
<1>3. Shown(Kind(i))' => Shown(Kind(i))
  <2>1. PICK k \in Kinds : k = Kind(i)
    BY KindIs
  <2>2. Shown(k)' => Shown(k)
    OBVIOUS
  <2>3. QED
    BY <2>1, <2>2 DEF Shown, Kind
<1>4. SameItem(coming, c, i)
  BY <1>1 DEF SameItem
<1>5. QED
  BY <1>1, <1>2, <1>3, <1>4, ItemKept

LEMMA ItemNext ==
    ASSUME Types, Tidy, coming \in View, Fits(coming), NEW i \in Item, ItemFollows(i), MirrorStep
    PROVE  ItemFollows(i)'
<1>1. WireTypes /\ at \in Places
  BY DEF Types, Tidy
<1>2. ASSUME UNCHANGED <<busy, coming, board, at>>, i \in crossed => i \in crossed'
      PROVE  ItemFollows(i)'
  <2>1. PICK c : c = coming /\ coming' = c
    BY <1>2
  <2>2. Spawners(i)' = Spawners(i) /\ Removers(i)' = Removers(i) /\ Clearing' = Clearing
    BY <1>2 DEF Spawners, Removers, Clearing, PktSpawn, PktRemove
  <2>3. SameItem(coming, c, i)
    BY <2>1 DEF SameItem
  <2>4. Shown(Kind(i))' => Shown(Kind(i))
    BY <1>2 DEF Shown, Kind
  <2>5. i \in board' <=> i \in board
    BY <1>2
  <2>6. QED
    BY <1>2, <2>1, <2>2, <2>3, <2>4, <2>5, ItemKept
<1>3. at' = at => \A kind \in Kinds : Shown(kind)' => Shown(kind)
  BY DEF Shown
<1>4. CASE MirrorSame
  BY <1>2, <1>4 DEF MirrorSame
<1>5. ASSUME NEW a \in Actor, NEW P, Chats(a, P)
      PROVE  ItemFollows(i)'
  <2>1. Has(a, P) /\ UNCHANGED <<board, crossed>> /\ \A p \in P : About(p) = {}
    BY <1>5 DEF Chats
  <2>2. PktSpawn(i) \notin P /\ PktRemove(i) \notin P
    BY <2>1, PacketsApart
  <2>3. \A kind \in Kinds : Shown(kind)' => Shown(kind)
    BY <1>1, <1>5, ShownOnly
  <2>4. i \in board' <=> i \in board
    BY <2>1
  <2>5. QED
    BY <1>1, <2>1, <2>2, <2>3, <2>4, ItemQuiet
<1>6. ASSUME NEW a \in Actor, NEW j \in Item, Lists(a, j) \/ Unlists(a, j)
      PROVE  ItemFollows(i)'
  <2>1. CASE j = i
    BY <1>6, <2>1, ItemLists
  <2>2. CASE j # i
    <3>1. Has(a, {PktSpawn(j)}) \/ Has(a, {PktRemove(j)})
      BY <1>6 DEF Lists, Unlists
    <3>2. UNCHANGED <<at, crossed>> /\ (i \in board' <=> i \in board)
      BY <1>6, <2>2 DEF Lists, Unlists
    <3>3. /\ PktSpawn(i) \notin {PktSpawn(j)} /\ PktRemove(i) \notin {PktSpawn(j)}
          /\ PktSpawn(i) \notin {PktRemove(j)} /\ PktRemove(i) \notin {PktRemove(j)}
      BY <2>2, PacketsApart
    <3>4. QED
      BY <1>1, <1>3, <3>1, <3>2, <3>3, ItemQuiet
  <2>3. QED
    BY <2>1, <2>2
<1>7. ASSUME NEW t, Leaks(t) \/ Thaws(t)
      PROVE  ItemFollows(i)'
  <2>1. Has("event", {PktLeak({t})}) \/ Has("recovery", {PktRecover(t)})
    BY <1>7 DEF Leaks, Thaws
  <2>2. "event" \in Actor /\ "recovery" \in Actor
    BY DEF Actor
  <2>3. UNCHANGED <<board, at, crossed>>
    BY <1>7 DEF Leaks, Thaws
  <2>4. /\ PktSpawn(i) \notin {PktLeak({t})} /\ PktRemove(i) \notin {PktLeak({t})}
        /\ PktSpawn(i) \notin {PktRecover(t)} /\ PktRemove(i) \notin {PktRecover(t)}
    BY PacketsApart DEF PktLeak, PktRecover
  <2>5. i \in board' <=> i \in board
    BY <2>3
  <2>6. QED
    BY <1>1, <1>3, <2>1, <2>2, <2>3, <2>4, <2>5, ItemQuiet
<1>8. ASSUME NEW t, Forgets(t)
      PROVE  ItemFollows(i)'
  BY <1>2, <1>8 DEF Forgets
<1>9. CASE Masks
  <2>1. PICK P : P = IF frozen = {} THEN {} ELSE {PktLeak(frozen)}
    OBVIOUS
  <2>2. Has("handler", P) /\ UNCHANGED <<board, crossed>> /\ "handler" \in Actor
    BY <1>9, <2>1 DEF Masks, Actor
  <2>3. PktSpawn(i) \notin P /\ PktRemove(i) \notin P
    BY <2>1, PacketsApart DEF PktLeak
  <2>4. \A kind \in Kinds : Shown(kind)' => Shown(kind)
    BY <1>1, <1>9, ShownOnly
  <2>5. i \in board' <=> i \in board
    BY <2>2
  <2>6. QED
    BY <1>1, <2>2, <2>3, <2>4, <2>5, ItemQuiet
<1>10. CASE Resets
  <2>1. PICK c : c = coming /\ coming' = c
    BY <1>10 DEF Resets, Has
  <2>2. /\ Has("reset", {Plain("ROUND_RESET")}) /\ "reset" \in Actor
        /\ Plain("ROUND_RESET").type = "ROUND_RESET"
    BY <1>10 DEF Resets, Actor, Plain
  <2>3. Clearing'
    BY <1>1, <2>2, SaidHas
  <2>4. QED
    BY <2>1, <2>3, ItemNow
<1>11. ASSUME NEW who \in {"handler", "reset"}, NEW kind \in Kinds, Shows(who, kind)
       PROVE  ItemFollows(i)'
  BY <1>11, ItemShows
<1>12. QED
  BY <1>4, <1>5, <1>6, <1>7, <1>8, <1>9, <1>10, <1>11, ItemPasses DEF MirrorStep

-----------------------------------------------------------------------------
\* The client follows what the server says of a tag.

\* A tag that something is still to be said of, and one of which all has been said.
LEMMA TagNow ==
    ASSUME NEW t \in Tag, NEW c, coming' = c,
           t \notin crossed' =>
              /\ Tellers(t)' = {} =>
                    /\ t \in c.mask => t \in frozen'
                    /\ (at'.handler = "ready" /\ t \in frozen') => t \in c.mask
              /\ Sole(Tellers(t)') =>
                    \A a \in Actor : \A p \in busy'[a] :
                        t \in About(p) => (p.type = "NEWS_LEAK" <=> t \in frozen')
    PROVE  TagFollows(t)'
BY DEF TagFollows, Sole, About

LEMMA TagKept ==
    ASSUME NEW t \in Tag, TagFollows(t), NEW c, coming' = c, SameTag(coming, c, t),
           Tellers(t)' = Tellers(t),
           \A a \in Actor : \A p \in busy'[a] : t \in About(p) => p \in busy[a],
           t \in frozen' <=> t \in frozen, t \in crossed => t \in crossed',
           at'.handler = "ready" => at.handler = "ready" \/ t \notin frozen
    PROVE  TagFollows(t)'
<1>1. SUFFICES ASSUME t \notin crossed'
               PROVE  /\ Tellers(t)' = {} =>
                            /\ t \in c.mask => t \in frozen'
                            /\ (at'.handler = "ready" /\ t \in frozen') => t \in c.mask
                      /\ Sole(Tellers(t)') =>
                            \A a \in Actor : \A p \in busy'[a] :
                                t \in About(p) => (p.type = "NEWS_LEAK" <=> t \in frozen')
  BY TagNow
<1>2. t \notin crossed
  BY <1>1
<1>3. Tellers(t)' = {} =>
          /\ t \in c.mask => t \in frozen'
          /\ (at'.handler = "ready" /\ t \in frozen') => t \in c.mask
  BY <1>2 DEF TagFollows, SameTag
<1>4. ASSUME Sole(Tellers(t)'), NEW a \in Actor, NEW p \in busy'[a], t \in About(p)
      PROVE  p.type = "NEWS_LEAK" <=> t \in frozen'
  <2>1. Sole(Tellers(t)) /\ p \in busy[a]
    BY <1>4 DEF Sole
  <2>2. p.type = "NEWS_LEAK" <=> t \in frozen
    BY <1>2, <1>4, <2>1 DEF TagFollows
  <2>3. QED
    BY <2>2
<1>5. QED
  BY <1>3, <1>4

\* An actor gets packets about something else.
LEMMA TagQuiet ==
    ASSUME WireTypes, NEW t \in Tag, TagFollows(t), NEW a \in Actor, NEW P, Has(a, P),
           \A p \in P : t \notin About(p),
           t \in frozen' <=> t \in frozen, t \in crossed => t \in crossed',
           at'.handler = "ready" => at.handler = "ready" \/ t \notin frozen
    PROVE  TagFollows(t)'
<1>1. PICK c : c = coming /\ coming' = c
  BY DEF Has
<1>2. /\ Tellers(t)' = Tellers(t)
      /\ \A b \in Actor : busy'[b] = IF b = a THEN P ELSE busy[b]
  BY SaidHas
<1>3. SameTag(coming, c, t)
  BY <1>1 DEF SameTag
<1>4. \A b \in Actor : \A p \in busy'[b] : t \in About(p) => p \in busy[b]
  BY <1>2
<1>5. QED
  BY <1>1, <1>2, <1>3, <1>4, TagKept

\* It gets packets about the tag, which say how it is now.
LEMMA TagTold ==
    ASSUME WireTypes, NEW t \in Tag, NEW a \in Actor, NEW P, Has(a, P),
           \E p \in P : t \in About(p),
           \A p \in P : t \in About(p) => (p.type = "NEWS_LEAK" <=> t \in frozen')
    PROVE  TagFollows(t)'
<1>1. PICK c : c = coming /\ coming' = c
  BY DEF Has
<1>2. /\ a \in Tellers(t)'
      /\ \A b \in Actor : busy'[b] = IF b = a THEN P ELSE busy[b]
  BY SaidHas
<1>3. ASSUME Sole(Tellers(t)'), NEW b \in Actor, NEW p \in busy'[b], t \in About(p)
      PROVE  p.type = "NEWS_LEAK" <=> t \in frozen'
  <2>1. b \in Tellers(t)'
    BY <1>3 DEF Tellers, About
  <2>2. b = a
    BY <1>2, <1>3, <2>1 DEF Sole
  <2>3. QED
    BY <1>2, <1>3, <2>2
<1>4. QED
  BY <1>1, <1>2, <1>3, TagNow

LEMMA TagPasses ==
    ASSUME Types, Tidy, coming \in View, Fits(coming), NEW t \in Tag, TagFollows(t),
           NEW a \in Actor, NEW p, Passes(a, p)
    PROVE  TagFollows(t)'
<1>1. WireTypes /\ OneEach /\ t \notin Item
  BY ClientAssumption DEF Types, Tidy
<1>2. PICK v \in View : v = coming /\ Fits(v)
  OBVIOUS
<1>3. PICK c : c = Applied(v, p) /\ coming' = c
  BY <1>2 DEF Passes
<1>4. p \in Packet /\ p \in busy[a] /\ UNCHANGED <<frozen, at>>
  BY <1>1, SaidPasses DEF Passes
<1>5. /\ t \in About(p) => a \in Tellers(t) /\ Tellers(t)' = Tellers(t) \ {a}
      /\ t \notin About(p) => Tellers(t)' = Tellers(t)
      /\ \A b \in Actor : busy'[b] = IF b = a THEN busy[a] \ {p} ELSE busy[b]
  BY <1>1, SaidPasses
<1>6. t \in crossed => t \in crossed'
  BY <1>1 DEF Passes
<1>7. CASE t \notin About(p)
  <2>1. SameTag(coming, c, t)
    BY <1>2, <1>3, <1>4, <1>7, AppliedLists
  <2>2. Tellers(t)' = Tellers(t)
    BY <1>5, <1>7
  <2>3. \A b \in Actor : \A q \in busy'[b] : t \in About(q) => q \in busy[b]
    BY <1>5
  <2>4. QED
    BY <1>3, <1>4, <1>6, <2>1, <2>2, <2>3, TagKept
<1>8. CASE t \in About(p)
  <2>1. SUFFICES ASSUME t \notin crossed'
                 PROVE  /\ Tellers(t)' = {} =>
                              /\ t \in c.mask => t \in frozen'
                              /\ (at'.handler = "ready" /\ t \in frozen') => t \in c.mask
                        /\ Sole(Tellers(t)') =>
                              \A b \in Actor : \A q \in busy'[b] :
                                  t \in About(q) => (q.type = "NEWS_LEAK" <=> t \in frozen')
    BY <1>3, TagNow
  <2>2. \A b \in Actor \ {a} : \A q \in busy[b] : t \notin About(q)
    <3>1. \A b \in Actor \ {a} : \A q \in busy[b] : t \in About(q) => q.type = "REMOVE"
      BY <1>8, <2>1, NotCrossed
    <3>2. \A b \in Actor : \A q \in busy[b] : q \in Packet
      BY <1>1 DEF WireTypes
    <3>3. QED
      BY <3>1, <3>2, AboutTag
  <2>3. Tellers(t) = {a} /\ Tellers(t)' = {}
    BY <1>5, <1>8, <2>2 DEF Tellers
  <2>4. p.type = "NEWS_LEAK" <=> t \in frozen
    BY <1>4, <1>6, <1>8, <2>1, <2>3 DEF TagFollows, Sole
  <2>5. t \in c.mask <=> p.type = "NEWS_LEAK"
    <3>1. p.type \in {"NEWS_LEAK", "NEWS_RECOVER", "ROUND_RESET"}
      BY <1>4, <1>8, AboutTag
    <3>2. CASE p.type = "ROUND_RESET"
      <4>1. c = EmptyView
        BY <1>3, <3>2 DEF Applied
      <4>2. QED
        BY <3>2, <4>1, EmptyLists
    <3>3. CASE p.type = "NEWS_LEAK"
      <4>1. p.tags \in SUBSET Tag /\ t \in p.tags /\ v.mask \in SUBSET Tag
        BY <1>4, <1>8, <3>3, PacketForms DEF About, View
      <4>2. c = Refrozen(v, v.mask \cup p.tags) /\ v.mask \cup p.tags \in SUBSET Tag
        BY <1>3, <3>3, <4>1 DEF Applied
      <4>3. c.mask = v.mask \cup p.tags
        BY <1>2, <4>2, RefrozenLists
      <4>4. QED
        BY <3>3, <4>1, <4>3
    <3>4. CASE p.type = "NEWS_RECOVER"
      <4>1. p.tags \in SUBSET Tag /\ t \in p.tags /\ v.mask \in SUBSET Tag
        BY <1>4, <1>8, <3>4, PacketForms DEF About, View
      <4>2. c = Refrozen(v, v.mask \ p.tags) /\ v.mask \ p.tags \in SUBSET Tag
        BY <1>3, <3>4, <4>1 DEF Applied
      <4>3. c.mask = v.mask \ p.tags
        BY <1>2, <4>2, RefrozenLists
      <4>4. QED
        BY <3>4, <4>1, <4>3
    <3>5. QED
      BY <3>1, <3>2, <3>3, <3>4
  <2>6. \A b \in Actor : \A q \in busy'[b] : t \notin About(q)
    BY <2>3 DEF Tellers, About
  <2>7. QED
    BY <1>4, <2>4, <2>5, <2>6
<1>9. QED
  BY <1>7, <1>8

LEMMA TagNext ==
    ASSUME Types, Tidy, coming \in View, Fits(coming), NEW t \in Tag, TagFollows(t), MirrorStep
    PROVE  TagFollows(t)'
<1>1. WireTypes /\ at \in Places /\ t \notin Item /\ board \subseteq Item /\ frozen \subseteq Tag
  BY ClientAssumption DEF Types, Tidy, BoardTypes
<1>2. ASSUME UNCHANGED <<busy, coming, at>>, t \in frozen' <=> t \in frozen,
             t \in crossed => t \in crossed'
      PROVE  TagFollows(t)'
  <2>1. PICK c : c = coming /\ coming' = c
    BY <1>2
  <2>2. Tellers(t)' = Tellers(t)
    BY <1>2 DEF Tellers, About
  <2>3. SameTag(coming, c, t)
    BY <2>1 DEF SameTag
  <2>4. \A a \in Actor : \A p \in busy'[a] : t \in About(p) => p \in busy[a]
    BY <1>2
  <2>5. at'.handler = "ready" => at.handler = "ready" \/ t \notin frozen
    BY <1>2
  <2>6. QED
    BY <1>2, <2>1, <2>2, <2>3, <2>4, <2>5, TagKept
<1>3. CASE MirrorSame
  BY <1>2, <1>3 DEF MirrorSame
<1>4. ASSUME NEW a \in Actor, NEW P, Chats(a, P)
      PROVE  TagFollows(t)'
  <2>1. Has(a, P) /\ UNCHANGED <<frozen, crossed>> /\ \A p \in P : t \notin About(p)
    BY <1>4 DEF Chats
  <2>2. at'.handler = "ready" => at.handler = "ready"
    BY <1>4 DEF Chats
  <2>3. t \in frozen' <=> t \in frozen
    BY <2>1
  <2>4. t \in crossed => t \in crossed'
    BY <2>1
  <2>5. QED
    BY <1>1, <2>1, <2>2, <2>3, <2>4, TagQuiet
\* A packet about an item.
<1>5. \A i \in Item : t \notin About(PktSpawn(i)) /\ t \notin About(PktRemove(i))
  BY <1>1, PacketsApart
<1>6. ASSUME NEW a \in Actor, NEW i \in Item, Lists(a, i) \/ Unlists(a, i)
      PROVE  TagFollows(t)'
  <2>1. Has(a, {PktSpawn(i)}) \/ Has(a, {PktRemove(i)})
    BY <1>6 DEF Lists, Unlists
  <2>2. UNCHANGED <<frozen, crossed, at>>
    BY <1>6 DEF Lists, Unlists
  <2>3. t \in frozen' <=> t \in frozen
    BY <2>2
  <2>4. QED
    BY <1>1, <1>5, <2>1, <2>2, <2>3, TagQuiet
<1>7. ASSUME NEW who \in {"handler", "reset"}, NEW kind \in Kinds, Shows(who, kind)
      PROVE  TagFollows(t)'
  <2>1. PICK P : P = {PktSpawn(i) : i \in Listed(kind)}
    OBVIOUS
  <2>2. Has(who, P) /\ UNCHANGED frozen /\ (t \in crossed => t \in crossed') /\ who \in Actor
    BY <1>7, <2>1 DEF Shows, Actor
  <2>3. \A p \in P : t \notin About(p)
    BY <1>1, <1>5, <2>1 DEF Listed
  <2>4. at'.handler = "ready" => at.handler = "ready"
    BY <1>1, <1>7, ShowsPlaces
  <2>5. t \in frozen' <=> t \in frozen
    BY <2>2
  <2>6. QED
    BY <1>1, <2>2, <2>3, <2>4, <2>5, TagQuiet
<1>8. ASSUME NEW u \in Tag, Leaks(u)
      PROVE  TagFollows(t)'
  <2>1. /\ Has("event", {PktLeak({u})}) /\ frozen' = frozen \cup {u} /\ UNCHANGED <<crossed, at>>
        /\ "event" \in Actor
    BY <1>8 DEF Leaks, Actor
  <2>2. About(PktLeak({u})) = {u} /\ PktLeak({u}).type = "NEWS_LEAK"
    BY DEF About, PktLeak
  <2>3. CASE u = t
    BY <1>1, <2>1, <2>2, <2>3, TagTold
  <2>4. CASE u # t
    <3>1. t \in frozen' <=> t \in frozen
      BY <2>1, <2>4
    <3>2. QED
      BY <1>1, <2>1, <2>2, <2>4, <3>1, TagQuiet
  <2>5. QED
    BY <2>3, <2>4
<1>9. ASSUME NEW u \in Tag, Thaws(u)
      PROVE  TagFollows(t)'
  <2>1. /\ Has("recovery", {PktRecover(u)}) /\ frozen' = frozen \ {u} /\ UNCHANGED <<crossed, at>>
        /\ "recovery" \in Actor
    BY <1>9 DEF Thaws, Actor
  <2>2. About(PktRecover(u)) = {u} /\ PktRecover(u).type # "NEWS_LEAK"
    BY DEF About, PktRecover
  <2>3. CASE u = t
    BY <1>1, <2>1, <2>2, <2>3, TagTold
  <2>4. CASE u # t
    <3>1. t \in frozen' <=> t \in frozen
      BY <2>1, <2>4
    <3>2. QED
      BY <1>1, <2>1, <2>2, <2>4, <3>1, TagQuiet
  <2>5. QED
    BY <2>3, <2>4
<1>10. ASSUME NEW u \in Tag, Forgets(u)
       PROVE  TagFollows(t)'
  <2>1. /\ UNCHANGED <<busy, coming, at>> /\ frozen' = frozen \ {u} /\ crossed' = crossed \cup {u}
    BY <1>10 DEF Forgets
  <2>2. CASE u = t
    BY <2>1, <2>2 DEF TagFollows
  <2>3. CASE u # t
    BY <1>2, <2>1, <2>3
  <2>4. QED
    BY <2>2, <2>3
<1>11. CASE Resets
  <2>1. Has("reset", {Plain("ROUND_RESET")}) /\ frozen' = {} /\ "reset" \in Actor
    BY <1>11 DEF Resets, Actor
  <2>2. About(Plain("ROUND_RESET")) = Item \cup Tag /\ Plain("ROUND_RESET").type # "NEWS_LEAK"
    BY DEF About, Plain
  <2>3. QED
    BY <1>1, <2>1, <2>2, TagTold
<1>12. CASE Masks
  <2>1. PICK P : P = IF frozen = {} THEN {} ELSE {PktLeak(frozen)}
    OBVIOUS
  <2>2. Has("handler", P) /\ UNCHANGED <<frozen, crossed>> /\ "handler" \in Actor
    BY <1>12, <2>1 DEF Masks, Actor
  <2>3. About(PktLeak(frozen)) = frozen /\ PktLeak(frozen).type = "NEWS_LEAK"
    BY DEF About, PktLeak
  <2>4. t \in frozen' <=> t \in frozen
    BY <2>2
  <2>5. CASE t \in frozen
    <3>1. P = {PktLeak(frozen)}
      BY <2>1, <2>5
    <3>2. QED
      BY <1>1, <2>2, <2>3, <2>4, <2>5, <3>1, TagTold
  <2>6. CASE t \notin frozen
    <3>1. \A p \in P : t \notin About(p)
      BY <2>1, <2>3, <2>6
    <3>2. QED
      BY <1>1, <2>2, <2>4, <2>6, <3>1, TagQuiet
  <2>7. QED
    BY <2>5, <2>6
<1>13. QED
  BY <1>3, <1>4, <1>6, <1>7, <1>8, <1>9, <1>10, <1>11, <1>12, TagPasses DEF MirrorStep

-----------------------------------------------------------------------------
\* The lists that are coming are what the packets on the wire make of the client's.

\* By way of lists s[1], s[2], ..., one for each packet.
Path(s, v, w, c) ==
    s[0] = v /\ s[Len(w)] = c /\ \A n \in DOMAIN w : s[n] = Applied(s[n - 1], w[n])
Leads(v, w, c) == \E s : Path(s, v, w, c)

LEMMA LeadsTake ==
    ASSUME NEW w \in Seq(Packet), w # <<>>, NEW v, NEW c, Leads(v, w, c)
    PROVE  Leads(Applied(v, Head(w)), Tail(w), c)
<1>1. PICK s : Path(s, v, w, c)
  BY DEF Leads
<1>2. PICK u \in Seq(Packet) :
         u = Tail(w) /\ Len(u) = Len(w) - 1 /\ \A k \in 1 .. Len(u) : u[k] = w[k + 1]
  BY HeadTailProperties
<1>3. PICK last \in Nat : last = Len(u) /\ DOMAIN u = 1 .. last
  BY WireDomain
<1>4. Len(w) = last + 1 /\ DOMAIN w = 1 .. last + 1 /\ Head(w) = w[1]
  <2>1. Len(w) \in Nat /\ DOMAIN w = 1 .. Len(w)
    BY WireDomain
  <2>2. QED
    BY <1>2, <1>3, <2>1
<1>5. PICK t : t = [n \in Nat |-> s[n + 1]]
  OBVIOUS
<1>6. t[0] = Applied(v, Head(w))
  <2>1. t[0] = s[1] /\ 1 \in DOMAIN w /\ s[0] = v
    BY <1>1, <1>4, <1>5 DEF Path
  <2>2. s[1] = Applied(s[1 - 1], w[1])
    BY <1>1, <2>1 DEF Path
  <2>3. QED
    BY <1>4, <2>1, <2>2
<1>7. t[last] = c
  BY <1>1, <1>4, <1>5 DEF Path
<1>8. ASSUME NEW n \in 1 .. last
      PROVE  t[n] = Applied(t[n - 1], u[n])
  <2>1. n \in Nat /\ n - 1 \in Nat /\ n + 1 \in DOMAIN w /\ (n - 1) + 1 = n /\ (n + 1) - 1 = n
    BY <1>4
  <2>2. t[n] = s[n + 1] /\ t[n - 1] = s[n]
    BY <1>5, <2>1
  <2>3. s[n + 1] = Applied(s[n], w[n + 1])
    BY <1>1, <2>1 DEF Path
  <2>4. u[n] = w[n + 1]
    BY <1>2, <1>3
  <2>5. QED
    BY <2>2, <2>3, <2>4
<1>9. Path(t, Applied(v, Head(w)), u, c)
  BY <1>3, <1>6, <1>7, <1>8 DEF Path
<1>10. QED
  BY <1>2, <1>9 DEF Leads

LEMMA LeadsPut ==
    ASSUME NEW w \in Seq(Packet), NEW p \in Packet, NEW v, NEW c, Leads(v, w, c)
    PROVE  Leads(v, Append(w, p), Applied(c, p))
<1>1. PICK s : Path(s, v, w, c)
  BY DEF Leads
<1>2. PICK u \in Seq(Packet) :
         /\ u = Append(w, p) /\ Len(u) = Len(w) + 1
         /\ (\A k \in 1 .. Len(w) : u[k] = w[k]) /\ u[Len(w) + 1] = p
  BY AppendProperties
<1>3. PICK last \in Nat : last = Len(w) /\ DOMAIN w = 1 .. last
  BY WireDomain
<1>4. Len(u) = last + 1 /\ DOMAIN u = 1 .. last + 1
  <2>1. DOMAIN u = 1 .. Len(u)
    BY WireDomain
  <2>2. QED
    BY <1>2, <1>3, <2>1
<1>5. PICK t : t = [n \in Nat |-> IF n <= last THEN s[n] ELSE Applied(c, p)]
  OBVIOUS
<1>6. t[0] = v /\ t[last] = c /\ t[last + 1] = Applied(c, p)
  <2>1. s[0] = v /\ s[last] = c
    BY <1>1, <1>3 DEF Path
  <2>2. t[0] = s[0] /\ t[last] = s[last]
    BY <1>5
  <2>3. last + 1 \in Nat /\ ~ (last + 1 <= last)
    OBVIOUS
  <2>4. t[last + 1] = Applied(c, p)
    BY <1>5, <2>3
  <2>5. QED
    BY <2>1, <2>2, <2>4
<1>7. ASSUME NEW n \in 1 .. last
      PROVE  t[n] = Applied(t[n - 1], u[n])
  <2>1. n \in Nat /\ n - 1 \in Nat /\ n <= last /\ n - 1 <= last
    OBVIOUS
  <2>2. t[n] = s[n] /\ t[n - 1] = s[n - 1]
    BY <1>5, <2>1
  <2>3. s[n] = Applied(s[n - 1], w[n])
    BY <1>1, <1>3 DEF Path
  <2>4. u[n] = w[n]
    BY <1>2, <1>3
  <2>5. QED
    BY <2>2, <2>3, <2>4
<1>8. \A n \in DOMAIN u : t[n] = Applied(t[n - 1], u[n])
  <2>1. t[last + 1] = Applied(t[(last + 1) - 1], u[last + 1])
    <3>1. (last + 1) - 1 = last
      OBVIOUS
    <3>2. u[last + 1] = p
      BY <1>2, <1>3
    <3>3. QED
      BY <1>6, <3>1, <3>2
  <2>2. \A n \in 1 .. last + 1 : n \in 1 .. last \/ n = last + 1
    OBVIOUS
  <2>3. QED
    BY <1>4, <1>7, <2>1, <2>2
<1>9. Path(t, v, u, Applied(c, p))
  BY <1>4, <1>6, <1>8 DEF Path
<1>10. QED
  BY <1>2, <1>9 DEF Leads

\* The steps, as far as the wire goes.
Stays == UNCHANGED <<view, wire, coming>>
Takes == /\ wire # <<>> /\ wire' = Tail(wire) /\ UNCHANGED coming
         /\ view' = Applied(view, Head(wire))
Puts(p) == wire' = Append(wire, p) /\ coming' = Applied(coming, p) /\ UNCHANGED view

LEMMA ViewSteps ==
    ASSUME WireTypes, [ClientNext]_cvars, mode' # "gone"
    PROVE  mode # "gone" /\ (Stays \/ Takes \/ \E p \in Packet : Puts(p))
<1>1. CASE Recv
  <2>1. CASE RecvFirst
    BY <2>1 DEF RecvFirst, Receive, Applied, Takes
  <2>2. CASE RecvList \/ RecvReset
    BY <2>2 DEF RecvList, RecvReset, Receive, InLoop, Takes
  <2>3. CASE RecvRaid \/ RecvOk \/ RecvScores \/ RecvGameOver
    BY <2>3 DEF RecvRaid, RecvOk, RecvScores, RecvGameOver, Receive, InLoop, Applied, Takes
  <2>4. QED
    BY <1>1, <2>1, <2>2, <2>3 DEF Recv
<1>2. ASSUME NEW a \in Actor, Send(a)
      PROVE  mode # "gone" /\ \E p \in Packet : Puts(p)
  <2>1. busy[a] \subseteq Packet
    BY DEF WireTypes
  <2>2. QED
    BY <1>2, <2>1 DEF Send, Open, client, Puts
<1>3. CASE Quit \/ (\E right \in BOOLEAN : Answer(right)) \/ UNCHANGED cvars
  BY <1>3 DEF Quit, Answer, InLoop, cvars, server, client, Stays
<1>4. CASE BoardEvent
  BY <1>4 DEF BoardEvent, ListNext, Unlist, LeakTag, LeakArm, Thaw, Announce, Open, client, Stays
<1>5. CASE RoundEvent \/ Handler
  <2>1. CASE RoundEvent
    BY <2>1 DEF RoundEvent, ShowScores, ResetRound, Announce, Sync, Snapshot, Open, client, Stays
  <2>2. CASE Login \/ HandleSubmit
    BY <2>2, Zenon DEF Login, Register, LoginOk, SendMask, HandleSubmit, HandlerStep, Open, client,
                       Stays
  <2>3. CASE Sync("handler")
    BY <2>3 DEF Sync, Snapshot, Open, client, Stays
  <2>4. QED
    BY <1>5, <2>1, <2>2, <2>3 DEF Handler
<1>6. CASE FireRaid \/ RaidThreads
  BY <1>6, Zenon DEF FireRaid, Announce, RaidThreads, RaidArm, RaidTimeout, RaidStep, Open, client,
                     Stays
<1>7. QED
  BY <1>1, <1>2, <1>3, <1>4, <1>5, <1>6 DEF ClientNext

\* Nobody follows the lists of a client that has gone.
Led == mode # "gone" => Leads(view, wire, coming)

LEMMA LedNext ==
    ASSUME WireTypes, Led, [ClientNext]_cvars
    PROVE  Led'
<1>1. SUFFICES ASSUME mode' # "gone"
               PROVE  Leads(view', wire', coming')
  BY DEF Led, Leads, Path, Applied, Spawned, Removed, Refrozen, EmptyView, Frozen, Marked,
            Kind, Ids, ToSet, SelectInSeq, Front, Last, Min
<1>2. /\ mode # "gone" /\ Leads(view, wire, coming) /\ wire \in Seq(Packet)
      /\ Stays \/ Takes \/ \E p \in Packet : Puts(p)
  BY <1>1, ViewSteps DEF Led, WireTypes
<1>3. CASE Stays
  BY <1>2, <1>3 DEF Stays
<1>4. CASE Takes
  BY <1>2, <1>4, LeadsTake DEF Takes
<1>5. ASSUME NEW p \in Packet, Puts(p)
      PROVE  Leads(view', wire', coming')
  BY <1>2, <1>5, LeadsPut DEF Puts
<1>6. QED
  BY <1>2, <1>3, <1>4, <1>5

-----------------------------------------------------------------------------

LEMMA MirrorInit ==
    ASSUME ClientInit
    PROVE  MirrorInv /\ Led
<1>1. /\ coming = EmptyView /\ view = EmptyView /\ wire = <<>>
      /\ \A a \in Actor : busy[a] = {}
      /\ at = [handler |-> "login", reset |-> "idle"]
      /\ board = SEEDS /\ fresh = Item \ SEEDS
  BY DEF ClientInit
<1>2. "reset" \in Actor
  BY DEF Actor
<1>3. coming \in View /\ Fits(coming) /\ Honest(coming)
  BY <1>1, EmptyViewType, EmptyLists
<1>4. /\ \A i : Spawners(i) = {} /\ Removers(i) = {} /\ Tellers(i) = {}
      /\ ~ Clearing
  BY <1>1, <1>2 DEF Spawners, Removers, Tellers, Clearing
<1>5. \A i : ~ InList(coming, i) /\ Once(coming, i)
  BY <1>1, EmptyLists
<1>6. Tidy
  <2>1. at \in Places
    BY <1>1 DEF Places
  <2>2. OneEach
    BY <1>1 DEF OneEach
  <2>3. Unheard
    BY <1>1, <1>4, <1>5 DEF Unheard
  <2>4. QED
    BY <2>1, <2>2, <2>3 DEF Tidy
<1>7. ASSUME NEW i \in Item
      PROVE  ItemFollows(i)
  <2>1. ~ Shown(Kind(i))
    <3>1. PICK k \in Kinds : k = Kind(i)
      BY KindIs
    <3>2. at.handler = "login"
      BY <1>1
    <3>3. ~ Shown(k)
      BY <3>1, <3>2 DEF Shown, Taken, Kinds
    <3>4. QED
      BY <3>1, <3>3
  <2>2. QED
    BY <1>4, <1>5, <2>1 DEF ItemFollows, Follows
<1>8. ASSUME NEW t \in Tag
      PROVE  TagFollows(t)
  <2>1. coming.mask = {} /\ at.handler # "ready"
    BY <1>1, EmptyLists
  <2>2. QED
    BY <1>1, <2>1 DEF TagFollows
<1>9. Led
  <2>1. PICK s : s = [n \in Nat |-> EmptyView]
    OBVIOUS
  <2>2. Len(wire) = 0 /\ DOMAIN wire = {}
    BY <1>1
  <2>3. Path(s, view, wire, coming)
    BY <1>1, <2>1, <2>2 DEF Path
  <2>4. QED
    BY <2>3 DEF Led, Leads
<1>10. QED
  BY <1>3, <1>6, <1>7, <1>8, <1>9 DEF MirrorInv

LEMMA ComingNext ==
    ASSUME WireTypes, OneEach, coming \in View, Fits(coming), Honest(coming), MirrorStep
    PROVE  coming' \in View /\ Fits(coming)' /\ Honest(coming)'
<1>1. PICK v \in View : v = coming /\ Fits(v) /\ Honest(v)
  OBVIOUS
<1>2. PICK c : coming' = c
  OBVIOUS
<1>3. c = v \/ \E p \in Packet : c = Applied(v, p)
  <2>1. \A a \in Actor : \A p : Passes(a, p) => p \in Packet /\ coming' = Applied(coming, p)
    BY SaidPasses DEF Passes
  <2>2. ~ (\E a \in Actor : \E p : Passes(a, p)) => coming' = coming
    BY DEF MirrorStep, MirrorSame, Resets, Masks, Chats, Lists, Unlists, Leaks, Thaws, Forgets,
           Shows, Has
  <2>3. QED
    BY <1>1, <1>2, <2>1, <2>2
<1>4. c \in View /\ Fits(c) /\ Honest(c)
  BY <1>1, <1>3, AppliedType, AppliedLists
<1>5. QED
  BY <1>2, <1>4, ComingIs

LEMMA MirrorNext ==
    ASSUME Types, MirrorInv, [ClientNext]_cvars
    PROVE  MirrorInv'
<1>1. /\ WireTypes /\ OneEach /\ at \in Places /\ Tidy
      /\ coming \in View /\ Fits(coming) /\ Honest(coming)
  BY DEF Types, MirrorInv, Tidy
<1>2. MirrorStep
  BY <1>1, MirrorSteps
<1>3. coming' \in View /\ Fits(coming)' /\ Honest(coming)'
  BY <1>1, <1>2, ComingNext
<1>4. Tidy'
  BY <1>1, <1>2, TidyNext
<1>5. \A i \in Item : ItemFollows(i)'
  BY <1>1, <1>2, ItemNext DEF MirrorInv
<1>6. \A t \in Tag : TagFollows(t)'
  BY <1>1, <1>2, TagNext DEF MirrorInv
<1>7. QED
  BY <1>3, <1>4, <1>5, <1>6 DEF MirrorInv

\* A client to whom nothing is left to be delivered.
LEMMA SettledMirror ==
    ASSUME Types, MirrorInv, Led, Settled
    PROVE  /\ view \in View /\ Honest(view)
           /\ \A i \in Item \ crossed : Once(view, i) /\ (InList(view, i) <=> i \in board)
           /\ \A t \in Tag \ crossed : t \in view.mask <=> t \in frozen
<1>1. /\ wire = <<>> /\ mode # "gone" /\ at.handler = "ready" /\ at.reset = "idle"
      /\ \A a \in Actor : busy[a] = {}
  BY DEF Settled, InLoop
<1>2. coming = view
  <2>1. Leads(view, wire, coming) /\ Len(wire) = 0
    BY <1>1 DEF Led
  <2>2. QED
    BY <2>1 DEF Leads, Path
<1>3. "reset" \in Actor
  BY DEF Actor
<1>4. /\ \A i : Spawners(i) = {} /\ Removers(i) = {} /\ Tellers(i) = {}
      /\ ~ Clearing
  BY <1>1, <1>3 DEF Spawners, Removers, Tellers, Clearing
<1>5. ASSUME NEW i \in Item \ crossed
      PROVE  Once(view, i) /\ (InList(view, i) <=> i \in board)
  <2>1. Shown(Kind(i))
    <3>1. PICK k \in Kinds : k = Kind(i)
      BY KindIs
    <3>2. Shown(k)
      BY <1>1, <3>1 DEF Shown, Taken, Kinds
    <3>3. QED
      BY <3>1, <3>2
  <2>2. ItemFollows(i)
    BY DEF MirrorInv
  <2>3. Follows(i \in board, Spawners(i), Removers(i), Shown(Kind(i)), InList(coming, i), Once(coming, i))
    BY <1>4, <2>2 DEF ItemFollows, Sole
  <2>4. QED
    BY <1>2, <1>4, <2>1, <2>3 DEF Follows
<1>6. ASSUME NEW t \in Tag \ crossed
      PROVE  t \in view.mask <=> t \in frozen
  <2>1. TagFollows(t)
    BY DEF MirrorInv
  <2>2. QED
    BY <1>1, <1>2, <1>4, <2>1 DEF TagFollows
<1>7. coming \in View /\ Honest(coming)
  BY DEF MirrorInv
<1>8. QED
  BY <1>2, <1>5, <1>6, <1>7

\* A client that has logged in, to which nothing is left to be delivered, lists what the
\* server lists, each item once, and marks an offer as the server does: the snapshots of
\* client_handler and trigger_round_reset and the broadcasts of the other threads, which
\* reach it in any order, do not leave it with an offer twice, with one that has been
\* sold, or with one whose freezing or thawing it has missed.  Left out are the items and
\* tags whose announcements have crossed on the way to the socket.
THEOREM MirrorFollows == ClientSpec => []MirrorSettles
<1> DEFINE Inv == Types /\ MirrorInv /\ Led
<1>1. ClientInit => Inv
  BY TypesInit, MirrorInit
<1>2. Inv /\ [ClientNext]_cvars => Inv'
  <2> SUFFICES ASSUME Inv, [ClientNext]_cvars
               PROVE  Inv'
    OBVIOUS
  <2>1. Types' /\ MirrorInv' /\ WireTypes
    BY TypesNext, MirrorNext DEF Types
  <2>2. Led'
    BY <2>1, LedNext
  <2>3. QED
    BY <2>1, <2>2
<1>3. Inv => MirrorSettles
  <2> SUFFICES ASSUME Inv, Settled
               PROVE  /\ \A i \in Item \ crossed : Times(i) = IF i \in board THEN 1 ELSE 0
                      /\ \A e \in ToSet(view.mkt) :
                            TagsOf[e.id] \cap crossed = {} => e.frozen = Frozen(e.id, frozen)
    BY DEF MirrorSettles
  <2>1. /\ view \in View /\ Honest(view)
        /\ \A i \in Item \ crossed : Once(view, i) /\ (InList(view, i) <=> i \in board)
        /\ \A t \in Tag \ crossed : t \in view.mask <=> t \in frozen
    BY SettledMirror
  <2>2. ASSUME NEW i \in Item \ crossed
        PROVE  Times(i) = IF i \in board THEN 1 ELSE 0
    <3>1. PICK s : s = view[Kind(i)]
      OBVIOUS
    <3>2. PICK T : T = {n \in DOMAIN s : s[n].id = i}
      OBVIOUS
    <3>3. Times(i) = Cardinality(T)
      BY <3>1, <3>2 DEF Times
    <3>4. OneId(s, i) /\ (HasId(s, i) <=> i \in board)
      BY <2>1, <3>1 DEF Once, InList
    <3>5. CASE i \in board
      <4>1. PICK n \in DOMAIN s : s[n].id = i
        BY <3>4, <3>5 DEF HasId
      <4>2. T = {n}
        BY <3>2, <3>4, <4>1 DEF OneId
      <4>3. QED
        BY <3>3, <3>5, <4>2, FS_Singleton
    <3>6. CASE i \notin board
      <4>1. T = {}
        BY <3>2, <3>4, <3>6 DEF HasId
      <4>2. QED
        BY <3>3, <3>6, <4>1, FS_EmptySet
    <3>7. QED
      BY <3>5, <3>6
  <2>3. ASSUME NEW e \in ToSet(view.mkt), TagsOf[e.id] \cap crossed = {}
        PROVE  e.frozen = Frozen(e.id, frozen)
    <3>1. PICK s : s = view["mkt"] /\ s \in Seq(EntryOf("mkt"))
      BY <2>1, ListGet DEF Kinds
    <3>2. PICK n \in DOMAIN s : e = s[n]
      BY <2>3, <3>1 DEF ToSet
    <3>3. e.id \in Item
      BY <3>1, <3>2, ElementOfSeq, LenProperties DEF EntryOf, Entry
    <3>4. e.frozen = Frozen(e.id, view.mask)
      BY <2>1, <3>1, <3>2 DEF Honest, Flagged
    <3>5. \A t \in TagsOf[e.id] : t \in view.mask <=> t \in frozen
      <4>1. TagsOf[e.id] \subseteq Tag
        BY <3>3, ClientAssumption
      <4>2. QED
        BY <2>1, <2>3, <4>1
    <3>6. QED
      BY <3>4, <3>5 DEF Frozen
  <2>4. QED
    BY <2>2, <2>3
<1>4. QED
  BY <1>1, <1>2, <1>3, PTL DEF ClientSpec
=============================================================================
