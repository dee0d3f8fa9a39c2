---------------------------- MODULE TradeHistory ----------------------------
(***************************************************************************)
(* Trade with a record of what its threads began when and of who was       *)
(* raided, and the map that shows it to implement Exchange.  The history   *)
(* variables follow the steps of Trade and allow every one of them.        *)
(***************************************************************************)
EXTENDS Trade

CONSTANT Event      \* the event thread

ASSUME EventAssumption == Event \notin User

VARIABLES
    barred,     \* (history) who is selling, or Event while it lists a document, ->
                \* the tags that have been frozen ever since that began
    raided      \* (history) the keys that a raid has burned

hvars == <<tvars, barred, raided>>

\* From the first call of handle_sell to npc_take, and from the choice of the tags
\* in event_spawn_market to market_add.
UnderWay ==
    {u \in User : At(u, "sell_check")}
    \cup (IF ev.pc \in {"spawn_write", "spawn_add"} THEN {Event} ELSE {})

Record ==
    /\ barred' = [p \in UnderWay' |-> IF p \in DOMAIN barred
                                      THEN barred[p] \cap g_frozen_tags' ELSE g_frozen_tags']
    /\ raided' = raided \cup {u \in User : raid'.pc = "purge" /\ raid'.key = u}

HistoryInit ==
    /\ TradeInit
    /\ barred = [p \in {} |-> {}]
    /\ raided = {}

HistorySpec == HistoryInit /\ [][TradeNext /\ Record]_hvars

FairHistorySpec ==
    /\ HistorySpec
    /\ \A u \in User : WF_tvars(Handler(u))
    /\ WF_tvars(Spawner)
    /\ WF_tvars(RaidPurge)

-----------------------------------------------------------------------------
\* A purchase happens at market_take and a sale at npc_take: the money that a thread
\* has yet to write, and the documents it has yet to remove, are counted as done.  A
\* raid happens when it burns the account.

Purse(u) ==
    CASE th[u].pc \in {"buy_move", "buy_undo", "buy_pay"} ->
            users_dat[u] - th[u].slot.base_price
      [] th[u].pc = "sell_dispose" -> users_dat[u] + th[u].bounty
      [] th[u].pc = "sell_pay" -> th[u].money
      [] OTHER -> users_dat[u]

Holds(u) ==
    IF th[u].pc = "sell_dispose" THEN Vacate(sandbox[u], th[u].todo) ELSE sandbox[u]

Due(u) ==
    [d \in {e \in DocId : InPassage(u, e)} |->
        [tags |-> th[u].slot.tags, price |-> th[u].slot.base_price]]

SlotOf(d) == CHOOSE i \in DOMAIN g_market : g_market[i].doc_id = d
NpcSlotOf(n) == CHOOSE i \in DOMAIN g_npc : g_npc[i].npc_id = n

ShownOffers ==
    [d \in OnBoard |-> [tags |-> g_market[SlotOf(d)].tags,
                        price |-> g_market[SlotOf(d)].base_price]]
OpenRequests ==
    [n \in {g_npc[i].npc_id : i \in DOMAIN g_npc} |->
        [tags |-> g_npc[NpcSlotOf(n)].required_tags, bounty |-> g_npc[NpcSlotOf(n)].bounty]]
Purses == [u \in User \ raided |-> Purse(u)]
Hands  == [u \in User \ raided |-> Holds(u)]
Dues   == [u \in User |-> Due(u)]

X == INSTANCE Exchange WITH
        Player <- User, Dealer <- Event, Doc <- DocId, Req <- NpcId, Mark <- Tag,
        Cost <- Price, Reward <- Bounty, Room <- MAX_INVEN_SIZE, Bust <- BURNED,
        shown <- ShownOffers, wanted <- OpenRequests, frozen <- g_frozen_tags,
        due <- Dues, purse <- Purses, holds <- Hands

\* The threads, files and records behave like atomic trades, whatever raids and
\* failing renames come between their calls: nobody pays twice, for nothing or for
\* another price, nobody is paid twice for a request, nothing that has been frozen
\* since it was asked for is traded (README.md: "매매 차단"), and the money on record
\* is what the trades add up to, except for a player who was raided.
ImplementsExchange == X!Start(INITIAL_MONEY) /\ X!StepsOnly
=============================================================================
