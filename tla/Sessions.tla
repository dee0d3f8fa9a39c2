------------------------------ MODULE Sessions ------------------------------
(***************************************************************************)
(* Connections and logins (main, client_handler and broadcast_packet of    *)
(* src/src/server/server_main.c) over the records of users.dat             *)
(* (src/userdb/userdb.c).                                                  *)
(*                                                                         *)
(* clients_mutex guards the table of sockets and keys.  A critical section *)
(* that only reads or writes the table is one step, taken when the mutex   *)
(* is free; broadcast_packet, which sends inside it, is one step a socket. *)
(* Every client has room for SEND_ROOM unread packets, and send() waits    *)
(* for room.                                                               *)
(***************************************************************************)
EXTENDS Integers, Sequences, FiniteSets, Functions

CONSTANTS
    Conn,           \* socket numbers; one is used again once it is closed
    Key,            \* user keys
    MAX_CLIENTS,    \* 10 in protocol.h
    SEND_ROOM       \* packets the kernel holds for a client that is not reading

ASSUME SessionsAssumption ==
    /\ MAX_CLIENTS \in Nat \ {0}
    /\ SEND_ROOM \in Nat \ {0}

VARIABLES
    client_sockets,     \* slot -> connection, for the slots in use
    active_keys,        \* slot -> key, for the slots whose login is complete
    users_dat,          \* the records in file order: key, burned or not
    conn,               \* connection -> where its handler thread is, its key, and
                        \* (history) whether that was burned when the login began
    left,               \* the connections whose client has hung up
    unread,             \* connection -> packets sent and not read
    casting             \* the slots a running broadcast has still to serve

table == <<client_sockets, active_keys>>
svars == <<table, users_dat, conn, left, unread, casting>>

Slots == 0 .. (MAX_CLIENTS - 1)
Idle == -1
MutexFree == casting = {Idle}

-----------------------------------------------------------------------------
\* users.dat: userdb_find returns the first record of a key.

RecordsOf(k) == {r \in DOMAIN users_dat : users_dat[r].key = k}
\* Mutant: any record of the key may be the one that is found.
userdb_find_any(k) == RecordsOf(k)

userdb_find(k) == {r \in RecordsOf(k) : \A q \in RecordsOf(k) : r <= q}
Burned(k) == \E r \in userdb_find(k) : users_dat[r].burned

-----------------------------------------------------------------------------

Init ==
    /\ client_sockets = [s \in {} |-> {}]
    /\ active_keys = [s \in {} |-> {}]
    /\ users_dat = <<>>
    /\ conn = [c \in Conn |-> [pc |-> "closed"]]
    /\ left = {}
    /\ unread = [c \in Conn |-> 0]
    /\ casting = {Idle}

SlotOf(c) == {s \in DOMAIN client_sockets : client_sockets[s] = c}
Goto(c, h) == conn' = [conn EXCEPT ![c] = h]

\* Clients connect, read, and hang up when they like.
Connect(c) ==
    /\ conn[c].pc = "closed"
    /\ Goto(c, [pc |-> "backlog"])
    /\ left' = left \ {c}
    /\ unread' = [unread EXCEPT ![c] = 0]
    /\ UNCHANGED <<table, users_dat, casting>>

HangUp(c) ==
    /\ conn[c].pc # "closed"
    /\ c \notin left
    /\ left' = left \cup {c}
    /\ UNCHANGED <<table, users_dat, conn, unread, casting>>

Read(c) ==
    /\ unread[c] > 0 /\ c \notin left
    /\ unread' = [unread EXCEPT ![c] = @ - 1]
    /\ UNCHANGED <<table, users_dat, conn, left, casting>>

\* main: the first free slot, or the connection is closed.  Starting the handler
\* thread may fail, and then the slot is not taken.
Accept(c) ==
    /\ MutexFree
    /\ conn[c].pc = "backlog"
    /\ \/ \E s \in Slots \ DOMAIN client_sockets :
             /\ \A r \in 0 .. (s - 1) : r \in DOMAIN client_sockets
             /\ client_sockets' = [r \in DOMAIN client_sockets \cup {s} |->
                                      IF r = s THEN c ELSE client_sockets[r]]
             /\ Goto(c, [pc |-> "hello"])
       \/ /\ Goto(c, [pc |-> "closed"])      \* table full, or no thread
          /\ UNCHANGED client_sockets
    /\ UNCHANGED <<active_keys, users_dat, left, unread, casting>>

\* client_handler: the check for a second session of the key.
DuplicateCheck(c, k) ==
    /\ MutexFree
    /\ conn[c].pc = "hello" /\ c \notin left
    /\ Goto(c, IF \E s \in DOMAIN active_keys : active_keys[s] = k
               THEN [pc |-> "closing"] ELSE [pc |-> "lookup", key |-> k, barred |-> Burned(k)])
    /\ UNCHANGED <<table, users_dat, left, unread, casting>>

Lookup(c) ==
    /\ conn[c].pc = "lookup"
    /\ \/ /\ userdb_find(conn[c].key) = {}
          /\ Goto(c, [conn[c] EXCEPT !.pc = "append"])
       \/ \E r \in userdb_find(conn[c].key) :
             Goto(c, IF users_dat[r].burned
                     THEN [pc |-> "closing"] ELSE [conn[c] EXCEPT !.pc = "register"])
    /\ UNCHANGED <<table, users_dat, left, unread, casting>>

\* userdb_append: a new record at the end of the file.
AppendRecord(c) ==
    /\ conn[c].pc = "append"
    /\ users_dat' = Append(users_dat, [key |-> conn[c].key, burned |-> FALSE])
    /\ Goto(c, [conn[c] EXCEPT !.pc = "register"])
    /\ UNCHANGED <<table, left, unread, casting>>

Register(c) ==
    /\ MutexFree
    /\ conn[c].pc = "register"
    /\ active_keys' = [s \in DOMAIN active_keys \cup SlotOf(c) |->
                          IF s \in SlotOf(c) THEN conn[c].key ELSE active_keys[s]]
    /\ Goto(c, [conn[c] EXCEPT !.pc = "serving"])
    /\ UNCHANGED <<client_sockets, users_dat, left, unread, casting>>

\* Mutant: a hang-up ends the thread without going through the disconnect label.
Stop_returns(c) ==
    /\ conn[c].pc \in {"hello", "serving"} /\ c \in left
    /\ Goto(c, [pc |-> "closed"])
    /\ UNCHANGED <<table, users_dat, left, unread, casting>>

\* Mutant: a hang-up before the login is not noticed.
Stop_only_serving(c) ==
    /\ conn[c].pc = "serving" /\ c \in left
    /\ Goto(c, [pc |-> "closing"])
    /\ UNCHANGED <<table, users_dat, left, unread, casting>>

\* recv returns 0 once the client has hung up.
Stop(c) ==
    /\ conn[c].pc \in {"hello", "serving"} /\ c \in left
    /\ Goto(c, [pc |-> "closing"])
    /\ UNCHANGED <<table, users_dat, left, unread, casting>>

\* check_bankruptcy after a command (handle_buy or handle_rumor): a burned player is disconnected.
Bust(c) ==
    /\ conn[c].pc = "serving" /\ Burned(conn[c].key)
    /\ Goto(c, [pc |-> "closing"])
    /\ UNCHANGED <<table, users_dat, left, unread, casting>>

\* Mutant: the slot is cleared without clients_mutex.
Disconnect_unlocked(c) ==
    /\ conn[c].pc = "closing"
    /\ client_sockets' = Restrict(client_sockets, DOMAIN client_sockets \ SlotOf(c))
    /\ active_keys' = Restrict(active_keys, DOMAIN active_keys \ SlotOf(c))
    /\ Goto(c, [pc |-> "closed"])
    /\ UNCHANGED <<users_dat, left, unread, casting>>

\* The disconnect label: the slot is cleared, then the socket closed.
Disconnect(c) ==
    /\ MutexFree
    /\ conn[c].pc = "closing"
    /\ client_sockets' = Restrict(client_sockets, DOMAIN client_sockets \ SlotOf(c))
    /\ active_keys' = Restrict(active_keys, DOMAIN active_keys \ SlotOf(c))
    /\ Goto(c, [pc |-> "closed"])
    /\ UNCHANGED <<users_dat, left, unread, casting>>

\* userdb_burn_at, after a bankruptcy or by a raid.  The raid burns whoever was
\* logged in when it began and may have hung up, or logged in again, since.
Burn(k) ==
    /\ \E r \in userdb_find(k) :
          /\ ~ users_dat[r].burned
          /\ users_dat' = [users_dat EXCEPT ![r].burned = TRUE]
    /\ UNCHANGED <<table, conn, left, unread, casting>>

\* broadcast_packet: the mutex is held from the first send to the last.
CastBegin ==
    /\ MutexFree
    /\ DOMAIN client_sockets # {}
    /\ casting' = DOMAIN client_sockets
    /\ UNCHANGED <<table, users_dat, conn, left, unread>>

\* Mutant: a failed send returns from broadcast_packet without unlocking.
CastSend_keeps_lock(s) ==
    /\ s \in casting \ {Idle}
    /\ \A r \in casting : s <= r
    /\ LET c == client_sockets[s] IN
          /\ c \notin left /\ unread[c] < SEND_ROOM
          /\ unread' = [unread EXCEPT ![c] = @ + 1]
    /\ casting' = IF casting = {s} THEN {Idle} ELSE casting \ {s}
    /\ UNCHANGED <<table, users_dat, conn, left>>

CastSend(s) ==
    /\ s \in casting \ {Idle}
    /\ \A r \in casting : s <= r
    /\ LET c == client_sockets[s] IN
          \/ c \in left /\ UNCHANGED unread
          \/ c \notin left /\ unread[c] < SEND_ROOM /\ unread' = [unread EXCEPT ![c] = @ + 1]
    /\ casting' = IF casting = {s} THEN {Idle} ELSE casting \ {s}
    /\ UNCHANGED <<table, users_dat, conn, left>>

-----------------------------------------------------------------------------

Handler(c) == Lookup(c) \/ AppendRecord(c) \/ Register(c) \/ Stop(c) \/ Disconnect(c)

\* What the client's next packet makes its handler do.
Command(c) == Bust(c) \/ \E k \in Key : DuplicateCheck(c, k)

Cast == \E s \in Slots : CastSend(s)

Next ==
    \/ \E c \in Conn : Connect(c) \/ HangUp(c) \/ Read(c) \/ Accept(c)
    \/ \E c \in Conn : Handler(c) \/ Command(c)
    \/ \E k \in Key : Burn(k)
    \/ CastBegin \/ Cast

Spec == Init /\ [][Next]_svars

\* The accept loop and the handlers run, and get clients_mutex in the end: there
\* are seconds between broadcasts.  Clients read what they are sent; nothing
\* obliges them to send a command or to hang up.
FairSpec ==
    /\ Spec
    /\ \A c \in Conn : SF_svars(Accept(c)) /\ SF_svars(Handler(c)) /\ WF_svars(Read(c))
    /\ WF_svars(Cast)

-----------------------------------------------------------------------------

\* Type invariant of the table, the records, the handlers and the broadcast.
TypeOK ==
    /\ client_sockets \in UNION {[S -> Conn] : S \in SUBSET Slots}
    /\ active_keys \in UNION {[S -> Key] : S \in SUBSET DOMAIN client_sockets}
    /\ users_dat \in Seq([key : Key, burned : BOOLEAN])
    /\ conn \in [Conn -> [pc : {"backlog", "hello", "closing", "closed"}]
                         \cup [pc : {"lookup", "append", "register", "serving"}, key : Key,
                               barred : BOOLEAN]]
    /\ left \subseteq Conn
    /\ unread \in [Conn -> 0 .. SEND_ROOM]
    /\ casting = {Idle} \/ casting \subseteq DOMAIN client_sockets

\* The table holds exactly the connections that have a handler, each in one slot:
\* no slot leaks when a login fails, a player goes bust or a client hangs up at
\* any moment, and no broadcast writes to a socket whose handler has closed it.
SlotsMatchHandlers ==
    \A c \in Conn :
        Cardinality(SlotOf(c)) =
            IF conn[c].pc \in {"hello", "lookup", "append", "register", "serving", "closing"}
            THEN 1 ELSE 0

\* A key that was burned before its login began is never served again, even if
\* two logins of the key raced and left it two records: the lookup and the burn
\* both go by the first.
BurnedStaysOut == \A c \in Conn : conn[c].pc = "serving" => ~ conn[c].barred

\* The second login with a key that is in use is refused, so two sessions never
\* share a key (README.md: "동일 KEY로 두 번 접속 시 두 번째는 거절됨").
OneSessionPerKey ==
    \A s, r \in DOMAIN active_keys : active_keys[s] = active_keys[r] => s = r

\* When a client hangs up, at whatever point of its login, its handler ends and
\* its slot is free again: a full table does not stay full.
HungUpIsCleared ==
    \A c \in Conn : (c \in left) ~> (SlotOf(c) = {} /\ conn[c].pc = "closed")

\* A login that was sent is answered: the session is served or closed, although
\* every broadcast holds up the table while it sends.
LoginAnswered ==
    \A c \in Conn :
        (conn[c].pc \in {"lookup", "append", "register"}) ~> (conn[c].pc \in {"serving", "closed"})
=============================================================================
