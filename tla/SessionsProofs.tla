--------------------------- MODULE SessionsProofs ---------------------------
(***************************************************************************)
(* For any number of connections, keys and slots: the table of sockets     *)
(* matches the handlers, and no login of a burned key is ever served.      *)
(***************************************************************************)
EXTENDS Sessions, FiniteSetTheorems, SequenceTheorems, TLAPS

-----------------------------------------------------------------------------
\* The invariant.

Record == [key : Key, burned : BOOLEAN]
LoginPc == {"lookup", "append", "register", "serving"}
OtherPc == {"backlog", "hello", "closing", "closed"}
Locals == [pc : OtherPc] \cup [pc : LoginPc, key : Key, barred : BOOLEAN]

\* The points at which a connection has a handler.
Handled == LoginPc \cup {"hello", "closing"}

\* SlotsMatchHandlers without counting.
OneSlotEach ==
    \A c \in Conn :
        /\ conn[c].pc \in Handled => \E s : SlotOf(c) = {s}
        /\ conn[c].pc \notin Handled => SlotOf(c) = {}

\* A key that was burned when its login began is so still when it is looked up, and
\* the login goes no further.
BarredTurnedAway ==
    \A c \in Conn :
        /\ conn[c].pc = "lookup" /\ conn[c].barred => Burned(conn[c].key)
        /\ conn[c].pc \in LoginPc \ {"lookup"} => ~ conn[c].barred

SessionsInv == TypeOK /\ OneSlotEach /\ BarredTurnedAway

-----------------------------------------------------------------------------
\* Lemmas on partial functions, the locals of a handler, and the records.

Partial(D, R) == UNION {[S -> R] : S \in SUBSET D}

\* The functions from some of the slots.
LEMMA PartialElim ==
    ASSUME NEW D, NEW R, NEW p \in Partial(D, R)
    PROVE  /\ p = [i \in DOMAIN p |-> p[i]]
           /\ DOMAIN p \subseteq D
           /\ \A i \in DOMAIN p : p[i] \in R
BY DEF Partial

LEMMA PartialIntro ==
    ASSUME NEW D, NEW R, NEW S \in SUBSET D, NEW p \in [S -> R]
    PROVE  p \in Partial(D, R)
BY DEF Partial

LEMMA PartialWider ==
    ASSUME NEW D, NEW E, D \subseteq E, NEW R, NEW p \in Partial(D, R)
    PROVE  p \in Partial(E, R)
BY DEF Partial

\* TypeOK, with the sets named.
Types ==
    /\ client_sockets \in Partial(Slots, Conn)
    /\ active_keys \in Partial(DOMAIN client_sockets, Key)
    /\ users_dat \in Seq(Record)
    /\ conn \in [Conn -> Locals]
    /\ left \subseteq Conn
    /\ unread \in [Conn -> 0 .. SEND_ROOM]
    /\ casting = {Idle} \/ casting \subseteq DOMAIN client_sockets

LEMMA TypeSplit == TypeOK <=> Types
BY DEF TypeOK, Types, Partial, Record, Locals, LoginPc, OtherPc

\* What a handler keeps, and what it goes on to.
LEMMA LocalsForms ==
    /\ \A p \in OtherPc : [pc |-> p] \in Locals
    /\ \A k \in Key, b \in BOOLEAN, p \in LoginPc :
          [pc |-> p, key |-> k, barred |-> b] \in Locals
    /\ \A h \in Locals :
          /\ h.pc \in OtherPc \cup LoginPc
          /\ h.pc \in LoginPc => /\ h.key \in Key /\ h.barred \in BOOLEAN
                                 /\ h = [pc |-> h.pc, key |-> h.key, barred |-> h.barred]
BY DEF Locals, LoginPc, OtherPc

\* A handler that goes on with its login keeps its key.
LEMMA GoesOn ==
    ASSUME NEW h \in Locals, h.pc \in LoginPc, NEW p \in LoginPc
    PROVE  /\ [h EXCEPT !.pc = p] \in Locals
           /\ [h EXCEPT !.pc = p] = [pc |-> p, key |-> h.key, barred |-> h.barred]
<1>1. h = [pc |-> h.pc, key |-> h.key, barred |-> h.barred]
      /\ h.key \in Key /\ h.barred \in BOOLEAN
  BY LocalsForms
<1>2. [h EXCEPT !.pc = p] = [pc |-> p, key |-> h.key, barred |-> h.barred]
  BY <1>1
<1>3. QED
  BY <1>1, <1>2, LocalsForms

\* userdb_find returns one record at most.
LEMMA FoundOnce ==
    ASSUME users_dat \in Seq(Record), NEW k,
           NEW r \in userdb_find(k), NEW q \in userdb_find(k)
    PROVE  r = q
<1>1. r \in Nat /\ q \in Nat
  BY DEF userdb_find, RecordsOf
<1>2. r <= q /\ q <= r
  BY DEF userdb_find
<1>3. QED
  BY <1>1, <1>2

\* What the steps may do to users.dat, new records at the end and burns, keeps the
\* first record of a key where it is, and burned if it was.
LEMMA BurnedKept ==
    ASSUME users_dat \in Seq(Record), users_dat' \in Seq(Record),
           Len(users_dat) <= Len(users_dat'),
           \A r \in 1 .. Len(users_dat) :
              /\ users_dat'[r].key = users_dat[r].key
              /\ users_dat[r].burned => users_dat'[r].burned,
           NEW k, Burned(k)
    PROVE  Burned(k)'
<1>1. PICK r \in userdb_find(k) : users_dat[r].burned
  BY DEF Burned
<1>2. /\ DOMAIN users_dat = 1 .. Len(users_dat) /\ Len(users_dat) \in Nat
      /\ DOMAIN users_dat' = 1 .. Len(users_dat') /\ Len(users_dat') \in Nat
  BY LenProperties
<1>3. r \in 1 .. Len(users_dat) /\ users_dat[r].key = k
      /\ \A q \in 1 .. Len(users_dat) : users_dat[q].key = k => r <= q
  BY <1>2 DEF userdb_find, RecordsOf
<1>4. r \in RecordsOf(k)'
  BY <1>2, <1>3 DEF RecordsOf
<1>5. ASSUME NEW q \in RecordsOf(k)'
      PROVE  r <= q
  <2>1. q \in 1 .. Len(users_dat') /\ users_dat'[q].key = k
    BY <1>2 DEF RecordsOf
  <2>2. CASE q \in 1 .. Len(users_dat)
    BY <1>3, <2>1, <2>2
  <2>3. CASE q \notin 1 .. Len(users_dat)
    BY <1>2, <1>3, <2>1, <2>3
  <2>4. QED
    BY <2>2, <2>3
<1>6. r \in userdb_find(k)'
  BY <1>4, <1>5 DEF userdb_find
<1>7. users_dat'[r].burned
  BY <1>1, <1>3
<1>8. QED
  BY <1>6, <1>7 DEF Burned

\* What every step does to users.dat.
RecordsGrow ==
    /\ users_dat' \in Seq(Record)
    /\ Len(users_dat) <= Len(users_dat')
    /\ \A r \in 1 .. Len(users_dat) :
          /\ users_dat'[r].key = users_dat[r].key
          /\ users_dat[r].burned => users_dat'[r].burned

LEMMA AppendGrows ==
    ASSUME users_dat \in Seq(Record), NEW k \in Key,
           users_dat' = Append(users_dat, [key |-> k, burned |-> FALSE])
    PROVE  RecordsGrow
<1>1. [key |-> k, burned |-> FALSE] \in Record
  <2>1. FALSE \in BOOLEAN
    BY Zenon
  <2>2. QED
    BY <2>1 DEF Record
<1>2. /\ users_dat' \in Seq(Record) /\ Len(users_dat') = Len(users_dat) + 1
      /\ Len(users_dat) \in Nat
      /\ \A r \in 1 .. Len(users_dat) : users_dat'[r] = users_dat[r]
  BY <1>1, AppendProperties, LenProperties
<1>3. QED
  BY <1>2 DEF RecordsGrow

LEMMA MarkRecord ==
    ASSUME NEW h \in Record, NEW b \in BOOLEAN
    PROVE  /\ [h EXCEPT !.burned = b] \in Record
           /\ [h EXCEPT !.burned = b].key = h.key
           /\ [h EXCEPT !.burned = b].burned = b
BY DEF Record

LEMMA BurnGrows ==
    ASSUME users_dat \in Seq(Record), NEW k \in Key, Burn(k)
    PROVE  RecordsGrow
<1>1. PICK r \in userdb_find(k) : users_dat' = [users_dat EXCEPT ![r].burned = TRUE]
  BY DEF Burn
<1>2. r \in 1 .. Len(users_dat) /\ Len(users_dat) \in Nat
  BY LenProperties DEF userdb_find, RecordsOf
<1>3. users_dat[r] \in Record
  BY <1>2, ElementOfSeq
<1> DEFINE e == [users_dat[r] EXCEPT !.burned = TRUE]
<1>4. e \in Record /\ e.key = users_dat[r].key /\ e.burned
  <2>1. TRUE \in BOOLEAN
    BY Zenon
  <2>2. e \in Record /\ e.key = users_dat[r].key /\ e.burned = TRUE
    BY <1>3, <2>1, MarkRecord, Zenon
  <2>3. QED
    BY <2>2
<1>5. users_dat' = [users_dat EXCEPT ![r] = e]
  BY <1>1
<1> HIDE DEF e
<1>6. /\ users_dat' \in Seq(Record) /\ Len(users_dat') = Len(users_dat)
      /\ \A q \in 1 .. Len(users_dat) : users_dat'[q] = IF q = r THEN e ELSE users_dat[q]
  BY <1>2, <1>4, <1>5, ExceptSeq
<1>7. QED
  BY <1>2, <1>4, <1>6 DEF RecordsGrow

LEMMA SameRecordsGrow ==
    ASSUME users_dat \in Seq(Record), UNCHANGED users_dat
    PROVE  RecordsGrow
<1>1. Len(users_dat) \in Nat
  BY LenProperties
<1>2. QED
  BY <1>1 DEF RecordsGrow

\* What the steps do to the table.  A connection that is accepted takes a free slot.
LEMMA TakeSlot ==
    ASSUME client_sockets \in Partial(Slots, Conn), NEW c \in Conn,
           NEW s \in Slots \ DOMAIN client_sockets,
           client_sockets' = [r \in DOMAIN client_sockets \cup {s} |->
                                 IF r = s THEN c ELSE client_sockets[r]]
    PROVE  /\ client_sockets' \in Partial(Slots, Conn)
           /\ DOMAIN client_sockets \subseteq DOMAIN client_sockets'
           /\ SlotOf(c)' = SlotOf(c) \cup {s}
           /\ \A d \in Conn \ {c} : SlotOf(d)' = SlotOf(d)
<1>1. /\ DOMAIN client_sockets \subseteq Slots
      /\ \A i \in DOMAIN client_sockets : client_sockets[i] \in Conn
  BY PartialElim
<1>2. DOMAIN client_sockets' = DOMAIN client_sockets \cup {s}
  OBVIOUS
<1>3. client_sockets' \in [DOMAIN client_sockets \cup {s} -> Conn]
  BY <1>1
<1>4. client_sockets' \in Partial(Slots, Conn)
  BY <1>1, <1>3, PartialIntro
<1>5. /\ SlotOf(c)' = SlotOf(c) \cup {s}
      /\ \A d \in Conn \ {c} : SlotOf(d)' = SlotOf(d)
  BY DEF SlotOf
<1>6. QED
  BY <1>2, <1>4, <1>5

\* A login that is complete enters its key in its slot.
LEMMA EnterKey ==
    ASSUME client_sockets \in Partial(Slots, Conn), NEW c \in Conn, NEW k \in Key,
           active_keys \in Partial(DOMAIN client_sockets, Key),
           active_keys' = [s \in DOMAIN active_keys \cup SlotOf(c) |->
                              IF s \in SlotOf(c) THEN k ELSE active_keys[s]]
    PROVE  active_keys' \in Partial(DOMAIN client_sockets, Key)
<1>1. /\ DOMAIN active_keys \subseteq DOMAIN client_sockets
      /\ \A i \in DOMAIN active_keys : active_keys[i] \in Key
  BY PartialElim
<1>2. SlotOf(c) \subseteq DOMAIN client_sockets
  BY DEF SlotOf
<1>3. active_keys' \in [DOMAIN active_keys \cup SlotOf(c) -> Key]
  BY <1>1
<1>4. QED
  BY <1>1, <1>2, <1>3, PartialIntro

\* The disconnect label clears the slots of its own socket and no other.
LEMMA ClearSlot ==
    ASSUME client_sockets \in Partial(Slots, Conn), NEW c \in Conn,
           active_keys \in Partial(DOMAIN client_sockets, Key),
           client_sockets' = Restrict(client_sockets, DOMAIN client_sockets \ SlotOf(c)),
           active_keys' = Restrict(active_keys, DOMAIN active_keys \ SlotOf(c))
    PROVE  /\ client_sockets' \in Partial(Slots, Conn)
           /\ active_keys' \in Partial(DOMAIN client_sockets', Key)
           /\ SlotOf(c)' = {}
           /\ \A d \in Conn \ {c} : SlotOf(d)' = SlotOf(d)
<1>1. /\ DOMAIN client_sockets \subseteq Slots
      /\ \A i \in DOMAIN client_sockets : client_sockets[i] \in Conn
  BY PartialElim
<1>2. /\ DOMAIN active_keys \subseteq DOMAIN client_sockets
      /\ \A i \in DOMAIN active_keys : active_keys[i] \in Key
  BY PartialElim
<1>3. /\ client_sockets' = [i \in DOMAIN client_sockets \ SlotOf(c) |-> client_sockets[i]]
      /\ active_keys' = [i \in DOMAIN active_keys \ SlotOf(c) |-> active_keys[i]]
  BY DEF Restrict
<1>4. /\ client_sockets' \in [DOMAIN client_sockets \ SlotOf(c) -> Conn]
      /\ active_keys' \in [DOMAIN active_keys \ SlotOf(c) -> Key]
      /\ DOMAIN client_sockets' = DOMAIN client_sockets \ SlotOf(c)
  BY <1>1, <1>2, <1>3
<1>5. client_sockets' \in Partial(Slots, Conn)
  BY <1>1, <1>4, PartialIntro
<1>6. active_keys' \in Partial(DOMAIN client_sockets', Key)
  BY <1>2, <1>4, PartialIntro
<1>7. SlotOf(c)' = {} /\ \A d \in Conn \ {c} : SlotOf(d)' = SlotOf(d)
  BY <1>3 DEF SlotOf
<1>8. QED
  BY <1>5, <1>6, <1>7

-----------------------------------------------------------------------------
\* The steps.

\* Every step keeps the types.
LEMMA TypeStep ==
    ASSUME TypeOK, [Next]_svars
    PROVE  TypeOK'
<1> SUFFICES ASSUME Types PROVE Types'
  BY TypeSplit DEF TypeOK, Types, Partial, Record, Locals, LoginPc, OtherPc
<1>0. \A p \in OtherPc : [pc |-> p] \in Locals
  BY LocalsForms
<1> USE SessionsAssumption, <1>0 DEF Types, table, Goto
<1>1. ASSUME NEW c \in Conn, Connect(c)
      PROVE  Types'
  BY <1>1 DEF Connect, OtherPc
<1>2. ASSUME NEW c \in Conn, HangUp(c) \/ Read(c)
      PROVE  Types'
  <2>1. CASE HangUp(c)
    BY <2>1 DEF HangUp
  <2>2. CASE Read(c)
    BY <2>2 DEF Read
  <2>3. QED
    BY <1>2, <2>1, <2>2
<1>3. ASSUME NEW c \in Conn, Accept(c)
      PROVE  Types'
  <2>1. CASE /\ Goto(c, [pc |-> "closed"]) /\ UNCHANGED client_sockets
    BY <1>3, <2>1 DEF Accept, OtherPc
  <2>2. ASSUME NEW s \in Slots \ DOMAIN client_sockets,
               client_sockets' = [r \in DOMAIN client_sockets \cup {s} |->
                                     IF r = s THEN c ELSE client_sockets[r]],
               Goto(c, [pc |-> "hello"])
        PROVE  Types'
    <3>1. /\ client_sockets' \in Partial(Slots, Conn)
          /\ DOMAIN client_sockets \subseteq DOMAIN client_sockets'
      BY <2>2, TakeSlot
    <3>2. active_keys \in Partial(DOMAIN client_sockets', Key)
      BY <3>1, PartialWider
    <3>3. casting' = {Idle} /\ UNCHANGED <<active_keys, users_dat, left, unread>>
      BY <1>3 DEF Accept, MutexFree
    <3>4. QED
      BY <2>2, <3>1, <3>2, <3>3 DEF OtherPc
  <2>3. QED
    BY <1>3, <2>1, <2>2 DEF Accept
<1>4. ASSUME NEW c \in Conn, NEW k \in Key, DuplicateCheck(c, k)
      PROVE  Types'
  <2>1. Burned(k) \in BOOLEAN
    BY Zenon DEF Burned
  <2>2. [pc |-> "lookup", key |-> k, barred |-> Burned(k)] \in Locals
    BY <2>1, LocalsForms DEF LoginPc
  <2>3. \E h \in Locals : conn' = [conn EXCEPT ![c] = h]
    BY <1>4, <2>2 DEF DuplicateCheck, OtherPc
  <2>4. QED
    BY <1>4, <2>3 DEF DuplicateCheck
<1>5. ASSUME NEW c \in Conn, Lookup(c)
      PROVE  Types'
  <2>1. \A p \in LoginPc : [conn[c] EXCEPT !.pc = p] \in Locals
    BY <1>5, GoesOn DEF Lookup, LoginPc
  <2>2. \E h \in Locals : conn' = [conn EXCEPT ![c] = h]
    BY <1>5, <2>1 DEF Lookup, LoginPc, OtherPc
  <2>3. QED
    BY <1>5, <2>2 DEF Lookup
<1>6. ASSUME NEW c \in Conn, AppendRecord(c)
      PROVE  Types'
  <2>1. [conn[c] EXCEPT !.pc = "register"] \in Locals /\ conn[c].key \in Key
    BY <1>6, GoesOn, LocalsForms DEF AppendRecord, LoginPc
  <2>2. users_dat' \in Seq(Record)
    BY <1>6, <2>1, AppendGrows DEF AppendRecord, RecordsGrow
  <2>3. QED
    BY <1>6, <2>1, <2>2 DEF AppendRecord
<1>7. ASSUME NEW c \in Conn, Register(c)
      PROVE  Types'
  <2>1. [conn[c] EXCEPT !.pc = "serving"] \in Locals /\ conn[c].key \in Key
    BY <1>7, GoesOn, LocalsForms DEF Register, LoginPc
  <2>2. active_keys' \in Partial(DOMAIN client_sockets, Key)
    BY <1>7, <2>1, EnterKey DEF Register
  <2>3. QED
    BY <1>7, <2>1, <2>2 DEF Register
<1>8. ASSUME NEW c \in Conn, Stop(c)
      PROVE  Types'
  BY <1>8 DEF Stop, OtherPc
<1>9. ASSUME NEW c \in Conn, Bust(c)
      PROVE  Types'
  BY <1>9 DEF Bust, OtherPc
<1>10. ASSUME NEW c \in Conn, Disconnect(c)
      PROVE  Types'
  <2>1. /\ client_sockets' \in Partial(Slots, Conn)
        /\ active_keys' \in Partial(DOMAIN client_sockets', Key)
    BY <1>10, ClearSlot DEF Disconnect
  <2>2. QED
    BY <1>10, <2>1 DEF Disconnect, MutexFree, OtherPc
<1>11. ASSUME NEW k \in Key, Burn(k)
      PROVE  Types'
  <2>1. users_dat' \in Seq(Record)
    BY <1>11, BurnGrows DEF RecordsGrow
  <2>2. QED
    BY <1>11, <2>1 DEF Burn
<1>12. CASE CastBegin
  BY <1>12 DEF CastBegin
<1>13. ASSUME NEW s \in Slots, CastSend(s)
      PROVE  Types'
  <2>1. casting # {Idle} /\ s \in casting
    BY <1>13 DEF CastSend
  <2>2. client_sockets[s] \in Conn
    BY <2>1, PartialElim
  <2>3. unread' \in [Conn -> 0 .. SEND_ROOM]
    BY <1>13, <2>2 DEF CastSend
  <2>4. casting' = {Idle} \/ casting' \subseteq DOMAIN client_sockets
    BY <1>13, <2>1 DEF CastSend
  <2>5. QED
    BY <1>13, <2>3, <2>4 DEF CastSend
<1>14. CASE UNCHANGED svars
  BY <1>14 DEF svars
<1>15. QED
  BY <1>1, <1>2, <1>3, <1>4, <1>5, <1>6, <1>7, <1>8, <1>9, <1>10, <1>11, <1>12, <1>13,
     <1>14
  DEF Next, Handler, Command, Cast

\* A step that leaves the table alone, and nobody without a handler who had one.
LEMMA SlotsKept ==
    ASSUME OneSlotEach, UNCHANGED client_sockets,
           \A d \in Conn : conn'[d].pc \in Handled <=> conn[d].pc \in Handled
    PROVE  OneSlotEach'
<1>1. \A d : SlotOf(d)' = SlotOf(d)
  BY DEF SlotOf
<1>2. QED
  BY <1>1 DEF OneSlotEach

\* Every step leaves each connection that has a handler one slot, and the others
\* none.
LEMMA SlotStep ==
    ASSUME Types, OneSlotEach, [Next]_svars
    PROVE  OneSlotEach'
<1> USE DEF Types, table, Goto, OneSlotEach
<1>1. ASSUME NEW c \in Conn, Connect(c)
      PROVE  OneSlotEach'
  BY <1>1, SlotsKept DEF Connect, Handled, LoginPc
<1>2. ASSUME NEW c \in Conn, HangUp(c) \/ Read(c)
      PROVE  OneSlotEach'
  <2>1. UNCHANGED <<client_sockets, conn>>
    BY <1>2 DEF HangUp, Read
  <2>2. QED
    BY <2>1, SlotsKept
<1>3. ASSUME NEW c \in Conn, Accept(c)
      PROVE  OneSlotEach'
  <2>1. SlotOf(c) = {}
    BY <1>3 DEF Accept, Handled, LoginPc
  <2>2. CASE /\ conn' = [conn EXCEPT ![c] = [pc |-> "closed"]] /\ UNCHANGED client_sockets
    BY <1>3, <2>2, SlotsKept DEF Accept, Handled, LoginPc
  <2>3. ASSUME NEW s \in Slots \ DOMAIN client_sockets,
               client_sockets' = [r \in DOMAIN client_sockets \cup {s} |->
                                     IF r = s THEN c ELSE client_sockets[r]],
               conn' = [conn EXCEPT ![c] = [pc |-> "hello"]]
        PROVE  OneSlotEach'
    <3>1. /\ SlotOf(c)' = SlotOf(c) \cup {s}
          /\ \A d \in Conn \ {c} : SlotOf(d)' = SlotOf(d)
      BY <2>3, TakeSlot
    <3>2. conn'[c].pc \in Handled /\ \A d \in Conn \ {c} : conn'[d] = conn[d]
      BY <2>3 DEF Handled
    <3>3. QED
      BY <2>1, <3>1, <3>2
  <2>4. QED
    BY <1>3, <2>2, <2>3 DEF Accept
<1>4. ASSUME NEW c \in Conn, NEW k \in Key, DuplicateCheck(c, k)
      PROVE  OneSlotEach'
  <2>1. conn[c].pc \in Handled /\ conn'[c].pc \in Handled
    BY <1>4 DEF DuplicateCheck, Handled, LoginPc
  <2>2. UNCHANGED client_sockets /\ \A d \in Conn \ {c} : conn'[d] = conn[d]
    BY <1>4 DEF DuplicateCheck
  <2>3. QED
    BY <2>1, <2>2, SlotsKept
<1>5. ASSUME NEW c \in Conn, Lookup(c) \/ AppendRecord(c) \/ Register(c)
      PROVE  OneSlotEach'
  <2>1. conn[c].pc \in Handled /\ conn[c].pc \in LoginPc
    BY <1>5 DEF Lookup, AppendRecord, Register, Handled, LoginPc
  <2>2. \A p \in LoginPc : [conn[c] EXCEPT !.pc = p].pc = p
    BY <2>1, GoesOn
  <2>3. /\ conn'[c].pc \in Handled
        /\ UNCHANGED client_sockets /\ \A d \in Conn \ {c} : conn'[d] = conn[d]
    <3>1. CASE Lookup(c)
      <4>1. UNCHANGED client_sockets
        BY <3>1 DEF Lookup
      <4>2. CASE conn' = [conn EXCEPT ![c] = [conn[c] EXCEPT !.pc = "append"]]
        BY <2>2, <4>1, <4>2 DEF Handled, LoginPc
      <4>3. CASE conn' = [conn EXCEPT ![c] = [conn[c] EXCEPT !.pc = "register"]]
        BY <2>2, <4>1, <4>3 DEF Handled, LoginPc
      <4>4. CASE conn' = [conn EXCEPT ![c] = [pc |-> "closing"]]
        BY <4>1, <4>4 DEF Handled
      <4>5. QED
        BY <3>1, <4>2, <4>3, <4>4 DEF Lookup
    <3>2. CASE AppendRecord(c)
      BY <2>2, <3>2 DEF AppendRecord, Handled, LoginPc
    <3>3. CASE Register(c)
      BY <2>2, <3>3 DEF Register, Handled, LoginPc
    <3>4. QED
      BY <1>5, <3>1, <3>2, <3>3
  <2>4. QED
    BY <2>1, <2>3, SlotsKept
<1>6. ASSUME NEW c \in Conn, Stop(c) \/ Bust(c)
      PROVE  OneSlotEach'
  <2>1. /\ conn[c].pc \in {"hello", "serving"} /\ UNCHANGED client_sockets
        /\ conn' = [conn EXCEPT ![c] = [pc |-> "closing"]]
    BY <1>6 DEF Stop, Bust
  <2>2. QED
    BY <2>1, SlotsKept DEF Handled, LoginPc
<1>7. ASSUME NEW c \in Conn, Disconnect(c)
      PROVE  OneSlotEach'
  <2>1. SlotOf(c)' = {} /\ \A d \in Conn \ {c} : SlotOf(d)' = SlotOf(d)
    BY <1>7, ClearSlot DEF Disconnect
  <2>2. conn'[c].pc \notin Handled /\ \A d \in Conn \ {c} : conn'[d] = conn[d]
    BY <1>7 DEF Disconnect, Handled, LoginPc
  <2>3. QED
    BY <2>1, <2>2
<1>8. ASSUME NEW k \in Key, Burn(k)
      PROVE  OneSlotEach'
  BY <1>8, SlotsKept DEF Burn
<1>9. CASE CastBegin \/ Cast
  <2>1. UNCHANGED <<client_sockets, conn>>
    BY <1>9 DEF CastBegin, Cast, CastSend
  <2>2. QED
    BY <2>1, SlotsKept
<1>10. CASE UNCHANGED svars
  BY <1>10, SlotsKept DEF svars
<1>11. QED
  BY <1>1, <1>2, <1>3, <1>4, <1>5, <1>6, <1>7, <1>8, <1>9, <1>10
  DEF Next, Handler, Command

\* No burned record is found again unburned, and no login that was barred goes on.
Barred(c) ==
    /\ conn[c].pc = "lookup" /\ conn[c].barred => Burned(conn[c].key)
    /\ conn[c].pc \in LoginPc \ {"lookup"} => ~ conn[c].barred

\* A step that leaves a handler where it is.
LEMMA BarredKept ==
    ASSUME users_dat \in Seq(Record), RecordsGrow,
           NEW d, Barred(d), conn'[d] = conn[d]
    PROVE  Barred(d)'
<1>1. Burned(conn[d].key) => Burned(conn[d].key)'
  BY BurnedKept DEF RecordsGrow
<1>2. QED
  BY <1>1 DEF Barred

\* Every step turns away the logins that were barred.
LEMMA BarredStep ==
    ASSUME Types, BarredTurnedAway, [Next]_svars
    PROVE  BarredTurnedAway'
<1>0. \A d \in Conn : Barred(d)
  BY DEF BarredTurnedAway, Barred
<1> SUFFICES ASSUME NEW d \in Conn PROVE Barred(d)'
  BY DEF BarredTurnedAway, Barred
<1> USE DEF Types, table, Goto
<1>1. ASSUME NEW c \in Conn, Connect(c) \/ Accept(c) \/ Stop(c) \/ Bust(c) \/ Disconnect(c)
      PROVE  Barred(d)'
  <2>1. /\ UNCHANGED users_dat
        /\ \E p \in OtherPc : conn' = [conn EXCEPT ![c] = [pc |-> p]]
    BY <1>1 DEF Connect, Accept, Stop, Bust, Disconnect, OtherPc
  <2>2. CASE d = c
    BY <2>1, <2>2 DEF Barred, OtherPc, LoginPc
  <2>3. CASE d # c
    BY <1>0, <2>1, <2>3, BarredKept, SameRecordsGrow
  <2>4. QED
    BY <2>2, <2>3
<1>2. ASSUME NEW c \in Conn, HangUp(c) \/ Read(c)
      PROVE  Barred(d)'
  <2>1. UNCHANGED <<users_dat, conn>>
    BY <1>2 DEF HangUp, Read
  <2>2. QED
    BY <1>0, <2>1, BarredKept, SameRecordsGrow
<1>3. ASSUME NEW c \in Conn, NEW k \in Key, DuplicateCheck(c, k)
      PROVE  Barred(d)'
  <2>1. /\ UNCHANGED users_dat
        /\ \/ conn' = [conn EXCEPT ![c] = [pc |-> "closing"]]
           \/ conn' = [conn EXCEPT ![c] = [pc |-> "lookup", key |-> k, barred |-> Burned(k)]]
    BY <1>3 DEF DuplicateCheck
  <2>2. CASE d = c
    <3>1. CASE conn' = [conn EXCEPT ![c] = [pc |-> "closing"]]
      BY <2>2, <3>1 DEF Barred, LoginPc
    <3>2. CASE conn' = [conn EXCEPT ![c] = [pc |-> "lookup", key |-> k, barred |-> Burned(k)]]
      <4>1. /\ conn'[d].pc = "lookup" /\ conn'[d].key = k
            /\ conn'[d].barred = Burned(k)
        BY <2>2, <3>2
      <4>2. Burned(k)' = Burned(k)
        BY <2>1 DEF Burned, userdb_find, RecordsOf
      <4>3. QED
        BY <4>1, <4>2, Zenon DEF Barred
    <3>3. QED
      BY <2>1, <3>1, <3>2
  <2>3. CASE d # c
    BY <1>0, <2>1, <2>3, BarredKept, SameRecordsGrow
  <2>4. QED
    BY <2>2, <2>3
<1>4. ASSUME NEW c \in Conn, Lookup(c)
      PROVE  Barred(d)'
  <2>1. UNCHANGED users_dat /\ conn[c].pc = "lookup"
    BY <1>4 DEF Lookup
  <2>2. \A p \in LoginPc : [conn[c] EXCEPT !.pc = p].barred = conn[c].barred
    BY <2>1, GoesOn DEF LoginPc
  <2>3. \/ conn' = [conn EXCEPT ![c] = [pc |-> "closing"]]
        \/ /\ ~ Burned(conn[c].key)
           /\ \E p \in LoginPc \ {"lookup"} :
                 conn' = [conn EXCEPT ![c] = [conn[c] EXCEPT !.pc = p]]
    <3>1. CASE /\ userdb_find(conn[c].key) = {}
               /\ conn' = [conn EXCEPT ![c] = [conn[c] EXCEPT !.pc = "append"]]
      BY <3>1 DEF Burned, LoginPc
    <3>2. ASSUME NEW r \in userdb_find(conn[c].key),
                 conn' = [conn EXCEPT ![c] = IF users_dat[r].burned
                             THEN [pc |-> "closing"] ELSE [conn[c] EXCEPT !.pc = "register"]]
          PROVE  \/ conn' = [conn EXCEPT ![c] = [pc |-> "closing"]]
                 \/ /\ ~ Burned(conn[c].key)
                    /\ conn' = [conn EXCEPT ![c] = [conn[c] EXCEPT !.pc = "register"]]
      <4>1. CASE users_dat[r].burned
        BY <3>2, <4>1
      <4>2. CASE ~ users_dat[r].burned
        <5>1. ~ Burned(conn[c].key)
          BY <4>2, FoundOnce DEF Burned
        <5>2. QED
          BY <3>2, <4>2, <5>1
      <4>3. QED
        BY <4>1, <4>2
    <3>3. QED
      BY <1>4, <3>1, <3>2 DEF Lookup, LoginPc
  <2>4. CASE d = c
    <3>1. CASE conn' = [conn EXCEPT ![c] = [pc |-> "closing"]]
      BY <2>4, <3>1 DEF Barred, LoginPc
    <3>2. ASSUME NEW p \in LoginPc \ {"lookup"}, ~ Burned(conn[c].key),
                 conn' = [conn EXCEPT ![c] = [conn[c] EXCEPT !.pc = p]]
          PROVE  Barred(d)'
      <4>1. ~ conn[c].barred
        BY <1>0, <2>1, <3>2 DEF Barred
      <4>2. conn'[d].pc = p /\ ~ conn'[d].barred
        BY <2>1, <2>4, <3>2, <4>1, GoesOn DEF LoginPc
      <4>3. QED
        BY <3>2, <4>2 DEF Barred
    <3>3. QED
      BY <2>3, <3>1, <3>2
  <2>5. CASE d # c
    BY <1>0, <2>1, <2>3, <2>5, BarredKept, SameRecordsGrow
  <2>6. QED
    BY <2>4, <2>5
<1>5. ASSUME NEW c \in Conn, AppendRecord(c)
      PROVE  Barred(d)'
  <2>1. /\ conn[c].pc = "append" /\ conn' = [conn EXCEPT ![c] = [conn[c] EXCEPT !.pc = "register"]]
        /\ users_dat' = Append(users_dat, [key |-> conn[c].key, burned |-> FALSE])
    BY <1>5 DEF AppendRecord
  <2>2. RecordsGrow
    BY <2>1, AppendGrows, LocalsForms DEF LoginPc
  <2>3. CASE d = c
    <3>1. ~ conn[c].barred
      BY <1>0, <2>1 DEF Barred, LoginPc
    <3>2. conn'[d].pc = "register" /\ ~ conn'[d].barred
      BY <2>1, <2>3, <3>1, GoesOn DEF LoginPc
    <3>3. QED
      BY <3>2 DEF Barred
  <2>4. CASE d # c
    BY <1>0, <2>1, <2>2, <2>4, BarredKept
  <2>5. QED
    BY <2>3, <2>4
<1>6. ASSUME NEW c \in Conn, Register(c)
      PROVE  Barred(d)'
  <2>1. /\ conn[c].pc = "register" /\ conn' = [conn EXCEPT ![c] = [conn[c] EXCEPT !.pc = "serving"]]
        /\ UNCHANGED users_dat
    BY <1>6 DEF Register
  <2>2. CASE d = c
    <3>1. ~ conn[c].barred
      BY <1>0, <2>1 DEF Barred, LoginPc
    <3>2. conn'[d].pc = "serving" /\ ~ conn'[d].barred
      BY <2>1, <2>2, <3>1, GoesOn DEF LoginPc
    <3>3. QED
      BY <3>2 DEF Barred
  <2>3. CASE d # c
    BY <1>0, <2>1, <2>3, BarredKept, SameRecordsGrow
  <2>4. QED
    BY <2>2, <2>3
<1>7. ASSUME NEW k \in Key, Burn(k)
      PROVE  Barred(d)'
  <2>1. UNCHANGED conn
    BY <1>7 DEF Burn
  <2>2. QED
    BY <1>0, <1>7, <2>1, BarredKept, BurnGrows
<1>8. CASE CastBegin \/ Cast \/ UNCHANGED svars
  <2>1. UNCHANGED <<users_dat, conn>>
    BY <1>8 DEF CastBegin, Cast, CastSend, svars
  <2>2. QED
    BY <1>0, <2>1, BarredKept, SameRecordsGrow
<1>9. QED
  BY <1>1, <1>2, <1>3, <1>4, <1>5, <1>6, <1>7, <1>8 DEF Next, Handler, Command

-----------------------------------------------------------------------------
\* The theorems.

\* To begin with nobody is connected and users.dat is empty.
LEMMA SessionsStart == Init => SessionsInv
<1> SUFFICES ASSUME Init PROVE SessionsInv
  OBVIOUS
<1>1. /\ client_sockets \in [{} -> Conn] /\ DOMAIN client_sockets = {}
      /\ active_keys \in [{} -> Key]
  BY DEF Init
<1>2. /\ client_sockets \in Partial(Slots, Conn)
      /\ active_keys \in Partial(DOMAIN client_sockets, Key)
  BY <1>1, PartialIntro
<1>3. conn \in [Conn -> Locals] /\ \A c \in Conn : conn[c].pc = "closed"
  BY LocalsForms DEF Init, OtherPc
<1>4. Types
  BY <1>2, <1>3, SessionsAssumption DEF Init, Types
<1>5. OneSlotEach /\ BarredTurnedAway
  BY <1>1, <1>3 DEF OneSlotEach, BarredTurnedAway, SlotOf, Handled, LoginPc
<1>6. QED
  BY <1>4, <1>5, TypeSplit DEF SessionsInv

\* The invariant is inductive.
LEMMA SessionsStep == SessionsInv /\ [Next]_svars => SessionsInv'
BY TypeSplit, TypeStep, SlotStep, BarredStep DEF SessionsInv

LEMMA SessionsInvariant == Spec => []SessionsInv
BY SessionsStart, SessionsStep, PTL DEF Spec

\* The table, the records and the handlers' locals keep their types: a broadcast
\* only serves slots that are in use, and a key is in a slot only with its socket.
THEOREM SessionsTypeCorrect == Spec => []TypeOK
<1>1. SessionsInv => TypeOK
  BY DEF SessionsInv
<1>2. QED
  BY <1>1, SessionsInvariant, PTL

\* Every connection that has a handler is in exactly one slot of the table, and no
\* other is in it: the slot is neither leaked nor left to a closed socket, at
\* whatever point of its login or its session the client goes.
THEOREM NoSlotLeaks == Spec => []SlotsMatchHandlers
<1>1. SessionsInv => SlotsMatchHandlers
  <2>1. Cardinality({}) = 0 /\ \A x : Cardinality({x}) = 1
    BY FS_EmptySet, FS_Singleton
  <2>2. QED
    BY <2>1 DEF SessionsInv, OneSlotEach, SlotsMatchHandlers, Handled, LoginPc
<1>2. QED
  BY <1>1, SessionsInvariant, PTL

\* A key that was burned before its login began is never served, whatever races
\* left it more than one record: the burn and the lookup both go by the first.
THEOREM BurnedNeverServed == Spec => []BurnedStaysOut
<1>1. SessionsInv => BurnedStaysOut
  BY DEF SessionsInv, BarredTurnedAway, BurnedStaysOut, LoginPc
<1>2. QED
  BY <1>1, SessionsInvariant, PTL
=============================================================================
