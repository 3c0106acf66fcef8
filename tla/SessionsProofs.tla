---------------------------- MODULE SessionsProofs ----------------------------
(***************************************************************************)
(* The proofs about Sessions: each action keeps the inductive invariant    *)
(* SessionsInv, by the lemmas of SessionStrokes on what it does to the     *)
(* table, and SessionsInv implies the invariants of Sessions.              *)
(***************************************************************************)
EXTENDS SessionStrokes

Known == fab_idxs \cup {0} \cup rolled_back

RestTypes ==
    /\ fab_idxs \cup rolled_back \subseteq FabricIdx /\ staged \in FabricIdx \cup {0}
    /\ next_sess_id \in 1 .. SESS_IDS
    /\ rx_for \in Slot \cup {None}

SessionsInv ==
    /\ Sound(table, next_sess_unique_id, tasks)
    /\ Pending(table, rx_for) /\ OfFabrics(table, Known) /\ RestTypes

-------------------------------------------------------------------------------
\* With fewer sessions than session ids there is always an id to give out, and it is
\* one that no session has (Sessions::get_next_sess_id).
LEMMA NextSessId ==
  ASSUME Sound(table, next_sess_unique_id, tasks), next_sess_id \in 1 .. SESS_IDS
  PROVE  /\ get_next_sess_id \in 1 .. SESS_IDS
         /\ \A id \in DOMAIN table : table[id].local_sess_id # get_next_sess_id
         /\ After(get_next_sess_id) \in 1 .. SESS_IDS
  <1> DEFINE free == {n \in 1 .. SESS_IDS : \A id \in DOMAIN table : table[id].local_sess_id # n}
             distance(n) == (n - next_sess_id) % SESS_IDS
             f == [id \in DOMAIN table |-> table[id].local_sess_id]
             used == {f[id] : id \in DOMAIN table}
  <1>1. SESS_IDS \in Nat /\ SESS_IDS > MAX_SESSIONS /\ MAX_SESSIONS \in Nat /\ SESS_IDS > 0
    BY SessionsAssumption
  <1>2. free # {}
    <2> SUFFICES ASSUME free = {} PROVE FALSE
      OBVIOUS
    <2>1. 1 .. SESS_IDS \subseteq used
      OBVIOUS
    <2>2. IsFiniteSet(DOMAIN table) /\ Cardinality(DOMAIN table) <= MAX_SESSIONS
      BY DEF Sound, Types
    <2>3. IsFiniteSet(used) /\ Cardinality(used) <= Cardinality(DOMAIN table)
      <3> HIDE DEF used
      <3>1. f \in Surjection(DOMAIN table, used)
        BY DEF used, Surjection
      <3> QED BY <2>2, <3>1, FS_Surjection
    <2>4. Cardinality(1 .. SESS_IDS) <= Cardinality(used)
      BY <2>1, <2>3, FS_Subset
    <2>5. Cardinality(1 .. SESS_IDS) = SESS_IDS
      BY <1>1, FS_Interval
    <2>6. Cardinality(used) \in Nat /\ Cardinality(DOMAIN table) \in Nat
      BY <2>2, <2>3, FS_CardinalityType
    <2> HIDE DEF used
    <2> QED BY <1>1, <2>2, <2>3, <2>4, <2>5, <2>6
  <1>3. \A n \in free : distance(n) \in Nat
    BY <1>1
  <1>4. \E n \in free : \A m \in free : distance(n) <= distance(m)
    <2> DEFINE D == {distance(n) : n \in free}
    <2> HIDE DEF distance, free
    <2>1. D \subseteq Nat /\ D # {}
      BY <1>2, <1>3
    <2>2. PICK d \in D : \A e \in D : d <= e
      BY <2>1, LeastExists
    <2>3. PICK n \in free : d = distance(n)
      OBVIOUS
    <2> QED BY <2>2, <2>3
  <1>5. get_next_sess_id \in free
    BY <1>4 DEF get_next_sess_id
  <1>6. After(get_next_sess_id) \in 1 .. SESS_IDS
    <2>1. get_next_sess_id \in 1 .. SESS_IDS
      BY <1>5
    <2> HIDE DEF free
    <2> QED BY <1>1, <2>1 DEF After
  <1> QED BY <1>5, <1>6

-------------------------------------------------------------------------------
\* A session that may be evicted is not reserved (Sessions::get_session_for_eviction).
LEMMA EvictableIsIdle ==
  ASSUME NEW e \in Evictable
  PROVE  e \in DOMAIN table /\ ~table[e].reserved
  <1>1. e \in {i \in DOMAIN table : is_idle(table[i])}
    BY DEF Evictable
  <1> QED BY <1>1 DEF is_idle

\* There is room, or room is made for one more session.
LEMMA RoomIsMade ==
  ASSUME SessionsInv, NEW r \in Rooms
  PROVE  /\ Sound(r, next_sess_unique_id, tasks) /\ Cardinality(DOMAIN r) < MAX_SESSIONS
         /\ Pending(r, rx_for) /\ OfFabrics(r, Known)
  <1>1. CASE has_space
    <2>1. r = table
      BY <1>1 DEF Rooms
    <2> QED BY <1>1, <2>1 DEF has_space, SessionsInv
  <1>2. CASE ~has_space
    <2>1. PICK e \in Evictable : r = remove(table, {e})
      BY <1>2 DEF Rooms
    <2>2. e \in DOMAIN table /\ ~table[e].reserved
      BY EvictableIsIdle
    <2>3. Sound(r, next_sess_unique_id, tasks)
      BY <2>1, <2>2, RemoveKeeps DEF SessionsInv
    <2>4. Pending(r, rx_for) /\ OfFabrics(r, Known)
      BY <2>1, RemoveKeepsRest DEF SessionsInv
    <2>5. DOMAIN r = DOMAIN table \ {e}
      BY <2>1, RemoveFacts
    <2>6. IsFiniteSet(DOMAIN table) /\ Cardinality(DOMAIN table) <= MAX_SESSIONS
      BY DEF SessionsInv, Sound, Types
    <2>7. Cardinality(DOMAIN r) = Cardinality(DOMAIN table) - 1 /\ Cardinality(DOMAIN table) \in Nat
      BY <2>2, <2>5, <2>6, FS_RemoveElement, FS_CardinalityType
    <2>8. Cardinality(DOMAIN r) < MAX_SESSIONS
      BY <2>6, <2>7, SessionsAssumption
    <2> QED BY <2>3, <2>4, <2>8
  <1> QED BY <1>1, <1>2

\* Sessions are removed, reserved ones excepted, and nothing else happens.
LEMMA RemovalKeeps ==
  ASSUME SessionsInv, NEW gone, \A id \in DOMAIN table : id \in gone => ~table[id].reserved,
         table' = remove(table, gone),
         UNCHANGED <<next_sess_unique_id, next_sess_id, fabVars, tasks, rx_for>>
  PROVE  SessionsInv'
  <1>1. Sound(remove(table, gone), next_sess_unique_id, tasks)
    BY RemoveKeeps DEF SessionsInv
  <1>2. Pending(remove(table, gone), rx_for) /\ OfFabrics(remove(table, gone), Known)
    BY RemoveKeepsRest DEF SessionsInv
  <1>3. RestTypes' /\ Known' = Known
    BY DEF SessionsInv, RestTypes, Known, fabVars
  <1> QED BY <1>1, <1>2, <1>3 DEF SessionsInv

\* A new session with an exchange to accept, in a table with room.
LEMMA ArrivalKeeps ==
  ASSUME SessionsInv, rx_for = None, NEW r \in Rooms,
         NEW s \in Session, ~s.reserved, ~Secured(s), s.fab_idx \in Known,
         \A i \in 1 .. MAX_EXCHANGES : s.exchanges[i] = None,
         add(r, add_exch(s, New)),
         rx_for' = [sess |-> next_sess_unique_id, index |-> 1],
         UNCHANGED <<next_sess_id, fabVars, tasks>>
  PROVE  SessionsInv'
  <1> DEFINE n == next_sess_unique_id
             x == add_exch(s, New)
  <1>1. /\ Sound(r, n, tasks) /\ Cardinality(DOMAIN r) < MAX_SESSIONS
        /\ Pending(r, None) /\ OfFabrics(r, Known)
    BY RoomIsMade
  <1>2. New \in ExchangeState /\ ~Owned(New)
    BY DEF New, ExchangeState, Owned
  <1>3. /\ SameSession(s, x) /\ x.exchanges[1] = New
        /\ \A i \in 1 .. MAX_EXCHANGES : i # 1 => x.exchanges[i] = None
    BY <1>2, FirstExchange
  <1> HIDE DEF x
  <1>4. /\ x \in Session /\ ~x.reserved /\ ~Secured(x) /\ x.fab_idx \in Known
        /\ \A i \in 1 .. MAX_EXCHANGES : ~Owned(x.exchanges[i])
    BY <1>2, <1>3 DEF SameSession, Secured, Owned
  <1>5. Sound(Added(r, n, x), n + 1, tasks) /\ Pending(Added(r, n, x), [sess |-> n, index |-> 1])
    BY <1>1, <1>3, <1>4, AddWaiting
  <1>6. table' = Added(r, n, x) /\ next_sess_unique_id' = n + 1
    BY DEF add, Added, x
  <1>7. OfFabrics(Added(r, n, x), Known)
    <2>1. OneMore(r, Added(r, n, x), n, x)
      BY <1>1, <1>4, AddFacts DEF Sound
    <2> QED BY <1>1, <1>4, <2>1 DEF OneMore, OfFabrics
  <1>8. RestTypes' /\ Known' = Known
    <2>1. n \in Nat
      BY <1>1 DEF Sound, Types
    <2>2. 1 \in 1 .. MAX_EXCHANGES
      BY SessionsAssumption
    <2> QED BY <2>2, <2>1 DEF SessionsInv, RestTypes, Known, fabVars, Slot
  <1> QED BY <1>5, <1>6, <1>7, <1>8 DEF SessionsInv

\* decode_packet of the first message of a handshake.
LEMMA NewSessionKeeps ==
  ASSUME SessionsInv, NEW p \in Peers, receive_new_session(p)
  PROVE  SessionsInv'
  <1>1. CASE has_space
    <2>1. table \in Rooms
      BY <1>1 DEF Rooms
    <2>2. /\ Plain(p) \in Session /\ ~Plain(p).reserved /\ ~Secured(Plain(p))
          /\ Plain(p).fab_idx \in Known
          /\ \A i \in 1 .. MAX_EXCHANGES : Plain(p).exchanges[i] = None
      BY PlainSession DEF Secured, Known, Empty
    <2>3. /\ rx_for = None /\ add(table, add_exch(Plain(p), New))
          /\ rx_for' = [sess |-> next_sess_unique_id, index |-> 1]
          /\ UNCHANGED <<next_sess_id, fabVars, tasks>>
      BY <1>1, Zenon DEF receive_new_session
    <2> QED BY <2>1, <2>2, <2>3, ArrivalKeeps
  <1>2. CASE ~has_space
    <2>1. PICK e \in Evictable : table' = remove(table, {e})
      BY <1>2 DEF receive_new_session
    <2>2. UNCHANGED <<next_sess_unique_id, next_sess_id, fabVars, tasks, rx_for>>
      BY <1>2 DEF receive_new_session
    <2> QED BY <2>1, <2>2, EvictableIsIdle, RemovalKeeps
  <1> QED BY <1>1, <1>2

\* get_or_create_for_group_rx.
LEMMA GroupMessageKeeps ==
  ASSUME SessionsInv, NEW p \in Peers, NEW f \in FabricIdx, receive_group_message(p, f)
  PROVE  SessionsInv'
  <1> DEFINE s == [Plain(p) EXCEPT !.mode = "Group", !.fab_idx = f, !.local_sess_id = GroupSessId]
  <1>1. Plain(p) \in Session /\ Empty(Plain(p)) /\ ~Plain(p).reserved
    BY PlainSession
  <1>2. /\ s \in Session /\ s.mode = "Group" /\ s.fab_idx = f /\ ~s.reserved
        /\ s.exchanges = Plain(p).exchanges
    <2>1. GroupSessId \in 0 .. SESS_IDS
      BY SessionsAssumption
    <2> QED BY <1>1, <2>1 DEF Session
  <1>3. PICK r \in Rooms : add(r, add_exch(s, New))
    BY DEF receive_group_message
  <1>4. /\ rx_for = None /\ f \in Known
        /\ rx_for' = [sess |-> next_sess_unique_id, index |-> 1]
        /\ UNCHANGED <<next_sess_id, fabVars, tasks>>
    BY DEF receive_group_message, Known
  <1> HIDE DEF s
  <1>5. ~Secured(s) /\ \A i \in 1 .. MAX_EXCHANGES : s.exchanges[i] = None
    BY <1>1, <1>2 DEF Secured, Empty
  <1> QED BY <1>2, <1>3, <1>4, <1>5, ArrivalKeeps

-------------------------------------------------------------------------------
\* A step that changes one exchange of a session that is not reserved.
LEMMA CellStep ==
  ASSUME SessionsInv, NEW id \in DOMAIN table, ~table[id].reserved,
         NEW i \in 1 .. MAX_EXCHANGES, NEW x \in ExchangeState \cup {None},
         table' = WithCell(table, id, i, x),
         Owned(x) <=> Owned(table[id].exchanges[i]),
         Pending(WithCell(table, id, i, x), rx_for'), rx_for' \in Slot \cup {None},
         UNCHANGED <<next_sess_unique_id, next_sess_id, fabVars, tasks>>
  PROVE  SessionsInv'
  <1> DEFINE new == WithCell(table, id, i, x)
             n == next_sess_unique_id
  <1>0. Sound(table, n, tasks) /\ OfFabrics(table, Known)
    BY DEF SessionsInv
  <1>1. /\ Types(new, n, tasks) /\ Reservations(new, tasks) /\ SessIds(new, tasks)
        /\ OfFabrics(new, Known)
    BY <1>0, CellKeeps
  <1>2. Ownership(new, tasks)
    BY <1>0, CellStays
  <1>3. RestTypes' /\ Known' = Known
    BY DEF SessionsInv, RestTypes, Known, fabVars
  <1> QED BY <1>1, <1>2, <1>3 DEF SessionsInv, Sound

\* A step in which a new task takes an exchange that nobody owned.
LEMMA TakeStep ==
  ASSUME SessionsInv, NEW id \in DOMAIN table, ~table[id].reserved,
         NEW i \in 1 .. MAX_EXCHANGES, NEW x \in ExchangeState, Owned(x),
         ~Owned(table[id].exchanges[i]),
         table' = WithCell(table, id, i, x),
         NEW role \in {"Initiator", "Responder"},
         tasks' = tasks \cup {[role |-> role, sess |-> id, index |-> i, hs |-> None]},
         Pending(WithCell(table, id, i, x), rx_for'), rx_for' \in Slot \cup {None},
         UNCHANGED <<next_sess_unique_id, next_sess_id, fabVars>>
  PROVE  SessionsInv'
  <1> DEFINE new == WithCell(table, id, i, x)
             n == next_sess_unique_id
             t == [role |-> role, sess |-> id, index |-> i, hs |-> None]
  <1>0. /\ Sound(table, n, tasks) /\ OfFabrics(table, Known)
        /\ id \in Nat /\ id < n
    BY DEF SessionsInv, Sound, Types
  <1>1. /\ Types(new, n, tasks) /\ Reservations(new, tasks) /\ SessIds(new, tasks)
        /\ OfFabrics(new, Known)
    BY <1>0, CellKeeps
  <1>2. t \in Task /\ t.sess = id /\ t.index = i /\ t.hs = None
    BY <1>0 DEF Task
  <1> HIDE DEF t
  <1>3. Ownership(new, tasks \cup {t})
    BY <1>0, <1>2, CellTaken
  <1>4. Types(new, n, tasks \cup {t})
    BY <1>0, <1>1, <1>2 DEF Types
  <1>5. Reservations(new, tasks \cup {t}) /\ SessIds(new, tasks \cup {t})
    BY <1>1, <1>2, BareTask
  <1>6. RestTypes' /\ Known' = Known
    BY DEF SessionsInv, RestTypes, Known, fabVars
  <1> QED BY <1>1, <1>3, <1>4, <1>5, <1>6 DEF SessionsInv, Sound, t

\* A message that opens an exchange on a session, or closes the session for want of room.
LEMMA NewExchangeKeeps ==
  ASSUME SessionsInv, NEW id \in DOMAIN table, receive_new_exchange(id)
  PROVE  SessionsInv'
  <1>0. table[id] \in Session /\ ~table[id].reserved /\ id \in Nat /\ DOMAIN table \subseteq Nat
    BY DEF receive_new_exchange, accepts_rx, SessionsInv, Sound, Types
  <1>1. CASE Place(table[id]) = 0
    BY <1>0, <1>1, RemovalKeeps DEF receive_new_exchange
  <1>2. CASE Place(table[id]) # 0
    <2> DEFINE i == Place(table[id])
    <2>1. i \in 1 .. MAX_EXCHANGES /\ table[id].exchanges[i] = None
      BY <1>0, <1>2, PlaceIsFree
    <2>2. /\ table' = [table EXCEPT ![id] = add_exch(@, New)]
          /\ rx_for' = [sess |-> id, index |-> i] /\ rx_for = None
          /\ UNCHANGED <<next_sess_unique_id, next_sess_id, fabVars, tasks>>
      BY <1>2 DEF receive_new_exchange
    <2>3. table' = WithCell(table, id, i, New)
      BY <2>2 DEF WithCell, add_exch
    <2> HIDE DEF i
    <2>4. New \in ExchangeState /\ ~Owned(New) /\ ~Owned(table[id].exchanges[i])
      BY <2>1 DEF New, ExchangeState, Owned
    <2>5. Pending(WithCell(table, id, i, New), rx_for')
      BY <1>0, <2>1, <2>2, <2>4, CellWaits DEF SessionsInv
    <2>6. rx_for' \in Slot
      BY <1>0, <2>1, <2>2 DEF Slot
    <2> QED BY <1>0, <2>1, <2>2, <2>3, <2>4, <2>5, <2>6, CellStep
  <1> QED BY <1>1, <1>2

\* Changing whether a message is in flight, or another step of an exchange that
\* nobody is about to accept.
LEMMA FlightKeeps ==
  ASSUME SessionsInv, NEW id \in DOMAIN table, ~table[id].reserved,
         NEW i \in 1 .. MAX_EXCHANGES, NEW b \in BOOLEAN,
         table[id].exchanges[i] # None, table[id].exchanges[i].state # "AcceptPending",
         table' = [table EXCEPT ![id].exchanges[i].retrans = b],
         UNCHANGED <<next_sess_unique_id, next_sess_id, fabVars, tasks, rx_for>>
  PROVE  SessionsInv'
  <1> DEFINE e == table[id].exchanges[i]
             x == [e EXCEPT !.retrans = b]
  <1>0. table[id] \in Session
    BY DEF SessionsInv, Sound, Types
  <1>1. e \in ExchangeState
    BY <1>0 DEF Session
  <1>2. x \in ExchangeState /\ x.state = e.state /\ x # None
    BY <1>1, SessionsNone DEF ExchangeState
  <1>3. table' = WithCell(table, id, i, x)
    BY DEF WithCell
  <1> HIDE DEF x
  <1>4. ~Unaccepted(x) /\ (Owned(x) <=> Owned(table[id].exchanges[i]))
    BY <1>1, <1>2 DEF Unaccepted, Owned
  <1>5. Pending(WithCell(table, id, i, x), rx_for) /\ rx_for \in Slot \cup {None}
    BY <1>0, <1>2, <1>4, CellSettled DEF SessionsInv, RestTypes
  <1> QED BY <1>2, <1>3, <1>4, <1>5, CellStep

\* A message on an exchange.
LEMMA OnExchangeKeeps ==
  ASSUME SessionsInv, NEW id \in DOMAIN table, NEW i \in 1 .. MAX_EXCHANGES,
         receive_on_exchange(id, i)
  PROVE  SessionsInv'
  BY FlightKeeps DEF receive_on_exchange, accepts_rx

\* The peer closes a session.
LEMMA CloseKeeps ==
  ASSUME SessionsInv, NEW id \in DOMAIN table, receive_close_session(id)
  PROVE  SessionsInv'
  BY RemovalKeeps DEF receive_close_session, accepts_rx

\* A task sends a message, or gives up on one.
LEMMA TransmitKeeps ==
  ASSUME SessionsInv, NEW t \in tasks, transmit(t)
  PROVE  SessionsInv'
  <1>1. t.sess \in DOMAIN table /\ t.index \in 1 .. MAX_EXCHANGES
    BY DEF transmit, alive, SessionsInv, Sound, Types, Task
  <1>2. Owned(table[t.sess].exchanges[t.index])
    BY <1>1 DEF SessionsInv, Sound, Ownership
  <1>3. ~table[t.sess].reserved
    BY <1>1, <1>2 DEF SessionsInv, Sound, Reservations, Empty, Owned
  <1>4. PICK b \in BOOLEAN : table' = [table EXCEPT ![t.sess].exchanges[t.index].retrans = b]
    BY DEF transmit
  <1> QED BY <1>1, <1>2, <1>3, <1>4, FlightKeeps DEF transmit, Owned

\* The exchange that the packet in the buffer waits for.
LEMMA WaitingFacts ==
  ASSUME SessionsInv, Waiting # None
  PROVE  /\ rx_for \in Slot /\ rx_for = [sess |-> rx_for.sess, index |-> rx_for.index]
         /\ rx_for.sess \in DOMAIN table /\ rx_for.index \in 1 .. MAX_EXCHANGES
         /\ ~table[rx_for.sess].reserved /\ table[rx_for.sess] \in Session
         /\ Waiting = table[rx_for.sess].exchanges[rx_for.index] /\ Waiting \in ExchangeState
  <1>1. rx_for # None /\ accepts_rx(rx_for.sess)
    BY DEF Waiting
  <1>2. rx_for \in Slot
    BY <1>1 DEF SessionsInv, RestTypes
  <1>3. rx_for.sess \in DOMAIN table /\ ~table[rx_for.sess].reserved
    BY <1>1 DEF accepts_rx
  <1>4. table[rx_for.sess] \in Session
    BY <1>3 DEF SessionsInv, Sound, Types
  <1>5. Waiting = table[rx_for.sess].exchanges[rx_for.index]
    BY <1>1 DEF Waiting
  <1>6. rx_for = [sess |-> rx_for.sess, index |-> rx_for.index] /\ rx_for.index \in 1 .. MAX_EXCHANGES
    BY <1>2 DEF Slot
  <1>7. Waiting \in ExchangeState
    BY <1>4, <1>5, <1>6 DEF Session
  <1> QED BY <1>2, <1>3, <1>4, <1>5, <1>6, <1>7

\* What becomes of the exchange that waits.
LEMMA SetWaitingFacts ==
  ASSUME SessionsInv, Waiting # None, Waiting.state = "AcceptPending",
         NEW state \in {"Owned", "Dropped"}, SetWaiting(state)
  PROVE  \E x \in ExchangeState :
           /\ table' = WithCell(table, rx_for.sess, rx_for.index, x)
           /\ x.state = state /\ ~Unaccepted(x) /\ (Owned(x) <=> state = "Owned")
           /\ Pending(WithCell(table, rx_for.sess, rx_for.index, x), None)
  <1> DEFINE id == rx_for.sess
             i == rx_for.index
             x == [Waiting EXCEPT !.state = state]
  <1>0. /\ id \in DOMAIN table /\ i \in 1 .. MAX_EXCHANGES /\ table[id] \in Session
        /\ Waiting = table[id].exchanges[i] /\ Waiting \in ExchangeState
        /\ rx_for = [sess |-> id, index |-> i]
    BY WaitingFacts
  <1>1. x \in ExchangeState /\ x.state = state /\ x # None
    BY <1>0, SessionsNone DEF ExchangeState
  <1>2. table' = WithCell(table, id, i, x)
    BY <1>0 DEF SetWaiting, WithCell
  <1> HIDE DEF x, id, i
  <1>3. ~Unaccepted(x) /\ (Owned(x) <=> state = "Owned")
    BY <1>1 DEF Unaccepted, Owned
  <1>4. Pending(table, rx_for)
    BY DEF SessionsInv
  <1>5. Pending(WithCell(table, id, i, x), None)
    BY <1>0, <1>1, <1>3, <1>4, CellSettled
  <1> QED BY <1>1, <1>2, <1>3, <1>5 DEF id, i

\* Transport::accept_if.
LEMMA AcceptKeeps ==
  ASSUME SessionsInv, accept
  PROVE  SessionsInv'
  <1>1. Waiting # None /\ Waiting.state = "AcceptPending" /\ SetWaiting("Owned")
    BY DEF accept
  <1>2. PICK x \in ExchangeState :
           /\ table' = WithCell(table, rx_for.sess, rx_for.index, x)
           /\ x.state = "Owned" /\ ~Unaccepted(x) /\ Owned(x)
           /\ Pending(WithCell(table, rx_for.sess, rx_for.index, x), None)
    BY <1>1, SetWaitingFacts
  <1>3. /\ rx_for.sess \in DOMAIN table /\ rx_for.index \in 1 .. MAX_EXCHANGES
        /\ ~table[rx_for.sess].reserved /\ ~Owned(table[rx_for.sess].exchanges[rx_for.index])
    BY <1>1, WaitingFacts DEF Owned
  <1>4. /\ tasks' = tasks \cup {[role |-> "Responder", sess |-> rx_for.sess,
                                 index |-> rx_for.index, hs |-> None]}
        /\ rx_for' = None /\ UNCHANGED <<next_sess_unique_id, next_sess_id, fabVars>>
    BY DEF accept
  <1> QED BY <1>2, <1>3, <1>4, TakeStep

\* handle_accept_timeout_rx_packet.
LEMMA AcceptTimeoutKeeps ==
  ASSUME SessionsInv, accept_timeout
  PROVE  SessionsInv'
  <1>1. Waiting # None /\ Waiting.state = "AcceptPending" /\ SetWaiting("Dropped")
    BY DEF accept_timeout
  <1>2. PICK x \in ExchangeState :
           /\ table' = WithCell(table, rx_for.sess, rx_for.index, x)
           /\ x.state = "Dropped" /\ ~Unaccepted(x) /\ ~Owned(x)
           /\ Pending(WithCell(table, rx_for.sess, rx_for.index, x), None)
    BY <1>1, SetWaitingFacts
  <1>3. /\ rx_for.sess \in DOMAIN table /\ rx_for.index \in 1 .. MAX_EXCHANGES
        /\ ~table[rx_for.sess].reserved /\ ~Owned(table[rx_for.sess].exchanges[rx_for.index])
    BY <1>1, WaitingFacts DEF Owned
  <1>4. rx_for' = None /\ UNCHANGED <<next_sess_unique_id, next_sess_id, fabVars, tasks>>
    BY DEF accept_timeout
  <1> QED BY <1>2, <1>3, <1>4, CellStep

\* handle_orphaned_rx_packet: nobody waits for the packet that is dropped.
LEMMA OrphanedKeeps ==
  ASSUME SessionsInv, orphaned
  PROVE  SessionsInv'
  <1>0. /\ UNCHANGED <<table, next_sess_unique_id, next_sess_id, fabVars, tasks>>
        /\ rx_for # None /\ rx_for' = None /\ (Waiting # None => Waiting.state = "Dropped")
    BY DEF orphaned
  <1>1. ASSUME NEW id \in DOMAIN table, NEW i \in 1 .. MAX_EXCHANGES, ~table[id].expired,
               Unaccepted(table[id].exchanges[i])
        PROVE  FALSE
    <2>1. rx_for = [sess |-> id, index |-> i]
      BY <1>1 DEF SessionsInv, Pending
    <2>2. rx_for.sess = id /\ rx_for.index = i
      BY <2>1
    <2>3. ~table[id].reserved
      BY <1>1 DEF SessionsInv, Sound, Reservations, Empty, Unaccepted
    <2>4. Waiting = table[id].exchanges[i]
      BY <1>0, <1>1, <2>2, <2>3 DEF Waiting, accepts_rx
    <2> QED BY <1>0, <1>1, <2>4 DEF Unaccepted
  <1>2. Pending(table, None)
    BY <1>1 DEF Pending
  <1>3. RestTypes' /\ Known' = Known
    BY <1>0 DEF SessionsInv, RestTypes, Known, fabVars
  <1> QED BY <1>0, <1>2, <1>3 DEF SessionsInv

\* handle_dropped_exchange.
LEMMA DroppedKeeps ==
  ASSUME SessionsInv, NEW id \in DOMAIN table, NEW i \in 1 .. MAX_EXCHANGES,
         handle_dropped_exchange(id, i)
  PROVE  SessionsInv'
  <1> DEFINE e == table[id].exchanges[i]
  <1>0. /\ e # None /\ e.state = "Dropped"
        /\ UNCHANGED <<next_sess_unique_id, next_sess_id, fabVars, tasks, rx_for>>
    BY DEF handle_dropped_exchange
  <1>1. ~table[id].reserved /\ table[id] \in Session
    BY <1>0 DEF SessionsInv, Sound, Types, Reservations, Empty
  <1>2. CASE e.retrans
    <2>1. table' = remove(table, {id})
      BY <1>2 DEF handle_dropped_exchange
    <2>2. \A j \in DOMAIN table : j \in {id} => ~table[j].reserved
      BY <1>1
    <2> QED BY <1>0, <2>1, <2>2, RemovalKeeps, Zenon
  <1>3. CASE ~e.retrans
    <2>1. table' = WithCell(table, id, i, None)
      BY <1>3 DEF handle_dropped_exchange, WithCell
    <2>2. ~Owned(None) /\ ~Owned(e) /\ ~Unaccepted(None)
      BY <1>0 DEF Owned, Unaccepted
    <2>3. Pending(WithCell(table, id, i, None), rx_for) /\ rx_for \in Slot \cup {None}
      BY <1>1, <2>2, CellSettled DEF SessionsInv, RestTypes
    <2> QED BY <1>0, <1>1, <2>1, <2>2, <2>3, CellStep
  <1> QED BY <1>2, <1>3

\* Transport::initiate_for_session.
LEMMA InitiateKeeps ==
  ASSUME SessionsInv, NEW id \in DOMAIN table, initiate_for_session(id)
  PROVE  SessionsInv'
  <1> DEFINE i == Place(table[id])
  <1>0. table[id] \in Session /\ ~table[id].reserved
    BY DEF initiate_for_session, accepts_rx, SessionsInv, Sound, Types
  <1>1. i \in 1 .. MAX_EXCHANGES /\ table[id].exchanges[i] = None
    BY <1>0, PlaceIsFree DEF initiate_for_session
  <1>2. table' = WithCell(table, id, i, Own)
    BY DEF initiate_for_session, WithCell, add_exch
  <1>3. /\ tasks' = tasks \cup {[role |-> "Initiator", sess |-> id, index |-> i, hs |-> None]}
        /\ UNCHANGED <<next_sess_unique_id, next_sess_id, fabVars, rx_for>>
    BY DEF initiate_for_session
  <1> HIDE DEF i
  <1>4. /\ Own \in ExchangeState /\ Own # None /\ Owned(Own) /\ ~Unaccepted(Own)
        /\ ~Owned(table[id].exchanges[i])
    <2>1. Own \in ExchangeState
      BY DEF Own, ExchangeState
    <2> QED BY <1>1, <2>1, SessionsNone DEF Own, Owned, Unaccepted
  <1>5. Pending(WithCell(table, id, i, Own), rx_for) /\ rx_for \in Slot \cup {None}
    BY <1>0, <1>1, <1>4, CellSettled DEF SessionsInv, RestTypes
  <1> QED BY <1>0, <1>1, <1>2, <1>3, <1>4, <1>5, TakeStep

\* Exchange::initiate_unsecured.
LEMMA InitiateUnsecuredKeeps ==
  ASSUME SessionsInv, NEW p \in Peers, initiate_unsecured(p)
  PROVE  SessionsInv'
  <1> DEFINE n == next_sess_unique_id
             s == add_exch(Plain(p), Own)
             t == [role |-> "Initiator", sess |-> n, index |-> 1, hs |-> None]
  <1>1. PICK r \in Rooms : add(r, s)
    BY DEF initiate_unsecured
  <1>2. /\ Sound(r, n, tasks) /\ Cardinality(DOMAIN r) < MAX_SESSIONS
        /\ Pending(r, rx_for) /\ OfFabrics(r, Known)
    BY RoomIsMade
  <1>3. Own \in ExchangeState /\ Owned(Own)
    <2>1. Own \in ExchangeState
      BY DEF Own, ExchangeState
    <2> QED BY <2>1, SessionsNone DEF Own, Owned
  <1>4. Plain(p) \in Session /\ Empty(Plain(p)) /\ ~Plain(p).reserved
    BY PlainSession
  <1>5. /\ SameSession(Plain(p), s) /\ s.exchanges[1] = Own
        /\ \A i \in 1 .. MAX_EXCHANGES : i # 1 => s.exchanges[i] = None
    BY <1>3, <1>4, FirstExchange DEF Empty
  <1>6. table' = Added(r, n, s) /\ next_sess_unique_id' = n + 1 /\ tasks' = tasks \cup {t}
    BY <1>1 DEF add, Added, initiate_unsecured
  <1>7. n \in Nat /\ 1 \in 1 .. MAX_EXCHANGES
    BY SessionsAssumption DEF SessionsInv, Sound, Types
  <1>8. t \in Task /\ t.sess = n /\ t.index = 1 /\ t.hs = None
    BY <1>7 DEF Task
  <1> HIDE DEF s, t
  <1>9. s \in Session /\ ~s.reserved /\ ~Secured(s) /\ s.fab_idx = 0 /\ Owned(s.exchanges[1])
    BY <1>3, <1>4, <1>5 DEF SameSession, Secured, Empty
  <1>10. /\ Sound(Added(r, n, s), n + 1, tasks \cup {t})
         /\ Pending(Added(r, n, s), rx_for)
    BY <1>2, <1>5, <1>8, <1>9, AddOwned
  <1>11. OfFabrics(Added(r, n, s), Known)
    <2>1. OneMore(r, Added(r, n, s), n, s)
      BY <1>2, <1>9, AddFacts DEF Sound
    <2> QED BY <1>2, <1>9, <2>1 DEF OneMore, OfFabrics, Known
  <1>12. RestTypes' /\ Known' = Known /\ rx_for' = rx_for
    BY DEF SessionsInv, RestTypes, Known, fabVars, initiate_unsecured
  <1> QED BY <1>6, <1>10, <1>11, <1>12 DEF SessionsInv

-------------------------------------------------------------------------------
\* ReservedSession::reserve.
LEMMA ReserveStepKeeps ==
  ASSUME SessionsInv, NEW t \in tasks, reserve(t)
  PROVE  SessionsInv'
  <1> DEFINE n == next_sess_unique_id
             p == table[t.sess].peer
             s == [Plain(p) EXCEPT !.reserved = TRUE]
             h == [reserved |-> n, local_sess_id |-> 0, fab_idx |-> 0]
  <1>1. PICK r \in Rooms : add(r, s)
    BY DEF reserve
  <1>2. /\ Sound(r, n, tasks) /\ Cardinality(DOMAIN r) < MAX_SESSIONS
        /\ Pending(r, rx_for) /\ OfFabrics(r, Known)
    BY RoomIsMade
  <1>3. table[t.sess] \in Session /\ p \in Peers /\ t.hs = None
    BY DEF reserve, alive, SessionsInv, Sound, Types, Session
  <1>4. Plain(p) \in Session /\ Empty(Plain(p))
    BY <1>3, PlainSession
  <1>5. s \in Session /\ s.reserved /\ Empty(s)
    BY <1>4 DEF Session, Empty
  <1>6. h \in HandshakeState /\ h.reserved = n /\ h.local_sess_id = 0
    BY SessionsAssumption DEF HandshakeState, SessionsInv, Sound, Types
  <1>7. /\ table' = Added(r, n, s) /\ next_sess_unique_id' = n + 1
        /\ tasks' = Reshaken(tasks, t, h)
    BY <1>1 DEF add, Added, reserve, WithHs, Reshaken
  <1> HIDE DEF s, h
  <1>8. /\ Sound(Added(r, n, s), n + 1, Reshaken(tasks, t, h))
        /\ Pending(Added(r, n, s), rx_for) /\ OfFabrics(Added(r, n, s), Known)
    BY <1>2, <1>3, <1>5, <1>6, ReserveKeeps
  <1>9. RestTypes' /\ Known' = Known /\ rx_for' = rx_for
    BY DEF SessionsInv, RestTypes, Known, fabVars, reserve
  <1> QED BY <1>7, <1>8, <1>9 DEF SessionsInv

\* The handshake takes its session id.
LEMMA TakeSessIdKeeps ==
  ASSUME SessionsInv, NEW t \in tasks, NEW f \in FabricIdx \cup {0}, take_sess_id(t, f)
  PROVE  SessionsInv'
  <1> DEFINE k == get_next_sess_id
             h == [t.hs EXCEPT !.local_sess_id = k, !.fab_idx = f]
  <1>1. /\ k \in 1 .. SESS_IDS /\ After(k) \in 1 .. SESS_IDS
        /\ \A id \in DOMAIN table : table[id].local_sess_id # k
    BY NextSessId DEF SessionsInv, RestTypes
  <1>2. t.hs # None /\ t.hs \in HandshakeState
    BY DEF take_sess_id, SessionsInv, Sound, Types, Task
  <1>3. h \in HandshakeState /\ h.reserved = t.hs.reserved /\ h.local_sess_id = k
    <2>1. k \in 0 .. SESS_IDS
      BY <1>1, SessionsAssumption
    <2> HIDE DEF k
    <2> QED BY <1>2, <2>1 DEF HandshakeState
  <1>4. \A u \in tasks : u.hs # None => u.hs.local_sess_id # k
    BY DEF take_sess_id, NotComeRound, InFlight
  <1>5. /\ tasks' = Reshaken(tasks, t, h) /\ next_sess_id' = After(k)
        /\ UNCHANGED <<table, next_sess_unique_id, fabVars, rx_for>>
    BY DEF take_sess_id, WithHs, Reshaken
  <1> HIDE DEF k, h
  <1>6. Sound(table, next_sess_unique_id, Reshaken(tasks, t, h))
    BY <1>1, <1>2, <1>3, <1>4, TakeIdKeeps DEF SessionsInv
  <1>7. RestTypes' /\ Known' = Known
    BY <1>1, <1>5 DEF SessionsInv, RestTypes, Known, fabVars
  <1> QED BY <1>5, <1>6, <1>7 DEF SessionsInv

\* The handshake ends in a session.
LEMMA CompleteStepKeeps ==
  ASSUME SessionsInv, NEW t \in tasks, complete(t)
  PROVE  SessionsInv'
  <1> DEFINE r == t.hs.reserved
             s == table[r]
             x == [s EXCEPT !.mode = IF t.hs.fab_idx = 0 THEN "Pase" ELSE "Case",
                            !.fab_idx = t.hs.fab_idx, !.local_sess_id = t.hs.local_sess_id,
                            !.reserved = FALSE]
  <1>1. t.hs # None /\ t.hs \in HandshakeState /\ t.hs.local_sess_id # 0 /\ t.hs.fab_idx \in Known
    BY DEF complete, SessionsInv, Sound, Types, Task, Known
  <1>2. r \in DOMAIN table /\ s \in Session
    BY <1>1 DEF SessionsInv, Sound, Types, Reservations
  <1>3. /\ x \in Session /\ ~x.reserved /\ x.mode \in {"Case", "Pase"} /\ x.exchanges = s.exchanges
        /\ x.local_sess_id = t.hs.local_sess_id /\ x.fab_idx = t.hs.fab_idx
    BY <1>1, <1>2 DEF Session, HandshakeState
  <1>4. /\ table' = [table EXCEPT ![r] = x] /\ tasks' = Reshaken(tasks, t, None)
        /\ UNCHANGED <<next_sess_unique_id, next_sess_id, fabVars, rx_for>>
    BY DEF complete, WithHs, Reshaken
  <1> HIDE DEF x, s
  <1>5. /\ DOMAIN table' = DOMAIN table /\ table'[r] = x
        /\ \A id \in DOMAIN table : id # r => table'[id] = table[id]
    BY <1>2, <1>4
  <1>6. Sound(table', next_sess_unique_id, tasks') /\ Pending(table', rx_for)
    <2>1. Sound(table, next_sess_unique_id, tasks) /\ Pending(table, rx_for)
      BY DEF SessionsInv
    <2>2. Completed(table, table', t)
      BY <1>3, <1>5 DEF Completed, Secured, s, r
    <2>3. /\ Sound(table', next_sess_unique_id, Reshaken(tasks, t, None))
          /\ \A rx : Pending(table, rx) => Pending(table', rx)
      BY <1>1, <2>1, <2>2, CompleteKeeps, Zenon
    <2> QED BY <1>4, <2>1, <2>3
  <1>7. OfFabrics(table', Known)
    BY <1>1, <1>3, <1>5 DEF SessionsInv, OfFabrics
  <1>8. RestTypes' /\ Known' = Known
    BY <1>4 DEF SessionsInv, RestTypes, Known, fabVars
  <1> QED BY <1>4, <1>6, <1>7, <1>8 DEF SessionsInv

\* The task ends: ReservedSession::drop, then Exchange::drop.
LEMMA DropKeeps ==
  ASSUME SessionsInv, NEW t \in tasks, drop(t)
  PROVE  SessionsInv'
  <1> DEFINE n == next_sess_unique_id
             u == [t EXCEPT !.hs = None]
             us == IF t.hs = None THEN tasks ELSE Reshaken(tasks, t, None)
             rest == IF t.hs = None THEN table ELSE remove(table, {t.hs.reserved})
  <1>1. PICK owes \in BOOLEAN : table' = IF alive(t) THEN remove_exch(rest, t, owes) ELSE rest
    BY DEF drop
  <1>2. tasks' = tasks \ {t} /\ UNCHANGED <<next_sess_unique_id, next_sess_id, fabVars, rx_for>>
    BY DEF drop
  <1>3. t \in Task /\ Sound(table, n, tasks) /\ Pending(table, rx_for) /\ OfFabrics(table, Known)
    BY DEF SessionsInv, Sound, Types
  <1>4. u.sess = t.sess /\ u.index = t.index /\ u.hs = None
    BY <1>3 DEF Task
  <1>5. u \in us /\ us \ {u} = tasks \ {t}
    <2>1. CASE t.hs = None
      BY <1>3, <2>1 DEF Task
    <2>2. CASE t.hs # None
      <3>1. u \notin tasks
        BY <1>3, <1>4, <2>2 DEF Sound, Ownership
      <3>2. us = (tasks \ {t}) \cup {u}
        BY <2>2 DEF Reshaken
      <3> QED BY <3>1, <3>2
    <2> QED BY <2>1, <2>2
  <1>6. /\ Sound(rest, n, us) /\ Pending(rest, rx_for) /\ OfFabrics(rest, Known)
        /\ alive(t) <=> t.sess \in DOMAIN rest
    <2>1. CASE t.hs = None
      BY <1>3, <2>1 DEF alive
    <2>2. CASE t.hs # None
      <3>1. /\ Sound(remove(table, {t.hs.reserved}), n, Reshaken(tasks, t, None))
            /\ alive(t) => t.sess \in DOMAIN remove(table, {t.hs.reserved})
        BY <1>3, <2>2, ReleaseKeeps DEF alive
      <3>2. DOMAIN remove(table, {t.hs.reserved}) = DOMAIN table \ {t.hs.reserved}
        BY RemoveFacts, Zenon
      <3>3. /\ Pending(remove(table, {t.hs.reserved}), rx_for)
            /\ OfFabrics(remove(table, {t.hs.reserved}), Known)
        BY <1>3, RemoveKeepsRest
      <3> QED BY <2>2, <3>1, <3>2, <3>3 DEF alive
    <2> QED BY <2>1, <2>2
  <1> HIDE DEF u, us, rest
  <1>7. Sound(table', n, tasks') /\ Pending(table', rx_for) /\ OfFabrics(table', Known)
    <2>1. CASE alive(t)
      <3>1. table' = remove_exch(rest, u, owes)
        BY <1>1, <1>4, <2>1 DEF remove_exch
      <3>2. /\ Sound(remove_exch(rest, u, owes), n, us \ {u})
            /\ \A rx : Pending(rest, rx) => Pending(remove_exch(rest, u, owes), rx)
            /\ \A idxs : OfFabrics(rest, idxs) => OfFabrics(remove_exch(rest, u, owes), idxs)
        BY <1>4, <1>5, <1>6, <2>1, RemoveExchKeeps
      <3> QED BY <1>2, <1>5, <1>6, <3>1, <3>2
    <2>2. CASE ~alive(t)
      <3>1. Sound(rest, n, us \ {u})
        BY <1>4, <1>5, <1>6, <2>2, DeadTask
      <3> QED BY <1>1, <1>2, <1>5, <1>6, <2>2, <3>1
    <2> QED BY <2>1, <2>2
  <1>8. RestTypes' /\ Known' = Known
    BY <1>2 DEF SessionsInv, RestTypes, Known, fabVars
  <1> QED BY <1>2, <1>7, <1>8 DEF SessionsInv

-------------------------------------------------------------------------------
\* AddNOC over PASE brings the session to the new fabric.
LEMMA UpgradeKeeps ==
  ASSUME SessionsInv, NEW t \in tasks, NEW f \in FabricIdx, upgrade_fabric_idx(t, f)
  PROVE  SessionsInv'
  <1>1. /\ t.sess \in DOMAIN table /\ table[t.sess].mode = "Pase"
        /\ table' = [table EXCEPT ![t.sess].fab_idx = f]
        /\ fab_idxs' = fab_idxs \cup {f} /\ staged' = f /\ rolled_back' = rolled_back \ {f}
        /\ UNCHANGED <<next_sess_unique_id, next_sess_id, tasks, rx_for>>
    BY DEF upgrade_fabric_idx, OnCommand, alive
  <1>2. ~table[t.sess].reserved
    BY <1>1 DEF SessionsInv, Sound, Reservations, Empty
  <1>3. Known \subseteq Known' /\ f \in Known'
    BY <1>1 DEF Known
  <1>4. /\ DOMAIN table' = DOMAIN table /\ table'[t.sess] = [table[t.sess] EXCEPT !.fab_idx = f]
        /\ \A id \in DOMAIN table : id # t.sess => table'[id] = table[id]
    BY <1>1
  <1>5. ASSUME NEW id \in DOMAIN table
        PROVE  /\ table'[id] \in Session /\ table'[id].mode = table[id].mode
               /\ table'[id].local_sess_id = table[id].local_sess_id
               /\ table'[id].reserved = table[id].reserved
               /\ table'[id].exchanges = table[id].exchanges
               /\ table'[id].expired = table[id].expired
               /\ table'[id].fab_idx = IF id = t.sess THEN f ELSE table[id].fab_idx
    <2>1. table[id] \in Session
      BY DEF SessionsInv, Sound, Types
    <2>2. CASE id = t.sess
      BY <1>4, <2>1, <2>2 DEF Session
    <2>3. CASE id # t.sess
      BY <1>4, <2>1, <2>3
    <2> QED BY <2>2, <2>3
  <1>6. /\ Sound(table', next_sess_unique_id, tasks)
        /\ \A rx : Pending(table, rx) => Pending(table', rx)
    <2> DEFINE new == table'
    <2>1. DOMAIN new = DOMAIN table
      BY <1>4
    <2>2. \A id \in DOMAIN table :
           /\ new[id] \in Session /\ new[id].mode = table[id].mode
           /\ new[id].local_sess_id = table[id].local_sess_id
           /\ new[id].reserved = table[id].reserved /\ new[id].exchanges = table[id].exchanges
           /\ table[id].reserved => new[id].fab_idx = table[id].fab_idx
      BY <1>2, <1>5
    <2>3. \A id \in DOMAIN table : table[id].expired => new[id].expired
      BY <1>5
    <2>4. Sound(table, next_sess_unique_id, tasks)
      BY DEF SessionsInv
    <2> HIDE DEF new
    <2>5. /\ Sound(new, next_sess_unique_id, tasks)
          /\ \A rx : Pending(table, rx) => Pending(new, rx)
      BY <2>1, <2>2, <2>3, <2>4, FieldsKeep, Zenon
    <2> QED BY <2>5 DEF new
  <1>7. OfFabrics(table', Known')
    BY <1>3, <1>4, <1>5 DEF SessionsInv, OfFabrics
  <1>8. RestTypes'
    BY <1>1 DEF SessionsInv, RestTypes
  <1> QED BY <1>1, <1>6, <1>7, <1>8 DEF SessionsInv

\* What the commands that remove sessions leave, the fabrics being others than before.
LEMMA SparingKeeps ==
  ASSUME SessionsInv, NEW gone, \A id \in DOMAIN table : id \in gone => ~table[id].reserved,
         NEW t, table' = RemoveExcept(gone, t), RestTypes',
         \A f \in Known : f \in Known' \/ \A id \in DOMAIN table : table[id].fab_idx = f => id \in gone,
         UNCHANGED <<next_sess_unique_id, tasks, rx_for>>
  PROVE  SessionsInv'
  <1> DEFINE idxs == Known'
  <1>1. \A id \in DOMAIN table :
          id \notin gone /\ ~table[id].expired /\ ~table[id].reserved => table[id].fab_idx \in idxs
    BY DEF SessionsInv, OfFabrics
  <1> HIDE DEF idxs
  <1>2. Sound(table, next_sess_unique_id, tasks) /\ Pending(table, rx_for)
    BY DEF SessionsInv
  <1>3. /\ Sound(RemoveExcept(gone, t), next_sess_unique_id, tasks)
        /\ \A rx : Pending(table, rx) => Pending(RemoveExcept(gone, t), rx)
        /\ OfFabrics(RemoveExcept(gone, t), idxs)
    BY <1>1, <1>2, RemoveExceptKeeps, Zenon
  <1> QED BY <1>2, <1>3 DEF SessionsInv, idxs

\* The sessions of the commissioning window are no reservations.
LEMMA PaseAreComplete ==
  ASSUME SessionsInv
  PROVE  \A id \in DOMAIN table : id \in PaseSessions => ~table[id].reserved
  BY DEF SessionsInv, Sound, Reservations, Empty, PaseSessions

\* handle_remove_fabric: a reservation has no fabric yet, so none is removed.
LEMMA RemoveFabricKeeps ==
  ASSUME SessionsInv, NEW t \in tasks, NEW f \in FabricIdx, remove_fabric(t, f)
  PROVE  SessionsInv'
  <1> DEFINE gone == {id \in DOMAIN table : table[id].fab_idx = f}
  <1>1. /\ fab_idxs' = fab_idxs \ {f} /\ table' = RemoveExcept(gone, t)
        /\ UNCHANGED <<next_sess_unique_id, next_sess_id, staged, rolled_back, tasks, rx_for>>
    BY DEF remove_fabric
  <1>2. \A id \in DOMAIN table : id \in gone => ~table[id].reserved
    <2>1. \A id \in DOMAIN table : table[id].reserved => table[id].fab_idx = 0
      BY DEF SessionsInv, Sound, Reservations, Empty
    <2>2. f # 0
      BY SessionsAssumption
    <2> QED BY <2>1, <2>2
  <1>3. \A k \in Known : k \in Known' \/ \A id \in DOMAIN table : table[id].fab_idx = k => id \in gone
    BY <1>1 DEF Known
  <1>4. RestTypes'
    BY <1>1 DEF SessionsInv, RestTypes
  <1> HIDE DEF gone
  <1> QED BY <1>1, <1>2, <1>3, <1>4, SparingKeeps

\* CommissioningComplete.
LEMMA CommissioningCompleteKeeps ==
  ASSUME SessionsInv, NEW t \in tasks, commissioning_complete(t)
  PROVE  SessionsInv'
  <1>1. /\ staged' = 0 /\ table' = RemoveExcept(PaseSessions, t)
        /\ UNCHANGED <<next_sess_unique_id, next_sess_id, fab_idxs, rolled_back, tasks, rx_for>>
    BY DEF commissioning_complete
  <1>2. Known' = Known
    BY <1>1 DEF Known
  <1>3. RestTypes'
    BY <1>1 DEF SessionsInv, RestTypes
  <1> QED BY <1>1, <1>2, <1>3, PaseAreComplete, SparingKeeps

\* The indices after FailSafe::expire.
LEMMA RollBackFacts ==
  ASSUME SessionsInv, NEW left, roll_back(left)
  PROVE  /\ RestTypes' /\ Known \subseteq Known' /\ table' = left
         /\ UNCHANGED <<next_sess_unique_id, tasks, rx_for>>
  BY DEF roll_back, SessionsInv, RestTypes, Known

\* The fail-safe is given up by a command.
LEMMA ExpireByCommandKeeps ==
  ASSUME SessionsInv, NEW t \in tasks, expire_by_command(t)
  PROVE  SessionsInv'
  <1> DEFINE left == RemoveExcept(PaseSessions, t)
  <1>1. roll_back(left)
    BY DEF expire_by_command
  <1>2. /\ RestTypes' /\ Known \subseteq Known' /\ table' = left
        /\ UNCHANGED <<next_sess_unique_id, tasks, rx_for>>
    BY <1>1, RollBackFacts, Zenon
  <1> QED BY <1>2, PaseAreComplete, SparingKeeps

\* The fail-safe times out.
LEMMA TimeoutKeeps ==
  ASSUME SessionsInv, check_failsafe_timeout
  PROVE  SessionsInv'
  <1> DEFINE left == remove(table, PaseSessions)
  <1>1. roll_back(left)
    BY DEF check_failsafe_timeout
  <1>2. /\ RestTypes' /\ Known \subseteq Known' /\ table' = left
        /\ UNCHANGED <<next_sess_unique_id, tasks, rx_for>>
    BY <1>1, RollBackFacts, Zenon
  <1>3. Sound(left, next_sess_unique_id, tasks)
    BY PaseAreComplete, RemoveKeeps DEF SessionsInv
  <1>4. Pending(left, rx_for) /\ OfFabrics(left, Known)
    BY RemoveKeepsRest DEF SessionsInv
  <1>5. OfFabrics(left, Known')
    BY <1>2, <1>4 DEF OfFabrics
  <1> QED BY <1>2, <1>3, <1>4, <1>5 DEF SessionsInv

-------------------------------------------------------------------------------
\* The empty table.
LEMMA SessionsInitInv == SessionsInit => SessionsInv
  <1> SUFFICES ASSUME SessionsInit PROVE SessionsInv
    OBVIOUS
  <1>1. /\ DOMAIN table = {} /\ next_sess_unique_id = 1 /\ next_sess_id = 1 /\ tasks = {}
        /\ fab_idxs = FabricIdx /\ staged = 0 /\ rolled_back = {} /\ rx_for = None
    BY DEF SessionsInit
  <1>2. IsFiniteSet({}) /\ Cardinality({}) = 0
    BY FS_EmptySet
  <1>3. Types(table, 1, {})
    BY <1>1, <1>2, SessionsAssumption DEF Types
  <1>4. /\ Reservations(table, {}) /\ Ownership(table, {}) /\ SessIds(table, {})
        /\ Pending(table, None) /\ OfFabrics(table, Known)
    BY <1>1 DEF Reservations, Ownership, SessIds, Pending, OfFabrics
  <1>5. RestTypes
    BY <1>1, SessionsAssumption DEF RestTypes
  <1> QED BY <1>1, <1>3, <1>4, <1>5 DEF SessionsInv, Sound

\* Every locked section keeps the invariant.
LEMMA SessionsStep == SessionsInv /\ [SessionsNext]_sessionVars => SessionsInv'
  <1> SUFFICES ASSUME SessionsInv, [SessionsNext]_sessionVars PROVE SessionsInv'
    OBVIOUS
  <1>1. CASE Transport
    BY <1>1, NewSessionKeeps, GroupMessageKeeps, NewExchangeKeeps, CloseKeeps, OnExchangeKeeps,
       DroppedKeeps, AcceptKeeps, AcceptTimeoutKeeps, OrphanedKeeps DEF Transport
  <1>2. CASE Initiators
    BY <1>2, InitiateKeeps, InitiateUnsecuredKeeps DEF Initiators
  <1>3. CASE Owners
    <2>1. PICK t \in tasks :
            \/ transmit(t) \/ reserve(t) \/ complete(t) \/ drop(t)
            \/ commissioning_complete(t) \/ expire_by_command(t)
            \/ \E f \in FabricIdx \cup {0} : take_sess_id(t, f)
            \/ \E f \in FabricIdx : upgrade_fabric_idx(t, f) \/ remove_fabric(t, f)
      BY <1>3 DEF Owners
    <2> QED BY <2>1, TransmitKeeps, ReserveStepKeeps, CompleteStepKeeps, DropKeeps,
               CommissioningCompleteKeeps, ExpireByCommandKeeps, TakeSessIdKeeps,
               UpgradeKeeps, RemoveFabricKeeps
  <1>4. CASE check_failsafe_timeout
    BY <1>4, TimeoutKeeps
  <1>5. CASE UNCHANGED sessionVars
    BY <1>5 DEF sessionVars, fabVars, SessionsInv, RestTypes, Known
  <1> QED BY <1>1, <1>2, <1>3, <1>4, <1>5 DEF SessionsNext
-------------------------------------------------------------------------------
\* The invariant holds in every behaviour of the session table and of those who work
\* on it (session.rs, exchange.rs, transport.rs, the handshakes).
THEOREM SessionsInvariant == SessionsSpec => []SessionsInv
  BY SessionsInitInv, SessionsStep, PTL DEF SessionsSpec

\* The table never holds more than MAX_SESSIONS sessions, whatever handshakes,
\* exchanges, evictions and commands do to it (Sessions::add).
THEOREM TableIsBounded == SessionsSpec => []SessionsTypeOK
  <1>1. SessionsInv => SessionsTypeOK
    BY DEF SessionsInv, SessionsTypeOK, Sound, Types, RestTypes
  <1> QED BY <1>1, SessionsInvariant, PTL

\* A reservation is in the table exactly as long as its handshake lasts: neither an
\* eviction nor a removal takes it away, and none is left over (ReservedSession).
THEOREM ReservationsHeld == SessionsSpec => []ReservationsAreHeld
  <1>1. SessionsInv => ReservationsAreHeld
    <2> SUFFICES ASSUME SessionsInv PROVE ReservationsAreHeld
      OBVIOUS
    <2>1. Reservations(table, tasks)
      BY DEF SessionsInv, Sound
    <2>2. \A t : t \in InFlight <=> t \in tasks /\ t.hs # None
      BY DEF InFlight
    <2> QED BY <2>1, <2>2 DEF Reservations, ReservationsAreHeld
  <1> QED BY <1>1, SessionsInvariant, PTL

\* An exchange that is owned has one task, and the exchange of a task is there as long
\* as its session is (Session::add_exch, Session::remove_exch, ExchangeId).
THEOREM OwnershipHolds == SessionsSpec => []OwnedIffHeld
  <1>1. SessionsInv => OwnedIffHeld
    BY DEF SessionsInv, Sound, Ownership, Owned, OwnedIffHeld, alive
  <1> QED BY <1>1, SessionsInvariant, PTL

\* Two unicast sessions have different session ids, however many handshakes ran side
\* by side (Sessions::get_next_sess_id), as long as the ids do not come round.
THEOREM SessionIdsDistinct == SessionsSpec => []LocalIdsDistinct
  <1>1. SessionsInv => LocalIdsDistinct
    BY DEF SessionsInv, Sound, SessIds, Secured, LocalIdsDistinct
  <1> QED BY <1>1, SessionsInvariant, PTL

\* No session that takes messages is one of a fabric that RemoveFabric removed, even if
\* its handshake was under way (handle_casesigma3, Sessions::remove_for_fabric).
THEOREM FabricsHaveTheirSessions == SessionsSpec => []SessionsOfFabrics
  <1>1. SessionsInv => SessionsOfFabrics
    BY DEF SessionsInv, OfFabrics, Known, SessionsOfFabrics, accepts_rx
  <1> QED BY <1>1, SessionsInvariant, PTL

\* An exchange that nobody accepted has its packet in the RX buffer, so that accept,
\* its timeout or the orphan handler will see to it (handle_orphaned_rx_packet).
THEOREM PendingInBuffer == SessionsSpec => []PendingIsInBuffer
  <1>1. SessionsInv => PendingIsInBuffer
    BY DEF SessionsInv, Pending, Unaccepted, PendingIsInBuffer, Stuck
  <1> QED BY <1>1, SessionsInvariant, PTL
===============================================================================
