---------------------------- MODULE SessionStrokes ----------------------------
(***************************************************************************)
(* Lemmas about Sessions, for any number of sessions, exchanges, session   *)
(* ids, peers and fabrics.                                                 *)
(*                                                                         *)
(* Most actions change the table in two strokes: an eviction and then a    *)
(* new session, a reservation released and then an exchange.  The parts of *)
(* the inductive invariant are therefore operators of a table, a set of    *)
(* tasks and the rest, and the lemmas say what one stroke does to them.    *)
(***************************************************************************)
EXTENDS Sessions, FiniteSetTheorems, WellFoundedInduction, TLAPS

\* The unique ids in the table and with the tasks are ones that were given out.
Types(tab, n, ts) ==
    /\ n \in Nat
    /\ IsFiniteSet(DOMAIN tab) /\ Cardinality(DOMAIN tab) <= MAX_SESSIONS
    /\ \A id \in DOMAIN tab : id \in Nat /\ id < n /\ tab[id] \in Session
    /\ ts \subseteq Task /\ \A t \in ts : t.sess < n

Empty(s) ==
    /\ s.mode = "PlainText" /\ s.fab_idx = 0 /\ s.local_sess_id = 0
    /\ \A i \in 1 .. MAX_EXCHANGES : s.exchanges[i] = None

\* A reservation has one handshake, and nothing else in it.
Reservations(tab, ts) ==
    /\ \A id \in DOMAIN tab : tab[id].reserved => Empty(tab[id])
    /\ \A id \in DOMAIN tab : tab[id].reserved <=> \E t \in ts : t.hs # None /\ t.hs.reserved = id
    /\ \A t \in ts : t.hs # None => t.hs.reserved \in DOMAIN tab
    /\ \A t, u \in ts : t.hs # None /\ u.hs # None /\ t.hs.reserved = u.hs.reserved => t = u

Owned(x) == x # None /\ x.state = "Owned"

Ownership(tab, ts) ==
    /\ \A t \in ts : t.sess \in DOMAIN tab => Owned(tab[t.sess].exchanges[t.index])
    /\ \A t, u \in ts : t.sess = u.sess /\ t.index = u.index => t = u
    /\ \A id \in DOMAIN tab, i \in 1 .. MAX_EXCHANGES :
         Owned(tab[id].exchanges[i]) => \E t \in ts : t.sess = id /\ t.index = i

Unaccepted(x) == x # None /\ x.state = "AcceptPending"

Pending(tab, rx) ==
    \A id \in DOMAIN tab, i \in 1 .. MAX_EXCHANGES :
        ~tab[id].expired /\ Unaccepted(tab[id].exchanges[i]) => rx = [sess |-> id, index |-> i]

Secured(s) == s.mode \in {"Case", "Pase"}

\* A session id is with one session, or with one handshake.
SessIds(tab, ts) ==
    /\ \A id \in DOMAIN tab : Secured(tab[id]) => tab[id].local_sess_id # 0
    /\ \A i, j \in DOMAIN tab :
         Secured(tab[i]) /\ Secured(tab[j]) /\ tab[i].local_sess_id = tab[j].local_sess_id => i = j
    /\ \A t \in ts, id \in DOMAIN tab :
         t.hs # None /\ Secured(tab[id]) => t.hs.local_sess_id # tab[id].local_sess_id
    /\ \A t, u \in ts :
         /\ t.hs # None /\ u.hs # None
         /\ t.hs.local_sess_id = u.hs.local_sess_id /\ t.hs.local_sess_id # 0
         => t = u

OfFabrics(tab, idxs) ==
    \A id \in DOMAIN tab : ~tab[id].expired /\ ~tab[id].reserved => tab[id].fab_idx \in idxs

Sound(tab, n, ts) == Types(tab, n, ts) /\ Reservations(tab, ts) /\ Ownership(tab, ts) /\ SessIds(tab, ts)

-------------------------------------------------------------------------------
\* A set of numbers has a least one.
LEMMA LeastExists ==
  ASSUME NEW T, T \subseteq Nat, T # {}
  PROVE  \E x \in T : \A y \in T : x <= y
  <1>1. \E x \in T : \A y \in T : ~(<<y, x>> \in OpToRel(<, Nat))
    BY NatLessThanWellFounded, WFMin
  <1>2. OpToRel(<, Nat) = {ss \in Nat \X Nat : ss[1] < ss[2]}
    BY Zenon DEF OpToRel
  <1>3. \E x \in T : \A y \in T : ~(<<y, x>> \in {ss \in Nat \X Nat : ss[1] < ss[2]})
    BY <1>1, <1>2, Zenon
  <1>4. PICK x \in T : \A y \in T : ~(<<y, x>> \in {ss \in Nat \X Nat : ss[1] < ss[2]})
    BY <1>3
  <1>5. ASSUME NEW y \in T PROVE x <= y
    <2>1. <<y, x>> \in Nat \X Nat /\ <<y, x>>[1] = y /\ <<y, x>>[2] = x
      OBVIOUS
    <2>2. ~(y < x)
      BY <1>4, <2>1, Zenon
    <2> QED BY <2>2
  <1> QED BY <1>5

\* An exchange is put where there is none, if there is such a place (Session::add_exch).
LEMMA PlaceIsFree ==
  ASSUME NEW s \in Session, Place(s) # 0
  PROVE  Place(s) \in 1 .. MAX_EXCHANGES /\ s.exchanges[Place(s)] = None
  <1> DEFINE free == {i \in 1 .. MAX_EXCHANGES : s.exchanges[i] = None}
  <1>1. free # {} /\ Place(s) = Min(free)
    BY DEF Place
  <1>2. free \subseteq Nat
    BY SessionsAssumption
  <1>3. \E x \in free : \A y \in free : x <= y
    BY <1>1, <1>2, LeastExists
  <1>4. Min(free) \in free
    BY <1>3 DEF Min
  <1> QED BY <1>1, <1>4

\* A new session has no exchanges, and its first one is put first.
LEMMA PlainSession ==
  ASSUME NEW p \in Peers
  PROVE  /\ Plain(p) \in Session /\ Empty(Plain(p))
         /\ ~Plain(p).reserved /\ ~Plain(p).expired
  <1>1. [i \in 1 .. MAX_EXCHANGES |-> None] \in [1 .. MAX_EXCHANGES -> ExchangeState \cup {None}]
    OBVIOUS
  <1>2. 0 \in 0 .. SESS_IDS /\ 0 \in FabricIdx \cup {0}
    BY SessionsAssumption
  <1>3. Plain(p) \in Session
    BY <1>1, <1>2 DEF Plain, Session
  <1> QED BY <1>3 DEF Plain, Empty

\* The first exchange of an empty session.
LEMMA FirstPlace ==
  ASSUME NEW s, \A i \in 1 .. MAX_EXCHANGES : s.exchanges[i] = None
  PROVE  Place(s) = 1
  <1> DEFINE free == {i \in 1 .. MAX_EXCHANGES : s.exchanges[i] = None}
  <1>1. free = 1 .. MAX_EXCHANGES /\ 1 \in free
    BY SessionsAssumption
  <1>2. free # {} /\ Min(free) = CHOOSE x \in free : \A y \in free : x <= y
    BY <1>1 DEF Min
  <1>3. \A y \in free : 1 <= y
    BY <1>1
  <1>4. \A x \in free : (\A y \in free : x <= y) => x = 1
    BY <1>1
  <1>5. Min(free) = 1
    BY <1>1, <1>2, <1>3, <1>4
  <1> QED BY <1>2, <1>5 DEF Place

-------------------------------------------------------------------------------
\* Removing sessions (Sessions::remove).
LEMMA RemoveFacts ==
  ASSUME NEW tab, NEW gone
  PROVE  /\ DOMAIN remove(tab, gone) = DOMAIN tab \ gone
         /\ \A id \in DOMAIN tab \ gone : remove(tab, gone)[id] = tab[id]
  BY DEF remove, Restrict

\* Whatever sessions are removed, reserved ones excepted, the rest stays sound.
LEMMA RemoveKeeps ==
  ASSUME NEW tab, NEW n, NEW ts, Sound(tab, n, ts),
         NEW gone, \A id \in DOMAIN tab : id \in gone => ~tab[id].reserved
  PROVE  Sound(remove(tab, gone), n, ts)
  <1> DEFINE left == remove(tab, gone)
  <1>1. DOMAIN left = DOMAIN tab \ gone /\ \A id \in DOMAIN left : left[id] = tab[id]
    <2>1. DOMAIN left = DOMAIN tab \ gone
      BY RemoveFacts
    <2> QED BY <2>1, RemoveFacts, Zenon
  <1> HIDE DEF left
  <1>2. Types(left, n, ts)
    <2>1. IsFiniteSet(DOMAIN left) /\ Cardinality(DOMAIN left) <= Cardinality(DOMAIN tab)
      BY <1>1, FS_Subset DEF Sound, Types
    <2>2. Cardinality(DOMAIN left) \in Nat /\ Cardinality(DOMAIN tab) \in Nat
      BY <2>1, FS_CardinalityType DEF Sound, Types
    <2>3. Cardinality(DOMAIN left) <= MAX_SESSIONS
      BY <2>1, <2>2, SessionsAssumption DEF Sound, Types
    <2> QED BY <1>1, <2>1, <2>3 DEF Sound, Types
  <1>3. Reservations(left, ts)
    <2>1. \A t \in ts : t.hs # None => t.hs.reserved \in DOMAIN left
      BY <1>1 DEF Sound, Reservations
    <2> QED BY <1>1, <2>1 DEF Sound, Reservations
  <1>4. Ownership(left, ts)
    BY <1>1 DEF Sound, Ownership
  <1>5. SessIds(left, ts)
    BY <1>1 DEF Sound, SessIds
  <1> QED BY <1>2, <1>3, <1>4, <1>5 DEF Sound, left

\* What the sessions that are left say of the buffer and of the fabrics stays true.
LEMMA RemoveKeepsRest ==
  ASSUME NEW tab, NEW gone
  PROVE  /\ \A rx : Pending(tab, rx) => Pending(remove(tab, gone), rx)
         /\ \A idxs : OfFabrics(tab, idxs) => OfFabrics(remove(tab, gone), idxs)
  <1> DEFINE left == remove(tab, gone)
  <1>1. DOMAIN left = DOMAIN tab \ gone /\ \A id \in DOMAIN left : left[id] = tab[id]
    <2>1. DOMAIN left = DOMAIN tab \ gone
      BY RemoveFacts
    <2> QED BY <2>1, RemoveFacts, Zenon
  <1> HIDE DEF left
  <1>2. \A rx : Pending(tab, rx) => Pending(left, rx)
    BY <1>1 DEF Pending
  <1>3. \A idxs : OfFabrics(tab, idxs) => OfFabrics(left, idxs)
    BY <1>1 DEF OfFabrics
  <1> QED BY <1>2, <1>3 DEF left

-------------------------------------------------------------------------------
WithCell(tab, id, i, x) == [tab EXCEPT ![id].exchanges[i] = x]

SameSession(s, r) ==
    /\ r \in Session
    /\ r.mode = s.mode /\ r.fab_idx = s.fab_idx /\ r.local_sess_id = s.local_sess_id
    /\ r.reserved = s.reserved /\ r.expired = s.expired

\* The table `new` is `tab` with x for the exchange i of the session id.
OneCell(tab, new, id, i, x) ==
    /\ DOMAIN new = DOMAIN tab
    /\ \A j \in DOMAIN tab : j # id => new[j] = tab[j]
    /\ SameSession(tab[id], new[id])
    /\ new[id].exchanges[i] = x
    /\ \A k \in 1 .. MAX_EXCHANGES : k # i => new[id].exchanges[k] = tab[id].exchanges[k]

\* Changing one exchange changes nothing else of its session.
LEMMA CellFacts ==
  ASSUME NEW tab, NEW id \in DOMAIN tab, tab[id] \in Session,
         NEW i \in 1 .. MAX_EXCHANGES, NEW x \in ExchangeState \cup {None}
  PROVE  OneCell(tab, WithCell(tab, id, i, x), id, i, x)
  <1> DEFINE s == tab[id]
             r == [s EXCEPT !.exchanges = [s.exchanges EXCEPT ![i] = x]]
  <1>1. WithCell(tab, id, i, x) = [tab EXCEPT ![id] = r]
    BY DEF WithCell
  <1>2. s.exchanges \in [1 .. MAX_EXCHANGES -> ExchangeState \cup {None}]
    BY DEF Session
  <1>3. [s.exchanges EXCEPT ![i] = x] \in [1 .. MAX_EXCHANGES -> ExchangeState \cup {None}]
    BY <1>2
  <1>4. SameSession(s, r) /\ r.exchanges = [s.exchanges EXCEPT ![i] = x]
    BY <1>3 DEF Session, SameSession
  <1> QED BY <1>1, <1>2, <1>4 DEF OneCell

\* The exchanges of sessions that are not reserved do not matter to the rest.
LEMMA CellKeeps ==
  ASSUME NEW tab, NEW n, NEW ts, Sound(tab, n, ts), NEW id \in DOMAIN tab, ~tab[id].reserved,
         NEW i \in 1 .. MAX_EXCHANGES, NEW x \in ExchangeState \cup {None}
  PROVE  /\ Types(WithCell(tab, id, i, x), n, ts)
         /\ Reservations(WithCell(tab, id, i, x), ts)
         /\ SessIds(WithCell(tab, id, i, x), ts)
         /\ \A idxs : OfFabrics(tab, idxs) => OfFabrics(WithCell(tab, id, i, x), idxs)
  <1> DEFINE new == WithCell(tab, id, i, x)
  <1>1. tab[id] \in Session /\ id \in Nat /\ id < n
    BY DEF Sound, Types
  <1>2. OneCell(tab, new, id, i, x)
    BY <1>1, CellFacts, Zenon
  <1> HIDE DEF new
  <1>3. \A j \in DOMAIN tab : SameSession(tab[j], new[j]) /\ (tab[j].reserved => new[j] = tab[j])
    BY <1>2 DEF OneCell, Sound, Types, SameSession
  <1>4. Types(new, n, ts)
    BY <1>2, <1>3 DEF OneCell, Sound, Types, SameSession
  <1>5. Reservations(new, ts)
    BY <1>2, <1>3 DEF OneCell, Sound, Reservations, SameSession
  <1>6. SessIds(new, ts)
    BY <1>2, <1>3 DEF OneCell, Sound, SessIds, Secured, SameSession
  <1>7. \A idxs : OfFabrics(tab, idxs) => OfFabrics(new, idxs)
    BY <1>2, <1>3 DEF OneCell, OfFabrics, SameSession
  <1> QED BY <1>4, <1>5, <1>6, <1>7 DEF new

\* An exchange that is owned as before, or as little as before.
LEMMA CellStays ==
  ASSUME NEW tab, NEW n, NEW ts, Sound(tab, n, ts), NEW id \in DOMAIN tab,
         NEW i \in 1 .. MAX_EXCHANGES, NEW x \in ExchangeState \cup {None},
         Owned(x) <=> Owned(tab[id].exchanges[i])
  PROVE  Ownership(WithCell(tab, id, i, x), ts)
  <1> DEFINE new == WithCell(tab, id, i, x)
  <1>1. tab[id] \in Session
    BY DEF Sound, Types
  <1>2. OneCell(tab, new, id, i, x)
    BY <1>1, CellFacts, Zenon
  <1> HIDE DEF new
  <1>3. \A j \in DOMAIN tab, k \in 1 .. MAX_EXCHANGES :
          Owned(new[j].exchanges[k]) <=> Owned(tab[j].exchanges[k])
    BY <1>2 DEF OneCell
  <1>4. \A t \in ts : t.index \in 1 .. MAX_EXCHANGES
    BY DEF Sound, Types, Task
  <1>5. Ownership(new, ts)
    BY <1>2, <1>3, <1>4 DEF OneCell, Sound, Ownership
  <1> QED BY <1>5 DEF new

\* A task takes an exchange that nobody owned (Transport::accept_if,
\* Transport::initiate_for_session).
LEMMA CellTaken ==
  ASSUME NEW tab, NEW n, NEW ts, Sound(tab, n, ts), NEW id \in DOMAIN tab,
         NEW i \in 1 .. MAX_EXCHANGES, NEW x \in ExchangeState, Owned(x),
         ~Owned(tab[id].exchanges[i]),
         NEW t \in Task, t.sess = id, t.index = i
  PROVE  Ownership(WithCell(tab, id, i, x), ts \cup {t})
  <1> DEFINE new == WithCell(tab, id, i, x)
  <1>1. tab[id] \in Session
    BY DEF Sound, Types
  <1>2. OneCell(tab, new, id, i, x)
    BY <1>1, CellFacts, Zenon
  <1> HIDE DEF new
  <1>3. \A j \in DOMAIN tab, k \in 1 .. MAX_EXCHANGES :
          Owned(new[j].exchanges[k]) <=> Owned(tab[j].exchanges[k]) \/ (j = id /\ k = i)
    BY <1>2 DEF OneCell
  <1>4. \A u \in ts : u.index \in 1 .. MAX_EXCHANGES /\ ~(u.sess = id /\ u.index = i)
    BY DEF Sound, Types, Task, Ownership
  <1>5. Ownership(new, ts \cup {t})
    <2>1. \A u \in ts \cup {t} : u.sess \in DOMAIN new => Owned(new[u.sess].exchanges[u.index])
      BY <1>2, <1>3, <1>4 DEF OneCell, Sound, Ownership
    <2>2. \A u, v \in ts \cup {t} : u.sess = v.sess /\ u.index = v.index => u = v
      BY <1>4 DEF Sound, Ownership
    <2>3. ASSUME NEW j \in DOMAIN new, NEW k \in 1 .. MAX_EXCHANGES, Owned(new[j].exchanges[k])
          PROVE  \E u \in ts \cup {t} : u.sess = j /\ u.index = k
      BY <1>2, <1>3, <2>3 DEF OneCell, Sound, Ownership
    <2> QED BY <2>1, <2>2, <2>3 DEF Ownership
  <1> QED BY <1>5 DEF new

\* A task lets its exchange go (Session::remove_exch).
LEMMA CellLeft ==
  ASSUME NEW tab, NEW n, NEW ts, Sound(tab, n, ts), NEW t \in ts, t.sess \in DOMAIN tab,
         NEW x \in ExchangeState \cup {None}, ~Owned(x)
  PROVE  Ownership(WithCell(tab, t.sess, t.index, x), ts \ {t})
  <1> DEFINE new == WithCell(tab, t.sess, t.index, x)
  <1>1. tab[t.sess] \in Session /\ t.index \in 1 .. MAX_EXCHANGES
    BY DEF Sound, Types, Task
  <1>2. OneCell(tab, new, t.sess, t.index, x)
    BY <1>1, CellFacts, Zenon
  <1> HIDE DEF new
  <1>3. \A j \in DOMAIN tab, k \in 1 .. MAX_EXCHANGES :
          Owned(new[j].exchanges[k]) <=> Owned(tab[j].exchanges[k]) /\ ~(j = t.sess /\ k = t.index)
    BY <1>2 DEF OneCell
  <1>4. \A u \in ts \ {t} : u.index \in 1 .. MAX_EXCHANGES /\ ~(u.sess = t.sess /\ u.index = t.index)
    BY DEF Sound, Types, Task, Ownership
  <1>5. Ownership(new, ts \ {t})
    BY <1>2, <1>3, <1>4 DEF OneCell, Sound, Ownership
  <1> QED BY <1>5 DEF new

\* An exchange that is not, or no more, one to accept.
LEMMA CellSettled ==
  ASSUME NEW tab, NEW id \in DOMAIN tab, tab[id] \in Session,
         NEW i \in 1 .. MAX_EXCHANGES, NEW x \in ExchangeState \cup {None}, ~Unaccepted(x),
         NEW rx, Pending(tab, rx)
  PROVE  /\ Pending(WithCell(tab, id, i, x), rx)
         /\ rx = [sess |-> id, index |-> i] => Pending(WithCell(tab, id, i, x), None)
  <1> DEFINE new == WithCell(tab, id, i, x)
  <1>2. OneCell(tab, new, id, i, x)
    BY CellFacts, Zenon
  <1> HIDE DEF new
  <1>3. \A j \in DOMAIN tab, k \in 1 .. MAX_EXCHANGES :
          /\ new[j].expired = tab[j].expired
          /\ Unaccepted(new[j].exchanges[k])
               => Unaccepted(tab[j].exchanges[k]) /\ ~(j = id /\ k = i)
    BY <1>2 DEF OneCell, SameSession
  <1>4. Pending(new, rx)
    BY <1>2, <1>3 DEF OneCell, Pending
  <1>5. ASSUME rx = [sess |-> id, index |-> i] PROVE Pending(new, None)
    <2>1. \A j, k : rx = [sess |-> j, index |-> k] => j = id /\ k = i
      BY <1>5
    <2> QED BY <1>2, <1>3, <2>1 DEF OneCell, Pending
  <1> QED BY <1>4, <1>5 DEF new

\* An exchange to accept, whose packet is put in the buffer that was empty.
LEMMA CellWaits ==
  ASSUME NEW tab, NEW id \in DOMAIN tab, tab[id] \in Session,
         NEW i \in 1 .. MAX_EXCHANGES, NEW x \in ExchangeState,
         DOMAIN tab \subseteq Nat, Pending(tab, None)
  PROVE  Pending(WithCell(tab, id, i, x), [sess |-> id, index |-> i])
  <1> DEFINE new == WithCell(tab, id, i, x)
  <1>1. \A j \in DOMAIN tab, k \in 1 .. MAX_EXCHANGES : None # [sess |-> j, index |-> k]
    BY SessionsNone DEF Slot
  <1>2. OneCell(tab, new, id, i, x)
    BY CellFacts, Zenon
  <1> HIDE DEF new
  <1>3. Pending(new, [sess |-> id, index |-> i])
    BY <1>1, <1>2 DEF OneCell, Pending, SameSession
  <1> QED BY <1>3 DEF new

-------------------------------------------------------------------------------
Added(tab, n, s) == [id \in DOMAIN tab \cup {n} |-> IF id = n THEN s ELSE tab[id]]

\* The table `new` is `tab` with the session s under the new id n.
OneMore(tab, new, n, s) ==
    /\ DOMAIN new = DOMAIN tab \cup {n} /\ new[n] = s
    /\ \A id \in DOMAIN tab : id # n /\ new[id] = tab[id]

\* A session is added under a new unique id to a table that has room (Sessions::add).
LEMMA AddFacts ==
  ASSUME NEW tab, NEW n, NEW ts, Types(tab, n, ts), Cardinality(DOMAIN tab) < MAX_SESSIONS,
         NEW s \in Session
  PROVE  /\ OneMore(tab, Added(tab, n, s), n, s)
         /\ Types(Added(tab, n, s), n + 1, ts)
  <1> DEFINE new == Added(tab, n, s)
  <1>1. DOMAIN new = DOMAIN tab \cup {n} /\ new[n] = s
    BY DEF Added
  <1>2. \A id \in DOMAIN tab : id # n /\ new[id] = tab[id]
    BY DEF Added, Types
  <1> HIDE DEF new
  <1>3. n \notin DOMAIN tab
    BY <1>2
  <1>4. IsFiniteSet(DOMAIN new) /\ Cardinality(DOMAIN new) = Cardinality(DOMAIN tab) + 1
    BY <1>1, <1>3, FS_AddElement DEF Types
  <1>5. Cardinality(DOMAIN tab) \in Nat
    BY FS_CardinalityType DEF Types
  <1>6. Types(new, n + 1, ts)
    <2>1. Cardinality(DOMAIN new) <= MAX_SESSIONS
      BY <1>4, <1>5, SessionsAssumption
    <2>2. \A id \in DOMAIN new : id \in Nat /\ id < n + 1 /\ new[id] \in Session
      BY <1>1, <1>2 DEF Types
    <2>3. \A t \in ts : t.sess < n + 1
      BY DEF Types, Task
    <2> QED BY <1>4, <2>1, <2>2, <2>3 DEF Types
  <1> QED BY <1>1, <1>2, <1>6 DEF new, OneMore

\* The first exchange of a session.
LEMMA FirstExchange ==
  ASSUME NEW s \in Session, \A i \in 1 .. MAX_EXCHANGES : s.exchanges[i] = None,
         NEW x \in ExchangeState
  PROVE  /\ SameSession(s, add_exch(s, x))
         /\ add_exch(s, x).exchanges[1] = x
         /\ \A i \in 1 .. MAX_EXCHANGES : i # 1 => add_exch(s, x).exchanges[i] = None
  <1>1. 1 \in 1 .. MAX_EXCHANGES
    BY SessionsAssumption
  <1>2. add_exch(s, x) = [s EXCEPT !.exchanges = [s.exchanges EXCEPT ![1] = x]]
    BY FirstPlace DEF add_exch
  <1>3. s.exchanges \in [1 .. MAX_EXCHANGES -> ExchangeState \cup {None}]
    BY DEF Session
  <1>4. [s.exchanges EXCEPT ![1] = x] \in [1 .. MAX_EXCHANGES -> ExchangeState \cup {None}]
    BY <1>1, <1>3
  <1>5. /\ SameSession(s, add_exch(s, x))
        /\ add_exch(s, x).exchanges = [s.exchanges EXCEPT ![1] = x]
    BY <1>2, <1>4 DEF Session, SameSession
  <1> QED BY <1>1, <1>3, <1>5

\* A task without a handshake changes nothing about reservations and session ids.
LEMMA BareTask ==
  ASSUME NEW tab, NEW ts, NEW t, t.hs = None
  PROVE  /\ Reservations(tab, ts) => Reservations(tab, ts \cup {t})
         /\ SessIds(tab, ts) => SessIds(tab, ts \cup {t})
  <1>1. \A u \in ts \cup {t} : u.hs # None => u \in ts
    OBVIOUS
  <1>2. ASSUME Reservations(tab, ts) PROVE Reservations(tab, ts \cup {t})
    <2>1. \A id \in DOMAIN tab : tab[id].reserved
            <=> \E u \in ts \cup {t} : u.hs # None /\ u.hs.reserved = id
      BY <1>1, <1>2 DEF Reservations
    <2> QED BY <1>1, <1>2, <2>1 DEF Reservations
  <1>3. ASSUME SessIds(tab, ts) PROVE SessIds(tab, ts \cup {t})
    BY <1>1, <1>3 DEF SessIds
  <1> QED BY <1>2, <1>3

\* A session that is neither reserved nor secured yet.
LEMMA AddKeeps ==
  ASSUME NEW tab, NEW n, NEW ts, Sound(tab, n, ts), Cardinality(DOMAIN tab) < MAX_SESSIONS,
         NEW s \in Session, ~s.reserved, ~Secured(s)
  PROVE  /\ Types(Added(tab, n, s), n + 1, ts)
         /\ Reservations(Added(tab, n, s), ts)
         /\ SessIds(Added(tab, n, s), ts)
  <1> DEFINE new == Added(tab, n, s)
  <1>0. OneMore(tab, new, n, s) /\ Types(new, n + 1, ts)
    BY AddFacts, Zenon DEF Sound
  <1> HIDE DEF new
  <1>1. /\ DOMAIN new = DOMAIN tab \cup {n} /\ new[n] = s
        /\ \A id \in DOMAIN tab : id # n /\ new[id] = tab[id]
        /\ Types(new, n + 1, ts)
    BY <1>0 DEF OneMore
  <1>2. n \notin DOMAIN tab
    BY <1>1
  <1>3. Reservations(new, ts)
    <2>1. \A id \in DOMAIN new : new[id].reserved => id \in DOMAIN tab
      BY <1>1
    <2>2. \A t \in ts : t.hs # None => t.hs.reserved \in DOMAIN tab
      BY DEF Sound, Reservations
    <2>3. \A id \in DOMAIN new : new[id].reserved <=> \E t \in ts : t.hs # None /\ t.hs.reserved = id
      BY <1>1, <1>2, <2>1, <2>2 DEF Sound, Reservations
    <2> QED BY <1>1, <2>1, <2>2, <2>3 DEF Sound, Reservations
  <1>4. SessIds(new, ts)
    <2>1. \A id \in DOMAIN new : Secured(new[id]) => id \in DOMAIN tab /\ new[id] = tab[id]
      BY <1>1
    <2> QED BY <1>1, <2>1 DEF Sound, SessIds
  <1> QED BY <1>1, <1>3, <1>4 DEF new

\* The new session has an exchange to accept, for the packet in the buffer.
LEMMA AddWaiting ==
  ASSUME NEW tab, NEW n, NEW ts, Sound(tab, n, ts), Cardinality(DOMAIN tab) < MAX_SESSIONS,
         Pending(tab, None), NEW s \in Session, ~s.reserved, ~Secured(s),
         \A i \in 1 .. MAX_EXCHANGES : ~Owned(s.exchanges[i]),
         \A i \in 1 .. MAX_EXCHANGES : i # 1 => s.exchanges[i] = None
  PROVE  /\ Sound(Added(tab, n, s), n + 1, ts)
         /\ Pending(Added(tab, n, s), [sess |-> n, index |-> 1])
  <1> DEFINE new == Added(tab, n, s)
  <1>0. OneMore(tab, new, n, s)
    BY AddFacts, Zenon DEF Sound
  <1>2. Types(new, n + 1, ts) /\ Reservations(new, ts) /\ SessIds(new, ts)
    BY AddKeeps
  <1> HIDE DEF new
  <1>1. /\ DOMAIN new = DOMAIN tab \cup {n} /\ new[n] = s
        /\ \A id \in DOMAIN tab : id # n /\ new[id] = tab[id]
    BY <1>0 DEF OneMore
  <1>3. \A t \in ts : t.sess # n /\ t.index \in 1 .. MAX_EXCHANGES
    BY DEF Sound, Types, Task
  <1>4. Ownership(new, ts)
    BY <1>1, <1>3 DEF Sound, Ownership
  <1>5. \A j \in DOMAIN tab, k \in 1 .. MAX_EXCHANGES : None # [sess |-> j, index |-> k]
    BY SessionsNone DEF Slot, Sound, Types
  <1>6. Pending(new, [sess |-> n, index |-> 1])
    BY <1>1, <1>5 DEF Pending, Unaccepted
  <1> QED BY <1>2, <1>4, <1>6 DEF new, Sound

\* The new session has an exchange that a new task owns (Exchange::initiate_unsecured).
LEMMA AddOwned ==
  ASSUME NEW tab, NEW n, NEW ts, Sound(tab, n, ts), Cardinality(DOMAIN tab) < MAX_SESSIONS,
         NEW s \in Session, ~s.reserved, ~Secured(s),
         Owned(s.exchanges[1]),
         \A i \in 1 .. MAX_EXCHANGES : i # 1 => s.exchanges[i] = None,
         NEW t \in Task, t.sess = n, t.index = 1, t.hs = None
  PROVE  /\ Sound(Added(tab, n, s), n + 1, ts \cup {t})
         /\ \A rx : Pending(tab, rx) => Pending(Added(tab, n, s), rx)
  <1> DEFINE new == Added(tab, n, s)
  <1>0. OneMore(tab, new, n, s)
    BY AddFacts, Zenon DEF Sound
  <1>2. Types(new, n + 1, ts) /\ Reservations(new, ts) /\ SessIds(new, ts)
    BY AddKeeps
  <1> HIDE DEF new
  <1>1. /\ DOMAIN new = DOMAIN tab \cup {n} /\ new[n] = s
        /\ \A id \in DOMAIN tab : id # n /\ new[id] = tab[id]
    BY <1>0 DEF OneMore
  <1>3. \A u \in ts : u.sess # n /\ u.index \in 1 .. MAX_EXCHANGES
    BY DEF Sound, Types, Task
  <1>4. Ownership(new, ts \cup {t})
    <2>1. \A u \in ts \cup {t} : u.sess \in DOMAIN new => Owned(new[u.sess].exchanges[u.index])
      BY <1>1, <1>3 DEF Sound, Ownership
    <2>2. \A u, v \in ts \cup {t} : u.sess = v.sess /\ u.index = v.index => u = v
      BY <1>3 DEF Sound, Ownership
    <2>3. ASSUME NEW j \in DOMAIN new, NEW k \in 1 .. MAX_EXCHANGES, Owned(new[j].exchanges[k])
          PROVE  \E u \in ts \cup {t} : u.sess = j /\ u.index = k
      BY <1>1, <2>3 DEF Sound, Ownership, Owned
    <2> QED BY <2>1, <2>2, <2>3 DEF Ownership
  <1>5. Types(new, n + 1, ts \cup {t})
    BY <1>2 DEF Sound, Types
  <1>6. Reservations(new, ts \cup {t}) /\ SessIds(new, ts \cup {t})
    BY <1>2, BareTask
  <1>7. \A rx : Pending(tab, rx) => Pending(new, rx)
    BY <1>1 DEF Pending, Unaccepted, Owned
  <1> QED BY <1>4, <1>5, <1>6, <1>7 DEF new, Sound

-------------------------------------------------------------------------------
Reshaken(ts, t, h) == (ts \ {t}) \cup {[t EXCEPT !.hs = h]}

\* A handshake that goes on leaves its task with the exchange that it has.
LEMMA HandshakeFacts ==
  ASSUME NEW tab, NEW n, NEW ts, Sound(tab, n, ts), NEW t \in ts,
         NEW h \in HandshakeState \cup {None}
  PROVE  /\ [t EXCEPT !.hs = h] \in Task
         /\ [t EXCEPT !.hs = h].sess = t.sess /\ [t EXCEPT !.hs = h].index = t.index
         /\ [t EXCEPT !.hs = h].hs = h
         /\ Types(tab, n, Reshaken(ts, t, h)) /\ Ownership(tab, Reshaken(ts, t, h))
  <1> DEFINE u == [t EXCEPT !.hs = h]
             us == Reshaken(ts, t, h)
  <1>1. t \in Task
    BY DEF Sound, Types
  <1>2. u \in Task /\ u.sess = t.sess /\ u.index = t.index /\ u.hs = h
    BY <1>1 DEF Task
  <1>3. us = (ts \ {t}) \cup {u}
    BY DEF Reshaken
  <1> HIDE DEF u, us
  <1>4. Types(tab, n, us)
    BY <1>2, <1>3 DEF Sound, Types
  <1>5. Ownership(tab, us)
    <2>1. \A v \in us : v.sess \in DOMAIN tab => Owned(tab[v.sess].exchanges[v.index])
      BY <1>2, <1>3 DEF Sound, Ownership
    <2>2. \A v, w \in us : v.sess = w.sess /\ v.index = w.index => v = w
      BY <1>2, <1>3 DEF Sound, Ownership
    <2>3. ASSUME NEW j \in DOMAIN tab, NEW k \in 1 .. MAX_EXCHANGES, Owned(tab[j].exchanges[k])
          PROVE  \E v \in us : v.sess = j /\ v.index = k
      <3>1. PICK v \in ts : v.sess = j /\ v.index = k
        BY <2>3 DEF Sound, Ownership
      <3> QED BY <1>2, <1>3, <3>1
    <2> QED BY <2>1, <2>2, <2>3 DEF Ownership
  <1> QED BY <1>2, <1>4, <1>5 DEF u, us

\* The handshake t begins with a new session that is reserved for it
\* (ReservedSession::reserve).
LEMMA ReserveKeeps ==
  ASSUME NEW tab, NEW n, NEW ts, Sound(tab, n, ts), Cardinality(DOMAIN tab) < MAX_SESSIONS,
         NEW t \in ts, t.hs = None, NEW s \in Session, s.reserved, Empty(s),
         NEW h \in HandshakeState, h.reserved = n, h.local_sess_id = 0
  PROVE  /\ Sound(Added(tab, n, s), n + 1, Reshaken(ts, t, h))
         /\ \A rx : Pending(tab, rx) => Pending(Added(tab, n, s), rx)
         /\ \A idxs : OfFabrics(tab, idxs) => OfFabrics(Added(tab, n, s), idxs)
  <1> DEFINE new == Added(tab, n, s)
             u == [t EXCEPT !.hs = h]
             us == Reshaken(ts, t, h)
  <1>0. OneMore(tab, new, n, s)
    BY AddFacts, Zenon DEF Sound
  <1>1. /\ u \in Task /\ u.sess = t.sess /\ u.index = t.index /\ u.hs = h
        /\ Types(tab, n, us) /\ Ownership(tab, us)
    BY HandshakeFacts
  <1>2. Types(new, n + 1, us)
    BY <1>1, AddFacts, Zenon
  <1>3. us = (ts \ {t}) \cup {u} /\ h # None
    BY SessionsNone DEF Reshaken
  <1> HIDE DEF new, u, us
  <1>4. /\ DOMAIN new = DOMAIN tab \cup {n} /\ new[n] = s
        /\ \A id \in DOMAIN tab : id # n /\ new[id] = tab[id]
    BY <1>0 DEF OneMore
  <1>5. \A v \in us : v.hs # None => v = u \/ (v \in ts /\ v # t /\ v.hs.reserved \in DOMAIN tab)
    BY <1>3 DEF Sound, Reservations
  <1>6. Reservations(new, us)
    <2>1. \A id \in DOMAIN new : new[id].reserved => Empty(new[id])
      BY <1>4 DEF Sound, Reservations
    <2>2. ASSUME NEW id \in DOMAIN new
          PROVE  new[id].reserved <=> \E v \in us : v.hs # None /\ v.hs.reserved = id
      <3>1. CASE id = n
        BY <1>1, <1>3, <1>4, <3>1
      <3>2. CASE id \in DOMAIN tab
        BY <1>1, <1>3, <1>4, <3>2 DEF Sound, Reservations
      <3> QED BY <1>4, <3>1, <3>2
    <2>3. \A v \in us : v.hs # None => v.hs.reserved \in DOMAIN new
      BY <1>1, <1>4, <1>5
    <2>4. \A v, w \in us : v.hs # None /\ w.hs # None /\ v.hs.reserved = w.hs.reserved => v = w
      BY <1>1, <1>4, <1>5 DEF Sound, Reservations
    <2> QED BY <2>1, <2>2, <2>3, <2>4 DEF Reservations
  <1>7. Ownership(new, us)
    <2>1. \A v \in us : v.sess # n
      BY <1>1 DEF Types, Task
    <2>2. \A v \in us : v.sess \in DOMAIN new => Owned(new[v.sess].exchanges[v.index])
      BY <1>1, <1>4, <2>1 DEF Ownership
    <2>3. \A id \in DOMAIN new, i \in 1 .. MAX_EXCHANGES :
            Owned(new[id].exchanges[i]) => id \in DOMAIN tab /\ Owned(tab[id].exchanges[i])
      BY <1>4 DEF Empty, Owned
    <2> QED BY <1>1, <2>2, <2>3 DEF Ownership
  <1>8. SessIds(new, us)
    <2>1. \A id \in DOMAIN new : Secured(new[id]) => id \in DOMAIN tab /\ new[id] = tab[id]
      BY <1>4 DEF Empty, Secured
    <2>2. \A v \in us, id \in DOMAIN new :
            v.hs # None /\ Secured(new[id]) => v.hs.local_sess_id # new[id].local_sess_id
      BY <1>1, <1>5, <2>1 DEF Sound, SessIds
    <2>3. \A v, w \in us :
            /\ v.hs # None /\ w.hs # None
            /\ v.hs.local_sess_id = w.hs.local_sess_id /\ v.hs.local_sess_id # 0
            => v = w
      BY <1>1, <1>5 DEF Sound, SessIds
    <2> QED BY <2>1, <2>2, <2>3 DEF Sound, SessIds
  <1>9. \A rx : Pending(tab, rx) => Pending(new, rx)
    BY <1>4 DEF Pending, Unaccepted, Empty
  <1>10. \A idxs : OfFabrics(tab, idxs) => OfFabrics(new, idxs)
    BY <1>4 DEF OfFabrics
  <1> QED BY <1>2, <1>6, <1>7, <1>8, <1>9, <1>10 DEF new, us, Sound

\* The handshake t takes a session id that nobody has.
LEMMA TakeIdKeeps ==
  ASSUME NEW tab, NEW n, NEW ts, Sound(tab, n, ts), NEW t \in ts, t.hs # None,
         NEW h \in HandshakeState, h.reserved = t.hs.reserved,
         \A id \in DOMAIN tab : tab[id].local_sess_id # h.local_sess_id,
         \A u \in ts : u.hs # None => u.hs.local_sess_id # h.local_sess_id
  PROVE  Sound(tab, n, Reshaken(ts, t, h))
  <1> DEFINE u == [t EXCEPT !.hs = h]
             us == Reshaken(ts, t, h)
  <1>1. /\ u \in Task /\ u.sess = t.sess /\ u.index = t.index /\ u.hs = h
        /\ Types(tab, n, us) /\ Ownership(tab, us)
    BY HandshakeFacts
  <1>2. us = (ts \ {t}) \cup {u} /\ h # None
    BY SessionsNone DEF Reshaken
  <1> HIDE DEF u, us
  <1>3. Reservations(tab, us)
    <2>1. ASSUME NEW id \in DOMAIN tab
          PROVE  tab[id].reserved <=> \E v \in us : v.hs # None /\ v.hs.reserved = id
      <3>1. tab[id].reserved <=> \E v \in ts : v.hs # None /\ v.hs.reserved = id
        BY DEF Sound, Reservations
      <3>2. ASSUME NEW v \in ts, v.hs # None, v.hs.reserved = id
            PROVE  \E w \in us : w.hs # None /\ w.hs.reserved = id
        BY <1>1, <1>2, <3>2
      <3>3. ASSUME NEW v \in us, v.hs # None, v.hs.reserved = id
            PROVE  \E w \in ts : w.hs # None /\ w.hs.reserved = id
        BY <1>1, <1>2, <3>3
      <3> QED BY <3>1, <3>2, <3>3
    <2>2. \A v \in us : v.hs # None => v.hs.reserved \in DOMAIN tab
      BY <1>1, <1>2 DEF Sound, Reservations
    <2>3. \A v, w \in us : v.hs # None /\ w.hs # None /\ v.hs.reserved = w.hs.reserved => v = w
      BY <1>1, <1>2 DEF Sound, Reservations
    <2> QED BY <2>1, <2>2, <2>3 DEF Sound, Reservations
  <1>4. SessIds(tab, us)
    <2>1. SessIds(tab, ts)
      BY DEF Sound
    <2>2. \A v \in us, id \in DOMAIN tab :
            v.hs # None /\ Secured(tab[id]) => v.hs.local_sess_id # tab[id].local_sess_id
      BY <1>1, <1>2, <2>1 DEF SessIds
    <2>3. \A v, w \in us :
            /\ v.hs # None /\ w.hs # None
            /\ v.hs.local_sess_id = w.hs.local_sess_id /\ v.hs.local_sess_id # 0
            => v = w
      BY <1>1, <1>2, <2>1 DEF SessIds
    <2> QED BY <2>1, <2>2, <2>3 DEF SessIds
  <1> QED BY <1>1, <1>3, <1>4 DEF us, Sound

\* In the table `new` the reservation of the handshake t is a session under the id
\* that the handshake took.
Completed(tab, new, t) ==
    /\ DOMAIN new = DOMAIN tab
    /\ \A id \in DOMAIN tab : id # t.hs.reserved => new[id] = tab[id]
    /\ new[t.hs.reserved] \in Session /\ ~new[t.hs.reserved].reserved
    /\ Secured(new[t.hs.reserved])
    /\ new[t.hs.reserved].exchanges = tab[t.hs.reserved].exchanges
    /\ new[t.hs.reserved].local_sess_id = t.hs.local_sess_id

\* The reservation of the handshake t becomes a session under the id that the
\* handshake took (ReservedSession::update_with_state and complete).
LEMMA CompleteKeeps ==
  ASSUME NEW tab, NEW n, NEW ts, Sound(tab, n, ts), NEW t \in ts, t.hs # None,
         t.hs.local_sess_id # 0, NEW new, Completed(tab, new, t)
  PROVE  /\ Sound(new, n, Reshaken(ts, t, None))
         /\ \A rx : Pending(tab, rx) => Pending(new, rx)
  <1> DEFINE u == [t EXCEPT !.hs = None]
             us == Reshaken(ts, t, None)
             r == t.hs.reserved
  <1>1. /\ u \in Task /\ u.sess = t.sess /\ u.index = t.index /\ u.hs = None
        /\ Types(tab, n, us) /\ Ownership(tab, us)
    BY HandshakeFacts
  <1>2. us = (ts \ {t}) \cup {u}
    BY DEF Reshaken
  <1>3. r \in DOMAIN tab /\ tab[r].reserved /\ Empty(tab[r])
    BY DEF Sound, Reservations
  <1> HIDE DEF u, us, r
  <1>4. \A v \in us : v.hs # None => v \in ts /\ v # t /\ v.hs.reserved # r
    BY <1>1, <1>2 DEF Sound, Reservations, r
  <1>5. DOMAIN new = DOMAIN tab /\ \A id \in DOMAIN tab : id # r => new[id] = tab[id]
    BY DEF r, Completed
  <1>6. /\ new[r] \in Session /\ ~new[r].reserved /\ Secured(new[r])
        /\ new[r].exchanges = tab[r].exchanges /\ new[r].local_sess_id = t.hs.local_sess_id
    BY DEF r, Completed
  <1>7. Types(new, n, us)
    BY <1>1, <1>5, <1>6 DEF Types
  <1>8. Reservations(new, us)
    <2>1. ASSUME NEW id \in DOMAIN new
          PROVE  new[id].reserved <=> \E v \in us : v.hs # None /\ v.hs.reserved = id
      <3>1. CASE id = r
        BY <1>4, <1>6, <3>1
      <3>2. CASE id # r
        <4>1. new[id].reserved <=> \E v \in ts : v.hs # None /\ v.hs.reserved = id
          BY <1>5, <3>2 DEF Sound, Reservations
        <4>2. t.hs.reserved # id
          BY <3>2 DEF r
        <4> QED BY <1>2, <1>4, <4>1, <4>2
      <3> QED BY <3>1, <3>2
    <2>2. \A id \in DOMAIN new : new[id].reserved => Empty(new[id])
      BY <1>5, <1>6 DEF Sound, Reservations
    <2>3. \A v \in us : v.hs # None => v.hs.reserved \in DOMAIN new
      BY <1>4, <1>5 DEF Sound, Reservations
    <2>4. \A v, w \in us : v.hs # None /\ w.hs # None /\ v.hs.reserved = w.hs.reserved => v = w
      BY <1>4 DEF Sound, Reservations
    <2> QED BY <2>1, <2>2, <2>3, <2>4 DEF Reservations
  <1>9. Ownership(new, us)
    <2>1. \A id \in DOMAIN tab : new[id].exchanges = tab[id].exchanges
      BY <1>5, <1>6
    <2>2. \A v \in us : v.sess \in DOMAIN new => Owned(new[v.sess].exchanges[v.index])
      BY <1>1, <1>5, <2>1 DEF Ownership
    <2>3. \A id \in DOMAIN new, i \in 1 .. MAX_EXCHANGES :
            Owned(new[id].exchanges[i]) => \E v \in us : v.sess = id /\ v.index = i
      BY <1>1, <1>5, <2>1 DEF Ownership
    <2> QED BY <1>1, <2>2, <2>3 DEF Ownership
  <1>10. SessIds(new, us)
    <2>1. \A id \in DOMAIN tab : Secured(tab[id]) => tab[id].local_sess_id # t.hs.local_sess_id
      BY DEF Sound, SessIds
    <2>2. \A id \in DOMAIN new : Secured(new[id]) => new[id].local_sess_id # 0
      BY <1>5, <1>6 DEF Sound, SessIds
    <2>3. \A i, j \in DOMAIN new :
            Secured(new[i]) /\ Secured(new[j]) /\ new[i].local_sess_id = new[j].local_sess_id => i = j
      BY <1>5, <1>6, <2>1 DEF Sound, SessIds
    <2>4. \A v \in us : v.hs # None => v.hs.local_sess_id # t.hs.local_sess_id
      BY <1>4 DEF Sound, SessIds
    <2>5. ASSUME NEW v \in us, NEW id \in DOMAIN new, v.hs # None, Secured(new[id])
          PROVE  v.hs.local_sess_id # new[id].local_sess_id
      <3>1. CASE id = r
        BY <1>6, <2>4, <2>5, <3>1
      <3>2. CASE id # r
        BY <1>4, <1>5, <2>5, <3>2 DEF Sound, SessIds
      <3> QED BY <3>1, <3>2
    <2>6. \A v, w \in us :
            /\ v.hs # None /\ w.hs # None
            /\ v.hs.local_sess_id = w.hs.local_sess_id /\ v.hs.local_sess_id # 0
            => v = w
      BY <1>4 DEF Sound, SessIds
    <2> QED BY <2>2, <2>3, <2>5, <2>6 DEF SessIds
  <1>11. \A rx : Pending(tab, rx) => Pending(new, rx)
    <2>1. \A i \in 1 .. MAX_EXCHANGES : new[r].exchanges[i] = None
      BY <1>3, <1>6 DEF Empty
    <2> QED BY <1>5, <2>1 DEF Pending, Unaccepted
  <1> QED BY <1>7, <1>8, <1>9, <1>10, <1>11 DEF us, Sound

\* The handshake t ends without a session (ReservedSession::drop).
LEMMA ReleaseKeeps ==
  ASSUME NEW tab, NEW n, NEW ts, Sound(tab, n, ts), NEW t \in ts, t.hs # None
  PROVE  /\ Sound(remove(tab, {t.hs.reserved}), n, Reshaken(ts, t, None))
         /\ t.sess \in DOMAIN tab => t.sess \in DOMAIN remove(tab, {t.hs.reserved})
  <1> DEFINE u == [t EXCEPT !.hs = None]
             us == Reshaken(ts, t, None)
             r == t.hs.reserved
             left == remove(tab, {r})
  <1>1. /\ u \in Task /\ u.sess = t.sess /\ u.index = t.index /\ u.hs = None
        /\ Types(tab, n, us) /\ Ownership(tab, us)
    BY HandshakeFacts
  <1>2. us = (ts \ {t}) \cup {u}
    BY DEF Reshaken
  <1>3. r \in DOMAIN tab /\ tab[r].reserved /\ Empty(tab[r])
    BY DEF Sound, Reservations
  <1>4. DOMAIN left = DOMAIN tab \ {r} /\ \A id \in DOMAIN left : left[id] = tab[id]
    <2>1. DOMAIN left = DOMAIN tab \ {r}
      BY RemoveFacts, Zenon
    <2>2. \A id \in DOMAIN tab \ {r} : left[id] = tab[id]
      BY RemoveFacts, Zenon
    <2> QED BY <2>1, <2>2, Zenon
  <1> HIDE DEF u, us, r, left
  <1>5. \A v \in us : v.hs # None => v \in ts /\ v # t /\ v.hs.reserved # r
    BY <1>1, <1>2 DEF Sound, Reservations, r
  <1>6. Types(left, n, us)
    <2>1. IsFiniteSet(DOMAIN left) /\ Cardinality(DOMAIN left) <= Cardinality(DOMAIN tab)
      BY <1>1, <1>4, FS_Subset DEF Types
    <2>2. Cardinality(DOMAIN left) \in Nat /\ Cardinality(DOMAIN tab) \in Nat
      BY <1>1, <2>1, FS_CardinalityType DEF Types
    <2>3. Cardinality(DOMAIN left) <= MAX_SESSIONS
      BY <1>1, <2>1, <2>2, SessionsAssumption DEF Types
    <2> QED BY <1>1, <1>4, <2>1, <2>3 DEF Types
  <1>7. Reservations(left, us)
    <2>1. ASSUME NEW id \in DOMAIN left
          PROVE  left[id].reserved <=> \E v \in us : v.hs # None /\ v.hs.reserved = id
      <3>1. id # r /\ id \in DOMAIN tab /\ left[id] = tab[id] /\ t.hs.reserved # id
        BY <1>4 DEF r
      <3>2. tab[id].reserved <=> \E v \in ts : v.hs # None /\ v.hs.reserved = id
        BY <3>1 DEF Sound, Reservations
      <3> QED BY <1>2, <1>5, <3>1, <3>2
    <2>2. \A v \in us : v.hs # None => v.hs.reserved \in DOMAIN left
      BY <1>4, <1>5 DEF Sound, Reservations
    <2>3. \A v, w \in us : v.hs # None /\ w.hs # None /\ v.hs.reserved = w.hs.reserved => v = w
      BY <1>5 DEF Sound, Reservations
    <2> QED BY <1>4, <2>1, <2>2, <2>3 DEF Sound, Reservations
  <1>8. Ownership(left, us)
    BY <1>1, <1>4 DEF Ownership
  <1>9. SessIds(left, us)
    BY <1>4, <1>5 DEF Sound, SessIds
  <1>10. t.sess \in DOMAIN tab => t.sess # r
    <2>1. t.sess \in DOMAIN tab => Owned(tab[t.sess].exchanges[t.index])
      BY DEF Sound, Ownership
    <2>2. t.index \in 1 .. MAX_EXCHANGES
      BY DEF Sound, Types, Task
    <2> QED BY <1>3, <2>1, <2>2 DEF Empty, Owned
  <1> QED BY <1>4, <1>6, <1>7, <1>8, <1>9, <1>10 DEF us, left, r, Sound

\* A task whose session is gone has nothing else to leave behind.
LEMMA DeadTask ==
  ASSUME NEW tab, NEW n, NEW ts, Sound(tab, n, ts), NEW t \in ts, t.hs = None,
         t.sess \notin DOMAIN tab
  PROVE  Sound(tab, n, ts \ {t})
  <1>1. Types(tab, n, ts \ {t}) /\ SessIds(tab, ts \ {t})
    BY DEF Sound, Types, SessIds
  <1>3. Ownership(tab, ts \ {t})
    BY DEF Sound, Ownership
  <1>2. Reservations(tab, ts \ {t})
    BY DEF Sound, Reservations
  <1> QED BY <1>1, <1>2, <1>3 DEF Sound

\* A task without a handshake that has let its exchange go.
LEMMA TaskLeaves ==
  ASSUME NEW tab, NEW n, NEW ts, NEW t \in ts, t.hs = None,
         Types(tab, n, ts), Reservations(tab, ts), SessIds(tab, ts), Ownership(tab, ts \ {t})
  PROVE  Sound(tab, n, ts \ {t})
  <1>1. Types(tab, n, ts \ {t}) /\ SessIds(tab, ts \ {t})
    BY DEF Types, SessIds
  <1>2. Reservations(tab, ts \ {t})
    BY DEF Reservations
  <1> QED BY <1>1, <1>2 DEF Sound

-------------------------------------------------------------------------------
\* Sessions that expire, or that come to a fabric, keep their exchanges and their ids.
LEMMA FieldsKeep ==
  ASSUME NEW tab, NEW n, NEW ts, Sound(tab, n, ts), NEW new, DOMAIN new = DOMAIN tab,
         \A id \in DOMAIN tab :
           /\ new[id] \in Session /\ new[id].mode = tab[id].mode
           /\ new[id].local_sess_id = tab[id].local_sess_id
           /\ new[id].reserved = tab[id].reserved /\ new[id].exchanges = tab[id].exchanges
           /\ tab[id].reserved => new[id].fab_idx = tab[id].fab_idx,
         \A id \in DOMAIN tab : tab[id].expired => new[id].expired
  PROVE  /\ Sound(new, n, ts)
         /\ \A rx : Pending(tab, rx) => Pending(new, rx)
  <1>1. Types(new, n, ts)
    BY DEF Sound, Types
  <1>2. Reservations(new, ts)
    <2>1. Reservations(tab, ts)
      BY DEF Sound
    <2>2. \A id \in DOMAIN new : new[id].reserved => Empty(new[id])
      BY <2>1 DEF Reservations, Empty
    <2> QED BY <2>1, <2>2 DEF Reservations
  <1>3. Ownership(new, ts)
    <2>1. Ownership(tab, ts) /\ \A id \in DOMAIN tab : new[id].exchanges = tab[id].exchanges
      BY DEF Sound
    <2>2. \A t \in ts : t.sess \in DOMAIN new => Owned(new[t.sess].exchanges[t.index])
      BY <2>1 DEF Ownership
    <2>3. \A id \in DOMAIN new, i \in 1 .. MAX_EXCHANGES :
            Owned(new[id].exchanges[i]) => \E t \in ts : t.sess = id /\ t.index = i
      BY <2>1 DEF Ownership
    <2> QED BY <2>1, <2>2, <2>3 DEF Ownership
  <1>4. SessIds(new, ts)
    <2>1. SessIds(tab, ts)
      BY DEF Sound
    <2>2. \A id \in DOMAIN tab : Secured(new[id]) <=> Secured(tab[id])
      BY DEF Secured
    <2>3. \A id \in DOMAIN tab : new[id].local_sess_id = tab[id].local_sess_id
      OBVIOUS
    <2>4. \A i, j \in DOMAIN new :
            Secured(new[i]) /\ Secured(new[j]) /\ new[i].local_sess_id = new[j].local_sess_id => i = j
      BY <2>1, <2>2, <2>3 DEF SessIds
    <2>5. \A t \in ts, id \in DOMAIN new :
            t.hs # None /\ Secured(new[id]) => t.hs.local_sess_id # new[id].local_sess_id
      BY <2>1, <2>2, <2>3 DEF SessIds
    <2> QED BY <2>1, <2>2, <2>3, <2>4, <2>5 DEF SessIds
  <1>5. \A rx : Pending(tab, rx) => Pending(new, rx)
    BY DEF Pending
  <1> QED BY <1>1, <1>2, <1>3, <1>4, <1>5 DEF Sound

\* What Sessions::remove_for_fabric and Sessions::remove_pase leave, sparing the
\* session with the command.
LEMMA RemoveExceptKeeps ==
  ASSUME Sound(table, next_sess_unique_id, tasks), NEW gone,
         \A id \in DOMAIN table : id \in gone => ~table[id].reserved,
         NEW t, NEW idxs,
         \A id \in DOMAIN table :
           id \notin gone /\ ~table[id].expired /\ ~table[id].reserved => table[id].fab_idx \in idxs
  PROVE  /\ Sound(RemoveExcept(gone, t), next_sess_unique_id, tasks)
         /\ \A rx : Pending(table, rx) => Pending(RemoveExcept(gone, t), rx)
         /\ OfFabrics(RemoveExcept(gone, t), idxs)
  <1> DEFINE n == next_sess_unique_id
             others == gone \ {t.sess}
             left == remove(table, others)
             new == RemoveExcept(gone, t)
  <1>1. Sound(left, n, tasks)
    BY RemoveKeeps
  <1>2. \A rx : Pending(table, rx) => Pending(left, rx)
    BY RemoveKeepsRest
  <1>3. DOMAIN left = DOMAIN table \ others /\ \A id \in DOMAIN left : left[id] = table[id]
    <2> HIDE DEF others
    <2>1. DOMAIN left = DOMAIN table \ others
      BY RemoveFacts
    <2> QED BY <2>1, RemoveFacts, Zenon
  <1>4. /\ DOMAIN new = DOMAIN left
        /\ \A id \in DOMAIN left : new[id] = IF id \in gone \cap {t.sess}
                                             THEN [left[id] EXCEPT !.expired = TRUE] ELSE left[id]
    BY DEF RemoveExcept, Expired
  <1> HIDE DEF left, new
  <1>5. ASSUME NEW id \in DOMAIN left
        PROVE  /\ new[id] \in Session /\ new[id].mode = left[id].mode
               /\ new[id].local_sess_id = left[id].local_sess_id
               /\ new[id].reserved = left[id].reserved /\ new[id].exchanges = left[id].exchanges
               /\ new[id].fab_idx = left[id].fab_idx
               /\ left[id].expired => new[id].expired
               /\ id \in gone \cap {t.sess} => new[id].expired
    <2>1. left[id] \in Session
      BY <1>1 DEF Sound, Types
    <2>2. CASE id \in gone \cap {t.sess}
      <3>1. new[id] = [left[id] EXCEPT !.expired = TRUE]
        BY <1>4, <2>2, Zenon
      <3> QED BY <2>1, <3>1 DEF Session
    <2>3. CASE id \notin gone \cap {t.sess}
      <3>1. new[id] = left[id]
        BY <1>4, <2>3, Zenon
      <3> QED BY <2>1, <2>3, <3>1
    <2> QED BY <2>2, <2>3
  <1>6. Sound(new, n, tasks) /\ \A rx : Pending(left, rx) => Pending(new, rx)
    BY <1>1, <1>4, <1>5, FieldsKeep
  <1>7. OfFabrics(new, idxs)
    BY <1>3, <1>4, <1>5 DEF OfFabrics
  <1> QED BY <1>2, <1>6, <1>7 DEF new, n

\* A task without a handshake leaves its exchange (Session::remove_exch).
LEMMA RemoveExchKeeps ==
  ASSUME NEW tab, NEW n, NEW ts, Sound(tab, n, ts), NEW t \in ts, t.hs = None,
         t.sess \in DOMAIN tab, NEW owes \in BOOLEAN
  PROVE  /\ Sound(remove_exch(tab, t, owes), n, ts \ {t})
         /\ \A rx : Pending(tab, rx) => Pending(remove_exch(tab, t, owes), rx)
         /\ \A idxs : OfFabrics(tab, idxs) => OfFabrics(remove_exch(tab, t, owes), idxs)
  <1> DEFINE e == tab[t.sess].exchanges[t.index]
             dropped == [e EXCEPT !.state = "Dropped"]
             new == remove_exch(tab, t, owes)
  <1>1. t.index \in 1 .. MAX_EXCHANGES /\ tab[t.sess] \in Session
    BY DEF Sound, Types, Task
  <1>2. Owned(e)
    BY DEF Sound, Ownership
  <1>3. ~tab[t.sess].reserved
    BY <1>1, <1>2 DEF Sound, Reservations, Empty, Owned
  <1>4. e \in ExchangeState
    BY <1>1, <1>2 DEF Owned, Session
  <1>5. dropped \in ExchangeState /\ dropped.state = "Dropped"
    BY <1>4 DEF ExchangeState
  <1>6. \/ new = WithCell(tab, t.sess, t.index, dropped)
        \/ new = WithCell(tab, t.sess, t.index, None)
        \/ new = remove(tab, {t.sess})
    BY DEF remove_exch, WithCell
  <1> HIDE DEF new, dropped, e
  <1>7. ASSUME NEW x \in ExchangeState \cup {None}, ~Owned(x), ~Unaccepted(x),
               new = WithCell(tab, t.sess, t.index, x)
        PROVE  /\ Sound(new, n, ts \ {t})
               /\ \A rx : Pending(tab, rx) => Pending(new, rx)
               /\ \A idxs : OfFabrics(tab, idxs) => OfFabrics(new, idxs)
    <2>1. /\ Types(new, n, ts) /\ Reservations(new, ts) /\ SessIds(new, ts)
          /\ \A idxs : OfFabrics(tab, idxs) => OfFabrics(new, idxs)
      BY <1>1, <1>3, <1>7, CellKeeps
    <2>2. Ownership(new, ts \ {t})
      BY <1>7, CellLeft
    <2>3. \A rx : Pending(tab, rx) => Pending(new, rx)
      BY <1>1, <1>7, CellSettled
    <2> QED BY <2>1, <2>2, <2>3, TaskLeaves
  <1>8. CASE new = WithCell(tab, t.sess, t.index, dropped)
    <2>1. ~Owned(dropped) /\ ~Unaccepted(dropped)
      BY <1>5 DEF Owned, Unaccepted
    <2> QED BY <1>5, <1>7, <1>8, <2>1 DEF new
  <1>9. CASE new = WithCell(tab, t.sess, t.index, None)
    <2>1. ~Owned(None) /\ ~Unaccepted(None)
      BY DEF Owned, Unaccepted
    <2> QED BY <1>7, <1>9, <2>1 DEF new
  <1>10. CASE new = remove(tab, {t.sess})
    <2>1. Sound(new, n, ts)
      BY <1>3, <1>10, RemoveKeeps
    <2>2. t.sess \notin DOMAIN new
      <3>1. DOMAIN remove(tab, {t.sess}) = DOMAIN tab \ {t.sess}
        BY RemoveFacts, Zenon
      <3> QED BY <1>10, <3>1
    <2>3. Sound(new, n, ts \ {t})
      BY <2>1, <2>2, DeadTask
    <2> QED BY <1>10, <2>3, RemoveKeepsRest DEF new
  <1> QED BY <1>6, <1>8, <1>9, <1>10
===============================================================================
