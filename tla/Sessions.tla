------------------------------ MODULE Sessions ------------------------------
(***************************************************************************)
(* The session table (rs-matter/src/transport/session.rs) and those who    *)
(* work on it: the transport (transport.rs), which opens sessions and      *)
(* exchanges for what arrives and evicts what is idle; the tasks that own  *)
(* exchanges (transport/exchange.rs); the CASE and PASE handshakes among   *)
(* them (sc/case, sc/pase), which reserve a session long before they can   *)
(* fill it in; and the commands that remove the sessions of a fabric.      *)
(*                                                                         *)
(* Every access to the table is a locked section and one action.  What is  *)
(* said on an exchange is left to Mrp: here an exchange has a message in   *)
(* flight or not, and whether it owes an acknowledgement when its task     *)
(* ends is left open.  Time is left out: the least recently used of the    *)
(* idle sessions is any of them.                                           *)
(***************************************************************************)
EXTENDS Integers, FiniteSets, Functions, FiniteSetsExt

CONSTANTS MAX_SESSIONS, MAX_EXCHANGES,
          SESS_IDS,   \* session ids are 1 .. SESS_IDS, 0 being for the unsecured
          Peers, FabricIdx,
          GroupSessId, \* the session id derived from the group key
          None

ASSUME SessionsAssumption ==
    /\ MAX_SESSIONS \in Nat \ {0} /\ MAX_EXCHANGES \in Nat \ {0}
    /\ FabricIdx \subseteq Nat \ {0}
    /\ SESS_IDS \in Nat /\ SESS_IDS > MAX_SESSIONS /\ GroupSessId \in 1 .. SESS_IDS

VARIABLES
    table,                \* Sessions::sessions, by unique id
    next_sess_unique_id,  \* of 28 bits, the end of which is not modelled
    next_sess_id,
    fab_idxs,       \* the indices of the fabrics there are
    staged,         \* the fabric that the fail-safe would roll back, 0 for none
    rolled_back,    \* ghost: the indices of fabrics that were rolled back
    tasks,          \* the Exchange objects, with the handshake that runs on each
    rx_for          \* the exchange that the packet in the RX buffer is for, or None

fabVars == <<fab_idxs, staged, rolled_back>>
sessionVars == <<table, next_sess_unique_id, next_sess_id, fabVars, tasks, rx_for>>

\* role Responder(AcceptPending), Owned by a task, or Dropped by it.
ExchangeState == [state : {"AcceptPending", "Owned", "Dropped"},
                  retrans : BOOLEAN]  \* a message waits for its acknowledgement

Session == [mode : {"PlainText", "Case", "Pase", "Group"}, fab_idx : FabricIdx \cup {0},
            peer : Peers, local_sess_id : 0 .. SESS_IDS,
            reserved : BOOLEAN, expired : BOOLEAN,
            exchanges : [1 .. MAX_EXCHANGES -> ExchangeState \cup {None}]]

\* What a handshake has: its ReservedSession, then the session id it told the peer,
\* and the fabric that Sigma1 was for, 0 in PASE.
HandshakeState == [reserved : Nat, local_sess_id : 0 .. SESS_IDS, fab_idx : FabricIdx \cup {0}]

Task == [role : {"Initiator", "Responder"}, sess : Nat, index : 1 .. MAX_EXCHANGES,
         hs : HandshakeState \cup {None}]

Slot == [sess : Nat, index : 1 .. MAX_EXCHANGES]

ASSUME SessionsNone == None \notin ExchangeState \cup HandshakeState \cup Slot

SessionsInit ==
    /\ table = <<>> /\ next_sess_unique_id = 1 /\ next_sess_id = 1
    /\ fab_idxs = FabricIdx /\ staged = 0 /\ rolled_back = {}
    /\ tasks = {} /\ rx_for = None

-----------------------------------------------------------------------------
InFlight == {t \in tasks : t.hs # None}

Plain(p) == [mode |-> "PlainText", fab_idx |-> 0, peer |-> p, local_sess_id |-> 0,
             reserved |-> FALSE, expired |-> FALSE,
             exchanges |-> [i \in 1 .. MAX_EXCHANGES |-> None]]

has_space == Cardinality(DOMAIN table) < MAX_SESSIONS

\* Sessions::add of the session s to a table t with room for it; a call that fails
\* uses up a unique id as well, which is not modelled.
add(t, s) ==
    /\ table' = [id \in DOMAIN t \cup {next_sess_unique_id} |->
                   IF id = next_sess_unique_id THEN s ELSE t[id]]
    /\ next_sess_unique_id' = next_sess_unique_id + 1

\* Sessions::remove.
remove(t, gone) == Restrict(t, DOMAIN t \ gone)

is_idle(s) == ~s.reserved /\ \A i \in 1 .. MAX_EXCHANGES : s.exchanges[i] = None

\* Mutant: a reserved session has no exchanges either.
Evictable_reserved ==
    LET idle == {i \in DOMAIN table : \A x \in 1 .. MAX_EXCHANGES :
                                        table[i].exchanges[x] = None}
        expired == {i \in idle : table[i].expired}
    IN  IF expired # {} THEN expired ELSE idle

\* Sessions::get_session_for_eviction: expired sessions first.
Evictable ==
    LET idle == {i \in DOMAIN table : is_idle(table[i])}
        expired == {i \in idle : table[i].expired}
    IN  IF expired # {} THEN expired ELSE idle

\* Where Session::add_exch puts a new exchange (it fills the vector first, which
\* comes to the same), 0 for nowhere.
Place(s) ==
    LET free == {i \in 1 .. MAX_EXCHANGES : s.exchanges[i] = None}
    IN  IF free = {} THEN 0 ELSE Min(free)

add_exch(s, exch) == [s EXCEPT !.exchanges[Place(s)] = exch]

New == [state |-> "AcceptPending", retrans |-> FALSE]
Own == [state |-> "Owned", retrans |-> FALSE]

\* A table to which an open and evictions may have been applied: those with room for
\* one more session.
Rooms == IF has_space THEN {table} ELSE {remove(table, {e}) : e \in Evictable}

\* Sessions::get_for_rx, for a packet that names the session.
accepts_rx(id) == id \in DOMAIN table /\ ~table[id].expired /\ ~table[id].reserved

-----------------------------------------------------------------------------
\* decode_packet of a PBKDFParamRequest or CASESigma1 from p, with no session for
\* it yet.  Where there is no room the answer is Busy, and a session is evicted for
\* the next attempt.
receive_new_session(p) ==
    /\ rx_for = None
    /\ ~\E id \in DOMAIN table : /\ accepts_rx(id) /\ table[id].peer = p
                                 /\ table[id].mode = "PlainText"
    /\ IF has_space
       THEN /\ add(table, add_exch(Plain(p), New))
            /\ rx_for' = [sess |-> next_sess_unique_id, index |-> 1]
       ELSE /\ \E e \in Evictable : table' = remove(table, {e})
            /\ UNCHANGED <<next_sess_unique_id, rx_for>>
    /\ UNCHANGED <<next_sess_id, fabVars, tasks>>

\* A message of the peer opens an exchange on a session; the session is closed
\* when it has no room for one (Session::post_recv, NoSpaceExchanges).
receive_new_exchange(id) ==
    /\ rx_for = None /\ accepts_rx(id)
    /\ IF Place(table[id]) # 0
       THEN /\ table' = [table EXCEPT ![id] = add_exch(@, New)]
            /\ rx_for' = [sess |-> id, index |-> Place(table[id])]
       ELSE table' = remove(table, {id}) /\ UNCHANGED rx_for
    /\ UNCHANGED <<next_sess_unique_id, next_sess_id, fabVars, tasks>>

\* get_or_create_for_group_rx: a group message of p, of a fabric that is there.
\* While the session of an earlier one is in the table the message is taken for one
\* on that session, whose key it does not decrypt with.
receive_group_message(p, f) ==
    /\ rx_for = None /\ f \in fab_idxs
    /\ ~\E id \in DOMAIN table : /\ accepts_rx(id) /\ table[id].peer = p
                                 /\ table[id].local_sess_id = GroupSessId
    /\ \E t \in Rooms :
         add(t, add_exch([Plain(p) EXCEPT !.mode = "Group", !.fab_idx = f,
                                          !.local_sess_id = GroupSessId], New))
    /\ rx_for' = [sess |-> next_sess_unique_id, index |-> 1]
    /\ UNCHANGED <<next_sess_id, fabVars, tasks>>

\* A message of the peer on an exchange: an acknowledgement, or an answer with one.
receive_on_exchange(id, i) ==
    /\ accepts_rx(id)
    /\ table[id].exchanges[i] # None /\ table[id].exchanges[i].state # "AcceptPending"
    /\ table' = [table EXCEPT ![id].exchanges[i].retrans = FALSE]
    /\ UNCHANGED <<next_sess_unique_id, next_sess_id, fabVars, tasks, rx_for>>

\* The peer closes the session (CloseSession).
receive_close_session(id) ==
    /\ rx_for = None /\ accepts_rx(id)
    /\ table' = remove(table, {id})
    /\ UNCHANGED <<next_sess_unique_id, next_sess_id, fabVars, tasks, rx_for>>

Waiting == IF rx_for # None /\ accepts_rx(rx_for.sess)
           THEN table[rx_for.sess].exchanges[rx_for.index] ELSE None

SetWaiting(state) == table' = [table EXCEPT ![rx_for.sess].exchanges[rx_for.index].state = state]

\* Transport::accept_if; the responder takes the packet.
accept ==
    /\ Waiting # None /\ Waiting.state = "AcceptPending"
    /\ SetWaiting("Owned")
    /\ tasks' = tasks \cup {[role |-> "Responder", sess |-> rx_for.sess,
                         index |-> rx_for.index, hs |-> None]}
    /\ rx_for' = None
    /\ UNCHANGED <<next_sess_unique_id, next_sess_id, fabVars>>

\* Mutant: the packet is dropped, the exchange is not.
accept_timeout_keeps ==
    /\ Waiting # None /\ Waiting.state = "AcceptPending"
    /\ rx_for' = None
    /\ UNCHANGED <<table, next_sess_unique_id, next_sess_id, fabVars, tasks>>

\* handle_accept_timeout_rx_packet.
accept_timeout ==
    /\ Waiting # None /\ Waiting.state = "AcceptPending"
    /\ SetWaiting("Dropped")
    /\ rx_for' = None
    /\ UNCHANGED <<next_sess_unique_id, next_sess_id, fabVars, tasks>>

\* handle_orphaned_rx_packet.
orphaned ==
    /\ rx_for # None /\ (Waiting # None => Waiting.state = "Dropped")
    /\ rx_for' = None
    /\ UNCHANGED <<table, next_sess_unique_id, next_sess_id, fabVars, tasks>>

\* handle_dropped_exchange: an exchange dropped with a message in flight takes its
\* session along, another is closed.
handle_dropped_exchange(id, i) ==
    LET exch == table[id].exchanges[i]
    IN  /\ exch # None /\ exch.state = "Dropped"
        /\ table' = IF exch.retrans THEN remove(table, {id})
                    ELSE [table EXCEPT ![id].exchanges[i] = None]
        /\ UNCHANGED <<next_sess_unique_id, next_sess_id, fabVars, tasks, rx_for>>

-----------------------------------------------------------------------------
\* Transport::initiate_for_session, for a session from get_for_node or from a
\* handshake.
initiate_for_session(id) ==
    /\ accepts_rx(id) /\ table[id].mode \in {"Case", "Pase"} /\ Place(table[id]) # 0
    /\ table' = [table EXCEPT ![id] = add_exch(@, Own)]
    /\ tasks' = tasks \cup {[role |-> "Initiator", sess |-> id, index |-> Place(table[id]),
                         hs |-> None]}
    /\ UNCHANGED <<next_sess_unique_id, next_sess_id, fabVars, rx_for>>

\* Exchange::initiate_unsecured, after evict_some_session where there is no room.
initiate_unsecured(p) ==
    /\ \E t \in Rooms : add(t, add_exch(Plain(p), Own))
    /\ tasks' = tasks \cup {[role |-> "Initiator", sess |-> next_sess_unique_id, index |-> 1,
                         hs |-> None]}
    /\ UNCHANGED <<next_sess_id, fabVars, rx_for>>

alive(t) == t.sess \in DOMAIN table

\* A task sends a message that wants an acknowledgement, or gives up on one.
transmit(t) ==
    /\ alive(t) /\ table[t.sess].mode # "Group"
    /\ \E retrans \in BOOLEAN :
         table' = [table EXCEPT ![t.sess].exchanges[t.index].retrans = retrans]
    /\ UNCHANGED <<next_sess_unique_id, next_sess_id, fabVars, tasks, rx_for>>

WithHs(t, hs) == tasks' = (tasks \ {t}) \cup {[t EXCEPT !.hs = hs]}

\* ReservedSession::reserve, with which a handshake begins.
reserve(t) ==
    /\ alive(t) /\ table[t.sess].mode = "PlainText" /\ t.hs = None
    /\ \E r \in Rooms : add(r, [Plain(table[t.sess].peer) EXCEPT !.reserved = TRUE])
    /\ WithHs(t, [reserved |-> next_sess_unique_id, local_sess_id |-> 0, fab_idx |-> 0])
    /\ UNCHANGED <<next_sess_id, fabVars, rx_for>>

After(n) == (n % SESS_IDS) + 1

\* Sessions::get_next_sess_id: the next one that no session in the table has.
get_next_sess_id ==
    LET free == {n \in 1 .. SESS_IDS : \A id \in DOMAIN table : table[id].local_sess_id # n}
        distance(n) == (n - next_sess_id) % SESS_IDS
    IN  CHOOSE n \in free : \A m \in free : distance(n) <= distance(m)

\* Mutant: the id stays the next one until a session in the table has it.
take_sess_id_peeks(t, f) ==
    /\ alive(t) /\ t.hs # None /\ t.hs.local_sess_id = 0 /\ f \in fab_idxs \cup {0}
    /\ WithHs(t, [t.hs EXCEPT !.local_sess_id = get_next_sess_id, !.fab_idx = f])
    /\ UNCHANGED <<table, next_sess_unique_id, next_sess_id, fabVars, rx_for>>

\* An assumption: the 65535 session ids do not come round while a handshake lasts.
NotComeRound == \A u \in InFlight : u.hs.local_sess_id # get_next_sess_id

\* The handshake takes its session id; handle_casesigma1 finds the fabric as well.
take_sess_id(t, f) ==
    /\ alive(t) /\ t.hs # None /\ t.hs.local_sess_id = 0 /\ f \in fab_idxs \cup {0}
    /\ NotComeRound
    /\ WithHs(t, [t.hs EXCEPT !.local_sess_id = get_next_sess_id, !.fab_idx = f])
    /\ next_sess_id' = After(get_next_sess_id)
    /\ UNCHANGED <<table, next_sess_unique_id, fabVars, rx_for>>

\* Mutant: the fabric of Sigma1 is not looked up again.
complete_unchecked(t) ==
    /\ alive(t) /\ t.hs # None /\ t.hs.local_sess_id # 0
    /\ table' = [table EXCEPT ![t.hs.reserved] =
                   [@ EXCEPT !.mode = IF t.hs.fab_idx = 0 THEN "Pase" ELSE "Case",
                             !.fab_idx = t.hs.fab_idx, !.local_sess_id = t.hs.local_sess_id,
                             !.reserved = FALSE]]
    /\ WithHs(t, None)
    /\ UNCHANGED <<next_sess_unique_id, next_sess_id, fabVars, rx_for>>

\* handle_casesigma3, handle_pasepake3 and their initiators' last step:
\* ReservedSession::update_with_state, then complete.
complete(t) ==
    /\ alive(t) /\ t.hs # None /\ t.hs.local_sess_id # 0
    /\ t.hs.fab_idx \in fab_idxs \cup {0}
    /\ table' = [table EXCEPT ![t.hs.reserved] =
                   [@ EXCEPT !.mode = IF t.hs.fab_idx = 0 THEN "Pase" ELSE "Case",
                             !.fab_idx = t.hs.fab_idx, !.local_sess_id = t.hs.local_sess_id,
                             !.reserved = FALSE]]
    /\ WithHs(t, None)
    /\ UNCHANGED <<next_sess_unique_id, next_sess_id, fabVars, rx_for>>

\* Mutant: the exchange is not marked as dropped.
remove_exch_owned(tab, t, owes) ==
    IF tab[t.sess].exchanges[t.index].retrans \/ owes THEN tab
    ELSE [tab EXCEPT ![t.sess].exchanges[t.index] = None]

\* Session::remove_exch, which leaves an exchange that owes an acknowledgement or
\* waits for one to handle_dropped_exchange; and the end of a group session.
remove_exch(tab, t, owes) ==
    LET closed == [tab EXCEPT ![t.sess].exchanges[t.index] = None]
    IN  IF tab[t.sess].exchanges[t.index].retrans \/ owes
        THEN [tab EXCEPT ![t.sess].exchanges[t.index].state = "Dropped"]
        ELSE IF tab[t.sess].mode = "Group" /\ is_idle(closed[t.sess])
             THEN remove(tab, {t.sess}) ELSE closed

\* The task is done, fails, times out or is cancelled: ReservedSession::drop, then
\* Exchange::drop.  Nothing is owed for a group message.
drop(t) ==
    /\ LET rest == IF t.hs = None THEN table ELSE remove(table, {t.hs.reserved})
       IN  \E owes \in BOOLEAN :
             /\ alive(t) /\ table[t.sess].mode = "Group" => ~owes
             /\ table' = IF alive(t) THEN remove_exch(rest, t, owes) ELSE rest
    /\ tasks' = tasks \ {t}
    /\ UNCHANGED <<next_sess_unique_id, next_sess_id, fabVars, rx_for>>

-----------------------------------------------------------------------------
Expired(t, ids) == [id \in DOMAIN t |-> IF id \in ids THEN [t[id] EXCEPT !.expired = TRUE] ELSE t[id]]

\* The removal of sessions that spares the one with a command and marks it as expired.
RemoveExcept(gone, t) == Expired(remove(table, gone \ {t.sess}), gone \cap {t.sess})

\* A command may run on t.
OnCommand(t) == t.role = "Responder" /\ alive(t) /\ table[t.sess].mode \in {"Case", "Pase"}

\* AddNOC over PASE: Session::upgrade_fabric_idx.
upgrade_fabric_idx(t, f) ==
    /\ OnCommand(t) /\ table[t.sess].mode = "Pase" /\ table[t.sess].fab_idx = 0
    /\ f \notin fab_idxs /\ staged = 0
    /\ fab_idxs' = fab_idxs \cup {f} /\ staged' = f /\ rolled_back' = rolled_back \ {f}
    /\ table' = [table EXCEPT ![t.sess].fab_idx = f]
    /\ UNCHANGED <<next_sess_unique_id, next_sess_id, tasks, rx_for>>

\* handle_remove_fabric: Sessions::remove_for_fabric.
remove_fabric(t, f) ==
    /\ OnCommand(t) /\ f \in fab_idxs
    /\ fab_idxs' = fab_idxs \ {f}
    /\ table' = RemoveExcept({id \in DOMAIN table : table[id].fab_idx = f}, t)
    /\ UNCHANGED <<next_sess_unique_id, next_sess_id, staged, rolled_back, tasks, rx_for>>

PaseSessions == {id \in DOMAIN table : table[id].mode = "Pase"}

\* CommissioningComplete: the fabric stays, Sessions::remove_pase.
commissioning_complete(t) ==
    /\ OnCommand(t) /\ staged # 0 /\ table[t.sess].fab_idx = staged
    /\ staged' = 0
    /\ table' = RemoveExcept(PaseSessions, t)
    /\ UNCHANGED <<next_sess_unique_id, next_sess_id, fab_idxs, rolled_back, tasks, rx_for>>

\* FailSafe::expire takes the staged fabric back; Sessions::remove_pase leaves `left`.
\* It fails where RemoveFabric has been faster.
roll_back(left) ==
    /\ staged \in fab_idxs \cup {0}
    /\ table' = left
    /\ fab_idxs' = fab_idxs \ {staged} /\ staged' = 0
    /\ rolled_back' = rolled_back \cup ({staged} \ {0})
    /\ UNCHANGED <<next_sess_unique_id, next_sess_id, tasks, rx_for>>

\* By a command (ArmFailSafe(0), RevokeCommissioning).
expire_by_command(t) == OnCommand(t) /\ roll_back(RemoveExcept(PaseSessions, t))

\* By the timer.
check_failsafe_timeout == (PaseSessions # {} \/ staged # 0) /\ roll_back(remove(table, PaseSessions))

Transport ==
    \/ \E p \in Peers : receive_new_session(p) \/ (\E f \in FabricIdx : receive_group_message(p, f))
    \/ \E id \in DOMAIN table :
         \/ receive_new_exchange(id) \/ receive_close_session(id)
         \/ \E i \in 1 .. MAX_EXCHANGES :
              receive_on_exchange(id, i) \/ handle_dropped_exchange(id, i)
    \/ accept \/ accept_timeout \/ orphaned

Initiators == (\E id \in DOMAIN table : initiate_for_session(id)) \/ (\E p \in Peers : initiate_unsecured(p))

Owners ==
    \E t \in tasks :
        \/ transmit(t) \/ reserve(t) \/ complete(t) \/ drop(t)
        \/ commissioning_complete(t) \/ expire_by_command(t)
        \/ \E f \in FabricIdx \cup {0} : take_sess_id(t, f)
        \/ \E f \in FabricIdx : upgrade_fabric_idx(t, f) \/ remove_fabric(t, f)

SessionsNext == Transport \/ Initiators \/ Owners \/ check_failsafe_timeout

SessionsSpec == SessionsInit /\ [][SessionsNext]_sessionVars

-----------------------------------------------------------------------------
\* The table has its type and its size (Sessions::sessions).
SessionsTypeOK ==
    /\ \A id \in DOMAIN table : id < next_sess_unique_id /\ table[id] \in Session
    /\ Cardinality(DOMAIN table) <= MAX_SESSIONS
    /\ fab_idxs \cup rolled_back \subseteq FabricIdx /\ staged \in FabricIdx \cup {0}
    /\ next_sess_id \in 1 .. SESS_IDS /\ tasks \subseteq Task
    /\ rx_for \in Slot \cup {None}

\* A reservation is in the table for as long as its handshake lasts, whatever is
\* evicted, closed or removed meanwhile (ReservedSession::drop unwraps it), and for
\* no longer: nobody would ever remove it.
ReservationsAreHeld ==
    /\ \A id \in DOMAIN table : table[id].reserved <=> \E t \in InFlight : t.hs.reserved = id
    /\ \A t \in InFlight : t.hs.reserved \in DOMAIN table
    /\ \A t, u \in InFlight : t.hs.reserved = u.hs.reserved => t = u

\* An exchange of the table is owned exactly when one task has it: no slot is given
\* to a second exchange under the first one's task (ExchangeId::exch unwraps it), and
\* none stays taken after its task.
OwnedIffHeld ==
    /\ \A t \in tasks : alive(t) =>
         /\ table[t.sess].exchanges[t.index] # None
         /\ table[t.sess].exchanges[t.index].state = "Owned"
    /\ \A t, u \in tasks : t.sess = u.sess /\ t.index = u.index => t = u
    /\ \A id \in DOMAIN table : \A i \in 1 .. MAX_EXCHANGES :
         table[id].exchanges[i] # None /\ table[id].exchanges[i].state = "Owned"
           => \E t \in tasks : t.sess = id /\ t.index = i

\* No two unicast sessions answer to one session id, although the id is chosen at
\* the start of a handshake and enters the table at its end (get_next_sess_id).
LocalIdsDistinct ==
    \A i, j \in DOMAIN table :
        /\ table[i].mode \in {"Case", "Pase"} /\ table[j].mode \in {"Case", "Pase"}
        /\ table[i].local_sess_id = table[j].local_sess_id
        => i = j

\* A session that takes messages belongs to a fabric that is there: a handshake that
\* was under way when its fabric was removed does not end in a session of it
\* (handle_casesigma3, remove_for_fabric).  The fail-safe is another matter: it does
\* not remove the CASE sessions of the fabric that it rolls back.
SessionsOfFabrics ==
    \A id \in DOMAIN table :
        accepts_rx(id) => table[id].fab_idx \in fab_idxs \cup {0} \cup rolled_back

Stuck(id) ==
    \E i \in 1 .. MAX_EXCHANGES :
        /\ table[id].exchanges[i] # None
        /\ table[id].exchanges[i].state = "AcceptPending"
        /\ rx_for # [sess |-> id, index |-> i]

\* On a session that takes messages, an exchange that nobody has accepted yet has
\* its packet in the RX buffer, so that it will be accepted or dropped; without it
\* it would keep the session from eviction for ever (handle_orphaned_rx_packet).
PendingIsInBuffer == \A id \in DOMAIN table : ~table[id].expired => ~Stuck(id)

\* "the transport reclaims the slot via the usual LRU eviction path"
\* (Sessions::remove_pase, of the session that is marked as expired).
ExpiredIsReclaimed == \A id \in DOMAIN table : table[id].expired => ~Stuck(id)
=============================================================================
