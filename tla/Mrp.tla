-------------------------------- MODULE Mrp ---------------------------------
(***************************************************************************)
(* The Message Reliability Protocol: two nodes hold a conversation on one  *)
(* exchange of one session over a network that loses, duplicates, delays   *)
(* and reorders packets.  Message i of the conversation is said by A when  *)
(* i is odd and by B when it is even; each is a reliable message sent with *)
(* Exchange::send_with and taken with Exchange::recv.                      *)
(*                                                                         *)
(* Per node: the counters of its session (transport/session.rs), the       *)
(* exchange with its retransmission and acknowledgement entries            *)
(* (transport/mrp.rs), the one RX buffer (transport.rs) and the task that  *)
(* owns the exchange (transport/exchange.rs).  A packet, once sent, stays  *)
(* in the network and may arrive any number of times, or never.            *)
(***************************************************************************)
EXTENDS RxCtrState, FiniteSets, Sequences

CONSTANTS M,                      \* the number of messages of the conversation
          MRP_MAX_TRANSMISSIONS,
          LastCtr,                \* bounds the counters that a node uses
          Start,                  \* the first counter of a node's session
          None

Node == {"A", "B"}

ASSUME MrpAssumption ==
  /\ M \in Nat \ {0} /\ MRP_MAX_TRANSMISSIONS \in Nat
  /\ LastCtr \in Nat /\ LastCtr + 1 < HALF
  /\ Start \in [Node -> 0..LastCtr]

VARIABLES msg_ctr,      \* Session.msg_ctr
          rx_ctr,       \* Session.rx_ctr_state
          session,      \* whether the node still has the session
          exch,         \* the exchange [role, retrans, ack], or None
          rx,           \* the packet in the RX buffer, or None
          task,         \* where the owner of the exchange is: [at, i]
          net,          \* every packet ever sent
          gave_up,      \* ghost: the messages whose sender stopped retransmitting
          said, heard   \* ghost: the messages said so far; the ones taken, in order

nodeVars == <<msg_ctr, rx_ctr, session, exch, rx, task>>
vars == <<nodeVars, net, gave_up, said, heard>>

Peer(n) == CHOOSE m \in Node : m # n

Speaker(i) == IF i % 2 = 1 THEN "A" ELSE "B"

\* A standalone acknowledgement says nothing: it is message 0.
Packet == [to : Node, ctr : Ctr, says : 0..M, ack : Ctr \cup {None}]

is_standalone_ack(p) == p.says = 0

RetransEntry == [msg_ctr : Ctr, counter : 0..MRP_MAX_TRANSMISSIONS]

AckEntry == [msg_ctr : Ctr, acknowledged : BOOLEAN]

ExchangeState == [role    : {"AcceptPending", "Owned", "Dropped"},
                  retrans : RetransEntry \cup {None},
                  ack     : AckEntry \cup {None}]

ASSUME MrpNone == None \notin Packet \cup Ctr \cup RetransEntry \cup AckEntry \cup ExchangeState

NewExchange(role) == [role |-> role, retrans |-> None, ack |-> None]

Has(n, role) == exch[n] # None /\ exch[n].role = role

is_retrans_pending(e) == e.retrans # None

is_ack_pending(e) == e.ack # None /\ ~e.ack.acknowledged

Init ==
  /\ msg_ctr = [n \in Node |-> Start[n]]
  /\ rx_ctr = [n \in Node |-> new(0)]
  /\ session = [n \in Node |-> TRUE]
  /\ exch = [n \in Node |-> None]
  /\ rx = [n \in Node |-> None]
  /\ task = [n \in Node |-> [at |-> "idle", i |-> 0]]
  /\ net = {}
  /\ gave_up = {}
  /\ said = 0
  /\ heard = <<>>
-----------------------------------------------------------------------------
\* A bug: the retransmissions are not counted.
RetransPreSent_uncounted(e, ctr) ==
  LET acked == IF e.ack = None THEN None ELSE [e.ack EXCEPT !.acknowledged = TRUE]
  IN  [e EXCEPT !.ack = acked,
                !.retrans = IF @ = None THEN [msg_ctr |-> ctr, counter |-> 0] ELSE @]

\* ReliableMessage::pre_send for a reliable message: it carries the pending
\* acknowledgement, and starts, counts or abandons its retransmission.
RetransPreSent(e, ctr) ==
  LET acked == IF e.ack = None THEN None ELSE [e.ack EXCEPT !.acknowledged = TRUE]
  IN  IF e.retrans = None
        THEN [e EXCEPT !.ack = acked, !.retrans = [msg_ctr |-> ctr, counter |-> 0]]
      ELSE IF e.retrans.counter < MRP_MAX_TRANSMISSIONS
        THEN [e EXCEPT !.ack = acked, !.retrans.counter = @ + 1]
      ELSE [e EXCEPT !.ack = None, !.retrans = None]

AckOf(e) == IF e.ack = None THEN None ELSE e.ack.msg_ctr

\* A bug: any acknowledgement ends the retransmission.
AckMismatch_ignored(e, p) == FALSE

\* ReliableMessage::post_recv: an acknowledgement of something else than the
\* message in flight makes the packet a duplicate.
AckMismatch(e, p) == p.ack # None /\ e.retrans # None /\ e.retrans.msg_ctr # p.ack

\* A bug: only a standalone acknowledgement ends the retransmission.
PostReceived_standalone(e, p) ==
  LET done == p.ack # None /\ e.retrans # None /\ is_standalone_ack(p)
  IN  [e EXCEPT !.retrans = IF done THEN None ELSE @,
                !.ack = IF ~is_standalone_ack(p) THEN [msg_ctr |-> p.ctr, acknowledged |-> FALSE]
                        ELSE IF done THEN None ELSE @]

\* The rest of ReliableMessage::post_recv.
PostReceived(e, p) ==
  LET done == p.ack # None /\ e.retrans # None
  IN  [e EXCEPT !.retrans = IF done THEN None ELSE @,
                !.ack = IF ~is_standalone_ack(p) THEN [msg_ctr |-> p.ctr, acknowledged |-> FALSE]
                        ELSE IF done THEN None ELSE @]
-----------------------------------------------------------------------------
\* Exchange::initiate: A opens the exchange and turns to its first message.
initiate ==
  /\ task["A"].at = "idle" /\ session["A"]
  /\ exch' = [exch EXCEPT !["A"] = NewExchange("Owned")]
  /\ task' = [task EXCEPT !["A"] = [at |-> "send", i |-> 1]]
  /\ UNCHANGED <<msg_ctr, rx_ctr, session, rx, net, gave_up, said, heard>>

\* Sender::tx and TxMessage::complete: the first transmission of a message, or
\* a retransmission once the timer of wait_tx fired with the message unacknowledged.
transmit(n) ==
  LET e == exch[n]
      initial == task[n].at = "send"
      ctr == IF e.retrans = None THEN msg_ctr[n] ELSE e.retrans.msg_ctr
      after == RetransPreSent(e, ctr)
  IN  /\ session[n]
      /\ initial \/ (task[n].at = "sent" /\ is_retrans_pending(e))
      /\ net' = net \cup {[to |-> Peer(n), ctr |-> ctr, says |-> task[n].i, ack |-> AckOf(e)]}
      /\ msg_ctr' = IF e.retrans = None THEN [msg_ctr EXCEPT ![n] = @ + 1] ELSE msg_ctr
      /\ exch' = [exch EXCEPT ![n] = after]
      /\ task' = [task EXCEPT ![n].at = "sent"]
      /\ gave_up' = IF after.retrans = None THEN gave_up \cup {task[n].i} ELSE gave_up
      /\ said' = IF initial THEN task[n].i ELSE said
      /\ UNCHANGED <<rx_ctr, session, rx, heard>>

\* Sender::tx answers None: the message is not in flight any more.
tx_done(n) ==
  /\ session[n] /\ task[n].at = "sent" /\ ~is_retrans_pending(exch[n])
  /\ task' = [task EXCEPT ![n] = IF @.i = M THEN [@ EXCEPT !.at = "acknowledge"]
                                 ELSE [at |-> "recv", i |-> @.i + 1]]
  /\ UNCHANGED <<msg_ctr, rx_ctr, session, exch, rx, net, gave_up, said, heard>>

\* Exchange::recv takes the packet that waits in the RX buffer.
recv(n) ==
  /\ session[n] /\ task[n].at = "recv" /\ rx[n] # None /\ ~is_retrans_pending(exch[n])
  /\ rx' = [rx EXCEPT ![n] = None]
  /\ heard' = Append(heard, rx[n].says)
  /\ task' = [task EXCEPT ![n] = IF @.i = M THEN [@ EXCEPT !.at = "acknowledge"]
                                 ELSE [at |-> "send", i |-> @.i + 1]]
  /\ UNCHANGED <<msg_ctr, rx_ctr, session, exch, net, gave_up, said>>

\* Exchange::acknowledge, at the end of a conversation.
acknowledge(n) ==
  LET e == exch[n]
      ctr == IF e.retrans = None THEN msg_ctr[n] ELSE e.retrans.msg_ctr
  IN  /\ session[n] /\ task[n].at = "acknowledge"
      /\ task' = [task EXCEPT ![n].at = "done"]
      /\ IF is_ack_pending(e)
           THEN /\ net' = net \cup {[to |-> Peer(n), ctr |-> ctr, says |-> 0, ack |-> AckOf(e)]}
                /\ msg_ctr' = IF e.retrans = None THEN [msg_ctr EXCEPT ![n] = @ + 1] ELSE msg_ctr
                /\ exch' = [exch EXCEPT ![n].ack.acknowledged = TRUE]
           ELSE UNCHANGED <<net, msg_ctr, exch>>
      /\ UNCHANGED <<rx_ctr, session, rx, gave_up, said, heard>>

\* Exchange::drop, when the conversation is over, recv timed out or the task
\* that owned the exchange was cancelled; Session::remove_exch.
drop_exchange(n) ==
  /\ task[n].at \notin {"idle", "gone"}
  /\ task' = [task EXCEPT ![n].at = "gone"]
  /\ exch' = IF ~session[n] THEN exch
             ELSE [exch EXCEPT ![n] = IF is_retrans_pending(@) \/ is_ack_pending(@)
                                        THEN [@ EXCEPT !.role = "Dropped"] ELSE None]
  /\ UNCHANGED <<msg_ctr, rx_ctr, session, rx, net, gave_up, said, heard>>

\* A task blocked on a session that was removed fails.
session_removed(n) ==
  /\ ~session[n] /\ task[n].at \notin {"idle", "gone", "done"}
  /\ task' = [task EXCEPT ![n].at = "done"]
  /\ UNCHANGED <<msg_ctr, rx_ctr, session, exch, rx, net, gave_up, said, heard>>

\* Transport::accept_if: a responder takes the exchange and its first message.
accept(n) ==
  /\ session[n] /\ task[n].at = "idle" /\ rx[n] # None
  /\ Has(n, "AcceptPending")
  /\ exch' = [exch EXCEPT ![n].role = "Owned"]
  /\ task' = [task EXCEPT ![n] = [at |-> "recv", i |-> 1]]
  /\ UNCHANGED <<msg_ctr, rx_ctr, session, rx, net, gave_up, said, heard>>
-----------------------------------------------------------------------------
\* A bug: the standalone acknowledgement takes a counter without using it up.
ReAck_same_ctr(n, p) ==
  IF is_standalone_ack(p) THEN UNCHANGED <<net, msg_ctr>>
  ELSE /\ net' = net \cup {[to |-> Peer(n), ctr |-> msg_ctr[n], says |-> 0, ack |-> p.ctr]}
       /\ UNCHANGED msg_ctr

\* The standalone acknowledgement that answers a duplicate.
ReAck(n, p) ==
  IF is_standalone_ack(p) THEN UNCHANGED <<net, msg_ctr>>
  ELSE /\ net' = net \cup {[to |-> Peer(n), ctr |-> msg_ctr[n], says |-> 0, ack |-> p.ctr]}
       /\ msg_ctr' = [msg_ctr EXCEPT ![n] = @ + 1]

\* Transport::process_rx and handle_rx_packet: the packet p arrives at n, which
\* has room for it in its RX buffer.
Arrives(n, p) == p \in net /\ p.to = n /\ session[n] /\ rx[n] = None

\* Session::post_recv refuses the counter, or the acknowledgement is for
\* another message than the one in flight.
receive_duplicate(n, p) ==
  /\ Arrives(n, p)
  /\ \/ ~accepts(rx_ctr[n], p.ctr, TRUE)
     \/ exch[n] # None /\ AckMismatch(exch[n], p)
  /\ rx_ctr' = [rx_ctr EXCEPT ![n] = post_recv(@, p.ctr, TRUE)]
  /\ ReAck(n, p)
  /\ UNCHANGED <<session, exch, rx, task, gave_up, said, heard>>

\* The packet belongs to the exchange of the node.  A standalone
\* acknowledgement goes no further; another message waits in the RX buffer.
receive_on_exchange(n, p) ==
  /\ Arrives(n, p)
  /\ accepts(rx_ctr[n], p.ctr, TRUE) /\ exch[n] # None /\ ~AckMismatch(exch[n], p)
  /\ rx_ctr' = [rx_ctr EXCEPT ![n] = post_recv(@, p.ctr, TRUE)]
  /\ exch' = [exch EXCEPT ![n] = PostReceived(@, p)]
  /\ rx' = IF is_standalone_ack(p) THEN rx ELSE [rx EXCEPT ![n] = p]
  /\ UNCHANGED <<msg_ctr, session, task, net, gave_up, said, heard>>

\* A bug: the counter of a message that opens an exchange is not recorded.
receive_new_exchange_unrecorded(n, p) ==
  /\ Arrives(n, p)
  /\ accepts(rx_ctr[n], p.ctr, TRUE) /\ exch[n] = None
  /\ IF n = "B" /\ ~is_standalone_ack(p)
       THEN /\ exch' = [exch EXCEPT ![n] = PostReceived(NewExchange("AcceptPending"), p)]
            /\ rx' = [rx EXCEPT ![n] = p]
       ELSE UNCHANGED <<exch, rx>>
  /\ UNCHANGED <<rx_ctr, msg_ctr, session, task, net, gave_up, said, heard>>

\* The packet belongs to no exchange: a message of the initiator opens one.
receive_new_exchange(n, p) ==
  /\ Arrives(n, p)
  /\ accepts(rx_ctr[n], p.ctr, TRUE) /\ exch[n] = None
  /\ rx_ctr' = [rx_ctr EXCEPT ![n] = post_recv(@, p.ctr, TRUE)]
  /\ IF n = "B" /\ ~is_standalone_ack(p)
       THEN /\ exch' = [exch EXCEPT ![n] = PostReceived(NewExchange("AcceptPending"), p)]
            /\ rx' = [rx EXCEPT ![n] = p]
       ELSE UNCHANGED <<exch, rx>>
  /\ UNCHANGED <<msg_ctr, session, task, net, gave_up, said, heard>>

\* Transport::handle_accept_timeout_rx_packet: nobody took the exchange in time.
accept_timeout(n) ==
  /\ session[n] /\ rx[n] # None /\ Has(n, "AcceptPending")
  /\ exch' = [exch EXCEPT ![n].role = "Dropped"]
  /\ rx' = [rx EXCEPT ![n] = None]
  /\ UNCHANGED <<msg_ctr, rx_ctr, session, task, net, gave_up, said, heard>>

\* A bug: a packet whose exchange is already closed is left in the buffer.
orphaned_on_drop_only(n) ==
  /\ rx[n] # None
  /\ ~session[n] \/ Has(n, "Dropped")
  /\ rx' = [rx EXCEPT ![n] = None]
  /\ UNCHANGED <<msg_ctr, rx_ctr, session, exch, task, net, gave_up, said, heard>>

\* Transport::handle_orphaned_rx_packet: nobody is left to take the packet.
orphaned(n) ==
  /\ rx[n] # None
  /\ ~session[n] \/ exch[n] = None \/ Has(n, "Dropped")
  /\ rx' = [rx EXCEPT ![n] = None]
  /\ UNCHANGED <<msg_ctr, rx_ctr, session, exch, task, net, gave_up, said, heard>>

\* Transport::handle_dropped_exchange: an exchange dropped with a message in
\* flight takes the session with it; another is acknowledged and closed.
handle_dropped_exchange(n) ==
  /\ session[n] /\ Has(n, "Dropped")
  /\ exch' = [exch EXCEPT ![n] = None]
  /\ session' = [session EXCEPT ![n] = ~is_retrans_pending(exch[n])]
  /\ IF ~is_retrans_pending(exch[n]) /\ is_ack_pending(exch[n])
       THEN /\ net' = net \cup {[to |-> Peer(n), ctr |-> msg_ctr[n], says |-> 0,
                                 ack |-> AckOf(exch[n])]}
            /\ msg_ctr' = [msg_ctr EXCEPT ![n] = @ + 1]
       ELSE UNCHANGED <<net, msg_ctr>>
  /\ UNCHANGED <<rx_ctr, rx, task, gave_up, said, heard>>

\* Sessions::remove, for a reason that is not part of the conversation: the peer
\* closes the session, its fabric is removed, another exchange of it is dropped with
\* a message in flight.
remove(n) ==
  /\ session[n]
  /\ session' = [session EXCEPT ![n] = FALSE]
  /\ exch' = [exch EXCEPT ![n] = None]
  /\ UNCHANGED <<msg_ctr, rx_ctr, rx, task, net, gave_up, said, heard>>

Owner(n) ==
  transmit(n) \/ tx_done(n) \/ recv(n) \/ acknowledge(n) \/ session_removed(n) \/ accept(n)

Receive(n) ==
  \E p \in net : \/ receive_duplicate(n, p)
                 \/ receive_on_exchange(n, p)
                 \/ receive_new_exchange(n, p)

Housekeeping(n) == accept_timeout(n) \/ orphaned(n) \/ handle_dropped_exchange(n)

Bounded == \A n \in Node : msg_ctr'[n] <= LastCtr + 1

Next ==
  /\ \/ initiate
     \/ \E n \in Node : Owner(n) \/ drop_exchange(n) \/ Receive(n) \/ Housekeeping(n) \/ remove(n)
  /\ Bounded

Spec == Init /\ [][Next]_vars
-----------------------------------------------------------------------------
\* The sender of message i has gone on to something else.
Concluded(n, i) ==
  \/ task[n].at \in {"recv", "send", "sent", "acknowledge"} /\ task[n].i > i
  \/ task[n].at = "acknowledge" /\ task[n].i = i

\* The node m took message i, is about to, or has left the exchange.
Settled(m, i) ==
  \/ i <= Len(heard)
  \/ rx[m] # None /\ rx[m].says = i
  \/ task[m].at = "gone" \/ ~session[m] \/ exch[m] = None \/ Has(m, "Dropped")

\* The peer's window takes message i for received although it may never have been:
\* a later message came first, and the window moved over it (RxCtrState::post_recv
\* marks all of the window at a jump), or it has the counter 0, at which every window
\* starts.
Overtaken(i) ==
  \E p \in net : /\ p.says = i /\ ~accepts(rx_ctr[p.to], p.ctr, TRUE)
                 /\ p.ctr = 0 \/ p.ctr < rx_ctr[p.to].max_ctr

\* Whoever has gone on after sending a message was heard, or stopped
\* retransmitting, or talks to a node that left the exchange: Sender::tx ends
\* for no other reason, unless the message was overtaken.
DoneMeansDelivered ==
  \A i \in 1..M : Concluded(Speaker(i), i) =>
    Settled(Peer(Speaker(i)), i) \/ i \in gave_up \/ Overtaken(i)

\* A counter stands for one message of a node: a retransmission repeats its
\* message, and nothing else is ever sent under the same counter
\* (Session::pre_send).
CounterIsOneMessage ==
  \A p, q \in net : p.to = q.to /\ p.ctr = q.ctr => p.says = q.says

\* The RX buffer never holds a message for a task that still waits for an
\* acknowledgement: with the one buffer of the transport taken, that
\* acknowledgement could not arrive.
BufferNeverBlocksAck ==
  \A n \in Node : rx[n] # None /\ exch[n] # None => ~is_retrans_pending(exch[n])

Abstract == INSTANCE Dialogue WITH heard <- IF heard = <<>> THEN 0 ELSE heard[Len(heard)]

\* The tasks on both ends of an exchange see a dialogue: each message heard at
\* most once and in turn, each said only after the one before it was heard, whatever
\* the network repeats, loses or reorders (Exchange::recv, Exchange::send_with).
ImplementsDialogue == Abstract!Spec
=============================================================================
