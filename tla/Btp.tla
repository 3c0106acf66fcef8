---------------------------------- MODULE Btp ---------------------------------
(***************************************************************************)
(* A BTP connection: Matter messages cut into segments under a window in   *)
(* each direction (rs-matter/src/transport/network/btp.rs and              *)
(* btp/session.rs).                                                        *)
(*                                                                         *)
(* The node is the peripheral.  Its peer, the central, opens the           *)
(* connection and from then on segments, acknowledges and reassembles as   *)
(* the node does; both run the operators below.  GATT is reliable and      *)
(* keeps the order.  A message is a number, and its bytes are counted.     *)
(***************************************************************************)
EXTENDS Integers, Sequences, Functions

CONSTANTS MAX_RX_PACKET_SIZE,  \* 1583 in the code
          SEQ_NUMS,            \* 256: sequence numbers are bytes
          MIN_MTU, MAX_MTU, GATT_HEADER_SIZE,
          relaxed_mtu_nego,
          Requests,   \* handshake requests: what GATT says, and what is asked for
          Lengths     \* lengths of the messages that are sent

VARIABLES window_size,        \* negotiated, at each end; 0 before
          mtu,
          handshake_pending,  \* the node owes the handshake response
          send_window,        \* level, last_sent_seq_num
          recv_window,        \* level, ack_level, ack_seq, rem_msg_len, buf_messages_ct
          buf,                \* the messages in the ring buffer of each end
          outgoing_sdu,       \* the message being sent at each end
          gatt,               \* the segments on their way to each end
          handed, fetched,    \* how many messages each application has sent and got
          panicked            \* the assertion of process_outgoing failed

windowVars == <<window_size, mtu, handshake_pending, send_window, recv_window>>
btpVars == <<windowVars, buf, outgoing_sdu, gatt, handed, fetched, panicked>>

Node == "node"
Central == "central"
Ends == {Node, Central}
Other(e) == IF e = Node THEN Central ELSE Node

NoAck == -1
NoSdu == [id |-> 0, len |-> 0, offset |-> 0]
MAX_MESSAGE_SIZE == 2 * MAX_RX_PACKET_SIZE

\* SendWindow::new, RecvWindow::new and OutgoingSdu::new, at both ends.
Zero == [e \in Ends |-> 0]
Nothing == [e \in Ends |-> <<>>]
NewSend == [e \in Ends |-> [level |-> 0, last_sent_seq_num |-> SEQ_NUMS - 1]]
NewRecv == [e \in Ends |-> [level |-> 0, ack_level |-> 0, ack_seq |-> SEQ_NUMS - 1,
                            rem_msg_len |-> 0, buf_messages_ct |-> 0]]

BtpInit ==
    /\ window_size = Zero /\ mtu = 0 /\ handshake_pending = FALSE
    /\ send_window = NewSend /\ recv_window = NewRecv
    /\ buf = Nothing /\ gatt = Nothing
    /\ outgoing_sdu = [e \in Ends |-> NoSdu]
    /\ handed = Zero /\ fetched = Zero
    /\ panicked = FALSE

\* Mutant: the ring buffer is not cleared.
reset_keeps_buffer ==
    /\ window_size' = Zero /\ mtu' = 0 /\ handshake_pending' = FALSE
    /\ send_window' = NewSend /\ recv_window' = NewRecv
    /\ gatt' = Nothing
    /\ outgoing_sdu' = [e \in Ends |-> NoSdu]
    /\ handed' = Zero /\ fetched' = Zero
    /\ panicked' = FALSE
    /\ UNCHANGED buf

\* Btp::reset, at both ends.
reset ==
    /\ window_size' = Zero /\ mtu' = 0 /\ handshake_pending' = FALSE
    /\ send_window' = NewSend /\ recv_window' = NewRecv
    /\ buf' = Nothing /\ gatt' = Nothing
    /\ outgoing_sdu' = [e \in Ends |-> NoSdu]
    /\ handed' = Zero /\ fetched' = Zero
    /\ panicked' = FALSE

-------------------------------------------------------------------------------
\* The handshake.
Min2(a, b) == IF a < b THEN a ELSE b

\* Session::process_rx_handshake_req; a gatt_mtu of 0 is an unknown one.
selected_mtu(r) ==
    IF r.gatt_mtu = r.mtu THEN Min2(r.mtu, MAX_MTU)
    ELSE IF relaxed_mtu_nego
    THEN Min2(Min2(r.mtu, IF r.gatt_mtu = 0 THEN MIN_MTU ELSE r.gatt_mtu), MAX_MTU)
    ELSE MIN_MTU

initial_window_size(m) == Min2((MAX_MESSAGE_SIZE \div m) \div 2, 255)

negotiated_mtu(r) == selected_mtu(r) - GATT_HEADER_SIZE
negotiated_window(r) == Min2(r.window_size, initial_window_size(negotiated_mtu(r)))

\* A window is at least one segment, which the code leaves to the central, and fits
\* in the sequence numbers, as a byte does.
ASSUME BtpAssumption ==
    /\ SEQ_NUMS \in Nat \ {0, 1}
    /\ Lengths \subseteq Nat
    /\ \A r \in Requests : /\ negotiated_mtu(r) \in Nat
                           /\ negotiated_window(r) \in 1 .. SEQ_NUMS - 1

\* The central asks once in a connection; the code does not insist on it.
process_rx_handshake_req(r) ==
    LET m == negotiated_mtu(r)
        w == negotiated_window(r)
    IN  /\ ~panicked /\ window_size[Node] = 0
        /\ mtu' = m
        /\ window_size' = [window_size EXCEPT ![Node] = w]
        /\ handshake_pending' = TRUE
        /\ send_window' = [send_window EXCEPT ![Node].level = w]
        /\ recv_window' = [recv_window EXCEPT ![Node].level = w]
        /\ UNCHANGED <<buf, outgoing_sdu, gatt, handed, fetched, panicked>>

\* SendWindow::post_send
Sent(w) == [level |-> w.level - 1, last_sent_seq_num |-> (w.last_sent_seq_num + 1) % SEQ_NUMS]

prep_tx_handshake_resp ==
    /\ ~panicked /\ handshake_pending
    /\ handshake_pending' = FALSE
    /\ send_window' = [send_window EXCEPT ![Node] = Sent(@)]
    /\ gatt' = [gatt EXCEPT ![Central] = Append(@, [handshake |-> TRUE])]
    /\ UNCHANGED <<window_size, mtu, recv_window, buf, outgoing_sdu, handed, fetched, panicked>>

\* The central takes the response as segment 0 of the node.
handshake_resp_arrives ==
    /\ gatt[Central] # <<>> /\ Head(gatt[Central]).handshake
    /\ window_size' = [window_size EXCEPT ![Central] = window_size[Node]]
    /\ send_window' = [send_window EXCEPT ![Central].level = window_size[Node]]
    /\ recv_window' = [recv_window EXCEPT ![Central] =
                         [@ EXCEPT !.level = window_size[Node] - 1, !.ack_level = 1, !.ack_seq = 0]]
    /\ gatt' = [gatt EXCEPT ![Central] = Tail(@)]
    /\ UNCHANGED <<mtu, handshake_pending, buf, outgoing_sdu, handed, fetched, panicked>>

-------------------------------------------------------------------------------
\* Mutant: a message in the buffer does not hold acknowledgements back.
pending_ack_at_once(e) ==
    IF recv_window[e].ack_level > 0 THEN recv_window[e].ack_seq ELSE NoAck

\* RecvWindow::pending_ack: none while a complete message is in the buffer.
pending_ack(e) ==
    IF recv_window[e].ack_level > 0 /\ recv_window[e].buf_messages_ct = 0
    THEN recv_window[e].ack_seq ELSE NoAck

\* Mutant: the last place in the window is the only one that is guarded.
is_full_at_one(e) == send_window[e].level = 1 /\ recv_window[e].ack_level = 0

\* SendWindow::is_full
is_full(e) ==
    \/ send_window[e].level = 0
    \/ send_window[e].level = 1 /\ recv_window[e].ack_level = 0

\* Session::is_ack_due; the timer runs from the last segment received.
is_ack_due(e, elapsed) ==
    /\ pending_ack(e) # NoAck
    /\ recv_window[e].level <= 1 \/ elapsed

\* BTP_ACK_TIMEOUT_SECS is longer than GATT takes to deliver what was sent.
Quiet == \A e \in Ends : gatt[e] = <<>>

\* Mutant: the window opens although nothing was acknowledged.
Acked_always(e) ==
    [recv_window[e] EXCEPT !.level = @ + recv_window[e].ack_level, !.ack_level = 0]

\* RecvWindow::post_send
Acked(e) ==
    IF pending_ack(e) = NoAck THEN recv_window[e]
    ELSE [recv_window[e] EXCEPT !.level = @ + recv_window[e].ack_level, !.ack_level = 0]

\* BtpHdr::len: the flags and the sequence number, an acknowledgement and a
\* message length if there are any.
hdr_len(e, begins) ==
    2 + (IF pending_ack(e) = NoAck THEN 0 ELSE 1) + (IF begins THEN 2 ELSE 0)

\* Session::prep_tx_data of the next bytes of a message, or of none.
Segment(e, sdu) ==
    LET begins == sdu.id # 0 /\ sdu.offset = 0
        chunk == Min2(sdu.len - sdu.offset, mtu - hdr_len(e, begins))
    IN  [handshake |-> FALSE,
         seq |-> (send_window[e].last_sent_seq_num + 1) % SEQ_NUMS,
         ack |-> pending_ack(e),
         begins |-> begins, msg_len |-> sdu.len, id |-> sdu.id, len |-> chunk,
         final |-> sdu.id # 0 /\ chunk = sdu.len - sdu.offset]

prep_tx_data(e, sdu) ==
    /\ ~is_full(e)
    /\ gatt' = [gatt EXCEPT ![Other(e)] = Append(@, Segment(e, sdu))]
    /\ send_window' = [send_window EXCEPT ![e] = Sent(@)]
    /\ recv_window' = [recv_window EXCEPT ![e] = Acked(e)]
    /\ UNCHANGED <<window_size, mtu, handshake_pending, buf, handed, fetched, panicked>>

\* BtpInner::process_outgoing, after the handshake: the next segment of the
\* message, or else an acknowledgement that is due.
Sends(e) == outgoing_sdu[e].id # 0 /\ ~is_full(e)

process_outgoing_data(e) ==
    /\ ~panicked /\ window_size[e] # 0 /\ ~(e = Node /\ handshake_pending)
    /\ Sends(e)
    /\ prep_tx_data(e, outgoing_sdu[e])
    /\ LET offset == outgoing_sdu[e].offset + Segment(e, outgoing_sdu[e]).len
       IN  outgoing_sdu' = [outgoing_sdu EXCEPT ![e] =
                              IF offset = @.len THEN NoSdu ELSE [@ EXCEPT !.offset = offset]]

process_outgoing_ack(e, elapsed) ==
    /\ ~panicked /\ window_size[e] # 0 /\ ~(e = Node /\ handshake_pending)
    /\ elapsed => Quiet
    /\ ~Sends(e) /\ is_ack_due(e, elapsed)
    /\ \/ prep_tx_data(e, NoSdu) /\ UNCHANGED outgoing_sdu
       \/ /\ is_full(e) /\ e = Node  \* assert!(len > 0)
          /\ panicked' = TRUE
          /\ UNCHANGED <<windowVars, buf, outgoing_sdu, gatt, handed, fetched>>

-------------------------------------------------------------------------------
\* RingBuf::free; a message takes two bytes more than it has.
free(e) == MAX_MESSAGE_SIZE - FoldFunction(LAMBDA m, used : used + 2 + m.got, 0, buf[e])

\* RecvWindow::check_data_integrity and the checks of accept_incoming.
IsData(seg) == seg.id # 0
SeqFollows(e, seg) == seg.seq = (recv_window[e].ack_seq + 1) % SEQ_NUMS
FillsMtu(seg) ==
    seg.len + 2 + (IF seg.ack = NoAck THEN 0 ELSE 1) + (IF seg.begins THEN 2 ELSE 0) = mtu
OneMustBeFinal(seg) == seg.begins /\ seg.msg_len <= mtu => seg.final
Remaining(e, seg) == (IF seg.begins THEN seg.msg_len ELSE recv_window[e].rem_msg_len) - seg.len
HasRoom(e, seg) == IsData(seg) => free(e) >= seg.len + (IF seg.begins THEN 2 ELSE 0)

accepts_incoming(e, seg) ==
    /\ IsData(seg) => /\ seg.final \/ FillsMtu(seg)
                      /\ OneMustBeFinal(seg)
                      /\ Remaining(e, seg) >= 0 /\ (seg.final => Remaining(e, seg) = 0)
    /\ SeqFollows(e, seg)
    /\ HasRoom(e, seg)

\* The ring buffer with the bytes of a segment; a message that got the bytes of
\* another one loses its number.
Pushed(b, seg) ==
    IF ~IsData(seg) THEN b
    ELSE IF seg.begins THEN Append(b, [id |-> seg.id, len |-> seg.msg_len, got |-> seg.len])
    ELSE [b EXCEPT ![Len(b)] = [id |-> IF @.id = seg.id THEN @.id ELSE 0,
                                len |-> @.len, got |-> @.got + seg.len]]

\* SendWindow::accept_incoming
Acknowledged(e, w, ack) ==
    IF ack = NoAck THEN w
    ELSE [w EXCEPT !.level = window_size[e] - ((w.last_sent_seq_num - ack) % SEQ_NUMS)]

\* Session::process_rx_data
process_incoming(e) ==
    /\ ~panicked /\ gatt[e] # <<>> /\ ~Head(gatt[e]).handshake
    /\ LET seg == Head(gatt[e])
       IN  /\ accepts_incoming(e, seg)
           /\ recv_window' = [recv_window EXCEPT ![e] =
                [level |-> @.level - 1, ack_level |-> @.ack_level + 1, ack_seq |-> seg.seq,
                 rem_msg_len |-> IF IsData(seg) THEN Remaining(e, seg) ELSE @.rem_msg_len,
                 buf_messages_ct |-> @.buf_messages_ct + (IF seg.final THEN 1 ELSE 0)]]
           /\ send_window' = [send_window EXCEPT ![e] = Acknowledged(e, @, seg.ack)]
           /\ buf' = [buf EXCEPT ![e] = Pushed(@, seg)]
    /\ gatt' = [gatt EXCEPT ![e] = Tail(@)]
    /\ UNCHANGED <<window_size, mtu, handshake_pending, outgoing_sdu, handed, fetched, panicked>>

\* BtpInner::send and BtpInner::recv, for the transport above.
send(e, len) ==
    /\ ~panicked /\ outgoing_sdu[e] = NoSdu /\ window_size[e] # 0
    /\ outgoing_sdu' = [outgoing_sdu EXCEPT ![e] = [id |-> handed[e] + 1, len |-> len, offset |-> 0]]
    /\ handed' = [handed EXCEPT ![e] = @ + 1]
    /\ UNCHANGED <<windowVars, buf, gatt, fetched, panicked>>

recv(e) ==
    /\ ~panicked /\ recv_window[e].buf_messages_ct > 0
    /\ buf' = [buf EXCEPT ![e] = Tail(@)]
    /\ recv_window' = [recv_window EXCEPT ![e].buf_messages_ct = @ - 1]
    /\ fetched' = [fetched EXCEPT ![e] = @ + 1]
    /\ UNCHANGED <<window_size, mtu, handshake_pending, send_window, outgoing_sdu, gatt, handed, panicked>>

-------------------------------------------------------------------------------
\* The connection ends: the peer leaves, a segment is refused, the node was
\* restarted, or what it sent was not acknowledged for too long
\* (Session::is_timed_out).  The next one begins with Btp::reset.
refused(e) ==
    /\ gatt[e] # <<>> /\ ~Head(gatt[e]).handshake
    /\ ~accepts_incoming(e, Head(gatt[e]))

is_timed_out(e) == Quiet /\ window_size[e] # 0 /\ send_window[e].level < window_size[e]

disconnect == window_size[Node] # 0 /\ reset

wait_complete == (panicked \/ \E e \in Ends : refused(e) \/ is_timed_out(e)) /\ reset

BtpStep(e) ==
    \/ process_outgoing_data(e)
    \/ \E elapsed \in BOOLEAN : process_outgoing_ack(e, elapsed)
    \/ process_incoming(e)
    \/ recv(e)

Handshake ==
    \/ \E r \in Requests : process_rx_handshake_req(r)
    \/ prep_tx_handshake_resp
    \/ handshake_resp_arrives

BtpNext ==
    \/ Handshake
    \/ \E e \in Ends : BtpStep(e) \/ \E len \in Lengths : send(e, len)
    \/ disconnect
    \/ wait_complete

BtpSpec == BtpInit /\ [][BtpNext]_btpVars
-------------------------------------------------------------------------------
\* The windows, buffers and counters have their types: no level of a window
\* passes zero or the size of the window (u8 arithmetic of SendWindow and
\* RecvWindow).
BtpTypeOK ==
    /\ \A e \in Ends :
          /\ send_window[e].level \in 0 .. window_size[e]
          /\ send_window[e].last_sent_seq_num \in 0 .. SEQ_NUMS - 1
          /\ recv_window[e].level \in 0 .. window_size[e]
          /\ recv_window[e].ack_level \in 0 .. window_size[e]
          /\ recv_window[e].rem_msg_len \in 0 .. MAX_RX_PACKET_SIZE
          /\ outgoing_sdu[e].offset \in 0 .. outgoing_sdu[e].len
    /\ panicked \in BOOLEAN

AckInFlight(e) == \E i \in DOMAIN gatt[e] : ~gatt[e][i].handshake /\ gatt[e][i].ack # NoAck

\* What an end may still send, what is on its way and what the other end has
\* not acknowledged never exceed the window, and make it up exactly unless an
\* acknowledgement is on its way: nothing is acknowledged twice or lost from
\* the window, through wrapped sequence numbers and the handshake response
\* (SendWindow::accept_incoming, RecvWindow::post_send).
WindowsAgree ==
    \A e \in Ends : window_size[e] # 0 /\ window_size[Other(e)] # 0 =>
        LET used == Len(gatt[Other(e)]) + recv_window[Other(e)].ack_level
        IN  /\ recv_window[e].level + recv_window[e].ack_level = window_size[e]
            /\ send_window[e].level + used <= window_size[e]
            /\ ~AckInFlight(e) => send_window[e].level + used = window_size[e]

\* The complete messages in the ring buffer are the next ones the other
\* application sent, whole and in order (RecvWindow::fetch_message).
MessagesAreWhole ==
    \A e \in Ends : \A i \in 1 .. recv_window[e].buf_messages_ct :
        /\ i <= Len(buf[e]) /\ buf[e][i].got = buf[e][i].len
        /\ buf[e][i].id = fetched[e] + i

\* A ring buffer of two messages always has room for the next segment, because
\* nothing is acknowledged while a complete message is in it
\* (RecvWindow::pending_ack, Session::initial_window_size).
BufferSuffices ==
    \A e \in Ends : gatt[e] # <<>> /\ ~Head(gatt[e]).handshake => HasRoom(e, Head(gatt[e]))

\* An acknowledgement that is due can be sent: the assertion of
\* BtpInner::process_outgoing never fails.
DueAckIsSent == ~panicked
===============================================================================
