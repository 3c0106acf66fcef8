------------------------------ MODULE BtpProofs -----------------------------
(***************************************************************************)
(* Theorems about a BTP connection, for every number of sequence numbers,  *)
(* every window and MTU the handshake agrees on, and every length of a     *)
(* message: the windows of the two ends agree, and no level leaves its     *)
(* window.                                                                 *)
(*                                                                         *)
(* A connection is Closed, Opening or Open.  While it is open each         *)
(* direction is a Link: the segments on their way are numbered without a   *)
(* gap (Channel), and the acknowledgements on their way back are a ledger  *)
(* of what is outstanding (Ledger).  WindowsAgree alone is not inductive:  *)
(* what an acknowledgement leaves of the difference between two windows    *)
(* depends on what every acknowledgement behind it says.                   *)
(***************************************************************************)
EXTENDS Btp, TLAPS

\* The sequence numbers.
Seq_nums == 0 .. SEQ_NUMS - 1

\* What travels: the handshake response, and segments.
Seg == [handshake : {TRUE}]
       \cup [handshake : {FALSE}, seq : Seq_nums, ack : {NoAck} \cup Seq_nums,
             begins : BOOLEAN, msg_len : Nat, id : Nat, len : Int, final : BOOLEAN]

\* SendWindow and RecvWindow, with levels that nothing bounds yet.
SendWindow == [level : Int, last_sent_seq_num : Seq_nums]
RecvWindow == [level : Int, ack_level : Int, ack_seq : Seq_nums, rem_msg_len : Int,
               buf_messages_ct : Int]

\* The types of the connection's variables.
BtpTypes ==
    /\ window_size \in [Ends -> Seq_nums] /\ mtu \in Nat /\ handshake_pending \in BOOLEAN
    /\ send_window \in [Ends -> SendWindow] /\ recv_window \in [Ends -> RecvWindow]
    /\ gatt \in [Ends -> Seq(Seg)]
    /\ outgoing_sdu \in [Ends -> [id : Nat, len : Nat, offset : Int]]
    /\ handed \in [Ends -> Nat]

\* How far the last segment sent is past the one that is acknowledged.
Distance(last, ack) == (last - ack) % SEQ_NUMS

\* The segments q on their way are numbered up to the last one sent, from the one
\* after the last received.
Channel(q, last, received_seq) ==
    /\ last = (received_seq + Len(q)) % SEQ_NUMS
    /\ \A i \in 1 .. Len(q) : ~q[i].handshake /\ q[i].seq = (received_seq + i) % SEQ_NUMS

\* Where acknowledgements are in the segments a.
Acks(a) == {i \in 1 .. Len(a) : ~a[i].handshake /\ a[i].ack # NoAck}

\* The sender's level against what is outstanding, as the acknowledgements a that are
\* on their way to it will tell: each tells more than the one before, and the last
\* one the truth.
Ledger(a, last, level, out, w) ==
    /\ level \in Nat /\ out \in Nat /\ level + out <= w
    /\ \A i \in Acks(a) : /\ out <= Distance(last, a[i].ack)
                          /\ Distance(last, a[i].ack) + level <= w
    /\ \A i, j \in Acks(a) : i < j => Distance(last, a[j].ack) <= Distance(last, a[i].ack)
    /\ \A i \in Acks(a) : (\A j \in Acks(a) : j <= i) => Distance(last, a[i].ack) = out
    /\ Acks(a) = {} => level + out = w

\* What an end sent that the other end has not acknowledged.
Outstanding(e) == Len(gatt[Other(e)]) + recv_window[Other(e)].ack_level

\* The link from an end to the other one.
Link(e) ==
    /\ recv_window[e].level \in Nat /\ recv_window[e].ack_level \in Nat
    /\ recv_window[e].level + recv_window[e].ack_level = window_size[e]
    /\ Channel(gatt[Other(e)], send_window[e].last_sent_seq_num, recv_window[Other(e)].ack_seq)
    /\ Ledger(gatt[e], send_window[e].last_sent_seq_num, send_window[e].level,
              Outstanding(e), window_size[e])

\* Before the central has asked.
Closed ==
    /\ window_size = Zero /\ handshake_pending = FALSE
    /\ send_window = NewSend /\ recv_window = NewRecv /\ gatt = Nothing

\* The central has asked and has no answer yet; the node may already send.
Opening ==
    /\ window_size[Node] # 0 /\ window_size[Central] = 0
    /\ gatt[Node] = <<>>
    /\ send_window[Central] = NewSend[Central] /\ recv_window[Central] = NewRecv[Central]
    /\ recv_window[Node].level = window_size[Node] /\ recv_window[Node].ack_level = 0
    /\ recv_window[Node].ack_seq = SEQ_NUMS - 1
    /\ send_window[Node].level \in Nat
    /\ send_window[Node].level + Len(gatt[Central]) = window_size[Node]
    /\ IF handshake_pending
       THEN gatt[Central] = <<>> /\ send_window[Node].last_sent_seq_num = SEQ_NUMS - 1
       ELSE /\ gatt[Central] # <<>> /\ gatt[Central][1].handshake
            /\ send_window[Node].last_sent_seq_num = Len(gatt[Central]) - 1
            /\ \A i \in 2 .. Len(gatt[Central]) :
                 /\ ~gatt[Central][i].handshake
                 /\ gatt[Central][i].seq = i - 1 /\ gatt[Central][i].ack = NoAck

\* Both ends know the window.
Open ==
    /\ window_size[Node] # 0 /\ window_size[Central] = window_size[Node]
    /\ ~handshake_pending
    /\ \A e \in Ends : Link(e)

\* The inductive invariant.
BtpInv == BtpTypes /\ (Closed \/ Opening \/ Open)

-----------------------------------------------------------------------------
\* The segments on their way, with one more at the end.
LEMMA AppendIs ==
    ASSUME NEW S, NEW q \in Seq(S), NEW x \in S
    PROVE  /\ Append(q, x) \in Seq(S) /\ Append(q, x) # <<>>
           /\ Len(q) \in Nat /\ Len(Append(q, x)) = Len(q) + 1
           /\ \A i \in 1 .. Len(q) : Append(q, x)[i] = q[i]
           /\ Append(q, x)[Len(q) + 1] = x
  OBVIOUS

\* The segments on their way, without the first.
LEMMA TailIs ==
    ASSUME NEW S, NEW q \in Seq(S), q # <<>>
    PROVE  /\ Head(q) = q[1] /\ Head(q) \in S /\ Tail(q) \in Seq(S)
           /\ Len(q) \in Nat \ {0} /\ Len(Tail(q)) = Len(q) - 1
           /\ \A i \in 1 .. Len(q) - 1 : Tail(q)[i] = q[i + 1]
  <1>1. Len(q) \in Nat \ {0} /\ Head(q) = q[1] /\ Head(q) \in S
    OBVIOUS
  <1>2. Tail(q) \in Seq(S) /\ Len(Tail(q)) = Len(q) - 1
    OBVIOUS
  <1>3. \A i \in 1 .. Len(q) - 1 : Tail(q)[i] = q[i + 1]
    OBVIOUS
  <1> QED
    BY <1>1, <1>2, <1>3

\* No segment is on its way.
LEMMA EmptyIs ==
    ASSUME NEW S
    PROVE  <<>> \in Seq(S) /\ Len(<<>>) = 0 /\ \A q \in Seq(S) : Len(q) = 0 <=> q = <<>>
  OBVIOUS

\* Sequence numbers are bytes: one more than the last comes round to 0.
LEMMA Successor ==
    ASSUME NEW x \in Seq_nums
    PROVE  /\ (x + 1) % SEQ_NUMS = IF x = SEQ_NUMS - 1 THEN 0 ELSE x + 1
           /\ (x + 1) % SEQ_NUMS \in Seq_nums
  BY BtpAssumption DEF Seq_nums

\* The difference of two sequence numbers, taken as bytes.
LEMMA DistanceIs ==
    ASSUME NEW x \in Seq_nums, NEW y \in Seq_nums
    PROVE  /\ Distance(x, y) = IF x >= y THEN x - y ELSE x - y + SEQ_NUMS
           /\ Distance(x, y) \in Seq_nums
  BY BtpAssumption DEF Seq_nums, Distance

\* The sequence number n after another.
LEMMA PlusIs ==
    ASSUME NEW x \in Seq_nums, NEW n \in Seq_nums
    PROVE  /\ (x + n) % SEQ_NUMS = IF x + n < SEQ_NUMS THEN x + n ELSE x + n - SEQ_NUMS
           /\ (x + n) % SEQ_NUMS \in Seq_nums
  BY BtpAssumption DEF Seq_nums

\* Counting on from the successor of k is counting one further from k.
LEMMA PlusAfter ==
    ASSUME NEW k \in Seq_nums, NEW n \in Nat, n + 1 < SEQ_NUMS
    PROVE  /\ (k + (n + 1)) % SEQ_NUMS = (((k + 1) % SEQ_NUMS) + n) % SEQ_NUMS
           /\ (k + (n + 1)) % SEQ_NUMS = (((k + n) % SEQ_NUMS) + 1) % SEQ_NUMS
  <1>1. n \in Seq_nums /\ n + 1 \in Seq_nums /\ SEQ_NUMS \in Nat
    BY BtpAssumption DEF Seq_nums
  <1>2. PICK x \in Seq_nums : x = (k + 1) % SEQ_NUMS /\ x = IF k = SEQ_NUMS - 1 THEN 0 ELSE k + 1
    BY Successor
  <1>3. PICK y \in Seq_nums : y = (k + n) % SEQ_NUMS /\ y = IF k + n < SEQ_NUMS THEN k + n ELSE k + n - SEQ_NUMS
    BY <1>1, PlusIs, Zenon
  <1>5. PICK z \in Seq_nums : /\ z = (k + (n + 1)) % SEQ_NUMS
                        /\ z = IF k + (n + 1) < SEQ_NUMS THEN k + (n + 1) ELSE k + (n + 1) - SEQ_NUMS
    BY <1>1, PlusIs, Zenon
  <1>6. (x + n) % SEQ_NUMS = IF x + n < SEQ_NUMS THEN x + n ELSE x + n - SEQ_NUMS
    BY <1>1, PlusIs
  <1>7. (y + 1) % SEQ_NUMS = IF y = SEQ_NUMS - 1 THEN 0 ELSE y + 1
    BY Successor
  <1>8. z = (x + n) % SEQ_NUMS /\ z = (y + 1) % SEQ_NUMS
    BY <1>1, <1>2, <1>3, <1>5, <1>6, <1>7 DEF Seq_nums
  <1> QED
    BY <1>2, <1>3, <1>5, <1>8

\* One more segment sent is one more from every earlier one.
LEMMA DistanceGrows ==
    ASSUME NEW x \in Seq_nums, NEW y \in Seq_nums, Distance(x, y) + 1 < SEQ_NUMS
    PROVE  Distance((x + 1) % SEQ_NUMS, y) = Distance(x, y) + 1
  <1>1. PICK z \in Seq_nums : z = (x + 1) % SEQ_NUMS /\ z = IF x = SEQ_NUMS - 1 THEN 0 ELSE x + 1
    BY Successor
  <1>2. /\ Distance(x, y) = IF x >= y THEN x - y ELSE x - y + SEQ_NUMS
        /\ Distance(z, y) = IF z >= y THEN z - y ELSE z - y + SEQ_NUMS
    BY DistanceIs
  <1>3. Distance(z, y) = Distance(x, y) + 1
    BY <1>1, <1>2, BtpAssumption DEF Seq_nums
  <1> QED
    BY <1>1, <1>3

\* A segment joins the ones on their way.
LEMMA ChannelSend ==
    ASSUME NEW q \in Seq(Seg), NEW last \in Seq_nums, NEW k \in Seq_nums,
           Channel(q, last, k), Len(q) + 1 < SEQ_NUMS,
           NEW seg \in Seg, ~seg.handshake, seg.seq = (last + 1) % SEQ_NUMS
    PROVE  Channel(Append(q, seg), (last + 1) % SEQ_NUMS, k)
  <1>1. /\ Len(Append(q, seg)) = Len(q) + 1 /\ Len(q) \in Nat
        /\ \A i \in 1 .. Len(q) : Append(q, seg)[i] = q[i]
        /\ Append(q, seg)[Len(q) + 1] = seg
    BY AppendIs
  <1>3. (last + 1) % SEQ_NUMS = (k + (Len(q) + 1)) % SEQ_NUMS
    BY <1>1, PlusAfter DEF Channel
  <1>4. ASSUME NEW i \in 1 .. Len(q) + 1
        PROVE  ~Append(q, seg)[i].handshake /\ Append(q, seg)[i].seq = (k + i) % SEQ_NUMS
    <2>1. CASE i \in 1 .. Len(q)
      BY <1>1, <2>1 DEF Channel
    <2>2. CASE i = Len(q) + 1
      BY <1>1, <1>3, <2>2
    <2> QED
      BY <1>1, <2>1, <2>2
  <1> QED
    BY <1>1, <1>3, <1>4 DEF Channel

\* The first of them arrives: it has the number the receiver waits for.
LEMMA ChannelTake ==
    ASSUME NEW q \in Seq(Seg), NEW last \in Seq_nums, NEW k \in Seq_nums,
           Channel(q, last, k), Len(q) < SEQ_NUMS, q # <<>>
    PROVE  Channel(Tail(q), last, Head(q).seq)
  <1>1. /\ Len(q) \in Nat \ {0} /\ Head(q) = q[1]
        /\ Tail(q) \in Seq(Seg) /\ Len(Tail(q)) = Len(q) - 1
        /\ \A i \in 1 .. Len(q) - 1 : Tail(q)[i] = q[i + 1]
    BY EmptyIs, TailIs
  <1>2. Head(q).seq = (k + 1) % SEQ_NUMS
    BY <1>1 DEF Channel
  <1>3. ASSUME NEW n \in 0 .. Len(q) - 1
        PROVE  (k + (n + 1)) % SEQ_NUMS = (Head(q).seq + n) % SEQ_NUMS
    <2>1. n \in Nat /\ n + 1 < SEQ_NUMS
      BY <1>1, BtpAssumption
    <2> QED
      BY <1>2, <2>1, PlusAfter
  <1>4. last = (Head(q).seq + Len(Tail(q))) % SEQ_NUMS
    <2>1. Len(Tail(q)) \in 0 .. Len(q) - 1 /\ Len(q) = Len(Tail(q)) + 1
      BY <1>1
    <2> QED
      BY <1>3, <2>1 DEF Channel
  <1>5. ASSUME NEW i \in 1 .. Len(Tail(q))
        PROVE  ~Tail(q)[i].handshake /\ Tail(q)[i].seq = (Head(q).seq + i) % SEQ_NUMS
    <2>1. i \in 0 .. Len(q) - 1 /\ i + 1 \in 1 .. Len(q) /\ Tail(q)[i] = q[i + 1]
      BY <1>1
    <2> QED
      BY <1>3, <2>1 DEF Channel
  <1> QED
    BY <1>4, <1>5 DEF Channel

\* What segments carry, and where acknowledgements are after a segment joins them.
LEMMA AcksOfAppend ==
    ASSUME NEW a \in Seq(Seg), NEW seg \in Seg
    PROVE  /\ Acks(Append(a, seg)) = Acks(a) \cup (IF ~seg.handshake /\ seg.ack # NoAck THEN {Len(a) + 1} ELSE {})
           /\ \A i \in Acks(a) : Append(a, seg)[i] = a[i] /\ i <= Len(a) /\ i \in Nat
           /\ Append(a, seg)[Len(a) + 1] = seg /\ Len(a) \in Nat
  <1>1. /\ Len(Append(a, seg)) = Len(a) + 1 /\ Len(a) \in Nat
        /\ \A i \in 1 .. Len(a) : Append(a, seg)[i] = a[i]
        /\ Append(a, seg)[Len(a) + 1] = seg
    BY AppendIs
  <1>2. 1 .. Len(a) + 1 = 1 .. Len(a) \cup {Len(a) + 1}
    BY <1>1
  <1> QED
    BY <1>1, <1>2 DEF Acks

\* Where they are after the first segment is taken.
LEMMA AcksOfTail ==
    ASSUME NEW a \in Seq(Seg), a # <<>>
    PROVE  /\ \A i \in Acks(Tail(a)) : i + 1 \in Acks(a) /\ Tail(a)[i] = a[i + 1] /\ i \in Nat /\ i >= 1
           /\ \A i \in Acks(a) : i # 1 => i - 1 \in Acks(Tail(a)) /\ i \in Nat /\ i > 1
           /\ 1 \in Acks(a) <=> ~Head(a).handshake /\ Head(a).ack # NoAck
           /\ Head(a) = a[1]
  <1>1. /\ Len(a) \in Nat \ {0} /\ Head(a) = a[1] /\ Len(Tail(a)) = Len(a) - 1
        /\ \A i \in 1 .. Len(a) - 1 : Tail(a)[i] = a[i + 1]
    BY EmptyIs, TailIs
  <1>2. \A i \in Acks(Tail(a)) : i + 1 \in Acks(a) /\ Tail(a)[i] = a[i + 1] /\ i \in Nat /\ i >= 1
    BY <1>1 DEF Acks
  <1>3. ASSUME NEW i \in Acks(a), i # 1
        PROVE  i - 1 \in Acks(Tail(a)) /\ i \in Nat /\ i > 1
    <2>1. i \in 1 .. Len(a) /\ i - 1 \in 1 .. Len(a) - 1 /\ (i - 1) + 1 = i
      BY <1>1, <1>3 DEF Acks
    <2>2. Tail(a)[i - 1] = a[i]
      BY <1>1, <2>1
    <2> QED
      BY <1>1, <1>3, <2>1, <2>2 DEF Acks
  <1>4. 1 \in Acks(a) <=> ~Head(a).handshake /\ Head(a).ack # NoAck
    BY <1>1 DEF Acks
  <1> QED
    BY <1>1, <1>2, <1>3, <1>4, Zenon

\* An acknowledgement is a sequence number.
LEMMA AckType ==
    ASSUME NEW a \in Seq(Seg), NEW i \in Acks(a)
    PROVE  a[i].ack \in Seq_nums
  <1>1. a[i] \in Seg /\ ~a[i].handshake /\ a[i].ack # NoAck
    BY DEF Acks
  <1> QED
    BY <1>1, Zenon DEF Seg

\* The sender sends a segment: there is one more outstanding and one fewer to send.
LEMMA LedgerSend ==
    ASSUME NEW a \in Seq(Seg), NEW last \in Seq_nums, NEW level \in Int, NEW out \in Int,
           NEW w \in Seq_nums, Ledger(a, last, level, out, w), level >= 1
    PROVE  Ledger(a, (last + 1) % SEQ_NUMS, level - 1, out + 1, w)
  <1>1. level \in Nat /\ out \in Nat /\ level + out <= w /\ w < SEQ_NUMS /\ w \in Int
    BY BtpAssumption DEF Ledger, Seq_nums
  <1>2. ASSUME NEW i \in Acks(a)
        PROVE  /\ Distance((last + 1) % SEQ_NUMS, a[i].ack) = Distance(last, a[i].ack) + 1
               /\ Distance(last, a[i].ack) \in Int
               /\ out <= Distance(last, a[i].ack) /\ Distance(last, a[i].ack) + level <= w
    <2>1. a[i].ack \in Seq_nums
      BY AckType
    <2>2. Distance(last, a[i].ack) \in Int
      BY <2>1, DistanceIs DEF Seq_nums
    <2>3. out <= Distance(last, a[i].ack) /\ Distance(last, a[i].ack) + level <= w
      BY DEF Ledger
    <2>4. Distance(last, a[i].ack) + 1 < SEQ_NUMS
      BY <1>1, <2>2, <2>3, BtpAssumption
    <2> QED
      BY <2>1, <2>2, <2>3, <2>4, DistanceGrows
  <1>3. \A i, j \in Acks(a) : i < j => Distance(last, a[j].ack) <= Distance(last, a[i].ack)
    BY DEF Ledger
  <1>4. \A i \in Acks(a) : (\A j \in Acks(a) : j <= i) => Distance(last, a[i].ack) = out
    BY DEF Ledger
  <1>5. Acks(a) = {} => level + out = w
    BY DEF Ledger
  <1>6. PICK next : next = (last + 1) % SEQ_NUMS
    OBVIOUS
  <1>7. Ledger(a, next, level - 1, out + 1, w)
    <2>1. level - 1 \in Nat /\ out + 1 \in Nat /\ (level - 1) + (out + 1) <= w
      BY <1>1
    <2>2. \A i \in Acks(a) : /\ out + 1 <= Distance(next, a[i].ack)
                             /\ Distance(next, a[i].ack) + (level - 1) <= w
      BY <1>1, <1>2, <1>6
    <2>3. \A i, j \in Acks(a) : i < j => Distance(next, a[j].ack) <= Distance(next, a[i].ack)
      BY <1>2, <1>3, <1>6
    <2>4. \A i \in Acks(a) : (\A j \in Acks(a) : j <= i) => Distance(next, a[i].ack) = out + 1
      BY <1>2, <1>4, <1>6
    <2>5. Acks(a) = {} => (level - 1) + (out + 1) = w
      BY <1>1, <1>5
    <2> QED
      BY <2>1, <2>2, <2>3, <2>4, <2>5 DEF Ledger
  <1> QED
    BY <1>6, <1>7

\* The receiver sends a segment without an acknowledgement.
LEMMA LedgerWithout ==
    ASSUME NEW a \in Seq(Seg), NEW last \in Seq_nums, NEW level \in Int, NEW out \in Int,
           NEW w \in Seq_nums, Ledger(a, last, level, out, w),
           NEW seg \in Seg, seg.handshake \/ seg.ack = NoAck
    PROVE  Ledger(Append(a, seg), last, level, out, w)
  <1>1. Acks(Append(a, seg)) = Acks(a) /\ \A i \in Acks(a) : Append(a, seg)[i] = a[i]
    BY AcksOfAppend, Zenon
  <1> QED
    BY <1>1, Zenon DEF Ledger

\* The receiver acknowledges all it has received: what is still on its way is what
\* remains outstanding.
LEMMA LedgerAck ==
    ASSUME NEW a \in Seq(Seg), NEW q \in Seq(Seg), NEW last \in Seq_nums, NEW level \in Int,
           NEW held \in Nat, NEW k \in Seq_nums, NEW w \in Seq_nums,
           Ledger(a, last, level, Len(q) + held, w), Channel(q, last, k),
           NEW seg \in Seg, ~seg.handshake, seg.ack = k
    PROVE  Ledger(Append(a, seg), last, level, Len(q), w)
  <1> DEFINE b == Append(a, seg)
             n == Len(a) + 1
             D(i) == Distance(last, b[i].ack)
  <1>1. /\ Acks(b) = Acks(a) \cup {n} /\ \A i \in Acks(a) : b[i] = a[i] /\ i < n /\ i \in Int
        /\ b[n] = seg /\ n \in Nat
    <2>1. k # NoAck
      BY DEF Seq_nums, NoAck
    <2>2. /\ Acks(b) = Acks(a) \cup (IF ~seg.handshake /\ seg.ack # NoAck THEN {n} ELSE {})
          /\ \A i \in Acks(a) : b[i] = a[i] /\ i <= Len(a) /\ i \in Nat
          /\ b[n] = seg /\ Len(a) \in Nat
      BY AcksOfAppend, Zenon
    <2>3. Acks(b) = Acks(a) \cup {n}
      BY <2>1, <2>2
    <2> HIDE DEF b
    <2> QED
      BY <2>2, <2>3
  <1>2. level \in Nat /\ Len(q) \in Nat /\ level + (Len(q) + held) <= w /\ w < SEQ_NUMS /\ w \in Int
    BY BtpAssumption DEF Ledger, Seq_nums
  <1>3. D(n) = Len(q)
    <2>1. Len(q) \in Seq_nums
      BY <1>2, BtpAssumption DEF Seq_nums
    <2>2. last = IF k + Len(q) < SEQ_NUMS THEN k + Len(q) ELSE k + Len(q) - SEQ_NUMS
      BY <2>1, PlusIs DEF Channel
    <2>3. Distance(last, k) = IF last >= k THEN last - k ELSE last - k + SEQ_NUMS
      BY DistanceIs
    <2>4. Distance(last, k) = Len(q)
      BY <1>2, <2>1, <2>2, <2>3, BtpAssumption, SMTT(30) DEF Seq_nums
    <2> QED
      BY <1>1, <2>4
  <1>4. ASSUME NEW i \in Acks(a)
        PROVE  D(i) \in Int /\ Len(q) + held <= D(i) /\ D(i) + level <= w /\ D(i) = Distance(last, a[i].ack)
    <2>1. a[i].ack \in Seq_nums /\ b[i] = a[i]
      BY <1>1, AckType, Zenon
    <2>2. Distance(last, a[i].ack) \in Seq_nums
      BY <2>1, DistanceIs
    <2> QED
      BY <2>1, <2>2 DEF Ledger, Seq_nums
  <1>5. \A i, j \in Acks(a) : i < j => D(j) <= D(i)
    BY <1>4, Zenon DEF Ledger
  <1> HIDE DEF D
  <1>6. \A i \in Acks(b) : Len(q) <= D(i) /\ D(i) + level <= w
    BY <1>1, <1>2, <1>3, <1>4, SMTT(30)
  <1>7. \A i, j \in Acks(b) : i < j => D(j) <= D(i)
    BY <1>1, <1>2, <1>3, <1>4, <1>5, SMTT(30)
  <1>8. \A i \in Acks(b) : (\A j \in Acks(b) : j <= i) => D(i) = Len(q)
    BY <1>1, <1>3
  <1>9. Acks(b) # {} /\ level + Len(q) <= w
    BY <1>1, <1>2
  <1> QED
    BY <1>2, <1>6, <1>7, <1>8, <1>9, Zenon DEF Ledger, D

\* The sender takes the first segment: it learns what an acknowledgement tells.
LEMMA LedgerTake ==
    ASSUME NEW a \in Seq(Seg), NEW last \in Seq_nums, NEW level \in Int, NEW out \in Int,
           NEW w \in Seq_nums, Ledger(a, last, level, out, w), a # <<>>, ~Head(a).handshake
    PROVE  Ledger(Tail(a), last, IF Head(a).ack = NoAck THEN level ELSE w - Distance(last, Head(a).ack),
                  out, w)
  <1> DEFINE b == Tail(a)
             D(i) == Distance(last, a[i].ack)
  <1>1. /\ \A i \in Acks(b) : i + 1 \in Acks(a) /\ b[i] = a[i + 1] /\ i \in Nat /\ i >= 1
        /\ \A i \in Acks(a) : i # 1 => i - 1 \in Acks(b) /\ i \in Nat /\ i > 1
        /\ 1 \in Acks(a) <=> Head(a).ack # NoAck
        /\ Head(a) = a[1]
    BY AcksOfTail, Zenon
  <1>2. level \in Nat /\ out \in Nat /\ level + out <= w /\ w \in Nat
    BY BtpAssumption DEF Ledger, Seq_nums
  <1>3. ASSUME NEW i \in Acks(a)
        PROVE  D(i) \in Int /\ out <= D(i) /\ D(i) + level <= w
    <2>1. Distance(last, a[i].ack) \in Int
      BY AckType, DistanceIs, SMTT(30) DEF Seq_nums
    <2> QED
      BY <2>1 DEF Ledger
  <1>4. \A i, j \in Acks(a) : i < j => D(j) <= D(i)
    BY DEF Ledger
  <1>5. \A i \in Acks(a) : (\A j \in Acks(a) : j <= i) => D(i) = out
    BY DEF Ledger
  <1>6. Acks(a) = {} => level + out = w
    BY DEF Ledger
  <1>7. \A i \in Acks(b) : Distance(last, b[i].ack) = D(i + 1)
    BY <1>1, Zenon
  <1> HIDE DEF D, b
  <1>8. \A i \in Acks(b) : out <= D(i + 1)
    BY <1>1, <1>3
  <1>9. \A i, j \in Acks(b) : i < j => D(j + 1) <= D(i + 1)
    BY <1>1, <1>4
  <1>10. ASSUME NEW i \in Acks(b), \A j \in Acks(b) : j <= i
         PROVE  D(i + 1) = out
    <2>1. \A j \in Acks(a) : j <= i + 1
      BY <1>1, <1>10
    <2> QED
      BY <1>1, <1>5, <2>1
  <1>11. CASE Head(a).ack = NoAck
    <2>1. Acks(b) = {} => level + out = w
      BY <1>1, <1>6, <1>11
    <2>2. \A i \in Acks(b) : D(i + 1) + level <= w
      BY <1>1, <1>3
    <2>3. Ledger(b, last, level, out, w)
      BY <1>2, <1>7, <1>8, <1>9, <1>10, <2>1, <2>2 DEF Ledger
    <2> QED
      BY <1>11, <2>3 DEF b
  <1>12. CASE Head(a).ack # NoAck
    <2>0. 1 \in Acks(a) /\ D(1) \in Int /\ out <= D(1) /\ D(1) + level <= w
      BY <1>1, <1>3, <1>12
    <2>1. \A i \in Acks(b) : D(i + 1) <= D(1) /\ D(i + 1) \in Int
      BY <1>1, <1>3, <1>4, <2>0
    <2>2. PICK l : l = w - D(1)
      OBVIOUS
    <2>3. l \in Nat /\ l + out <= w
      BY <1>2, <2>0, <2>2, SMTT(30)
    <2>4. Acks(b) = {} => l + out = w
      <3>1. ASSUME Acks(b) = {} PROVE D(1) = out
        <4>1. \A j \in Acks(a) : j <= 1
          BY <1>1, <3>1
        <4> QED
          BY <1>5, <2>0, <4>1
      <3> QED
        BY <1>2, <2>2, <3>1
    <2>5. \A i \in Acks(b) : D(i + 1) + l <= w
      BY <1>2, <2>0, <2>1, <2>2
    <2>6. Ledger(b, last, l, out, w)
      BY <1>2, <1>7, <1>8, <1>9, <1>10, <2>3, <2>4, <2>5 DEF Ledger
    <2>7. l = w - Distance(last, Head(a).ack)
      BY <1>1, <2>2 DEF D
    <2> QED
      BY <1>12, <2>6, <2>7 DEF b
  <1> QED
    BY <1>11, <1>12

-----------------------------------------------------------------------------
\* There are two ends, and each is the other's other.
LEMMA OtherEnd ==
    ASSUME NEW e \in Ends
    PROVE  /\ Other(e) \in Ends /\ Other(e) # e /\ Other(Other(e)) = e
           /\ \A f \in Ends : f = e \/ f = Other(e)
  BY DEF Ends, Other, Node, Central

\* What prep_tx_data sends.
LEMMA SegmentType ==
    ASSUME BtpTypes, NEW e \in Ends, NEW sdu \in [id : Nat, len : Nat, offset : Int]
    PROVE  /\ Segment(e, sdu) \in Seg /\ ~Segment(e, sdu).handshake
           /\ Segment(e, sdu).seq = (send_window[e].last_sent_seq_num + 1) % SEQ_NUMS
           /\ Segment(e, sdu).ack = pending_ack(e) /\ Segment(e, sdu).len \in Int
  <1>1. send_window[e].last_sent_seq_num \in Seq_nums /\ recv_window[e].ack_seq \in Seq_nums /\ mtu \in Nat
    BY SMTT(30) DEF BtpTypes, SendWindow, RecvWindow
  <1>2. (send_window[e].last_sent_seq_num + 1) % SEQ_NUMS \in Seq_nums
    BY <1>1, Successor
  <1>3. pending_ack(e) \in {NoAck} \cup Seq_nums
    BY <1>1 DEF pending_ack
  <1> DEFINE begins == sdu.id # 0 /\ sdu.offset = 0
             chunk == Min2(sdu.len - sdu.offset, mtu - hdr_len(e, begins))
             final == sdu.id # 0 /\ chunk = sdu.len - sdu.offset
  <1>4. hdr_len(e, begins) \in Int
    BY DEF hdr_len
  <1>5. chunk \in Int
    BY <1>1, <1>4 DEF Min2
  <1>6. begins \in BOOLEAN /\ final \in BOOLEAN
    BY Zenon
  <1>7. PICK x, a, b, m, i, n, f :
          /\ x = (send_window[e].last_sent_seq_num + 1) % SEQ_NUMS /\ a = pending_ack(e)
          /\ b = begins /\ m = sdu.len /\ i = sdu.id /\ n = chunk /\ f = final
    BY Zenon
  <1>8. Segment(e, sdu) = [handshake |-> FALSE, seq |-> x, ack |-> a, begins |-> b, msg_len |-> m,
                           id |-> i, len |-> n, final |-> f]
    BY <1>7, Zenon DEF Segment
  <1> HIDE DEF begins, chunk, final
  <1>9. x \in Seq_nums /\ a \in {NoAck} \cup Seq_nums /\ m \in Nat /\ i \in Nat /\ n \in Int
    BY <1>2, <1>3, <1>5, <1>7
  <1>10. b \in BOOLEAN /\ f \in BOOLEAN
    BY <1>6, <1>7, Zenon
  <1>11. [handshake |-> FALSE, seq |-> x, ack |-> a, begins |-> b, msg_len |-> m,
          id |-> i, len |-> n, final |-> f] \in Seg
    BY <1>9, <1>10, Zenon DEF Seg
  <1>12. Segment(e, sdu) \in Seg
    BY <1>8, <1>11, Zenon
  <1>13. /\ ~Segment(e, sdu).handshake /\ Segment(e, sdu).ack = a
         /\ Segment(e, sdu).len = n /\ Segment(e, sdu).seq = x
    BY <1>8
  <1> QED
    BY <1>7, <1>9, <1>11, <1>12, <1>13, Zenon

\* What RecvWindow::post_send leaves.
LEMMA AckedIs ==
    ASSUME NEW e \in Ends, recv_window[e] \in RecvWindow
    PROVE  /\ Acked(e) \in RecvWindow /\ Acked(e).ack_seq = recv_window[e].ack_seq
           /\ pending_ack(e) = NoAck => Acked(e) = recv_window[e]
           /\ pending_ack(e) # NoAck => /\ Acked(e).level = recv_window[e].level + recv_window[e].ack_level
                                        /\ Acked(e).ack_level = 0
                                        /\ pending_ack(e) = recv_window[e].ack_seq
  <1>1. CASE pending_ack(e) = NoAck
    BY <1>1 DEF Acked
  <1>2. CASE pending_ack(e) # NoAck
    <2>1. PICK r, l : r = recv_window[e] /\ l = recv_window[e].level + recv_window[e].ack_level
      OBVIOUS
    <2>2. Acked(e) = [r EXCEPT !.level = l, !.ack_level = 0]
      BY <1>2, <2>1 DEF Acked
    <2>3. r \in RecvWindow /\ l \in Int
      BY <2>1 DEF RecvWindow
    <2>4. PICK t : t = [r EXCEPT !.level = l]
      BY Zenon
    <2>5. t \in RecvWindow /\ t.level = l /\ t.ack_seq = r.ack_seq
      BY <2>3, <2>4 DEF RecvWindow
    <2>6. Acked(e) = [t EXCEPT !.ack_level = 0]
      BY <2>2, <2>4, Zenon
    <2>7. /\ Acked(e) \in RecvWindow /\ Acked(e).ack_seq = r.ack_seq
          /\ Acked(e).level = l /\ Acked(e).ack_level = 0
      BY <2>5, <2>6 DEF RecvWindow
    <2>8. pending_ack(e) = recv_window[e].ack_seq
      BY <1>2 DEF pending_ack
    <2> QED
      BY <1>2, <2>1, <2>7, <2>8
  <1> QED
    BY <1>1, <1>2

\* What prep_tx_data leaves, field by field.
LEMMA PrepLemma ==
    ASSUME BtpTypes, NEW e \in Ends, NEW sdu \in [id : Nat, len : Nat, offset : Int],
           prep_tx_data(e, sdu)
    PROVE  /\ gatt' = [gatt EXCEPT ![Other(e)] = Append(@, Segment(e, sdu))]
           /\ gatt' \in [Ends -> Seq(Seg)]
           /\ send_window' \in [Ends -> SendWindow] /\ recv_window' \in [Ends -> RecvWindow]
           /\ send_window'[e].level = send_window[e].level - 1
           /\ send_window'[e].last_sent_seq_num = (send_window[e].last_sent_seq_num + 1) % SEQ_NUMS
           /\ send_window'[Other(e)] = send_window[Other(e)]
           /\ recv_window'[Other(e)] = recv_window[Other(e)] /\ recv_window'[e] = Acked(e)
           /\ window_size' = window_size /\ handshake_pending' = handshake_pending
           /\ mtu' = mtu /\ handed' = handed
  <1>1. Other(e) \in Ends /\ Other(e) # e
    BY OtherEnd
  <1>2. Segment(e, sdu) \in Seg
    BY SegmentType
  <1>3. /\ send_window \in [Ends -> SendWindow] /\ recv_window \in [Ends -> RecvWindow]
        /\ gatt \in [Ends -> Seq(Seg)]
        /\ send_window[e] \in SendWindow /\ recv_window[e] \in RecvWindow
    BY DEF BtpTypes
  <1>4. Sent(send_window[e]) \in SendWindow
    BY <1>3, Successor DEF Sent, SendWindow
  <1>5. Acked(e) \in RecvWindow
    BY <1>3, AckedIs
  <1>6. Append(gatt[Other(e)], Segment(e, sdu)) \in Seq(Seg)
    BY <1>1, <1>2, <1>3, AppendIs, SMTT(30)
  <1> QED
    BY <1>1, <1>3, <1>4, <1>5, <1>6 DEF prep_tx_data, Sent

\* A segment sent on an open connection keeps the two ends in agreement.
LEMMA SendOpen ==
    ASSUME BtpTypes, Open, NEW e \in Ends, NEW sdu \in [id : Nat, len : Nat, offset : Int],
           prep_tx_data(e, sdu)
    PROVE  Open'
  <1>0. PICK o \in Ends : o = Other(e) /\ o # e /\ Other(o) = e /\ \A f \in Ends : f = e \/ f = o
    BY OtherEnd
  <1>1. PICK seg \in Seg :
          /\ seg = Segment(e, sdu) /\ ~seg.handshake /\ seg.ack = pending_ack(e)
          /\ seg.seq = (send_window[e].last_sent_seq_num + 1) % SEQ_NUMS
    BY SegmentType
  <1>2. /\ gatt \in [Ends -> Seq(Seg)]
        /\ send_window[e] \in SendWindow /\ send_window[o] \in SendWindow
        /\ recv_window[e] \in RecvWindow /\ recv_window[o] \in RecvWindow
        /\ window_size \in [Ends -> Seq_nums] /\ window_size[o] = window_size[e]
    BY <1>0, SMTT(30) DEF BtpTypes, Open, Ends
  <1>3. PICK w \in Seq_nums, q \in Seq(Seg), a \in Seq(Seg), last \in Seq_nums, level \in Int :
          /\ w = window_size[e] /\ q = gatt[o] /\ a = gatt[e]
          /\ last = send_window[e].last_sent_seq_num /\ level = send_window[e].level
    BY <1>2, Zenon DEF SendWindow
  <1>4. PICK sent \in Seq_nums, room \in Int, held \in Int, seq \in Seq_nums, seq_o \in Seq_nums, held_o \in Int :
          /\ sent = send_window[o].last_sent_seq_num /\ room = send_window[o].level
          /\ held = recv_window[e].ack_level /\ seq = recv_window[e].ack_seq
          /\ held_o = recv_window[o].ack_level /\ seq_o = recv_window[o].ack_seq
    BY <1>2, Zenon DEF SendWindow, RecvWindow
  <1>5. /\ gatt'[o] = Append(q, seg) /\ gatt'[e] = a
        /\ send_window'[e].level = level - 1
        /\ send_window'[e].last_sent_seq_num = (last + 1) % SEQ_NUMS
        /\ send_window'[o] = send_window[o] /\ recv_window'[o] = recv_window[o]
        /\ recv_window'[e] = Acked(e) /\ window_size' = window_size
        /\ handshake_pending' = handshake_pending
    BY <1>0, <1>1, <1>2, <1>3, PrepLemma, SMTT(30)
  <1>6. Link(e) /\ Link(o)
    BY DEF Open
  <1>7. /\ Channel(q, last, seq_o) /\ Ledger(a, last, level, Len(q) + held_o, w)
        /\ Channel(a, sent, seq) /\ Ledger(q, sent, room, Len(a) + held, w)
    BY <1>0, <1>2, <1>3, <1>4, <1>6, Zenon DEF Link, Outstanding
  <1>8. /\ recv_window[e].level \in Nat /\ held \in Nat /\ recv_window[e].level + held = w
        /\ recv_window[o].level \in Nat /\ held_o \in Nat /\ recv_window[o].level + held_o = w
    BY <1>0, <1>2, <1>3, <1>4, <1>6 DEF Link
  <1>9. /\ level \in Nat /\ level >= 1 /\ level + (Len(q) + held_o) <= w
        /\ w < SEQ_NUMS /\ w \in Int /\ SEQ_NUMS \in Int /\ Len(q) \in Nat /\ Len(a) \in Nat
    <2>1. level # 0
      BY <1>3 DEF prep_tx_data, is_full
    <2>2. level \in Nat /\ level + (Len(q) + held_o) <= w
      BY <1>7, SMTT(30) DEF Ledger
    <2> QED
      BY <2>1, <2>2, BtpAssumption, SMTT(30) DEF Seq_nums
  <1>10. Len(Append(q, seg)) = Len(q) + 1
    BY AppendIs, SMTT(30)
  <1>11. Channel(Append(q, seg), (last + 1) % SEQ_NUMS, seq_o)
    <2>1. Len(q) + 1 < SEQ_NUMS
      BY <1>8, <1>9
    <2> QED
      BY <1>1, <1>3, <1>7, <2>1, ChannelSend, Zenon
  <1>12. Ledger(a, (last + 1) % SEQ_NUMS, level - 1, Len(Append(q, seg)) + held_o, w)
    <2>1. PICK out \in Int : out = Len(q) + held_o /\ out + 1 = Len(Append(q, seg)) + held_o
      <3>1. PICK n \in Nat : n = Len(q) /\ n + 1 = Len(Append(q, seg))
        BY <1>9, <1>10
      <3>2. n + held_o \in Int /\ (n + held_o) + 1 = (n + 1) + held_o
        BY <1>8
      <3> QED
        BY <3>1, <3>2
    <2>2. Ledger(a, (last + 1) % SEQ_NUMS, level - 1, out + 1, w)
      BY <1>7, <1>9, <2>1, LedgerSend, Zenon
    <2> QED
      BY <2>1, <2>2
  <1>13. /\ Acked(e).level \in Nat /\ Acked(e).ack_level \in Nat
         /\ Acked(e).level + Acked(e).ack_level = w /\ Acked(e).ack_seq = seq
    <2>1. CASE pending_ack(e) = NoAck
      <3>1. Acked(e).level = recv_window[e].level /\ Acked(e).ack_level = held /\ Acked(e).ack_seq = seq
        BY <1>2, <1>4, <2>1, AckedIs, SMTT(30)
      <3> QED
        BY <1>8, <3>1
    <2>2. CASE pending_ack(e) # NoAck
      <3>1. Acked(e).level = recv_window[e].level + held /\ Acked(e).ack_level = 0 /\ Acked(e).ack_seq = seq
        BY <1>2, <1>4, <2>2, AckedIs, SMTT(30)
      <3>2. PICK free_e \in Nat : free_e = recv_window[e].level /\ free_e + held = w
        BY <1>8, SMTT(30)
      <3>3. w \in Nat /\ w + 0 = w /\ 0 \in Nat
        BY <1>8, <3>2, SMTT(30)
      <3> QED
        BY <3>1, <3>2, <3>3, SMTT(30)
    <2> QED
      BY <2>1, <2>2
  <1>14. Ledger(Append(q, seg), sent, room, Len(a) + Acked(e).ack_level, w)
    <2>1. CASE pending_ack(e) = NoAck
      <3>1. PICK out \in Int : out = Len(a) + held
        BY <1>8, <1>9
      <3>2. Ledger(Append(q, seg), sent, room, out, w)
        BY <1>1, <1>7, <2>1, <3>1, LedgerWithout, SMTT(30)
      <3>3. Acked(e).ack_level = held
        BY <1>2, <1>4, <2>1, AckedIs
      <3> QED
        BY <3>1, <3>2, <3>3
    <2>2. CASE pending_ack(e) # NoAck
      <3>1. seg.ack = seq /\ Acked(e).ack_level = 0
        BY <1>1, <1>2, <1>4, <2>2, AckedIs, SMTT(30)
      <3>2. Ledger(Append(q, seg), sent, room, Len(a), w)
        BY <1>1, <1>7, <1>8, <3>1, LedgerAck, ZenonT(30)
      <3>3. Len(a) + Acked(e).ack_level = Len(a)
        BY <1>9, <3>1
      <3> QED
        BY <3>2, <3>3, SMTT(30)
    <2> QED
      BY <2>1, <2>2
  <1>15. Link(e)'
    BY <1>0, <1>3, <1>4, <1>5, <1>11, <1>12, <1>13 DEF Link, Outstanding
  <1>16. Link(o)'
    BY <1>0, <1>2, <1>3, <1>4, <1>5, <1>7, <1>8, <1>13, <1>14, ZenonT(30) DEF Link, Outstanding
  <1> QED
    BY <1>0, <1>5, <1>15, <1>16 DEF Open

\* What process_rx_data leaves, field by field.
LEMMA IncomingLemma ==
    ASSUME BtpTypes, NEW e \in Ends, process_incoming(e)
    PROVE  /\ gatt[e] # <<>> /\ ~Head(gatt[e]).handshake /\ Head(gatt[e]) \in Seg
           /\ gatt' = [gatt EXCEPT ![e] = Tail(@)] /\ gatt' \in [Ends -> Seq(Seg)]
           /\ send_window' = [send_window EXCEPT ![e] = Acknowledged(e, @, Head(gatt[e]).ack)]
           /\ send_window' \in [Ends -> SendWindow]
           /\ recv_window' \in [Ends -> RecvWindow]
           /\ recv_window'[Other(e)] = recv_window[Other(e)]
           /\ recv_window'[e].level = recv_window[e].level - 1
           /\ recv_window'[e].ack_level = recv_window[e].ack_level + 1
           /\ recv_window'[e].ack_seq = Head(gatt[e]).seq
           /\ window_size' = window_size /\ handshake_pending' = handshake_pending
           /\ mtu' = mtu /\ handed' = handed /\ outgoing_sdu' = outgoing_sdu
  <1>0. Other(e) \in Ends /\ Other(e) # e
    BY OtherEnd
  <1>1. /\ send_window \in [Ends -> SendWindow] /\ recv_window \in [Ends -> RecvWindow]
        /\ gatt \in [Ends -> Seq(Seg)] /\ gatt[e] \in Seq(Seg)
        /\ send_window[e] \in SendWindow /\ recv_window[e] \in RecvWindow
        /\ window_size[e] \in Seq_nums
    BY DEF BtpTypes
  <1>2. gatt[e] # <<>> /\ ~Head(gatt[e]).handshake
    BY DEF process_incoming
  <1>3. PICK seg \in Seg : seg = Head(gatt[e])
    BY <1>1, <1>2, TailIs
  <1>4. Tail(gatt[e]) \in Seq(Seg)
    BY <1>1, <1>2, TailIs
  <1>5. /\ seg.seq \in Seq_nums /\ seg.ack \in {NoAck} \cup Seq_nums /\ seg.msg_len \in Nat
        /\ seg.len \in Int
    BY <1>2, <1>3, Zenon DEF Seg
  <1>6. PICK rem \in Int : rem = IF IsData(seg) THEN Remaining(e, seg) ELSE recv_window[e].rem_msg_len
    BY <1>1, <1>5, SMTT(30) DEF Remaining, RecvWindow
  <1>7. PICK ct \in Int : ct = recv_window[e].buf_messages_ct + (IF seg.final THEN 1 ELSE 0)
    <2>1. PICK b \in Int, d \in Int : b = recv_window[e].buf_messages_ct /\ d = IF seg.final THEN 1 ELSE 0
      BY <1>1 DEF RecvWindow
    <2>2. b + d \in Int
      OBVIOUS
    <2> QED
      BY <2>1, <2>2
  <1>8. PICK lv \in Int, al \in Int : lv = recv_window[e].level - 1 /\ al = recv_window[e].ack_level + 1
    <2>1. recv_window[e].level \in Int /\ recv_window[e].ack_level \in Int
      BY <1>1 DEF RecvWindow
    <2>2. recv_window[e].level - 1 \in Int /\ recv_window[e].ack_level + 1 \in Int
      BY <2>1, SMTT(30)
    <2> QED
      BY <2>2, Zenon
  <1>9. PICK new \in RecvWindow :
          new = [level |-> lv, ack_level |-> al, ack_seq |-> seg.seq, rem_msg_len |-> rem, buf_messages_ct |-> ct]
    BY <1>5, Zenon DEF RecvWindow
  <1>10. new.level = lv /\ new.ack_level = al /\ new.ack_seq = seg.seq
    BY <1>9
  <1>11. recv_window' = [recv_window EXCEPT ![e] = new]
    BY <1>1, <1>3, <1>6, <1>7, <1>8, <1>9 DEF process_incoming
  <1>12. Acknowledged(e, send_window[e], seg.ack) \in SendWindow
    <2>1. PICK last \in Seq_nums : last = send_window[e].last_sent_seq_num
      BY <1>1 DEF SendWindow
    <2>2. CASE seg.ack = NoAck
      BY <1>1, <2>2 DEF Acknowledged
    <2>3. CASE seg.ack # NoAck
      <3>1. Distance(last, seg.ack) \in Seq_nums
        BY <1>5, <2>3, DistanceIs
      <3>2. window_size[e] - Distance(last, seg.ack) \in Int
        BY <1>1, <3>1 DEF Seq_nums
      <3>3. Acknowledged(e, send_window[e], seg.ack) =
              [send_window[e] EXCEPT !.level = window_size[e] - Distance(last, seg.ack)]
        BY <2>1, <2>3 DEF Acknowledged, Distance
      <3> QED
        BY <1>1, <3>2, <3>3, Zenon DEF SendWindow
    <2> QED
      BY <2>2, <2>3
  <1>13. send_window' = [send_window EXCEPT ![e] = Acknowledged(e, @, seg.ack)]
    BY <1>3 DEF process_incoming
  <1>14. gatt' = [gatt EXCEPT ![e] = Tail(@)]
    BY DEF process_incoming
  <1>15. /\ gatt' \in [Ends -> Seq(Seg)] /\ send_window' \in [Ends -> SendWindow]
         /\ recv_window' \in [Ends -> RecvWindow]
    BY <1>1, <1>4, <1>11, <1>12, <1>13, <1>14
  <1>16. recv_window'[e] = new /\ recv_window'[Other(e)] = recv_window[Other(e)]
    BY <1>0, <1>1, <1>11, SMTT(30)
  <1>17. /\ window_size' = window_size /\ handshake_pending' = handshake_pending
         /\ mtu' = mtu /\ handed' = handed /\ outgoing_sdu' = outgoing_sdu
    BY SMTT(30) DEF process_incoming
  <1> QED
    BY <1>2, <1>3, <1>8, <1>10, <1>13, <1>14, <1>15, <1>16, <1>17, Zenon

\* A segment taken on an open connection keeps the two ends in agreement.
LEMMA ReceiveOpen ==
    ASSUME BtpTypes, Open, NEW e \in Ends, process_incoming(e)
    PROVE  Open'
  <1>0. PICK o \in Ends : o = Other(e) /\ o # e /\ Other(o) = e /\ \A f \in Ends : f = e \/ f = o
    BY OtherEnd
  <1>2. /\ gatt \in [Ends -> Seq(Seg)]
        /\ send_window \in [Ends -> SendWindow]
        /\ send_window[e] \in SendWindow /\ send_window[o] \in SendWindow
        /\ recv_window[e] \in RecvWindow /\ recv_window[o] \in RecvWindow
        /\ window_size \in [Ends -> Seq_nums] /\ window_size[o] = window_size[e]
    BY <1>0, SMTT(30) DEF BtpTypes, Open, Ends
  <1>3. PICK w \in Seq_nums, q \in Seq(Seg), a \in Seq(Seg), last \in Seq_nums, level \in Int :
          /\ w = window_size[e] /\ q = gatt[o] /\ a = gatt[e]
          /\ last = send_window[e].last_sent_seq_num /\ level = send_window[e].level
    BY <1>2 DEF SendWindow
  <1>4. PICK sent \in Seq_nums, room \in Int, held \in Int, seq \in Seq_nums, seq_o \in Seq_nums, held_o \in Int,
             free_e \in Int :
          /\ sent = send_window[o].last_sent_seq_num /\ room = send_window[o].level
          /\ held = recv_window[e].ack_level /\ seq = recv_window[e].ack_seq
          /\ held_o = recv_window[o].ack_level /\ seq_o = recv_window[o].ack_seq
          /\ free_e = recv_window[e].level
    BY <1>2, Zenon DEF SendWindow, RecvWindow
  <1>5. /\ a # <<>> /\ ~Head(a).handshake /\ Head(a) \in Seg
        /\ gatt'[o] = q /\ gatt'[e] = Tail(a)
        /\ send_window'[o] = send_window[o] /\ recv_window'[o] = recv_window[o]
        /\ send_window'[e] = Acknowledged(e, send_window[e], Head(a).ack)
        /\ recv_window'[e].level = free_e - 1 /\ recv_window'[e].ack_level = held + 1
        /\ recv_window'[e].ack_seq = Head(a).seq
        /\ window_size' = window_size /\ handshake_pending' = handshake_pending
    BY <1>0, <1>2, <1>3, <1>4, IncomingLemma, SMTT(30)
  <1>6. Link(e) /\ Link(o)
    BY DEF Open
  <1>7. /\ Channel(q, last, seq_o) /\ Ledger(a, last, level, Len(q) + held_o, w)
        /\ Channel(a, sent, seq) /\ Ledger(q, sent, room, Len(a) + held, w)
    BY <1>0, <1>2, <1>3, <1>4, <1>6, ZenonT(30) DEF Link, Outstanding
  <1>8. /\ free_e \in Nat /\ held \in Nat /\ free_e + held = w
        /\ recv_window[o].level \in Nat /\ held_o \in Nat /\ recv_window[o].level + held_o = w
    BY <1>0, <1>2, <1>3, <1>4, <1>6, Zenon DEF Link
  <1>9. PICK n \in Nat : /\ n = Len(a) /\ n >= 1 /\ Len(Tail(a)) = n - 1
                         /\ n + held <= w /\ n < SEQ_NUMS
    <2>1. PICK n \in Nat : n = Len(a) /\ n >= 1 /\ Len(Tail(a)) = n - 1
      <3>1. Len(a) \in Nat \ {0} /\ Len(Tail(a)) = Len(a) - 1
        BY <1>5, TailIs, Zenon
      <3>2. PICK n : n = Len(a)
        OBVIOUS
      <3>3. n \in Nat /\ n >= 1
        BY <3>1, <3>2
      <3> QED
        BY <3>1, <3>2, <3>3
    <2>2. room \in Nat /\ room + (n + held) <= w
      BY <1>7, <2>1 DEF Ledger
    <2>3. w < SEQ_NUMS /\ w \in Int /\ SEQ_NUMS \in Int
      BY BtpAssumption, SMTT(30) DEF Seq_nums
    <2>4. n + held <= w /\ n < SEQ_NUMS
      BY <1>8, <2>2, <2>3, SMTT(30)
    <2> QED
      BY <2>1, <2>4, SMTT(30)
  <1>10. Tail(a) \in Seq(Seg)
    BY <1>5, TailIs, ZenonT(30)
  <1>11. Channel(Tail(a), sent, Head(a).seq)
    BY <1>5, <1>7, <1>9, ChannelTake
  <1>12. (n - 1) + (held + 1) = n + held /\ free_e - 1 \in Nat /\ held + 1 \in Nat /\ (free_e - 1) + (held + 1) = w
    <2>1. free_e \in Nat /\ held \in Nat /\ free_e + held = w /\ n >= 1 /\ n + held <= w
      BY <1>8, <1>9
    <2>2. free_e >= 1
      BY <2>1
    <2> QED
      BY <2>1, <2>2
  <1>13. Ledger(q, sent, room, Len(Tail(a)) + (held + 1), w)
    BY <1>7, <1>9, <1>12, Zenon
  <1>14. PICK out \in Int : out = Len(q) + held_o
    BY <1>8
  <1>15. Ledger(Tail(a), last, IF Head(a).ack = NoAck THEN level ELSE w - Distance(last, Head(a).ack), out, w)
    BY <1>5, <1>7, <1>14, LedgerTake
  <1>16. /\ send_window'[e].last_sent_seq_num = last
         /\ send_window'[e].level = IF Head(a).ack = NoAck THEN level ELSE w - Distance(last, Head(a).ack)
    BY <1>2, <1>3, <1>5, SMTT(30) DEF Acknowledged, SendWindow, Distance
  <1>17. Link(e)'
    BY <1>0, <1>3, <1>4, <1>5, <1>7, <1>12, <1>14, <1>15, <1>16, ZenonT(30) DEF Link, Outstanding
  <1>18. Link(o)'
    BY <1>0, <1>2, <1>3, <1>4, <1>5, <1>8, <1>11, <1>13, ZenonT(30) DEF Link, Outstanding
  <1> QED
    BY <1>0, <1>5, <1>17, <1>18 DEF Open

-----------------------------------------------------------------------------
\* The node may send before the central has the answer: it has nothing to
\* acknowledge, and its segments follow the response.
LEMMA SendOpening ==
    ASSUME BtpTypes, Opening, NEW sdu \in [id : Nat, len : Nat, offset : Int],
           ~handshake_pending, prep_tx_data(Node, sdu)
    PROVE  Opening'
  <1>0. Node \in Ends /\ Central \in Ends /\ Other(Node) = Central /\ Node # Central
    BY DEF Ends, Other, Node, Central
  <1>1. PICK q \in Seq(Seg), w \in Seq_nums, level \in Int, n \in Nat :
          /\ q = gatt[Central] /\ w = window_size[Node] /\ level = send_window[Node].level /\ n = Len(q)
    BY <1>0, SMTT(30) DEF BtpTypes, SendWindow
  <1>2. /\ q # <<>> /\ q[1].handshake /\ level \in Nat /\ level + n = w
        /\ send_window[Node].last_sent_seq_num = n - 1
        /\ \A i \in 2 .. n : ~q[i].handshake /\ q[i].seq = i - 1 /\ q[i].ack = NoAck
    BY <1>1 DEF Opening
  <1>3. pending_ack(Node) = NoAck /\ Acked(Node) = recv_window[Node]
    BY SMTT(30) DEF Opening, pending_ack, Acked
  <1>4. level # 0
    BY <1>1 DEF prep_tx_data, is_full
  <1>5. n >= 1 /\ n < SEQ_NUMS /\ n \in Seq_nums /\ n - 1 \in Seq_nums
    <2>1. w < SEQ_NUMS /\ w \in Int /\ SEQ_NUMS \in Int
      BY BtpAssumption, SMTT(30) DEF Seq_nums
    <2>2. n # 0
      BY <1>1, <1>2, EmptyIs
    <2>3. n >= 1 /\ n < SEQ_NUMS
      BY <1>2, <1>4, <2>1, <2>2
    <2> QED
      BY <2>1, <2>3 DEF Seq_nums
  <1>6. ((n - 1) + 1) % SEQ_NUMS = n
    <2>1. PICK m \in Seq_nums : m = n - 1 /\ m # SEQ_NUMS - 1 /\ m + 1 = n
      BY <1>5, BtpAssumption, SMTT(30)
    <2> QED
      BY <2>1, Successor
  <1>7. PICK seg \in Seg : /\ seg = Segment(Node, sdu) /\ ~seg.handshake /\ seg.ack = NoAck /\ seg.seq = n
    <2>1. /\ Segment(Node, sdu) \in Seg /\ ~Segment(Node, sdu).handshake
          /\ Segment(Node, sdu).seq = (send_window[Node].last_sent_seq_num + 1) % SEQ_NUMS
          /\ Segment(Node, sdu).ack = pending_ack(Node)
      BY <1>0, SegmentType, SMTT(30)
    <2>2. Segment(Node, sdu).seq = n
      BY <1>2, <1>6, <2>1, SMTT(30)
    <2> QED
      BY <1>3, <2>1, <2>2, SMTT(30)
  <1>8. /\ gatt'[Central] = Append(q, seg) /\ gatt'[Node] = gatt[Node]
        /\ send_window'[Node].level = level - 1 /\ send_window'[Node].last_sent_seq_num = n
        /\ send_window'[Central] = send_window[Central] /\ recv_window'[Central] = recv_window[Central]
        /\ recv_window'[Node] = recv_window[Node]
        /\ window_size' = window_size /\ handshake_pending' = handshake_pending
    <2>1. gatt \in [Ends -> Seq(Seg)]
      BY SMTT(30) DEF BtpTypes
    <2>2. gatt' = [gatt EXCEPT ![Central] = Append(@, seg)]
      BY <1>0, <1>7, PrepLemma, SMTT(30)
    <2>3. /\ send_window'[Node].level = level - 1 /\ send_window'[Node].last_sent_seq_num = n
          /\ send_window'[Central] = send_window[Central] /\ recv_window'[Central] = recv_window[Central]
          /\ recv_window'[Node] = recv_window[Node]
          /\ window_size' = window_size /\ handshake_pending' = handshake_pending
      <3>1. /\ send_window'[Node].level = send_window[Node].level - 1
            /\ send_window'[Node].last_sent_seq_num = (send_window[Node].last_sent_seq_num + 1) % SEQ_NUMS
            /\ send_window'[Central] = send_window[Central] /\ recv_window'[Central] = recv_window[Central]
            /\ recv_window'[Node] = Acked(Node)
            /\ window_size' = window_size /\ handshake_pending' = handshake_pending
        BY <1>0, PrepLemma, Zenon
      <3>2. send_window[Node].last_sent_seq_num = n - 1 /\ send_window[Node].level = level
        BY <1>1, <1>2, Zenon
      <3> QED
        BY <1>3, <1>6, <3>1, <3>2, Zenon
    <2> QED
      BY <1>0, <1>1, <2>1, <2>2, <2>3
  <1>9. /\ Len(Append(q, seg)) = n + 1 /\ Append(q, seg) # <<>>
        /\ \A i \in 1 .. n : Append(q, seg)[i] = q[i]
        /\ Append(q, seg)[n + 1] = seg
    BY <1>1, AppendIs
  <1>10. PICK q2 : q2 = Append(q, seg)
    BY Zenon
  <1>11. ASSUME NEW i \in 2 .. n + 1
         PROVE  ~q2[i].handshake /\ q2[i].seq = i - 1 /\ q2[i].ack = NoAck
    <2>1. CASE i = n + 1
      BY <1>7, <1>9, <1>10, <2>1
    <2>2. CASE i # n + 1
      <3>1. i \in 2 .. n /\ i \in 1 .. n
        BY <2>2
      <3> QED
        BY <1>2, <1>9, <1>10, <3>1, SMTT(30)
    <2> QED
      BY <2>1, <2>2
  <1>12. q2 # <<>> /\ q2[1].handshake /\ Len(q2) = n + 1
    BY <1>2, <1>5, <1>9, <1>10, SMTT(30)
  <1>13. level - 1 \in Nat /\ (level - 1) + (n + 1) = w /\ (n + 1) - 1 = n
    BY <1>2, <1>4, SMTT(30)
  <1>14. /\ gatt'[Central] = q2 /\ gatt'[Central] # <<>> /\ gatt'[Central][1].handshake
         /\ Len(gatt'[Central]) = n + 1
         /\ send_window'[Node].last_sent_seq_num = Len(gatt'[Central]) - 1
         /\ send_window'[Node].level \in Nat
         /\ send_window'[Node].level + Len(gatt'[Central]) = window_size'[Node]
    BY <1>1, <1>8, <1>10, <1>12, <1>13, SMTT(30)
  <1>15. \A i \in 2 .. Len(gatt'[Central]) :
           /\ ~gatt'[Central][i].handshake
           /\ gatt'[Central][i].seq = i - 1 /\ gatt'[Central][i].ack = NoAck
    BY <1>11, <1>14
  <1> QED
    BY <1>8, <1>14, <1>15 DEF Opening

\* A request of the central opens the connection.
LEMMA RequestLemma ==
    ASSUME BtpTypes, Closed, NEW r \in Requests, process_rx_handshake_req(r)
    PROVE  BtpTypes' /\ Opening'
  <1>0. Node \in Ends /\ Central \in Ends /\ Node # Central
    BY DEF Ends, Node, Central
  <1>1. PICK w \in Seq_nums, m \in Nat : w = negotiated_window(r) /\ m = negotiated_mtu(r) /\ w # 0
    BY BtpAssumption DEF Seq_nums
  <1>2. /\ mtu' = m /\ window_size' = [window_size EXCEPT ![Node] = w] /\ handshake_pending' = TRUE
        /\ send_window' = [send_window EXCEPT ![Node].level = w]
        /\ recv_window' = [recv_window EXCEPT ![Node].level = w]
        /\ outgoing_sdu' = outgoing_sdu /\ gatt' = gatt /\ handed' = handed
    BY <1>1 DEF process_rx_handshake_req
  <1>3. BtpTypes'
    <2>1. w \in Int
      BY BtpAssumption DEF Seq_nums
    <2>2. send_window' \in [Ends -> SendWindow]
      BY <1>0, <1>2, <2>1, Zenon DEF BtpTypes, SendWindow
    <2>3. recv_window' \in [Ends -> RecvWindow]
      BY <1>0, <1>2, <2>1, Zenon DEF BtpTypes, RecvWindow
    <2>4. window_size' \in [Ends -> Seq_nums]
      BY <1>0, <1>1, <1>2 DEF BtpTypes
    <2> QED
      BY <1>1, <1>2, <2>2, <2>3, <2>4 DEF BtpTypes
  <1>4. w \in Nat /\ w + 0 = w
    BY BtpAssumption DEF Seq_nums
  <1>5. window_size'[Node] = w /\ window_size'[Central] = 0
    BY <1>0, <1>2 DEF Closed, Zero
  <1>6. /\ send_window'[Node].level = w /\ send_window'[Node].last_sent_seq_num = SEQ_NUMS - 1
        /\ send_window'[Central] = NewSend[Central]
    BY <1>0, <1>2 DEF Closed, NewSend
  <1>7. /\ recv_window'[Node].level = w /\ recv_window'[Node].ack_level = 0
        /\ recv_window'[Node].ack_seq = SEQ_NUMS - 1 /\ recv_window'[Central] = NewRecv[Central]
    BY <1>0, <1>2 DEF Closed, NewRecv
  <1>8. gatt'[Node] = <<>> /\ gatt'[Central] = <<>> /\ Len(gatt'[Central]) = 0
    BY <1>0, <1>2, SMTT(30) DEF Closed, Nothing
  <1> QED
    BY <1>1, <1>2, <1>3, <1>4, <1>5, <1>6, <1>7, <1>8 DEF Opening

\* The node answers.
LEMMA ResponseLemma ==
    ASSUME BtpTypes, Opening, prep_tx_handshake_resp
    PROVE  BtpTypes' /\ Opening'
  <1>0. Node \in Ends /\ Central \in Ends /\ Node # Central
    BY DEF Ends, Node, Central
  <1>1. PICK seg \in Seg : seg = [handshake |-> TRUE] /\ seg.handshake
    <2>1. [handshake |-> TRUE] \in Seg
      BY DEF Seg
    <2>2. [handshake |-> TRUE].handshake
      BY Zenon
    <2> QED
      BY <2>1, <2>2, Zenon
  <1>2. /\ handshake_pending /\ handshake_pending' = FALSE
        /\ send_window' = [send_window EXCEPT ![Node] = Sent(@)]
        /\ gatt' = [gatt EXCEPT ![Central] = Append(@, seg)]
        /\ UNCHANGED <<window_size, mtu, recv_window, outgoing_sdu, handed>>
    BY <1>1 DEF prep_tx_handshake_resp
  <1>3. PICK w \in Seq_nums : w = window_size[Node] /\ w # 0 /\ w \in Nat
    BY <1>0, BtpAssumption, SMTT(30) DEF BtpTypes, Opening, Seq_nums
  <1>4. /\ gatt[Central] = <<>> /\ gatt[Node] = <<>> /\ send_window[Node].last_sent_seq_num = SEQ_NUMS - 1
        /\ send_window[Node].level = w
    <2>1. /\ gatt[Central] = <<>> /\ gatt[Node] = <<>> /\ send_window[Node].last_sent_seq_num = SEQ_NUMS - 1
          /\ send_window[Node].level \in Nat /\ send_window[Node].level + Len(gatt[Central]) = w
      BY <1>2, <1>3 DEF Opening
    <2> QED
      BY <2>1, SMTT(30)
  <1>5. ((SEQ_NUMS - 1) + 1) % SEQ_NUMS = 0
    <2>1. PICK m \in Seq_nums : m = SEQ_NUMS - 1
      BY BtpAssumption, SMTT(30) DEF Seq_nums
    <2> QED
      BY <2>1, Successor
  <1>6. Sent(send_window[Node]) = [level |-> w - 1, last_sent_seq_num |-> 0]
    BY <1>4, <1>5, SMTT(30) DEF Sent
  <1>7. /\ send_window' \in [Ends -> SendWindow] /\ send_window'[Node] = [level |-> w - 1, last_sent_seq_num |-> 0]
        /\ send_window'[Central] = send_window[Central]
    <2>1. [level |-> w - 1, last_sent_seq_num |-> 0] \in SendWindow
      BY <1>3, BtpAssumption, SMTT(30) DEF SendWindow, Seq_nums
    <2> QED
      BY <1>0, <1>2, <1>6, <2>1, SMTT(30) DEF BtpTypes
  <1>8. /\ gatt' \in [Ends -> Seq(Seg)] /\ gatt'[Node] = <<>>
        /\ gatt'[Central] = Append(<<>>, seg)
    <2>1. Append(<<>>, seg) \in Seq(Seg)
      BY AppendIs, EmptyIs, SMTT(30)
    <2> QED
      BY <1>0, <1>2, <1>4, <2>1, SMTT(30) DEF BtpTypes
  <1>9. Append(<<>>, seg) # <<>> /\ Len(Append(<<>>, seg)) = 1 /\ Append(<<>>, seg)[1] = seg
    BY AppendIs, EmptyIs
  <1>10. BtpTypes'
    BY <1>2, <1>7, <1>8, Zenon DEF BtpTypes
  <1>11. w - 1 \in Nat /\ (w - 1) + 1 = w
    BY <1>3, SMTT(30)
  <1>12. send_window'[Node].level = w - 1 /\ send_window'[Node].last_sent_seq_num = 1 - 1
    BY <1>7
  <1>13. ~handshake_pending' /\ \A i \in 2 .. 1 : FALSE
    BY <1>2, SMTT(30)
  <1> QED
    BY <1>1, <1>2, <1>3, <1>7, <1>8, <1>9, <1>10, <1>11, <1>12, <1>13, ZenonT(30) DEF Opening

\* The central takes the response: from here on the ends agree.
LEMMA ArrivalLemma ==
    ASSUME BtpTypes, Opening, handshake_resp_arrives
    PROVE  BtpTypes' /\ Open'
  <1>0. /\ Node \in Ends /\ Central \in Ends /\ Node # Central /\ Other(Node) = Central /\ Other(Central) = Node
        /\ \A e \in Ends : e = Node \/ e = Central
    BY DEF Ends, Node, Central, Other
  <1>1. PICK q \in Seq(Seg), w \in Seq_nums, level \in Int, n \in Nat :
          /\ q = gatt[Central] /\ w = window_size[Node] /\ level = send_window[Node].level /\ n = Len(q)
    BY <1>0, SMTT(30) DEF BtpTypes, SendWindow
  <1>2. /\ q # <<>> /\ level \in Nat /\ level + n = w /\ w # 0 /\ ~handshake_pending
        /\ send_window[Node].last_sent_seq_num = n - 1
        /\ \A i \in 2 .. n : ~q[i].handshake /\ q[i].seq = i - 1 /\ q[i].ack = NoAck
    BY <1>1 DEF Opening, handshake_resp_arrives
  <1>3. w \in Nat /\ w < SEQ_NUMS /\ SEQ_NUMS \in Nat /\ w - 1 \in Nat /\ n >= 1 /\ n <= w
    <2>1. w \in Nat /\ w < SEQ_NUMS /\ SEQ_NUMS \in Nat
      BY BtpAssumption, SMTT(30) DEF Seq_nums
    <2>2. n # 0
      BY <1>1, <1>2, EmptyIs
    <2> QED
      BY <1>2, <2>1, <2>2
  <1>4. PICK t \in Seq(Seg) : /\ t = Tail(q) /\ Len(t) = n - 1 /\ \A i \in 1 .. n - 1 : t[i] = q[i + 1]
    <2>1. /\ Tail(q) \in Seq(Seg) /\ Len(Tail(q)) = Len(q) - 1
          /\ \A i \in 1 .. Len(q) - 1 : Tail(q)[i] = q[i + 1]
      BY <1>2, TailIs
    <2> QED
      BY <1>1, <2>1, Zenon
  <1>5. PICK s : s = [NewSend[Central] EXCEPT !.level = w]
    BY Zenon
  <1>6. PICK r : r = [NewRecv[Central] EXCEPT !.level = w - 1, !.ack_level = 1, !.ack_seq = 0]
    OBVIOUS
  <1>7. /\ window_size' = [window_size EXCEPT ![Central] = w]
        /\ send_window' = [send_window EXCEPT ![Central] = s]
        /\ recv_window' = [recv_window EXCEPT ![Central] = r]
        /\ gatt' = [gatt EXCEPT ![Central] = t]
        /\ UNCHANGED <<mtu, handshake_pending, outgoing_sdu, handed>>
    <2>1. send_window[Central] = NewSend[Central] /\ recv_window[Central] = NewRecv[Central]
      BY DEF Opening
    <2>2. send_window' = [send_window EXCEPT ![Central] = s]
      BY <1>0, <1>1, <1>5, <2>1 DEF handshake_resp_arrives, BtpTypes
    <2>3. recv_window' = [recv_window EXCEPT ![Central] = r]
      BY <1>1, <1>6, <2>1, Zenon DEF handshake_resp_arrives
    <2> QED
      BY <1>1, <1>4, <2>2, <2>3, Zenon DEF handshake_resp_arrives
  <1>8. s \in SendWindow /\ s.level = w /\ s.last_sent_seq_num = SEQ_NUMS - 1
    BY <1>0, <1>3, <1>5, SMTT(30) DEF NewSend, SendWindow, Seq_nums
  <1>9. r \in RecvWindow /\ r.level = w - 1 /\ r.ack_level = 1 /\ r.ack_seq = 0
    <2>1. PICK u : u = [NewRecv[Central] EXCEPT !.level = w - 1]
      BY Zenon
    <2>2. PICK v : v = [u EXCEPT !.ack_level = 1]
      BY Zenon
    <2>3. r = [v EXCEPT !.ack_seq = 0]
      BY <1>6, <2>1, <2>2, Zenon
    <2>4. u \in RecvWindow /\ u.level = w - 1
      BY <1>0, <1>3, <2>1, SMTT(30) DEF NewRecv, RecvWindow, Seq_nums
    <2>5. v \in RecvWindow /\ v.level = u.level /\ v.ack_level = 1
      BY <2>2, <2>4, SMTT(30) DEF RecvWindow
    <2>6. 0 \in Seq_nums
      BY <1>3 DEF Seq_nums
    <2>7. r \in RecvWindow /\ r.level = v.level /\ r.ack_level = v.ack_level /\ r.ack_seq = 0
      BY <2>3, <2>5, <2>6, SMTT(30) DEF RecvWindow
    <2> QED
      BY <2>4, <2>5, <2>7, Zenon
  <1>10. BtpTypes'
    <2>1. window_size' \in [Ends -> Seq_nums] /\ gatt' \in [Ends -> Seq(Seg)]
      BY <1>0, <1>7, SMTT(30) DEF BtpTypes
    <2>2. send_window' \in [Ends -> SendWindow] /\ recv_window' \in [Ends -> RecvWindow]
      BY <1>0, <1>7, <1>8, <1>9, SMTT(30) DEF BtpTypes
    <2> QED
      BY <1>7, <2>1, <2>2, SMTT(30) DEF BtpTypes
  <1>11. /\ window_size'[Node] = w /\ window_size'[Central] = w
         /\ send_window'[Node] = send_window[Node] /\ send_window'[Central] = s
         /\ recv_window'[Node] = recv_window[Node] /\ recv_window'[Central] = r
         /\ gatt'[Node] = <<>> /\ gatt'[Central] = t
    <2>1. /\ window_size \in [Ends -> Seq_nums] /\ gatt \in [Ends -> Seq(Seg)]
          /\ send_window \in [Ends -> SendWindow] /\ recv_window \in [Ends -> RecvWindow]
      BY Zenon DEF BtpTypes
    <2>2. gatt[Node] = <<>>
      BY Zenon DEF Opening
    <2>3. window_size'[Node] = w /\ window_size'[Central] = w /\ gatt'[Node] = <<>> /\ gatt'[Central] = t
      BY <1>0, <1>1, <1>7, <2>1, <2>2
    <2>4. /\ send_window'[Node] = send_window[Node] /\ send_window'[Central] = s
          /\ recv_window'[Node] = recv_window[Node] /\ recv_window'[Central] = r
      BY <1>0, <1>7, <2>1
    <2> QED
      BY <2>3, <2>4
  <1>12. /\ recv_window[Node].level = w /\ recv_window[Node].ack_level = 0 /\ recv_window[Node].ack_seq = SEQ_NUMS - 1
    BY <1>1, Zenon DEF Opening
  <1>13. Channel(t, n - 1, 0)
    <2>1. (0 + (n - 1)) % SEQ_NUMS = n - 1
      BY <1>3, SMTT(30)
    <2>2. ASSUME NEW i \in 1 .. n - 1
          PROVE  ~t[i].handshake /\ t[i].seq = (0 + i) % SEQ_NUMS
      <3>1. i + 1 \in 2 .. n /\ (0 + i) % SEQ_NUMS = i /\ (i + 1) - 1 = i
        BY <1>3, SMTT(30)
      <3> QED
        BY <1>2, <1>4, <3>1
    <2> QED
      BY <1>4, <2>1, <2>2 DEF Channel
  <1>14. Acks(t) = {} /\ Acks(<<>>) = {} /\ Len(<<>>) = 0
    <2>1. ASSUME NEW i \in 1 .. n - 1
          PROVE  t[i].ack = NoAck
      <3>1. i + 1 \in 2 .. n
        BY <1>3, SMTT(30)
      <3> QED
        BY <1>2, <1>4, <3>1
    <2> QED
      BY <1>4, <2>1, SMTT(30) DEF Acks
  <1>15. PICK out \in Nat : out = Len(t) + 1 /\ level + out = w
    BY <1>2, <1>3, <1>4, SMTT(30)
  <1>16. Ledger(<<>>, n - 1, level, out, w)
    BY <1>2, <1>3, <1>14, <1>15, SMTT(30) DEF Ledger
  <1>17. Channel(<<>>, SEQ_NUMS - 1, SEQ_NUMS - 1)
    <2>1. ((SEQ_NUMS - 1) + 0) % SEQ_NUMS = SEQ_NUMS - 1
      BY BtpAssumption, SMTT(30)
    <2> QED
      BY <1>14, <2>1 DEF Channel
  <1>18. Ledger(t, SEQ_NUMS - 1, w, 0, w)
    BY <1>3, <1>14, SMTT(30) DEF Ledger
  <1>19. Link(Node)'
    <2>1. /\ Channel(t, send_window'[Node].last_sent_seq_num, r.ack_seq)
          /\ Ledger(<<>>, send_window'[Node].last_sent_seq_num, send_window'[Node].level, Len(t) + r.ack_level, w)
      BY <1>1, <1>2, <1>9, <1>11, <1>13, <1>15, <1>16, Zenon
    <2>2. w + 0 = w /\ w \in Nat /\ 0 \in Nat
      BY <1>3
    <2> QED
      BY <1>0, <1>11, <1>12, <2>1, <2>2, Zenon DEF Link, Outstanding
  <1>20. Link(Central)'
    <2>1. (w - 1) + 1 = w /\ 0 + 0 = 0 /\ w - 1 \in Nat /\ 1 \in Nat
      BY <1>3
    <2> QED
      BY <1>0, <1>8, <1>9, <1>11, <1>12, <1>14, <1>17, <1>18, <2>1 DEF Link, Outstanding
  <1> QED
    BY <1>0, <1>2, <1>7, <1>10, <1>11, <1>19, <1>20 DEF Open

\* The session starts closed, and Btp::reset closes it.
LEMMA ClosedTypes ==
    ASSUME Closed, mtu = 0, outgoing_sdu = [e \in Ends |-> NoSdu], handed = Zero
    PROVE  BtpTypes
  <1>1. SEQ_NUMS - 1 \in Seq_nums /\ 0 \in Seq_nums
    BY BtpAssumption DEF Seq_nums
  <1>2. window_size \in [Ends -> Seq_nums] /\ handed \in [Ends -> Nat]
    BY <1>1 DEF Closed, Zero
  <1>3. send_window \in [Ends -> SendWindow]
    BY <1>1 DEF Closed, NewSend, SendWindow
  <1>4. recv_window \in [Ends -> RecvWindow]
    BY <1>1 DEF Closed, NewRecv, RecvWindow
  <1>5. gatt \in [Ends -> Seq(Seg)]
    BY DEF Closed, Nothing
  <1>6. outgoing_sdu \in [Ends -> [id : Nat, len : Nat, offset : Int]]
    BY DEF NoSdu
  <1>7. handshake_pending \in BOOLEAN
    BY Zenon DEF Closed
  <1> QED
    BY <1>2, <1>3, <1>4, <1>5, <1>6, <1>7 DEF BtpTypes

\* What sends: a segment of the message, or an acknowledgement that is due.
LEMMA OutgoingLemma ==
    ASSUME BtpInv, NEW e \in Ends, NEW sdu \in [id : Nat, len : Nat, offset : Int],
           window_size[e] # 0, ~(e = Node /\ handshake_pending), prep_tx_data(e, sdu),
           outgoing_sdu' \in [Ends -> [id : Nat, len : Nat, offset : Int]]
    PROVE  BtpInv'
  <1>1. BtpTypes'
    BY PrepLemma, Zenon DEF BtpInv, BtpTypes
  <1>2. CASE Closed
    BY <1>2 DEF Closed, Zero
  <1>3. CASE Opening
    <2>1. e = Node
      BY <1>3, SMTT(30) DEF Opening, Ends
    <2> QED
      BY <1>1, <1>3, <2>1, SendOpening DEF BtpInv
  <1>4. CASE Open
    BY <1>1, <1>4, SendOpen DEF BtpInv
  <1> QED
    BY <1>2, <1>3, <1>4 DEF BtpInv

\* A segment arrives only on an open connection.
LEMMA InTransit ==
    ASSUME BtpInv, NEW e \in Ends, process_incoming(e)
    PROVE  BtpInv'
  <1>0. e = Node \/ e = Central
    BY SMTT(30) DEF Ends
  <1>1. BtpTypes'
    BY IncomingLemma, Zenon DEF BtpInv, BtpTypes
  <1>2. CASE Closed
    BY <1>2 DEF Closed, Nothing, process_incoming
  <1>3. CASE Opening
    <2>1. gatt[e] # <<>> /\ ~Head(gatt[e]).handshake
      BY DEF process_incoming
    <2>2. e = Central /\ gatt[Central] # <<>>
      BY <1>0, <1>3, <2>1 DEF Opening
    <2>3. gatt[Central] \in Seq(Seg)
      BY <2>2, SMTT(30) DEF BtpInv, BtpTypes
    <2>4. Head(gatt[Central]) = gatt[Central][1]
      BY <2>2, <2>3, TailIs, Zenon
    <2>5. gatt[Central][1].handshake
      BY <1>3, <2>2 DEF Opening
    <2> QED
      BY <2>1, <2>2, <2>4, <2>5, SMTT(30)
  <1>4. CASE Open
    BY <1>1, <1>4, ReceiveOpen DEF BtpInv
  <1> QED
    BY <1>2, <1>3, <1>4 DEF BtpInv

\* The handshake goes its way once.
LEMMA HandshakeLemma ==
    ASSUME BtpInv, Handshake
    PROVE  BtpInv'
  <1>0. Node \in Ends /\ Central \in Ends
    BY DEF Ends
  <1>1. CASE \E r \in Requests : process_rx_handshake_req(r)
    <2>1. PICK r \in Requests : process_rx_handshake_req(r)
      BY <1>1
    <2>2. window_size[Node] = 0
      BY <2>1, SMTT(30) DEF process_rx_handshake_req
    <2>3. Closed
      BY <2>2 DEF BtpInv, Opening, Open
    <2> QED
      BY <2>1, <2>3, RequestLemma DEF BtpInv
  <1>2. CASE prep_tx_handshake_resp
    <2>1. handshake_pending
      BY <1>2 DEF prep_tx_handshake_resp
    <2>2. Opening
      BY <2>1 DEF BtpInv, Closed, Open
    <2> QED
      BY <1>2, <2>2, ResponseLemma DEF BtpInv
  <1>3. CASE handshake_resp_arrives
    <2>1. gatt[Central] # <<>> /\ Head(gatt[Central]).handshake
      BY <1>3 DEF handshake_resp_arrives
    <2>2. ~Closed
      BY <1>0, <2>1 DEF Closed, Nothing
    <2>3. ASSUME Open PROVE FALSE
      <3>1. Other(Node) = Central /\ gatt[Central] \in Seq(Seg)
        BY <1>0, SMTT(30) DEF Other, BtpInv, BtpTypes
      <3>2. \A i \in 1 .. Len(gatt[Central]) : ~gatt[Central][i].handshake
        BY <1>0, <2>3, <3>1 DEF Open, Link, Channel
      <3>3. Head(gatt[Central]) = gatt[Central][1] /\ Len(gatt[Central]) \in Nat \ {0}
        BY <2>1, <3>1, EmptyIs, TailIs
      <3> QED
        BY <2>1, <3>2, <3>3
    <2> QED
      BY <1>3, <2>2, <2>3, ArrivalLemma DEF BtpInv
  <1> QED
    BY <1>1, <1>2, <1>3 DEF Handshake

\* What the application above takes and hands over leaves the windows alone.
LEMMA ApplicationLemma ==
    ASSUME BtpInv, NEW e \in Ends, recv(e) \/ \E len \in Lengths : send(e, len)
    PROVE  BtpInv'
  <1>0. Node \in Ends /\ Central \in Ends /\ (e = Node \/ e = Central)
    BY DEF Ends
  <1>1. CASE recv(e)
    <2>1. PICK ct \in Int : ct = recv_window[e].buf_messages_ct - 1 /\ recv_window[e].buf_messages_ct \in Int
      BY DEF BtpInv, BtpTypes, RecvWindow
    <2>2. /\ recv_window[e].buf_messages_ct > 0
          /\ recv_window' = [recv_window EXCEPT ![e] = [@ EXCEPT !.buf_messages_ct = ct]]
          /\ UNCHANGED <<window_size, mtu, handshake_pending, send_window, outgoing_sdu, gatt, handed>>
      BY <1>1, <2>1 DEF recv, BtpInv, BtpTypes
    <2>3. /\ recv_window' \in [Ends -> RecvWindow]
          /\ \A f \in Ends : /\ recv_window'[f].level = recv_window[f].level
                             /\ recv_window'[f].ack_level = recv_window[f].ack_level
                             /\ recv_window'[f].ack_seq = recv_window[f].ack_seq
                             /\ f # e => recv_window'[f] = recv_window[f]
      BY <2>2, ZenonT(30) DEF BtpInv, BtpTypes, RecvWindow
    <2>4. BtpTypes'
      BY <2>2, <2>3 DEF BtpInv, BtpTypes
    <2>5. ~Closed
      BY <2>1, <2>2 DEF Closed, NewRecv
    <2>6. Opening => Opening'
      <3>1. SUFFICES ASSUME Opening PROVE Opening'
        OBVIOUS
      <3>2. recv_window[Central] = NewRecv[Central] /\ NewRecv[Central].buf_messages_ct = 0
        BY <1>0, <3>1 DEF Opening, NewRecv
      <3>3. e = Node /\ Central # e
        BY <1>0, <2>2, <3>2 DEF Node, Central
      <3>4. recv_window'[Central] = recv_window[Central]
        BY <1>0, <2>3, <3>3
      <3> QED
        BY <1>0, <2>2, <2>3, <3>1, <3>4 DEF Opening
    <2>7. Open => Open'
      <3>1. \A f \in Ends : Other(f) \in Ends
        BY OtherEnd
      <3>2. ASSUME NEW f \in Ends, Link(f) PROVE Link(f)'
        BY <2>2, <2>3, <3>1, <3>2 DEF Link, Outstanding
      <3> QED
        BY <2>2, <3>2 DEF Open
    <2> QED
      BY <2>4, <2>5, <2>6, <2>7 DEF BtpInv
  <1>2. CASE \E len \in Lengths : send(e, len)
    <2>1. PICK len \in Lengths : send(e, len)
      BY <1>2
    <2>2. PICK h \in Nat : h = handed[e] + 1 /\ len \in Nat
      BY BtpAssumption, SMTT(30) DEF BtpInv, BtpTypes
    <2>3. /\ outgoing_sdu' = [outgoing_sdu EXCEPT ![e] = [id |-> h, len |-> len, offset |-> 0]]
          /\ handed' = [handed EXCEPT ![e] = h]
          /\ UNCHANGED <<window_size, mtu, handshake_pending, send_window, recv_window, gatt>>
      BY <2>1, <2>2, SMTT(30) DEF send, windowVars, BtpInv, BtpTypes
    <2>4. BtpTypes'
      <3>1. handed' \in [Ends -> Nat] /\ outgoing_sdu' \in [Ends -> [id : Nat, len : Nat, offset : Int]]
        BY <2>2, <2>3, SMTT(30) DEF BtpInv, BtpTypes
      <3> QED
        BY <2>3, <3>1, Zenon DEF BtpInv, BtpTypes
    <2>5. (Closed => Closed') /\ (Opening => Opening')
      BY <2>3, ZenonT(30) DEF Closed, Opening
    <2>6. Open => Open'
      BY <2>3, Zenon DEF Open, Link, Outstanding
    <2> QED
      BY <2>4, <2>5, <2>6 DEF BtpInv
  <1> QED
    BY <1>1, <1>2

\* A disconnection leaves a connection that is closed (BtpInner::reset).
LEMMA ResetLemma == reset => BtpInv'
  <1>1. SUFFICES ASSUME reset PROVE BtpInv'
    OBVIOUS
  <1>2. Closed' /\ (mtu = 0 /\ outgoing_sdu = [e \in Ends |-> NoSdu] /\ handed = Zero)'
    BY <1>1 DEF reset, Closed
  <1>3. BtpTypes'
    BY <1>2, ClosedTypes, PTL
  <1> QED
    BY <1>2, <1>3 DEF BtpInv

\* What the two ends hold is an invariant of a connection.
LEMMA BtpInductive == BtpSpec => []BtpInv
  <1>1. BtpInit => BtpInv
    <2>1. SUFFICES ASSUME BtpInit PROVE BtpInv
      OBVIOUS
    <2>2. Closed /\ mtu = 0 /\ outgoing_sdu = [e \in Ends |-> NoSdu] /\ handed = Zero
      BY <2>1 DEF BtpInit, Closed
    <2> QED
      BY <2>2, ClosedTypes DEF BtpInv
  <1>2. BtpInv /\ [BtpNext]_btpVars => BtpInv'
    <2>1. SUFFICES ASSUME BtpInv, [BtpNext]_btpVars PROVE BtpInv'
      OBVIOUS
    <2>2. CASE Handshake
      BY <2>1, <2>2, HandshakeLemma
    <2>3. ASSUME NEW e \in Ends, process_outgoing_data(e) PROVE BtpInv'
      <3>1. outgoing_sdu \in [Ends -> [id : Nat, len : Nat, offset : Int]] /\ BtpTypes
        BY <2>1, SMTT(30) DEF BtpInv, BtpTypes
      <3>2. Segment(e, outgoing_sdu[e]).len \in Int
        BY <3>1, SegmentType
      <3>3. PICK offset \in Int : offset = outgoing_sdu[e].offset + Segment(e, outgoing_sdu[e]).len
        BY <3>1, <3>2
      <3>4. outgoing_sdu' = [outgoing_sdu EXCEPT ![e] =
                               IF offset = @.len THEN NoSdu ELSE [@ EXCEPT !.offset = offset]]
        BY <2>3, <3>3 DEF process_outgoing_data
      <3>5. /\ NoSdu \in [id : Nat, len : Nat, offset : Int]
            /\ [outgoing_sdu[e] EXCEPT !.offset = offset] \in [id : Nat, len : Nat, offset : Int]
        BY <3>1 DEF NoSdu
      <3>6. outgoing_sdu' \in [Ends -> [id : Nat, len : Nat, offset : Int]]
        BY <3>1, <3>4, <3>5
      <3>7. /\ window_size[e] # 0 /\ ~(e = Node /\ handshake_pending)
            /\ prep_tx_data(e, outgoing_sdu[e])
        BY <2>3 DEF process_outgoing_data
      <3> QED
        BY <2>1, <3>1, <3>6, <3>7, OutgoingLemma, SMTT(30)
    <2>4. ASSUME NEW e \in Ends, NEW elapsed \in BOOLEAN, process_outgoing_ack(e, elapsed) PROVE BtpInv'
      <3>1. window_size[e] # 0 /\ ~(e = Node /\ handshake_pending)
        BY <2>4 DEF process_outgoing_ack
      <3>2. CASE prep_tx_data(e, NoSdu) /\ UNCHANGED outgoing_sdu
        <4>1. NoSdu \in [id : Nat, len : Nat, offset : Int]
          BY DEF NoSdu
        <4>2. outgoing_sdu' \in [Ends -> [id : Nat, len : Nat, offset : Int]]
          BY <2>1, <3>2, SMTT(30) DEF BtpInv, BtpTypes
        <4> QED
          BY <2>1, <3>1, <3>2, <4>1, <4>2, OutgoingLemma
      <3>3. CASE UNCHANGED <<windowVars, buf, outgoing_sdu, gatt, handed, fetched>>
        BY <2>1, <3>3, Zenon DEF BtpInv, BtpTypes, Closed, Opening, Open, Link, Outstanding, windowVars
      <3> QED
        BY <2>4, <3>2, <3>3 DEF process_outgoing_ack
    <2>5. ASSUME NEW e \in Ends, process_incoming(e) PROVE BtpInv'
      BY <2>1, <2>5, InTransit
    <2>6. ASSUME NEW e \in Ends, recv(e) \/ \E len \in Lengths : send(e, len) PROVE BtpInv'
      BY <2>1, <2>6, ApplicationLemma
    <2>7. CASE disconnect \/ wait_complete
      BY <2>7, ResetLemma, SMTT(30) DEF disconnect, wait_complete
    <2>8. CASE UNCHANGED btpVars
      BY <2>1, <2>8, Zenon DEF BtpInv, BtpTypes, Closed, Opening, Open, Link, Outstanding, btpVars, windowVars
    <2> QED
      BY <2>1, <2>2, <2>3, <2>4, <2>5, <2>6, <2>7, <2>8 DEF BtpNext, BtpStep
  <1> QED
    BY <1>1, <1>2, PTL DEF BtpSpec

\* What an end may still send, what is on its way and what the other end has not
\* acknowledged make up the window, or an acknowledgement is on its way
\* (SendWindow::accept_incoming, RecvWindow::post_send).
THEOREM WindowsStayInAgreement == BtpSpec => []WindowsAgree
  <1>1. BtpInv => WindowsAgree
    <2>1. SUFFICES ASSUME BtpInv, NEW e \in Ends, window_size[e] # 0, window_size[Other(e)] # 0
                   PROVE  /\ recv_window[e].level + recv_window[e].ack_level = window_size[e]
                          /\ send_window[e].level + Outstanding(e) <= window_size[e]
                          /\ ~AckInFlight(e) => send_window[e].level + Outstanding(e) = window_size[e]
      BY Zenon DEF WindowsAgree, Outstanding
    <2>2. Open
      <3>1. ~Closed
        BY <2>1 DEF Closed, Zero
      <3>2. window_size[Central] # 0
        BY <2>1 DEF Ends, Other
      <3> QED
        BY <2>1, <3>1, <3>2 DEF BtpInv, Opening
    <2>3. Link(e)
      BY <2>2, SMTT(30) DEF Open
    <2>4. ~AckInFlight(e) => Acks(gatt[e]) = {}
      <3>1. DOMAIN gatt[e] = 1 .. Len(gatt[e])
        BY <2>1 DEF BtpInv, BtpTypes
      <3> QED
        BY <3>1 DEF AckInFlight, Acks
    <2> QED
      BY <2>3, <2>4, ZenonT(30) DEF Link, Ledger
  <1> QED
    BY <1>1, BtpInductive, PTL

\* The u8 arithmetic of SendWindow and RecvWindow never wraps: what is taken from a
\* level is there, and no level passes the window.
THEOREM LevelsStayWithinTheWindow ==
    BtpSpec => [](\A e \in Ends : /\ send_window[e].level \in 0 .. window_size[e]
                                  /\ recv_window[e].level \in 0 .. window_size[e]
                                  /\ recv_window[e].ack_level \in 0 .. window_size[e])
  <1> DEFINE Within(e) == /\ send_window[e].level \in 0 .. window_size[e]
                          /\ recv_window[e].level \in 0 .. window_size[e]
                          /\ recv_window[e].ack_level \in 0 .. window_size[e]
  <1>1. ASSUME BtpInv, NEW e \in Ends
        PROVE  Within(e)
    <2>1. CASE Closed
      BY <2>1, SMTT(30) DEF Closed, Zero, NewSend, NewRecv
    <2>2. CASE Opening
      <3>1. window_size[Node] \in Nat /\ gatt[Central] \in Seq(Seg)
        BY <1>1, BtpAssumption DEF BtpInv, BtpTypes, Seq_nums, Ends
      <3>2. Len(gatt[Central]) \in Nat
        BY <3>1, SMTT(30)
      <3>3. CASE e = Node
        BY <2>2, <3>1, <3>2, <3>3, SMTT(30) DEF Opening
      <3>4. CASE e = Central
        <4>1. /\ window_size[Central] = 0 /\ Central \in Ends
              /\ send_window[Central] = NewSend[Central] /\ recv_window[Central] = NewRecv[Central]
          BY <2>2, Zenon DEF Opening, Ends
        <4>2. NewSend[Central].level = 0 /\ NewRecv[Central].level = 0 /\ NewRecv[Central].ack_level = 0
          BY <4>1 DEF NewSend, NewRecv
        <4> QED
          BY <3>4, <4>1, <4>2
      <3> QED
        BY <3>3, <3>4, SMTT(30) DEF Ends
    <2>3. CASE Open
      <3>1. Link(e)
        BY <2>3, SMTT(30) DEF Open
      <3>2. PICK level, out, w :
              /\ level = send_window[e].level /\ out = Outstanding(e) /\ w = window_size[e]
              /\ level \in Nat /\ out \in Nat /\ w \in Int /\ level + out <= w
        <4>1. window_size[e] \in Int
          BY <1>1, BtpAssumption DEF BtpInv, BtpTypes, Seq_nums
        <4> QED
          BY <3>1, <4>1, Zenon DEF Link, Ledger
      <3>3. level \in 0 .. w
        BY <3>2, SMTT(30)
      <3>4. PICK n \in Nat, held \in Nat :
              n = recv_window[e].level /\ held = recv_window[e].ack_level /\ n + held = w
        BY <3>1, <3>2, Zenon DEF Link
      <3>5. n \in 0 .. w /\ held \in 0 .. w
        BY <3>4
      <3> QED
        BY <3>2, <3>3, <3>4, <3>5
    <2> QED
      BY <1>1, <2>1, <2>2, <2>3, SMTT(30) DEF BtpInv
  <1>2. BtpInv => \A e \in Ends : Within(e)
    BY <1>1
  <1> QED
    BY <1>2, BtpInductive, PTL

=============================================================================
