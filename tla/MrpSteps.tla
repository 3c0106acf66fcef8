------------------------------- MODULE MrpSteps ------------------------------
(***************************************************************************)
(* What MrpProofs rests on: the inductive invariant MrpInv of Mrp, and     *)
(* that the steps keep it that neither take nor say a message.             *)
(*                                                                         *)
(* MrpInv says which counters packets were sent under and what they        *)
(* acknowledge (NetInv), where the two tasks are in the conversation       *)
(* (TaskInv), what an exchange still has to retransmit and to acknowledge  *)
(* (ExchOk), what waits in a buffer (BufferOk), and what the window of a   *)
(* node has taken: all that was heard (HeardRefused), nothing but what was *)
(* sent (WindowKnown), and last a message that went to the task or to an   *)
(* exchange that is being left (NewestSettled).  A sender that went on had *)
(* its message taken by the peer's window, or gave up (ConcludedReached).  *)
(***************************************************************************)
EXTENDS Mrp, TLAPS

At == {"idle", "send", "sent", "recv", "acknowledge", "done", "gone"}

\* The number of messages heard, which are the first ones.
Taken == Len(heard)

Types ==
  /\ msg_ctr \in [Node -> 0..(LastCtr + 1)]
  /\ rx_ctr \in [Node -> RxState] /\ \A n \in Node : rx_ctr[n].max_ctr <= LastCtr
  /\ session \in [Node -> BOOLEAN]
  /\ exch \in [Node -> ExchangeState \cup {None}]
  /\ rx \in [Node -> Packet \cup {None}]
  /\ task \in [Node -> [at : At, i : 0..M]]
  /\ net \subseteq Packet
  /\ said \in 0..M
  /\ heard \in Seq(Nat) /\ \A j \in 1..Len(heard) : heard[j] = j

\* The window takes the counter c for received.
Covers(r, c) ==
  /\ c <= r.max_ctr
  /\ c < r.max_ctr /\ r.max_ctr - MSG_RX_STATE_BITMAP_LEN <= c => r.max_ctr - 1 - c \in r.ctr_bitmap

Refused(n, c) == c \in 0..LastCtr /\ Covers(rx_ctr[n], c)

\* The packet of message i to n is one with the counter c.
Carries(n, i, c) == \E p \in net : p.to = n /\ p.says = i /\ p.ctr = c

\* Who sent a packet, under which counter, and what it acknowledges.
NetInv ==
  \A p \in net :
    /\ p.ctr < msg_ctr[Peer(p.to)]
    /\ p.says <= said
    /\ p.says # 0 => p.to = Peer(Speaker(p.says))
    /\ \A q \in net : p.to = q.to =>
         /\ p.ctr = q.ctr => p.says = q.says
         /\ p.says = q.says /\ p.says # 0 => p.ctr = q.ctr
    /\ p.ack # None => Refused(Peer(p.to), p.ack)
    /\ p.says >= 2 => p.ack # None /\ Carries(Peer(p.to), p.says - 1, p.ack)

\* Where the task of n is in the conversation when it is at t.
Fits(n, t) ==
  /\ t.at \in {"send", "sent", "recv"} => t.i >= 1
  /\ t.at = "send" => Speaker(t.i) = n /\ said = t.i - 1 /\ Taken = t.i - 1
  /\ t.at = "sent" => Speaker(t.i) = n /\ said \in {t.i, t.i + 1} /\ Taken \in {t.i - 1, t.i}
  /\ t.at = "recv" => Speaker(t.i) = Peer(n) /\ Taken \in {t.i - 2, t.i - 1}
  /\ t.at = "acknowledge" => t.i = M

TaskInv ==
  /\ Taken <= said /\ said <= Taken + 1
  /\ task["A"].at = "idle" => said = 0
  /\ task["B"].at = "idle" => Taken = 0
  /\ \A n \in Node : Fits(n, task[n])

\* The window of the peer has taken message i.
Reached(i) == \E p \in net : p.says = i /\ Refused(p.to, p.ctr)

\* What the exchange e of n, whose task is at t, has of a retransmission and of an
\* acknowledgement.
Owes(n, e, t) ==
  /\ e.role = "AcceptPending" => n = "B" /\ e.retrans = None
  /\ e.retrans # None =>
       /\ t.at = "sent" \/ e.role = "Dropped"
       /\ n = "B" => Taken >= 1
       /\ t.at = "sent" => Carries(Peer(n), t.i, e.retrans.msg_ctr)
  /\ e.ack # None => Refused(n, e.ack.msg_ctr)
  /\ t.i >= 2 /\ (t.at = "send" \/ (t.at = "sent" /\ e.retrans # None)) =>
       e.ack # None /\ Carries(n, t.i - 1, e.ack.msg_ctr)
  /\ t.at = "sent" /\ e.retrans = None => t.i \in gave_up \/ Reached(t.i)

\* The message x in the buffer waits for its acknowledgement, and for nothing else.
Holds(e, x) == x # None => e.retrans = None /\ e.ack # None /\ e.ack.msg_ctr = x.ctr

Busy(t) == t.at \in {"send", "sent", "recv", "acknowledge", "done"}

\* The exchange of n when the node has its session or not (b).
ExchFits(n, b, e, t, x) ==
  /\ ~b => e = None
  /\ b /\ Busy(t) => e # None /\ e.role = "Owned"
  /\ e # None => Owes(n, e, t) /\ Holds(e, x)

ExchOk(n) == ExchFits(n, session[n], exch[n], task[n], rx[n])

\* The packet in the buffer carries the next message.
BufferOk(n) ==
  rx[n] # None =>
    /\ rx[n] \in net /\ rx[n].to = n /\ rx[n].says = Taken + 1 /\ Refused(n, rx[n].ctr)

HeardRefused == \A p \in net : p.says # 0 /\ p.says <= Taken => Refused(p.to, p.ctr)

NewestSettled ==
  \A p \in net :
    p.says # 0 /\ p.ctr # 0 /\ p.ctr = rx_ctr[p.to].max_ctr => Settled(p.to, p.says)

\* The window has seen nothing that was not sent.
WindowKnown == \A n \in Node : rx_ctr[n].max_ctr # 0 => rx_ctr[n].max_ctr < msg_ctr[Peer(n)]

ConcludedReached == \A i \in 1..M : Concluded(Speaker(i), i) => i \in gave_up \/ Reached(i)

MrpInv ==
  /\ Types /\ NetInv /\ TaskInv
  /\ \A n \in Node : ExchOk(n) /\ BufferOk(n)
  /\ HeardRefused /\ NewestSettled /\ ConcludedReached /\ WindowKnown

------------------------------------------------------------------------------
\* The two nodes are each other's peers.
LEMMA PeerFacts ==
  /\ Peer("A") = "B" /\ Peer("B") = "A"
  /\ \A n \in Node : Peer(n) \in Node /\ Peer(n) # n /\ Peer(Peer(n)) = n
  /\ \A n, m \in Node : m # n => m = Peer(n)
  <1>1. Peer("A") = "B" /\ Peer("B") = "A"
    BY DEF Peer, Node
  <1> QED BY <1>1 DEF Node

\* They speak in turns, A first.
LEMMA SpeakerFacts ==
  /\ Speaker(1) = "A"
  /\ \A i \in Nat : Speaker(i) \in Node /\ Speaker(i + 1) = Peer(Speaker(i))
  BY PeerFacts DEF Speaker, Node

\* The same for messages next to each other.
LEMMA TurnFacts ==
  ASSUME NEW i \in Nat, NEW j \in Nat, i = j + 1 \/ j = i + 1
  PROVE  Speaker(i) = Peer(Speaker(j)) /\ Speaker(i) # Speaker(j)
  BY SpeakerFacts, PeerFacts

\* Between counters of the lower half of the range the signed difference that
\* post_recv takes is the plain difference.
LEMMA PlainDifference ==
  ASSUME NEW c \in 0..LastCtr, NEW m \in 0..LastCtr
  PROVE  idiff(c, m) = c - m
  BY MrpAssumption, HalfAssumption DEF idiff

\* On an encrypted session post_recv accepts what the window does not cover.
LEMMA AcceptedFacts ==
  ASSUME NEW r \in RxState, r.max_ctr <= LastCtr, NEW c \in 0..LastCtr
  PROVE  /\ accepts(r, c, TRUE) <=> ~Covers(r, c)
         /\ InBitmap(r, c) <=> c < r.max_ctr /\ r.max_ctr - MSG_RX_STATE_BITMAP_LEN <= c
         /\ Index(r, c) = r.max_ctr - 1 - c
  <1>1. r.max_ctr \in 0..LastCtr /\ r.max_ctr \in Int /\ c \in Int
    BY MrpAssumption DEF RxState, Ctr
  <1>2. idiff(c, r.max_ctr) = c - r.max_ctr
    BY <1>1, PlainDifference
  <1>3. MSG_RX_STATE_BITMAP_LEN \in Nat \ {0}
    BY BitmapAssumption
  <1> QED BY <1>1, <1>2, <1>3 DEF InBitmap, Index, accepts, Covers

\* What post_recv makes of the state r when c comes: c is covered from then on, and so is
\* whatever was covered before; the largest counter is the one before or the new one.
Recorded(r, s, c) ==
  /\ s \in RxState /\ s.max_ctr <= LastCtr
  /\ s.max_ctr = r.max_ctr \/ (s.max_ctr = c /\ ~Covers(r, c))
  /\ s.max_ctr >= r.max_ctr
  /\ \A d \in 0..LastCtr : d = c \/ Covers(r, d) => Covers(s, d)

\* RxCtrState::post_recv records the counter.
LEMMA PostRecvRecords ==
  ASSUME NEW r \in RxState, r.max_ctr <= LastCtr, NEW c \in 0..LastCtr
  PROVE  Recorded(r, post_recv(r, c, TRUE), c)
  <1> DEFINE s == post_recv(r, c, TRUE)
             m == r.max_ctr
             L == MSG_RX_STATE_BITMAP_LEN
             in == c < m /\ m - L <= c
  <1>0. /\ L \in Nat \ {0} /\ m \in Nat /\ m <= LastCtr /\ LastCtr \in Nat /\ c \in Nat
        /\ c <= LastCtr /\ LastCtr < HALF /\ HALF \in Nat /\ r.ctr_bitmap \subseteq Bit
        /\ r = [max_ctr |-> m, ctr_bitmap |-> r.ctr_bitmap]
    BY BitmapAssumption, MrpAssumption, HalfAssumption DEF RxState, Ctr
  <1>1. s = IF Covers(r, c) THEN r
            ELSE IF in THEN [r EXCEPT !.ctr_bitmap = @ \cup {m - 1 - c}]
            ELSE IF c > m THEN Ahead(r, c) ELSE new(c)
    BY AcceptedFacts, Zenon DEF post_recv
  <1> HIDE DEF s
  <1> SUFFICES Recorded(r, s, c)
    BY Zenon DEF s
  <1>2. CASE Covers(r, c)
    <2>1. s = r
      BY <1>1, <1>2
    <2> QED BY <1>0, <1>2, <2>1 DEF Recorded
  <1>3. CASE ~Covers(r, c) /\ in
    <2>1. s = [max_ctr |-> m, ctr_bitmap |-> r.ctr_bitmap \cup {m - 1 - c}]
      <3>1. s = [r EXCEPT !.ctr_bitmap = @ \cup {m - 1 - c}]
        BY <1>1, <1>3
      <3> QED BY <1>0, <3>1, Zenon
    <2>2. s.max_ctr = m /\ s.ctr_bitmap = r.ctr_bitmap \cup {m - 1 - c}
      BY <2>1
    <2>3. m - 1 - c \in Bit
      BY <1>0, <1>3 DEF Bit
    <2>4. s \in RxState
      BY <1>0, <2>1, <2>3 DEF RxState
    <2>5. \A d \in 0..LastCtr : d = c \/ Covers(r, d) => Covers(s, d)
      BY <1>0, <1>3, <2>2 DEF Covers
    <2> QED BY <1>0, <2>2, <2>4, <2>5 DEF Recorded
  <1>4. CASE ~Covers(r, c) /\ ~in
    <2>0. c > m /\ s = Ahead(r, c)
      <3>1. c > m
        BY <1>0, <1>4 DEF Covers
      <3> QED BY <1>1, <1>4, <3>1
    <2>1. /\ s = [max_ctr |-> c, ctr_bitmap |-> s.ctr_bitmap]
          /\ s.ctr_bitmap = IF c - m < L THEN Shifted(r.ctr_bitmap, c - m) \cup {c - m - 1} ELSE Bit
      BY <2>0 DEF Ahead
    <2>2. s.ctr_bitmap \subseteq Bit
      <3>1. c - m < L => c - m - 1 \in Bit
        BY <1>0, <2>0 DEF Bit
      <3> QED BY <2>1, <3>1 DEF Shifted
    <2>3. s \in RxState /\ s.max_ctr = c
      <3>1. c \in Ctr
        BY <1>0 DEF Ctr
      <3> QED BY <2>1, <2>2, <3>1 DEF RxState
    <2>5. ASSUME NEW d \in 0..LastCtr, d = c \/ Covers(r, d)
          PROVE  Covers(s, d)
      <3>0. d \in Nat /\ d <= c
        BY <1>0, <2>0, <2>5 DEF Covers
      <3> SUFFICES ASSUME d < c, c - L <= d
                   PROVE  c - 1 - d \in s.ctr_bitmap
        BY <2>3, <3>0 DEF Covers
      <3>2. c - 1 - d \in Bit
        BY <1>0, <3>0 DEF Bit
      <3>3. CASE ~(c - m < L)
        BY <2>1, <3>2, <3>3
      <3>4. CASE c - m < L
        <4>1. d <= m
          BY <1>0, <2>5, <3>0 DEF Covers
        <4>2. CASE d = m
          BY <1>0, <2>1, <3>4, <4>2
        <4>3. CASE d < m
          <5>1. m - 1 - d \in r.ctr_bitmap
            BY <1>0, <2>0, <2>5, <3>0, <4>3 DEF Covers
          <5>2. (c - 1 - d) - (c - m) = m - 1 - d
            BY <1>0, <3>0
          <5>3. c - 1 - d \in Shifted(r.ctr_bitmap, c - m)
            BY <3>2, <5>1, <5>2 DEF Shifted
          <5> QED BY <2>1, <3>4, <5>3
        <4> QED BY <1>0, <3>0, <4>1, <4>2, <4>3
      <3> QED BY <3>3, <3>4
    <2> QED BY <1>0, <1>4, <2>0, <2>3, <2>5 DEF Recorded
  <1> QED BY <1>2, <1>3, <1>4

------------------------------------------------------------------------------
\* What only ever grows.
Grows ==
  /\ net \subseteq net' /\ gave_up \subseteq gave_up'
  /\ Taken' \in Nat /\ Taken <= Taken'
  /\ \A n \in Node, c \in 0..LastCtr : Refused(n, c) => Refused(n, c)'

\* What grows does not undo what an exchange owes, a message reached or a packet carries.
LEMMA GrowthKeeps ==
  ASSUME Types, Grows
  PROVE  /\ \A n, i, c : Carries(n, i, c) => Carries(n, i, c)'
         /\ \A i : Reached(i) => Reached(i)'
         /\ \A n \in Node : \A e, t : Owes(n, e, t) => Owes(n, e, t)'
  <1>1. \A n, i, c : Carries(n, i, c) => Carries(n, i, c)'
    BY DEF Grows, Carries
  <1>2. \A i : Reached(i) => Reached(i)'
    BY Zenon DEF Grows, Reached, Refused, Types, Packet
  <1>3. ASSUME NEW n \in Node, NEW e, NEW t, Owes(n, e, t)
        PROVE  Owes(n, e, t)'
    <2>1. Taken \in Nat /\ Taken' \in Nat /\ Taken' >= Taken
      BY DEF Types, Taken, Grows
    <2>2. e.ack # None => Refused(n, e.ack.msg_ctr)'
      BY <1>3 DEF Owes, Grows, Refused
    <2>3. e.retrans # None =>
            /\ t.at = "sent" \/ e.role = "Dropped"
            /\ n = "B" => Taken' >= 1
            /\ t.at = "sent" => Carries(Peer(n), t.i, e.retrans.msg_ctr)'
      BY <1>1, <1>3, <2>1 DEF Owes
    <2>4. t.i >= 2 /\ (t.at = "send" \/ (t.at = "sent" /\ e.retrans # None)) =>
            e.ack # None /\ Carries(n, t.i - 1, e.ack.msg_ctr)'
      BY <1>1, <1>3 DEF Owes
    <2>5. t.at = "sent" /\ e.retrans = None => t.i \in gave_up' \/ Reached(t.i)'
      BY <1>2, <1>3 DEF Owes, Grows
    <2> QED BY <1>3, <2>2, <2>3, <2>4, <2>5 DEF Owes
  <1> QED BY <1>1, <1>2, <1>3

\* The exchange of a node that takes no part in a step.
LEMMA OtherExch ==
  ASSUME Types, Grows, NEW n \in Node, ExchOk(n),
         exch'[n] = exch[n], session'[n] = session[n], task'[n] = task[n], rx'[n] = rx[n]
  PROVE  ExchOk(n)'
  <1>1. exch[n] # None => Owes(n, exch[n], task[n])'
    BY GrowthKeeps DEF ExchOk, ExchFits
  <1> QED BY <1>1 DEF ExchOk, ExchFits

\* The node has left the exchange.
Left(b, e, t) == t.at = "gone" \/ ~b \/ e = None \/ e.role = "Dropped"

\* Settled, in the state of the node.
LEMMA SettledFacts ==
  ASSUME NEW n, NEW i
  PROVE  Settled(n, i) <=> \/ i <= Taken
                           \/ rx[n] # None /\ rx[n].says = i
                           \/ Left(session[n], exch[n], task[n])
  BY DEF Settled, Taken, Left, Has

\* A task at t has done with message i.
Past(t, i) ==
  \/ t.at \in {"recv", "send", "sent", "acknowledge"} /\ t.i > i
  \/ t.at = "acknowledge" /\ t.i = i

\* The node n goes to the session b, the exchange e, the task t and the buffer x.
Moves(n, b, e, t, x) ==
  /\ session' = [session EXCEPT ![n] = b]
  /\ exch' = [exch EXCEPT ![n] = e]
  /\ task' = [task EXCEPT ![n] = t]
  /\ rx' = [rx EXCEPT ![n] = x]

\* What such a step leaves in place.
LEMMA MoveFacts ==
  ASSUME Types, NEW n \in Node, NEW b \in BOOLEAN, NEW e \in ExchangeState \cup {None},
         NEW t \in [at : At, i : 0..M], NEW x \in Packet \cup {None}, Moves(n, b, e, t, x)
  PROVE  /\ session' \in [Node -> BOOLEAN] /\ exch' \in [Node -> ExchangeState \cup {None}]
         /\ rx' \in [Node -> Packet \cup {None}] /\ task' \in [Node -> [at : At, i : 0..M]]
         /\ session'[n] = b /\ exch'[n] = e /\ task'[n] = t /\ rx'[n] = x
         /\ \A m \in Node : m # n =>
              /\ session'[m] = session[m] /\ exch'[m] = exch[m]
              /\ task'[m] = task[m] /\ rx'[m] = rx[m]
  <1>1. session' = [session EXCEPT ![n] = b] /\ session \in [Node -> BOOLEAN]
    BY DEF Moves, Types
  <1>2. exch' = [exch EXCEPT ![n] = e] /\ exch \in [Node -> ExchangeState \cup {None}]
    BY DEF Moves, Types
  <1>3. task' = [task EXCEPT ![n] = t] /\ task \in [Node -> [at : At, i : 0..M]]
    BY DEF Moves, Types
  <1>4. rx' = [rx EXCEPT ![n] = x] /\ rx \in [Node -> Packet \cup {None}]
    BY DEF Moves, Types
  <1> QED BY <1>1, <1>2, <1>3, <1>4

\* Only the node n takes part in the step.
Alone(n) ==
  \A m \in Node : m # n =>
    session'[m] = session[m] /\ exch'[m] = exch[m] /\ task'[m] = task[m] /\ rx'[m] = rx[m]

\* A step in which no message is said, heard or given up: what is left to show of it.
LEMMA QuietStep ==
  ASSUME MrpInv, Types', NetInv', NewestSettled', WindowKnown', Grows,
         UNCHANGED <<gave_up, said, heard>>, NEW n \in Node, Alone(n), ExchOk(n)', BufferOk(n)', Fits(n, task[n])',
         task'[n].at = "idle" => task[n].at = "idle",
         \A p \in net' : p.says # 0 => p \in net,
         \A i \in 1..M : Speaker(i) = n /\ Concluded(n, i)' => i \in gave_up \/ Reached(i)
  PROVE  MrpInv'
  <1>1. /\ Types /\ NetInv /\ TaskInv /\ HeardRefused /\ NewestSettled /\ ConcludedReached
        /\ \A m \in Node : ExchOk(m) /\ BufferOk(m)
    BY DEF MrpInv
  <1>2. Taken' = Taken /\ Taken \in Nat
    BY <1>1, SMTT(30) DEF Taken, Types
  <1>3. TaskInv'
    <2>1. \A m \in Node : Fits(m, task[m])'
      <3>1. ASSUME NEW m \in Node, m # n
            PROVE  Fits(m, task[m])'
        <4>1. Fits(m, task[m]) /\ task'[m] = task[m]
          BY <1>1, <3>1, Zenon DEF TaskInv, Alone
        <4> QED BY <1>2, <4>1, Zenon DEF Fits
      <3> QED BY <3>1, Zenon
    <2>2. \A m \in Node : task'[m].at = "idle" => task[m].at = "idle"
      BY Zenon DEF Alone
    <2> QED BY <1>1, <1>2, <2>1, <2>2, Zenon DEF TaskInv, Node
  <1>4. \A m \in Node : ExchOk(m)'
    <2>1. \A m \in Node : m # n => ExchOk(m)'
      BY <1>1, OtherExch DEF Alone
    <2> QED BY <2>1, Zenon
  <1>5. \A p \in net, m \in Node : Refused(m, p.ctr) => Refused(m, p.ctr)'
    BY DEF Grows, Refused
  <1>6. \A m \in Node : BufferOk(m)'
    <2>1. \A m \in Node : m # n => BufferOk(m)'
      BY <1>1, <1>2, <1>5, Zenon DEF BufferOk, Alone, Grows
    <2> QED BY <2>1, Zenon
  <1>7. HeardRefused'
    BY <1>1, <1>2, <1>5, Zenon DEF HeardRefused, Types, Packet
  <1>8. ConcludedReached'
    <2> SUFFICES ASSUME NEW i \in 1..M, Concluded(Speaker(i), i)'
                 PROVE  i \in gave_up' \/ Reached(i)'
      BY Zenon DEF ConcludedReached
    <2>1. i \in gave_up \/ Reached(i)
      <3>1. CASE Speaker(i) = n
        BY <3>1
      <3>2. CASE Speaker(i) # n
        <4>1. Concluded(Speaker(i), i)
          BY <3>2, SpeakerFacts DEF Concluded, Alone
        <4> QED BY <1>1, <4>1, Zenon DEF ConcludedReached
      <3> QED BY <3>1, <3>2, Zenon
    <2> QED BY <1>1, <2>1, GrowthKeeps, ZenonT(30) DEF Grows
  <1> QED BY <1>3, <1>4, <1>6, <1>7, <1>8 DEF MrpInv

------------------------------------------------------------------------------
\* What a node sends moves its counter on; what it receives was sent.
LEMMA WindowStays ==
  ASSUME MrpInv, msg_ctr' \in [Node -> 0..(LastCtr + 1)], rx_ctr' \in [Node -> RxState],
         \A m \in Node : msg_ctr'[m] >= msg_ctr[m],
         \A m \in Node : \/ rx_ctr'[m].max_ctr = rx_ctr[m].max_ctr
                         \/ rx_ctr'[m].max_ctr < msg_ctr[Peer(m)]
  PROVE  WindowKnown'
  <1> SUFFICES ASSUME NEW m \in Node, rx_ctr'[m].max_ctr # 0
               PROVE  rx_ctr'[m].max_ctr < msg_ctr'[Peer(m)]
    BY DEF WindowKnown
  <1>1. Peer(m) \in Node /\ msg_ctr[Peer(m)] \in Nat /\ msg_ctr'[Peer(m)] \in Nat
    BY PeerFacts, MrpAssumption, SMTT(30) DEF MrpInv, Types
  <1>2. rx_ctr'[m].max_ctr \in Nat
    BY HalfAssumption DEF RxState, Ctr
  <1>3. rx_ctr'[m].max_ctr < msg_ctr[Peer(m)]
    BY DEF MrpInv, WindowKnown
  <1> QED BY <1>1, <1>2, <1>3

\* What n sends beside the messages of the conversation: nothing, or a standalone
\* acknowledgement of the counter a, under a new counter.
SendsAck(n, a) ==
  \/ UNCHANGED <<net, msg_ctr>>
  \/ /\ net' = net \cup {[to |-> Peer(n), ctr |-> msg_ctr[n], says |-> 0, ack |-> a]}
     /\ msg_ctr' = [msg_ctr EXCEPT ![n] = @ + 1]
     /\ Refused(n, a)'

\* A standalone acknowledgement takes a new counter and says nothing.
LEMMA SendsAckKeeps ==
  ASSUME MrpInv, NEW n \in Node, NEW a, SendsAck(n, a), Bounded, UNCHANGED said,
         \A m \in Node, c \in 0..LastCtr : Refused(m, c) => Refused(m, c)'
  PROVE  /\ msg_ctr' \in [Node -> 0..(LastCtr + 1)] /\ \A m \in Node : msg_ctr'[m] >= msg_ctr[m]
         /\ net \subseteq net' /\ net' \subseteq Packet
         /\ \A p \in net' : p.says # 0 => p \in net
         /\ NetInv'
  <1>1. Types /\ NetInv
    BY Zenon DEF MrpInv
  <1>2. ASSUME NEW p \in net, p.ack # None
        PROVE  Refused(Peer(p.to), p.ack)'
    <2>1. Refused(Peer(p.to), p.ack)
      BY <1>1, <1>2, Zenon DEF NetInv
    <2>2. Peer(p.to) \in Node
      BY <1>1, PeerFacts, Zenon DEF Types, Packet
    <2>3. p.ack \in 0..LastCtr
      BY <2>1, Zenon DEF Refused
    <2> QED BY <2>1, <2>2, <2>3, Zenon
  <1>3. CASE UNCHANGED <<net, msg_ctr>>
    <2>1. NetInv'
      BY <1>1, <1>2, <1>3 DEF NetInv, Carries
    <2>2. \A m \in Node : msg_ctr'[m] >= msg_ctr[m]
      BY <1>1, <1>3, MrpAssumption, SMTT(30) DEF Types
    <2> QED BY <1>1, <1>3, <2>1, <2>2, Zenon DEF Types
  <1>4. CASE /\ net' = net \cup {[to |-> Peer(n), ctr |-> msg_ctr[n], says |-> 0, ack |-> a]}
             /\ msg_ctr' = [msg_ctr EXCEPT ![n] = @ + 1]
             /\ Refused(n, a)'
    <2> DEFINE q == [to |-> Peer(n), ctr |-> msg_ctr[n], says |-> 0, ack |-> a]
    <2>1. /\ msg_ctr[n] \in 0..LastCtr /\ msg_ctr'[n] = msg_ctr[n] + 1
          /\ \A m \in Node : m # n => msg_ctr'[m] = msg_ctr[m]
          /\ \A m \in Node : msg_ctr[m] \in Int /\ msg_ctr'[m] >= msg_ctr[m]
      BY <1>1, <1>4, MrpAssumption, SMTT(30) DEF Types, Bounded
    <2>2. msg_ctr' \in [Node -> 0..(LastCtr + 1)]
      BY <1>1, <1>4, <2>1, MrpAssumption, SMTT(30) DEF Types
    <2>3. a \in Ctr /\ msg_ctr[n] \in Ctr /\ 0 \in 0..M /\ Peer(n) \in Node
      BY <1>4, <2>1, MrpAssumption, HalfAssumption, PeerFacts DEF Refused, Ctr
    <2>4. /\ q \in Packet /\ q.says = 0 /\ q.to = Peer(n) /\ q.ctr = msg_ctr[n] /\ q.ack = a
      BY <2>3 DEF Packet
    <2>5. net' = net \cup {q}
      BY <1>4
    <2> HIDE DEF q
    <2>6. \A m, i, c : Carries(m, i, c) => Carries(m, i, c)'
      BY <2>5, Zenon DEF Carries
    <2>7. ASSUME NEW p \in net
          PROVE  p.to = q.to => p.ctr # q.ctr
      <3>1. p.ctr < msg_ctr[Peer(p.to)]
        BY <1>1, Zenon DEF NetInv
      <3>2. p.ctr \in Int /\ msg_ctr[n] \in Int /\ Peer(Peer(n)) = n
        BY <1>1, <2>1, PeerFacts, HalfAssumption, SMTT(30) DEF Types, Packet, Ctr
      <3> QED BY <2>4, <3>1, <3>2
    <2>8. ASSUME NEW p \in net'
          PROVE  /\ p.ctr < msg_ctr'[Peer(p.to)]
                 /\ p.says <= said'
                 /\ p.says # 0 => p.to = Peer(Speaker(p.says))
                 /\ p.ack # None => Refused(Peer(p.to), p.ack)'
                 /\ p.says >= 2 => p.ack # None /\ Carries(Peer(p.to), p.says - 1, p.ack)'
      <3>1. CASE p \in net
        <4>1. p.ctr \in Int /\ Peer(p.to) \in Node
          BY <1>1, <3>1, PeerFacts, HalfAssumption, SMTT(30) DEF Types, Packet, Ctr
        <4>2. p.ctr < msg_ctr'[Peer(p.to)]
          <5>1. p.ctr < msg_ctr[Peer(p.to)]
            BY <1>1, <3>1 DEF NetInv
          <5>2. msg_ctr'[Peer(p.to)] \in Int
            BY <2>2, <4>1, MrpAssumption
          <5> QED BY <2>1, <4>1, <5>1, <5>2, SMTT(30)
        <4> QED BY <1>1, <1>2, <2>6, <3>1, <4>2, Zenon DEF NetInv
      <3>2. CASE p = q
        <4>1. Peer(Peer(n)) = n /\ Refused(n, a)'
          BY <1>4, PeerFacts
        <4>2. 0 <= said'
          BY <1>1 DEF Types
        <4>3. msg_ctr[n] < msg_ctr'[n]
          BY <2>1
        <4> QED BY <2>4, <3>2, <4>1, <4>2, <4>3
      <3> QED BY <2>5, <3>1, <3>2, Zenon
    <2>9. ASSUME NEW p \in net', NEW r \in net', p.to = r.to
          PROVE  /\ p.ctr = r.ctr => p.says = r.says
                 /\ p.says = r.says /\ p.says # 0 => p.ctr = r.ctr
      <3>1. CASE p \in net /\ r \in net
        BY <1>1, <2>9, <3>1 DEF NetInv
      <3>2. CASE p = q \/ r = q
        BY <2>4, <2>5, <2>7, <2>9, <3>2, ZenonT(30)
      <3> QED BY <2>5, <3>1, <3>2, Zenon
    <2>10. NetInv'
      BY <2>8, <2>9 DEF NetInv
    <2> QED BY <1>1, <2>1, <2>2, <2>4, <2>5, <2>10, Zenon DEF Types
  <1> QED BY <1>3, <1>4 DEF SendsAck

\* What becomes of the session's counters when the counter c comes in at n.
Records(n, c) ==
  /\ rx_ctr' \in [Node -> RxState] /\ \A m \in Node : rx_ctr'[m].max_ctr <= LastCtr
  /\ \A m \in Node, d \in 0..LastCtr : Refused(m, d) => Refused(m, d)'
  /\ Refused(n, c)'
  /\ \A m \in Node : rx_ctr'[m].max_ctr = rx_ctr[m].max_ctr
                     \/ (m = n /\ rx_ctr'[n].max_ctr = c /\ ~Refused(n, c))

\* Session::post_recv hands the counter to RxCtrState::post_recv.
LEMMA RecordsFacts ==
  ASSUME Types, NEW n \in Node, NEW c \in 0..LastCtr,
         rx_ctr' = [rx_ctr EXCEPT ![n] = post_recv(@, c, TRUE)]
  PROVE  Records(n, c)
  <1>1. rx_ctr[n] \in RxState /\ rx_ctr[n].max_ctr <= LastCtr /\ rx_ctr \in [Node -> RxState]
    BY DEF Types
  <1>2. Recorded(rx_ctr[n], post_recv(rx_ctr[n], c, TRUE), c)
    BY <1>1, PostRecvRecords, Zenon
  <1>3. rx_ctr'[n] = post_recv(rx_ctr[n], c, TRUE) /\ \A m \in Node : m # n => rx_ctr'[m] = rx_ctr[m]
    BY <1>1
  <1>4. Recorded(rx_ctr[n], rx_ctr'[n], c)
    BY <1>2, <1>3, Zenon
  <1>5. rx_ctr' \in [Node -> RxState]
    <2>1. post_recv(rx_ctr[n], c, TRUE) \in RxState
      BY <1>2, Zenon DEF Recorded
    <2> QED BY <1>1, <2>1, Zenon
  <1>6. \A m \in Node, d \in 0..LastCtr : Refused(m, d) => Refused(m, d)'
    BY <1>3, <1>4, Zenon DEF Recorded, Refused
  <1>7. Refused(n, c)'
    BY <1>4, Zenon DEF Recorded, Refused
  <1>8. \A m \in Node : rx_ctr'[m].max_ctr <= LastCtr
    BY <1>3, <1>4, Zenon DEF Recorded, Types
  <1>9. \A m \in Node : rx_ctr'[m].max_ctr = rx_ctr[m].max_ctr
                        \/ (m = n /\ rx_ctr'[n].max_ctr = c /\ ~Refused(n, c))
    BY <1>3, <1>4, Zenon DEF Recorded, Refused
  <1> QED BY <1>5, <1>6, <1>7, <1>8, <1>9, Zenon DEF Records

\* What n takes in: nothing, or the counter c, which the peer sent.
Hears(n, c) == UNCHANGED rx_ctr \/ (Records(n, c) /\ c < msg_ctr[Peer(n)])

\* What is in the buffer of n after the step: what was there, or the next message.
Waits(n, x) ==
  x # None => \/ x = rx[n]
              \/ x \in net /\ x.to = n /\ x.says = Taken + 1 /\ Refused(n, x.ctr)'

\* Settled for a node that goes to b, e, t and x; and the newest message that came in there.
SettledAs(b, e, t, x, i) == i <= Taken \/ (x # None /\ x.says = i) \/ Left(b, e, t)

Newest(n, b, e, t, x) ==
  \A p \in net : p.to = n /\ p.says # 0 /\ p.ctr # 0 /\ p.ctr = rx_ctr'[n].max_ctr =>
                   SettledAs(b, e, t, x, p.says)

\* What grows when n takes in a counter and sends an acknowledgement at most.
LEMMA NodeGrows ==
  ASSUME MrpInv, NEW n \in Node, NEW a, SendsAck(n, a), Bounded, NEW c, Hears(n, c),
         UNCHANGED <<gave_up, said, heard>>
  PROVE  /\ Grows /\ NetInv' /\ WindowKnown' /\ \A p \in net' : p.says # 0 => p \in net
         /\ msg_ctr' \in [Node -> 0..(LastCtr + 1)] /\ net' \subseteq Packet
         /\ rx_ctr' \in [Node -> RxState]
         /\ \A m \in Node : /\ rx_ctr'[m].max_ctr <= LastCtr
                            /\ m # n => rx_ctr'[m].max_ctr = rx_ctr[m].max_ctr
  <1>1. /\ rx_ctr \in [Node -> RxState] /\ \A m \in Node : rx_ctr[m].max_ctr <= LastCtr
        /\ heard \in Seq(Nat)
    BY Zenon DEF MrpInv, Types
  <1>2. \A m \in Node, d \in 0..LastCtr : Refused(m, d) => Refused(m, d)'
    BY Zenon DEF Hears, Records, Refused
  <1>3. /\ msg_ctr' \in [Node -> 0..(LastCtr + 1)] /\ \A m \in Node : msg_ctr'[m] >= msg_ctr[m]
        /\ net \subseteq net' /\ net' \subseteq Packet
        /\ \A p \in net' : p.says # 0 => p \in net
        /\ NetInv'
    BY <1>2, SendsAckKeeps, Zenon
  <1>4. /\ rx_ctr' \in [Node -> RxState] /\ \A m \in Node : rx_ctr'[m].max_ctr <= LastCtr
        /\ \A m \in Node : \/ rx_ctr'[m].max_ctr = rx_ctr[m].max_ctr
                           \/ m = n /\ rx_ctr'[m].max_ctr < msg_ctr[Peer(m)]
    BY <1>1, Zenon DEF Hears, Records
  <1>5. WindowKnown'
    BY <1>3, <1>4, WindowStays, Zenon
  <1>6. Grows
    <2>1. Taken' \in Nat /\ Taken <= Taken'
      BY <1>1 DEF Taken
    <2> QED BY <1>2, <1>3, <2>1, Zenon DEF Grows
  <1> QED BY <1>3, <1>4, <1>5, <1>6, Zenon

\* A step of the node n that says and hears no message: what is left to show of it.
LEMMA NodeStep ==
  ASSUME MrpInv, NEW n \in Node, NEW a, SendsAck(n, a), Bounded, NEW c, Hears(n, c),
         UNCHANGED <<gave_up, said, heard>>,
         NEW b \in BOOLEAN, NEW e \in ExchangeState \cup {None}, NEW t \in [at : At, i : 0..M],
         NEW x \in Packet \cup {None}, Moves(n, b, e, t, x),
         t.at = "idle" => task[n].at = "idle", Fits(n, t),
         ExchFits(n, b, e, t, x) \/ ExchFits(n, b, e, t, x)', Waits(n, x), Newest(n, b, e, t, x),
         \A i \in 1..M : Speaker(i) = n /\ Past(t, i) => i \in gave_up \/ Reached(i)
  PROVE  MrpInv'
  <1>1. Types /\ NewestSettled /\ BufferOk(n) /\ Taken' = Taken
    BY Zenon DEF MrpInv, Taken
  <1>2. /\ session' \in [Node -> BOOLEAN] /\ exch' \in [Node -> ExchangeState \cup {None}]
        /\ rx' \in [Node -> Packet \cup {None}] /\ task' \in [Node -> [at : At, i : 0..M]]
        /\ session'[n] = b /\ exch'[n] = e /\ task'[n] = t /\ rx'[n] = x /\ Alone(n)
    BY <1>1, MoveFacts DEF Alone
  <1>3. /\ Grows /\ NetInv' /\ WindowKnown' /\ \A p \in net' : p.says # 0 => p \in net
        /\ msg_ctr' \in [Node -> 0..(LastCtr + 1)] /\ net' \subseteq Packet
        /\ rx_ctr' \in [Node -> RxState]
        /\ \A m \in Node : /\ rx_ctr'[m].max_ctr <= LastCtr
                           /\ m # n => rx_ctr'[m].max_ctr = rx_ctr[m].max_ctr
    BY NodeGrows, Zenon
  <1>4. Types'
    BY <1>1, <1>2, <1>3, Zenon DEF Types
  <1>5. ExchOk(n)'
    <2>1. ExchFits(n, b, e, t, x)'
      <3>1. \A k \in Node : \A f, u : Owes(k, f, u) => Owes(k, f, u)'
        BY <1>1, <1>3, GrowthKeeps, Zenon
      <3> QED BY <3>1, Zenon DEF ExchFits
    <2> QED BY <1>2, <2>1, Zenon DEF ExchOk
  <1>6. BufferOk(n)'
    <2>1. ASSUME x # None
          PROVE  x \in net' /\ x.to = n /\ x.says = Taken + 1 /\ Refused(n, x.ctr)'
      <3>1. CASE x = rx[n]
        BY <1>1, <1>3, <2>1, <3>1, Zenon DEF BufferOk, Grows, Refused
      <3>2. CASE x \in net /\ x.to = n /\ x.says = Taken + 1 /\ Refused(n, x.ctr)'
        BY <1>3, <3>2, Zenon DEF Grows
      <3> QED BY <2>1, <3>1, <3>2, Zenon DEF Waits
    <2> QED BY <1>1, <1>2, <2>1, Zenon DEF BufferOk
  <1>7. Fits(n, task[n])' /\ (task'[n].at = "idle" => task[n].at = "idle")
    BY <1>1, <1>2, Zenon DEF Fits
  <1>8. NewestSettled'
    <2> SUFFICES ASSUME NEW p \in net, p.says # 0, p.ctr # 0, p.ctr = rx_ctr'[p.to].max_ctr
                 PROVE  Settled(p.to, p.says)'
      BY <1>3, Zenon DEF NewestSettled
    <2>1. p.to \in Node
      BY <1>1, Zenon DEF Types, Packet
    <2>2. CASE p.to # n
      <3>1. Settled(p.to, p.says)
        BY <1>1, <1>3, <2>1, <2>2, Zenon DEF NewestSettled
      <3> QED BY <1>2, <2>1, <2>2, <3>1, Zenon DEF Settled, Has, Alone
    <2>3. CASE p.to = n
      <3>1. SettledAs(b, e, t, x, p.says)
        BY <2>3, Zenon DEF Newest
      <3> QED BY <1>2, <2>3, <3>1, Zenon DEF SettledAs, Settled, Has, Left, Taken
    <2> QED BY <2>2, <2>3, Zenon
  <1>9. \A i \in 1..M : Speaker(i) = n /\ Concluded(n, i)' => i \in gave_up \/ Reached(i)
    BY <1>2, Zenon DEF Concluded, Past
  <1> QED BY <1>2, <1>3, <1>4, <1>5, <1>6, <1>7, <1>8, <1>9, QuietStep, Zenon

\* A step of the node n that sends and takes nothing.
LEMMA LocalStep ==
  ASSUME MrpInv, NEW n \in Node, NEW b \in BOOLEAN, NEW e \in ExchangeState \cup {None},
         NEW t \in [at : At, i : 0..M], NEW x \in {rx[n], None}, Moves(n, b, e, t, x),
         UNCHANGED <<msg_ctr, rx_ctr, net, gave_up, said, heard>>,
         t.at = "idle" => task[n].at = "idle", Fits(n, t), ExchFits(n, b, e, t, x),
         Left(b, e, t) \/ said = 0 \/ (x = rx[n] /\ ~Left(session[n], exch[n], task[n])),
         \A i \in 1..M : Speaker(i) = n /\ Past(t, i) => i \in gave_up \/ Reached(i)
  PROVE  MrpInv'
  <1>1. Types /\ NetInv /\ NewestSettled
    BY Zenon DEF MrpInv
  <1>2. x \in Packet \cup {None}
    BY <1>1, Zenon DEF Types
  <1>3. SendsAck(n, None) /\ Hears(n, 0) /\ Waits(n, x)
    BY Zenon DEF SendsAck, Hears, Waits
  <1>4. Bounded
    BY <1>1, MrpAssumption DEF Types, Bounded
  <1>5. Newest(n, b, e, t, x)
    <2> SUFFICES ASSUME NEW p \in net, p.to = n, p.says # 0, p.ctr # 0, p.ctr = rx_ctr[n].max_ctr
                 PROVE  SettledAs(b, e, t, x, p.says)
      BY Zenon DEF Newest
    <2>1. Settled(n, p.says)
      BY <1>1, Zenon DEF NewestSettled
    <2>2. said # 0
      BY <1>1 DEF Types, Packet, NetInv
    <2> QED BY <2>1, <2>2, SettledFacts, Zenon DEF SettledAs
  <1> QED BY <1>2, <1>3, <1>4, <1>5, NodeStep, Zenon

------------------------------------------------------------------------------
\* The invariant, at the node n.
Here(n) ==
  /\ session[n] \in BOOLEAN /\ exch[n] \in ExchangeState \cup {None}
  /\ rx[n] \in Packet \cup {None} /\ task[n] \in [at : At, i : 0..M]
  /\ Fits(n, task[n]) /\ ExchFits(n, session[n], exch[n], task[n], rx[n]) /\ BufferOk(n)
  /\ [session EXCEPT ![n] = session[n]] = session
  /\ [exch EXCEPT ![n] = exch[n]] = exch
  /\ [task EXCEPT ![n] = task[n]] = task
  /\ [rx EXCEPT ![n] = rx[n]] = rx

\* The invariant gives its part at each node.
LEMMA HereFacts ==
  ASSUME MrpInv, NEW n \in Node
  PROVE  Here(n)
  <1>1. /\ session \in [Node -> BOOLEAN] /\ exch \in [Node -> ExchangeState \cup {None}]
        /\ rx \in [Node -> Packet \cup {None}] /\ task \in [Node -> [at : At, i : 0..M]]
    BY DEF MrpInv, Types
  <1>2. Fits(n, task[n]) /\ ExchFits(n, session[n], exch[n], task[n], rx[n]) /\ BufferOk(n)
    BY DEF MrpInv, TaskInv, ExchOk
  <1>3. /\ [session EXCEPT ![n] = session[n]] = session
        /\ [exch EXCEPT ![n] = exch[n]] = exch
        /\ [task EXCEPT ![n] = task[n]] = task
        /\ [rx EXCEPT ![n] = rx[n]] = rx
    BY <1>1
  <1> QED BY <1>1, <1>2, <1>3 DEF Here

\* The fields of an exchange whose role changes.
LEMMA RoleFacts ==
  ASSUME NEW e \in ExchangeState, NEW r \in {"AcceptPending", "Owned", "Dropped"}
  PROVE  /\ [e EXCEPT !.role = r] \in ExchangeState
         /\ [e EXCEPT !.role = r].role = r
         /\ [e EXCEPT !.role = r].retrans = e.retrans
         /\ [e EXCEPT !.role = r].ack = e.ack
  BY DEF ExchangeState

\* Exchange::initiate keeps the invariant.
LEMMA InitiateKeeps ==
  ASSUME MrpInv, initiate
  PROVE  MrpInv'
  <1> DEFINE e == NewExchange("Owned")
             t == [at |-> "send", i |-> 1]
  <1>1. Here("A") /\ TaskInv /\ Types /\ "A" \in Node
    BY HereFacts DEF MrpInv, Node
  <1>2. /\ task["A"].at = "idle" /\ session["A"] /\ said = 0 /\ Taken = 0
        /\ UNCHANGED <<msg_ctr, rx_ctr, net, gave_up, said, heard>>
    BY <1>1 DEF initiate, TaskInv, Types, Taken
  <1>3. rx["A"] = None
    <2>1. rx["A"] # None => rx["A"] \in net /\ rx["A"].says = 1
      BY <1>1, <1>2 DEF Here, BufferOk
    <2>2. \A p \in net : p.says <= 0
      BY <1>2 DEF MrpInv, NetInv
    <2> QED BY <2>1, <2>2
  <1>4. e \in ExchangeState \cup {None} /\ t \in [at : At, i : 0..M]
    BY MrpAssumption DEF ExchangeState, NewExchange, At
  <1>5. Moves("A", session["A"], e, t, rx["A"])
    BY <1>1 DEF initiate, Moves, Here
  <1>6. Fits("A", t)
    BY <1>2, SpeakerFacts DEF Fits
  <1>7. ExchFits("A", session["A"], e, t, rx["A"])
    <2>1. e.role = "Owned" /\ e.retrans = None /\ e.ack = None /\ t.at = "send" /\ t.i = 1
      BY DEF NewExchange
    <2>2. e # None
      BY MrpNone DEF ExchangeState, NewExchange
    <2> HIDE DEF e, t
    <2>3. Owes("A", e, t) /\ Holds(e, rx["A"])
      BY <1>3, <2>1 DEF Owes, Holds
    <2> QED BY <1>2, <2>1, <2>2, <2>3 DEF ExchFits
  <1>8. \A i \in 1..M : ~Past(t, i)
    BY DEF Past
  <1> HIDE DEF e, t
  <1> QED BY <1>1, <1>2, <1>4, <1>5, <1>6, <1>7, <1>8, LocalStep, Zenon DEF Here

\* Sender::tx ends: the message was acknowledged or given up.
LEMMA TxDoneKeeps ==
  ASSUME MrpInv, NEW n \in Node, tx_done(n)
  PROVE  MrpInv'
  <1> DEFINE o == task[n]
             t == IF o.i = M THEN [o EXCEPT !.at = "acknowledge"] ELSE [at |-> "recv", i |-> o.i + 1]
  <1>1. Here(n) /\ TaskInv /\ Types /\ ConcludedReached
    BY HereFacts DEF MrpInv
  <1>2. /\ session[n] /\ o.at = "sent" /\ exch[n].retrans = None
        /\ UNCHANGED <<msg_ctr, rx_ctr, net, gave_up, said, heard>>
    BY DEF tx_done, is_retrans_pending
  <1>3. /\ o \in [at : At, i : 0..M] /\ o.i \in 1..M /\ Speaker(o.i) = n /\ Taken \in {o.i - 1, o.i}
        /\ Taken \in Nat
    BY <1>1, <1>2 DEF Here, Fits, Types, Taken
  <1>4. exch[n] # None /\ exch[n].role = "Owned" /\ Owes(n, exch[n], o) /\ Holds(exch[n], rx[n])
    BY <1>1, <1>2 DEF Here, ExchFits, Busy
  <1>5. \/ o.i = M /\ t.at = "acknowledge" /\ t.i = o.i /\ t \in [at : At, i : 0..M]
        \/ o.i # M /\ t.at = "recv" /\ t.i = o.i + 1 /\ t \in [at : At, i : 0..M]
    <2>1. CASE o.i = M
      BY <1>3, <2>1 DEF At
    <2>2. CASE o.i # M
      <3>1. o.i + 1 \in 0..M
        BY <1>3, <2>2, MrpAssumption
      <3> QED BY <2>2, <3>1 DEF At
    <2> QED BY <2>1, <2>2
  <1>6. Moves(n, session[n], exch[n], t, rx[n])
    BY <1>1 DEF tx_done, Moves, Here
  <1> HIDE DEF t
  <1>7. Fits(n, t)
    <2>1. Speaker(o.i + 1) = Peer(n)
      BY <1>3, SpeakerFacts
    <2> QED BY <1>3, <1>5, <2>1 DEF Fits
  <1>8. ExchFits(n, session[n], exch[n], t, rx[n])
    <2>1. Owes(n, exch[n], t)
      BY <1>2, <1>4, <1>5, Zenon DEF Owes
    <2> QED BY <1>2, <1>4, <2>1, Zenon DEF ExchFits
  <1>9. ASSUME NEW i \in 1..M, Speaker(i) = n, Past(t, i)
        PROVE  i \in gave_up \/ Reached(i)
    <2>1. i <= o.i
      BY <1>3, <1>5, <1>9, SMTT(30) DEF Past
    <2>2. CASE i = o.i
      BY <1>2, <1>4, <2>2 DEF Owes
    <2>3. CASE i < o.i
      BY <1>1, <1>2, <1>9, <2>3 DEF ConcludedReached, Concluded
    <2> QED BY <1>3, <2>1, <2>2, <2>3
  <1>10. ~Left(session[n], exch[n], o)
    BY <1>2, <1>4 DEF Left
  <1>11. t.at # "idle"
    BY <1>5
  <1>12. t \in [at : At, i : 0..M]
    BY <1>5
  <1> QED BY <1>1, <1>2, <1>6, <1>7, <1>8, <1>9, <1>10, <1>11, <1>12, LocalStep, Zenon DEF Here

\* Exchange::drop keeps the invariant.
LEMMA DropExchangeKeeps ==
  ASSUME MrpInv, NEW n \in Node, drop_exchange(n)
  PROVE  MrpInv'
  <1> DEFINE t == [task[n] EXCEPT !.at = "gone"]
             e == IF ~session[n] THEN exch[n]
                  ELSE IF is_retrans_pending(exch[n]) \/ is_ack_pending(exch[n])
                    THEN [exch[n] EXCEPT !.role = "Dropped"] ELSE None
  <1>1. Here(n)
    BY HereFacts
  <1>2. /\ task[n].at \notin {"idle", "gone"}
        /\ UNCHANGED <<msg_ctr, rx_ctr, net, gave_up, said, heard>>
    BY DEF drop_exchange
  <1>3. t \in [at : At, i : 0..M] /\ t.at = "gone" /\ t.i = task[n].i
    BY <1>1 DEF Here, At
  <1>4. session[n] => exch[n] # None /\ exch[n] \in ExchangeState
    BY <1>1, <1>2 DEF Here, ExchFits, Busy, At
  <1>5. \/ e = None
        \/ /\ session[n] /\ exch[n] # None /\ e \in ExchangeState /\ e.role = "Dropped"
           /\ e.retrans = exch[n].retrans /\ e.ack = exch[n].ack
    <2>1. CASE ~session[n]
      BY <1>1, <2>1 DEF Here, ExchFits
    <2>2. CASE session[n]
      BY <1>4, <2>2, RoleFacts, Zenon
    <2> QED BY <2>1, <2>2
  <1>6. Moves(n, session[n], e, t, rx[n])
    BY <1>1, Zenon DEF drop_exchange, Moves, Here
  <1> HIDE DEF e, t
  <1>7. Fits(n, t)
    BY <1>3 DEF Fits
  <1>8. ExchFits(n, session[n], e, t, rx[n])
    <2>1. e # None => Owes(n, e, t) /\ Holds(e, rx[n])
      BY <1>1, <1>3, <1>5 DEF Here, ExchFits, Owes, Holds
    <2> QED BY <1>3, <1>5, <2>1 DEF ExchFits, Busy
  <1>9. \A i \in 1..M : ~Past(t, i)
    BY <1>3 DEF Past
  <1>10. Left(session[n], e, t)
    BY <1>3 DEF Left
  <1>11. e \in ExchangeState \cup {None} /\ t.at # "idle"
    BY <1>3, <1>5
  <1> QED BY <1>1, <1>2, <1>3, <1>6, <1>7, <1>8, <1>9, <1>10, <1>11, LocalStep DEF Here

\* A task whose session is gone fails.
LEMMA SessionRemovedKeeps ==
  ASSUME MrpInv, NEW n \in Node, session_removed(n)
  PROVE  MrpInv'
  <1> DEFINE t == [task[n] EXCEPT !.at = "done"]
  <1>1. Here(n)
    BY HereFacts
  <1>2. ~session[n] /\ UNCHANGED <<msg_ctr, rx_ctr, net, gave_up, said, heard>>
    BY DEF session_removed
  <1>3. t \in [at : At, i : 0..M] /\ t.at = "done"
    BY <1>1 DEF Here, At
  <1>4. Moves(n, session[n], exch[n], t, rx[n])
    BY <1>1 DEF session_removed, Moves, Here
  <1> HIDE DEF t
  <1>5. Fits(n, t)
    BY <1>3 DEF Fits
  <1>6. ExchFits(n, session[n], exch[n], t, rx[n])
    BY <1>1, <1>2, Zenon DEF Here, ExchFits
  <1>7. Left(session[n], exch[n], t) /\ (\A i \in 1..M : ~Past(t, i)) /\ t.at # "idle"
    BY <1>2, <1>3 DEF Past, Left
  <1> QED BY <1>1, <1>2, <1>3, <1>4, <1>5, <1>6, <1>7, LocalStep DEF Here

\* Transport::accept_if keeps the invariant.
LEMMA AcceptKeeps ==
  ASSUME MrpInv, NEW n \in Node, accept(n)
  PROVE  MrpInv'
  <1> DEFINE t == [at |-> "recv", i |-> 1]
             e == [exch[n] EXCEPT !.role = "Owned"]
  <1>1. Here(n) /\ TaskInv /\ Types
    BY HereFacts DEF MrpInv
  <1>2. /\ session[n] /\ task[n].at = "idle" /\ exch[n] # None /\ exch[n].role = "AcceptPending"
        /\ UNCHANGED <<msg_ctr, rx_ctr, net, gave_up, said, heard>>
    BY DEF accept, Has
  <1>3. t \in [at : At, i : 0..M] /\ t.at = "recv" /\ t.i = 1
    BY MrpAssumption DEF At
  <1>4. /\ e \in ExchangeState /\ e.role = "Owned" /\ e.retrans = exch[n].retrans
        /\ e.ack = exch[n].ack
    BY <1>1, <1>2, RoleFacts, Zenon DEF Here
  <1>5. Moves(n, session[n], e, t, rx[n])
    BY <1>1, Zenon DEF accept, Moves, Here
  <1>6. n = "B" /\ exch[n].retrans = None
    BY <1>1, <1>2 DEF Here, ExchFits, Owes
  <1> HIDE DEF e, t
  <1>7. Fits(n, t)
    <2>1. Speaker(1) = Peer(n) /\ Taken = 0
      BY <1>1, <1>2, <1>6, SpeakerFacts, PeerFacts DEF TaskInv
    <2> QED BY <1>3, <2>1, SMTT(30) DEF Fits
  <1>8. ExchFits(n, session[n], e, t, rx[n])
    <2>1. Owes(n, e, t) /\ Holds(e, rx[n])
      BY <1>1, <1>2, <1>3, <1>4, <1>6 DEF Here, ExchFits, Owes, Holds
    <2>2. e # None
      BY <1>4, MrpNone
    <2> QED BY <1>2, <1>4, <2>1, <2>2, Zenon DEF ExchFits
  <1>9. (\A i \in 1..M : ~Past(t, i)) /\ t.at # "idle" /\ ~Left(session[n], exch[n], task[n])
    BY <1>2, <1>3 DEF Past, Left
  <1> QED BY <1>1, <1>2, <1>3, <1>4, <1>5, <1>7, <1>8, <1>9, LocalStep, Zenon DEF Here

\* Transport::handle_accept_timeout_rx_packet keeps the invariant.
LEMMA AcceptTimeoutKeeps ==
  ASSUME MrpInv, NEW n \in Node, accept_timeout(n)
  PROVE  MrpInv'
  <1> DEFINE e == [exch[n] EXCEPT !.role = "Dropped"]
  <1>1. Here(n)
    BY HereFacts
  <1>2. /\ session[n] /\ exch[n] # None /\ exch[n].role = "AcceptPending"
        /\ UNCHANGED <<msg_ctr, rx_ctr, net, gave_up, said, heard>>
    BY DEF accept_timeout, Has
  <1>3. /\ e \in ExchangeState /\ e.role = "Dropped" /\ e.retrans = exch[n].retrans
        /\ e.ack = exch[n].ack
    BY <1>1, <1>2, RoleFacts, ZenonT(30) DEF Here
  <1>4. Moves(n, session[n], e, task[n], None)
    BY <1>1 DEF accept_timeout, Moves, Here
  <1>5. ~Busy(task[n])
    BY <1>1, <1>2 DEF Here, ExchFits
  <1> HIDE DEF e
  <1>6. ExchFits(n, session[n], e, task[n], None)
    <2>1. Owes(n, e, task[n]) /\ Holds(e, None)
      BY <1>1, <1>2, <1>3, <1>5 DEF Here, ExchFits, Owes, Holds, Busy
    <2> QED BY <1>2, <1>5, <2>1, Zenon DEF ExchFits
  <1>7. (\A i \in 1..M : ~Past(task[n], i)) /\ Left(session[n], e, task[n])
    BY <1>3, <1>5 DEF Past, Left, Busy
  <1> QED BY <1>1, <1>2, <1>3, <1>4, <1>6, <1>7, LocalStep, Zenon DEF Here

\* Transport::handle_orphaned_rx_packet keeps the invariant.
LEMMA OrphanedKeeps ==
  ASSUME MrpInv, NEW n \in Node, orphaned(n)
  PROVE  MrpInv'
  <1>1. Here(n) /\ ConcludedReached
    BY HereFacts DEF MrpInv
  <1>2. UNCHANGED <<msg_ctr, rx_ctr, net, gave_up, said, heard>>
    BY DEF orphaned
  <1>3. Moves(n, session[n], exch[n], task[n], None)
    BY <1>1 DEF orphaned, Moves, Here
  <1>4. ExchFits(n, session[n], exch[n], task[n], None)
    BY <1>1 DEF Here, ExchFits, Holds
  <1>5. Left(session[n], exch[n], task[n])
    BY Zenon DEF orphaned, Left, Has
  <1>6. \A i \in 1..M : Speaker(i) = n /\ Past(task[n], i) => i \in gave_up \/ Reached(i)
    BY <1>1 DEF ConcludedReached, Concluded, Past
  <1> QED BY <1>1, <1>2, <1>3, <1>4, <1>5, <1>6, LocalStep DEF Here

\* Sessions::remove keeps the invariant.
LEMMA RemoveKeeps ==
  ASSUME MrpInv, NEW n \in Node, remove(n)
  PROVE  MrpInv'
  <1>1. Here(n) /\ ConcludedReached
    BY HereFacts DEF MrpInv
  <1>2. UNCHANGED <<msg_ctr, rx_ctr, net, gave_up, said, heard>>
    BY DEF remove
  <1>3. Moves(n, FALSE, None, task[n], rx[n])
    BY <1>1, ZenonT(30) DEF remove, Moves, Here
  <1>4. ExchFits(n, FALSE, None, task[n], rx[n]) /\ Left(FALSE, None, task[n])
    BY DEF ExchFits, Left
  <1>5. \A i \in 1..M : Speaker(i) = n /\ Past(task[n], i) => i \in gave_up \/ Reached(i)
    BY <1>1 DEF ConcludedReached, Concluded, Past
  <1> QED BY <1>1, <1>2, <1>3, <1>4, <1>5, LocalStep, ZenonT(30) DEF Here

------------------------------------------------------------------------------
\* The counter of a packet in the network, and what Session::post_recv does with it.
LEMMA PacketFacts ==
  ASSUME MrpInv, NEW p \in net
  PROVE  /\ p \in Packet /\ p.to \in Node
         /\ p.ctr \in 0..LastCtr /\ p.ctr \in Nat /\ p.says \in 0..M /\ p.says \in Nat
         /\ accepts(rx_ctr[p.to], p.ctr, TRUE) <=> ~Refused(p.to, p.ctr)
  <1>1. Types /\ NetInv
    BY Zenon DEF MrpInv
  <1>2. p \in Packet /\ p.to \in Node /\ p.says \in 0..M /\ p.ctr \in Nat
    BY <1>1, HalfAssumption DEF Types, Packet, Ctr
  <1>3. p.ctr \in 0..LastCtr
    <2>1. p.ctr < msg_ctr[Peer(p.to)] /\ msg_ctr[Peer(p.to)] \in 0..(LastCtr + 1)
      BY <1>1, <1>2, PeerFacts DEF NetInv, Types
    <2> QED BY <1>2, <2>1, MrpAssumption, SMTT(30)
  <1>4. rx_ctr[p.to] \in RxState /\ rx_ctr[p.to].max_ctr <= LastCtr
    BY <1>1, <1>2 DEF Types
  <1>5. p.says \in Nat
    BY <1>2, MrpAssumption
  <1> QED BY <1>2, <1>3, <1>4, <1>5, AcceptedFacts, Zenon DEF Refused

\* A message that the window takes is the next one to be heard, and what it acknowledges is the
\* message that n has in flight.
LEMMA AcceptedMessage ==
  ASSUME MrpInv, NEW n \in Node, NEW p \in net, p.to = n, p.says # 0, ~Refused(n, p.ctr)
  PROVE  /\ p.says = Taken + 1 /\ p.says = said /\ n = Peer(Speaker(p.says))
         /\ task[n].at # "send"
         /\ exch[n] # None /\ exch[n].retrans # None =>
              p.ack # None /\ (task[n].at = "sent" => exch[n].retrans.msg_ctr = p.ack)
  <1>1. Types /\ NetInv /\ TaskInv /\ HeardRefused /\ Here(n)
    BY HereFacts DEF MrpInv
  <1>2. Taken \in Nat /\ said \in Nat /\ p.says \in 1..M /\ Taken <= said /\ said <= Taken + 1
    <2>1. p.says \in 0..M /\ M \in Nat
      BY PacketFacts, MrpAssumption, Zenon
    <2>2. Taken \in Nat /\ said \in Nat
      BY <1>1, MrpAssumption, SMTT(30) DEF Types, Taken
    <2> QED BY <1>1, <2>1, <2>2 DEF TaskInv
  <1>3. p.says = Taken + 1 /\ p.says = said /\ n = Peer(Speaker(p.says))
    BY <1>1, <1>2, SMTT(30) DEF HeardRefused, NetInv
  <1>4. task[n].at # "send"
    <2>1. task[n].at = "send" => said = Taken
      BY <1>1, Zenon DEF Here, Fits
    <2> QED BY <1>2, <1>3, <2>1
  <1>5. ASSUME exch[n] # None, exch[n].retrans # None
        PROVE  p.ack # None /\ p.says >= 2
    <2>1. Owes(n, exch[n], task[n])
      BY <1>1, <1>5, ZenonT(30) DEF Here, ExchFits
    <2>2. n = "B" => Taken >= 1
      BY <1>5, <2>1 DEF Owes
    <2>3. p.says >= 2
      <3>1. p.says = 1 => n = "B"
        BY <1>3, SpeakerFacts, PeerFacts, Zenon
      <3> QED BY <1>2, <1>3, <2>2, <3>1
    <2> QED BY <1>1, <2>3 DEF NetInv
  <1>6. ASSUME exch[n] # None, exch[n].retrans # None, task[n].at = "sent"
        PROVE  exch[n].retrans.msg_ctr = p.ack
    <2> DEFINE j == task[n].i
    <2>0. task[n] \in [at : At, i : 0..M] /\ Owes(n, exch[n], task[n]) /\ Fits(n, task[n])
      BY <1>1, <1>6, Zenon DEF Here, ExchFits
    <2>1. /\ Carries(Peer(n), j, exch[n].retrans.msg_ctr)
          /\ j \in 1..M /\ Speaker(j) = n /\ said \in {j, j + 1}
      <3>1. /\ Carries(Peer(n), j, exch[n].retrans.msg_ctr)
            /\ Speaker(j) = n /\ said \in {j, j + 1} /\ j >= 1
        BY <1>6, <2>0, Zenon DEF Owes, Fits
      <3> QED BY <2>0, <3>1
    <2>2. p.says - 1 = j
      <3>1. Speaker(p.says) # n
        BY <1>2, <1>3, SpeakerFacts, PeerFacts, Zenon
      <3> QED BY <1>2, <1>3, <2>1, <3>1
    <2>3. Carries(Peer(n), j, p.ack)
      BY <1>1, <1>5, <1>6, <2>2 DEF NetInv
    <2> HIDE DEF j
    <2> QED BY <1>1, <2>1, <2>3, SMTT(30) DEF Carries, NetInv
  <1> QED BY <1>3, <1>4, <1>5, <1>6

\* The acknowledgement entry once its acknowledgement is sent.
LEMMA AckedFacts ==
  ASSUME NEW a \in AckEntry
  PROVE  /\ [a EXCEPT !.acknowledged = TRUE] \in AckEntry
         /\ [a EXCEPT !.acknowledged = TRUE].msg_ctr = a.msg_ctr
  BY Zenon DEF AckEntry

\* Exchange::acknowledge keeps the invariant.
LEMMA AcknowledgeKeeps ==
  ASSUME MrpInv, NEW n \in Node, acknowledge(n), Bounded
  PROVE  MrpInv'
  <1>0. PICK e, a, b, x : e = exch[n] /\ a = exch[n].ack.msg_ctr /\ b = session[n] /\ x = rx[n]
    BY Zenon
  <1> DEFINE t == [task[n] EXCEPT !.at = "done"]
             f == IF is_ack_pending(e) THEN [e EXCEPT !.ack = [e.ack EXCEPT !.acknowledged = TRUE]] ELSE e
  <1>1. Here(n) /\ NewestSettled
    BY HereFacts, Zenon DEF MrpInv
  <1>2. /\ session[n] /\ task[n].at = "acknowledge"
        /\ UNCHANGED <<rx_ctr, session, rx, gave_up, said, heard>>
    BY Zenon DEF acknowledge
  <1>3. e \in ExchangeState /\ e # None /\ e.role = "Owned" /\ Owes(n, e, task[n]) /\ Holds(e, x)
    BY <1>0, <1>1, <1>2 DEF Here, ExchFits, Busy
  <1>4. e.retrans = None
    BY <1>2, <1>3 DEF Owes
  <1>5. SendsAck(n, a)
    <2>1. CASE is_ack_pending(e)
      <3>1. e.ack # None /\ Refused(n, a)
        BY <1>0, <1>3, <2>1, Zenon DEF is_ack_pending, Owes
      <3>2. /\ net' = net \cup {[to |-> Peer(n), ctr |-> msg_ctr[n], says |-> 0, ack |-> a]}
            /\ msg_ctr' = [msg_ctr EXCEPT ![n] = @ + 1]
        BY <1>0, <1>4, <2>1, <3>1, Zenon DEF acknowledge, AckOf
      <3> QED BY <1>2, <3>1, <3>2, Zenon DEF SendsAck, Refused
    <2>2. CASE ~is_ack_pending(e)
      BY <1>0, <2>2, Zenon DEF acknowledge, SendsAck
    <2> QED BY <2>1, <2>2, Zenon
  <1>6. /\ f \in ExchangeState /\ f # None /\ f.role = e.role /\ f.retrans = None
        /\ (e.ack # None <=> f.ack # None) /\ f.ack.msg_ctr = e.ack.msg_ctr
    <2>1. CASE is_ack_pending(e)
      <3>1. e.ack \in AckEntry
        BY <1>3, <2>1, Zenon DEF ExchangeState, is_ack_pending
      <3>2. /\ [e.ack EXCEPT !.acknowledged = TRUE] \in AckEntry
            /\ [e.ack EXCEPT !.acknowledged = TRUE].msg_ctr = e.ack.msg_ctr
        BY <3>1, AckedFacts, Zenon
      <3>3. /\ f \in ExchangeState /\ f.role = e.role /\ f.retrans = e.retrans
            /\ f.ack.msg_ctr = e.ack.msg_ctr /\ f.ack # None
        BY <1>3, <2>1, <3>2, MrpNone, Zenon DEF ExchangeState
      <3> QED BY <1>4, <2>1, <3>3, MrpNone, Zenon DEF is_ack_pending
    <2>2. CASE ~is_ack_pending(e)
      BY <1>3, <1>4, <2>2, Zenon
    <2> QED BY <2>1, <2>2, Zenon
  <1>7. t \in [at : At, i : 0..M] /\ t.at = "done"
    BY <1>1 DEF Here, At
  <1>8. Moves(n, b, f, t, x)
    <2>1. CASE is_ack_pending(e)
      BY <1>0, <1>1, <1>2, <2>1 DEF acknowledge, Moves, Here
    <2>2. CASE ~is_ack_pending(e)
      BY <1>0, <1>1, <1>2, <2>2 DEF acknowledge, Moves, Here
    <2> QED BY <2>1, <2>2, Zenon
  <1> HIDE DEF f, t
  <1>9. ExchFits(n, b, f, t, x) /\ Fits(n, t)
    <2>1. Owes(n, f, t) /\ Holds(f, x)
      BY <1>3, <1>6, <1>7, Zenon DEF Owes, Holds
    <2> QED BY <1>0, <1>2, <1>3, <1>6, <1>7, <2>1, Zenon DEF ExchFits, Fits
  <1>10. Newest(n, b, f, t, x)
    <2> SUFFICES ASSUME NEW p \in net, p.to = n, p.says # 0, p.ctr # 0, p.ctr = rx_ctr[n].max_ctr
                 PROVE  SettledAs(b, f, t, x, p.says)
      BY <1>2, Zenon DEF Newest
    <2>1. Settled(n, p.says)
      BY <1>1, Zenon DEF NewestSettled
    <2>2. ~Left(session[n], exch[n], task[n])
      BY <1>0, <1>2, <1>3, Zenon DEF Left
    <2> QED BY <1>0, <2>1, <2>2, SettledFacts, Zenon DEF SettledAs
  <1>11. Hears(n, 0) /\ Waits(n, x) /\ \A i \in 1..M : ~Past(t, i)
    BY <1>0, <1>2, <1>7, Zenon DEF Hears, Waits, Past
  <1>12. b \in BOOLEAN /\ x \in Packet \cup {None} /\ f \in ExchangeState \cup {None} /\ t.at # "idle"
    BY <1>0, <1>1, <1>6, <1>7, Zenon DEF Here
  <1> QED BY <1>2, <1>5, <1>7, <1>8, <1>9, <1>10, <1>11, <1>12, NodeStep, Zenon

\* Transport::handle_dropped_exchange keeps the invariant.
LEMMA HandleDroppedKeeps ==
  ASSUME MrpInv, NEW n \in Node, handle_dropped_exchange(n), Bounded
  PROVE  MrpInv'
  <1>0. PICK e, a, b, t, x : /\ e = exch[n] /\ a = exch[n].ack.msg_ctr /\ t = task[n] /\ x = rx[n]
                             /\ b = ~is_retrans_pending(exch[n])
    BY Zenon
  <1>1. Here(n)
    BY HereFacts, Zenon
  <1>2. /\ session[n] /\ e # None /\ e.role = "Dropped"
        /\ UNCHANGED <<rx_ctr, rx, task, gave_up, said, heard>>
    BY <1>0, Zenon DEF handle_dropped_exchange, Has
  <1>3. Owes(n, e, t) /\ ~Busy(t) /\ Fits(n, t)
    BY <1>0, <1>1, <1>2, Zenon DEF Here, ExchFits
  <1>4. SendsAck(n, a)
    <2>1. CASE ~is_retrans_pending(e) /\ is_ack_pending(e)
      <3>1. e.ack # None /\ Refused(n, a)
        BY <1>0, <1>3, <2>1, Zenon DEF is_ack_pending, Owes
      <3>2. /\ net' = net \cup {[to |-> Peer(n), ctr |-> msg_ctr[n], says |-> 0, ack |-> a]}
            /\ msg_ctr' = [msg_ctr EXCEPT ![n] = @ + 1]
        BY <1>0, <2>1, <3>1, ZenonT(30) DEF handle_dropped_exchange, AckOf
      <3> QED BY <1>2, <3>1, <3>2, Zenon DEF SendsAck, Refused
    <2>2. CASE ~(~is_retrans_pending(e) /\ is_ack_pending(e))
      BY <1>0, <2>2, ZenonT(30) DEF handle_dropped_exchange, SendsAck
    <2> QED BY <2>1, <2>2, Zenon
  <1>5. Moves(n, b, None, t, x)
    BY <1>0, <1>1, Zenon DEF handle_dropped_exchange, Moves, Here
  <1>6. ExchFits(n, b, None, t, x) /\ Newest(n, b, None, t, x) /\ Hears(n, 0) /\ Waits(n, x)
    BY <1>0, <1>2, <1>3, Zenon DEF ExchFits, Newest, SettledAs, Left, Hears, Waits
  <1>7. \A i \in 1..M : ~Past(t, i)
    BY <1>3 DEF Past, Busy
  <1>8. /\ b \in BOOLEAN /\ x \in Packet \cup {None} /\ t \in [at : At, i : 0..M]
        /\ t.at = "idle" => task[n].at = "idle"
    BY <1>0, <1>1, Zenon DEF Here, is_retrans_pending
  <1> QED BY <1>2, <1>3, <1>4, <1>5, <1>6, <1>7, <1>8, NodeStep, Zenon

\* What a received packet does to the counters, and what waits for the node in the network.
LEMMA ArrivesFacts ==
  ASSUME MrpInv, NEW n \in Node, NEW p \in net, Arrives(n, p),
         rx_ctr' = [rx_ctr EXCEPT ![n] = post_recv(@, p.ctr, TRUE)]
  PROVE  /\ p.to = n /\ session[n] /\ rx[n] = None /\ p \in Packet /\ p.ctr \in 0..LastCtr
         /\ accepts(rx_ctr[n], p.ctr, TRUE) <=> ~Refused(n, p.ctr)
         /\ Hears(n, p.ctr) /\ Refused(n, p.ctr)'
         /\ \A q \in net : q.to = n /\ q.says # 0 /\ q.ctr # 0 /\ q.ctr = rx_ctr'[n].max_ctr =>
              \/ q.ctr = rx_ctr[n].max_ctr
              \/ q.says = p.says /\ ~Refused(n, p.ctr)
  <1>1. p.to = n /\ session[n] /\ rx[n] = None /\ Types /\ NetInv
    BY Zenon DEF Arrives, MrpInv
  <1>2. /\ p \in Packet /\ p.ctr \in 0..LastCtr
        /\ accepts(rx_ctr[n], p.ctr, TRUE) <=> ~Refused(n, p.ctr)
    BY <1>1, PacketFacts, Zenon
  <1>3. Records(n, p.ctr)
    BY <1>1, <1>2, RecordsFacts, Zenon
  <1>4. p.ctr < msg_ctr[Peer(n)]
    BY <1>1, Zenon DEF NetInv
  <1>5. ASSUME NEW q \in net, q.to = n, q.ctr = rx_ctr'[n].max_ctr
        PROVE  q.ctr = rx_ctr[n].max_ctr \/ (q.says = p.says /\ ~Refused(n, p.ctr))
    <2>1. q.ctr = p.ctr => q.says = p.says
      BY <1>1, <1>5 DEF NetInv
    <2>2. rx_ctr'[n].max_ctr = rx_ctr[n].max_ctr \/ (rx_ctr'[n].max_ctr = p.ctr /\ ~Refused(n, p.ctr))
      BY <1>3, Zenon DEF Records
    <2> QED BY <1>5, <2>1, <2>2, Zenon
  <1> QED BY <1>1, <1>2, <1>3, <1>4, <1>5, Zenon DEF Hears, Records

\* A packet that the window or the exchange takes for a duplicate is at most acknowledged again.
LEMMA ReceiveDuplicateKeeps ==
  ASSUME MrpInv, NEW n \in Node, NEW p \in net, receive_duplicate(n, p), Bounded
  PROVE  MrpInv'
  <1>0. PICK b, e, t, x : b = session[n] /\ e = exch[n] /\ t = task[n] /\ x = rx[n]
    BY Zenon
  <1>1. Here(n) /\ NewestSettled /\ ConcludedReached
    BY HereFacts, Zenon DEF MrpInv
  <1>2. /\ Arrives(n, p) /\ rx_ctr' = [rx_ctr EXCEPT ![n] = post_recv(@, p.ctr, TRUE)]
        /\ ~accepts(rx_ctr[n], p.ctr, TRUE) \/ (e # None /\ AckMismatch(e, p))
        /\ ReAck(n, p) /\ UNCHANGED <<session, exch, rx, task, gave_up, said, heard>>
    BY <1>0, Zenon DEF receive_duplicate
  <1>3. /\ p.to = n /\ accepts(rx_ctr[n], p.ctr, TRUE) <=> ~Refused(n, p.ctr)
        /\ Hears(n, p.ctr) /\ Refused(n, p.ctr)'
        /\ \A q \in net : q.to = n /\ q.says # 0 /\ q.ctr # 0 /\ q.ctr = rx_ctr'[n].max_ctr =>
             q.ctr = rx_ctr[n].max_ctr \/ (q.says = p.says /\ ~Refused(n, p.ctr))
    BY <1>2, ArrivesFacts, Zenon
  <1>4. SendsAck(n, p.ctr)
    BY <1>2, <1>3, Zenon DEF ReAck, SendsAck
  <1>5. Moves(n, b, e, t, x)
    BY <1>0, <1>1, <1>2, Zenon DEF Moves, Here
  <1>6. Newest(n, b, e, t, x)
    <2> SUFFICES ASSUME NEW q \in net, q.to = n, q.says # 0, q.ctr # 0, q.ctr = rx_ctr'[n].max_ctr
                 PROVE  SettledAs(b, e, t, x, q.says)
      BY Zenon DEF Newest
    <2>1. CASE q.ctr = rx_ctr[n].max_ctr
      <3>1. Settled(n, q.says)
        BY <1>1, <2>1, Zenon DEF NewestSettled
      <3> QED BY <1>0, <3>1, SettledFacts, Zenon DEF SettledAs
    <2>2. CASE q.says = p.says /\ ~Refused(n, p.ctr)
      <3>1. e # None /\ e.retrans # None /\ e.retrans.msg_ctr # p.ack
        BY <1>2, <1>3, <2>2, Zenon DEF AckMismatch
      <3>2. t.at # "sent"
        BY <1>0, <1>3, <2>2, <3>1, AcceptedMessage, Zenon
      <3>3. e.role = "Dropped"
        BY <1>0, <1>1, <3>1, <3>2, Zenon DEF Here, ExchFits, Owes
      <3> QED BY <3>3, Zenon DEF SettledAs, Left
    <2> QED BY <1>3, <2>1, <2>2, Zenon
  <1>7. \A i \in 1..M : Speaker(i) = n /\ Past(t, i) => i \in gave_up \/ Reached(i)
    BY <1>0, <1>1, Zenon DEF ConcludedReached, Concluded, Past
  <1>8. /\ b \in BOOLEAN /\ e \in ExchangeState \cup {None} /\ t \in [at : At, i : 0..M]
        /\ x \in Packet \cup {None} /\ (t.at = "idle" => task[n].at = "idle") /\ Fits(n, t)
        /\ ExchFits(n, b, e, t, x) /\ Waits(n, x)
    BY <1>0, <1>1, Zenon DEF Here, Waits
  <1> QED BY <1>2, <1>3, <1>4, <1>5, <1>6, <1>7, <1>8, NodeStep, Zenon

\* The fields of an exchange that a packet came in for.
LEMMA PostReceivedFacts ==
  ASSUME NEW e \in ExchangeState, NEW p \in Packet
  PROVE  LET f == PostReceived(e, p)
             done == p.ack # None /\ e.retrans # None
         IN  /\ f \in ExchangeState /\ f # None /\ f.role = e.role
             /\ f.retrans = IF done THEN None ELSE e.retrans
             /\ f.ack = IF p.says # 0 THEN [msg_ctr |-> p.ctr, acknowledged |-> FALSE]
                        ELSE IF done THEN None ELSE e.ack
             /\ p.says # 0 => f.ack # None /\ f.ack.msg_ctr = p.ctr
  <1> DEFINE done == p.ack # None /\ e.retrans # None
             r == IF done THEN None ELSE e.retrans
             k == IF p.says # 0 THEN [msg_ctr |-> p.ctr, acknowledged |-> FALSE]
                  ELSE IF done THEN None ELSE e.ack
             f == PostReceived(e, p)
  <1>1. f = [e EXCEPT !.retrans = r, !.ack = k]
    BY DEF PostReceived, is_standalone_ack
  <1>2. r \in RetransEntry \cup {None}
    BY DEF ExchangeState
  <1>3. [msg_ctr |-> p.ctr, acknowledged |-> FALSE] \in AckEntry
    BY DEF Packet, AckEntry
  <1>4. k \in AckEntry \cup {None}
    BY <1>3 DEF ExchangeState
  <1>5. p.says # 0 => k # None /\ k.msg_ctr = p.ctr
    BY <1>3, MrpNone, Zenon
  <1> HIDE DEF k, r, f
  <1>6. f \in ExchangeState /\ f.role = e.role /\ f.retrans = r /\ f.ack = k
    BY <1>1, <1>2, <1>4, Zenon DEF ExchangeState
  <1>7. f # None
    BY <1>6, MrpNone
  <1>8. /\ f \in ExchangeState /\ f # None /\ f.role = e.role /\ f.retrans = r /\ f.ack = k
        /\ p.says # 0 => f.ack # None /\ f.ack.msg_ctr = p.ctr
    BY <1>5, <1>6, <1>7, ZenonT(30)
  <1> QED BY <1>8 DEF f, r, k

\* What Session::post_recv leaves of the exchange keeps what the exchange owes.
LEMMA ReceivedOwes ==
  ASSUME MrpInv, NEW n \in Node, NEW p \in net, p.to = n, session[n], ~Refused(n, p.ctr),
         exch[n] # None, ~AckMismatch(exch[n], p), Refused(n, p.ctr)', Grows,
         NEW f, f = PostReceived(exch[n], p), NEW t, t = task[n], UNCHANGED gave_up
  PROVE  Owes(n, f, t)' /\ (p.says # 0 => f.retrans = None)
  <1> DEFINE e == exch[n]
             done == p.ack # None /\ e.retrans # None
  <1>1. Here(n) /\ Types /\ NetInv /\ p \in Packet
    BY HereFacts, PacketFacts, Zenon DEF MrpInv
  <1>2. e \in ExchangeState /\ Owes(n, e, t) /\ t \in [at : At, i : 0..M]
    BY <1>1, Zenon DEF Here, ExchFits
  <1>3. /\ f \in ExchangeState /\ f.role = e.role
        /\ f.retrans = IF done THEN None ELSE e.retrans
        /\ f.ack = IF p.says # 0 THEN [msg_ctr |-> p.ctr, acknowledged |-> FALSE]
                   ELSE IF done THEN None ELSE e.ack
        /\ p.says # 0 => f.ack # None /\ f.ack.msg_ctr = p.ctr
    BY <1>1, <1>2, PostReceivedFacts, Zenon
  <1>4. p.says # 0 => f.retrans = None /\ t.at # "send"
    BY <1>3, AcceptedMessage, Zenon
  <1>5. t.at = "send" => e.retrans = None
    <2>1. t.at = "send" => e.role = "Owned"
      BY <1>1, Zenon DEF Here, ExchFits, Busy
    <2> QED BY <1>2, <2>1 DEF Owes
  <1>6. Owes(n, f, t)'
    <2>1. f.role = "AcceptPending" => n = "B" /\ f.retrans = None
      BY <1>2, <1>3, Zenon DEF Owes
    <2>2. f.retrans # None => f.retrans = e.retrans /\ ~done /\ p.says = 0 /\ f.ack = e.ack
      BY <1>3, <1>4, Zenon
    <2>3. f.retrans # None =>
            /\ t.at = "sent" \/ f.role = "Dropped"
            /\ n = "B" => Taken' >= 1
            /\ t.at = "sent" => Carries(Peer(n), t.i, f.retrans.msg_ctr)'
      <3>1. Types /\ Grows
        BY <1>1, Zenon
      <3>2. Taken \in Nat /\ Taken' \in Nat /\ Taken' >= Taken
        BY <1>1 DEF Types, Taken, Grows
      <3>3. \A m, i, c : Carries(m, i, c) => Carries(m, i, c)'
        BY <3>1, GrowthKeeps, Zenon
      <3>4. e.retrans # None =>
              /\ t.at = "sent" \/ e.role = "Dropped"
              /\ n = "B" => Taken >= 1
              /\ t.at = "sent" => Carries(Peer(n), t.i, e.retrans.msg_ctr)
        BY <1>2, Zenon DEF Owes
      <3>5. Taken >= 1 => Taken' >= 1
        BY <3>2
      <3> QED BY <1>3, <2>2, <3>3, <3>4, <3>5, Zenon
    <2>4. f.ack # None => Refused(n, f.ack.msg_ctr)'
      <3>1. CASE p.says # 0
        BY <1>3, <3>1, Zenon
      <3>2. CASE p.says = 0
        BY <1>2, <1>3, <3>2, ZenonT(30) DEF Owes, Grows, Refused
      <3> QED BY <3>1, <3>2, Zenon
    <2>5. t.i >= 2 /\ (t.at = "send" \/ (t.at = "sent" /\ f.retrans # None)) =>
            f.ack # None /\ Carries(n, t.i - 1, f.ack.msg_ctr)'
      <3>1. \A m, i, c : Carries(m, i, c) => Carries(m, i, c)'
        BY <1>1, GrowthKeeps, ZenonT(30)
      <3>2. t.at = "send" => f.ack = e.ack
        BY <1>3, <1>4, <1>5, Zenon
      <3> QED BY <1>2, <2>2, <3>1, <3>2, ZenonT(30) DEF Owes
    <2>6. t.at = "sent" /\ f.retrans = None => t.i \in gave_up' \/ Reached(t.i)'
      <3> SUFFICES ASSUME t.at = "sent", f.retrans = None
                   PROVE  t.i \in gave_up \/ Reached(t.i)
        BY <1>1, GrowthKeeps, ZenonT(30)
      <3>1. CASE e.retrans = None
        BY <1>2, <3>1, Zenon DEF Owes
      <3>2. CASE e.retrans # None
        <4>1. done
          BY <1>3, <3>2, Zenon
        <4>2. p.ack = e.retrans.msg_ctr /\ Refused(Peer(n), p.ack)
          BY <1>1, <4>1, Zenon DEF AckMismatch, NetInv
        <4>3. Carries(Peer(n), t.i, e.retrans.msg_ctr)
          BY <1>2, <3>2, ZenonT(30) DEF Owes
        <4> QED BY <4>2, <4>3, Zenon DEF Carries, Reached
      <3> QED BY <3>1, <3>2, Zenon
    <2> QED BY <2>1, <2>3, <2>4, <2>5, <2>6, ZenonT(30) DEF Owes
  <1> QED BY <1>4, <1>6

\* A packet for the exchange of the node keeps the invariant.
LEMMA ReceiveOnExchangeKeeps ==
  ASSUME MrpInv, NEW n \in Node, NEW p \in net, receive_on_exchange(n, p), Bounded
  PROVE  MrpInv'
  <1>0. PICK b, f, t, x : /\ b = session[n] /\ f = PostReceived(exch[n], p) /\ t = task[n]
                          /\ x = IF p.says = 0 THEN None ELSE p
    BY Zenon
  <1>1. Here(n) /\ NewestSettled /\ ConcludedReached
    BY HereFacts, Zenon DEF MrpInv
  <1>2. /\ Arrives(n, p) /\ rx_ctr' = [rx_ctr EXCEPT ![n] = post_recv(@, p.ctr, TRUE)]
        /\ accepts(rx_ctr[n], p.ctr, TRUE) /\ exch[n] # None /\ ~AckMismatch(exch[n], p)
        /\ exch' = [exch EXCEPT ![n] = f]
        /\ UNCHANGED <<msg_ctr, session, task, net, gave_up, said, heard>>
    BY <1>0, Zenon DEF receive_on_exchange
  <1>3. /\ p.to = n /\ session[n] /\ rx[n] = None /\ p \in Packet /\ ~Refused(n, p.ctr)
        /\ Hears(n, p.ctr) /\ Refused(n, p.ctr)'
        /\ \A q \in net : q.to = n /\ q.says # 0 /\ q.ctr # 0 /\ q.ctr = rx_ctr'[n].max_ctr =>
             q.ctr = rx_ctr[n].max_ctr \/ (q.says = p.says /\ ~Refused(n, p.ctr))
    BY <1>2, ArrivesFacts, Zenon
  <1>4. SendsAck(n, None) /\ p # None
    BY <1>2, <1>3, MrpNone, Zenon DEF SendsAck
  <1>5. /\ f \in ExchangeState /\ f # None /\ f.role = exch[n].role
        /\ p.says # 0 => f.ack # None /\ f.ack.msg_ctr = p.ctr
    <2>1. exch[n] \in ExchangeState
      BY <1>1, <1>2, Zenon DEF Here
    <2> QED BY <1>0, <1>3, <2>1, PostReceivedFacts, Zenon
  <1>6. Moves(n, b, f, t, x)
    <2>1. rx' = [rx EXCEPT ![n] = x]
      <3>1. CASE p.says = 0
        BY <1>0, <1>1, <1>3, <3>1, Zenon DEF receive_on_exchange, is_standalone_ack, Here
      <3>2. CASE p.says # 0
        BY <1>0, <3>2, Zenon DEF receive_on_exchange, is_standalone_ack
      <3> QED BY <3>1, <3>2, Zenon
    <2> QED BY <1>0, <1>1, <1>2, <2>1, Zenon DEF Moves, Here
  <1>7. ExchFits(n, b, f, t, x)'
    <2>1. Grows
      BY <1>2, <1>3, <1>4, NodeGrows, Zenon
    <2>2. Owes(n, f, t)' /\ (p.says # 0 => f.retrans = None)
      BY <1>0, <1>2, <1>3, <2>1, ReceivedOwes, Zenon
    <2>3. Holds(f, x)
      BY <1>0, <1>5, <2>2, Zenon DEF Holds
    <2>4. Busy(t) => f.role = "Owned"
      BY <1>0, <1>1, <1>3, <1>5, Zenon DEF Here, ExchFits
    <2> QED BY <1>0, <1>3, <1>5, <2>2, <2>3, <2>4, Zenon DEF ExchFits, Holds
  <1>8. Waits(n, x)
    <2>1. p.says # 0 => p.says = Taken + 1
      BY <1>3, AcceptedMessage, Zenon
    <2> QED BY <1>0, <1>3, <2>1, Zenon DEF Waits
  <1>9. Newest(n, b, f, t, x)
    <2> SUFFICES ASSUME NEW q \in net, q.to = n, q.says # 0, q.ctr # 0, q.ctr = rx_ctr'[n].max_ctr
                 PROVE  SettledAs(b, f, t, x, q.says)
      BY Zenon DEF Newest
    <2>1. CASE q.ctr = rx_ctr[n].max_ctr
      <3>1. Settled(n, q.says)
        BY <1>1, <2>1, Zenon DEF NewestSettled
      <3>2. q.says <= Taken \/ Left(session[n], exch[n], task[n])
        BY <1>3, <3>1, SettledFacts, Zenon
      <3> QED BY <1>0, <1>2, <1>5, <3>2, Zenon DEF SettledAs, Left
    <2>2. CASE q.says = p.says
      BY <1>0, <1>4, <2>2, Zenon DEF SettledAs
    <2> QED BY <1>3, <2>1, <2>2, Zenon
  <1>10. \A i \in 1..M : Speaker(i) = n /\ Past(t, i) => i \in gave_up \/ Reached(i)
    BY <1>0, <1>1, Zenon DEF ConcludedReached, Concluded, Past
  <1>11. /\ b \in BOOLEAN /\ f \in ExchangeState \cup {None} /\ t \in [at : At, i : 0..M]
         /\ x \in Packet \cup {None} /\ (t.at = "idle" => task[n].at = "idle") /\ Fits(n, t)
    BY <1>0, <1>1, <1>3, <1>5, Zenon DEF Here
  <1> QED BY <1>2, <1>3, <1>4, <1>6, <1>7, <1>8, <1>9, <1>10, <1>11, NodeStep, Zenon
==============================================================================
