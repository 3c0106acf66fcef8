------------------------------ MODULE MrpProofs ------------------------------
(***************************************************************************)
(* Proofs about Mrp, for any number of messages and of retransmissions,    *)
(* any length of the window, and any first counters: the invariant of      *)
(* MrpSteps is kept by every step, and the three invariants of Mrp and the *)
(* refinement of Dialogue follow from it.                                  *)
(***************************************************************************)
EXTENDS MrpSteps

\* A packet that belongs to no exchange opens one at the responder, or is dropped.
LEMMA ReceiveNewExchangeKeeps ==
  ASSUME MrpInv, NEW n \in Node, NEW p \in net, receive_new_exchange(n, p), Bounded
  PROVE  MrpInv'
  <1>0. PICK b, t, f, e, x :
          /\ b = session[n] /\ t = task[n] /\ f = PostReceived(NewExchange("AcceptPending"), p)
          /\ e = IF n = "B" /\ p.says # 0 THEN f ELSE None
          /\ x = IF n = "B" /\ p.says # 0 THEN p ELSE None
    BY Zenon
  <1>1. Here(n) /\ Types /\ NewestSettled /\ NetInv /\ TaskInv
    BY HereFacts, Zenon DEF MrpInv
  <1>2. /\ Arrives(n, p) /\ rx_ctr' = [rx_ctr EXCEPT ![n] = post_recv(@, p.ctr, TRUE)]
        /\ accepts(rx_ctr[n], p.ctr, TRUE) /\ exch[n] = None
        /\ UNCHANGED <<msg_ctr, session, task, net, gave_up, said, heard>>
    BY <1>0, Zenon DEF receive_new_exchange
  <1>3. /\ p.to = n /\ session[n] /\ rx[n] = None /\ p \in Packet /\ ~Refused(n, p.ctr)
        /\ Hears(n, p.ctr) /\ Refused(n, p.ctr)'
    BY <1>2, ArrivesFacts, Zenon
  <1>4. SendsAck(n, None) /\ p # None /\ ~Busy(t)
    BY <1>0, <1>1, <1>2, <1>3, MrpNone, Zenon DEF SendsAck, Here, ExchFits
  <1>5. /\ f \in ExchangeState /\ f # None /\ f.role = "AcceptPending" /\ f.retrans = None
        /\ p.says # 0 => f.ack # None /\ f.ack.msg_ctr = p.ctr
    <2>1. /\ NewExchange("AcceptPending") \in ExchangeState
          /\ NewExchange("AcceptPending").retrans = None
          /\ NewExchange("AcceptPending").role = "AcceptPending"
      BY DEF NewExchange, ExchangeState
    <2> QED BY <1>0, <1>3, <2>1, PostReceivedFacts, Zenon
  <1>6. Moves(n, b, e, t, x)
    <2>1. exch' = [exch EXCEPT ![n] = e] /\ rx' = [rx EXCEPT ![n] = x]
      <3>1. CASE n = "B" /\ p.says # 0
        BY <1>0, <3>1, Zenon DEF receive_new_exchange, is_standalone_ack
      <3>2. CASE ~(n = "B" /\ p.says # 0)
        BY <1>0, <1>1, <1>2, <1>3, <3>2, Zenon DEF receive_new_exchange, is_standalone_ack, Here
      <3> QED BY <3>1, <3>2, Zenon
    <2> QED BY <1>0, <1>1, <1>2, <2>1, Zenon DEF Moves, Here
  <1>7. ExchFits(n, b, e, t, x)'
    <2>1. n = "B" /\ p.says # 0 => Owes(n, f, t)' /\ Holds(f, p)
      BY <1>3, <1>4, <1>5 DEF Owes, Busy, Holds
    <2> QED BY <1>0, <1>3, <1>4, <1>5, <2>1, Zenon DEF ExchFits, Holds
  <1>8. p.says # 0 => p.says = Taken + 1 /\ p.says = said
    BY <1>3, AcceptedMessage, Zenon
  <1>9. Waits(n, x)
    BY <1>0, <1>3, <1>8, Zenon DEF Waits
  <1>10. Newest(n, b, e, t, x)
    <2> SUFFICES ASSUME NEW q \in net, n = "B", p.says # 0
                 PROVE  q.says <= Taken \/ q.says = p.says
      BY <1>0, <1>4, Zenon DEF Newest, SettledAs, Left
    <2>1. q.says \in Nat /\ q.says <= said
      BY <1>1, PacketFacts, Zenon DEF NetInv
    <2>2. Taken \in Nat
      BY <1>1 DEF Types, Taken
    <2> QED BY <1>8, <2>1, <2>2
  <1>11. \A i \in 1..M : ~Past(t, i)
    BY <1>4 DEF Past, Busy
  <1>12. /\ b \in BOOLEAN /\ e \in ExchangeState \cup {None} /\ t \in [at : At, i : 0..M]
         /\ x \in Packet \cup {None} /\ (t.at = "idle" => task[n].at = "idle") /\ Fits(n, t)
    BY <1>0, <1>1, <1>3, <1>5, Zenon DEF Here
  <1> QED BY <1>2, <1>3, <1>4, <1>6, <1>7, <1>9, <1>10, <1>11, <1>12, NodeStep, Zenon

------------------------------------------------------------------------------
\* Exchange::recv takes the message whose turn it is.
LEMMA RecvFacts ==
  ASSUME MrpInv, NEW n \in Node, recv(n)
  PROVE  LET i == task[n].i IN
         /\ i \in 1..M /\ Taken = i - 1 /\ said = i /\ Speaker(i) = Peer(n)
         /\ rx[n] \in net /\ rx[n].to = n /\ rx[n].says = i /\ Refused(n, rx[n].ctr)
         /\ rx[Peer(n)] = None
         /\ Taken' = i /\ heard' \in Seq(Nat) /\ \A j \in 1..Len(heard') : heard'[j] = j
  <1> DEFINE i == task[n].i
  <1>1. Here(n) /\ Here(Peer(n)) /\ Types /\ NetInv /\ TaskInv
    BY HereFacts, PeerFacts DEF MrpInv
  <1>2. /\ task[n].at = "recv" /\ rx[n] # None
        /\ rx[n] \in net /\ rx[n].to = n /\ rx[n].says = Taken + 1 /\ Refused(n, rx[n].ctr)
    BY <1>1 DEF recv, Here, BufferOk
  <1>3. /\ i \in 1..M /\ Speaker(i) = Peer(n) /\ Taken \in {i - 2, i - 1}
        /\ Taken \in Nat /\ said \in Nat /\ said <= Taken + 1 /\ Taken + 1 <= said
    <2>1. i \in 1..M /\ Speaker(i) = Peer(n) /\ Taken \in {i - 2, i - 1}
      BY <1>1, <1>2 DEF Here, Fits
    <2>2. Taken \in Nat /\ said \in Nat
      BY <1>1, MrpAssumption, SMTT(30) DEF Types, Taken
    <2>3. rx[n].says <= said
      BY <1>1, <1>2 DEF NetInv
    <2> QED BY <1>1, <1>2, <2>1, <2>2, <2>3, ZenonT(30) DEF TaskInv
  <1>4. Speaker(Taken + 1) = Peer(n)
    <2>1. n = Peer(Speaker(Taken + 1))
      BY <1>1, <1>2, <1>3 DEF NetInv
    <2> QED BY <1>3, <2>1, SpeakerFacts, PeerFacts, SMTT(30)
  <1>5. Taken = i - 1
    BY <1>3, <1>4, TurnFacts
  <1>6. rx[Peer(n)] = None
    <2>1. rx[Peer(n)] # None =>
            /\ rx[Peer(n)] \in net /\ rx[Peer(n)].to = Peer(n) /\ rx[Peer(n)].says = Taken + 1
      BY <1>1, ZenonT(30) DEF Here, BufferOk
    <2>2. rx[Peer(n)] # None => Peer(n) = Peer(Speaker(Taken + 1))
      BY <1>1, <1>3, <2>1 DEF NetInv
    <2> QED BY <1>4, <2>2, PeerFacts, Zenon
  <1>7. heard' = Append(heard, i) /\ heard \in Seq(Nat) /\ Len(heard) = i - 1
    BY <1>1, <1>2, <1>3, <1>5 DEF recv, Types, Taken
  <1> HIDE DEF i
  <1>8. /\ heard' \in Seq(Nat) /\ Len(heard') = i
        /\ \A j \in 1..Len(heard') : heard'[j] = j
    <2>1. heard' \in Seq(Nat) /\ Len(heard') = i /\ i \in Nat
      BY <1>3, <1>7
    <2>2. ASSUME NEW j \in 1..i
          PROVE  heard'[j] = j
      BY <1>1, <1>3, <1>7 DEF Types
    <2> QED BY <2>1, <2>2
  <1> QED BY <1>2, <1>3, <1>5, <1>6, <1>8 DEF Taken, i

\* Exchange::recv keeps the invariant.
LEMMA RecvKeeps ==
  ASSUME MrpInv, NEW n \in Node, recv(n)
  PROVE  MrpInv'
  <1>0. PICK i, x : i = task[n].i /\ x = rx[n]
    OBVIOUS
  <1> DEFINE m == Peer(n)
             t == IF i = M THEN [task[n] EXCEPT !.at = "acknowledge"] ELSE [at |-> "send", i |-> i + 1]
  <1>1. /\ Here(n) /\ Here(m) /\ Types /\ NetInv /\ TaskInv /\ NewestSettled /\ ConcludedReached
        /\ HeardRefused /\ ExchOk(m) /\ WindowKnown
    BY HereFacts, PeerFacts DEF MrpInv
  <1>2. /\ session[n] /\ task[n].at = "recv" /\ x # None /\ exch[n].retrans = None
        /\ rx' = [rx EXCEPT ![n] = None] /\ task' = [task EXCEPT ![n] = t]
        /\ UNCHANGED <<msg_ctr, rx_ctr, session, exch, net, gave_up, said>>
    BY <1>0, ZenonT(30) DEF recv, is_retrans_pending
  <1>3. /\ i \in 1..M /\ Taken = i - 1 /\ said = i /\ Speaker(i) = m
        /\ x \in net /\ x.to = n /\ x.says = i /\ Refused(n, x.ctr) /\ rx[m] = None
    BY <1>0, RecvFacts
  <1>4. Taken' = i /\ heard' \in Seq(Nat) /\ \A j \in 1..Len(heard') : heard'[j] = j
    BY <1>0, RecvFacts
  <1>5. /\ m \in Node /\ m # n /\ \A k \in Node : k # n => k = m
    BY PeerFacts
  <1>6. \/ i = M /\ t.at = "acknowledge" /\ t.i = M /\ t \in [at : At, i : 0..M]
        \/ i # M /\ t.at = "send" /\ t.i = i + 1 /\ t \in [at : At, i : 0..M]
    <2>1. CASE i = M
      BY <1>0, <1>1, <2>1, Zenon DEF At, Here
    <2>2. CASE i # M
      <3>1. i + 1 \in 0..M
        BY <1>3, <2>2, MrpAssumption
      <3> QED BY <2>2, <3>1 DEF At
    <2> QED BY <2>1, <2>2
  <1>7. /\ task'[n] = t /\ task'[m] = task[m] /\ task' \in [Node -> [at : At, i : 0..M]]
        /\ rx'[n] = None /\ rx'[m] = None /\ rx' \in [Node -> Packet \cup {None}]
    BY <1>1, <1>2, <1>3, <1>5, <1>6 DEF Types
  <1> HIDE DEF m, t
  <1>8. \A k \in Node : \A c : Refused(k, c)' <=> Refused(k, c)
    BY <1>2 DEF Refused
  <1>9. Types'
    BY <1>1, <1>2, <1>4, <1>7, Zenon DEF Types
  <1>10. Grows
    BY <1>2, <1>3, <1>4, <1>8, SMTT(30) DEF Grows
  <1>11. NetInv'
    BY <1>1, <1>2, <1>8, PeerFacts, ZenonT(30) DEF NetInv, Carries, Types, Packet
  <1>12. TaskInv'
    <2>1. Fits(n, task[n])'
      <3>1. Speaker(i + 1) = n
        BY <1>3, <1>5, SpeakerFacts, PeerFacts, SMTT(30) DEF m
      <3> QED BY <1>2, <1>3, <1>4, <1>6, <1>7, <3>1, SMTT(30) DEF Fits
    <2>2. Fits(m, task[m])'
      <3> DEFINE j == task[m].i
      <3>0. j \in Nat /\ Peer(m) = n /\ Fits(m, task[m])
        BY <1>1, PeerFacts, MrpAssumption, SMTT(30) DEF Here, m
      <3>1. task[m].at = "sent" => i = j
        BY <1>3, <3>0, TurnFacts, SMTT(30) DEF Fits
      <3>2. task[m].at = "recv" => i = j - 1
        BY <1>3, <1>5, <3>0, SMTT(30) DEF Fits
      <3>3. task[m].at # "send"
        BY <1>3, <3>0, SMTT(30) DEF Fits
      <3> QED BY <1>2, <1>3, <1>4, <1>7, <3>0, <3>1, <3>2, <3>3, ZenonT(30) DEF Fits
    <2>3. task'["A"].at = "idle" => said' = 0
      BY <1>1, <1>2, <1>5, <1>6, <1>7 DEF TaskInv, Node
    <2>4. task'["B"].at # "idle"
      <3>1. CASE n = "B"
        BY <1>6, <1>7, <3>1
      <3>2. CASE n # "B"
        <4>1. m = "B" /\ n = "A"
          BY <1>5, <3>2 DEF Node
        <4>2. task["B"].at = "idle" => i = 1
          BY <1>1, <1>3, SMTT(30) DEF TaskInv
        <4> QED BY <1>3, <1>7, <4>1, <4>2, SpeakerFacts
      <3> QED BY <3>1, <3>2
    <2>5. Taken' <= said' /\ said' <= Taken' + 1
      BY <1>2, <1>3, <1>4, SMTT(30)
    <2> QED BY <1>5, <2>1, <2>2, <2>3, <2>4, <2>5, Zenon DEF TaskInv
  <1>13. ExchOk(n)'
    <2>1. exch[n] # None /\ exch[n].role = "Owned" /\ Owes(n, exch[n], task[n]) /\ Holds(exch[n], x)
      BY <1>0, <1>1, <1>2, Zenon DEF Here, ExchFits, Busy
    <2>2. exch[n].ack # None /\ exch[n].ack.msg_ctr = x.ctr
      BY <1>2, <2>1, Zenon DEF Holds
    <2>3. Carries(n, i, exch[n].ack.msg_ctr)'
      BY <1>2, <1>3, <2>2, Zenon DEF Carries
    <2>4. Owes(n, exch[n], task[n])'
      <3>1. (exch[n].ack # None => Refused(n, exch[n].ack.msg_ctr))'
        BY <1>2, <1>3, <2>2, Zenon DEF Refused
      <3>2. task'[n].at # "sent" /\ (task'[n].at = "send" => task'[n].i - 1 = i)
        BY <1>3, <1>6, <1>7, SMTT(30)
      <3> QED BY <1>2, <2>1, <2>2, <2>3, <3>1, <3>2, ZenonT(30) DEF Owes
    <2> QED BY <1>2, <1>7, <2>1, <2>4, Zenon DEF ExchOk, ExchFits, Holds
  <1>14. ExchOk(m)'
    BY <1>1, <1>2, <1>3, <1>5, <1>7, <1>10, OtherExch, Zenon
  <1>15. BufferOk(n)' /\ BufferOk(m)'
    BY <1>7 DEF BufferOk
  <1>16. HeardRefused'
    <2> SUFFICES ASSUME NEW p \in net, p.says # 0, p.says <= i
                 PROVE  Refused(p.to, p.ctr)
      BY <1>2, <1>4, <1>8, PacketFacts, Zenon DEF HeardRefused
    <2>1. CASE p.says <= Taken
      BY <1>1, <2>1 DEF HeardRefused
    <2>2. CASE p.says = i
      <3>1. p.to = n
        BY <1>1, <1>3, <2>2, PeerFacts DEF NetInv, m
      <3>2. p.ctr = x.ctr
        BY <1>1, <1>3, <2>2, <3>1 DEF NetInv
      <3> QED BY <1>3, <3>1, <3>2
    <2>3. p.says \in Nat
      BY PacketFacts, Zenon
    <2> QED BY <1>3, <2>1, <2>2, <2>3, SMTT(30)
  <1>17. NewestSettled'
    <2> SUFFICES ASSUME NEW q \in net, q.says # 0, q.ctr # 0, q.ctr = rx_ctr[q.to].max_ctr
                 PROVE  Settled(q.to, q.says)'
      BY <1>2 DEF NewestSettled
    <2>1. q.to \in Node /\ q.says \in 0..M /\ Settled(q.to, q.says)
      BY <1>1, PacketFacts, ZenonT(30) DEF NewestSettled
    <2>2. CASE q.says <= Len(heard)
      <3>1. q.says <= Len(heard')
        BY <1>3, <1>4, <2>1, <2>2, MrpAssumption DEF Taken
      <3> QED BY <3>1 DEF Settled
    <2>3. CASE q.to = n
      <3>1. q.says <= Len(heard) \/ q.says = i
        BY <1>0, <1>1, <1>2, <1>3, <2>1, <2>3, Zenon DEF Settled, Has, Here, ExchFits, Busy
      <3>2. q.says = i => q.says <= Len(heard')
        BY <1>3, <1>4, SMTT(30) DEF Taken
      <3> QED BY <2>2, <3>1, <3>2 DEF Settled
    <2>4. CASE q.to # n
      <3>1. q.to = m
        BY <1>5, <2>1, <2>4, Zenon
      <3>2. \/ q.says <= Len(heard)
            \/ task[m].at = "gone" \/ ~session[m] \/ exch[m] = None \/ Has(m, "Dropped")
        BY <1>3, <2>1, <3>1, Zenon DEF Settled
      <3> QED BY <1>2, <1>7, <2>2, <3>1, <3>2 DEF Settled, Has
    <2> QED BY <2>3, <2>4
  <1>18. WindowKnown'
    BY <1>1, <1>2 DEF WindowKnown
  <1>19. ConcludedReached'
    <2> SUFFICES ASSUME NEW j \in 1..M, Concluded(Speaker(j), j)'
                 PROVE  j \in gave_up' \/ Reached(j)'
      BY DEF ConcludedReached
    <2>1. Concluded(Speaker(j), j)
      <3>1. CASE Speaker(j) = n
        <4>1. i # j
          BY <1>3, <1>5, <3>1
        <4>2. i > j
          <5>1. t.i > j \/ t.at = "acknowledge"
            BY <1>6, <1>7, <3>1 DEF Concluded
          <5>2. M \in Nat
            BY MrpAssumption
          <5> QED BY <1>3, <1>6, <4>1, <5>1, <5>2, SMTT(30)
        <4> QED BY <1>0, <1>2, <3>1, <4>2 DEF Concluded
      <3>2. CASE Speaker(j) = m
        BY <1>7, <3>2 DEF Concluded
      <3> QED BY <1>5, <3>1, <3>2, SpeakerFacts, SMTT(30)
    <2> QED BY <1>1, <1>10, <2>1, GrowthKeeps DEF ConcludedReached, Grows
  <1>20. \A k \in Node : ExchOk(k)' /\ BufferOk(k)'
    BY <1>5, <1>13, <1>14, <1>15, Zenon
  <1> QED BY <1>9, <1>11, <1>12, <1>16, <1>17, <1>18, <1>19, <1>20, ZenonT(30) DEF MrpInv

------------------------------------------------------------------------------
\* The fields of an exchange whose message goes out once more: the retransmission starts, goes
\* on or is given up.
LEMMA PreSentFacts ==
  ASSUME NEW e \in ExchangeState, NEW c \in Ctr
  PROVE  LET f == RetransPreSent(e, c) IN
         /\ f \in ExchangeState /\ f # None /\ f.role = e.role
         /\ e.retrans = None => f.retrans # None /\ f.retrans.msg_ctr = c
         /\ f.retrans # None /\ e.retrans # None => f.retrans.msg_ctr = e.retrans.msg_ctr
         /\ f.retrans # None => (f.ack # None <=> e.ack # None) /\ f.ack.msg_ctr = e.ack.msg_ctr
         /\ f.retrans = None => f.ack = None
  <1> DEFINE k == IF e.ack = None THEN None ELSE [e.ack EXCEPT !.acknowledged = TRUE]
             f == RetransPreSent(e, c)
  <1>1. k \in AckEntry \cup {None} /\ (k # None <=> e.ack # None) /\ k.msg_ctr = e.ack.msg_ctr
    <2>1. CASE e.ack = None
      BY <2>1
    <2>2. CASE e.ack # None
      <3>1. e.ack \in AckEntry
        BY <2>2 DEF ExchangeState
      <3>2. k = [e.ack EXCEPT !.acknowledged = TRUE]
        BY <2>2
      <3>3. k \in AckEntry /\ k.msg_ctr = e.ack.msg_ctr
        BY <3>1, <3>2, AckedFacts
      <3> QED BY <2>2, <3>3, MrpNone, Zenon
    <2> QED BY <2>1, <2>2
  <1>2. MRP_MAX_TRANSMISSIONS \in Nat
    BY MrpAssumption
  <1>3. f = IF e.retrans = None
              THEN [e EXCEPT !.ack = k, !.retrans = [msg_ctr |-> c, counter |-> 0]]
            ELSE IF e.retrans.counter < MRP_MAX_TRANSMISSIONS
              THEN [e EXCEPT !.ack = k, !.retrans.counter = @ + 1]
            ELSE [e EXCEPT !.ack = None, !.retrans = None]
    BY DEF RetransPreSent
  <1> HIDE DEF k, f
  <1> SUFFICES /\ f \in ExchangeState /\ f.role = e.role
               /\ e.retrans = None => f.retrans # None /\ f.retrans.msg_ctr = c
               /\ f.retrans # None /\ e.retrans # None => f.retrans.msg_ctr = e.retrans.msg_ctr
               /\ f.retrans # None => f.ack = k
               /\ f.retrans = None => f.ack = None
    <2>1. f \in ExchangeState => f # None
      BY MrpNone
    <2> QED BY <1>1, <2>1 DEF f
  <1>4. CASE e.retrans = None
    <2>1. f = [e EXCEPT !.ack = k, !.retrans = [msg_ctr |-> c, counter |-> 0]]
      BY <1>3, <1>4
    <2>2. [msg_ctr |-> c, counter |-> 0] \in RetransEntry
      BY <1>2 DEF RetransEntry
    <2>3. /\ f \in ExchangeState /\ f.role = e.role /\ f.ack = k
          /\ f.retrans = [msg_ctr |-> c, counter |-> 0]
      BY <1>1, <2>1, <2>2, Zenon DEF ExchangeState
    <2> QED BY <1>4, <2>2, <2>3, MrpNone
  <1>5. CASE e.retrans # None /\ e.retrans.counter < MRP_MAX_TRANSMISSIONS
    <2> DEFINE r == [e.retrans EXCEPT !.counter = @ + 1]
    <2>1. f = [e EXCEPT !.ack = k, !.retrans.counter = @ + 1]
      BY <1>3, <1>5
    <2>2. e.retrans \in RetransEntry
      BY <1>5 DEF ExchangeState
    <2>3. r \in RetransEntry /\ r.msg_ctr = e.retrans.msg_ctr
      <3>1. e.retrans.counter + 1 \in 0..MRP_MAX_TRANSMISSIONS
        BY <1>2, <1>5, <2>2 DEF RetransEntry
      <3> QED BY <2>2, <3>1 DEF RetransEntry
    <2>4. f = [e EXCEPT !.ack = k, !.retrans = r]
      BY <2>1
    <2> HIDE DEF r
    <2>5. f \in ExchangeState /\ f.role = e.role /\ f.ack = k /\ f.retrans = r
      BY <1>1, <2>3, <2>4, Zenon DEF ExchangeState
    <2> QED BY <1>5, <2>3, <2>5, MrpNone
  <1>6. CASE e.retrans # None /\ ~(e.retrans.counter < MRP_MAX_TRANSMISSIONS)
    <2>1. f = [e EXCEPT !.ack = None, !.retrans = None]
      BY <1>3, <1>6
    <2>2. f \in ExchangeState /\ f.role = e.role /\ f.ack = None /\ f.retrans = None
      BY <2>1, Zenon DEF ExchangeState
    <2> QED BY <1>6, <2>2
  <1> QED BY <1>4, <1>5, <1>6

\* What goes into the network when n transmits the message i under the counter c, with the
\* acknowledgement a.
Transmits(n, i, c, a) ==
  /\ i \in 1..M /\ Speaker(i) = n /\ c \in 0..LastCtr /\ a \in Ctr \cup {None}
  /\ net' = net \cup {[to |-> Peer(n), ctr |-> c, says |-> i, ack |-> a]}
  /\ said' \in 0..M /\ i <= said' /\ said <= said'
  /\ msg_ctr' \in [Node -> 0..(LastCtr + 1)] /\ \A m \in Node : msg_ctr'[m] >= msg_ctr[m]
  /\ c < msg_ctr'[n] /\ UNCHANGED rx_ctr

\* A message has one counter, and acknowledges the one before.
LEMMA TransmitsKeeps ==
  ASSUME MrpInv, NEW n \in Node, NEW i, NEW c, NEW a, Transmits(n, i, c, a),
         a # None => Refused(n, a), i >= 2 => a # None /\ Carries(n, i - 1, a),
         \A p \in net : p.to = Peer(n) => (p.ctr = c <=> p.says = i)
  PROVE  /\ NetInv' /\ net' \subseteq Packet /\ net \subseteq net'
         /\ Carries(Peer(n), i, c)'
  <1>0. /\ i \in 1..M /\ Speaker(i) = n /\ c \in 0..LastCtr /\ a \in Ctr \cup {None}
        /\ net' = net \cup {[to |-> Peer(n), ctr |-> c, says |-> i, ack |-> a]}
        /\ said' \in 0..M /\ i <= said' /\ said <= said'
        /\ msg_ctr' \in [Node -> 0..(LastCtr + 1)] /\ \A m \in Node : msg_ctr'[m] >= msg_ctr[m]
        /\ c < msg_ctr'[n] /\ UNCHANGED rx_ctr
    BY DEF Transmits
  <1> DEFINE q == [to |-> Peer(n), ctr |-> c, says |-> i, ack |-> a]
  <1>1. Types /\ NetInv
    BY Zenon DEF MrpInv
  <1>2. c \in Ctr /\ i \in 0..M /\ Peer(n) \in Node /\ Peer(Peer(n)) = n
    BY <1>0, MrpAssumption, HalfAssumption, PeerFacts, SMTT(30) DEF Ctr
  <1>3. q \in Packet /\ q.to = Peer(n) /\ q.ctr = c /\ q.says = i /\ q.ack = a
    BY <1>0, <1>2, Zenon DEF Packet
  <1>4. net' = net \cup {q}
    BY <1>0
  <1> HIDE DEF q
  <1>5. \A m, j, d : Carries(m, j, d) => Carries(m, j, d)'
    BY <1>4, Zenon DEF Carries
  <1>6. \A m, d : Refused(m, d)' <=> Refused(m, d)
    BY <1>0, ZenonT(30) DEF Refused
  <1>7. ASSUME NEW p \in net'
        PROVE  /\ p.ctr < msg_ctr'[Peer(p.to)]
               /\ p.says <= said'
               /\ p.says # 0 => p.to = Peer(Speaker(p.says))
               /\ p.ack # None => Refused(Peer(p.to), p.ack)'
               /\ p.says >= 2 => p.ack # None /\ Carries(Peer(p.to), p.says - 1, p.ack)'
    <2>1. CASE p \in net
      <3>1. p.ctr \in Int /\ Peer(p.to) \in Node /\ p.says \in Int
        <4>1. p.ctr \in Nat /\ p.to \in Node /\ p.says \in Nat
          BY <2>1, PacketFacts, ZenonT(30)
        <4> QED BY <4>1, PeerFacts, SMTT(30)
      <3>2. p.ctr < msg_ctr'[Peer(p.to)]
        <4>1. p.ctr < msg_ctr[Peer(p.to)]
          BY <1>1, <2>1 DEF NetInv
        <4>2. msg_ctr'[Peer(p.to)] \in Int /\ msg_ctr[Peer(p.to)] \in Int
          BY <1>0, <1>1, <3>1, MrpAssumption, SMTT(30) DEF Types
        <4> QED BY <1>0, <3>1, <4>1, <4>2
      <3>3. p.says <= said'
        <4>1. said \in 0..M /\ said' \in 0..M /\ p.says <= said /\ said <= said'
          BY <1>0, <1>1, <2>1, Zenon DEF NetInv, Types
        <4>2. M \in Nat
          BY MrpAssumption
        <4> QED BY <3>1, <4>1, <4>2
      <3> QED BY <1>1, <1>5, <1>6, <2>1, <3>2, <3>3, Zenon DEF NetInv
    <2>2. CASE p = q
      BY <1>0, <1>2, <1>3, <1>5, <1>6, <2>2, Zenon
    <2> QED BY <1>4, <2>1, <2>2, Zenon
  <1>8. ASSUME NEW p \in net', NEW r \in net', p.to = r.to
        PROVE  /\ p.ctr = r.ctr => p.says = r.says
               /\ p.says = r.says /\ p.says # 0 => p.ctr = r.ctr
    <2>1. CASE p \in net /\ r \in net
      BY <1>1, <1>8, <2>1 DEF NetInv
    <2>2. CASE p = q \/ r = q
      BY <1>3, <1>4, <1>8, <2>2, Zenon
    <2> QED BY <1>4, <2>1, <2>2, Zenon
  <1>9. NetInv'
    BY <1>7, <1>8, Zenon DEF NetInv
  <1>10. Carries(Peer(n), i, c)'
    BY <1>3, <1>4, Zenon DEF Carries
  <1> QED BY <1>1, <1>3, <1>4, <1>9, <1>10 DEF Types

\* The step in which n, at "send" or "sent", transmits.
Sends(n) ==
  /\ session[n] /\ exch[n] # None /\ exch[n].role = "Owned" /\ rx[n] = None
  /\ task[n].at \in {"send", "sent"} /\ task'[n].at = "sent" /\ task'[n].i = task[n].i
  /\ exch'[Peer(n)] = exch[Peer(n)] /\ task'[Peer(n)] = task[Peer(n)]
  /\ UNCHANGED <<rx_ctr, session, rx, heard>>
  /\ msg_ctr' \in [Node -> 0..(LastCtr + 1)] /\ \A m \in Node : msg_ctr'[m] >= msg_ctr[m]
  /\ \A p \in net' : \/ \E q \in net : q.to = p.to /\ q.says = p.says /\ q.ctr = p.ctr
                     \/ ~(p.says <= Taken) /\ (p.ctr = 0 \/ p.ctr # rx_ctr[p.to].max_ctr)

\* What it changes for the windows and for the peer.
LEMMA SendStep ==
  ASSUME MrpInv, Grows, NEW n \in Node, Sends(n)
  PROVE  /\ ExchOk(Peer(n))' /\ BufferOk(n)' /\ BufferOk(Peer(n))'
         /\ HeardRefused' /\ NewestSettled' /\ ConcludedReached' /\ WindowKnown'
  <1> DEFINE m == Peer(n)
  <1>0. /\ session[n] /\ exch[n] # None /\ exch[n].role = "Owned" /\ rx[n] = None
        /\ task[n].at \in {"send", "sent"} /\ task'[n].at = "sent" /\ task'[n].i = task[n].i
        /\ exch'[m] = exch[m] /\ task'[m] = task[m]
        /\ UNCHANGED <<rx_ctr, session, rx, heard>>
    BY Zenon DEF Sends
  <1>1. /\ Types /\ NewestSettled /\ ConcludedReached /\ HeardRefused /\ ExchOk(m) /\ BufferOk(m)
        /\ m \in Node /\ \A k \in Node : k = n \/ k = m
    BY PeerFacts, Zenon DEF MrpInv
  <1>2. \A k, d : Refused(k, d)' <=> Refused(k, d)
    BY <1>0, Zenon DEF Refused
  <1>3. Taken' = Taken /\ Taken \in Nat
    BY <1>0, <1>1 DEF Taken, Types
  <1>4. WindowKnown'
    <2>1. /\ msg_ctr' \in [Node -> 0..(LastCtr + 1)] /\ \A k \in Node : msg_ctr'[k] >= msg_ctr[k]
      BY Zenon DEF Sends
    <2>2. rx_ctr' \in [Node -> RxState]
      BY <1>0, <1>1, Zenon DEF Types
    <2> QED BY <1>0, <2>1, <2>2, WindowStays, Zenon
  <1> HIDE DEF m
  <1>5. ExchOk(m)'
    BY <1>0, <1>1, OtherExch, Zenon
  <1>6. BufferOk(n)' /\ BufferOk(m)'
    BY <1>0, <1>1, <1>2, <1>3, Zenon DEF BufferOk, Grows
  <1>7. ASSUME NEW p \in net', p.says <= Taken \/ (p.ctr # 0 /\ p.ctr = rx_ctr[p.to].max_ctr)
        PROVE  \E q \in net : q.to = p.to /\ q.says = p.says /\ q.ctr = p.ctr
    <2>1. \/ \E q \in net : q.to = p.to /\ q.says = p.says /\ q.ctr = p.ctr
          \/ ~(p.says <= Taken) /\ (p.ctr = 0 \/ p.ctr # rx_ctr[p.to].max_ctr)
      BY Zenon DEF Sends
    <2> QED BY <1>7, <2>1, Zenon
  <1>8. HeardRefused'
    <2> SUFFICES ASSUME NEW p \in net', p.says # 0, p.says <= Taken
                 PROVE  Refused(p.to, p.ctr)
      BY <1>2, <1>3, Zenon DEF HeardRefused
    <2>1. PICK q \in net : q.to = p.to /\ q.says = p.says /\ q.ctr = p.ctr
      BY <1>7, Zenon
    <2> QED BY <1>1, <2>1, Zenon DEF HeardRefused
  <1>9. NewestSettled'
    <2> SUFFICES ASSUME NEW p \in net', p.says # 0, p.ctr # 0, p.ctr = rx_ctr[p.to].max_ctr
                 PROVE  Settled(p.to, p.says)'
      BY <1>0, Zenon DEF NewestSettled
    <2>1. PICK q \in net : q.to = p.to /\ q.says = p.says /\ q.ctr = p.ctr
      BY <1>7, Zenon
    <2>2. q.to \in Node
      BY <1>1, Zenon DEF Types, Packet
    <2>3. p.to \in Node /\ Settled(p.to, p.says)
      BY <1>1, <2>1, <2>2, Zenon DEF NewestSettled
    <2>4. CASE p.to = n
      <3>1. p.says <= Len(heard)
        BY <1>0, <2>3, <2>4, Zenon DEF Settled, Has
      <3> QED BY <1>0, <3>1, Zenon DEF Settled
    <2>5. CASE p.to = m
      BY <1>0, <2>3, <2>5, Zenon DEF Settled, Has
    <2> QED BY <1>1, <2>3, <2>4, <2>5, Zenon
  <1>10. ConcludedReached'
    <2> SUFFICES ASSUME NEW j \in 1..M, Concluded(Speaker(j), j)'
                 PROVE  j \in gave_up' \/ Reached(j)'
      BY Zenon DEF ConcludedReached
    <2>1. Concluded(Speaker(j), j)
      <3>1. CASE Speaker(j) = n
        BY <1>0, <3>1, Zenon DEF Concluded
      <3>2. CASE Speaker(j) = m
        BY <1>0, <3>2, Zenon DEF Concluded
      <3>3. Speaker(j) \in Node
        BY SpeakerFacts
      <3> QED BY <1>1, <3>1, <3>2, <3>3, Zenon
    <2> QED BY <1>1, <2>1, GrowthKeeps, Zenon DEF ConcludedReached, Grows
  <1> QED BY <1>4, <1>5, <1>6, <1>8, <1>9, <1>10, Zenon DEF m

\* The first transmission of a message keeps the invariant.
LEMMA SayKeeps ==
  ASSUME MrpInv, NEW n \in Node, transmit(n), task[n].at = "send", Bounded
  PROVE  MrpInv' /\ said' = said + 1 /\ said = Taken /\ said < M /\ UNCHANGED heard
  <1>0. PICK i, a, c, f : /\ i = task[n].i /\ a = AckOf(exch[n]) /\ c = msg_ctr[n]
                          /\ f = RetransPreSent(exch[n], msg_ctr[n])
    BY Zenon
  <1> DEFINE e == exch[n]
             m == Peer(n)
             t == [task[n] EXCEPT !.at = "sent"]
  <1>1. /\ Here(n) /\ Here(m) /\ Types /\ NetInv /\ TaskInv /\ NewestSettled /\ ConcludedReached
        /\ HeardRefused /\ ExchOk(m) /\ BufferOk(m) /\ WindowKnown
    BY HereFacts, PeerFacts, Zenon DEF MrpInv
  <1>2. /\ i \in 1..M /\ Speaker(i) = n /\ said = i - 1 /\ Taken = i - 1 /\ M \in Nat
    <2>1. M \in Nat
      BY MrpAssumption, Zenon
    <2> QED BY <1>0, <1>1, <2>1, SMTT(30) DEF Here, Fits
  <1>3. /\ session[n] /\ e \in ExchangeState /\ e # None /\ e.role = "Owned"
        /\ Owes(n, e, task[n]) /\ e.retrans = None
    <2>1. session[n]
      BY Zenon DEF transmit
    <2>2. e \in ExchangeState /\ e # None /\ e.role = "Owned" /\ Owes(n, e, task[n])
      BY <1>1, <2>1, Zenon DEF Here, ExchFits, Busy
    <2> QED BY <2>1, <2>2, Zenon DEF Owes
  <1>4. c \in 0..LastCtr /\ c \in Ctr
    <2>1. msg_ctr' = [msg_ctr EXCEPT ![n] = @ + 1]
      BY <1>3 DEF transmit
    <2>2. msg_ctr[n] + 1 <= LastCtr + 1 /\ msg_ctr[n] \in 0..(LastCtr + 1)
      BY <1>1, <2>1, Zenon DEF Bounded, Types
    <2> QED BY <1>0, <2>2, MrpAssumption, HalfAssumption DEF Ctr
  <1>5. /\ f \in ExchangeState /\ f # None /\ f.role = "Owned"
        /\ f.retrans # None /\ f.retrans.msg_ctr = c
        /\ (f.ack # None <=> e.ack # None) /\ f.ack.msg_ctr = e.ack.msg_ctr
    BY <1>0, <1>3, <1>4, PreSentFacts, ZenonT(30)
  <1>6. /\ net' = net \cup {[to |-> m, ctr |-> c, says |-> i, ack |-> a]}
        /\ msg_ctr' = [msg_ctr EXCEPT ![n] = @ + 1] /\ exch' = [exch EXCEPT ![n] = f]
        /\ task' = [task EXCEPT ![n] = t] /\ said' = i
        /\ UNCHANGED <<rx_ctr, session, rx, heard, gave_up>>
    <2>1. /\ net' = net \cup {[to |-> m, ctr |-> c, says |-> i, ack |-> a]}
          /\ msg_ctr' = [msg_ctr EXCEPT ![n] = @ + 1] /\ exch' = [exch EXCEPT ![n] = f]
          /\ task' = [task EXCEPT ![n] = t] /\ said' = i
          /\ UNCHANGED <<rx_ctr, session, rx, heard>>
      BY <1>0, <1>3 DEF transmit
    <2>2. UNCHANGED gave_up
      BY <1>0, <1>3, <1>5 DEF transmit
    <2> QED BY <2>1, <2>2
  <1>7. /\ m \in Node /\ m # n /\ Peer(m) = n /\ \A k \in Node : k # n => k = m
    BY PeerFacts
  <1>8. t \in [at : At, i : 0..M] /\ t.at = "sent" /\ t.i = i
    BY <1>0, <1>1 DEF Here, At
  <1>9. /\ msg_ctr' \in [Node -> 0..(LastCtr + 1)] /\ msg_ctr'[n] = c + 1
        /\ \A k \in Node : msg_ctr'[k] >= msg_ctr[k]
    BY <1>0, <1>1, <1>4, <1>6, MrpAssumption, SMTT(30) DEF Types
  <1>10. /\ exch' \in [Node -> ExchangeState \cup {None}] /\ exch'[n] = f /\ exch'[m] = exch[m]
         /\ task' \in [Node -> [at : At, i : 0..M]] /\ task'[n] = t /\ task'[m] = task[m]
    BY <1>1, <1>5, <1>6, <1>7, <1>8, Zenon DEF Types
  <1>11. rx[n] = None
    <2>1. rx[n] # None => rx[n] \in net /\ rx[n].says = i
      BY <1>1, <1>2, SMTT(30) DEF Here, BufferOk
    <2>2. \A p \in net : p.says <= i - 1 /\ p.says \in Nat
      BY <1>1, <1>2, PacketFacts, ZenonT(30) DEF NetInv
    <2> QED BY <1>2, <2>1, <2>2, SMTT(30)
  <1>12. /\ a \in Ctr \cup {None} /\ (a # None => e.ack # None /\ a = e.ack.msg_ctr)
         /\ (e.ack # None => a = e.ack.msg_ctr /\ a # None)
    <2>1. CASE e.ack = None
      BY <1>0, <2>1 DEF AckOf
    <2>2. CASE e.ack # None
      <3>1. e.ack \in AckEntry
        BY <1>3, <2>2, Zenon DEF ExchangeState
      <3>2. e.ack.msg_ctr \in Ctr
        BY <3>1, Zenon DEF AckEntry
      <3> QED BY <1>0, <2>2, <3>2, MrpNone, Zenon DEF AckOf
    <2> QED BY <2>1, <2>2
  <1>13. /\ a # None => Refused(n, a)
         /\ i >= 2 => a # None /\ Carries(n, i - 1, a)
    BY <1>0, <1>3, <1>12, ZenonT(30) DEF Owes
  <1> HIDE DEF e, m, t
  <1>14. ASSUME NEW p \in net, p.to = Peer(n)
         PROVE  p.ctr # c /\ p.says # i
    <2>1. p.ctr < c /\ p.ctr \in Nat /\ c \in Int
      <3>1. p.ctr < msg_ctr[Peer(p.to)] /\ p.ctr \in Nat
        BY <1>1, PacketFacts, Zenon DEF NetInv
      <3> QED BY <1>0, <1>4, <1>7, <1>14, <3>1, SMTT(30) DEF m
    <2>2. p.says <= i - 1 /\ p.says \in Nat
      BY <1>1, <1>2, PacketFacts, ZenonT(30) DEF NetInv
    <2> QED BY <1>2, <2>1, <2>2, SMTT(30)
  <1>15. NetInv' /\ net' \subseteq Packet /\ net \subseteq net' /\ Carries(m, i, c)'
    <2>1. said' \in 0..M /\ i <= said' /\ said <= said' /\ c < msg_ctr'[n]
      BY <1>2, <1>4, <1>6, <1>9, MrpAssumption
    <2>2. \A p \in net : p.to = Peer(n) => (p.ctr = c <=> p.says = i)
      BY <1>14
    <2>3. Transmits(n, i, c, a)
      BY <1>2, <1>4, <1>6, <1>9, <1>12, <2>1, Zenon DEF Transmits, m
    <2>4. NetInv' /\ net' \subseteq Packet /\ net \subseteq net' /\ Carries(Peer(n), i, c)'
      BY <1>13, <2>2, <2>3, TransmitsKeeps, SMTT(30)
    <2> QED BY <2>4 DEF m
  <1>16. Types'
    <2>1. said' \in 0..M
      BY <1>2, <1>6, MrpAssumption
    <2> QED BY <1>1, <1>6, <1>9, <1>10, <1>15, <2>1, Zenon DEF Types
  <1>17. Grows /\ Taken' = Taken
    BY <1>1, <1>6, <1>15 DEF Grows, Taken, Types, Refused
  <1>18. TaskInv'
    <2>1. Fits(n, task[n])'
      BY <1>2, <1>6, <1>8, <1>10, <1>17 DEF Fits
    <2>2. Fits(m, task[m])'
      <3> DEFINE j == task[m].i
      <3>0. j \in Nat /\ Fits(m, task[m])
        BY <1>1, MrpAssumption, SMTT(30) DEF Here
      <3>1. task[m].at # "send"
        BY <1>2, <1>7, <3>0, SMTT(30) DEF Fits
      <3>2. task[m].at = "sent" => j = i - 1
        BY <1>2, <3>0, SMTT(30) DEF Fits
      <3> QED BY <1>2, <1>6, <1>10, <1>17, <3>0, <3>1, <3>2, SMTT(30) DEF Fits
    <2>3. task'["A"].at # "idle"
      <3>1. task["A"].at = "idle" => i = 1
        BY <1>1, <1>2, SMTT(30) DEF TaskInv
      <3> QED BY <1>2, <1>7, <1>8, <1>10, <3>1, SpeakerFacts, Zenon DEF Node
    <2>4. task'["B"].at = "idle" => Taken' = 0
      BY <1>1, <1>7, <1>8, <1>10, <1>17, Zenon DEF Node, TaskInv
    <2> QED BY <1>2, <1>6, <1>7, <1>17, <2>1, <2>2, <2>3, <2>4 DEF TaskInv
  <1>19. ExchOk(n)'
    <2>1. n = "B" => i # 1
      BY <1>2, SpeakerFacts
    <2>2. n = "B" => Taken' >= 1
      BY <1>2, <1>17, <2>1, SMTT(30)
    <2>3. \A k, j, d : Carries(k, j, d) => Carries(k, j, d)'
      BY <1>1, <1>17, GrowthKeeps, ZenonT(30)
    <2>4. (exch[n].ack # None => Refused(n, exch[n].ack.msg_ctr))'
      BY <1>3, <1>5, <1>6, <1>10, ZenonT(30) DEF Owes, Refused
    <2>5. i >= 2 => f.ack # None /\ Carries(n, i - 1, f.ack.msg_ctr)'
      BY <1>5, <1>12, <1>13, <2>3, Zenon
    <2>6. Owes(n, exch[n], task[n])'
      BY <1>5, <1>8, <1>10, <1>15, <2>2, <2>4, <2>5, Zenon DEF Owes, m
    <2> QED BY <1>3, <1>5, <1>6, <1>10, <1>11, <2>6, Zenon DEF ExchOk, ExchFits, Holds
  <1>20. Sends(n)
    <2> SUFFICES ASSUME NEW p \in net'
                 PROVE  \/ \E q \in net : q.to = p.to /\ q.says = p.says /\ q.ctr = p.ctr
                        \/ ~(p.says <= Taken) /\ (p.ctr = 0 \/ p.ctr # rx_ctr[p.to].max_ctr)
      BY <1>0, <1>3, <1>6, <1>8, <1>9, <1>10, <1>11, Zenon DEF Sends, e, m
    <2>1. CASE p = [to |-> m, ctr |-> c, says |-> i, ack |-> a]
      <3>1. p.to = m /\ p.ctr = c /\ p.says = i
        BY <2>1
      <3>2. ~(p.says <= Taken)
        BY <1>2, <3>1
      <3>3. rx_ctr[m].max_ctr # 0 => rx_ctr[m].max_ctr < c
        BY <1>0, <1>1, <1>7, Zenon DEF WindowKnown
      <3>4. p.ctr = 0 \/ p.ctr # rx_ctr[m].max_ctr
        BY <1>4, <3>1, <3>3
      <3> QED BY <3>1, <3>2, <3>4, Zenon
    <2> QED BY <1>6, <2>1, Zenon
  <1>21. /\ ExchOk(Peer(n))' /\ BufferOk(n)' /\ BufferOk(Peer(n))'
         /\ HeardRefused' /\ NewestSettled' /\ ConcludedReached' /\ WindowKnown'
    BY <1>17, <1>20, SendStep, Zenon
  <1>22. \A k \in Node : ExchOk(k)' /\ BufferOk(k)'
    BY <1>7, <1>19, <1>21, Zenon DEF m
  <1>23. MrpInv'
    BY <1>15, <1>16, <1>18, <1>21, <1>22, Zenon DEF MrpInv
  <1> QED BY <1>2, <1>6, <1>23

\* A retransmission keeps the invariant.
LEMMA RetransmitKeeps ==
  ASSUME MrpInv, NEW n \in Node, transmit(n), task[n].at # "send"
  PROVE  MrpInv' /\ UNCHANGED <<said, heard>>
  <1>0. PICK i, a, c, f : /\ i = task[n].i /\ a = AckOf(exch[n]) /\ c = exch[n].retrans.msg_ctr
                          /\ f = RetransPreSent(exch[n], exch[n].retrans.msg_ctr)
    BY Zenon
  <1> DEFINE e == exch[n]
             m == Peer(n)
  <1>1. /\ Here(n) /\ Here(m) /\ Types /\ NetInv /\ TaskInv /\ NewestSettled /\ ConcludedReached
        /\ HeardRefused /\ ExchOk(m) /\ BufferOk(m) /\ WindowKnown
    BY HereFacts, PeerFacts DEF MrpInv
  <1>2. session[n] /\ task[n].at = "sent" /\ e.retrans # None
    BY DEF transmit, is_retrans_pending
  <1>3. i \in 1..M /\ Speaker(i) = n /\ i <= said
    <2>1. i \in 1..M /\ Speaker(i) = n /\ said \in {i, i + 1}
      BY <1>0, <1>1, <1>2 DEF Here, Fits
    <2> QED BY <2>1, SMTT(30)
  <1>4. /\ e \in ExchangeState /\ e # None /\ e.role = "Owned"
        /\ Owes(n, e, task[n]) /\ Holds(e, rx[n])
    BY <1>1, <1>2 DEF Here, ExchFits, Busy
  <1>5. PICK o \in net : o.to = m /\ o.says = i /\ o.ctr = c
    BY <1>0, <1>2, <1>4, Zenon DEF Owes, Carries
  <1>6. c \in 0..LastCtr /\ c \in Ctr /\ c < msg_ctr[n]
    <2>1. c \in 0..LastCtr /\ c \in Ctr
      BY <1>5, PacketFacts, ZenonT(30) DEF Packet
    <2>2. c < msg_ctr[n]
      BY <1>1, <1>5, PeerFacts, SMTT(30) DEF NetInv
    <2> QED BY <2>1, <2>2, Zenon
  <1>7. /\ f \in ExchangeState /\ f # None /\ f.role = "Owned"
        /\ f.retrans # None => f.retrans.msg_ctr = c
        /\ f.retrans # None => (f.ack # None <=> e.ack # None) /\ f.ack.msg_ctr = e.ack.msg_ctr
        /\ f.retrans = None => f.ack = None
    BY <1>0, <1>2, <1>4, <1>6, PreSentFacts, ZenonT(30)
  <1>8. /\ net' = net \cup {[to |-> m, ctr |-> c, says |-> i, ack |-> a]}
        /\ exch' = [exch EXCEPT ![n] = f] /\ task' = [task EXCEPT ![n].at = "sent"]
        /\ gave_up' = IF f.retrans = None THEN gave_up \cup {i} ELSE gave_up
        /\ UNCHANGED <<msg_ctr, said, rx_ctr, session, rx, heard>>
    BY <1>0, <1>2 DEF transmit
  <1>9. UNCHANGED task
    <2>1. [task[n] EXCEPT !.at = "sent"] = task[n]
      BY <1>1, <1>2 DEF Here
    <2>2. task' = [task EXCEPT ![n] = [task[n] EXCEPT !.at = "sent"]]
      BY <1>8, Zenon
    <2> QED BY <1>1, <2>1, <2>2 DEF Here
  <1>10. /\ m \in Node /\ m # n /\ Peer(m) = n /\ \A k \in Node : k # n => k = m
    BY PeerFacts
  <1>11. exch' \in [Node -> ExchangeState \cup {None}] /\ exch'[n] = f /\ exch'[m] = exch[m]
    BY <1>1, <1>7, <1>8, <1>10, Zenon DEF Types
  <1>12. rx[n] = None
    BY <1>2, <1>4, Zenon DEF Holds
  <1>13. /\ a \in Ctr \cup {None} /\ (a # None => e.ack # None /\ a = e.ack.msg_ctr)
         /\ (e.ack # None => a = e.ack.msg_ctr /\ a # None)
    <2>1. CASE e.ack = None
      BY <1>0, <2>1, Zenon DEF AckOf
    <2>2. CASE e.ack # None
      <3>1. e.ack \in AckEntry
        BY <1>4, <2>2, Zenon DEF ExchangeState
      <3>2. e.ack.msg_ctr \in Ctr
        BY <3>1, Zenon DEF AckEntry
      <3> QED BY <1>0, <2>2, <3>2, MrpNone, Zenon DEF AckOf
    <2> QED BY <2>1, <2>2, Zenon
  <1>14. /\ a # None => Refused(n, a)
         /\ i >= 2 => a # None /\ Carries(n, i - 1, a)
    BY <1>0, <1>2, <1>4, <1>13, ZenonT(30) DEF Owes
  <1> HIDE DEF e, m
  <1>15. NetInv' /\ net' \subseteq Packet /\ net \subseteq net' /\ Carries(m, i, c)'
    <2>1. said' \in 0..M /\ i <= said' /\ said <= said' /\ c < msg_ctr'[n]
      BY <1>1, <1>3, <1>6, <1>8, MrpAssumption DEF Types
    <2>2. msg_ctr' \in [Node -> 0..(LastCtr + 1)] /\ \A k \in Node : msg_ctr'[k] >= msg_ctr[k]
      BY <1>1, <1>8, MrpAssumption DEF Types
    <2>3. Transmits(n, i, c, a)
      BY <1>3, <1>6, <1>8, <1>13, <2>1, <2>2, Zenon DEF Transmits, m
    <2>4. \A p \in net : p.to = Peer(n) => (p.ctr = c <=> p.says = i)
      BY <1>1, <1>3, <1>5, SMTT(30) DEF NetInv, m
    <2>5. NetInv' /\ net' \subseteq Packet /\ net \subseteq net' /\ Carries(Peer(n), i, c)'
      BY <1>14, <2>3, <2>4, TransmitsKeeps, Zenon
    <2> QED BY <2>5, Zenon DEF m
  <1>16. Types'
    BY <1>1, <1>8, <1>9, <1>11, <1>15, Zenon DEF Types
  <1>17. Grows /\ Taken' = Taken
    BY <1>1, <1>8, <1>15 DEF Grows, Taken, Types, Refused
  <1>18. TaskInv'
    BY <1>1, <1>8, <1>9, <1>17, ZenonT(30) DEF TaskInv, Fits
  <1>19. ExchOk(n)'
    <2>1. n = "B" => Taken' >= 1
      BY <1>2, <1>4, <1>17, ZenonT(30) DEF Owes, e
    <2>2. \A k, j, d : Carries(k, j, d) => Carries(k, j, d)'
      BY <1>1, <1>17, GrowthKeeps, Zenon
    <2>3. (exch[n].ack # None => Refused(n, exch[n].ack.msg_ctr))'
      BY <1>4, <1>7, <1>8, <1>11, ZenonT(30) DEF Owes, Refused
    <2>4. i >= 2 /\ f.retrans # None => f.ack # None /\ Carries(n, i - 1, f.ack.msg_ctr)'
      BY <1>7, <1>13, <1>14, <2>2
    <2>5. f.retrans = None => i \in gave_up'
      BY <1>8, Zenon
    <2>6. Owes(n, exch[n], task[n])'
      BY <1>0, <1>2, <1>7, <1>9, <1>11, <1>15, <2>1, <2>3, <2>4, <2>5, ZenonT(30) DEF Owes, m
    <2> QED BY <1>2, <1>7, <1>8, <1>11, <1>12, <2>6 DEF ExchOk, ExchFits, Holds
  <1>20. Sends(n)
    <2> SUFFICES ASSUME NEW p \in net'
                 PROVE  \E q \in net : q.to = p.to /\ q.says = p.says /\ q.ctr = p.ctr
      <3>1. /\ msg_ctr' \in [Node -> 0..(LastCtr + 1)]
            /\ \A k \in Node : msg_ctr'[k] >= msg_ctr[k]
        BY <1>1, <1>8, MrpAssumption DEF Types
      <3> QED BY <1>2, <1>4, <1>8, <1>9, <1>11, <1>12, <3>1, Zenon DEF Sends, e, m
    <2>1. CASE p = [to |-> m, ctr |-> c, says |-> i, ack |-> a]
      <3>1. p.to = m /\ p.ctr = c /\ p.says = i
        BY <2>1
      <3> QED BY <1>5, <3>1, Zenon
    <2> QED BY <1>8, <2>1, Zenon
  <1>21. /\ ExchOk(Peer(n))' /\ BufferOk(n)' /\ BufferOk(Peer(n))'
         /\ HeardRefused' /\ NewestSettled' /\ ConcludedReached' /\ WindowKnown'
    BY <1>17, <1>20, SendStep, Zenon
  <1>22. \A k \in Node : ExchOk(k)' /\ BufferOk(k)'
    BY <1>10, <1>19, <1>21, Zenon DEF m
  <1>23. MrpInv'
    BY <1>15, <1>16, <1>18, <1>21, <1>22, Zenon DEF MrpInv
  <1> QED BY <1>8, <1>23

------------------------------------------------------------------------------
\* The invariant holds before the conversation.
LEMMA MrpInit ==
  ASSUME Init
  PROVE  MrpInv
  <1>0. /\ 0 \in 0..M /\ 0 \in 0..MRP_MAX_TRANSMISSIONS /\ 0 \in Ctr /\ LastCtr \in Nat
        /\ 0..LastCtr \subseteq 0..(LastCtr + 1)
    BY MrpAssumption, HalfAssumption, SMTT(30) DEF Ctr
  <1>1. Types
    <2>1. msg_ctr \in [Node -> 0..(LastCtr + 1)]
      BY <1>0, MrpAssumption DEF Init
    <2>2. new(0) \in RxState /\ new(0).max_ctr = 0
      BY <1>0 DEF new, RxState
    <2>3. rx_ctr \in [Node -> RxState] /\ \A n \in Node : rx_ctr[n].max_ctr <= LastCtr
      BY <1>0, <2>2, SMTT(30) DEF Init
    <2>4. task \in [Node -> [at : At, i : 0..M]]
      BY <1>0 DEF Init, At
    <2> QED BY <1>0, <2>1, <2>3, <2>4, SMTT(30) DEF Init, Types
  <1>2. Taken = 0
    BY DEF Init, Taken
  <1>3. \A n \in Node : task[n].at = "idle" /\ exch[n] = None /\ rx[n] = None /\ session[n]
    BY Zenon DEF Init
  <1>4. NetInv /\ HeardRefused /\ NewestSettled
    BY Zenon DEF Init, NetInv, HeardRefused, NewestSettled
  <1>5. TaskInv
    BY <1>2, <1>3, SMTT(30) DEF TaskInv, Fits, Init
  <1>6. \A n \in Node : ExchOk(n) /\ BufferOk(n)
    BY <1>3, Zenon DEF ExchOk, ExchFits, Busy, BufferOk
  <1>7. ConcludedReached
    BY <1>3, SpeakerFacts DEF ConcludedReached, Concluded
  <1>8. WindowKnown
    BY DEF Init, WindowKnown, new
  <1> QED BY <1>1, <1>4, <1>5, <1>6, <1>7, <1>8, Zenon DEF MrpInv

\* Every step keeps it.
LEMMA MrpNext ==
  ASSUME MrpInv, [Next]_vars
  PROVE  MrpInv'
  <1>1. CASE initiate
    BY <1>1, InitiateKeeps
  <1>2. CASE Bounded /\ \E n \in Node : Owner(n) \/ drop_exchange(n) \/ Receive(n)
                                        \/ Housekeeping(n) \/ remove(n)
    <2> PICK n \in Node : Owner(n) \/ drop_exchange(n) \/ Receive(n) \/ Housekeeping(n) \/ remove(n)
      BY <1>2
    <2>1. CASE transmit(n)
      BY <1>2, <2>1, SayKeeps, RetransmitKeeps
    <2>2. CASE tx_done(n)
      BY <2>2, TxDoneKeeps
    <2>3. CASE recv(n)
      BY <2>3, RecvKeeps
    <2>4. CASE acknowledge(n)
      BY <1>2, <2>4, AcknowledgeKeeps
    <2>5. CASE session_removed(n)
      BY <2>5, SessionRemovedKeeps
    <2>6. CASE accept(n)
      BY <2>6, AcceptKeeps
    <2>7. CASE drop_exchange(n)
      BY <2>7, DropExchangeKeeps
    <2>8. CASE Receive(n)
      <3> PICK p \in net : \/ receive_duplicate(n, p) \/ receive_on_exchange(n, p)
                           \/ receive_new_exchange(n, p)
        BY <2>8, Zenon DEF Receive
      <3> QED BY <1>2, ReceiveDuplicateKeeps, ReceiveOnExchangeKeeps, ReceiveNewExchangeKeeps, Zenon
    <2>9. CASE accept_timeout(n)
      BY <2>9, AcceptTimeoutKeeps
    <2>10. CASE orphaned(n)
      BY <2>10, OrphanedKeeps
    <2>11. CASE handle_dropped_exchange(n)
      BY <1>2, <2>11, HandleDroppedKeeps
    <2>12. CASE remove(n)
      BY <2>12, RemoveKeeps, Zenon
    <2> QED BY <2>1, <2>2, <2>3, <2>4, <2>5, <2>6, <2>7, <2>8, <2>9, <2>10, <2>11, <2>12
            DEF Owner, Housekeeping
  <1>3. CASE UNCHANGED vars
    <2>1. UNCHANGED <<msg_ctr, rx_ctr, session, exch, rx, task, net, gave_up, said, heard>>
      BY <1>3 DEF vars, nodeVars
    <2>2. "A" \in Node /\ Here("A") /\ ConcludedReached
      BY HereFacts, Zenon DEF Node, MrpInv
    <2>3. Moves("A", session["A"], exch["A"], task["A"], rx["A"])
      BY <2>1, <2>2, Zenon DEF Here, Moves
    <2>4. \A i \in 1..M : Speaker(i) = "A" /\ Past(task["A"], i) => i \in gave_up \/ Reached(i)
      BY <2>2, Zenon DEF ConcludedReached, Concluded, Past
    <2> QED BY <2>1, <2>2, <2>3, <2>4, LocalStep, Zenon DEF Here
  <1> QED BY <1>1, <1>2, <1>3 DEF Next

\* The invariant of the protocol.
THEOREM MrpInvariant == Spec => []MrpInv
  BY MrpInit, MrpNext, PTL DEF Spec

\* A counter of a session stands for one message, whatever is retransmitted or acknowledged again
\* (Session::pre_send takes a new counter unless a message is in flight).
THEOREM CountersAreUnique == Spec => []CounterIsOneMessage
  <1>1. MrpInv => CounterIsOneMessage
    BY Zenon DEF MrpInv, NetInv, CounterIsOneMessage
  <1> QED BY <1>1, MrpInvariant, PTL

\* The RX buffer never holds a message for a task that waits for an acknowledgement
\* (Session::post_recv, ReliableMessage::post_recv).
THEOREM BufferNeverBlocks == Spec => []BufferNeverBlocksAck
  <1>1. MrpInv => BufferNeverBlocksAck
    BY ZenonT(30) DEF MrpInv, ExchOk, ExchFits, Holds, BufferNeverBlocksAck, is_retrans_pending
  <1> QED BY <1>1, MrpInvariant, PTL

\* Sender::tx ends for a message that was heard, given up or overtaken, or because the peer left.
THEOREM SentMeansDelivered == Spec => []DoneMeansDelivered
  <1>1. ASSUME MrpInv, NEW i \in 1..M, Concluded(Speaker(i), i)
        PROVE  Settled(Peer(Speaker(i)), i) \/ i \in gave_up \/ Overtaken(i)
    <2> SUFFICES ASSUME Reached(i)
                 PROVE  Settled(Peer(Speaker(i)), i) \/ Overtaken(i)
      BY <1>1 DEF MrpInv, ConcludedReached
    <2> PICK p \in net : p.says = i /\ Refused(p.to, p.ctr)
      BY Zenon DEF Reached
    <2>1. p.to = Peer(Speaker(i))
      BY <1>1 DEF MrpInv, NetInv
    <2>2. p.to \in Node /\ p.ctr \in Nat /\ ~accepts(rx_ctr[p.to], p.ctr, TRUE)
      BY <1>1, PacketFacts, Zenon
    <2>3. p.ctr <= rx_ctr[p.to].max_ctr /\ rx_ctr[p.to].max_ctr \in Nat
      BY <1>1, <2>2, HalfAssumption DEF Refused, Covers, MrpInv, Types, RxState, Ctr
    <2>4. CASE p.ctr = 0 \/ p.ctr < rx_ctr[p.to].max_ctr
      BY <2>2, <2>4, ZenonT(30) DEF Overtaken
    <2>5. CASE p.ctr # 0 /\ p.ctr = rx_ctr[p.to].max_ctr
      BY <1>1, <2>1, <2>5 DEF MrpInv, NewestSettled
    <2> QED BY <2>2, <2>3, <2>4, <2>5, SMTT(30)
  <1>2. MrpInv => DoneMeansDelivered
    BY <1>1 DEF DoneMeansDelivered
  <1> QED BY <1>2, MrpInvariant, PTL

------------------------------------------------------------------------------
\* The last message heard, as the dialogue knows it.
LastHeard == IF heard = <<>> THEN 0 ELSE heard[Len(heard)]

\* The messages are heard in turn: the last one heard counts them.
LEMMA LastHeardCounts ==
  Types => LastHeard = Taken
  <1> SUFFICES ASSUME Types
               PROVE  LastHeard = Taken
    OBVIOUS
  <1>1. heard \in Seq(Nat) /\ \A j \in 1..Len(heard) : heard[j] = j
    BY DEF Types
  <1>2. CASE heard = <<>>
    BY <1>2 DEF LastHeard, Taken
  <1>3. CASE heard # <<>>
    <2>1. Len(heard) \in 1..Len(heard)
      BY <1>1, <1>3
    <2> QED BY <1>1, <1>3, <2>1 DEF LastHeard, Taken
  <1> QED BY <1>2, <1>3

\* A first transmission says the next message, Exchange::recv hears it, and no other step says or
\* hears anything.
LEMMA DialogueStep ==
  ASSUME MrpInv, MrpInv', [Next]_vars
  PROVE  [Abstract!Next]_<<said, LastHeard>>
  <1>1. LastHeard = Taken /\ LastHeard' = Taken'
    <2>1. Types /\ Types'
      BY DEF MrpInv
    <2>2. (Types => LastHeard = Taken)'
      BY LastHeardCounts, PTL
    <2> QED BY <2>1, <2>2, LastHeardCounts
  <1>2. UNCHANGED <<said, heard>> => UNCHANGED <<said, LastHeard>>
    BY DEF LastHeard
  <1>3. ASSUME NEW n \in Node, transmit(n), Bounded
        PROVE  [Abstract!Next]_<<said, LastHeard>>
    <2>1. CASE task[n].at = "send"
      <3>1. said' = said + 1 /\ said = Taken /\ said < M /\ UNCHANGED heard
        BY <1>3, <2>1, SayKeeps
      <3>2. said = LastHeard /\ LastHeard' = LastHeard
        BY <1>1, <3>1, Zenon DEF Taken
      <3> QED BY <3>1, <3>2 DEF Abstract!Next, Abstract!Say, LastHeard
    <2>2. CASE task[n].at # "send"
      BY <1>2, <1>3, <2>2, RetransmitKeeps
    <2> QED BY <2>1, <2>2
  <1>4. ASSUME NEW n \in Node, recv(n)
        PROVE  [Abstract!Next]_<<said, LastHeard>>
    <2>1. said' = said /\ Taken < said /\ Taken' = said
      <3>1. UNCHANGED said
        BY <1>4, Zenon DEF recv
      <3>2. /\ task[n].i \in 1..M /\ Taken = task[n].i - 1 /\ said = task[n].i
            /\ Taken' = task[n].i
        BY <1>4, RecvFacts
      <3> QED BY <3>1, <3>2
    <2>2. LastHeard < said /\ LastHeard' = said
      BY <1>1, <2>1, Zenon
    <2> QED BY <2>1, <2>2 DEF Abstract!Next, Abstract!Hear, LastHeard
  <1>5. CASE initiate
    BY <1>2, <1>5 DEF initiate
  <1>6. CASE UNCHANGED vars
    BY <1>2, <1>6 DEF vars
  <1>7. ASSUME NEW n \in Node, Bounded,
               Owner(n) \/ drop_exchange(n) \/ Receive(n) \/ Housekeeping(n) \/ remove(n)
        PROVE  [Abstract!Next]_<<said, LastHeard>>
    <2>1. \/ transmit(n) \/ recv(n) \/ UNCHANGED <<said, heard>>
      BY <1>7, Zenon DEF Owner, tx_done, acknowledge, session_removed, accept, drop_exchange, Receive,
         receive_duplicate, receive_on_exchange, receive_new_exchange, Housekeeping, accept_timeout,
         orphaned, handle_dropped_exchange, remove
    <2> QED BY <1>2, <1>3, <1>4, <1>7, <2>1, Zenon
  <1> QED BY <1>5, <1>6, <1>7 DEF Next

\* The protocol implements a dialogue: each message is heard at most once and in turn, and said
\* only once the one before it was heard (Exchange::send_with, Exchange::recv).
THEOREM MrpImplementsDialogue == Spec => ImplementsDialogue
  <1>1. Init => Abstract!Init
    BY DEF Init, Abstract!Init
  <1>2. MrpInv /\ MrpInv' /\ [Next]_vars => [Abstract!Next]_<<said, LastHeard>>
    BY DialogueStep
  <1> QED BY <1>1, <1>2, MrpInvariant, PTL DEF Spec, ImplementsDialogue, Abstract!Spec, LastHeard
==============================================================================
