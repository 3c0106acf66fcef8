----------------------------- MODULE StoreProofs ----------------------------
(***************************************************************************)
(* Proofs about four stores that remember what came before.                *)
(*                                                                         *)
(*  - The event queues (Events): event numbers are never used twice,       *)
(*    whatever the size of the buffers and of an epoch, and however often  *)
(*    the node restarts.                                                   *)
(*  - The configured networks (Wireless): the manager never tries a        *)
(*    network that is no longer configured, for every set of networks,     *)
(*    every capacity and any number of commands, failures and restarts.    *)
(*  - The window of received counters (Dedup): a counter is accepted once  *)
(*    and refused ever after, for every length of the window, width of the *)
(*    counters and starting counter.                                       *)
(*  - The counters of group senders (GroupCtrStore): the senders heard     *)
(*    last are the ones remembered, for every capacity and every number of *)
(*    senders.                                                             *)
(***************************************************************************)
EXTENDS Events, Wireless, Dedup, GroupCtrStore, FiniteSetTheorems, TLAPS

E == EVENT_NUMBER_EPOCH_SIZE

\* What is stored is ahead of what was given out, and is the first number of an
\* epoch; nothing is stored before the first number is given out.
FreshInv ==
    /\ next_event_number \in Nat \ {0} /\ epoch_key \in Nat /\ last_used \in Nat
    /\ last_used < next_event_number
    /\ epoch_key = 0 => next_event_number = 1 /\ last_used = 0
    /\ epoch_key # 0 => /\ next_event_number <= epoch_key
                        /\ last_used < epoch_key
                        /\ epoch_key % E = 0

\* The larger of two numbers, as last_used takes it.
LEMMA MaxOfTwo ==
    ASSUME NEW a \in Nat, NEW b \in Nat, a < b
    PROVE  Max({a, b}) = b
  BY DEF Max

\* The first number of an epoch stays one when an epoch is added to it
\* (EventsInner::next_event_number).
LEMMA NextEpoch ==
    ASSUME NEW n \in Nat, NEW d \in Nat \ {0}, n % d = 0
    PROVE  (n + d) % d = 0
  <1> DEFINE q == n \div d
             p == (n + d) \div d
             r == (n + d) % d
             k == q + 1 - p
  <1>1. q \in Int /\ n = d * q
    OBVIOUS
  <1>2. p \in Int /\ r \in Int /\ n + d = d * p + r /\ 0 <= r /\ r < d
    OBVIOUS
  <1> HIDE DEF q, p, r
  <1>3. k \in Int /\ r = d * k
    BY <1>1, <1>2
  <1> HIDE DEF k
  <1>4. k <= 0
    <2>1. ASSUME k >= 1 PROVE d * k >= d
      BY <1>3, <2>1
    <2> QED
      BY <1>2, <1>3, <2>1
  <1>5. k >= 0
    BY <1>2, <1>3
  <1>6. r = 0
    BY <1>3, <1>4, <1>5
  <1> QED
    BY <1>6 DEF r

\* The epoch that begins with the first number ends at one that % finds.
LEMMA FirstEpoch ==
    ASSUME NEW d \in Nat \ {0}
    PROVE  d % d = 0
  OBVIOUS

\* Giving out a number keeps the stored one ahead.
LEMMA TakeKeepsFresh ==
    ASSUME FreshInv, take_event_number
    PROVE  FreshInv'
  <1>1. last_used' = next_event_number
    BY MaxOfTwo DEF FreshInv, take_event_number
  <1>2. next_event_number' = next_event_number + 1
    BY DEF take_event_number
  <1>3. E \in Nat \ {0} /\ E >= 2
    BY EventsAssumption DEF E
  <1>4. CASE next_event_number = 1
    <2>1. epoch_key' = E
      BY <1>4 DEF take_event_number, E
    <2>2. E % E = 0
      BY <1>3, FirstEpoch
    <2> QED
      BY <1>1, <1>2, <1>3, <1>4, <2>1, <2>2 DEF FreshInv
  <1>5. CASE next_event_number # 1 /\ next_event_number % E = 0
    <2>1. epoch_key' = next_event_number + E
      BY <1>5 DEF take_event_number, E
    <2>2. (next_event_number + E) % E = 0
      <3>1. next_event_number \in Nat
        BY DEF FreshInv
      <3> HIDE DEF E
      <3> QED
        BY <1>3, <1>5, <3>1, NextEpoch, Zenon
    <2> QED
      BY <1>1, <1>2, <1>3, <2>1, <2>2 DEF FreshInv
  <1>6. CASE next_event_number # 1 /\ next_event_number % E # 0
    <2>1. epoch_key' = epoch_key
      BY <1>6 DEF take_event_number, E
    <2>2. epoch_key # 0 /\ epoch_key % E = 0 /\ next_event_number <= epoch_key
      BY <1>6 DEF FreshInv
    <2>3. next_event_number # epoch_key
      BY <1>6, <2>2
    <2> QED
      BY <1>1, <1>2, <1>3, <2>1, <2>2, <2>3 DEF FreshInv
  <1> QED
    BY <1>4, <1>5, <1>6

\* Every operation of the queue, a restart included, keeps the stored number ahead.
LEMMA StepKeepsFresh ==
    ASSUME FreshInv, [QueueNext]_queueVars
    PROVE  FreshInv'
  <1>1. CASE \E priority \in Priorities, len \in 1 .. N : push(priority, len)
    BY <1>1, TakeKeepsFresh DEF push
  <1>2. CASE \E bytes \in 0 .. N : push_fails(bytes)
    BY <1>2, TakeKeepsFresh DEF push_fails
  <1>3. CASE load_persist
    BY <1>3 DEF load_persist, FreshInv
  <1>4. CASE reset_persist
    BY <1>4 DEF reset_persist, FreshInv
  <1>5. CASE UNCHANGED queueVars
    BY <1>5 DEF queueVars, FreshInv
  <1> QED
    BY <1>1, <1>2, <1>3, <1>4, <1>5 DEF QueueNext

\* "we can continue emitting events without reusing event numbers"
\* (Events::load_persist), for every size of the buffers and of an epoch.
THEOREM FreshNumbers == QueueSpec => []NumbersAreFresh
  <1>1. QueueInit => FreshInv
    BY DEF QueueInit, FreshInv
  <1>2. FreshInv /\ [QueueNext]_queueVars => FreshInv'
    BY StepKeepsFresh
  <1>3. FreshInv => NumbersAreFresh
    BY DEF FreshInv, NumbersAreFresh
  <1> QED
    BY <1>1, <1>2, <1>3, PTL DEF QueueSpec

-----------------------------------------------------------------------------
\* A list of networks as WirelessNetworks keeps it: within its capacity, and no two
\* have one id.
NetworkList(s) ==
    /\ s \in Seq(Creds) /\ Len(s) <= MaxNetworks
    /\ \A i, j \in 1 .. Len(s) : s[i].id = s[j].id => i = j

Tries == {"connecting", "delay", "online"}

ManagerType ==
    /\ manager \in [at : Waits, creds : Creds \cup {NoNetwork}, attempt : 0 .. Attempts]
    /\ manager.at \in Tries <=> manager.creds # NoNetwork
    /\ manager.at = "delay" => manager.attempt < Attempts

\* The copy that the manager works with is of a network as it is configured,
\* unless a notification is on its way or was never sent.
CopyIsCurrent ==
    manager.at \in Tries /\ ~changed /\ ~unnoticed => manager.creds \in Range(networks)

\* The inductive invariant.
WirelessInv ==
    /\ NetworkList(networks)
    /\ stored = NoNetwork \/ NetworkList(stored.networks)
    /\ ManagerType /\ CopyIsCurrent
-----------------------------------------------------------------------------
\* Where a network is, if it is there (WirelessNetworks::network).
LEMMA PositionType ==
    ASSUME networks \in Seq(Creds), NEW id
    PROVE  /\ Position(id) \in 0 .. Len(networks)
           /\ Position(id) > 0 => networks[Position(id)].id = id
           /\ Position(id) = 0 => \A i \in DOMAIN networks : networks[i].id # id
  BY DEF Position

\* One list after the other.
LEMMA Concatenation ==
    ASSUME NEW S, NEW s \in Seq(S), NEW t \in Seq(S)
    PROVE  /\ s \o t \in Seq(S) /\ Len(s \o t) = Len(s) + Len(t)
           /\ \A i \in 1 .. Len(s) + Len(t) : (s \o t)[i] = IF i <= Len(s) THEN s[i] ELSE t[i - Len(s)]
  OBVIOUS

\* What the list is after an element is taken out (Vec::remove in remove and reorder).
LEMMA RemovedType ==
    ASSUME NEW S, NEW s \in Seq(S), NEW i \in 1 .. Len(s)
    PROVE  /\ vec_remove(s, i) \in Seq(S)
           /\ Len(vec_remove(s, i)) = Len(s) - 1
           /\ \A j \in 1 .. Len(s) - 1 : vec_remove(s, i)[j] = IF j < i THEN s[j] ELSE s[j + 1]
  <1> DEFINE a == SubSeq(s, 1, i - 1)
             b == SubSeq(s, i + 1, Len(s))
  <1>1. a \in Seq(S) /\ Len(a) = i - 1 /\ \A j \in 1 .. i - 1 : a[j] = s[j]
    OBVIOUS
  <1>2. b \in Seq(S) /\ Len(b) = Len(s) - i /\ \A j \in 1 .. Len(s) - i : b[j] = s[i + j]
    OBVIOUS
  <1>3. vec_remove(s, i) = a \o b
    BY DEF vec_remove
  <1> HIDE DEF a, b
  <1>4. /\ a \o b \in Seq(S) /\ Len(a \o b) = Len(a) + Len(b)
        /\ \A j \in 1 .. Len(a) + Len(b) : (a \o b)[j] = IF j <= Len(a) THEN a[j] ELSE b[j - Len(a)]
    BY <1>1, <1>2, Concatenation, Zenon
  <1> QED
    BY <1>1, <1>2, <1>3, <1>4

\* The list t is s with c put in at i.
HasInserted(t, s, i, c) ==
    /\ Len(t) = Len(s) + 1
    /\ \A j \in 1 .. Len(s) + 1 : t[j] = IF j < i THEN s[j] ELSE IF j = i THEN c ELSE s[j - 1]

\* What it is after one is put in (Vec::insert in reorder).
LEMMA InsertedType ==
    ASSUME NEW S, NEW s \in Seq(S), NEW i \in 1 .. Len(s) + 1, NEW c \in S
    PROVE  vec_insert(s, i, c) \in Seq(S) /\ HasInserted(vec_insert(s, i, c), s, i, c)
  <1> DEFINE a == SubSeq(s, 1, i - 1)
             m == <<c>>
             b == SubSeq(s, i, Len(s))
  <1>1. a \in Seq(S) /\ Len(a) = i - 1 /\ \A j \in 1 .. i - 1 : a[j] = s[j]
    OBVIOUS
  <1>2. b \in Seq(S) /\ Len(b) = Len(s) - i + 1 /\ \A j \in 1 .. Len(s) - i + 1 : b[j] = s[i + j - 1]
    OBVIOUS
  <1>3. m \in Seq(S) /\ Len(m) = 1 /\ m[1] = c
    OBVIOUS
  <1>4. vec_insert(s, i, c) = (a \o m) \o b
    BY DEF vec_insert
  <1> HIDE DEF a, b, m
  <1>5. /\ a \o m \in Seq(S) /\ Len(a \o m) = Len(a) + Len(m)
        /\ \A j \in 1 .. Len(a) + Len(m) : (a \o m)[j] = IF j <= Len(a) THEN a[j] ELSE m[j - Len(a)]
    BY <1>1, <1>3, Concatenation, Zenon
  <1> DEFINE d == a \o m
  <1>6. d \in Seq(S) /\ Len(d) = i /\ \A j \in 1 .. i : d[j] = IF j < i THEN s[j] ELSE c
    BY <1>1, <1>3, <1>5
  <1> HIDE DEF d
  <1>7. /\ d \o b \in Seq(S) /\ Len(d \o b) = Len(d) + Len(b)
        /\ \A j \in 1 .. Len(d) + Len(b) : (d \o b)[j] = IF j <= Len(d) THEN d[j] ELSE b[j - Len(d)]
    BY <1>2, <1>6, Concatenation, Zenon
  <1>8. vec_insert(s, i, c) = d \o b
    BY <1>4 DEF d
  <1> QED
    BY <1>2, <1>6, <1>7, <1>8 DEF HasInserted

\* What next_network picks is one of the networks (WirelessNetworks::next_network).
LEMMA NextIsConfigured ==
    ASSUME networks \in Seq(Creds), NEW last, next_network(last) # NoNetwork
    PROVE  next_network(last) \in Range(networks) /\ next_network(last) \in Creds
  BY PositionType DEF next_network, Range

\* The head of the loop of run_connect leaves the manager with a network that is
\* configured, or idle (next_creds).
LEMMA NextCredsLemma ==
    ASSUME networks \in Seq(Creds), NEW last, next_creds(last)
    PROVE  /\ ManagerType'
           /\ manager'.at \in Tries => manager'.creds \in Range(networks)
  BY NextIsConfigured, WirelessAssumption DEF next_creds, ManagerType, Waiting, Waits, Tries, Attempts

\* Every step of the manager keeps the invariant and begins an attempt only with a
\* network that is configured (WirelessMgr::run, run_connect and connect).
LEMMA ManagerLemma ==
    ASSUME WirelessInv, Manager
    PROVE  /\ WirelessInv'
           /\ manager'.at = "connecting" /\ manager' # manager /\ ~unnoticed'
              => manager'.creds \in Range(networks)
  <1> USE DEF WirelessInv
  <1>0. networks \in Seq(Creds)
    BY DEF NetworkList
  <1>1. CASE run
    <2>1. /\ ManagerType' /\ UNCHANGED <<networks, stored>>
          /\ manager'.at \in Tries => manager'.creds \in Range(networks)
      BY <1>0, <1>1, NextCredsLemma DEF run, ManagerType, Waiting, Waits, Tries, Attempts
    <2> QED
      BY <2>1 DEF CopyIsCurrent, NetworkList, Tries
  <1>2. CASE disconnected
    <2>1. CASE next_creds(NoNetwork)
      BY <1>0, <1>2, <2>1, NextCredsLemma DEF disconnected, CopyIsCurrent, NetworkList, Tries
    <2>2. CASE manager.at = "online" /\ UNCHANGED unnoticed
               /\ manager' = [manager EXCEPT !.at = "connecting", !.attempt = 1]
      <3>1. /\ manager' = [at |-> "connecting", creds |-> manager.creds, attempt |-> 1]
            /\ manager.creds \in Creds
        BY <2>2, Zenon DEF ManagerType, Tries
      <3> QED
        BY <1>2, <2>2, <3>1, WirelessAssumption
        DEF disconnected, ManagerType, CopyIsCurrent, NetworkList, Waits, Tries, Attempts
    <2> QED
      BY <1>2, <2>1, <2>2 DEF disconnected
  <1>3. CASE connect_ok
    BY <1>3 DEF connect_ok, ManagerType, CopyIsCurrent, NetworkList, Waits, Tries, Attempts
  <1>4. CASE connect_failed
    <2>1. /\ ManagerType' /\ UNCHANGED <<networks, stored>>
          /\ manager'.at \in Tries /\ ~unnoticed' => manager'.creds \in Range(networks)
      BY <1>0, <1>4, NextCredsLemma DEF connect_failed, ManagerType, CopyIsCurrent, Waits, Tries, Attempts
    <2> QED
      BY <2>1 DEF CopyIsCurrent, NetworkList, Tries
  <1>5. CASE retry
    <2>1. /\ manager' = [at |-> "connecting", creds |-> manager.creds, attempt |-> manager.attempt + 1]
          /\ manager.creds \in Creds
      BY <1>5, Zenon DEF retry, ManagerType, Tries
    <2>2. manager.attempt \in 0 .. Attempts /\ manager.attempt < Attempts
      BY <1>5 DEF retry, ManagerType
    <2>3. manager.attempt + 1 \in 0 .. Attempts
      BY <2>2 DEF Attempts
    <2> QED
      BY <1>5, <2>1, <2>3, WirelessAssumption
      DEF retry, ManagerType, CopyIsCurrent, NetworkList, Waits, Tries
  <1> QED
    BY <1>1, <1>2, <1>3, <1>4, <1>5 DEF Manager

\* A command that changes the list leaves a list of networks, and a notification
\* (SharedNetworksInstance, WirelessNetworks::add_or_update, remove, reorder).
LEMMA ConfiguredLemma ==
    ASSUME WirelessInv, NEW after, NetworkList(after), Configured(after)
    PROVE  WirelessInv'
  BY DEF WirelessInv, Configured, ManagerType, CopyIsCurrent, NetworkList

\* The list after an update in place or an addition.
LEMMA UpdatedIsList ==
    ASSUME NetworkList(networks), NEW c \in Creds, handle_add_or_update_network(c)
    PROVE  /\ Position(c.id) > 0 => NetworkList([networks EXCEPT ![Position(c.id)] = c])
           /\ Position(c.id) = 0 => NetworkList(Append(networks, c))
  BY PositionType, WirelessAssumption DEF NetworkList, handle_add_or_update_network

\* The list after a removal.
LEMMA RemovedIsList ==
    ASSUME NEW s, NetworkList(s), NEW i \in 1 .. Len(s)
    PROVE  NetworkList(vec_remove(s, i))
  <1> DEFINE r == vec_remove(s, i)
  <1>1. r \in Seq(Creds) /\ Len(r) = Len(s) - 1
        /\ \A j \in 1 .. Len(s) - 1 : r[j] = IF j < i THEN s[j] ELSE s[j + 1]
    BY RemovedType DEF NetworkList
  <1> HIDE DEF r
  <1>2. s \in Seq(Creds) /\ Len(s) \in Nat /\ Len(s) <= MaxNetworks
        /\ \A j, l \in 1 .. Len(s) : s[j].id = s[l].id => j = l
    BY DEF NetworkList
  <1>3. ASSUME NEW j \in 1 .. Len(r), NEW l \in 1 .. Len(r), r[j].id = r[l].id PROVE j = l
    <2> DEFINE up(n) == IF n < i THEN n ELSE n + 1
    <2>1. up(j) \in 1 .. Len(s) /\ up(l) \in 1 .. Len(s) /\ r[j] = s[up(j)] /\ r[l] = s[up(l)]
      BY <1>1, <1>2
    <2>2. up(j) = up(l)
      BY <1>2, <1>3, <2>1
    <2> QED
      BY <1>1, <1>2, <2>2
  <1>4. Len(r) <= MaxNetworks
    BY <1>1, <1>2, WirelessAssumption
  <1> QED
    BY <1>1, <1>3, <1>4 DEF NetworkList, r

\* The list after a move.
LEMMA MovedIsList ==
    ASSUME NEW s, NetworkList(s), NEW i \in 1 .. Len(s), NEW k \in 1 .. Len(s)
    PROVE  NetworkList(vec_insert(vec_remove(s, i), k, s[i]))
  <1> DEFINE r == vec_remove(s, i)
             t == vec_insert(r, k, s[i])
  <1>1. r \in Seq(Creds) /\ Len(r) = Len(s) - 1
        /\ \A j \in 1 .. Len(s) - 1 : r[j] = IF j < i THEN s[j] ELSE s[j + 1]
    BY RemovedType, Zenon DEF NetworkList
  <1> HIDE DEF r
  <1>2. s[i] \in Creds /\ k \in 1 .. Len(r) + 1 /\ s \in Seq(Creds)
    BY <1>1 DEF NetworkList
  <1>3. s \in Seq(Creds) /\ Len(s) \in Nat /\ Len(s) <= MaxNetworks
        /\ \A j, l \in 1 .. Len(s) : s[j].id = s[l].id => j = l
    BY DEF NetworkList
  <1>4. t \in Seq(Creds) /\ Len(t) = Len(r) + 1
        /\ \A j \in 1 .. Len(r) + 1 : t[j] = IF j < k THEN r[j] ELSE IF j = k THEN s[i] ELSE r[j - 1]
    <2> DEFINE m == s[i]
    <2>1. m \in Creds /\ r \in Seq(Creds) /\ k \in 1 .. Len(r) + 1
      BY <1>1, <1>2
    <2> HIDE DEF m
    <2>2. vec_insert(r, k, m) \in Seq(Creds) /\ HasInserted(vec_insert(r, k, m), r, k, m)
      BY <2>1, InsertedType, Zenon
    <2> QED
      BY <2>2 DEF m, HasInserted
  <1> HIDE DEF t
  <1>5. ASSUME NEW j \in 1 .. Len(t), NEW l \in 1 .. Len(t), t[j].id = t[l].id PROVE j = l
    <2> DEFINE down(n) == IF n < k THEN n ELSE n - 1
               up(n) == IF n < i THEN n ELSE n + 1
               from(n) == IF n = k THEN i ELSE up(down(n))
    <2>1. \A n \in 1 .. Len(t) : from(n) \in 1 .. Len(s) /\ t[n] = s[from(n)]
      <3> SUFFICES ASSUME NEW n \in 1 .. Len(t) PROVE from(n) \in 1 .. Len(s) /\ t[n] = s[from(n)]
        OBVIOUS
      <3>1. CASE n = k
        BY <1>1, <1>3, <1>4, <3>1
      <3>2. CASE n # k
        <4>1. down(n) \in 1 .. Len(r) /\ t[n] = r[down(n)]
          <5>1. down(n) \in 1 .. Len(r) /\ n \in 1 .. Len(r) + 1 /\ k \in Nat
            BY <1>1, <1>3, <1>4, <3>2
          <5>2. t[n] = IF n < k THEN r[n] ELSE IF n = k THEN s[i] ELSE r[n - 1]
            BY <1>4, <5>1
          <5> QED
            BY <3>2, <5>1, <5>2
        <4>2. up(down(n)) \in 1 .. Len(s) /\ r[down(n)] = s[up(down(n))]
          BY <1>1, <1>3, <4>1
        <4> QED
          BY <3>2, <4>1, <4>2
      <3> QED
        BY <3>1, <3>2
    <2>2. from(j) = from(l)
      <3> HIDE DEF from
      <3> QED
        BY <1>5, <1>3, <2>1, ZenonT(30)
    <2>3. i \in Nat /\ k \in Nat /\ j \in Nat /\ l \in Nat
      BY <1>1, <1>3, <1>4
    <2> QED
      BY <2>2, <2>3
  <1>6. Len(t) <= MaxNetworks
    BY <1>1, <1>3, <1>4
  <1> QED
    BY <1>5, <1>6, <1>4 DEF NetworkList, r, t

\* What the cluster, the fail-safe, the radio and restarts do keeps the invariant
\* and begins no attempt to connect.
LEMMA SurroundingsLemma ==
    ASSUME WirelessInv, Surroundings
    PROVE  WirelessInv' /\ (manager' = manager \/ manager'.at # "connecting")
  <1> USE DEF WirelessInv
  <1>0. NetworkList(networks) /\ networks \in Seq(Creds) /\ Len(networks) \in Nat
    BY DEF NetworkList
  <1>1. ASSUME NEW c \in Creds, handle_add_or_update_network(c)
        PROVE  WirelessInv' /\ manager' = manager
    <2> DEFINE after == IF Position(c.id) > 0 THEN [networks EXCEPT ![Position(c.id)] = c] ELSE Append(networks, c)
    <2>1. NetworkList(after)
      BY <1>0, <1>1, UpdatedIsList, PositionType
    <2>2. Configured(after)
      BY <1>1 DEF handle_add_or_update_network
    <2> HIDE DEF after
    <2> QED
      BY <2>1, <2>2, ConfiguredLemma DEF Configured
  <1>2. ASSUME NEW c \in Creds, handle_remove_network(c.id)
        PROVE  WirelessInv' /\ manager' = manager
    BY <1>0, <1>2, RemovedIsList, ConfiguredLemma, PositionType DEF handle_remove_network, Configured
  <1>3. ASSUME NEW c \in Creds, NEW i \in 1 .. Len(networks), handle_reorder_network(i, c.id)
        PROVE  WirelessInv' /\ manager' = manager
    BY <1>0, <1>3, MovedIsList, ConfiguredLemma, PositionType DEF handle_reorder_network, Configured
  <1>4. ASSUME NEW c \in Creds, handle_connect_network(c.id)
        PROVE  WirelessInv' /\ manager' = manager
    BY <1>4 DEF handle_connect_network, ManagerType, CopyIsCurrent, NetworkList
  <1>5. CASE set_interface_enabled
    BY <1>5 DEF set_interface_enabled, Current, ManagerType, CopyIsCurrent, NetworkList
  <1>6. CASE arm_fail_safe
    BY <1>6 DEF arm_fail_safe, ManagerType, CopyIsCurrent, NetworkList
  <1>7. CASE handle_commissioning_complete
    BY <1>7 DEF handle_commissioning_complete, Current, ManagerType, CopyIsCurrent, NetworkList
  <1>8. CASE expire
    <2>1. NetworkList(<<>>)
      BY WirelessAssumption DEF NetworkList
    <2>2. UNCHANGED <<stored, manager>> /\ ManagerType'
      BY <1>8 DEF expire, ManagerType
    <2>3. CASE stored = NoNetwork
      BY <1>8, <2>1, <2>2, <2>3 DEF expire, CopyIsCurrent, NetworkList
    <2>4. CASE stored # NoNetwork
      BY <1>8, <2>2, <2>4, Zenon DEF expire, CopyIsCurrent, NetworkList
    <2> QED
      BY <2>3, <2>4
  <1>9. CASE lose_link
    BY <1>9 DEF lose_link, ManagerType, CopyIsCurrent, NetworkList
  <1>10. CASE restart
    BY <1>10, WirelessAssumption
    DEF restart, ManagerType, CopyIsCurrent, NetworkList, Waiting, Waits, Tries, Attempts
  <1> QED
    BY <1>1, <1>2, <1>3, <1>4, <1>5, <1>6, <1>7, <1>8, <1>9, <1>10 DEF Surroundings

\* The invariant holds when the node starts (WirelessNetworks::load_persist).
LEMMA WirelessInitially == WirelessInit => WirelessInv
  <1> SUFFICES ASSUME WirelessInit PROVE WirelessInv
    OBVIOUS
  <1>1. NetworkList(<<>>) /\ \A c \in Creds : NetworkList(<<c>>)
    BY WirelessAssumption DEF NetworkList
  <1>2. NetworkList(networks) /\ (stored = NoNetwork \/ NetworkList(stored.networks))
    BY <1>1 DEF WirelessInit
  <1> QED
    BY <1>2, WirelessAssumption
    DEF WirelessInit, WirelessInv, NetworkList, ManagerType, CopyIsCurrent, Waiting, Waits, Tries, Attempts

\* The invariant is inductive.
LEMMA WirelessInductive == WirelessInv /\ [WirelessNext]_wirelessVars => WirelessInv'
  <1> SUFFICES ASSUME WirelessInv, [WirelessNext]_wirelessVars PROVE WirelessInv'
    OBVIOUS
  <1>1. CASE UNCHANGED wirelessVars
    BY <1>1 DEF wirelessVars, WirelessInv, NetworkList, ManagerType, CopyIsCurrent
  <1> QED
    BY <1>1, ManagerLemma, SurroundingsLemma DEF WirelessNext

\* Whatever is configured, removed, moved, rolled back and restarted, the networks
\* stay within the capacity and no two have one id, and the manager keeps its type.
THEOREM WirelessTypeCorrect == WirelessSpec => []WirelessTypeOK
  <1>1. WirelessInv => WirelessTypeOK
    BY DEF WirelessInv, NetworkList, ManagerType, WirelessTypeOK, Tries
  <1> QED
    BY <1>1, WirelessInitially, WirelessInductive, PTL DEF WirelessSpec

\* The manager begins no attempt with a network that is not configured as it has it,
\* unless the fail-safe restored the networks without notice (WirelessMgr::run).
THEOREM AttemptsAreOfConfigured == WirelessSpec => AttemptsAreCurrent
  <1> DEFINE A == manager'.at = "connecting" /\ manager' # manager /\ ~unnoticed'
                  => manager'.creds \in Range(networks)
  <1>1. WirelessInv /\ [WirelessNext]_wirelessVars => [A]_wirelessVars
    BY ManagerLemma, SurroundingsLemma DEF WirelessNext
  <1> QED
    BY <1>1, WirelessInitially, WirelessInductive, PTL DEF WirelessSpec, AttemptsAreCurrent

-----------------------------------------------------------------------------
\* What the bitmap says of the kept counters.  The two directions are needed
\* together: the shift of the bitmap preserves both or neither.
Tracked ==
  /\ rx.max_ctr <= LastCtr
  /\ floor <= rx.max_ctr
  /\ rx.max_ctr > floor => rx.max_ctr \in received
  /\ \A c \in received :
       \/ c = rx.max_ctr
       \/ c < rx.max_ctr - MSG_RX_STATE_BITMAP_LEN
       \/ c < rx.max_ctr /\ rx.max_ctr - 1 - c \in rx.ctr_bitmap
  /\ \A b \in rx.ctr_bitmap :
       rx.max_ctr - 1 - b > floor => rx.max_ctr - 1 - b \in received

WindowInv == DedupTypeOK /\ Tracked

\* Between counters of the lower half of the range the signed difference that
\* post_recv takes is the plain difference.
LEMMA PlainDifference ==
  ASSUME NEW c \in 0..(HALF - 1), NEW m \in 0..(HALF - 1)
  PROVE  idiff(c, m) = c - m
BY HalfAssumption DEF idiff

\* The four outcomes of post_recv, in plain differences.
LEMMA Outcomes ==
  ASSUME NEW r \in RxState, r.max_ctr < HALF, NEW c \in 0..(HALF - 1), NEW e \in BOOLEAN
  PROVE  LET m == r.max_ctr
             L == MSG_RX_STATE_BITMAP_LEN
             in == c < m /\ m - L <= c
         IN  /\ InBitmap(r, c) <=> in
             /\ in => Index(r, c) = m - 1 - c /\ Index(r, c) \in Bit
             /\ accepts(r, c, e) <=> \/ c > m
                                     \/ in /\ m - 1 - c \notin r.ctr_bitmap
                                     \/ c < m - L /\ ~e
<1>1. r.max_ctr \in 0..(HALF - 1) /\ r.max_ctr \in Int /\ c \in Int
  BY HalfAssumption DEF RxState, Ctr
<1>2. idiff(c, r.max_ctr) = c - r.max_ctr
  BY <1>1, PlainDifference
<1>3. MSG_RX_STATE_BITMAP_LEN \in Nat \ {0}
  BY BitmapAssumption
<1> QED
  BY <1>1, <1>2, <1>3 DEF InBitmap, Index, accepts, Bit

\* The initial state satisfies the inductive invariant.
LEMMA WindowInitLemma == WindowInit => WindowInv
<1> SUFFICES ASSUME WindowInit PROVE WindowInv
  OBVIOUS
<1>1. rx = [max_ctr |-> 0, ctr_bitmap |-> Bit]
  BY DEF WindowInit, new
<1>2. DedupTypeOK
  BY <1>1, StartsAssumption, HalfAssumption, BitmapAssumption
  DEF WindowInit, DedupTypeOK, RxState, Ctr, Bit
<1>3. Tracked
  BY <1>1, StartsAssumption, BitmapAssumption DEF WindowInit, Tracked, Bit
<1> QED
  BY <1>2, <1>3 DEF WindowInv

\* Receiving any sent message, for the first time or again, preserves the
\* inductive invariant (RxCtrState::post_recv).
LEMMA ReceiveLemma ==
  ASSUME WindowInv, NEW c \in sent, receive(c)
  PROVE  WindowInv'
<1> DEFINE m == rx.max_ctr
           L == MSG_RX_STATE_BITMAP_LEN
<1>0. /\ L \in Nat \ {0} /\ m \in Int /\ m >= 0 /\ m <= LastCtr
      /\ c \in 0..LastCtr /\ LastCtr \in Nat /\ LastCtr < HALF /\ HALF \in Nat
      /\ rx \in RxState /\ is_encrypted \in BOOLEAN /\ floor \in 0..LastCtr
      /\ rx.ctr_bitmap \subseteq Bit
      /\ rx = [max_ctr |-> rx.max_ctr, ctr_bitmap |-> rx.ctr_bitmap]
  BY BitmapAssumption, StartsAssumption, HalfAssumption
  DEF WindowInv, DedupTypeOK, Tracked, RxState, Ctr
<1>1. /\ InBitmap(rx, c) <=> (c < m /\ m - L <= c)
      /\ (c < m /\ m - L <= c) => Index(rx, c) = m - 1 - c /\ Index(rx, c) \in Bit
      /\ accepts(rx, c, is_encrypted) <=>
           \/ c > m
           \/ (c < m /\ m - L <= c) /\ m - 1 - c \notin rx.ctr_bitmap
           \/ c < m - L /\ ~is_encrypted
  <2>1. c \in 0..(HALF - 1) /\ rx.max_ctr < HALF
    BY <1>0
  <2> QED
    BY <1>0, <2>1, Outcomes
<1>2. CASE ~accepts(rx, c, is_encrypted)
  <2>1. UNCHANGED rxVars
    BY <1>2 DEF receive, post_recv, rxVars
  <2> QED
    BY <2>1 DEF WindowInv, DedupTypeOK, Tracked, rxVars
<1>3. CASE accepts(rx, c, is_encrypted) /\ InBitmap(rx, c)
  <2>0. rx' = [rx EXCEPT !.ctr_bitmap = @ \cup {m - 1 - c}]
    BY <1>1, <1>3 DEF receive, post_recv
  <2>1. /\ rx' = [max_ctr |-> m, ctr_bitmap |-> rx.ctr_bitmap \cup {m - 1 - c}]
        /\ received' = received \cup {c} /\ floor' = floor
    <3>1. rx' = [max_ctr |-> m, ctr_bitmap |-> rx.ctr_bitmap \cup {m - 1 - c}]
      BY <1>0, <2>0 DEF RxState
    <3>2. received' = received \cup {c} /\ floor' = floor
      BY <1>0, <1>1, <1>3 DEF receive
    <3> QED
      BY <3>1, <3>2
  <2>2. DedupTypeOK'
    BY <1>0, <1>1, <1>3, <2>1 DEF WindowInv, DedupTypeOK, RxState, receive
  <2>3. Tracked'
    BY <1>0, <1>1, <1>3, <2>1 DEF WindowInv, DedupTypeOK, Tracked, Bit
  <2> QED
    BY <2>2, <2>3 DEF WindowInv
<1>4. CASE accepts(rx, c, is_encrypted) /\ ~InBitmap(rx, c) /\ c > m
  <2>0. /\ received' = received \cup {c}
        /\ rx' = Ahead(rx, c)
        /\ floor' = IF c >= m + L THEN c ELSE floor
    BY <1>0, <1>1, <1>4 DEF receive, post_recv
  <2>1. CASE c - m < L
    <3>1. rx' = [max_ctr |-> c,
                 ctr_bitmap |-> Shifted(rx.ctr_bitmap, c - m) \cup {c - m - 1}]
      BY <2>0, <2>1 DEF Ahead
    <3>2. rx'.ctr_bitmap \subseteq Bit
      BY <1>0, <1>4, <2>1, <3>1 DEF Shifted, Bit
    <3>3. DedupTypeOK'
      BY <1>0, <1>4, <2>0, <2>1, <3>1, <3>2 DEF WindowInv, DedupTypeOK, RxState, Ctr, receive
    <3>4. floor' = floor
      BY <1>0, <2>0, <2>1
    <3>5. ASSUME NEW d \in received'
          PROVE  d = c \/ d < c - L \/ (d < c /\ c - 1 - d \in rx'.ctr_bitmap)
      <4>1. CASE d = c
        BY <4>1
      <4>2. CASE d # c /\ d >= c - L
        <5>1. d \in received /\ d \in Int /\ d >= m - L
          BY <1>0, <1>4, <2>0, <4>2 DEF WindowInv, DedupTypeOK
        <5>2. CASE d = m
          BY <1>0, <1>4, <5>2, <3>1
        <5>3. CASE d < m /\ m - 1 - d \in rx.ctr_bitmap
          <6>1. c - 1 - d \in Bit /\ (c - 1 - d) - (c - m) = m - 1 - d
            BY <1>0, <1>4, <2>1, <4>2, <5>1, <5>3 DEF Bit
          <6> QED
            BY <1>0, <1>4, <3>1, <5>1, <5>3, <6>1 DEF Shifted
        <5> QED
          BY <1>0, <5>1, <5>2, <5>3 DEF WindowInv, Tracked
      <4> QED
        BY <1>0, <2>0, <4>1, <4>2 DEF WindowInv, DedupTypeOK
    <3>6. ASSUME NEW b \in rx'.ctr_bitmap, c - 1 - b > floor
          PROVE  c - 1 - b \in received'
      <4>0. b \in Int
        BY <3>2 DEF Bit
      <4>1. CASE b = c - m - 1
        <5>1. c - 1 - b = m
          BY <1>0, <4>1
        <5> QED
          BY <1>0, <2>0, <3>6, <5>1 DEF WindowInv, Tracked
      <4>2. CASE b - (c - m) \in rx.ctr_bitmap
        <5>1. m - 1 - (b - (c - m)) = c - 1 - b
          BY <1>0, <4>0
        <5> QED
          BY <1>0, <2>0, <3>6, <4>2, <5>1 DEF WindowInv, Tracked
      <4> QED
        BY <3>1, <4>1, <4>2 DEF Shifted
    <3>7. Tracked'
      BY <1>0, <1>4, <2>0, <3>1, <3>4, <3>5, <3>6 DEF WindowInv, Tracked
    <3> QED
      BY <3>3, <3>7 DEF WindowInv
  <2>2. CASE c - m >= L
    <3>1. rx' = [max_ctr |-> c, ctr_bitmap |-> Bit] /\ floor' = c
      BY <1>0, <2>0, <2>2 DEF Ahead
    <3>2. DedupTypeOK'
      BY <1>0, <2>0, <3>1 DEF WindowInv, DedupTypeOK, RxState, Ctr, receive
    <3>3. ASSUME NEW d \in received'
          PROVE  d = c \/ d < c - L \/ (d < c /\ c - 1 - d \in Bit)
      BY <1>0, <1>4, <2>0, <2>2, <3>3 DEF WindowInv, DedupTypeOK, Tracked, Bit
    <3>4. Tracked'
      BY <1>0, <3>1, <3>3 DEF Tracked, Bit
    <3> QED
      BY <3>2, <3>4 DEF WindowInv
  <2> QED
    BY <1>0, <2>1, <2>2
<1>5. CASE accepts(rx, c, is_encrypted) /\ ~InBitmap(rx, c) /\ ~(c > m)
  <2>1. rx' = [max_ctr |-> c, ctr_bitmap |-> Bit] /\ received' = {c} /\ floor' = c
    BY <1>0, <1>1, <1>5 DEF receive, post_recv, new
  <2>2. DedupTypeOK'
    BY <1>0, <2>1 DEF WindowInv, DedupTypeOK, RxState, Ctr, receive
  <2>3. Tracked'
    BY <1>0, <2>1 DEF Tracked, Bit
  <2> QED
    BY <2>2, <2>3 DEF WindowInv
<1> QED
  BY <1>2, <1>3, <1>4, <1>5

\* Every step preserves the inductive invariant.
LEMMA WindowNextLemma == WindowInv /\ [WindowNext]_rxVars => WindowInv'
<1> SUFFICES ASSUME WindowInv, [WindowNext]_rxVars PROVE WindowInv'
  OBVIOUS
<1>1. CASE get_msg_ctr
  <2>1. DedupTypeOK'
    BY <1>1, StartsAssumption DEF WindowInv, DedupTypeOK, get_msg_ctr
  <2>2. Tracked'
    BY <1>1, Zenon DEF WindowInv, Tracked, get_msg_ctr
  <2> QED
    BY <2>1, <2>2 DEF WindowInv
<1>2. CASE \E c \in sent : receive(c)
  BY <1>2, ReceiveLemma
<1>3. CASE reboot
  <2>1. DedupTypeOK'
    BY <1>3, StartsAssumption DEF WindowInv, DedupTypeOK, reboot
  <2>2. Tracked'
    BY <1>3, Zenon DEF WindowInv, Tracked, reboot
  <2> QED
    BY <2>1, <2>2 DEF WindowInv
<1>4. CASE UNCHANGED rxVars
  BY <1>4, Zenon DEF WindowInv, DedupTypeOK, Tracked, rxVars
<1> QED
  BY <1>1, <1>2, <1>3, <1>4 DEF WindowNext

\* The inductive invariant holds in every reachable state.
LEMMA WindowInductive == WindowSpec => []WindowInv
<1> QED
  BY WindowInitLemma, WindowNextLemma, PTL DEF WindowSpec

\* The reception state, the peer's counter and the history keep their types.
THEOREM DedupTypeCorrect == WindowSpec => []DedupTypeOK
<1>1. WindowInv => DedupTypeOK
  BY DEF WindowInv
<1> QED
  BY <1>1, WindowInductive, PTL

\* The invariant decides what post_recv answers for every sent counter that is
\* not older than the window.
LEMMA VerdictLemma ==
  ASSUME WindowInv, NEW c \in sent
  PROVE  /\ c > floor /\ c >= rx.max_ctr - MSG_RX_STATE_BITMAP_LEN
              => (accepts(rx, c, is_encrypted) <=> c \notin received)
         /\ c \in received /\ is_encrypted => ~accepts(rx, c, TRUE)
<1>0. /\ rx \in RxState /\ rx.max_ctr \in Int /\ rx.max_ctr <= LastCtr
      /\ c \in 0..LastCtr /\ c \in Int /\ is_encrypted \in BOOLEAN
      /\ MSG_RX_STATE_BITMAP_LEN \in Nat \ {0} /\ floor \in Int
  BY BitmapAssumption, StartsAssumption DEF WindowInv, DedupTypeOK, Tracked, RxState, Ctr
<1>1. /\ accepts(rx, c, is_encrypted) <=>
           \/ c > rx.max_ctr
           \/ /\ c < rx.max_ctr /\ rx.max_ctr - MSG_RX_STATE_BITMAP_LEN <= c
              /\ rx.max_ctr - 1 - c \notin rx.ctr_bitmap
           \/ c < rx.max_ctr - MSG_RX_STATE_BITMAP_LEN /\ ~is_encrypted
      /\ accepts(rx, c, TRUE) <=>
           \/ c > rx.max_ctr
           \/ /\ c < rx.max_ctr /\ rx.max_ctr - MSG_RX_STATE_BITMAP_LEN <= c
              /\ rx.max_ctr - 1 - c \notin rx.ctr_bitmap
  <2>1. c \in 0..(HALF - 1) /\ rx.max_ctr < HALF
    BY <1>0, StartsAssumption, HalfAssumption
  <2> QED
    BY <1>0, <2>1, Outcomes, Zenon
<1>2. c \in received => \/ c = rx.max_ctr
                        \/ c < rx.max_ctr - MSG_RX_STATE_BITMAP_LEN
                        \/ c < rx.max_ctr /\ rx.max_ctr - 1 - c \in rx.ctr_bitmap
  BY DEF WindowInv, Tracked
<1>3. /\ c > floor /\ c = rx.max_ctr => c \in received
      /\ c > floor /\ rx.max_ctr - 1 - c \in rx.ctr_bitmap => c \in received
  <2>1. rx.max_ctr - 1 - (rx.max_ctr - 1 - c) = c
    BY <1>0
  <2> QED
    BY <2>1 DEF WindowInv, Tracked
<1>4. ASSUME c \in received
      PROVE  ~accepts(rx, c, TRUE)
  <2>1. /\ ~(c > rx.max_ctr)
        /\ ~ /\ c < rx.max_ctr /\ rx.max_ctr - MSG_RX_STATE_BITMAP_LEN <= c
             /\ rx.max_ctr - 1 - c \notin rx.ctr_bitmap
    BY <1>0, <1>2, <1>4
  <2> QED
    BY <1>1, <2>1, Zenon
<1>5. ASSUME c > floor, c >= rx.max_ctr - MSG_RX_STATE_BITMAP_LEN
      PROVE  accepts(rx, c, is_encrypted) <=> c \notin received
  <2>1. ~(c < rx.max_ctr - MSG_RX_STATE_BITMAP_LEN)
    BY <1>0, <1>5
  <2>2. CASE c > rx.max_ctr
    BY <1>0, <1>1, <1>2, <2>2
  <2>3. CASE c = rx.max_ctr
    BY <1>0, <1>1, <1>3, <1>5, <2>1, <2>3
  <2>4. CASE c < rx.max_ctr
    BY <1>0, <1>1, <1>2, <1>3, <1>5, <2>1, <2>4
  <2> QED
    BY <1>0, <2>2, <2>3, <2>4
<1> QED
  BY <1>4, <1>5, Zenon

\* A message kept once on an encrypted session is never kept again
\* (RxCtrState::post_recv).
THEOREM MessagesAreKeptOnce == WindowSpec => []KeptOnce
<1>1. WindowInv => KeptOnce
  <2> SUFFICES ASSUME WindowInv, is_encrypted, NEW c \in received
               PROVE  ~accepts(rx, c, TRUE)
    BY Zenon DEF KeptOnce
  <2>1. c \in sent
    BY DEF WindowInv, DedupTypeOK
  <2> QED
    BY <2>1, VerdictLemma, Zenon
<1> QED
  BY <1>1, WindowInductive, PTL

\* Above the point where the window was last filled up, post_recv tells the
\* kept messages of the window exactly.
THEOREM WindowIsExact == WindowSpec => []WindowExact
<1>1. WindowInv => WindowExact
  BY VerdictLemma, Zenon DEF WindowExact
<1> QED
  BY <1>1, WindowInductive, PTL

-----------------------------------------------------------------------------
\* A window refuses every counter of C.
Refuses(r, C) ==
  \A c \in C : \/ c = r.max_ctr
               \/ c < r.max_ctr - MSG_RX_STATE_BITMAP_LEN
               \/ c < r.max_ctr /\ r.max_ctr - 1 - c \in r.ctr_bitmap

StoreTypes ==
  /\ StoreTypeOK
  /\ IsFiniteSet(ctr_entries)
  /\ clock \in Nat
  /\ kept \in [Senders -> SUBSET Counters]
  /\ heard \in [Senders -> 0..clock]
  /\ \A s, t \in Senders : heard[s] > 0 /\ heard[s] = heard[t] => s = t

\* An entry was last used when its sender was last heard, and its window
\* refuses what was kept from the sender.
Remembers(e) ==
  /\ e.last_used > 0 /\ heard[e.sender] = e.last_used
  /\ e.rx_ctr.max_ctr < HALF
  /\ Refuses(e.rx_ctr, kept[e.sender])

\* A forgotten sender gave way to as many later ones as there is room for.
Displaced(s) ==
  /\ Cardinality(ctr_entries) = MAX_GROUP_CTR_ENTRIES
  /\ \A e \in ctr_entries : e.last_used > heard[s]

StoreInv ==
  /\ StoreTypes
  /\ \A e \in ctr_entries : Remembers(e)
  /\ \A s \in Senders : heard[s] > 0 /\ Of(s) = {} => Displaced(s)

\* What post_recv keeps it refuses from then on, and it goes on refusing what it
\* refused.
LEMMA RefusesLemma ==
  ASSUME NEW r \in RxState, r.max_ctr < HALF, NEW C \in SUBSET (0..(HALF - 1)),
         Refuses(r, C), NEW c \in 0..(HALF - 1)
  PROVE  LET after == post_recv(r, c, ENCRYPTED)
         IN  /\ after \in RxState /\ after.max_ctr < HALF
             /\ Refuses(after, IF accepts(r, c, ENCRYPTED) THEN C \cup {c} ELSE C)
<1> DEFINE m == r.max_ctr
           L == MSG_RX_STATE_BITMAP_LEN
           after == post_recv(r, c, ENCRYPTED)
           in == c < m /\ m - L <= c
<1>0. /\ L \in Nat \ {0} /\ m \in Int /\ m >= 0 /\ c \in Int /\ HALF \in Nat /\ c >= 0
      /\ r.ctr_bitmap \subseteq Bit /\ r = [max_ctr |-> m, ctr_bitmap |-> r.ctr_bitmap]
      /\ c \in Ctr /\ m \in Ctr
  BY BitmapAssumption, HalfAssumption DEF RxState, Ctr
<1>1. /\ InBitmap(r, c) <=> in
      /\ in => Index(r, c) = m - 1 - c /\ Index(r, c) \in Bit
      /\ accepts(r, c, ENCRYPTED) <=> \/ c > m
                                      \/ in /\ m - 1 - c \notin r.ctr_bitmap
  <2>1. ENCRYPTED \in BOOLEAN /\ ENCRYPTED
    BY DEF ENCRYPTED
  <2> QED
    BY <2>1, Outcomes, Zenon
<1>2. CASE ~accepts(r, c, ENCRYPTED)
  BY <1>2 DEF post_recv
<1>3. CASE accepts(r, c, ENCRYPTED) /\ in
  <2>1. after = [max_ctr |-> m, ctr_bitmap |-> r.ctr_bitmap \cup {m - 1 - c}]
    <3>1. after = [r EXCEPT !.ctr_bitmap = @ \cup {m - 1 - c}]
      BY <1>1, <1>3 DEF post_recv
    <3> QED
      BY <1>0, <3>1, Zenon DEF RxState
  <2>2. after \in RxState /\ after.max_ctr < HALF
    BY <1>0, <1>1, <1>3, <2>1 DEF RxState
  <2>3. Refuses(after, C \cup {c})
    BY <1>0, <1>3, <2>1 DEF Refuses
  <2> QED
    BY <1>3, <2>2, <2>3
<1>4. CASE accepts(r, c, ENCRYPTED) /\ c > m
  <2>0. after = Ahead(r, c)
    BY <1>0, <1>1, <1>4 DEF post_recv
  <2>1. CASE c - m < L
    <3>1. after = [max_ctr |-> c, ctr_bitmap |-> Shifted(r.ctr_bitmap, c - m) \cup {c - m - 1}]
      BY <2>0, <2>1 DEF Ahead
    <3>2. after.ctr_bitmap \subseteq Bit
      BY <1>0, <1>4, <2>1, <3>1 DEF Shifted, Bit
    <3>3. after \in RxState /\ after.max_ctr < HALF
      BY <1>0, <3>1, <3>2 DEF RxState
    <3>4. ASSUME NEW d \in C
          PROVE  d = c \/ d < c - L \/ (d < c /\ c - 1 - d \in after.ctr_bitmap)
      <4>1. /\ d \in Int
            /\ d = m \/ d < m - L \/ (d < m /\ m - 1 - d \in r.ctr_bitmap)
        BY DEF Refuses
      <4>2. CASE d = m
        BY <1>0, <1>4, <4>2, <3>1
      <4>3. CASE d < m - L
        BY <1>0, <1>4, <4>1, <4>3
      <4>4. CASE d < m /\ m - 1 - d \in r.ctr_bitmap /\ d >= c - L
        <5>1. c - 1 - d \in Bit /\ (c - 1 - d) - (c - m) = m - 1 - d
          BY <1>0, <1>4, <4>1, <4>4 DEF Bit
        <5> QED
          BY <1>0, <1>4, <3>1, <4>1, <4>4, <5>1 DEF Shifted
      <4> QED
        BY <1>0, <4>1, <4>2, <4>3, <4>4
    <3> QED
      BY <1>4, <3>1, <3>3, <3>4 DEF Refuses
  <2>2. CASE c - m >= L
    <3>1. after = [max_ctr |-> c, ctr_bitmap |-> Bit]
      BY <1>0, <2>0, <2>2 DEF Ahead
    <3>2. ASSUME NEW d \in C
          PROVE  d = c \/ d < c - L \/ (d < c /\ c - 1 - d \in Bit)
      BY <1>0, <1>4, <2>2 DEF Refuses, Bit
    <3>3. after \in RxState /\ after.max_ctr < HALF
      BY <1>0, <3>1 DEF RxState
    <3> QED
      BY <1>4, <3>1, <3>2, <3>3 DEF Refuses
  <2> QED
    BY <1>0, <2>1, <2>2
<1> QED
  BY <1>1, <1>2, <1>3, <1>4

\* A window answers "duplicate" to every counter it refuses.
LEMMA RefusedLemma ==
  ASSUME NEW r \in RxState, r.max_ctr < HALF, NEW C \in SUBSET (0..(HALF - 1)),
         Refuses(r, C), NEW c \in C
  PROVE  ~accepts(r, c, ENCRYPTED)
<1>1. r.max_ctr \in Int /\ c \in 0..(HALF - 1) /\ c \in Int /\ MSG_RX_STATE_BITMAP_LEN \in Nat \ {0}
  BY HalfAssumption, BitmapAssumption DEF RxState, Ctr
<1>2. accepts(r, c, ENCRYPTED) <=>
         \/ c > r.max_ctr
         \/ /\ c < r.max_ctr /\ r.max_ctr - MSG_RX_STATE_BITMAP_LEN <= c
            /\ r.max_ctr - 1 - c \notin r.ctr_bitmap
  <2>1. ENCRYPTED \in BOOLEAN /\ ENCRYPTED
    BY DEF ENCRYPTED
  <2> QED
    BY <1>1, <2>1, Outcomes, Zenon
<1>3. \/ c = r.max_ctr
      \/ c < r.max_ctr - MSG_RX_STATE_BITMAP_LEN
      \/ c < r.max_ctr /\ r.max_ctr - 1 - c \in r.ctr_bitmap
  BY DEF Refuses
<1> QED
  BY <1>1, <1>2, <1>3

\* The empty store satisfies the invariant.
LEMMA StoreInitLemma == StoreInit => StoreInv
<1> SUFFICES ASSUME StoreInit PROVE StoreInv
  OBVIOUS
<1>1. IsFiniteSet({}) /\ Cardinality({}) = 0
  BY FS_EmptySet
<1>2. StoreTypes
  BY <1>1, StoreAssumption DEF StoreInit, StoreTypes, StoreTypeOK
<1> QED
  BY <1>2 DEF StoreInit, StoreInv

\* A message of a known sender preserves the invariant: its entry becomes the
\* youngest, and its window takes the counter in.
LEMMA KnownLemma ==
  ASSUME StoreInv, NEW s \in Senders, NEW c \in Counters, post_recv_known(s, c)
  PROVE  StoreInv'
<1>0. PICK e \in Of(s) :
        /\ ctr_entries' = (ctr_entries \ {e}) \cup {Renewed(e, c)}
        /\ kept' = IF accepts(e.rx_ctr, c, ENCRYPTED) THEN [kept EXCEPT ![s] = @ \cup {c}] ELSE kept
        /\ clock' = clock + 1
        /\ Heard(s)
  BY DEF post_recv_known
<1> DEFINE y == Renewed(e, c)
           C == IF accepts(e.rx_ctr, c, ENCRYPTED) THEN kept[s] \cup {c} ELSE kept[s]
<1>1. /\ e \in ctr_entries /\ e.sender = s /\ e \in GroupCtrEntry /\ clock \in Nat
      /\ kept \in [Senders -> SUBSET Counters] /\ heard \in [Senders -> 0..clock]
      /\ c \in 0..(HALF - 1) /\ kept[s] \in SUBSET (0..(HALF - 1))
      /\ Remembers(e)
  BY StoreAssumption DEF StoreInv, StoreTypes, StoreTypeOK, Of
<1>2. e.rx_ctr \in RxState /\ e.rx_ctr.max_ctr < HALF /\ Refuses(e.rx_ctr, kept[s])
  BY <1>1 DEF GroupCtrEntry, Remembers
<1>3. /\ post_recv(e.rx_ctr, c, ENCRYPTED) \in RxState
      /\ post_recv(e.rx_ctr, c, ENCRYPTED).max_ctr < HALF
      /\ Refuses(post_recv(e.rx_ctr, c, ENCRYPTED), C)
  BY <1>1, <1>2, RefusesLemma, Zenon
<1>4. y = [sender |-> s, rx_ctr |-> post_recv(e.rx_ctr, c, ENCRYPTED), last_used |-> clock + 1]
  BY <1>1 DEF Renewed
<1>5. y \in GroupCtrEntry /\ y.sender = s /\ y.last_used = clock + 1
  BY <1>1, <1>3, <1>4 DEF GroupCtrEntry
<1>6. /\ heard' = [heard EXCEPT ![s] = clock + 1] /\ heard' \in [Senders -> 0..(clock + 1)]
      /\ kept' \in [Senders -> SUBSET Counters] /\ kept'[s] = C
      /\ \A t \in Senders : t # s => heard'[t] = heard[t] /\ kept'[t] = kept[t]
      /\ heard'[s] = clock + 1
  BY <1>0, <1>1 DEF Heard
<1>7. \A f \in ctr_entries : f # e => f.sender # s /\ f.sender \in Senders /\ f.last_used <= clock /\ f.last_used \in Nat
  BY <1>1 DEF StoreInv, StoreTypes, StoreTypeOK, GroupCtrEntry
<1>8. /\ IsFiniteSet(ctr_entries') /\ Cardinality(ctr_entries') = Cardinality(ctr_entries)
      /\ y \notin ctr_entries \ {e}
  <2>1. y \notin ctr_entries \ {e}
    BY <1>5, <1>7
  <2>2. /\ IsFiniteSet(ctr_entries \ {e})
        /\ Cardinality(ctr_entries \ {e}) = Cardinality(ctr_entries) - 1
        /\ Cardinality(ctr_entries) \in Nat
    BY <1>1, FS_RemoveElement, FS_CardinalityType DEF StoreInv, StoreTypes
  <2>3. /\ IsFiniteSet(ctr_entries')
        /\ Cardinality(ctr_entries') = Cardinality(ctr_entries \ {e}) + 1
    BY <1>0, <2>1, <2>2, FS_AddElement, Zenon
  <2> QED
    BY <2>1, <2>2, <2>3
<1>9. StoreTypes'
  <2>1. ctr_entries' \subseteq GroupCtrEntry /\ Cardinality(ctr_entries') <= MAX_GROUP_CTR_ENTRIES
    BY <1>0, <1>5, <1>8 DEF StoreInv, StoreTypes, StoreTypeOK
  <2>2. \A f, g \in ctr_entries' : f.sender = g.sender \/ f.last_used = g.last_used => f = g
    BY <1>0, <1>1, <1>5, <1>7 DEF StoreInv, StoreTypes, StoreTypeOK
  <2>3. \A f \in ctr_entries' : f.last_used <= clock'
    BY <1>0, <1>1, <1>5, <1>7
  <2>4. \A t, u \in Senders : heard'[t] > 0 /\ heard'[t] = heard'[u] => t = u
    BY <1>1, <1>6 DEF StoreInv, StoreTypes
  <2> QED
    BY <1>0, <1>1, <1>6, <1>8, <2>1, <2>2, <2>3, <2>4 DEF StoreTypes, StoreTypeOK
<1>10. ASSUME NEW f \in ctr_entries'
       PROVE  Remembers(f)'
  <2>1. CASE f = y
    <3>1. f.rx_ctr = post_recv(e.rx_ctr, c, ENCRYPTED) /\ f.sender = s /\ f.last_used = clock + 1
      BY <1>4, <2>1
    <3>2. f.last_used > 0 /\ heard'[f.sender] = f.last_used
      BY <1>1, <1>6, <3>1, SMTT(30)
    <3>3. f.rx_ctr.max_ctr < HALF /\ Refuses(f.rx_ctr, kept'[f.sender])
      BY <1>3, <1>6, <3>1, Zenon
    <3> QED
      BY <3>2, <3>3 DEF Remembers
  <2>2. CASE f \in ctr_entries /\ f # e
    BY <1>6, <1>7, <2>2 DEF StoreInv, Remembers
  <2> QED
    BY <1>0, <2>1, <2>2
<1>11. ASSUME NEW t \in Senders, heard'[t] > 0, Of(t)' = {}
       PROVE  Displaced(t)'
  <2>1. t # s
    BY <1>0, <1>5, <1>11 DEF Of
  <2>2. Of(t) = {}
    BY <1>0, <1>1, <1>11, <2>1 DEF Of
  <2>3. Displaced(t)
    BY <1>6, <1>11, <2>1, <2>2 DEF StoreInv
  <2>4. \A f \in ctr_entries' : f.last_used > heard'[t]
    BY <1>0, <1>1, <1>5, <1>6, <2>1, <2>3, SMTT(30) DEF Displaced
  <2> QED
    BY <1>8, <2>3, <2>4 DEF Displaced
<1> QED
  BY <1>9, <1>10, <1>11 DEF StoreInv

\* The first message of a sender preserves the invariant: when the store is full,
\* the one it forgets was heard before all the others.
LEMMA NewcomerLemma ==
  ASSUME StoreInv, NEW s \in Senders, NEW c \in Counters, post_recv_new(s, c)
  PROVE  StoreInv'
<1> DEFINE y == [sender |-> s, rx_ctr |-> new(c), last_used |-> clock + 1]
<1>0. PICK evicted :
        /\ evicted \in IF Cardinality(ctr_entries) < MAX_GROUP_CTR_ENTRIES THEN {{}} ELSE {{e} : e \in Lru}
        /\ ctr_entries' = (ctr_entries \ evicted) \cup {y}
  BY DEF post_recv_new, Stored
<1>1. /\ Of(s) = {} /\ clock \in Nat /\ clock' = clock + 1
      /\ kept \in [Senders -> SUBSET Counters] /\ heard \in [Senders -> 0..clock]
      /\ c \in 0..(HALF - 1) /\ IsFiniteSet(ctr_entries) /\ Cardinality(ctr_entries) \in Nat
      /\ Cardinality(ctr_entries) <= MAX_GROUP_CTR_ENTRIES /\ MAX_GROUP_CTR_ENTRIES \in Nat
  BY StoreAssumption, FS_CardinalityType DEF StoreInv, StoreTypes, StoreTypeOK, post_recv_new
<1>2. /\ y \in GroupCtrEntry /\ y.sender = s /\ y.last_used = clock + 1
      /\ y.rx_ctr.max_ctr = c
  BY <1>1, HalfAssumption DEF GroupCtrEntry, new, RxState, Ctr
<1>3. /\ heard' = [heard EXCEPT ![s] = clock + 1] /\ heard' \in [Senders -> 0..(clock + 1)]
      /\ kept' \in [Senders -> SUBSET Counters] /\ kept'[s] = {c}
      /\ \A t \in Senders : t # s => heard'[t] = heard[t] /\ kept'[t] = kept[t]
      /\ heard'[s] = clock + 1
  BY <1>1 DEF Heard, post_recv_new
<1>4. \A f \in ctr_entries : /\ f.sender # s /\ f.sender \in Senders
                             /\ f.last_used <= clock /\ f.last_used \in Nat
  BY <1>1 DEF StoreInv, StoreTypes, StoreTypeOK, GroupCtrEntry, Of
<1>5. /\ IsFiniteSet(ctr_entries') /\ Cardinality(ctr_entries') <= MAX_GROUP_CTR_ENTRIES
      /\ ~(Cardinality(ctr_entries) < MAX_GROUP_CTR_ENTRIES)
           => Cardinality(ctr_entries') = MAX_GROUP_CTR_ENTRIES
  <2>1. CASE Cardinality(ctr_entries) < MAX_GROUP_CTR_ENTRIES
    <3>1. ctr_entries' = ctr_entries \cup {y} /\ y \notin ctr_entries
      BY <1>0, <1>2, <1>4, <2>1
    <3>2. IsFiniteSet(ctr_entries') /\ Cardinality(ctr_entries') = Cardinality(ctr_entries) + 1
      BY <1>1, <3>1, FS_AddElement, SMTT(30)
    <3> QED
      BY <1>1, <2>1, <3>2
  <2>2. CASE ~(Cardinality(ctr_entries) < MAX_GROUP_CTR_ENTRIES)
    <3>1. PICK e \in ctr_entries : ctr_entries' = (ctr_entries \ {e}) \cup {y}
      BY <1>0, <2>2 DEF Lru
    <3>2. IsFiniteSet(ctr_entries \ {e}) /\ Cardinality(ctr_entries \ {e}) = Cardinality(ctr_entries) - 1
      BY <1>1, FS_RemoveElement
    <3>3. y \notin ctr_entries \ {e}
      BY <1>2, <1>4
    <3>4. IsFiniteSet(ctr_entries') /\ Cardinality(ctr_entries') = Cardinality(ctr_entries \ {e}) + 1
      BY <3>1, <3>2, <3>3, FS_AddElement, Zenon
    <3> QED
      BY <1>1, <2>2, <3>2, <3>4
  <2> QED
    BY <2>1, <2>2
<1>6. StoreTypes'
  <2>1. ctr_entries' \subseteq GroupCtrEntry
    BY <1>0, <1>2 DEF StoreInv, StoreTypes, StoreTypeOK
  <2>2. \A f, g \in ctr_entries' : f.sender = g.sender \/ f.last_used = g.last_used => f = g
    BY <1>0, <1>1, <1>2, <1>4 DEF StoreInv, StoreTypes, StoreTypeOK
  <2>3. \A f \in ctr_entries' : f.last_used <= clock'
    BY <1>0, <1>1, <1>2, <1>4
  <2>4. \A t, u \in Senders : heard'[t] > 0 /\ heard'[t] = heard'[u] => t = u
    BY <1>1, <1>3 DEF StoreInv, StoreTypes
  <2> QED
    BY <1>1, <1>3, <1>5, <2>1, <2>2, <2>3, <2>4 DEF StoreTypes, StoreTypeOK
<1>7. ASSUME NEW f \in ctr_entries'
      PROVE  Remembers(f)'
  <2>1. CASE f = y
    <3>1. f.rx_ctr.max_ctr = c /\ f.sender = s /\ f.last_used = clock + 1
      BY <1>2, <2>1
    <3>2. f.last_used > 0 /\ heard'[f.sender] = f.last_used
      <4>1. clock + 1 > 0 /\ heard'[s] = clock + 1
        BY <1>1, <1>3
      <4> QED
        BY <3>1, <4>1
    <3>3. f.rx_ctr.max_ctr < HALF /\ Refuses(f.rx_ctr, kept'[f.sender])
      BY <1>1, <1>3, <3>1, HalfAssumption, SMTT(30) DEF Refuses
    <3> QED
      BY <3>2, <3>3 DEF Remembers
  <2>2. CASE f \in ctr_entries
    BY <1>3, <1>4, <2>2, ZenonT(30) DEF StoreInv, Remembers
  <2> QED
    BY <1>0, <2>1, <2>2
<1>8. ASSUME NEW t \in Senders, heard'[t] > 0, Of(t)' = {}
      PROVE  Displaced(t)'
  <2>1. t # s
    BY <1>0, <1>2, <1>8 DEF Of
  <2>2. heard'[t] = heard[t] /\ heard[t] \in Nat /\ heard[t] <= clock
    BY <1>1, <1>3, <2>1
  <2>3. /\ ~(Cardinality(ctr_entries) < MAX_GROUP_CTR_ENTRIES)
        /\ \A f \in ctr_entries \ evicted : f.last_used > heard[t]
    <3>1. CASE Of(t) = {}
      BY <1>1, <1>8, <2>2, <3>1 DEF StoreInv, Displaced
    <3>2. CASE Of(t) # {}
      <4>1. PICK e \in ctr_entries : e.sender = t
        BY <3>2 DEF Of
      <4>2. e \in evicted
        BY <1>0, <1>8, <4>1 DEF Of
      <4>3. ~(Cardinality(ctr_entries) < MAX_GROUP_CTR_ENTRIES) /\ e \in Lru /\ evicted = {e}
        BY <1>0, <4>2, ZenonT(30)
      <4>4. heard[t] = e.last_used
        BY <4>1, ZenonT(30) DEF StoreInv, Remembers
      <4> QED
        BY <1>4, <4>3, <4>4 DEF Lru, StoreInv, StoreTypes, StoreTypeOK
    <3> QED
      BY <3>1, <3>2
  <2>4. \A f \in ctr_entries' : f.last_used > heard'[t]
    BY <1>0, <1>1, <1>2, <2>2, <2>3
  <2> QED
    BY <1>5, <2>3, <2>4 DEF Displaced
<1> QED
  BY <1>6, <1>7, <1>8, Zenon DEF StoreInv

\* The invariant holds in every reachable state.
LEMMA StoreInductive == StoreSpec => []StoreInv
<1>1. StoreInv /\ [StoreNext]_storeVars => StoreInv'
  <2> SUFFICES ASSUME StoreInv, [StoreNext]_storeVars PROVE StoreInv'
    OBVIOUS
  <2>1. CASE StoreNext
    BY <2>1, KnownLemma, NewcomerLemma, SMTT(30) DEF StoreNext
  <2>2. CASE UNCHANGED storeVars
    BY <2>2 DEF storeVars, StoreInv, StoreTypes, StoreTypeOK, Remembers, Displaced, Of
  <2> QED
    BY <2>1, <2>2
<1> QED
  BY <1>1, StoreInitLemma, PTL DEF StoreSpec

\* The store holds at most one entry per sender, within its capacity, and no two
\* entries were last used at the same time (GroupCtrStore::post_recv).
THEOREM StoreTypeCorrect == StoreSpec => []StoreTypeOK
<1>1. StoreInv => StoreTypeOK
  BY DEF StoreInv, StoreTypes
<1> QED
  BY <1>1, StoreInductive, PTL

\* A sender that was forgotten has at least as many later ones as there is room
\* for: the senders of the entries, and itself besides.
LEMMA LaterSenders ==
  ASSUME StoreInv, NEW s \in Senders, heard[s] > 0, Of(s) = {}
  PROVE  Cardinality({t \in Senders : heard[t] >= heard[s]}) > MAX_GROUP_CTR_ENTRIES
<1> DEFINE later == {t \in Senders : heard[t] >= heard[s]}
           sender == [e \in ctr_entries |-> e.sender]
<1>1. /\ Displaced(s) /\ heard \in [Senders -> 0..clock] /\ clock \in Nat
      /\ ctr_entries \subseteq GroupCtrEntry
      /\ \A e, f \in ctr_entries : e.sender = f.sender => e = f
      /\ \A e \in ctr_entries : Remembers(e)
  BY DEF StoreInv, StoreTypes, StoreTypeOK
<1>2. \A e \in ctr_entries : e.sender \in later \ {s}
  BY <1>1 DEF Displaced, Remembers, GroupCtrEntry
<1>3. sender \in Injection(ctr_entries, later \ {s})
  BY <1>1, <1>2 DEF Injection, IsInjective
<1>4. IsFiniteSet(later)
  BY StoreAssumption, FS_Subset
<1>5. s \in later
  BY <1>1
<1>6. IsFiniteSet(later \ {s}) /\ Cardinality(later \ {s}) = Cardinality(later) - 1
  BY <1>4, <1>5, FS_RemoveElement, SMTT(30)
<1>7. Cardinality(ctr_entries) <= Cardinality(later \ {s})
  BY <1>3, <1>6, FS_Injection
<1>8. Cardinality(later) \in Nat /\ MAX_GROUP_CTR_ENTRIES \in Nat
  BY <1>4, FS_CardinalityType, StoreAssumption
<1> QED
  BY <1>1, <1>6, <1>7, <1>8 DEF Displaced

\* A group message kept from one of the senders heard last, as many as there is
\* room for, is not kept again (GroupCtrStore::post_recv).
THEOREM RecentSendersAreRemembered == StoreSpec => []RecentAreKeptOnce
<1>1. StoreInv => RecentAreKeptOnce
  <2> SUFFICES ASSUME StoreInv, NEW s \in Senders, heard[s] > 0,
                      Cardinality({t \in Senders : heard[t] >= heard[s]}) <= MAX_GROUP_CTR_ENTRIES,
                      NEW c \in kept[s]
               PROVE  \E e \in Of(s) : ~accepts(e.rx_ctr, c, ENCRYPTED)
    BY DEF RecentAreKeptOnce
  <2>1. /\ IsFiniteSet({t \in Senders : heard[t] >= heard[s]})
        /\ Cardinality({t \in Senders : heard[t] >= heard[s]}) \in Nat
    BY StoreAssumption, FS_Subset, FS_CardinalityType
  <2>2. MAX_GROUP_CTR_ENTRIES \in Nat
    BY StoreAssumption
  <2>3. PICK e \in ctr_entries : e \in Of(s) /\ e.sender = s
    BY <2>1, <2>2, LaterSenders DEF Of
  <2>4. /\ e.rx_ctr \in RxState /\ e.rx_ctr.max_ctr < HALF /\ Refuses(e.rx_ctr, kept[s])
        /\ kept[s] \in SUBSET (0..(HALF - 1))
    BY <2>3, StoreAssumption, SMTT(30) DEF StoreInv, StoreTypes, StoreTypeOK, GroupCtrEntry, Remembers
  <2>5. ~accepts(e.rx_ctr, c, ENCRYPTED)
    BY <2>4, RefusedLemma, Zenon
  <2> QED
    BY <2>3, <2>5
<1> QED
  BY <1>1, StoreInductive, PTL
=============================================================================
