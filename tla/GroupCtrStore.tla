--------------------------- MODULE GroupCtrStore ----------------------------
(***************************************************************************)
(* The message counters of group message senders (transport/dedup.rs).     *)
(* Group sessions live for one message, so the store keeps the reception   *)
(* state of each sender, a pair of fabric index and node id, across them.  *)
(* A full store forgets the sender it has not heard for longest.  Its      *)
(* clock, 32 bits wide, is taken not to come round.                        *)
(***************************************************************************)
EXTENDS RxCtrState, FiniteSets

CONSTANTS Senders, Counters, MAX_GROUP_CTR_ENTRIES

ASSUME StoreAssumption ==
  /\ MAX_GROUP_CTR_ENTRIES \in Nat \ {0}
  /\ IsFiniteSet(Senders)
  /\ Counters \subseteq 0..(HALF - 1)

VARIABLES ctr_entries, \* a set of [sender, rx_ctr, last_used]
          clock,
          kept,       \* ghost: the counters kept from a sender since it was added
          heard       \* ghost: when a sender was last heard, 0 if never

storeVars == <<ctr_entries, clock, kept, heard>>

GroupCtrEntry == [sender : Senders, rx_ctr : RxState, last_used : Nat]

StoreInit ==
  /\ ctr_entries = {}
  /\ clock = 0
  /\ kept = [s \in Senders |-> {}]
  /\ heard = [s \in Senders |-> 0]

Of(s) == {e \in ctr_entries : e.sender = s}

Lru == {e \in ctr_entries : \A f \in ctr_entries : e.last_used <= f.last_used}

\* Group messages are always encrypted.
ENCRYPTED == TRUE

\* A bug: hearing a known sender does not count as using its entry.
Renewed_stale(e, c) ==
  [sender |-> e.sender, rx_ctr |-> post_recv(e.rx_ctr, c, ENCRYPTED), last_used |-> e.last_used]

Renewed(e, c) ==
  [sender |-> e.sender, rx_ctr |-> post_recv(e.rx_ctr, c, ENCRYPTED), last_used |-> clock + 1]

\* The entries with a new sender, trusted with its first message.
Stored(s, c) ==
  {(ctr_entries \ evicted) \cup {[sender |-> s, rx_ctr |-> new(c), last_used |-> clock + 1]} :
     evicted \in IF Cardinality(ctr_entries) < MAX_GROUP_CTR_ENTRIES THEN {{}} ELSE {{e} : e \in Lru}}

Heard(s) == heard' = [heard EXCEPT ![s] = clock + 1]

\* A message of a sender the store knows.
post_recv_known(s, c) ==
  \E e \in Of(s) :
    /\ ctr_entries' = (ctr_entries \ {e}) \cup {Renewed(e, c)}
    /\ kept' = IF accepts(e.rx_ctr, c, ENCRYPTED) THEN [kept EXCEPT ![s] = @ \cup {c}] ELSE kept
    /\ clock' = clock + 1
    /\ Heard(s)

\* The first message of a sender, or the first since it was forgotten.
post_recv_new(s, c) ==
  /\ Of(s) = {}
  /\ ctr_entries' \in Stored(s, c)
  /\ kept' = [kept EXCEPT ![s] = {c}]
  /\ clock' = clock + 1
  /\ Heard(s)

StoreNext == \E s \in Senders, c \in Counters : post_recv_known(s, c) \/ post_recv_new(s, c)

StoreSpec == StoreInit /\ [][StoreNext]_storeVars
-----------------------------------------------------------------------------
\* The store (GroupCtrStore) holds at most one entry per sender, within its
\* capacity, and no two entries were last used at the same time.
StoreTypeOK ==
  /\ ctr_entries \subseteq GroupCtrEntry
  /\ Cardinality(ctr_entries) <= MAX_GROUP_CTR_ENTRIES
  /\ \A e, f \in ctr_entries : e.sender = f.sender \/ e.last_used = f.last_used => e = f
  /\ \A e \in ctr_entries : e.last_used <= clock

\* A group message kept from one of the senders heard last, as many as there is
\* room for, is not kept again: the store never forgets a busy sender for rare ones,
\* and its window knows what was kept (GroupCtrStore::post_recv).
RecentAreKeptOnce ==
  \A s \in Senders :
    /\ heard[s] > 0
    /\ Cardinality({t \in Senders : heard[t] >= heard[s]}) <= MAX_GROUP_CTR_ENTRIES
    => \A c \in kept[s] : \E e \in Of(s) : ~accepts(e.rx_ctr, c, ENCRYPTED)
=============================================================================
