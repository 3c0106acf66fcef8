------------------------------- MODULE Dedup --------------------------------
(***************************************************************************)
(* Duplicate detection on one session (transport/dedup.rs as Session uses  *)
(* it): a peer numbers its messages one by one from a random start, the    *)
(* network loses, reorders, delays and duplicates them, and the receiver   *)
(* keeps the ones RxCtrState::post_recv does not call duplicates.          *)
(*                                                                         *)
(* A peer on an unencrypted session may reboot and number its messages     *)
(* from another random start.  The keys of an encrypted session do not     *)
(* survive a reboot.                                                       *)
(***************************************************************************)
EXTENDS RxCtrState

CONSTANTS Starts,      \* the counters a session may start from (28 bits)
          LastCtr      \* the last counter a session lives to use

\* A session starts numbering in the lower half of the counter range and is
\* replaced before it leaves that half, so no two of its counters are further
\* apart than the signed difference can tell.
ASSUME StartsAssumption ==
  LastCtr \in Nat /\ LastCtr < HALF /\ Starts \subseteq 0..LastCtr

VARIABLES rx,          \* Session.rx_ctr_state
          is_encrypted,
          msg_ctr,     \* the peer's Session.msg_ctr
          sent,        \* the counters the peer has used: each may arrive at any
                       \* time, any number of times
          received,    \* ghost: the counters kept since the window last restarted
                       \* downwards
          floor        \* ghost: the counter at which the window was last filled up

rxVars == <<rx, is_encrypted, msg_ctr, sent, received, floor>>

WindowInit ==
  /\ rx = new(0)
  /\ is_encrypted \in BOOLEAN
  /\ msg_ctr \in Starts
  /\ sent = {}
  /\ received = {}
  /\ floor = 0

\* Session::get_msg_ctr at the peer.
get_msg_ctr ==
  /\ msg_ctr <= LastCtr
  /\ sent' = sent \cup {msg_ctr}
  /\ msg_ctr' = msg_ctr + 1
  /\ UNCHANGED <<rx, is_encrypted, received, floor>>

\* Session::post_recv, up to the verdict on the counter.
receive(c) ==
  LET keep    == accepts(rx, c, is_encrypted)
      restart == keep /\ ~InBitmap(rx, c) /\ c < rx.max_ctr
      filled  == restart \/ (keep /\ c >= rx.max_ctr + MSG_RX_STATE_BITMAP_LEN)
  IN  /\ c \in sent
      /\ rx' = post_recv(rx, c, is_encrypted)
      /\ received' = IF restart THEN {c} ELSE IF keep THEN received \cup {c} ELSE received
      /\ floor' = IF filled THEN c ELSE floor
      /\ UNCHANGED <<is_encrypted, msg_ctr, sent>>

\* The peer of an unencrypted session reboots.
reboot ==
  /\ ~is_encrypted
  /\ msg_ctr' \in Starts
  /\ UNCHANGED <<rx, is_encrypted, sent, received, floor>>

WindowNext ==
  \/ get_msg_ctr
  \/ \E c \in sent : receive(c)
  \/ reboot

WindowSpec == WindowInit /\ [][WindowNext]_rxVars
-----------------------------------------------------------------------------
\* Every part of the state has its type (RxCtrState, Session.msg_ctr).
DedupTypeOK ==
  /\ rx \in RxState
  /\ is_encrypted \in BOOLEAN
  /\ msg_ctr \in 0..(LastCtr + 1)
  /\ sent \subseteq 0..LastCtr
  /\ received \subseteq sent
  /\ floor \in 0..LastCtr

\* A message kept once on an encrypted session is never kept again, however
\* late and however often the network repeats it: RxCtrState::post_recv
\* answers false for every counter it has answered true for.
KeptOnce == is_encrypted => \A c \in received : ~accepts(rx, c, TRUE)

\* Within the window, and above the point where the window was last filled up,
\* post_recv tells exactly the kept messages from the others: no message that
\* was overtaken by later ones is mistaken for a duplicate.
WindowExact ==
  \A c \in sent :
    c > floor /\ c >= rx.max_ctr - MSG_RX_STATE_BITMAP_LEN
      => (accepts(rx, c, is_encrypted) <=> c \notin received)
=============================================================================
