-------------------------------- MODULE MCMrp -------------------------------
(***************************************************************************)
(* Mrp for a conversation of a few messages.  LastCtr bounds the counters  *)
(* a node uses, which bounds the standalone acknowledgements it sends; a   *)
(* window of two is passed when a message is overtaken.                    *)
(***************************************************************************)
EXTENDS Mrp

MCStart == [n \in Node |-> 1]

\* The executor polls every task: a task that can go on does, a conversation
\* that is over is dropped, and the transport looks after its buffers.
FairSpec ==
  /\ Spec
  /\ \A n \in Node :
       /\ WF_vars(Owner(n) /\ Bounded)
       /\ WF_vars(drop_exchange(n) /\ task[n].at = "done")
       /\ WF_vars(Housekeeping(n) /\ Bounded)

\* Sending a reliable message ends, acknowledged or not: the retransmissions of
\* ReliableMessage::pre_send run out.
SendingEnds ==
  \A n \in Node : task[n].at = "sent" ~> task[n].at # "sent"

\* The RX buffer of the transport is always given back, whatever becomes of the
\* exchange its packet was for.
RxBufferIsFreed ==
  \A n \in Node : rx[n] # None ~> rx[n] = None
=============================================================================
