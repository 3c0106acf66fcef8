------------------------------- MODULE MCParts -------------------------------
(***************************************************************************)
(* Parts of a node that share no state: a behaviour is about one of them,  *)
(* its focus.                                                              *)
(*                                                                         *)
(*  - unicast: the counter window of a session, a few bits over a few      *)
(*    consecutive counters;                                                *)
(*  - groupcast: the counter windows of group senders, of whom there is    *)
(*    one more than the store has room for; MaxClock bounds their messages;*)
(*  - bluetooth: a BTP connection with windows of two or three segments,   *)
(*    as many as make up the longest message, over four sequence numbers;  *)
(*  - changes: the table of changed attributes, with room for two of the   *)
(*    MaxChanges changes to a data model of two by two by two attributes;  *)
(*  - events: the event queue, with buffers of two bytes, MaxPushes pushes *)
(*    between restarts and three numbers to an epoch, up to MaxNumber;     *)
(*  - reports: reads and the reports of a subscription, of a list that is  *)
(*    changed once and too long for a chunk when it is, while up to        *)
(*    MaxReported events are pushed;                                       *)
(*  - requests: a request of MCExpansion.                                  *)
(***************************************************************************)
EXTENDS Dedup, GroupCtrStore, Btp, ChangedAttrs, ReportData, MCExpansion

CONSTANTS s1, s2, s3, MaxClock, MaxMessages, MaxChanges, MaxPushes, MaxNumber, MaxReported
VARIABLE focus

MCStarts == {0, 4}

MCSenders == {s1, s2, s3}

MCCounters == 1..5

MCRequests == {[gatt_mtu |-> 23, mtu |-> 30, window_size |-> 5],
               [gatt_mtu |-> 30, mtu |-> 30, window_size |-> 5]}

MCReadRequests ==
    {[attrs |-> <<3, 0, 2>>, statuses |-> <<>>, events |-> TRUE],
     [attrs |-> <<>>, statuses |-> <<3, 4>>, events |-> TRUE],
     [attrs |-> <<4>>, statuses |-> <<>>, events |-> FALSE]}

MCList == <<11, 12, 13>>

MCInit ==
    /\ WindowInit /\ StoreInit /\ BtpInit /\ TableInit /\ QueueInit /\ ReportInit /\ RequestsInit
    /\ focus \in {"unicast", "groupcast", "bluetooth", "changes", "events", "reports", "requests"}
    /\ focus # "unicast" => is_encrypted /\ msg_ctr = 0
    /\ focus # "reports" => sub_req = CHOOSE r \in ReadRequests : TRUE
    /\ focus # "requests" => /\ request = (CHOOSE r \in RequestsMade : TRUE).request
                             /\ accessor = Administrator /\ Len(endpoints) = 2

Unicast ==
    /\ focus = "unicast" /\ WindowNext
    /\ UNCHANGED <<storeVars, btpVars, tableVars, queueVars, reportVars, requestVars>>

Groupcast ==
    /\ focus = "groupcast" /\ clock < MaxClock /\ StoreNext
    /\ UNCHANGED <<rxVars, btpVars, tableVars, queueVars, reportVars, requestVars>>

\* At most MaxMessages messages per connection, one of them from the central.
Bluetooth ==
    /\ focus = "bluetooth" /\ BtpNext /\ handed'[Node] + handed'[Central] <= MaxMessages /\ handed'[Central] <= 1
    /\ UNCHANGED <<rxVars, storeVars, tableVars, queueVars, reportVars, requestVars>>

Changes ==
    /\ focus = "changes"
    /\ \/ next_change_id <= MaxChanges /\ notify_changed
       \/ \E t \in 0 .. watermark : purge_up_to(t)
       \/ clear
    /\ UNCHANGED <<rxVars, storeVars, btpVars, queueVars, reportVars, requestVars>>

Queue ==
    /\ focus = "events" /\ QueueNext
    /\ Len(emitted') <= MaxPushes /\ next_event_number' <= MaxNumber
    /\ UNCHANGED <<rxVars, storeVars, btpVars, tableVars, reportVars, requestVars>>

Reports ==
    /\ focus = "reports"
    /\ \/ ReportStep /\ dataver' <= 1 /\ UNCHANGED queueVars
       \/ /\ Len(emitted) < MaxReported
          /\ \E priority \in {Debug, Critical}, len \in 1 .. N : push(priority, len)
          /\ UNCHANGED reportVars
    /\ UNCHANGED <<rxVars, storeVars, btpVars, tableVars, requestVars>>

Requested ==
    /\ focus = "requests" /\ RequestsNext
    /\ UNCHANGED <<rxVars, storeVars, btpVars, tableVars, queueVars, reportVars>>

MCNext == (Unicast \/ Groupcast \/ Bluetooth \/ Changes \/ Queue \/ Reports \/ Requested) /\ UNCHANGED focus

MCSpec == MCInit /\ [][MCNext]_<<rxVars, storeVars, btpVars, tableVars, queueVars, reportVars, requestVars, focus>>
-----------------------------------------------------------------------------
\* Every part is well formed: the counter windows, the store of group senders, the
\* windows and buffers of BTP (whose u8 levels pass neither zero nor the window),
\* the table of changes, in which no entry covers another and which keeps to its
\* capacity, the event queue, which is in number order, the reports, no chunk of
\* which is longer than there is room for, and access control within its limits.
PartsWellFormed ==
    /\ DedupTypeOK /\ StoreTypeOK /\ BtpTypeOK
    /\ TableTypeOK /\ NoRedundantEntry /\ WithinCapacity
    /\ QueueTypeOK /\ InNumberOrder /\ ReportTypeOK /\ AclTypeOK
=============================================================================
