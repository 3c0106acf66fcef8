----------------------------- MODULE ReportData -----------------------------
(***************************************************************************)
(* Reports in chunks: ReportDataResponder of rs-matter/src/dm.rs with the  *)
(* HandlerInvoker and EventReader of rs-matter/src/dm/types/reply.rs, for  *)
(* a read or for one subscription, over the event queue of Events.         *)
(*                                                                         *)
(* A chunk is filled item by item, in bytes; where the next item does not  *)
(* fit it is sent, and the peer's status awaited.  Attribute handlers are  *)
(* asynchronous, so other tasks run between two items as well as between   *)
(* two chunks: they push events, and change the list attribute.            *)
(***************************************************************************)
EXTENDS Events, SequencesExt

CONSTANTS Room,        \* bytes of a chunk, less LONG_READS_TLV_RESERVE_SIZE
          ReplyHead,   \* bytes written by start_reply
          ReadRequests, \* requests, as records of attrs, statuses and events
          Wanted,      \* priorities of the events that a request's paths, filters
                       \* and access rights select
          ListIB,      \* bytes of an AttributeDataIB that holds an empty list
          ItemLen,     \* bytes of a list item
          InitialList  \* what the list holds at first

\* A request, expanded: the lengths of its attributes in order (0 stands for the
\* list attribute), those of the statuses of its wrong event paths, and whether
\* it has event paths at all.
Request == [attrs : Seq(Nat), statuses : Seq(Nat \ {0}), events : BOOLEAN]

\* Bytes of an array's start (control byte and context tag) and of a container's end.
ArrayStart == 2
ContainerEnd == 1

\* Every single item fits into an empty chunk, or report_attributes would retry it
\* for ever.
ASSUME ReportAssumption ==
    /\ ReadRequests \subseteq Request /\ Wanted \subseteq Priorities
    /\ ReplyHead \in Nat /\ ListIB \in Nat \ {0} /\ ItemLen \in Nat \ {0}
    /\ ReplyHead + ArrayStart + ListIB + ItemLen <= Room
    /\ ReplyHead + ArrayStart + N <= Room
    /\ \A r \in ReadRequests :
         \A len \in ToSet(r.attrs) \cup ToSet(r.statuses) : ReplyHead + ArrayStart + len <= Room

VARIABLES
    resp,           \* the responder: where it is, its request, its buffer, its reader
    outcome,        \* how the last report ended
    max_seen,       \* max_seen_event_number of the subscription
    sub_req,        \* the request of the subscription
    list, dataver,  \* the list attribute, the data version of its cluster
    items_sent,     \* ghost: the items of the report sent so far
    told            \* ghost: event numbers sent on the subscription

reportVars == <<resp, outcome, max_seen, sub_req, list, dataver, items_sent, told>>

Whole == "whole"  \* an attribute reported as one item
Empty == "empty"  \* the empty list that precedes single items
Item == "item"    \* a list item
Status == "status"
EventIB == "event"

IB(what, n, len) == [what |-> what, n |-> n, ver |-> dataver, len |-> len]

NoRequest == [attrs |-> <<>>, statuses |-> <<>>, events |-> FALSE]

Resting == [at |-> "idle", waiting |-> FALSE, req |-> NoRequest, sub |-> FALSE,
            next |-> 1, list_index |-> 0, tail |-> 0, wb |-> <<>>,
            max_seen |-> 0, next_max_seen |-> 0]

At(place) == resp.at = place /\ ~resp.waiting

ReportInit ==
    /\ resp = Resting /\ outcome = "none" /\ max_seen = 0 /\ sub_req \in ReadRequests
    /\ list = InitialList /\ dataver = 0
    /\ items_sent = <<>> /\ told = <<>>

-----------------------------------------------------------------------------
Fits(len) == resp.tail + len <= Room

\* An item goes into the buffer and the responder on to `then`.
Written(ib, then) ==
    [then EXCEPT !.tail = @ + ib.len, !.wb = Append(@, ib)]

\* Mutant: the item that did not fit is not tried again.
send_chunk_skips ==
    /\ resp' = [resp EXCEPT !.waiting = TRUE, !.next = @ + 1]
    /\ items_sent' = items_sent \o resp.wb

\* ReportDataResponder::send and the wait for the status.  A chunk that is not the
\* last leaves the responder where it is, with the same item to write.
send_chunk ==
    /\ resp' = [resp EXCEPT !.waiting = TRUE]
    /\ items_sent' = items_sent \o resp.wb

\* The report ends without success, and with it the subscription.
fail(how) ==
    /\ resp' = Resting /\ outcome' = how /\ items_sent' = <<>>
    /\ max_seen' = IF resp.sub THEN 0 ELSE max_seen
    /\ told' = IF resp.sub THEN <<>> ELSE told

\* DataModel::read, or report_data on a subscription, with the subscription's
\* event watermarks; start_reply and the start of the first array.
respond(req, sub) ==
    /\ resp.at = "idle" /\ (sub => req = sub_req)
    /\ resp' = [Resting EXCEPT
         !.at = "attributes", !.req = req, !.sub = sub,
         !.tail = ReplyHead + (IF req.attrs = <<>> THEN 0 ELSE ArrayStart),
         !.max_seen = IF sub THEN max_seen ELSE 0,
         !.next_max_seen = IF sub THEN next_event_number - 1 ELSE 0]
    /\ outcome' = "none" /\ items_sent' = <<>>
    /\ UNCHANGED <<max_seen, sub_req, list, dataver, told>>

InAttributes == At("attributes") /\ resp.next <= Len(resp.req.attrs)

AttrLen ==
    LET len == resp.req.attrs[resp.next]
    IN  IF len = 0 THEN ListIB + Len(list) * ItemLen ELSE len

\* report_attributes: the next attribute fits, or is a list and is sent item by
\* item, or the chunk is sent first.
report_attribute ==
    /\ InAttributes
    /\ \/ /\ Fits(AttrLen)
          /\ resp' = Written(IB(Whole, resp.next, AttrLen), [resp EXCEPT !.next = @ + 1])
          /\ UNCHANGED items_sent
       \/ /\ ~Fits(AttrLen) /\ resp.req.attrs[resp.next] = 0
          /\ resp' = [resp EXCEPT !.at = "empty_list"]
          /\ UNCHANGED items_sent
       \/ /\ ~Fits(AttrLen) /\ resp.req.attrs[resp.next] # 0
          /\ send_chunk
    /\ UNCHANGED <<outcome, max_seen, sub_req, list, dataver, told>>

\* send_array_items: the empty list first.
send_empty_list ==
    /\ At("empty_list")
    /\ \/ /\ Fits(ListIB)
          /\ resp' = Written(IB(Empty, resp.next, ListIB),
                             [resp EXCEPT !.at = "list", !.list_index = 1])
          /\ UNCHANGED items_sent
       \/ ~Fits(ListIB) /\ send_chunk
    /\ UNCHANGED <<outcome, max_seen, sub_req, list, dataver, told>>

\* send_array_items: the item at list_index as the list is now, until the handler
\* answers ConstraintError.
send_array_item ==
    /\ At("list")
    /\ \/ /\ resp.list_index > Len(list)
          /\ resp' = [resp EXCEPT !.at = "attributes", !.next = @ + 1]
          /\ UNCHANGED items_sent
       \/ /\ resp.list_index <= Len(list) /\ Fits(ListIB + ItemLen)
          /\ resp' = Written(IB(Item, list[resp.list_index], ListIB + ItemLen),
                             [resp EXCEPT !.list_index = @ + 1])
          /\ UNCHANGED items_sent
       \/ /\ resp.list_index <= Len(list) /\ ~Fits(ListIB + ItemLen)
          /\ send_chunk
    /\ UNCHANGED <<outcome, max_seen, sub_req, list, dataver, told>>

\* What report_attributes and report_events write between the arrays.
Between ==
    (IF resp.req.attrs = <<>> THEN 0 ELSE ContainerEnd) +
    (IF resp.req.events THEN ArrayStart ELSE 0)

\* The end of report_attributes and the start of report_events: the array is
\* closed, and the next one opened, in what room there is outside the reserve.
end_attributes ==
    /\ At("attributes") /\ resp.next > Len(resp.req.attrs)
    /\ \/ /\ Fits(Between)
          /\ resp' = [resp EXCEPT !.tail = @ + Between, !.next = 1,
                                  !.at = IF resp.req.events THEN "statuses" ELSE "done"]
          /\ UNCHANGED <<outcome, max_seen, items_sent, told>>
       \/ ~Fits(Between) /\ fail("no_space")
    /\ UNCHANGED <<sub_req, list, dataver>>

\* report_events: the status of a concrete path that names nothing.
report_status ==
    /\ At("statuses")
    /\ \/ /\ resp.next > Len(resp.req.statuses)
          /\ resp' = [resp EXCEPT !.at = "events"]
          /\ UNCHANGED items_sent
       \/ /\ resp.next <= Len(resp.req.statuses)
          /\ LET len == resp.req.statuses[resp.next]
             IN  \/ /\ Fits(len)
                    /\ resp' = Written(IB(Status, resp.next, len), [resp EXCEPT !.next = @ + 1])
                    /\ UNCHANGED items_sent
                 \/ ~Fits(len) /\ send_chunk
    /\ UNCHANGED <<outcome, max_seen, sub_req, list, dataver, told>>

\* The range of a read is open, that of a subscription ends at its next watermark.
InRange(r, e) == e.number > r.max_seen /\ (r.sub => e.number <= r.next_max_seen)

\* Mutant: the watermark moves past an event that did not fit.
process_read_skips(r, e) ==
    IF r.full \/ ~InRange(r, e) THEN r
    ELSE IF e.priority \notin Wanted THEN [r EXCEPT !.max_seen = e.number]
    ELSE IF r.tail + e.len > Room THEN [r EXCEPT !.full = TRUE, !.max_seen = e.number]
    ELSE [r EXCEPT !.max_seen = e.number, !.tail = @ + e.len,
                   !.wb = Append(@, IB(EventIB, e.number, e.len))]

\* EventReader::process_read of one event: outside the range, not selected, no
\* space (and then no further event is looked at), or written.
process_read(r, e) ==
    IF r.full \/ ~InRange(r, e) THEN r
    ELSE IF e.priority \notin Wanted THEN [r EXCEPT !.max_seen = e.number]
    ELSE IF r.tail + e.len > Room THEN [r EXCEPT !.full = TRUE]
    ELSE [r EXCEPT !.max_seen = e.number, !.tail = @ + e.len,
                   !.wb = Append(@, IB(EventIB, e.number, e.len))]

\* The reader after one Events::fetch, which holds the lock of the queue.
Fetched ==
    FoldLeft(process_read,
             [full |-> FALSE, sub |-> resp.sub, tail |-> resp.tail, wb |-> resp.wb,
              max_seen |-> resp.max_seen, next_max_seen |-> resp.next_max_seen],
             iter)

\* report_events: what fits of the events in range; then the next chunk, or the
\* end of the array.
report_events ==
    LET read == [resp EXCEPT !.tail = Fetched.tail, !.wb = Fetched.wb,
                             !.max_seen = Fetched.max_seen]
    IN  /\ At("events")
        /\ \/ /\ Fetched.full
              /\ resp' = [read EXCEPT !.waiting = TRUE] /\ items_sent' = items_sent \o Fetched.wb
              /\ UNCHANGED <<outcome, max_seen, told>>
           \/ /\ ~Fetched.full /\ Fetched.tail + ContainerEnd <= Room
              /\ resp' = [read EXCEPT !.at = "done", !.tail = @ + ContainerEnd]
              /\ UNCHANGED <<items_sent, outcome, max_seen, told>>
           \/ /\ ~Fetched.full /\ Fetched.tail + ContainerEnd > Room
              /\ fail("no_space")
        /\ UNCHANGED <<sub_req, list, dataver>>

EventNumbers(ibs) ==
    LET events == SelectSeq(ibs, LAMBDA ib : ib.what = EventIB)
    IN  [i \in DOMAIN events |-> events[i].n]

\* The report is complete and sent; ReportContext::set_keep moves the watermark of
\* the subscription.
succeed(items) ==
    /\ resp' = Resting /\ outcome' = "success" /\ items_sent' = <<>>
    /\ max_seen' = IF resp.sub THEN resp.next_max_seen ELSE max_seen
    /\ told' = IF resp.sub THEN told \o EventNumbers(items) ELSE told

\* respond: the last chunk.  An empty report of a subscription need not be sent;
\* the answer to a read wants no status.
send_last ==
    /\ At("done")
    /\ \/ /\ resp.sub /\ send_chunk
          /\ UNCHANGED <<outcome, max_seen, told>>
       \/ /\ ~resp.sub \/ (items_sent = <<>> /\ resp.wb = <<>>)
          /\ succeed(items_sent \o resp.wb)
    /\ UNCHANGED <<sub_req, list, dataver>>

\* recv_status_success: the peer agrees; start_reply and the start of the array.
status_success ==
    /\ resp.waiting
    /\ \/ /\ resp.at # "done"
          /\ resp' = [resp EXCEPT !.waiting = FALSE, !.tail = ReplyHead + ArrayStart, !.wb = <<>>]
          /\ UNCHANGED <<outcome, max_seen, items_sent, told>>
       \/ /\ resp.at = "done"
          /\ succeed(items_sent)
    /\ UNCHANGED <<sub_req, list, dataver>>

\* recv_status_success: the peer answers with another status, or nothing arrives
\* before the timeout of Exchange::recv.
no_success ==
    /\ resp.waiting
    /\ fail("aborted")
    /\ UNCHANGED <<sub_req, list, dataver>>

Responder ==
    \/ report_attribute \/ send_empty_list \/ send_array_item
    \/ end_attributes \/ report_status \/ report_events \/ send_last

-----------------------------------------------------------------------------
\* Mutant: the change of the list is not told to the data model.
set_list_quietly(new) ==
    /\ list' = new
    /\ UNCHANGED <<resp, outcome, max_seen, sub_req, dataver, items_sent, told>>

\* A handler changes the list; notify_attr_changed bumps the data version.
set_list(new) ==
    /\ list' = new
    /\ dataver' = dataver + 1
    /\ UNCHANGED <<resp, outcome, max_seen, sub_req, items_sent, told>>

\* The client adds an item or removes one.
change_list ==
    /\ \/ set_list(Append(list, dataver + 1))
       \/ \E i \in DOMAIN list : set_list(RemoveAt(list, i))

ReportStep ==
    \/ \E req \in ReadRequests, sub \in BOOLEAN : respond(req, sub)
    \/ Responder \/ status_success \/ no_success \/ change_list

ReportNext ==
    \/ ReportStep /\ UNCHANGED queueVars
    \/ /\ \/ \E priority \in Priorities, len \in 1 .. N : push(priority, len)
          \/ \E bytes \in 0 .. N : push_fails(bytes)
       /\ UNCHANGED reportVars

-----------------------------------------------------------------------------
\* The responder, its buffer and its reader keep their types; the buffer is never
\* overrun (ReportDataResponder, WriteBuf).
ReportTypeOK ==
    /\ resp.at \in {"idle", "attributes", "empty_list", "list", "statuses", "events", "done"}
    /\ resp.tail \in 0 .. Room
    /\ outcome \in {"none", "success", "aborted", "no_space"}
    /\ max_seen < next_event_number

\* The items of the report under way, those in the buffer included.
Items == IF resp.waiting THEN items_sent ELSE items_sent \o resp.wb

Once(kinds, n) ==
    LET ibs == SelectSeq(Items, LAMBDA ib : ib.what \in kinds)
    IN  Len(ibs) = n /\ \A i \in 1 .. n : ibs[i].n = i

Attributes == {Whole, Empty}
ToTheEnd == {"statuses", "events", "done"}

\* However the items fall into chunks, whatever is tried again after NoSpace and
\* whatever changes meanwhile, the report has every attribute and every status
\* once and in the order of the request, up to where the responder stands
\* (report_attributes, send_array_items, report_events).
ItemsOnceInOrder ==
    /\ resp.at \in {"attributes", "empty_list"} => Once(Attributes, resp.next - 1)
    /\ resp.at = "list" => Once(Attributes, resp.next)
    /\ resp.at \in ToTheEnd => Once(Attributes, Len(resp.req.attrs))
    /\ resp.at = "statuses" => Once({Status}, resp.next - 1)
    /\ resp.at \in {"events", "done"} => Once({Status}, Len(resp.req.statuses))

\* A list sent item by item over several chunks is the list, unless it changed since
\* its first part was read, and then its data version tells (send_array_items).
ListIsExactUnlessChanged ==
    LET ibs == SelectSeq(Items, LAMBDA ib : ib.what \in {Empty, Item})
    IN  resp.at \in {"attributes"} \cup ToTheEnd /\ ibs # <<>> /\ ibs[1].ver = dataver
          => Tail([i \in DOMAIN ibs |-> ibs[i].n]) = list

Ascending(s) == \A i, j \in DOMAIN s : i < j => s[i] < s[j]

\* `passed`: no event up to this number will be looked at again.
ToldInOrder(numbers, passed) ==
    /\ Ascending(numbers)
    /\ \A e \in ToSet(iter) :
         e.number <= passed /\ e.priority \in Wanted => e.number \in ToSet(numbers)

\* An event that a read or the reports of a subscription have passed, and that is
\* still in the queue, was sent, once and in order: nothing is lost or repeated
\* where a chunk ends while events are pushed, promoted and evicted
\* (EventReader::process_read, report_events, Subscriptions::report_complete).
EventsAreToldOnce ==
    /\ resp.at # "idle" /\ ~resp.sub /\ resp.req.events
         => ToldInOrder(EventNumbers(Items), resp.max_seen)
    /\ sub_req.events =>
         IF resp.at # "idle" /\ resp.sub
         THEN ToldInOrder(told \o EventNumbers(Items), resp.max_seen)
         ELSE ToldInOrder(told, max_seen)
=============================================================================
