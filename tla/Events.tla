------------------------------- MODULE Events -------------------------------
(***************************************************************************)
(* The event queue (rs-matter/src/dm/events.rs): three buffers of N bytes  *)
(* through which events travel by priority, and event numbers that survive *)
(* a restart because one number per epoch is stored ahead of its use.      *)
(*                                                                         *)
(* An event is its number, its priority and its length in bytes.  A push   *)
(* runs under the mutex of the queue and is one action, successful or not. *)
(***************************************************************************)
EXTENDS Integers, Sequences, Functions, FiniteSetsExt

CONSTANTS N,                        \* bytes in each of the three buffers
          EVENT_NUMBER_EPOCH_SIZE

ASSUME EventsAssumption ==
    /\ N \in Nat \ {0}
    /\ EVENT_NUMBER_EPOCH_SIZE \in Nat \ {0, 1}

VARIABLES
    buf_debug, buf_info, buf_critical,
    next_event_number,
    epoch_key,          \* the number stored under EVENT_EPOCH_KEY, 0 for none
    emitted,            \* ghost: the pushes since the queue was last emptied
    last_used           \* ghost: the largest number given out, ever

bufs == <<buf_debug, buf_info, buf_critical>>
queueVars == <<bufs, next_event_number, epoch_key, emitted, last_used>>

Debug == 0
Info == 1
Critical == 2
Priorities == Debug .. Critical

Event == [number : Nat \ {0}, priority : Priorities, len : 1 .. N]

QueueInit ==
    /\ buf_debug = <<>> /\ buf_info = <<>> /\ buf_critical = <<>>
    /\ next_event_number = 1
    /\ epoch_key = 0
    /\ emitted = <<>> /\ last_used = 0

-----------------------------------------------------------------------------
Bytes(buf) == FoldFunction(LAMBDA e, sum : sum + e.len, 0, buf)

From(buf, k) == SubSeq(buf, k + 1, Len(buf))

\* evict_first_event as often as `room` bytes ask for: the number of events.
Evictions(buf, room) ==
    Min({k \in 0 .. Len(buf) : Bytes(From(buf, k)) <= room})

\* Mutant: the comparison with the next buffer is strict.
Promoted_strict(gone, next_buf) == SelectSeq(gone, LAMBDA e : next_buf < e.priority)

\* Of the events evicted from a buffer, those that EventWriter::evict promotes.
Promoted(gone, next_buf) == SelectSeq(gone, LAMBDA e : next_buf <= e.priority)

\* EventWriter::write of `bytes` bytes at the end of the debug buffer, with the
\* evictions and promotions that cascade from it.  Promoting the events one by
\* one, and evicting for each what is in its way, leaves in a buffer the longest
\* end of "what was there, followed by what came" that fits into it.
EventWriter(bytes, event) ==
    LET k_debug == Evictions(buf_debug, N - bytes)
        infos == buf_info \o Promoted(SubSeq(buf_debug, 1, k_debug), Info)
        k_info == Evictions(infos, N)
        criticals == buf_critical \o Promoted(SubSeq(infos, 1, k_info), Critical)
        k_critical == Evictions(criticals, N)
    IN  /\ buf_debug' = From(buf_debug, k_debug) \o event
        /\ buf_info' = From(infos, k_info)
        /\ buf_critical' = From(criticals, k_critical)

\* Mutant: the epoch that begins is stored, not the next one.
take_event_number_late ==
    /\ next_event_number' = next_event_number + 1
    /\ epoch_key' = IF next_event_number % EVENT_NUMBER_EPOCH_SIZE = 0
                    THEN next_event_number ELSE epoch_key
    /\ last_used' = Max({last_used, next_event_number})

\* EventsInner::next_event_number; at the start of an epoch the first number of
\* the next one is stored.
take_event_number ==
    /\ next_event_number' = next_event_number + 1
    /\ epoch_key' =
         IF next_event_number = 1 THEN EVENT_NUMBER_EPOCH_SIZE
         ELSE IF next_event_number % EVENT_NUMBER_EPOCH_SIZE = 0
              THEN next_event_number + EVENT_NUMBER_EPOCH_SIZE
              ELSE epoch_key
    /\ last_used' = Max({last_used, next_event_number})

\* Events::push of an event of len bytes.
push(priority, len) ==
    LET event == [number |-> next_event_number, priority |-> priority, len |-> len]
    IN  /\ take_event_number
        /\ EventWriter(len, <<event>>)
        /\ emitted' = Append(emitted, event)

\* Events::push whose closure fails after some bytes, or whose event turns out
\* larger than the buffer after N bytes: the bytes are taken back (rewind_to),
\* the number and what was evicted are not.
push_fails(bytes) ==
    /\ take_event_number
    /\ EventWriter(bytes, <<>>)
    /\ emitted' = Append(emitted,
                    [number |-> 0, priority |-> Debug, len |-> bytes])

\* A restart, then load_persist: the queue is empty, numbers go on from the
\* stored one.
load_persist ==
    /\ buf_debug' = <<>> /\ buf_info' = <<>> /\ buf_critical' = <<>>
    /\ next_event_number' = IF epoch_key = 0 THEN 1 ELSE epoch_key
    /\ emitted' = <<>>
    /\ UNCHANGED <<epoch_key, last_used>>

\* reset_persist, at a factory reset: numbers begin again.
reset_persist ==
    /\ buf_debug' = <<>> /\ buf_info' = <<>> /\ buf_critical' = <<>>
    /\ next_event_number' = 1 /\ epoch_key' = 0
    /\ emitted' = <<>> /\ last_used' = 0

QueueNext ==
    \/ \E priority \in Priorities, len \in 1 .. N : push(priority, len)
    \/ \E bytes \in 0 .. N : push_fails(bytes)
    \/ load_persist
    \/ reset_persist

QueueSpec == QueueInit /\ [][QueueNext]_queueVars

-----------------------------------------------------------------------------
\* EventsInner::iter: from the critical buffer to the debug one.
iter == buf_critical \o buf_info \o buf_debug

\* The buffers hold events, never more than N bytes of them (EventsBuf).
QueueTypeOK ==
    /\ \A buf \in {buf_debug, buf_info, buf_critical} :
         buf \in Seq(Event) /\ Bytes(buf) <= N
    /\ next_event_number \in Nat \ {0}
    /\ epoch_key \in Nat /\ last_used \in Nat

\* EventReader takes the number of the event it read last for a watermark and
\* skips every event at or below it, so EventsInner::iter must yield events in
\* the order of their numbers, wherever promotion has carried them.
InNumberOrder ==
    \A i, j \in DOMAIN iter : i < j => iter[i].number < iter[j].number

\* "so that we can continue emitting events without reusing event numbers"
\* (Events::load_persist): the next number is above all numbers given out
\* before, however often the node restarts and pushes fail.
NumbersAreFresh == last_used < next_event_number

\* What follows speaks of `emitted` alone, not of the buffers: which events must
\* have left each buffer, after these pushes in this order.
PushedEvents == {i \in DOMAIN emitted : emitted[i].number # 0}

OfPriority(I, least) == {i \in I : emitted[i].priority >= least}

Size(I) == MapThenSumSet(LAMBDA i : emitted[i].len, I)

\* Some later write, of an event or of a push that failed, found no room beside
\* the event and the ones after it.
LeftDebug ==
    {i \in PushedEvents : \E j \in i + 1 .. Len(emitted) :
        Size({k \in PushedEvents : i <= k /\ k < j}) + emitted[j].len > N}

\* Of the events that arrived in a buffer, in the order of their numbers, those
\* that no longer fit into it together with the ones that arrived later.
CrowdedOut(I) == {i \in I : Size({k \in I : i <= k}) > N}

LeftInfo == CrowdedOut(OfPriority(LeftDebug, Info))
LeftCritical == CrowdedOut(OfPriority(LeftInfo, Critical))

\* Gone from the last buffer that is open to its priority.
Lost ==
    {i \in LeftDebug : \/ emitted[i].priority = Debug
                       \/ emitted[i].priority = Info /\ i \in LeftInfo
                       \/ i \in LeftCritical}

\* "critical events get to live in any of the buffers, making their way through
\* all three until they finally age out. Info lives in one of the first two, and
\* debug only in the first" (EventsInner).  Exactly: an event is in the queue until
\* it has left the last buffer that its priority opens to it, and it leaves that
\* one when it and the later events of its priority or a higher one that have come
\* there take more than N bytes.  Unimportant events alone therefore drive no
\* important one out, however many they are; but a push of any priority, failed ones
\* included, may be what moves the important ones on, and so what costs the oldest
\* its place, as the comment on EventsInner admits.
AgesOutInItsLastBuffer == Range(iter) = {emitted[i] : i \in PushedEvents \ Lost}
=============================================================================
