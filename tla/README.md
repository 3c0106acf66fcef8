# A TLA+ model of rs-matter

rs-matter is an implementation of the Matter smart-home protocol in `no_std`
async Rust. This directory holds TLA+ modules for the parts of it that keep
state and run concurrently, TLC configurations that check them on small
instances, and TLAPS proofs of the central results for every instance.
`PROJECT.json` maps every definition to the lines it models, and lists the
hazards of the code and the properties that cover them.

## The system

A node is one executor with a handful of tasks. They interleave only where they
`await`; state shared between tasks sits in a `Mutex<RefCell<..>>` and is used
inside one synchronous closure. An action of a module is therefore one locked
section of the code, with everything it calls.

| layer | source (`rs-matter/src`) | what it does |
|---|---|---|
| Network | `transport/network/` | UDP and TCP sockets, mDNS, and BTP: messages over Bluetooth GATT, cut into segments under a window in each direction |
| Sessions | `transport/session.rs`, `dedup.rs` | encrypted channels; message counters and the window that recognises duplicates; group senders have a store of their own |
| Exchanges, MRP | `transport/exchange.rs`, `mrp.rs`, `transport.rs` | conversations on a session, retransmission and acknowledgement, one RX and one TX buffer for the node |
| Secure channel | `sc/` | PASE (pairing with a passcode under a commissioning window) and CASE (operational sessions) |
| Fabrics, fail-safe | `fabric.rs`, `failsafe.rs`, `persist.rs` | memberships of the node; a transaction over them that is committed by CommissioningComplete or rolled back by a timer; the key-value store |
| Interaction model | `dm.rs`, `im/` | read, write, invoke, subscribe, in chunks |
| Subscriptions | `dm/subscriptions.rs` | who wants to know what; the table of recent changes; the reporter task |
| Events | `dm/events.rs` | numbered, in queues by priority |
| Clusters | `dm/clusters/` | the handlers, among them those that administer the node |
| Client | `commissioner.rs`, `im/client.rs` | the other side of commissioning |
| Data | `tlv/`, `cert/`, `crypto/`, `pairing/`, `utils/` | encodings, bindings, containers |
| Build | `rs-matter-codegen`, `rs-matter-macros` | code generated from the cluster definitions |

The layers meet in several places the models care about: a message that MRP
delivers must first pass the counter window; a handshake reserves a place in the
session table that it fills in at its end; a report of a subscription reads the
table of changes and the event queue that handlers write; a request is expanded
against endpoints, access rights and groups that it may itself change; and the
commands of the administration clusters change fabrics, fail-safe, sessions,
networks and store together.

## The modules

| module | models | extends |
|---|---|---|
| `ChangedAttrs` | the table of changed attributes: record, refresh, absorb, promote to wildcards, purge | |
| `Subscriptions` | accepting, priming, reporting, cancelling, removing and expiring subscriptions; the reporter task and the responders | `ChangedAttrs` |
| `Events` | the event queue: three buffers with eviction and promotion, event numbers by stored epochs | |
| `ReportData` | reports in chunks, for a read or a subscription: attributes, lists item by item, statuses, events | `Events` |
| `Acl` | access control entries and decisions, groups, and the writes to both | |
| `PathExpander` | the expansion of read, write and invoke paths with its cursors, and the loop that hands the results to handlers | `Acl` |
| `RxCtrState` | `RxCtrState::post_recv`, with the width of a counter and of the window as constants | |
| `Dedup` | the window of one session under a peer and a network that loses, repeats and reorders | `RxCtrState` |
| `GroupCtrStore` | the windows of group senders with trust-first and eviction | `RxCtrState` |
| `Mrp` | two nodes and one exchange: retransmission, acknowledgement, duplicates, the RX buffer, dropped exchanges, lost sessions | `RxCtrState` |
| `Dialogue` | what an exchange promises its two users, abstractly | |
| `Sessions` | the session table with its exchanges and tasks: opening, accepting, eviction, reservation by CASE and PASE, removal with a fabric | |
| `Btp` | handshake, windows, segmentation, reassembly, acknowledgements and reset of a BTP connection | |
| `Fabrics`, `FailSafe`, `Pase` | the fabric table and its store; the fail-safe context; the commissioning window with competing handshakes | |
| `Commissioning` | the commands of the administration clusters over the three, sessions, timeouts and restarts | `FailSafe`, `Pase` |
| `OnOff`, `LevelControl` | the two coupled application clusters, each with a task and a signal with room for one | |
| `Wireless` | the configured networks, their store, and the manager task that keeps the node connected | |
| `MCSubscriptions`, `MCMrp`, `MCCommissioning` | bounds, symmetry and fairness for TLC | the module named; `MCCommissioning` also `Sessions` |
| `MCParts` | seven parts that share no state, for TLC | `Dedup`, `GroupCtrStore`, `Btp`, `ChangedAttrs`, `ReportData`, `MCExpansion` |
| `MCExpansion` | the data model and the requests of `MCParts` | `PathExpander` |
| `MCProgress` | three parts with tasks that must get somewhere, for TLC | `MCSubscriptions`, `LevelControl`, `Wireless` |
| `Vec` | `Vec::remove` and `Vec::insert` | |
| `SubscriptionsProofs` | theorems about the table of changes and the subscriptions | `Subscriptions` |
| `StoreProofs` | theorems about event numbers, configured networks, the counter window and the group counter store | `Events`, `Wireless`, `Dedup`, `GroupCtrStore` |
| `BtpProofs` | theorems about the windows of a BTP connection | `Btp` |
| `MrpSteps`, `MrpProofs` | the invariant of MRP and the steps that keep it; the theorems | `Mrp` |
| `SessionStrokes`, `SessionsProofs` | what each change to the session table keeps; the invariant and the theorems | `Sessions` |
| `ClusterProofs` | theorems about commissioning and the light | `Commissioning`, `LevelControl` |

Names follow the code: `record_raw`, `report_complete`, `handle_add_noc` are the
functions of those names. Names with a capital are helpers and properties. A
definition with a suffix and the comment "Mutant" is a plausible wrong version of
the one after it; no specification uses it. Variables commented as ghost record
history for the properties and never guard an action.

### Changed attributes and subscriptions

`entries` is the Vec of `ChangedAttrs`, as a set: its order only breaks ties.
`last_change` and `forgotten` (ghosts) say what a reader is entitled to find.
`Subscriptions` adds `subs` (the table), `count`, the slot `reporting` with its
flag `cancelled`, and `ctxs`, the `ReportContext`s of reports under way. A report
is several steps, so changes, removals and other reports fall between its reads:
`subscribe` or `report` makes the context, `report_attribute` reads one
attribute, `report_success` and `report_failure` end it with `report_complete`.
`wake`, `report` and `purge_reported_changes` are the reporter's cycle.
Time is a clock that ticks at will.

### Events and reports

An event is its number, its priority and its length. `push` is one action,
successful or not (`push_fails`): it writes to the debug buffer, carries what it
evicts there on to the info and critical buffers by priority, and stores the next
epoch before a number of it is used. `load_persist` is a restart, `reset_persist`
a factory reset. What the queue must hold is defined a second time, from the
sequence of pushes alone (`Lost`), and the two are compared. The comparison says what
the tiers promise and what they do not: an event gives way only to later ones of its
buffer's priority or a higher one, but a push of any priority may be what moves those
up, so that a debug event can cost a critical one its place, as the comment on
`EventsInner` grants (events.rs:205). `ReportData` fills a chunk item by item, in bytes
(`resp`); where an item does not fit the chunk is sent and the item tried again.
Between two items another task may push an event or change the list attribute,
as handlers are asynchronous. A subscription's `max_seen` moves when its report
completes.

### Requests

`next` of `PathExpander` is one call of `PathExpander::next` under the metadata
lock: it resumes at the endpoint whose id it remembers (`cursor`), scans on, checks
access and answers one path or one status. `process` is the handler of what it
answered, `no_space` the end of a reply that is full. Between two calls endpoints
come and go, access control is written and groups change, also by the request
itself. Bits of `Access` and `Privilege` are sets.

### Counters

The window is `[max_ctr, ctr_bitmap]`, the bitmap a set of bit numbers. The
signed difference of two unsigned counters is computed modulo `2 * HALF`
(`idiff`), as the casts to `i32` do. The wrap itself is not reached: a session is
assumed to end in the lower half of the range (`StartsAssumption`). A peer that restarts begins again anywhere.

### MRP

Message `i` of a conversation of `M` is said by A when `i` is odd and by B when
it is even. `net` only grows, so a packet may arrive late, again, or never.
`task` is where the owner of the exchange stands in its program: the transmission
loop of `Sender::tx`, a `recv`, or the end. The transport's own steps are
`Arrives` with its cases (duplicate, known exchange, new exchange), and the
housekeeping: accept timeout, orphaned packet, dropped exchange. Backoff is
abstracted: a retransmission may come at any time. A task gives the RX buffer back in
the step in which it takes the message; how long a handler keeps it between
`recv_fetch` and `rx_done` is left out. `remove` is the loss of a
session for reasons outside the conversation.

`Mrp` implements `Dialogue` when `heard` is taken to be the last message heard:
every message is heard at most once and in turn. That whoever goes on was heard
(`DoneMeansDelivered`) has an exception, `Overtaken`: a window that jumps ahead
marks all it jumps over as received, and so the peer acknowledges as a duplicate a
message that it has never seen. In a conversation that takes turns this needs a
message that arrives after a later one with the window in between. A sender whose
retransmissions have run out goes on too, heard or not (`gave_up`).

### Session table

`table` holds the sessions by unique id with their exchanges, `tasks` the live
`Exchange` objects with the handshake that runs on each, `rx_for` the exchange that
the packet in the one RX buffer is for. A handshake reserves a session, chooses its
id, looks its fabric up and fills the session in at its end, in separate steps.
`SessionsOfFabrics` leaves out the indices of fabrics that the fail-safe has rolled
back, as `FailSafe::expire` removes PASE sessions only.
What is said on an exchange is `Mrp`'s subject. Time is left out: the least
recently used idle session is any of them.

### BTP

Both ends run the data path of the code; the central's handshake, which nothing
in the repository performs, is marked external. GATT delivers in order. A message
is a number with a length, and a segment knows which message its bytes come from,
so reassembly from two messages is seen. Timers are the assumption that they
exceed the time GATT takes (`Quiet`). A failed assertion sets `panicked`.

### Commissioning

`fabrics` and `networks` are what the node has in memory, `stored` and
`stored_networks` what a restart finds. Every handler is one action with its
checks, its change in memory and its store. A fabric's credentials carry the
context in which they were staged (`fresh`). `check_timeouts` stands for the
periodic task and ends it (`timers`) when a check fails, as the `?` in the code
does. The cryptographic proof of PASE is a Boolean; certificates have no content.
An expired session takes no more commands, so the later commands of an invoke whose
earlier one expired its session are left out.
Labels are left out: UpdateFabricLabel changes one in memory without storing it, and
`OnlyTheFailSafeIsUncommitted` is about credentials and networks.

### The light

`OnOffRun` and `LevelRun` are polls of the two run loops, up to where each waits:
in a countdown, in an effect, between two steps of a transition, or for its signal
(`state_change_signal`, `task_signal`). A signal has room for one, and a later one
overwrites it, also while the loop waits inside a command. Each cluster signals the
other. `panicked` records an `unreachable!` or a second borrow that is reached.
`off_track` marks that StartUpOnOff has set the device after the state machine chose
its state (on_off.rs:274); `InStep` is silent from then to the next change by hand.

### Wireless networks

`networks` is the list in memory, `stored` its copy, `changed` the latched
notification, `manager` what the manager task waits for together with the network
it has copied and the attempts it has made. Commands, the fail-safe with its
rollback, restarts and the radio are the surroundings. `unnoticed` (ghost) marks
that networks were replaced without a notification.

## The runs

A behaviour of `MCParts`, `MCProgress` and `MCCommissioning` is about one part
of the node, its `focus`; the parts of one module share no state, so nothing is
lost by not interleaving them.

| run | module, focus | shows | bounds |
|---|---|---|---|
| `parts` | `MCParts`, unicast | the counter window tells kept messages from others exactly (`WindowExact`) | window of 3 bits over 10 counters |
| | groupcast | no message of a sender heard lately is kept twice (`RecentAreKeptOnce`) | 3 senders for 2 places, 5 messages |
| | bluetooth | the two windows agree, messages come out whole, the ring buffer suffices (`WindowsAgree`, `MessagesAreWhole`, `BufferSuffices`) | windows of 2 or 3 over 4 sequence numbers, 3 messages a connection, reconnections |
| | changes | no change is lost to refresh, absorption or promotion (`NoLostChange`) | 2 x 2 x 2 attributes, capacity 2, 4 changes: both levels of promotion and the global wildcard occur |
| | events | numbers are never used twice; the queue holds exactly the events that have not aged out of the last buffer open to their priority (`NumbersAreFresh`, `AgesOutInItsLastBuffer`) | buffers of 2 bytes, epochs of 3, 4 pushes between restarts, numbers up to 9 |
| | reports | everything is sent once and in order; a list is whole or its version tells; no event is lost or repeated where a chunk ends (`ItemsOnceInOrder`, `ListIsExactUnlessChanged`, `EventsAreToldOnce`) | 11 bytes a chunk, a list of 3 items that changes once, 2 events |
| | requests | a path expands to what it matched throughout, once; one access decision is taken per path (`ExpansionIsExact`, `OneDecisionPerPath`) | 3 endpoints, 3 access control entries, 1 group, 2 changes elsewhere during a request; 7 requests |
| `subscriptions` | `MCSubscriptions` | places are accounted for, the slot belongs to its report, no subscriber misses a change (`CountMatches`, `SlotBelongsToReport`, `NoLostUpdate`) | 2 sessions and subscriptions, 1 change, 2 ticks, 1 event |
| `mrp` | `MCMrp` | refinement of `Dialogue`; who goes on was heard; counters stand for one message; the RX buffer never blocks an acknowledgement and is given back; sending ends (`ImplementsDialogue`, `DoneMeansDelivered`, `CounterIsOneMessage`, `BufferNeverBlocksAck`, `RxBufferIsFreed`, `SendingEnds`) | 3 messages, one retransmission, counters 0 to 3 at each node, a window of 2 |
| `commissioning` | `MCCommissioning`, handshakes and commands | credentials and networks in memory and in the store differ in what the fail-safe stands for and nowhere else; commissioning channels are guarded; credentials come from one context; no handshake marker is left behind; nothing is stored early (`OnlyTheFailSafeIsUncommitted`, `ChannelsAreGuarded`, `CredentialsOfOneContext`, `NoStaleMarker`, `NothingIsStoredEarly`) | 2 fabrics, 3 indices, 2 sessions, 2 exchanges, 2 failures |
| | sessions | reservations last as long as their handshake; exchanges and tasks belong together one to one; session ids are distinct; live sessions have a fabric; an exchange that waits has its packet (`ReservationsAreHeld`, `OwnedIffHeld`, `LocalIdsDistinct`, `SessionsOfFabrics`, `PendingIsInBuffer`) | 3 places and one session more, 2 exchanges a session, 2 tasks, session ids 1 to 4 |
| `progress` | `MCProgress`, subscriptions | an out-of-date subscriber is told or its subscription ends (`ChangesAreReported`) | as in `subscriptions`, without time; one change, which both subscribers are interested in |
| | light | the clusters come to rest; without the LIGHTING feature, and unless StartUpOnOff has set them apart, state machine and device agree (`ComesToRest`, `InStep`) | 2 commands, writes or changes by hand; levels 1 to 3; countdowns up to 2 |
| | networks | a disconnected node connects again; no attempt uses a network that is no longer configured (`Reconnects`, `AttemptsAreCurrent`) | 3 network ids and 4 credentials for 2 places, 4 commands or expiries, 1 failed connection |

Each has one type invariant (`PartsWellFormed`, `NodeTypeOK`, `ProgressTypeOK`)
where the types hold limits of the code; that of `Subscriptions` is proved.

The instances are small so that the limits are reached: a full store with one
sender more, a table of changes that must promote twice, a session table that
must evict, windows that wrap. The BTP sizes are chosen so that the longest
message takes as many segments as the window is wide and two fill the buffer, as
1583-byte messages do at the smallest MTU; sequence numbers wrap after four and
the widest window is three, so a wrapped number is still unambiguous, as with 256
and 255. The behaviours of `bluetooth` include the failed assertion of `btp_ack`,
after which the node does nothing until it is reset; the relaxed MTU negotiation
is in the model but switched off, as by default. Changes to single attributes
suffice in `subscriptions`, because what the table makes of wildcards is the
question of `changes`. In `commissioning` a behaviour has either competing
handshakes or all commands with plain handshakes: the two meet in the window and
in the session a handshake ends in, and both are in each part.

Symmetry is used where only names differ: slots and identities in
`commissioning`, sessions with their attributes in `subscriptions`; there is none
in a run with a liveness property. Deadlock is not checked where a bounded
instance runs out of messages, counters, commands or time.

### What the runs refute

Seven statements of the repository do not hold of the code; each has a run of one
property that TLC violates.

- `subscriptions_purge` (`PurgeKeepsUnreported`). `purge_reported_changes` looks
  at the subscriptions in the table only. A change made while another
  subscription is being primed, after its attribute was read, can be purged
  before that subscriber is told. `NoLostUpdate` and `ChangesAreReported` hold of
  all other subscriptions (the ghost `raced` marks these).
- `subscriptions_cancel` (`CancelledIsDropped`). A priming report that ends takes
  the cancel flag of the reporter's report, and the removed subscription returns.
- `commissioning_expiry` (`ExpiryDisarms`). After RemoveFabric of the fabric the
  fail-safe is armed for, its expiry fails and it stays armed.
- `btp_ack` (`DueAckIsSent`). `is_full` looks at the segments not yet
  acknowledged, `pending_ack` withholds an acknowledgement while a message is
  buffered; between the two the node can use its last place without
  acknowledging. Once the message is fetched, `assert!(len > 0)` fails.
- `session_expiry` (`ExpiredIsReclaimed`). An exchange that waits to be accepted
  on a session that is then marked as expired loses its packet and is never
  removed, so the session is never evicted.
- `group_expansion` (`EveryMemberIsReached`). When a groupcast command takes the
  endpoint that the scan stands in out of the group, the next member is entered in
  the middle of its clusters, and its command is skipped.
- `networks_restored` (`RestoredAreTried`). The networks that an expiring
  fail-safe restores are not announced to the manager; one that had found no
  network waits for ever.

Met while modelling, and without a run:

- `RecvWindow::accept_incoming` refuses the first segment of a message longer than
  a segment's room but no longer than the MTU, which the sender cuts in two.
- `Sender::tx` answers `None` both when its message was acknowledged and when the
  retransmissions ran out.
- The light has two panics (the hazard at `on_off.rs:641`); the model reaches both.
- The end of the attribute array is written with the reserve of the buffer still
  withheld (`dm.rs:1094`), so a chunk filled to the last byte fails.
- An empty report that is skipped still counts as reported at that time
  (`subscriptions.rs:735`).
- Access control and group writes under a fail-safe armed over CASE are neither
  stored nor rolled back once AddNOC has moved the fail-safe (`acl.rs:299`).

### Fairness

The executor polls its tasks; nothing else is assumed. In `progress` the reporter
wakes, takes reportable subscriptions and purges, and a report under way ends (the
exchange under it ends by `SendingEnds` of `mrp`); the run loops of the two light
clusters go on, their timers fire and an effect ends; the wireless manager goes
on, its timer fires and a call to connect ends. Each is weak fairness of one task.
Changes, requests, commands, failures and removals are not fair. `mrp` assumes the
same of the owner of an exchange and of the transport's housekeeping; nothing is
assumed of the network, so `SendingEnds` and `RxBufferIsFreed` hold even if every
packet is lost. The retransmission timer firing is part of the owner's fairness:
it is an `embassy-time` timer that the task awaits.

## The proofs

All results below hold for every value of the constants that satisfies the
`ASSUME`s of the modules; TLC evaluates these in the runs. The inductive
invariants of subscriptions, commissioning, sessions, BTP, MRP and the light were
model-checked before they were proved.

`SubscriptionsProofs`, of the table of changes: its four invariants (types,
`NoLostChange`, `NoRedundantEntry`, `WithinCapacity`) for any number of changes.
`NoLostChange` speaks of every reader's watermark; the inductive form `StillTold`
says that for each attribute one entry reports its last change or a later one,
unless it was let go of. The lemmas follow the code: refreshing, promoting and
pushing each forget nothing; `InsertedLemma` puts them together for `record_raw`;
`TrimLemma` covers `purge_up_to` and `clear`. Assumptions: the wildcard is no id,
the capacity is positive.

`SubscriptionsProofs`, of the subscriptions: `CountMatches`, `SlotBelongsToReport`,
`NoLostUpdate` and the types, for any number of sessions, subscriptions, attributes
and reports under way. Two facts carry it. Of places: a subscription has one id and is in one place,
the table or a context (`Ids`). Of watermarks: what a subscriber's view misses of
an attribute happened after the watermark it will next be compared with, and the
table of changes has let go of nothing after that watermark (`SubInv`); a report
under way has two watermarks, the one it will commit for the attributes it has
dealt with and the one it started from for the rest (`CtxInv`). `StillTold` then
turns "happened after the watermark" into "is pending". `TableIsImplemented`: the
subscriptions take only steps of `TableSpec`, since a purge never exceeds the
newest id; so the theorems above hold inside the subscriptions too.

`StoreProofs`, of the counter window: it is well formed, a message kept on an
encrypted session is never kept again (`KeptOnce`, for which there is a theorem only), and the
verdict is exact above the last fill-up. `Tracked` ties each bit to the history: a
kept counter is below the window, or marked, or the largest; a marked counter
above the floor was kept. Assumption: the counters of a session stay in one half
of the number range, where the signed difference is the plain one
(`PlainDifference`). A session whose counter passes 2^31 is outside it.

`StoreProofs`, of the group counter store: the store keeps to its capacity with one
entry for a sender, and `RecentAreKeptOnce`, for every capacity and finite set of
senders. An entry carries the time its sender was last heard, no two senders were
heard at one time, and if a sender was forgotten, the store is full and every sender
in it was heard later (`StoreInv`). So a forgotten sender has as many later ones as
the store has places. The windows of the senders that
are left know what was kept, by the argument of the counter window. Assumptions:
those of the window, and a clock that does not come round.

`StoreProofs`, of events: `NumbersAreFresh` across restarts, factory resets and
failing pushes, for every size of buffers and epochs. What is stored is ahead of every
number given out and is the first number of an epoch (`FreshInv`); the second half
is needed for the test that decides when to store again.

`StoreProofs`, of networks: no two networks have one id, the list keeps to its
capacity, and `AttemptsAreCurrent`. The copy that the manager works with is configured, unless a
notification is on its way or was never sent (`CopyIsCurrent`).

`BtpProofs`: `WindowsAgree`, and that no level passes its window or falls below
zero (`LevelsStayWithinTheWindow`), so that the `u8` arithmetic of the windows never
wraps; for every window, MTU, number of sequence numbers and length of messages,
through disconnections and new handshakes. A connection is `Closed`, `Opening` (the
node has the request and may send, the central has no answer yet) or `Open`
(`BtpInv`). In an open one each direction is a `Link`: the segments on their way are
numbered without a gap up to the last one sent (`Channel`), and of the
acknowledgements on their way back each tells the sender more than the one before
and the last tells the truth (`Ledger`). `WindowsAgree` says less, and cannot be
kept without it: an acknowledgement that arrives is subtracted from the last number
sent, and whether the two ends agree afterwards depends on those behind it.
Assumption: the window agreed on is at least one segment and smaller than the
sequence numbers are many. The second holds of bytes; the first is the central's
part, since `process_rx_handshake_req` accepts a request for an empty window.

`ClusterProofs`, of commissioning: the types, `OnlyTheFailSafeIsUncommitted`,
`ChannelsAreGuarded`, `CredentialsOfOneContext`,
`NoStaleMarker` and `NothingIsStoredEarly`, for any number of fabrics, sessions,
exchanges and permitted failures, through commands, timeouts and restarts. The
fabric table and the store agree everywhere except at the index whose credentials
are pending under the fail-safe (`AgreeUnlessPending`), an idle fail-safe leaves
nothing behind (`IdleIsClean`), and its flags vouch for the staged key and
certificate (`StagedIsCurrent`). None of the properties is inductive without the
others: a rollback restores a sound table because the store is sound, and that is
so because nothing is stored while it is pending. `NothingIsStoredEarly`, an action
property, follows from the same case analysis. Assumptions: there are at least as
many indices as places for fabrics, and a failure is permitted.

`ClusterProofs`, of the light: `InStep`, for any number of commands, transitions and
changes by hand, and every range of levels. It needs to know what cannot happen
without the LIGHTING feature: nothing waits in the state machine, its two timed
states are not reached, and no command that leads there is signalled by a request, by
the device or by the coupled cluster, whatever task that one is in (`Plain`). Each
round of the state machine is then its last and ends where the device is. With the
feature the two may differ, since OnWithTimedOff switches the device on before the
state machine is told; of that case the types and `ComesToRest` are model-checked.

`SessionsProofs`: the six safety properties of the session table, for every number
of sessions, exchanges, tasks and fabrics. The table changes in few ways (a session
is added, removed or changed; an exchange is opened, given to a task or taken out;
a task begins or ends); `SessionStrokes` shows what each of these strokes keeps, and
the proof of an action of `Sessions` puts it together from strokes. The invariant
`SessionsInv` joins what the properties need of each other: a reservation belongs to
one handshake in flight, a task's exchange is owned, ids chosen and not yet entered
are distinct too. `NotComeRound` is assumed: an id that a handshake in flight has chosen is not
chosen by another (the search skips the sessions in the table only, and comes back
to an id 65535 handshakes later).

`MrpSteps`, `MrpProofs`: the refinement of `Dialogue`, `DoneMeansDelivered`,
`CounterIsOneMessage` and `BufferNeverBlocksAck`, for every length of the
conversation, number of transmissions and length of the window. The invariant
`MrpInv` says where each message can be: what a node sent last and has not seen
acknowledged is the last message said; a packet in the network carries a counter its
sender has used and, if it acknowledges, one that was received; the window has
marked what was taken; the last message heard and the last said are one apart at
most. `MrpSteps` treats the steps that neither say nor hear anything and the arrival
of duplicates and acknowledgements, `MrpProofs` the rest. Assumption: counters stay
in one half of the number range, as for the window.

Only model-checked: liveness under fairness, which is beyond the prover;
`AgesOutInItsLastBuffer`; `MessagesAreWhole` and `BufferSuffices` of `Btp`; and all of
`ReportData` and `PathExpander`; of the light the types. Where these fold over
sequences, what they compute for every input needs induction over data, which the
prover does not do.

## Not modelled

- Data without state: TLV, packet headers, certificates, cryptography, pairing
  codes, read-only clusters. Code generated at build time, examples and tools.
- Sockets and mDNS; the network of `Mrp` stands for what they may do.
- The secure channel dispatcher and the busy responder: dispatch with a fixed
  answer. The commissioner: a fixed sequence of requests that ends at the first
  error, over the exchanges of `Mrp`.
- The certificates and messages of CASE; only what the handshake does to sessions
  and fabrics is in `Sessions`.
- Validation of event paths and of subscribe requests, the timeout of timed
  requests, the buffer pool, group key sets (a constant set of groups has a key).
- Of the light: RemainingTime, quiet reporting, a null CurrentLevel, a device that
  refuses a level, GlobalSceneControl. Of the wireless networks: scans, the status
  of the last operation, and errors that end the manager task.
- Failing stores. Counters of 64 bits (change ids,
  event numbers), the 28-bit unique ids of sessions and the clock of the group
  store are unbounded numbers.
- In BTP: the initiator's half of the code, which nothing calls; a message for
  another address; a second handshake request in one connection; writes that a
  Bluetooth stack still holds from an earlier connection.

## Running

```
tlc -workers 2 -config mrp.cfg MCMrp      # any run of PROJECT.json
tlapm SubscriptionsProofs.tla             # any of the ...Proofs modules
```

With two workers a run takes one to two minutes and a proof module up to thirteen.
