---------------------------- MODULE Subscriptions ----------------------------
(***************************************************************************)
(* Subscriptions accepted by the data model: priming, reporting, removal   *)
(* and purging (rs-matter/src/dm/subscriptions.rs, and subscribe,          *)
(* process_subscriptions and report_data of rs-matter/src/dm.rs).          *)
(*                                                                         *)
(* Each responder task that primes a subscription, the one reporter task   *)
(* and the application interleave at their awaits.  A locked section of    *)
(* the code is one action.  The Vec of subscriptions is a set: its order   *)
(* only decides which reportable subscription goes first, and the model    *)
(* allows each.                                                            *)
(***************************************************************************)
EXTENDS ChangedAttrs

CONSTANTS N,          \* capacity of the table of subscriptions
          Sessions,   \* sessions on which peers subscribe
          PeerOf,     \* the (fabric, node) at the other end of a session
          Interest,   \* the attributes the requests of a session name
          MinInt,     \* min_int_secs
          MaxInt,     \* max_int_secs, at least 40 s in the code
          WakePeriod, \* the reporter's 4 s timer
          NoSub       \* None, for Option<Subscription>

ASSUME SubsAssumption ==
    /\ N \in Nat \ {0}
    /\ MinInt \in Nat /\ MaxInt \in Nat /\ WakePeriod \in Nat \ {0}
    /\ Interest \in [Sessions -> SUBSET AttrPath]

VARIABLES
    subs,                \* the table
    count,               \* subscriptions_count
    next_id,             \* next_subscription_id
    reporting,           \* snapshot of the subscription being reported on
    cancelled,           \* reporting_cancelled.is_some()
    ctxs,                \* the live ReportContexts
    reporter,            \* the reporter task: where it is, its idea of now
    valid,               \* sessions that exist, on a fabric that exists
    clock,
    events               \* the event-number watermark

subsVars == <<subs, count, next_id, reporting, cancelled, ctxs, reporter>>
envVars == <<valid, clock, events>>
vars == <<tableVars, subsVars, envVars>>

\* Instant::MAX marks a subscription that was never reported on.
Never == Wild

\* What the properties need to know of a subscription's past (ghost): the
\* last change of each attribute the subscriber was told of, whether remove()
\* has matched it while it was being reported on, and whether a purge ran while
\* it was being primed.
History == [view : [AttrPath -> Nat], condemned : BOOLEAN, raced : BOOLEAN]

Sub == [id : Nat, session : Sessions, reported_at : Nat \cup {Never},
        max_seen : Nat, max_seen_event : Nat, hist : History]
Ctx == [sub : Sub, priming : BOOLEAN, todo : SUBSET AttrPath,
        next_seen : Nat, next_event : Nat, next_at : Nat]

-------------------------------------------------------------------------------
is_expired(s, now) == s.reported_at # Never /\ s.reported_at + MaxInt <= now

is_report_allowed(s, now) == s.reported_at = Never \/ s.reported_at + MinInt <= now

is_report_due(s, now) ==
    s.reported_at = Never \/ s.reported_at + MaxInt <= now + (MaxInt \div 2)

\* Mutant: changes alone do not make a subscription reportable.
is_reportable_due_only(s, now, event_watermark) ==
    /\ is_report_allowed(s, now)
    /\ is_report_due(s, now) \/ s.max_seen_event < event_watermark

is_reportable(s, now, event_watermark) ==
    /\ is_report_allowed(s, now)
    /\ \/ is_report_due(s, now)
       \/ any_since(s.max_seen)
       \/ s.max_seen_event < event_watermark

should_report_attr(c, p) ==
    c.sub.reported_at = Never \/ contains_since(p, c.sub.max_seen)

\* The subscriptions that remove() looks at.
Present == (subs \cup {reporting}) \ {NoSub}

\* Subscriptions::remove of the ones that match; `added` holds the context that
\* add() creates next, if any.
remove(matched, added) ==
    LET gone == subs \cap matched
        hit == ~cancelled /\ reporting \in matched
    IN  /\ subs' = subs \ gone
        /\ count' = (count - Cardinality(gone)) + Cardinality(added)
        /\ cancelled' = (cancelled \/ hit)
        /\ ctxs' = {IF hit /\ c.sub.id = reporting.id
                    THEN [c EXCEPT !.sub.hist.condemned = TRUE] ELSE c : c \in ctxs}
                   \cup added

\* Subscriptions::report_complete: the watermarks a finished report commits.
Completed(c, seen) ==
    [c.sub EXCEPT !.max_seen = seen, !.max_seen_event = c.next_event,
                  !.reported_at = c.next_at]

\* Mutants: a cancelled report is still counted; the cancel flag is not consumed;
\* the watermark is taken at the end of a report.
report_complete_leak(c, keep) ==
    /\ reporting' = NoSub /\ cancelled' = FALSE /\ ctxs' = ctxs \ {c}
    /\ subs' = IF ~cancelled /\ keep THEN subs \cup {Completed(c, c.next_seen)} ELSE subs
    /\ count' = IF cancelled \/ keep THEN count ELSE count - 1

report_complete_sticky(c, keep) ==
    /\ reporting' = NoSub /\ ctxs' = ctxs \ {c}
    /\ subs' = IF ~cancelled /\ keep THEN subs \cup {Completed(c, c.next_seen)} ELSE subs
    /\ count' = IF ~cancelled /\ keep THEN count ELSE count - 1
    /\ UNCHANGED cancelled

report_complete_late(c, keep) ==
    /\ reporting' = NoSub /\ cancelled' = FALSE /\ ctxs' = ctxs \ {c}
    /\ subs' = IF ~cancelled /\ keep THEN subs \cup {Completed(c, watermark)} ELSE subs
    /\ count' = IF ~cancelled /\ keep THEN count ELSE count - 1

\* SubscriptionsInner::report_complete, run when a ReportContext is dropped.
report_complete(c, keep) ==
    LET stays == ~cancelled /\ keep
    IN  /\ reporting' = NoSub
        /\ cancelled' = FALSE
        /\ ctxs' = ctxs \ {c}
        /\ subs' = IF stays THEN subs \cup {Completed(c, c.next_seen)} ELSE subs
        /\ count' = IF stays THEN count ELSE count - 1

-------------------------------------------------------------------------------
\* A SubscribeRequest on session s: drop the peer's subscriptions unless
\* keep_subs, then reserve a place and start priming, or answer
\* ResourceExhausted.
Replaced(s, keep_subs) ==
    IF keep_subs THEN {} ELSE {x \in Present : PeerOf[x.session] = PeerOf[s]}

subscribe_full(s, keep_subs) ==
    /\ s \in valid
    /\ count - Cardinality(subs \cap Replaced(s, keep_subs)) >= N
    /\ remove(Replaced(s, keep_subs), {})
    /\ UNCHANGED <<tableVars, next_id, reporting, reporter, envVars>>

FreshCtx(s) ==
    [sub |-> [id |-> next_id, session |-> s, reported_at |-> Never,
              max_seen |-> watermark, max_seen_event |-> 0,
              hist |-> [view |-> [p \in AttrPath |-> 0],
                        condemned |-> FALSE, raced |-> FALSE]],
     priming |-> TRUE, todo |-> Interest[s],
     next_seen |-> watermark, next_event |-> events, next_at |-> clock]

subscribe(s, keep_subs) ==
    /\ s \in valid
    /\ count - Cardinality(subs \cap Replaced(s, keep_subs)) < N
    /\ remove(Replaced(s, keep_subs), {FreshCtx(s)})
    /\ next_id' = next_id + 1
    /\ UNCHANGED <<tableVars, reporting, reporter, envVars>>

\* report_attributes: one attribute is filtered and, if it passes, read and
\* reported.  Chunks are sent, and other tasks run, between two attributes.
report_attribute(c, p) ==
    /\ c \in ctxs /\ p \in c.todo
    /\ LET told == should_report_attr(c, p)
       IN  ctxs' = (ctxs \ {c}) \cup
             {[c EXCEPT !.todo = @ \ {p},
                        !.sub.hist.view[p] = IF told THEN last_change[p] ELSE @]}
    /\ UNCHANGED <<tableVars, subs, count, next_id, reporting, cancelled, reporter, envVars>>

\* The report was sent and acknowledged, or was empty and not due: the
\* subscription is kept.  SubscribeResponse and the standalone acknowledgement
\* are part of the exchange.
report_success(c) ==
    /\ c \in ctxs /\ c.todo = {}
    /\ report_complete(c, TRUE)
    /\ UNCHANGED <<tableVars, next_id, reporter, envVars>>

\* The exchange failed, or the peer did not answer Success.
report_failure(c) ==
    /\ c \in ctxs
    /\ report_complete(c, FALSE)
    /\ UNCHANGED <<tableVars, next_id, reporter, envVars>>

-------------------------------------------------------------------------------
\* process_subscriptions: wake up (notification, timer or removed session)
\* and remove what has expired or lost its session or fabric.
Invalid == {x \in Present : is_expired(x, clock) \/ x.session \notin valid}

wake ==
    /\ reporter.at = "waiting"
    /\ remove(Invalid, {})
    /\ reporter' = [at |-> "cycle", now |-> clock, watermark |-> events]
    /\ UNCHANGED <<tableVars, next_id, reporting, envVars>>

Idle == reporter.at = "cycle" /\ \A c \in ctxs : c.priming

\* Begin a report on a reportable subscription.
report(s) ==
    /\ Idle
    /\ s \in subs /\ is_reportable(s, reporter.now, reporter.watermark)
    /\ subs' = subs \ {s}
    /\ reporting' = s
    /\ ctxs' = ctxs \cup
         {[sub |-> s, priming |-> FALSE, todo |-> Interest[s.session],
           next_seen |-> watermark, next_event |-> reporter.watermark,
           next_at |-> reporter.now]}
    /\ UNCHANGED <<tableVars, count, next_id, cancelled, reporter, envVars>>

\* None is left to report on: purge what every subscription in the table has
\* seen, and wait again.
purge_reported_changes ==
    /\ Idle
    /\ \A s \in subs : ~ is_reportable(s, reporter.now, reporter.watermark)
    /\ IF subs = {} THEN clear
       ELSE \E s \in subs : /\ \A t \in subs : s.max_seen <= t.max_seen
                            /\ purge_up_to(s.max_seen)
    /\ reporter' = [reporter EXCEPT !.at = "waiting"]
    /\ ctxs' = {[c EXCEPT !.sub.hist.raced = TRUE] : c \in ctxs}
    /\ UNCHANGED <<subs, count, next_id, reporting, cancelled, envVars>>

-------------------------------------------------------------------------------
\* The application changes an attribute or emits an event; a session or its
\* fabric goes away; time passes, but the waiting reporter's timer fires.
change ==
    /\ notify_changed
    /\ UNCHANGED <<subsVars, envVars>>

emit_event ==
    /\ events' = events + 1
    /\ UNCHANGED <<tableVars, subsVars, valid, clock>>

session_removed(s) ==
    /\ s \in valid
    /\ valid' = valid \ {s}
    /\ UNCHANGED <<tableVars, subsVars, clock, events>>

tick ==
    /\ reporter.at = "waiting" => clock < reporter.now + WakePeriod
    /\ clock' = clock + 1
    /\ UNCHANGED <<tableVars, subsVars, valid, events>>

Init ==
    /\ TableInit
    /\ subs = {} /\ count = 0 /\ next_id = 1
    /\ reporting = NoSub /\ cancelled = FALSE
    /\ ctxs = {}
    /\ reporter = [at |-> "waiting", now |-> 0, watermark |-> 0]
    /\ valid = Sessions /\ clock = 0 /\ events = 0

Reporter ==
    \/ wake
    \/ \E s \in subs : report(s)
    \/ purge_reported_changes

Responders ==
    \/ \E c \in ctxs : \E p \in c.todo : report_attribute(c, p)
    \/ \E c \in ctxs : report_success(c) \/ report_failure(c)

Requests ==
    \E s \in Sessions, keep_subs \in BOOLEAN :
        subscribe(s, keep_subs) \/ subscribe_full(s, keep_subs)

Environment ==
    change \/ emit_event \/ tick \/ \E s \in Sessions : session_removed(s)

Next == Reporter \/ Responders \/ Requests \/ Environment

Spec == Init /\ [][Next]_vars

-------------------------------------------------------------------------------
InFlight == {c.sub : c \in ctxs}

\* The table, its counters and slots keep their types (SubscriptionsInner,
\* ReportContext); the count never goes below zero.
SubsTypeOK ==
    /\ TableTypeOK
    /\ subs \in SUBSET Sub /\ ctxs \in SUBSET Ctx
    /\ count \in Nat /\ next_id \in Nat \ {0}
    /\ reporting \in Sub \cup {NoSub} /\ cancelled \in BOOLEAN
    /\ reporter \in [at : {"waiting", "cycle"}, now : Nat, watermark : Nat]
    /\ valid \in SUBSET Sessions /\ clock \in Nat /\ events \in Nat

\* subscriptions_count counts the table and every live ReportContext, so a
\* kept subscription always finds a free place when it is pushed back.
CountMatches ==
    count = Cardinality(subs) + Cardinality(ctxs) /\ count <= N

\* The reporting slot and its cancel flag never outlive the report they belong
\* to: report() finds both vacant, as its debug assertions demand.
SlotBelongsToReport ==
    /\ reporting # NoSub => \E c \in ctxs : ~c.priming /\ c.sub.id = reporting.id
    /\ cancelled => reporting # NoSub

Pending(s, p, since) == s.hist.view[p] < last_change[p] => contains_since(p, since)

\* A subscriber whose copy of an attribute is out of date has that change still
\* pending in the table, whether its subscription rests in the table or is
\* being reported on; subscriptions primed while a purge ran are exempt
\* (SubscriptionsInner::report and report_complete, purge_reported_changes).
NoLostUpdate ==
    /\ \A s \in subs : s.hist.raced \/
         \A p \in Interest[s.session] : Pending(s, p, s.max_seen)
    /\ \A c \in ctxs : c.sub.hist.raced \/
         \A p \in Interest[c.sub.session] \ c.todo : Pending(c.sub, p, c.next_seen)

\* "Remove entries that every subscription has already reported on": purging
\* never costs a kept subscription an update, also one just primed.
PurgeKeepsUnreported ==
    \A s \in subs : \A p \in Interest[s.session] : Pending(s, p, s.max_seen)

\* A subscription that remove() matched while it was being reported on is
\* dropped by report_complete and never comes back to the table.
CancelledIsDropped == \A s \in subs : ~s.hist.condemned
===============================================================================
