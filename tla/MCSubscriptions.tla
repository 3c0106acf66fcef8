---------------------------- MODULE MCSubscriptions ---------------------------
(* Bounded instances of Subscriptions.  All changes are to single attributes: *)
(* the wildcard forms are exercised by MCParts.                               *)
EXTENDS Subscriptions, TLC

CONSTANTS MaxChanges, MaxTime, MaxIds, MaxEvents,
          s1, s2, p1, p2, a1, a2, e1, c1

MCPeerOf == s1 :> p1 @@ s2 :> p2
Path(a) == [endpoint |-> e1, cluster |-> c1, attr |-> a]
MCInterest == s1 :> {Path(a1)} @@ s2 :> {Path(a2)}

\* The sessions differ only in their names, and in those of what they are
\* interested in.
Symmetry ==
    {p \in Permutations({s1, s2, a1, a2}) :
        /\ p[s1] \in Sessions
        /\ <<p[a1], p[a2]>> = IF p[s1] = s1 THEN <<a1, a2>> ELSE <<a2, a1>>
        /\ p[s2] \in Sessions}

BoundedRequests ==
    \E s \in Sessions, keep_subs \in BOOLEAN :
        \/ next_id <= MaxIds /\ subscribe(s, keep_subs)
        \/ subscribe_full(s, keep_subs)

BoundedEnvironment ==
    \/ /\ next_change_id <= MaxChanges
       /\ notify_attr_changed
       /\ UNCHANGED <<subsVars, envVars>>
    \/ events < MaxEvents /\ emit_event
    \/ clock < MaxTime /\ tick
    \/ \E s \in Sessions : session_removed(s)

MCNext == Reporter \/ Responders \/ BoundedRequests \/ BoundedEnvironment

MCSpec == Init /\ [][MCNext]_vars

-------------------------------------------------------------------------------
OutOfDate(i, p) ==
    \E s \in subs \cup InFlight :
        /\ s.id = i /\ ~s.hist.raced /\ p \in Interest[s.session]
        /\ s.hist.view[p] < last_change[p]

\* Once changes cease, a subscriber that is out of date is told, or its
\* subscription ends.
ChangesAreReported ==
    \A i \in 1 .. MaxIds : \A p \in AttrPath : OutOfDate(i, p) ~> ~OutOfDate(i, p)
===============================================================================
