----------------------------- MODULE ChangedAttrs -----------------------------
(***************************************************************************)
(* The table of recently changed attributes that subscriptions consult     *)
(* (rs-matter/src/dm/subscriptions.rs, ChangedAttrs and ChangedAttr).      *)
(*                                                                         *)
(* The table has a fixed capacity.  When it is full, a group of entries is *)
(* collapsed into a coarser wildcard so that the new change still fits.    *)
(* The Vec of entries is a set here: its order only breaks ties between    *)
(* equally large groups, and the model allows every such choice.  The u64  *)
(* change id is a natural number: 2^64 changes are out of reach.           *)
(***************************************************************************)
EXTENDS Naturals, FiniteSets

CONSTANTS Endpoints,    \* endpoint ids in use
          Clusters,     \* cluster ids in use
          Attrs,        \* attribute ids in use
          Wild,         \* the WILDCARD_* sentinels
          MAX_CHANGED_ATTRS

ASSUME WildAssumption == Wild \notin Endpoints \cup Clusters \cup Attrs
ASSUME CapacityAssumption == MAX_CHANGED_ATTRS \in Nat \ {0}

VARIABLES entries,         \* the table
          next_change_id,  \* next id to assign
          last_change,     \* ghost: id of the last change to each attribute
          forgotten        \* ghost: largest id the owner has let go of

tableVars == <<entries, next_change_id, last_change, forgotten>>

\* A concrete attribute, and an entry: a path whose fields may be wildcards.
AttrPath == [endpoint : Endpoints, cluster : Clusters, attr : Attrs]
Entry == [endpoint : Endpoints \cup {Wild}, cluster : Clusters \cup {Wild},
          attr : Attrs \cup {Wild}, change_id : Nat]

-------------------------------------------------------------------------------
\* ChangedAttr::matches and ChangedAttr::covers.
matches(e, p) ==
    /\ e.endpoint \in {Wild, p.endpoint}
    /\ e.cluster \in {Wild, p.cluster}
    /\ e.attr \in {Wild, p.attr}

covers(a, b) ==
    /\ a.endpoint \in {Wild, b.endpoint}
    /\ a.cluster \in {Wild, b.cluster}
    /\ a.attr \in {Wild, b.attr}

\* ChangedAttr::coarsen: None is the empty set, Some(x) the singleton {x}.
coarsen(e, level) ==
    IF e.endpoint = Wild \/ (level = 1 /\ e.cluster = Wild)
    THEN {}
    ELSE {[endpoint |-> e.endpoint,
           cluster |-> IF level = 1 THEN e.cluster ELSE Wild,
           attr |-> Wild, change_id |-> 0]}

\* Id of the newest change, and the two questions asked of the table.
watermark == next_change_id - 1

contains_since(p, since) ==
    \E e \in entries : e.change_id > since /\ matches(e, p)

any_since(since) == \E e \in entries : e.change_id > since

-------------------------------------------------------------------------------
\* The tables in which an entry of S that covers new takes over its id.
Refreshed(S, new) ==
    {(S \ {x}) \cup {[x EXCEPT !.change_id = new.change_id]} :
        x \in {y \in S : covers(y, new)}}

Group(S, c) == {e \in S : covers(c, e)}

\* The coarser entries whose group in S is largest, if it has two members.
LargestAt(S, level) ==
    LET cs == UNION {coarsen(e, level) : e \in S}
    IN  {c \in cs : /\ Cardinality(Group(S, c)) >= 2
                    /\ \A d \in cs : Cardinality(Group(S, d)) <= Cardinality(Group(S, c))}

\* Mutant: the coarser entry takes the oldest id of its group.
promote_largest_group_oldest(S, level) ==
    UNION {{(S \ Group(S, c)) \cup {[c EXCEPT !.change_id = e.change_id]} :
              e \in {x \in Group(S, c) : \A y \in Group(S, c) : y.change_id >= x.change_id}}
           : c \in LargestAt(S, level)}

\* promote_largest_group: the tables with one largest group collapsed into
\* its coarser entry, which keeps the newest id of the group.
promote_largest_group(S, level) ==
    UNION {{(S \ Group(S, c)) \cup {[c EXCEPT !.change_id = e.change_id]} :
              e \in {x \in Group(S, c) : \A y \in Group(S, c) : y.change_id <= x.change_id}}
           : c \in LargestAt(S, level)}

GlobalWildcard(id) ==
    [endpoint |-> Wild, cluster |-> Wild, attr |-> Wild, change_id |-> id]

\* One promotion always frees a slot, so the loop of promote_and_insert runs
\* once: afterwards new is covered, or there is room for it.
AfterPromotion(S, new) ==
    IF \E x \in S : covers(x, new) THEN Refreshed(S, new) ELSE {S \cup {new}}

promote_and_insert(S, new) ==
    IF LargestAt(S, 1) # {}
    THEN UNION {AfterPromotion(T, new) : T \in promote_largest_group(S, 1)}
    ELSE IF LargestAt(S, 2) # {}
    THEN UNION {AfterPromotion(T, new) : T \in promote_largest_group(S, 2)}
    ELSE {{GlobalWildcard(new.change_id)}}

\* record_raw: the tables that may result from inserting new.
Inserted(S, new) ==
    LET kept == S \ Group(S, new)
    IN  IF \E x \in S : covers(x, new) THEN Refreshed(S, new)
        ELSE IF Cardinality(kept) < MAX_CHANGED_ATTRS THEN {kept \cup {new}}
        ELSE promote_and_insert(kept, new)

record_raw(e, c, a) ==
    LET new == [endpoint |-> e, cluster |-> c, attr |-> a, change_id |-> next_change_id]
    IN  /\ entries' \in Inserted(entries, new)
        /\ next_change_id' = next_change_id + 1
        /\ last_change' = [p \in AttrPath |->
                             IF matches(new, p) THEN next_change_id ELSE last_change[p]]
        /\ UNCHANGED forgotten

-------------------------------------------------------------------------------
\* The ways a change is recorded, and the ways the table is trimmed.
notify_attr_changed == \E p \in AttrPath : record_raw(p.endpoint, p.cluster, p.attr)
notify_cluster_changed == \E e \in Endpoints, c \in Clusters : record_raw(e, c, Wild)
notify_endpoint_changed == \E e \in Endpoints : record_raw(e, Wild, Wild)
notify_all_changed == record_raw(Wild, Wild, Wild)

notify_changed ==
    \/ notify_attr_changed
    \/ notify_cluster_changed
    \/ notify_endpoint_changed
    \/ notify_all_changed

purge_up_to(threshold) ==
    /\ entries' = {e \in entries : e.change_id > threshold}
    /\ forgotten' = IF threshold > forgotten THEN threshold ELSE forgotten
    /\ UNCHANGED <<next_change_id, last_change>>

clear ==
    /\ entries' = {}
    /\ forgotten' = watermark
    /\ UNCHANGED <<next_change_id, last_change>>

TableInit ==
    /\ entries = {}
    /\ next_change_id = 1
    /\ last_change = [p \in AttrPath |-> 0]
    /\ forgotten = 0

TableNext ==
    \/ notify_changed
    \/ \E t \in 0 .. watermark : purge_up_to(t)
    \/ clear

TableSpec == TableInit /\ [][TableNext]_tableVars

-------------------------------------------------------------------------------
\* The state has its type, and every id in it has been assigned.
TableTypeOK ==
    /\ entries \in SUBSET Entry
    /\ next_change_id \in Nat \ {0}
    /\ last_change \in [AttrPath -> Nat]
    /\ forgotten \in Nat
    /\ forgotten < next_change_id
    /\ \A e \in entries : e.change_id > 0 /\ e.change_id < next_change_id
    /\ \A p \in AttrPath : last_change[p] < next_change_id

\* Promotion "preserves correctness": whatever was refreshed, absorbed or
\* collapsed, a reader at any watermark that has not been let go of is still
\* told about every attribute that changed after it.
NoLostChange ==
    \A p \in AttrPath : last_change[p] > forgotten =>
        \A since \in forgotten .. (last_change[p] - 1) : contains_since(p, since)

\* No entry is subsumed by another one, so the first entry found to cover a
\* path is the only one: the refresh in record_raw cannot miss a second entry
\* that keeps an old id.
NoRedundantEntry ==
    \A x, y \in entries : covers(x, y) => x = y

\* The push after a promotion never finds the table full (its result is
\* unwrapped in the code).
WithinCapacity ==
    IsFiniteSet(entries) /\ Cardinality(entries) <= MAX_CHANGED_ATTRS
===============================================================================
