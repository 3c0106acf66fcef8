----------------------------- MODULE PathExpander ----------------------------
(***************************************************************************)
(* A read, write or invoke request: its paths are expanded one by one      *)
(* against the endpoints of a node that changes meanwhile, and what they   *)
(* expand to is handed to the cluster handlers                             *)
(* (rs-matter/src/dm/types/node.rs, the write and invoke responders of     *)
(* rs-matter/src/dm.rs and do_process_write and do_process_invoke of       *)
(* dm/types/reply.rs).                                                     *)
(*                                                                         *)
(* next runs under the lock of the metadata; endpoints, access control and *)
(* group membership change between two calls of it, also by the very       *)
(* request that is being expanded.  A path is a record of an endpoint, a   *)
(* cluster and a leaf (an attribute or command), each may be Every.        *)
(***************************************************************************)
EXTENDS Acl, FiniteSetsExt, TLC

CONSTANTS MaxEndpoints,  \* capacity of the DynamicNode
          Shape,         \* the clusters of each endpoint, in order: id, attributes, commands
          None,          \* Option::None
          RequestsMade,  \* requests, each with the accessor that makes it
          Edits          \* what other sessions write to the access control list

VARIABLES
    endpoints,        \* Node::endpoints: ids, in the order of the Vec
    accessor,
    request,          \* operation, timed, items (path and data), and the filter
    item,             \* index of the item being expanded, or to be expanded next
    cursor,           \* endpoint_id, cluster_index, leaf_index; NoCursor before the first leaf
    last_authorized,
    current,          \* the output of next, while its handler is at work
    outputs,          \* ghost: all outputs of next
    due,              \* ghost: for each item begun, what it has always matched since
    astray            \* ghost: the anchoring endpoint has been found inaccessible

expandVars == <<endpoints, accessor, request, item, cursor, last_authorized, current,
                outputs, due, astray>>

NoCursor == [endpoint |-> None, cluster |-> 1, leaf |-> 1]
Finished == item > Len(request.items)

\* expand_read, expand_write and expand_invoke: a new PathExpander.
ExpandInit ==
    /\ \E r \in RequestsMade : accessor = r.accessor /\ request = r.request
    /\ item = 1 /\ cursor = NoCursor /\ last_authorized = None /\ current = None
    /\ outputs = <<>> /\ due = [k \in DOMAIN request.items |-> {}] /\ astray = FALSE
-----------------------------------------------------------------------------
\* DynamicNode::add: endpoints stay sorted by id.
add(e) ==
    /\ Len(endpoints) < MaxEndpoints /\ e \notin Range(endpoints)
    /\ endpoints' = SortSeq(Append(endpoints, e), <)

\* Mutant: swap_remove.
remove_swap(e) ==
    /\ e \in Range(endpoints)
    /\ LET i == CHOOSE j \in DOMAIN endpoints : endpoints[j] = e
       IN  endpoints' = SubSeq([endpoints EXCEPT ![i] = endpoints[Len(endpoints)]], 1, Len(endpoints) - 1)

\* DynamicNode::remove, which keeps the order.
remove(e) ==
    /\ e \in Range(endpoints)
    /\ endpoints' = SelectSeq(endpoints, LAMBDA o : o # e)
-----------------------------------------------------------------------------
Leaves(cluster) == IF request.operation = "Invoke" THEN cluster.commands ELSE cluster.attributes

is_wildcard(p) == Every \in {p.endpoint, p.cluster, p.leaf}

\* The check of next_for_path without the cache, on a leaf of a concrete path.
check_access(t, perms) ==
    IF request.operation = "Invoke" THEN check_cmd_access(accessor, request.timed, t, perms)
    ELSE check_attr_access(accessor, request.timed, t, perms, request.operation = "Write")

\* slice::binary_search_by_key: where the endpoint is, or would be inserted.
binary_search(e) == 1 + Cardinality({i \in DOMAIN endpoints : endpoints[i] < e})

\* PathExpander::resume_endpoint_index, with the cursors it leaves.
resume_endpoint_index(c) ==
    IF c.endpoint = None THEN [at |-> 1, cluster |-> 1, leaf |-> 1]
    ELSE IF c.endpoint \in Range(endpoints)
    THEN [at |-> binary_search(c.endpoint), cluster |-> c.cluster, leaf |-> c.leaf]
    ELSE [at |-> binary_search(c.endpoint), cluster |-> 1, leaf |-> 1]

\* The endpoints the scan enters, as indices from where it resumes.
Entered(p, r) ==
    {i \in r.at .. Len(endpoints) :
        p.endpoint \in {Every, endpoints[i]} /\ is_endpoint_accessible(accessor, endpoints[i])}

\* The clusters it looks into: the cluster cursor is for the first endpoint entered.
Slots(p, r) ==
    UNION {{<<i, c>> : c \in {d \in DOMAIN Shape[endpoints[i]] :
                               /\ p.cluster \in {Every, Shape[endpoints[i]][d].id}
                               /\ i = Min(Entered(p, r)) => d >= r.cluster}} : i \in Entered(p, r)}

Before(s, t) == \E k \in DOMAIN s : s[k] < t[k] /\ \A j \in 1 .. k - 1 : s[j] = t[j]
First(S) == CHOOSE s \in S : \A t \in S \ {s} : Before(s, t)

\* The leaves it comes to: the leaf cursor is for the first cluster looked into.
Found(p, r) ==
    LET slots == Slots(p, r)
    IN  UNION {{Append(s, l) : l \in {m \in DOMAIN Leaves(Shape[endpoints[s[1]]][s[2]]) :
                   /\ p.leaf \in {Every, Leaves(Shape[endpoints[s[1]]][s[2]])[m].id}
                   /\ s = First(slots) => m >= r.leaf}} : s \in slots}

LeafAt(x) == Leaves(Shape[endpoints[x[1]]][x[2]])[x[3]]
PathOf(x) == <<endpoints[x[1]], Shape[endpoints[x[1]]][x[2]].id, LeafAt(x).id>>

\* Mutant: the cache forgets a path when the item changes.
check_forgetful(x) ==
    IF last_authorized = PathOf(x) /\ cursor # NoCursor THEN "Ok"
    ELSE check_access(PathOf(x), LeafAt(x).access)

\* The check of a leaf: skipped when it was the last one to pass.
check(x) ==
    IF last_authorized = PathOf(x) THEN "Ok" ELSE check_access(PathOf(x), LeafAt(x).access)

NoOutput == [kind |-> "nothing"]
Refused(code) == [kind |-> "status", status |-> code]
Data(x) == [kind |-> "data", path |-> PathOf(x), granted |-> check_access(PathOf(x), LeafAt(x).access) = "Ok",
            cursor |-> [endpoint |-> endpoints[x[1]], cluster |-> x[2], leaf |-> x[3] + 1]]

\* PathExpander::next_for_path
next_for_path(p, c) ==
    LET r == resume_endpoint_index(c)
        found == Found(p, r)
        hits == {x \in found : PathOf(x) \notin request.filtered /\ check(x) = "Ok"}
    IN  CASE request.operation # "Read" /\ p.cluster = Every -> Refused("UnsupportedCluster")
          [] request.operation # "Read" /\ p.leaf = Every -> Refused("UnsupportedAttribute")
          [] is_wildcard(p) /\ hits = {} -> NoOutput
          [] hits # {} -> Data(First(hits))
          [] Entered(p, r) = {} -> Refused("UnsupportedEndpoint")
          [] Slots(p, r) = {} -> Refused("UnsupportedCluster")
          [] found = {} -> Refused(IF request.operation = "Invoke" THEN "UnsupportedCommand"
                                  ELSE "UnsupportedAttribute")
          [] PathOf(First(found)) \in request.filtered -> NoOutput
          [] OTHER -> Refused(check(First(found)))

\* What an item matches at this moment (for the properties).
Expected(k) ==
    LET p == request.items[k].path
        paths(e) == UNION {{<<e, c.id, l.id>> :
                        l \in {m \in Range(Leaves(c)) :
                                 /\ p.leaf \in {Every, m.id} /\ <<e, c.id, m.id>> \notin request.filtered
                                 /\ check_access(<<e, c.id, m.id>>, m.access) = "Ok"}} :
                        c \in {d \in Range(Shape[e]) : p.cluster \in {Every, d.id}}}
    IN  IF request.items[k].malformed \/ (request.operation # "Read" /\ Every \in {p.cluster, p.leaf}) THEN {}
        ELSE UNION {paths(e) : e \in {f \in Range(endpoints) : /\ p.endpoint \in {Every, f}
                                                               /\ is_endpoint_accessible(accessor, f)}}

\* What has been due stays due while it is still matched.
Narrow ==
    due' = [k \in DOMAIN due |-> IF k = item /\ cursor # NoCursor THEN due[k] \cap Expected(k)' ELSE due[k]]
-----------------------------------------------------------------------------
\* PathExpander::next, called by the loop of the responder.  A malformed item ends
\* the request.
next ==
    LET n == Len(request.items)
        Out(k) == IF request.items[k].malformed THEN [kind |-> "error"]
                  ELSE next_for_path(request.items[k].path, IF k = item THEN cursor ELSE NoCursor)
        producing == {k \in item .. n : Out(k) # NoOutput}
        k == IF producing = {} THEN n ELSE Min(producing)
        o == IF producing = {} THEN NoOutput ELSE Out(k)
        stays == o.kind = "data" /\ is_wildcard(request.items[k].path)
    IN  /\ ~Finished /\ current = None
        /\ item' = IF stays THEN k ELSE IF o.kind \in {"data", "status"} THEN k + 1 ELSE n + 1
        /\ cursor' = IF stays THEN o.cursor ELSE NoCursor
        /\ last_authorized' = IF o.kind = "data" THEN o.path ELSE last_authorized
        /\ current' = IF o.kind \in {"data", "status"} THEN [output |-> o, item |-> k] ELSE None
        /\ outputs' = IF o.kind \in {"data", "status"} THEN Append(outputs, [output |-> o, item |-> k])
                      ELSE outputs
        /\ due' = [j \in DOMAIN due |->
                     IF j \in item .. k /\ (j # item \/ cursor = NoCursor) THEN Expected(j) ELSE due[j]]
        /\ astray' = (astray \/ (cursor.endpoint \in Range(endpoints)
                                 /\ ~is_endpoint_accessible(accessor, cursor.endpoint)))
        /\ UNCHANGED <<endpoints, accessor, request, aclVars>>

\* The handlers that change the access control list and the groups, for an accessor
\* that has a fabric.
Handled ==
    LET o == current.output
        data == request.items[current.item].data
    IN  IF o.kind # "data" \/ accessor.fab_idx = 0 \/ request.operation = "Read" THEN UNCHANGED aclVars
        ELSE CASE o.path[3] = "ACL" -> set_acl(data)
               [] o.path[3] = "AddGroup" -> handle_add_group(o.path[1], data)
               [] o.path[3] = "RemoveGroup" -> handle_remove_group(o.path[1], data)
               [] o.path[3] = "RemoveAllGroups" -> handle_remove_all_groups(o.path[1])
               [] OTHER -> UNCHANGED aclVars

\* do_process_write and do_process_invoke
process ==
    /\ current # None /\ Handled /\ current' = None
    /\ UNCHANGED <<endpoints, accessor, request, item, cursor, last_authorized, outputs, astray>>
    /\ Narrow

\* The handler has run and its response does not fit: the request fails.
no_space ==
    /\ current # None /\ request.operation # "Read" /\ Handled
    /\ current' = None /\ cursor' = NoCursor /\ item' = Len(request.items) + 1
    /\ due' = [due EXCEPT ![current.item] = {}]
    /\ UNCHANGED <<endpoints, accessor, request, last_authorized, outputs, astray>>

\* What others do to the node: the application to its endpoints, other sessions of
\* the fabric to its entries and groups.
Elsewhere ==
    /\ \/ (\E e \in DOMAIN Shape : add(e) \/ remove(e)) /\ UNCHANGED aclVars
       \/ /\ \/ \E v \in Edits : set_acl(v)
             \/ \E e \in Range(endpoints) : \/ \E g \in DOMAIN groups : handle_add_group(e, g) \/ handle_remove_group(e, g)
                                            \/ handle_remove_all_groups(e)
             \/ remove_fabric
          /\ UNCHANGED endpoints
    /\ UNCHANGED <<accessor, request, item, cursor, last_authorized, current, outputs, astray>>
    /\ Narrow
-----------------------------------------------------------------------------
Yielded(k) == {outputs[i].output.path : i \in {j \in DOMAIN outputs :
                                          outputs[j].item = k /\ outputs[j].output.kind = "data"}}

\* A path expands to each attribute or command at most once, and to every one that
\* it matched from the first call to the last, whatever endpoints come and go and
\* whatever rights change; excepted is the case that the scan stands in an endpoint
\* that leaves the accessor's group (EveryMemberIsReached).
ExpansionIsExact ==
    /\ \A i, j \in DOMAIN outputs :
         /\ i < j /\ outputs[i].item = outputs[j].item
         => outputs[i].output.path # outputs[j].output.path
    /\ ~astray => \A k \in 1 .. item - 1 : due[k] \subseteq Yielded(k)

\* expand_invoke leaves out only what the accessor may not access: a command to all
\* endpoints of a group reaches every endpoint that is in the group throughout.
EveryMemberIsReached == \A k \in 1 .. item - 1 : due[k] \subseteq Yielded(k)

\* One decision is taken per path: an item for the path that was authorized last is
\* not refused for lack of rights, as when an administrator replaces the list that
\* gives them their rights, and nothing else is authorized without rights.
OneDecisionPerPath ==
    \A i \in DOMAIN outputs :
        LET o == outputs[i].output
            before == {j \in 1 .. i - 1 : outputs[j].output.kind = "data"}
            last == IF before = {} THEN None ELSE outputs[Max(before)].output.path
            p == request.items[outputs[i].item].path
        IN  /\ o.kind = "data" => o.granted \/ o.path = last
            /\ o = Refused("UnsupportedAccess") => <<p.endpoint, p.cluster, p.leaf>> # last
=============================================================================
