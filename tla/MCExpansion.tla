----------------------------- MODULE MCExpansion -----------------------------
(***************************************************************************)
(* The requests of MCParts: a node with a root endpoint and two lights,    *)
(* which have the same clusters in another order, an access control list   *)
(* with an entry for its administrator and one for a group, and requests   *)
(* of the administrator, of the group and of a PASE session.               *)
(***************************************************************************)
EXTENDS PathExpander, TLC

CONSTANTS g1, MaxElsewhere
VARIABLE elsewhere

requestVars == <<expandVars, aclVars, elsewhere>>

RV == {"READ", "V"}
RWFA == {"READ", "WRITE", "FAB_SCOPED", "A"}
FWM == {"WRITE", "FAB_SCOPED", "M", "A"}
Leaf(i, a) == [id |-> i, access |-> a]

AclCluster ==
    [id |-> "AccessControl", commands |-> <<>>,
     attributes |-> <<Leaf("ACL", RWFA), Leaf("Entries", RV)>>]
GroupsCluster ==
    [id |-> "Groups", attributes |-> <<Leaf("NameSupport", RV)>>,
     commands |-> <<Leaf("AddGroup", FWM), Leaf("RemoveGroup", FWM), Leaf("RemoveAllGroups", FWM)>>]
OnOffCluster ==
    [id |-> "OnOff", attributes |-> <<Leaf("OnOff", RV), Leaf("OnTime", RV)>>,
     commands |-> <<Leaf("Off", {"WRITE", "O", "M", "A", "TIMED_ONLY"})>>]

MCShape == (0 :> <<AclCluster>>) @@ (1 :> <<GroupsCluster, OnOffCluster>>) @@ (2 :> <<OnOffCluster, GroupsCluster>>)
MCDeviceTypes == (0 :> {}) @@ (1 :> {"light"}) @@ (2 :> {"light"})

Ace(mode, p, s, t) == [auth_mode |-> mode, privilege |-> p, subjects |-> {s}, targets |-> t]
Target(e, c, d) == [endpoint |-> e, cluster |-> c, device_type |-> d]
Owner == Ace("Case", Admin, <<"id", 1>>, {})
Viewer == Ace("Case", {"V"}, <<"cat", 1, 1>>, {Target(Every, Every, "light")})
Members == Ace("Group", {"V", "O", "M"}, <<"id", g1>>, {})
Invalid == Ace("Group", Admin, <<"id", g1>>, {})

Administrator == [auth_mode |-> "Case", fab_idx |-> 1, subjects |-> {<<"id", 1>>, <<"cat", 1, 2>>}]
Groupcaster == [auth_mode |-> "Group", fab_idx |-> 1, subjects |-> {<<"id", g1>>}]
Commissioner == [auth_mode |-> "Pase", fab_idx |-> 0, subjects |-> {<<"id", 1>>}]

Asked(e, c, l, d) == [path |-> [endpoint |-> e, cluster |-> c, leaf |-> l], data |-> d, malformed |-> FALSE]
Write(v) == Asked(0, "AccessControl", "ACL", v)
Made(a, op, its, filtered) ==
    [accessor |-> a,
     request |-> [operation |-> op, timed |-> FALSE, items |-> its, filtered |-> filtered]]

MCRequestsMade ==
    {Made(Administrator, "Read", <<Asked(Every, Every, Every, None)>>, {<<1, "OnOff", "OnOff">>}),
     Made(Administrator, "Read", <<Asked(Every, "OnOff", Every, None), Asked(1, "OnOff", "OnOff", None)>>, {}),
     Made(Groupcaster, "Invoke", <<Asked(Every, "Groups", "RemoveAllGroups", None)>>, {}),
     Made(Groupcaster, "Invoke", <<Asked(Every, "Groups", "AddGroup", g1), Asked(Every, "Groups", "RemoveGroup", g1)>>, {}),
     Made(Administrator, "Invoke",
          <<Asked(1, "OnOff", "Off", None), Asked(Every, Every, "Off", None), Asked(1, "Groups", "Off", None),
            [Asked(1, "Groups", "AddGroup", g1) EXCEPT !.malformed = TRUE]>>, {})}
    \cup {Made(a, "Write", <<Write([kind |-> "Replace", list |-> <<>>]),
                             Write([kind |-> "Add", entry |-> Viewer]),
                             Write([kind |-> "Add", entry |-> Owner])>>, {}) :
          a \in {Administrator, Commissioner}}

MCEdits == {[kind |-> "Remove", index |-> 1], [kind |-> "Update", index |-> 1, entry |-> Viewer],
            [kind |-> "Add", entry |-> Invalid]}

RequestsInit ==
    /\ ExpandInit /\ elsewhere = 0
    /\ endpoints \in {<<0, 1, 2>>, <<0, 2>>} /\ fabric = TRUE /\ acl = <<Owner, Members>>
    /\ groups = g1 :> {1, 2}

\* MaxElsewhere bounds what happens elsewhere while a request is expanded.
RequestsNext ==
    \/ (next \/ process \/ no_space) /\ UNCHANGED elsewhere
    \/ /\ ~Finished /\ elsewhere < MaxElsewhere
       /\ elsewhere' = elsewhere + 1 /\ Elsewhere
=============================================================================
