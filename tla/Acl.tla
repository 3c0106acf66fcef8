--------------------------------- MODULE Acl ---------------------------------
(***************************************************************************)
(* Access control: who may do what to which attribute or command           *)
(* (rs-matter/src/acl.rs, dm/types/privilege.rs, the checks of             *)
(* dm/types/cluster.rs, the list of entries and the groups of              *)
(* rs-matter/src/fabric.rs, and the handlers of the Access Control and     *)
(* Groups clusters that change them).                                      *)
(*                                                                         *)
(* The state is that of the accessor's fabric, which may be removed.  The  *)
(* bits of Access and Privilege are sets: "V", "O", "M" and "A" are the    *)
(* NEED_ flags.  A subject is <<"id", n>> for a node or a group, and       *)
(* <<"cat", id, version>> for a NOC CAT.                                   *)
(***************************************************************************)
EXTENDS Integers, Sequences, FiniteSets, Functions, Vec

CONSTANTS MAX_ACL_ENTRIES_PER_FABRIC,
          MaxGroups, MaxGroupEndpoints,  \* capacities of the group table
          KeyedGroups,                   \* groups with a key in the key map
          DeviceTypes,                   \* of each endpoint
          Every                          \* None, in a path or a target

VARIABLES fabric,  \* the fabric exists
          acl,     \* its entries, in order
          groups   \* the endpoints in each group

aclVars == <<fabric, acl, groups>>

Privileges == {{"V"}, {"V", "O"}, {"V", "O", "M"}, {"V", "O", "M", "A"}, {"P"}}
Admin == {"V", "O", "M", "A"}

AclTypeOK ==
    /\ fabric \in BOOLEAN
    /\ \A i \in DOMAIN acl : acl[i].privilege \in Privileges /\ acl[i].auth_mode \in {"Case", "Group"}
    /\ Len(acl) <= MAX_ACL_ENTRIES_PER_FABRIC
    /\ Cardinality({g \in DOMAIN groups : groups[g] # {}}) <= MaxGroups
    /\ \A g \in DOMAIN groups : Cardinality(groups[g]) <= MaxGroupEndpoints
-----------------------------------------------------------------------------
\* AccessorSubjects::matches: a CAT of the accessor also matches lower versions.
matches_subject(subjects, acl_subject) ==
    \E v \in subjects :
        \/ v = acl_subject
        \/ /\ v[1] = "cat" /\ acl_subject[1] = "cat"
           /\ v[2] = acl_subject[2] /\ v[3] >= acl_subject[3]

\* AclEntry::match_accessor; an entry has the index of the fabric it is in.
match_accessor(e, accessor) ==
    /\ e.auth_mode = accessor.auth_mode
    /\ e.subjects = {} \/ \E s \in e.subjects : matches_subject(accessor.subjects, s)

\* Access::is_ok
is_ok(perms, operation, privilege) ==
    LET need == IF operation = "READ" THEN {"V", "O", "M", "A"} ELSE {"O", "M", "A"}
    IN  perms \cap need \cap privilege # {} /\ operation \in perms

\* AclEntry::match_access_desc, on a concrete path <<endpoint, cluster, leaf>>.
match_access_desc(e, path, perms, operation) ==
    /\ \/ e.targets = {}
       \/ \E t \in e.targets :
            /\ t.endpoint \in {Every, path[1]} /\ t.cluster \in {Every, path[2]}
            /\ t.device_type \in {Every} \cup DeviceTypes[path[1]]
    /\ is_ok(perms, operation, e.privilege)

\* Fabrics::allow and Fabric::allow.
allow(accessor, path, perms, operation) ==
    \/ accessor.auth_mode = "Pase"
    \/ /\ accessor.fab_idx # 0
       /\ \E i \in DOMAIN acl : /\ match_accessor(acl[i], accessor)
                                /\ match_access_desc(acl[i], path, perms, operation)

\* Cluster::check_attr_access
check_attr_access(accessor, timed, path, perms, write) ==
    LET operation == IF write THEN "WRITE" ELSE "READ"
    IN  CASE write /\ ~timed /\ "TIMED_ONLY" \in perms -> "NeedsTimedInteraction"
          [] operation \notin perms -> IF write THEN "UnsupportedWrite" ELSE "UnsupportedRead"
          [] OTHER -> IF allow(accessor, path, perms, operation) THEN "Ok" ELSE "UnsupportedAccess"

\* Cluster::check_cmd_access
check_cmd_access(accessor, timed, path, perms) ==
    CASE ~timed /\ "TIMED_ONLY" \in perms -> "NeedsTimedInteraction"
      [] "FAB_SCOPED" \in perms /\ accessor.fab_idx = 0 -> "UnsupportedAccess"
      [] OTHER -> IF allow(accessor, path, perms, "WRITE") THEN "Ok" ELSE "UnsupportedAccess"

\* Accessor::is_endpoint_accessible: a group reaches its members only.
is_endpoint_accessible(accessor, endpoint) ==
    \/ accessor.auth_mode # "Group"
    \/ /\ accessor.fab_idx # 0
       /\ \E g \in DOMAIN groups : <<"id", g>> \in accessor.subjects /\ endpoint \in groups[g]
-----------------------------------------------------------------------------
\* AclEntry::init_with: the entries that are refused with ConstraintError.
is_valid(e) ==
    /\ e.auth_mode # "Pase" /\ ~(e.auth_mode = "Group" /\ e.privilege = Admin)
    /\ \A t \in e.targets : /\ t.endpoint # Every \/ t.cluster # Every \/ t.device_type # Every
                            /\ t.endpoint = Every \/ t.device_type = Every

\* AclHandler::set_acl: a list replaces all entries or none, an index edits one.
set_acl(value) ==
    /\ acl' = CASE ~fabric -> acl
                [] value.kind = "Replace" ->
                     IF Len(value.list) <= MAX_ACL_ENTRIES_PER_FABRIC /\ \A i \in DOMAIN value.list : is_valid(value.list[i])
                     THEN value.list ELSE acl
                [] value.kind = "Add" ->
                     IF Len(acl) < MAX_ACL_ENTRIES_PER_FABRIC /\ is_valid(value.entry)
                     THEN Append(acl, value.entry) ELSE acl
                [] value.kind = "Update" ->
                     IF value.index \in DOMAIN acl /\ is_valid(value.entry)
                     THEN [acl EXCEPT ![value.index] = value.entry] ELSE acl
                [] value.kind = "Remove" ->
                     IF value.index \in DOMAIN acl THEN vec_remove(acl, value.index) ELSE acl
    /\ UNCHANGED <<fabric, groups>>

\* GroupsHandler::handle_add_group and Groups::add
handle_add_group(endpoint, g) ==
    /\ groups' = IF /\ fabric /\ g \in KeyedGroups
                    /\ groups[g] # {} \/ Cardinality({h \in DOMAIN groups : groups[h] # {}}) < MaxGroups
                    /\ Cardinality(groups[g] \cup {endpoint}) <= MaxGroupEndpoints
                 THEN [groups EXCEPT ![g] = @ \cup {endpoint}] ELSE groups
    /\ UNCHANGED <<fabric, acl>>

\* GroupsHandler::handle_remove_group and Groups::remove
handle_remove_group(endpoint, g) ==
    groups' = [groups EXCEPT ![g] = @ \ {endpoint}] /\ UNCHANGED <<fabric, acl>>

\* GroupsHandler::handle_remove_all_groups
handle_remove_all_groups(endpoint) ==
    groups' = [g \in DOMAIN groups |-> groups[g] \ {endpoint}] /\ UNCHANGED <<fabric, acl>>

\* Fabrics::remove, of the accessor's fabric.
remove_fabric ==
    fabric' = FALSE /\ acl' = <<>> /\ groups' = [g \in DOMAIN groups |-> {}]
=============================================================================
