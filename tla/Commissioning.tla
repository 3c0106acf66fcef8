----------------------------- MODULE Commissioning ----------------------------
(***************************************************************************)
(* A node being commissioned: the commissioning window, the fail-safe, the *)
(* fabric table, the sessions and the key-value store, under the commands  *)
(* of commissioners and administrators, timeouts and restarts              *)
(* (the clusters of rs-matter/src/dm/clusters that change them, and        *)
(* check_timeouts of rs-matter/src/dm.rs).                                 *)
(*                                                                         *)
(* A handler runs under the lock of the node's state from its first check  *)
(* to its last store, so it is one action.  A session that is marked       *)
(* expired accepts no message, so it is as good as removed.  The access    *)
(* control list lets a PASE session do everything and a CASE session what  *)
(* an administrator of an existing fabric may do.                          *)
(***************************************************************************)
EXTENDS FailSafe, Pase

CONSTANT Slots  \* places of the session table

VARIABLES sessions,  \* the session of each place
          timers     \* whether the task that checks the timeouts is running

nodeVars == <<fabrics, stored, failsafeVars>>
vars == <<nodeVars, paseVars, sessions, timers>>

NoSession == [mode |-> "none", fab_idx |-> 0]
SessionMode == {NoSession} \cup [mode : {"pase"}, fab_idx : 0 .. MAX_FAB_IDX]
                           \cup [mode : {"case"}, fab_idx : FabIdx]

Init ==
    /\ stored = <<>> /\ stored_networks = 0
    /\ FailSafeInit /\ PaseInit
    /\ sessions = [n \in Slots |-> NoSession]
    /\ timers = TRUE

\* Fabrics::allow
allow(s) == \/ s.mode = "pase"
            \/ s.mode = "case" /\ s.fab_idx \in DOMAIN fabrics

\* Sessions::remove_pase and Sessions::remove_for_fabric
remove_pase == [n \in Slots |-> IF sessions[n].mode = "pase" THEN NoSession ELSE sessions[n]]
remove_for_fabric(i) ==
    [n \in Slots |-> IF sessions[n].fab_idx = i THEN NoSession ELSE sessions[n]]

-------------------------------------------------------------------------------
\* Pake3 with the right proof: a PASE session in a free or evicted place, and
\* the fail-safe is armed unless it is already.
pase_established(x, n) ==
    /\ pake3(x, TRUE)
    /\ sessions' = [sessions EXCEPT ![n] = [mode |-> "pase", fab_idx |-> 0]]
    /\ \/ arm(sessions'[n]) /\ UNCHANGED <<fabrics, stored>>
       \/ failsafe.armed /\ UNCHANGED nodeVars
    /\ UNCHANGED timers

\* Sigma3: a CASE session on a fabric that still exists.
case_established(i, n) ==
    /\ i \in DOMAIN fabrics
    /\ sessions' = [sessions EXCEPT ![n] = [mode |-> "case", fab_idx |-> i]]
    /\ UNCHANGED <<nodeVars, paseVars, timers>>

\* A place is reclaimed, or the peer closes its session.
session_gone(n) ==
    /\ sessions[n] # NoSession
    /\ sessions' = [sessions EXCEPT ![n] = NoSession]
    /\ UNCHANGED <<nodeVars, paseVars, timers>>

-------------------------------------------------------------------------------
\* The General Commissioning cluster.
handle_arm_fail_safe(s) ==
    /\ allow(s)
    /\ ~(comm_window.open /\ s.mode = "case")
    /\ arm(s)
    /\ UNCHANGED <<fabrics, stored, paseVars, sessions, timers>>

\* ArmFailSafe(0)
force_expire(s) ==
    /\ allow(s)
    /\ expire
    /\ sessions' = remove_pase
    /\ UNCHANGED <<paseVars, timers>>

\* Mutant: the PASE sessions stay.
handle_commissioning_complete_pase(s) ==
    /\ allow(s)
    /\ disarm(s) /\ close_comm_window
    /\ UNCHANGED <<sessions, timers>>

handle_commissioning_complete(s) ==
    /\ allow(s)
    /\ disarm(s) /\ close_comm_window
    /\ sessions' = remove_pase
    /\ UNCHANGED timers

-------------------------------------------------------------------------------
\* The Operational Credentials cluster.
handle_credentials(s) ==
    /\ allow(s)
    /\ \/ \E identity \in Identities : add_trusted_root_cert(s, identity)
       \/ add_csr_req(s)
       \/ update_csr_req(s)
       \/ update_noc(s)
    /\ UNCHANGED <<paseVars, sessions, timers>>

\* AddNOC: a PASE session moves to the new fabric (upgrade_fabric_idx).
handle_add_noc(n) ==
    /\ allow(sessions[n])
    /\ add_noc(sessions[n])
    /\ sessions' = IF sessions[n].mode = "pase"
                   THEN [sessions EXCEPT ![n].fab_idx = next_fab_idx] ELSE sessions
    /\ UNCHANGED <<paseVars, timers>>

handle_remove_fabric(s, i) ==
    /\ allow(s) /\ i \in DOMAIN fabrics
    /\ fabrics' = Without(fabrics, i)
    /\ stored' = Without(stored, i)
    /\ sessions' = remove_for_fabric(i)
    /\ UNCHANGED <<failsafeVars, paseVars, timers>>

\* SetVIDVerificationStatement stores the whole fabric, unless its credentials
\* are still to be completed.
handle_set_vid_verification_statement(s) ==
    /\ allow(s) /\ s.fab_idx \in DOMAIN fabrics
    /\ ~has_pending_noc_for(s.fab_idx)
    /\ stored' = With(stored, s.fab_idx, fabrics[s.fab_idx])
    /\ UNCHANGED <<fabrics, failsafeVars, paseVars, sessions, timers>>

-------------------------------------------------------------------------------
\* Mutant: the fail-safe is not looked at.
set_acl_at_once(s) ==
    /\ allow(s) /\ s.fab_idx \in DOMAIN fabrics
    /\ stored' = With(stored, s.fab_idx, fabrics[s.fab_idx])
    /\ UNCHANGED <<fabrics, failsafeVars, paseVars, sessions, timers>>

\* A write to the access control list, the groups or the group keys: the whole
\* fabric is stored, unless the fail-safe is armed for it.
set_acl(s) ==
    /\ allow(s) /\ s.fab_idx \in DOMAIN fabrics
    /\ ~is_armed_for(s.fab_idx)
    /\ stored' = With(stored, s.fab_idx, fabrics[s.fab_idx])
    /\ UNCHANGED <<fabrics, failsafeVars, paseVars, sessions, timers>>

\* The Network Commissioning cluster: the networks may only be changed under
\* the fail-safe of the caller, the interface by anyone.
change_networks(s) ==
    /\ allow(s) /\ check_armed(s)
    /\ networks' = 1 - networks
    /\ UNCHANGED <<fabrics, stored, failsafe, secret_key, root_ca, stored_networks,
                   paseVars, sessions, timers>>

set_interface_enabled(s) ==
    /\ allow(s)
    /\ networks' = 1 - networks
    /\ stored_networks' = IF failsafe.armed THEN stored_networks ELSE networks'
    /\ UNCHANGED <<fabrics, stored, failsafe, secret_key, root_ca, paseVars, sessions, timers>>

\* The Administrator Commissioning cluster.
handle_open_commissioning_window(s) ==
    /\ allow(s)
    /\ open_comm_window
    /\ UNCHANGED <<nodeVars, sessions, timers>>

\* Revoking expires the fail-safe first, and is refused if that fails.
handle_revoke_commissioning(s) ==
    /\ allow(s)
    /\ close_comm_window
    /\ \/ expire /\ sessions' = remove_pase
       \/ ~failsafe.armed /\ UNCHANGED <<nodeVars, sessions>>
    /\ UNCHANGED timers

-------------------------------------------------------------------------------
\* DataModel::check_timeouts, once a second: the fail-safe, if its timer has
\* run out, then the window.  An error ends the task, and DataModel::run.
check_timeouts(elapsed) ==
    /\ timers
    /\ IF elapsed /\ expire_fails
       THEN timers' = FALSE /\ UNCHANGED <<nodeVars, paseVars, sessions>>
       ELSE /\ \/ elapsed /\ expire /\ sessions' = remove_pase
               \/ ~elapsed /\ UNCHANGED <<nodeVars, sessions>>
            /\ comm_window' = Checked(comm_window)
            /\ UNCHANGED <<session_timeout, handshake, timers>>

\* The node restarts from what it has stored; nothing else survives.
restart ==
    /\ fabrics' = load_persist /\ networks' = stored_networks
    /\ failsafe' = Idle
    /\ secret_key' = FALSE /\ root_ca' = Outdated(root_ca)
    /\ comm_window' \in {Opened, Closed}
    /\ session_timeout' = NoTimeout
    /\ handshake' = [x \in Exchanges |-> "none"]
    /\ sessions' = [n \in Slots |-> NoSession]
    /\ timers' = TRUE
    /\ UNCHANGED <<stored, stored_networks>>

Command(n) ==
    \/ handle_add_noc(n)
    \/ \E s \in {sessions[n]} :
          \/ handle_arm_fail_safe(s) \/ force_expire(s) \/ handle_commissioning_complete(s)
          \/ handle_credentials(s) \/ handle_set_vid_verification_statement(s)
          \/ \E i \in FabIdx : handle_remove_fabric(s, i)
          \/ set_acl(s) \/ change_networks(s) \/ set_interface_enabled(s)
          \/ handle_open_commissioning_window(s) \/ handle_revoke_commissioning(s)

Handshakes ==
    \/ PaseStep /\ UNCHANGED <<nodeVars, sessions, timers>>
    \/ \E x \in Exchanges, n \in Slots : pase_established(x, n)
    \/ \E i \in FabIdx, n \in Slots : case_established(i, n)
    \/ \E n \in Slots : session_gone(n)

Next ==
    \/ \E n \in Slots : Command(n)
    \/ Handshakes
    \/ \E elapsed \in BOOLEAN : check_timeouts(elapsed)
    \/ restart

Spec == Init /\ [][Next]_vars
-------------------------------------------------------------------------------
\* The state of the node has its type; in particular a commissioning window is
\* closed at the latest by its MAX_PAKE_FAILURES-th failure.
CommissioningTypeOK ==
    /\ fabrics \in FabricTable /\ stored \in FabricTable
    /\ Cardinality(DOMAIN fabrics) <= MAX_FABRICS
    /\ failsafe \in [armed : BOOLEAN, fab_idx : 0 .. MAX_FAB_IDX, flags : SUBSET NocFlags]
    /\ networks \in NetworkConfigs /\ stored_networks \in NetworkConfigs
    /\ sessions \in [Slots -> SessionMode]
    /\ PaseTypeOK

\* The credentials and networks that a restart would lose are what the fail-safe
\* stands for: every fabric but the one it is armed for is in the store with the
\* credentials it has in memory, and the store holds no other; and when it is
\* not armed the same is true of the networks (FailSafe::expire and disarm,
\* handle_remove_fabric).
OnlyTheFailSafeIsUncommitted ==
    /\ \A i \in (DOMAIN fabrics \cup DOMAIN stored) \ {failsafe.fab_idx} :
          /\ i \in DOMAIN fabrics \cap DOMAIN stored
          /\ fabrics[i].identity = stored[i].identity /\ fabrics[i].noc = stored[i].noc
    /\ ~failsafe.armed => networks = stored_networks

\* A commissioning channel is never without a fail-safe to end it, and one that
\* has moved to a fabric is that fabric's, before its completion; so AddNOC
\* never finds a session that it cannot move (FailSafe::expire,
\* handle_commissioning_complete, Session::upgrade_fabric_idx).
ChannelsAreGuarded ==
    \A n \in Slots : sessions[n].mode = "pase" =>
        /\ failsafe.armed
        /\ sessions[n].fab_idx # 0 =>
              is_armed_for(sessions[n].fab_idx) /\ "ADD_NOC_RECVD" \in failsafe.flags

\* Two fabrics are never the same fabric, and the credentials of each were
\* staged, root and key, in the context that made them: nothing left over from
\* an earlier context, however it ended (FailSafe::add_noc, update_noc and arm).
CredentialsOfOneContext ==
    /\ \A i \in DOMAIN fabrics : fabrics[i].fresh
    /\ \A i, j \in DOMAIN fabrics : fabrics[i].identity = fabrics[j].identity => i = j

\* While the fail-safe is armed the store never gains or changes credentials,
\* whatever else is written to a fabric meanwhile: a rollback or a restart
\* brings back what was there when it was armed (has_pending_noc_for,
\* is_armed_for).
NothingIsStoredEarly ==
    [][failsafe.armed /\ failsafe'.armed =>
         /\ DOMAIN stored' \subseteq DOMAIN stored
         /\ \A i \in DOMAIN stored' : stored'[i] = stored[i]]_vars

\* A fail-safe whose time has run out is disarmed by the next check of the
\* timeouts (FailSafe::check_failsafe_timeout).
ExpiryDisarms == [][check_timeouts(TRUE) => ~failsafe'.armed]_vars
===============================================================================
