------------------------------- MODULE Wireless ------------------------------
(***************************************************************************)
(* Wireless networks (rs-matter/src/dm/networks/wireless.rs), the manager  *)
(* task that keeps a commissioned node connected to one of them            *)
(* (wireless/mgr.rs) and the Network Commissioning cluster and the         *)
(* fail-safe, which change them meanwhile (dm/clusters/net_comm.rs,        *)
(* rs-matter/src/failsafe.rs).                                             *)
(*                                                                         *)
(* A network is a record of its id and its password; for Thread it is the  *)
(* dataset and its extended PAN id.  The manager is polled by its          *)
(* executor: an action of it is what one poll does between two awaits, and *)
(* select polls the notification of a change first.  Of the fail-safe and  *)
(* the sessions only what concerns the networks is here.                   *)
(***************************************************************************)
EXTENDS Integers, Sequences, Functions, Vec

CONSTANTS Creds,             \* the networks that may be configured
          MaxNetworks,       \* capacity of WirelessNetworks
          NoNetwork,         \* Option::None
          MaxNetworkEvents,  \* bound on what happens to the networks
          MaxFailures        \* bound on the failures to connect to a network that works

ASSUME WirelessAssumption == MaxNetworks \in Nat \ {0} /\ NoNetwork \notin Creds

VARIABLES
    networks, commissioned,  \* WirelessNetworks
    stored,                  \* its copy under NETWORKS_KEY, NoNetwork when there is none
    armed,                   \* the fail-safe
    changed,                 \* SharedNetworks::state_changed, a latched Notification
    link,                    \* NetCtl: the node is connected
    works,                   \* NetCtl: the networks that are on the air, as configured
    manager,                 \* what the manager waits for, and its locals
    unnoticed,               \* ghost: the networks were changed behind the manager's back
    networkEvents, failures  \* counts, for the bounds

wirelessVars == <<networks, commissioned, stored, armed, changed, link, works, manager,
                  unnoticed, networkEvents, failures>>

Attempts == 3
Waits == {"start", "uncommissioned", "connected", "connecting", "delay", "online", "idle"}

Waiting(at) == [at |-> at, creds |-> NoNetwork, attempt |-> 0]
\* Where the network of an id is; there is at most one.
Position(id) ==
    LET at == {i \in DOMAIN networks : networks[i].id = id}
    IN  IF at = {} THEN 0 ELSE CHOOSE i \in at : TRUE
Current == [networks |-> networks, commissioned |-> commissioned]

\* WirelessNetworks::load_persist at startup, and WirelessMgr::new.
WirelessInit ==
    /\ stored \in {NoNetwork} \cup {[networks |-> <<c>>, commissioned |-> TRUE] : c \in Creds}
    /\ networks = IF stored = NoNetwork THEN <<>> ELSE stored.networks
    /\ commissioned = (stored # NoNetwork)
    /\ works \in {{c} : c \in Creds}
    /\ armed = FALSE /\ changed = FALSE /\ link = FALSE /\ manager = Waiting("start")
    /\ unnoticed = FALSE /\ networkEvents = 0 /\ failures = 0
-----------------------------------------------------------------------------
\* Mutant: the last network is not followed by the first.
next_network_once(last) ==
    IF last = NoNetwork /\ networks # <<>> THEN networks[1]
    ELSE IF last # NoNetwork /\ Position(last.id) \in 1 .. Len(networks) - 1 THEN networks[Position(last.id) + 1]
    ELSE NoNetwork

\* WirelessNetworks::next_network: the one after the last, or else the first.
next_network(last) ==
    IF last # NoNetwork /\ Position(last.id) \in 1 .. Len(networks) - 1 THEN networks[Position(last.id) + 1]
    ELSE IF networks # <<>> THEN networks[1]
    ELSE NoNetwork

\* The head of the loop of run_connect.
next_creds(last) ==
    /\ manager' = IF next_network(last) = NoNetwork THEN Waiting("idle")
                  ELSE [at |-> "connecting", creds |-> next_network(last), attempt |-> 1]
    /\ unnoticed' = FALSE

\* The head of the loop of run, also when the networks have changed.
run ==
    /\ manager.at = "start" \/ changed
    /\ changed' = FALSE
    /\ IF commissioned /\ ~link THEN next_creds(NoNetwork)
       ELSE /\ manager' = Waiting(IF commissioned THEN "connected" ELSE "uncommissioned")
            /\ unnoticed' = FALSE
    /\ UNCHANGED <<networks, commissioned, stored, armed, link, works, networkEvents, failures>>

\* wait_while_connected_status ends: before the first network is tried, or after
\* the manager has connected.
disconnected ==
    /\ ~changed /\ ~link
    /\ \/ manager.at = "connected" /\ next_creds(NoNetwork)
       \/ /\ manager.at = "online" /\ UNCHANGED unnoticed
          /\ manager' = [manager EXCEPT !.at = "connecting", !.attempt = 1]
    /\ UNCHANGED <<networks, commissioned, stored, armed, changed, link, works, networkEvents, failures>>

\* NetCtl::connect succeeds.
connect_ok ==
    /\ manager.at = "connecting" /\ ~changed /\ manager.creds \in works
    /\ link' = TRUE /\ manager' = [manager EXCEPT !.at = "online"]
    /\ UNCHANGED <<networks, commissioned, stored, armed, changed, works, unnoticed, networkEvents, failures>>

\* It fails; after the last attempt the next network is tried.
connect_failed ==
    /\ manager.at = "connecting" /\ ~changed
    /\ manager.creds \in works => failures < MaxFailures
    /\ failures' = IF manager.creds \in works THEN failures + 1 ELSE failures
    /\ link' = FALSE
    /\ IF manager.attempt < Attempts THEN manager' = [manager EXCEPT !.at = "delay"] /\ UNCHANGED unnoticed
       ELSE next_creds(manager.creds)
    /\ UNCHANGED <<networks, commissioned, stored, armed, changed, works, networkEvents>>

\* The timer of connect.
retry ==
    /\ manager.at = "delay" /\ ~changed
    /\ manager' = [manager EXCEPT !.at = "connecting", !.attempt = @ + 1]
    /\ UNCHANGED <<networks, commissioned, stored, armed, changed, link, works, unnoticed, networkEvents, failures>>

Manager == run \/ disconnected \/ connect_ok \/ connect_failed \/ retry
-----------------------------------------------------------------------------
\* with_armed_failsafe_ex, and SharedNetworksInstance: a change is notified.
Configured(new) ==
    /\ armed /\ networks' = new /\ changed' = TRUE
    /\ UNCHANGED <<commissioned, stored, armed, link, works, manager, unnoticed, failures>>

\* WirelessNetworks::add_or_update, and the update of a network in its place.
handle_add_or_update_network(c) ==
    /\ Position(c.id) > 0 \/ Len(networks) < MaxNetworks
    /\ Configured(IF Position(c.id) > 0 THEN [networks EXCEPT ![Position(c.id)] = c] ELSE Append(networks, c))

\* Mutant: the removal is not notified.
handle_remove_network_quiet(id) ==
    /\ armed /\ Position(id) > 0
    /\ networks' = vec_remove(networks, Position(id))
    /\ UNCHANGED <<commissioned, stored, armed, changed, link, works, manager, unnoticed, failures>>

\* WirelessNetworks::remove
handle_remove_network(id) ==
    Position(id) > 0 /\ Configured(vec_remove(networks, Position(id)))

\* WirelessNetworks::reorder
handle_reorder_network(index, id) ==
    /\ Position(id) > 0 /\ index <= Len(networks)
    /\ Configured(vec_insert(vec_remove(networks, Position(id)), index, networks[Position(id)]))

\* NetCommHandler::handle_connect_network, which connects by itself.
handle_connect_network(id) ==
    /\ armed /\ Position(id) > 0
    /\ link' = (networks[Position(id)] \in works)
    /\ UNCHANGED <<networks, commissioned, stored, armed, changed, works, manager, unnoticed, failures>>

\* NetCommHandler::set_interface_enabled
set_interface_enabled ==
    /\ changed' = TRUE /\ stored' = IF armed THEN stored ELSE Current
    /\ UNCHANGED <<networks, commissioned, armed, link, works, manager, unnoticed, failures>>

\* FailSafe::arm
arm_fail_safe ==
    /\ ~armed /\ armed' = TRUE
    /\ UNCHANGED <<networks, commissioned, stored, changed, link, works, manager, unnoticed, failures>>

\* GenCommHandler::handle_commissioning_complete
handle_commissioning_complete ==
    /\ armed /\ armed' = FALSE
    /\ commissioned' = TRUE /\ changed' = TRUE /\ stored' = [Current EXCEPT !.commissioned = TRUE]
    /\ UNCHANGED <<networks, link, works, manager, unnoticed, failures>>

\* FailSafe::expire: reset notifies the manager, load does not.
expire ==
    /\ armed /\ armed' = FALSE
    /\ IF stored = NoNetwork
       THEN networks' = <<>> /\ commissioned' = FALSE /\ changed' = TRUE /\ UNCHANGED unnoticed
       ELSE /\ networks' = stored.networks /\ commissioned' = stored.commissioned
            /\ unnoticed' = (unnoticed \/ networks # stored.networks) /\ UNCHANGED changed
    /\ UNCHANGED <<stored, link, works, manager, failures>>

lose_link ==
    /\ link /\ link' = FALSE
    /\ UNCHANGED <<networks, commissioned, stored, armed, changed, works, manager, unnoticed, failures>>

restart ==
    /\ networks' = (IF stored = NoNetwork THEN <<>> ELSE stored.networks)
    /\ commissioned' = (stored # NoNetwork /\ stored.commissioned)
    /\ armed' = FALSE /\ changed' = FALSE /\ link' = FALSE /\ manager' = Waiting("start") /\ unnoticed' = FALSE
    /\ UNCHANGED <<stored, works, failures>>

Surroundings ==
    /\ networkEvents < MaxNetworkEvents /\ networkEvents' = networkEvents + 1
    /\ \/ \E c \in Creds : \/ handle_add_or_update_network(c)
                           \/ handle_remove_network(c.id)
                           \/ \E i \in 1 .. Len(networks) : handle_reorder_network(i, c.id)
                           \/ handle_connect_network(c.id)
       \/ set_interface_enabled
       \/ arm_fail_safe \/ handle_commissioning_complete \/ expire \/ lose_link \/ restart

WirelessNext == Manager \/ Surroundings

WirelessSpec == WirelessInit /\ [][WirelessNext]_wirelessVars
-----------------------------------------------------------------------------
WirelessTypeOK ==
    /\ networks \in Seq(Creds) /\ Len(networks) <= MaxNetworks
    /\ \A i, j \in DOMAIN networks : networks[i].id = networks[j].id => i = j
    /\ manager.at \in Waits /\ manager.attempt \in 0 .. Attempts
    /\ manager.at \in {"connecting", "delay", "online"} <=> manager.creds # NoNetwork

\* An attempt to connect is made with a network as it is configured when the attempt
\* begins, although the manager keeps a copy over its retries and delays and the
\* cluster changes the networks meanwhile: select drops the attempts (WirelessMgr::run).
\* Excepted is what expire restores without notice (RestoredAreTried).
AttemptsAreCurrent ==
    [][/\ manager'.at = "connecting" /\ manager' # manager /\ ~unnoticed'
       => manager'.creds \in Range(networks)]_wirelessVars

Connectable == commissioned /\ Range(networks) \cap works # {}
Missed == manager.at = "idle" /\ unnoticed

\* A commissioned node that is disconnected connects again if one of its networks
\* works, in whatever order they are configured, changed and tried (run_connect,
\* next_network); excepted is the manager that has found no network and misses the
\* ones that expire restores (RestoredAreTried).
Reconnects == Connectable /\ ~Missed ~> link \/ ~Connectable \/ Missed

\* The manager that has found no network waits for a change in the networks and
\* tries again: also when it is the fail-safe that changes them.
RestoredAreTried == Connectable ~> link \/ ~Connectable
=============================================================================
