------------------------------- MODULE FailSafe -------------------------------
(***************************************************************************)
(* The fail-safe: the context in which credentials are staged, and what is *)
(* rolled back when it ends without being completed                        *)
(* (rs-matter/src/failsafe.rs).                                            *)
(*                                                                         *)
(* An operator here is the body of a method, for a caller on session s.    *)
(* The timer is not kept: it may run out at any time.                      *)
(***************************************************************************)
EXTENDS Fabrics

VARIABLES failsafe,         \* State, with Idle as a record of its own
          secret_key,       \* the key of the last CSR: is it the current context's?
          root_ca,          \* the root certificate received last
          networks,         \* the network configuration
          stored_networks   \* its copy in the key-value store

failsafeVars == <<failsafe, secret_key, root_ca, networks, stored_networks>>

NocFlags == {"ADD_CSR_REQ_RECVD", "UPDATE_CSR_REQ_RECVD", "ADD_ROOT_CERT_RECVD",
             "ADD_NOC_RECVD", "UPDATE_NOC_RECVD"}

NetworkConfigs == {0, 1}

Idle == [armed |-> FALSE, fab_idx |-> 0, flags |-> {}]

\* Neither the key nor the certificate is cleared when a context ends; each
\* knows whether it came within the current one (ghost).
Staged(identity) == [identity |-> identity, current |-> TRUE]
Outdated(root) == [root EXCEPT !.current = FALSE]

FailSafeInit ==
    /\ fabrics = load_persist /\ networks = stored_networks
    /\ failsafe = Idle
    /\ secret_key = FALSE
    /\ \E i \in Identities : root_ca = [identity |-> i, current |-> FALSE]

is_armed_for(i) == failsafe.armed /\ failsafe.fab_idx = i

has_pending_noc_for(i) ==
    is_armed_for(i) /\ failsafe.flags \cap {"ADD_NOC_RECVD", "UPDATE_NOC_RECVD"} # {}

\* Mutant: nothing need have been received before.
check_state_no_present(s, present, absent) ==
    /\ is_armed_for(s.fab_idx)
    /\ absent \cap failsafe.flags = {}

check_state(s, present, absent) ==
    /\ is_armed_for(s.fab_idx)
    /\ present \subseteq failsafe.flags
    /\ absent \cap failsafe.flags = {}

check_armed(s) == check_state(s, {}, {})

AddFlags(flags) == [failsafe EXCEPT !.flags = @ \cup flags]

-------------------------------------------------------------------------------
\* FailSafe::arm from Idle.  Arming it again only moves the deadline.
arm(s) ==
    /\ ~failsafe.armed
    /\ failsafe' = [armed |-> TRUE, fab_idx |-> s.fab_idx, flags |-> {}]
    /\ secret_key' = FALSE /\ root_ca' = Outdated(root_ca)
    /\ UNCHANGED <<networks, stored_networks>>

\* FailSafe::expire fails when the fabric to roll back is gone, before it has
\* changed anything.
expire_fails ==
    /\ failsafe.armed
    /\ failsafe.fab_idx # 0 /\ failsafe.fab_idx \notin DOMAIN fabrics

\* Mutant: the fabric is removed and not reloaded.
expire_no_reload ==
    /\ failsafe.armed /\ ~expire_fails
    /\ fabrics' = Without(fabrics, failsafe.fab_idx)
    /\ networks' = stored_networks
    /\ failsafe' = Idle
    /\ UNCHANGED <<stored, secret_key, root_ca, stored_networks>>

\* Otherwise the fabric and the networks are reloaded from the store; the PASE
\* sessions go too, in Commissioning.
expire ==
    /\ failsafe.armed /\ ~expire_fails
    /\ fabrics' = IF failsafe.fab_idx = 0 THEN fabrics
                  ELSE add_load(Without(fabrics, failsafe.fab_idx), failsafe.fab_idx)
    /\ networks' = stored_networks
    /\ failsafe' = Idle
    /\ UNCHANGED <<stored, secret_key, root_ca, stored_networks>>

-------------------------------------------------------------------------------
add_trusted_root_cert(s, identity) ==
    /\ check_state(s, {}, {"ADD_ROOT_CERT_RECVD"})
    /\ root_ca' = Staged(identity)
    /\ failsafe' = AddFlags({"ADD_ROOT_CERT_RECVD"})
    /\ UNCHANGED <<fabrics, stored, secret_key, networks, stored_networks>>

add_csr_req(s) ==
    /\ check_state(s, {}, {"ADD_CSR_REQ_RECVD", "UPDATE_CSR_REQ_RECVD"})
    /\ secret_key' = TRUE
    /\ failsafe' = AddFlags({"ADD_CSR_REQ_RECVD"})
    /\ UNCHANGED <<fabrics, stored, root_ca, networks, stored_networks>>

update_csr_req(s) ==
    /\ s.mode = "case"
    /\ check_state(s, {}, {"ADD_CSR_REQ_RECVD", "UPDATE_CSR_REQ_RECVD"})
    /\ secret_key' = TRUE
    /\ failsafe' = AddFlags({"UPDATE_CSR_REQ_RECVD"})
    /\ UNCHANGED <<fabrics, stored, root_ca, networks, stored_networks>>

update_noc(s) ==
    /\ s.mode = "case"
    /\ check_state(s, {"UPDATE_CSR_REQ_RECVD"},
                   {"ADD_ROOT_CERT_RECVD", "ADD_NOC_RECVD", "ADD_CSR_REQ_RECVD", "UPDATE_NOC_RECVD"})
    /\ s.fab_idx \in DOMAIN fabrics
    /\ fabrics' = [fabrics EXCEPT ![s.fab_idx].noc = 1 - @,
                                  ![s.fab_idx].fresh = secret_key]
    /\ failsafe' = [AddFlags({"UPDATE_NOC_RECVD"}) EXCEPT !.fab_idx = s.fab_idx]
    /\ UNCHANGED <<stored, secret_key, root_ca, networks, stored_networks>>

\* The fabric that AddNOC makes: certificates that chain up to the staged root
\* and name the staged key.
Added == [identity |-> root_ca.identity, noc |-> 0,
          fresh |-> secret_key /\ root_ca.current]

add_noc(s) ==
    /\ check_state(s, {"ADD_ROOT_CERT_RECVD", "ADD_CSR_REQ_RECVD"},
                   {"ADD_NOC_RECVD", "UPDATE_CSR_REQ_RECVD", "UPDATE_NOC_RECVD"})
    /\ \A i \in DOMAIN fabrics : fabrics[i].identity # root_ca.identity
    /\ has_room
    /\ fabrics' = With(fabrics, next_fab_idx, Added)
    /\ failsafe' = [AddFlags({"ADD_NOC_RECVD"}) EXCEPT !.fab_idx = next_fab_idx]
    /\ UNCHANGED <<stored, secret_key, root_ca, networks, stored_networks>>

\* FailSafe::disarm and what CommissioningComplete stores.
disarm(s) ==
    /\ s.mode = "case" /\ check_armed(s) /\ s.fab_idx \in DOMAIN fabrics
    /\ failsafe' = Idle
    /\ stored' = With(stored, s.fab_idx, fabrics[s.fab_idx])
    /\ stored_networks' = networks
    /\ UNCHANGED <<fabrics, secret_key, root_ca, networks>>
===============================================================================
