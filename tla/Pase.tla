--------------------------------- MODULE Pase ---------------------------------
(***************************************************************************)
(* The commissioning window and the PASE handshakes that it admits         *)
(* (rs-matter/src/sc/pase.rs and rs-matter/src/sc/pase/responder.rs).      *)
(*                                                                         *)
(* Each exchange runs a handshake of three messages in a task of its own;  *)
(* the tasks interleave while they wait for messages and acknowledgements. *)
(* The window, and the marker of the handshake in progress, time out       *)
(* unnoticed until some task looks at them.                                *)
(***************************************************************************)
EXTENDS Integers

CONSTANTS Exchanges,          \* exchanges on which peers run handshakes
          MAX_PAKE_FAILURES,  \* 20 in the code
          NoExch              \* None, for Option<SessionEstTimeout>

ASSUME PaseAssumption == MAX_PAKE_FAILURES \in Nat \ {0} /\ NoExch \notin Exchanges

VARIABLES comm_window,      \* the window: open, past its expiry, failures
          session_timeout,  \* the exchange in progress, past its expiry
          handshake         \* what the task of each exchange waits for

paseVars == <<comm_window, session_timeout, handshake>>

Closed == [open |-> FALSE, expired |-> FALSE, failures |-> 0]
Opened == [open |-> TRUE, expired |-> FALSE, failures |-> 0]
NoTimeout == [exch |-> NoExch, expired |-> FALSE]
Timeout(x) == [exch |-> x, expired |-> FALSE]

\* A handshake waits for Pake1 or Pake3, or has answered Pake3 and waits for
\* the last acknowledgement.
Waits == {"none", "pake1", "pake3", "ack_success", "ack_failure"}

PaseInit ==
    /\ comm_window \in {Opened, Closed}
    /\ session_timeout = NoTimeout
    /\ handshake = [x \in Exchanges |-> "none"]

-------------------------------------------------------------------------------
\* Pase::check_comm_window_timeout
Checked(w) == IF w.open /\ w.expired THEN Closed ELSE w

\* PaseResponder::update_session_timeout: forget a marker past its expiry;
\* then it is free, or taken by this exchange or by another one.
Current == IF session_timeout.expired THEN NoTimeout ELSE session_timeout
Granted(x, new) == IF new THEN Current.exch \in {NoExch, x} ELSE Current.exch = x

\* Mutants: a failure leaves the marker; a window is revoked one failure late.
record_pake_failure_marked(x) ==
    LET w == [comm_window EXCEPT !.failures = @ + 1]
    IN  /\ comm_window' = IF ~w.open \/ w.failures >= MAX_PAKE_FAILURES THEN Closed ELSE w
        /\ handshake' = [handshake EXCEPT ![x] = "none"]
        /\ UNCHANGED session_timeout

record_pake_failure_late(x) ==
    LET w == [comm_window EXCEPT !.failures = @ + 1]
    IN  /\ comm_window' = IF ~w.open \/ w.failures > MAX_PAKE_FAILURES THEN Closed ELSE w
        /\ session_timeout' = NoTimeout
        /\ handshake' = [handshake EXCEPT ![x] = "none"]

\* Pase::record_pake_failure, at the end of the task of exchange x.
record_pake_failure(x) ==
    LET w == [comm_window EXCEPT !.failures = @ + 1]
    IN  /\ session_timeout' = NoTimeout
        /\ comm_window' = IF ~w.open \/ w.failures >= MAX_PAKE_FAILURES THEN Closed ELSE w
        /\ handshake' = [handshake EXCEPT ![x] = "none"]

\* The handshake is refused or dropped without being counted.
Refused(x, timeout) ==
    /\ session_timeout' = timeout
    /\ handshake' = [handshake EXCEPT ![x] = "none"]

-------------------------------------------------------------------------------
\* handle_inner up to the answer to PBKDFParamRequest.
pbkdf_param_request(x) ==
    /\ handshake[x] = "none"
    /\ \/ /\ ~Granted(x, TRUE)
          /\ Refused(x, Current)
          /\ UNCHANGED comm_window
       \/ /\ Granted(x, TRUE)
          /\ comm_window' = Checked(comm_window)
          /\ IF comm_window'.open
             THEN /\ session_timeout' = Timeout(x)
                  /\ handshake' = [handshake EXCEPT ![x] = "pake1"]
             ELSE Refused(x, NoTimeout)

\* Pake1: answered with Pake2 while the window is open.
pake1(x) ==
    /\ handshake[x] = "pake1"
    /\ \/ /\ ~Granted(x, FALSE)
          /\ Refused(x, Current)
          /\ UNCHANGED comm_window
       \/ /\ Granted(x, FALSE)
          /\ comm_window' = Checked(comm_window)
          /\ IF comm_window'.open
             THEN /\ session_timeout' = Timeout(x)
                  /\ handshake' = [handshake EXCEPT ![x] = "pake3"]
             ELSE Refused(x, NoTimeout)

\* Pake3 is refused, or answered: the proof of the passcode holds or not.
pake3_refused(x) ==
    /\ handshake[x] = "pake3" /\ ~Granted(x, FALSE)
    /\ Refused(x, Current)
    /\ UNCHANGED comm_window

pake3(x, proven) ==
    /\ handshake[x] = "pake3" /\ Granted(x, FALSE)
    /\ session_timeout' = Timeout(x)
    /\ handshake' = [handshake EXCEPT ![x] = IF proven THEN "ack_success" ELSE "ack_failure"]
    /\ UNCHANGED comm_window

\* The last message is acknowledged: clear_session_timeout, and handle counts
\* the failure if there was one.
finish(x) ==
    \/ /\ handshake[x] = "ack_success"
       /\ Refused(x, NoTimeout)
       /\ UNCHANGED comm_window
    \/ /\ handshake[x] = "ack_failure"
       /\ record_pake_failure(x)

\* An error ends the handshake at any message, or before it begins: no session
\* to reserve, a message that does not parse, an exchange that is gone.
fail(x) == record_pake_failure(x)

-------------------------------------------------------------------------------
\* open_comm_window and open_basic_comm_window, after the check of the old one.
open_comm_window ==
    /\ ~Checked(comm_window).open
    /\ comm_window' = Opened
    /\ UNCHANGED <<session_timeout, handshake>>

close_comm_window ==
    /\ comm_window' = Closed
    /\ UNCHANGED <<session_timeout, handshake>>

\* Time passes beyond what was granted.
window_elapses ==
    /\ comm_window.open /\ ~comm_window.expired
    /\ comm_window' = [comm_window EXCEPT !.expired = TRUE]
    /\ UNCHANGED <<session_timeout, handshake>>

handshake_elapses ==
    /\ session_timeout.exch # NoExch /\ ~session_timeout.expired
    /\ session_timeout' = [session_timeout EXCEPT !.expired = TRUE]
    /\ UNCHANGED <<comm_window, handshake>>

\* The steps of the handshakes that leave everything else alone; a Pake3 with
\* the right proof is composed with the rest of the node in Commissioning.
PaseStep ==
    \/ \E x \in Exchanges :
          \/ pbkdf_param_request(x) \/ pake1(x) \/ pake3_refused(x)
          \/ pake3(x, FALSE) \/ finish(x) \/ fail(x)
    \/ window_elapses
    \/ handshake_elapses

-------------------------------------------------------------------------------
\* The window, the marker and the handshakes have their types; a window with
\* MAX_PAKE_FAILURES failures is no longer there (Pase::record_pake_failure).
PaseTypeOK ==
    /\ comm_window \in [open : BOOLEAN, expired : BOOLEAN, failures : 0 .. MAX_PAKE_FAILURES - 1]
    /\ session_timeout \in [exch : Exchanges \cup {NoExch}, expired : BOOLEAN]
    /\ handshake \in [Exchanges -> Waits]

\* The marker of the handshake in progress belongs to a task that is still
\* running: however handshakes fail, are refused or overtake each other's
\* timeouts, none leaves a marker behind that would turn the next one away
\* (PaseResponder::handle).
NoStaleMarker == session_timeout.exch # NoExch => handshake[session_timeout.exch] # "none"
===============================================================================
