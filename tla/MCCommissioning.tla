--------------------------- MODULE MCCommissioning ---------------------------
(***************************************************************************)
(* A node with room for two fabrics and two sessions.  A behaviour either  *)
(* has handshakes that fail, time out and compete on two exchanges, or all *)
(* commands of commissioners and administrators with handshakes that take  *)
(* their three messages on one exchange: the two meet only in the window   *)
(* and in the session that a handshake ends in.  Or it has the session     *)
(* table only, with every message, task and command that works on it: one  *)
(* peer; MaxTasks tasks, of which one is an initiator's, and one while a   *)
(* fabric is staged; MaxOpen exchanges, with one message in flight; and    *)
(* MaxSessions sessions in the course of time, which is one more than      *)
(* there is room for, if only one exchange is open then.                   *)
(***************************************************************************)
EXTENDS Commissioning, Sessions, TLC

CONSTANTS x1, MaxTasks, MaxOpen, MaxSessions
VARIABLE focus

Symmetry == Permutations(Slots) \cup Permutations(Identities)

MCInit ==
    /\ Init /\ SessionsInit /\ focus \in {"handshakes", "commands", "sessions"}
    /\ focus = "sessions" => comm_window = Closed

CompetingHandshakes ==
    /\ focus = "handshakes"
    /\ \/ PaseStep /\ UNCHANGED <<nodeVars, sessions, timers>>
       \/ \E x \in Exchanges, n \in Slots : pase_established(x, n)
       \/ \E n \in Slots : handle_open_commissioning_window(sessions[n])
       \/ \E elapsed \in BOOLEAN : check_timeouts(elapsed)

Commands ==
    /\ focus = "commands"
    /\ \/ \E n \in Slots : Command(n) \/ session_gone(n)
       \/ /\ pbkdf_param_request(x1) \/ pake1(x1) \/ finish(x1)
          /\ UNCHANGED <<nodeVars, sessions, timers>>
       \/ \E n \in Slots : pase_established(x1, n)
       \/ \E i \in FabIdx, n \in Slots : case_established(i, n)
       \/ \E elapsed \in BOOLEAN : check_timeouts(elapsed)
       \/ restart

Open == {<<id, i>> \in (DOMAIN table) \X (1 .. MAX_EXCHANGES) : table[id].exchanges[i] # None}

SessionTable ==
    /\ focus = "sessions" /\ SessionsNext
    /\ Cardinality(tasks') <= IF staged' = 0 THEN MaxTasks ELSE 1
    /\ Cardinality({t \in tasks' : t.role = "Initiator"}) <= 1
    /\ Cardinality({o \in Open' : table'[o[1]].exchanges[o[2]].retrans}) <= 1
    /\ Cardinality(Open') + Cardinality(rolled_back') <= MaxOpen
    /\ \/ next_sess_unique_id' <= MaxSessions
       \/ next_sess_unique_id' = MaxSessions + 1 /\ Cardinality(Open') = 1 /\ rolled_back' = {}

\* The session table is never in the way of a node that only waits.
Wait == focus = "sessions" /\ UNCHANGED sessionVars

MCNext ==
    \/ (CompetingHandshakes \/ Commands) /\ UNCHANGED sessionVars
    \/ (SessionTable \/ Wait) /\ UNCHANGED vars

MCSpec == MCInit /\ [][MCNext /\ UNCHANGED focus]_<<vars, sessionVars, focus>>
-------------------------------------------------------------------------------
\* The state of the node and its session table have their types and sizes; in
\* particular a commissioning window is closed at the latest by its last permitted
\* failure (record_pake_failure), and the table keeps to MAX_SESSIONS.
NodeTypeOK == CommissioningTypeOK /\ SessionsTypeOK
===============================================================================
