----------------------------- MODULE MCProgress ------------------------------
(***************************************************************************)
(* What eventually happens, in three parts of a node that share no state;  *)
(* a behaviour is about one of them, its focus:                            *)
(*                                                                         *)
(*  - subscriptions: the instance of MCSubscriptions with one change and   *)
(*    no clock, the reporter wakes up as it likes;                         *)
(*  - light: the light of an endpoint with the On/Off and Level Control    *)
(*    clusters, which gets MaxCommands commands, writes and changes by     *)
(*    hand;                                                                *)
(*  - networks: the wireless networks, room for two of three, and their    *)
(*    manager, with MaxNetworkEvents events and one network on the air.    *)
(***************************************************************************)
EXTENDS MCSubscriptions, LevelControl, Wireless

VARIABLE focus

MCCreds == {[id |-> 1, pass |-> 1], [id |-> 1, pass |-> 2], [id |-> 2, pass |-> 1], [id |-> 3, pass |-> 1]}

\* One change may concern both subscribers, so that the reporter owes two reports.
SharedInterest == s1 :> {Path(a1)} @@ s2 :> {Path(a1)}

all == <<vars, lightVars, wirelessVars, focus>>

ProgressInit ==
    /\ Init /\ LightInit /\ WirelessInit
    /\ focus \in {"subscriptions", "light", "networks"}
    /\ focus # "networks" => stored = NoNetwork /\ works = {CHOOSE c \in Creds : TRUE}
    /\ focus # "light" =>
         /\ light.state = "Off" /\ ~off_track /\ ~config.lighting /\ ~config.coupled
         /\ level = MIN_LEVEL

\* The part a step is about.
Subscribers == focus = "subscriptions" /\ UNCHANGED <<lightVars, wirelessVars, focus>>
Lights == focus = "light" /\ UNCHANGED <<vars, wirelessVars, focus>>
Networks == focus = "networks" /\ UNCHANGED <<vars, lightVars, focus>>

ProgressNext == (Subscribers /\ MCNext) \/ (Lights /\ LightNext) \/ (Networks /\ WirelessNext)

\* The reporter task is polled for ever, its timer fires, and a report that is
\* under way ends; the run loops of the two clusters are polled, their timers fire
\* and the effect of an OffWithEffect ends; the task of the wireless manager is
\* polled, its timer fires and a call to connect ends.  Requests, changes and
\* failures happen or not.
Fairness ==
    /\ WF_all(Subscribers /\ wake)
    /\ WF_all(Subscribers /\ \E s \in subs : report(s))
    /\ WF_all(Subscribers /\ purge_reported_changes)
    /\ WF_all(Subscribers /\ \E c \in ctxs : \E p \in c.todo : report_attribute(c, p))
    /\ WF_all(Subscribers /\ \E c \in ctxs : ~c.priming /\ report_success(c))
    /\ WF_all(Subscribers /\ \E c \in ctxs : c.priming /\ report_success(c))
    /\ WF_all(Lights /\ OnOffRun /\ UNCHANGED levelVars)
    /\ WF_all(Lights /\ LevelRun)
    /\ WF_all(Networks /\ Manager)

ProgressSpec == ProgressInit /\ [][ProgressNext]_all /\ Fairness
-----------------------------------------------------------------------------
\* The subscriptions and the light have their types: the count of the
\* subscriptions and the countdowns of the light do not go below zero, no two
\* networks have one id and there are no more than there is room for.
ProgressTypeOK == SubsTypeOK /\ LightTypeOK /\ WirelessTypeOK
=============================================================================
