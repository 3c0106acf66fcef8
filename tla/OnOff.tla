-------------------------------- MODULE OnOff -------------------------------
(***************************************************************************)
(* The On/Off cluster (rs-matter/src/dm/clusters/app/on_off.rs): a state   *)
(* machine that a task of its own runs, one command at a time, and that    *)
(* waits inside a command (the two countdowns, the effect of an            *)
(* OffWithEffect).  Commands come from request handlers, from the device   *)
(* and from the coupled Level Control cluster through a signal with room   *)
(* for one: a later one overwrites an earlier one, and one that arrives    *)
(* while the machine waits takes the place of the command that waits.      *)
(*                                                                         *)
(* A poll of the task, up to where it waits, is one action.                *)
(* GlobalSceneControl is left out: nothing reads it but a command that is  *)
(* not implemented.                                                        *)
(***************************************************************************)
EXTENDS Integers, FiniteSetsExt

CONSTANTS MaxDelay,  \* stands for 0xFFFF, the largest of the two times
          MaxCommands, \* bounds commands
          Null

ASSUME OnOffAssumption == MaxDelay \in Nat \ {0}

VARIABLES
    config,        \* the features: lighting, and coupled with a Level Control cluster
    light,         \* OnOffState, and the device as OnOffHooks::on_off knows it
    state_change_signal,
    machine,       \* the command that state_machine waits in, and where, or Null
    task_signal,   \* the signal of the Level Control cluster
    panicked,      \* what panicked, or Null
    off_track,     \* ghost: the device was set at start-up and the state machine not told
    commands       \* how many commands and changes came from outside

onOffVars == <<config, light, state_change_signal, machine, task_signal, panicked,
               off_track, commands>>

Times == 0 .. MaxDelay

Light == [on : BOOLEAN, state : {"On", "Off", "TimedOn", "DelayedOff"},
          on_time : Times, off_wait_time : Times]

OnOffCommand == {"Off", "On", "Toggle", "OffWithEffect", "OnWithTimedOff",
                 "CoupledClusterOn", "CoupledClusterOff", "Update"}

OnOffStateChange(to) == [task |-> "OnOffStateChange", on |-> to]

\* OnOffHandler::new takes the state from the device, init then sets the device to
\* StartUpOnOff.
OnOffInit ==
    /\ config \in [lighting : BOOLEAN, coupled : BOOLEAN]
    /\ \E before, after \in BOOLEAN :
         /\ light = [on |-> after, state |-> IF before THEN "On" ELSE "Off",
                     on_time |-> 0, off_wait_time |-> 0]
         /\ off_track = (before # after)
    /\ state_change_signal = Null /\ machine = Null /\ task_signal = Null
    /\ panicked = Null /\ commands = 0

-----------------------------------------------------------------------------
\* In what follows s is a Light with two more fields: what the coupled cluster is
\* told, and the Outcome of a round of the state machine.

\* OnOffHandler::set_on.
set_on(s, level_control_initiated) ==
    IF s.on THEN s
    ELSE [s EXCEPT !.on = TRUE,
                   !.off_wait_time = IF config.lighting /\ s.on_time = 0 THEN 0 ELSE @,
                   !.tell = IF config.coupled /\ ~level_control_initiated
                            THEN OnOffStateChange(TRUE) ELSE @]

\* Whether set_off leaves it to the coupled cluster to switch off.
Told(level_control_initiated) == config.coupled /\ ~level_control_initiated

\* OnOffHandler::set_off; update_attr_off clears OnTime.
set_off(s, level_control_initiated) ==
    IF ~s.on THEN s
    ELSE [s EXCEPT !.on_time = IF config.lighting THEN 0 ELSE @,
                   !.on = Told(level_control_initiated),
                   !.tell = IF Told(level_control_initiated)
                            THEN OnOffStateChange(FALSE) ELSE @]

\* What set_off answers: the OnOff state has been set.
is_set_off(s) == ~s.on \/ ~Told(FALSE)

To(s, state, outcome) == [s EXCEPT !.state = state, !.outcome = outcome]

\* OnOffHandler::update: the state machine follows the device.
update(s) ==
    IF s.on
    THEN IF s.state = "On" THEN To(s, "On", "Done")
         ELSE [To(s, "On", "Done") EXCEPT
                 !.off_wait_time = IF config.lighting /\ s.on_time = 0 THEN 0 ELSE @]
    ELSE IF s.state = "Off" THEN To(s, "Off", "Done")
         ELSE [To(s, "Off", "Done") EXCEPT !.on_time = IF config.lighting THEN 0 ELSE @]

\* Mutant: Off, whoever is left to switch the device off.
AfterOff_always(s) == "Off"

\* The state after an Off that comes when the state is On.
AfterOff(s) == IF is_set_off(s) THEN "Off" ELSE "On"

\* Mutant: one tenth of a second too many.
Counting_past(time) == time >= 0

\* A countdown goes on.
Counting(time) == time > 0

\* Mutant: a tenth of a second passes and is not counted.
Counted_not(time) == time

Counted(time) == time - 1

\* One round of state_machine, in each of its four states.
InOn(s, command) ==
    CASE command \in {"Off", "Toggle"} ->
           To(set_off(s, FALSE), AfterOff(s), "Done")
      [] command = "CoupledClusterOff" -> To(set_off(s, TRUE), "Off", "Done")
      [] command \in {"On", "CoupledClusterOn"} -> To(s, "On", "Done")
      [] command = "OffWithEffect" -> To(s, "On", "OffWithEffect")
      [] command = "OnWithTimedOff" -> To(s, "TimedOn", "Continue")
      [] command = "Update" -> update(s)

InOff(s, command) ==
    CASE command \in {"Off", "OffWithEffect", "CoupledClusterOff"} -> To(s, "Off", "Done")
      [] command \in {"On", "Toggle"} -> To(set_on(s, FALSE), "On", "Done")
      [] command = "CoupledClusterOn" -> To(set_on(s, TRUE), "On", "Done")
      [] command = "OnWithTimedOff" -> To(s, "TimedOn", "Continue")
      [] command = "Update" -> update(s)

InTimedOn(s, command) ==
    CASE command \in {"Off", "Toggle"} ->
           IF is_set_off(s) THEN To(set_off(s, FALSE), "DelayedOff", "Continue")
           ELSE To(set_off(s, FALSE), "TimedOn", "Done")
      [] command = "CoupledClusterOff" -> To(set_off(s, TRUE), "DelayedOff", "Done")
      [] command = "OffWithEffect" -> To(s, "TimedOn", "OffWithEffect")
      [] command \in {"On", "OnWithTimedOff"} ->
           IF Counting(s.on_time) THEN [To(s, "TimedOn", "Delay") EXCEPT !.on_time = Counted(@)]
           ELSE To([set_off(s, FALSE) EXCEPT !.off_wait_time = 0],
                   IF is_set_off(s) THEN "Off" ELSE "TimedOn", "Done")
      [] command = "CoupledClusterOn" -> To(s, "TimedOn", "unreachable")
      [] command = "Update" -> update(s)

InDelayedOff(s, command) ==
    CASE command \in {"On", "Toggle"} -> To(set_on(s, FALSE), "On", "Done")
      [] command = "CoupledClusterOn" -> To(set_on(s, TRUE), "On", "Done")
      [] command \in {"Off", "OffWithEffect", "OnWithTimedOff", "CoupledClusterOff"} ->
           IF Counting(s.off_wait_time)
           THEN [To(s, "DelayedOff", "Delay") EXCEPT !.off_wait_time = Counted(@)]
           ELSE To(s, "Off", "Done")
      [] command = "Update" -> update(s)

Round(s, command) ==
    CASE s.state = "On" -> InOn(s, command)
      [] s.state = "Off" -> InOff(s, command)
      [] s.state = "TimedOn" -> InTimedOn(s, command)
      [] s.state = "DelayedOff" -> InDelayedOff(s, command)

\* Rounds up to where state_machine waits or ends; Continue leads to a state that
\* does not continue.
state_machine(s, command) ==
    LET first == Round(s, command)
    IN  IF first.outcome = "Continue" THEN Round(first, command) ELSE first
-----------------------------------------------------------------------------
\* Signal::signal: a later command takes the place of an earlier one.
signal(command) == state_change_signal' = command

FromOutside == panicked = Null /\ commands < MaxCommands /\ commands' = commands + 1

\* handle_off, handle_on, handle_toggle, handle_off_with_effect; set_on_off and
\* out_of_band_message send the same.
handle_command(command) ==
    /\ FromOutside
    /\ command = "OffWithEffect" => config.lighting
    /\ signal(command)
    /\ UNCHANGED <<config, light, machine, task_signal, panicked, off_track>>

Running(s) == [on |-> s.on, state |-> s.state, on_time |-> s.on_time,
               off_wait_time |-> s.off_wait_time, tell |-> Null, outcome |-> "Done"]

Kept(s) == [on |-> s.on, state |-> s.state, on_time |-> s.on_time,
            off_wait_time |-> s.off_wait_time]

\* The off state is guarded against OnWithTimedOff.
Guarded == light.off_wait_time > 0 /\ ~light.on

\* handle_on_with_timed_off switches on at once; the state machine only counts.
handle_on_with_timed_off(accept_only_when_on, on_time, off_wait_time) ==
    LET s == IF Guarded
             THEN [Running(light) EXCEPT !.off_wait_time = Min({@, off_wait_time})]
             ELSE set_on([Running(light) EXCEPT !.on_time = Max({@, on_time}),
                                                !.off_wait_time = off_wait_time], FALSE)
    IN  /\ FromOutside /\ config.lighting
        /\ accept_only_when_on => light.on
        /\ light' = Kept(s)
        /\ task_signal' = IF s.tell = Null THEN task_signal ELSE s.tell
        /\ IF s.on_time = MaxDelay /\ s.off_wait_time = MaxDelay
           THEN UNCHANGED state_change_signal
           ELSE signal("OnWithTimedOff")
        /\ UNCHANGED <<config, machine, panicked, off_track>>

\* set_on_time and set_off_wait_time.
set_times(field, value) ==
    /\ FromOutside /\ config.lighting
    /\ light' = [light EXCEPT ![field] = value]
    /\ UNCHANGED <<config, state_change_signal, machine, task_signal, panicked, off_track>>

\* What a poll of the state machine leaves behind.
Leaves(s, command) ==
    /\ light' = Kept(s)
    /\ task_signal' = IF s.tell = Null THEN task_signal ELSE s.tell
    /\ machine' = IF s.outcome \in {"Delay", "OffWithEffect"}
                  THEN [command |-> command, wait |-> s.outcome] ELSE Null
    /\ panicked' = IF s.outcome = "unreachable" THEN "unreachable" ELSE Null
    /\ UNCHANGED config

\* OnOffHandler::run takes the signalled command; one that waits is dropped.
take_command ==
    /\ panicked = Null /\ state_change_signal # Null
    /\ Leaves(state_machine(Running(light), state_change_signal), state_change_signal)
    /\ state_change_signal' = Null
    /\ UNCHANGED <<off_track, commands>>

\* What the machine that waits does to s when the timer of its countdown fires, or
\* when OnOffHooks::handle_off_with_effect returns; the effect's final_state is that
\* of the state in which it began, which nothing else changes.
Resumed(s) ==
    IF machine.wait = "Delay" THEN state_machine(s, machine.command)
    ELSE To(set_off(s, TRUE), IF s.state = "On" THEN "Off" ELSE "DelayedOff", "Done")

wait_over ==
    /\ panicked = Null /\ machine # Null
    /\ Leaves(Resumed(Running(light)), machine.command)
    /\ UNCHANGED <<state_change_signal, off_track, commands>>

\* The device is switched by hand and its OnOffHooks::run notifies Update.  The poll
\* that does so goes on with the machine, if its wait is over, and with the signal:
\* Update takes the place of a command nobody has taken yet.
physical_change(wait_is_over) ==
    LET switched == [Running(light) EXCEPT !.on = ~@]
    IN  /\ FromOutside
        /\ wait_is_over => machine # Null
        /\ Leaves(update(IF wait_is_over THEN Resumed(switched) ELSE switched), "Update")
        /\ state_change_signal' = Null /\ off_track' = FALSE

OnOffRun == take_command \/ wait_over

OnOffRequests ==
    \/ \E command \in {"Off", "On", "Toggle", "OffWithEffect"} : handle_command(command)
    \/ \E only \in BOOLEAN, on_time, off_wait_time \in Times :
          handle_on_with_timed_off(only, on_time, off_wait_time)
    \/ \E field \in {"on_time", "off_wait_time"}, value \in Times : set_times(field, value)
    \/ \E wait_is_over \in BOOLEAN : physical_change(wait_is_over)
=============================================================================
