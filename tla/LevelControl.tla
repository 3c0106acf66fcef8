---------------------------- MODULE LevelControl ----------------------------
(***************************************************************************)
(* The Level Control cluster                                               *)
(* (rs-matter/src/dm/clusters/app/level_control.rs) and its coupling with  *)
(* the On/Off cluster of the endpoint.  A task of its own runs one         *)
(* transition at a time and waits between two steps of it; a request       *)
(* leaves the next task in a signal with room for one.  Each cluster       *)
(* signals the other: an Off becomes a transition to the minimum that ends *)
(* in a CoupledClusterOff.                                                 *)
(*                                                                         *)
(* The device sets the level it is asked to set, so CurrentLevel is not    *)
(* null.  Times are abstracted to whether a transition takes time.         *)
(* RemainingTime, which nothing here reads, is left out.                   *)
(***************************************************************************)
EXTENDS OnOff

CONSTANTS MIN_LEVEL, MAX_LEVEL,
          MAXIMUM_LEVEL,    \* 254, the largest level a request may name
          Requested, Sizes  \* the levels and the step sizes that requests name

u8 == 0 .. MAXIMUM_LEVEL + 1

ASSUME LevelAssumption ==
    /\ {MIN_LEVEL, MAX_LEVEL, MAXIMUM_LEVEL} \subseteq Nat
    /\ MIN_LEVEL < MAX_LEVEL /\ MAX_LEVEL <= MAXIMUM_LEVEL
    /\ Requested \subseteq u8 /\ Sizes \subseteq Nat

VARIABLES
    level,           \* LevelControlHooks::current_level
    on_level,        \* OnLevel, or Null
    execute_if_off,  \* the bit of Options
    transition       \* the transition that task_manager waits in, or Null

levelVars == <<level, on_level, execute_if_off, transition>>
lightVars == <<onOffVars, levelVars>>

LevelInit ==
    /\ level \in MIN_LEVEL .. MAX_LEVEL
    /\ on_level = Null
    /\ execute_if_off = FALSE
    /\ transition = Null

-----------------------------------------------------------------------------
\* What a request does after the options are processed: mask is the bit of
\* OptionsMask and OptionsOverride, or Null when the mask does not have it.
should_continue(with_on_off, mask) ==
    with_on_off \/ ~config.coupled \/ light.on \/ (IF mask = Null THEN execute_if_off ELSE mask)

\* should_continue borrows the state, which handle_move and the out of band
\* messages already hold.
BorrowsTwice(with_on_off, mask) ==
    ~with_on_off /\ config.coupled /\ ~light.on /\ mask = Null

MoveToLevel(with_on_off, target, timed) ==
    [task |-> "MoveToLevel", with_on_off |-> with_on_off, target |-> target, timed |-> timed]

Stop == [task |-> "Stop"]

\* coupled_cluster_set_on_off, called by update_coupled_on_off.
coupled_command(current_level, with_on_off) ==
    LET on == current_level > MIN_LEVEL
    IN  IF ~with_on_off \/ ~config.coupled \/ light.on = on
             \/ (on /\ light.state = "DelayedOff")
        THEN Null
        ELSE IF on THEN "CoupledClusterOn" ELSE "CoupledClusterOff"

update_coupled_on_off(current_level, with_on_off) ==
    LET command == coupled_command(current_level, with_on_off)
    IN  IF command = Null THEN UNCHANGED state_change_signal ELSE signal(command)

Clamped(requested) == Max({MIN_LEVEL, Min({MAX_LEVEL, requested})})

\* move_to_level: the error of its validation is not looked at, a level above
\* MAXIMUM_LEVEL goes on as it is.
move_to_level(with_on_off, requested, timed) ==
    LET target == IF requested > MAXIMUM_LEVEL THEN requested ELSE Clamped(requested)
    IN  IF level = target
        THEN task_signal' = Stop /\ update_coupled_on_off(target, with_on_off)
        ELSE /\ task_signal' = MoveToLevel(with_on_off, target, timed)
             /\ UNCHANGED state_change_signal

LevelRequest == FromOutside /\ UNCHANGED <<config, light, machine, off_track, level, transition>>

\* handle_move_to_level and handle_move_to_level_with_on_off.
handle_move_to_level(with_on_off, requested, timed, mask) ==
    /\ LevelRequest
    /\ requested <= MAXIMUM_LEVEL => should_continue(with_on_off, mask)
    /\ move_to_level(with_on_off, requested, timed)
    /\ UNCHANGED <<panicked, on_level, execute_if_off>>

\* handle_step and handle_step_with_on_off.
handle_step(with_on_off, up, size, timed, mask) ==
    /\ LevelRequest
    /\ should_continue(with_on_off, mask)
    /\ move_to_level(with_on_off, IF up THEN Min({level + size, MAX_LEVEL})
                                  ELSE Max({level - size, MIN_LEVEL}), timed)
    /\ UNCHANGED <<panicked, on_level, execute_if_off>>

\* The same commands out of band: handle_out_of_band_message holds the state.
out_of_band_borrows(with_on_off, mask) ==
    /\ LevelRequest
    /\ BorrowsTwice(with_on_off, mask)
    /\ panicked' = "borrowed"
    /\ UNCHANGED <<state_change_signal, task_signal, on_level, execute_if_off>>

\* handle_move and handle_move_with_on_off hold the state through move_command.
handle_move(with_on_off, up, mask) ==
    /\ LevelRequest
    /\ UNCHANGED <<state_change_signal, on_level, execute_if_off>>
    /\ IF BorrowsTwice(with_on_off, mask)
       THEN panicked' = "borrowed" /\ UNCHANGED task_signal
       ELSE /\ should_continue(with_on_off, mask)
            /\ level # (IF up THEN MAX_LEVEL ELSE MIN_LEVEL)
            /\ task_signal' = [task |-> "Move", with_on_off |-> with_on_off, up |-> up]
            /\ UNCHANGED panicked

\* handle_stop and handle_stop_with_on_off.
handle_stop(with_on_off, mask) ==
    /\ LevelRequest
    /\ should_continue(with_on_off, mask)
    /\ task_signal' = Stop
    /\ UNCHANGED <<panicked, state_change_signal, on_level, execute_if_off>>

\* set_on_level and set_options.
set_level_attributes(new_on_level, new_execute_if_off) ==
    /\ LevelRequest
    /\ on_level' = new_on_level /\ execute_if_off' = new_execute_if_off
    /\ <<on_level, execute_if_off>> # <<new_on_level, new_execute_if_off>>
    /\ UNCHANGED <<panicked, state_change_signal, task_signal>>

-----------------------------------------------------------------------------
\* A poll of the task leaves a level, the transition it waits in, and what
\* update_coupled_on_off signals.
Polled(new_level, waits, command) == [level |-> new_level, task |-> waits, command |-> command]

\* One step of move_to_level_transition, of a transition that was at t.at.  The Off
\* of handle_on_off_state_change then restores the level it found, t.restore.
transition_step(t) ==
    LET at == IF ~t.timed THEN t.target ELSE IF t.at < t.target THEN t.at + 1 ELSE t.at - 1
        end == at = t.target
    IN  Polled(IF end /\ t.restore # Null /\ on_level = Null THEN t.restore ELSE at,
               IF end THEN Null ELSE [t EXCEPT !.at = at, !.first = FALSE],
               IF t.first \/ end THEN coupled_command(at, t.with_on_off) ELSE Null)

Transition(with_on_off, from, target, timed, restore) ==
    [task |-> "MoveToLevel", with_on_off |-> with_on_off, at |-> from, target |-> target,
     timed |-> timed, first |-> TRUE, restore |-> restore]

\* One step of move_transition.
move_step(t, from) ==
    LET new == IF t.up THEN from + 1 ELSE from - 1
        end == new \in {MIN_LEVEL, MAX_LEVEL}
    IN  IF new \notin u8 THEN Polled(from, Null, Null)
        ELSE Polled(new, IF end THEN Null ELSE t,
                    IF end \/ (from = MIN_LEVEL /\ new > MIN_LEVEL)
                    THEN coupled_command(new, t.with_on_off) ELSE Null)

\* handle_on_off_state_change up to where it waits.  An On starts from the minimum,
\* and has nothing to do when its target is the minimum too.
on_off_state_change(on, timed) ==
    LET from == IF on THEN MIN_LEVEL ELSE level
        target == IF ~on THEN MIN_LEVEL ELSE IF on_level = Null THEN level ELSE on_level
        wanted == IF target > MAXIMUM_LEVEL THEN target ELSE Clamped(target)
    IN  IF from = wanted THEN Polled(from, Null, coupled_command(from, TRUE))
        ELSE transition_step(Transition(TRUE, from, wanted, timed, IF on THEN Null ELSE level))

\* task_manager up to where it waits.
task_manager(t, timed) ==
    CASE t.task = "Stop" -> Polled(level, Null, Null)
      [] t.task = "MoveToLevel" ->
           IF level = t.target THEN Polled(level, Null, Null)
           ELSE transition_step(Transition(t.with_on_off, level, t.target, t.timed, Null))
      [] t.task = "Move" -> move_step(t, level)
      [] t.task = "OnOffStateChange" -> on_off_state_change(t.on, timed)

LevelLeaves(p) ==
    /\ level' = p.level /\ transition' = p.task
    /\ state_change_signal' = IF p.command = Null THEN state_change_signal ELSE p.command
    /\ UNCHANGED <<config, light, machine, panicked, off_track, on_level, execute_if_off>>

\* LevelControlHandler::run takes the signalled task; the one that waits is dropped.
\* The transition times are attributes: timed says whether they are not 0.
take_task ==
    /\ panicked = Null /\ task_signal # Null
    /\ \E timed \in BOOLEAN : LevelLeaves(task_manager(task_signal, timed))
    /\ task_signal' = Null /\ UNCHANGED commands

Step(from) ==
    IF transition.task = "Move" THEN move_step(transition, from) ELSE transition_step(transition)

\* The timer between two steps fires.
step_over ==
    /\ panicked = Null /\ transition # Null
    /\ LevelLeaves(Step(level))
    /\ UNCHANGED <<task_signal, commands>>

\* OutOfBandMessage::Update, the level changed by hand: the poll that handles it goes
\* on with the transition, if its timer has fired, and takes the Stop.
level_update(new_level, timer_fired) ==
    /\ FromOutside
    /\ timer_fired => transition # Null
    /\ LevelLeaves(IF timer_fired THEN [Step(new_level) EXCEPT !.task = Null]
                   ELSE Polled(new_level, Null, Null))
    /\ task_signal' = Null

LevelRun == take_task \/ step_over

-----------------------------------------------------------------------------
Masks == {Null, TRUE, FALSE}

LevelRequests ==
    \/ \E with_on_off, timed \in BOOLEAN, requested \in Requested, mask \in Masks :
         handle_move_to_level(with_on_off, requested, timed, mask)
    \/ \E with_on_off, up, timed \in BOOLEAN, size \in Sizes, mask \in Masks :
         handle_step(with_on_off, up, size, timed, mask)
    \/ \E with_on_off, up \in BOOLEAN, mask \in Masks : handle_move(with_on_off, up, mask)
    \/ \E with_on_off \in BOOLEAN, mask \in Masks : handle_stop(with_on_off, mask)
    \/ \E l \in {Null, MIN_LEVEL, MAX_LEVEL}, e \in BOOLEAN : set_level_attributes(l, e)
    \/ \E l \in MIN_LEVEL .. MAX_LEVEL, timer_fired \in BOOLEAN : level_update(l, timer_fired)
    \/ \E mask \in Masks : out_of_band_borrows(FALSE, mask)

LightInit == OnOffInit /\ LevelInit

LightNext ==
    \/ OnOffRequests /\ UNCHANGED levelVars
    \/ OnOffRun /\ UNCHANGED levelVars
    \/ LevelRequests
    \/ LevelRun

LightSpec == LightInit /\ [][LightNext]_lightVars

-----------------------------------------------------------------------------
\* The times of OnOffState are u16 and do not wrap below zero, the signal holds a
\* command, and state_machine waits in a countdown or an effect.
LightTypeOK ==
    /\ light \in Light
    /\ state_change_signal \in OnOffCommand \cup {Null}
    /\ machine # Null => machine.wait \in {"Delay", "OffWithEffect"}
    /\ level \in u8

\* Without the LIGHTING feature the state machine of the On/Off cluster agrees with
\* the device, however commands, the coupled cluster and changes by hand mix: On and
\* Off do nothing in the state of their name.  StartUpOnOff breaks it until the next
\* change by hand: init sets the device after new has chosen the state.
InStep == ~config.lighting /\ ~off_track => (light.state = "On") = light.on

AtRest == machine = Null /\ state_change_signal = Null /\ transition = Null /\ task_signal = Null

\* When commands cease, both clusters come to rest: the countdowns of state_machine
\* and the transitions end, also when one takes the place of another, and the clusters
\* do not signal each other for ever.
ComesToRest == <>[](AtRest \/ panicked # Null)
=============================================================================
