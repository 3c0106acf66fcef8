----------------------------- MODULE ClusterProofs -----------------------------
(***************************************************************************)
(* What the clusters of a node preserve.                                   *)
(*                                                                         *)
(*  - The light of an endpoint (OnOff, LevelControl), for every number of  *)
(*    commands, every range of levels and all times: the state machine of  *)
(*    the On/Off cluster keeps in step with the device.                    *)
(*  - The commands, handshakes, timeouts and restarts of Commissioning,    *)
(*    for any number of fabrics, identities, sessions, exchanges and       *)
(*    permitted failures: first the operations on the fail-safe, the table *)
(*    of fabrics and the store; then the window and the handshakes; then   *)
(*    the commands over both, with a fail-safe for every commissioning     *)
(*    channel.                                                             *)
(*                                                                         *)
(* The first part of commissioning rests on one idea: the table of fabrics *)
(* and the store agree everywhere except at the index whose credentials    *)
(* are pending under the fail-safe.  So whatever is stored of any other    *)
(* fabric changes nothing, completing makes the two equal, and so does a   *)
(* rollback.                                                               *)
(***************************************************************************)
EXTENDS LevelControl, Commissioning, FiniteSetTheorems, WellFoundedInduction, TLAPS

-----------------------------------------------------------------------------
\* The light (OnOff, LevelControl).

\* What a round of the On/Off state machine works on; OnOffStateChange is what it may
\* tell the coupled cluster.
Changes == [task : {"OnOffStateChange"}, on : BOOLEAN]
Outcomes == {"Done", "Continue", "Delay", "OffWithEffect", "unreachable"}
Runs == [on : BOOLEAN, state : {"On", "Off", "TimedOn", "DelayedOff"}, on_time : Times,
         off_wait_time : Times, tell : Changes \cup {Null}, outcome : Outcomes]

\* The commands there are without the LIGHTING feature.
PlainCommand == {"Off", "On", "Toggle", "CoupledClusterOn", "CoupledClusterOff", "Update"}

\* What the Level Control cluster may signal.
Coupled == {"CoupledClusterOn", "CoupledClusterOff", Null}

\* The tasks that a request or the On/Off cluster may leave for the Level Control cluster.
TaskNames == {"Stop", "MoveToLevel", "Move", "OnOffStateChange"}

\* Without the LIGHTING feature nothing waits in the state machine, its two timed states
\* are not reached, and it follows the device once the two have met.
Plain ==
    /\ light \in Light /\ light.state \in {"On", "Off"}
    /\ machine = Null /\ state_change_signal \in PlainCommand \cup {Null}
    /\ task_signal # Null => task_signal.task \in TaskNames
    /\ ~off_track => ((light.state = "On") = light.on)

\* The inductive invariant.
LightInv == config \in [lighting : BOOLEAN, coupled : BOOLEAN] /\ (~config.lighting => Plain)

\* A round of the state machine that ends it.
LEMMA DoneLemma ==
    ASSUME NEW s \in Runs, NEW state \in {"On", "Off"}
    PROVE  /\ To(s, state, "Done") \in Runs /\ To(s, state, "Done").outcome = "Done"
           /\ To(s, state, "Done").state = state /\ To(s, state, "Done").on = s.on
  <1>1. PICK r : r = [s EXCEPT !.state = state]
    OBVIOUS
  <1>2. r \in Runs /\ r.state = state /\ r.on = s.on
    BY <1>1 DEF Runs
  <1>3. PICK q : q = [r EXCEPT !.outcome = "Done"]
    OBVIOUS
  <1>4. q \in Runs /\ q.state = state /\ q.outcome = "Done" /\ q.on = s.on
    BY <1>2, <1>3 DEF Runs, Outcomes
  <1>5. To(s, state, "Done") = q
    BY <1>1, <1>3, Zenon DEF To
  <1> QED
    BY <1>4, <1>5

\* OnOffHandler::set_on leaves the state to its caller.
LEMMA SetOnLemma ==
    ASSUME ~config.lighting, NEW s \in Runs, NEW initiated \in BOOLEAN
    PROVE  set_on(s, initiated) \in Runs /\ set_on(s, initiated).on
  <1>1. CASE s.on
    BY <1>1 DEF set_on
  <1>2. CASE ~s.on
    <2>1. PICK w \in Times : w = s.off_wait_time
      BY DEF Runs
    <2>2. PICK m \in Changes \cup {Null} :
            m = IF config.coupled /\ ~initiated THEN OnOffStateChange(TRUE) ELSE s.tell
      BY DEF Runs, Changes, OnOffStateChange
    <2>3. PICK r : r = [s EXCEPT !.on = TRUE]
      OBVIOUS
    <2>4. r \in Runs /\ r.on
      BY <2>3 DEF Runs
    <2>5. PICK q : q = [r EXCEPT !.off_wait_time = w]
      OBVIOUS
    <2>6. q \in Runs /\ q.on
      BY <2>4, <2>5 DEF Runs
    <2>7. PICK z : z = [q EXCEPT !.tell = m]
      OBVIOUS
    <2>8. z \in Runs /\ z.on
      BY <2>6, <2>7 DEF Runs
    <2>9. set_on(s, initiated) = [s EXCEPT !.on = TRUE, !.off_wait_time = w, !.tell = m]
      BY <1>2, <2>1, <2>2, Zenon DEF set_on
    <2> QED
      BY <2>3, <2>5, <2>7, <2>8, <2>9, Zenon
  <1> QED
    BY <1>1, <1>2

\* OnOffHandler::set_off switches off, unless it leaves that to the coupled cluster.
LEMMA SetOffLemma ==
    ASSUME config \in [lighting : BOOLEAN, coupled : BOOLEAN], ~config.lighting,
           NEW s \in Runs, NEW initiated \in BOOLEAN
    PROVE  /\ set_off(s, initiated) \in Runs
           /\ set_off(s, initiated).on = (s.on /\ Told(initiated))
  <1>1. CASE ~s.on
    BY <1>1 DEF set_off, Runs
  <1>2. CASE s.on
    <2>1. PICK w \in Times : w = s.on_time
      BY DEF Runs
    <2>2. PICK m \in Changes \cup {Null} :
            m = IF Told(initiated) THEN OnOffStateChange(FALSE) ELSE s.tell
      BY DEF Runs, Changes, OnOffStateChange
    <2>3. PICK b \in BOOLEAN : b = Told(initiated)
      BY DEF Told
    <2>4. PICK r : r = [s EXCEPT !.on_time = w]
      OBVIOUS
    <2>5. r \in Runs
      BY <2>4 DEF Runs
    <2>6. PICK q : q = [r EXCEPT !.on = b]
      OBVIOUS
    <2>7. q \in Runs /\ q.on = b
      BY <2>5, <2>6 DEF Runs
    <2>8. PICK z : z = [q EXCEPT !.tell = m]
      OBVIOUS
    <2>9. z \in Runs /\ z.on = b
      BY <2>7, <2>8 DEF Runs
    <2>10. set_off(s, initiated) = [s EXCEPT !.on_time = w, !.on = b, !.tell = m]
      BY <1>2, <2>1, <2>2, <2>3, Zenon DEF set_off
    <2>11. set_off(s, initiated) = z
      BY <2>4, <2>6, <2>8, <2>10, Zenon
    <2> QED
      BY <1>2, <2>3, <2>9, <2>11
  <1> QED
    BY <1>1, <1>2 DEF Runs

\* The state machine has ended in the state of the device.
Agrees(s) == (s.state = "On") = s.on
Ends(r) == r \in Runs /\ r.outcome = "Done" /\ r.state \in {"On", "Off"}

\* OnOffHandler::update follows the device.
LEMMA UpdateLemma ==
    ASSUME ~config.lighting, NEW s \in Runs
    PROVE  Ends(update(s)) /\ Agrees(update(s))
  <1>1. PICK on, off : on = To(s, "On", "Done") /\ off = To(s, "Off", "Done")
    OBVIOUS
  <1>2. /\ on \in Runs /\ on.state = "On" /\ on.outcome = "Done" /\ on.on = s.on
        /\ off \in Runs /\ off.state = "Off" /\ off.outcome = "Done" /\ off.on = s.on
    BY <1>1, DoneLemma
  <1>3. [on EXCEPT !.off_wait_time = on.off_wait_time] = on /\ [off EXCEPT !.on_time = off.on_time] = off
    BY <1>2 DEF Runs
  <1>4. update(s) = IF s.on THEN on ELSE off
    BY <1>1, <1>3, Zenon DEF update
  <1>5. s.on \in BOOLEAN
    BY DEF Runs
  <1> QED
    BY <1>2, <1>4, <1>5 DEF Ends, Agrees

\* A round without the LIGHTING feature is the last, and the machine keeps in step with
\* the device.
LEMMA RoundLemma ==
    ASSUME config \in [lighting : BOOLEAN, coupled : BOOLEAN], ~config.lighting,
           NEW s \in Runs, s.state \in {"On", "Off"}, NEW command \in PlainCommand
    PROVE  Ends(state_machine(s, command)) /\ (Agrees(s) => Agrees(state_machine(s, command)))
  <1>1. ASSUME s.state = "On"
        PROVE  Ends(InOn(s, command)) /\ (Agrees(s) => Agrees(InOn(s, command)))
    <2>1. CASE command \in {"Off", "Toggle"}
      <3>1. PICK o : o = set_off(s, FALSE)
        OBVIOUS
      <3>2. o \in Runs /\ o.on = (s.on /\ Told(FALSE))
        BY <3>1, SetOffLemma
      <3>3. PICK after \in {"On", "Off"} : after = AfterOff(s)
        BY DEF AfterOff
      <3>4. (after = "On") = o.on
        BY <3>2, <3>3 DEF AfterOff, is_set_off, Told, Runs
      <3>5. InOn(s, command) = To(o, after, "Done")
        BY <2>1, <3>1, <3>3 DEF InOn
      <3>6. PICK r : r = To(o, after, "Done")
        OBVIOUS
      <3>7. r \in Runs /\ r.outcome = "Done" /\ r.state = after /\ r.on = o.on
        <4>1. o \in Runs
          BY <3>2
        <4> QED
          BY <3>6, <4>1, DoneLemma
      <3> QED
        BY <3>4, <3>5, <3>6, <3>7 DEF Ends, Agrees
    <2>2. CASE command = "CoupledClusterOff"
      <3>1. PICK o : o = set_off(s, TRUE)
        OBVIOUS
      <3>2. o \in Runs /\ o.on = FALSE
        BY <3>1, SetOffLemma DEF Told
      <3>3. InOn(s, command) = To(o, "Off", "Done")
        BY <2>2, <3>1 DEF InOn
      <3> QED
        BY <3>2, <3>3, DoneLemma DEF Ends, Agrees
    <2>3. CASE command \in {"On", "CoupledClusterOn"}
      <3>1. InOn(s, command) = To(s, "On", "Done")
        BY <2>3 DEF InOn
      <3> QED
        BY <1>1, <3>1, DoneLemma DEF Ends, Agrees
    <2>4. CASE command = "Update"
      <3>1. InOn(s, command) = update(s)
        BY <2>4 DEF InOn
      <3> QED
        BY <3>1, UpdateLemma
    <2> QED
      BY <2>1, <2>2, <2>3, <2>4 DEF PlainCommand
  <1>2. ASSUME s.state = "Off"
        PROVE  Ends(InOff(s, command)) /\ (Agrees(s) => Agrees(InOff(s, command)))
    <2>1. CASE command \in {"Off", "CoupledClusterOff"}
      <3>1. InOff(s, command) = To(s, "Off", "Done")
        BY <2>1 DEF InOff
      <3> QED
        BY <1>2, <3>1, DoneLemma DEF Ends, Agrees
    <2>2. CASE command \in {"On", "Toggle", "CoupledClusterOn"}
      <3>1. PICK o : o = IF command = "CoupledClusterOn" THEN set_on(s, TRUE) ELSE set_on(s, FALSE)
        OBVIOUS
      <3>2. o \in Runs /\ o.on
        BY <3>1, SetOnLemma
      <3>3. InOff(s, command) = To(o, "On", "Done")
        BY <2>2, <3>1 DEF InOff
      <3>4. o.on = TRUE
        BY <3>2 DEF Runs
      <3>5. PICK r : r = To(o, "On", "Done")
        OBVIOUS
      <3>6. r \in Runs /\ r.outcome = "Done" /\ r.state = "On" /\ r.on = o.on
        BY <3>2, <3>5, DoneLemma
      <3> QED
        BY <3>3, <3>4, <3>5, <3>6 DEF Ends, Agrees
    <2>3. CASE command = "Update"
      <3>1. InOff(s, command) = update(s)
        BY <2>3 DEF InOff
      <3> QED
        BY <3>1, UpdateLemma
    <2> QED
      BY <2>1, <2>2, <2>3 DEF PlainCommand
  <1>3. PICK r : r = Round(s, command)
    OBVIOUS
  <1>4. Ends(r) /\ (Agrees(s) => Agrees(r))
    BY <1>1, <1>2, <1>3 DEF Round
  <1>5. state_machine(s, command) = r
    BY <1>3, <1>4 DEF state_machine, Ends
  <1> QED
    BY <1>4, <1>5

\* A poll of the state machine leaves the light in step, and nothing that waits.
LEMMA PollLemma ==
    ASSUME config \in [lighting : BOOLEAN, coupled : BOOLEAN], ~config.lighting, Plain,
           NEW r, Ends(r), NEW command, Leaves(r, command), ~off_track' => Agrees(r),
           state_change_signal' = Null
    PROVE  LightInv'
  <1>1. r \in Runs /\ r.state \in {"On", "Off"} /\ r.outcome = "Done"
    BY DEF Ends
  <1>2. light' \in Light /\ light'.on = r.on /\ light'.state = r.state
    BY <1>1 DEF Leaves, Kept, Light, Runs
  <1>3. machine' = Null /\ config' = config
    BY <1>1 DEF Leaves
  <1>4. task_signal' # Null => task_signal'.task \in TaskNames
    <2>1. r.tell # Null => r.tell.task = "OnOffStateChange"
      BY <1>1 DEF Runs, Changes
    <2> QED
      BY <2>1 DEF Leaves, Plain, TaskNames
  <1>5. Plain'
    BY <1>1, <1>2, <1>3, <1>4 DEF Plain, Agrees
  <1> QED
    BY <1>3, <1>5 DEF LightInv

\* A step that leaves the On/Off cluster alone but for a command it signals.
LEMMA SignalLemma ==
    ASSUME LightInv, UNCHANGED <<config, light, machine, off_track>>,
           ~config.lighting => state_change_signal' \in PlainCommand \cup {state_change_signal},
           \/ task_signal' \in {task_signal, Null}
           \/ task_signal'.task \in TaskNames
    PROVE  LightInv'
  <1>1. ~config.lighting => Plain'
    BY DEF LightInv, Plain
  <1> QED
    BY <1>1 DEF LightInv

\* The commands of the On/Off cluster, and changes by hand.
LEMMA OnOffRequestsLemma == LightInv /\ OnOffRequests => LightInv'
  <1>1. SUFFICES ASSUME LightInv, OnOffRequests PROVE LightInv'
    OBVIOUS
  <1>2. ASSUME NEW command \in {"Off", "On", "Toggle", "OffWithEffect"}, handle_command(command)
        PROVE  LightInv'
    BY <1>1, <1>2, SignalLemma DEF handle_command, signal, PlainCommand
  <1>3. ASSUME config.lighting, config' = config PROVE LightInv'
    BY <1>1, <1>3 DEF LightInv
  <1>4. ASSUME NEW only \in BOOLEAN, NEW on_time \in Times, NEW off_wait_time \in Times,
               handle_on_with_timed_off(only, on_time, off_wait_time)
        PROVE  LightInv'
    BY <1>3, <1>4 DEF handle_on_with_timed_off
  <1>5. ASSUME NEW field \in {"on_time", "off_wait_time"}, NEW value \in Times, set_times(field, value)
        PROVE  LightInv'
    BY <1>3, <1>5 DEF set_times
  <1>6. ASSUME NEW wait_is_over \in BOOLEAN, physical_change(wait_is_over), ~config.lighting
        PROVE  LightInv'
    <2>1. Plain
      BY <1>1, <1>6 DEF LightInv
    <2>2. ~wait_is_over
      BY <1>6, <2>1 DEF Plain, physical_change
    <2>3. PICK s : s = [Running(light) EXCEPT !.on = ~@]
      OBVIOUS
    <2>4. s \in Runs
      <3>1. Running(light) \in Runs
        BY <2>1 DEF Plain, Running, Runs, Light, Outcomes
      <3> QED
        BY <2>3, <3>1 DEF Runs
    <2>5. Leaves(update(s), "Update") /\ state_change_signal' = Null
      BY <1>6, <2>2, <2>3, Zenon DEF physical_change
    <2>6. Ends(update(s)) /\ Agrees(update(s))
      BY <1>6, <2>4, UpdateLemma
    <2> QED
      BY <1>1, <1>6, <2>1, <2>5, <2>6, PollLemma DEF LightInv
  <1>7. ASSUME NEW wait_is_over \in BOOLEAN, physical_change(wait_is_over), config.lighting
        PROVE  LightInv'
    BY <1>3, <1>7 DEF physical_change, Leaves
  <1> QED
    BY <1>1, <1>2, <1>4, <1>5, <1>6, <1>7 DEF OnOffRequests

\* OnOffHandler::run takes the signalled command, or a wait is over.
LEMMA OnOffRunLemma == LightInv /\ OnOffRun => LightInv'
  <1>1. SUFFICES ASSUME LightInv, OnOffRun PROVE LightInv'
    OBVIOUS
  <1>2. CASE config.lighting
    BY <1>1, <1>2 DEF LightInv, OnOffRun, take_command, wait_over, Leaves
  <1>3. CASE ~config.lighting
    <2>1. Plain
      BY <1>1, <1>3 DEF LightInv
    <2>2. take_command
      BY <1>1, <2>1 DEF OnOffRun, wait_over, Plain
    <2>3. PICK command \in PlainCommand : command = state_change_signal
      BY <2>1, <2>2 DEF Plain, take_command
    <2>4. PICK s : s = Running(light)
      OBVIOUS
    <2>5. s \in Runs /\ s.on = light.on /\ s.state = light.state
      BY <2>1, <2>4 DEF Plain, Running, Runs, Light, Outcomes
    <2>6. PICK r : r = state_machine(s, command)
      OBVIOUS
    <2>7. Ends(r) /\ (Agrees(s) => Agrees(r))
      BY <1>1, <1>3, <2>1, <2>5, <2>6, RoundLemma DEF LightInv, Plain
    <2>8. Leaves(r, command) /\ state_change_signal' = Null /\ off_track' = off_track
      BY <2>2, <2>3, <2>4, <2>6, Zenon DEF take_command
    <2>9. ~off_track' => Agrees(r)
      BY <2>1, <2>5, <2>7, <2>8 DEF Plain, Agrees
    <2> QED
      BY <1>1, <1>3, <2>1, <2>7, <2>8, <2>9, PollLemma DEF LightInv
  <1> QED
    BY <1>2, <1>3

\* What the coupled cluster may be told.
LEMMA CoupledLemma ==
    /\ \A at, with_on_off : coupled_command(at, with_on_off) \in Coupled
    /\ \A t : transition_step(t).command \in Coupled
    /\ \A t, from : move_step(t, from).command \in Coupled
  <1>1. \A at, with_on_off : coupled_command(at, with_on_off) \in Coupled
    BY DEF coupled_command, Coupled
  <1>2. Null \in Coupled
    BY DEF Coupled
  <1>3. \A l, w, c : Polled(l, w, c).command = c
    BY DEF Polled
  <1>4. ASSUME NEW t PROVE transition_step(t).command \in Coupled
    BY <1>1, <1>2, <1>3 DEF transition_step
  <1>5. ASSUME NEW t, NEW from PROVE move_step(t, from).command \in Coupled
    BY <1>1, <1>2, <1>3 DEF move_step
  <1> QED
    BY <1>1, <1>4, <1>5

\* What a poll of the Level Control cluster's task leaves behind.
LEMMA LevelLeavesLemma ==
    ASSUME LightInv, NEW p, ~config.lighting => p.command \in Coupled, LevelLeaves(p),
           task_signal' \in {task_signal, Null}
    PROVE  LightInv'
  <1>1. /\ state_change_signal' = IF p.command = Null THEN state_change_signal ELSE p.command
        /\ UNCHANGED <<config, light, machine, off_track>>
    BY DEF LevelLeaves
  <1>2. ~config.lighting => state_change_signal' \in PlainCommand \cup {state_change_signal}
    BY <1>1 DEF Coupled, PlainCommand
  <1> QED
    BY <1>1, <1>2, SignalLemma

\* The task of the Level Control cluster is polled.
LEMMA LevelRunLemma == LightInv /\ LevelRun => LightInv'
  <1>1. SUFFICES ASSUME LightInv, LevelRun PROVE LightInv'
    OBVIOUS
  <1>2. CASE take_task
    <2>1. PICK timed \in BOOLEAN : LevelLeaves(task_manager(task_signal, timed))
      BY <1>2 DEF take_task
    <2>2. ASSUME ~config.lighting PROVE task_manager(task_signal, timed).command \in Coupled
      <3>1. task_signal.task \in TaskNames
        BY <1>1, <1>2, <2>2 DEF LightInv, Plain, take_task
      <3>2. Null \in Coupled /\ \A l, w, c : Polled(l, w, c).command = c
        BY DEF Coupled, Polled
      <3>3. on_off_state_change(task_signal.on, timed).command \in Coupled
        <4>1. PICK p : p = on_off_state_change(task_signal.on, timed)
          OBVIOUS
        <4>2. \/ \E from, with_on_off : p = Polled(from, Null, coupled_command(from, with_on_off))
              \/ \E t : p = transition_step(t)
          BY <4>1, Zenon DEF on_off_state_change
        <4>3. p.command \in Coupled
          BY <3>2, <4>2, CoupledLemma
        <4> QED
          BY <4>1, <4>3
      <3> QED
        BY <3>1, <3>2, <3>3, CoupledLemma DEF task_manager, TaskNames
    <2> QED
      BY <1>1, <1>2, <2>1, <2>2, LevelLeavesLemma DEF take_task
  <1>3. CASE step_over
    BY <1>1, <1>3, CoupledLemma, LevelLeavesLemma DEF step_over, Step
  <1> QED
    BY <1>1, <1>2, <1>3 DEF LevelRun

\* The commands of the Level Control cluster, and changes of the level by hand.
LEMMA LevelRequestsLemma == LightInv /\ LevelRequests => LightInv'
  <1>1. SUFFICES ASSUME LightInv, LevelRequests PROVE LightInv'
    OBVIOUS
  <1>2. ASSUME NEW with_on_off, NEW requested, NEW timed, LevelRequest,
               move_to_level(with_on_off, requested, timed)
        PROVE  LightInv'
    <2>1. task_signal'.task \in TaskNames
      BY <1>2 DEF move_to_level, Stop, MoveToLevel, TaskNames
    <2>2. \/ UNCHANGED state_change_signal
          \/ \E target : update_coupled_on_off(target, with_on_off)
      BY <1>2, Zenon DEF move_to_level
    <2>3. state_change_signal' \in PlainCommand \cup {state_change_signal}
      BY <2>2, CoupledLemma DEF update_coupled_on_off, signal, Coupled, PlainCommand
    <2> QED
      BY <1>1, <1>2, <2>1, <2>3, SignalLemma DEF LevelRequest
  <1>3. ASSUME LevelRequest, UNCHANGED state_change_signal,
               UNCHANGED task_signal \/ task_signal'.task \in TaskNames
        PROVE  LightInv'
    BY <1>1, <1>3, SignalLemma DEF LevelRequest
  <1>4. ASSUME NEW with_on_off \in BOOLEAN, NEW timed \in BOOLEAN, NEW requested \in Requested, NEW mask \in Masks,
               handle_move_to_level(with_on_off, requested, timed, mask)
        PROVE  LightInv'
    BY <1>2, <1>4 DEF handle_move_to_level
  <1>5. ASSUME NEW with_on_off \in BOOLEAN, NEW up \in BOOLEAN, NEW timed \in BOOLEAN, NEW size \in Sizes,
               NEW mask \in Masks, handle_step(with_on_off, up, size, timed, mask)
        PROVE  LightInv'
    BY <1>2, <1>5 DEF handle_step
  <1>6. ASSUME NEW with_on_off \in BOOLEAN, NEW up \in BOOLEAN, NEW mask \in Masks,
               handle_move(with_on_off, up, mask)
        PROVE  LightInv'
    BY <1>3, <1>6 DEF handle_move, TaskNames
  <1>7. ASSUME NEW with_on_off \in BOOLEAN, NEW mask \in Masks, handle_stop(with_on_off, mask)
        PROVE  LightInv'
    BY <1>3, <1>7 DEF handle_stop, Stop, TaskNames
  <1>8. ASSUME NEW l \in {Null, MIN_LEVEL, MAX_LEVEL}, NEW e \in BOOLEAN, set_level_attributes(l, e)
        PROVE  LightInv'
    BY <1>3, <1>8 DEF set_level_attributes
  <1>9. ASSUME NEW mask \in Masks, out_of_band_borrows(FALSE, mask)
        PROVE  LightInv'
    BY <1>3, <1>9 DEF out_of_band_borrows
  <1>10. ASSUME NEW l \in MIN_LEVEL .. MAX_LEVEL, NEW timer_fired \in BOOLEAN, level_update(l, timer_fired)
         PROVE  LightInv'
    <2>1. PICK p : p = IF timer_fired THEN [Step(l) EXCEPT !.task = Null] ELSE Polled(l, Null, Null)
      OBVIOUS
    <2>2. LevelLeaves(p) /\ task_signal' = Null
      BY <1>10, <2>1, Zenon DEF level_update
    <2>3. p.command \in Coupled
      <3>1. PICK a, b, c : Step(l) = [level |-> a, task |-> b, command |-> c]
        BY Zenon DEF Step, move_step, transition_step, Polled
      <3>2. Step(l).command \in Coupled
        BY CoupledLemma DEF Step
      <3> QED
        BY <2>1, <3>1, <3>2 DEF Polled, Coupled
    <2> QED
      BY <1>1, <2>2, <2>3, LevelLeavesLemma
  <1> QED
    BY <1>1, <1>4, <1>5, <1>6, <1>7, <1>8, <1>9, <1>10 DEF LevelRequests

\* Without the LIGHTING feature, and unless StartUpOnOff has set them apart,
\* state_machine agrees with the device, however many commands, steps of transitions
\* and changes by hand there are.
THEOREM LightStaysInStep == LightSpec => []InStep
  <1>1. LightInit => LightInv
    <2>1. SUFFICES ASSUME LightInit PROVE LightInv
      OBVIOUS
    <2>2. PICK before \in BOOLEAN, after \in BOOLEAN :
            /\ light = [on |-> after, state |-> IF before THEN "On" ELSE "Off",
                        on_time |-> 0, off_wait_time |-> 0]
            /\ off_track = (before # after)
      BY <2>1 DEF LightInit, OnOffInit
    <2>3. light \in Light
      BY <2>2, OnOffAssumption DEF Light, Times
    <2>4. Plain
      BY <2>1, <2>2, <2>3 DEF LightInit, OnOffInit, Plain
    <2> QED
      BY <2>1, <2>4 DEF LightInit, OnOffInit, LightInv
  <1>2. LightInv /\ [LightNext]_lightVars => LightInv'
    <2>1. SUFFICES ASSUME LightInv, [LightNext]_lightVars PROVE LightInv'
      OBVIOUS
    <2>2. CASE UNCHANGED lightVars
      BY <2>1, <2>2 DEF lightVars, onOffVars, LightInv, Plain
    <2> QED
      BY <2>1, <2>2, OnOffRequestsLemma, OnOffRunLemma, LevelRequestsLemma, LevelRunLemma DEF LightNext
  <1>3. LightInv => InStep
    BY DEF LightInv, Plain, InStep
  <1> QED
    BY <1>1, <1>2, <1>3, PTL DEF LightSpec

-----------------------------------------------------------------------------
\* Commissioning.

Table(f) == DOMAIN f \subseteq FabIdx /\ f \in [DOMAIN f -> Fabric]

\* Credentials of the right context, and no fabric twice.
Sound(f) ==
    /\ \A i \in DOMAIN f : f[i].fresh
    /\ \A i, j \in DOMAIN f : f[i].identity = f[j].identity => i = j

FailSafes == [armed : BOOLEAN, fab_idx : 0 .. MAX_FAB_IDX, flags : SUBSET NocFlags]

FailSafeType ==
    /\ failsafe \in FailSafes
    /\ secret_key \in BOOLEAN
    /\ root_ca \in [identity : Identities, current : BOOLEAN]
    /\ networks \in NetworkConfigs /\ stored_networks \in NetworkConfigs

\* The store holds fabrics of the table only.
Tables ==
    /\ Table(fabrics) /\ Table(stored)
    /\ DOMAIN stored \subseteq DOMAIN fabrics
    /\ Cardinality(DOMAIN fabrics) <= MAX_FABRICS

\* What is not pending is stored as it is.
AgreeUnlessPending ==
    \A i \in DOMAIN fabrics : \/ has_pending_noc_for(i)
                              \/ i \in DOMAIN stored /\ fabrics[i] = stored[i]

IdleIsClean == ~failsafe.armed => failsafe = Idle /\ networks = stored_networks

\* The flags vouch for the key and the certificate.
StagedIsCurrent ==
    /\ failsafe.flags \cap {"ADD_CSR_REQ_RECVD", "UPDATE_CSR_REQ_RECVD"} # {} => secret_key
    /\ "ADD_ROOT_CERT_RECVD" \in failsafe.flags => root_ca.current

NodeInv ==
    /\ FailSafeType /\ Tables
    /\ AgreeUnlessPending /\ IdleIsClean /\ StagedIsCurrent
    /\ Sound(fabrics) /\ Sound(stored)

-------------------------------------------------------------------------------
\* A set of numbers has a least one.
LEMMA LeastExists ==
  ASSUME NEW T, T \subseteq Nat, T # {}
  PROVE  \E x \in T : \A y \in T : x <= y
  <1>1. \E x \in T : \A y \in T : ~(<<y, x>> \in OpToRel(<, Nat))
    BY NatLessThanWellFounded, WFMin
  <1>2. OpToRel(<, Nat) = {ss \in Nat \X Nat : ss[1] < ss[2]}
    BY Zenon DEF OpToRel
  <1>3. \E x \in T : \A y \in T : ~(<<y, x>> \in {ss \in Nat \X Nat : ss[1] < ss[2]})
    BY <1>1, <1>2, Zenon
  <1>4. PICK x \in T : \A y \in T : ~(<<y, x>> \in {ss \in Nat \X Nat : ss[1] < ss[2]})
    BY <1>3
  <1>5. ASSUME NEW y \in T PROVE x <= y
    <2>1. <<y, x>> \in Nat \X Nat /\ <<y, x>>[1] = y /\ <<y, x>>[2] = x
      OBVIOUS
    <2>2. ~(y < x)
      BY <1>4, <2>1, Zenon
    <2> QED BY <2>2
  <1> QED BY <1>5

\* A set of numbers with a bound has a largest one.
LEMMA LargestExists ==
  ASSUME NEW b \in Nat, NEW T, T \subseteq 0 .. b, T # {}
  PROVE  \E x \in T : \A y \in T : x >= y
  <1> DEFINE U == {d \in 0 .. b : b - d \in T}
  <1>1. U \subseteq Nat /\ U # {}
    <2>1. PICK t \in T : TRUE
      OBVIOUS
    <2>2. b - t \in 0 .. b /\ b - (b - t) = t
      OBVIOUS
    <2> QED BY <2>1, <2>2
  <1>2. PICK d \in U : \A e \in U : d <= e
    <2> HIDE DEF U
    <2> QED BY <1>1, LeastExists
  <1>3. ASSUME NEW y \in T PROVE b - d >= y
    <2>1. b - y \in U
      <3>1. b - y \in 0 .. b /\ b - (b - y) = y
        OBVIOUS
      <3> QED BY <3>1
    <2> QED BY <1>2, <2>1
  <1> QED BY <1>2, <1>3

\* The index of a new fabric is one that is free, also when the largest is in
\* use (Fabrics::add_with_post_init).
LEMMA NextIsFree ==
  ASSUME Tables, has_room
  PROVE  next_fab_idx \in FabIdx \ DOMAIN fabrics
  <1> DEFINE D == DOMAIN fabrics
             F == FabIdx \ D
  <1>0. MAX_FAB_IDX \in Nat /\ MAX_FABRICS \in Nat \ {0} /\ MAX_FABRICS <= MAX_FAB_IDX
    BY FabricsAssumption
  <1>1. D \subseteq FabIdx /\ FabIdx \subseteq 0 .. MAX_FAB_IDX
    BY <1>0 DEF Tables, Table, FabIdx
  <1>2. Cardinality(D) < MAX_FABRICS
    BY DEF has_room
  <1>3. F # {}
    <2>1. Cardinality(FabIdx) = MAX_FAB_IDX
      BY <1>0, FS_Interval DEF FabIdx
    <2>2. SUFFICES ASSUME F = {} PROVE FALSE
      OBVIOUS
    <2>3. D = FabIdx
      BY <1>1, <2>2
    <2> QED BY <1>0, <1>2, <2>1, <2>3
  <1>4. CASE D = {}
    BY <1>0, <1>4 DEF next_fab_idx, FabIdx
  <1>5. CASE D # {} /\ Max(D) < MAX_FAB_IDX
    <2>1. \E x \in D : \A y \in D : x >= y
      BY <1>0, <1>1, <1>5, LargestExists
    <2>2. Max(D) \in D /\ \A y \in D : Max(D) >= y
      BY <2>1 DEF Max
    <2>3. Max(D) + 1 \in FabIdx \ D
      BY <1>0, <1>1, <1>5, <2>2 DEF FabIdx
    <2> QED BY <1>5, <2>3 DEF next_fab_idx
  <1>6. CASE D # {} /\ ~(Max(D) < MAX_FAB_IDX)
    <2>0. F \subseteq Nat
      BY <1>0 DEF FabIdx
    <2>1. \E x \in F : \A y \in F : x <= y
      <3> HIDE DEF F
      <3> QED BY <1>3, <2>0, LeastExists
    <2>2. Min(F) \in F
      BY <2>1 DEF Min
    <2> QED BY <1>6, <2>2 DEF next_fab_idx
  <1> QED BY <1>4, <1>5, <1>6

-------------------------------------------------------------------------------
\* The fabric x is entered into the table f, and the others are as before.
Entered(f, i, x) ==
    /\ Table(With(f, i, x))
    /\ DOMAIN With(f, i, x) = DOMAIN f \cup {i}
    /\ With(f, i, x)[i] = x
    /\ \A j \in DOMAIN f \ {i} : With(f, i, x)[j] = f[j]

\* A fabric put into a table is there, and the others are as before.
LEMMA WithProperties ==
  ASSUME NEW f, Table(f), NEW i \in FabIdx, NEW x \in Fabric
  PROVE  Entered(f, i, x)
  BY DEF Entered, Table, With

\* A fabric taken out of a table is gone, and the others are as before.
LEMMA WithoutProperties ==
  ASSUME NEW f, Table(f), NEW i
  PROVE  /\ Table(Without(f, i))
         /\ DOMAIN Without(f, i) = DOMAIN f \ {i}
         /\ \A j \in DOMAIN f \ {i} : Without(f, i)[j] = f[j]
  BY DEF Table, Without, Restrict

\* A table is finite.
LEMMA DomainIsFinite ==
  ASSUME NEW f, Table(f)
  PROVE  IsFiniteSet(DOMAIN f)
  <1>1. IsFiniteSet(FabIdx)
    BY FS_Interval, FabricsAssumption DEF FabIdx
  <1> QED BY <1>1, FS_Subset DEF Table

\* What is stored of a fabric whose credentials are not pending is what the
\* store already holds (set_acl, handle_set_vid_verification_statement).
LEMMA StoringAgain ==
  ASSUME NodeInv, NEW i \in DOMAIN fabrics, ~has_pending_noc_for(i)
  PROVE  With(stored, i, fabrics[i]) = stored
  <1>1. i \in DOMAIN stored /\ fabrics[i] = stored[i]
    BY DEF NodeInv, AgreeUnlessPending
  <1>2. stored = [j \in DOMAIN stored |-> stored[j]]
    BY DEF NodeInv, Tables, Table
  <1>3. DOMAIN stored \cup {i} = DOMAIN stored
    BY <1>1
  <1>4. With(stored, i, fabrics[i]) = [j \in DOMAIN stored |-> stored[j]]
    BY <1>1, <1>3 DEF With
  <1> QED BY <1>2, <1>4

\* Outside a pending context, and only there, every fabric is settled.
LEMMA NothingPending ==
  ASSUME NodeInv, failsafe.flags \cap {"ADD_NOC_RECVD", "UPDATE_NOC_RECVD"} = {}
  PROVE  /\ DOMAIN fabrics = DOMAIN stored
         /\ \A i \in DOMAIN fabrics : fabrics[i] = stored[i]
  BY DEF NodeInv, Tables, AgreeUnlessPending, has_pending_noc_for

\* A record of the shape of the fail-safe has its type.
LEMMA FailSafeRecord ==
  ASSUME NEW a \in BOOLEAN, NEW b \in 0 .. MAX_FAB_IDX, NEW c \in SUBSET NocFlags
  PROVE  [armed |-> a, fab_idx |-> b, flags |-> c] \in FailSafes
  BY DEF FailSafes

\* Recording what was received changes the flags only.
LEMMA FlagsAreAdded ==
  ASSUME FailSafeType, NEW F \in SUBSET NocFlags
  PROVE  /\ AddFlags(F) = [armed |-> failsafe.armed, fab_idx |-> failsafe.fab_idx,
                           flags |-> failsafe.flags \cup F]
         /\ failsafe.armed \in BOOLEAN /\ failsafe.fab_idx \in 0 .. MAX_FAB_IDX
         /\ failsafe.flags \cup F \in SUBSET NocFlags
  <1>1. failsafe \in [armed : BOOLEAN, fab_idx : 0 .. MAX_FAB_IDX, flags : SUBSET NocFlags]
    BY DEF FailSafeType, FailSafes
  <1>2. AddFlags(F) = [armed |-> failsafe.armed, fab_idx |-> failsafe.fab_idx,
                       flags |-> failsafe.flags \cup F]
    <2> DEFINE G == failsafe.flags \cup F
    <2>1. AddFlags(F) = [failsafe EXCEPT !.flags = G]
      BY DEF AddFlags
    <2> HIDE DEF G
    <2>2. [failsafe EXCEPT !.flags = G] =
            [armed |-> failsafe.armed, fab_idx |-> failsafe.fab_idx, flags |-> G]
      BY <1>1
    <2> QED BY <2>1, <2>2 DEF G
  <1>3. failsafe.flags \in SUBSET NocFlags
    BY <1>1
  <1> QED BY <1>1, <1>2, <1>3

\* The same, field by field.
LEMMA FlaggedFields ==
  ASSUME FailSafeType, NEW F \in SUBSET NocFlags
  PROVE  /\ AddFlags(F) \in FailSafes
         /\ AddFlags(F).armed = failsafe.armed /\ AddFlags(F).fab_idx = failsafe.fab_idx
         /\ AddFlags(F).flags = failsafe.flags \cup F
  BY DEF AddFlags, FailSafeType, FailSafes

-------------------------------------------------------------------------------
\* FailSafe::arm starts a context in which nothing has been received.
LEMMA ArmKeeps ==
  ASSUME NodeInv, NEW s, s.fab_idx \in 0 .. MAX_FAB_IDX, arm(s), UNCHANGED <<fabrics, stored>>
  PROVE  NodeInv'
  <1>1. failsafe.flags = {}
    BY DEF NodeInv, IdleIsClean, Idle, arm
  <1>2. FailSafeType'
    BY DEF NodeInv, FailSafeType, FailSafes, arm, Outdated
  <1>3. AgreeUnlessPending'
    BY <1>1, NothingPending DEF AgreeUnlessPending
  <1>4. IdleIsClean' /\ StagedIsCurrent'
    BY DEF IdleIsClean, StagedIsCurrent, arm
  <1>5. Tables' /\ Sound(fabrics)' /\ Sound(stored)'
    BY DEF NodeInv, Tables, Table, Sound
  <1> QED BY <1>2, <1>3, <1>4, <1>5 DEF NodeInv

\* What holds in general of a command that stages something.
LEMMA StagingKeeps ==
  ASSUME NodeInv, failsafe.armed,
         NEW flag \in {"ADD_CSR_REQ_RECVD", "UPDATE_CSR_REQ_RECVD", "ADD_ROOT_CERT_RECVD"},
         failsafe' = AddFlags({flag}),
         secret_key' \in BOOLEAN,
         root_ca' \in [identity : Identities, current : BOOLEAN],
         UNCHANGED <<fabrics, stored, networks, stored_networks>>,
         StagedIsCurrent'
  PROVE  NodeInv'
  <1>1. FailSafeType /\ {flag} \in SUBSET NocFlags
    BY DEF NodeInv, NocFlags
  <1>2. /\ failsafe' \in FailSafes
        /\ failsafe'.armed = failsafe.armed /\ failsafe'.fab_idx = failsafe.fab_idx
        /\ failsafe'.flags = failsafe.flags \cup {flag}
    BY <1>1, FlaggedFields
  <1>3. FailSafeType'
    BY <1>1, <1>2 DEF FailSafeType
  <1>4. AgreeUnlessPending'
    <2>1. \A i : has_pending_noc_for(i) => has_pending_noc_for(i)'
      BY <1>2 DEF has_pending_noc_for, is_armed_for
    <2> QED BY <2>1 DEF NodeInv, AgreeUnlessPending
  <1>5. IdleIsClean'
    BY <1>2 DEF IdleIsClean
  <1>6. Tables' /\ Sound(fabrics)' /\ Sound(stored)'
    BY DEF NodeInv, Tables, Table, Sound
  <1> QED BY <1>3, <1>4, <1>5, <1>6 DEF NodeInv

\* AddTrustedRootCertificate stages a certificate of the current context.
LEMMA RootKeeps ==
  ASSUME NodeInv, NEW s, NEW identity \in Identities, add_trusted_root_cert(s, identity)
  PROVE  NodeInv'
  <1>1. /\ failsafe' = AddFlags({"ADD_ROOT_CERT_RECVD"}) /\ failsafe.armed
        /\ root_ca' = [identity |-> identity, current |-> TRUE]
        /\ UNCHANGED <<fabrics, stored, secret_key, networks, stored_networks>>
    BY DEF add_trusted_root_cert, check_state, is_armed_for, Staged
  <1>2. failsafe'.flags = failsafe.flags \cup {"ADD_ROOT_CERT_RECVD"}
    BY <1>1, FlagsAreAdded DEF NodeInv, NocFlags
  <1>3. StagedIsCurrent'
    BY <1>1, <1>2 DEF NodeInv, StagedIsCurrent
  <1>4. secret_key' \in BOOLEAN
    BY <1>1 DEF NodeInv, FailSafeType
  <1>5. root_ca' \in [identity : Identities, current : BOOLEAN]
    BY <1>1
  <1> QED BY <1>1, <1>3, <1>4, <1>5, StagingKeeps

\* CSRRequest stages a key of the current context.
LEMMA CsrKeeps ==
  ASSUME NodeInv, NEW s, add_csr_req(s) \/ update_csr_req(s)
  PROVE  NodeInv'
  <1>1. PICK flag \in {"ADD_CSR_REQ_RECVD", "UPDATE_CSR_REQ_RECVD"} :
          /\ failsafe' = AddFlags({flag}) /\ failsafe.armed
          /\ secret_key' = TRUE
          /\ UNCHANGED <<fabrics, stored, root_ca, networks, stored_networks>>
    BY DEF add_csr_req, update_csr_req, check_state, is_armed_for
  <1>2. failsafe'.flags = failsafe.flags \cup {flag}
    BY <1>1, FlagsAreAdded DEF NodeInv, NocFlags
  <1>3. StagedIsCurrent'
    BY <1>1, <1>2 DEF NodeInv, StagedIsCurrent
  <1>4. root_ca' \in [identity : Identities, current : BOOLEAN]
    BY <1>1 DEF NodeInv, FailSafeType
  <1> QED BY <1>1, <1>3, <1>4, StagingKeeps

\* UpdateNOC makes the credentials of its own fabric pending, from a key of the
\* current context.
LEMMA UpdateNocKeeps ==
  ASSUME NodeInv, NEW s, update_noc(s)
  PROVE  NodeInv'
  <1> DEFINE k == failsafe.fab_idx
             x == [identity |-> fabrics[k].identity, noc |-> 1 - fabrics[k].noc, fresh |-> TRUE]
  <1>1. /\ failsafe.armed /\ "UPDATE_CSR_REQ_RECVD" \in failsafe.flags
        /\ failsafe.flags \cap {"ADD_NOC_RECVD", "UPDATE_NOC_RECVD"} = {}
        /\ k \in DOMAIN fabrics
        /\ fabrics' = [fabrics EXCEPT ![k].noc = 1 - @, ![k].fresh = secret_key]
        /\ failsafe' = [AddFlags({"UPDATE_NOC_RECVD"}) EXCEPT !.fab_idx = k]
        /\ UNCHANGED <<stored, secret_key, root_ca, networks, stored_networks>>
    BY DEF update_noc, check_state, is_armed_for
  <1>2. secret_key = TRUE
    BY <1>1 DEF NodeInv, StagedIsCurrent, FailSafeType
  <1>3. /\ failsafe' = [armed |-> failsafe.armed, fab_idx |-> k,
                        flags |-> failsafe.flags \cup {"UPDATE_NOC_RECVD"}]
        /\ failsafe' \in FailSafes
    <2>1. {"UPDATE_NOC_RECVD"} \in SUBSET NocFlags
      BY DEF NocFlags
    <2>2. /\ AddFlags({"UPDATE_NOC_RECVD"})
               = [armed |-> failsafe.armed, fab_idx |-> k,
                  flags |-> failsafe.flags \cup {"UPDATE_NOC_RECVD"}]
          /\ failsafe.armed \in BOOLEAN /\ k \in 0 .. MAX_FAB_IDX
          /\ failsafe.flags \cup {"UPDATE_NOC_RECVD"} \in SUBSET NocFlags
      BY <2>1, FlagsAreAdded DEF NodeInv
    <2>3. failsafe' = [armed |-> failsafe.armed, fab_idx |-> k,
                       flags |-> failsafe.flags \cup {"UPDATE_NOC_RECVD"}]
      BY <1>1, <2>2
    <2> QED BY <2>2, <2>3, FailSafeRecord, Zenon
  <1>4. /\ Table(fabrics) /\ fabrics[k] \in Fabric
        /\ x \in Fabric
    BY <1>1 DEF NodeInv, Tables, Table, Fabric
  <1>5. /\ DOMAIN fabrics' = DOMAIN fabrics
        /\ fabrics'[k] = x
        /\ \A i \in DOMAIN fabrics \ {k} : fabrics'[i] = fabrics[i]
        /\ Table(fabrics)'
    BY <1>1, <1>2, <1>4 DEF Table, Fabric
  <1>6. FailSafeType'
    BY <1>1, <1>3 DEF NodeInv, FailSafeType
  <1>7. Tables'
    BY <1>1, <1>5 DEF NodeInv, Tables, Table
  <1>8. AgreeUnlessPending'
    <2>1. \A i : i = k => has_pending_noc_for(i)'
      BY <1>1, <1>3 DEF has_pending_noc_for, is_armed_for
    <2>2. \A i \in DOMAIN fabrics : i \in DOMAIN stored /\ fabrics[i] = stored[i]
      BY <1>1, NothingPending
    <2> HIDE DEF k
    <2> QED BY <1>1, <1>5, <2>1, <2>2 DEF AgreeUnlessPending
  <1>9. IdleIsClean' /\ StagedIsCurrent'
    BY <1>1, <1>3 DEF NodeInv, IdleIsClean, StagedIsCurrent
  <1>10. Sound(fabrics)' /\ Sound(stored)'
    <2>1. \A i \in DOMAIN fabrics :
             fabrics'[i].identity = fabrics[i].identity /\ (fabrics[i].fresh => fabrics'[i].fresh)
      BY <1>5
    <2> QED BY <1>1, <1>5, <2>1 DEF NodeInv, Sound
  <1> QED BY <1>6, <1>7, <1>8, <1>9, <1>10 DEF NodeInv

\* AddNOC makes a fabric that the table does not have yet, at a free index and
\* from a root and a key of the current context, and moves the fail-safe to it.
LEMMA AddNocKeeps ==
  ASSUME NodeInv, NEW s, add_noc(s)
  PROVE  NodeInv' /\ next_fab_idx \in FabIdx
  <1> DEFINE k == next_fab_idx
             F == failsafe.flags \cup {"ADD_NOC_RECVD"}
  <1>1. /\ failsafe.armed
        /\ {"ADD_ROOT_CERT_RECVD", "ADD_CSR_REQ_RECVD"} \subseteq failsafe.flags
        /\ failsafe.flags \cap {"ADD_NOC_RECVD", "UPDATE_NOC_RECVD"} = {}
        /\ \A i \in DOMAIN fabrics : fabrics[i].identity # root_ca.identity
        /\ has_room
        /\ fabrics' = With(fabrics, k, Added)
        /\ failsafe' = [AddFlags({"ADD_NOC_RECVD"}) EXCEPT !.fab_idx = k]
        /\ UNCHANGED <<stored, secret_key, root_ca, networks, stored_networks>>
    BY DEF add_noc, check_state, is_armed_for
  <1>2. k \in FabIdx \ DOMAIN fabrics
    BY <1>1, NextIsFree DEF NodeInv
  <1> HIDE DEF k
  <1>3. Added \in Fabric /\ Added.identity = root_ca.identity /\ Added.fresh = TRUE
    BY <1>1 DEF NodeInv, StagedIsCurrent, FailSafeType, Added, Fabric
  <1>4. /\ failsafe' = [armed |-> failsafe.armed, fab_idx |-> k, flags |-> F]
        /\ failsafe' \in FailSafes
    <2>1. {"ADD_NOC_RECVD"} \in SUBSET NocFlags
      BY DEF NocFlags
    <2>2. /\ AddFlags({"ADD_NOC_RECVD"})
               = [armed |-> failsafe.armed, fab_idx |-> failsafe.fab_idx, flags |-> F]
          /\ failsafe.armed \in BOOLEAN
          /\ F \in SUBSET NocFlags
      BY <2>1, FlagsAreAdded DEF NodeInv
    <2> HIDE DEF F
    <2>3. failsafe' = [armed |-> failsafe.armed, fab_idx |-> k, flags |-> F]
      <3>1. failsafe' = [[armed |-> failsafe.armed, fab_idx |-> failsafe.fab_idx, flags |-> F]
                           EXCEPT !.fab_idx = k]
        BY <1>1, <2>2
      <3> QED BY <3>1
    <2>4. k \in 0 .. MAX_FAB_IDX
      BY <1>2, FabricsAssumption DEF FabIdx
    <2> QED BY <2>2, <2>3, <2>4, FailSafeRecord, Zenon
  <1>5. /\ Table(fabrics)'
        /\ DOMAIN fabrics' = DOMAIN fabrics \cup {k}
        /\ fabrics'[k] = Added
        /\ \A j \in DOMAIN fabrics : fabrics'[j] = fabrics[j]
    <2>1. Table(fabrics) /\ k \in FabIdx /\ Added \in Fabric
      BY <1>2, <1>3 DEF NodeInv, Tables
    <2>2. /\ Table(With(fabrics, k, Added))
          /\ DOMAIN With(fabrics, k, Added) = DOMAIN fabrics \cup {k}
          /\ With(fabrics, k, Added)[k] = Added
          /\ \A j \in DOMAIN fabrics \ {k} : With(fabrics, k, Added)[j] = fabrics[j]
      <3>1. Entered(fabrics, k, Added)
        BY <2>1, WithProperties, Zenon
      <3> QED BY <3>1 DEF Entered
    <2>3. Table(fabrics)'
      BY <1>1, <2>2 DEF Table
    <2> QED BY <1>1, <1>2, <2>2, <2>3
  <1>6. FailSafeType'
    BY <1>1, <1>4 DEF NodeInv, FailSafeType
  <1>7. Tables'
    <2>1. IsFiniteSet(DOMAIN fabrics)
      BY DomainIsFinite DEF NodeInv, Tables
    <2>2. Cardinality(DOMAIN fabrics') = Cardinality(DOMAIN fabrics) + 1
      BY <1>2, <1>5, <2>1, FS_AddElement
    <2>3. Cardinality(DOMAIN fabrics') <= MAX_FABRICS
      BY <1>1, <2>1, <2>2, FS_CardinalityType, FabricsAssumption DEF has_room
    <2> QED BY <1>1, <1>5, <2>3 DEF NodeInv, Tables, Table
  <1>8. AgreeUnlessPending'
    <2>1. \A i : i = k => has_pending_noc_for(i)'
      BY <1>1, <1>4 DEF has_pending_noc_for, is_armed_for
    <2>2. \A i \in DOMAIN fabrics : i \in DOMAIN stored /\ fabrics[i] = stored[i]
      BY <1>1, NothingPending
    <2> QED BY <1>1, <1>5, <2>1, <2>2 DEF AgreeUnlessPending
  <1>9. IdleIsClean' /\ StagedIsCurrent'
    BY <1>1, <1>4 DEF NodeInv, IdleIsClean, StagedIsCurrent
  <1>10. Sound(fabrics)' /\ Sound(stored)'
    BY <1>1, <1>3, <1>5 DEF NodeInv, Sound
  <1> QED BY <1>2, <1>6, <1>7, <1>8, <1>9, <1>10 DEF NodeInv, k

-------------------------------------------------------------------------------
\* A context that ends with the table as it is stored leaves nothing pending.
LEMMA RollbackKeeps ==
  ASSUME NodeInv, Table(fabrics)', DOMAIN fabrics' = DOMAIN stored,
         \A i \in DOMAIN stored : fabrics'[i] = stored[i],
         failsafe' = Idle, networks' = stored_networks, UNCHANGED <<stored, stored_networks>>,
         secret_key' \in BOOLEAN,
         root_ca' \in [identity : Identities, current : BOOLEAN]
  PROVE  NodeInv'
  <1>1. FailSafeType'
    <2>1. Idle \in FailSafes
      BY FabricsAssumption DEF Idle, FailSafes
    <2> QED BY <2>1 DEF NodeInv, FailSafeType
  <1>2. Tables'
    <2>1. IsFiniteSet(DOMAIN fabrics)
      BY DomainIsFinite DEF NodeInv, Tables
    <2>2. IsFiniteSet(DOMAIN stored) /\ Cardinality(DOMAIN stored) <= Cardinality(DOMAIN fabrics)
      BY <2>1, FS_Subset DEF NodeInv, Tables
    <2>3. Cardinality(DOMAIN fabrics') <= MAX_FABRICS
      BY <2>1, <2>2, FS_CardinalityType, FabricsAssumption DEF NodeInv, Tables
    <2> QED BY <2>3 DEF NodeInv, Tables, Table
  <1>3. AgreeUnlessPending'
    BY DEF AgreeUnlessPending
  <1>4. IdleIsClean' /\ StagedIsCurrent'
    BY DEF IdleIsClean, StagedIsCurrent, Idle
  <1>5. Sound(fabrics)' /\ Sound(stored)'
    BY DEF NodeInv, Sound
  <1> QED BY <1>1, <1>2, <1>3, <1>4, <1>5 DEF NodeInv

\* FailSafe::expire brings back what is stored of its fabric.
LEMMA ExpireKeeps ==
  ASSUME NodeInv, expire
  PROVE  NodeInv'
  <1> DEFINE k == failsafe.fab_idx
  <1>1. Table(fabrics) /\ Table(stored) /\ DOMAIN stored \subseteq DOMAIN fabrics
    BY DEF NodeInv, Tables
  <1>2. \A i \in DOMAIN fabrics \ {k} : i \in DOMAIN stored /\ fabrics[i] = stored[i]
    BY DEF NodeInv, AgreeUnlessPending, has_pending_noc_for, is_armed_for
  <1>3. /\ Table(fabrics)' /\ DOMAIN fabrics' = DOMAIN stored
        /\ \A i \in DOMAIN stored : fabrics'[i] = stored[i]
    <2>1. CASE k = 0
      <3>1. k \notin DOMAIN fabrics
        BY <1>1, <2>1, FabricsAssumption DEF Table, FabIdx
      <3>2. fabrics' = fabrics
        BY <2>1 DEF expire
      <3> HIDE DEF k
      <3> QED BY <1>1, <1>2, <3>1, <3>2 DEF Table
    <2>2. CASE k # 0
      <3> DEFINE g == Without(fabrics, k)
      <3>1. k \in DOMAIN fabrics /\ fabrics' = add_load(g, k)
        BY <2>2 DEF expire, expire_fails
      <3> HIDE DEF k
      <3>2. /\ Table(g) /\ DOMAIN g = DOMAIN fabrics \ {k}
            /\ \A j \in DOMAIN fabrics \ {k} : g[j] = fabrics[j]
        BY <1>1, WithoutProperties
      <3> HIDE DEF g
      <3>3. CASE k \in DOMAIN stored
        <4>1. stored[k] \in Fabric /\ k \in FabIdx
          BY <1>1, <3>3 DEF Table
        <4>2. /\ Table(With(g, k, stored[k]))
              /\ DOMAIN With(g, k, stored[k]) = DOMAIN g \cup {k}
              /\ With(g, k, stored[k])[k] = stored[k]
              /\ \A j \in DOMAIN g \ {k} : With(g, k, stored[k])[j] = g[j]
          <5>1. Entered(g, k, stored[k])
            BY <3>2, <4>1, WithProperties, Zenon
          <5> QED BY <5>1 DEF Entered
        <4>3. fabrics' = With(g, k, stored[k])
          BY <3>1, <3>3 DEF add_load
        <4>4. Table(fabrics)'
          BY <4>2, <4>3 DEF Table
        <4> QED BY <1>1, <1>2, <3>2, <3>3, <4>2, <4>3, <4>4
      <3>4. CASE k \notin DOMAIN stored
        <4>1. fabrics' = g
          BY <3>1, <3>4 DEF add_load
        <4>2. Table(fabrics)'
          BY <3>2, <4>1 DEF Table
        <4> QED BY <1>1, <1>2, <3>2, <3>4, <4>1, <4>2
      <3> QED BY <3>3, <3>4
    <2> QED BY <2>1, <2>2
  <1>4. /\ failsafe' = Idle /\ networks' = stored_networks
        /\ UNCHANGED <<stored, stored_networks, secret_key, root_ca>>
    BY DEF expire
  <1>5. secret_key' \in BOOLEAN /\ root_ca' \in [identity : Identities, current : BOOLEAN]
    BY <1>4 DEF NodeInv, FailSafeType
  <1> QED BY <1>3, <1>4, <1>5, RollbackKeeps

\* CommissioningComplete stores the pending fabric, so nothing is pending.
LEMMA DisarmKeeps ==
  ASSUME NodeInv, NEW s, disarm(s)
  PROVE  NodeInv'
  <1> DEFINE k == failsafe.fab_idx
  <1>1. /\ k \in DOMAIN fabrics /\ stored' = With(stored, k, fabrics[k])
        /\ failsafe' = Idle /\ stored_networks' = networks
        /\ UNCHANGED <<fabrics, secret_key, root_ca, networks>>
    BY DEF disarm, check_armed, check_state, is_armed_for
  <1>2. Table(fabrics) /\ Table(stored) /\ DOMAIN stored \subseteq DOMAIN fabrics
    BY DEF NodeInv, Tables
  <1>3. \A i \in DOMAIN fabrics \ {k} : i \in DOMAIN stored /\ fabrics[i] = stored[i]
    BY DEF NodeInv, AgreeUnlessPending, has_pending_noc_for, is_armed_for
  <1> HIDE DEF k
  <1>4. k \in FabIdx /\ fabrics[k] \in Fabric
    BY <1>1, <1>2 DEF Table
  <1>5. /\ Table(With(stored, k, fabrics[k]))
        /\ DOMAIN With(stored, k, fabrics[k]) = DOMAIN stored \cup {k}
        /\ With(stored, k, fabrics[k])[k] = fabrics[k]
        /\ \A j \in DOMAIN stored \ {k} : With(stored, k, fabrics[k])[j] = stored[j]
    <2>1. Entered(stored, k, fabrics[k])
      BY <1>2, <1>4, WithProperties, Zenon
    <2> QED BY <2>1 DEF Entered
  <1>6. Table(stored)'
    BY <1>1, <1>5 DEF Table
  <1>7. DOMAIN stored' = DOMAIN fabrics /\ \A i \in DOMAIN fabrics : stored'[i] = fabrics[i]
    BY <1>1, <1>2, <1>3, <1>5
  <1>8. FailSafeType'
    <2>1. Idle \in FailSafes
      BY FabricsAssumption DEF Idle, FailSafes
    <2> QED BY <1>1, <2>1 DEF NodeInv, FailSafeType
  <1>9. Tables'
    BY <1>1, <1>6, <1>7 DEF NodeInv, Tables, Table
  <1>10. AgreeUnlessPending'
    BY <1>1, <1>7 DEF AgreeUnlessPending
  <1>11. IdleIsClean' /\ StagedIsCurrent'
    BY <1>1 DEF IdleIsClean, StagedIsCurrent, Idle
  <1>12. Sound(fabrics)' /\ Sound(stored)'
    BY <1>1, <1>7 DEF NodeInv, Sound
  <1> QED BY <1>8, <1>9, <1>10, <1>11, <1>12 DEF NodeInv

\* RemoveFabric takes the fabric out of the table and out of the store.
LEMMA RemoveKeeps ==
  ASSUME NodeInv, NEW i \in DOMAIN fabrics,
         fabrics' = Without(fabrics, i), stored' = Without(stored, i), UNCHANGED failsafeVars
  PROVE  NodeInv'
  <1>1. Table(fabrics) /\ Table(stored) /\ DOMAIN stored \subseteq DOMAIN fabrics
    BY DEF NodeInv, Tables
  <1>2. /\ Table(Without(fabrics, i)) /\ Table(Without(stored, i))
        /\ DOMAIN Without(fabrics, i) = DOMAIN fabrics \ {i}
        /\ DOMAIN Without(stored, i) = DOMAIN stored \ {i}
        /\ \A j \in DOMAIN fabrics \ {i} : Without(fabrics, i)[j] = fabrics[j]
        /\ \A j \in DOMAIN stored \ {i} : Without(stored, i)[j] = stored[j]
    BY <1>1, WithoutProperties, Zenon
  <1>3. Table(fabrics)' /\ Table(stored)'
    BY <1>2 DEF Table
  <1>4. Tables'
    <2>1. IsFiniteSet(DOMAIN fabrics)
      BY <1>1, DomainIsFinite
    <2>2. /\ IsFiniteSet(DOMAIN fabrics')
          /\ Cardinality(DOMAIN fabrics') <= Cardinality(DOMAIN fabrics)
      BY <1>2, <2>1, FS_Subset
    <2>3. Cardinality(DOMAIN fabrics') <= MAX_FABRICS
      BY <2>1, <2>2, FS_CardinalityType, FabricsAssumption DEF NodeInv, Tables
    <2> QED BY <1>1, <1>2, <1>3, <2>3 DEF Tables
  <1>5. AgreeUnlessPending'
    <2>1. \A j : has_pending_noc_for(j) => has_pending_noc_for(j)'
      BY DEF failsafeVars, has_pending_noc_for, is_armed_for
    <2> QED BY <1>1, <1>2, <2>1 DEF NodeInv, AgreeUnlessPending
  <1>6. FailSafeType' /\ IdleIsClean' /\ StagedIsCurrent'
    BY DEF NodeInv, FailSafeType, IdleIsClean, StagedIsCurrent, failsafeVars
  <1>7. Sound(fabrics)' /\ Sound(stored)'
    BY <1>1, <1>2 DEF NodeInv, Sound
  <1> QED BY <1>3, <1>4, <1>5, <1>6, <1>7 DEF NodeInv

\* A change of the networks is stored at once or stays with the fail-safe.
LEMMA NetworksKeep ==
  ASSUME NodeInv, networks' = 1 - networks,
         UNCHANGED <<fabrics, stored, failsafe, secret_key, root_ca>>,
         \/ failsafe.armed /\ UNCHANGED stored_networks
         \/ ~failsafe.armed /\ stored_networks' = networks'
  PROVE  NodeInv'
  <1>1. FailSafeType'
    BY DEF NodeInv, FailSafeType, NetworkConfigs
  <1>2. IdleIsClean' /\ StagedIsCurrent'
    BY DEF NodeInv, IdleIsClean, StagedIsCurrent
  <1>3. AgreeUnlessPending'
    BY DEF NodeInv, AgreeUnlessPending, has_pending_noc_for, is_armed_for
  <1>4. Tables' /\ Sound(fabrics)' /\ Sound(stored)'
    BY DEF NodeInv, Tables, Table, Sound
  <1> QED BY <1>1, <1>2, <1>3, <1>4 DEF NodeInv

-------------------------------------------------------------------------------
PaseInv == PaseTypeOK /\ NoStaleMarker

Window == [open : BOOLEAN, expired : BOOLEAN, failures : 0 .. MAX_PAKE_FAILURES - 1]

\* A window that is opened or closed has no failures yet.
LEMMA WindowTypes == Opened \in Window /\ Closed \in Window
  <1>1. 0 \in 0 .. MAX_PAKE_FAILURES - 1
    BY PaseAssumption
  <1> QED
    BY <1>1 DEF Opened, Closed, Window

\* At the start the window is new or closed and there is no handshake.
LEMMA PaseInitially == PaseInit => PaseInv
  BY PaseAssumption, WindowTypes DEF PaseInit, PaseInv, PaseTypeOK, NoStaleMarker, Window,
     NoTimeout, Waits

\* Looking at the window, or at the marker, keeps its type, and the marker stays
\* where it was or is forgotten (check_comm_window_timeout,
\* update_session_timeout).
LEMMA LookingKeeps ==
  ASSUME PaseInv
  PROVE  /\ Checked(comm_window) \in Window
         /\ Current \in [exch : Exchanges \cup {NoExch}, expired : BOOLEAN]
         /\ Current.exch # NoExch => handshake[Current.exch] # "none"
  BY WindowTypes DEF PaseInv, PaseTypeOK, NoStaleMarker, Window, Checked, Current, NoTimeout

\* A handshake that ends with an error is counted, and the window is closed
\* before the count leaves its range (record_pake_failure).
LEMMA FailureKeeps ==
  ASSUME PaseInv, NEW x \in Exchanges, record_pake_failure(x)
  PROVE  PaseInv'
  <1> DEFINE w == [comm_window EXCEPT !.failures = @ + 1]
  <1>1. /\ session_timeout' = NoTimeout
        /\ comm_window' = IF ~w.open \/ w.failures >= MAX_PAKE_FAILURES THEN Closed ELSE w
        /\ handshake' = [handshake EXCEPT ![x] = "none"]
    BY DEF record_pake_failure
  <1>2. w = [open |-> comm_window.open, expired |-> comm_window.expired,
             failures |-> comm_window.failures + 1]
    BY DEF PaseInv, PaseTypeOK
  <1>3. comm_window' \in Window
    <2>1. CASE ~w.open \/ w.failures >= MAX_PAKE_FAILURES
      BY <1>1, <2>1, WindowTypes
    <2>2. CASE ~(~w.open \/ w.failures >= MAX_PAKE_FAILURES)
      BY <1>1, <1>2, <2>2, PaseAssumption DEF PaseInv, PaseTypeOK, Window
    <2> QED BY <2>1, <2>2
  <1> QED
    BY <1>1, <1>3 DEF PaseInv, PaseTypeOK, NoStaleMarker, Window, NoTimeout, Waits

\* Opening the window and closing it are for commands of administrators.
LEMMA WindowKeeps ==
  ASSUME PaseInv, open_comm_window \/ close_comm_window
  PROVE  PaseInv'
  BY WindowTypes DEF PaseInv, PaseTypeOK, NoStaleMarker, Window, open_comm_window,
     close_comm_window

\* An exchange that the marker does not belong to gives up and leaves it.
LEMMA RefusedKeeps ==
  ASSUME PaseInv, NEW x \in Exchanges, NEW new \in BOOLEAN, ~Granted(x, new),
         Refused(x, Current), UNCHANGED comm_window
  PROVE  PaseInv'
  <1>1. Current.exch # x
    BY DEF Granted
  <1> QED
    BY <1>1, LookingKeeps DEF PaseInv, PaseTypeOK, NoStaleMarker, Refused, Waits

\* A message that is answered takes the marker for its exchange.
LEMMA AnswerKeeps ==
  ASSUME PaseInv, NEW x \in Exchanges, NEW w \in Waits \ {"none"},
         comm_window' = comm_window \/ comm_window' = Checked(comm_window),
         session_timeout' = Timeout(x),
         handshake' = [handshake EXCEPT ![x] = w]
  PROVE  PaseInv'
  BY LookingKeeps DEF PaseInv, PaseTypeOK, NoStaleMarker, Window, Timeout

\* A handshake that finds the window closed, or that succeeds, clears the marker.
LEMMA ClearedKeeps ==
  ASSUME PaseInv, NEW x \in Exchanges,
         comm_window' = comm_window \/ comm_window' = Checked(comm_window),
         Refused(x, NoTimeout)
  PROVE  PaseInv'
  BY LookingKeeps DEF PaseInv, PaseTypeOK, NoStaleMarker, Window, Refused, NoTimeout, Waits

\* A Pake3 is answered, whatever its proof is worth.
LEMMA Pake3Keeps ==
  ASSUME PaseInv, NEW x \in Exchanges, NEW proven \in BOOLEAN, pake3(x, proven)
  PROVE  PaseInv'
  BY AnswerKeeps DEF pake3, Waits

\* Every step of a handshake preserves the types and the owner of the marker.
LEMMA PaseStepKeeps ==
  ASSUME PaseInv, PaseStep
  PROVE  PaseInv'
  <1>1. ASSUME NEW x \in Exchanges, pbkdf_param_request(x) PROVE PaseInv'
    <2>1. CASE Granted(x, TRUE) /\ comm_window'.open
      BY <1>1, <2>1, AnswerKeeps DEF pbkdf_param_request, Waits
    <2>2. CASE Granted(x, TRUE) /\ ~comm_window'.open
      BY <1>1, <2>2, ClearedKeeps DEF pbkdf_param_request
    <2>3. CASE ~Granted(x, TRUE)
      BY <1>1, <2>3, RefusedKeeps DEF pbkdf_param_request
    <2> QED BY <2>1, <2>2, <2>3
  <1>2. ASSUME NEW x \in Exchanges, pake1(x) PROVE PaseInv'
    <2>1. CASE Granted(x, FALSE) /\ comm_window'.open
      BY <1>2, <2>1, AnswerKeeps DEF pake1, Waits
    <2>2. CASE Granted(x, FALSE) /\ ~comm_window'.open
      BY <1>2, <2>2, ClearedKeeps DEF pake1
    <2>3. CASE ~Granted(x, FALSE)
      BY <1>2, <2>3, RefusedKeeps DEF pake1
    <2> QED BY <2>1, <2>2, <2>3
  <1>3. ASSUME NEW x \in Exchanges, pake3_refused(x) PROVE PaseInv'
    BY <1>3, RefusedKeeps DEF pake3_refused
  <1>4. ASSUME NEW x \in Exchanges, pake3(x, FALSE) PROVE PaseInv'
    BY <1>4, Pake3Keeps
  <1>5. ASSUME NEW x \in Exchanges, finish(x) \/ fail(x) PROVE PaseInv'
    BY <1>5, ClearedKeeps, FailureKeeps DEF finish, fail
  <1>6. CASE window_elapses
    BY <1>6 DEF window_elapses, PaseInv, PaseTypeOK, NoStaleMarker
  <1>7. CASE handshake_elapses
    BY <1>7 DEF handshake_elapses, PaseInv, PaseTypeOK, NoStaleMarker
  <1> QED
    BY <1>1, <1>2, <1>3, <1>4, <1>5, <1>6, <1>7 DEF PaseStep

-------------------------------------------------------------------------------
SessionInv == sessions \in [Slots -> SessionMode] /\ ChannelsAreGuarded

CommissioningInv == NodeInv /\ PaseInv /\ SessionInv

-------------------------------------------------------------------------------
\* What leaves the node alone.
LEMMA NodeStutters ==
  ASSUME NodeInv, UNCHANGED nodeVars
  PROVE  NodeInv'
  BY DEF nodeVars, failsafeVars, NodeInv, FailSafeType, Tables, Table, AgreeUnlessPending,
     has_pending_noc_for, is_armed_for, IdleIsClean, StagedIsCurrent, Sound

\* A restart loads what is stored.
LEMMA RestartKeeps ==
  ASSUME NodeInv, restart
  PROVE  NodeInv'
  <1>1. /\ fabrics' = stored /\ failsafe' = Idle /\ networks' = stored_networks
        /\ UNCHANGED <<stored, stored_networks>>
        /\ secret_key' \in BOOLEAN /\ root_ca' = Outdated(root_ca)
    BY DEF restart, load_persist
  <1>2. root_ca' \in [identity : Identities, current : BOOLEAN]
    BY <1>1 DEF NodeInv, FailSafeType, Outdated
  <1>3. Table(fabrics)'
    BY <1>1 DEF NodeInv, Tables, Table
  <1> QED BY <1>1, <1>2, <1>3, RollbackKeeps

\* The index of a session is that of a fabric or none.
LEMMA SessionFields ==
  ASSUME NEW s \in SessionMode
  PROVE  s.fab_idx \in 0 .. MAX_FAB_IDX
  BY FabricsAssumption DEF SessionMode, NoSession, FabIdx

\* A new or moved channel is a session.
LEMMA ChannelType ==
  ASSUME NEW i \in 0 .. MAX_FAB_IDX
  PROVE  [mode |-> "pase", fab_idx |-> i] \in SessionMode
  BY DEF SessionMode

\* Where the channels are removed none is left to guard.
LEMMA NoChannelLeft ==
  ASSUME SessionInv, sessions' = remove_pase
  PROVE  SessionInv'
  <1>1. sessions' \in [Slots -> SessionMode]
    BY DEF SessionInv, remove_pase, SessionMode
  <1>2. \A n \in Slots : sessions'[n].mode # "pase"
    BY DEF remove_pase, NoSession
  <1> QED BY <1>1, <1>2 DEF SessionInv, ChannelsAreGuarded

\* Channels that stay as they are stay guarded while an armed fail-safe remains
\* armed for its fabric and forgets nothing.
LEMMA ChannelsStay ==
  ASSUME SessionInv, sessions' \in [Slots -> SessionMode],
         \A n \in Slots : sessions'[n].mode = "pase" => sessions'[n] = sessions[n],
         failsafe.armed => /\ failsafe'.armed /\ failsafe'.fab_idx = failsafe.fab_idx
                           /\ failsafe.flags \subseteq failsafe'.flags
  PROVE  SessionInv'
  BY DEF SessionInv, ChannelsAreGuarded, is_armed_for

\* Storing a fabric that is not pending is no step of the node.
LEMMA StoreKeeps ==
  ASSUME NodeInv, NEW i \in DOMAIN fabrics, ~has_pending_noc_for(i),
         stored' = With(stored, i, fabrics[i]), UNCHANGED <<fabrics, failsafeVars>>
  PROVE  NodeInv' /\ stored' = stored
  <1>1. UNCHANGED nodeVars
    BY StoringAgain DEF nodeVars
  <1> QED BY <1>1, NodeStutters DEF nodeVars

\* Staging and UpdateNOC keep an armed fail-safe where it is.
LEMMA CredentialsStay ==
  ASSUME NodeInv, NEW s,
         \/ \E identity \in Identities : add_trusted_root_cert(s, identity)
         \/ add_csr_req(s) \/ update_csr_req(s) \/ update_noc(s)
  PROVE  /\ failsafe'.armed /\ failsafe'.fab_idx = failsafe.fab_idx
         /\ failsafe.flags \subseteq failsafe'.flags
         /\ stored' = stored
  <1>1. PICK flag \in NocFlags :
          /\ \/ failsafe' = [AddFlags({flag}) EXCEPT !.fab_idx = failsafe.fab_idx]
             \/ failsafe' = AddFlags({flag})
          /\ failsafe.armed /\ stored' = stored
    BY DEF add_trusted_root_cert, add_csr_req, update_csr_req, update_noc, check_state,
       is_armed_for, NocFlags
  <1>2. AddFlags({flag}) = [armed |-> failsafe.armed, fab_idx |-> failsafe.fab_idx,
                            flags |-> failsafe.flags \cup {flag}]
    BY FlagsAreAdded DEF NodeInv
  <1> QED BY <1>1, <1>2

\* AddNOC moves the channel that it came on, and finds no other that was moved
\* before (upgrade_fabric_idx).
LEMMA AddNocGuards ==
  ASSUME CommissioningInv, NEW n \in Slots, handle_add_noc(n)
  PROVE  SessionInv' /\ failsafe'.armed /\ stored' = stored
  <1> DEFINE k == next_fab_idx
  <1>1. /\ failsafe.armed /\ "ADD_NOC_RECVD" \notin failsafe.flags
        /\ failsafe' = [AddFlags({"ADD_NOC_RECVD"}) EXCEPT !.fab_idx = k]
        /\ stored' = stored
        /\ sessions' = IF sessions[n].mode = "pase"
                       THEN [sessions EXCEPT ![n].fab_idx = k] ELSE sessions
    BY DEF handle_add_noc, add_noc, check_state, is_armed_for
  <1>2. k \in 0 .. MAX_FAB_IDX
    BY AddNocKeeps, FabricsAssumption DEF CommissioningInv, handle_add_noc, FabIdx
  <1> HIDE DEF k
  <1>3. failsafe'.armed /\ failsafe'.fab_idx = k /\ "ADD_NOC_RECVD" \in failsafe'.flags
    <2>1. AddFlags({"ADD_NOC_RECVD"})
            = [armed |-> failsafe.armed, fab_idx |-> failsafe.fab_idx,
               flags |-> failsafe.flags \cup {"ADD_NOC_RECVD"}]
      BY FlagsAreAdded DEF CommissioningInv, NodeInv, NocFlags
    <2> QED BY <1>1, <2>1
  <1>4. \A m \in Slots : sessions[m].mode = "pase" => sessions[m].fab_idx = 0
    BY <1>1 DEF CommissioningInv, SessionInv, ChannelsAreGuarded
  <1>5. CASE sessions[n].mode = "pase"
    <2>1. sessions[n] \in SessionMode /\ sessions[n].mode = "pase"
      BY <1>5 DEF CommissioningInv, SessionInv
    <2>2. [sessions[n] EXCEPT !.fab_idx = k] = [mode |-> "pase", fab_idx |-> k]
      BY <2>1 DEF SessionMode, NoSession
    <2>3. sessions' = [sessions EXCEPT ![n] = [mode |-> "pase", fab_idx |-> k]]
      BY <1>1, <1>5, <2>2
    <2>4. sessions' \in [Slots -> SessionMode]
      BY <1>2, <2>3, ChannelType DEF CommissioningInv, SessionInv
    <2>5. ChannelsAreGuarded'
      BY <1>3, <1>4, <2>3 DEF CommissioningInv, SessionInv, ChannelsAreGuarded, is_armed_for
    <2> QED BY <1>1, <1>3, <2>4, <2>5 DEF SessionInv
  <1>6. CASE sessions[n].mode # "pase"
    BY <1>1, <1>3, <1>4, <1>6 DEF CommissioningInv, SessionInv, ChannelsAreGuarded, is_armed_for
  <1> QED BY <1>5, <1>6

-------------------------------------------------------------------------------
\* What a step may do to the store while the fail-safe stays armed.
StoreIsQuiet ==
    failsafe.armed /\ failsafe'.armed =>
        /\ DOMAIN stored' \subseteq DOMAIN stored
        /\ \A i \in DOMAIN stored' : stored'[i] = stored[i]

Keeps == CommissioningInv' /\ StoreIsQuiet

\* What leaves the handshakes alone.
LEMMA PaseStutters ==
  ASSUME PaseInv, UNCHANGED paseVars
  PROVE  PaseInv'
  BY DEF paseVars, PaseInv, PaseTypeOK, NoStaleMarker

\* A step of the sessions and handshakes only.
LEMMA NodeAside ==
  ASSUME CommissioningInv, UNCHANGED nodeVars, PaseInv', sessions' \in [Slots -> SessionMode],
         \A n \in Slots : sessions'[n].mode = "pase" => sessions'[n] = sessions[n]
  PROVE  Keeps
  <1>1. NodeInv' /\ failsafe' = failsafe /\ stored' = stored
    BY NodeStutters DEF CommissioningInv, nodeVars, failsafeVars
  <1>2. SessionInv'
    BY <1>1, ChannelsStay DEF CommissioningInv
  <1> QED BY <1>1, <1>2 DEF Keeps, CommissioningInv, StoreIsQuiet

\* The fail-safe runs out, or is made to, and the channels go with it.
LEMMA ExpiryKeeps ==
  ASSUME CommissioningInv, expire, sessions' = remove_pase, PaseInv'
  PROVE  Keeps
  <1>1. NodeInv' /\ SessionInv'
    BY ExpireKeeps, NoChannelLeft DEF CommissioningInv
  <1>2. stored' = stored
    BY DEF expire
  <1> QED BY <1>1, <1>2 DEF Keeps, CommissioningInv, StoreIsQuiet

\* Every command keeps the invariant and the store quiet.
LEMMA CommandKeeps ==
  ASSUME CommissioningInv, NEW n \in Slots, Command(n)
  PROVE  Keeps
  <1> DEFINE s == sessions[n]
  <1>0. /\ NodeInv /\ PaseInv /\ SessionInv
        /\ sessions \in [Slots -> SessionMode] /\ s \in SessionMode
        /\ s.fab_idx \in 0 .. MAX_FAB_IDX
    BY SessionFields DEF CommissioningInv, SessionInv
  <1>1. CASE handle_add_noc(n)
    <2>1. NodeInv' /\ PaseInv'
      BY <1>0, <1>1, AddNocKeeps, PaseStutters DEF handle_add_noc
    <2> QED BY <1>1, <2>1, AddNocGuards DEF Keeps, CommissioningInv, StoreIsQuiet
  <1>2. CASE handle_arm_fail_safe(s)
    <2>1. /\ ~failsafe.armed /\ arm(s) /\ UNCHANGED <<fabrics, stored, sessions, paseVars>>
      BY <1>2 DEF handle_arm_fail_safe, arm
    <2>2. NodeInv' /\ PaseInv' /\ SessionInv'
      BY <1>0, <2>1, ArmKeeps, PaseStutters, ChannelsStay
    <2> QED BY <2>1, <2>2 DEF Keeps, CommissioningInv, StoreIsQuiet
  <1>3. CASE force_expire(s)
    BY <1>0, <1>3, ExpiryKeeps, PaseStutters DEF force_expire
  <1>4. CASE handle_commissioning_complete(s)
    <2>1. NodeInv' /\ PaseInv' /\ SessionInv'
      BY <1>0, <1>4, DisarmKeeps, WindowKeeps, NoChannelLeft DEF handle_commissioning_complete
    <2>2. ~failsafe'.armed
      BY <1>4 DEF handle_commissioning_complete, disarm, Idle
    <2> QED BY <2>1, <2>2 DEF Keeps, CommissioningInv, StoreIsQuiet
  <1>5. CASE handle_credentials(s)
    <2>1. UNCHANGED <<paseVars, sessions>>
      BY <1>5 DEF handle_credentials
    <2>2. NodeInv'
      BY <1>0, <1>5, RootKeeps, CsrKeeps, UpdateNocKeeps DEF handle_credentials
    <2>3. /\ failsafe'.armed /\ failsafe'.fab_idx = failsafe.fab_idx
          /\ failsafe.flags \subseteq failsafe'.flags
          /\ stored' = stored
      BY <1>0, <1>5, CredentialsStay DEF handle_credentials
    <2>4. PaseInv' /\ SessionInv'
      BY <1>0, <2>1, <2>3, PaseStutters, ChannelsStay
    <2> QED BY <2>2, <2>3, <2>4 DEF Keeps, CommissioningInv, StoreIsQuiet
  <1>6. CASE handle_set_vid_verification_statement(s) \/ set_acl(s)
    <2>1. /\ s.fab_idx \in DOMAIN fabrics /\ ~has_pending_noc_for(s.fab_idx)
          /\ stored' = With(stored, s.fab_idx, fabrics[s.fab_idx])
          /\ UNCHANGED <<fabrics, failsafeVars, paseVars, sessions>>
      BY <1>6 DEF handle_set_vid_verification_statement, set_acl, has_pending_noc_for
    <2>2. stored' = stored
      BY <1>0, <2>1, StoreKeeps
    <2>3. UNCHANGED nodeVars /\ PaseInv'
      BY <1>0, <2>1, <2>2, PaseStutters DEF nodeVars
    <2> QED BY <1>0, <2>1, <2>3, NodeAside
  <1>7. ASSUME NEW i \in FabIdx, handle_remove_fabric(s, i) PROVE Keeps
    <2>1. /\ i \in DOMAIN fabrics /\ fabrics' = Without(fabrics, i) /\ stored' = Without(stored, i)
          /\ sessions' = remove_for_fabric(i) /\ UNCHANGED <<failsafeVars, paseVars>>
      BY <1>7 DEF handle_remove_fabric
    <2>2. NodeInv' /\ PaseInv'
      BY <1>0, <2>1, RemoveKeeps, PaseStutters
    <2>3. /\ sessions' \in [Slots -> SessionMode]
          /\ \A m \in Slots : sessions'[m].mode = "pase" => sessions'[m] = sessions[m]
      BY <1>0, <2>1 DEF remove_for_fabric, SessionMode, NoSession
    <2>4. SessionInv'
      BY <1>0, <2>1, <2>3, ChannelsStay DEF failsafeVars
    <2>5. StoreIsQuiet
      <3>1. Table(stored)
        BY <1>0 DEF NodeInv, Tables
      <3>2. /\ DOMAIN Without(stored, i) = DOMAIN stored \ {i}
            /\ \A j \in DOMAIN stored \ {i} : Without(stored, i)[j] = stored[j]
        BY <3>1, WithoutProperties, Zenon
      <3> QED BY <2>1, <3>2 DEF StoreIsQuiet
    <2> QED BY <2>2, <2>4, <2>5 DEF Keeps, CommissioningInv
  <1>8. CASE change_networks(s) \/ set_interface_enabled(s)
    <2>1. /\ networks' = 1 - networks
          /\ UNCHANGED <<fabrics, stored, failsafe, secret_key, root_ca, paseVars, sessions>>
          /\ \/ failsafe.armed /\ UNCHANGED stored_networks
             \/ ~failsafe.armed /\ stored_networks' = networks'
      BY <1>8 DEF change_networks, set_interface_enabled, check_armed, check_state, is_armed_for
    <2>2. NodeInv' /\ PaseInv' /\ SessionInv'
      BY <1>0, <2>1, NetworksKeep, PaseStutters, ChannelsStay
    <2> QED BY <2>1, <2>2 DEF Keeps, CommissioningInv, StoreIsQuiet
  <1>9. CASE handle_open_commissioning_window(s)
    BY <1>0, <1>9, NodeAside, WindowKeeps DEF handle_open_commissioning_window
  <1>10. CASE handle_revoke_commissioning(s)
    <2>1. PaseInv'
      BY <1>0, <1>10, WindowKeeps DEF handle_revoke_commissioning
    <2>2. CASE expire /\ sessions' = remove_pase
      BY <2>1, <2>2, ExpiryKeeps
    <2>3. CASE UNCHANGED <<nodeVars, sessions>>
      BY <1>0, <2>1, <2>3, NodeAside
    <2> QED BY <1>10, <2>2, <2>3 DEF handle_revoke_commissioning
  <1> QED
    BY <1>1, <1>2, <1>3, <1>4, <1>5, <1>6, <1>7, <1>8, <1>9, <1>10 DEF Command

\* A channel that a handshake ends in is guarded from its beginning.
LEMMA EstablishedKeeps ==
  ASSUME CommissioningInv, NEW x \in Exchanges, NEW n \in Slots, pase_established(x, n)
  PROVE  Keeps
  <1> DEFINE c == [mode |-> "pase", fab_idx |-> 0]
  <1>1. NodeInv /\ PaseInv /\ SessionInv /\ sessions \in [Slots -> SessionMode]
    BY DEF CommissioningInv, SessionInv
  <1>2. /\ pake3(x, TRUE) /\ sessions' = [sessions EXCEPT ![n] = c]
        /\ \/ arm(sessions'[n]) /\ UNCHANGED <<fabrics, stored>>
           \/ failsafe.armed /\ UNCHANGED nodeVars
    BY DEF pase_established
  <1>3. PaseInv'
    BY <1>1, <1>2, Pake3Keeps
  <1>4. c \in SessionMode /\ sessions'[n] = c
    BY <1>1, <1>2, ChannelType, FabricsAssumption
  <1>5. sessions' \in [Slots -> SessionMode]
    BY <1>1, <1>2, <1>4
  <1>6. CASE arm(sessions'[n]) /\ UNCHANGED <<fabrics, stored>>
    <2>1. sessions'[n].fab_idx \in 0 .. MAX_FAB_IDX
      BY <1>4, FabricsAssumption
    <2>2. NodeInv'
      BY <1>1, <1>6, <2>1, ArmKeeps
    <2>3. \A m \in Slots : sessions[m].mode # "pase"
      BY <1>1, <1>6 DEF arm, SessionInv, ChannelsAreGuarded
    <2>4. failsafe'.armed
      BY <1>6 DEF arm
    <2>5. SessionInv'
      BY <1>1, <1>2, <1>5, <2>3, <2>4 DEF SessionInv, ChannelsAreGuarded
    <2> QED BY <1>3, <1>6, <2>2, <2>5 DEF Keeps, CommissioningInv, StoreIsQuiet
  <1>7. CASE failsafe.armed /\ UNCHANGED nodeVars
    <2>1. NodeInv' /\ failsafe' = failsafe /\ stored' = stored
      BY <1>1, <1>7, NodeStutters DEF nodeVars, failsafeVars
    <2>2. SessionInv'
      BY <1>1, <1>2, <1>5, <1>7, <2>1 DEF SessionInv, ChannelsAreGuarded, is_armed_for
    <2> QED BY <1>3, <2>1, <2>2 DEF Keeps, CommissioningInv, StoreIsQuiet
  <1> QED BY <1>2, <1>6, <1>7

\* So does every step of the handshakes, and the end of a session.
LEMMA HandshakesKeep ==
  ASSUME CommissioningInv, Handshakes
  PROVE  Keeps
  <1>0. PaseInv /\ sessions \in [Slots -> SessionMode]
    BY DEF CommissioningInv, SessionInv
  <1>1. CASE PaseStep /\ UNCHANGED <<nodeVars, sessions, timers>>
    BY <1>0, <1>1, PaseStepKeeps, NodeAside
  <1>2. ASSUME NEW x \in Exchanges, NEW n \in Slots, pase_established(x, n) PROVE Keeps
    BY <1>2, EstablishedKeeps
  <1>3. ASSUME NEW i \in FabIdx, NEW n \in Slots, case_established(i, n) PROVE Keeps
    <2>1. /\ sessions' = [sessions EXCEPT ![n] = [mode |-> "case", fab_idx |-> i]]
          /\ UNCHANGED <<nodeVars, paseVars>>
      BY <1>3 DEF case_established
    <2>2. [mode |-> "case", fab_idx |-> i] \in SessionMode
      BY DEF SessionMode
    <2>3. /\ sessions' \in [Slots -> SessionMode]
          /\ \A m \in Slots : sessions'[m].mode = "pase" => sessions'[m] = sessions[m]
      BY <1>0, <2>1, <2>2
    <2> QED BY <1>0, <2>1, <2>3, PaseStutters, NodeAside
  <1>4. ASSUME NEW n \in Slots, session_gone(n) PROVE Keeps
    <2>1. sessions' = [sessions EXCEPT ![n] = NoSession] /\ UNCHANGED <<nodeVars, paseVars>>
      BY <1>4 DEF session_gone
    <2>2. /\ sessions' \in [Slots -> SessionMode]
          /\ \A m \in Slots : sessions'[m].mode = "pase" => sessions'[m] = sessions[m]
      BY <1>0, <2>1 DEF SessionMode, NoSession
    <2> QED BY <1>0, <2>1, <2>2, PaseStutters, NodeAside
  <1> QED BY <1>1, <1>2, <1>3, <1>4 DEF Handshakes

\* So does the check of the timeouts.
LEMMA TimeoutsKeep ==
  ASSUME CommissioningInv, NEW elapsed \in BOOLEAN, check_timeouts(elapsed)
  PROVE  Keeps
  <1>0. PaseInv /\ sessions \in [Slots -> SessionMode]
    BY DEF CommissioningInv, SessionInv
  <1>1. CASE elapsed /\ expire_fails
    BY <1>0, <1>1, PaseStutters, NodeAside DEF check_timeouts
  <1>2. CASE ~(elapsed /\ expire_fails)
    <2>1. /\ (expire /\ sessions' = remove_pase) \/ UNCHANGED <<nodeVars, sessions>>
          /\ comm_window' = Checked(comm_window) /\ UNCHANGED <<session_timeout, handshake>>
      BY <1>2 DEF check_timeouts
    <2>2. PaseInv'
      BY <1>0, <2>1, LookingKeeps DEF PaseInv, PaseTypeOK, NoStaleMarker, Window
    <2> QED BY <1>0, <2>1, <2>2, ExpiryKeeps, NodeAside
  <1> QED BY <1>1, <1>2

\* So does a restart, after which nothing is in progress.
LEMMA RestartingKeeps ==
  ASSUME CommissioningInv, restart
  PROVE  Keeps
  <1>1. NodeInv'
    BY RestartKeeps DEF CommissioningInv
  <1>2. PaseInv'
    BY WindowTypes DEF restart, PaseInv, PaseTypeOK, NoStaleMarker, Window, NoTimeout, Waits
  <1>3. SessionInv'
    BY DEF restart, SessionInv, ChannelsAreGuarded, SessionMode, NoSession
  <1>4. StoreIsQuiet
    BY DEF restart, StoreIsQuiet
  <1> QED BY <1>1, <1>2, <1>3, <1>4 DEF Keeps, CommissioningInv

\* The node starts with nothing stored and nothing in progress.
LEMMA CommissioningInitially == Init => CommissioningInv
  <1> SUFFICES ASSUME Init PROVE CommissioningInv
    OBVIOUS
  <1>1. FailSafeType
    <2>1. Idle \in FailSafes
      BY FabricsAssumption DEF Idle, FailSafes
    <2>2. root_ca \in [identity : Identities, current : BOOLEAN]
      BY DEF Init, FailSafeInit
    <2>3. failsafe = Idle /\ secret_key = FALSE /\ networks = 0 /\ stored_networks = 0
      BY DEF Init, FailSafeInit
    <2> QED BY <2>1, <2>2, <2>3 DEF FailSafeType, NetworkConfigs
  <1>2. fabrics = <<>> /\ stored = <<>> /\ DOMAIN <<>> = {}
    BY DEF Init, FailSafeInit, load_persist
  <1>3. Tables
    <2>1. Cardinality({}) = 0
      BY FS_EmptySet
    <2>2. <<>> \in [{} -> Fabric]
      OBVIOUS
    <2> QED BY <1>2, <2>1, <2>2, FabricsAssumption DEF Tables, Table
  <1>4. AgreeUnlessPending /\ Sound(fabrics) /\ Sound(stored)
    BY <1>2 DEF AgreeUnlessPending, Sound
  <1>5. IdleIsClean /\ StagedIsCurrent
    BY DEF Init, FailSafeInit, IdleIsClean, StagedIsCurrent, Idle
  <1>6. SessionInv
    BY DEF Init, SessionInv, ChannelsAreGuarded, SessionMode, NoSession
  <1> QED BY <1>1, <1>3, <1>4, <1>5, <1>6, PaseInitially DEF Init, CommissioningInv, NodeInv

-------------------------------------------------------------------------------
\* Every step of the node keeps the invariant and the store quiet.
LEMMA StepKeeps ==
  ASSUME CommissioningInv, [Next]_vars
  PROVE  Keeps
  <1>1. CASE Next
    BY <1>1, CommandKeeps, HandshakesKeep, TimeoutsKeep, RestartingKeeps DEF Next
  <1>2. CASE UNCHANGED vars
    BY <1>2, NodeAside, PaseStutters DEF vars, CommissioningInv, SessionInv
  <1> QED BY <1>1, <1>2

\* The invariant implies what is stated of the states of the node.
LEMMA InvariantImplies ==
  ASSUME CommissioningInv
  PROVE  /\ CommissioningTypeOK /\ OnlyTheFailSafeIsUncommitted
         /\ ChannelsAreGuarded /\ CredentialsOfOneContext /\ NoStaleMarker
  <1>1. \A f : Table(f) => f \in FabricTable
    BY DEF Table, FabricTable
  <1>2. CommissioningTypeOK
    BY <1>1 DEF CommissioningInv, NodeInv, PaseInv, SessionInv, FailSafeType, FailSafes, Tables,
       CommissioningTypeOK
  <1>3. OnlyTheFailSafeIsUncommitted
    BY DEF CommissioningInv, NodeInv, Tables, AgreeUnlessPending, IdleIsClean,
       has_pending_noc_for, is_armed_for, OnlyTheFailSafeIsUncommitted
  <1>4. CredentialsOfOneContext
    BY DEF CommissioningInv, NodeInv, Sound, CredentialsOfOneContext
  <1> QED BY <1>2, <1>3, <1>4 DEF CommissioningInv, SessionInv, PaseInv

\* The invariant holds throughout.
THEOREM CommissioningInvariant == Spec => []CommissioningInv
  <1>1. Init => CommissioningInv
    BY CommissioningInitially
  <1>2. CommissioningInv /\ [Next]_vars => CommissioningInv'
    BY StepKeeps DEF Keeps
  <1> QED BY <1>1, <1>2, PTL DEF Spec

\* The state of the node has its type: the table keeps to its capacity, and the
\* window to its failures, through every command, timeout and restart.
THEOREM CommissioningTypeCorrect == Spec => []CommissioningTypeOK
  <1>1. CommissioningInv => CommissioningTypeOK
    BY InvariantImplies
  <1> QED BY <1>1, CommissioningInvariant, PTL

\* The credentials that a restart or a rollback would lose are those of the fabric
\* that the fail-safe is armed for, and no others (FailSafe::expire, disarm, handle_remove_fabric).
THEOREM RestartLosesOnlyPending == Spec => []OnlyTheFailSafeIsUncommitted
  <1>1. CommissioningInv => OnlyTheFailSafeIsUncommitted
    BY InvariantImplies
  <1> QED BY <1>1, CommissioningInvariant, PTL

\* A commissioning channel always has a fail-safe to end it, of its own fabric
\* once it has one (FailSafe::expire, Session::upgrade_fabric_idx).
THEOREM ChannelsHaveFailSafe == Spec => []ChannelsAreGuarded
  <1>1. CommissioningInv => ChannelsAreGuarded
    BY InvariantImplies
  <1> QED BY <1>1, CommissioningInvariant, PTL

\* No fabric is there twice, and none has credentials left over from an earlier
\* context (FailSafe::add_noc, update_noc and arm).
THEOREM CredentialsAreCurrent == Spec => []CredentialsOfOneContext
  <1>1. CommissioningInv => CredentialsOfOneContext
    BY InvariantImplies
  <1> QED BY <1>1, CommissioningInvariant, PTL

\* However handshakes fail and overtake each other, the marker of the one in
\* progress is that of a task still running (PaseResponder::handle).
THEOREM MarkersAreOwned == Spec => []NoStaleMarker
  <1>1. CommissioningInv => NoStaleMarker
    BY InvariantImplies
  <1> QED BY <1>1, CommissioningInvariant, PTL

\* While the fail-safe stays armed the store gains and changes no credentials
\* (has_pending_noc_for, is_armed_for).
THEOREM StoreWaitsForCompletion == Spec => NothingIsStoredEarly
  <1>1. CommissioningInv /\ [Next]_vars => [StoreIsQuiet]_vars
    BY StepKeeps DEF Keeps
  <1>2. [StoreIsQuiet]_vars =>
          [failsafe.armed /\ failsafe'.armed =>
             /\ DOMAIN stored' \subseteq DOMAIN stored
             /\ \A i \in DOMAIN stored' : stored'[i] = stored[i]]_vars
    BY DEF StoreIsQuiet
  <1> QED BY <1>1, <1>2, CommissioningInvariant, PTL DEF Spec, NothingIsStoredEarly
===============================================================================
