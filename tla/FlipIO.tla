------------------------------- MODULE FlipIO -------------------------------
(***************************************************************************)
(* Motor, buttons and life of the Miyoo Flip gamepad driver: force         *)
(* feedback asks for a level under event_lock and a worker applies it to   *)
(* the PWM; an interrupt arms a delayed work that reads a GPIO; the power  *)
(* management core, the last close of the input device and the unbinding   *)
(* of the driver stop them.  Every step of one runs between any two steps  *)
(* of the others.  ff-memless, the input core and the workqueue are here   *)
(* as the driver relies on them.                                           *)
(***************************************************************************)
EXTENDS Integers

CONSTANTS MaxEvents   \* bound: effects played, edges, opens, suspends

VARIABLES life,     \* the thread that probes, suspends, resumes, closes or unbinds
          users,    \* the input device is open
          effect,   \* an effect plays
          level,    \* pad->rumble_level
          motor,    \* the PWM's duty
          work,     \* rumble_work: queued, and what a running one has read
          port,     \* pad->port_open
          gpio, shown,   \* the button, and what was reported of it
          btnIrq,   \* the button's interrupt: off, on, or raised
          btn,      \* its work: queued, and what a running one has read
          edge,     \* an interrupt was taken, and neither a suspend released the keys
                    \* nor an edge was missed since
          events

ioVars == <<life, users, effect, level, motor, work, port, gpio, shown, btnIrq, btn, edge, events>>

Idle == [queued |-> FALSE, run |-> "no", v |-> 0]
Count == events < MaxEvents /\ events' = events + 1

IoInit ==
    /\ life = "probe" /\ users = FALSE
    /\ effect = FALSE /\ level = 0 /\ motor = 0 /\ work = Idle
    /\ port = FALSE
    /\ gpio \in {0, 1} /\ shown = 0 /\ btnIrq = "off" /\ btn = Idle /\ edge = FALSE
    /\ events = 0

Motor == <<effect, level, motor, work>>
Button == <<gpio, shown, btnIrq, btn, edge>>

-----------------------------------------------------------------------------
(* mf_probe, after input_register_device: report the buttons, request the  *)
(* interrupts, open the line.                                              *)
ReportInitial ==
    /\ life = "probe"
    /\ shown' = gpio
    /\ life' = "irqs"
    /\ UNCHANGED <<users, Motor, port, gpio, btnIrq, btn, edge, events>>

ButtonsIrqs ==
    /\ life = "irqs"
    /\ btnIrq' = "on"
    /\ life' = "open"
    /\ UNCHANGED <<users, Motor, port, gpio, shown, btn, edge, events>>

\* mf_port_open, at the end of mf_probe and of mf_resume; a failure is logged.
OpenPort ==
    /\ life = "open"
    /\ port' \in BOOLEAN
    /\ life' = "bound"
    /\ UNCHANGED <<users, Motor, Button, events>>

-----------------------------------------------------------------------------
(* Force feedback. *)

\* mf_rumble_play, for ff-memless.
RumblePlay(l) == level' = l /\ work' = [work EXCEPT !.queued = TRUE]

\* The user plays or stops an effect, or its timer changes or ends it; user
\* processes are frozen around a suspend, timers are not.
Frozen == life \in {"quiesce", "quiesceoff", "closeport", "asleep", "reread", "restart",
                     "restartoff", "open"}
Play ==
    /\ users /\ ~Frozen
    /\ Count
    /\ effect' = TRUE
    /\ RumblePlay(1)
    /\ UNCHANGED <<life, users, motor, port, Button>>
Stop ==
    /\ effect /\ life # "asleep"
    /\ effect' = FALSE
    /\ RumblePlay(0)
    /\ UNCHANGED <<life, users, motor, port, Button, events>>

\* mf_rumble_work: reads the level, then applies it.
RumbleRead ==
    /\ work.queued /\ work.run = "no" /\ life # "asleep"
    /\ work' = [queued |-> FALSE, run |-> "read", v |-> level]
    /\ UNCHANGED <<life, users, effect, level, motor, port, Button, events>>
RumbleApply ==
    /\ work.run = "read" /\ life # "asleep"
    /\ motor' = work.v
    /\ work' = [work EXCEPT !.run = "no", !.v = 0]
    /\ UNCHANGED <<life, users, effect, level, port, Button, events>>

\* cancel_work_sync: waits for a running work and takes a queued one back.
CancelWork == work.run = "no" /\ work' = Idle

\* mf_rumble_stop is CancelWork and then this.
\* Mutant: the canceled work is trusted to have stopped the motor.
StopOff_canceled == level' = 0 /\ UNCHANGED motor
StopOff == level' = 0 /\ motor' = 0

-----------------------------------------------------------------------------
(* Open and close. *)
Open ==
    /\ ~users /\ life = "bound"
    /\ Count
    /\ users' = TRUE
    /\ UNCHANGED <<life, Motor, port, Button>>

\* The last close: the input core stops the effects, then calls mf_input_close.
Flush == users' = FALSE /\ effect' = FALSE /\ IF effect THEN RumblePlay(0) ELSE UNCHANGED <<level, work>>
Close ==
    /\ users /\ life = "bound"
    /\ Flush
    /\ life' = "close"
    /\ UNCHANGED <<motor, port, Button, events>>
CloseCancel ==
    /\ life = "close"
    /\ CancelWork
    /\ life' = "closeoff"
    /\ UNCHANGED <<users, effect, level, motor, port, Button, events>>
CloseOff ==
    /\ life = "closeoff"
    /\ StopOff
    /\ life' = "bound"
    /\ UNCHANGED <<users, effect, work, port, Button, events>>

-----------------------------------------------------------------------------
(* Suspend and resume. *)

\* The input core releases the keys that are down.
IoSuspend ==
    /\ life = "bound"
    /\ Count
    /\ shown' = 0 /\ edge' = FALSE
    /\ life' = "quiesce"
    /\ UNCHANGED <<users, Motor, port, gpio, btnIrq, btn>>
\* mf_rumble_quiesce and mf_port_close.
QuiesceCancel ==
    /\ life = "quiesce"
    /\ CancelWork
    /\ life' = "quiesceoff"
    /\ UNCHANGED <<users, effect, level, motor, port, Button, events>>
QuiesceOff ==
    /\ life = "quiesceoff"
    /\ motor' = 0
    /\ life' = "closeport"
    /\ UNCHANGED <<users, effect, level, work, port, Button, events>>
ClosePort ==
    /\ life = "closeport"
    /\ port' = FALSE
    /\ life' = "asleep"
    /\ UNCHANGED <<users, Motor, Button, events>>

\* mf_resume looks at the level, reads it again for mf_pwm_level, and applies it.
IoResume ==
    /\ life = "asleep"
    /\ life' = IF level # 0 THEN "reread" ELSE "open"
    /\ UNCHANGED <<users, Motor, port, Button, events>>
Reread ==
    /\ life = "reread"
    /\ life' = IF level # 0 THEN "restart" ELSE "restartoff"
    /\ UNCHANGED <<users, Motor, port, Button, events>>
Restart ==
    /\ life \in {"restart", "restartoff"}
    /\ motor' = IF life = "restart" THEN 1 ELSE 0
    /\ life' = "open"
    /\ UNCHANGED <<users, effect, level, work, port, Button, events>>

-----------------------------------------------------------------------------
(* The button. *)
Edge ==
    /\ Count
    /\ gpio' = 1 - gpio
    /\ \/ btnIrq # "off" /\ life # "asleep" /\ btnIrq' = "raised" /\ UNCHANGED edge
       \/ (btnIrq = "off" \/ life = "asleep") /\ edge' = FALSE /\ UNCHANGED btnIrq
    /\ UNCHANGED <<life, users, Motor, port, shown, btn>>

\* mf_btn_irq: mod_delayed_work queues the work also while it runs.
Armed == [btn EXCEPT !.queued = TRUE]
BtnIrq ==
    /\ btnIrq = "raised" /\ life # "asleep"
    /\ btnIrq' = "on" /\ edge' = TRUE
    /\ btn' = Armed
    /\ UNCHANGED <<life, users, Motor, port, gpio, shown, events>>

\* mf_btn_work: reads the GPIO, then reports under the lock.
BtnRead ==
    /\ btn.queued /\ btn.run = "no" /\ life # "asleep"
    /\ btn' = [queued |-> FALSE, run |-> "read", v |-> gpio]
    /\ UNCHANGED <<life, users, Motor, port, gpio, shown, btnIrq, edge, events>>
BtnReport ==
    /\ btn.run = "read" /\ life # "asleep"
    /\ shown' = btn.v
    /\ btn' = [btn EXCEPT !.run = "no", !.v = 0]
    /\ UNCHANGED <<life, users, Motor, port, gpio, btnIrq, edge, events>>

-----------------------------------------------------------------------------
(* mf_remove, then the managed resources: interrupts, the input device     *)
(* with its last close, memory.                                            *)
IoRemove ==
    /\ life = "bound"
    /\ port' = FALSE
    /\ life' = "stop"
    /\ UNCHANGED <<users, Motor, Button, events>>
RemoveCancel ==
    /\ life = "stop"
    /\ CancelWork
    /\ life' = "off"
    /\ UNCHANGED <<users, effect, level, motor, port, Button, events>>
RemoveOff ==
    /\ life = "off"
    /\ StopOff
    /\ life' = "buttons"
    /\ UNCHANGED <<users, effect, work, port, Button, events>>
DisableBtnIrq ==
    /\ life = "buttons" /\ btnIrq # "raised"
    /\ btnIrq' = "off"
    /\ life' = "buttonwork"
    /\ UNCHANGED <<users, Motor, port, gpio, shown, btn, edge, events>>
CancelButton ==
    /\ life = "buttonwork" /\ btn.run = "no"
    /\ btn' = Idle
    /\ life' = "unregister"
    /\ UNCHANGED <<users, Motor, port, gpio, shown, btnIrq, edge, events>>
Unregister ==
    /\ life = "unregister"
    /\ Flush
    /\ life' = IF users THEN "lastclose" ELSE "freed"
    /\ UNCHANGED <<motor, port, Button, events>>
LastCancel ==
    /\ life = "lastclose"
    /\ CancelWork
    /\ life' = "lastoff"
    /\ UNCHANGED <<users, effect, level, motor, port, Button, events>>
LastOff ==
    /\ life = "lastoff"
    /\ StopOff
    /\ life' = "freed"
    /\ UNCHANGED <<users, effect, work, port, Button, events>>

IoNext ==
    \/ ReportInitial \/ ButtonsIrqs \/ OpenPort
    \/ Play \/ Stop \/ RumbleRead \/ RumbleApply
    \/ Open \/ Close \/ CloseCancel \/ CloseOff
    \/ IoSuspend \/ QuiesceCancel \/ QuiesceOff \/ ClosePort \/ IoResume \/ Reread \/ Restart
    \/ Edge \/ BtnIrq \/ BtnRead \/ BtnReport
    \/ IoRemove \/ RemoveCancel \/ RemoveOff \/ DisableBtnIrq \/ CancelButton
    \/ Unregister \/ LastCancel \/ LastOff

IoSpec == IoInit /\ [][IoNext]_ioVars

-----------------------------------------------------------------------------
\* No motor is left running for a device that nobody has open, over closes that
\* race the worker, suspends and resumes; and once the driver's memory is gone
\* nothing is queued or running that would use it (mf_rumble_stop,
\* mf_buttons_stop).
MotorOff ==
    /\ ~users /\ life \in {"bound", "open", "asleep", "reread", "restart"} => motor = 0
    /\ life = "freed" => motor = 0 /\ work = Idle /\ btn = Idle /\ ~port

\* When the interrupts are served and no work is left, the button that was
\* reported is the button as it is (mf_btn_irq, mf_btn_work); an edge before the
\* interrupt is requested, or during a suspend, waits for the next one.
ButtonTruthful ==
    edge /\ btnIrq = "on" /\ btn = Idle => shown = gpio

\* No motor and no work is left behind, and no press is lost.
MotorAndButtons == MotorOff /\ ButtonTruthful
=============================================================================
