------------------------------ MODULE DdrFreq ------------------------------
(***************************************************************************)
(* The RK3568 memory frequency driver: devfreq asks for a rate, the driver *)
(* raises the voltage, has the firmware and its microcontroller change the *)
(* DDR clock, waits for the completion interrupt or a timeout, and lowers  *)
(* the voltage.  A transition that failed may have happened, may still     *)
(* happen, or never; the interrupt of one can arrive in the next.  The     *)
(* system suspends only at the rate of the boot.                           *)
(***************************************************************************)
EXTENDS Integers

CONSTANTS Rates,       \* rates of the enabled OPPs
          OppVolt,     \* their voltages
          BootRate,
          MaxCalls,    \* bound: targets and suspends
          MaxErrors    \* bound: failures of firmware, controller and regulator

VARIABLES ddr, vdd,    \* the clock and the regulator
          rate, volt,  \* what the driver believes
          mcu,         \* the transition the controller has been given
          irq,         \* the completion interrupt: enabled, pending
          wait,        \* wait_flag, post_set_err
          t,           \* the call under way
          asleep, scale,   \* suspended; post_resume_scale_down
          failed,      \* transitions that failed since the last call that succeeded
          calls, errors

ddrVars == <<ddr, vdd, rate, volt, mcu, irq, wait, t, asleep, scale, failed, calls, errors>>

NoCall == [at |-> "idle", op |-> "none", to |-> 0, raised |-> FALSE]
NoJob == [state |-> "none", to |-> 0]

DdrInit ==
    /\ ddr = BootRate /\ rate = BootRate
    /\ vdd = OppVolt[BootRate] /\ volt = OppVolt[BootRate]
    /\ mcu = NoJob
    /\ irq = [on |-> FALSE, pending |-> FALSE]
    /\ wait = [flag |-> 0, err |-> FALSE]
    /\ t = NoCall
    /\ asleep = FALSE /\ scale = 0 /\ failed = 0
    /\ calls = 0 /\ errors = 0

Hw == <<ddr, vdd, mcu, irq>>
Drv == <<rate, volt, wait, scale, failed>>
Err == errors < MaxErrors /\ errors' = errors + 1
Fine == UNCHANGED errors
At(s) == t' = [t EXCEPT !.at = s]
Least == CHOOSE r \in Rates : \A q \in Rates : r <= q

-----------------------------------------------------------------------------
(* The calls. *)

\* devfreq's poll: get_dev_status, the governor, rk3568_dmcfreq_target.  For three
\* polls after a resume the load is reported as none.
DevfreqPoll(f) ==
    /\ t.at = "idle" /\ ~asleep
    /\ calls < MaxCalls /\ calls' = calls + 1
    /\ scale > 0 => f = Least
    /\ scale' = IF scale > 0 THEN scale - 1 ELSE 0
    /\ t' = IF f = rate THEN NoCall
            ELSE [at |-> IF f > rate THEN "raise" ELSE "set", op |-> "target", to |-> f, raised |-> FALSE]
    /\ UNCHANGED <<Hw, rate, volt, wait, failed, asleep, errors>>

SuspendSteps ==
    IF rate = BootRate THEN "sleep" ELSE IF OppVolt[BootRate] > volt THEN "raise" ELSE "set"
Suspend ==
    /\ t.at = "idle" /\ ~asleep
    /\ calls < MaxCalls /\ calls' = calls + 1
    /\ t' = [at |-> SuspendSteps, op |-> "suspend", to |-> BootRate, raised |-> FALSE]
    /\ UNCHANGED <<Hw, Drv, asleep, errors>>

\* The voltage goes up before the rate; the call ends if it does not.
Raise ==
    /\ t.at = "raise"
    /\ \/ Fine /\ vdd' = OppVolt[t.to] /\ t' = [t EXCEPT !.at = "set", !.raised = TRUE]
       \/ Err /\ UNCHANGED vdd /\ t' = NoCall
    /\ UNCHANGED <<ddr, mcu, irq, Drv, asleep, calls>>

-----------------------------------------------------------------------------
(* rk3568_dmc_set_rate and rk3568_dmcfreq_wait_complete. *)

\* DRAM_SET_RATE: an error leaves either rate, success is immediate or handed to
\* the controller.
SetRate ==
    /\ t.at = "set"
    /\ \/ Err /\ ddr' \in {ddr, t.to} /\ mcu' = NoJob /\ At("failed")
       \/ Fine /\ ddr' = t.to /\ mcu' = NoJob /\ At("check")
       \/ Fine /\ UNCHANGED ddr /\ mcu' = [state |-> "given", to |-> t.to] /\ At("enable")
    /\ UNCHANGED <<vdd, irq, Drv, asleep, calls>>

EnableIrq ==
    /\ t.at = "enable"
    /\ wait' = [flag |-> -1, err |-> FALSE]
    /\ irq' = [irq EXCEPT !.on = TRUE]
    /\ At("start")
    /\ UNCHANGED <<ddr, vdd, mcu, rate, volt, scale, failed, asleep, calls, errors>>

McuStart ==
    /\ t.at = "start"
    /\ \/ Fine /\ mcu' = [mcu EXCEPT !.state = "runs"] /\ At("wait")
       \/ Err /\ UNCHANGED mcu /\ At("faildisable")
    /\ UNCHANGED <<ddr, vdd, irq, Drv, asleep, calls>>

\* The controller changes the clock and raises the interrupt, or hangs.
McuDone ==
    /\ mcu.state = "runs" /\ ~asleep
    /\ \/ Fine /\ ddr' = mcu.to /\ irq' = [irq EXCEPT !.pending = TRUE]
       \/ Err /\ UNCHANGED <<ddr, irq>>
    /\ mcu' = NoJob
    /\ UNCHANGED <<vdd, Drv, t, asleep, calls>>

\* rk3568_dcf_complete_irq, with its POST_SET_RATE.
CompleteIrq ==
    /\ irq.on /\ irq.pending
    /\ irq' = [irq EXCEPT !.pending = FALSE]
    /\ \/ Fine /\ wait' = [flag |-> 0, err |-> FALSE]
       \/ Err /\ wait' = [flag |-> 0, err |-> TRUE]
    /\ UNCHANGED <<ddr, vdd, mcu, rate, volt, t, asleep, scale, failed, calls>>

WaitDone ==
    /\ t.at = "wait" /\ wait.flag = 0
    /\ At(IF wait.err THEN "faildisable" ELSE "disable")
    /\ UNCHANGED <<Hw, Drv, asleep, calls, errors>>

TimedOut == wait.flag # 0
Timeout ==
    /\ t.at = "wait" /\ TimedOut
    /\ At("faildisable")
    /\ UNCHANGED <<Hw, Drv, asleep, calls, errors>>

DisableIrq ==
    /\ t.at \in {"disable", "faildisable"}
    /\ irq' = [irq EXCEPT !.on = FALSE]
    /\ At(IF t.at = "disable" THEN "check" ELSE "failed")
    /\ UNCHANGED <<ddr, vdd, mcu, Drv, asleep, calls, errors>>

\* The clock must show the rate that was asked for.
CheckClock ==
    /\ t.at = "check"
    /\ At(IF ddr = t.to THEN "lower" ELSE "failed")
    /\ UNCHANGED <<Hw, Drv, asleep, calls, errors>>

-----------------------------------------------------------------------------
(* The ends of a call. *)

\* The rate is unknown: the voltage that was raised for it stays, also in the
\* driver's books.  A failed suspend is given up.
\* Mutant: the old voltage is set again.
SetFailed_restore ==
    /\ t.at = "failed"
    /\ vdd' = volt
    /\ failed' = failed + 1
    /\ t' = NoCall
    /\ UNCHANGED <<ddr, mcu, irq, rate, volt, wait, asleep, scale, calls, errors>>
SetFailed ==
    /\ t.at = "failed"
    /\ volt' = IF t.raised THEN OppVolt[t.to] ELSE volt
    /\ failed' = failed + 1
    /\ t' = NoCall
    /\ UNCHANGED <<Hw, rate, wait, asleep, scale, calls, errors>>

\* Target compares rates and suspend voltages to see whether to lower the voltage;
\* a regulator error keeps the higher one.
Lowers == IF t.op = "target" THEN t.to < rate ELSE OppVolt[t.to] < volt
Lower ==
    /\ t.at = "lower"
    /\ rate' = t.to
    /\ \/ /\ Fine
          /\ failed' = 0
          /\ vdd' = IF Lowers THEN OppVolt[t.to] ELSE vdd
          /\ volt' = OppVolt[t.to]
          /\ t' = IF t.op = "suspend" THEN [t EXCEPT !.at = "sleep"] ELSE NoCall
       \/ Lowers /\ Err /\ UNCHANGED <<vdd, volt, failed>> /\ t' = NoCall
    /\ UNCHANGED <<ddr, mcu, irq, wait, asleep, scale, calls>>

Sleep ==
    /\ t.at = "sleep"
    /\ asleep' = TRUE
    /\ t' = NoCall
    /\ UNCHANGED <<Hw, Drv, calls, errors>>
Resume ==
    /\ asleep
    /\ asleep' = FALSE
    /\ rate' = ddr /\ scale' = 3
    /\ UNCHANGED <<Hw, volt, wait, t, failed, calls, errors>>

CallStep ==
    \/ Raise \/ SetRate \/ EnableIrq \/ McuStart \/ WaitDone \/ Timeout \/ DisableIrq
    \/ CheckClock \/ SetFailed \/ Lower \/ Sleep
DdrNext == (\E f \in Rates : DevfreqPoll(f)) \/ Suspend \/ CallStep \/ McuDone \/ CompleteIrq \/ Resume
DdrSpec == DdrInit /\ [][DdrNext]_ddrVars

-----------------------------------------------------------------------------
\* The regulator gives at least the voltage of the rate the memory really runs
\* at: all through a transition, and also after one that failed half way, which
\* the controller may finish when the driver has given it up, until the next call
\* (rk3568_dmcfreq_target keeps the voltage it raised).
VoltageSuffices ==
    failed = 0 \/ (failed = 1 /\ t = NoCall) => vdd >= OppVolt[ddr]

\* The memory sleeps at the rate of the boot if the last transition did not fail:
\* what the driver then believes of the clock is the clock, although the interrupt
\* that ended its wait may be the late one of an earlier transition.
SleepsAtBoot == asleep /\ failed = 0 => ddr = BootRate

\* The memory never runs on too low a voltage, and sleeps at the rate of the boot.
MemorySafe == VoltageSuffices /\ SleepsAtBoot
=============================================================================
