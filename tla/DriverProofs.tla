---------------------------- MODULE DriverProofs ----------------------------
(* Proofs about the kernel drivers, for any number of calls, bytes and      *)
(* failures: the memory frequency driver, for any table of rates, and the   *)
(* pad's serial line, sticks, motor and buttons, for any bytes and          *)
(* calibrations.  Then the controller policy above the pads, for any finite *)
(* set of them, any commands, and any number of plugs, restarts of          *)
(* InputPlumber and calls that time out.                                    *)
EXTENDS DdrFreq, FlipLine, FlipPad, FlipIO, PadPolicy, SequenceTheorems, FiniteSetTheorems,
        WellFoundedInduction, TLAPS

----------------------------------------------------------------------------
(* rk3568-dmc: the hypothesis and the inductive invariant.                 *)

\* The OPP table: every rate has a voltage, a higher rate no lower one, and
\* the rate of the boot is in it.
OppTable ==
    /\ Rates \subseteq Nat /\ BootRate \in Rates
    /\ OppVolt \in [Rates -> Nat]
    /\ \A r, q \in Rates : r <= q => OppVolt[r] <= OppVolt[q]

Before == {"idle", "raise", "set", "sleep"}                  \* of DRAM_SET_RATE
After  == {"enable", "start", "wait", "disable", "faildisable", "check", "failed", "lower"}

DdrTypes ==
    /\ ddr \in Rates /\ rate \in Rates
    /\ vdd \in Nat /\ volt \in Nat /\ failed \in Nat
    /\ mcu \in [state : {"none", "given", "runs"}, to : Rates \cup {0}]
    /\ mcu.state # "none" => mcu.to \in Rates
    /\ t \in [at : Before \cup After, op : {"none", "target", "suspend"},
              to : Rates \cup {0}, raised : BOOLEAN]
    /\ t.at # "idle" => t.op # "none" /\ t.to \in Rates

\* The books on the voltage are those of the regulator, except in a call that
\* has raised it and is not through.
Books ==
    /\ t.raised = FALSE \/ t.at = "sleep" => vdd = volt
    /\ t.raised = TRUE => vdd = OppVolt[t.to] /\ t.at \notin {"idle", "raise"}

\* A call raises the voltage when the new rate needs it: target judges by the
\* rates, suspend by the voltages.
RaisedAsNeeded ==
    /\ t.at \in {"set"} \cup After =>
          /\ t.op = "target" => IF t.raised = TRUE THEN rate < t.to ELSE t.to < rate
          /\ t.op = "suspend" => IF t.raised = TRUE THEN volt < OppVolt[t.to]
                                                     ELSE OppVolt[t.to] <= volt
    /\ t.at = "raise" =>
          /\ t.op = "target" => rate < t.to
          /\ t.op = "suspend" => volt < OppVolt[t.to]

\* After DRAM_SET_RATE the controller has no transition but the one of this
\* call; the one of an earlier call is gone.
OwnTransition ==
    /\ t.at \in After /\ mcu.state # "none" => mcu.to = t.to
    /\ t.at \in {"enable", "start"} => mcu.state = "given"
    /\ t.at = "lower" => ddr = t.to

\* Who sleeps believes in the rate of the boot.
BelievesBoot ==
    /\ t.op = "suspend" => t.to = BootRate
    /\ t.at = "sleep" => rate = BootRate /\ t.op = "suspend"
    /\ asleep => t.at = "idle" /\ rate = BootRate

\* As long as nothing has failed the driver knows the clock, also the one that
\* a late transition will set.
KnowsClock ==
    failed = 0 =>
       /\ t.at \in Before => ddr = rate /\ (mcu.state = "runs" => mcu.to = rate)
       /\ t.at \in After => ddr \in {rate, t.to}

\* The voltage covers what the driver believes, and after one failure also what
\* the abandoned transition may still set.
Covered ==
    /\ failed <= 1 => OppVolt[rate] <= volt
    /\ failed = 1 /\ t.at \in {"idle", "raise", "sleep"} =>
          /\ OppVolt[ddr] <= vdd
          /\ mcu.state = "runs" => OppVolt[mcu.to] <= vdd

DdrInv == /\ DdrTypes /\ Books /\ RaisedAsNeeded /\ OwnTransition /\ BelievesBoot
          /\ KnowsClock /\ Covered

----------------------------------------------------------------------------

\* The bootloader leaves the memory at the rate of the boot and its voltage.
LEMMA DdrInitInv == ASSUME OppTable, DdrInit PROVE DdrInv
<1>1. OppVolt[BootRate] \in Nat /\ BootRate \in Rates
  BY DEF OppTable
<1>2. DdrTypes
  BY <1>1 DEF DdrInit, DdrTypes, NoCall, NoJob, Before, After
<1> QED
  BY <1>1, <1>2
     DEF DdrInit, DdrInv, Books, RaisedAsNeeded, OwnTransition, BelievesBoot, KnowsClock,
         Covered, NoCall, NoJob, Before, After

\* devfreq asks for a rate, and raises the voltage first for a higher one.
LEMMA PollInv == ASSUME OppTable, DdrInv, NEW f \in Rates, DevfreqPoll(f) PROVE DdrInv'
<1> USE DEF OppTable, DdrInv, DdrTypes, Books, RaisedAsNeeded, OwnTransition, BelievesBoot,
            KnowsClock, Covered, Before, After, NoCall, Hw
<1>1. CASE f = rate
  BY <1>1 DEF DevfreqPoll
<1>2. CASE f > rate
  BY <1>2 DEF DevfreqPoll
<1>3. CASE f < rate
  BY <1>3 DEF DevfreqPoll
<1>4. f = rate \/ f > rate \/ f < rate
  OBVIOUS
<1> HIDE DEF DdrInv
<1> QED
  BY <1>1, <1>2, <1>3, <1>4

\* A suspend goes to the rate of the boot.
LEMMA SuspendInv == ASSUME OppTable, DdrInv, Suspend PROVE DdrInv'
<1> USE DEF OppTable, DdrInv, DdrTypes, Books, RaisedAsNeeded, OwnTransition, BelievesBoot,
            KnowsClock, Covered, Before, After, NoCall, Hw, Drv
<1>1. /\ t.at = "idle" /\ t.raised = FALSE
      /\ t' = [at |-> SuspendSteps, op |-> "suspend", to |-> BootRate, raised |-> FALSE]
      /\ SuspendSteps \in {"sleep", "raise", "set"}
      /\ SuspendSteps = "sleep" => rate = BootRate
      /\ SuspendSteps = "raise" => volt < OppVolt[BootRate]
      /\ SuspendSteps = "set" => OppVolt[BootRate] <= volt
      /\ ~asleep
      /\ UNCHANGED <<ddr, vdd, mcu, rate, volt, failed, asleep>>
  BY DEF Suspend, SuspendSteps
<1> QED
  BY <1>1

\* The voltage goes up, or the call ends.
LEMMA RaiseInv == ASSUME OppTable, DdrInv, Raise PROVE DdrInv'
<1> USE DEF OppTable, DdrInv, DdrTypes, Books, RaisedAsNeeded, OwnTransition, BelievesBoot,
            KnowsClock, Covered, Before, After, NoCall, Drv
<1>1. CASE vdd' = OppVolt[t.to] /\ t' = [t EXCEPT !.at = "set", !.raised = TRUE]
  BY <1>1 DEF Raise
<1>2. CASE UNCHANGED vdd /\ t' = NoCall
  BY <1>2 DEF Raise
<1> HIDE DEF DdrInv
<1> QED
  BY <1>1, <1>2 DEF Raise

\* DRAM_SET_RATE.
LEMMA SetRateInv == ASSUME OppTable, DdrInv, SetRate PROVE DdrInv'
<1> USE DEF OppTable, DdrInv, DdrTypes, Books, RaisedAsNeeded, OwnTransition, BelievesBoot,
            KnowsClock, Covered, Before, After, NoJob, Drv, At
<1>1. CASE ddr' \in {ddr, t.to} /\ mcu' = NoJob /\ At("failed")
  BY <1>1 DEF SetRate
<1>2. CASE ddr' = t.to /\ mcu' = NoJob /\ At("check")
  BY <1>2 DEF SetRate
<1>3. CASE UNCHANGED ddr /\ mcu' = [state |-> "given", to |-> t.to] /\ At("enable")
  BY <1>3 DEF SetRate
<1> HIDE DEF DdrInv
<1> QED
  BY <1>1, <1>2, <1>3 DEF SetRate

\* The steps of a transition that is under way.
LEMMA TransitionInv ==
    ASSUME OppTable, DdrInv,
           EnableIrq \/ McuStart \/ WaitDone \/ Timeout \/ DisableIrq \/ CheckClock
    PROVE  DdrInv'
<1> USE DEF OppTable, DdrInv, DdrTypes, Books, RaisedAsNeeded, OwnTransition, BelievesBoot,
            KnowsClock, Covered, Before, After, Hw, Drv, At
<1>1. CASE EnableIrq
  BY <1>1 DEF EnableIrq
<1>2. CASE McuStart
  <2>1. t.at = "start" /\ UNCHANGED <<ddr, vdd, rate, volt, failed, asleep>>
    BY <1>2 DEF McuStart
  <2>2. CASE mcu' = [mcu EXCEPT !.state = "runs"] /\ At("wait")
    <3>1. /\ mcu' \in [state : {"none", "given", "runs"}, to : Rates \cup {0}]
          /\ mcu'.to = mcu.to /\ mcu.state # "none" /\ mcu.to = t.to
          /\ t' = [t EXCEPT !.at = "wait"]
      BY <2>1, <2>2
    <3> QED
      BY <2>1, <3>1
  <2>3. CASE UNCHANGED mcu /\ At("faildisable")
    BY <2>1, <2>3
  <2> HIDE DEF DdrInv
  <2> QED
    BY <1>2, <2>2, <2>3 DEF McuStart
<1>3. CASE WaitDone
  BY <1>3 DEF WaitDone
<1>4. CASE Timeout
  BY <1>4 DEF Timeout
<1>5. CASE DisableIrq
  BY <1>5 DEF DisableIrq
<1>6. CASE CheckClock
  BY <1>6 DEF CheckClock
<1> HIDE DEF DdrInv
<1> QED
  BY <1>1, <1>2, <1>3, <1>4, <1>5, <1>6

\* The controller finishes a transition, of this call or of one given up.
LEMMA McuInv == ASSUME OppTable, DdrInv, McuDone \/ CompleteIrq PROVE DdrInv'
<1> USE DEF OppTable, DdrInv, DdrTypes, Books, RaisedAsNeeded, OwnTransition, BelievesBoot,
            KnowsClock, Covered, Before, After, NoJob, Drv
<1>1. CASE McuDone
  BY <1>1 DEF McuDone
<1>2. CASE CompleteIrq
  BY <1>2 DEF CompleteIrq
<1> HIDE DEF DdrInv
<1> QED
  BY <1>1, <1>2

\* A failed transition: the voltage stays where it was raised to.
LEMMA SetFailedInv == ASSUME OppTable, DdrInv, SetFailed PROVE DdrInv'
<1>1. /\ t.at = "failed" /\ t' = NoCall /\ failed' = failed + 1
      /\ volt' = IF t.raised THEN OppVolt[t.to] ELSE volt
      /\ UNCHANGED <<ddr, vdd, mcu, rate, asleep>>
  BY DEF SetFailed, Hw
<1>2. /\ t.op \in {"suspend", "target"} /\ t.to \in Rates /\ rate \in Rates
      /\ OppVolt[rate] \in Nat /\ OppVolt[t.to] \in Nat
      /\ volt \in Nat /\ vdd \in Nat /\ failed \in Nat /\ rate \in Nat /\ t.to \in Nat
      /\ t.raised \in BOOLEAN
  BY <1>1 DEF DdrInv, DdrTypes, OppTable
<1>3. volt' = vdd
  BY <1>1, <1>2 DEF DdrInv, Books
<1>4. failed = 0 => OppVolt[rate] <= vdd /\ OppVolt[t.to] <= vdd
  <2>1. failed = 0 => OppVolt[rate] <= volt
    BY <1>2 DEF DdrInv, Covered
  <2>2. CASE t.raised = TRUE
    BY <1>1, <1>2, <2>1, <2>2 DEF DdrInv, Books, RaisedAsNeeded, After, OppTable
  <2>3. CASE t.raised = FALSE
    BY <1>1, <1>2, <2>1, <2>3 DEF DdrInv, Books, RaisedAsNeeded, After, OppTable
  <2> QED
    BY <1>2, <2>2, <2>3
<1>5. failed = 0 => ddr \in {rate, t.to} /\ (mcu.state = "runs" => mcu.to = t.to)
  BY <1>1 DEF DdrInv, KnowsClock, OwnTransition, After
<1>6. Covered'
  BY <1>1, <1>2, <1>3, <1>4, <1>5 DEF DdrInv, DdrTypes, Covered
<1>7. DdrTypes' /\ Books' /\ RaisedAsNeeded' /\ OwnTransition' /\ BelievesBoot' /\ KnowsClock'
  BY <1>1, <1>2, <1>3
     DEF DdrInv, DdrTypes, Books, RaisedAsNeeded, OwnTransition, BelievesBoot, KnowsClock,
         NoCall, Before, After
<1> QED
  BY <1>6, <1>7 DEF DdrInv

\* A transition that succeeded: the voltage comes down to what the rate needs,
\* or stays above it.
LEMMA LowerInv == ASSUME OppTable, DdrInv, Lower PROVE DdrInv'
<1> USE DEF OppTable, DdrInv, DdrTypes, Books, RaisedAsNeeded, OwnTransition, BelievesBoot,
            KnowsClock, Covered, Before, After, NoCall
<1>1. /\ t.at = "lower" /\ rate' = t.to /\ ddr = t.to
      /\ UNCHANGED <<ddr, mcu, asleep>>
  BY DEF Lower
<1>2. CASE /\ vdd' = (IF Lowers THEN OppVolt[t.to] ELSE vdd) /\ volt' = OppVolt[t.to]
           /\ failed' = 0
           /\ t' = IF t.op = "suspend" THEN [t EXCEPT !.at = "sleep"] ELSE NoCall
  <2>1. vdd' = OppVolt[t.to]
    BY <1>1, <1>2 DEF Lowers
  <2>2. CASE t.op = "suspend"
    BY <1>1, <1>2, <2>1, <2>2
  <2>3. CASE t.op = "target"
    BY <1>1, <1>2, <2>1, <2>3
  <2>4. t.op \in {"suspend", "target"}
    BY <1>1
  <2> HIDE DEF DdrInv
  <2> QED
    BY <2>2, <2>3, <2>4
<1>3. CASE Lowers /\ UNCHANGED <<vdd, volt, failed>> /\ t' = NoCall
  <2>1. t.raised = FALSE
    BY <1>1, <1>3 DEF Lowers
  <2>2. failed <= 1 => OppVolt[t.to] <= volt
    BY <1>1, <1>3 DEF Lowers
  <2> QED
    BY <1>1, <1>3, <2>1, <2>2
<1> HIDE DEF DdrInv
<1> QED
  BY <1>2, <1>3 DEF Lower

\* Asleep, and back: what the clock shows is believed.
LEMMA SleepInv == ASSUME OppTable, DdrInv, Sleep \/ Resume PROVE DdrInv'
<1> USE DEF OppTable, DdrInv, DdrTypes, Books, RaisedAsNeeded, OwnTransition, BelievesBoot,
            KnowsClock, Covered, Before, After, NoCall, Hw, Drv
<1>1. CASE Sleep
  <2>1. /\ t.at = "sleep" /\ t' = NoCall /\ rate = BootRate
        /\ UNCHANGED <<ddr, vdd, mcu, rate, volt, failed>>
    BY <1>1 DEF Sleep
  <2>2. vdd = volt
    BY <2>1
  <2> QED
    BY <2>1, <2>2
<1>2. CASE Resume
  BY <1>2 DEF Resume
<1> HIDE DEF DdrInv
<1> QED
  BY <1>1, <1>2

\* Every step of the driver, the firmware and the controller keeps it.
LEMMA DdrNextInv == ASSUME OppTable, DdrInv, [DdrNext]_ddrVars PROVE DdrInv'
<1>1. CASE UNCHANGED ddrVars
  BY <1>1 DEF ddrVars, DdrInv, DdrTypes, Books, RaisedAsNeeded, OwnTransition, BelievesBoot,
              KnowsClock, Covered
<1>2. CASE DdrNext
  BY <1>2, PollInv, SuspendInv, RaiseInv, SetRateInv, TransitionInv, McuInv, SetFailedInv,
     LowerInv, SleepInv DEF DdrNext, CallStep
<1> QED
  BY <1>1, <1>2

\* The invariant covers the voltage of the rate the memory really runs at.
LEMMA DdrInvSafe == ASSUME OppTable, DdrInv PROVE MemorySafe
<1>1. /\ ddr \in Rates /\ rate \in Rates /\ OppVolt[ddr] \in Nat /\ OppVolt[rate] \in Nat
      /\ rate \in Nat /\ volt \in Nat /\ vdd \in Nat /\ failed \in Nat
      /\ t.at \in Before \cup After /\ t.raised \in BOOLEAN
  BY DEF DdrInv, DdrTypes, OppTable
<1>2. ASSUME failed = 0 PROVE OppVolt[ddr] <= vdd
  <2>1. OppVolt[rate] <= volt
    BY <1>2 DEF DdrInv, Covered
  <2>2. CASE t.at \in {"idle", "raise", "sleep"}
    <3>1. ddr = rate /\ vdd = volt
      BY <1>1, <1>2, <2>2 DEF DdrInv, KnowsClock, Books, Before
    <3> QED
      BY <2>1, <3>1
  <2>3. CASE t.at \in {"set"} \cup After
    <3>1. /\ ddr \in {rate, t.to} /\ t.to \in Rates /\ t.op \in {"target", "suspend"}
          /\ OppVolt[t.to] \in Nat /\ t.to \in Nat
      BY <1>2, <2>3 DEF DdrInv, DdrTypes, KnowsClock, Before, After, OppTable
    <3>2. CASE t.raised = TRUE
      <4>1. vdd = OppVolt[t.to] /\ OppVolt[rate] <= OppVolt[t.to]
        BY <1>1, <2>1, <2>3, <3>1, <3>2 DEF DdrInv, Books, RaisedAsNeeded, OppTable
      <4> QED
        BY <1>1, <3>1, <4>1
    <3>3. CASE t.raised = FALSE
      <4>1. vdd = volt /\ OppVolt[t.to] <= volt
        BY <1>1, <2>1, <2>3, <3>1, <3>3 DEF DdrInv, Books, RaisedAsNeeded, OppTable
      <4> QED
        BY <2>1, <3>1, <4>1
    <3> QED
      BY <1>1, <3>2, <3>3
  <2> QED
    BY <1>1, <2>2, <2>3 DEF Before
<1>3. ASSUME failed = 1, t = NoCall PROVE OppVolt[ddr] <= vdd
  BY <1>3 DEF DdrInv, Covered, NoCall
<1>4. VoltageSuffices
  BY <1>1, <1>2, <1>3 DEF VoltageSuffices
<1>5. SleepsAtBoot
  BY DEF SleepsAtBoot, DdrInv, BelievesBoot, KnowsClock, Before
<1> QED
  BY <1>4, <1>5 DEF MemorySafe

\* The regulator gives the memory the voltage of its real rate until two
\* transitions in a row have failed, and the memory sleeps at the rate of the
\* boot, for any OPP table, any number of calls, timeouts and errors, and late
\* interrupts.
THEOREM MemorySafeThm == ASSUME OppTable PROVE DdrSpec => []MemorySafe
<1>1. DdrInit => DdrInv
  BY DdrInitInv
<1>2. DdrInv /\ [DdrNext]_ddrVars => DdrInv'
  BY DdrNextInv
<1>3. DdrInv => MemorySafe
  BY DdrInvSafe
<1> QED
  BY <1>1, <1>2, <1>3, PTL DEF DdrSpec

----------------------------------------------------------------------------
(* The pad's serial line: the driver's buffer gets in step with the pad.    *)

\* What may be on the wire: a stick byte may look like the start of a frame,
\* none like its end.
LineBytes == LineStart # LineEnd /\ LineEnd \notin Data

Bytes == Data \cup {LineStart, LineEnd}

\* The byte b can be at position q of a frame.
Fits(b, q) == (q = 0 => b = LineStart) /\ (q = 5 <=> b = LineEnd)

\* The position of byte k of n, when the pad is about to send position p.
Place(n, k, p) == IF p + k - 1 - n < 0 THEN p + k + 5 - n ELSE p + k - 1 - n

\* The driver's bytes, as far as they are undamaged, are those before the
\* pad's position; once the start of the pad's frame is among them it is not
\* given up; and the driver is in step once a whole frame more has come.
LineInv ==
    /\ quad \in Quads /\ gone \in 0 .. 5 /\ intact \in 0 .. 9
    /\ frame \in Seq(Bytes) /\ Len(frame) <= 5
    /\ frame # << >> => frame[1] = LineStart
    /\ open = TRUE \/ open = FALSE
    /\ open = FALSE => frame = << >> /\ intact = 0
    /\ \A k \in 1 .. Len(frame) :
          Len(frame) - k < intact => Fits(frame[k], Place(Len(frame), k, gone))
    /\ intact >= gone => Len(frame) >= gone
    /\ intact >= gone + 6 => Len(frame) = gone
    /\ got # << >> /\ intact >= 1 => gone = 0

\* Small numbers.
LEMMA UpTo5 == ASSUME NEW n \in Nat, n <= 5 PROVE n \in 0 .. 5
OBVIOUS

LEMMA UpTo6 == ASSUME NEW n \in 0 .. 5, NEW m, m = n + 1 PROVE m < 6 \/ m = 6
OBVIOUS

LEMMA OneMore == ASSUME NEW n \in 0 .. 5, NEW m, m = n + 1 PROVE m = 6 => n = 5
OBVIOUS

LEMMA Between ==
    ASSUME NEW n \in Nat, n <= 5
    PROVE  (n >= 5 => n = 5) /\ (n >= 4 /\ n # 5 => n = 4)
OBVIOUS

LEMMA NoneClean ==
    ASSUME NEW c, c = 0, NEW p \in 0 .. 5
    PROVE  ~(c >= p + 6) /\ ~(c >= 1) /\ c \in 0 .. 9
OBVIOUS

\* A set of positions 2 .. 6 has a first one.
LEMMA FirstIs ==
    ASSUME NEW S \in SUBSET (2 .. 6), S # {}
    PROVE  \E i \in S : \A j \in S : i <= j
<1>1. CASE 2 \in S
  BY <1>1
<1>2. CASE 2 \notin S /\ 3 \in S
  BY <1>2
<1>3. CASE 2 \notin S /\ 3 \notin S /\ 4 \in S
  BY <1>3
<1>4. CASE 2 \notin S /\ 3 \notin S /\ 4 \notin S /\ 5 \in S
  BY <1>4
<1>5. CASE 6 \in S /\ \A i \in S : i = 6
  BY <1>5
<1>6. PICK j \in S : j \in 2 .. 6
  OBVIOUS
<1>7. 2 \in S \/ 3 \in S \/ 4 \in S \/ 5 \in S \/ (6 \in S /\ \A i \in S : i = 6)
  BY <1>6
<1> QED
  BY <1>1, <1>2, <1>3, <1>4, <1>5, <1>7

\* A frame that is none is cut at the first start byte after the one it began
\* with.
LEMMA ResyncIs ==
    ASSUME NEW f \in Seq(Bytes), Len(f) = 6
    PROVE  \/ /\ Resync(f) = << >>
              /\ \A j \in 2 .. 6 : f[j] # LineStart
           \/ \E i \in 2 .. 6 :
                 /\ f[i] = LineStart /\ \A j \in 2 .. 6 : f[j] = LineStart => i <= j
                 /\ Resync(f) \in Seq(Bytes) /\ Len(Resync(f)) = 7 - i
                 /\ \A k \in 1 .. 7 - i : Resync(f)[k] = f[k + i - 1]
<1>1. Starts(f) \in SUBSET (2 .. 6) /\ \A j \in 2 .. 6 : j \in Starts(f) <=> f[j] = LineStart
  BY DEF Starts, FrameLen
<1>2. CASE Starts(f) = {}
  BY <1>1, <1>2 DEF Resync
<1>3. CASE Starts(f) # {}
  <2> DEFINE i == CHOOSE i \in Starts(f) : \A j \in Starts(f) : i <= j
  <2>1. i \in Starts(f) /\ \A j \in Starts(f) : i <= j
    BY <1>1, <1>3, FirstIs
  <2>2. Resync(f) = SubSeq(f, i, 6)
    BY <1>3 DEF Resync, FrameLen
  <2> HIDE DEF i
  <2>3. i \in 2 .. 6
    BY <1>1, <2>1
  <2>4. \A j \in i .. 6 : f[j] \in Bytes
    <3> SUFFICES ASSUME NEW j \in i .. 6 PROVE f[j] \in Bytes
      OBVIOUS
    <3>1. j \in 1 .. Len(f)
      BY <2>3
    <3> QED
      BY <3>1, ElementOfSeq
  <2>5. /\ SubSeq(f, i, 6) \in Seq(Bytes)
        /\ Len(SubSeq(f, i, 6)) = IF i <= 6 THEN 6 - i + 1 ELSE 0
        /\ \A k \in 1 .. 6 - i + 1 : SubSeq(f, i, 6)[k] = f[i + k - 1]
    <3>1. i \in Int /\ 6 \in Int /\ \A j \in i .. 6 : f[j] \in Bytes
      BY <2>3, <2>4
    <3> QED
      BY <3>1, SubSeqProperties
  <2>6. /\ Resync(f) \in Seq(Bytes) /\ Len(Resync(f)) = 7 - i
        /\ \A k \in 1 .. 7 - i : Resync(f)[k] = f[k + i - 1]
    <3>1. (6 - i + 1 = 7 - i) /\ i <= 6 /\ \A k \in 1 .. 7 - i : k + i - 1 = i + k - 1
      BY <2>3
    <3> DEFINE r == SubSeq(f, i, 6)
    <3>2. r \in Seq(Bytes) /\ Len(r) = 7 - i /\ \A k \in 1 .. 7 - i : r[k] = f[i + k - 1]
      BY <2>5, <3>1
    <3> HIDE DEF r
    <3>3. \A k \in 1 .. 7 - i : r[k] = f[k + i - 1]
      BY <3>1, <3>2
    <3> QED
      BY <2>2, <3>2, <3>3, Zenon DEF r
  <2> QED
    BY <1>1, <2>1, <2>3, <2>6
<1> QED
  BY <1>2, <1>3

LEMMA FeedIs ==
    ASSUME NEW f, NEW b
    PROVE  /\ f = << >> => /\ Feed(f, b).keep = IF b = LineStart THEN <<b>> ELSE << >>
                           /\ Feed(f, b).done = << >>
           /\ f # << >> /\ Len(Append(f, b)) < 6 =>
                Feed(f, b).keep = Append(f, b) /\ Feed(f, b).done = << >>
           /\ f # << >> /\ Len(Append(f, b)) = 6 /\ b = LineEnd => Feed(f, b).keep = << >>
           /\ f # << >> /\ Len(Append(f, b)) = 6 /\ b # LineEnd =>
                Feed(f, b).keep = Resync(Append(f, b)) /\ Feed(f, b).done = << >>
<1>1. CASE f = << >>
  BY <1>1 DEF Feed, FrameLen
<1>2. CASE f # << >> /\ Len(Append(f, b)) < 6
  BY <1>2 DEF Feed, FrameLen
<1>3. CASE f # << >> /\ Len(Append(f, b)) = 6 /\ b = LineEnd
  BY <1>3 DEF Feed, FrameLen
<1>4. CASE f # << >> /\ Len(Append(f, b)) = 6 /\ b # LineEnd
  BY <1>4 DEF Feed, FrameLen
<1> QED
  BY <1>1, <1>2, <1>3, <1>4

LEMMA Appended ==
    ASSUME NEW f \in Seq(Bytes), NEW b \in Bytes
    PROVE  /\ Append(f, b) \in Seq(Bytes) /\ Len(Append(f, b)) = Len(f) + 1 /\ Len(f) \in Nat
           /\ Append(f, b)[Len(f) + 1] = b /\ \A k \in 1 .. Len(f) : Append(f, b)[k] = f[k]
           /\ f = << >> <=> Len(f) = 0
OBVIOUS

\* The driver's bytes after one more byte b, whatever it is.
LEMMA KeepIs ==
    ASSUME LineBytes, LineInv, NEW b \in Bytes, open = TRUE, Receive(b)
    PROVE  /\ frame' \in Seq(Bytes) /\ Len(frame') <= 5
           /\ frame' # << >> => frame'[1] = LineStart
           /\ got' # << >> => b = LineEnd
<1> DEFINE full == Append(frame, b)
<1>0. /\ full \in Seq(Bytes) /\ Len(full) = Len(frame) + 1 /\ Len(frame) \in Nat
      /\ full[Len(frame) + 1] = b /\ \A k \in 1 .. Len(frame) : full[k] = frame[k]
      /\ frame = << >> <=> Len(frame) = 0
  <2>1. frame \in Seq(Bytes)
    BY DEF LineInv
  <2> QED
    BY <2>1, Appended, Zenon
<1> HIDE DEF full
<1>1. /\ Len(frame) \in 0 .. 5
      /\ frame # << >> => full[1] = LineStart
  <2>1. Len(frame) <= 5 /\ (frame # << >> => frame[1] = LineStart)
    BY DEF LineInv
  <2>2. frame # << >> => 1 \in 1 .. Len(frame)
    BY <1>0
  <2>3. Len(frame) \in Nat /\ \A k \in 1 .. Len(frame) : full[k] = frame[k]
    BY <1>0, Zenon
  <2>4. Len(frame) \in 0 .. 5
    BY <2>1, <2>3, UpTo5
  <2>5. frame # << >> => full[1] = LineStart
    BY <2>1, <2>2, <2>3, Zenon
  <2> QED
    BY <2>4, <2>5
<1>2. frame' = Feed(frame, b).keep /\ got' = Feed(frame, b).done
  BY DEF Receive
<1>f. /\ frame = << >> => /\ Feed(frame, b).keep = IF b = LineStart THEN <<b>> ELSE << >>
                          /\ Feed(frame, b).done = << >>
      /\ frame # << >> /\ Len(full) < 6 =>
            Feed(frame, b).keep = full /\ Feed(frame, b).done = << >>
      /\ frame # << >> /\ Len(full) = 6 /\ b = LineEnd => Feed(frame, b).keep = << >>
      /\ frame # << >> /\ Len(full) = 6 /\ b # LineEnd =>
            Feed(frame, b).keep = Resync(full) /\ Feed(frame, b).done = << >>
  BY FeedIs, Zenon DEF full
<1>3. CASE frame = << >>
  <2>1. frame' = (IF b = LineStart THEN <<b>> ELSE << >>) /\ got' = << >>
    BY <1>2, <1>f, <1>3, Zenon
  <2> QED
    BY <2>1
<1>4. CASE frame # << >> /\ Len(full) < 6
  <2>1. frame' = full /\ got' = << >>
    BY <1>2, <1>f, <1>4, Zenon
  <2> QED
    BY <1>0, <1>1, <1>4, <2>1
<1>5. CASE frame # << >> /\ Len(full) = 6 /\ b = LineEnd
  <2>1. frame' = << >>
    BY <1>2, <1>f, <1>5, Zenon
  <2> QED
    BY <1>5, <2>1
<1>6. CASE frame # << >> /\ Len(full) = 6 /\ b # LineEnd
  <2>1. frame' = Resync(full) /\ got' = << >>
    BY <1>2, <1>f, <1>6, Zenon
  <2>2. CASE Resync(full) = << >>
    BY <2>1, <2>2
  <2>3. ASSUME NEW i \in 2 .. 6, full[i] = LineStart, Resync(full) \in Seq(Bytes),
               Len(Resync(full)) = 7 - i,
               \A k \in 1 .. 7 - i : Resync(full)[k] = full[k + i - 1]
        PROVE  /\ Resync(full) \in Seq(Bytes) /\ Len(Resync(full)) <= 5
               /\ Resync(full)[1] = LineStart
    <3>1. 1 \in 1 .. 7 - i /\ 1 + i - 1 = i /\ 7 - i <= 5
      BY <2>3
    <3> QED
      BY <2>3, <3>1
  <2>4. full \in Seq(Bytes) /\ Len(full) = 6
    BY <1>0, <1>6
  <2>5. \/ Resync(full) = << >>
        \/ \E i \in 2 .. 6 : /\ full[i] = LineStart
                              /\ Resync(full) \in Seq(Bytes) /\ Len(Resync(full)) = 7 - i
                              /\ \A k \in 1 .. 7 - i : Resync(full)[k] = full[k + i - 1]
    <3> HIDE DEF full
    <3> QED
      BY <2>4, ResyncIs
  <2>6. \/ Resync(full) = << >>
        \/ Resync(full) \in Seq(Bytes) /\ Len(Resync(full)) <= 5 /\ Resync(full)[1] = LineStart
    BY <2>3, <2>5, Zenon
  <2>7. << >> \in Seq(Bytes) /\ Len(<< >>) <= 5
    OBVIOUS
  <2> QED
    BY <2>1, <2>6, <2>7, Zenon
<1>7. Len(full) < 6 \/ Len(full) = 6
  <2>1. Len(full) = Len(frame) + 1 /\ Len(frame) \in 0 .. 5
    BY <1>0, <1>1, Zenon
  <2> QED
    BY <2>1, UpTo6, Zenon
<1> QED
  BY <1>3, <1>4, <1>5, <1>6, <1>7, Zenon

\* One undamaged byte more.
LEMMA CleanByte ==
    ASSUME LineBytes, LineInv, open = TRUE, NEW b \in Bytes, Fits(b, gone), Receive(b),
           gone' = IF gone = 5 THEN 0 ELSE gone + 1,
           intact' = IF intact < 9 THEN intact + 1 ELSE intact
    PROVE  /\ \A k \in 1 .. Len(frame') :
                 Len(frame') - k < intact' => Fits(frame'[k], Place(Len(frame'), k, gone'))
           /\ intact' >= gone' => Len(frame') >= gone'
           /\ intact' >= gone' + 6 => Len(frame') = gone'
<1> DEFINE full == Append(frame, b)
           n == Len(frame)
<1>0. /\ full \in Seq(Bytes) /\ Len(full) = n + 1 /\ n \in Nat
      /\ full[n + 1] = b /\ \A k \in 1 .. n : full[k] = frame[k]
      /\ frame = << >> <=> n = 0
  <2>1. frame \in Seq(Bytes)
    BY DEF LineInv
  <2> QED
    BY <2>1, Appended, Zenon
<1>1. n \in 0 .. 5
  <2>1. n <= 5
    BY DEF LineInv
  <2>2. n \in Nat
    BY <1>0, Zenon
  <2> HIDE DEF n, full
  <2> QED
    BY <2>1, <2>2
<1>2. frame' = Feed(frame, b).keep
  BY DEF Receive
<1>3. /\ gone \in 0 .. 5 /\ intact \in 0 .. 9
      /\ \A k \in 1 .. n : n - k < intact => Fits(frame[k], Place(n, k, gone))
      /\ intact >= gone => n >= gone
      /\ intact >= gone + 6 => n = gone
      /\ frame # << >> => frame[1] = LineStart
  BY DEF LineInv
<1>f. /\ frame = << >> => Feed(frame, b).keep = IF b = LineStart THEN <<b>> ELSE << >>
      /\ frame # << >> /\ Len(full) < 6 => Feed(frame, b).keep = full
      /\ frame # << >> /\ Len(full) = 6 /\ b = LineEnd => Feed(frame, b).keep = << >>
      /\ frame # << >> /\ Len(full) = 6 /\ b # LineEnd => Feed(frame, b).keep = Resync(full)
  BY FeedIs, Zenon DEF full
<1> HIDE DEF full, n
<1>4. \A k \in 1 .. n : Place(n + 1, k, gone') = Place(n, k, gone)
  BY <1>1, <1>3 DEF Place
<1>5. Place(n + 1, n + 1, gone') = gone
  BY <1>1, <1>3 DEF Place
<1>6. \A k \in 1 .. n + 1 : n + 1 - k < intact' => Fits(full[k], Place(n + 1, k, gone'))
  BY <1>0, <1>1, <1>3, <1>4, <1>5
<1>7. CASE frame = << >>
  <2>1. n = 0 /\ frame' = IF b = LineStart THEN <<b>> ELSE << >>
    BY <1>0, <1>2, <1>7, <1>f
  <2>2. CASE b = LineStart
    <3>1. Len(frame') = 1 /\ frame'[1] = b /\ gone # 5
      BY <2>1, <2>2, <1>3 DEF Fits, LineBytes
    <3>2. \A k \in 1 .. Len(frame') :
             Len(frame') - k < intact' => Fits(frame'[k], Place(Len(frame'), k, gone'))
      BY <1>0, <1>6, <2>1, <3>1
    <3> QED
      BY <1>3, <2>1, <3>1, <3>2
  <2>3. CASE b # LineStart
    <3>1. Len(frame') = 0 /\ gone # 0
      BY <2>1, <2>3 DEF Fits
    <3> QED
      BY <1>3, <2>1, <3>1
  <2> QED
    BY <2>2, <2>3
<1>8. CASE frame # << >> /\ Len(full) < 6
  <2>1. frame' = full /\ Len(frame') = n + 1 /\ n < 5
    BY <1>0, <1>2, <1>8, <1>f
  <2> QED
    BY <1>0, <1>3, <1>1, <1>6, <2>1
<1>s. Len(full) = 6 => n = 5
  <2>1. Len(full) = n + 1
    BY <1>0, Zenon
  <2> QED
    BY <1>1, <2>1, OneMore
<1>9. CASE frame # << >> /\ Len(full) = 6 /\ b = LineEnd
  <2>0. frame' = << >> /\ gone = 5 /\ Len(full) = 6
    BY <1>2, <1>9, <1>f, Zenon DEF Fits
  <2>1. frame' = << >> /\ gone = 5 /\ n = 5
    BY <1>1, <2>0, <1>s
  <2> QED
    BY <1>3, <2>1
<1>10. CASE frame # << >> /\ Len(full) = 6 /\ b # LineEnd
  <2>0. frame' = Resync(full) /\ gone # 5 /\ Len(full) = 6
    BY <1>2, <1>10, <1>f, Zenon DEF Fits
  <2>1. frame' = Resync(full) /\ gone # 5 /\ n = 5 /\ gone' = gone + 1
    BY <1>1, <1>3, <2>0, <1>s
  <2>2. intact >= gone => 6 - gone \in 2 .. 6 /\ full[6 - gone] = LineStart
    <3>1. 6 - gone \in 2 .. 6 /\ Place(6, 6 - gone, gone + 1) = 0
      BY <1>3, <2>1 DEF Place
    <3> QED
      BY <1>3, <1>6, <2>1, <3>1 DEF Fits
  <2>3. ~(intact' >= gone' + 6)
    BY <1>3, <2>1
  <2>4. CASE Resync(full) = << >> /\ \A j \in 2 .. 6 : full[j] # LineStart
    BY <1>3, <2>1, <2>2, <2>3, <2>4
  <2>5. ASSUME NEW i \in 2 .. 6,
               \A j \in 2 .. 6 : full[j] = LineStart => i <= j,
               Len(Resync(full)) = 7 - i,
               \A k \in 1 .. 7 - i : Resync(full)[k] = full[k + i - 1]
        PROVE  /\ \A k \in 1 .. Len(frame') :
                     Len(frame') - k < intact' => Fits(frame'[k], Place(Len(frame'), k, gone'))
               /\ intact' >= gone' => Len(frame') >= gone'
    <3>1. Len(frame') = 7 - i
      BY <2>1, <2>5
    <3>2. intact' >= gone' => 7 - i >= gone'
      BY <1>3, <2>1, <2>2, <2>5
    <3>3. \A k \in 1 .. 7 - i : /\ frame'[k] = full[k + i - 1] /\ k + i - 1 \in 1 .. 6
                                /\ Place(7 - i, k, gone') = Place(6, k + i - 1, gone')
      <4> SUFFICES ASSUME NEW k \in 1 .. 7 - i
                   PROVE  /\ frame'[k] = full[k + i - 1] /\ k + i - 1 \in 1 .. 6
                          /\ Place(7 - i, k, gone') = Place(6, k + i - 1, gone')
        OBVIOUS
      <4>1. frame'[k] = full[k + i - 1]
        BY <2>1, <2>5, Zenon
      <4>2. k + i - 1 \in 1 .. 6 /\ gone' \in 0 .. 5
        BY <1>3, <2>1
      <4>3. Place(7 - i, k, gone') = Place(6, k + i - 1, gone')
        BY <4>2 DEF Place
      <4> QED
        BY <4>1, <4>2, <4>3
    <3>4. \A k \in 1 .. 7 - i : 7 - i - k < intact' => Fits(frame'[k], Place(7 - i, k, gone'))
      <4> SUFFICES ASSUME NEW k \in 1 .. 7 - i, 7 - i - k < intact'
                   PROVE  Fits(frame'[k], Place(7 - i, k, gone'))
        OBVIOUS
      <4>1. k + i - 1 \in 1 .. n + 1 /\ n + 1 - (k + i - 1) < intact' /\ n + 1 = 6
        <5>1. intact' \in 0 .. 9 /\ n = 5
          BY <1>3, <2>1
        <5> QED
          BY <5>1
      <4>2. Fits(full[k + i - 1], Place(6, k + i - 1, gone'))
        BY <1>6, <4>1, Zenon
      <4> QED
        BY <3>3, <4>2
    <3> QED
      BY <3>1, <3>2, <3>4
  <2> QED
    BY <1>0, <1>10, <2>1, <2>3, <2>4, <2>5, ResyncIs
<1> QED
  BY <1>0, <1>1, <1>7, <1>8, <1>9, <1>10

LEMMA ByteFits ==
    ASSUME LineBytes, quad \in Quads, gone \in 0 .. 5
    PROVE  Byte(quad, gone) \in Bytes /\ Fits(Byte(quad, gone), gone)
<1>1. CASE gone = 0
  BY <1>1 DEF Byte, Fits, Bytes, LineBytes
<1>2. CASE gone = 5
  BY <1>2 DEF Byte, Fits, Bytes, LineBytes
<1>3. CASE gone \in 1 .. 4
  <2>1. quad[gone] \in Data
    BY <1>3 DEF Quads
  <2>2. Byte(quad, gone) = quad[gone] /\ gone # 0 /\ gone # 5
    BY <1>3 DEF Byte
  <2> QED
    BY <2>1, <2>2 DEF Fits, Bytes, LineBytes
<1> QED
  BY <1>1, <1>2, <1>3

LEMMA AdvanceIs ==
    ASSUME LineInv, Advance
    PROVE  /\ quad' \in Quads /\ gone' \in 0 .. 5
           /\ gone' = IF gone = 5 THEN 0 ELSE gone + 1
<1>1. quad \in Quads /\ gone \in 0 .. 5
  BY DEF LineInv
<1>2. quad' \in Quads
  BY <1>1 DEF Advance
<1>3. gone' = (gone + 1) % 6
  BY DEF Advance, FrameLen
<1> QED
  BY <1>1, <1>2, <1>3

\* A step that leaves no undamaged byte in the driver keeps what concerns them.
LEMMA NothingClean ==
    ASSUME quad' \in Quads, gone' \in 0 .. 5, intact' = 0,
           frame' \in Seq(Bytes), Len(frame') <= 5, frame' # << >> => frame'[1] = LineStart,
           open' = TRUE \/ open' = FALSE, open' = FALSE => frame' = << >>
    PROVE  LineInv'
<1>1. Len(frame') \in Nat
  OBVIOUS
<1>2. \A k \in 1 .. Len(frame') : ~(Len(frame') - k < intact')
  BY <1>1
<1>3. intact' >= gone' => Len(frame') >= gone'
  BY <1>1
<1>4. ~(intact' >= gone' + 6) /\ ~(intact' >= 1) /\ intact' \in 0 .. 9
  BY NoneClean, Zenon
<1> QED
  BY <1>2, <1>3, <1>4 DEF LineInv

LEMMA ArrivesKeeps ==
    ASSUME LineBytes, LineInv, Arrives
    PROVE  LineInv'
<1>1. /\ Byte(quad, gone) \in Bytes /\ Fits(Byte(quad, gone), gone)
      /\ Receive(Byte(quad, gone)) /\ open' = open
      /\ gone \in 0 .. 5 /\ intact \in 0 .. 9
      /\ (open = TRUE \/ open = FALSE) /\ (open = FALSE => frame = << >> /\ intact = 0)
  BY ByteFits DEF LineInv, Arrives
<1>2. /\ quad' \in Quads /\ gone' \in 0 .. 5
      /\ gone' = IF gone = 5 THEN 0 ELSE gone + 1
  BY AdvanceIs DEF Arrives
<1>3. CASE open = TRUE
  <2>1. intact' = (IF intact < 9 THEN intact + 1 ELSE intact) /\ intact' \in 0 .. 9
    BY <1>1, <1>3 DEF Arrives
  <2>2. /\ frame' \in Seq(Bytes) /\ Len(frame') <= 5
        /\ frame' # << >> => frame'[1] = LineStart
        /\ got' # << >> => Byte(quad, gone) = LineEnd
    BY <1>1, <1>3, KeepIs
  <2>3. /\ \A k \in 1 .. Len(frame') :
              Len(frame') - k < intact' => Fits(frame'[k], Place(Len(frame'), k, gone'))
        /\ intact' >= gone' => Len(frame') >= gone'
        /\ intact' >= gone' + 6 => Len(frame') = gone'
    BY <1>1, <1>2, <1>3, <2>1, CleanByte
  <2>4. got' # << >> => gone' = 0
    BY <1>1, <1>2, <2>2 DEF Fits
  <2> QED
    BY <1>1, <1>2, <1>3, <2>1, <2>2, <2>3, <2>4 DEF LineInv
<1>4. CASE open = FALSE
  <2>1. frame' = << >> /\ intact' = 0 /\ open' = FALSE
    BY <1>1, <1>4 DEF Receive, Arrives
  <2>2. frame' \in Seq(Bytes) /\ Len(frame') <= 5
    BY <2>1
  <2> QED
    BY <1>2, <2>1, <2>2, NothingClean, Zenon
<1> QED
  BY <1>1, <1>3, <1>4

\* A byte of the wrong value, while the driver listens or not.
LEMMA DamagedKeeps ==
    ASSUME LineBytes, LineInv, Damaged
    PROVE  LineInv'
<1>1. PICK b \in Bytes : Receive(b)
  BY DEF Damaged, Bytes
<1>2. quad' \in Quads /\ gone' \in 0 .. 5 /\ intact' = 0 /\ open' = open
  BY AdvanceIs DEF Damaged, Fault
<1>3. CASE open = TRUE
  <2>1. /\ frame' \in Seq(Bytes) /\ Len(frame') <= 5
        /\ frame' # << >> => frame'[1] = LineStart
    BY <1>1, <1>3, KeepIs
  <2> QED
    BY <1>2, <1>3, <2>1, NothingClean, Zenon
<1>4. CASE open = FALSE
  <2>1. frame' = << >>
    BY <1>1, <1>4 DEF Receive, LineInv
  <2>2. frame' \in Seq(Bytes) /\ Len(frame') <= 5
    BY <2>1
  <2> QED
    BY <1>2, <1>4, <2>1, <2>2, NothingClean, Zenon
<1> QED
  BY <1>3, <1>4 DEF LineInv

LEMMA LostKeeps ==
    ASSUME LineInv, Lost
    PROVE  LineInv'
<1>1. quad' \in Quads /\ gone' \in 0 .. 5 /\ intact' = 0 /\ frame' = frame /\ open' = open
  BY AdvanceIs DEF Lost, Fault
<1>2. /\ frame \in Seq(Bytes) /\ Len(frame) <= 5
      /\ frame # << >> => frame[1] = LineStart
      /\ (open = TRUE \/ open = FALSE) /\ (open = FALSE => frame = << >>)
  BY DEF LineInv
<1>3. /\ frame' \in Seq(Bytes) /\ Len(frame') <= 5
      /\ frame' # << >> => frame'[1] = LineStart
  BY <1>1, <1>2
<1> QED
  BY <1>1, <1>2, <1>3, NothingClean, Zenon

LEMMA PortKeeps ==
    ASSUME LineInv, PortClose \/ PortOpen
    PROVE  LineInv'
<1>1. /\ quad' \in Quads /\ gone' \in 0 .. 5 /\ frame' = << >>
      /\ (open' = TRUE \/ open' = FALSE)
  BY DEF PortClose, PortOpen, LineInv
<1>2. intact' = 0
  BY DEF PortClose, PortOpen, Fault, LineInv
<1>3. frame' \in Seq(Bytes) /\ Len(frame') <= 5
  BY <1>1
<1> QED
  BY <1>1, <1>2, <1>3, NothingClean, Zenon

LEMMA LineInvThm == ASSUME LineBytes PROVE LineSpec => []LineInv
<1>1. LineInit => LineInv
  <2> SUFFICES ASSUME LineInit PROVE LineInv
    OBVIOUS
  <2>1. /\ frame = << >> /\ got = << >> /\ intact = 0 /\ open = TRUE
        /\ quad \in Quads /\ gone \in 0 .. 5
    BY DEF LineInit
  <2>2. frame \in Seq(Bytes) /\ Len(frame) = 0
    BY <2>1
  <2> QED
    BY <2>1, <2>2 DEF LineInv
<1>2. LineInv /\ [LineNext]_lineVars => LineInv'
  <2> SUFFICES ASSUME LineInv, [LineNext]_lineVars PROVE LineInv'
    OBVIOUS
  <2>1. CASE Arrives
    BY <2>1, ArrivesKeeps
  <2>2. CASE Lost
    BY <2>2, LostKeeps
  <2>3. CASE Damaged
    BY <2>3, DamagedKeeps
  <2>4. CASE PortClose \/ PortOpen
    BY <2>4, PortKeeps
  <2>5. CASE UNCHANGED lineVars
    BY <2>5 DEF lineVars, LineInv, Place
  <2> QED
    BY <2>1, <2>2, <2>3, <2>4, <2>5 DEF LineNext
<1> QED
  BY <1>1, <1>2, PTL DEF LineSpec

\* However many bytes are lost or damaged and however often the port is closed,
\* nine undamaged bytes bring the driver in step, and a frame it takes from
\* undamaged bytes ends where the pad's frame ends (mf_feed).
THEOREM InStepThm == ASSUME LineBytes PROVE LineSpec => []InStep
<1>1. ASSUME LineBytes, LineInv PROVE InStep
  <2> USE <1>1
  <2>1. (got # << >> /\ intact >= FrameLen) => gone = 0
    BY DEF LineInv, FrameLen
  <2>2. ASSUME intact = 9 PROVE Len(frame) = gone
    <3>1. gone \in 0 .. 5 /\ Len(frame) \in Nat /\ Len(frame) <= 5
      BY DEF LineInv
    <3>2. CASE gone <= 3
      <4>1. intact >= gone + 6
        BY <2>2, <3>1, <3>2
      <4> QED
        BY <4>1, Zenon DEF LineInv
    <3>3. CASE gone = 5
      <4>1. intact >= gone
        BY <2>2, <3>1
      <4>2. Len(frame) >= gone
        BY <4>1, Zenon DEF LineInv
      <4> QED
        BY <3>1, <3>3, <4>2, Between
    <3>4. CASE gone = 4
      <4>1. Len(frame) >= 4
        BY <2>2, <3>4 DEF LineInv
      <4>2. ASSUME Len(frame) = 5 PROVE FALSE
        <5>1. 1 \in 1 .. Len(frame) /\ Len(frame) - 1 < intact /\ Place(5, 1, 4) = 5
          BY <2>2, <4>2 DEF Place
        <5>0. Len(<< >>) = 0
          OBVIOUS
        <5>2. frame[1] = LineStart
          <6>1. frame # << >>
            BY <4>2, <5>0
          <6> QED
            BY <6>1, Zenon DEF LineInv
        <5>3. Fits(frame[1], 5)
          BY <3>4, <4>2, <5>1 DEF LineInv
        <5> QED
          BY <5>2, <5>3 DEF Fits, LineBytes
      <4> QED
        BY <3>1, <3>4, <4>1, <4>2, Between
    <3>5. gone <= 3 \/ gone = 4 \/ gone = 5
      BY <3>1
    <3> QED
      BY <3>2, <3>3, <3>4, <3>5, Zenon
  <2> QED
    BY <2>1, <2>2 DEF InStep
<1> QED
  BY <1>1, LineInvThm, PTL

----------------------------------------------------------------------------
(* The sticks: what the arithmetic of a report makes of a sample.          *)

LEMMA Products ==
    ASSUME NEW a \in Nat, NEW b \in Nat, NEW c \in Nat
    PROVE  /\ a * b \in Nat /\ (a # 0 /\ b # 0 => a * b # 0)
           /\ a <= b => a * c <= b * c
OBVIOUS

LEMMA Squares ==
    ASSUME NEW a \in Nat, NEW b \in Nat
    PROVE  a * a < b * b => a < b
<1> SUFFICES ASSUME b <= a PROVE b * b <= a * a
  OBVIOUS
<1>1. b * b <= a * b /\ b * a <= a * a /\ a * b = b * a
  OBVIOUS
<1> QED BY <1>1

LEMMA Quotients ==
    ASSUME NEW n \in Nat, NEW q \in Nat \ {0}, NEW m \in Nat
    PROVE  n \div q \in Nat /\ (n >= m * q => n \div q >= m) /\ 0 \div q = 0
OBVIOUS

\* The least of a set of numbers is one of them.
LEMMA LeastIs ==
    ASSUME NEW K \in SUBSET Nat, K # {} PROVE Min(K) \in K /\ \A k \in K : Min(K) <= k
<1> DEFINE Less == {ss \in Nat \X Nat : ss[1] < ss[2]}
<1>1. IsWellFoundedOn(Less, Nat)
  BY NatLessThanWellFounded DEF OpToRel
<1>2. \A x, y \in K : ~(<<y, x>> \in Less) => x <= y
  OBVIOUS
<1> HIDE DEF Less
<1>3. PICK m \in K : \A y \in K : ~(<<y, m>> \in Less)
  BY <1>1, WFMin
<1>4. \E x \in K : \A y \in K : x <= y
  BY <1>2, <1>3
<1> QED
  BY <1>4 DEF Min

\* The greatest of bounded numbers is one of them.
LEMMA GreatestIs ==
    ASSUME NEW n \in Nat, NEW K \in SUBSET (0 .. n), K # {}
    PROVE  Max(K) \in K /\ \A k \in K : k <= Max(K)
<1> DEFINE Mirror == {j \in 0 .. n : n - j \in K}
<1>1. Mirror \in SUBSET Nat /\ Mirror # {}
  <2>1. PICK k \in K : TRUE
    OBVIOUS
  <2>2. n - k \in 0 .. n /\ n - (n - k) = k
    BY <2>1
  <2>3. n - k \in Mirror
    BY <2>1, <2>2
  <2>4. \A j \in Mirror : j \in Nat
    OBVIOUS
  <2> HIDE DEF Mirror
  <2> QED BY <2>3, <2>4
<1>2. PICK m \in Mirror : \A k \in Mirror : m <= k
  BY <1>1, LeastIs
<1>3. n - m \in K /\ \A k \in K : k <= n - m
  <2>1. m \in 0 .. n /\ n - m \in K
    BY <1>2
  <2>2. \A k \in K : n - k \in Mirror
    <3>1. \A k \in K : n - k \in 0 .. n /\ n - (n - k) = k
      OBVIOUS
    <3> QED BY <3>1
  <2>3. \A k \in K : m <= n - k
    BY <1>2, <2>2
  <2> QED BY <2>1, <2>3
<1> QED
  BY <1>3 DEF Max

\* int_sqrt finds the root of what the two axes of a stick can give.
LEMMA RootIs ==
    ASSUME AbsRange \in Nat \ {0}, NEW v \in Nat, v <= 2 * AbsRange * AbsRange
    PROVE  IntSqrt(v) \in Nat /\ IntSqrt(v) * IntSqrt(v) <= v
                              /\ v < (IntSqrt(v) + 1) * (IntSqrt(v) + 1)
<1> DEFINE K == {r \in 0 .. 2 * AbsRange : (r + 1) * (r + 1) > v}
           m == Min(K)
<1>1. 2 * AbsRange \in K
  <2>1. 2 * AbsRange * AbsRange < (2 * AbsRange + 1) * (2 * AbsRange + 1)
    OBVIOUS
  <2> QED BY <2>1
<1>2. m \in K /\ \A r \in K : m <= r
  <2>1. \A k \in K : k \in Nat
    OBVIOUS
  <2> HIDE DEF K
  <2>2. K \in SUBSET Nat /\ K # {}
    BY <1>1, <2>1
  <2> QED BY <2>2, LeastIs
<1>3. m \in 0 .. 2 * AbsRange /\ (m + 1) * (m + 1) > v
  BY <1>2
<1>4. m * m <= v
  <2> SUFFICES ASSUME m * m > v PROVE FALSE
    BY <1>3
  <2>1. m # 0
    <3> HIDE DEF m
    <3> QED OBVIOUS
  <2>2. m - 1 \in 0 .. 2 * AbsRange /\ (m - 1) + 1 = m
    <3> HIDE DEF m
    <3> QED BY <1>3, <2>1
  <2>3. m - 1 \in K
    <3> HIDE DEF m
    <3> QED BY <2>2
  <2>4. m <= m - 1
    BY <1>2, <2>3
  <2> HIDE DEF m
  <2> QED BY <1>3, <2>4
<1> HIDE DEF m
<1>5. \E r \in 0 .. 2 * AbsRange : r * r <= v /\ (r + 1) * (r + 1) > v
  BY <1>3, <1>4
<1> DEFINE r == IntSqrt(v)
<1>6. r \in 0 .. 2 * AbsRange /\ r * r <= v /\ (r + 1) * (r + 1) > v
  BY <1>5 DEF IntSqrt
<1> HIDE DEF r
<1>7. r \in Nat /\ r * r <= v /\ v < (r + 1) * (r + 1)
  BY <1>6
<1> QED BY <1>7 DEF r

\* One side of an axis: nothing inside the deadband, everything at its end.
LEMMA SideIs ==
    ASSUME AbsRange \in Nat \ {0}, Deadband \in Nat, NEW delta \in Nat, NEW span \in Int
    PROVE  /\ ScaleSide(delta, span) \in 0 .. AbsRange
           /\ delta <= Deadband => ScaleSide(delta, span) = 0
           /\ span > Deadband /\ delta >= span => ScaleSide(delta, span) = AbsRange
<1>1. CASE delta <= Deadband \/ span <= Deadband
  BY <1>1 DEF ScaleSide
<1>2. CASE ~(delta <= Deadband \/ span <= Deadband)
  <2> DEFINE a == delta - Deadband
             b == span - Deadband
             q == (a * AbsRange) \div b
  <2>1. a \in Nat \ {0} /\ b \in Nat \ {0} /\ (delta >= span => b <= a)
    BY <1>2
  <2>2. ScaleSide(delta, span) = Clamp(q)
    BY <1>2 DEF ScaleSide
  <2> HIDE DEF a, b
  <2>3. a * AbsRange \in Nat /\ (b <= a => AbsRange * b <= a * AbsRange)
    <3>1. b <= a => b * AbsRange <= a * AbsRange
      BY <2>1, Products
    <3>2. AbsRange * b = b * AbsRange /\ a * AbsRange \in Nat
      BY <2>1
    <3> QED BY <3>1, <3>2
  <2> DEFINE p == a * AbsRange
  <2> HIDE DEF p
  <2>4. p \in Nat /\ (b <= a => p >= AbsRange * b)
    BY <2>3, <2>1 DEF p
  <2>5. q = p \div b
    BY DEF p
  <2> HIDE DEF q
  <2>6. q \in Nat /\ (b <= a => q >= AbsRange)
    BY <2>1, <2>4, <2>5, Quotients
  <2>7. Clamp(q) \in 0 .. AbsRange /\ (b <= a => Clamp(q) = AbsRange)
    BY <2>6 DEF Clamp
  <2> QED BY <1>2, <2>1, <2>2, <2>7
<1> QED BY <1>1, <1>2

\* The fields of an axis that are numbers.
Numbers(ax) == ax.min \in Int /\ ax.zero \in Int /\ ax.max \in Int /\ ax.latest \in Int

\* What a value on its way to the report keeps of the position of its axis.
Follows(ax, v) ==
    /\ v \in -AbsRange .. AbsRange
    /\ ax.latest - ax.zero \in -Deadband .. Deadband => v = 0
    /\ ax.latest >= ax.zero => v >= 0
    /\ ax.latest <= ax.zero => v <= 0
    /\ ax.latest >= ax.max => v = AbsRange
    /\ ax.latest <= ax.min => v = -AbsRange

LEMMA ScaleFollows ==
    ASSUME AbsRange \in Nat \ {0}, Deadband \in Nat, NEW ax, Numbers(ax),
           CenterInRange(ax.min, ax.zero, ax.max)
    PROVE  Follows(ax, Scale(ax))
<1>1. /\ ax.min \in Int /\ ax.zero \in Int /\ ax.max \in Int /\ ax.latest \in Int
      /\ ax.zero - ax.min > Deadband /\ ax.max - ax.zero > Deadband
  BY DEF Numbers, CenterInRange
<1>2. CASE ax.latest >= ax.zero
  <2> DEFINE delta == ax.latest - ax.zero
             span == ax.max - ax.zero
             q == ScaleSide(delta, span)
  <2>1. delta \in Nat /\ span \in Int /\ span > Deadband
    BY <1>1, <1>2
  <2>2. Scale(ax) = q
    BY <1>2 DEF Scale
  <2> HIDE DEF delta, span
  <2>3. /\ q \in 0 .. AbsRange /\ (delta <= Deadband => q = 0)
        /\ delta >= span => q = AbsRange
    BY <2>1, SideIs
  <2> HIDE DEF q
  <2>4. (ax.latest >= ax.max => delta >= span) /\ delta = ax.latest - ax.zero
    BY <1>1 DEF delta, span
  <2>5. delta = 0 => q = 0
    BY <2>3
  <2> QED BY <1>1, <1>2, <2>2, <2>3, <2>4, <2>5 DEF Follows
<1>3. CASE ~(ax.latest >= ax.zero)
  <2> DEFINE delta == ax.zero - ax.latest
             span == ax.zero - ax.min
             q == ScaleSide(delta, span)
  <2>1. delta \in Nat /\ span \in Int /\ span > Deadband
    BY <1>1, <1>3
  <2>2. Scale(ax) = -q
    BY <1>3 DEF Scale
  <2> HIDE DEF delta, span
  <2>3. /\ q \in 0 .. AbsRange /\ (delta <= Deadband => q = 0)
        /\ delta >= span => q = AbsRange
    BY <2>1, SideIs
  <2> HIDE DEF q
  <2>4. (ax.latest <= ax.min => delta >= span) /\ delta = ax.zero - ax.latest
    BY <1>1 DEF delta, span
  <2> QED BY <1>1, <1>3, <2>2, <2>3, <2>4 DEF Follows
<1> QED BY <1>2, <1>3

\* One coordinate of a stick outside its dead zone but inside the circle.
LEMMA ShrinkIs ==
    ASSUME AbsRange \in Nat \ {0}, NEW v \in -AbsRange .. AbsRange, NEW n \in Nat,
           NEW m \in Nat \ {0}
    PROVE  LET q == Clamp(Quot(v * n, m))
           IN  /\ q \in -AbsRange .. AbsRange /\ (v = 0 => q = 0)
               /\ v >= 0 => q >= 0
               /\ v <= 0 => q <= 0
<1> DEFINE p == v * n
           c == Quot(p, m)
           q == Clamp(c)
<1>1. v \in Int /\ p \in Int /\ (v >= 0 => p >= 0) /\ (v <= 0 => p <= 0)
  <2>1. v >= 0 => v * n \in Nat
    BY Products
  <2>2. v <= 0 => (-v) * n \in Nat /\ (-v) * n = -(v * n)
    BY Products
  <2> QED BY <2>1, <2>2
<1>2. v = 0 => p = 0
  OBVIOUS
<1> HIDE DEF p
<1>3. p >= 0 => c \in Nat /\ (p = 0 => c = 0)
  BY <1>1, Quotients DEF Quot
<1>4. p < 0 => c \in Int /\ c <= 0
  <2> SUFFICES ASSUME p < 0 PROVE c \in Int /\ c <= 0
    OBVIOUS
  <2>1. -p \in Nat /\ c = -((-p) \div m)
    BY <1>1 DEF Quot
  <2>2. (-p) \div m \in Nat
    BY <2>1, Quotients
  <2> QED BY <2>1, <2>2
<1> HIDE DEF c
<1>a. c \in Int
  BY <1>1, <1>3, <1>4
<1>5. q \in -AbsRange .. AbsRange /\ (c = 0 => q = 0) /\ (c >= 0 => q >= 0) /\ (c <= 0 => q <= 0)
  BY <1>a DEF Clamp
<1>6. (v = 0 => c = 0) /\ (v >= 0 => c >= 0) /\ (v <= 0 => c <= 0)
  BY <1>1, <1>2, <1>3, <1>4
<1> QED BY <1>5, <1>6 DEF q, c, p

\* What shrinking may not lose: the side, the center and the ends.
Keeps(w, q) ==
    /\ q \in -AbsRange .. AbsRange /\ (w = 0 => q = 0)
    /\ (w >= 0 => q >= 0) /\ (w <= 0 => q <= 0)
    /\ w = AbsRange => q = AbsRange
    /\ w = -AbsRange => q = -AbsRange

\* The dead zone keeps the side, the center and the ends of both axes.
LEMMA RadialIs ==
    ASSUME AbsRange \in Nat \ {0}, NEW pct \in 0 .. 99,
           NEW x \in -AbsRange .. AbsRange, NEW y \in -AbsRange .. AbsRange
    PROVE  Keeps(x, Radial(pct, x, y)[1]) /\ Keeps(y, Radial(pct, x, y)[2])
<1> DEFINE sq == x * x + y * y
           r == IntSqrt(sq)
           hole == (AbsRange * pct) \div 100
           Shrink(v) == Clamp(Quot(v * (r - hole) * AbsRange, r * (AbsRange - hole)))
           e1 == pct = 0 \/ (x = 0 /\ y = 0)
           e2 == r <= hole
           e3 == r >= AbsRange
<1>0. x \in Int /\ y \in Int
  OBVIOUS
<1>1. \A v \in -AbsRange .. AbsRange : v * v \in Nat /\ v * v <= AbsRange * AbsRange
  <2> TAKE v \in -AbsRange .. AbsRange
  <2>1. CASE v >= 0
    <3>1. v \in Nat /\ v <= AbsRange
      BY <2>1
    <3>2. v * v <= AbsRange * v /\ v * AbsRange <= AbsRange * AbsRange /\ v * v \in Nat
      BY <3>1, Products
    <3> QED BY <3>1, <3>2
  <2>2. CASE v < 0
    <3> DEFINE u == -v
    <3>1. u \in Nat /\ u <= AbsRange /\ v * v = u * u
      BY <2>2
    <3> HIDE DEF u
    <3>2. u * u <= AbsRange * u /\ u * AbsRange <= AbsRange * AbsRange /\ u * u \in Nat
      BY <3>1, Products
    <3> QED BY <3>1, <3>2
  <2> QED BY <2>1, <2>2
<1>2. /\ sq \in Nat /\ sq <= 2 * AbsRange * AbsRange
      /\ x = AbsRange \/ x = -AbsRange \/ y = AbsRange \/ y = -AbsRange => sq >= AbsRange * AbsRange
  <2> DEFINE a == x * x
             b == y * y
             c == AbsRange * AbsRange
  <2>1. a \in Nat /\ b \in Nat /\ a <= c /\ b <= c /\ c \in Nat
    BY <1>1
  <2>2. /\ x = AbsRange \/ x = -AbsRange => a = c
        /\ y = AbsRange \/ y = -AbsRange => b = c
        /\ 2 * AbsRange * AbsRange = 2 * c
    OBVIOUS
  <2> HIDE DEF a, b, c
  <2>3. /\ a + b \in Nat /\ a + b <= 2 * c
        /\ x = AbsRange \/ x = -AbsRange \/ y = AbsRange \/ y = -AbsRange => a + b >= c
    BY <2>1, <2>2
  <2> QED BY <2>2, <2>3 DEF a, b, c
<1> HIDE DEF sq
<1>3. r \in Nat /\ r * r <= sq /\ sq < (r + 1) * (r + 1)
  BY <1>2, RootIs
<1> HIDE DEF r
<1>4. x = AbsRange \/ x = -AbsRange \/ y = AbsRange \/ y = -AbsRange => r >= AbsRange
  <2> SUFFICES ASSUME sq >= AbsRange * AbsRange PROVE r >= AbsRange
    BY <1>2
  <2> DEFINE a == AbsRange * AbsRange
             b == (r + 1) * (r + 1)
  <2>1. a \in Nat /\ b \in Nat
    BY <1>3, Products
  <2>2. a < b
    <3> HIDE DEF a, b
    <3>1. a <= sq /\ sq < b
      BY <1>3 DEF a, b
    <3> QED BY <1>2, <2>1, <3>1
  <2>3. AbsRange < r + 1
    BY <1>3, <2>2, Squares
  <2> QED BY <1>3, <2>3
<1>5. hole \in Nat /\ hole < AbsRange
  OBVIOUS
<1> HIDE DEF hole
<1>6. Radial(pct, x, y) = CASE e1 -> <<x, y>>
                            [] e2 -> <<0, 0>>
                            [] e3 -> <<x, y>>
                            [] OTHER -> <<Shrink(x), Shrink(y)>>
  BY DEF Radial, r, hole, sq
<1> DEFINE Goal == Keeps(x, Radial(pct, x, y)[1]) /\ Keeps(y, Radial(pct, x, y)[2])
<1>b. Radial(pct, x, y) = <<x, y>> => Goal
  BY <1>0 DEF Keeps
<1>7. CASE e1 \/ (~e2 /\ e3)
  <2>1. ASSUME e1, e2 PROVE x = 0 /\ y = 0
    <3> SUFFICES ASSUME pct = 0 PROVE x = 0 /\ y = 0
      BY <2>1
    <3>1. hole = 0
      BY DEF hole
    <3>2. r = 0
      BY <1>3, <2>1, <3>1
    <3>3. sq < 1
      BY <1>3, <3>2
    <3>4. x * x \in Nat /\ y * y \in Nat /\ sq = x * x + y * y
      BY <1>1 DEF sq
    <3>5. x * x = 0 /\ y * y = 0
      <4> DEFINE a == x * x
                 b == y * y
      <4> HIDE DEF a, b
      <4>1. a \in Nat /\ b \in Nat /\ a + b < 1
        BY <3>3, <3>4 DEF a, b
      <4> QED BY <4>1 DEF a, b
    <3>6. x = 0 /\ y = 0
      BY <1>0, <3>5
    <3> QED BY <3>6
  <2>2. e2 /\ e3 => FALSE
    BY <1>3, <1>5
  <2>3. CASE e1
    <3>1. CASE e2
      <4>1. <<x, y>> = <<0, 0>>
        BY <2>1, <2>3, <3>1
      <4>2. Radial(pct, x, y) = <<x, y>>
        BY <1>6, <2>2, <2>3, <3>1, <4>1
      <4> QED BY <1>b, <4>2
    <3>2. CASE ~e2
      <4>1. Radial(pct, x, y) = <<x, y>>
        BY <1>6, <2>3, <3>2
      <4> QED BY <1>b, <4>1
    <3> QED BY <3>1, <3>2
  <2>4. CASE ~e1
    <3>1. Radial(pct, x, y) = <<x, y>>
      BY <1>6, <1>7, <2>4
    <3> QED BY <1>b, <3>1
  <2> QED BY <2>3, <2>4
<1>8. CASE ~e1 /\ e2
  <2>1. Radial(pct, x, y) = <<0, 0>>
    BY <1>3, <1>5, <1>6, <1>8
  <2>2. ~(r >= AbsRange)
    BY <1>3, <1>5, <1>8
  <2>3. x # AbsRange /\ x # -AbsRange /\ y # AbsRange /\ y # -AbsRange
    BY <1>4, <2>2
  <2> QED BY <1>5, <2>1, <2>3 DEF Keeps
<1>9. CASE ~e1 /\ ~e2 /\ ~e3
  <2>1. Radial(pct, x, y) = <<Shrink(x), Shrink(y)>>
    BY <1>6, <1>9
  <2>2. x # AbsRange /\ x # -AbsRange /\ y # AbsRange /\ y # -AbsRange
    BY <1>4, <1>9
  <2> DEFINE n == (r - hole) * AbsRange
             m == r * (AbsRange - hole)
  <2>3. n \in Nat /\ m \in Nat \ {0}
    <3>1. r - hole \in Nat /\ AbsRange - hole \in Nat \ {0} /\ r \in Nat \ {0}
      BY <1>3, <1>5, <1>9
    <3> QED BY <3>1, Products
  <2>4. ASSUME NEW v \in -AbsRange .. AbsRange
        PROVE  Shrink(v) = Clamp(Quot(v * n, m))
    <3>1. v * (r - hole) * AbsRange = v * n
      BY <1>3, <1>5
    <3> HIDE DEF n
    <3> QED BY <3>1
  <2> HIDE DEF n, m, Shrink
  <2>5. ASSUME NEW v \in -AbsRange .. AbsRange, v # AbsRange, v # -AbsRange
        PROVE  Keeps(v, Shrink(v))
    <3> DEFINE q == Clamp(Quot(v * n, m))
    <3>1. /\ q \in -AbsRange .. AbsRange /\ (v = 0 => q = 0)
          /\ (v >= 0 => q >= 0) /\ (v <= 0 => q <= 0)
      BY <2>3, ShrinkIs
    <3>2. Shrink(v) = q
      BY <2>4
    <3> HIDE DEF q
    <3> QED BY <2>5, <3>1, <3>2 DEF Keeps
  <2>6. Keeps(x, Shrink(x)) /\ Keeps(y, Shrink(y))
    BY <2>2, <2>5
  <2> QED BY <2>1, <2>6
<1> QED BY <1>7, <1>8, <1>9

----------------------------------------------------------------------------
(* The sticks: the centers stay usable and the reports current.             *)

\* An axis: its fields, where its center came from, and the center usable.
\* The source decides whether a restore moves the center with the ends or has
\* to be checked against the center that stays.  Samples are bytes, and all that
\* scaling reads is numbers.
Fields == {"min", "saved", "zero", "max", "latest", "source", "boot", "win", "cand"}
Sources == {"default", "persisted", "boot", "apply"}
Whole(n) == n \in Int
ByteSeq(w) == w \in Seq(0 .. 255)
Usable(ax) ==
    /\ ax = [k \in Fields |-> ax[k]]
    /\ ax.source \in Sources
    /\ CenterInRange(ax.min, ax.zero, ax.max)
    /\ Whole(ax.min) /\ Whole(ax.zero) /\ Whole(ax.max) /\ Whole(ax.latest) /\ ByteSeq(ax.win)

PadInv ==
    /\ axis = [a \in Axes |-> axis[a]]
    /\ \A a \in Axes : Usable(axis[a])
    /\ dz \in [Sticks -> 0 .. 99]

\* The middle sample of a full window is a number: the greatest is one that
\* more than half of the window does not exceed.
LEMMA MedianIs ==
    ASSUME NEW win \in Seq(0 .. 255), Len(win) >= Window
    PROVE  Median(win) \in Int
<1> DEFINE R == {win[i] : i \in 1 .. Len(win)}
           NoMore(v) == {i \in DOMAIN win : win[i] <= v}
           K == {v \in R : 2 * Cardinality(NoMore(v)) > Window}
<1>1. Window \in Nat \ {0} /\ Len(win) \in Nat /\ DOMAIN win = 1 .. Len(win)
  BY PadAssumption
<1>2. \A i \in 1 .. Len(win) : win[i] \in 0 .. 255 /\ win[i] \in R
  BY ElementOfSeq
<1>3. R \in SUBSET (0 .. 255) /\ R # {}
  <2>1. ASSUME NEW v \in R PROVE v \in 0 .. 255
    <3>1. PICK i \in 1 .. Len(win) : v = win[i]
      OBVIOUS
    <3> HIDE DEF R
    <3> QED BY <1>2, <3>1
  <2>2. win[1] \in R
    BY <1>1, <1>2
  <2> HIDE DEF R
  <2> QED BY <2>1, <2>2
<1>4. Range(win) = R
  BY <1>1, Zenon DEF Range
<1>5. Median(win) = Min(K)
  <2>1. Median(win) = Min({v \in Range(win) : 2 * Cardinality(NoMore(v)) > Window})
    BY DEF Median
  <2> HIDE DEF NoMore, R
  <2> QED BY <1>4, <2>1, Zenon
<1>6. \A v : (\A i \in 1 .. Len(win) : win[i] <= v) => Cardinality(NoMore(v)) = Len(win)
  <2> SUFFICES ASSUME NEW v, \A i \in 1 .. Len(win) : win[i] <= v
               PROVE  Cardinality(NoMore(v)) = Len(win)
    OBVIOUS
  <2>1. NoMore(v) = 1 .. Len(win)
    BY <1>1
  <2>2. Cardinality(1 .. Len(win)) = Len(win)
    BY <1>1, FS_Interval
  <2> HIDE DEF NoMore
  <2> QED BY <2>1, <2>2
<1> HIDE DEF R, NoMore
<1>7. PICK m \in R : \A v \in R : v <= m
  <2> DEFINE top == 255
  <2>1. top \in Nat /\ R \in SUBSET (0 .. top)
    BY <1>3
  <2> HIDE DEF top
  <2>2. Max(R) \in R /\ \A v \in R : v <= Max(R)
    BY <1>3, <2>1, GreatestIs
  <2> QED BY <2>2
<1>8. Cardinality(NoMore(m)) = Len(win)
  BY <1>2, <1>6, <1>7
<1>9. m \in K
  BY <1>1, <1>7, <1>8
<1>10. K \in SUBSET Nat
  <2>1. K \subseteq R
    OBVIOUS
  <2> HIDE DEF K
  <2> QED BY <1>3, <2>1
<1> HIDE DEF K
<1>11. Min(K) \in K
  BY <1>9, <1>10, LeastIs
<1>12. \A k \in K : k \in Int
  BY <1>10
<1> QED
  BY <1>5, <1>11, <1>12, Zenon

LEMMA CollectKeeps ==
    ASSUME NEW ax, Usable(ax), NEW v \in 0 .. 255
    PROVE  Usable(NoteSample(ax, v))
<1> DEFINE win == Append(ax.win, v)
           med == Median(win)
           next == [ax EXCEPT !.win = << >>]
           again == [next EXCEPT !.cand = -1, !.boot = "collect"]
<1>0. win \in Seq(0 .. 255) /\ Len(win) \in Nat /\ Window \in Nat
  <2>1. ax.win \in Seq(0 .. 255)
    BY DEF Usable, ByteSeq
  <2>2. Window \in Nat
    BY PadAssumption
  <2>3. Append(ax.win, v) \in Seq(0 .. 255)
    BY <2>1, AppendProperties
  <2> HIDE DEF win
  <2>4. win \in Seq(0 .. 255)
    BY <2>3 DEF win
  <2> QED BY <2>2, <2>4
<1> HIDE DEF win, med
<1>1. Usable([ax EXCEPT !.boot = "timeout"])
  BY DEF Usable, Fields
<1>2. Usable([ax EXCEPT !.win = win])
  <2>1. ByteSeq(win)
    BY <1>0 DEF ByteSeq
  <2> QED
    BY <2>1 DEF Usable, Fields
<1>a. Usable(next) /\ next.min = ax.min /\ next.max = ax.max
  <2>1. ByteSeq(<< >>)
    BY DEF ByteSeq
  <2> QED
    BY <2>1 DEF Usable, Fields
<1> HIDE DEF next
<1>3. Usable(again)
  BY <1>a DEF Usable, Fields
<1>4. Usable([next EXCEPT !.cand = med, !.boot = "confirm"])
  BY <1>a DEF Usable, Fields
<1>5. ASSUME CenterInRange(ax.min, med, ax.max), med \in Int
      PROVE  Usable([next EXCEPT !.zero = med, !.source = "boot", !.boot = "accepted"])
  <2>1. Whole(med) /\ CenterInRange(next.min, med, next.max)
    BY <1>a, <1>5 DEF Whole
  <2> QED
    BY <1>a, <2>1 DEF Usable, Sources, Fields
<1>6. Usable([next EXCEPT !.boot = "rejected"])
  BY <1>a DEF Usable, Fields
<1>7. \/ NoteSample(ax, v) = [ax EXCEPT !.boot = "timeout"]
      \/ NoteSample(ax, v) = [ax EXCEPT !.win = win]
      \/ NoteSample(ax, v) = again
      \/ NoteSample(ax, v) = [next EXCEPT !.cand = med, !.boot = "confirm"]
      \/ /\ CenterInRange(ax.min, med, ax.max) /\ med \in Int
         /\ NoteSample(ax, v) = [next EXCEPT !.zero = med, !.source = "boot", !.boot = "accepted"]
      \/ NoteSample(ax, v) = [next EXCEPT !.boot = "rejected"]
  <2> DEFINE e1 == Overdue(ax)
             e2 == ~Overdue(ax) /\ Len(win) < Window
             e3 == ~Overdue(ax) /\ Len(win) = Window /\ ~WindowStable(win)
  <2>1. CASE e1
    BY <2>1 DEF NoteSample, med, win, next
  <2>2. CASE e2
    BY <2>2 DEF NoteSample, med, win, next
  <2>3. CASE e3
    BY <2>3 DEF NoteSample, med, win, next
  <2>4. CASE ~e1 /\ ~e2 /\ ~e3
    <3>1. Len(win) >= Window
      BY <1>0, <2>4
    <3>2. med \in Int
      BY <1>0, <3>1, MedianIs DEF med
    <3>3. NoteSample(ax, v) =
            CASE ax.boot # "confirm" -> [next EXCEPT !.cand = med, !.boot = "confirm"]
              [] ax.boot = "confirm" /\ (med - ax.cand > Match \/ ax.cand - med > Match) -> again
              [] OTHER -> IF CenterInRange(ax.min, med, ax.max)
                          THEN [next EXCEPT !.zero = med, !.source = "boot", !.boot = "accepted"]
                          ELSE [next EXCEPT !.boot = "rejected"]
      BY <2>4 DEF NoteSample, med, win, next
    <3> HIDE DEF again
    <3> QED BY <3>2, <3>3
  <2> QED
    BY <2>1, <2>2, <2>3, <2>4
<1> HIDE DEF again
<1> QED
  BY <1>1, <1>2, <1>3, <1>4, <1>5, <1>6, <1>7, Zenon

LEMMA BootNoteKeeps ==
    ASSUME NEW ax, Usable(ax), NEW v \in 0 .. 255
    PROVE  Usable(BootNote(ax, v))
<1> DEFINE seen == [ax EXCEPT !.latest = v,
                              !.boot = IF ~started /\ ax.source # "apply" THEN "settle" ELSE @]
           e1 == ~started \/ settle = "done" \/ (settle = "hw" /\ ~elapsed)
           e2 == started /\ settle = "hw" /\ elapsed
<1>1. Usable(seen)
  <2>1. Whole(v)
    BY DEF Whole
  <2> QED
    BY <2>1 DEF Usable, Fields
<1>2. Usable([seen EXCEPT !.boot = "collect", !.win = <<v>>])
  <2> HIDE DEF seen
  <2>1. ByteSeq(<<v>>)
    BY DEF ByteSeq
  <2> QED
    BY <1>1, <2>1 DEF Usable, Sources, Fields
<1>3. Usable(NoteSample(seen, v))
  <2> HIDE DEF seen
  <2> QED
    BY <1>1, CollectKeeps
<1>4. \/ BootNote(ax, v) = seen
      \/ BootNote(ax, v) = [seen EXCEPT !.boot = "collect", !.win = <<v>>]
      \/ BootNote(ax, v) = NoteSample(seen, v)
  <2>1. CASE e1
    BY <2>1 DEF BootNote
  <2>2. CASE ~e1 /\ e2
    BY <2>2 DEF BootNote
  <2>3. CASE ~e1 /\ ~e2
    BY <2>3 DEF BootNote
  <2> QED
    BY <2>1, <2>2, <2>3
<1> HIDE DEF seen
<1> QED
  BY <1>1, <1>2, <1>3, <1>4, Zenon

\* An axis under a calibration that mf_cal_store lets through.
LEMMA InstallKeeps ==
    ASSUME NEW ax, Usable(ax), NEW c, NEW apply, Preflight(ax, apply, c),
           Whole(c.min), Whole(c.zero), Whole(c.max), CenterInRange(c.min, c.zero, c.max)
    PROVE  Usable(InstallAxis(ax, c, apply))
<1> DEFINE ends == [ax EXCEPT !.min = c.min, !.saved = c.zero, !.max = c.max]
<1>1. /\ ends = [k \in Fields |-> ends[k]]
      /\ ends.min = c.min /\ ends.max = c.max /\ ends.zero = ax.zero /\ ends.source = ax.source
      /\ ends.latest = ax.latest /\ ends.win = ax.win
  BY DEF Usable, Fields
<1>2. CASE apply
  <2>1. InstallAxis(ax, c, apply)
          = [ends EXCEPT !.zero = c.zero, !.source = "apply",
                         !.boot = IF @ \in Finished THEN @ ELSE "cancelled"]
    BY <1>2 DEF InstallAxis
  <2> HIDE DEF ends
  <2> QED
    BY <1>1, <2>1 DEF Usable, Sources, Fields
<1>3. CASE ~apply /\ ax.source \in {"default", "persisted"}
  <2>1. InstallAxis(ax, c, apply) = [ends EXCEPT !.zero = c.zero, !.source = "persisted"]
    BY <1>3 DEF InstallAxis
  <2> HIDE DEF ends
  <2> QED
    BY <1>1, <2>1 DEF Usable, Sources, Fields
<1>4. CASE ~apply /\ ax.source \notin {"default", "persisted"}
  <2>1. InstallAxis(ax, c, apply) = ends
    BY <1>4 DEF InstallAxis
  <2>2. CenterInRange(c.min, ax.zero, c.max)
    BY <1>4 DEF Preflight, Usable, Sources
  <2> HIDE DEF ends
  <2> QED
    BY <1>1, <2>1, <2>2 DEF Usable
<1> QED
  BY <1>2, <1>3, <1>4

LEMMA PadInvThm == FlipSpec => []PadInv
<1>1. ASSUME FlipInit PROVE PadInv
  <2>1. Usable(AxisDefaults)
    <3>1. /\ Whole(Default.min) /\ Whole(Default.zero) /\ Whole(Default.max) /\ ByteSeq(<< >>)
          /\ CenterInRange(Default.min, Default.zero, Default.max)
      BY PadAssumption DEF Whole, ByteSeq
    <3> QED BY <3>1 DEF Usable, Sources, Fields, AxisDefaults
  <2> HIDE DEF Usable
  <2> QED
    BY <1>1, <2>1 DEF FlipInit, PadInv
<1>2. ASSUME PadInv, [FlipNext]_flipVars PROVE PadInv'
  <2>1. ASSUME NEW raw \in Frames, Frame(raw) PROVE PadInv'
    <3>0. dz' = dz /\ \A a \in Axes : raw[a] \in 0 .. 255
      BY <2>1, PadAssumption DEF Frame    <3>1. axis' = [a \in Axes |-> BootNote(axis[a], raw[a])]
      BY <2>1 DEF Frame
    <3>2. \A a \in Axes : Usable(BootNote(axis[a], raw[a]))
      BY <1>2, <3>0, BootNoteKeeps DEF PadInv
    <3> QED
      BY <1>2, <3>0, <3>1, <3>2, Zenon DEF PadInv
  <2>2. ASSUME NEW s \in Sticks, NEW c \in Calibrations, CalStore(s, c) PROVE PadInv'
    <3> DEFINE x == InstallAxis(axis[s[1]], c.x, c.apply)
               y == InstallAxis(axis[s[2]], c.y, c.apply)
    <3>1. /\ s[1] \in Axes /\ s[2] \in Axes
          /\ Whole(c.x.min) /\ Whole(c.x.zero) /\ Whole(c.x.max)
          /\ Whole(c.y.min) /\ Whole(c.y.zero) /\ Whole(c.y.max)
      BY PadAssumption DEF Axes, Whole
    <3>2. Usable(x)
      BY <1>2, <2>2, <3>1, InstallKeeps DEF PadInv, CalStore
    <3>3. Usable(y)
      BY <1>2, <2>2, <3>1, InstallKeeps DEF PadInv, CalStore
    <3>4. axis' = [axis EXCEPT ![s[1]] = x, ![s[2]] = y] /\ dz' = dz
      BY <2>2 DEF CalStore
    <3> HIDE DEF x, y
    <3> QED
      BY <1>2, <3>1, <3>2, <3>3, <3>4 DEF PadInv
  <2>3. ASSUME NEW s \in Sticks, NEW pct \in Deadzones, DzStore(s, pct) PROVE PadInv'
    <3>1. axis' = axis /\ dz' = [dz EXCEPT ![s] = pct] /\ pct \in 0 .. 99
      BY <2>3, PadAssumption DEF DzStore
    <3> QED
      BY <1>2, <3>1 DEF PadInv
  <2>4. ASSUME UNCHANGED <<axis, dz>> PROVE PadInv'
    BY <1>2, <2>4 DEF PadInv
  <2> QED
    BY <1>2, <2>1, <2>2, <2>3, <2>4 DEF FlipNext, AnyFrame, Elapse, flipVars
<1> QED
  BY <1>1, <1>2, PTL DEF FlipSpec

\* No axis is on two sticks.
SticksApart ==
    /\ \A s \in Sticks : s[1] # s[2]
    /\ \A s, q \in Sticks : s # q => {s[1], s[2]} \cap {q[1], q[2]} = {}

\* What was reported last is what the current centers, ends and dead zones make of
\* the latest samples: mf_cal_store and mf_dz_store publish the one stick they
\* change, and no other depends on it.
Reported == abs = [a \in Axes |-> Emitted(axis, dz, a)]

LEMMA StickOfIs ==
    ASSUME SticksApart, NEW s \in Sticks, NEW a \in {s[1], s[2]}
    PROVE  StickOf(a) = s
BY DEF SticksApart, StickOf

LEMMA OfOneStick ==
    ASSUME SticksApart, NEW a \in Axes
    PROVE  StickOf(a) \in Sticks /\ a \in {StickOf(a)[1], StickOf(a)[2]}
<1>1. PICK s \in Sticks : a \in {s[1], s[2]}
  BY DEF Axes
<1> QED
  BY <1>1, StickOfIs, Zenon

\* The report of an axis that is not on the stick s does not change with it.
LEMMA OtherStick ==
    ASSUME SticksApart, NEW s \in Sticks, NEW a \in Axes, a \notin {s[1], s[2]},
           NEW ax, NEW ay, \A e \in Axes \ {s[1], s[2]} : ay[e] = ax[e],
           NEW z, NEW y, \A q \in Sticks \ {s} : y[q] = z[q]
    PROVE  Emitted(ay, y, a) = Emitted(ax, z, a)
<1> DEFINE q == StickOf(a)
<1>1. q \in Sticks /\ q # s /\ q[1] \in Axes /\ q[2] \in Axes
  BY OfOneStick DEF Axes
<1>2. q[1] \notin {s[1], s[2]} /\ q[2] \notin {s[1], s[2]}
  BY <1>1 DEF SticksApart
<1>3. ay[q[1]] = ax[q[1]] /\ ay[q[2]] = ax[q[2]] /\ y[q] = z[q]
  BY <1>1, <1>2
<1> QED
  BY <1>3, Zenon DEF Emitted

LEMMA PublishKeeps ==
    ASSUME SticksApart, Reported, NEW s \in Sticks, NEW ax, NEW z, PublishStick(ax, z, s),
           \A e \in Axes \ {s[1], s[2]} : ax[e] = axis[e],
           \A q \in Sticks \ {s} : z[q] = dz[q]
    PROVE  abs' = [a \in Axes |-> Emitted(ax, z, a)]
<1>1. abs' = [abs EXCEPT ![s[1]] = Emitted(ax, z, s[1]), ![s[2]] = Emitted(ax, z, s[2])]
  BY DEF PublishStick
<1>2. s[1] # s[2] /\ s[1] \in Axes /\ s[2] \in Axes
  BY DEF SticksApart, Axes
<1>3. \A a \in Axes \ {s[1], s[2]} : Emitted(ax, z, a) = Emitted(axis, dz, a)
  <2> SUFFICES ASSUME NEW a \in Axes \ {s[1], s[2]}
               PROVE  Emitted(ax, z, a) = Emitted(axis, dz, a)
    OBVIOUS
  <2> QED
    BY OtherStick
<1> DEFINE E(a) == Emitted(ax, z, a)
<1>4. \A a \in Axes \ {s[1], s[2]} : abs[a] = E(a)
  BY <1>3 DEF Reported
<1>5. DOMAIN abs = Axes /\ abs = [a \in Axes |-> abs[a]]
  BY DEF Reported
<1>6. abs' = [abs EXCEPT ![s[1]] = E(s[1]), ![s[2]] = E(s[2])]
  BY <1>1
<1> HIDE DEF E
<1>7. abs' = [a \in Axes |-> E(a)]
  BY <1>2, <1>4, <1>5, <1>6
<1> QED
  BY <1>7 DEF E

PadReports == axis = [a \in Axes |-> axis[a]] /\ dz = [s \in Sticks |-> dz[s]] /\ Reported

LEMMA AtRest ==
    ASSUME FlipInit, SticksApart, NEW a \in Axes
    PROVE  Emitted(axis, dz, a) = 0
<1> DEFINE s == StickOf(a)
<1>1. s \in Sticks /\ s[1] \in Axes /\ s[2] \in Axes
  BY OfOneStick DEF Axes
<1>2. axis[s[1]] = AxisDefaults /\ axis[s[2]] = AxisDefaults /\ dz[s] = 0
  BY <1>1 DEF FlipInit
<1>3. Scale(AxisDefaults) = 0
  <2>1. AxisDefaults.latest = Default.zero /\ AxisDefaults.zero = Default.zero
    BY DEF AxisDefaults
  <2>2. Scale(AxisDefaults) = ScaleSide(Default.zero - Default.zero, AxisDefaults.max - Default.zero)
    BY <2>1, PadAssumption DEF Scale
  <2>3. Default.zero - Default.zero = 0 /\ 0 <= Deadband
    BY PadAssumption
  <2> QED
    BY <2>2, <2>3 DEF ScaleSide
<1>4. Radial(0, 0, 0) = <<0, 0>>
  BY DEF Radial
<1> QED
  BY <1>2, <1>3, <1>4 DEF Emitted

\* Whatever frames, calibrations and dead zones come in whatever order, the last
\* report of every axis is the one of the present state (mf_emit_stick,
\* mf_cal_store, mf_dz_store).
THEOREM ReportedThm == FlipSpec => []Reported
<1>0. SticksApart
  BY PadAssumption DEF SticksApart
<1>1. ASSUME FlipInit PROVE PadReports
  <2>1. \A a \in Axes : Emitted(axis, dz, a) = 0
    BY <1>0, <1>1, AtRest
  <2> QED
    BY <1>1, <2>1 DEF FlipInit, PadReports, Reported
<1>2. ASSUME PadReports, [FlipNext]_flipVars PROVE PadReports'
  <2>1. ASSUME NEW raw, Frame(raw) PROVE PadReports'
    <3>1. /\ axis' = [a \in Axes |-> BootNote(axis[a], raw[a])]
          /\ abs' = [a \in Axes |-> Emitted(axis', dz, a)] /\ dz' = dz
      BY <2>1 DEF Frame, ReportAxes
    <3>2. axis' = [a \in Axes |-> axis'[a]]
      BY <3>1
    <3> QED
      BY <1>2, <3>1, <3>2 DEF PadReports, Reported
  <2>2. ASSUME NEW s \in Sticks, NEW c, CalStore(s, c) PROVE PadReports'
    <3> DEFINE x == InstallAxis(axis[s[1]], c.x, c.apply)
               y == InstallAxis(axis[s[2]], c.y, c.apply)
    <3>1. axis' = [axis EXCEPT ![s[1]] = x, ![s[2]] = y] /\ PublishStick(axis', dz, s) /\ dz' = dz
      BY <2>2 DEF CalStore
    <3> HIDE DEF x, y
    <3>2. axis' = [a \in Axes |-> axis'[a]] /\ \A e \in Axes \ {s[1], s[2]} : axis'[e] = axis[e]
      BY <1>2, <3>1 DEF PadReports
    <3>3. abs' = [a \in Axes |-> Emitted(axis', dz, a)]
      BY <1>0, <1>2, <3>1, <3>2, PublishKeeps DEF PadReports
    <3> QED
      BY <1>2, <3>1, <3>2, <3>3 DEF PadReports, Reported
  <2>3. ASSUME NEW s \in Sticks, NEW pct, DzStore(s, pct) PROVE PadReports'
    <3>1. dz' = [dz EXCEPT ![s] = pct] /\ PublishStick(axis, dz', s) /\ axis' = axis
      BY <2>3 DEF DzStore
    <3>2. dz' = [q \in Sticks |-> dz'[q]] /\ \A q \in Sticks \ {s} : dz'[q] = dz[q]
      BY <1>2, <3>1 DEF PadReports
    <3>3. abs' = [a \in Axes |-> Emitted(axis, dz', a)]
      BY <1>0, <1>2, <3>1, <3>2, PublishKeeps DEF PadReports
    <3> QED
      BY <1>2, <3>1, <3>2, <3>3 DEF PadReports, Reported
  <2>4. ASSUME UNCHANGED <<axis, dz, abs>> PROVE PadReports'
    BY <1>2, <2>4 DEF PadReports, Reported
  <2> QED
    BY <1>2, <2>1, <2>2, <2>3, <2>4 DEF FlipNext, AnyFrame, Elapse, flipVars
<1>3. PadReports => Reported
  BY DEF PadReports
<1> QED
  BY <1>1, <1>2, <1>3, PTL DEF FlipSpec

\* The scaled values of a stick and the dead zone's shrinking keep the side, the
\* rest and the ends of each axis.
LEMMA EmittedFollows ==
    ASSUME PadInv, NEW a \in Axes
    PROVE  Follows(axis[a], Emitted(axis, dz, a))
<1> DEFINE s == StickOf(a)
           x == Scale(axis[s[1]])
           y == Scale(axis[s[2]])
           v == Radial(dz[s], x, y)
<1>0. AbsRange \in Nat \ {0} /\ Deadband \in Nat /\ SticksApart
  BY PadAssumption DEF SticksApart
<1>1. s \in Sticks /\ a \in {s[1], s[2]} /\ s[1] \in Axes /\ s[2] \in Axes
  BY <1>0, OfOneStick DEF Axes
<1> HIDE DEF s
<1>2. Follows(axis[s[1]], x) /\ Follows(axis[s[2]], y)
  BY <1>0, <1>1, ScaleFollows DEF PadInv, Usable, Numbers, Whole
<1>3. dz[s] \in 0 .. 99
  BY <1>1 DEF PadInv
<1>4. Emitted(axis, dz, a) = IF a = s[1] THEN v[1] ELSE v[2]
  BY DEF Emitted, s
<1>5. x \in -AbsRange .. AbsRange /\ y \in -AbsRange .. AbsRange
  BY <1>2 DEF Follows
<1>6. Keeps(x, v[1]) /\ Keeps(y, v[2])
  <2> HIDE DEF x, y
  <2> QED BY <1>0, <1>3, <1>5, RadialIs
<1> HIDE DEF x, y, v
<1>7. ASSUME NEW ax, NEW w, NEW q, Follows(ax, w), Keeps(w, q) PROVE Follows(ax, q)
  BY <1>7 DEF Follows, Keeps
<1>8. CASE a = s[1]
  BY <1>2, <1>4, <1>6, <1>7, <1>8
<1>9. CASE a # s[1]
  BY <1>1, <1>2, <1>4, <1>6, <1>7, <1>9
<1> QED
  BY <1>8, <1>9

\* Whatever frames, boot centers, calibrations, restores and dead zones come in
\* whatever order, every center keeps usable travel on both sides
\* (mf_center_in_range), and the last report of every axis is at rest in its
\* deadband, never on the wrong side, and full at the ends of the active travel
\* (mf_scale_axis, mf_radial_deadzone, mf_emit_stick).
THEOREM SticksTrueThm == FlipSpec => []SticksTrue
<1>1. ASSUME PadInv, Reported PROVE SticksTrue
  <2>1. Centred
    BY <1>1 DEF PadInv, Usable, Centred
  <2>2. ASSUME NEW a \in Axes
        PROVE  LET ax == axis[a] off == ax.latest - ax.zero
               IN /\ off \in -Deadband .. Deadband => abs[a] = 0
                  /\ off >= 0 => abs[a] \in 0 .. AbsRange
                  /\ off <= 0 => abs[a] \in -AbsRange .. 0
                  /\ ax.latest >= ax.max => abs[a] = AbsRange
                  /\ ax.latest <= ax.min => abs[a] = -AbsRange
    <3> DEFINE ax == axis[a]
               v == abs[a]
    <3>1. v = Emitted(axis, dz, a)
      BY <1>1 DEF Reported
    <3>2. Follows(ax, v)
      BY <1>1, <3>1, EmittedFollows
    <3>3. ax.latest \in Int /\ ax.zero \in Int /\ AbsRange \in Nat
      BY <1>1, PadAssumption DEF PadInv, Usable, Whole
    <3> HIDE DEF ax, v
    <3>4. LET off == ax.latest - ax.zero
          IN /\ off \in -Deadband .. Deadband => v = 0
             /\ off >= 0 => v \in 0 .. AbsRange
             /\ off <= 0 => v \in -AbsRange .. 0
             /\ ax.latest >= ax.max => v = AbsRange
             /\ ax.latest <= ax.min => v = -AbsRange
      BY <3>2, <3>3 DEF Follows
    <3> QED BY <3>4 DEF ax, v
  <2>3. StickTruthful
    BY <2>2 DEF StickTruthful
  <2> QED BY <2>1, <2>3 DEF SticksTrue
<1> QED
  BY <1>1, PadInvThm, ReportedThm, PTL

----------------------------------------------------------------------------
(* The pad's motor, buttons and life: nothing is left running.              *)

Gone == {"stop", "off", "buttons", "buttonwork", "unregister", "lastclose", "lastoff", "freed"}
Closing == {"close", "closeoff", "lastclose", "lastoff"}

Works == [queued : BOOLEAN, run : {"no", "read"}, v : {0, 1}]

\* Nobody has the device open and no close is under way: nothing was asked of
\* the motor that is not done.
Silent == effect = FALSE /\ level = 0 /\ motor = 0 /\ work = Idle

\* Without the clauses on the level and the work MotorOff is not inductive: a
\* work that was queued before the close would start the motor after it.
MotorInv ==
    /\ users = TRUE \/ users = FALSE
    /\ effect = TRUE \/ effect = FALSE
    /\ users = FALSE /\ life \notin Closing => Silent
    /\ life \in Closing \cup {"freed"} => users = FALSE /\ effect = FALSE
    /\ life \in {"closeoff", "lastoff"} => work = Idle
    /\ life \in {"reread", "restart", "restartoff"} => users = TRUE
    /\ life \in Gone => port = FALSE

\* Each edge since the last report is an interrupt that was raised, a work that
\* is queued, or a reading that is current.
ButtonInv ==
    /\ btnIrq \in {"off", "on", "raised"} /\ btn \in Works
    /\ life \in {"probe", "irqs"} => btnIrq = "off" /\ edge = FALSE
    /\ life \in {"buttonwork", "unregister", "lastclose", "lastoff", "freed"} => btnIrq = "off"
    /\ life \in {"unregister", "lastclose", "lastoff", "freed"} => btn = Idle
    /\ edge /\ btnIrq = "on" /\ btn.queued = FALSE =>
         IF btn.run = "read" THEN btn.v = gpio ELSE shown = gpio
    /\ gpio \in {0, 1}

LEMMA MotorInvThm == IoSpec => []MotorInv
<1>1. IoInit => MotorInv
  BY DEF IoInit, MotorInv, Silent, Idle, Closing, Gone
<1>2. MotorInv /\ [IoNext]_ioVars => MotorInv'
  <2> SUFFICES ASSUME MotorInv, [IoNext]_ioVars PROVE MotorInv'
    OBVIOUS
  <2> USE DEF MotorInv, Silent, Idle, Closing, Gone, Motor, Button
  <2>1. CASE ReportInitial
    BY <2>1 DEF ReportInitial
  <2>2. CASE ButtonsIrqs
    BY <2>2 DEF ButtonsIrqs
  <2>3. CASE OpenPort
    BY <2>3 DEF OpenPort
  <2>4. CASE Play
    BY <2>4 DEF Play, RumblePlay, Frozen
  <2>5. CASE Stop
    BY <2>5 DEF Stop, RumblePlay
  <2>6. CASE RumbleRead
    BY <2>6 DEF RumbleRead
  <2>7. CASE RumbleApply
    BY <2>7 DEF RumbleApply
  <2>8. CASE Open
    BY <2>8 DEF Open
  <2>9. CASE Close
    BY <2>9 DEF Close, Flush, RumblePlay
  <2>10. CASE CloseCancel
    BY <2>10 DEF CloseCancel, CancelWork
  <2>11. CASE CloseOff
    BY <2>11 DEF CloseOff, StopOff
  <2>12. CASE IoSuspend
    BY <2>12 DEF IoSuspend
  <2>13. CASE QuiesceCancel
    BY <2>13 DEF QuiesceCancel, CancelWork
  <2>14. CASE QuiesceOff
    BY <2>14 DEF QuiesceOff
  <2>15. CASE ClosePort
    BY <2>15 DEF ClosePort
  <2>16. CASE IoResume
    BY <2>16 DEF IoResume
  <2>17. CASE Reread
    BY <2>17 DEF Reread
  <2>18. CASE Restart
    BY <2>18 DEF Restart
  <2>19. CASE Edge
    BY <2>19 DEF Edge
  <2>20. CASE BtnIrq \/ BtnRead \/ BtnReport
    BY <2>20 DEF BtnIrq, BtnRead, BtnReport
  <2>21. CASE IoRemove
    BY <2>21 DEF IoRemove
  <2>22. CASE RemoveCancel
    BY <2>22 DEF RemoveCancel, CancelWork
  <2>23. CASE RemoveOff
    BY <2>23 DEF RemoveOff, StopOff
  <2>24. CASE DisableBtnIrq \/ CancelButton
    BY <2>24 DEF DisableBtnIrq, CancelButton
  <2>25. CASE Unregister
    BY <2>25 DEF Unregister, Flush, RumblePlay
  <2>26. CASE LastCancel
    BY <2>26 DEF LastCancel, CancelWork
  <2>27. CASE LastOff
    BY <2>27 DEF LastOff, StopOff
  <2>28. CASE UNCHANGED ioVars
    BY <2>28 DEF ioVars
  <2> QED
    BY <2>1, <2>2, <2>3, <2>4, <2>5, <2>6, <2>7, <2>8, <2>9, <2>10, <2>11, <2>12, <2>13, <2>14,
       <2>15, <2>16, <2>17, <2>18, <2>19, <2>20, <2>21, <2>22, <2>23, <2>24, <2>25, <2>26, <2>27,
       <2>28, Zenon DEF IoNext
<1> QED
  BY <1>1, <1>2, PTL DEF IoSpec

LEMMA ButtonInvThm == IoSpec => []ButtonInv
<1>1. IoInit => ButtonInv
  BY DEF IoInit, ButtonInv, Idle, Works
<1>2. ButtonInv /\ [IoNext]_ioVars => ButtonInv'
  <2> SUFFICES ASSUME ButtonInv, [IoNext]_ioVars PROVE ButtonInv'
    OBVIOUS
  <2> USE DEF ButtonInv, Idle, Works, Motor, Button
  <2>1. CASE ReportInitial
    BY <2>1 DEF ReportInitial
  <2>2. CASE ButtonsIrqs
    BY <2>2 DEF ButtonsIrqs
  <2>3. CASE OpenPort \/ Play \/ Stop \/ RumbleRead \/ RumbleApply \/ Open
    BY <2>3 DEF OpenPort, Play, Stop, RumbleRead, RumbleApply, Open
  <2>4. CASE Close \/ CloseCancel \/ CloseOff
    BY <2>4 DEF Close, CloseCancel, CloseOff
  <2>5. CASE IoSuspend
    BY <2>5 DEF IoSuspend
  <2>6. CASE QuiesceCancel \/ QuiesceOff \/ ClosePort \/ IoResume \/ Reread \/ Restart
    BY <2>6 DEF QuiesceCancel, QuiesceOff, ClosePort, IoResume, Reread, Restart
  <2>7. CASE Edge
    BY <2>7 DEF Edge
  <2>8. CASE BtnIrq
    BY <2>8 DEF BtnIrq, Armed
  <2>9. CASE BtnRead
    BY <2>9 DEF BtnRead
  <2>10. CASE BtnReport
    <3>1. /\ btn.run = "read" /\ shown' = btn.v /\ gpio' = gpio /\ btnIrq' = btnIrq
          /\ edge' = edge /\ life' = life
      BY <2>10 DEF BtnReport
    <3>2. btn' \in Works /\ btn'.queued = btn.queued /\ btn'.run = "no"
      BY <2>10 DEF BtnReport
    <3>3. btn # Idle
      BY <3>1
    <3> QED
      BY <3>1, <3>2, <3>3
  <2>11. CASE IoRemove \/ RemoveCancel \/ RemoveOff
    BY <2>11 DEF IoRemove, RemoveCancel, RemoveOff
  <2>12. CASE DisableBtnIrq
    BY <2>12 DEF DisableBtnIrq
  <2>13. CASE CancelButton
    BY <2>13 DEF CancelButton
  <2>14. CASE Unregister
    BY <2>14 DEF Unregister
  <2>15. CASE LastCancel \/ LastOff
    BY <2>15 DEF LastCancel, LastOff
  <2>16. CASE UNCHANGED ioVars
    BY <2>16 DEF ioVars
  <2> QED
    BY <2>1, <2>2, <2>3, <2>4, <2>5, <2>6, <2>7, <2>8, <2>9, <2>10, <2>11, <2>12, <2>13, <2>14,
       <2>15, <2>16, Zenon DEF IoNext
<1> QED
  BY <1>1, <1>2, PTL DEF IoSpec

\* However often the device is opened, closed, suspended and unbound while
\* effects play and the button moves, no motor is left on, nothing runs on freed
\* memory, and the last report of the button is true (mf_rumble_stop,
\* mf_btn_irq).
THEOREM MotorAndButtonsThm == IoSpec => []MotorAndButtons
<1>1. MotorInv /\ ButtonInv => MotorAndButtons
  <2> SUFFICES ASSUME MotorInv, ButtonInv PROVE MotorAndButtons
    OBVIOUS
  <2>1. MotorOff
    BY DEF MotorOff, MotorInv, ButtonInv, Silent, Closing, Gone
  <2>2. ButtonTruthful
    BY DEF ButtonTruthful, ButtonInv, Idle
  <2> QED
    BY <2>1, <2>2 DEF MotorAndButtons
<1> QED
  BY <1>1, MotorInvThm, ButtonInvThm, PTL

----------------------------------------------------------------------------
(* zlyme-input: sequences of pads and queues of signals.                   *)

Has(s, m) == \E i \in 1 .. Len(s) : s[i] = m

\* Among keeps the members that are in the set, the last one where it was.
Picked(r, s, k, S, D) ==
    /\ r \in Seq(D)
    /\ \A i \in 1 .. Len(r) : r[i] \in S /\ Has(s, r[i])
    /\ \A i \in 1 .. k : s[i] \in S => Has(r, s[i])
    /\ k # 0 /\ s[k] \in S => Len(r) # 0 /\ r[Len(r)] = s[k]

LEMMA Picks ==
    ASSUME NEW D, NEW s \in Seq(D), NEW S, NEW k \in 1 .. Len(s), NEW r, Picked(r, s, k - 1, S, D)
    PROVE  Picked(IF s[k] \in S THEN Append(r, s[k]) ELSE r, s, k, S, D)
<1>1. k \in Nat /\ k # 0 /\ s[k] \in D /\ \A i \in 1 .. k : i \in 1 .. k - 1 \/ i = k
  OBVIOUS
<1>2. /\ r \in Seq(D) /\ Len(r) \in Nat /\ \A i \in 1 .. Len(r) : r[i] \in S /\ Has(s, r[i])
      /\ \A i \in 1 .. k - 1 : s[i] \in S => Has(r, s[i])
  BY DEF Picked
<1>3. CASE s[k] \notin S
  BY <1>1, <1>2, <1>3 DEF Picked
<1>4. CASE s[k] \in S
  <2> DEFINE x == s[k]
             u == Append(r, x)
  <2>1. x \in D /\ x \in S /\ Has(s, x)
    BY <1>1, <1>4 DEF Has
  <2>2. \A i \in 1 .. k : i \in 1 .. k - 1 \/ s[i] = x
    BY <1>1
  <2>a. u = IF s[k] \in S THEN Append(r, s[k]) ELSE r
    BY <1>4
  <2>b. s[k] = x
    OBVIOUS
  <2> HIDE DEF x
  <2>3. /\ u \in Seq(D) /\ Len(u) = Len(r) + 1 /\ u[Len(u)] = x
        /\ \A i \in 1 .. Len(r) : u[i] = r[i]
    BY <1>2, <2>1
  <2> HIDE DEF u
  <2>4. \A i \in 1 .. Len(u) : i \in 1 .. Len(r) \/ u[i] = x
    BY <1>2, <2>3
  <2>5. \A i \in 1 .. Len(u) : u[i] \in S /\ Has(s, u[i])
    BY <1>2, <2>1, <2>3, <2>4
  <2>6. \A m : Has(r, m) => Has(u, m)
    <3> SUFFICES ASSUME NEW m, Has(r, m) PROVE Has(u, m)
      OBVIOUS
    <3>1. PICK i \in 1 .. Len(r) : r[i] = m
      BY DEF Has
    <3>2. i \in 1 .. Len(u) /\ u[i] = m
      BY <1>2, <2>3, <3>1
    <3> QED BY <3>2 DEF Has
  <2>7. Has(u, x) /\ Len(u) # 0
    <3>1. Len(u) \in 1 .. Len(u)
      BY <1>2, <2>3
    <3> QED BY <2>3, <3>1 DEF Has
  <2>8. \A i \in 1 .. k : s[i] \in S => Has(u, s[i])
    BY <1>2, <2>2, <2>6, <2>7
  <2>9. Picked(u, s, k, S, D)
    BY <2>3, <2>5, <2>7, <2>8, <2>b DEF Picked
  <2> QED BY <2>a, <2>9
<1> QED BY <1>3, <1>4

LEMMA AmongIs ==
    ASSUME NEW D, NEW s \in Seq(D), NEW S
    PROVE  Picked(Among(s, S), s, Len(s), S, D)
<1> DEFINE n == Len(s)
           Step(f, k) == IF k = 0 THEN << >> ELSE IF s[k] \in S THEN Append(f[k - 1], s[k]) ELSE f[k - 1]
           Built(f, m) == f = [k \in 0 .. m |-> Step(f, k)]
           Bad == {m \in 0 .. n : ~\E f : Built(f, m)}
<1>0. n \in Nat
  OBVIOUS
<1>1. Bad = {}
  <2> SUFFICES ASSUME Bad # {} PROVE FALSE
    OBVIOUS
  <2> DEFINE m == Min(Bad)
  <2>1. Bad \in SUBSET Nat
    <3>1. \A k \in Bad : k \in Nat
      BY <1>0
    <3> HIDE DEF Bad
    <3> QED BY <3>1
  <2>2. m \in Bad /\ \A k \in Bad : m <= k
    <3> HIDE DEF Bad
    <3> QED BY <2>1, LeastIs
  <2>3. m \in 0 .. n /\ ~\E f : Built(f, m)
    BY <2>2
  <2> HIDE DEF n
  <2>4. m # 0
    <3> DEFINE f0 == [k \in 0 .. 0 |-> << >>]
    <3>1. Built(f0, 0)
      OBVIOUS
    <3> HIDE DEF m, Built
    <3> QED BY <2>3, <3>1
  <2>5. PICK f : Built(f, m - 1)
    <3> HIDE DEF m, Bad
    <3>1. m - 1 \in 0 .. n /\ ~(m <= m - 1)
      BY <1>0, <2>3, <2>4
    <3>2. m - 1 \notin Bad
      BY <2>2, <3>1
    <3> USE DEF Bad
    <3> HIDE DEF Built
    <3> QED BY <3>1, <3>2
  <2> HIDE DEF m
  <2> DEFINE v == Step(f, m)
             g == [k \in 0 .. m |-> IF k = m THEN v ELSE f[k]]
  <2>6. m - 1 \in 0 .. m - 1 /\ m \in 1 .. n
    BY <1>0, <2>3, <2>4
  <2>7. \A k \in 0 .. m : g[k] = Step(g, k)
    <3> TAKE k \in 0 .. m
    <3>1. CASE k = m
      BY <3>1, <2>6
    <3>2. CASE k # m
      <4>1. k \in 0 .. m - 1 /\ (k # 0 => k - 1 \in 0 .. m /\ k - 1 # m)
        BY <1>0, <3>2, <2>3
      <4>2. f[k] = Step(f, k)
        BY <2>5, <4>1
      <4>3. g[k] = f[k] /\ (k # 0 => g[k - 1] = f[k - 1])
        BY <4>1, <3>2
      <4> QED BY <4>2, <4>3
    <3> QED BY <3>1, <3>2
  <2>8. Built(g, m)
    BY <2>7
  <2> QED BY <2>3, <2>8
<1>2. PICK f : Built(f, n)
  <2>1. n \in 0 .. n
    BY <1>0
  <2> HIDE DEF Built, n
  <2> QED BY <1>1, <2>1
<1> DEFINE h == CHOOSE h : Built(h, n)
<1>3. Among(s, S) = h[n]
  BY DEF Among
<1>4. h = [k \in 0 .. n |-> Step(h, k)]
  <2>1. Built(h, n)
    <3> HIDE DEF Built
    <3> QED BY <1>2
  <2> HIDE DEF h
  <2> QED BY <2>1
<1>5. \A k \in 0 .. n : Picked(h[k], s, k, S, D)
  <2> DEFINE Wrong == {k \in 0 .. n : ~Picked(h[k], s, k, S, D)}
  <2> SUFFICES ASSUME Wrong # {} PROVE FALSE
    OBVIOUS
  <2> DEFINE m == Min(Wrong)
  <2>1. Wrong \in SUBSET Nat
    <3>1. \A k \in Wrong : k \in Nat
      BY <1>0
    <3> HIDE DEF Wrong
    <3> QED BY <3>1
  <2>2. m \in Wrong /\ \A k \in Wrong : m <= k
    <3> HIDE DEF Wrong
    <3> QED BY <2>1, LeastIs
  <2>3. m \in 0 .. n /\ ~Picked(h[m], s, m, S, D)
    BY <2>2
  <2> HIDE DEF m, h
  <2>4. h[m] = Step(h, m)
    BY <1>4, <2>3
  <2>5. m # 0
    <3>1. Picked(<< >>, s, 0, S, D)
      BY DEF Picked
    <3>2. m = 0 => Step(h, m) = << >>
      OBVIOUS
    <3> HIDE DEF Step, n
    <3> QED BY <2>3, <2>4, <3>1, <3>2
  <2>6. m - 1 \in 0 .. n /\ ~(m <= m - 1) /\ m \in 1 .. n
    BY <1>0, <2>3, <2>5
  <2>7. Picked(h[m - 1], s, m - 1, S, D)
    BY <2>2, <2>6
  <2>8. Picked(IF s[m] \in S THEN Append(h[m - 1], s[m]) ELSE h[m - 1], s, m, S, D)
    BY <2>6, <2>7, Picks
  <2> QED BY <2>3, <2>4, <2>5, <2>8
<1> HIDE DEF h
<1>6. n \in 0 .. n
  <2> HIDE DEF n
  <2> QED BY <1>0
<1> QED BY <1>3, <1>5, <1>6

\* A set of pads as a list: its members.
LEMMA ListIs ==
    ASSUME NEW K, IsFiniteSet(K) PROVE SetToSeq(K) \in Seq(K)
<1> DEFINE n == Cardinality(K)
<1>1. n \in Nat /\ ExistsBijection(1 .. n, K)
  BY FS_CardinalityType
<1>2. PICK f \in Bijection(1 .. n, K) : TRUE
  BY <1>1, Zenon DEF ExistsBijection
<1>3. f \in [1 .. n -> K] /\ IsInjective(f)
  BY <1>2, Zenon DEF Bijection, Injection
<1>4. SetToSeq(K) \in [1 .. n -> K]
  BY <1>3, Zenon DEF SetToSeq
<1> HIDE DEF n
<1>5. [1 .. n -> K] \subseteq Seq(K)
  BY <1>1
<1> QED BY <1>4, <1>5

LEMMA HasCat ==
    ASSUME NEW D, NEW a \in Seq(D), NEW b \in Seq(D)
    PROVE  /\ a \o b \in Seq(D)
           /\ \A m : Has(a \o b, m) <=> Has(a, m) \/ Has(b, m)
           /\ Len(b) # 0 => Len(a \o b) # 0 /\ (a \o b)[Len(a \o b)] = b[Len(b)]
           /\ Len(b) = 0 => a \o b = a
<1> DEFINE c == a \o b
<1>1. /\ c \in Seq(D) /\ Len(a) \in Nat /\ Len(b) \in Nat /\ Len(c) = Len(a) + Len(b)
      /\ \A i \in 1 .. Len(a) : c[i] = a[i]
      /\ \A i \in Len(a) + 1 .. Len(c) : c[i] = b[i - Len(a)]
  BY ConcatProperties
<1>2. Len(b) = 0 => c = a
  BY EmptySeq, ConcatEmptySeq
<1> HIDE DEF c
<1>3. ASSUME NEW m PROVE Has(c, m) <=> Has(a, m) \/ Has(b, m)
  <2>1. ASSUME Has(c, m) PROVE Has(a, m) \/ Has(b, m)
    <3>1. PICK i \in 1 .. Len(c) : c[i] = m
      BY <2>1 DEF Has
    <3>2. CASE i <= Len(a)
      <4>1. i \in 1 .. Len(a) /\ a[i] = m
        BY <1>1, <3>1, <3>2
      <4> QED BY <4>1 DEF Has
    <3>3. CASE ~(i <= Len(a))
      <4>1. i - Len(a) \in 1 .. Len(b) /\ i \in Len(a) + 1 .. Len(c)
        BY <1>1, <3>3
      <4>2. b[i - Len(a)] = m
        BY <1>1, <3>1, <4>1
      <4> QED BY <4>1, <4>2 DEF Has
    <3> QED BY <3>2, <3>3
  <2>2. ASSUME Has(a, m) PROVE Has(c, m)
    <3>1. PICK i \in 1 .. Len(a) : a[i] = m
      BY <2>2 DEF Has
    <3>2. i \in 1 .. Len(c) /\ c[i] = m
      BY <1>1, <3>1
    <3> QED BY <3>2 DEF Has
  <2>3. ASSUME Has(b, m) PROVE Has(c, m)
    <3>1. PICK i \in 1 .. Len(b) : b[i] = m
      BY <2>3 DEF Has
    <3>2. i + Len(a) \in Len(a) + 1 .. Len(c) /\ i + Len(a) \in 1 .. Len(c) /\ (i + Len(a)) - Len(a) = i
      BY <1>1
    <3>3. c[i + Len(a)] = m
      BY <1>1, <3>1, <3>2
    <3> QED BY <3>2, <3>3 DEF Has
  <2> QED BY <2>1, <2>2, <2>3
<1>4. Len(b) # 0 => Len(c) # 0 /\ c[Len(c)] = b[Len(b)]
  <2> SUFFICES ASSUME Len(b) # 0 PROVE Len(c) # 0 /\ c[Len(c)] = b[Len(b)]
    OBVIOUS
  <2>1. Len(c) \in Len(a) + 1 .. Len(c) /\ Len(c) - Len(a) = Len(b) /\ Len(c) # 0
    BY <1>1
  <2>2. c[Len(c)] = b[Len(c) - Len(a)]
    BY <1>1, <2>1
  <2> QED BY <2>1, <2>2
<1> QED BY <1>1, <1>2, <1>3, <1>4 DEF c

LEMMA HasRange ==
    ASSUME NEW D, NEW s \in Seq(D), NEW m PROVE m \in Range(s) <=> Has(s, m)
<1>1. DOMAIN s = 1 .. Len(s)
  OBVIOUS
<1> QED BY <1>1, Zenon DEF Range, Has

LEMMA InRange ==
    ASSUME NEW D, NEW s \in Seq(D), NEW m PROVE Has(s, m) => m \in D
BY DEF Has

\* Signals that are read or added stay what they are.
LEMMA HasNoted ==
    ASSUME NEW D, NEW q \in Seq(D), NEW m \in D
    PROVE  /\ Noted(q, m) \in Seq(D)
           /\ \A k : Has(Noted(q, m), k) <=> Has(q, k) \/ k = m
<1>1. CASE q # << >> /\ Last(q) = m
  <2>1. Has(q, m)
    <3>1. Len(q) \in 1 .. Len(q) /\ q[Len(q)] = m
      BY <1>1 DEF Last
    <3> QED BY <3>1 DEF Has
  <2> QED BY <1>1, <2>1 DEF Noted
<1>2. CASE ~(q # << >> /\ Last(q) = m)
  <2>1. Noted(q, m) = q \o <<m>>
    <3>1. Noted(q, m) = Append(q, m)
      BY <1>2 DEF Noted
    <3> QED BY <3>1
  <2>2. <<m>> \in Seq(D) /\ \A k : Has(<<m>>, k) <=> k = m
    BY DEF Has
  <2> DEFINE one == <<m>>
  <2> HIDE DEF one
  <2>3. one \in Seq(D) /\ (\A k : Has(one, k) <=> k = m) /\ Noted(q, m) = q \o one
    BY <2>1, <2>2 DEF one
  <2>4. q \o one \in Seq(D) /\ \A k : Has(q \o one, k) <=> Has(q, k) \/ Has(one, k)
    BY <2>3, HasCat
  <2> QED BY <2>3, <2>4, Zenon
<1> QED BY <1>1, <1>2

LEMMA HasTail ==
    ASSUME NEW D, NEW q \in Seq(D), Len(q) # 0
    PROVE  /\ Tail(q) \in Seq(D) /\ Head(q) \in D
           /\ \A k : Has(q, k) <=> Has(Tail(q), k) \/ k = Head(q)
<1>1. q # << >> /\ Head(q) \in D /\ Tail(q) \in Seq(D) /\ q = <<Head(q)>> \o Tail(q)
  BY HeadTailProperties, EmptySeq
<1>2. <<Head(q)>> \in Seq(D) /\ \A k : Has(<<Head(q)>>, k) <=> k = Head(q)
  BY <1>1 DEF Has
<1> DEFINE one == <<Head(q)>>
           rest == Tail(q)
<1> HIDE DEF one, rest
<1>3. /\ one \in Seq(D) /\ (\A k : Has(one, k) <=> k = Head(q)) /\ q = one \o rest
      /\ rest \in Seq(D)
  BY <1>1, <1>2 DEF one, rest
<1>4. \A k : Has(one \o rest, k) <=> Has(one, k) \/ Has(rest, k)
  BY <1>3, HasCat
<1>5. \A k : Has(q, k) <=> Has(rest, k) \/ k = Head(q)
  BY <1>3, <1>4, Zenon
<1> QED BY <1>1, <1>5, Zenon DEF rest

LEMMA HasJoined ==
    ASSUME NEW D, NEW q \in Seq(D), NEW r \in Seq(D)
    PROVE  /\ Joined(q, r) \in Seq(D)
           /\ \A k : Has(Joined(q, r), k) <=> Has(q, k) \/ Has(r, k)
<1>1. CASE q # << >> /\ r # << >> /\ Last(q) = Head(r)
  <2>1. Joined(q, r) = q \o Tail(r)
    BY <1>1 DEF Joined
  <2>2. Len(r) # 0 /\ Len(q) # 0
    BY <1>1
  <2>3. Has(q, Head(r))
    <3>1. Len(q) \in 1 .. Len(q) /\ q[Len(q)] = Head(r)
      BY <1>1, <2>2 DEF Last
    <3> QED BY <3>1 DEF Has
  <2> DEFINE rest == Tail(r)
  <2>4. rest \in Seq(D) /\ \A k : Has(r, k) <=> Has(rest, k) \/ k = Head(r)
    BY <2>2, HasTail
  <2> HIDE DEF rest
  <2>5. q \o rest \in Seq(D) /\ \A k : Has(q \o rest, k) <=> Has(q, k) \/ Has(rest, k)
    BY <2>4, HasCat
  <2>6. Joined(q, r) = q \o rest
    BY <2>1 DEF rest
  <2> QED BY <2>3, <2>4, <2>5, <2>6, Zenon
<1>2. CASE ~(q # << >> /\ r # << >> /\ Last(q) = Head(r))
  <2>1. Joined(q, r) = q \o r
    BY <1>2 DEF Joined
  <2> QED BY <2>1, HasCat
<1> QED BY <1>1, <1>2

\* The order, followed by the listed devices that are not in it.
LEMMA NamedIs ==
    ASSUME NEW D, NEW devs \in SUBSET D, IsFiniteSet(devs), NEW order \in Seq(D)
    PROVE  LET all == Named(devs, order)
           IN  /\ all \in Seq(D) /\ \A m : Has(order, m) => Has(all, m)
               /\ Len(order) # 0 => Len(all) # 0
               /\ \A m \in D : Has(order, m) /\ order[Len(order)] # m => all[Len(all)] # m
<1> DEFINE K == devs \ Range(order)
           rest == SetToSeq(K)
           all == Named(devs, order)
<1>1. rest \in Seq(K) /\ K \in SUBSET D /\ all = order \o rest
  <2>1. IsFiniteSet(K)
    BY FS_Subset
  <2> QED BY <2>1, ListIs DEF Named
<1>2. \A m : Has(order, m) => m \notin K
  BY HasRange
<1>3. \A m : Has(rest, m) => m \in K
  <2> HIDE DEF K, rest
  <2> QED BY <1>1, InRange
<1>4. rest \in Seq(D)
  <2>1. \A S, T : S \subseteq T => Seq(S) \subseteq Seq(T)
    BY SeqMonotonic
  <2> HIDE DEF K, rest
  <2>2. Seq(K) \subseteq Seq(D)
    BY <1>1, <2>1, Zenon
  <2> QED BY <1>1, <2>2
<1> HIDE DEF K, rest, all
<1>5. /\ all \in Seq(D) /\ \A m : Has(all, m) <=> Has(order, m) \/ Has(rest, m)
      /\ Len(rest) # 0 => Len(all) # 0 /\ all[Len(all)] = rest[Len(rest)]
      /\ Len(rest) = 0 => all = order
  BY <1>1, <1>4, HasCat
<1>6. Len(order) # 0 => Len(all) # 0
  BY <1>5
<1>7. ASSUME NEW m \in D, Has(order, m), order[Len(order)] # m PROVE all[Len(all)] # m
  <2>1. CASE Len(rest) = 0
    BY <1>5, <1>7, <2>1
  <2>2. CASE Len(rest) # 0
    <3>1. Has(rest, rest[Len(rest)])
      <4>1. Len(rest) \in 1 .. Len(rest)
        BY <1>4, <2>2
      <4> QED BY <4>1 DEF Has
    <3>2. rest[Len(rest)] # m
      BY <1>2, <1>3, <1>7, <3>1
    <3> QED BY <1>5, <2>2, <3>2
  <2> QED BY <2>1, <2>2
<1> QED BY <1>5, <1>6, <1>7 DEF all

LEMMA AmongMembers ==
    ASSUME NEW D, NEW s \in Seq(D), NEW S
    PROVE  /\ Among(s, S) \in Seq(D)
           /\ \A m : Has(Among(s, S), m) <=> Has(s, m) /\ m \in S
           /\ Len(s) # 0 /\ s[Len(s)] \in S
              => Len(Among(s, S)) # 0 /\ Among(s, S)[Len(Among(s, S))] = s[Len(s)]
<1> DEFINE r == Among(s, S)
<1>1. Picked(r, s, Len(s), S, D)
  BY AmongIs
<1> HIDE DEF r
<1>2. /\ r \in Seq(D)
      /\ \A i \in 1 .. Len(r) : r[i] \in S /\ Has(s, r[i])
      /\ \A i \in 1 .. Len(s) : s[i] \in S => Has(r, s[i])
      /\ Len(s) # 0 /\ s[Len(s)] \in S => Len(r) # 0 /\ r[Len(r)] = s[Len(s)]
  BY <1>1 DEF Picked
<1>3. \A m : Has(r, m) => Has(s, m) /\ m \in S
  BY <1>2 DEF Has
<1>4. \A m : Has(s, m) /\ m \in S => Has(r, m)
  <2> SUFFICES ASSUME NEW m, Has(s, m), m \in S PROVE Has(r, m)
    OBVIOUS
  <2>1. PICK i \in 1 .. Len(s) : s[i] = m
    BY DEF Has
  <2> QED BY <1>2, <2>1
<1> QED BY <1>2, <1>3, <1>4 DEF r

\* zlyme_order_builtin_last: nobody is lost, and the built-in pad that is in the
\* list comes last.
LEMMA WantedIs ==
    ASSUME NEW D, NEW devs \in SUBSET D, IsFiniteSet(devs), NEW order \in Seq(D), Builtin \in D
    PROVE  LET w == Wanted(devs, order)
           IN  /\ w \in Seq(D) /\ \A m : Has(order, m) => Has(w, m)
               /\ Builtin \in devs /\ Has(order, Builtin)
                  => /\ Len(w) # 0 /\ w[Len(w)] = Builtin
                     /\ order[Len(order)] # Builtin => Unsorted(devs, order)
<1> DEFINE all == Named(devs, order)
           others == Minus(all, Builtin)
           last == Among(all, {Builtin})
           w == Wanted(devs, order)
<1>1. /\ all \in Seq(D) /\ \A m : Has(order, m) => Has(all, m)
      /\ \A m \in D : Has(order, m) /\ order[Len(order)] # m => all[Len(all)] # m
  BY NamedIs
<1>2. w = IF Builtin \in devs THEN others \o last ELSE all
  BY DEF Wanted
<1>3. Unsorted(devs, order) <=> w # all
  BY DEF Unsorted
<1>4. others = Among(all, Range(all) \ {Builtin})
  BY DEF Minus
<1> HIDE DEF all, others, last, w
<1>5. \A m : m \in Range(all) <=> Has(all, m)
  BY <1>1, HasRange
<1>6. /\ others \in Seq(D) /\ last \in Seq(D)
      /\ \A m : Has(others, m) <=> Has(all, m) /\ m \in Range(all) \ {Builtin}
      /\ \A m : Has(last, m) <=> Has(all, m) /\ m \in {Builtin}
  BY <1>1, <1>4, AmongMembers DEF last
<1>7. /\ others \o last \in Seq(D)
      /\ \A m : Has(others \o last, m) <=> Has(others, m) \/ Has(last, m)
      /\ Len(last) # 0 => Len(others \o last) # 0
                          /\ (others \o last)[Len(others \o last)] = last[Len(last)]
  BY <1>6, HasCat
<1>8. w \in Seq(D) /\ \A m : Has(order, m) => Has(w, m)
  BY <1>1, <1>2, <1>5, <1>6, <1>7
<1>9. ASSUME Builtin \in devs, Has(order, Builtin)
      PROVE  Len(w) # 0 /\ w[Len(w)] = Builtin
  <2>1. Has(last, Builtin)
    BY <1>1, <1>6, <1>9
  <2>2. Len(last) # 0 /\ Len(last) \in 1 .. Len(last)
    BY <1>6, <2>1 DEF Has
  <2>3. last[Len(last)] = Builtin
    <3>1. Has(last, last[Len(last)])
      BY <2>2 DEF Has
    <3> QED BY <1>6, <3>1
  <2> QED BY <1>2, <1>7, <1>9, <2>2, <2>3
<1>10. ASSUME Builtin \in devs, Has(order, Builtin), order[Len(order)] # Builtin
       PROVE  Unsorted(devs, order)
  BY <1>1, <1>3, <1>9, <1>10
<1> QED BY <1>8, <1>9, <1>10 DEF w

\* A written order keeps to the pads InputPlumber has; when it names all of them
\* and the built-in pad last, that is the new order.
LEMMA OrderedIs ==
    ASSUME NEW D, ip.order \in Seq(D), NEW want \in Seq(D)
    PROVE  LET new == Ordered(want)
           IN  /\ new \in Seq(D) /\ \A m : Has(new, m) => m \in ip.targets
               /\ /\ \A m : Has(ip.order, m) => Has(want, m)
                  /\ Len(want) # 0 /\ want[Len(want)] = Builtin /\ Builtin \in ip.targets
                  => Len(new) # 0 /\ new[Len(new)] = Builtin
<1> DEFINE known == Among(want, ip.targets)
           rest == Among(ip.order, ip.targets \ Range(want))
           new == Ordered(want)
<1>1. new = known \o rest
  BY DEF Ordered
<1>2. /\ known \in Seq(D) /\ rest \in Seq(D)
      /\ \A m : Has(known, m) <=> Has(want, m) /\ m \in ip.targets
      /\ \A m : Has(rest, m) <=> Has(ip.order, m) /\ m \in ip.targets \ Range(want)
      /\ Len(want) # 0 /\ want[Len(want)] \in ip.targets
         => Len(known) # 0 /\ known[Len(known)] = want[Len(want)]
  BY AmongMembers
<1>3. \A m : m \in Range(want) <=> Has(want, m)
  BY HasRange
<1> HIDE DEF known, rest, new
<1>4. /\ known \o rest \in Seq(D)
      /\ \A m : Has(known \o rest, m) <=> Has(known, m) \/ Has(rest, m)
      /\ Len(rest) = 0 => known \o rest = known
  BY <1>2, HasCat
<1>5. new \in Seq(D) /\ \A m : Has(new, m) => m \in ip.targets
  BY <1>1, <1>2, <1>4
<1>6. ASSUME \A m : Has(ip.order, m) => Has(want, m), Len(want) # 0,
             want[Len(want)] = Builtin, Builtin \in ip.targets
      PROVE  Len(new) # 0 /\ new[Len(new)] = Builtin
  <2>1. \A m : ~Has(rest, m)
    BY <1>2, <1>3, <1>6
  <2>2. Len(rest) = 0
    <3> SUFFICES ASSUME Len(rest) # 0 PROVE FALSE
      OBVIOUS
    <3>1. Len(rest) \in 1 .. Len(rest)
      BY <1>2
    <3>2. Has(rest, rest[Len(rest)])
      BY <3>1 DEF Has
    <3> QED BY <2>1, <3>2
  <2> QED BY <1>1, <1>2, <1>4, <1>6, <2>2
<1> QED BY <1>5, <1>6 DEF new

----------------------------------------------------------------------------
(* zlyme-input: the inductive invariant.                                   *)

PadNames == Externals \cup {Builtin}
Signals == {"owner", "gone", "change", "other"}
Waking == Signals \ {"other"}
IpSet == [up : BOOLEAN, ready : BOOLEAN, manage : BOOLEAN, comps : SUBSET PadNames,
          targets : SUBSET PadNames, order : Seq(PadNames), stopped : BOOLEAN]
DaemonSet == [at : {"owned", "ready", "manage", "list", "order", "set", "wait", "pop", "check"},
              active : BOOLEAN, msg : Signals \cup {"none"}, devs : SUBSET PadNames,
              order : Seq(PadNames), then : {"wait", "pop"}]
ClientSet == [cmd : Commands \cup {"none"},
              at : {"idle", "name", "first", "act", "wait", "list", "order", "set",
                    "ready", "ready2", "ready3"},
              rc : {0, 1}, devs : SUBSET PadNames, order : Seq(PadNames)]

PadTyped ==
    /\ ip \in IpSet /\ plugged \subseteq Externals
    /\ wire \in Seq(Signals) /\ inq \in Seq(Signals)
    /\ d \in DaemonSet /\ client \in ClientSet
    /\ timeouts \in Nat

\* A signal the daemon has not taken up yet, and one that makes it look at the
\* order whether it is active or not.
Pending(m) == Has(inq, m) \/ Has(wire, m)
Awaiting == \E m \in Signals : Pending(m)
Woken == \E m \in Waking : Pending(m)
Bad == Has(ip.order, Builtin) /\ ip.order[Len(ip.order)] # Builtin

\* InputPlumber is ready only while it is up, manages only then, and orders
\* what it has.
IpSound ==
    /\ ip.ready => ip.up
    /\ ip.manage => ip.up
    /\ ip.targets \subseteq ip.comps
    /\ \A p \in PadNames : Has(ip.order, p) => p \in ip.targets

\* An active daemon that is not the one of this InputPlumber has still to hear
\* that the last one is gone.
ActiveHears == d.active /\ ~ip.manage => Pending("gone")

\* Whoever became ready unmanaged is still being activated or left a signal.
ManageDue ==
    timeouts = 0 /\ ip.ready /\ ~ip.manage
    => d.at \in {"check", "owned", "ready", "manage"} \/ Awaiting

\* What the daemon listed and the order it got are the present ones, or a signal
\* says that they are not.
ListCurrent ==
    /\ d.at \in {"order", "set"} => d.devs = ip.comps \/ Woken
    /\ d.at = "set" => d.order = ip.order \/ Woken

\* While the built-in pad is not last, the order is on its way to be written or
\* a signal is that leads there.
OrderDue ==
    timeouts = 0 /\ ip.ready /\ Bad
    => \/ Woken
       \/ d.at \in {"owned", "ready", "manage", "list", "order", "set"}
       \/ d.at = "check" /\ (d.msg # "other" \/ ~d.active)

PolicyInv == PadTyped /\ IpSound /\ ActiveHears /\ ManageDue /\ ListCurrent /\ OrderDue

Stays == \A m \in Signals : Pending(m) => Pending(m)'

LEMMA ReadKeeps ==
    ASSUME PadTyped, ReadReply \/ (inq' = Joined(inq, wire) /\ wire' = << >>)
    PROVE  wire' \in Seq(Signals) /\ inq' \in Seq(Signals) /\ Stays
<1>1. CASE inq' = Joined(inq, wire) /\ wire' = << >>
  <2>1. /\ Joined(inq, wire) \in Seq(Signals)
        /\ \A k : Has(Joined(inq, wire), k) <=> Has(inq, k) \/ Has(wire, k)
    BY HasJoined DEF PadTyped
  <2>2. << >> \in Seq(Signals)
    OBVIOUS
  <2>3. inq' \in Seq(Signals) /\ wire' \in Seq(Signals) /\ \A k : Has(inq, k) \/ Has(wire, k) => Has(inq', k)
    BY <1>1, <2>1, <2>2, Zenon
  <2> QED BY <2>3, Zenon DEF Stays, Pending
<1>2. CASE UNCHANGED <<inq, wire>>
  BY <1>2 DEF Stays, Pending, PadTyped
<1> QED BY <1>1, <1>2 DEF ReadReply

LEMMA SignalKeeps ==
    ASSUME PadTyped, NEW m \in Signals, wire' = Noted(wire, m), inq' = inq
    PROVE  wire' \in Seq(Signals) /\ inq' \in Seq(Signals) /\ Stays /\ Pending(m)'
<1>1. /\ Noted(wire, m) \in Seq(Signals)
      /\ \A k : Has(Noted(wire, m), k) <=> Has(wire, k) \/ k = m
  BY HasNoted DEF PadTyped
<1>2. wire' \in Seq(Signals) /\ \A k : Has(wire', k) <=> Has(wire, k) \/ k = m
  BY <1>1, Zenon
<1>3. inq' \in Seq(Signals)
  BY DEF PadTyped
<1>4. Stays /\ Pending(m)'
  BY <1>2, Zenon DEF Stays, Pending
<1> QED BY <1>2, <1>3, <1>4

\* A step that is not the daemon's keeps the rest of the invariant if it leaves
\* the signals that were pending and adds one to whatever changes the pads.
Unsaid == UNCHANGED <<ip.ready, ip.manage, ip.comps, ip.order>>
Said == Woken' /\ (ip.manage' => ip.manage) /\ (ip.manage /\ ~ip.manage' => Pending("gone")')

LEMMA OthersKeep ==
    ASSUME PolicyInv, PadTyped', IpSound', UNCHANGED d, Stays, timeouts' = 0 => timeouts = 0,
           Unsaid \/ Said
    PROVE  PolicyInv'
<1>1. \A m \in Signals : Pending(m) => Pending(m)'
  BY DEF Stays
<1>2. Woken => Woken'
  BY <1>1 DEF Woken, Waking
<1>3. (Woken' => Awaiting') /\ (Awaiting => Awaiting')
  BY <1>1 DEF Woken, Waking, Awaiting
<1>4. ActiveHears'
  <2>1. "gone" \in Signals
    BY DEF Signals
  <2> QED BY <1>1, <2>1 DEF PolicyInv, ActiveHears, Unsaid, Said
<1>5. ManageDue'
  <2>1. CASE Said
    BY <1>3, <2>1 DEF ManageDue, Said
  <2>2. CASE Unsaid
    BY <1>3, <2>2 DEF PolicyInv, ManageDue, Unsaid
  <2> QED BY <2>1, <2>2
<1>6. ListCurrent'
  BY <1>2 DEF PolicyInv, ListCurrent, Unsaid, Said
<1>7. OrderDue'
  <2>1. Unsaid => (Bad' <=> Bad)
    BY DEF Bad, Unsaid
  <2>2. CASE Said
    BY <2>2 DEF OrderDue, Said
  <2>3. CASE Unsaid
    BY <1>2, <2>1, <2>3 DEF PolicyInv, OrderDue, Unsaid
  <2> QED BY <2>2, <2>3
<1> QED BY <1>4, <1>5, <1>6, <1>7 DEF PolicyInv

LEMMA IpStartKeeps == ASSUME PolicyInv, IpStart PROVE PolicyInv'
<1>1. ~ip.up /\ ip' = [IpDown EXCEPT !.up = TRUE] /\ wire' = Noted(wire, "owner")
      /\ UNCHANGED <<plugged, inq, d, client, timeouts>>
  BY DEF IpStart, Signal, IpOnly
<1>2. wire' \in Seq(Signals) /\ inq' \in Seq(Signals) /\ Stays /\ Pending("owner")'
  <2>1. "owner" \in Signals /\ PadTyped
    BY DEF Signals, PolicyInv
  <2> QED BY <1>1, <2>1, SignalKeeps
<1>3. PadTyped'
  <2>1. ip' \in IpSet
    <3>1. ip' = [up |-> TRUE, ready |-> FALSE, manage |-> FALSE, comps |-> {}, targets |-> {},
                 order |-> << >>, stopped |-> FALSE]
      BY <1>1 DEF IpDown
    <3>2. << >> \in Seq(PadNames)
      OBVIOUS
    <3> QED BY <3>1, <3>2 DEF IpSet
  <2> QED BY <1>1, <1>2, <2>1 DEF PolicyInv, PadTyped
<1>4. IpSound'
  BY <1>1 DEF IpSound, IpDown, Has
<1>5. Said
  <2>1. ~ip.manage /\ ~ip.manage'
    BY <1>1 DEF PolicyInv, IpSound, IpDown
  <2> QED BY <1>2, <2>1 DEF Said, Woken, Waking, Signals
<1> QED BY <1>1, <1>2, <1>3, <1>4, <1>5, OthersKeep

LEMMA IpReadyKeeps == ASSUME PolicyInv, IpReady PROVE PolicyInv'
<1>1. ip.up /\ ip' = [ip EXCEPT !.ready = TRUE] /\ wire' = Noted(wire, "change")
      /\ UNCHANGED <<plugged, inq, d, client, timeouts>>
  BY DEF IpReady, Signal, IpOnly
<1>2. wire' \in Seq(Signals) /\ inq' \in Seq(Signals) /\ Stays /\ Pending("change")'
  <2>1. "change" \in Signals /\ PadTyped
    BY DEF Signals, PolicyInv
  <2> QED BY <1>1, <2>1, SignalKeeps
<1>3. PadTyped'
  BY <1>1, <1>2 DEF PolicyInv, PadTyped, IpSet
<1>4. IpSound'
  BY <1>1 DEF PolicyInv, PadTyped, IpSet, IpSound
<1>5. Said
  BY <1>1, <1>2 DEF Said, Woken, Waking, Signals, PolicyInv, PadTyped, IpSet
<1> QED BY <1>1, <1>2, <1>3, <1>4, <1>5, OthersKeep

LEMMA IpStopKeeps == ASSUME PolicyInv, IpStop PROVE PolicyInv'
<1>1. ip' = IpDown /\ wire' = Noted(wire, "gone") /\ UNCHANGED <<plugged, inq, d, client, timeouts>>
  BY DEF IpStop, Signal, IpOnly
<1>2. wire' \in Seq(Signals) /\ inq' \in Seq(Signals) /\ Stays /\ Pending("gone")'
  <2>1. "gone" \in Signals /\ PadTyped
    BY DEF Signals, PolicyInv
  <2> QED BY <1>1, <2>1, SignalKeeps
<1>3. PadTyped'
  <2>1. ip' \in IpSet
    <3>1. << >> \in Seq(PadNames)
      OBVIOUS
    <3> QED BY <1>1, <3>1 DEF IpSet, IpDown
  <2> QED BY <1>1, <1>2, <2>1 DEF PolicyInv, PadTyped
<1>4. IpSound'
  BY <1>1 DEF IpSound, IpDown, Has
<1>5. Said
  BY <1>1, <1>2 DEF Said, Woken, Waking, Signals, IpDown
<1> QED BY <1>1, <1>2, <1>3, <1>4, <1>5, OthersKeep

\* What has a pad's composite is a pad.
LEMMA ManagedAre == ASSUME PadTyped PROVE Managed \subseteq PadNames
BY DEF PadTyped, PadNames, Managed

LEMMA MinusIs ==
    ASSUME NEW D, NEW s \in Seq(D), NEW p
    PROVE  Minus(s, p) \in Seq(D) /\ \A m : Has(Minus(s, p), m) <=> Has(s, m) /\ m # p
<1> DEFINE S == Range(s) \ {p}
<1>1. Minus(s, p) = Among(s, S)
  BY DEF Minus
<1>2. \A m : m \in Range(s) <=> Has(s, m)
  BY HasRange
<1>3. \A m : m \in S <=> Has(s, m) /\ m # p
  BY <1>2
<1> HIDE DEF S
<1>4. Among(s, S) \in Seq(D) /\ \A m : Has(Among(s, S), m) <=> Has(s, m) /\ m \in S
  BY AmongMembers
<1> QED BY <1>1, <1>3, <1>4, Zenon

LEMMA IpCompositeKeeps == ASSUME PolicyInv, IpComposite PROVE PolicyInv'
<1>1. PICK p \in Managed \ ip.comps : ip' = [ip EXCEPT !.comps = @ \cup {p}]
  BY DEF IpComposite
<1>2. wire' = Noted(wire, "change") /\ UNCHANGED <<plugged, inq, d, client, timeouts>>
  BY DEF IpComposite, Signal, IpOnly
<1>3. wire' \in Seq(Signals) /\ inq' \in Seq(Signals) /\ Stays /\ Pending("change")'
  <2>1. "change" \in Signals /\ PadTyped
    BY DEF Signals, PolicyInv
  <2> QED BY <1>2, <2>1, SignalKeeps
<1>4. p \in PadNames
  BY <1>1, ManagedAre DEF PolicyInv
<1>5. /\ ip' \in IpSet /\ ip'.order = ip.order /\ ip'.targets = ip.targets
      /\ ip'.comps = ip.comps \cup {p} /\ ip'.manage = ip.manage
      /\ ip'.ready = ip.ready /\ ip'.up = ip.up
  BY <1>1, <1>4 DEF PolicyInv, PadTyped, IpSet
<1>6. PadTyped'
  BY <1>2, <1>3, <1>5 DEF PolicyInv, PadTyped
<1>7. IpSound'
  BY <1>5 DEF PolicyInv, IpSound
<1>8. Said
  BY <1>3, <1>5 DEF Said, Woken, Waking, Signals
<1> QED BY <1>2, <1>3, <1>6, <1>7, <1>8, OthersKeep

LEMMA IpTargetKeeps == ASSUME PolicyInv, IpTarget PROVE PolicyInv'
<1>1. PICK p \in (ip.comps \cap Managed) \ ip.targets :
         ip' = [ip EXCEPT !.targets = @ \cup {p}, !.order = Append(Minus(@, p), p)]
  BY DEF IpTarget
<1>2. wire' = Noted(wire, "change") /\ UNCHANGED <<plugged, inq, d, client, timeouts>>
  BY DEF IpTarget, Signal, IpOnly
<1>3. wire' \in Seq(Signals) /\ inq' \in Seq(Signals) /\ Stays /\ Pending("change")'
  <2>1. "change" \in Signals /\ PadTyped
    BY DEF Signals, PolicyInv
  <2> QED BY <1>2, <2>1, SignalKeeps
<1> DEFINE old == Minus(ip.order, p)
           new == Append(old, p)
<1>4. p \in PadNames /\ p \in ip.comps
  BY <1>1, ManagedAre DEF PolicyInv
<1>5. old \in Seq(PadNames) /\ \A m : Has(old, m) <=> Has(ip.order, m) /\ m # p
  <2>1. ip.order \in Seq(PadNames)
    BY DEF PolicyInv, PadTyped, IpSet
  <2> QED BY <2>1, MinusIs
<1> HIDE DEF old
<1>6. new \in Seq(PadNames) /\ \A m : Has(new, m) => Has(old, m) \/ m = p
  <2>1. /\ new \in Seq(PadNames) /\ Len(new) = Len(old) + 1 /\ new[Len(new)] = p
        /\ Len(old) \in Nat /\ \A i \in 1 .. Len(old) : new[i] = old[i]
    BY <1>4, <1>5
  <2> HIDE DEF new
  <2>2. \A i \in 1 .. Len(new) : i \in 1 .. Len(old) \/ new[i] = p
    BY <2>1
  <2> QED BY <2>1, <2>2 DEF Has
<1> HIDE DEF new
<1>7. ip' = [ip EXCEPT !.targets = @ \cup {p}, !.order = new]
  BY <1>1 DEF new, old
<1>8. /\ ip' \in IpSet /\ ip'.order = new /\ ip'.targets = ip.targets \cup {p}
      /\ ip'.comps = ip.comps /\ ip'.manage = ip.manage
      /\ ip'.ready = ip.ready /\ ip'.up = ip.up
  BY <1>4, <1>6, <1>7 DEF PolicyInv, PadTyped, IpSet
<1>9. PadTyped'
  BY <1>2, <1>3, <1>8 DEF PolicyInv, PadTyped
<1>10. IpSound'
  <2>1. \A m \in PadNames : Has(ip'.order, m) => m \in ip'.targets
    BY <1>5, <1>6, <1>8 DEF PolicyInv, IpSound
  <2> QED BY <1>4, <1>8, <2>1 DEF PolicyInv, IpSound
<1>11. Said
  BY <1>3, <1>8 DEF Said, Woken, Waking, Signals
<1> QED BY <1>2, <1>3, <1>9, <1>10, <1>11, OthersKeep

LEMMA IpRemoveKeeps == ASSUME PolicyInv, IpRemove PROVE PolicyInv'
<1>1. PICK p \in ip.comps \ Managed :
         ip' = [ip EXCEPT !.comps = @ \ {p}, !.targets = @ \ {p}, !.order = Minus(@, p)]
  BY DEF IpRemove
<1>2. wire' = Noted(wire, "change") /\ UNCHANGED <<plugged, inq, d, client, timeouts>>
  BY DEF IpRemove, Signal, IpOnly
<1>3. wire' \in Seq(Signals) /\ inq' \in Seq(Signals) /\ Stays /\ Pending("change")'
  <2>1. "change" \in Signals /\ PadTyped
    BY DEF Signals, PolicyInv
  <2> QED BY <1>2, <2>1, SignalKeeps
<1> DEFINE new == Minus(ip.order, p)
<1>5. new \in Seq(PadNames) /\ \A m : Has(new, m) <=> Has(ip.order, m) /\ m # p
  <2>1. ip.order \in Seq(PadNames)
    BY DEF PolicyInv, PadTyped, IpSet
  <2> QED BY <2>1, MinusIs
<1>7. ip' = [ip EXCEPT !.comps = @ \ {p}, !.targets = @ \ {p}, !.order = new]
  BY <1>1
<1> HIDE DEF new
<1>8. /\ ip' \in IpSet /\ ip'.order = new /\ ip'.targets = ip.targets \ {p}
      /\ ip'.comps = ip.comps \ {p} /\ ip'.manage = ip.manage
      /\ ip'.ready = ip.ready /\ ip'.up = ip.up
  BY <1>5, <1>7 DEF PolicyInv, PadTyped, IpSet
<1>9. PadTyped'
  BY <1>2, <1>3, <1>8 DEF PolicyInv, PadTyped
<1>10. IpSound'
  <2>1. \A m \in PadNames : Has(ip'.order, m) => m \in ip'.targets
    BY <1>5, <1>8 DEF PolicyInv, IpSound
  <2> QED BY <1>8, <2>1 DEF PolicyInv, IpSound
<1>11. Said
  BY <1>3, <1>8 DEF Said, Woken, Waking, Signals
<1> QED BY <1>2, <1>3, <1>9, <1>10, <1>11, OthersKeep

LEMMA BystanderKeeps == ASSUME PolicyInv, Bystander PROVE PolicyInv'
<1>1. wire' = Noted(wire, "other") /\ UNCHANGED <<ip, plugged, inq, d, client, timeouts>>
  BY DEF Bystander, Signal, IpOnly
<1>2. wire' \in Seq(Signals) /\ inq' \in Seq(Signals) /\ Stays
  <2>1. "other" \in Signals /\ PadTyped
    BY DEF Signals, PolicyInv
  <2> QED BY <1>1, <2>1, SignalKeeps
<1>3. PadTyped' /\ IpSound' /\ Unsaid
  BY <1>1, <1>2 DEF PolicyInv, PadTyped, IpSound, Unsaid
<1> QED BY <1>1, <1>2, <1>3, OthersKeep

LEMMA PlugPadKeeps == ASSUME PolicyInv, PlugPad PROVE PolicyInv'
<1>1. UNCHANGED <<ip, wire, inq, d, client, timeouts>> /\ plugged' \subseteq Externals
  BY DEF PlugPad, PolicyInv, PadTyped
<1>2. Stays
  BY <1>1 DEF Stays, Pending
<1>3. PadTyped' /\ IpSound' /\ Unsaid
  BY <1>1 DEF PolicyInv, PadTyped, IpSound, Unsaid
<1> QED BY <1>1, <1>2, <1>3, OthersKeep

\* A client writes an order, or its steps leave the pads as they are.
Writes(want) ==
    /\ ip' = [ip EXCEPT !.order = Ordered(want)]
    /\ wire' = IF Ordered(want) = ip.order THEN wire ELSE Noted(wire, "change")

LEMMA WritesKeeps ==
    ASSUME PolicyInv, NEW want \in Seq(PadNames), Writes(want), inq' = inq
    PROVE  /\ ip' \in IpSet /\ IpSound' /\ wire' \in Seq(Signals) /\ Stays /\ (Unsaid \/ Said)
           /\ ip'.order = Ordered(want) /\ (ip'.order # ip.order => Woken')
           /\ UNCHANGED <<ip.up, ip.ready, ip.manage, ip.comps, ip.targets>>
<1> DEFINE new == Ordered(want)
<1>1. ip \in IpSet /\ ip.order \in Seq(PadNames) /\ wire \in Seq(Signals) /\ inq \in Seq(Signals)
  BY DEF PolicyInv, PadTyped, IpSet
<1>2. new \in Seq(PadNames) /\ \A m : Has(new, m) => m \in ip.targets
  BY <1>1, OrderedIs
<1> HIDE DEF new
<1>3. ip' = [ip EXCEPT !.order = new] /\ wire' = IF new = ip.order THEN wire ELSE Noted(wire, "change")
  BY DEF Writes, new
<1>4. /\ ip' \in IpSet /\ ip'.order = new
      /\ UNCHANGED <<ip.up, ip.ready, ip.manage, ip.comps, ip.targets>>
  BY <1>1, <1>2, <1>3 DEF IpSet
<1>5. IpSound'
  BY <1>2, <1>4 DEF PolicyInv, IpSound
<1>6. CASE new = ip.order
  <2>1. wire' = wire
    BY <1>3, <1>6
  <2>2. Stays /\ Unsaid
    BY <1>4, <1>6, <2>1 DEF Stays, Pending, Unsaid
  <2> QED BY <1>1, <1>4, <1>5, <1>6, <2>1, <2>2 DEF new
<1>7. CASE new # ip.order
  <2>1. wire' \in Seq(Signals) /\ Stays /\ Pending("change")'
    <3>1. "change" \in Signals /\ PadTyped /\ wire' = Noted(wire, "change")
      BY <1>3, <1>7 DEF Signals, PolicyInv
    <3> QED BY <3>1, SignalKeeps
  <2>2. Woken'
    BY <2>1 DEF Woken, Waking, Signals
  <2>3. Said
    BY <1>4, <2>2 DEF Said
  <2> QED BY <1>4, <1>5, <2>1, <2>2, <2>3 DEF new
<1> QED BY <1>6, <1>7

Stops == \E b \in BOOLEAN : ip' = [ip EXCEPT !.stopped = b] /\ wire' = wire
Leaves == ip' = ip /\ wire' = wire
Timed == timeouts' \in Nat /\ (timeouts' = 0 => timeouts = 0)

LEMMA ClientKeeps ==
    ASSUME PolicyInv, client' \in ClientSet, UNCHANGED <<plugged, inq, d>>, Timed,
           Leaves \/ Stops \/ \E want \in Seq(PadNames) : Writes(want)
    PROVE  PolicyInv'
<1>1. CASE Leaves
  <2>1. PadTyped' /\ IpSound' /\ Unsaid /\ Stays
    BY <1>1 DEF Leaves, PolicyInv, PadTyped, IpSound, Unsaid, Stays, Pending, Timed
  <2> QED BY <2>1, OthersKeep DEF Timed
<1>2. CASE Stops
  <2>1. /\ ip' \in IpSet /\ wire' = wire
        /\ UNCHANGED <<ip.up, ip.ready, ip.manage, ip.comps, ip.targets, ip.order>>
    BY <1>2 DEF Stops, PolicyInv, PadTyped, IpSet
  <2>2. PadTyped' /\ IpSound' /\ Unsaid /\ Stays
    BY <2>1 DEF PolicyInv, PadTyped, IpSound, Unsaid, Stays, Pending, Timed
  <2> QED BY <2>2, OthersKeep DEF Timed
<1>3. ASSUME NEW want \in Seq(PadNames), Writes(want) PROVE PolicyInv'
  <2>1. ip' \in IpSet /\ IpSound' /\ wire' \in Seq(Signals) /\ Stays /\ (Unsaid \/ Said)
    BY <1>3, WritesKeeps
  <2>2. PadTyped'
    BY <2>1 DEF PolicyInv, PadTyped, Timed
  <2> QED BY <2>1, <2>2, OthersKeep DEF Timed
<1> QED BY <1>1, <1>2, <1>3

LEMMA CallTimes ==
    ASSUME timeouts \in Nat, NEW r PROVE (CallWorks(r) => Timed) /\ (CallFails(r) => Timed)
BY DEF CallWorks, CallFails, Timed

\* What a client may become.
LEMMA ClientIs ==
    ASSUME PolicyInv
    PROVE  /\ client \in ClientSet /\ timeouts \in Nat
           /\ \A a \in {"idle", "name", "first", "act", "wait", "list", "order", "set",
                        "ready", "ready2", "ready3"} : [client EXCEPT !.at = a] \in ClientSet
           /\ \A rc \in {0, 1} : Exit(rc) => client' \in ClientSet
BY DEF PolicyInv, PadTyped, ClientSet, Exit

LEMMA CommandKeeps == ASSUME PolicyInv, Command PROVE PolicyInv'
<1>1. PICK cmd \in Commands : client' = [client EXCEPT !.cmd = cmd, !.at = "name", !.rc = 1]
  BY DEF Command
<1>2. wire' = Noted(wire, "other") /\ UNCHANGED <<ip, plugged, inq, d, timeouts>>
  BY DEF Command, Signal
<1>3. wire' \in Seq(Signals) /\ inq' \in Seq(Signals) /\ Stays
  <2>1. "other" \in Signals /\ PadTyped
    BY DEF Signals, PolicyInv
  <2> QED BY <1>2, <2>1, SignalKeeps
<1>4. client' \in ClientSet
  BY <1>1 DEF PolicyInv, PadTyped, ClientSet
<1>5. PadTyped' /\ IpSound' /\ Unsaid
  BY <1>2, <1>3, <1>4 DEF PolicyInv, PadTyped, IpSound, Unsaid
<1> QED BY <1>2, <1>3, <1>5, OthersKeep

LEMMA CmdNameKeeps == ASSUME PolicyInv, CmdName PROVE PolicyInv'
<1>1. UNCHANGED <<ip, wire, timeouts, plugged, inq, d>>
  BY DEF CmdName, CmdAt
<1>2. client' \in ClientSet
  BY ClientIs DEF CmdName
<1>3. Timed /\ Leaves
  BY <1>1, ClientIs DEF Timed, Leaves
<1> QED BY <1>1, <1>2, <1>3, ClientKeeps

LEMMA CmdListKeeps == ASSUME PolicyInv, CmdList PROVE PolicyInv'
<1>1. UNCHANGED <<ip, wire, plugged, inq, d>>
  BY DEF CmdList, CmdAt
<1>2. client' \in ClientSet /\ Timed
  <2>1. CASE CallWorks(FALSE) /\ CmdList
    <3>1. Timed
      BY <2>1, CallTimes, ClientIs
    <3>2. client' \in ClientSet
      BY <2>1, ClientIs DEF CmdList
    <3> QED BY <3>1, <3>2
  <2>2. CASE CallFails(FALSE) /\ Exit(1)
    BY <2>2, CallTimes, ClientIs
  <2> QED BY <2>1, <2>2 DEF CmdList
<1>3. Leaves
  BY <1>1 DEF Leaves
<1> QED BY <1>1, <1>2, <1>3, ClientKeeps

LEMMA CmdActKeeps == ASSUME PolicyInv, CmdAct PROVE PolicyInv'
<1> DEFINE ready == client.cmd # "release"
<1>1. UNCHANGED <<wire, plugged, inq, d>>
  BY DEF CmdAct, CmdAt
<1>2. CASE /\ CallWorks(ready) /\ ip' = [ip EXCEPT !.stopped = client.cmd = "release"]
           /\ client' = [client EXCEPT !.at = "wait"]
  <2>1. Stops
    BY <1>1, <1>2 DEF Stops
  <2>2. Timed /\ client' \in ClientSet
    BY <1>2, CallTimes, ClientIs
  <2> QED BY <1>1, <2>1, <2>2, ClientKeeps
<1>3. CASE Exit(1) /\ UNCHANGED <<ip, timeouts>>
  <2>1. Leaves /\ Timed /\ client' \in ClientSet
    BY <1>1, <1>3, ClientIs DEF Leaves, Timed
  <2> QED BY <1>1, <2>1, ClientKeeps
<1>4. CASE CallFails(ready) /\ Exit(1) /\ UNCHANGED ip
  <2>1. Leaves /\ Timed /\ client' \in ClientSet
    BY <1>1, <1>4, ClientIs, CallTimes DEF Leaves
  <2> QED BY <1>1, <2>1, ClientKeeps
<1> QED BY <1>2, <1>3, <1>4 DEF CmdAct

LEMMA CmdWaitKeeps == ASSUME PolicyInv, CmdWait PROVE PolicyInv'
<1>1. UNCHANGED <<ip, wire, plugged, inq, d>>
  BY DEF CmdWait, CmdAt
<1>2. client' \in ClientSet /\ Timed
  <2>1. CASE CallWorks(FALSE) /\ (Exit(0) \/ client' = [client EXCEPT !.at = "list"])
    BY <2>1, CallTimes, ClientIs
  <2>2. CASE CallFails(FALSE) /\ Exit(1)
    BY <2>2, CallTimes, ClientIs
  <2> QED BY <2>1, <2>2 DEF CmdWait
<1>3. Leaves
  BY <1>1 DEF Leaves
<1> QED BY <1>1, <1>2, <1>3, ClientKeeps

LEMMA FinitePads == IsFiniteSet(PadNames) /\ Builtin \in PadNames /\ \A K \in SUBSET PadNames : IsFiniteSet(K)
<1>1. IsFiniteSet(Externals)
  BY PolicyAssumption
<1>2. IsFiniteSet(Externals \cup {Builtin})
  BY <1>1, FS_AddElement
<1> QED BY <1>2, FS_Subset DEF PadNames

LEMMA CmdReconcileKeeps == ASSUME PolicyInv, CmdReconcile PROVE PolicyInv'
<1> DEFINE quiet == client.at \in {"ready", "ready2", "ready3"}
           new == Ordered(Wanted(client.devs, client.order))
<1>1. UNCHANGED <<plugged, inq, d>>
  BY DEF CmdReconcile
<1>2. CASE CallFails(TRUE) /\ (Exit(0) \/ Exit(1)) /\ UNCHANGED <<ip, wire>>
  <2>1. Leaves /\ Timed /\ client' \in ClientSet
    BY <1>2, ClientIs, CallTimes DEF Leaves
  <2> QED BY <1>1, <2>1, ClientKeeps
<1>3. CASE /\ CallWorks(FALSE) /\ UNCHANGED <<ip, wire>>
           /\ client' = [client EXCEPT !.devs = ip.comps, !.at = IF quiet THEN "ready2" ELSE "order"]
  <2>1. client' \in ClientSet
    BY <1>3 DEF PolicyInv, PadTyped, ClientSet, IpSet
  <2>2. Leaves /\ Timed
    BY <1>3, ClientIs, CallTimes DEF Leaves
  <2> QED BY <1>1, <2>1, <2>2, ClientKeeps
<1>4. CASE /\ CallWorks(TRUE) /\ UNCHANGED <<ip, wire>>
           /\ \/ client' = [client EXCEPT !.order = ip.order, !.at = IF quiet THEN "ready3" ELSE "set"]
              \/ Exit(0)
  <2>1. client' \in ClientSet
    <3>1. CASE client' = [client EXCEPT !.order = ip.order, !.at = IF quiet THEN "ready3" ELSE "set"]
      BY <3>1 DEF PolicyInv, PadTyped, ClientSet, IpSet
    <3> QED BY <1>4, <3>1, ClientIs
  <2>2. Leaves /\ Timed
    BY <1>4, ClientIs, CallTimes DEF Leaves
  <2> QED BY <1>1, <2>1, <2>2, ClientKeeps
<1>5. CASE /\ CallWorks(TRUE) /\ ip' = [ip EXCEPT !.order = new]
           /\ wire' = IF new = ip.order THEN wire ELSE Noted(wire, "change")
           /\ Exit(0)
  <2>1. client' \in ClientSet /\ Timed
    BY <1>5, ClientIs, CallTimes
  <2>2. Wanted(client.devs, client.order) \in Seq(PadNames)
    <3>1. client.devs \in SUBSET PadNames /\ client.order \in Seq(PadNames)
      BY DEF PolicyInv, PadTyped, ClientSet
    <3> QED BY <3>1, FinitePads, WantedIs
  <2>3. Writes(Wanted(client.devs, client.order))
    BY <1>5 DEF Writes
  <2> QED BY <1>1, <2>1, <2>2, <2>3, ClientKeeps
<1> QED BY <1>2, <1>3, <1>4, <1>5 DEF CmdReconcile

\* The daemon's steps that leave the pads as they are.
LEMMA DaemonIs ==
    ASSUME PolicyInv
    PROVE  /\ d \in DaemonSet /\ ip \in IpSet /\ timeouts \in Nat /\ PadTyped /\ IpSound
           /\ \A s \in {"owned", "ready", "manage", "list", "order", "set", "wait", "pop", "check"} :
                 LET e == [d EXCEPT !.at = s]
                 IN  e \in DaemonSet /\ e.at = s /\ e.active = d.active /\ e.devs = d.devs
                     /\ e.order = d.order /\ e.msg = d.msg /\ e.then = d.then
           /\ d.then \in {"wait", "pop"}
BY DEF PolicyInv, PadTyped, DaemonSet

LEMMA LooksKeep ==
    ASSUME PolicyInv, UNCHANGED <<ip, plugged, client>>, Timed, d' \in DaemonSet,
           wire' \in Seq(Signals), inq' \in Seq(Signals), Stays, d'.active => d.active
    PROVE  /\ PadTyped' /\ IpSound' /\ ActiveHears' /\ (Bad' <=> Bad)
           /\ (Woken => Woken') /\ (Awaiting => Awaiting') /\ (Woken => Awaiting)
<1>1. PadTyped' /\ IpSound' /\ (Bad' <=> Bad)
  BY DEF PolicyInv, PadTyped, IpSound, Bad, Timed
<1>2. "gone" \in Signals /\ Waking \subseteq Signals
  BY DEF Signals, Waking
<1>3. (Woken => Woken') /\ (Awaiting => Awaiting') /\ (Woken => Awaiting)
  BY <1>2 DEF Stays, Woken, Awaiting
<1>4. ActiveHears'
  BY <1>2 DEF PolicyInv, ActiveHears, Stays
<1> QED BY <1>1, <1>3, <1>4

LEMMA AskOwnerKeeps == ASSUME PolicyInv, AskOwner PROVE PolicyInv'
<1>1. /\ d.at = "owned" /\ UNCHANGED <<ip, plugged, client, timeouts>> /\ ReadReply
      /\ d' = [d EXCEPT !.at = IF ip.up THEN "ready" ELSE d.then]
  BY DEF AskOwner, DaemonAt, To
<1>2. wire' \in Seq(Signals) /\ inq' \in Seq(Signals) /\ Stays
  BY <1>1, ReadKeeps, DaemonIs
<1>3. d' \in DaemonSet /\ d'.active = d.active /\ d'.at = IF ip.up THEN "ready" ELSE d.then
  BY <1>1, DaemonIs
<1>4. /\ PadTyped' /\ IpSound' /\ ActiveHears' /\ (Bad' <=> Bad) /\ Timed
      /\ (Woken => Woken') /\ (Awaiting => Awaiting') /\ (Woken => Awaiting)
  BY <1>1, <1>2, <1>3, LooksKeep, DaemonIs DEF Timed
<1>5. ManageDue'
  BY <1>1, <1>3, DaemonIs DEF ManageDue, IpSound
<1>6. ListCurrent'
  BY <1>1, <1>3, DaemonIs DEF ListCurrent
<1>7. OrderDue'
  BY <1>1, <1>3, DaemonIs DEF OrderDue, IpSound
<1> QED BY <1>4, <1>5, <1>6, <1>7 DEF PolicyInv

LEMMA GetManageAllKeeps == ASSUME PolicyInv, GetManageAll PROVE PolicyInv'
<1>1. /\ d.at = "ready" /\ UNCHANGED <<ip, plugged, client>> /\ ReadReply
      /\ (CallWorks(TRUE) /\ To("manage")) \/ (CallFails(TRUE) /\ To(d.then))
  BY DEF GetManageAll, DaemonAt
<1>2. wire' \in Seq(Signals) /\ inq' \in Seq(Signals) /\ Stays /\ Timed
  BY <1>1, ReadKeeps, DaemonIs, CallTimes
<1>3. /\ d' \in DaemonSet /\ d'.active = d.active
      /\ \/ d'.at = "manage"
         \/ d'.at = d.then /\ (ip.ready => timeouts' # 0)
  <2>1. CASE CallWorks(TRUE) /\ To("manage")
    BY <2>1, DaemonIs DEF To
  <2>2. CASE CallFails(TRUE) /\ To(d.then)
    BY <2>2, DaemonIs DEF To, CallFails, Answers, IpSound
  <2> QED BY <1>1, <2>1, <2>2
<1>4. PadTyped' /\ IpSound' /\ ActiveHears'
  BY <1>1, <1>2, <1>3, LooksKeep
<1>5. ManageDue' /\ OrderDue'
  BY <1>1, <1>3 DEF ManageDue, OrderDue
<1>6. ListCurrent'
  BY <1>3, DaemonIs DEF ListCurrent
<1> QED BY <1>4, <1>5, <1>6 DEF PolicyInv

LEMMA SetManageAllKeeps == ASSUME PolicyInv, SetManageAll PROVE PolicyInv'
<1>1. d.at = "manage" /\ UNCHANGED <<plugged, client>> /\ ReadReply
  BY DEF SetManageAll, DaemonAt
<1>2. wire' \in Seq(Signals) /\ inq' \in Seq(Signals) /\ Stays
  BY <1>1, ReadKeeps, DaemonIs
<1>3. CASE CallFails(TRUE) /\ To(d.then) /\ UNCHANGED ip
  <2>1. Timed
    BY <1>3, DaemonIs, CallTimes
  <2>2. /\ d' \in DaemonSet /\ d'.active = d.active
        /\ d'.at = d.then /\ (ip.ready => timeouts' # 0)
    BY <1>3, DaemonIs DEF To, CallFails, Answers, IpSound
  <2>3. PadTyped' /\ IpSound' /\ ActiveHears'
    BY <1>1, <1>2, <1>3, <2>1, <2>2, LooksKeep
  <2>4. ManageDue' /\ OrderDue'
    BY <1>3, <2>2 DEF ManageDue, OrderDue
  <2>5. ListCurrent'
    BY <2>2, DaemonIs DEF ListCurrent
  <2> QED BY <2>3, <2>4, <2>5 DEF PolicyInv
<1>4. CASE /\ CallWorks(TRUE) /\ ip' = [ip EXCEPT !.manage = TRUE]
           /\ d' = [d EXCEPT !.at = "list", !.active = TRUE]
  <2>1. timeouts' = timeouts /\ ip.up
    BY <1>4 DEF CallWorks, Answers
  <2>2. /\ ip' \in IpSet /\ ip'.manage = TRUE
        /\ UNCHANGED <<ip.up, ip.ready, ip.order, ip.comps, ip.targets>>
    BY <1>4, DaemonIs DEF IpSet
  <2>3. d' \in DaemonSet /\ d'.at = "list"
    <3>1. d \in DaemonSet
      BY DaemonIs
    <3>2. d' = [d EXCEPT !.at = "list", !.active = TRUE]
      BY <1>4
    <3> QED BY <3>1, <3>2 DEF DaemonSet
  <2>4. PadTyped' /\ IpSound'
    BY <1>1, <1>2, <2>1, <2>2, <2>3, DaemonIs DEF PadTyped, IpSound
  <2>5. ActiveHears' /\ ManageDue' /\ ListCurrent' /\ OrderDue'
    BY <2>2, <2>3 DEF ActiveHears, ManageDue, ListCurrent, OrderDue
  <2> QED BY <2>4, <2>5 DEF PolicyInv
<1> QED BY <1>3, <1>4 DEF SetManageAll

LEMMA ListCompositesKeeps == ASSUME PolicyInv, ListComposites PROVE PolicyInv'
<1>1. /\ d.at = "list" /\ UNCHANGED <<ip, plugged, client>> /\ ReadReply
      /\ \/ CallWorks(FALSE) /\ d' = [d EXCEPT !.at = "order", !.devs = ip.comps]
         \/ CallFails(FALSE) /\ To(d.then)
  BY DEF ListComposites, DaemonAt
<1>2. wire' \in Seq(Signals) /\ inq' \in Seq(Signals) /\ Stays /\ Timed
  BY <1>1, ReadKeeps, DaemonIs, CallTimes
<1>3. /\ d' \in DaemonSet /\ d'.active = d.active
      /\ \/ d'.at = "order" /\ d'.devs = ip.comps
         \/ d'.at = d.then /\ (ip.ready => timeouts' # 0)
  <2>1. CASE d' = [d EXCEPT !.at = "order", !.devs = ip.comps]
    <3>1. d \in DaemonSet /\ ip.comps \in SUBSET PadNames
      BY DaemonIs DEF IpSet
    <3> QED BY <2>1, <3>1 DEF DaemonSet
  <2>2. CASE CallFails(FALSE) /\ To(d.then)
    BY <2>2, DaemonIs DEF To, CallFails, Answers, IpSound
  <2> QED BY <1>1, <2>1, <2>2
<1>4. PadTyped' /\ IpSound' /\ ActiveHears' /\ (Awaiting => Awaiting')
  BY <1>1, <1>2, <1>3, LooksKeep
<1>5. ManageDue'
  BY <1>1, <1>2, <1>3, <1>4 DEF ManageDue, PolicyInv, Timed
<1>6. OrderDue'
  BY <1>1, <1>3 DEF OrderDue
<1>7. ListCurrent'
  BY <1>1, <1>3, DaemonIs DEF ListCurrent
<1> QED BY <1>4, <1>5, <1>6, <1>7 DEF PolicyInv

LEMMA GetOrderKeeps == ASSUME PolicyInv, GetOrder PROVE PolicyInv'
<1>1. /\ d.at = "order" /\ UNCHANGED <<ip, plugged, client>> /\ ReadReply
      /\ \/ /\ CallWorks(TRUE)
            /\ d' = [d EXCEPT !.order = ip.order,
                              !.at = IF Unsorted(d.devs, ip.order) THEN "set" ELSE d.then]
         \/ CallFails(TRUE) /\ To(d.then)
  BY DEF GetOrder, DaemonAt
<1>2. wire' \in Seq(Signals) /\ inq' \in Seq(Signals) /\ Stays /\ Timed
  BY <1>1, ReadKeeps, DaemonIs, CallTimes
<1>3. /\ d' \in DaemonSet /\ d'.active = d.active
      /\ \/ d'.at = "set" /\ d'.order = ip.order /\ d'.devs = d.devs
         \/ d'.at = d.then /\ (~Unsorted(d.devs, ip.order) \/ (ip.ready => timeouts' # 0))
  <2>1. CASE d' = [d EXCEPT !.order = ip.order,
                            !.at = IF Unsorted(d.devs, ip.order) THEN "set" ELSE d.then]
    <3>1. CASE Unsorted(d.devs, ip.order)
      <4>1. d' = [d EXCEPT !.order = ip.order, !.at = "set"]
        BY <2>1, <3>1
      <4>2. d \in DaemonSet /\ ip.order \in Seq(PadNames)
        BY DaemonIs DEF IpSet
      <4>3. d' \in DaemonSet
        BY <4>1, <4>2 DEF DaemonSet
      <4>4. /\ d'.active = d.active /\ d'.at = "set" /\ d'.order = ip.order
            /\ d'.devs = d.devs
        BY <4>1, <4>2 DEF DaemonSet
      <4> QED BY <4>3, <4>4
    <3>2. CASE ~Unsorted(d.devs, ip.order)
      <4>1. d' = [d EXCEPT !.order = ip.order, !.at = d.then]
        BY <2>1, <3>2
      <4>2. d \in DaemonSet /\ ip.order \in Seq(PadNames)
        BY DaemonIs DEF IpSet
      <4>3. d' \in DaemonSet
        BY <4>1, <4>2 DEF DaemonSet
      <4>4. d'.active = d.active /\ d'.at = d.then
        BY <4>1, <4>2 DEF DaemonSet
      <4> QED BY <3>2, <4>3, <4>4
    <3> QED BY <3>1, <3>2
  <2>2. CASE CallFails(TRUE) /\ To(d.then)
    <3>1. d' \in DaemonSet /\ d'.active = d.active /\ d'.at = d.then
      BY <2>2, DaemonIs DEF To
    <3>2. ip.ready => timeouts' # 0
      BY <2>2, DaemonIs DEF CallFails, Answers, IpSound
    <3> QED BY <3>1, <3>2
  <2> QED BY <1>1, <2>1, <2>2
<1>4. /\ PadTyped' /\ IpSound' /\ ActiveHears' /\ (Bad' <=> Bad)
      /\ (Woken => Woken') /\ (Awaiting => Awaiting')
  BY <1>1, <1>2, <1>3, LooksKeep
<1>5. ManageDue'
  BY <1>1, <1>2, <1>3, <1>4 DEF ManageDue, PolicyInv, Timed
<1>6. ListCurrent'
  BY <1>1, <1>3, <1>4, DaemonIs DEF ListCurrent, PolicyInv
<1>7. Bad => Unsorted(d.devs, ip.order) \/ Woken
  <2> SUFFICES ASSUME Bad, d.devs = ip.comps PROVE Unsorted(d.devs, ip.order)
    BY <1>1 DEF PolicyInv, ListCurrent
  <2>1. Builtin \in d.devs
    BY FinitePads, DaemonIs DEF Bad, IpSound
  <2>2. d.devs \in SUBSET PadNames /\ ip.order \in Seq(PadNames)
    BY DaemonIs DEF DaemonSet, IpSet
  <2> QED BY <2>1, <2>2, FinitePads, WantedIs DEF Bad
<1>8. OrderDue'
  BY <1>1, <1>3, <1>4, <1>7 DEF OrderDue
<1> QED BY <1>4, <1>5, <1>6, <1>8 DEF PolicyInv

LEMMA SetOrderKeeps == ASSUME PolicyInv, SetOrder PROVE PolicyInv'
<1> DEFINE want == Wanted(d.devs, d.order)
<1>1. d.at = "set" /\ UNCHANGED <<plugged, client>> /\ To(d.then)
  BY DEF SetOrder, DaemonAt
<1>2. d' \in DaemonSet /\ d'.active = d.active /\ d'.at = d.then /\ d.then \in {"wait", "pop"}
  BY <1>1, DaemonIs DEF To
<1>3. CASE CallFails(TRUE) /\ ReadReply /\ UNCHANGED ip
  <2>1. wire' \in Seq(Signals) /\ inq' \in Seq(Signals) /\ Stays /\ Timed
    BY <1>3, ReadKeeps, DaemonIs, CallTimes
  <2>2. ip.ready => timeouts' # 0
    BY <1>3, DaemonIs DEF CallFails, Answers, IpSound
  <2>3. PadTyped' /\ IpSound' /\ ActiveHears'
    BY <1>1, <1>2, <1>3, <2>1, LooksKeep
  <2>4. ManageDue' /\ OrderDue' /\ ListCurrent'
    BY <1>2, <1>3, <2>2 DEF ManageDue, OrderDue, ListCurrent
  <2> QED BY <2>3, <2>4 DEF PolicyInv
<1>4. CASE CallWorks(TRUE) /\ Writes(want) /\ inq' = inq
  <2>1. d.devs \in SUBSET PadNames /\ d.order \in Seq(PadNames) /\ ip.order \in Seq(PadNames)
    BY DaemonIs DEF DaemonSet, IpSet
  <2>2. /\ want \in Seq(PadNames) /\ \A m : Has(d.order, m) => Has(want, m)
        /\ Builtin \in d.devs /\ Has(d.order, Builtin) => Len(want) # 0 /\ want[Len(want)] = Builtin
    BY <2>1, FinitePads, WantedIs
  <2> HIDE DEF want
  <2>3. /\ ip' \in IpSet /\ IpSound' /\ wire' \in Seq(Signals) /\ Stays /\ (Unsaid \/ Said)
        /\ ip'.order = Ordered(want) /\ (ip'.order # ip.order => Woken')
        /\ UNCHANGED <<ip.up, ip.ready, ip.manage, ip.comps, ip.targets>>
    BY <1>4, <2>2, WritesKeeps
  <2>4. timeouts' = timeouts
    BY <1>4 DEF CallWorks
  <2>5. PadTyped'
    BY <1>1, <1>2, <1>4, <2>3, <2>4, DaemonIs DEF PadTyped
  <2>6. (Woken => Woken') /\ (Awaiting => Awaiting')
    BY <2>3 DEF Stays, Woken, Awaiting, Waking
  <2>7. ActiveHears'
    <3>1. "gone" \in Signals
      BY DEF Signals
    <3> QED BY <1>2, <2>3, <3>1 DEF PolicyInv, ActiveHears, Stays
  <2>8. ManageDue'
    BY <1>1, <1>2, <2>3, <2>4, <2>6 DEF PolicyInv, ManageDue
  <2>9. ListCurrent'
    BY <1>2 DEF ListCurrent
  <2>10. Bad' => Woken'
    <3> SUFFICES ASSUME Bad', ip'.order = ip.order, ~Woken PROVE FALSE
      BY <2>3, <2>6
    <3>1. Bad /\ d.order = ip.order /\ d.devs = ip.comps
      BY <1>1 DEF PolicyInv, ListCurrent, Bad
    <3>2. Builtin \in ip.targets /\ Builtin \in d.devs /\ Has(d.order, Builtin)
      BY <3>1, FinitePads, DaemonIs DEF Bad, IpSound
    <3>3. Len(want) # 0 /\ want[Len(want)] = Builtin /\ \A m : Has(ip.order, m) => Has(want, m)
      BY <2>2, <3>1, <3>2
    <3>4. Ordered(want)[Len(Ordered(want))] = Builtin
      BY <2>1, <2>2, <3>2, <3>3, OrderedIs
    <3> QED BY <2>3, <3>4 DEF Bad
  <2>11. OrderDue'
    BY <2>10 DEF OrderDue
  <2> QED BY <2>3, <2>5, <2>7, <2>8, <2>9, <2>11 DEF PolicyInv
<1> QED BY <1>3, <1>4 DEF SetOrder, Writes

LEMMA WaitBusKeeps == ASSUME PolicyInv, WaitBus PROVE PolicyInv'
<1>1. /\ d.at = "wait" /\ UNCHANGED <<ip, plugged, client, timeouts>> /\ To("pop")
      /\ inq' = Joined(inq, wire) /\ wire' = << >>
  BY DEF WaitBus, DaemonAt
<1>2. wire' \in Seq(Signals) /\ inq' \in Seq(Signals) /\ Stays
  BY <1>1, ReadKeeps, DaemonIs
<1>3. d' \in DaemonSet /\ d'.active = d.active /\ d'.at = "pop" /\ Timed
  BY <1>1, DaemonIs DEF To, Timed
<1>4. /\ PadTyped' /\ IpSound' /\ ActiveHears' /\ (Bad' <=> Bad)
      /\ (Woken => Woken') /\ (Awaiting => Awaiting')
  BY <1>1, <1>2, <1>3, LooksKeep
<1>5. ManageDue' /\ ListCurrent' /\ OrderDue'
  BY <1>1, <1>3, <1>4 DEF PolicyInv, ManageDue, ListCurrent, OrderDue
<1> QED BY <1>4, <1>5 DEF PolicyInv

LEMMA PopMessageKeeps == ASSUME PolicyInv, PopMessage PROVE PolicyInv'
<1>1. d.at = "pop" /\ UNCHANGED <<ip, wire, plugged, client, timeouts>>
  BY DEF PopMessage, DaemonAt
<1>2. Timed /\ wire \in Seq(Signals) /\ inq \in Seq(Signals)
  BY <1>1, DaemonIs DEF Timed, PadTyped
<1>3. CASE inq = << >> /\ To("wait") /\ UNCHANGED inq
  <2>1. d' \in DaemonSet /\ d'.active = d.active /\ d'.at = "wait"
    BY <1>3, DaemonIs DEF To
  <2>2. wire' \in Seq(Signals) /\ inq' \in Seq(Signals) /\ Stays
    BY <1>1, <1>2, <1>3 DEF Stays, Pending
  <2>3. /\ PadTyped' /\ IpSound' /\ ActiveHears' /\ (Bad' <=> Bad)
        /\ (Woken => Woken') /\ (Awaiting => Awaiting')
    BY <1>1, <1>2, <2>1, <2>2, LooksKeep
  <2>4. ManageDue' /\ ListCurrent' /\ OrderDue'
    BY <1>1, <2>1, <2>3 DEF PolicyInv, ManageDue, ListCurrent, OrderDue
  <2> QED BY <2>3, <2>4 DEF PolicyInv
<1>4. CASE /\ inq # << >> /\ inq' = Tail(inq)
           /\ d' = [d EXCEPT !.at = "check", !.msg = Head(inq), !.then = "pop",
                             !.active = @ /\ Head(inq) # "gone"]
  <2> DEFINE m == Head(inq)
  <2>1. /\ inq' \in Seq(Signals) /\ m \in Signals
        /\ \A k : Has(inq, k) <=> Has(inq', k) \/ k = m
    <3>1. Len(inq) # 0
      BY <1>2, <1>4
    <3> QED BY <1>2, <1>4, <3>1, HasTail
  <2> HIDE DEF m
  <2>2. d' = [d EXCEPT !.at = "check", !.msg = m, !.then = "pop", !.active = @ /\ m # "gone"]
    BY <1>4 DEF m
  <2>3. /\ d' \in DaemonSet /\ d'.at = "check" /\ d'.msg = m
        /\ (d'.active <=> (d.active /\ m # "gone"))
    <3>1. d.active \in BOOLEAN /\ (d.active /\ m # "gone") \in BOOLEAN
      BY DaemonIs DEF DaemonSet
    <3>2. d \in DaemonSet
      BY DaemonIs
    <3>3. PICK b \in BOOLEAN : b <=> (d.active /\ m # "gone")
      BY <3>1
    <3>4. d' = [d EXCEPT !.at = "check", !.msg = m, !.then = "pop", !.active = b]
      BY <2>2, <3>1, <3>3
    <3>5. d' \in DaemonSet
      BY <2>1, <3>2, <3>4 DEF DaemonSet
    <3>6. d'.at = "check" /\ d'.msg = m /\ d'.active = b
      BY <3>2, <3>4 DEF DaemonSet
    <3> QED BY <3>3, <3>5, <3>6
  <2>4. PadTyped' /\ IpSound'
    BY <1>1, <1>2, <2>1, <2>3, DaemonIs DEF PadTyped, IpSound
  <2>5. \A k : k # m /\ Pending(k) => Pending(k)'
    BY <1>1, <2>1 DEF Pending
  <2>6. ActiveHears'
    BY <1>1, <2>3, <2>5 DEF PolicyInv, ActiveHears
  <2>7. ManageDue' /\ ListCurrent'
    BY <2>3 DEF ManageDue, ListCurrent
  <2>8. OrderDue'
    <3> SUFFICES ASSUME timeouts = 0, ip.ready, Bad, m = "other" PROVE Woken'
      BY <1>1, <2>3 DEF OrderDue, Bad
    <3>1. Woken
      BY <1>1 DEF PolicyInv, OrderDue
    <3> QED BY <2>5, <3>1 DEF Woken, Waking, Signals
  <2> QED BY <2>4, <2>6, <2>7, <2>8 DEF PolicyInv
<1> QED BY <1>3, <1>4 DEF PopMessage

LEMMA CheckOwnerKeeps == ASSUME PolicyInv, CheckOwner PROVE PolicyInv'
<1> DEFINE next == IF ~d.active \/ d.msg \in {"owner", "gone"} THEN "owned"
                   ELSE IF d.msg = "other" THEN "pop" ELSE "list"
<1>1. /\ d.at = "check" /\ UNCHANGED <<ip, plugged, client, timeouts>> /\ ReadReply
      /\ d' = IF ~ip.up THEN [d EXCEPT !.active = FALSE, !.at = "pop"] ELSE [d EXCEPT !.at = next]
  BY DEF CheckOwner, DaemonAt
<1>2. wire' \in Seq(Signals) /\ inq' \in Seq(Signals) /\ Stays /\ Timed
  BY <1>1, ReadKeeps, DaemonIs DEF Timed
<1>0. next \in {"pop", "owned", "list"}
  OBVIOUS
<1> HIDE DEF next
<1>3. /\ d' \in DaemonSet /\ (d'.active => d.active) /\ d'.at \in {"pop", "owned", "list"}
      /\ (ip.up => d'.at = next)
  <2>1. CASE ~ip.up
    <3>1. d' = [d EXCEPT !.active = FALSE, !.at = "pop"] /\ d \in DaemonSet
      BY <1>1, <2>1, DaemonIs
    <3>2. d' \in DaemonSet /\ ~d'.active /\ d'.at = "pop"
      BY <3>1 DEF DaemonSet
    <3> QED BY <2>1, <3>2
  <2>2. CASE ip.up
    <3>1. d' = [d EXCEPT !.at = next] /\ d \in DaemonSet
      BY <1>1, <2>2, DaemonIs
    <3>2. d' \in DaemonSet /\ d'.active = d.active /\ d'.at = next
      BY <1>0, <3>1 DEF DaemonSet
    <3> QED BY <1>0, <3>2
  <2> QED BY <2>1, <2>2
<1> USE DEF next
<1>4. /\ PadTyped' /\ IpSound' /\ ActiveHears' /\ (Bad' <=> Bad)
      /\ (Woken => Woken') /\ (Awaiting => Awaiting')
  BY <1>1, <1>2, <1>3, LooksKeep
<1>5. ManageDue'
  <2> SUFFICES ASSUME ip.ready, ~ip.manage, d.active PROVE Awaiting
    BY <1>1, <1>3, <1>4, DaemonIs DEF ManageDue, IpSound
  <2> QED BY DEF PolicyInv, ActiveHears, Awaiting, Signals
<1>6. ListCurrent'
  BY <1>3 DEF ListCurrent
<1>7. OrderDue'
  BY <1>1, <1>3, <1>4, DaemonIs DEF PolicyInv, OrderDue, IpSound
<1> QED BY <1>4, <1>5, <1>6, <1>7 DEF PolicyInv

LEMMA PolicyStarts == PadInit => PolicyInv
<1> SUFFICES ASSUME PadInit PROVE PolicyInv
  OBVIOUS
<1>1. << >> \in Seq(PadNames) /\ << >> \in Seq(Signals)
  OBVIOUS
<1>2. PadTyped
  BY <1>1 DEF PadInit, PadTyped, IpDown, IpSet, DaemonSet, ClientSet
<1>3. IpSound
  BY DEF PadInit, IpDown, IpSound, Has
<1>4. ActiveHears /\ ManageDue /\ ListCurrent /\ OrderDue
  BY DEF PadInit, IpDown, ActiveHears, ManageDue, ListCurrent, OrderDue
<1> QED BY <1>2, <1>3, <1>4 DEF PolicyInv

LEMMA PolicySteps == PolicyInv /\ [PadNext]_padVars => PolicyInv'
<1> SUFFICES ASSUME PolicyInv, [PadNext]_padVars PROVE PolicyInv'
  OBVIOUS
<1>1. CASE InputPlumber
  BY <1>1, IpStartKeeps, IpReadyKeeps, IpStopKeeps, IpCompositeKeeps, IpTargetKeeps, IpRemoveKeeps
     DEF InputPlumber
<1>2. CASE Bystander \/ PlugPad
  BY <1>2, BystanderKeeps, PlugPadKeeps
<1>3. CASE Daemon
  BY <1>3, AskOwnerKeeps, GetManageAllKeeps, SetManageAllKeeps, ListCompositesKeeps, GetOrderKeeps,
     SetOrderKeeps, WaitBusKeeps, PopMessageKeeps, CheckOwnerKeeps DEF Daemon
<1>4. CASE Client
  BY <1>4, CommandKeeps, CmdNameKeeps, CmdListKeeps, CmdActKeeps, CmdWaitKeeps, CmdReconcileKeeps
     DEF Client
<1>5. CASE UNCHANGED padVars
  <2>1. UNCHANGED d /\ PadTyped' /\ IpSound' /\ Unsaid /\ Stays /\ (timeouts' = 0 => timeouts = 0)
    BY <1>5 DEF padVars, PolicyInv, PadTyped, IpSound, Unsaid, Stays, Pending
  <2> QED BY <2>1, OthersKeep
<1> QED BY <1>1, <1>2, <1>3, <1>4, <1>5 DEF PadNext

\* Whatever is plugged, released or restarted between the daemon's calls and
\* whatever order a command writes, once the daemon waits with every signal
\* handled and no call timed out, a ready InputPlumber manages all devices and
\* the built-in pad is the last player (cmd_run, activate, reconcile).
THEOREM PolicyAppliedThm == PadSpec => []PolicyApplied
<1>1. ASSUME PolicyInv PROVE PolicyApplied
  <2> SUFFICES ASSUME d.at = "wait", wire = << >>, inq = << >>, timeouts = 0, ip.ready
               PROVE  ip.manage /\ BuiltinLast(ip.order)
    BY DEF PolicyApplied
  <2>1. ~Awaiting /\ ~Woken
    BY DEF Awaiting, Woken, Pending, Has
  <2>2. ip.manage
    BY <1>1, <2>1 DEF PolicyInv, ManageDue
  <2>3. ~Bad
    BY <1>1, <2>1 DEF PolicyInv, OrderDue
  <2>4. Builtin \in Range(ip.order) <=> Has(ip.order, Builtin)
    <3>1. ip.order \in Seq(PadNames)
      BY <1>1 DEF PolicyInv, PadTyped, IpSet
    <3> QED BY <3>1, HasRange
  <2> QED BY <2>2, <2>3, <2>4 DEF BuiltinLast, Bad, Last
<1> QED
  BY <1>1, PolicyStarts, PolicySteps, PTL DEF PadSpec
=============================================================================
