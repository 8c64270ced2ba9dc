----------------------------- MODULE MCDevices -----------------------------
(* The helpers and drivers whose state nobody else shares, each run on its  *)
(* own while the others stay where they start: the pad policy, the three    *)
(* parts of the pad's driver, the DDR frequency driver, the preferences,    *)
(* the USB jail, the pak hotkey, and the pak waiter with every fault and    *)
(* pids that are used again.                                                *)
EXTENDS PadPolicy, FlipLine, FlipPad, FlipIO, DdrFreq, Prefs, UsbJail, PakHotkey, PakSpawn, TLC

VARIABLE on   \* the component that runs

Components == {"pads", "line", "stick", "motor", "ddr", "prefs", "jail", "hotkey", "pak"}

-----------------------------------------------------------------------------
\* FlipPad
MCSticks == {<<"XL", "YL">>, <<"XR", "YR">>}
Range3(a, b, e) == [min |-> a, zero |-> b, max |-> e]
StickFrame(left, xr, yr) == ("XL" :> left) @@ ("YL" :> left) @@ ("XR" :> xr) @@ ("YR" :> yr)
MCFrames == {StickFrame(6, 6, 6), StickFrame(12, 7, 3)}
MCCalibrations ==
    {[apply |-> r.min = 1, x |-> r, y |-> r] : r \in {Range3(4, 7, 12), Range3(1, 9, 12)}}
MCDefault == Range3(0, 6, 12)

\* DdrFreq
MCOppVolt == [r \in {1, 2, 3} |-> r]

\* Prefs
PrefRow(k, v) == [key |-> k, val |-> v]
MCChain == <<"game", "folder", "system">>
MCFirstRows == {<< >>, <<PrefRow("folder", 0), PrefRow("game", 1)>>,
                <<PrefRow("game", 1), PrefRow("folder", 0), PrefRow("system", 2)>>}

\* UsbJail
RomsDir == <<"storage", "roms">>
CardDir == <<"media", "card">>
MCExportLists ==
    {<< >>, <<<<"storage">>, CardDir>>, <<CardDir, <<"storage", ".update">>>>,
     <<CardDir, <<"etc", "skel">>>>, <<CardDir, RomsDir, <<"media", "usb">>>>}
MCConf == <<"run", "conf">>
MCFfs == <<"dev", "ffs">>
MCMqueue == <<"dev", "mqueue">>
MCSensitive == {<<"etc">>, <<"boot">>, <<"root">>}
MCLinkTarget == <<"boot">>
Lib(n) == <<"lib", n>>
Binary(libs) == [kind |-> "dynamic", interp |-> Lib("ld"), libs |-> libs]
Script(interp) == [kind |-> "script", interp |-> interp, libs |-> << >>]
MCExec ==
    (<<"usr", "umtprd">> :> Binary(<<Lib("libc"), Lib("ld")>>))
    @@ (<<"usr", "wrap">> :> Script(<<"usr", "umtprd">>))
    @@ (<<"usr", "deep">> :> Script(<<"usr", "wrap">>))
    @@ (<<"usr", "static">> :> [kind |-> "static", interp |-> << >>, libs |-> << >>])
    @@ (<<"usr", "big">> :> Binary(<<Lib("a"), Lib("b"), Lib("c")>>))
MCProgs == DOMAIN MCExec

-----------------------------------------------------------------------------
\* A component that does not run has one first state.
DeviceInit ==
    /\ on \in Components
    /\ PadInit /\ FlipInit /\ DdrInit /\ HotInit /\ Init
    /\ LineInit /\ (on # "line" => gone = 0 /\ quad = [i \in 1..4 |-> 7])
    /\ IoInit /\ (on # "motor" => gpio = 0)
    /\ PrefInit /\ (on # "prefs" => file.rows = << >>)
    /\ JailInit /\ (on # "jail" => u.exports = << >> /\ u.prog = <<"usr", "static">> /\ ~u.shared)

DeviceNext ==
    \/ /\ on = "pads" /\ PadNext
       /\ UNCHANGED <<on, lineVars, flipVars, ioVars, ddrVars, prefVars, jailVars, hotVars, vars>>
    \/ /\ on = "line" /\ LineNext
       /\ UNCHANGED <<on, padVars, flipVars, ioVars, ddrVars, prefVars, jailVars, hotVars, vars>>
    \/ /\ on = "stick" /\ FlipNext
       /\ UNCHANGED <<on, padVars, lineVars, ioVars, ddrVars, prefVars, jailVars, hotVars, vars>>
    \/ /\ on = "motor" /\ IoNext
       /\ UNCHANGED <<on, padVars, lineVars, flipVars, ddrVars, prefVars, jailVars, hotVars, vars>>
    \/ /\ on = "ddr" /\ DdrNext
       /\ UNCHANGED <<on, padVars, lineVars, flipVars, ioVars, prefVars, jailVars, hotVars, vars>>
    \/ /\ on = "prefs" /\ PrefNext
       /\ UNCHANGED <<on, padVars, lineVars, flipVars, ioVars, ddrVars, jailVars, hotVars, vars>>
    \/ /\ on = "jail" /\ JailNext
       /\ UNCHANGED <<on, padVars, lineVars, flipVars, ioVars, ddrVars, prefVars, hotVars, vars>>
    \/ /\ on = "hotkey" /\ HotNext
       /\ UNCHANGED <<on, padVars, lineVars, flipVars, ioVars, ddrVars, prefVars, jailVars, vars>>
    \/ /\ on = "pak" /\ Next
       /\ UNCHANGED <<on, padVars, lineVars, flipVars, ioVars, ddrVars, prefVars, jailVars, hotVars>>

DeviceSpec ==
    DeviceInit /\ [][DeviceNext]_<<on, padVars, lineVars, flipVars, ioVars, ddrVars, prefVars,
                                   jailVars, hotVars, vars>>
=============================================================================
