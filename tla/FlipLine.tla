------------------------------ MODULE FlipLine ------------------------------
(***************************************************************************)
(* The serial line of the Miyoo Flip gamepad driver: mf_receive and        *)
(* mf_feed cut frames FF YL XL YR XR FE out of a byte stream that can lose *)
(* or damage bytes, and that is joined in the middle whenever the port is  *)
(* opened again after a suspend.  What a frame then does is FlipPad.       *)
(***************************************************************************)
EXTENDS Integers, Sequences

CONSTANTS Data,        \* values of a stick byte
          LineStart, LineEnd,   \* 0xff, 0xfe
          LineFaults   \* bound: bytes lost, bytes damaged, suspends

VARIABLES quad,     \* the four bytes of the frame on the wire
          gone,     \* how many bytes of it have gone
          frame,    \* pad->frame[0 .. frame_len)
          open,     \* pad->port_open
          intact,   \* undamaged bytes read in a row, counted up to 9
          got,      \* the frame the last byte completed, or << >>
          faults

lineVars == <<quad, gone, frame, open, intact, got, faults>>

FrameLen == 6
Quads == [1 .. 4 -> Data]
Byte(q, k) == IF k = 0 THEN LineStart ELSE IF k = 5 THEN LineEnd ELSE q[k]

LineInit ==
    /\ quad \in Quads /\ gone \in 0 .. 5
    /\ frame = << >> /\ open = TRUE
    /\ intact = 0 /\ got = << >> /\ faults = 0

-----------------------------------------------------------------------------
\* mf_feed on one byte: the bytes kept, and the frame that is now complete.
Starts(f) == {i \in 2 .. FrameLen : f[i] = LineStart}

\* Mutant: a bad frame is thrown away whole.
Resync_drop(f) == << >>
Resync(f) ==
    IF Starts(f) = {} THEN << >>
    ELSE SubSeq(f, CHOOSE i \in Starts(f) : \A j \in Starts(f) : i <= j, FrameLen)

Feed(f, b) ==
    LET full == Append(f, b)
    IN CASE f = << >> -> [keep |-> IF b = LineStart THEN <<b>> ELSE << >>, done |-> << >>]
         [] f # << >> /\ Len(full) < FrameLen -> [keep |-> full, done |-> << >>]
         [] Len(full) = FrameLen /\ b = LineEnd -> [keep |-> << >>, done |-> SubSeq(full, 2, 5)]
         [] OTHER -> [keep |-> Resync(full), done |-> << >>]

\* mf_receive: bytes that arrive while the port is closed are dropped.
Receive(b) ==
    IF open
    THEN /\ frame' = Feed(frame, b).keep
         /\ got' = Feed(frame, b).done
    ELSE got' = << >> /\ UNCHANGED frame

\* The pad goes on to the next byte; a new frame has new stick positions.
Advance ==
    /\ gone' = (gone + 1) % FrameLen
    /\ IF gone = 5 THEN quad' \in Quads ELSE UNCHANGED quad

Arrives ==
    /\ Receive(Byte(quad, gone))
    /\ Advance
    /\ intact' = IF open /\ intact < 9 THEN intact + 1 ELSE intact
    /\ UNCHANGED <<open, faults>>

Fault == faults < LineFaults /\ faults' = faults + 1 /\ intact' = 0

Lost ==
    /\ Fault
    /\ Advance
    /\ got' = << >>
    /\ UNCHANGED <<frame, open>>

Damaged ==
    /\ Fault
    /\ \E b \in (Data \cup {LineStart, LineEnd}) \ {Byte(quad, gone)} : Receive(b)
    /\ Advance
    /\ UNCHANGED open

\* The port around a suspend.
PortClose ==
    /\ open
    /\ Fault
    /\ open' = FALSE /\ frame' = << >> /\ got' = << >>
    /\ UNCHANGED <<quad, gone>>
PortOpen ==
    /\ ~open
    /\ open' = TRUE /\ frame' = << >> /\ got' = << >>
    /\ UNCHANGED <<quad, gone, intact, faults>>

LineNext == Arrives \/ Lost \/ Damaged \/ PortClose \/ PortOpen

LineSpec == LineInit /\ [][LineNext]_lineVars

-----------------------------------------------------------------------------
\* A frame and a half after the last lost or damaged byte, or after the port was opened
\* in the middle of a frame, the driver's buffer is in step with the pad
\* although a stick byte may look like the start of a frame; and a frame made
\* of undamaged bytes only is one that the pad sent, never one half of it
\* joined to a half of the next (mf_feed's search for the next start).
InStep ==
    /\ intact = 9 => Len(frame) = gone
    /\ (got # << >> /\ intact >= FrameLen) => gone = 0
=============================================================================
