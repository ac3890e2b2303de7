----------------------------- MODULE UARTPackets -----------------------------
(***************************************************************************)
(* What the UART decoder script hands to the scripts stacked on it: per    *)
(* frame a STARTBIT, the DATA, the parity bit, the STOPBIT and the FRAME,  *)
(* always as channel 0.  A step is one frame, which comes after the line   *)
(* was idle for the time of gap frames.  A line that stays low through the *)
(* stop bit of a frame makes that frame invalid; when it rises again, at   *)
(* least a frame's time after it fell, a BREAK is handed over that starts  *)
(* where the invalid frame did.  There are no IDLE packets.                *)
(***************************************************************************)
EXTENDS DecoderScript

UARTHand(name, gap, valid) == HandRun(name, gap + 1, IF valid THEN "idle" ELSE "low")
UARTBreak(name) == line = "low" /\ Hand(name, "idle")

\* The first sample of the frame that comes after a gap, and of a BREAK.
UARTAt(gap) == Ss + Width * gap
UARTBreakSs == Ss - Width
=============================================================================
