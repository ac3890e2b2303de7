------------------------------ MODULE SPIPackets ------------------------------
(***************************************************************************)
(* The packets the SPI decoder script hands to the scripts stacked on it.  *)
(* The first one gives the level of the chip select, or says that there is *)
(* none, and then only bytes follow.  Every change of the chip select      *)
(* makes a packet, and a byte comes only while it is low (the option       *)
(* cs_polarity keeps its default, so does the word size).  After a rise a  *)
(* TRANSFER repeats the bytes since the fall, if the option frame asks for *)
(* it.  Both data lines are connected.  BITS packets are left out but for  *)
(* scripts that use them.                                                  *)
(***************************************************************************)
EXTENDS DecoderScript

None == -1   \* the level before the first one, or of no chip select

SPISelects == {[cmd |-> "CS-CHANGE", v |-> l[1], w |-> l[2]] :
               l \in {<<None, None>>, <<None, 0>>, <<None, 1>>, <<0, 1>>, <<1, 0>>}}
SPITransfer == [cmd |-> "TRANSFER", v |-> 0, w |-> 0]
SPIData(mosi, miso) == [cmd : {"DATA"}, v : mosi, w : miso]

Rises(q) == q.cmd = "CS-CHANGE" /\ q.v = 0 /\ q.w = 1
Falls(q) == q.cmd = "CS-CHANGE" /\ q.v = 1 /\ q.w = 0
Begins(q) == q.cmd = "CS-CHANGE" /\ q.v = None

SPIAllows(q) ==
    CASE q.cmd = "DATA" -> line \in {"bare", "low"}
      [] q.cmd = "TRANSFER" -> line = "rose"
      [] Begins(q) -> line = "begin"
      [] Rises(q) -> line = "low"
      [] OTHER -> line \in {"high", "rose"}

SPILeads(q) ==
    CASE q.cmd = "DATA" -> line
      [] q.cmd = "TRANSFER" -> "high"
      [] Rises(q) -> "rose"
      [] OTHER -> CASE q.w = None -> "bare" [] q.w = 0 -> "low" [] q.w = 1 -> "high"

SPIHand(name, q) ==
    /\ script = name
    /\ SPIAllows(q)
    /\ Hand(name, SPILeads(q))

\* For scripts that act on whole transfers: the chip select is low for n bytes,
\* at SPIByte(1) to SPIByte(n), and rises at SPIRise(n).
SPIHandTransfer(name, n) == HandRun(name, n + 2, line)
SPIByte(i) == Ss + Width * i
SPIRise(n) == Ss + Width * (n + 1)
=============================================================================
