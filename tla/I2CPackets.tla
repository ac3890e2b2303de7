------------------------------ MODULE I2CPackets ------------------------------
(***************************************************************************)
(* The packets the I2C decoder script hands to the scripts stacked on it:  *)
(* a START or START REPEAT, the address byte, then bytes, each followed by *)
(* its acknowledge bit.  A START REPEAT or a STOP may come wherever a byte *)
(* may, a STOP in place of the acknowledge bit as well.  BITS packets are  *)
(* left out: they repeat the byte that follows them.                       *)
(***************************************************************************)
EXTENDS DecoderScript

\* The commands that may follow, and where each leads.
I2CFollows == [
    idle    |-> {"START"},
    address |-> {"ADDRESS READ", "ADDRESS WRITE", "START REPEAT", "STOP"},
    rack    |-> {"ACK", "NACK", "STOP"},
    wack    |-> {"ACK", "NACK", "STOP"},
    read    |-> {"DATA READ", "START REPEAT", "STOP"},
    write   |-> {"DATA WRITE", "START REPEAT", "STOP"},
    ended   |-> {"START REPEAT", "STOP"}]

I2CLeads(at, cmd) ==
    CASE cmd = "STOP" -> "idle"
      [] cmd \in {"START", "START REPEAT"} -> "address"
      [] cmd \in {"ADDRESS READ", "DATA READ"} -> "rack"
      [] cmd \in {"ADDRESS WRITE", "DATA WRITE"} -> "wack"
      [] OTHER -> IF at = "rack" THEN "read" ELSE "write"

I2CConditions == {[cmd |-> c, v |-> 0] : c \in {"START", "START REPEAT", "STOP", "ACK", "NACK"}}
I2CAddresses(a) == [cmd : {"ADDRESS READ", "ADDRESS WRITE"}, v : a]
I2CData(b) == [cmd : {"DATA READ", "DATA WRITE"}, v : b]

IsAddress(q) == q.cmd \in {"ADDRESS READ", "ADDRESS WRITE"}
IsData(q) == q.cmd \in {"DATA READ", "DATA WRITE"}

\* Packet q is handed to the script.
I2CHand(name, q) ==
    /\ script = name
    /\ q.cmd \in I2CFollows[line]
    /\ Hand(name, I2CLeads(line, q.cmd))

\* For scripts that leave the acknowledge bits aside: q stands for a condition,
\* an address byte or a run of data bytes, with their acknowledge bits.
I2CRuns(a, runs) ==
    [cmd : {"START", "START REPEAT", "STOP"}, v : {0}, run : {<<>>}]
    \cup [cmd : {"ADDRESS READ", "ADDRESS WRITE"}, v : a, run : {<<>>}]
    \cup [cmd : {"DATA READ", "DATA WRITE"}, v : {0}, run : runs]

\* Where a run leads: to more data, or to the end if it is all of the transfer.
I2CHandRun(name, q, after) ==
    /\ script = name
    /\ q.cmd \in I2CFollows[line]
    /\ HandRun(name, IF IsData(q) THEN Len(q.run) ELSE 1,
               CASE IsData(q) -> after
                 [] q.cmd = "ADDRESS READ" -> "read"
                 [] q.cmd = "ADDRESS WRITE" -> "write"
                 [] OTHER -> I2CLeads(line, q.cmd))
=============================================================================
