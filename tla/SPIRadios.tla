------------------------------- MODULE SPIRadios -------------------------------
(***************************************************************************)
(* Four scripts that were written from one another: cc1101, st25r39xx_spi, *)
(* nrf24l01 and a7105.  The first byte of a transfer is a command with a   *)
(* least and a greatest number of bytes to follow; what follows is kept    *)
(* and put when the chip select rises.                                     *)
(***************************************************************************)
EXTENDS SPIPackets

NoCommand == [name |-> "", reg |-> 0, min |-> 0, max |-> 0]
Cmd(name, reg, min, max) == [name |-> name, reg |-> reg, min |-> min, max |-> max]
Unlimited == 99999

\* next(): whatever the transfer has left behind is cleared.
RadioNext == [first |-> TRUE, cmd |-> NoCommand, mb |-> <<>>, mb_s |-> -1, mb_e |-> -1]
Radio0 == RadioNext @@ [cs_was_released |-> FALSE]
RadioReleased == RadioNext @@ [cs_was_released |-> TRUE]

\* finish_command(pos): the row over the bytes kept, which it shows.
RadioPut(row) == <<P(row, pd.mb_s, pd.mb_e, ToSet(pd.mb))>>
RadioMissing == pd.cmd # NoCommand /\ Len(pd.mb) < pd.cmd.min

\* Mutant of RadioSelect: puts the bytes after a command that has none.
RadioSelectEager(q, missing, finish) ==
    /\ q.cmd = "CS-CHANGE"
    /\ \/ Begins(q) /\ q.w = None /\ Fail(<<>>)
       \/ Begins(q) /\ q.w # None /\ Become([pd EXCEPT !.cs_was_released = (q.w = 1)])
       \/ Falls(q) /\ Ignore
       \/ Rises(q) /\ RadioMissing /\ missing
       \/ Rises(q) /\ ~RadioMissing /\ Return(RadioReleased, IF pd.cmd = NoCommand THEN <<>> ELSE finish)
\* The chip select changes; missing is what too few bytes lead to.
RadioSelect(q, missing, finish) ==
    /\ q.cmd = "CS-CHANGE"
    /\ \/ Begins(q) /\ q.w = None /\ Fail(<<>>)
       \/ Begins(q) /\ q.w # None /\ Become([pd EXCEPT !.cs_was_released = (q.w = 1)])
       \/ Falls(q) /\ Ignore
       \/ Rises(q) /\ RadioMissing /\ missing
       \/ /\ Rises(q) /\ ~RadioMissing
          /\ Return(RadioReleased, IF pd.cmd = NoCommand \/ pd.mb = <<>> THEN <<>> ELSE finish)

\* A byte that is no command; none counts before the first rise.
RadioByte(q) ==
    /\ q.cmd = "DATA"
    /\ \/ ~pd.cs_was_released /\ Ignore
       \/ /\ pd.cs_was_released /\ ~pd.first /\ Len(pd.mb) < pd.cmd.max
          /\ Become([pd EXCEPT !.mb = Append(@, Ss), !.mb_e = Es(q),
                               !.mb_s = IF @ = -1 THEN Ss ELSE @])
       \/ /\ pd.cs_was_released /\ ~pd.first /\ Len(pd.mb) >= pd.cmd.max
          /\ Return(pd, <<Note("warnings", q)>>)
RadioFirst(q) == q.cmd = "DATA" /\ pd.cs_was_released /\ pd.first

\* decode_command: cmd as parse_command gives it, merged with the bytes that
\* follow (the span starts at the command) or put at once.
RadioCommand(cmd, merged) ==
    [pd EXCEPT !.first = FALSE, !.cmd = IF cmd = NoCommand THEN @ ELSE cmd,
               !.mb_s = IF merged THEN Ss ELSE @]

-----------------------------------------------------------------------------
(* cc1101 *)

CcRegs == 0..\h2e \cup \h30..\h3f
\* parse_command, but for a burst write to a status register, whose warning
\* names a variable that parse_command does not have.
CcUndefined(b) == b \in \h70..\h7d
CcCommand(b) ==
    LET addr == b % 64
    IN IF addr < \h30 \/ addr \in {\h3e, \h3f}
       THEN <<Cmd("Write", addr, 1, 1), Cmd("Burst write", addr, 1, Unlimited),
              Cmd("Read", addr, 1, 1), Cmd("Burst read", addr, 1, Unlimited)>>[b \div 64 + 1]
       ELSE IF b \div 64 = 3 THEN Cmd("Status read", addr, 1, Unlimited)
       ELSE Cmd("Strobe", addr, 0, 0)

\* warn((ss, ss), ...) asks a tuple for its attribute ss.
RadioWarnFails == Fail(<<>>)

Cc1101(q) ==
    /\ SPIHand("cc1101", q)
    /\ LET cmd == CcCommand(q.v)
           strobe == cmd.name = "Strobe"
       IN \/ RadioSelect(q, RadioWarnFails, RadioPut(IF pd.cmd.reg \in CcRegs THEN "data" ELSE "warnings"))
          \/ q.cmd = "TRANSFER" /\ Ignore
          \/ RadioByte(q)
          \/ RadioFirst(q) /\ CcUndefined(q.v) /\ Fail(<<>>)
          \/ /\ RadioFirst(q) /\ ~CcUndefined(q.v)
             /\ Return(RadioCommand(cmd, ~strobe),
                       (IF strobe THEN <<Byte("cmd", q)>> ELSE <<>>) \o <<Byte("status", q)>>)

-----------------------------------------------------------------------------
(* st25r39xx_spi: a prefix chooses another register space, and the byte    *)
(* after it is a command again.                                            *)

StSpaceA == 0..\h3f \cup {\ha0, \ha8, \hac, \hbf}
StSpaceB == {5, 6, \h0b, \h0c, \h0d, \h0f, \h15, \h28, \h29, \h2a, \h2b, \h2c} \cup \h30..\h33
StTest == {1}

\* parse_command, with the space the command before it has chosen.
StCommand(b) ==
    LET addr == b % 64
        Space(write, read) == CASE b < \h40 -> Cmd(write, addr, 1, Unlimited)
                                [] b \in \h40..\h7f -> Cmd(read, addr, 1, Unlimited)
                                [] OTHER -> NoCommand
    IN CASE pd.cmd.name = "Space B" -> Space("WriteB", "ReadB")
         [] pd.cmd.name = "TestAccess" -> Space("WriteT", "ReadT")
         [] b < \h80 -> Space("Write", "Read")
         [] b = \h80 -> Cmd("FIFO Write", b, 1, Unlimited)
         [] b \in {\ha0, \ha8, \hac} -> Cmd("Write", b, 1, Unlimited)
         [] b = \hbf -> Cmd("Read", b, 1, Unlimited)
         [] b = \h9f -> Cmd("FIFO Read", b, 1, Unlimited)
         [] b = \hfb -> Cmd("Space B", b, 0, 0)
         [] b = \hfc -> Cmd("TestAccess", b, 0, 0)
         [] b <= \he8 -> Cmd("Cmd", b, 0, 0)
         [] OTHER -> NoCommand

\* decode_reg
StRow == LET c == pd.cmd IN
    CASE c.name \in {"FIFO Write", "FIFO Read"} -> "data"
      [] c.name \in {"WriteB", "ReadB"} -> IF c.reg \in StSpaceB THEN "regs" ELSE "warnings"
      [] c.name \in {"WriteT", "ReadT"} -> IF c.reg \in StTest THEN "regs" ELSE "warnings"
      [] OTHER -> IF c.reg \in StSpaceA THEN "regs" ELSE "warnings"

St25r39xxSpi(q) ==
    /\ SPIHand("st25r39xx_spi", q)
    /\ LET cmd == StCommand(q.v)
           shown == CASE cmd = NoCommand -> <<Note("warnings", q), Note("warnings", q)>>
                      [] cmd.name = "Cmd" -> <<Byte("cmds", q)>>
                      [] OTHER -> <<>>
       IN \/ RadioSelect(q, RadioWarnFails, RadioPut(StRow))
          \/ q.cmd = "TRANSFER" /\ Ignore
          \/ RadioByte(q)
          \/ /\ RadioFirst(q)
             /\ Return([RadioCommand(cmd, cmd # NoCommand /\ cmd.name # "Cmd")
                           EXCEPT !.first = q.v \in {\hfb, \hfc}], shown)

-----------------------------------------------------------------------------
(* nrf24l01 *)

\* regs: the registers of one byte and of five; the table is the module's, and
\* start() of one decoder with the chip xn297 adds to it for all.
NrfSize(r) == IF r \in {\h0a, \h0b, \h10} THEN 5 ELSE 1
NrfRegs == 0..\h17 \cup {\h1c, \h1d}

NrfCommand(b) ==
    CASE b < \h20 -> Cmd("R_REGISTER", b, 1, NrfSize(b))
      [] b \in \h20..\h3f -> Cmd("W_REGISTER", b % 32, 1, NrfSize(b % 32))
      [] b = \h50 -> Cmd("ACTIVATE", 0, 1, 1)
      [] b = \h61 -> Cmd("R_RX_PAYLOAD", 0, 1, 32)
      [] b = \h60 -> Cmd("R_RX_PL_WID", 0, 1, 1)
      [] b \in {\ha0, \hb0} \cup \ha8..\haf -> Cmd("W_TX_PAYLOAD", 0, 1, 32)
      [] b \in {\he1, \he2, \he3, \hff} -> Cmd("FLUSH", 0, 0, 0)   \* and the others without data
      [] OTHER -> NoCommand

\* finish_command; the data of ACTIVATE may be wrong.
NrfFinish(wrong) == LET c == pd.cmd.name IN
    CASE c \in {"R_REGISTER", "W_REGISTER"} /\ pd.cmd.reg \notin NrfRegs -> RadioPut("warnings")
      [] c = "ACTIVATE" -> (IF wrong THEN RadioPut("warnings") ELSE <<>>) \o RadioPut("commands")
      [] c \in {"W_REGISTER", "W_TX_PAYLOAD"} -> RadioPut("commands")
      [] OTHER -> RadioPut("responses")

Nrf24l01(q, wrong) ==
    /\ SPIHand("nrf24l01", q)
    /\ LET cmd == NrfCommand(q.v)
           merged == cmd.name \in {"W_REGISTER", "ACTIVATE"}
           shown == CASE cmd = NoCommand -> <<Note("warnings", q)>>
                      [] merged -> <<>>
                      [] OTHER -> <<Byte("commands", q)>>
       IN \/ RadioSelect(q, Return(RadioReleased, <<Note("warnings", q)>>), NrfFinish(wrong))
          \/ q.cmd = "TRANSFER" /\ Become(RadioReleased)
          \/ RadioByte(q)
          \/ RadioFirst(q) /\ Return(RadioCommand(cmd, merged), shown \o <<Byte("responses", q)>>)

-----------------------------------------------------------------------------
(* a7105: three wires, so a byte that is not connected is the other one. *)

A7105Regs == 0..\h33

A7105Command(b) ==
    CASE b \in {5, \h45} -> Cmd("FIFO", 0, 1, 32)
      [] b \in {6, \h46} -> Cmd("ID", 0, 1, 4)
      [] b < \h80 -> Cmd("REGISTER", b % 64, 1, 1)
      [] OTHER -> Cmd("MODE", 0, 0, 0)

A7105(q) ==
    /\ SPIHand("a7105", q)
    /\ LET cmd == A7105Command(q.v)
           merged == cmd.name = "REGISTER"
           row == IF pd.cmd.name = "REGISTER" /\ pd.cmd.reg \notin A7105Regs
                  THEN "warnings" ELSE "commands"
       IN \/ RadioSelect(q, Return(RadioReleased, <<Note("warnings", q)>>), RadioPut(row))
          \/ q.cmd = "TRANSFER" /\ Become(RadioReleased)
          \/ RadioByte(q)
          \/ /\ RadioFirst(q)
             /\ Return(RadioCommand(cmd, merged), IF merged THEN <<>> ELSE <<Byte("commands", q)>>)
=============================================================================
