------------------------------ MODULE SPIMemories ------------------------------
(***************************************************************************)
(* SPI scripts of memories.                                                *)
(***************************************************************************)
EXTENDS SPIPackets

(* spiflash: a command and, by command, address bytes and data, put byte   *)
(* by byte; what spans the data is put when the chip select changes.       *)

\* lists.py: the commands, by what their handlers do alike.
FlashKind(op) ==
    CASE op \in {\h06, \h04} -> "latch"
      [] op \in {\h60, \hc7} -> "erase chip"
      [] op \in {\had, \hb9, \hb1, \hc1, \h70, \h80} -> "plain"
      [] op \in {\h2b, \h2f, \hef} -> "todo"
      [] op \in {\h9f, \hab, \h90} -> "identify"
      [] op \in {\h05, \h35} -> "read status"
      [] op = \h01 -> "write status"
      [] op \in {\h03, \h02, \h82, \h85, \h0b} -> "block"
      [] op = \hbb -> "dual read"
      [] op = \hd7 -> "status"
      [] op \in {\h20, \hd8} -> "erase"
      [] OTHER -> "unknown"

\* ss_cmd and the others are set by the first command that needs them.
Flash0 == [state |-> None, cmdstate |-> 1, writestate |-> FALSE, on_end |-> "none", data |-> <<>>,
           ss_cmd |-> Unknown, es_cmd |-> Unknown, ss_field |-> Unknown, es_field |-> Unknown]

FlashOver(f) == [f EXCEPT !.state = None, !.cmdstate = 1, !.on_end = "none", !.data = <<>>]
FlashCmdPut(q, f) == <<P("commands", f.ss_cmd, Es(q), {})>>

\* end_current_transaction, with output_data_block or the line of STATUS.
FlashEnd(q) ==
    LET data == ToSet(pd.data)
    IN \/ pd.on_end = "none" /\ Become(FlashOver(pd))
       \/ /\ pd.on_end = "block"
          /\ Return(FlashOver([pd EXCEPT !.es_cmd = Es(q)]),
                    <<P("fields", pd.ss_field, pd.es_field, data), P("commands", pd.ss_cmd, Es(q), data)>>)
       \/ pd.on_end = "status" /\ pd.es_cmd = Unknown /\ Fail(<<>>)
       \/ /\ pd.on_end = "status" /\ pd.es_cmd # Unknown
          /\ Return(FlashOver(pd), <<P("commands", pd.ss_cmd, pd.es_cmd, {})>>)

\* emit_addr_bytes: the bytes 2 to 4 of a command.
FlashAddress(q, at) == <<Byte("bits", q)>> \o
    (IF at = 4 THEN <<P("fields", pd.ss_field, Es(q), {pd.ss_field, Ss})>> ELSE <<>>)
FlashAddressed(f, q, at) == [f EXCEPT !.ss_field = IF at = 2 THEN Ss ELSE @,
                                      !.es_field = IF at = 4 THEN Es(q) ELSE @]

\* The handlers of commands that are put where they are, again for every byte
\* that follows.
FlashSimple(q, f, kind) ==
    LET unlocked == IF pd.writestate THEN <<>> ELSE <<Note("warnings", q)>>
        again == [f EXCEPT !.cmdstate = 1]
    IN CASE kind = "latch" -> Return([again EXCEPT !.writestate = f.state = \h06], <<Byte("commands", q)>>)
         [] kind = "erase chip" -> Return(again, <<Byte("commands", q)>> \o unlocked)
         [] kind = "plain" -> Return(again, <<Byte("commands", q)>>)
         [] kind = "todo" -> Become(again)
         [] OTHER -> Return([f EXCEPT !.state = None], <<Byte("bits", q)>>)

\* handle_rdid, handle_rdp_res, handle_rems; handle_rdsr, handle_rdsr2; handle_wrsr.
FlashIdentify(q, f, at) ==
    LET last == CASE f.state = \h9f -> 4 [] f.state = \hab -> 5 [] OTHER -> 6
    IN IF at < last THEN Return(f, <<Byte("fields", q)>>)
       ELSE Return([f EXCEPT !.state = None, !.es_cmd = Es(q)],
                   <<Byte("fields", q)>> \o FlashCmdPut(q, f))
FlashLatched(q) == (q.w \div 2) % 2 = 1
FlashReadStatus(q, f) ==
    Return([f EXCEPT !.es_cmd = Es(q), !.writestate = IF f.state = \h05 THEN FlashLatched(q) ELSE @],
           <<Byte("bits", q), Note("fields", q)>> \o FlashCmdPut(q, f))
FlashWriteStatus(q, f, at) ==
    CASE at = 2 -> Return([f EXCEPT !.writestate = FlashLatched(q)], <<Byte("bits", q), Note("fields", q)>>)
      [] at = 3 -> Return([f EXCEPT !.es_cmd = Es(q)],
                          <<Byte("bits", q), Note("fields", q)>> \o FlashCmdPut(q, f))
      [] OTHER -> Become(f)

\* handle_read, handle_pp, handle_write_common, handle_fast_read, handle_2read.
FlashData(q, f, at, from) ==
    Become([f EXCEPT !.es_field = Es(q), !.data = Append(@, Ss),
                     !.ss_field = IF at = from THEN Ss ELSE @,
                     !.on_end = IF at = from THEN "block" ELSE @])
FlashBlock(q, f, at) ==
    LET from == IF f.state = \h0b THEN 6 ELSE 5
    IN CASE at \in 2..4 -> Return(FlashAddressed(f, q, at), FlashAddress(q, at))
         [] at = 5 /\ from = 6 -> Return(f, <<Byte("bits", q)>>)
         [] OTHER -> FlashData(q, f, at, from)
FlashDual(q, f, at) ==
    CASE at = 2 -> Return([FlashAddressed(f, q, 2) EXCEPT !.cmdstate = 4],
                          FlashAddress(q, 2) \o FlashAddress(q, 3))
      [] at = 4 -> Return([FlashAddressed(f, q, 4) EXCEPT !.cmdstate = 6],
                          FlashAddress(q, 4) \o <<Byte("bits", q)>>)
      [] OTHER -> FlashData(q, f, at, 6)

\* handle_se, handle_be; aligned tells whether the address fits.
FlashErase(q, f, at, aligned) ==
    IF at < 4 THEN Return(FlashAddressed(f, q, at), FlashAddress(q, at))
    ELSE Return([FlashAddressed(f, q, at) EXCEPT !.state = None, !.es_cmd = Es(q)],
                FlashAddress(q, at) \o FlashCmdPut(q, f)
                \o (IF aligned THEN <<>> ELSE <<P("warnings", f.ss_cmd, Es(q), {})>>))

\* The first byte; the warning of handle_write_common ends where the last
\* command did that set es_cmd.
FlashFirst(q, f, kind) ==
    LET next == [f EXCEPT !.ss_cmd = Ss, !.on_end = IF kind = "status" THEN "status" ELSE @]
        named == <<Byte("fields", q)>>
        unlocked == ~pd.writestate /\ f.state \in {\h20, \hd8, \h82, \h85}
    IN CASE unlocked /\ kind = "erase" -> Return(next, named \o <<Note("warnings", q)>>)
         [] unlocked /\ kind = "block" /\ pd.es_cmd = Unknown -> Fail(named)
         [] unlocked /\ kind = "block" /\ pd.es_cmd # Unknown ->
                Return(next, named \o <<P("warnings", Ss, pd.es_cmd, {})>>)
         [] OTHER -> Return(next, named)

Spiflash(q, aligned) ==
    /\ SPIHand("spiflash", q)
    /\ LET op == IF pd.state = None THEN q.v ELSE pd.state
           at == IF pd.state = None THEN 1 ELSE pd.cmdstate
           f == [pd EXCEPT !.state = op, !.cmdstate = at + 1]
           kind == FlashKind(op)
           byte == q.cmd = "DATA"
           simple == kind \in {"latch", "erase chip", "plain", "todo", "unknown"}
       IN
       \/ q.cmd = "CS-CHANGE" /\ FlashEnd(q)
       \/ q.cmd = "TRANSFER" /\ Ignore
       \/ byte /\ simple /\ FlashSimple(q, f, kind)
       \/ byte /\ ~simple /\ at = 1 /\ FlashFirst(q, f, kind)
       \/ byte /\ at > 1 /\ kind = "identify" /\ FlashIdentify(q, f, at)
       \/ byte /\ at > 1 /\ kind = "read status" /\ FlashReadStatus(q, f)
       \/ byte /\ at > 1 /\ kind = "write status" /\ FlashWriteStatus(q, f, at)
       \/ byte /\ at > 1 /\ kind = "block" /\ FlashBlock(q, f, at)
       \/ byte /\ at > 1 /\ kind = "dual read" /\ FlashDual(q, f, at)
       \/ byte /\ at > 1 /\ kind = "erase" /\ FlashErase(q, f, at, aligned)
       \/ byte /\ at > 1 /\ kind = "status" /\ Fail(<<>>)   \* its text is formatted wrongly

-----------------------------------------------------------------------------
(* sdcard_spi: the chip select does not count, so a command token that was *)
(* cut off goes on with the next byte of any transfer.  A step stands for  *)
(* n bytes.  The states that handle data blocks are never reached: they    *)
(* need CMD17 or CMD24, whose handlers call putc with an argument too many.*)

SdHandled == {0, 1, 9, 16, 17, 24, 41, 49, 55, 59}
Sd0 == [state |-> "IDLE", token |-> <<>>, cmd |-> 0, is_acmd |-> FALSE, read_buf |-> 0,
        ss_cmd |-> 0, es_cmd |-> 0]

\* handle_command_token, of a token that is complete.
SdTokenPuts(t, cmd) ==
    <<Bits("bits", t[1], 7, 7), Bits("bits", t[1], 6, 6), Bits("bits", t[1], 5, 0),
      Span("bits", t[2], t[5], {t[i] : i \in 2..5}), Bits("bits", t[6], 7, 1), Bits("bits", t[6], 0, 0)>>
    \o (IF cmd \in SdHandled THEN <<>> ELSE <<Span("commands-replies", t[1], t[6], ToSet(t))>>)

SdToken(n, index) ==
    LET t == pd.token \o [i \in 1..n |-> Ss + Width * (i - 1)]
        cmd == IF pd.token = <<>> THEN index ELSE pd.cmd
        f == [pd EXCEPT !.token = t, !.cmd = cmd, !.ss_cmd = t[1]]
    IN \/ Len(t) < 6 /\ Become([f EXCEPT !.state = "GET COMMAND TOKEN"])
       \/ /\ Len(t) = 6
          /\ Return([f EXCEPT !.state = "HANDLE CMD", !.es_cmd = t[6] + Width], SdTokenPuts(t, cmd))

\* putc(): over the command that came last.
SdPutc(ss) == P("commands-replies", ss, pd.es_cmd, {})

\* handle_cmd9: 20 bytes; from the second on ss_cmd is the first one's.
SdCsd(n) ==
    LET first == IF pd.read_buf = 0 THEN Ss ELSE pd.ss_cmd
        puts == [i \in 1..n |-> SdPutc(IF i = 1 THEN pd.ss_cmd ELSE first)]
        f == [pd EXCEPT !.token = <<>>, !.ss_cmd = first]
    IN \/ pd.read_buf + n < 20 /\ Return([f EXCEPT !.read_buf = @ + n], puts)
       \/ /\ pd.read_buf + n = 20
          /\ Return([f EXCEPT !.read_buf = 0, !.state = "IDLE", !.es_cmd = Ss + Width * n],
                    puts \o <<P("commands-replies", first, Ss + Width * n, {})>>)

\* handle_cmd0 and the others; CMD41 only exists as ACMD41, no other ACMD does.
SdCommand ==
    LET f == [pd EXCEPT !.token = <<>>, !.state = "GET RESPONSE R1", !.is_acmd = pd.cmd = 55 /\ ~@]
        hcs == Bits("bits", pd.token[2], 6, 6)
    IN \/ pd.is_acmd /\ pd.cmd # 41 /\ Fail(<<>>)
       \/ ~pd.is_acmd /\ pd.cmd \in {17, 24, 41} /\ Fail(<<>>)
       \/ /\ pd.cmd \in IF pd.is_acmd THEN {41} ELSE {0, 16, 55, 59}
          /\ Return(f, <<SdPutc(pd.ss_cmd)>>)
       \/ pd.cmd = 1 /\ ~pd.is_acmd /\ Return(f, <<SdPutc(pd.ss_cmd), hcs>>)
       \/ (pd.cmd = 49 \/ pd.cmd \notin SdHandled) /\ ~pd.is_acmd /\ Become(f)

\* handle_response_r1: the bits from the lowest on.
SdResponse == Return([pd EXCEPT !.state = "IDLE", !.ss_cmd = Ss, !.es_cmd = Ss + Width],
    <<Span("commands-replies", Ss, Ss, {Ss})>> \o [i \in 1..8 |-> Bits("bits", Ss, i - 1, i - 1)])

SdcardSpi(n, index, stray) ==
    /\ script = "sdcard_spi"
    /\ HandRun("sdcard_spi", n, line)
    /\ \/ pd.state = "IDLE" /\ stray /\ n = 1 /\ Ignore
       \/ pd.state = "IDLE" /\ ~stray /\ n <= 6 /\ SdToken(n, index)
       \/ /\ pd.state = "GET COMMAND TOKEN" /\ ~stray /\ n <= 6 - Len(pd.token)
          /\ SdToken(n, index)
       \/ pd.state = "HANDLE CMD" /\ pd.cmd = 9 /\ ~pd.is_acmd /\ n <= 20 - pd.read_buf /\ SdCsd(n)
       \/ pd.state = "HANDLE CMD" /\ (pd.cmd # 9 \/ pd.is_acmd) /\ n = 1 /\ SdCommand
       \/ pd.state = "GET RESPONSE R1" /\ stray /\ n = 1 /\ Ignore
       \/ pd.state = "GET RESPONSE R1" /\ ~stray /\ n = 1 /\ SdResponse
=============================================================================
