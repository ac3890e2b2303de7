------------------------------ MODULE UARTSerial ------------------------------
(***************************************************************************)
(* Scripts for serial instruments and buses: MIDI, Modbus RTU.  What the   *)
(* tables of names say is left out.                                        *)
(***************************************************************************)
EXTENDS UARTPackets

(* midi: a message is a status byte and its data bytes; a status byte that *)
(* repeats may be left out (running status), realtime messages come        *)
(* between any two bytes.                                                  *)

\* reset()
Midi0 == [state |-> "IDLE", status |-> 0, explicit |-> FALSE, cmd |-> <<>>, ss_block |-> 0, es |-> 0]
MidiIdle(f, status) == [f EXCEPT !.state = "IDLE", !.status = status, !.explicit = FALSE, !.cmd = <<>>]

\* handle_channel_msg_0x80 to _0xe0: the data bytes of a message.
MidiData(status) ==
    IF (status \div 16) \in {\hc, \hd} \/ status \in {\hf1, \hf3} THEN 1
    ELSE IF status < \hf0 \/ status = \hf2 THEN 2 ELSE 0

MidiPut(f, shown) == <<P("normal", f.ss_block, f.es, shown)>>
MidiSent(f) == {f.cmd[i].at : i \in DOMAIN f.cmd}

\* get_next_state(newbyte)
MidiStateOf(b) ==
    CASE b \in \h80..\hef -> "HANDLE CHANNEL MSG"
      [] b = \hf0 -> "HANDLE SYSEX MSG"
      [] b \in \hf1..\hf6 -> "HANDLE SYSCOMMON MSG"
      [] OTHER -> "BUFFER GARBAGE MSG"
MidiNextState(b, status) == MidiStateOf(IF b < 128 /\ status >= 128 THEN status ELSE b)

\* handle_garbage_msg(None): what is left is put as unhandled; a status byte that
\* was sent comes first.
MidiGarbage(f) ==
    [f |-> MidiIdle(f, 0), anns |-> MidiPut(f, MidiSent(f) \cup (IF f.explicit THEN {f.ss_block} ELSE {}))]

\* The end of a handle_sysex_msg(newbyte): the payload follows the manufacturer,
\* whose code takes three bytes if the first is 0.
MidiSysex(f) ==
    LET n == Len(f.cmd)
        truncated == n < 2 \/ (f.cmd[2].v = 0 /\ n < 4)
    IN [f |-> MidiIdle(f, 0), anns |-> MidiPut(f, IF truncated THEN {f.cmd[1].at} ELSE MidiSent(f))]

\* handle_state(state, None): flushes a message that ends without its last byte.
MidiFlush(f) == IF f.state = "HANDLE SYSEX MSG" THEN MidiSysex(f) ELSE MidiGarbage(f)

\* handle_channel_msg(newbyte); an 0xf7 becomes a status of unknown type.
MidiChannel(f, b) ==
    IF b.v = \hf7 THEN [f |-> MidiIdle(f, b.v), anns |-> MidiPut(f, {b.at})]
    ELSE IF b.v >= 128 THEN [f |-> [f EXCEPT !.status = b.v, !.explicit = TRUE], anns |-> <<>>]
    ELSE LET g == [f EXCEPT !.cmd = Append(@, b)]
         IN IF Len(g.cmd) = MidiData(g.status)
            THEN [f |-> MidiIdle(g, g.status),
                  anns |-> MidiPut(g, MidiSent(g) \cup (IF g.explicit THEN {g.ss_block} ELSE {}))]
            ELSE [f |-> g, anns |-> <<>>]

\* handle_syscommon_msg(newbyte); the status byte is the first of cmd.
MidiSyscommon(f, b) ==
    LET g == [f EXCEPT !.status = 0, !.explicit = FALSE, !.cmd = Append(@, b)]
    IN IF Len(g.cmd) > MidiData(g.cmd[1].v)
       THEN [f |-> MidiIdle(g, 0), anns |-> MidiPut(g, MidiSent(g))]
       ELSE [f |-> g, anns |-> <<>>]

\* handle_state(state, newbyte)
MidiHandle(f, b) ==
    CASE f.state = "HANDLE CHANNEL MSG" -> MidiChannel(f, b)
      [] f.state = "HANDLE SYSEX MSG" /\ b.v = \hf7 -> MidiSysex(f)
      [] f.state = "HANDLE SYSCOMMON MSG" -> MidiSyscommon(f, b)
      [] OTHER -> [f |-> [f EXCEPT !.cmd = Append(@, b), !.status = 0, !.explicit = FALSE], anns |-> <<>>]

\* decode(), for a DATA packet with the byte v.
Midi(v) ==
    LET b == [at |-> Ss, v |-> v]
        begins == v >= 128 /\ v # \hf7
        flushed == IF begins /\ pd.state # "IDLE" THEN MidiFlush(pd) ELSE [f |-> pd, anns |-> <<>>]
        state == IF begins \/ pd.state \in {"IDLE", "BUFFER GARBAGE MSG"}
                 THEN MidiNextState(v, pd.status) ELSE pd.state
        f == [flushed.f EXCEPT !.state = state, !.es = Ss + Width,
                               !.ss_block = IF begins \/ pd.state = "IDLE" THEN Ss ELSE @]
        handled == MidiHandle(f, b)
    IN /\ UARTHand("midi", 0, TRUE)
       /\ IF v >= \hf8
          THEN Return([pd EXCEPT !.es = Ss + Width], <<P("sys-real", Ss, Ss + Width, {Ss})>>)
          ELSE Return(handled.f, flushed.anns \o handled.anns)

(* modbus: every byte parses its message (ADU) again, as far as it has come *)
(* and as a message of the server and of the client, on the channels that  *)
(* the options name; there is one channel, so both or one of them name it. *)

ModbusADU == [data |-> <<>>, last_byte_put |-> -1, hasError |-> FALSE]
Modbus0(sides) == [side \in sides |-> ModbusADU]
ModbusIdle(gap) == 10 * gap    \* bit times; a frame takes 10
ModbusTail == 2                \* about 3 bit times

\* A message: the last byte of each field, then up to which byte bytes are put one
\* by one, the last byte of the checksum, below which length it is reported as too
\* short, and the fields whose value is checked or is wrong.  A misspelt attribute
\* (mimumum_length) leaves most of them at the least length of all.
ModbusForm(fields, list, crc, short, checked, wrong) ==
    [fields |-> fields, list |-> list, crc |-> crc, short |-> short,
     checked |-> checked \cup {crc}, wrong |-> wrong]
ModbusEndless(wrong) == ModbusForm(<<0, 1>>, 256, 257, 4, {}, wrong)

\* The parsers both sides share.
ModbusCommon(function) ==
    CASE function \in {5, 6, 8} -> ModbusForm(<<0, 1, 3, 5>>, 0, 7, 8, {}, {})
      [] function = 22 -> ModbusForm(<<0, 1, 3, 5, 7>>, 0, 9, 10, {}, {})
      [] function \in {20, 21, 24, 43} -> ModbusEndless({})
      [] OTHER -> ModbusEndless(1..255)

\* Modbus_ADU_SC.parse(), with the byte count at 2.
ModbusSC(function, n) ==
    CASE function \in {1, 2} -> ModbusForm(<<0, 1, 2>>, n + 2, n + 4, n + 5, {}, {})
      [] function \in {3, 4, 23} ->
            ModbusForm(<<0, 1, 2>>, n + 2, n + 4, n + 5, {}, IF n % 2 = 1 THEN {2} ELSE {})
      [] function = 7 \/ function > 128 -> ModbusForm(<<0, 1, 2>>, 0, 4, 4, {}, {})
      [] function = 11 -> ModbusForm(<<0, 1, 3, 5>>, 0, 7, 4, {3}, {})
      [] function = 12 -> ModbusForm(<<0, 1, 2, 4, 6, 8>>, n + 2, n + 4, 4, {4}, {})
      [] function \in {15, 16} -> ModbusForm(<<0, 1, 3, 5>>, 0, 7, 4, {5}, {})
      [] function = 17 -> ModbusForm(<<0, 1, 2, 3, 4>>, n + 2, n + 4, 4, {4}, {})
      [] OTHER -> ModbusCommon(function)

\* Modbus_ADU_CS.parse(), with the byte counts at 6 and at 10.
ModbusCS(function, n, m) ==
    CASE function \in 1..4 -> ModbusForm(<<0, 1, 3, 5>>, 0, 7, 8, {}, {})
      [] function \in {7, 11, 12, 17} -> ModbusForm(<<0, 1>>, 0, 3, 4, {}, {})
      [] function \in {15, 16} -> ModbusForm(<<0, 1, 3, 5, 6>>, n + 6, n + 8, 4, {5, 6}, {})
      [] function = 23 -> ModbusForm(<<0, 1, 3, 5, 7, 9, 10>>, m + 10, m + 12, 13, {10}, {})
      [] OTHER -> ModbusCommon(function)

ModbusValue(data, i) == IF i < Len(data) THEN data[i + 1].v ELSE 0
ModbusFormOf(side, data) ==
    LET function == ModbusValue(data, 1)
    IN IF side = "sc" THEN ModbusSC(function, ModbusValue(data, 2))
                      ELSE ModbusCS(function, ModbusValue(data, 6), ModbusValue(data, 10))

\* parse(): puti() puts the bytes since the last one put, if the field has come;
\* registers (SC 3, 4, 23) wait for their second byte.
ModbusFieldEnd(side, adu, form) ==
    LET n == Len(adu.data)
        open == SelectSeq(form.fields, LAMBDA i : i > adu.last_byte_put)
        paired == side = "sc" /\ ModbusValue(adu.data, 1) \in {3, 4, 23}
    IN CASE open # <<>> -> open[1]
         [] paired /\ n % 2 = 0 -> n
         [] n - 1 <= form.list \/ form.crc <= adu.last_byte_put -> n - 1
         [] OTHER -> form.crc
ModbusParse(side, adu, good) ==
    LET form == ModbusFormOf(side, adu.data)
        end == ModbusFieldEnd(side, adu, form)
        overlong == end > form.list /\ end > form.crc /\ end \notin ToSet(form.fields)
        wrong == overlong \/ end \in form.wrong \/ (end \in form.checked /\ ~good)
        bytes == {adu.data[i].at : i \in (adu.last_byte_put + 2)..(end + 1)}
    IN IF end >= Len(adu.data) THEN [f |-> adu, anns |-> <<>>]
       ELSE [f |-> [adu EXCEPT !.last_byte_put = end, !.hasError = @ \/ wrong],
             anns |-> <<Span(side, adu.data[adu.last_byte_put + 2].at, adu.data[end + 1].at, bytes)>>]

\* close(): what is put at the end of a message, when the next one begins.
ModbusClose(side, adu) ==
    LET end == Last(adu.data).at + Width
        short == Len(adu.data) < ModbusFormOf(side, adu.data).short
    IN (IF short THEN <<P(side, adu.data[adu.last_byte_put + 1].at + Width, end + ModbusTail, {})>> ELSE <<>>)
       \o (IF (adu.hasError \/ short) /\ Cardinality(DOMAIN pd) = 1
           THEN <<P("error-indicators", adu.data[1].at, end, {})>> ELSE <<>>)

\* decode_adu(): a pause of 28 bits begins a message, one of 16.5 is an error.
ModbusDecode(side, v, gap, good) ==
    LET adu == pd[side]
        started == adu.data # <<>>
        ended == started /\ ModbusIdle(gap) > 28
        late == started /\ ~ended /\ ModbusIdle(gap) > 16
        f == IF ended THEN ModbusADU ELSE [adu EXCEPT !.hasError = @ \/ late]
        parsed == ModbusParse(side, [f EXCEPT !.data = Append(@, [at |-> UARTAt(gap), v |-> v])], good)
    IN [f |-> parsed.f,
        anns |-> (IF ended THEN ModbusClose(side, adu) ELSE <<>>)
                 \o (IF late THEN <<P(side, Last(adu.data).at + Width, UARTAt(gap), {})>> ELSE <<>>)
                 \o parsed.anns]
Modbus(v, gap, good) ==
    LET decoded == [side \in DOMAIN pd |-> ModbusDecode(side, v, gap, good)]
    IN /\ UARTHand("modbus", gap, TRUE)
       /\ Return([side \in DOMAIN pd |-> decoded[side].f],
                 FlattenSeq([i \in 1..Cardinality(DOMAIN pd) |->
                     decoded[SelectSeq(<<"sc", "cs">>, LAMBDA side : side \in DOMAIN pd)[i]].anns]))

(* amulet_ascii: commands to a display and its replies, each a command     *)
(* byte, two digits of address and a value.  What a handler does with the  *)
(* command byte itself (cmdstate 1) decides for most of them: it is all.   *)

AmuletIdle == -1
Amulet0 == [state |-> AmuletIdle, cmdstate |-> 0, ss_cmd |-> 0, ss_field |-> 0, addr |-> {}, first |-> "digit",
            value |-> {Unknown}]
AmuletHex(v) == v \in (48..57 \cup 65..70 \cup 97..102)
\* What int(.., 16) takes in a number of two characters.
AmuletKind(v) ==
    CASE AmuletHex(v) -> "digit"
      [] v \in 9..13 \cup 28..32 \cup {133, 160} -> "space"
      [] v \in {43, 45} -> "sign"
      [] OTHER -> "other"
AmuletNumber(a, b) == (b = "digit" /\ a # "other") \/ (b = "space" /\ a = "digit")

\* Get...: the whole command is taken to have come; the address is not waited for.
AmuletReads == {\hd0, \hd1, \hd2, \hd3, \hd8, \hdd, \hde, \he8, \hf4}
\* cmds_with_high_bytes
AmuletHighBytes == {\ha0, \hd7, \he7, \he2, \he3}
\* Handlers that use a name that does not exist, or take the command byte for a digit.
AmuletArrays == {\hdf, \hf2}
AmuletDrawings == {\hd9, \hda, \hdb}
AmuletReplies == {\he0, \he1, \he4}
AmuletDrawingReplies == {\he9, \hea, \heb}
AmuletArrayReplies == {\hed, \hee, \hef, \hf3}
AmuletBroken == AmuletArrays \cup AmuletDrawings \cup AmuletReplies \cup AmuletDrawingReplies
                \cup AmuletArrayReplies

\* putx(), putf(), putc()
AmuletPutx(row) == <<P(row, Ss, Ss + Width, {Ss})>>
AmuletPutf(f, shown) == <<P("fields", f.ss_field, Ss + Width, shown)>>
AmuletPutc(f, row) == <<P(row, f.ss_cmd, Ss + Width, {f.ss_cmd})>>

\* emit_addr_bytes(pdata): two hexadecimal digits at cmdstate 2 and 3.
AmuletAddr(f) ==
    CASE f.cmdstate = 2 -> AmuletPutx("bits")
      [] f.cmdstate = 3 -> AmuletPutx("bits") \o AmuletPutf(f, f.addr \cup {Ss})
      [] OTHER -> <<>>
\* How addr, the start of the field and the value go on with the byte v.
AmuletTake(f, v) ==
    [f EXCEPT !.cmdstate = @ + 1,
              !.ss_field = IF f.cmdstate \in {2, 4} THEN Ss ELSE @,
              !.addr = IF f.cmdstate = 2 THEN {Ss} ELSE @,
              !.first = IF f.cmdstate = 2 THEN AmuletKind(v) ELSE @,
              !.value = CASE f.cmdstate = 4 -> {Ss} [] f.cmdstate > 4 -> @ \cup {Ss} [] OTHER -> @]
AmuletMisread(f, v) == f.cmdstate = 3 /\ ~AmuletNumber(f.first, AmuletKind(v))

AmuletEnd(g, anns) == Return([g EXCEPT !.state = AmuletIdle], anns \o AmuletPutc(g, "commands"))

\* handle_page(pdata): the list page does not exist.
AmuletPage(f, v, before) ==
    CASE f.cmdstate = 1 -> Return([f EXCEPT !.cmdstate = 2], before)
      [] f.cmdstate = 2 /\ v = 2 -> Return([f EXCEPT !.cmdstate = 3, !.ss_field = f.ss_cmd],
                                           <<P("fields", f.ss_cmd, Ss + Width, {f.ss_cmd})>>)
      [] f.cmdstate = 2 /\ v # 2 -> Return([f EXCEPT !.state = AmuletIdle, !.cmdstate = 3], AmuletPutx("warnings"))
      [] OTHER -> Fail(<<>>)

\* handle_read(data), called by the commands of AmuletReads
AmuletRead(f, before) == AmuletEnd([f EXCEPT !.cmdstate = 2], before \o AmuletPutx("fields"))

\* handle_sbv and handle_sbvr, with 2 digits; handle_swv and handle_swvr, with 4,
\* which the first of them checks.
AmuletSet(f, v, before, digits, checked) ==
    LET g == AmuletTake(f, v)
    IN CASE AmuletMisread(f, v) -> Fail(<<>>)
         [] checked /\ f.cmdstate > 3 /\ ~AmuletHex(v) -> Fail(<<>>)
         [] f.cmdstate = 3 + digits -> AmuletEnd(g, AmuletPutf(g, g.value))
         [] OTHER -> Return(g, before \o AmuletAddr(f))

\* handle_string(pdata): a zero ends the string, be it in place of the address.
AmuletString(f, v, before) ==
    LET g == AmuletTake(f, v)
        value == CASE f.cmdstate = 4 -> {} [] OTHER -> f.value
    IN CASE AmuletMisread(f, v) -> Fail(<<>>)
         [] v = 0 /\ Unknown \in value -> Fail(AmuletAddr(f) \o AmuletPutx("bits"))
         [] v = 0 /\ Unknown \notin value ->
               AmuletEnd([g EXCEPT !.value = value], AmuletAddr(f) \o AmuletPutx("bits") \o AmuletPutf(g, value))
         [] OTHER -> Return(g, before \o AmuletAddr(f) \o (IF f.cmdstate > 3 THEN AmuletPutx("bits") ELSE <<>>))

\* handle_gcvr, handle_scv and handle_scvr
AmuletColor(f, before) ==
    IF f.cmdstate = 8 THEN AmuletEnd([f EXCEPT !.cmdstate = 9], AmuletPutc(f, "warnings"))
    ELSE Return([f EXCEPT !.cmdstate = @ + 1], before)

\* decode(): a byte of a command aborts one whose values are digits.
AmuletAscii(v) ==
    LET aborted == pd.state # AmuletIdle /\ v \in \hd0..\hf7 /\ pd.state \notin AmuletHighBytes
        begins == aborted \/ pd.state = AmuletIdle
        f == IF begins THEN [pd EXCEPT !.state = v, !.cmdstate = 1, !.ss_cmd = Ss] ELSE pd
        before == (IF aborted THEN AmuletPutx("warnings") ELSE <<>>)
                  \o (IF begins THEN AmuletPutx("fields") ELSE <<>>)
    IN /\ UARTHand("amulet_ascii", 0, TRUE)
       /\ CASE f.state \notin {\ha0} \cup \hd0..\hf7 ->
                  Return([pd EXCEPT !.ss_cmd = Ss], AmuletPutx("warnings"))
            [] f.state = \ha0 -> AmuletPage(f, v, before)
            [] f.state \in AmuletReads -> AmuletRead(f, before)
            [] f.state = \hd4 -> Return(f, before)   \* handle_grpc never counts
            [] f.state \in {\hd5, \he5} -> AmuletSet(f, v, before, 2, FALSE)
            [] f.state \in {\hd6, \he6} -> AmuletSet(f, v, before, 4, f.state = \hd6)
            [] f.state \in {\hd7, \he2, \he3, \he7} -> AmuletString(f, v, before)
            [] f.state \in {\hf5, \hf6, \hf7} -> AmuletColor(f, before)
            [] f.state \in {\hdc, \hec} -> Return([f EXCEPT !.state = AmuletIdle], before \o AmuletPutc(f, "warnings"))
            [] f.state \in {\hf0, \hf1} -> Return([f EXCEPT !.state = AmuletIdle], before \o AmuletPutx("commands"))
            [] f.state \in AmuletBroken -> Fail(before)
=============================================================================
