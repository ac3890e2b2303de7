----------------------------- MODULE I2CMemories -----------------------------
(***************************************************************************)
(* I2C scripts of memories: a serial EEPROM, the EDID of a display, the    *)
(* management interface of an XFP module and an authentication chip.       *)
(***************************************************************************)
EXTENDS I2CPackets

(* eeprom24xx: the transfer is followed packet by packet and put when it   *)
(* ends; whatever does not fit sets the machine back.                      *)

\* lists.py: how the chips differ in what is decoded.
EepChips == {[addr_bytes |-> c[1], addr_pins |-> c[2], page_size |-> c[3]] :
    c \in {<<1, 0, 8>>, <<1, 2, 16>>, <<1, 3, 4>>, <<1, 3, 8>>, <<1, 3, 16>>,
           <<2, 2, 256>>, <<2, 3, 32>>, <<2, 3, 64>>}}
CONSTANT EepChip   \* the option chip
ASSUME EepChipAssumption == EepChip \in EepChips

\* reset_variables(): bytebuf is the data bytes among the packets, op stands
\* for the is_... flags.
EepBlank == [state |-> "WAIT FOR START", packets |-> <<>>, op |-> "none"]
Eep0 == EepBlank @@ [ss_block |-> 0]
EepReset == EepBlank @@ pd
EepBytes(packets) == SelectSeq(packets, LAMBDA p : p.data)

\* put_control_word(bits)
EepControlWord(at) ==
    <<Bits("bits-bytes", at, 7, 4)>>
    \o [i \in 1..EepChip.addr_pins |->
           LET pin == EepChip.addr_pins + 1 - i IN Bits("bits-bytes", at, pin, pin)]
    \o <<Bits("bits-bytes", at, 0, 0), Bits("fields", at, 7, 0)>>

\* put_word_addr(p); the address counter only enters texts.
EepWordAddr(packets) ==
    LET At(i) == packets[i].at
        n == EepChip.addr_bytes
    IN IF n = 1
       THEN <<Span("bits-bytes", At(2), At(2), {At(2)}), Span("fields", At(2), At(2), {})>>
       ELSE <<Span("bits-bytes", At(2), At(2), {At(2)}), Span("bits-bytes", At(3), At(3), {At(3)}),
              Span("fields", At(2), At(3), {})>>

\* put_data_bytes(idx, ...), for an idx that counts from 1.
EepDataBytes(packets, idx) ==
    LET data == SubSeq(packets, idx, Len(packets))
        bytes == EepBytes(packets)
        shown == {bytes[i].at : i \in (EepChip.addr_bytes + 1)..Len(bytes)}
    IN [i \in DOMAIN data |-> Span("bits-bytes", data[i].at, data[i].at, {data[i].at})]
       \o <<Span("fields", data[1].at, Last(data).at, {}), P("ops", pd.ss_block, Ss, shown)>>

EepWarning(es) == <<P("warnings", pd.ss_block, es, {})>>

\* The warnings after a page write.
EepPageWarnings(packets) ==
    LET address == IF EepChip.addr_bytes = 1 THEN packets[2].v
                                             ELSE 256 * packets[2].v + packets[3].v
        n == Len(packets) - 1 - EepChip.addr_bytes
    IN (IF n > EepChip.page_size THEN EepWarning(Ss) ELSE <<>>)
       \o (IF address \div EepChip.page_size # (address + n - 1) \div EepChip.page_size
           THEN EepWarning(Ss) ELSE <<>>)

\* put_operation(): the annotations, and whether an index runs out of the list.
EepOperation(op) ==
    LET packets == pd.packets
        n == EepChip.addr_bytes
        written == op \in {"byte write", "page write"}
        first == IF written THEN n + 2 ELSE n + 3
        Again == IF written THEN <<>> ELSE EepControlWord(packets[n + 2].at)
    IN CASE op = "none" -> [anns |-> <<>>, raises |-> FALSE]
         [] op = "cur addr read" ->
                [anns |-> <<Span("bits-bytes", packets[2].at, packets[2].at, {packets[2].at}),
                            Span("fields", packets[2].at, Last(packets).at, {}),
                            P("ops", pd.ss_block, Ss, {EepBytes(packets)[1].at})>>,
                 raises |-> FALSE]
         [] OTHER ->
                IF first > Len(packets)
                THEN [anns |-> Again \o EepWordAddr(packets), raises |-> TRUE]
                ELSE [anns |-> Again \o EepWordAddr(packets) \o EepDataBytes(packets, first)
                               \o (IF op = "page write" THEN EepPageWarnings(packets) ELSE <<>>),
                      raises |-> FALSE]

EepPut(before, op, next) ==
    IF EepOperation(op).raises THEN Fail(before \o EepOperation(op).anns)
                               ELSE Return(next, before \o EepOperation(op).anns)

\* handle_...: <<state, packet, next state>>; an address or data byte is kept.
EepMoves == {
    <<"GET CONTROL WORD", "ADDRESS READ", "R GET ACK NACK AFTER CONTROL WORD">>,
    <<"GET CONTROL WORD", "ADDRESS WRITE", "W GET ACK NACK AFTER CONTROL WORD">>,
    <<"R GET ACK NACK AFTER CONTROL WORD", "ACK", "R GET WORD ADDR OR BYTE">>,
    <<"R GET WORD ADDR OR BYTE", "DATA READ", "R GET ACK NACK AFTER WORD ADDR OR BYTE">>,
    <<"R GET ACK NACK AFTER WORD ADDR OR BYTE", "ACK", "R GET RESTART">>,
    <<"R GET ACK NACK AFTER WORD ADDR OR BYTE", "NACK", "GET STOP AFTER LAST BYTE">>,
    <<"R GET RESTART", "RESTART", "R READ BYTE">>,
    <<"R READ BYTE", "DATA READ", "R GET ACK NACK AFTER BYTE WAS READ">>,
    <<"R GET ACK NACK AFTER BYTE WAS READ", "ACK", "R READ BYTE">>,
    <<"R GET ACK NACK AFTER BYTE WAS READ", "NACK", "GET STOP AFTER LAST BYTE">>,
    <<"W GET ACK NACK AFTER CONTROL WORD", "ACK", "W GET WORD ADDR">>,
    <<"W GET WORD ADDR", "DATA WRITE", "W GET ACK AFTER WORD ADDR">>,
    <<"W GET ACK AFTER WORD ADDR", "ACK", "W DETERMINE EEPROM READ OR WRITE">>,
    <<"W DETERMINE EEPROM READ OR WRITE", "START REPEAT", "R2 GET CONTROL WORD">>,
    <<"W DETERMINE EEPROM READ OR WRITE", "DATA WRITE", "W GET ACK NACK AFTER BYTE WAS WRITTEN">>,
    <<"W GET ACK NACK AFTER BYTE WAS WRITTEN", "ACK", "W WRITE BYTE">>,
    <<"W WRITE BYTE", "DATA WRITE", "W GET ACK NACK AFTER BYTE WAS WRITTEN">>,
    <<"W WRITE BYTE", "START REPEAT", "R2 GET CONTROL WORD">>,
    <<"R2 GET CONTROL WORD", "ADDRESS READ", "R2 GET ACK AFTER ADDR READ">>,
    <<"R2 GET ACK AFTER ADDR READ", "ACK", "R2 READ BYTE">>,
    <<"R2 READ BYTE", "DATA READ", "R2 GET ACK NACK AFTER BYTE WAS READ">>,
    <<"R2 GET ACK NACK AFTER BYTE WAS READ", "ACK", "R2 READ BYTE">>,
    <<"R2 GET ACK NACK AFTER BYTE WAS READ", "NACK", "GET STOP AFTER LAST BYTE">>}

\* Where a transfer ends with annotations; everything else resets.
EepAborts == {
    <<"R GET ACK NACK AFTER CONTROL WORD", "NACK">>, <<"W GET ACK NACK AFTER CONTROL WORD", "NACK">>,
    <<"R GET WORD ADDR OR BYTE", "STOP">>, <<"W GET WORD ADDR", "STOP">>}
EepEnds == {<<"W WRITE BYTE", "STOP">>, <<"R2 READ BYTE", "STOP">>,
    <<"GET STOP AFTER LAST BYTE", "STOP">>, <<"GET STOP AFTER LAST BYTE", "START REPEAT">>}

\* is_... flags: of a write at its STOP, and decide_on_seq_or_rnd_read().
EepWriteOp == LET n == Len(EepBytes(pd.packets))
              IN IF n < 2 THEN "none" ELSE IF n = 2 THEN "byte write" ELSE "page write"
EepReadOp == LET n == Len(EepBytes(pd.packets))
             IN IF n < 2 THEN "none" ELSE IF n = 2 THEN "random read" ELSE "seq random read"

EepMove(q) ==
    \E m \in EepMoves :
        /\ m[1] = pd.state /\ m[2] = q.cmd
        /\ Return([pd EXCEPT
                !.state = m[3],
                !.packets = IF IsAddress(q) \/ IsData(q)
                            THEN Append(@, [at |-> Ss, data |-> IsData(q), v |-> q.v]) ELSE @,
                !.op = IF m[3] # "GET STOP AFTER LAST BYTE" THEN @
                       ELSE IF pd.state = "R GET ACK NACK AFTER WORD ADDR OR BYTE" THEN "cur addr read"
                       ELSE IF pd.state = "R2 GET ACK NACK AFTER BYTE WAS READ" THEN EepReadOp ELSE @],
              IF pd.state = "GET CONTROL WORD" THEN EepControlWord(Ss) ELSE <<>>)

Eeprom24xx(q) ==
    /\ I2CHand("eeprom24xx", q)
    /\ LET here == <<pd.state, q.cmd>> IN
       \/ /\ pd.state = "WAIT FOR START" /\ q.cmd \in {"START", "START REPEAT"}
          /\ Become([pd EXCEPT !.state = "GET CONTROL WORD", !.ss_block = Ss])
       \/ pd.state = "WAIT FOR START" /\ q.cmd \notin {"START", "START REPEAT"} /\ Ignore
       \/ EepMove(q)
       \/ here \in EepAborts /\ Return(EepReset, EepWarning(Es(q)))
       \/ here = <<"W WRITE BYTE", "STOP">> /\ EepPut(<<>>, EepWriteOp, EepReset)
       \/ /\ here = <<"R2 READ BYTE", "STOP">>
          /\ EepPut(EepWarning(Ss), EepReadOp, EepReset)
       \/ /\ here = <<"GET STOP AFTER LAST BYTE", "STOP">>
          /\ EepPut(<<>>, pd.op, EepReset)
       \/ /\ here = <<"GET STOP AFTER LAST BYTE", "START REPEAT">>
          /\ EepPut(EepWarning(Ss), pd.op,
                    [EepReset EXCEPT !.state = "GET CONTROL WORD", !.ss_block = Ss])
       \/ /\ pd.state # "WAIT FOR START"
          /\ here \notin EepAborts \cup EepEnds \cup {<<m[1], m[2]>> : m \in EepMoves}
          /\ Become(EepReset)

-----------------------------------------------------------------------------
(* xfp: only the bytes read count.  They are collected up to the end of a  *)
(* field of the memory map, and the field's handler puts them; the number  *)
(* of bytes read so far is the address, in whichever transfer they came.   *)
(* One step stands for all the bytes of a field.                           *)

\* MAP_LOWER_MEMORY and MAP_HIGH_TABLE_1, by the last byte of a field: always
\* put, put unless blank, never put, or put piece by piece.
XfpLower ==
    {0, 95, 111} \X {"always"} \cup {1, 59, 71, 75, 79} \X {"unless blank"}
    \cup {69, 117, 118, 122, 126} \X {"never"}
    \cup {<<57, "alarms">>, <<109, "readouts">>, <<127, "page">>}
XfpHigh ==
    {128, 129, 138, 139, 140, 141, 142, 143, 144, 145, 146, 147, 164, 187, 189, 190, 220, 221}
        \X {"always"}
    \cup {163, 167, 183, 185, 211} \X {"unless blank"}
    \cup {191, 223} \X {"never"}
    \cup {<<130, "if known">>, <<195, "power">>, <<219, "date">>, <<222, "twice">>, <<255, "ascii">>}
XfpTexts == {163, 183, 185, 211}   \* decode('ascii')
XfpMap == XfpLower \cup (IF pd.cur_highmem_page = 1 THEN XfpHigh ELSE {})

Xfp0 == [cnt |-> -1, cur_highmem_page |-> 0]   \* the buffer is empty between fields

\* annotate(): the same span in both rows, showing the bytes at data.
XfpAnnotate(from, to, data) ==
    [i \in 1..2 |-> Span(<<"field-names-and-vals", "field-vals">>[i],
                         Width * from, Width * to, {Width * n : n \in data})]
\* The pairs of bytes at idxs of a field, put where the field is taken to start.
XfpPairs(start, taken, idxs) ==
    FlattenSeq([i \in DOMAIN idxs |->
        XfpAnnotate(taken + idxs[i], taken + idxs[i] + 1, {start + idxs[i], start + idxs[i] + 1})])
XfpEvens(lo, hi) == [i \in 1..((hi - lo) \div 2 + 1) |-> lo + 2 * (i - 1)]

\* What the handler of the field from start to end puts, its bytes being blank,
\* filled, or filled with what cannot be shown.
XfpField(kind, start, end, content) ==
    LET whole == XfpAnnotate(start, end, start..end)
        Yes(anns) == [anns |-> anns, raises |-> FALSE]
        No(anns) == [anns |-> anns, raises |-> TRUE]
        If(test, anns) == Yes(IF test THEN anns ELSE <<>>)
    IN CASE end \in XfpTexts /\ content = "odd" -> No(<<>>)
         [] kind = "unless blank" -> If(content # "blank", whole)
         [] kind = "if known" -> If(content = "filled", whole)
         [] kind \in {"never", "page"} -> Yes(<<>>)
         \* The flags are put a byte too early; those above 38 are formatted wrongly.
         [] kind = "alarms" ->
                LET flags == XfpPairs(start, start - 1, XfpEvens(0, 6) \o XfpEvens(16, 38))
                IN IF content = "odd" THEN No(flags) ELSE If(content = "filled", flags)
         [] kind = "readouts" ->
                If(content # "blank", XfpPairs(start, start, <<0>> \o XfpEvens(4, 12)))
         [] kind = "power" ->
                Yes(FlattenSeq([i \in 1..6 |-> LET at == end + <<-3, -2, -1, -1, 0, 0>>[i]
                                               IN XfpAnnotate(at, at, {at})]))
         [] kind = "twice" -> Yes(whole \o whole)
         [] kind = "date" -> IF content = "filled" THEN Yes(whole) ELSE No(<<>>)
         \* Every character is put on the first byte.
         [] kind = "ascii" ->
                If(content = "filled",
                   FlattenSeq([i \in 1..(end - start + 1) |->
                       XfpAnnotate(start, start, {start + i - 1})]))
         [] OTHER -> Yes(whole)

\* The bytes up to the end of the next field, or one past the mapped memory.
Xfp(content) ==
    LET next == {f \in XfpMap : f[1] > pd.cnt}
        field == CHOOSE f \in next : \A g \in next : f[1] <= g[1]
        end == field[1]
        page == IF field[2] # "page" THEN pd.cur_highmem_page
                ELSE IF content = "filled" THEN 1 ELSE 0
        result == XfpField(field[2], pd.cnt + 1, end, content)
    IN \/ /\ script = "xfp" /\ next = {}
          /\ HandRun("xfp", 1, line)
          /\ Become([pd EXCEPT !.cnt = @ + 1])
       \/ /\ script = "xfp" /\ next # {}
          /\ HandRun("xfp", end - pd.cnt, line)
          /\ IF result.raises THEN Fail(result.anns)
             ELSE Return([cnt |-> end, cur_highmem_page |-> page], result.anns)

-----------------------------------------------------------------------------
(* atsha204a: the bytes of a transfer are collected and put at its STOP.   *)

ShaCommand == 3
ShaWordAddr == 0..3
ShaOpcodes == {\h01, \h02, \h08, \h11, \h12, \h15, \h16, \h17, \h1b, \h1c, \h20, \h24, \h28,
               \h30, \h40, \h41, \h43, \h45, \h46, \h47}
ShaStatus == {0, 1, 3, \h0f, \h11, \hff}
Sha0 == [state |-> "IDLE", waddr |-> -1, bytes |-> <<>>]

\* A put() of bytes i to j of a frame b, and one that looks a name up that it
\* may not have; both need the bytes to be there.
ShaBytes(b, row, i, j) ==
    [ok |-> j <= Len(b) /\ i \in 1..Len(b),
     ann |-> <<row, i, j>>]
ShaNamed(b, row, i, known) == [ShaBytes(b, row, i, i) EXCEPT !.ok = @ /\ b[i].v \in known]

\* put_param1: the zones have names.
ShaZones(op) == IF op = \h15 THEN 0..2 ELSE IF op \in {\h02, \h12} THEN {v \in 0..255 : v % 4 # 3}
                ELSE 0..255

\* put_data(s): the parts of n bytes of data by opcode.
ShaParts(op, n) ==
    CASE op = \h28 -> <<<<1, 32>>, <<33, 64>>, <<65, 77>>>>
      [] op \in {\h1c, \h08} -> <<<<1, 32>>>>
      [] op = \h43 -> <<<<1, 32>>, <<33, 64>>>>
      [] op \in {\h15, \h40} -> <<<<1, 4>>>>
      [] op = \h46 -> IF n > 36 THEN <<<<1, n - 34>>, <<n - 31, n>>>> ELSE <<<<1, n>>>>
      [] op = \h45 -> (IF n >= 64 THEN <<<<1, 32>>, <<33, 64>>>> ELSE <<>>)
                      \o (IF n = 83 THEN <<<<65, 83>>>> ELSE <<>>)
                      \o (IF n = 128 THEN <<<<65, 96>>, <<97, 128>>>> ELSE <<>>)
      [] op = \h12 -> IF n > 32 THEN <<<<1, n - 30>>, <<n - 31, n>>>> ELSE <<<<1, n>>>>
      [] OTHER -> <<<<1, n>>>>
ShaData(b, op, from) ==
    LET n == Len(b) - 1 - from
    IN IF n <= 0 THEN <<>>
       ELSE [i \in DOMAIN ShaParts(op, n) |->
                LET part == ShaParts(op, n)[i]
                IN [ok |-> part[2] <= n, ann |-> <<"frame", from + part[1] - 1, from + part[2] - 1>>]]

\* output_tx_bytes, output_rx_bytes: what is put, in order.
ShaTx(b) ==
    LET op == b[3].v IN
    IF Len(b) = 0 THEN <<>>
    ELSE <<ShaNamed(b, "frame", 1, ShaWordAddr)>> \o
         (IF b[1].v # ShaCommand THEN <<>>
          ELSE <<ShaBytes(b, "frame", 2, 2)>> \o
               (IF Len(b) = 1 THEN <<>>
                ELSE IF Len(b) - 1 # b[2].v THEN <<ShaBytes(b, "warnings", 1, Len(b))>>
                ELSE <<ShaNamed(b, "frame", 3, ShaOpcodes)>> \o
                     (IF Len(b) = 2 THEN <<>>
                      ELSE <<ShaNamed(b, "frame", 4, ShaZones(op)), ShaBytes(b, "frame", 5, 6)>>
                           \o ShaData(b, op, 7)
                           \o <<ShaBytes(b, "frame", Len(b) - 1, Len(b))>>)))
ShaRx(b) ==
    LET status == <<ShaBytes(b, "frame", 2, 2), ShaBytes(b, "frame", 3, 4),
                    [ok |-> Len(b) > 1 /\ b[2].v \in ShaStatus, ann |-> <<"status", 1, Len(b)>>]>>
    IN <<ShaBytes(b, "frame", 1, 1)>> \o
       (IF pd.waddr = 0 \/ (pd.waddr = ShaCommand /\ b[1].v = 4) THEN status
        ELSE IF pd.waddr = ShaCommand
        THEN ShaData(b, -1, 2) \o <<ShaBytes(b, "frame", Len(b) - 1, Len(b))>>
        ELSE <<>>)

\* All of it, or what comes before the first that fails.
ShaPut(b, puts, next) ==
    LET bad == {i \in DOMAIN puts : ~puts[i].ok}
        Ann(a) == Span(a[1], b[a[2]].at, b[a[3]].at, {b[i].at : i \in a[2]..a[3]})
        Anns(n) == [i \in 1..n |-> Ann(puts[i].ann)]
    IN IF bad = {} THEN Return(next, Anns(Len(puts)))
       ELSE Fail(Anns((CHOOSE i \in bad : \A j \in bad : i <= j) - 1))

Atsha204a(q) ==
    /\ I2CHandRun("atsha204a", q, "ended")
    /\ LET kept == pd.bytes \o [i \in DOMAIN q.run |-> [at |-> Ss + Width * (i - 1), v |-> q.run[i]]]
           reading == pd.state = "READ REGS"
           writing == pd.state = "WRITE REGS"
       IN
       \/ pd.state = "IDLE" /\ q.cmd = "START" /\ Goto("GET SLAVE ADDR")
       \/ /\ pd.state = "GET SLAVE ADDR" /\ IsAddress(q)
          /\ Goto(IF q.cmd = "ADDRESS READ" THEN "READ REGS" ELSE "WRITE REGS")
       \/ /\ \/ reading /\ q.cmd = "DATA READ"
             \/ writing /\ q.cmd = "DATA WRITE"
          /\ Become([pd EXCEPT !.bytes = kept])
       \/ /\ reading /\ q.cmd = "STOP"
          /\ ShaPut(pd.bytes, IF pd.bytes = <<>> THEN <<>> ELSE ShaRx(pd.bytes), Sha0)
       \/ /\ writing /\ q.cmd = "STOP"
          /\ ShaPut(pd.bytes, ShaTx(pd.bytes),
                    [Sha0 EXCEPT !.waddr = IF pd.bytes = <<>> THEN pd.waddr ELSE pd.bytes[1].v])
       \/ /\ \/ pd.state = "IDLE" /\ q.cmd # "START"
             \/ pd.state = "GET SLAVE ADDR" /\ ~IsAddress(q)
             \/ reading /\ q.cmd \notin {"DATA READ", "STOP"}
             \/ writing /\ q.cmd \notin {"DATA WRITE", "STOP"}
          /\ Ignore

-----------------------------------------------------------------------------
(* edid: the bytes read are collected behind the offset that was written;  *)
(* the base block is found by its header and put section by section, the   *)
(* first extension block at its own offsets.  Bytes are counted from 1.    *)

EdidSlave == \h50
EdidEnds == {18, 20, 25, 35, 38, 54, 126, 127, 128}
CONSTANTS
    EdidDescriptors,     \* the kinds of descriptor in a rich base block
    EdidExtensionBlock   \* [dtd, dtds, blocks]: where the descriptors of an extension
                         \* start, how many it has, the <<tag, length>> its bytes from
                         \* the fifth on parse into
Edid0 == [state |-> "None", cnt |-> 0, sn |-> <<>>, extension |-> 0, ext_sn |-> <<>>,
          ss |-> 0, preferred |-> FALSE]

\* put() over bytes i to j of sn, showing them; ann_field is the "fields" row.
EdidPut(row, sn, i, j) == Span(row, sn[i], sn[j], {sn[k] : k \in i..j})
EdidFields(sn, spans) == [i \in DOMAIN spans |-> EdidPut("fields", sn, spans[i][1], spans[i][2])]
EdidSection(sn, i, j) == <<P("sections", sn[i], sn[j] + Width, {})>>

\* decode_descriptors, of the 18 bytes from i on.
EdidDescriptor(sn, i, kind) ==
    LET section == EdidSection(sn, i, i + 17)
        Fields(spans) == EdidFields(sn, [k \in DOMAIN spans |-> <<i + spans[k][1], i + spans[k][2]>>])
        flags == Fields(<<<<0, 1>>, <<2, 2>>, <<3, 3>>, <<4, 4>>>>)
    IN CASE kind = "timing" ->
                section \o Fields(<<<<0, 1>>, <<2, 4>>, <<5, 7>>, <<8, 11>>, <<12, 14>>, <<15, 15>>,
                                    <<16, 16>>, <<17, 17>>>>)
         [] kind = "text" -> flags \o section \o Fields(<<<<5, 17>>>>)
         [] kind = "limits" ->
                flags \o section \o Fields(<<<<5, 5>>, <<6, 6>>, <<7, 7>>, <<8, 8>>, <<9, 9>>,
                                            <<10, 10>>, <<11, 17>>>>)
         [] kind = "other" -> flags \o section
         [] OTHER -> <<>>

\* The sections of the base block; rich tells whether optional fields are there.
EdidBase(sn, end, rich) ==
    LET Optional(spans) == IF rich THEN EdidFields(sn, spans) ELSE <<>>
    IN CASE end = 18 -> EdidFields(sn, <<<<9, 10>>, <<11, 12>>, <<13, 16>>, <<17, 18>>>>)
                            \o EdidSection(sn, 9, 18)
         [] end = 20 -> EdidSection(sn, 19, 20) \o EdidFields(sn, <<<<19, 19>>, <<20, 20>>>>)
         [] end = 25 -> EdidSection(sn, 21, 25) \o EdidFields(sn, <<<<21, 21>>>>)
                            \o Optional(<<<<22, 23>>, <<24, 24>>>>) \o EdidFields(sn, <<<<25, 25>>>>)
         [] end = 35 -> EdidSection(sn, 26, 35) \o EdidFields(sn, [i \in 1..4 |-> <<26, 35>>])
         [] end = 38 -> EdidSection(sn, 36, 38) \o Optional(<<<<36, 38>>>>)
         [] end = 54 -> EdidSection(sn, 39, 54) \o Optional(<<<<39, 54>>>>)
         [] end = 126 -> FlattenSeq([i \in 1..4 |->
                             EdidDescriptor(sn, 37 + 18 * i, IF rich THEN EdidDescriptors[i] ELSE "timing")])
         [] OTHER -> EdidFields(sn, <<<<end, end>>>>)

\* decode_data_block of the bytes i to j: fields, and whether it ends well.
EdidDataBlock(sn, tag, i, j) ==
    LET n == j - i + 1
        least == CASE tag = 1 -> 4 [] tag = 3 -> 6 [] tag = 4 -> 3 [] tag = 7 -> 2 [] OTHER -> 1
        ext == IF tag = 7 THEN 1 ELSE 0
        code == IF i + ext <= Len(sn) THEN EdidFields(sn, <<<<i, i + ext>>>>) ELSE <<>>
    IN IF n < least \/ i + ext > Len(sn) THEN [anns |-> <<>>, ok |-> FALSE]
       ELSE IF i + 1 + ext > Len(sn) THEN [anns |-> code, ok |-> FALSE]
       ELSE [anns |-> code \o EdidFields(sn, <<<<i + 1 + ext, j>>>>), ok |-> TRUE]

\* decode_data_block_collection: the blocks up to the end of sn, the last one
\* cut off there; a length of 31 bytes is taken for 0 and never passed.
EdidBlocks(sn, blocks) ==
    LET Start(k) == 5 + FoldLeft(LAMBDA a, b : a + 1 + b[2], 0, SubSeq(blocks, 1, k - 1))
        End(k) == IF Start(k) + blocks[k][2] <= Len(sn) THEN Start(k) + blocks[k][2] ELSE Len(sn)
        there == {k \in DOMAIN blocks : Start(k) <= Len(sn)}
        Result(k) == EdidDataBlock(sn, blocks[k][1], Start(k), End(k))
        bad == {k \in there : blocks[k][2] = 31 \/ ~Result(k).ok}
        last == IF bad = {} THEN Cardinality(there) ELSE CHOOSE k \in bad : \A m \in bad : k <= m
    IN [anns |-> FlattenSeq([k \in 1..last |-> Result(k).anns]),
        outcome |-> IF bad = {} THEN "returned" ELSE IF blocks[last][2] = 31 THEN "endless" ELSE "raised"]

\* A byte of an extension block is in; bytes of an earlier pass come first.
EdidExtension(next) ==
    LET cnt == next.cnt
        sn == next.ext_sn
        e == EdidExtensionBlock
        end == Ss + Width * (cnt - pd.cnt - 1)   \* the byte just read
        Here(row) == P(row, end, end + Width, {sn[cnt]})
        Since(i) == P("sections", sn[i], end + Width, {})
        beyond == cnt - e.dtd
        dtd == beyond % 18 = 0 /\ beyond \div 18 <= e.dtds
        blocks == EdidBlocks(sn, e.blocks)
    IN CASE cnt > Len(sn) -> Fail(<<>>)
         [] cnt = 1 -> Return(next, <<Here("sections")>>)
         [] cnt \in 2..4 -> Return(next, <<Here("sections"), Here("fields")>>)
         [] cnt > 4 /\ cnt = e.dtd ->
                CASE blocks.outcome = "returned" -> Return(next, <<Since(5)>> \o blocks.anns)
                  [] blocks.outcome = "raised" -> Fail(<<Since(5)>> \o blocks.anns)
                  [] OTHER -> Hang
         [] cnt > 4 /\ cnt > e.dtd /\ dtd /\ pd.preferred ->
                Return(next, <<Since(cnt - 17)>> \o EdidDescriptor(sn, Len(sn) - 17, "timing"))
         [] cnt > 4 /\ cnt > e.dtd /\ dtd /\ ~pd.preferred -> Fail(<<Since(cnt - 17)>>)
         [] cnt > e.dtd /\ beyond % 18 # 0 /\ cnt = 127 ->
                Return(next, <<Since(e.dtd + e.dtds * 18 + 1)>>)
         [] cnt > e.dtd /\ beyond % 18 # 0 /\ cnt = 128 -> Return(next, <<Here("fields")>>)
         [] OTHER -> Become(next)
EdidExtensionEnds ==
    1..4 \cup {EdidExtensionBlock.dtd, 127, 128}
    \cup {EdidExtensionBlock.dtd + 18 * i : i \in 1..EdidExtensionBlock.dtds}

\* n bytes are read, up to where the script acts; of a base block they may be its header, or all of the header
\* but the first byte (the filler in front of an offset is 0 as well).
EdidRead(n, content) ==
    LET read == [i \in 1..n |-> Ss + Width * (i - 1)]
        cnt == pd.cnt + n
        next == IF pd.extension > 0
                THEN [pd EXCEPT !.cnt = cnt, !.ext_sn = @ \o read]
                ELSE [pd EXCEPT !.cnt = cnt, !.sn = @ \o read]
        Within(ends) == cnt \in ends /\ ~\E c \in ends : pd.cnt < c /\ c < cnt
        header == SubSeq(next.sn, Len(next.sn) - 7, Len(next.sn))
        Found == Return([next EXCEPT !.sn = header, !.cnt = 8, !.state = "edid"],
                        EdidSection(header, 1, 8) \o EdidFields(header, <<<<1, 8>>>>))
        searching == pd.state \in {"None", "header"}
    IN \/ (pd.state = "offset" \/ searching) /\ n = 1 /\ content = "plain" /\ Become(next)
       \/ searching /\ n = 8 /\ content = "header" /\ Found
       \/ /\ searching /\ n = 7 /\ content = "header" /\ Len(pd.sn) = 1 /\ pd.cnt = 1
          /\ IF header[1] = Unknown THEN Fail(<<>>) ELSE Found
       \/ /\ pd.state = "edid" /\ content \in {"plain", "rich"} /\ Within(EdidEnds)
          /\ Return([next EXCEPT !.state = IF cnt = 128 THEN "extensions" ELSE @,
                                 !.preferred = @ \/ cnt = 25],
                    EdidBase(next.sn, cnt, content = "rich"))
       \/ /\ pd.state = "extensions" /\ content = "plain"
          /\ Within(EdidExtensionEnds) \/ (n = 1 /\ pd.cnt >= 128)
          /\ EdidExtension(next)

\* The offset counts within the base block or the extension block.
EdidOffset(q) ==
    LET offset == q.run[1]
        cnt == offset % 128
        from == IF offset >= 128 THEN pd.ext_sn ELSE pd.sn
        sn == [i \in 1..cnt |-> IF i <= Len(from) THEN from[i] ELSE Unknown]
        start == IF pd.ss = 0 THEN Ss ELSE pd.ss
    IN Return([pd EXCEPT !.extension = offset \div 128, !.cnt = cnt, !.sn = sn],
              <<P("sections", start, Ss + Width, {Ss})>>)

\* Conditions and acknowledge bits change nothing in this script and are left
\* out: an offset may be written before each transfer that reads.
EdidInputs(a, runs) == {q \in I2CRuns(a, runs) : IsAddress(q) \/ IsData(q)}
EdidFollows == [
    idle    |-> {"ADDRESS READ", "ADDRESS WRITE"},
    offset  |-> {"DATA WRITE"},
    address |-> {"ADDRESS READ"},
    read    |-> {"DATA READ", "ADDRESS WRITE", "ADDRESS READ"}]
EdidHand(q) ==
    /\ script = "edid"
    /\ q.cmd \in EdidFollows[line]
    /\ HandRun("edid", IF IsData(q) THEN Len(q.run) ELSE 1,
               CASE q.cmd = "ADDRESS WRITE" -> "offset"
                 [] q.cmd = "DATA WRITE" -> "address"
                 [] OTHER -> "read")

Edid(q, content) ==
    /\ EdidHand(q)
    /\ LET chosen == IsAddress(q) /\ q.v = EdidSlave
           offset == q.cmd = "DATA WRITE" /\ pd.state = "offset"
       IN
       \/ /\ chosen /\ q.cmd = "ADDRESS WRITE"
          /\ Become([pd EXCEPT !.state = "offset", !.ss = Ss])
       \/ /\ chosen /\ q.cmd = "ADDRESS READ"
          /\ Return([pd EXCEPT !.state = IF pd.extension > 0 THEN "extensions" ELSE "header"],
                    <<Note("sections", q)>>)
       \/ offset /\ Len(q.run) = 1 /\ EdidOffset(q)
       \/ q.cmd = "DATA READ" /\ EdidRead(Len(q.run), content)
       \/ ~chosen /\ ~offset /\ q.cmd # "DATA READ" /\ Ignore
=============================================================================
