------------------------------ MODULE UARTBuses ------------------------------
(***************************************************************************)
(* Scripts for serial buses whose frames are set apart by breaks: LIN and  *)
(* Futaba SBUS; for the replies of the Bluetooth module PAN1321, and for   *)
(* fast charging (UFCS).                                                   *)
(***************************************************************************)
EXTENDS UARTPackets

(* lin: header and response are collected until the next break, whose null *)
(* byte has come as data before it and is taken off the end.               *)

LinBlank == [header |-> <<>>, rsp |-> <<>>]
Lin0 == [state |-> "WAIT_FOR_BREAK", done_break |-> FALSE] @@ LinBlank

\* LinFsm
LinAllowed == [
    WAIT_FOR_BREAK |-> {"SYNC"}, SYNC |-> {"PID"}, PID |-> {"DATA"}, DATA |-> {"DATA", "CHECKSUM"},
    CHECKSUM |-> {"WAIT_FOR_BREAK"}, ERROR |-> {"SYNC"}]
LinTransit(state, target) == IF target \in LinAllowed[state] THEN target ELSE state

LinPut(row, b) == <<Span(row, b.at, b.at, {b.at})>>

\* handle_checksum(); bad says whether the parity or the checksum is.
LinMessage(header, rsp, bad) ==
    LET wrong(what, b) == IF what \in bad THEN LinPut("error", b) ELSE <<>>
        sync == header[1]
        checksum == Last(rsp)
    IN LinPut("data", sync) \o (IF sync.v # \h55 THEN LinPut("error", sync) ELSE <<>>)
       \o (IF Len(header) > 1 THEN wrong("parity", header[2]) \o LinPut("data", header[2]) ELSE <<>>)
       \o (IF Len(rsp) > 1
           THEN FlattenSeq([i \in DOMAIN rsp |-> LinPut("data", rsp[i])]) \o wrong("checksum", checksum) ELSE <<>>)

\* handle_break(value): wipe_break_null_byte() takes a byte off the response or, if
\* there is none, off the header; a byte of the response must have been null.
LinBreak(bad) ==
    LET idle == pd.state \in {"WAIT_FOR_BREAK", "ERROR"}
        null == IF pd.rsp # <<>> THEN Last(pd.rsp).v = 0 ELSE TRUE
        header == IF pd.rsp = <<>> THEN Front(pd.header) ELSE pd.header
        rsp == IF pd.rsp = <<>> THEN <<>> ELSE Front(pd.rsp)
        break == P("data", UARTBreakSs, Ss + Width, {})
        sync == [state |-> "SYNC", done_break |-> TRUE]
    IN /\ UARTBreak("lin")
       /\ CASE idle -> Return(sync @@ pd, <<break>>)
            [] ~idle /\ ~null -> Return(sync @@ [header |-> header, rsp |-> rsp], <<break, break>>)
            [] ~idle /\ null /\ header = <<>> -> Fail(<<>>)
            [] OTHER -> Return(sync @@ LinBlank, LinMessage(header, rsp, bad) \o <<break>>)

\* handle_wait_for_break(value), handle_sync, handle_pid, handle_data, handle_error
LinByte(v, stop) ==
    LET b == [at |-> Ss, v |-> v]
        error == <<P("data", Ss, Ss + Width, {})>>
    IN /\ UARTHand("lin", 0, stop)
       /\ CASE pd.state = "WAIT_FOR_BREAK" /\ v = 0 -> Ignore
            [] pd.state = "WAIT_FOR_BREAK" /\ v # 0 -> Return([pd EXCEPT !.state = "ERROR"], error)
            [] pd.state = "ERROR" -> Return(pd, error)
            [] pd.state = "SYNC" ->
                  Become([pd EXCEPT !.state = LinTransit(@, "PID"), !.header = Append(@, b)])
            [] pd.state = "PID" ->
                  Become([pd EXCEPT !.state = LinTransit(@, "DATA"), !.header = Append(@, b)])
            [] pd.state = "DATA" -> Become([pd EXCEPT !.rsp = Append(@, b)])

\* end(): what has come since the last break.
LinEnd(bad) ==
    /\ line # "ended"
    /\ pd.done_break
    /\ pd.rsp # <<>>
    /\ HandRun("lin", 0, "ended")
    /\ Return(LinBlank @@ pd, LinMessage(pd.header, pd.rsp, bad))

Lin(v, stop, bad) ==
    /\ line # "ended"
    /\ LinByte(v, stop) \/ LinBreak(bad)

(* sbus_futaba: the bits of 25 bytes, cut into fields as they come.        *)

\* bits_accum, from the start of the message on, as the bytes the bits are of.
Sbus0 == [data |-> <<>>, sent_fields |-> 0, failed |-> FALSE]

\* The fields: header, 16 proportional channels, 2 digital ones, 2 flags, the
\* upper bits of the flags and the footer; where each starts, in bits.
SbusFields == 23
SbusStart[i \in 0..SbusFields] ==
    IF i = 0 THEN 0
    ELSE SbusStart[i - 1] + (CASE i - 1 \in {0, 22} -> 8 [] i - 1 \in 1..16 -> 11 [] i - 1 = 21 -> 4 [] OTHER -> 1)
SbusRow(i) == IF i \in 1..18 THEN "channels" ELSE "framing"
SbusBit(data, k) == data[(k \div 8) + 1].at + (k % 8)
SbusBytes(data, k, n) == {data[(j \div 8) + 1].at : j \in k..(k + n - 1)}

\* One field, and the warning that its value is not the expected one.
SbusField(data, i) ==
    LET first == SbusStart[i]
        n == SbusStart[i + 1] - first
        v == data[(first \div 8) + 1].v
        at(row) == <<P(row, SbusBit(data, first), SbusBit(data, first + n - 1) + 1, SbusBytes(data, first, n))>>
        wrong == (i = 0 /\ v # 15) \/ (i = 21 /\ v > 15) \/ (i = 22 /\ v # 0)
    IN (IF i = 21 THEN <<>> ELSE at(SbusRow(i))) \o (IF wrong THEN at("warnings") ELSE <<>>)

\* flush_accum_bits(): the fields that are complete.  200 bits are 25 bytes, so
\* that no bit is ever left over when the last field is.
SbusFlush(f) ==
    LET bits == 8 * Len(f.data)
        sent == CHOOSE n \in 0..SbusFields : SbusStart[n] <= bits /\ (n = SbusFields \/ SbusStart[n + 1] > bits)
        fields == [k \in 1..(sent - f.sent_fields) |-> SbusField(f.data, f.sent_fields + k - 1)]
    IN Return(IF sent = SbusFields THEN Sbus0 ELSE [f EXCEPT !.sent_fields = sent], FlattenSeq(fields))

\* decode(): DATA brings the bits, FRAME says whether they are valid.
SbusFrame(v, gap, valid) ==
    LET f == [pd EXCEPT !.data = Append(@, [at |-> UARTAt(gap), v |-> v])]
    IN /\ UARTHand("sbus_futaba", gap, valid)
       /\ IF pd.failed \/ ~valid THEN Become([f EXCEPT !.failed = TRUE]) ELSE SbusFlush(f)

\* handle_break(): warns of the bits no field was made of, and of the break.
SbusBreak ==
    LET left == SbusStart[pd.sent_fields]
    IN /\ UARTBreak("sbus_futaba")
       /\ Return(Sbus0, <<P("warnings", SbusBit(pd.data, left), Last(pd.data).at + Width, {}),
                          P("warnings", UARTBreakSs, Ss + Width, {})>>)

Sbus(v, gap, valid) == SbusFrame(v, gap, valid) \/ SbusBreak

(* pan1321: replies of the module; commands of the host come on channel 1, *)
(* which does not exist.                                                   *)

Pan0 == [cmd |-> <<>>]
Pan1321(v) ==
    LET cmd == Append(pd.cmd, [at |-> Ss, v |-> v])
        n == Len(cmd)
        complete == n > 1 /\ cmd[n - 1].v = 13 /\ cmd[n].v = 10
        reply == Span("text", cmd[1].at, Ss, {cmd[i].at : i \in 1..(n - 2)})
    IN /\ UARTHand("pan1321", 0, TRUE)
       /\ IF complete THEN Return(Pan0, <<reply, reply>>) ELSE Become([cmd |-> cmd])

(* ufcs: a start byte, a header of two bytes, the command, and in a data   *)
(* message the length and the data, then the checksum; the option fulltext *)
(* keeps its default.                                                      *)

Ufcs0 == [datapkt |-> <<>>, plen |-> 0]
UfcsSOP == \haa

\* data_len(): the header says it in three bits, decode() looks at one of them.
UfcsLength(d) == IF d[2].v % 8 = 1 THEN d[4].v ELSE 0
UfcsSpan(row, d, first, last) == Span(row, d[first].at, d[last].at, {d[i].at : i \in first..last})

\* get_source_cap(): a power object in every eight bytes.
UfcsCaps(d) ==
    FlattenSeq([k \in 1..(UfcsLength(d) \div 8) |->
        <<UfcsSpan("phase", d, 8 * k - 3, 8 * k + 4), UfcsSpan("payload", d, 8 * k - 3, 8 * k + 4)>>])

\* get_request(), get_src_info() to get_cable_info(): eight bytes from the fifth;
\* get_error_info() four, config_watchdog() two; none of a test request.  The checksum
\* is among the bytes of the packet.
UfcsReads(type) ==
    CASE type \in 2..5 -> 8 [] type = 7 -> 4 [] type = 8 -> 2 [] OTHER -> 0

\* get_device_info(), refuse(), verify_request(), verify_response(): each uses a name
\* that does not exist or formats what is no number.
UfcsBroken == {6, 9, 10, 11}

\* decode_data_msg(): the data in hexadecimal and as a comment.
UfcsData(d) ==
    LET type == d[3].v
        shown == {d[i].at : i \in 5..(4 + UfcsReads(type))}
        at(row) == Span(row, d[5].at, d[4 + UfcsLength(d)].at, shown)
    IN IF UfcsLength(d) = 0 THEN <<>>
       ELSE IF type = 1 THEN UfcsCaps(d) ELSE <<at("phase"), at("payload")>>
UfcsFails(d) ==
    UfcsLength(d) > 0 /\ (d[3].v \in UfcsBroken \/ Len(d) < 4 + UfcsReads(d[3].v))

\* decode_pkt(), puthead(): the header, who sent it, the command and the length; the
\* data; the checksum, whose warning has no place of its own.
UfcsHead(d) ==
    <<UfcsSpan("phase", d, 1, 2), UfcsSpan("type", d, 1, 3), UfcsSpan("phase", d, 3, 3)>>
    \o (IF UfcsLength(d) > 0 THEN <<UfcsSpan("phase", d, 4, 4)>> ELSE <<>>)
UfcsPacket(d, good) ==
    UfcsHead(d) \o UfcsData(d)
    \o (IF good THEN <<>> ELSE <<P("payload", 0, Forever, {})>>) \o <<Span("phase", Ss, Ss, {Ss})>>

\* decode(): a start byte may as well be a byte of the data.
Ufcs(v, good) ==
    LET d == Append(pd.datapkt, [at |-> Ss, v |-> v])
        plen == IF Len(d) = 4 THEN IF d[2].v % 2 = 1 THEN v + 5 ELSE 4 ELSE pd.plen
    IN /\ UARTHand("ufcs", 0, TRUE)
       /\ CASE v = UfcsSOP -> Return(Ufcs0, <<Span("phase", Ss, Ss, {Ss})>>)
            [] v # UfcsSOP /\ Len(d) # plen -> Become([datapkt |-> d, plen |-> plen])
            [] v # UfcsSOP /\ Len(d) = plen /\ UfcsFails(d) -> Fail(UfcsHead(d))
            [] OTHER -> Return([datapkt |-> d, plen |-> plen], UfcsPacket(d, good))
=============================================================================
