------------------------------ MODULE UARTTrace ------------------------------
(***************************************************************************)
(* Scripts for the trace output of ARM cores over a UART: the trace port's *)
(* frames (TPIU), the packets of the instrumentation trace (ITM) and those *)
(* of the instruction trace (ETM).  Without an .elf file no source         *)
(* locations are known.                                                    *)
(***************************************************************************)
EXTENDS UARTPackets

Ats(b) == {b[i].at : i \in DOMAIN b}
Values(b) == [i \in DOMAIN b |-> b[i].v]
LastOf(s, n) == IF Len(s) <= n THEN s ELSE SubSeq(s, Len(s) - n + 1, Len(s))

(* arm_tpiu: frames of 16 bytes, set apart by a pause or a synchronization *)
(* packet, carry the bytes of several streams; the option stream is 1 and  *)
(* sync_offset 0.                                                          *)

Tpiu0 == [buf |-> <<>>, syncbuf |-> <<>>, stream |-> 0, ss_stream |-> Unknown]
TpiuStream == 1
TpiuSync == <<255, 255, 255, 127>>

\* f is [stream, ss_stream, anns]: stream_changed(ss, stream), emit_byte(ss, es, byte)
TpiuChange(f, ss, stream) ==
    IF f.stream = stream THEN f
    ELSE [stream |-> stream, ss_stream |-> ss,
          anns |-> f.anns \o (IF f.stream = 0 THEN <<>> ELSE <<P("stream", f.ss_stream, ss, {})>>)]
TpiuEmit(f, b, shown) ==
    IF f.stream # TpiuStream THEN f
    ELSE [f EXCEPT !.anns = Append(@, Span("data", b.at, b.at, shown))]

\* process_frame(buf), for the two bytes i and i + 1: the first may name a stream,
\* whose turn comes after the second if its low bit in byte 16 is set.
TpiuPair(buf, f, i) ==
    LET id == buf[i].v % 2 = 1
        low == (buf[16].v \div (2 ^ (i \div 2))) % 2 = 1
        first == IF ~id THEN TpiuEmit(f, buf[i], {buf[i].at, buf[16].at})
                 ELSE IF ~low THEN TpiuChange(f, buf[i].at, buf[i].v \div 2) ELSE f
        second == IF i < 15 THEN TpiuEmit(first, buf[i + 1], {buf[i + 1].at}) ELSE first
    IN IF id /\ low THEN TpiuChange(second, buf[i + 1].at + Width, buf[i].v \div 2) ELSE second
TpiuFrame(buf) ==
    FoldLeft(LAMBDA f, i : TpiuPair(buf, f, i),
             [stream |-> pd.stream, ss_stream |-> pd.ss_stream, anns |-> <<>>],
             <<1, 3, 5, 7, 9, 11, 13, 15>>)

\* decode(), for a byte that comes after a gap.
ArmTpiu(v, gap) ==
    LET kept == IF gap > 1 THEN <<>> ELSE pd.buf
        buf == Append(kept, [at |-> UARTAt(gap), v |-> v])
        syncbuf == Append(LastOf(pd.syncbuf, 3), v)
        framed == TpiuFrame(buf)
    IN /\ UARTHand("arm_tpiu", gap, TRUE)
       /\ CASE syncbuf = TpiuSync -> Become([pd EXCEPT !.buf = <<>>, !.syncbuf = <<>>])
            [] syncbuf # TpiuSync /\ Len(buf) < 16 -> Become([pd EXCEPT !.buf = buf, !.syncbuf = syncbuf])
            [] OTHER -> Return([buf |-> <<>>, syncbuf |-> syncbuf, stream |-> framed.stream,
                                ss_stream |-> framed.ss_stream], framed.anns)

(* arm_itm: packets of up to five bytes.  Printable characters of software *)
(* packets are joined to texts per source.                                 *)

Itm0 == [buf |-> <<>>, syncbuf |-> <<>>, swpackets |-> <<>>, prev |-> 0, start |-> 0, mode |-> <<>>]
ItmPause == 16
ItmPrintable == 9..13 \cup 32..126

\* get_packet_type(byte); the types without a handler go to fallback().
ItmType(b) ==
    LET low == b % 16
    IN CASE b % 128 = 0 -> "sync"
         [] b = \h70 -> "overflow"
         [] low = 0 /\ b \notin {0, \h70, \h80} -> "timestamp"
         [] low \in {8, 12, 4} -> "extension"
         [] low \in {1, 2, 3, 9, 10, 11} -> "software"
         [] OTHER -> "hardware"
ItmLength(b) == CASE b % 4 = 1 -> 2 [] b % 4 = 2 -> 3 [] OTHER -> 5

\* put(startsample, es, ...) of a packet.
ItmPut(f, row) == <<P(row, f.start, f.prev, Ats(f.buf))>>
ItmDone(f, anns) == Return([f EXCEPT !.buf = <<>>], anns)

\* mode_change(new_mode)
ItmMode(f, mode) ==
    [f |-> [f EXCEPT !.mode = mode],
     anns |-> IF f.mode = <<>> THEN <<>> ELSE <<P("mode", f.mode[1].ss, f.start, f.mode[1].shown)>>]

\* handle_hardware(buf): pid 0 are events, 1 exceptions, 2 the program counter; then
\* watchpoints.  The length is the packet's own, not what the handler reads.
ItmHardware(f, before) ==
    LET b == f.buf[1].v
        pid == b \div 8
        event == f.buf[3].v \div 16
        changed == ItmMode(f, IF event = 2 THEN <<>>
                              ELSE <<[ss |-> f.start, shown |-> {f.buf[2].at, f.buf[3].at}]>>)
        watchpoint == b \in \h84..\hbf \/ b \in {\h47, \h57, \h67, \h77, \h4e, \h5e, \h6e, \h7e}
    IN CASE Len(f.buf) # ItmLength(b) -> Return(f, before)
         [] Len(f.buf) = ItmLength(b) /\ ((pid = 1 /\ b % 4 = 1) \/ (pid = 2 /\ b % 4 # 3)) -> Fail(before)
         [] OTHER ->
              CASE pid = 0 -> ItmDone(f, before \o ItmPut(f, "dwt_event"))
                [] pid = 1 /\ event \in 1..3 ->
                      ItmDone(changed.f, before \o changed.anns \o ItmPut(f, "dwt_exc"))
                [] pid = 2 -> ItmDone(f, before \o ItmPut(f, "dwt_pc"))
                [] pid > 2 /\ watchpoint -> ItmDone(f, before \o ItmPut(f, "dwt_watchpoint"))
                [] OTHER -> ItmDone(f, before \o ItmPut(f, "trace"))

\* add_delayed_sw(pid, c): a text goes on however long ago its last character was.
ItmAdd(f, pid) ==
    LET new == [pid |-> pid, open |-> TRUE, ss |-> f.start, es |-> f.prev, shown |-> {Last(f.buf).at}]
        known == {i \in DOMAIN f.swpackets : f.swpackets[i].pid = pid}
    IN IF known = {} THEN [f EXCEPT !.swpackets = Append(@, new)]
       ELSE LET i == CHOOSE k \in known : TRUE
                old == f.swpackets[i]
            IN [f EXCEPT !.swpackets[i] =
                    IF old.open THEN [old EXCEPT !.es = f.prev, !.shown = @ \cup new.shown] ELSE new]

\* push_delayed_sw(): puts the texts whose last character is long ago by then.
ItmPush(f) ==
    LET ended(p) == p.open /\ f.prev - p.es > ItmPause * Width
        texts == SelectSeq(f.swpackets, ended)
    IN [f |-> [f EXCEPT !.swpackets = [i \in DOMAIN @ |-> [@[i] EXCEPT !.open = @ /\ ~ended(f.swpackets[i])]]],
        anns |-> [i \in DOMAIN texts |-> P("software", texts[i].ss, texts[i].es, texts[i].shown)]]

\* handle_software(buf)
ItmSoftware(f, before) ==
    LET b == f.buf[1].v
        pushed == ItmPush(f)
    IN CASE Len(f.buf) # ItmLength(b) -> Return(f, before)
         [] ItmLength(b) = 2 /\ Len(f.buf) = 2 /\ Last(f.buf).v \in ItmPrintable ->
               ItmDone(ItmAdd(f, b \div 8), before)
         [] OTHER -> ItmDone(pushed.f, before \o pushed.anns \o ItmPut(f, "software"))

\* handle_timestamp(buf): the bytes but the last have their highest bit set.
ItmTimestamp(f, before) ==
    IF Last(f.buf).v >= 128 THEN Return(f, before) ELSE ItmDone(f, before \o ItmPut(f, "trace"))

\* decode(): a long pause pushes texts (before prevsample moves on) and drops what
\* has come of a packet; five zero bytes and 0x80 take the place of it.
ArmItm(v, gap) ==
    LET pushed == IF gap > ItmPause THEN ItmPush(pd) ELSE [f |-> pd, anns |-> <<>>]
        b == [at |-> UARTAt(gap), v |-> v]
        packet == Append(IF gap > ItmPause THEN <<>> ELSE pd.buf, b)
        syncbuf == Append(LastOf(pd.syncbuf, 5), b)
        buf == IF Values(syncbuf) = <<0, 0, 0, 0, 0, 128>> THEN syncbuf ELSE packet
        f == [pushed.f EXCEPT !.buf = buf, !.syncbuf = syncbuf, !.prev = b.at + Width,
                              !.start = IF Len(packet) = 1 THEN b.at ELSE @]
        type == ItmType(buf[1].v)
    IN /\ UARTHand("arm_itm", gap, TRUE)
       /\ CASE type = "hardware" -> ItmHardware(f, pushed.anns)
            [] type = "software" -> ItmSoftware(f, pushed.anns)
            [] type = "timestamp" -> ItmTimestamp(f, pushed.anns)
            [] OTHER -> ItmDone(f, pushed.anns \o ItmPut(f, "trace"))

(* arm_etmv3: packets of a length their bytes tell.  Addresses only enter  *)
(* texts; whether one is the expected one is left open (jumped).           *)

Etm0 == [buf |-> <<>>, syncbuf |-> <<>>, start |-> 0]
EtmPause == 16

\* get_packet_type(byte), for the types that have a handler.
EtmType(b) ==
    CASE b % 2 = 1 -> "branch"
      [] b = 0 -> "a_sync"
      [] b \in {\h08, \h70} -> "i_sync"
      [] b \in {\h76, \h7e} -> "exception"
      [] b >= 128 /\ b % 2 = 0 -> "p_header"
      [] OTHER -> "fallback"

\* parse_varint(bytes_): how many bytes a number takes.
EtmVarint(b) ==
    LET ends == {i \in DOMAIN b : b[i] < 128} IN IF ends = {} THEN Len(b) ELSE Min(ends)

\* parse_branch_addr(), parse_exc_info(): whether an exception follows the address,
\* whether the packet is complete, and whether its fifth byte is understood.
EtmBranchEnds(b) ==
    LET n == EtmVarint(b)
        rest == SubSeq(b, n + 1, Len(b))
    IN Last(b) < 128 /\ ((n >= 2 /\ b[n] >= 64) => \E i \in DOMAIN rest : rest[i] < 128)
EtmBranchUnknown(b) == EtmVarint(b) = 5 /\ b[5] % 64 < 8

\* handle_i_sync(buf): the information byte may come after a cycle count.
EtmInfoAt(b) == IF b[1] = \h08 THEN 2 ELSE 2 + EtmVarint(SubSeq(b, 2, IF Len(b) < 6 THEN Len(b) ELSE 6))
EtmISync(f, es, jumped) ==
    LET info == f.buf[EtmInfoAt(Values(f.buf))].v
        trace(shown) == <<P("trace", f.start, es, shown)>>
        periodic == (info \div 32) % 4 = 0
    IN (IF periodic /\ jumped THEN trace({}) ELSE <<>>)
       \o (IF info >= 128 THEN trace({}) ELSE <<>>) \o trace(Ats(f.buf))

\* instructions_executed(exec_status): one program counter after the other, over
\* the time of the packet.
EtmInstructions(start, n) ==
    [i \in 1..n |-> P("pc", start + (Width * (i - 1)) \div n, start + (Width * i) \div n, {})]

\* handle_p_header(buf)
EtmHeader(b) ==
    LET flow == <<P("flow", b.at, b.at + Width, {b.at})>>
        n == ((b.v \div 64) % 2) + ((b.v \div 4) % 16)
    IN CASE b.v % 4 = 0 -> EtmInstructions(b.at, n) \o flow
         [] b.v \in {\h82, \h86, \h8a, \h8e} -> EtmInstructions(b.at, 2) \o flow
         [] OTHER -> <<P("trace", b.at, b.at + Width, {b.at})>>

\* decode(): a long pause drops what has come of a packet; four zero bytes and 0x80
\* take the place of it.
ArmEtmv3(v, gap, jumped) ==
    LET b == [at |-> UARTAt(gap), v |-> v]
        es == b.at + Width
        packet == Append(IF gap > EtmPause THEN <<>> ELSE pd.buf, b)
        last == Append(LastOf(pd.syncbuf, 4), b)
        sync == Values(last) = <<0, 0, 0, 0, 128>>
        f == [buf |-> IF sync THEN last ELSE packet, syncbuf |-> IF sync THEN <<>> ELSE last,
              start |-> IF Len(packet) = 1 THEN b.at ELSE pd.start]
        bytes == Values(f.buf)
        type == EtmType(bytes[1])
        done(anns) == Return([f EXCEPT !.buf = <<>>], anns)
        put1(row) == done(<<P(row, f.start, es, Ats(f.buf))>>)
    IN /\ UARTHand("arm_etmv3", gap, TRUE)
       /\ CASE type = "branch" -> IF ~EtmBranchEnds(bytes) THEN Become(f)
                                  ELSE IF EtmBranchUnknown(bytes) THEN Fail(<<>>) ELSE put1("flow")
            [] type = "a_sync" -> IF v = 128 THEN done(<<P("trace", f.start, es, {})>>) ELSE Become(f)
            [] type = "i_sync" ->
                  IF Len(bytes) < 6 \/ Len(bytes) < EtmInfoAt(bytes) + 4 THEN Become(f)
                  ELSE done(EtmISync(f, es, jumped))
            [] type = "p_header" -> done(EtmHeader(f.buf[1]))
            [] type = "exception" -> done(<<P("flow", f.start, es, {})>>)
            [] OTHER -> put1("trace")
=============================================================================
