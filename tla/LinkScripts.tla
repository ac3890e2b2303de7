------------------------------ MODULE LinkScripts ------------------------------
(***************************************************************************)
(* Scripts that are handed whole frames, or the bytes of one: PJON, SIPI,  *)
(* 93xx EEPROMs, Oregon weather sensors, any OOK code, and CFP modules.    *)
(***************************************************************************)
EXTENDS DecoderScript

(* pjon: the configuration byte of a frame says which fields follow it.  A *)
(* step is a packet, or a run of n bytes of one field that together are v; *)
(* good says whether they are the right checksum.                          *)

\* reset_frame(): ss is Unknown and bytes is "none" between frames; left are the fields
\* that are still awaited, of the first of which got bytes are there since at.
PjonBlank == [ss |-> Unknown, es |-> Unknown, bytes |-> "none", ack |-> FALSE, left |-> <<>>, got |-> 0, at |-> Unknown,
              overhead |-> 0, crc32 |-> FALSE, broadcast |-> FALSE, shown |-> {}, resp |-> {}]
PjonField(kind, width) == [kind |-> kind, width |-> width]

\* frame_flush(): a frame that began at sample 0 is taken for none.
PjonFlush(f) ==
    IF f.bytes = "some" /\ f.ss > 0 /\ f.shown \cup f.resp # {} THEN <<P("relations", f.ss, f.es, f.shown \cup f.resp)>> ELSE <<>>

\* handle_field_seed_desc()
PjonFrame == [PjonBlank EXCEPT !.ss = Ss, !.es = Ss + Width, !.bytes = "empty",
                               !.left = <<PjonField("rx_id", 1), PjonField("config", 1)>>]

\* handle_field_config(): bits 0 to 7 of v.
PjonFlag(v, bit) == (v \div (2 ^ bit)) % 2 = 1
PjonFields(v) ==
    LET Opt(kind, width, wanted) == IF wanted THEN <<PjonField(kind, width)>> ELSE <<>>
        shared == PjonFlag(v, 0)
        tx == PjonFlag(v, 1)
    IN <<PjonField("pkt_len", IF PjonFlag(v, 6) THEN 2 ELSE 1), PjonField("crc", 1)>>
       \o Opt("rx_bus", 4, shared) \o Opt("tx_bus", 4, shared /\ tx) \o Opt("tx_id", 1, tx)
       \o Opt("port", 2, PjonFlag(v, 4)) \o Opt("pkt_id", 2, PjonFlag(v, 7))
       \o <<PjonField("payload", 0), PjonField("crc", IF PjonFlag(v, 5) THEN 4 ELSE 1)>>
PjonBadFlags(v, broadcast) ==
    LET acks == PjonFlag(v, 2) \/ PjonFlag(v, 3)
    IN \/ acks /\ (~PjonFlag(v, 1) \/ broadcast)
       \/ PjonFlag(v, 2) /\ PjonFlag(v, 3)
       \/ PjonFlag(v, 6) /\ ~PjonFlag(v, 5)
PjonConfig(f, v) ==
    [f EXCEPT !.left = PjonFields(v), !.crc32 = PjonFlag(v, 5),
              !.overhead = 2 + FoldLeft(LAMBDA sum, field : sum + field.width, 0, PjonFields(v))]

\* handle_field_pkt_len(): the payload is what the length leaves, if anything.
PjonLength(f, v) ==
    [f EXCEPT !.left[Len(f.left) - 1].width = IF v > f.overhead THEN v - f.overhead ELSE 0]

\* A field has got its last byte: what becomes of the frame, and whether it is warned of.
PjonHandle(f, field, v, good) ==
    LET To(g, warns) == [f |-> g, warns |-> warns]
        show == [f EXCEPT !.shown = @ \cup {f.at}]
    IN CASE field = "rx_id" -> To([show EXCEPT !.broadcast = v = 0], FALSE)
         [] field = "config" -> To(PjonConfig(f, v), PjonBadFlags(v, f.broadcast))
         [] field = "pkt_len" -> To(PjonLength(f, v), v <= f.overhead \/ (v > 15 /\ ~f.crc32))
         [] field = "crc" -> To(f, ~good)
         [] field \in {"rx_bus", "tx_bus", "tx_id", "payload"} -> To(show, FALSE)
         [] field \in {"port", "pkt_id"} -> To(f, FALSE)

\* decode(), DATA_BYTE.  Bytes after the last field are passed over, and so is all that
\* comes after the length of a frame without payload.
PjonBytes(n, v, good) ==
    LET es == Ss + Width * n
        f == [pd EXCEPT !.es = es, !.bytes = "some", !.at = IF pd.at = Unknown THEN Ss ELSE pd.at]
        field == Head(f.left)
        rest == [f EXCEPT !.left = Tail(@), !.got = 0]
        handled == PjonHandle(rest, field.kind, v, good)
        Put(row) == P(row, f.at, es, {f.at})
    IN CASE pd.ack -> Return([pd EXCEPT !.es = es, !.resp = {es - Width}],
                             [i \in 1..n |-> Span("fields", Ss + Width * (i - 1), Ss + Width * (i - 1), {Ss + Width * (i - 1)})])
         [] ~pd.ack /\ pd.bytes = "none" -> Become([pd EXCEPT !.es = es])
         [] ~pd.ack /\ pd.bytes # "none" /\ (f.left = <<>> \/ field.width = 0) -> Become(f)
         [] OTHER ->
              IF f.got + n < field.width THEN Become([f EXCEPT !.got = @ + n])
              ELSE Return([handled.f EXCEPT !.at = Unknown],
                          (IF handled.warns THEN <<Put("warnings")>> ELSE <<>>) \o <<Put("fields")>>)

Pjon(q) ==
    /\ q.type = "DATA_BYTE" /\ ~pd.ack /\ pd.left # <<>> /\ Head(pd.left).width > 0
           => pd.got + q.n <= Head(pd.left).width
    /\ HandRun("pjon", q.n, IF q.type \in {"IDLE", "FRAME_DATA"} THEN "idle" ELSE "frame")
    /\ CASE q.type = "FRAME_INIT" -> Return(PjonFrame, PjonFlush(pd))
         [] q.type \in {"IDLE", "FRAME_DATA"} -> Return(PjonBlank, PjonFlush(pd))
         [] q.type = "SYNC_RESP_WAIT" -> Become([pd EXCEPT !.ack = TRUE, !.at = Unknown])
         [] q.type = "DATA_BYTE" -> PjonBytes(q.n, q.v, q.good)

(* sipi: a step is a frame of n bytes with command code v.  The checksum   *)
(* is looked for where the command says it is, whether there is one or     *)
(* not.                                                                    *)

\* command_codes: the bytes of address and of data.
SipiAddress(v) == IF v \in {0, 1, 2, 4, 5, 6, 10} THEN 4 ELSE 0
SipiData(v) ==
    CASE v \in {4, 5, 6, 10} -> 4
      [] v = 23 -> 32
      [] OTHER -> 0
SipiPart(row, first, last) == P(row, Ss + first, Ss + last, {Ss + Width * (first \div Width)})
SipiByte(i) == SipiPart("fields", Width * i, Width * (i + 1))

\* put_header(), put_payload(): reserved are the reserved bits that are set.
SipiHeader(reserved) ==
    LET Warn(bits, first, last) == IF bits \in reserved THEN <<SipiPart("warnings", first, last)>> ELSE <<>>
    IN <<SipiPart("fields", 0, 3), SipiPart("fields", 3, 8)>> \o Warn("4..7", 8, 12)
       \o <<SipiPart("fields", 12, 15)>> \o Warn("0", 15, 16)
SipiPayload(n, v) ==
    LET address == SipiAddress(v)
        last == IF SipiData(v) > 0 \/ n - 4 < address THEN n - 4 ELSE address
    IN IF address + SipiData(v) = 0 THEN <<>> ELSE [i \in 1..last |-> SipiByte(i + 1)]

Sipi(n, v, reserved, good) ==
    LET crc == 2 + SipiAddress(v) + SipiData(v)
        shown == SipiHeader(reserved) \o SipiPayload(n, v)
        Crc(row) == P(row, Ss + Width * crc, Ss + Width * (crc + 2), {Ss + Width * crc})
    IN /\ HandRun("sipi", n, "idle")
       /\ CASE n = 1 -> Return(pd, <<P("warnings", Ss, Ss + Width, {})>>)
            [] n > 1 /\ n < crc + 2 -> Fail(shown)
            [] n > 1 /\ n = crc + 2 -> Return(pd, shown \o <<Crc("fields")>> \o (IF good THEN <<>> ELSE <<Crc("warnings")>>))
            [] n > 1 /\ n > crc + 2 -> Return(pd, Append(shown, Crc("warnings")))

(* eeprom93xx: a step is a frame of n bits with its opcode and the two     *)
(* bits after it.                                                          *)

\* The defaults of the options addresssize and wordsize.
E93Address == 8
E93Word == 16
E93At(i) == Ss + Width * i
E93Put(row, first, last) == P(row, E93At(first), E93At(last), {E93At(i) : i \in first..(last - 1)})
\* put_address() after the name of the instruction.
E93Named == <<E93Put("data", 0, 2), E93Put("data", 2, 2 + E93Address)>>
\* All words of a READ.
E93Words(n) ==
    LET words == (n - 2 - E93Address) \div E93Word
        first(i) == 2 + E93Address + E93Word * i
    IN [i \in 1..words |-> E93Put("data", first(i - 1), first(i))]
       \o (IF first(words) < n THEN <<E93Put("warnings", first(words), n)>> ELSE <<>>)
\* The word that is to be written; a frame that ends where it should begin has no bit to
\* warn at.
E93Write(n, anns) ==
    LET first == 2 + E93Address
        short == P("warnings", E93At(first), E93At(n - 1), {})
    IN CASE n = first -> Fail(anns)
         [] n > first /\ n < first + E93Word -> Return(pd, Append(anns, short))
         [] n >= first + E93Word -> Return(pd, Append(anns, E93Put("data", first, first + E93Word)))
Eeprom93xx(n, opcode, extended) ==
    LET whole == <<E93Put("data", 0, 2 + E93Address)>>
    IN /\ HandRun("eeprom93xx", n, "idle")
       /\ CASE n < 2 + E93Address -> Return(pd, <<P("warnings", Ss, E93At(n), {})>>)
            [] n >= 2 + E93Address /\ opcode = "READ" -> Return(pd, E93Named \o E93Words(n))
            [] n >= 2 + E93Address /\ opcode = "WRITE" -> E93Write(n, E93Named)
            [] n >= 2 + E93Address /\ opcode = "ERASE" -> Return(pd, E93Named)
            [] n >= 2 + E93Address /\ opcode = "other" ->
                 IF extended = "WRAL" THEN E93Write(n, whole) ELSE Return(pd, whole)

(* ook_oregon: a step is a packet of which pre bits come before the        *)
(* synchronisation of protocol ver and n after it, from a sensor of the    *)
(* kind given; unread are the values its nibbles do not tell, errors says  *)
(* that bits of a nibble were not recognized.                              *)

\* oregon(): how long the synchronisation is, the bits among which it is looked for, and
\* where it must come.
OregonSync(ver) ==
    CASE ver = "v2.1" -> 8
      [] ver = "v1" -> 5
      [] ver = "v3" -> 4
      [] ver = "none" -> 0
OregonSearched(ver) ==
    CASE ver = "v2.1" -> 40
      [] ver = "v1" -> 17
      [] ver = "v3" -> 28
OregonBegins(ver, pre) ==
    CASE ver = "v2.1" -> pre > 16
      [] ver = "v1" -> pre <= 12
      [] ver = "v3" -> pre > 12
      [] ver = "none" -> FALSE
OregonAt(i) == Ss + Width * i
OregonField(first, last) == P("fields", first, last, {first})

\* The nibbles that oregon_v1(), or oregon_v2() and oregon_v3(), see; in v2.1 a bit of a
\* nibble lasts two.
OregonNibble(start, ver, i) == start + 4 * (IF ver = "v2.1" THEN 2 ELSE 1) * Width * i
\* oregon_put_nib(): labelled fields of several nibbles, the others nibble by nibble; that
\* of the sensor ends where the next bit starts.
OregonNibs(start, ver, nibbles) ==
    LET at(i) == OregonNibble(start, ver, i)
        fields == IF ver = "v1" THEN <<<<0, 1>>, <<1, 2>>, <<2, 6>>, <<6, 8>>>>
                  ELSE <<<<0, 4>>, <<4, 5>>, <<5, 7>>, <<7, 8>>>> \o [i \in 1..(nibbles - 8) |-> <<i + 7, i + 8>>]
    IN [i \in DOMAIN fields |-> OregonField(at(fields[i][1]), at(fields[i][2]))]

\* The kinds of sensor in the table of identifiers; "Unknown" stands for a sensor that is
\* not in it and for one of which no value is known.
OregonTypes == {"Wind", "Temp", "Temp_Hum", "Temp_Hum1", "Temp_Hum_Baro", "Temp_Hum_Baro1", "Rain", "Rain1", "UV", "UV1", "Unknown"}

\* oregon_level2() and the end of oregon_v1(): the nibbles of each value.  A checksum is
\* left out when it is not there.
OregonValue(kind, first, last) == [kind |-> kind, first |-> first, last |-> last]
OregonTemp(first) == OregonValue("value", first, first + 3)
OregonCheck(first) == OregonValue("checksum", first, first + 1)
OregonHum == OregonValue("value", 12, 13)
OregonOf(type) ==
    CASE type = "Rain" -> <<OregonValue("value", 8, 11), OregonValue("value", 12, 17), OregonCheck(18)>>
      [] type = "Rain1" -> <<OregonValue("value", 8, 10), OregonValue("value", 11, 15), OregonCheck(18)>>
      [] type = "Temp" -> <<OregonTemp(8), OregonCheck(12)>>
      [] type = "Temp_Hum_Baro" -> <<OregonTemp(8), OregonHum, OregonValue("value", 15, 18), OregonCheck(19)>>
      [] type = "Temp_Hum_Baro1" -> <<OregonTemp(8), OregonHum, OregonValue("value", 14, 17)>>
      [] type = "Temp_Hum" -> <<OregonTemp(8), OregonHum, OregonCheck(15)>>
      [] type = "Temp_Hum1" -> <<OregonTemp(8), OregonHum, OregonCheck(14)>>
      [] type = "UV" -> <<OregonValue("value", 8, 9)>>
      [] type = "UV1" -> <<OregonValue("value", 11, 12)>>
      [] type = "Wind" -> <<OregonValue("wind", 8, 8), OregonValue("value", 11, 13), OregonValue("value", 14, 16), OregonCheck(17)>>
      [] type = "Unknown" -> <<>>
OregonValues(ver, type) ==
    IF ver = "v1" THEN <<OregonTemp(2), OregonValue("channel", 1, 1), OregonValue("battery", 2, 2), OregonCheck(6)>>
    ELSE <<OregonValue("value", 0, 3), OregonValue("channel", 4, 4), OregonValue("battery", 7, 7)>> \o OregonOf(type)

\* The values up to the first that reaches beyond the last nibble, or the checksum that is
\* calculated from more of them than there are; the calculation ends at an error.
OregonLevel2(start, ver, type, bits, unread, errors) ==
    LET values == OregonValues(ver, type)
        nibbles == IF ver = "v1" THEN 8 ELSE bits \div 4
        beyond(value) == IF value.kind = "checksum" THEN ~errors /\ bits <= 4 * (value.first - 1)
                         ELSE value.last >= nibbles
        missing == {i \in DOMAIN values : beyond(values[i])}
        there == IF missing = {} THEN values ELSE SubSeq(values, 1, (CHOOSE i \in missing : \A j \in missing : i <= j) - 1)
        shown == SelectSeq(there, LAMBDA value : /\ value.kind \notin unread
                                                 /\ value.kind = "checksum" => value.last < nibbles)
        at(i) == OregonNibble(start, ver, i)
    IN [anns |-> [i \in DOMAIN shown |-> P("l2", at(shown[i].first), at(shown[i].last + 1),
                                           {at(j) : j \in shown[i].first..shown[i].last})],
        fails |-> missing # {}]

\* oregon_v1(), oregon_v2(), oregon_v3() after the synchronisation has been put.
OregonData(ver, start, n, type, unread, errors, before) ==
    LET bits == IF ver = "v2.1" THEN n \div 2 ELSE n
        nibbles == IF ver = "v1" THEN 8 ELSE bits \div 4
        all == before \o OregonNibs(start, ver, nibbles)
        values == OregonLevel2(start, ver, type, bits, unread, errors)
        short == P("fields", start, start + Width * (IF ver = "v2.1" THEN 2 * bits ELSE n), {})
    IN CASE bits >= 32 /\ values.fails -> Fail(all \o values.anns)
         [] bits >= 32 /\ ~values.fails -> Return(pd, all \o values.anns)
         [] bits < 32 /\ ver = "v1" -> Return(pd, before)
         [] bits = 0 /\ ver # "v1" -> Fail(before)
         [] bits \in 1..31 /\ ver # "v1" -> Return(pd, Append(before, short))

\* A channel that is 0 has no name before v3.
OokOregon(ver, pre, n, type, unread, errors) ==
    LET sync == OregonSync(ver)
        start == OregonAt(pre + sync)
        before == <<P("fields", Ss, OregonAt(pre), {}), P("fields", OregonAt(pre), start, {})>>
    IN /\ ver # "none" => pre + sync <= OregonSearched(ver)
       /\ errors \/ unread \subseteq (IF ver = "v3" THEN {} ELSE {"channel"})
       /\ HandRun("ook_oregon", pre + sync + n, "idle")
       /\ CASE OregonBegins(ver, pre) /\ n > 0 -> OregonData(ver, start, n, type, unread, errors, before)
            [] ver = "none" /\ pre + n > 16 -> Return(pd, <<P("fields", Ss, OregonAt(pre + n), {})>>)
            [] OTHER -> Ignore

(* ook_vis: a step is a packet of n bits whose preamble ends before bit p, *)
(* or that is all preamble (p > n).                                        *)

\* The options: offset and length of the synchronisation, bits of a field, and the packet
\* the others are compared with (0: none, NumbersOnly: they are numbered).
NumbersOnly == -1
VisSync == 4
VisBits == 4
Vis0(ref, offset) == [ref |-> ref, offset |-> offset, cache |-> <<>>]

\* put_field(): n fields from bit `from' on.
VisFields(row, from, n) ==
    [i \in 1..n |-> LET at == OregonAt(from + VisBits * (i - 1)) IN P(row, at, at + Width * VisBits, {at})]
\* display_level2(): the last bit of the preamble, counted from the end if the offset puts
\* it before the first.
VisLevel2(n, p) ==
    LET last == p + pd.offset - 1
        place(i) == IF i < 0 THEN n + i ELSE i
        end(i) == OregonAt(place(i) + 1)
        sync == n > last + VisSync
        from == IF sync THEN last + VisSync + 1 ELSE place(last)
    IN IF n < 2 \/ p > n THEN <<>>
       ELSE <<P("level2", Ss, end(last), {})>>
            \o (IF sync THEN <<P("level2", end(last), end(last + VisSync), {})>> ELSE <<>>)
            \o VisFields("level2", from, (n - from) \div VisBits)

\* display_ref(): bit by bit, under packet k of the cache.
VisCompare(cache, k, ref) ==
    [i \in 1..Min({cache[k].n, cache[ref].n}) |->
        LET at == cache[k].ss + Width * (i - 1) IN P("compare", at, at + Width, {})]
VisCompared(cache) ==
    LET k == Len(cache)
        ref == pd.ref
        compare(i) == VisCompare(cache, i, ref)
    IN CASE ref = NumbersOnly -> <<P("compare", cache[k].ss, cache[k].ss + Width * cache[k].n, {})>>
         [] ref = 0 \/ k < ref -> <<>>
         [] OTHER -> compare(k) \o (IF k = ref THEN FlattenSeq([i \in 1..(ref - 1) |-> compare(i)]) ELSE <<>>)

\* display_all()
OokVis(n, p) ==
    LET cache == Append(pd.cache, [ss |-> Ss, n |-> n])
        fields == VisFields("fields", 0, n \div VisBits)
    IN /\ p \in 2..(n - 1) \/ p > n
       /\ HandRun("ook_vis", n, "idle")
       /\ IF n > 1 /\ p < n /\ p + pd.offset > n THEN Fail(fields)   \* the preamble would end after the packet
          ELSE Return([pd EXCEPT !.cache = cache], fields \o VisLevel2(n, p) \o VisCompared(cache))

(* cfp: a step is a frame that reads or writes register reg. *)

CfpRegisters ==
    0..255 \cup \h100..\h1ff \cup \h400..\h4ff \cup \h800..\h8ff \cup \h2000..\h20ff   \* less 8000
Cfp(is_read, reg) ==
    LET known == reg - \h8000 \in CfpRegisters
    IN /\ Hand("cfp", "idle")
       /\ CASE ~is_read \/ ~known -> Ignore
            [] is_read /\ known -> Return(pd, <<Byte("registers", [cmd |-> "DATA"])>>
                                             \o (IF reg = \h8000 THEN <<Byte("decodes", [cmd |-> "DATA"])>> ELSE <<>>))
=============================================================================
