------------------------------- MODULE SPIChips -------------------------------
(***************************************************************************)
(* SPI scripts whose steps are whole commands or transfers: nrf905,        *)
(* avr_isp, adf435x, ad79x0, ssi32, x2444m, ltc242x, nes_gamepad; and      *)
(* rfm12, whose commands are two bytes of any transfer; ad5626 and         *)
(* rgb_led_spi, which take bytes as they come.                             *)
(***************************************************************************)
EXTENDS SPIPackets

\* An annotation over bytes i to j of a transfer, which it shows from k on.
TransferSpan(row, i, j, k) == P(row, SPIByte(i), SPIByte(j) + Width, {SPIByte(x) : x \in k..j})

-----------------------------------------------------------------------------
(* nrf905: everything is put when the chip select rises. *)

\* parse_config_registers: register by register, up to the last one.
Nrf905Config(row, from, n) ==
    IF from > 9 THEN <<>>
    ELSE SelectSeq([i \in 1..n - 1 |-> TransferSpan(row, i + 1, i + 1, i + 1)],
                   LAMBDA a : from + (a.ss - SPIByte(2)) \div Width <= 9)

Nrf905Commands == 0..\h1f \cup \h20..\h24 \cup \h80..\h8f

\* process_cmd; the handlers but those of the configuration take the second
\* byte for granted.
Nrf905(first, n) ==
    /\ script = "nrf905"
    /\ SPIHandTransfer("nrf905", n)
    /\ LET cmd == <<P("commands", Ss, SPIRise(n), {}), TransferSpan("registers", 1, 1, 1)>>
           row == CASE first = \h20 -> "tx" [] first = \h22 -> "registers"
                    [] first = \h24 -> "rx" [] OTHER -> "responses"
       IN \/ n = 0 /\ Ignore
          \/ n > 0 /\ first \notin Nrf905Commands /\ Return(pd, cmd)
          \/ n > 0 /\ first < \h20 /\ Return(pd, cmd \o Nrf905Config("registers", first % 16, n))
          \/ n = 1 /\ first \in Nrf905Commands /\ first >= \h20 /\ Fail(cmd)
          \/ n > 1 /\ first \in \h20..\h24 /\ Return(pd, cmd \o <<TransferSpan(row, 2, n, 2)>>)
          \/ n > 1 /\ first \in \h80..\h8f /\ Return(pd, cmd \o <<TransferSpan("registers", 1, 2, 1)>>)

-----------------------------------------------------------------------------
(* avr_isp: the chip select does not count, a step is a command of four    *)
(* bytes and the reply.                                                    *)

Avr0 == [xx |-> 0, yy |-> 0, mm |-> 0, fam |-> Unknown, ss_device |-> Unknown]
\* parts.py, of which some entries stand for all.
AvrVendors == {\h1e, 0}
AvrParts == {<<\h90, 1>>, <<\h92, 5>>, <<\h93, \h0a>>, <<\h94, 6>>, <<255, 255>>, <<1, 2>>}

\* handle_command
AvrKind(c) ==
    CASE c[1] = \hac /\ c[2] = \h53 -> "enable"
      [] c[1] = \hac /\ c[2] >= 128 -> "erase"
      [] c[1] = \h30 /\ c[3] = 0 -> "vendor"
      [] c[1] = \h30 /\ c[3] = 1 -> "family"
      [] c[1] = \h30 /\ c[3] = 2 -> "part"
      [] \/ <<c[1], c[2], c[3]>> \in {<<\h50, 0, 0>>, <<\h50, 8, 0>>, <<\h58, 8, 0>>}
         \/ c[1] = \h58 /\ c[2] = 0
         \/ c[1] = \ha0 /\ c[2] < 64
         \/ c[1] \in {\h20, \h28, \h40, \h48, \h4c} /\ c[2] < 16 -> "plain"
      [] OTHER -> "unknown"

\* The sanity checks on the reply.
AvrExpected(kind, c, r) ==
    CASE kind = "enable" -> r[2] = \hac /\ r[3] = \h53 /\ r[4] = c[3]
      [] kind = "vendor" -> r[2] = \h30 /\ r[3] = c[2]
      [] kind = "family" -> r[2] = \h30 /\ r[3] = c[2] /\ r[1] = pd.yy
      [] kind = "part" -> r[2] = \h30 /\ r[3] = pd.xx /\ r[1] = pd.mm
      [] kind = "erase" -> r[2] = \hac /\ r[3] >= 128 /\ r[4] = c[3]
      [] OTHER -> TRUE

AvrIsp(c, r) ==
    /\ script = "avr_isp"
    /\ HandRun("avr_isp", 4, line)
    /\ LET kind == AvrKind(c)
           Put(row) == <<Span(row, Ss, Ss + 3 * Width, {Ss + 3 * Width})>>
           cmd == Put("commands")
           dev == <<Span("devs", pd.ss_device, Ss + 3 * Width, {pd.ss_device + 3 * Width, Ss + 3 * Width})>>
           warn == IF AvrExpected(kind, c, r) THEN <<>> ELSE Put("warnings")
           locked == IF r[4] = \h1e THEN <<>> ELSE Put("warnings")
           \* the family is looked up with the part, before it was ever read or not
           unknown == pd.fam = Unknown \/ <<pd.fam, r[4]>> \notin AvrParts
       IN \/ kind = "unknown" /\ Return(pd, Put("warnings"))
          \/ kind \in {"enable", "erase", "plain"} /\ Return(pd, cmd \o warn)
          \/ kind = "vendor" /\ r[4] \notin AvrVendors /\ Fail(<<>>)
          \/ /\ kind = "vendor" /\ r[4] \in AvrVendors
             /\ Return([pd EXCEPT !.xx = c[2], !.yy = c[4]], cmd \o warn \o locked)
          \/ /\ kind = "family"
             /\ Return([pd EXCEPT !.mm = c[4], !.fam = r[4], !.ss_device = Ss], cmd \o warn)
          \/ kind = "part" /\ unknown /\ Fail(cmd)
          \/ /\ kind = "part" /\ ~unknown
             /\ Return([pd EXCEPT !.xx = 0, !.yy = 0, !.mm = 0], cmd \o dev \o warn)

-----------------------------------------------------------------------------
(* adf435x: a transfer is a word of 32 bits; TRANSFER packets, thus the    *)
(* option frame of the SPI decoder, are needed.                            *)

\* regs: offset and width of the fields, counted from the last bit.
AdfFields ==
    (0 :> <<<<3, 12>>, <<15, 16>>>>) @@
    (1 :> <<<<3, 12>>, <<15, 12>>, <<27, 1>>, <<28, 1>>>>) @@
    (2 :> <<<<3, 1>>, <<4, 1>>, <<5, 1>>, <<6, 1>>, <<7, 1>>, <<8, 1>>, <<9, 4>>, <<13, 1>>,
            <<14, 10>>, <<24, 1>>, <<25, 1>>, <<26, 3>>, <<29, 2>>>>) @@
    (3 :> <<<<3, 12>>, <<15, 2>>, <<18, 1>>, <<21, 1>>, <<22, 1>>, <<23, 1>>>>) @@
    (4 :> <<<<3, 2>>, <<5, 1>>, <<6, 2>>, <<8, 1>>, <<9, 1>>, <<10, 1>>, <<11, 1>>, <<12, 8>>,
            <<20, 3>>, <<23, 1>>>>) @@
    (5 :> <<<<22, 2>>>>) @@ (6 :> <<>>) @@ (7 :> <<>>)

\* decode_bits: a field by its offset and width.
AdfField(row, f) ==
    LET end == SPIByte(1) + 32 - f[1]
        first == end - f[2]
    IN P(row, first, end, {SPIByte(i) : i \in {j \in 1..4 : SPIByte(j) < end /\ first < SPIByte(j) + Width}})

\* n bytes; the value of INT may be one that is not allowed.
Adf435x(n, reg, low) ==
    /\ script = "adf435x"
    /\ SPIHandTransfer("adf435x", n)
    /\ LET fields == [i \in DOMAIN AdfFields[reg] |-> AdfField("writes", AdfFields[reg][i])]
           warn == IF reg = 0 /\ low THEN <<AdfField("warnings", <<15, 16>>)>> ELSE <<>>
       IN Return(pd, IF n # 4 THEN <<P("warnings", Ss, SPIRise(n), {})>>
                     ELSE <<AdfField("writes", <<0, 3>>)>> \o fields \o warn)

-----------------------------------------------------------------------------
(* ad79x0: the bits of a transfer decide on the mode; full tells a value   *)
(* of all ones.                                                            *)

Ad79x0(n, full) ==
    /\ script = "ad79x0"
    /\ SPIHandTransfer("ad79x0", n)
    /\ LET over(row, shown) == <<P(row, Ss, SPIRise(n), shown)>>
           mode == over("modes", {})
           valid == over("data_validation", {})
           voltage == over("voltages", {SPIByte(i) : i \in 1..n})
           nb_bits == 8 * n
       IN \/ n = 0 /\ Ignore
          \/ n > 0 /\ (nb_bits < 10 \/ full) /\ Return(pd, mode \o valid)
          \/ nb_bits >= 10 /\ ~full /\ Return(pd, mode \o (IF nb_bits <= 16 THEN valid ELSE <<>>) \o voltage)

(* ltc242x: the last 23 bits of a transfer, even of none. *)

Ltc242x(n, channel) ==
    /\ script = "ltc242x"
    /\ SPIHandTransfer("ltc242x", n)
    /\ Return(pd, <<P(<<"ch0_voltages", "ch1_voltages">>[channel + 1], Ss, SPIRise(n),
                      {SPIByte(i) : i \in {j \in 1..n : j > n - 3}})>>)

(* x2444m: with the chip select active high, the option of the SPI decoder *)
(* that its packets need.                                                  *)

X2444m(first, n) ==
    /\ script = "x2444m"
    /\ SPIHandTransfer("x2444m", n)
    /\ \/ n = 0 /\ Ignore
       \/ n > 0 /\ first < 128 /\ Fail(<<>>)   \* no such command: KeyError
       \/ /\ n > 0 /\ first >= 128
          /\ Return(pd, <<P("annotations", SPIByte(1), SPIRise(n), {SPIByte(i) : i \in 1..n})>>)

(* nes_gamepad: a byte is the buttons, none of them, or no gamepad. *)

NesGamepad(q) ==
    /\ SPIHand("nes_gamepad", q)
    /\ \/ q.cmd # "DATA" /\ Ignore
       \/ /\ q.cmd = "DATA"
          /\ Return(pd, <<Byte(CASE q.w = 255 -> "no-presses" [] q.w = 0 -> "not-connected-vals"
                                 [] OTHER -> "buttons", q)>>)

-----------------------------------------------------------------------------
(* ssi32: messages of the option msgsize, but acknowledgements of four     *)
(* bytes.  A step is one message, or one that the chip select cuts off; tx *)
(* and rx are the sizes the two sides claim.                               *)

SsiSize == 64

Ssi32(first, n, tx, rx) ==
    /\ script = "ssi32"
    /\ HandRun("ssi32", n, line)
    /\ LET want == IF first >= 128 THEN 4 ELSE SsiSize
           Put(row, size) == <<Span(row, Ss, Ss + Width * (size + 3),
                                    {Ss + Width * i : i \in 0..size + 3})>>
           Ack(row) == <<Byte(row, [cmd |-> "DATA"])>>
           max == SsiSize - 4
       IN \/ n < want /\ Ignore
          \/ n = want /\ first >= 128 /\ Return(pd, Ack("tx") \o Ack("rx"))
          \* a claim of more bytes than the message has: IndexError
          \/ n = want /\ first < 128 /\ tx > max /\ Fail(<<>>)
          \/ n = want /\ first < 128 /\ tx <= max /\ rx > max /\ Fail(Put("tx", tx))
          \/ n = want /\ first < 128 /\ tx <= max /\ rx <= max /\ Return(pd, Put("tx", tx) \o Put("rx", rx))

-----------------------------------------------------------------------------
(* rfm12: positions count the sixteen bits of the two bytes. *)

\* The registers whose change is put, at power-on.
Rfm0 == [first |-> Unknown, cmd |-> 0, reply |-> 0,
         last |-> [config |-> 8, power |-> 8, rate |-> \h23, fifo |-> \h80, afc |-> \hf7,
                   transceiver |-> 0, pll |-> \h77, status |-> 0]]

RfmAt(i) == IF i < 8 THEN pd.first + i ELSE Ss + i - 8
RfmField(row, f) == P(row, RfmAt(f[1]), RfmAt(f[1] + f[2] - 1) + 1,
                      (IF f[1] < 8 THEN {pd.first} ELSE {}) \cup (IF f[1] + f[2] > 8 THEN {Ss} ELSE {}))
RfmFields(row, fs) == [i \in DOMAIN fs |-> RfmField(row, fs[i])]
RfmEach(from, to) == [i \in 1..to - from + 1 |-> <<from + i - 1, 1>>]

\* The name of a command, handle_cmd.
RfmName(c) ==
    CASE c = \h80 -> "config" [] c = \h82 -> "power" [] c \in \ha0..\haf -> "frequency"
      [] c = \hc6 -> "rate" [] c \in \h90..\h97 -> "receiver" [] c = \hc2 -> "filter"
      [] c = \hca -> "fifo" [] c = \hce -> "synchron" [] c = \hb0 -> "fifo read" [] c = \hc4 -> "afc"
      [] c \in {\h98, \h99} -> "transceiver" [] c = \hcc -> "pll" [] c = \hb8 -> "transmit"
      [] c = \hfe -> "reset" [] c \in \he0..\hff -> "wake-up" [] c = \hc8 -> "duty cycle"
      [] c = \hc0 -> "battery" [] c = 0 -> "status" [] OTHER -> "unknown"

\* The parameters of a command, and the groups of its bits whose change is put.
RfmParams(name) ==
    CASE name = "config" -> <<<<0, 8>>, <<8, 1>>, <<9, 1>>, <<10, 2>>, <<12, 4>>>>
      [] name = "power" -> <<<<0, 8>>>> \o RfmEach(8, 15)
      [] name = "frequency" -> <<<<0, 4>>>>
      [] name = "receiver" -> <<<<0, 5>>, <<5, 1>>, <<6, 2>>, <<8, 3>>, <<11, 2>>, <<13, 3>>>>
      [] name = "filter" -> <<<<0, 8>>, <<8, 2>>, <<11, 1>>, <<13, 3>>>>
      [] name = "fifo" -> <<<<0, 8>>, <<8, 4>>, <<12, 1>>, <<13, 2>>, <<15, 1>>>>
      [] name \in {"synchron", "fifo read", "status"} -> <<<<0, 8>>>>
      [] name = "afc" -> <<<<0, 8>>, <<8, 2>>, <<10, 2>>>> \o RfmEach(12, 15)
      [] name = "transceiver" -> <<<<0, 8>>, <<8, 4>>, <<13, 3>>>>
      [] name = "pll" -> <<<<0, 8>>, <<9, 2>>, <<12, 1>>, <<13, 1>>, <<14, 1>>>>
      [] name \in {"rate", "transmit"} -> <<<<0, 8>>, <<8, 8>>>>
      [] name = "wake-up" -> <<<<0, 3>>, <<3, 13>>>>
      [] name = "battery" -> <<<<0, 8>>, <<8, 3>>, <<12, 4>>>>
      [] OTHER -> <<<<0, 16>>>>
RfmGroups(name) ==
    CASE name = "config" -> RfmEach(8, 9)
      [] name = "power" -> RfmEach(8, 15)
      [] name = "rate" -> <<<<8, 8>>>>
      [] name = "fifo" -> <<<<8, 4>>, <<12, 1>>, <<13, 2>>, <<15, 1>>>>
      [] name = "afc" -> <<<<8, 2>>, <<10, 2>>>> \o RfmEach(12, 15)
      [] name = "transceiver" -> <<<<8, 4>>, <<13, 3>>>>
      [] name = "pll" -> <<<<12, 1>>, <<13, 1>>, <<15, 1>>>>
      [] OTHER -> <<>>

RfmBit(byte, i) == (byte \div 2^(7 - i)) % 2
RfmValue(byte, f) == (byte \div 2^(16 - f[1] - f[2])) % 2^f[2]
RfmDiffers(old, new, f) == RfmValue(old, f) # RfmValue(new, f)

\* Some bits of the power command imply others.
RfmImplied(b) ==
    LET on(i) == \/ RfmBit(b, i) = 1
                 \/ RfmBit(b, 0) = 1 /\ i \in {1, 3, 4}
                 \/ RfmBit(b, 2) = 1 /\ i \in {3, 4}
        bit(i) == IF on(i) THEN 2^(7 - i) ELSE 0
    IN FoldFunction(LAMBDA x, y : x + y, 0, [i \in 0..7 |-> bit(i)])

\* handle_configuration_cmd moves on in its row only past what has changed.
RfmConfig(old, new) ==
    LET freq == RfmDiffers(old, new, <<10, 2>>)
    IN (IF freq THEN <<<<10, 2>>>> ELSE <<>>) \o
       (IF RfmDiffers(old, new, <<12, 4>>) THEN <<<<IF freq THEN 12 ELSE 10, 4>>>> ELSE <<>>)

\* handle_status_read_cmd: the reply begins with the byte of the command.
RfmStatus(q) ==
    LET set(i) == IF i < 8 THEN RfmBit(pd.reply, i) = 1 ELSE RfmBit(q.w, i - 8) = 1
        offset == RfmDiffers(pd.last.status, q.w, <<11, 5>>)
    IN RfmFields("return", RfmEach(0, 10) \o <<<<11, 5>>>>)
       \o SelectSeq(RfmFields("interpretation", RfmEach(0, 9)),
                    LAMBDA a : \E i \in 0..9 : set(i) /\ a.ss = RfmAt(i))
       \o (IF offset THEN RfmFields("interpretation", <<<<11, 5>>>>) ELSE <<>>)

RfmSecond(q) ==
    LET name == RfmName(pd.cmd)
        value == IF name = "power" THEN RfmImplied(q.v) ELSE IF name = "status" THEN q.w ELSE q.v
        kept == name \in DOMAIN pd.last
        changed == IF ~kept THEN <<>>
                   ELSE SelectSeq(RfmGroups(name), LAMBDA f : RfmDiffers(pd.last[name], value, f))
                        \o (IF name = "config" THEN RfmConfig(pd.last.config, q.v) ELSE <<>>)
        params == RfmFields("commands", RfmParams(name))
        f == [pd EXCEPT !.first = Unknown, !.last = IF kept THEN [@ EXCEPT ![name] = value] ELSE @]
    IN CASE name \in {"frequency", "synchron"} -> Fail(params)   \* a third byte, a name not defined
         [] name = "fifo read" -> Return(f, params \o RfmFields("return", <<<<8, 8>>>>))
         [] name = "status" -> Return(f, params \o RfmStatus(q))
         [] OTHER -> Return(f, params \o RfmFields("interpretation", changed))

Rfm12(q) ==
    /\ SPIHand("rfm12", q)
    /\ \/ q.cmd # "DATA" /\ Ignore
       \/ q.cmd = "DATA" /\ pd.first = Unknown /\ Become([pd EXCEPT !.first = Ss, !.cmd = q.v, !.reply = q.w])
       \/ q.cmd = "DATA" /\ pd.first # Unknown /\ RfmSecond(q)

-----------------------------------------------------------------------------
(* ad5626, rgb_led_spi: the first puts what has come when the chip select  *)
(* rises, the other every three bytes, whatever the chip select does.      *)

Ad0 == [ss |-> 0, data |-> {}]
Ad5626(q) ==
    /\ SPIHand("ad5626", q)
    /\ CASE Rises(q) -> Return([pd EXCEPT !.data = {}], <<P("voltage", pd.ss, Es(q), pd.data)>>)
         [] Falls(q) -> Become([pd EXCEPT !.ss = Ss])
         [] q.cmd = "DATA" -> Become([pd EXCEPT !.data = @ \cup {Ss}])   \* its BITS
         [] OTHER -> Ignore

Rgb0 == [bytes |-> <<>>]
\* Mutant of RgbLedSpi: the color is put over its last byte.
RgbLedSpiLast(q) ==
    LET bytes == Append(pd.bytes, Ss)
    IN /\ SPIHand("rgb_led_spi", q)
       /\ CASE q.cmd # "DATA" -> Ignore
            [] q.cmd = "DATA" /\ Len(bytes) < 3 -> Become([bytes |-> bytes])
            [] q.cmd = "DATA" /\ Len(bytes) = 3 -> Return(Rgb0, <<Span("rgb", Ss, Ss, Range(bytes))>>)
RgbLedSpi(q) ==
    LET bytes == Append(pd.bytes, Ss)
    IN /\ SPIHand("rgb_led_spi", q)
       /\ CASE q.cmd # "DATA" -> Ignore
            [] q.cmd = "DATA" /\ Len(bytes) < 3 -> Become([bytes |-> bytes])
            [] q.cmd = "DATA" /\ Len(bytes) = 3 -> Return(Rgb0, <<Span("rgb", bytes[1], Ss, Range(bytes))>>)
=============================================================================
