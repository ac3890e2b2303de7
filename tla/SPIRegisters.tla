----------------------------- MODULE SPIRegisters -----------------------------
(***************************************************************************)
(* SPI scripts that collect the bytes of a command until they know its     *)
(* length, and put a register access: mrf24j40, ade77xx, adns5020,         *)
(* max7219, adxl345 and enc28j60.                                          *)
(***************************************************************************)
EXTENDS SPIPackets

(* What mrf24j40, ade77xx and adns5020 keep of a command: the bytes so far. *)

Collect0 == [bytes |-> <<>>, ss_cmd |-> 0]
Collected(q) == Append(pd.bytes, [at |-> Ss, v |-> q.v])
Collect(q) == [pd EXCEPT !.bytes = Collected(q), !.ss_cmd = IF pd.bytes = <<>> THEN Ss ELSE @]
\* putx(): over the command, with its bytes from the one at index from on.
CommandPut(row, q, from) ==
    LET b == Collected(q)
    IN P(row, b[1].at, Es(q), {b[i].at : i \in from..Len(b)})
\* The chip select rises within a command.
Misplaced(q) == Return([pd EXCEPT !.bytes = <<>>], <<P("warnings", pd.ss_cmd, Es(q), {})>>)

-----------------------------------------------------------------------------
(* mrf24j40: two bytes for a short address, three for a long one.  The     *)
(* bytes of the transmit and receive buffers are kept as a frame, which is *)
(* put when a short access starts the transmitter or flushes the receiver. *)

MrfEmpty == [ss |-> 0, es |-> 0, bytes |-> {}]
Mrf0 == Collect0 @@ [tx |-> MrfEmpty, rx |-> MrfEmpty]
RXFLUSH == \h0d
TXNCON == \h1b
TXSTAT == \h24

MrfFrame(row, f) == P(row, f.ss, f.es, f.bytes)

\* handle_short: the text of every write is formatted with an argument too many.
MrfShort(q) ==
    LET reg == (pd.bytes[1].v \div 2) % 64
        triggers(r) == reg = r /\ q.v % 2 = 1
        rx == triggers(RXFLUSH) /\ pd.rx # MrfEmpty
        tx == triggers(TXNCON) /\ pd.tx # MrfEmpty
        frames == (IF rx THEN <<MrfFrame("rx-frames", pd.rx)>> ELSE <<>>)
                  \o (IF tx THEN <<MrfFrame("tx-frames", pd.tx)>> ELSE <<>>)
        retries == q.w \div 64
        retried == <<"tx-retries-1", "tx-retries-2", "tx-retries-3", "tx-fails">>[retries + (q.w % 2)]
        status == (IF retries > 0 THEN <<CommandPut(retried, q, 2)>> ELSE <<>>)
                  \o (IF (q.w \div 32) % 2 = 1 THEN <<CommandPut("ccafails", q, 2)>> ELSE <<>>)
    IN \/ pd.bytes[1].v % 2 = 1 /\ Fail(frames)
       \/ /\ pd.bytes[1].v % 2 = 0
          /\ Return([Collect(q) EXCEPT !.bytes = <<>>, !.rx = IF rx THEN MrfEmpty ELSE @,
                                       !.tx = IF tx THEN MrfEmpty ELSE @],
                    frames \o <<CommandPut("reads", q, 2)>> \o IF reg = TXSTAT THEN status ELSE <<>>)

\* handle_long
MrfLong(q) ==
    LET dword == 256 * pd.bytes[1].v + pd.bytes[2].v
        reg == (dword \div 32) % 1024
        row == IF (dword \div 16) % 2 = 1 THEN "writes" ELSE "reads"
        Kept(f) == [ss |-> IF f = MrfEmpty THEN pd.ss_cmd ELSE f.ss, es |-> Es(q),
                    bytes |-> f.bytes \cup {Ss}]
    IN Return([Collect(q) EXCEPT !.bytes = <<>>, !.tx = IF reg < \h80 THEN Kept(@) ELSE @,
                                 !.rx = IF reg >= \h300 THEN Kept(@) ELSE @],
              <<CommandPut(row, q, 3)>>)

Mrf24j40(q) ==
    /\ SPIHand("mrf24j40", q)
    /\ LET n == Len(pd.bytes)
           long == n > 0 /\ pd.bytes[1].v >= \h80
           data == q.cmd = "DATA"
       IN \/ ~data /\ Rises(q) /\ n = 1 /\ Misplaced(q)
          \/ ~data /\ (~Rises(q) \/ n # 1) /\ Ignore
          \/ data /\ (n = 0 \/ (long /\ n = 1)) /\ Become(Collect(q))
          \/ data /\ ~long /\ n = 1 /\ MrfShort(q)
          \/ data /\ long /\ n = 2 /\ MrfLong(q)

-----------------------------------------------------------------------------
(* ade77xx: the register tells how many bytes follow. *)

AdeBytes(reg) ==
    CASE reg \in 1..9 \cup {\h10, \h1b, \h1c} \cup \h24..\h3e \cup \h45..\h48 -> 2
      [] reg \in \h0a..\h0f \cup {\h12, \h18, \h19, \h1a} -> 3
      [] reg \in {\h11} \cup \h13..\h17 \cup \h1d..\h23 \cup \h3f..\h44 \cup {\h7e, \h7f} -> 1
      [] OTHER -> 0   \* unknown

AdeRow(b) == IF b >= \h80 THEN "write" ELSE "read"

Ade77xx(q) ==
    /\ SPIHand("ade77xx", q)
    /\ LET n == Len(pd.bytes)
           first == IF n = 0 THEN 0 ELSE pd.bytes[1].v
           expected == AdeBytes(first % 128)
           data == q.cmd = "DATA"
       IN \/ /\ Rises(q) /\ n > 1 /\ n - 1 < expected
             /\ Return([pd EXCEPT !.bytes = <<>>], <<P(AdeRow(first), pd.ss_cmd, Es(q), {}),
                                                     P("warnings", pd.ss_cmd, Es(q), {})>>)
          \/ Rises(q) /\ (n <= 1 \/ n - 1 >= expected) /\ Become([pd EXCEPT !.bytes = <<>>])
          \/ ~data /\ ~Rises(q) /\ Ignore
          \/ data /\ (n = 0 \/ n < expected) /\ Become(Collect(q))
          \/ data /\ n > 0 /\ expected = 0 /\ Return(Collect(q), <<P("warnings", pd.ss_cmd, Es(q), {})>>)
          \/ /\ data /\ n > 0 /\ n = expected
             /\ Return([Collect(q) EXCEPT !.bytes = <<>>], <<CommandPut(AdeRow(first), q, 2)>>)

-----------------------------------------------------------------------------
(* adns5020: two bytes *)

Adns5020(q) ==
    /\ SPIHand("adns5020", q)
    /\ LET n == Len(pd.bytes)
           row == IF n > 0 /\ pd.bytes[1].v >= 128 THEN "write" ELSE "read"
           data == q.cmd = "DATA"
       IN \/ ~data /\ Rises(q) /\ n = 1 /\ Misplaced(q)
          \/ ~data /\ (~Rises(q) \/ n = 0) /\ Ignore
          \/ data /\ n = 0 /\ Become(Collect(q))
          \/ data /\ n = 1 /\ Return([Collect(q) EXCEPT !.bytes = <<>>], <<CommandPut(row, q, 2)>>)

-----------------------------------------------------------------------------
(* max7219: takes the level before a change of the chip select for whether *)
(* it is asserted.                                                         *)

Max0 == [cs_asserted |-> Unknown, pos |-> 0, addr |-> 0, addr_start |-> 0, cs_start |-> 0]
MaxRegs == 0..\h0c \cup {\h0f}

Max7219(q) ==
    /\ SPIHand("max7219", q)
    /\ LET asserted == IF q.v = 1 THEN 1 ELSE 0
           row == IF pd.addr \in MaxRegs THEN "commands" ELSE "warnings"
           late == <<P("warnings", pd.cs_start, Es(q), {})>>
           next == [pd EXCEPT !.pos = @ + 1]
       IN \/ q.cmd = "TRANSFER" /\ Ignore
          \/ q.cmd = "DATA" /\ pd.cs_asserted = 0 /\ Ignore
          \/ /\ q.cmd = "DATA" /\ pd.cs_asserted = 1 /\ pd.pos = 0
             /\ Become([next EXCEPT !.addr = q.v, !.addr_start = Ss])
          \/ /\ q.cmd = "DATA" /\ pd.cs_asserted = 1 /\ pd.pos = 1
             /\ Return(next, <<P(row, pd.addr_start, Es(q), {Ss})>>)
          \/ q.cmd = "DATA" /\ pd.cs_asserted = 1 /\ pd.pos > 1 /\ Become(next)
          \/ /\ q.cmd = "CS-CHANGE" /\ asserted = 1
             /\ Become([pd EXCEPT !.cs_asserted = 1, !.pos = 0, !.cs_start = Ss])
          \/ /\ q.cmd = "CS-CHANGE" /\ asserted = 0
             /\ Return([pd EXCEPT !.cs_asserted = 0], IF pd.pos \in {0, 2} THEN <<>> ELSE late)

-----------------------------------------------------------------------------
(* adxl345: an address byte, then registers from there on. *)

Adxl0 == [state |-> "IDLE", read |-> FALSE, address |-> 0, low |-> Unknown]

\* Field k bits wide from bit index i of the byte at ss, index 0 being the first.
AdxlBits(i, k) == P("data", Ss + i, Ss + i + k, {Ss})
\* interpret_bits: one annotation for each of the bits at the indices in s.
AdxlEach(s) == [i \in DOMAIN s |-> AdxlBits(s[i], 1)]
AdxlAll == AdxlEach(<<0, 1, 2, 3, 4, 5, 6, 7>>)

\* The handle_reg_0x.. that put bits; the wider fields come last.
AdxlFields(reg) ==
    CASE reg \in {\h27, \h2a, \h2b, \h2e, \h2f, \h30} -> AdxlAll
      [] reg = \h2c -> AdxlEach(<<0, 1, 2, 3>>) \o <<AdxlBits(4, 4)>>
      [] reg \in {\h2d, \h31} -> AdxlEach(<<0, 1, 2, 3, 4, 5>>) \o <<AdxlBits(6, 2)>>
      [] reg = \h38 -> AdxlEach(<<2>>) \o <<AdxlBits(0, 2), AdxlBits(3, 5)>>
      [] reg = \h39 -> AdxlEach(<<0, 1>>) \o <<AdxlBits(2, 6)>>
      [] OTHER -> <<P("data", Ss, Ss + Width, {Ss})>>   \* and get_axis_value of one byte

\* The bytes of an axis are put together, whichever low byte came last.
AdxlLows == {\h32, \h34, \h36}
AdxlHighs == {\h33, \h35, \h37}
AdxlPuts(reg) ==
    <<P("reg", Ss, Ss + Width, {})>> \o
    IF reg \in AdxlHighs /\ pd.low # Unknown
    THEN <<P("data", pd.low, Ss + Width, {pd.low, Ss})>> ELSE AdxlFields(reg)

AdxlAddress(q) ==
    Return([pd EXCEPT !.read = q.v >= 128, !.address = q.v % 64, !.state = "DATA"],
           <<Bits("reg", Ss, 7, 7), Bits("reg", Ss, 6, 6), Bits("reg", Ss, 5, 0)>>)

Adxl345(q) ==
    /\ SPIHand("adxl345", q)
    /\ LET reg == pd.address
           data == q.cmd = "DATA"
       IN \/ q.cmd = "TRANSFER" /\ Ignore
          \/ q.cmd = "CS-CHANGE" /\ Goto(IF Falls(q) THEN "ADDRESS_BYTE" ELSE "IDLE")
          \/ data /\ pd.state = "IDLE" /\ Ignore
          \/ data /\ pd.state = "ADDRESS_BYTE" /\ AdxlAddress(q)
          \/ data /\ pd.state = "DATA" /\ reg > \h39 /\ Ignore
          \/ /\ data /\ pd.state = "DATA" /\ reg <= \h39
             /\ Return([pd EXCEPT !.address = @ + 1,
                                  !.low = CASE reg \in AdxlLows -> Ss
                                            [] reg \in AdxlHighs -> Unknown [] OTHER -> @],
                       AdxlPuts(reg))

-----------------------------------------------------------------------------
(* enc28j60: a transfer is a command, processed when the chip select rises. *)

Enc0 == [bsel0 |-> Unknown, bsel1 |-> Unknown]
ECON1 == \h1f
\* lists.py, by bank: the registers of the MAC and the MII, those reserved.
EncMac(bank, reg) == \/ bank = 2 /\ reg \in {0, 2, 3, 4, 6, 7, 8, 9, 10, 11, \h12, \h14, \h16, \h17, \h18, \h19}
                     \/ bank = 3 /\ reg \in {0, 1, 2, 3, 4, 5, \h0a}
EncReserved(bank, reg) ==
    reg \in <<{\h1a}, {\h16, \h17, \h1a}, {1, \h0c, \h0d, \h0e, \h10, \h11, \h15, \h1a}, {\h16, \h1a}>>[bank + 1]

\* With the n bytes run of a command: annotations over the whole of it, over
\* the header and over data byte i.
EncCmd(row, n) == P(row, Ss, SPIRise(n), {})
EncHeader(row) == P(row, Ss, SPIByte(2), {})
EncByte(i, n) == P("fields", SPIByte(i), IF i = n THEN SPIRise(n) ELSE SPIByte(i + 1), {SPIByte(i)})

\* _put_register_header, of the bank that ECON1 has chosen.
EncKnown == pd.bsel0 # Unknown /\ pd.bsel1 # Unknown
EncRegister(reg) == <<EncHeader("fields")>> \o
    IF ~EncKnown \/ EncReserved(2 * pd.bsel1 + pd.bsel0, reg) THEN <<EncHeader("warnings")>> ELSE <<>>

\* _process_rcr
EncRead(run) ==
    LET n == Len(run)
        reg == run[1] % 32
        dummy == EncKnown /\ (n = 3) # EncMac(2 * pd.bsel1 + pd.bsel0, reg)
        data == IF n = 2 THEN <<EncByte(2, n)>>
                ELSE <<P("fields", SPIByte(2), SPIByte(3), {}), EncByte(3, n)>>
    IN CASE n \notin {2, 3} -> <<EncCmd("warnings", n)>>
         [] n \in {2, 3} /\ dummy -> EncRegister(reg) \o <<EncCmd("warnings", n)>>
         [] OTHER -> EncRegister(reg) \o data

\* _process_wcr, _process_bfc, _process_bfs and _process_src: what ECON1 becomes.
EncBit(op, byte, bit, old) ==
    LET on == (byte \div bit) % 2
    IN CASE op = \h40 -> on
         [] op = \h80 -> IF on = 1 THEN 1 ELSE old
         [] OTHER -> IF on = 1 THEN 0 ELSE old

Enc28j60(run) ==
    /\ script = "enc28j60"
    /\ SPIHandTransfer("enc28j60", Len(run))
    /\ LET n == Len(run)
           op == IF n = 0 THEN 0 ELSE 32 * (run[1] \div 32)
           cmd == <<EncCmd("commands", n)>>
           warn == <<EncCmd("warnings", n)>>
           data == [i \in 1..n - 1 |-> EncByte(i + 1, n)]
           econ1 == run[1] % 32 = ECON1
       IN \/ n = 0 /\ Ignore
          \/ n > 0 /\ op = \hc0 /\ Return(pd, warn)
          \/ n > 0 /\ op = 0 /\ Return(pd, cmd \o EncRead(run))
          \/ /\ n > 0 /\ op \in {\h20, \h60}
             /\ Return(pd, IF run[1] % 32 = \h1a THEN cmd \o data ELSE warn)
          \/ n > 0 /\ op \in {\h40, \h80, \ha0} /\ n # 2 /\ Return(pd, cmd \o warn)
          \/ /\ n = 2 /\ op \in {\h40, \h80, \ha0}
             /\ Return(IF econ1 THEN [bsel0 |-> EncBit(op, run[2], 1, pd.bsel0),
                                      bsel1 |-> EncBit(op, run[2], 2, pd.bsel1)] ELSE pd,
                       cmd \o EncRegister(run[1] % 32) \o <<EncByte(2, n)>>)
          \/ /\ n > 0 /\ op = \he0
             /\ Return(IF n = 1 THEN [bsel0 |-> 0, bsel1 |-> 0] ELSE pd, IF n = 1 THEN cmd ELSE cmd \o warn)
=============================================================================
