----------------------------- MODULE I2CRegisters -----------------------------
(***************************************************************************)
(* The I2C scripts that decode a register file: the master writes a        *)
(* register number and then registers, or restarts and reads them.  The    *)
(* states WRITE RTC REGS, WRITE IO REGS and WRITE REGS of the scripts have *)
(* one name here, and so have those of reading.                            *)
(***************************************************************************)
EXTENDS I2CPackets

RegMoves == {
    <<"IDLE", "START", "GET SLAVE ADDR">>,
    <<"GET SLAVE ADDR", "ADDRESS WRITE", "GET REG ADDR">>,
    <<"WRITE REGS", "START REPEAT", "READ REGS">>,
    <<"READ REGS", "ADDRESS READ", "READ REGS2">>}

Moves(q) == {m \in RegMoves : m[1] = pd.state /\ m[2] = q.cmd}
Selects(q) == pd.state = "GET REG ADDR" /\ q.cmd = "DATA WRITE"
Accesses(q) == \/ pd.state = "WRITE REGS" /\ q.cmd = "DATA WRITE"
               \/ pd.state = "READ REGS2" /\ q.cmd = "DATA READ"
Stops(q) == pd.state \in {"WRITE REGS", "READ REGS2"} /\ q.cmd = "STOP"
Passes(q) == Moves(q) = {} /\ ~Selects(q) /\ ~Accesses(q) /\ ~Stops(q)

\* The attributes after a move; the scripts that annotate the whole transaction
\* note where it starts.
Moved(q) ==
    LET to == (CHOOSE m \in Moves(q) : TRUE)[3]
    IN IF to = "GET SLAVE ADDR" /\ "ss_block" \in DOMAIN pd
       THEN [pd EXCEPT !.state = to, !.ss_block = Ss]
       ELSE [pd EXCEPT !.state = to]

Bit(b, i) == (b \div 2^i) % 2

-----------------------------------------------------------------------------
(* rtc8564: registers 0 to 15, the date and time in 2 to 8. *)

RtcTime == 2..8
Rtc0 == [state |-> "IDLE", ss_block |-> 0, reg |-> 0, time |-> [r \in RtcTime |-> Unknown]]

\* handle_reg_0x..: the highest bit of an item; those above are put one by one.
RtcTop == <<7, 6, 6, 5, 5, 2, 4>>
\* Mutant of RtcPuts: the highest bit of an item is put by itself, too.
RtcPutsTwice(r) ==
    CASE r \in {1, 8} -> <<P("bits", Ss, Ss + Width, {Ss})>>
      [] r \in 2..7 -> [i \in 1..(8 - RtcTop[r]) |-> Bits("bits", Ss, 8 - i, 8 - i)]
                           \o <<Bits("bits", Ss, RtcTop[r], 0)>>
      [] OTHER -> <<>>
RtcPuts(r) ==
    CASE r \in {1, 8} -> <<P("bits", Ss, Ss + Width, {Ss})>>
      [] r \in 2..7 -> [i \in 1..(7 - RtcTop[r]) |-> Bits("bits", Ss, 8 - i, 8 - i)]
                           \o <<Bits("bits", Ss, RtcTop[r], 0)>>
      [] OTHER -> <<>>

\* The date and time, from what was seen last of each item but the weekday.
RtcBlock(q) == P("date-time", pd.ss_block, Es(q), {pd.time[r] : r \in RtcTime \ {6}})

Rtc8564(q) ==
    /\ I2CHand("rtc8564", q)
    /\ \/ Passes(q) /\ Ignore
       \/ Moves(q) # {} /\ Become(Moved(q))
       \/ Selects(q) /\ Become([pd EXCEPT !.state = "WRITE REGS", !.reg = q.v])
       \/ Stops(q) /\ Return([pd EXCEPT !.state = "IDLE"], <<RtcBlock(q)>>)
       \/ /\ Accesses(q) /\ pd.reg <= 15
          /\ Return([pd EXCEPT !.reg = @ + 1,
                               !.time = [r \in RtcTime |-> IF r = pd.reg THEN Ss ELSE @[r]]],
                    <<Byte("regs", q)>> \o RtcPuts(pd.reg))
       \/ Accesses(q) /\ pd.reg > 15 /\ Fail(<<Byte("regs", q)>>)

-----------------------------------------------------------------------------
(* ds1307: registers 0 to 7, the others are RAM; the number wraps at 0x3f. *)

DsTime == 0..6
DsChip == \h68   \* DS1307_I2C_ADDRESS
Ds0 == [state |-> "IDLE", ss_block |-> 0, reg |-> 0, time |-> [r \in DsTime |-> Unknown]]

\* handle_reg_0x..: the bits of register r in the order they are put.
DsFields(r, b) ==
    CASE r \in {0, 1} -> <<<<7, 7>>, <<6, 0>>>>
      [] r = 2 -> IF Bit(b, 6) = 1 THEN <<<<7, 7>>, <<6, 6>>, <<5, 5>>, <<4, 0>>>>
                                   ELSE <<<<7, 7>>, <<6, 6>>, <<5, 0>>>>
      [] r = 3 -> <<<<7, 7>>, <<6, 6>>, <<5, 5>>, <<4, 4>>, <<3, 3>>, <<2, 0>>>>
      [] r = 4 -> <<<<7, 7>>, <<6, 6>>, <<5, 0>>>>
      [] r = 5 -> <<<<7, 7>>, <<6, 6>>, <<5, 5>>, <<4, 0>>>>
      [] r = 7 -> <<<<6, 6>>, <<5, 5>>, <<3, 3>>, <<2, 2>>, <<7, 7>>, <<4, 4>>, <<1, 0>>>>
      [] OTHER -> <<<<7, 0>>>>
DsPuts(r, b) ==
    <<Bits("regs", Ss, 7, 0)>> \o
    [i \in DOMAIN DsFields(r, b) |-> Bits("bits", Ss, DsFields(r, b)[i][1], DsFields(r, b)[i][2])]

DsBlock(q) == P("date_time", pd.ss_block, Es(q), {pd.time[r] : r \in DsTime})

\* is_correct_chip
DsWarning(q) == <<P("warnings", pd.ss_block, Es(q), {})>>

Ds1307(q) ==
    /\ I2CHand("ds1307", q)
    /\ \/ Passes(q) /\ Ignore
       \/ /\ Moves(q) # {} /\ ~(IsAddress(q) /\ q.v # DsChip)
          /\ Become(Moved(q))
       \/ /\ Moves(q) # {} /\ IsAddress(q) /\ q.v # DsChip
          /\ Return([pd EXCEPT !.state = "IDLE"], DsWarning(q))
       \/ Selects(q) /\ Become([pd EXCEPT !.state = "WRITE REGS", !.reg = q.v])
       \/ Stops(q) /\ Return([pd EXCEPT !.state = "IDLE"], <<DsBlock(q)>>)
       \/ /\ Accesses(q)
          /\ Return([pd EXCEPT !.reg = IF @ + 1 > \h3f THEN 0 ELSE @ + 1,
                               !.time = [r \in DsTime |-> IF r = pd.reg THEN Ss ELSE @[r]]],
                    DsPuts(pd.reg, q.v))

-----------------------------------------------------------------------------
(* mxc6225xu: registers 0 to 3. *)

Mxc0 == [state |-> "IDLE", reg |-> 0]

Mxc6225xu(q) ==
    /\ I2CHand("mxc6225xu", q)
    /\ \/ Passes(q) /\ Ignore
       \/ Moves(q) # {} /\ Become(Moved(q))
       \/ Selects(q) /\ Become([pd EXCEPT !.state = "WRITE REGS", !.reg = q.v])
       \/ Stops(q) /\ Goto("IDLE")
       \/ /\ Accesses(q) /\ pd.reg <= 3
          /\ Return([pd EXCEPT !.reg = @ + 1], <<Byte("mxc6225xu", q)>>)
       \/ Accesses(q) /\ pd.reg > 3 /\ Fail(<<>>)

-----------------------------------------------------------------------------
(* tca6408a: registers 0 to 3, the number stays.  Whatever follows START   *)
(* is taken for the slave address; before a byte that is its BITS packet,  *)
(* so the address byte itself already meets GET REG ADDR.  The logic       *)
(* output, which start() cannot register in this library, is left out.     *)

TcaChips == {\h20, \h21}
Tca0 == [state |-> "IDLE", reg |-> 0]

Tca6408a(q) ==
    /\ I2CHand("tca6408a", q)
    /\ LET addressed == pd.state \in {"GET SLAVE ADDR", "GET REG ADDR"} IN
       \/ pd.state = "GET SLAVE ADDR" /\ ~IsAddress(q) /\ Goto("GET REG ADDR")
       \/ addressed /\ IsAddress(q) /\ q.v \in TcaChips /\ Goto("GET REG ADDR")
       \/ /\ addressed /\ IsAddress(q) /\ q.v \notin TcaChips
          /\ Return([pd EXCEPT !.state = "IDLE"], <<Note("warnings", q)>>)
       \/ /\ Selects(q)
          /\ Return([pd EXCEPT !.state = "WRITE REGS", !.reg = q.v],
                    IF q.v <= 3 THEN <<Byte("regs", q)>> ELSE <<>>)
       \/ Moves(q) # {} /\ ~addressed /\ Become(Moved(q))
       \/ Stops(q) /\ Goto("IDLE")
       \/ Accesses(q) /\ pd.reg <= 3 /\ Return(pd, <<Byte("regs", q)>>)
       \/ Accesses(q) /\ pd.reg > 3 /\ Fail(<<>>)
       \/ Passes(q) /\ pd.state # "GET SLAVE ADDR" /\ ~(addressed /\ IsAddress(q)) /\ Ignore

-----------------------------------------------------------------------------
(* pca9571: one output register; every START and every STOP or NACK sets   *)
(* the machine back.  The logic output, as in tca6408a, is left out.       *)

PcaChip == \h25
Pca0 == [state |-> "IDLE", last_write |-> \hff]

Pca9571(q) ==
    /\ I2CHand("pca9571", q)
    /\ \/ q.cmd = "ACK" /\ Ignore
       \/ q.cmd \in {"START", "START REPEAT"} /\ Goto("GET SLAVE ADDR")
       \/ q.cmd \in {"NACK", "STOP"} /\ Goto("IDLE")
       \/ /\ IsAddress(q) /\ pd.state = "GET SLAVE ADDR" /\ q.v = PcaChip
          /\ Goto(IF q.cmd = "ADDRESS READ" THEN "READ DATA" ELSE "WRITE DATA")
       \/ /\ IsAddress(q) /\ pd.state = "GET SLAVE ADDR" /\ q.v # PcaChip
          /\ Return([pd EXCEPT !.state = "IDLE"], <<Note("warnings", q)>>)
       \/ /\ \/ IsAddress(q) /\ pd.state # "GET SLAVE ADDR"
             \/ IsData(q) /\ pd.state \notin {"READ DATA", "WRITE DATA"}
          /\ Goto("IDLE")
       \/ /\ IsData(q) /\ pd.state = "READ DATA"   \* handle_io
          /\ Return(pd, (IF q.v # pd.last_write THEN <<Note("warnings", q)>> ELSE <<>>)
                            \o <<Byte("regs", q)>>)
       \/ /\ IsData(q) /\ pd.state = "WRITE DATA"
          /\ Return([pd EXCEPT !.last_write = q.v], <<Byte("regs", q)>>)

-----------------------------------------------------------------------------
(* nunchuk: six registers read in one block, or an init sequence written.  *)

NunFields == {"sx", "sy", "ax", "ay", "az", "bz"}   \* bc is set with bz
NunReg == <<"sx", "sy", "ax", "ay", "az", "bz">>
Nun0 == [state |-> "IDLE", reg |-> 0, ss_block |-> 0, init_seq |-> <<>>,
         seen |-> [f \in NunFields |-> Unknown]]

\* handle_reg_0x..: the last one puts its bits from the lowest on.
NunPuts(q) ==
    IF pd.reg < 5 THEN <<Byte("regs", q)>>
    ELSE <<Bits("regs", Ss, 0, 0), Bits("regs", Ss, 1, 1), Bits("regs", Ss, 3, 2),
           Bits("regs", Ss, 5, 4), Bits("regs", Ss, 7, 6)>>

NunRegister(q) ==
    /\ pd.state = "READ REGS" /\ q.cmd = "DATA READ"
    /\ \/ /\ pd.reg <= 5
          /\ Return([pd EXCEPT !.ss_block = IF pd.reg = 0 THEN Ss ELSE @,
                               !.seen[NunReg[pd.reg + 1]] = Ss,
                               !.reg = IF @ = 5 THEN 1 ELSE @ + 1], NunPuts(q))
       \/ pd.reg > 5 /\ Fail(<<>>)

\* output_full_block_if_possible, output_init_seq
NunStop(q) ==
    /\ q.cmd = "STOP" /\ pd.state \in {"READ REGS", "WRITE REGS"}
    /\ LET shown == {pd.seen[f] : f \in NunFields}
           known == Unknown \notin shown
       IN \/ /\ pd.state = "READ REGS"
             /\ Return([pd EXCEPT !.state = "IDLE", !.seen = Nun0.seen],
                       IF known THEN <<P("summary", pd.ss_block, Es(q), shown)>> ELSE <<>>)
          \/ /\ pd.state = "WRITE REGS"
             /\ Return([pd EXCEPT !.state = "IDLE", !.init_seq = <<>>],
                       <<P(IF pd.init_seq = <<\h40, 0>> THEN "regs" ELSE "warnings",
                           pd.ss_block, Es(q), {})>>)

Nunchuk(q) ==
    /\ I2CHand("nunchuk", q)
    /\ \/ /\ pd.state = "IDLE" /\ q.cmd = "START"
          /\ Become([pd EXCEPT !.state = "GET SLAVE ADDR", !.ss_block = Ss])
       \/ pd.state = "IDLE" /\ q.cmd # "START" /\ Ignore
       \/ pd.state = "GET SLAVE ADDR" /\ q.cmd = "ADDRESS READ" /\ Goto("READ REGS")
       \/ pd.state = "GET SLAVE ADDR" /\ q.cmd = "ADDRESS WRITE" /\ Goto("WRITE REGS")
       \/ pd.state = "GET SLAVE ADDR" /\ ~IsAddress(q) /\ Ignore
       \/ NunRegister(q)
       \/ /\ pd.state = "WRITE REGS" /\ q.cmd = "DATA WRITE"   \* handle_reg_write
          /\ Return([pd EXCEPT !.init_seq = IF Len(@) < 2 THEN Append(@, q.v) ELSE @],
                    <<Byte("regs", q)>>)
       \/ NunStop(q)
       \/ pd.state = "READ REGS" /\ q.cmd \notin {"DATA READ", "STOP"} /\ Ignore
       \/ pd.state = "WRITE REGS" /\ q.cmd \notin {"DATA WRITE", "STOP"} /\ Ignore
=============================================================================
