------------------------------ MODULE I2CDevices ------------------------------
(***************************************************************************)
(* I2C scripts of single devices (lm75, mlx90614, hdcp, ltc26x7) and the   *)
(* two scripts that pass the packets of chosen slaves on.                  *)
(***************************************************************************)
EXTENDS I2CPackets

(* lm75: the register number is never set, it stays 0; all annotations     *)
(* share the one row of a script that declares none.                       *)

Lm750 == [state |-> "IDLE", databytes |-> <<>>]

Lm75(q) ==
    /\ I2CHand("lm75", q)
    /\ \/ pd.state = "IDLE" /\ q.cmd = "START" /\ Goto("GET SLAVE ADDR")
       \/ /\ pd.state = "GET SLAVE ADDR" /\ IsAddress(q)   \* warn_upon_invalid_slave
          /\ Return([pd EXCEPT !.state = "REGS"],
                    IF q.v \in \h48..\h4f THEN <<>> ELSE <<Note("lm75", q)>>)
       \/ /\ pd.state = "REGS" /\ IsData(q)                \* handle_temperature_reg
          /\ IF pd.databytes = <<>>
             THEN Become([pd EXCEPT !.databytes = <<Ss>>])
             ELSE LET t == P("lm75", pd.databytes[1], Es(q), {pd.databytes[1], Ss})
                  IN Return([pd EXCEPT !.databytes = <<>>],
                            IF q.cmd = "DATA WRITE" THEN <<t, t, t>> ELSE <<t, t>>)
       \/ pd.state = "REGS" /\ q.cmd = "STOP" /\ Goto("IDLE")
       \/ /\ \/ pd.state = "IDLE" /\ q.cmd # "START"
             \/ pd.state = "GET SLAVE ADDR" /\ ~IsAddress(q)
             \/ pd.state = "REGS" /\ ~IsData(q) /\ q.cmd # "STOP"
          /\ Ignore

-----------------------------------------------------------------------------
(* mlx90614: two bytes are kept, the third one puts them.                  *)

Mlx0 == [state |-> "IGNORE START REPEAT", data |-> <<>>]
MlxAwaits == [s \in {"IGNORE START REPEAT", "IGNORE ADDRESS WRITE", "GET TEMPERATURE"} |->
    CASE s = "IGNORE START REPEAT" -> "START REPEAT"
      [] s = "IGNORE ADDRESS WRITE" -> "ADDRESS WRITE"
      [] OTHER -> "DATA WRITE"]

Mlx90614(q) ==
    /\ I2CHand("mlx90614", q)
    /\ \/ q.cmd # MlxAwaits[pd.state] /\ Ignore
       \/ /\ q.cmd = MlxAwaits[pd.state] /\ pd.state # "GET TEMPERATURE"
          /\ Goto(IF pd.state = "IGNORE START REPEAT" THEN "IGNORE ADDRESS WRITE"
                                                      ELSE "GET TEMPERATURE")
       \/ /\ q.cmd = MlxAwaits[pd.state] /\ pd.state = "GET TEMPERATURE" /\ Len(pd.data) < 2
          /\ Become([pd EXCEPT !.data = Append(@, Ss)])
       \/ /\ q.cmd = MlxAwaits[pd.state] /\ pd.state = "GET TEMPERATURE" /\ Len(pd.data) = 2
          /\ Return(Mlx0, [i \in 1..2 |-> Span(<<"temps-celsius", "temps-kelvin">>[i],
                                               pd.data[1], pd.data[2], ToSet(pd.data))])

-----------------------------------------------------------------------------
(* hdcp: a register is chosen and written, or chosen and then read; the    *)
(* bytes are stacked up and put when the transfer ends.                    *)

HdcpSlave == \h3a
Hdcp0 == [state |-> "IDLE", stack |-> <<>>, ss_block |-> 0, type |-> ""]

\* write_items: what the registers are; most put no more than their name.
HdcpType(offset) ==
    CASE offset = \h41 -> "1.4 Bstatus"
      [] offset = \h50 -> "HDCP2Version"
      [] offset = \h60 -> "Write_Message"
      [] offset = \h70 -> "RxStatus"
      [] offset = \h80 -> "Read_Message"
      [] offset \in {0, 8, \h0a, \h10, \h15, \h18, \h20, \h24, \h28, \h2c, \h30, \h40, \h43} -> "1.4"
      [] OTHER -> pd.type
HdcpWritten == {\h10, \h15, \h18, \h60}

\* Mutant of HdcpRow: annotation classes counted one too low.
HdcpRowShifted(msg) ==
    IF msg < 17 THEN "messages" ELSE IF msg = 17 THEN "summaries" ELSE IF msg = 18 THEN "warnings" ELSE "none"
\* The row of a message: its first byte is taken for the annotation class.
HdcpRow(msg) == IF msg < 18 THEN "messages" ELSE IF msg = 18 THEN "summaries" ELSE "warnings"

HdcpEnd(q) ==
    LET idle == [pd EXCEPT !.state = "IDLE"]
        n == Len(pd.stack)
        Summary(row, shown) == <<P(row, pd.ss_block, Es(q), shown)>>
    IN \/ pd.type = "" /\ Become(idle)
       \/ /\ pd.type # "" /\ (n = 0 \/ pd.type = "1.4")
          /\ Return(idle, Summary("summaries", {}))
       \/ /\ pd.type \in {"RxStatus", "1.4 Bstatus"} /\ n >= 2
          /\ Return([idle EXCEPT !.stack = SubSeq(@, 1, n - 2)],
                    Summary("summaries", {pd.stack[n].at, pd.stack[n - 1].at}))
       \/ pd.type \in {"RxStatus", "1.4 Bstatus"} /\ n = 1 /\ Fail(<<>>)
       \/ /\ pd.type \in {"Read_Message", "Write_Message", "HDCP2Version"} /\ n > 0
          /\ LET first == Head(pd.stack)
             IN Return([idle EXCEPT !.stack = Tail(@)],
                       IF pd.type = "HDCP2Version" THEN Summary("summaries", {first.at})
                       ELSE IF first.v > 19 THEN <<>>   \* no such annotation class
                       ELSE Summary(HdcpRow(first.v), {first.at}))

Hdcp(q) ==
    /\ I2CHand("hdcp", q)
    /\ LET Offset(type) ==
              [pd EXCEPT !.type = type,
                         !.state = IF q.v \in HdcpWritten THEN "BUFFER DATA"
                                   ELSE IF type # "" THEN "IDLE" ELSE @]
       IN
       \/ /\ pd.state = "IDLE" /\ q.cmd = "START"
          /\ Become([Hdcp0 EXCEPT !.state = "GET SLAVE ADDR", !.ss_block = Ss])
       \/ pd.state = "IDLE" /\ q.cmd = "START REPEAT" /\ Goto("GET SLAVE ADDR")
       \/ /\ pd.state = "GET SLAVE ADDR" /\ IsAddress(q)
          /\ Goto(IF q.v # HdcpSlave THEN "IDLE"
                  ELSE IF q.cmd = "ADDRESS READ" THEN "BUFFER DATA" ELSE "WRITE OFFSET")
       \/ /\ pd.state = "WRITE OFFSET" /\ q.cmd = "DATA WRITE"
          /\ Become(Offset(HdcpType(q.v)))
       \/ pd.state = "BUFFER DATA" /\ q.cmd \in {"STOP", "NACK"} /\ HdcpEnd(q)
       \/ /\ pd.state = "BUFFER DATA" /\ IsData(q)
          /\ Become([pd EXCEPT !.stack = Append(@, [at |-> Ss, v |-> q.v])])
       \/ /\ \/ pd.state = "IDLE" /\ q.cmd \notin {"START", "START REPEAT"}
             \/ pd.state = "GET SLAVE ADDR" /\ ~IsAddress(q)
             \/ pd.state = "WRITE OFFSET" /\ q.cmd # "DATA WRITE"
             \/ pd.state = "BUFFER DATA" /\ ~IsData(q) /\ q.cmd \notin {"STOP", "NACK"}
          /\ Ignore

-----------------------------------------------------------------------------
(* ltc26x7: a slave address, a command with a DAC, then pairs of bytes.    *)

LtcGlobal == \h73
LtcCommands == {0, 1, 3, 4, \h0f}
LtcDacs == {0, 1, \h0f}
Ltc0 == [state |-> "IDLE", ss |-> Unknown, dac_val |-> 0]

\* handle_slave_addr: bits 0, 1, 4, 5 and 6 less 4 are written to base 3; the
\* division of a negative number never comes to 0.
LtcPins(a) == (a % 4) + 4 * (a \div 16) - 4

LtcVoltage ==
    LET v(row) == P(row, pd.ss, Ss + Width, {pd.ss, Ss})
    IN CASE pd.dac_val = 0 -> <<v("dac_a_voltages")>>
         [] pd.dac_val = 1 -> <<v("dac_b_voltages")>>
         [] OTHER -> <<v("dac_a_voltages"), v("dac_b_voltages")>>

Ltc26x7(q) ==
    /\ I2CHand("ltc26x7", q)
    /\ LET command == q.v \div 16
           dac == q.v % 16
           named == <<Bits("addr_cmd", Ss, 7, 4)>>
       IN
       \/ pd.state = "IDLE" /\ q.cmd = "START" /\ Goto("GET SLAVE ADDR")
       \/ /\ pd.state = "GET SLAVE ADDR" /\ q.cmd = "ADDRESS WRITE"
          /\ IF q.v = LtcGlobal \/ LtcPins(q.v) >= 0
             THEN Return([pd EXCEPT !.state = "GET CMD ADDR", !.ss = Unknown],
                         <<Byte("addr_cmd", q)>>)
             ELSE Hang
       \/ /\ pd.state = "GET CMD ADDR" /\ q.cmd = "DATA WRITE"
          /\ IF command \notin LtcCommands THEN Fail(<<>>)
             ELSE IF dac \notin LtcDacs THEN Fail(named)
             ELSE Return([pd EXCEPT !.state = "WRITE DATA", !.dac_val = dac],
                         named \o <<Bits("addr_cmd", Ss, 3, 0)>>)
       \/ /\ pd.state = "WRITE DATA" /\ q.cmd = "DATA WRITE"
          /\ IF pd.ss = Unknown THEN Become([pd EXCEPT !.ss = Ss])
                                ELSE Return([pd EXCEPT !.ss = Unknown], LtcVoltage)
       \/ pd.state = "WRITE DATA" /\ q.cmd = "STOP" /\ Goto("IDLE")
       \/ /\ \/ pd.state = "IDLE" /\ q.cmd # "START"
             \/ pd.state = "GET SLAVE ADDR" /\ q.cmd # "ADDRESS WRITE"
             \/ pd.state = "GET CMD ADDR" /\ q.cmd # "DATA WRITE"
             \/ pd.state = "WRITE DATA" /\ q.cmd \notin {"DATA WRITE", "STOP"}
          /\ Ignore

-----------------------------------------------------------------------------
(* i2cfilter: packets are kept until a STOP or START REPEAT tells whether  *)
(* they are passed on.                                                     *)

CONSTANT FilterOptions   \* the options address (0 lets every slave pass) and direction
Filter0 == [curslave |-> -1, curdirection |-> "none", packets |-> <<>>]

Passed(stream, packets) == [i \in DOMAIN packets |->
    P(stream, packets[i][1], packets[i][2], {})]

\* Mutant of I2cFilter: only what is passed on is forgotten.
I2cFilterHoards(q) ==
    /\ I2CHand("i2cfilter", q)
    /\ LET packets == Append(pd.packets, <<Ss, Es(q)>>)
           wanted == /\ FilterOptions.address \in {0, pd.curslave}
                     /\ FilterOptions.direction \in {"both", pd.curdirection}
       IN
       \/ /\ IsAddress(q)
          /\ Become([pd EXCEPT !.packets = packets, !.curslave = q.v,
                               !.curdirection = IF q.cmd = "ADDRESS READ" THEN "read" ELSE "write"])
       \/ /\ q.cmd \in {"STOP", "START REPEAT"} /\ wanted
          /\ Return([pd EXCEPT !.packets = <<>>], Passed("i2c", packets))
       \/ /\ ~IsAddress(q) /\ ~(q.cmd \in {"STOP", "START REPEAT"} /\ wanted)
          /\ Become([pd EXCEPT !.packets = packets])
I2cFilter(q) ==
    /\ I2CHand("i2cfilter", q)
    /\ LET packets == Append(pd.packets, <<Ss, Es(q)>>)
           wanted == /\ FilterOptions.address \in {0, pd.curslave}
                     /\ FilterOptions.direction \in {"both", pd.curdirection}
       IN
       \/ /\ IsAddress(q)
          /\ Become([pd EXCEPT !.packets = packets, !.curslave = q.v,
                               !.curdirection = IF q.cmd = "ADDRESS READ" THEN "read" ELSE "write"])
       \/ /\ q.cmd \in {"STOP", "START REPEAT"}
          /\ Return([pd EXCEPT !.packets = <<>>], IF wanted THEN Passed("i2c", packets) ELSE <<>>)
       \/ /\ ~IsAddress(q) /\ q.cmd \notin {"STOP", "START REPEAT"}
          /\ Become([pd EXCEPT !.packets = packets])

-----------------------------------------------------------------------------
(* i2cdemux: each slave has a stream of its own, all packets up to a STOP  *)
(* go to the stream of the slave addressed last.                           *)

Demux0 == [packets |-> <<>>, slaves |-> <<>>, stream |-> -1]

I2cDemux(q) ==
    /\ I2CHand("i2cdemux", q)
    /\ LET packets == Append(pd.packets, <<Ss, Es(q)>>)
           slaves == IF q.v \in ToSet(pd.slaves) THEN pd.slaves ELSE Append(pd.slaves, q.v)
       IN
       \/ /\ IsAddress(q)
          /\ Become([packets |-> packets, slaves |-> slaves,
                     stream |-> (CHOOSE i \in DOMAIN slaves : slaves[i] = q.v) - 1])
       \/ q.cmd = "STOP" /\ pd.stream = -1 /\ Fail(<<>>)   \* Invalid stream!
       \/ /\ q.cmd = "STOP" /\ pd.stream # -1
          /\ Return([pd EXCEPT !.packets = <<>>, !.stream = -1],
                    Passed(ToString(pd.slaves[pd.stream + 1]), packets))
       \/ /\ ~IsAddress(q) /\ q.cmd # "STOP"
          /\ Become([pd EXCEPT !.packets = packets])
=============================================================================
